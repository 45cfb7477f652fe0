--------------------------- MODULE RegisterProofs ---------------------------
(***************************************************************************)
(* Proofs about a register and its rules for every number of masters, bits *)
(* and rules.                                                              *)
(***************************************************************************)
EXTENDS Register, TLAPS

(* The frame of a request. *)
Frames ==
  [at : {"pre", "apply", "post", "return"}, op : {"write", "read", "merge"},
   value : Values, bits : Values, old : Values, new : Values,
   calls : SUBSET Rules, told : SUBSET Rules, clean : BOOLEAN]

(* The types of the variables. *)
TypeOK ==
  /\ setup \in Setups
  /\ events \in BOOLEAN
  /\ buf \in [{"i", "o"} -> Values] /\ mask \in [{"i", "o"} -> Values]
  /\ req \in [Masters -> Frames \cup {Idle}]
  /\ cpu \in Masters \cup {Nobody}
  /\ asleep \in SUBSET Masters /\ awake \in SUBSET Masters
  /\ ready \in SUBSET Rules

(* Who is in the middle of telling rules runs; who runs, or has waited, is  *)
(* in a request, and does not wait.                                         *)
Scheduled ==
  /\ cpu # Nobody => req[cpu] # Idle /\ cpu \notin asleep \cup awake
  /\ \A m \in Masters : req[m] # Idle /\ req[m].at \in {"pre", "post"} => cpu = m
  /\ \A m \in asleep \cup awake : req[m] # Idle
  /\ asleep \cap awake = {}

(* A handler that was told is still to run; nobody wakes up before it has.  *)
(* A process that tells by events and goes on without waiting is no thread, *)
(* and told by its post rules.                                              *)
Told ==
  /\ \A m \in Masters : req[m] # Idle => req[m].told \subseteq ready
  /\ \A m \in awake : req[m].told = {}
  /\ cpu # Nobody /\ req[cpu].told # {} =>
       /\ events
       /\ req[cpu].at = "pre" => setup.kind[cpu] = "thread"
       /\ req[cpu].at # "apply"
       /\ req[cpu].at = "return" => setup.kind[cpu] # "thread"

(* As long as nothing else has changed the register, what a write is going  *)
(* to store differs from the buffer in bits that it may change only, and    *)
(* what the adapter has read is what is there.                              *)
FreshFrame(f) ==
  /\ f.op = "merge" => f.value \subseteq f.bits /\ f.bits # Bits
  /\ f.clean /\ ~ setup.split /\ f.op = "merge" /\ f.at \in {"post", "return"} =>
       f.new = buf["o"]
  /\ /\ f.clean /\ (setup.split => f.bits = Bits)
     /\ f.op = "write" /\ f.at \in {"pre", "apply"}
     => LET may == mask["o"] \cap f.bits IN f.new \ may = buf[In] \ may

Fresh == \A m \in Masters : req[m] # Idle => FreshFrame(req[m])

(* The inductive invariant. *)
IInv == TypeOK /\ Scheduled /\ Told /\ Fresh

-----------------------------------------------------------------------------
USE MastersAreSomebody, SetupsAssumption

(* What req may be. *)
Requests == [Masters -> Frames \cup {Idle}]

(* A frame is not mistaken for no request. *)
LEMMA FrameIsNotIdle == \A f \in Frames : f # Idle
<1> SUFFICES ASSUME NEW f \in Frames, f = Idle PROVE FALSE OBVIOUS
<1>1. f.at # "idle" BY DEF Frames
<1> QED BY <1>1 DEF Idle

(* The same request, but for what has happened around it. *)
SameRequest(f, g) ==
  /\ g.at = f.at /\ g.op = f.op /\ g.value = f.value /\ g.bits = f.bits
  /\ g.old = f.old /\ g.new = f.new /\ g.told = f.told

(* After the register has changed no request in work is clean. *)
LEMMA RacedRequests ==
  ASSUME NEW rq \in Requests
  PROVE  /\ Raced(rq) \in Requests
         /\ \A m \in Masters :
              /\ rq[m] = Idle <=> Raced(rq)[m] = Idle
              /\ rq[m] # Idle => SameRequest(rq[m], Raced(rq)[m]) /\ ~ Raced(rq)[m].clean
<1>1. ASSUME NEW m \in Masters, rq[m] # Idle
      PROVE  /\ Raced(rq)[m] \in Frames
             /\ SameRequest(rq[m], Raced(rq)[m]) /\ ~ Raced(rq)[m].clean
  <2>1. rq[m] \in Frames BY <1>1 DEF Requests
  <2>2. Raced(rq)[m] = [rq[m] EXCEPT !.clean = FALSE] BY <1>1 DEF Raced
  <2> QED BY <2>1, <2>2 DEF Frames, SameRequest
<1>2. ASSUME NEW m \in Masters, rq[m] = Idle PROVE Raced(rq)[m] = Idle
  BY <1>2 DEF Raced
<1>3. Raced(rq) = [m \in Masters |-> Raced(rq)[m]] BY DEF Raced
<1>4. Raced(rq) \in Requests BY <1>1, <1>2, <1>3 DEF Requests
<1> QED BY <1>1, <1>2, <1>4, FrameIsNotIdle

(* What a handler or a callback may do to the requests in work. *)
LEMMA DeviceEffect ==
  ASSUME TypeOK, NEW rq \in Requests, NEW rd \in SUBSET Rules,
         MayDeviceSet(rq, rd) \/ DeviceSets(rq, rd)
  PROVE  /\ req' \in Requests /\ buf' \in [{"i", "o"} -> Values]
         /\ rd \subseteq ready' /\ ready' \subseteq Rules
         /\ \A m \in Masters :
              /\ rq[m] = Idle <=> req'[m] = Idle
              /\ rq[m] # Idle =>
                   /\ SameRequest(rq[m], req'[m])
                   /\ req'[m].clean => rq[m].clean /\ buf'[In] = buf[In]
<1>1. CASE req' = rq /\ ready' = rd /\ UNCHANGED <<buf, sets>>
  BY <1>1 DEF SameRequest, TypeOK, Requests
<1>2. CASE DeviceSets(rq, rd)
  <2>1. PICK b \in {In, "o"}, v \in Values :
          /\ Set(b, v)
          /\ ready' = rd \cup ByEvent(UserRules(b, v))
          /\ req' = IF b = In THEN Raced(rq) ELSE rq
    BY <1>2 DEF DeviceSets
  <2>2. ready' \subseteq Rules BY <2>1 DEF ByEvent, UserRules, Notified
  <2>3. buf' \in [{"i", "o"} -> Values] BY <2>1 DEF Set, TypeOK, In
  <2>4. b # In => buf'[In] = buf[In] BY <2>1 DEF Set, TypeOK, In
  <2> QED BY <2>1, <2>2, <2>3, <2>4, RacedRequests DEF SameRequest
<1> QED BY <1>1, <1>2 DEF MayDeviceSet

(* The rules that tell by events are rules, and none with events disabled. *)
LEMMA EventsOfRules ==
  ASSUME NEW rs \in SUBSET Rules
  PROVE  /\ Events(rs) \in SUBSET Rules /\ Calls(rs) \in SUBSET Rules
         /\ ByEvent(rs) \in SUBSET Rules
         /\ Events(rs) # {} => events
         /\ ByEvent(rs) # {} => events
  BY DEF Events, Calls, AtOnce, ByEvent, Timed

(* How a request begins: in the frame of a write is what will be stored.     *)
(* Its pre rules are told by events only in a thread.                        *)
Begun(m, op, v, bits, clean) ==
  /\ req' \in Requests /\ req'[m] # Idle
  /\ \A n \in Masters \ {m} : req'[n] = req[n]
  /\ req'[m].at = "pre" /\ req'[m].op = op /\ req'[m].bits = bits
  /\ req'[m].clean = clean
  /\ op = "merge" => req'[m].value = v
  /\ op = "write" => req'[m].new = Masked(v)
  /\ ready' = ready \cup req'[m].told /\ ready' \subseteq Rules
  /\ req'[m].told # {} => events /\ setup.kind[m] = "thread"

(* This is what Begin does. *)
LEMMA BeginEffect ==
  ASSUME TypeOK, NEW m \in Masters, NEW op \in {"write", "read", "merge"},
         NEW v \in Values, NEW bits \in Values, NEW clean \in BOOLEAN,
         Begin(m, op, v, bits, clean)
  PROVE  Begun(m, op, v, bits, clean)
<1> DEFINE old == IF op = "write" THEN buf[In] ELSE buf["o"]
           new == IF op = "write" THEN Masked(v) ELSE old
           rs  == IF PreRules(m)
                  THEN Notified(IF op = "write" THEN "pre_write" ELSE "pre_read", old, new)
                  ELSE {}
           f == [at |-> "pre", op |-> op, value |-> IF op = "merge" THEN v ELSE {},
                 bits |-> bits, old |-> old, new |-> new, calls |-> Calls(rs),
                 told |-> Events(rs), clean |-> clean]
<1>1. req' = [req EXCEPT ![m] = f] /\ ready' = ready \cup Events(rs)
  BY DEF Begin
<1>2. rs \in SUBSET Rules BY DEF Notified
<1>3. old \in Values /\ new \in Values BY DEF TypeOK, Masked, Values, In
<1>4. rs # {} => PreRules(m) OBVIOUS
<1> HIDE DEF old, new, rs
<1>5. f \in Frames BY <1>2, <1>3, EventsOfRules DEF Frames, Values
<1>6. req' \in Requests /\ req'[m] = f /\ \A n \in Masters \ {m} : req'[n] = req[n]
  BY <1>1, <1>5 DEF TypeOK, Requests
<1>7. Events(rs) # {} => rs # {} /\ events /\ setup.kind[m] = "thread"
  <2>1. Events(rs) # {} => rs # {} BY DEF Events, ByEvent
  <2>2. Events(rs) # {} => events BY <1>2, EventsOfRules
  <2>3. setup.kind[m] \in {"thread", "method", "none"} BY DEF TypeOK
  <2> QED BY <1>4, <2>1, <2>2, <2>3 DEF PreRules
<1>8. op = "write" => new = Masked(v) BY DEF new
<1>9. ready' \subseteq Rules BY <1>1, <1>2, EventsOfRules DEF TypeOK
<1> QED BY <1>1, <1>5, <1>6, <1>7, <1>8, <1>9, FrameIsNotIdle DEF Begun

-----------------------------------------------------------------------------
(* A request begins where the master is in none. *)
LEMMA RequestStep ==
  ASSUME IInv, NEW m \in Masters, Request(m) PROVE IInv'
<1> USE DEF IInv
<1>1. PICK op \in {"write", "read", "merge"}, v \in Values, bits \in Values :
        /\ Begin(m, op, v, bits, TRUE)
        /\ op = "merge" => v \subseteq bits /\ bits # Bits
        /\ op # "merge" => bits = Bits
  BY DEF Request, Values
<1>2. /\ setup' = setup /\ events' = events /\ mask' = mask /\ buf' = buf
      /\ cpu' = m /\ asleep' = asleep /\ awake' = awake
      /\ cpu = Nobody /\ req[m] = Idle
  BY <1>1 DEF Begin, Request, device
<1>3. Begun(m, op, v, bits, TRUE) BY <1>1, BeginEffect
<1>4. TypeOK' BY <1>2, <1>3 DEF TypeOK, Begun, Requests, Frames, Rules, Idle
<1>5. Scheduled' BY <1>2, <1>3 DEF Scheduled, Begun, TypeOK
<1>6. Told' BY <1>2, <1>3 DEF Told, Begun, Scheduled, TypeOK
<1>7. Fresh'
  <2>1. op = "write" => req'[m].new \ mask["o"] = buf[In] \ mask["o"]
    BY <1>3 DEF Begun, Masked, TypeOK, Values
  <2>2. In' = In BY <1>2 DEF In
  <2>3. ASSUME NEW n \in Masters \ {m}, req'[n] # Idle PROVE FreshFrame(req[n])'
    BY <1>2, <1>3, <2>2, <2>3 DEF Fresh, Begun, FreshFrame
  <2>4. mask["o"] \cap Bits = mask["o"] BY DEF TypeOK, Values
  <2>5. FreshFrame(req[m])'
    BY <1>1, <1>2, <1>3, <2>1, <2>2, <2>4 DEF FreshFrame, Begun
  <2> QED BY <2>3, <2>5 DEF Fresh
<1> QED BY <1>4, <1>5, <1>6, <1>7

(* The adapter goes on from its read to its write. *)
LEMMA ReturnStep ==
  ASSUME IInv, NEW m \in Masters, Return(m) PROVE IInv'
<1> USE DEF IInv
<1>0. req[m] \in Frames /\ req[m].at = "return" /\ req[m] # Idle
  <2>1. req[m].at = "return" BY DEF Return
  <2>2. req[m] # Idle BY <2>1 DEF Idle
  <2> QED BY <2>1, <2>2 DEF TypeOK
<1>1. CASE req[m].op # "merge"
  <2>1. /\ req' = [req EXCEPT ![m] = Idle] /\ cpu' = Nobody /\ awake' = awake \ {m}
        /\ UNCHANGED <<setup, events, mask, buf, asleep, ready>>
        /\ cpu = m \/ m \in awake
    BY <1>1 DEF Return, device, Runs
  <2>2. TypeOK' BY <2>1 DEF TypeOK, Frames, Rules
  <2>3. Scheduled' BY <2>1, <1>0 DEF Scheduled, TypeOK, Return, Runs
  <2>4. Told' BY <2>1 DEF Told, TypeOK
  <2>5. Fresh' BY <2>1 DEF Fresh, FreshFrame, TypeOK, In
  <2> QED BY <2>2, <2>3, <2>4, <2>5
<1>2. CASE req[m].op = "merge"
  <2> DEFINE v == (req[m].new \ req[m].bits) \cup req[m].value
             bits == req[m].bits
             clean == req[m].clean
  <2>1. /\ Begin(m, "write", v, bits, clean)
        /\ v \in Values /\ bits \in Values /\ clean \in BOOLEAN
    BY <1>0, <1>2 DEF Return, Frames, Values
  <2>2. /\ setup' = setup /\ events' = events /\ mask' = mask /\ buf' = buf
        /\ cpu' = m /\ asleep' = asleep /\ awake' = awake \ {m}
        /\ cpu = m \/ (cpu = Nobody /\ m \in awake)
    BY <2>1 DEF Begin, Return, Runs, device
  <2>3. Begun(m, "write", v, bits, clean) BY <2>1, BeginEffect
  <2>4. m \notin asleep BY <1>0, <2>2 DEF Scheduled, Return, Runs
  <2>5. TypeOK' BY <2>2, <2>3 DEF TypeOK, Begun, Requests, Frames, Rules, Idle
  <2>6. Scheduled' BY <2>2, <2>3, <2>4 DEF Scheduled, Begun, TypeOK
  <2>7. Told' BY <2>2, <2>3 DEF Told, Begun, Scheduled, TypeOK
  <2>8. Fresh'
    <3>1. In' = In BY <2>2 DEF In
    <3>2. ASSUME NEW n \in Masters \ {m}, req'[n] # Idle PROVE FreshFrame(req[n])'
      BY <2>2, <2>3, <3>1, <3>2 DEF Fresh, Begun, FreshFrame
    <3>3. bits # Bits /\ req[m].value \subseteq bits
      BY <1>0, <1>2 DEF Fresh, FreshFrame
    <3>4. clean /\ ~ setup.split => req[m].new = buf["o"] /\ In = "o"
      BY <1>0, <1>2 DEF Fresh, FreshFrame, In
    <3>5. clean /\ ~ setup.split =>
            Masked(v) \ (mask["o"] \cap bits) = buf[In] \ (mask["o"] \cap bits)
      BY <3>3, <3>4 DEF Masked
    <3>6. FreshFrame(req[m])' BY <2>2, <2>3, <3>1, <3>3, <3>5 DEF FreshFrame, Begun
    <3> QED BY <3>2, <3>6 DEF Fresh
  <2> QED BY <2>5, <2>6, <2>7, <2>8
<1> QED BY <1>1, <1>2

(* Once its rules are told, a request waits or goes on. *)
LEMMA RulesToldStep ==
  ASSUME IInv, NEW m \in Masters, RulesTold(m) PROVE IInv'
<1> USE DEF IInv
<1>0. req[m] \in Frames /\ req[m] # Idle /\ req[m].at \in {"pre", "post"} /\ cpu = m
  BY DEF RulesTold, Scheduled, TypeOK
<1> DEFINE f == [req[m] EXCEPT !.at = IF @ = "pre" THEN "apply" ELSE "return"]
<1>1. /\ req' = [req EXCEPT ![m] = f]
      /\ UNCHANGED <<setup, events, mask, buf, awake, ready>>
  BY DEF RulesTold, device
<1>2. /\ f \in Frames /\ f.at = IF req[m].at = "pre" THEN "apply" ELSE "return"
      /\ f.op = req[m].op /\ f.value = req[m].value /\ f.bits = req[m].bits
      /\ f.new = req[m].new /\ f.told = req[m].told /\ f.clean = req[m].clean
  BY <1>0 DEF Frames
<1>3. f # Idle BY <1>2, FrameIsNotIdle
<1> HIDE DEF f
<1>4. req'[m] = f /\ \A n \in Masters \ {m} : req'[n] = req[n] BY <1>1 DEF TypeOK
<1>5. \/ Waits(m) /\ cpu' = Nobody /\ asleep' = asleep \cup {m}
      \/ ~ Waits(m) /\ cpu' = cpu /\ asleep' = asleep
  BY DEF RulesTold
<1>6. TypeOK' BY <1>1, <1>2, <1>5 DEF TypeOK, Frames, Rules
<1>7. Scheduled' BY <1>0, <1>1, <1>2, <1>3, <1>4, <1>5 DEF Scheduled, TypeOK
<1>8. Told' BY <1>0, <1>1, <1>2, <1>3, <1>4, <1>5 DEF Told, Scheduled, TypeOK, Waits
<1>9. Fresh'
  <2>1. In' = In BY <1>1 DEF In
  <2>2. ASSUME NEW n \in Masters, req'[n] # Idle PROVE FreshFrame(req[n])'
    BY <1>0, <1>1, <1>2, <1>4, <2>1, <2>2 DEF Fresh, FreshFrame
  <2> QED BY <2>2 DEF Fresh
<1> QED BY <1>6, <1>7, <1>8, <1>9

(* The register is written or read, and the post rules are told. *)
LEMMA ApplyStep ==
  ASSUME IInv, NEW m \in Masters, Apply(m) PROVE IInv'
<1> USE DEF IInv
<1>0. req[m] \in Frames /\ req[m].at = "apply" /\ req[m] # Idle
  <2>1. req[m].at = "apply" BY DEF Apply
  <2>2. req[m] # Idle BY <2>1 DEF Idle
  <2> QED BY <2>1, <2>2 DEF TypeOK
<1>1. /\ UNCHANGED <<setup, events, mask, asleep>> /\ cpu' = m /\ awake' = awake \ {m}
      /\ cpu = m \/ (cpu = Nobody /\ m \in awake)
  BY DEF Apply, Runs, device
<1>2. m \notin asleep /\ In' = In BY <1>0, <1>1 DEF Scheduled, In
<1>3. CASE ApplyWrite(m)
  <2> DEFINE rs == Notified("post_write", req[m].old, req[m].new)
             user == ByEvent(UserRules(In, req[m].new))
             f == [req[m] EXCEPT !.at = "post", !.old = {}, !.new = {}, !.bits = Bits,
                                 !.calls = Calls(rs), !.told = user \cup Events(rs)]
  <2>1. /\ req[m].op = "write" /\ Set(In, req[m].new)
        /\ req' = [Raced(req) EXCEPT ![m] = f]
        /\ ready' = ready \cup user \cup Events(rs)
    BY <1>3 DEF ApplyWrite
  <2>2. rs \in SUBSET Rules /\ UserRules(In, req[m].new) \in SUBSET Rules
    BY DEF Notified, UserRules
  <2>3. /\ user \in SUBSET Rules /\ Events(rs) \in SUBSET Rules
        /\ Calls(rs) \in SUBSET Rules
        /\ user \cup Events(rs) # {} => events
    BY <2>2, EventsOfRules
  <2> HIDE DEF rs, user
  <2>4. /\ f \in Frames /\ f.at = "post" /\ f.op = "write"
        /\ f.told = user \cup Events(rs)
    BY <1>0, <2>1, <2>3 DEF Frames, Values
  <2>5. f # Idle BY <2>4, FrameIsNotIdle
  <2> HIDE DEF f
  <2>6. req \in Requests BY DEF TypeOK, Requests
  <2>7. /\ req' \in Requests /\ req'[m] = f
        /\ \A n \in Masters \ {m} :
             /\ req[n] = Idle <=> req'[n] = Idle
             /\ req[n] # Idle => SameRequest(req[n], req'[n]) /\ ~ req'[n].clean
    BY <2>1, <2>4, <2>6, RacedRequests DEF Requests
  <2>8. buf' \in [{"i", "o"} -> Values]
    BY <1>0, <2>1 DEF Set, TypeOK, Frames, In
  <2>9. TypeOK' BY <1>1, <2>1, <2>3, <2>7, <2>8 DEF TypeOK, Requests, Frames, Rules, Idle
  <2>10. Scheduled' BY <1>0, <1>1, <1>2, <2>4, <2>5, <2>7 DEF Scheduled, TypeOK, SameRequest
  <2>11. Told'
    BY <1>0, <1>1, <1>2, <2>1, <2>3, <2>4, <2>5, <2>7 DEF Told, Scheduled, TypeOK, SameRequest
  <2>12. Fresh'
    BY <1>1, <1>2, <2>4, <2>7 DEF Fresh, FreshFrame, SameRequest
  <2> QED BY <2>9, <2>10, <2>11, <2>12
<1>4. CASE ApplyRead(m)
  <2> DEFINE rs == Notified("post_read", req[m].old, buf["o"])
             f == [req[m] EXCEPT !.at = "post", !.old = {}, !.new = buf["o"],
                                 !.calls = Calls(rs), !.told = Events(rs), !.clean = TRUE]
  <2>1. /\ req[m].op # "write" /\ req' = [req EXCEPT ![m] = f]
        /\ ready' = ready \cup Events(rs) /\ buf' = buf
    BY <1>4 DEF ApplyRead
  <2>2. rs \in SUBSET Rules BY DEF Notified
  <2>3. /\ Events(rs) \in SUBSET Rules /\ Calls(rs) \in SUBSET Rules
        /\ Events(rs) # {} => events
    BY <2>2, EventsOfRules
  <2> HIDE DEF rs
  <2>4. /\ f \in Frames /\ f.at = "post" /\ f.op = req[m].op /\ f.told = Events(rs)
        /\ f.value = req[m].value /\ f.bits = req[m].bits /\ f.new = buf["o"]
    BY <1>0, <2>1, <2>3 DEF Frames, Values, TypeOK
  <2>5. f # Idle BY <2>4, FrameIsNotIdle
  <2> HIDE DEF f
  <2>6. /\ req' \in Requests /\ req'[m] = f
        /\ \A n \in Masters \ {m} : req'[n] = req[n]
    BY <2>1, <2>4 DEF Requests, TypeOK
  <2>7. TypeOK' BY <1>1, <2>1, <2>3, <2>6 DEF TypeOK, Requests, Frames, Rules, Idle
  <2>8. Scheduled' BY <1>0, <1>1, <1>2, <2>4, <2>5, <2>6 DEF Scheduled, TypeOK
  <2>9. Told'
    BY <1>0, <1>1, <1>2, <2>1, <2>3, <2>4, <2>5, <2>6 DEF Told, Scheduled, TypeOK
  <2>10. Fresh'
    <3>1. ASSUME NEW n \in Masters \ {m}, req'[n] # Idle PROVE FreshFrame(req[n])'
      BY <1>1, <1>2, <2>1, <2>6, <3>1 DEF Fresh, FreshFrame
    <3>2. FreshFrame(req[m])'
      BY <1>0, <1>1, <1>2, <2>1, <2>4, <2>6 DEF Fresh, FreshFrame
    <3> QED BY <3>1, <3>2 DEF Fresh
  <2> QED BY <2>7, <2>8, <2>9, <2>10
<1> QED BY <1>3, <1>4 DEF Apply

(* No request goes on. *)
SamePlaces == \A m \in Masters : req'[m] # Idle => req'[m].at = req[m].at

(* A callback, a handler or the device itself may set the register: the     *)
(* requests in work, rq, are then no longer clean.  They are those of       *)
(* before, but for the rules dropped from rd, and are where they were.      *)
LEMMA DeviceStep ==
  ASSUME IInv, NEW rq \in Requests, NEW rd \in SUBSET ready,
         MayDeviceSet(rq, rd) \/ DeviceSets(rq, rd),
         \A m \in Masters :
           /\ req[m] = Idle <=> rq[m] = Idle
           /\ req[m] # Idle =>
                /\ rq[m].at = req[m].at /\ rq[m].op = req[m].op
                /\ rq[m].value = req[m].value /\ rq[m].bits = req[m].bits
                /\ rq[m].new = req[m].new /\ rq[m].clean = req[m].clean
                /\ rq[m].told \subseteq req[m].told \cap rd,
         UNCHANGED <<setup, events, mask, cpu, asleep, awake>>
  PROVE  IInv' /\ SamePlaces
<1> USE DEF IInv
<1>1. rd \in SUBSET Rules BY DEF TypeOK
<1>2. /\ req' \in Requests /\ buf' \in [{"i", "o"} -> Values]
      /\ rd \subseteq ready' /\ ready' \subseteq Rules
      /\ \A m \in Masters :
           /\ rq[m] = Idle <=> req'[m] = Idle
           /\ rq[m] # Idle =>
                /\ SameRequest(rq[m], req'[m])
                /\ req'[m].clean => rq[m].clean /\ buf'[In] = buf[In]
  BY <1>1, DeviceEffect
<1>3. In' = In /\ (~ setup.split => In = "o") BY DEF In
<1>4. TypeOK' BY <1>2 DEF TypeOK, Requests, Frames, Rules, Idle
<1>5. Scheduled' BY <1>2 DEF Scheduled, TypeOK, SameRequest
<1>6. Told' BY <1>2 DEF Told, Scheduled, TypeOK, SameRequest
<1>7. ASSUME NEW m \in Masters, req'[m] # Idle PROVE FreshFrame(req[m])'
  <2>1. /\ req[m] # Idle
        /\ req'[m].at = req[m].at /\ req'[m].op = req[m].op
        /\ req'[m].value = req[m].value /\ req'[m].bits = req[m].bits
        /\ req'[m].new = req[m].new
        /\ req'[m].clean => req[m].clean /\ buf'[In] = buf[In]
    BY <1>2, <1>7 DEF SameRequest
  <2>2. FreshFrame(req[m]) BY <2>1 DEF Fresh
  <2> QED BY <1>3, <2>1, <2>2 DEF FreshFrame
<1>8. SamePlaces BY <1>2 DEF SamePlaces, SameRequest
<1> QED BY <1>4, <1>5, <1>6, <1>7, <1>8 DEF Fresh

(* A callback of the request that runs. *)
LEMMA CallbackStep ==
  ASSUME IInv, NEW m \in Masters, Callback(m) PROVE IInv' /\ SamePlaces
<1> USE DEF IInv
<1>1. PICK r \in req[m].calls : MayDeviceSet([req EXCEPT ![m].calls = @ \ {r}], ready)
  BY DEF Callback
<1> DEFINE f == [req[m] EXCEPT !.calls = @ \ {r}]
           rq == [req EXCEPT ![m] = f]
<1>2. req[m] \in Frames BY DEF Callback, Scheduled, TypeOK
<1>3. /\ f \in Frames
      /\ f.at = req[m].at /\ f.op = req[m].op /\ f.value = req[m].value
      /\ f.bits = req[m].bits /\ f.new = req[m].new /\ f.clean = req[m].clean
      /\ f.told = req[m].told
  BY <1>2 DEF Frames
<1>4. MayDeviceSet(rq, ready) BY <1>1
<1> HIDE DEF f
<1>5. rq \in Requests BY <1>3 DEF Requests, TypeOK
<1>6. \A n \in Masters :
        /\ req[n] = Idle <=> rq[n] = Idle
        /\ req[n] # Idle =>
             /\ rq[n].at = req[n].at /\ rq[n].op = req[n].op
             /\ rq[n].value = req[n].value /\ rq[n].bits = req[n].bits
             /\ rq[n].new = req[n].new /\ rq[n].clean = req[n].clean
             /\ rq[n].told \subseteq req[n].told \cap ready
  BY <1>2, <1>3, FrameIsNotIdle DEF TypeOK, Told
<1> HIDE DEF rq
<1>7. UNCHANGED <<setup, events, mask, cpu, asleep, awake>> BY DEF Callback
<1> QED BY <1>4, <1>5, <1>6, <1>7, DeviceStep

(* A handler runs: nobody is to wait for it any more. *)
LEMMA HandlerStep ==
  ASSUME IInv, NEW r \in Rules, Handler(r) PROVE IInv' /\ SamePlaces
<1> USE DEF IInv
<1> DEFINE rq == [m \in Masters |-> IF req[m] = Idle THEN Idle
                                     ELSE [req[m] EXCEPT !.told = @ \ {r}]]
<1>1. MayDeviceSet(rq, ready \ {r}) BY DEF Handler
<1>2. ASSUME NEW n \in Masters, req[n] # Idle
      PROVE  /\ rq[n] \in Frames
             /\ rq[n].at = req[n].at /\ rq[n].op = req[n].op
             /\ rq[n].value = req[n].value /\ rq[n].bits = req[n].bits
             /\ rq[n].new = req[n].new /\ rq[n].clean = req[n].clean
             /\ rq[n].told \subseteq req[n].told \cap (ready \ {r})
  <2>1. req[n] \in Frames /\ rq[n] = [req[n] EXCEPT !.told = @ \ {r}]
    BY <1>2 DEF TypeOK
  <2>2. req[n].told \subseteq ready BY <1>2 DEF Told
  <2> HIDE DEF rq
  <2> QED BY <2>1, <2>2 DEF Frames
<1>3. \A n \in Masters : req[n] = Idle => rq[n] = Idle OBVIOUS
<1>4. rq \in Requests
  <2>1. \A n \in Masters : rq[n] \in Frames \cup {Idle} BY <1>2, <1>3
  <2>2. rq = [n \in Masters |-> rq[n]] OBVIOUS
  <2> HIDE DEF rq
  <2> QED BY <2>1, <2>2 DEF Requests
<1> HIDE DEF rq
<1>5. UNCHANGED <<setup, events, mask, cpu, asleep, awake>> BY DEF Handler
<1>6. ready \ {r} \in SUBSET ready OBVIOUS
<1> QED BY <1>1, <1>2, <1>3, <1>4, <1>5, <1>6, FrameIsNotIdle, DeviceStep

(* The device acts on its own. *)
LEMMA DeviceActs == ASSUME IInv, Device PROVE IInv' /\ SamePlaces
<1>1. req \in Requests /\ ready \in SUBSET ready BY DEF IInv, TypeOK, Requests
<1>2. \A m \in Masters : req[m] # Idle => req[m].told \subseteq req[m].told \cap ready
  BY DEF IInv, Told
<1>3. UNCHANGED <<setup, events, mask, cpu, asleep, awake>> BY DEF Device
<1>4. DeviceSets(req, ready) BY DEF Device
<1> QED BY <1>1, <1>2, <1>3, <1>4, DeviceStep

(* A delta cycle begins when every handler has run. *)
LEMMA DeltaStep == ASSUME IInv, Delta PROVE IInv'
<1> USE DEF IInv
<1>1. /\ UNCHANGED <<setup, events, mask, buf, req, cpu>>
      /\ awake' = asleep /\ asleep' = {} /\ ready' \subseteq Rules
      /\ cpu = Nobody /\ ready = {} /\ awake = {}
  BY DEF Delta, device
<1>2. TypeOK' BY <1>1 DEF TypeOK, Frames, Rules
<1>3. Scheduled' BY <1>1 DEF Scheduled, TypeOK
<1>4. Told' BY <1>1 DEF Told, Scheduled, TypeOK
<1>5. Fresh' BY <1>1 DEF Fresh, FreshFrame, In
<1> QED BY <1>2, <1>3, <1>4, <1>5

(* The device changes the write mask or switches events on or off. *)
LEMMA SwitchStep ==
  ASSUME IInv, SwitchEvents \/ (\E k \in Values : SetWriteMask(k)) PROVE IInv'
<1> USE DEF IInv
<1>1. CASE SwitchEvents
  <2>1. /\ UNCHANGED <<setup, mask, buf, req, cpu, asleep, awake, ready>>
        /\ events' \in BOOLEAN /\ cpu = Nobody
    BY <1>1 DEF SwitchEvents, TypeOK
  <2>2. TypeOK' BY <2>1 DEF TypeOK, Frames, Rules
  <2>3. Scheduled' BY <2>1 DEF Scheduled
  <2>4. Told' BY <2>1 DEF Told
  <2>5. Fresh' BY <2>1 DEF Fresh, FreshFrame, In
  <2> QED BY <2>2, <2>3, <2>4, <2>5
<1>2. ASSUME NEW k \in Values, SetWriteMask(k) PROVE IInv'
  <2>1. /\ UNCHANGED <<setup, events, buf, cpu, asleep, awake, ready>>
        /\ req' = IF In = "o" THEN Raced(req) ELSE req
        /\ mask' = [mask EXCEPT ![In] = k]
    BY <1>2 DEF SetWriteMask
  <2>2. /\ req' \in Requests /\ mask' \in [{"i", "o"} -> Values]
        /\ In # "o" => mask'["o"] = mask["o"]
        /\ \A m \in Masters :
             /\ req[m] = Idle <=> req'[m] = Idle
             /\ req[m] # Idle =>
                  /\ SameRequest(req[m], req'[m])
                  /\ req'[m].clean => req[m].clean /\ In # "o"
    <3>1. req \in Requests BY DEF TypeOK, Requests
    <3>2. mask' \in [{"i", "o"} -> Values] /\ (In # "o" => mask'["o"] = mask["o"])
      BY <2>1 DEF TypeOK, In
    <3> QED BY <2>1, <3>1, <3>2, RacedRequests DEF SameRequest
  <2>3. In' = In /\ (~ setup.split => In = "o") BY <2>1 DEF In
  <2>4. TypeOK' BY <2>1, <2>2 DEF TypeOK, Requests, Frames, Rules, Idle
  <2>5. Scheduled' BY <2>1, <2>2 DEF Scheduled, TypeOK, SameRequest
  <2>6. Told' BY <2>1, <2>2 DEF Told, Scheduled, TypeOK, SameRequest
  <2>7. ASSUME NEW m \in Masters, req'[m] # Idle PROVE FreshFrame(req[m])'
    <3>1. req[m] # Idle /\ FreshFrame(req[m]) BY <2>2, <2>7 DEF Fresh
    <3> QED BY <2>1, <2>2, <2>3, <3>1 DEF FreshFrame, SameRequest
  <2> QED BY <2>4, <2>5, <2>6, <2>7 DEF Fresh
<1> QED BY <1>1, <1>2

-----------------------------------------------------------------------------
(* The inductive invariant holds in every reachable state. *)
THEOREM Invariance == Spec => []IInv
<1>1. Init => IInv
  <2> SUFFICES ASSUME Init PROVE IInv OBVIOUS
  <2>1. TypeOK BY DEF Init, TypeOK, Values, Frames
  <2>2. Scheduled BY DEF Init, Scheduled
  <2>3. Told BY DEF Init, Told
  <2>4. Fresh BY DEF Init, Fresh
  <2> QED BY <2>1, <2>2, <2>3, <2>4 DEF IInv
<1>2. IInv /\ [Next]_vars => IInv'
  <2> SUFFICES ASSUME IInv, [Next]_vars PROVE IInv' OBVIOUS
  <2>2. CASE UNCHANGED vars
    <3> USE <2>2 DEF vars, IInv
    <3>1. TypeOK' BY DEF TypeOK, Frames, Rules
    <3>2. Scheduled' BY DEF Scheduled
    <3>3. Told' BY DEF Told
    <3>4. Fresh' BY DEF Fresh, FreshFrame, In
    <3> QED BY <3>1, <3>2, <3>3, <3>4
  <2> QED
    BY <2>2, DeviceActs, RequestStep, CallbackStep, RulesToldStep, ApplyStep, ReturnStep,
       HandlerStep, DeltaStep, SwitchStep DEF Next
<1> QED BY <1>1, <1>2, PTL DEF Spec

(* A request acts, and returns to a thread, only after every handler that   *)
(* it has notified has run.                                                 *)
THEOREM HandlersRunFirst == Spec => []HandlersFirst
<1>1. IInv => HandlersFirst
  BY DEF IInv, HandlersFirst, Runs, Told, TypeOK
<1> QED BY Invariance, <1>1, PTL

(* A bus write changes only bits that the write mask and its byte enables   *)
(* leave open, unless something else changed the register while it waited.  *)
THEOREM ProtectedBitsKept == Spec => OnlyWritableBits
<1>1. IInv /\ [Next]_vars =>
        [\A m \in Masters :
           /\ req[m] # Idle /\ req[m].at = "apply" /\ req[m].op = "write"
           /\ req'[m] # Idle /\ req'[m].at = "post"
           /\ req[m].clean /\ (setup.split => req[m].bits = Bits)
           => LET may == mask["o"] \cap req[m].bits IN buf'[In] \ may = buf[In] \ may]_vars
  <2> SUFFICES ASSUME IInv, Next, NEW m \in Masters,
                      req[m] # Idle, req[m].at = "apply", req[m].op = "write",
                      req'[m] # Idle, req'[m].at = "post",
                      req[m].clean, setup.split => req[m].bits = Bits
               PROVE  buf'[In] \ (mask["o"] \cap req[m].bits)
                        = buf[In] \ (mask["o"] \cap req[m].bits)
    BY DEF vars
  <2> USE DEF IInv
  <2>1. req[m].new \ (mask["o"] \cap req[m].bits) = buf[In] \ (mask["o"] \cap req[m].bits)
    BY DEF Fresh, FreshFrame
  <2>2. CASE Apply(m)
    BY <2>1, <2>2 DEF Apply, ApplyWrite, ApplyRead, Set, TypeOK, In
  <2>3. ASSUME NEW n \in Masters \ {m}, Apply(n) PROVE FALSE
    <3>1. req \in Requests BY DEF TypeOK, Requests
    <3>2. req'[m] \in {req[m], Raced(req)[m]}
      BY <2>3, <3>1, RacedRequests DEF Apply, ApplyWrite, ApplyRead, Requests
    <3> QED BY <3>1, <3>2, RacedRequests DEF SameRequest
  <2>4. ASSUME NEW n \in Masters, Request(n) PROVE FALSE
    <3>1. n # m /\ req'[m] = req[m] BY <2>4 DEF Request, Begin, TypeOK
    <3> QED BY <3>1
  <2>5. ASSUME NEW n \in Masters, RulesTold(n) PROVE FALSE
    <3>1. n # m /\ req'[m] = req[m] BY <2>5 DEF RulesTold, TypeOK
    <3> QED BY <3>1
  <2>6. ASSUME NEW n \in Masters, Return(n) PROVE FALSE
    <3>1. n # m /\ req'[m] = req[m] BY <2>6 DEF Return, Begin, TypeOK
    <3> QED BY <3>1
  <2>7. ASSUME \/ \E n \in Masters : Callback(n)
               \/ \E r \in Rules : Handler(r)
               \/ Device
        PROVE  FALSE
    <3>1. SamePlaces BY <2>7, CallbackStep, HandlerStep, DeviceActs
    <3> QED BY <3>1 DEF SamePlaces
  <2>8. ASSUME Delta \/ SwitchEvents PROVE FALSE
    <3>1. req' = req BY <2>8 DEF Delta, SwitchEvents
    <3> QED BY <3>1
  <2>9. ASSUME NEW k \in Values, SetWriteMask(k) PROVE FALSE
    <3>1. req \in Requests BY DEF TypeOK, Requests
    <3>2. req' \in {req, Raced(req)} BY <2>9 DEF SetWriteMask
    <3> QED BY <3>1, <3>2, RacedRequests DEF SameRequest
  <2> QED BY <2>2, <2>3, <2>4, <2>5, <2>6, <2>7, <2>8, <2>9 DEF Next
<1> QED BY Invariance, <1>1, PTL DEF Spec, OnlyWritableBits

=============================================================================
