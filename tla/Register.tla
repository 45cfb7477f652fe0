------------------------------- MODULE Register -------------------------------
(***************************************************************************)
(* A register of GreenReg: its buffers and write mask, the bus requests of  *)
(* several masters (whole registers, or some of the bits through the        *)
(* read-modify-write adapter), and the notification rules that tell the     *)
(* device's handlers of a request.  A register is shared (one buffer for    *)
(* both directions) or split (the bus writes "i" and reads "o"); "o" is the *)
(* primary data, whose write mask counts.                                   *)
(*                                                                          *)
(* A value is the set of bits that are 1.  SystemC processes are            *)
(* cooperative: whoever runs (cpu) is not interrupted, and threads wait for *)
(* the next delta cycle between telling the rules and acting.               *)
(*                                                                          *)
(* Callbacks neither wait nor change rules, nor start a request of their    *)
(* own: the loop over the rules keeps its iterator in the container, and    *)
(* each of these would move it under the loop's feet.  Callbacks for user   *)
(* writes only look.  The rules of one occasion are all matched before the  *)
(* first callback runs.                                                     *)
(***************************************************************************)
EXTENDS Naturals, FiniteSets

CONSTANTS
  Bits, Masters,
  Setups,        \* the registers, rules and kinds of process to look at
  MaxRequests,   \* bound: requests of all masters
  MaxSets,       \* bound: what the device does on its own and in its handlers
  Nobody

Values == SUBSET Bits

ASSUME MastersAreSomebody == Nobody \notin Masters
ASSUME SetupsAssumption ==
  \A s \in Setups :
    /\ s.split \in BOOLEAN /\ s.delayed \in BOOLEAN
    /\ s.data \in Values /\ s.mask \in Values
    /\ s.kind \in [Masters -> {"thread", "method", "none"}]

VARIABLES
  setup,      \* [split, data, mask, delayed, rules, kind: Masters -> {thread, method, none}]
  events,     \* m_events_enabled of the register and m_timed of its rules' events
  buf, mask,  \* m_data and m_write_mask of the input and the output buffer
  req,        \* the request each master is in
  cpu,        \* the master that runs
  asleep, awake,  \* threads that wait for the next delta cycle; that have waited
  ready,      \* rules whose handler an event has made runnable
  later,      \* rules -> notifications that are delayed
  requests, sets

vars == <<setup, events, buf, mask, req, cpu, asleep, awake, ready, later, requests, sets>>
device == <<setup, events, mask, sets>>
-----------------------------------------------------------------------------
In == IF setup.split THEN "i" ELSE "o"
Rules == setup.rules
Idle == [at |-> "idle"]

(* what a rule sees: the bits of its range, all of them for the register *)
Part(r, v) == v \cap r.bits

(* Does the value before match the rule's first pattern, the one after its
   second, and is there a change if the rule asks for one?  Plain rules match
   always, rules for a bit have patterns for it. *)
Matches(r, old, new) ==
  /\ Part(r, old) \in r.from
  /\ Part(r, new) \in r.to
  /\ r.change => Part(r, old) # Part(r, new)

Notified(c, old, new) == {r \in Rules : r.in = c /\ Matches(r, old, new)}

(* gr_event: a registered callback wins over the event, events count only when
   they are enabled; delays count for requests that ask for them *)
Timed(r) == events /\ ~r.callback
ByEvent(rs) == {r \in rs : Timed(r)}
AtOnce(rs, delayed) == {r \in rs : r.callback /\ ~(delayed /\ r.delay)}
Delayed(rs) == {r \in rs : Timed(r) \/ (r.callback /\ r.delay)}

(* sc_event keeps one notification, the queue behind a callback all of them *)
Later(rs) ==
  [r \in Rules |-> IF r \notin Delayed(rs) THEN later[r] ELSE IF Timed(r) THEN 1 ELSE later[r] + 1]

(* set() of a buffer tells the rules for writes of the user, never delayed *)
UserRules(b, v) == Notified(IF b = In THEN "usr_in" ELSE "usr_out", buf[b], v)
                   \cup (IF setup.split THEN {} ELSE Notified("usr_out", buf[b], v))
Set(b, v) == buf' = [buf EXCEPT ![b] = v]

(* the value a request for v leaves in the input buffer *)
MaskedFromOutput(v) == (v \cap mask["o"]) \cup (buf["o"] \ mask["o"])   \* mutant
Masked(v) == (v \cap mask["o"]) \cup (buf[In] \ mask["o"])

(* Methods cannot wait, so their pre rules are skipped when events are used;
   outside of processes there are none *)
PreRulesAlways(m) == TRUE    \* mutant
PreRules(m) == CASE setup.kind[m] = "thread" -> TRUE
                 [] setup.kind[m] = "method" -> ~events /\ ~setup.delayed
                 [] setup.kind[m] = "none" -> FALSE

Waits(m) == setup.kind[m] = "thread" /\ (events \/ setup.delayed)

Runs(m) == cpu = m \/ (cpu = Nobody /\ m \in awake)

(* the requests rq, after the register has changed under them *)
Raced(rq) == [m \in Masters |-> IF rq[m] = Idle THEN Idle ELSE [rq[m] EXCEPT !.clean = FALSE]]

(* the device sets a buffer, or a bit or a range of it *)
DeviceSets(rq, rd) ==
  /\ sets < MaxSets
  /\ sets' = sets + 1
  /\ \E b \in {In, "o"}, v \in Values :
       /\ Set(b, v)
       /\ ready' = rd \cup ByEvent(UserRules(b, v))
       /\ req' = IF b = In THEN Raced(rq) ELSE rq

MayDeviceSet(rq, rd) ==
  \/ req' = rq /\ ready' = rd /\ UNCHANGED <<buf, sets>>
  \/ DeviceSets(rq, rd)
-----------------------------------------------------------------------------
Init ==
  /\ setup \in Setups
  /\ events \in BOOLEAN
  /\ \A m \in Masters : setup.kind[m] = "none" => ~events /\ ~setup.delayed
  /\ buf = [b \in {"i", "o"} |-> setup.data]
  /\ mask = [b \in {"i", "o"} |-> setup.mask]
  /\ req = [m \in Masters |-> Idle]
  /\ cpu = Nobody
  /\ asleep = {} /\ awake = {} /\ ready = {}
  /\ later = [r \in Rules |-> 0]
  /\ requests = 0 /\ sets = 0

(* The rules rs of a request are told: what goes into its frame, and who
   becomes runnable now or later *)
Calls(rs) == AtOnce(rs, setup.delayed)
Events(rs) == IF setup.delayed THEN {} ELSE ByEvent(rs)
Postponed(rs) == IF setup.delayed THEN Later(rs) ELSE later

Begin(m, op, v, bits, clean) ==
  LET old == IF op = "write" THEN buf[In] ELSE buf["o"]
      new == IF op = "write" THEN Masked(v) ELSE old
      rs  == IF PreRules(m)
             THEN Notified(IF op = "write" THEN "pre_write" ELSE "pre_read", old, new)
             ELSE {}
  IN /\ req' = [req EXCEPT ![m] =
                  [at |-> "pre", op |-> op, value |-> IF op = "merge" THEN v ELSE {}, bits |-> bits,
                   old |-> old, new |-> new, calls |-> Calls(rs), told |-> Events(rs),
                   clean |-> clean]]
     /\ ready' = ready \cup Events(rs)
     /\ later' = Postponed(rs)
     /\ cpu' = m
     /\ UNCHANGED <<device, buf, asleep>>

(* A master writes or reads the register, or writes some bits of it: that is a
   read, and a write of what was read with the bits replaced. *)
Request(m) ==
  /\ cpu = Nobody /\ req[m] = Idle
  /\ requests < MaxRequests
  /\ requests' = requests + 1
  /\ \/ \E v \in Values : Begin(m, "write", v, Bits, TRUE)
     \/ Begin(m, "read", {}, Bits, TRUE)
     \/ \E bits \in Values \ {{}, Bits} : \E v \in SUBSET bits : Begin(m, "merge", v, bits, TRUE)
  /\ UNCHANGED awake

(* A callback of a rule runs in the request's process. *)
Callback(m) ==
  /\ cpu = m
  /\ \E r \in req[m].calls : MayDeviceSet([req EXCEPT ![m].calls = @ \ {r}], ready)
  /\ UNCHANGED <<setup, events, mask, cpu, asleep, awake, later, requests>>

(* The rules are told; threads wait for a delta cycle if there are events. *)
RulesTold(m) ==
  /\ cpu = m
  /\ req[m].at \in {"pre", "post"} /\ req[m].calls = {}
  /\ req' = [req EXCEPT ![m].at = IF @ = "pre" THEN "apply" ELSE "return"]
  /\ IF Waits(m) THEN cpu' = Nobody /\ asleep' = asleep \cup {m}
                 ELSE UNCHANGED <<cpu, asleep>>
  /\ UNCHANGED <<device, buf, awake, ready, later, requests>>

(* The write sets the input buffer, which tells the rules for user writes,
   and then the post rules.  Its frame forgets what is no longer needed. *)
ApplyWrite(m) ==
  LET f == req[m]
      rs == Notified("post_write", f.old, f.new)
      user == ByEvent(UserRules(In, f.new))
  IN /\ f.op = "write"
     /\ Set(In, f.new)
     /\ req' = [Raced(req) EXCEPT ![m] =
                  [f EXCEPT !.at = "post", !.old = {}, !.new = {}, !.bits = Bits,
                            !.calls = Calls(rs), !.told = user \cup Events(rs)]]
     /\ ready' = ready \cup user \cup Events(rs)
     /\ later' = Postponed(rs)

(* The read takes the output buffer as it is now. *)
ApplyRead(m) ==
  LET f == req[m]
      rs == Notified("post_read", f.old, buf["o"])
  IN /\ f.op # "write"
     /\ req' = [req EXCEPT ![m] =
                  [f EXCEPT !.at = "post", !.old = {}, !.new = buf["o"], !.calls = Calls(rs),
                            !.told = Events(rs), !.clean = TRUE]]
     /\ ready' = ready \cup Events(rs)
     /\ later' = Postponed(rs)
     /\ UNCHANGED buf

Apply(m) ==
  /\ Runs(m) /\ req[m].at = "apply"
  /\ ApplyWrite(m) \/ ApplyRead(m)
  /\ cpu' = m
  /\ awake' = awake \ {m}
  /\ UNCHANGED <<device, asleep, requests>>

Return(m) ==
  /\ Runs(m) /\ req[m].at = "return"
  /\ awake' = awake \ {m}
  /\ \/ /\ req[m].op # "merge"
        /\ req' = [req EXCEPT ![m] = Idle]
        /\ cpu' = Nobody
        /\ UNCHANGED <<device, buf, asleep, ready, later>>
     \/ /\ req[m].op = "merge"
        /\ Begin(m, "write", (req[m].new \ req[m].bits) \cup req[m].value, req[m].bits, req[m].clean)
  /\ UNCHANGED requests

(* A handler that an event has made runnable, or a delayed callback. *)
Handler(r) ==
  /\ cpu = Nobody /\ r \in ready
  /\ MayDeviceSet([m \in Masters |-> IF req[m] = Idle THEN Idle ELSE [req[m] EXCEPT !.told = @ \ {r}]],
                  ready \ {r})
  /\ UNCHANGED <<setup, events, mask, cpu, asleep, awake, later, requests>>

(* When nobody can run, a delta cycle begins; time may pass. *)
Delta ==
  /\ cpu = Nobody /\ ready = {} /\ awake = {}
  /\ \E due \in SUBSET {r \in Rules : later[r] > 0} :
       /\ due # {} \/ asleep # {}
       /\ ready' = due
       /\ later' = [r \in Rules |-> IF r \in due THEN later[r] - 1 ELSE later[r]]
  /\ awake' = asleep
  /\ asleep' = {}
  /\ UNCHANGED <<device, buf, req, cpu, requests>>

(* The device acts on its own: it sets a buffer, the write mask (of the input
   buffer), or switches between events and callbacks. *)
Device ==
  /\ cpu = Nobody
  /\ DeviceSets(req, ready)
  /\ UNCHANGED <<setup, events, mask, cpu, asleep, awake, later, requests>>

SetWriteMask(k) ==
  /\ cpu = Nobody /\ sets < MaxSets
  /\ sets' = sets + 1
  /\ mask' = [mask EXCEPT ![In] = k]
  /\ req' = IF In = "o" THEN Raced(req) ELSE req
  /\ UNCHANGED <<setup, events, buf, cpu, asleep, awake, ready, later, requests>>

SwitchEvents ==
  /\ cpu = Nobody /\ sets < MaxSets
  /\ sets' = sets + 1
  /\ \A m \in Masters : setup.kind[m] # "none"
  /\ events' = ~events
  /\ UNCHANGED <<setup, buf, mask, req, cpu, asleep, awake, ready, later, requests>>

Next ==
  \/ \E m \in Masters : Request(m) \/ Callback(m) \/ RulesTold(m) \/ Apply(m) \/ Return(m)
  \/ \E r \in Rules : Handler(r)
  \/ Delta \/ Device \/ SwitchEvents
  \/ \E k \in Values : SetWriteMask(k)

Spec == Init /\ [][Next]_vars
-----------------------------------------------------------------------------
(* A request acts only after every handler its pre rules have notified has    *)
(* run, and a thread's request returns only after the handlers of its post    *)
(* rules have: with events, other processes' requests in between, and the     *)
(* switch thrown at any time (on_received_write_request,                      *)
(* on_received_read_request: the two waits).  Delayed notifications are not   *)
(* waited for.                                                                *)
HandlersFirst ==
  \A m \in Masters :
    /\ req[m] # Idle /\ Runs(m)
    /\ req[m].at = "apply" \/ (req[m].at = "return" /\ setup.kind[m] = "thread")
    => req[m].told = {}

(* A bus write changes a bit that the write mask protects, or that its byte   *)
(* enables leave out, only if something else changed the register or the mask *)
(* while the write was waiting: what it writes back was computed before the   *)
(* wait.  The adapter reads the output and writes the input buffer, so for    *)
(* its writes this is said of shared registers only (primary_register_data,   *)
(* read_modify_write_adapter::bus_write).                                     *)
OnlyWritableBits ==
  [][\A m \in Masters :
       /\ req[m] # Idle /\ req[m].at = "apply" /\ req[m].op = "write"
       /\ req'[m] # Idle /\ req'[m].at = "post"
       /\ req[m].clean /\ (setup.split => req[m].bits = Bits)
       => LET may == mask["o"] \cap req[m].bits IN buf'[In] \ may = buf[In] \ may]_vars
=============================================================================
