----------------------------- MODULE SimpleBus -----------------------------
(***************************************************************************)
(* GreenRouter's SimpleBusProtocol behind a GenericRouter, with the fixed  *)
(* priority scheduler: greenrouter/protocol/SimpleBus/simpleBusProtocol.h, *)
(* genericRouter.h (nb_fw, nb_bw), scheduler/fixedPriorityScheduler.h and  *)
(* the payload event queues of gsgpsocket/utils/gsgp_peq.h.                *)
(*                                                                         *)
(* Initiators and targets are not part of the router.  They are modelled   *)
(* as far as the TLM-2.0 base protocol, with the BEGIN_DATA / END_DATA     *)
(* phases of GSGP where the sockets agreed on them, tells what they may    *)
(* send, return or complete in each state.                                 *)
(*                                                                         *)
(* Time is abstract: a payload event queue delivers the phases of one      *)
(* transaction in order and those of different transactions in any order,  *)
(* since callers annotate delays as they like.                             *)
(***************************************************************************)
EXTENDS Naturals, Sequences, FiniteSets, SequencesExt

CONSTANTS
  Txns,            \* payload objects of the initiators' pools
  Master,          \* Master[t]: index of the target port that t arrives at
  Setups,          \* how the bus may be used, records of
                   \*   txns: the payloads in use; commands: what initiators request
                   \*   data: the sockets agreed on BEGIN_DATA and END_DATA
                   \*   write_resp, bytes_valid: has_write_resp, has_bytes_valid
                   \*   chunks: data length, in chunks
                   \*   early: targets may answer TLM_COMPLETED
                   \*   remap: base addresses change while the simulation runs
  KickBound        \* bound: no new request above this many notifications

ASSUME BusAssumption ==
  /\ Master \in [Txns -> Nat]
  /\ Setups \subseteq [txns : SUBSET Txns, commands : SUBSET {"READ", "WRITE", "IGNORE"},
                       data : BOOLEAN, write_resp : BOOLEAN, bytes_valid : BOOLEAN,
                       chunks : 1..2, early : BOOLEAN, remap : BOOLEAN]
  /\ \A u \in Setups : /\ ~u.data => u.write_resp /\ ~u.bytes_valid
                       /\ u.data => "IGNORE" \notin u.commands
                       /\ ~u.bytes_valid => u.chunks = 1
  /\ KickBound \in Nat

VARIABLES
  setup,   \* how this bus is used
  fwPeq,   \* m_fw_peq: phases on their way to the bus, per transaction
  bwPeq,   \* m_bw_peq: phases on their way to an initiator
  queue,   \* m_queue of the scheduler, in order of arrival
  kicks,   \* notifications pending in startMasterAccessProcessingEvent
  idle,    \* m_idle
  states,  \* txn_states: which side has completed the transaction
  pay,     \* response status and bytes_valid of the payload
  cmd,     \* command of the payload
  refs,    \* who has acquired the payload
  init,    \* protocol state of the initiator
  targ,    \* protocol state of the target
  mapped   \* the address map decodes the addresses in use

bus  == <<fwPeq, bwPeq, queue, kicks, idle, states, refs>>
env  == <<cmd, init, targ, mapped, setup>>
vars == <<bus, env, pay>>

Commands == setup.commands
HasData == setup.data
HasWriteResp == setup.write_resp
HasBytesValid == setup.bytes_valid
Chunks == setup.chunks

Fresh  == [resp |-> "INCOMPLETE", valid |-> 0]

(* get_response_status() is neither TLM_INCOMPLETE_RESPONSE nor TLM_OK_RESPONSE. *)
HasError(p) == p.resp = "ERROR"

(* Mutant: the amount of valid data is ignored. *)
OverAlways(p) == TRUE

(* is_over of fw_peq_cb and bw_peq_cb, before write responses are considered. *)
Over(p) == HasBytesValid => p.valid = Chunks

(* gp_peq::notify: the queue copies the fields that are valid at the call. *)
Notify(peq, t, phase, p) == [peq EXCEPT ![t] = Append(@, [ph |-> phase, pay |-> p])]

(* decodeAddress finds a target for the addresses in use. *)
DecodeOk == mapped

----------------------------------------------------------------------------
(* Targets (external).                                                     *)

(* The target still waits for write data. *)
NeedsData(t, p) == cmd[t] = "WRITE" /\ HasData /\ p.valid < Chunks

(* The responses with which a target answers a request. *)
Responses(t, p) ==
  { [ph |-> "BEGIN_RESP", targ |-> "resp", pay |-> [p EXCEPT !.resp = "ERROR"]],
    [ph |-> "BEGIN_RESP", targ |-> "resp",
     pay |-> [resp |-> "OK",
              valid |-> IF cmd[t] = "READ" /\ p.valid < Chunks THEN p.valid + 1 ELSE p.valid]] }

(* The phases a target in state st may send next. *)
TargetMoves(t, st, p) ==
  CASE st = "req" ->
         {[ph |-> "END_REQ", targ |-> IF NeedsData(t, p) THEN "wait" ELSE "acked", pay |-> p]} \cup
         {m \in Responses(t, p) : NeedsData(t, p) => HasError(m.pay)}
    [] st = "acked" -> Responses(t, p)
    [] st = "data" ->
         { [ph |-> "END_DATA", targ |-> "done", pay |-> [p EXCEPT !.resp = "ERROR"]],
           [ph |-> "END_DATA", pay |-> p,
            targ |-> CASE p.valid < Chunks -> "wait"
                       [] p.valid = Chunks /\ HasWriteResp -> "acked"
                       [] OTHER -> "done"] }
    [] OTHER -> {}

(* The state in which a phase leaves the target. *)
TargetSees(phase, p) ==
  CASE phase = "BEGIN_REQ" -> "req"
    [] phase = "BEGIN_DATA" -> "data"
    [] phase = "END_RESP" -> IF HasError(p) \/ p.valid = Chunks \/ ~HasBytesValid
                             THEN "done" ELSE "acked"

(* What a call of nb_transport_fw may return, with the payload it leaves. *)
TargetCall(t, phase, p) ==
  LET st == TargetSees(phase, p)
      completes == /\ setup.early
                   /\ phase = "BEGIN_REQ" => ~HasData \/ cmd[t] = "READ"
                   /\ phase = "BEGIN_DATA" => p.valid = Chunks
                   /\ phase = "END_RESP" => st = "done"
  IN {[ret |-> "ACCEPTED", ph |-> phase, targ |-> st, pay |-> p]} \cup
     {[ret |-> "UPDATED", ph |-> m.ph, targ |-> m.targ, pay |-> m.pay] :
         m \in IF phase = "END_RESP" THEN {} ELSE TargetMoves(t, st, p)} \cup
     {[ret |-> "COMPLETED", ph |-> phase, targ |-> "done", pay |-> q] :
         q \in IF ~completes THEN {}
               ELSE IF phase = "BEGIN_REQ"
               THEN {[resp |-> r, valid |-> IF cmd[t] = "READ" THEN Chunks ELSE 0] :
                        r \in {"OK", "ERROR"}}
               ELSE {p}}

----------------------------------------------------------------------------
(* Initiators (external).                                                  *)

(* The state in which a phase leaves the initiator. *)
InitSees(phase, p) ==
  CASE phase = "END_REQ" -> "acked"
    [] phase = "END_DATA" -> IF HasError(p) \/ (p.valid = Chunks /\ ~HasWriteResp)
                             THEN "done" ELSE "acked"
    [] phase = "BEGIN_RESP" -> "resp"

(* The state after END_RESP: a response that is not the last is followed by another. *)
AfterEndResp(p) == IF HasError(p) \/ Over(p) THEN "done" ELSE "acked"

(* What a call of nb_transport_bw may return: END_RESP is the only phase   *)
(* of the protocol on this return path, as the bus expects.                *)
InitCall(phase, p) ==
  LET st == InitSees(phase, p) IN
    {[ret |-> "ACCEPTED", ph |-> phase, init |-> st, pay |-> p]} \cup
    {[ret |-> r, ph |-> "END_RESP", init |-> AfterEndResp(p), pay |-> p] :
        r \in {x \in {"UPDATED", "COMPLETED"} :
                  st = "resp" /\ (x = "COMPLETED" => AfterEndResp(p) = "done")}}

----------------------------------------------------------------------------
Init ==
  /\ setup \in Setups
  /\ fwPeq = [t \in Txns |-> <<>>]
  /\ bwPeq = [t \in Txns |-> <<>>]
  /\ queue = <<>>
  /\ kicks = 0
  /\ idle = TRUE
  /\ states = [t \in Txns |-> {}]
  /\ pay = [t \in Txns |-> Fresh]
  /\ cmd = [t \in Txns |-> "IGNORE"]
  /\ refs = [t \in Txns |-> {}]
  /\ init = [t \in Txns |-> "free"]
  /\ targ = [t \in Txns |-> "none"]
  /\ mapped = TRUE

(* GenericRouter::nb_fw: the call reaches the protocol only if the address *)
(* decodes; otherwise it returns END_REQ with an address error.            *)

(* registerMasterAccess acquires the payload of a BEGIN_REQ. *)
Holders == {"initiator", "bus"}

(* An initiator takes a payload from its pool and sends BEGIN_REQ, one at  *)
(* a time per port.  registerMasterAccess resets the completion states of  *)
(* a payload it sees first, acquires it and queues the phase.              *)
BeginReq(t, c) ==
  /\ t \in setup.txns
  /\ refs[t] = {} /\ init[t] = "free"
  /\ kicks <= KickBound
  /\ \A u \in Txns : Master[u] = Master[t] => init[u] # "req"
  /\ cmd' = [cmd EXCEPT ![t] = c]
  /\ targ' = [targ EXCEPT ![t] = "none"]
  /\ states' = [states EXCEPT ![t] = {}]
  /\ IF DecodeOk
     THEN /\ init' = [init EXCEPT ![t] = "req"]
          /\ refs' = [refs EXCEPT ![t] = Holders]
          /\ pay' = [pay EXCEPT ![t] = Fresh]
          /\ fwPeq' = Notify(fwPeq, t, "BEGIN_REQ", Fresh)
     ELSE /\ init' = [init EXCEPT ![t] = "done"]
          /\ refs' = [refs EXCEPT ![t] = {"initiator"}]
          /\ pay' = [pay EXCEPT ![t] = [Fresh EXCEPT !.resp = "ERROR"]]
          /\ UNCHANGED fwPeq
  /\ UNCHANGED <<bwPeq, queue, kicks, idle, mapped, setup>>

(* The initiator sends a phase of a running transaction: BEGIN_DATA with   *)
(* the next chunk, or END_RESP.                                            *)
InitSends(t, phase, st, p) ==
  /\ IF DecodeOk
     THEN /\ pay' = [pay EXCEPT ![t] = p]
          /\ init' = [init EXCEPT ![t] = st]
          /\ fwPeq' = Notify(fwPeq, t, phase, p)
     ELSE /\ pay' = [pay EXCEPT ![t] = [p EXCEPT !.resp = "ERROR"]]
          /\ init' = [init EXCEPT ![t] = "done"]
          /\ UNCHANGED fwPeq
  /\ UNCHANGED <<bwPeq, queue, kicks, idle, states, cmd, refs, targ, mapped, setup>>

BeginData(t) ==
  /\ init[t] = "acked" /\ NeedsData(t, pay[t])
  /\ InitSends(t, "BEGIN_DATA", "data", [pay[t] EXCEPT !.valid = @ + 1])

EndResp(t) ==
  /\ init[t] = "resp"
  /\ InitSends(t, "END_RESP", AfterEndResp(pay[t]), pay[t])

(* The initiator has seen the end of the transaction and releases it. *)
InitReleases(t) ==
  /\ init[t] = "done"
  /\ init' = [init EXCEPT ![t] = "free"]
  /\ refs' = [refs EXCEPT ![t] = @ \ {"initiator"}]
  /\ UNCHANGED <<fwPeq, bwPeq, queue, kicks, idle, states, pay, cmd, targ, mapped, setup>>

(* A target sends a phase of its own: nb_bw and registerSlaveAccess. *)
RegisterSlaveAccess(t) ==
  /\ \E m \in TargetMoves(t, targ[t], pay[t]) :
       /\ targ' = [targ EXCEPT ![t] = m.targ]
       /\ pay' = [pay EXCEPT ![t] = m.pay]
       /\ bwPeq' = Notify(bwPeq, t, m.ph, m.pay)
  /\ UNCHANGED <<fwPeq, queue, kicks, idle, states, cmd, refs, init, mapped, setup>>

(* Mutant: no notification for the next request. *)
FinishSilent(t, over) ==
  IF over
  THEN idle' = TRUE /\ refs' = [refs EXCEPT ![t] = @ \ {"bus"}] /\ UNCHANGED kicks
  ELSE UNCHANGED <<idle, refs, kicks>>

(* Mutant: the bus stays busy. *)
FinishBusy(t, over) ==
  IF over
  THEN kicks' = kicks + 1 /\ refs' = [refs EXCEPT ![t] = @ \ {"bus"}] /\ UNCHANGED idle
  ELSE UNCHANGED <<idle, refs, kicks>>

(* The end of a transaction in fw_peq_cb and bw_peq_cb. *)
Finish(t, over) ==
  IF over
  THEN /\ idle' = TRUE
       /\ refs' = [refs EXCEPT ![t] = @ \ {"bus"}]
       /\ kicks' = kicks + 1
  ELSE UNCHANGED <<idle, refs, kicks>>

(* Mutant: a completion is not recorded. *)
CompletedForgets(t, side, ret) == states

(* TLM_COMPLETED is recorded: that side must not be called again. *)
Completed(t, side, ret) ==
  IF ret = "COMPLETED" THEN [states EXCEPT ![t] = @ \cup {side}] ELSE states

(* fw_peq_cb for BEGIN_REQ: enqueue, and process at the next clock edge. *)
FwRequest(t) ==
  /\ fwPeq[t] # <<>> /\ Head(fwPeq[t]).ph = "BEGIN_REQ"
  /\ pay' = [pay EXCEPT ![t] = Head(fwPeq[t]).pay]
  /\ fwPeq' = [fwPeq EXCEPT ![t] = Tail(@)]
  /\ queue' = Append(queue, t)
  /\ kicks' = kicks + 1
  /\ UNCHANGED <<bwPeq, idle, states, cmd, refs, init, targ, mapped, setup>>

(* fw_peq_cb for the other phases: pass it to the target unless that has   *)
(* completed the transaction; the last END_RESP frees the bus.             *)
FwForward(t) ==
  /\ fwPeq[t] # <<>> /\ Head(fwPeq[t]).ph # "BEGIN_REQ"
  /\ fwPeq' = [fwPeq EXCEPT ![t] = Tail(@)]
  /\ LET phase == Head(fwPeq[t]).ph
         p     == Head(fwPeq[t]).pay
         Ends(q) == Finish(t, phase = "END_RESP" /\ (Over(q) \/ HasError(q)))
     IN \/ /\ "target" \in states[t] \/ ~DecodeOk
           /\ pay' = [pay EXCEPT ![t] = p]
           /\ Ends(p)
           /\ UNCHANGED <<bwPeq, states, targ>>
        \/ /\ "target" \notin states[t] /\ DecodeOk
           /\ \E r \in TargetCall(t, phase, p) :
                /\ pay' = [pay EXCEPT ![t] = r.pay]
                /\ targ' = [targ EXCEPT ![t] = r.targ]
                /\ bwPeq' = CASE r.ret = "UPDATED" -> Notify(bwPeq, t, r.ph, r.pay)
                              [] r.ret = "COMPLETED" /\ phase = "BEGIN_DATA" ->
                                   Notify(bwPeq, t, "END_DATA", r.pay)
                              [] OTHER -> bwPeq
                /\ states' = Completed(t, "target", r.ret)
                /\ Ends(r.pay)
  /\ UNCHANGED <<queue, cmd, init, mapped, setup>>

(* bw_peq_cb: pass the phase to the initiator unless that has completed    *)
(* the transaction; the last END_DATA, or a data error, frees the bus.     *)
BwForward(t) ==
  /\ bwPeq[t] # <<>>
  /\ bwPeq' = [bwPeq EXCEPT ![t] = Tail(@)]
  /\ LET phase == Head(bwPeq[t]).ph
         p     == Head(bwPeq[t]).pay
         Ends(q) == Finish(t, phase = "END_DATA" /\ ((~HasWriteResp /\ Over(q)) \/ HasError(q)))
     IN \/ /\ "initiator" \in states[t]
           /\ pay' = [pay EXCEPT ![t] = p]
           /\ Ends(p)
           /\ UNCHANGED <<fwPeq, states, init>>
        \/ /\ "initiator" \notin states[t]
           /\ \E r \in InitCall(phase, p) :
                /\ pay' = [pay EXCEPT ![t] = r.pay]
                /\ init' = [init EXCEPT ![t] = r.init]
                /\ fwPeq' = IF r.ret = "ACCEPTED" THEN fwPeq ELSE Notify(fwPeq, t, r.ph, r.pay)
                /\ states' = Completed(t, "initiator", r.ret)
                /\ Ends(r.pay)
  /\ UNCHANGED <<queue, cmd, targ, mapped, setup>>

(* Mutant: first come, first served. *)
DequeueFifo(i) == i = 1 /\ queue # <<>>

(* fixedPriorityScheduler: the multiset is ordered by master, equal ones   *)
(* by arrival; dequeue takes the first.                                    *)
Dequeue(i) ==
  /\ i \in 1..Len(queue)
  /\ \A j \in 1..Len(queue) :
       \/ Master[queue[i]] < Master[queue[j]]
       \/ Master[queue[i]] = Master[queue[j]] /\ i <= j

(* The bus is idle and the scheduler has a request. *)
MayGrant == idle /\ queue # <<>>

(* processMasterAccess, run once per notification: grant the bus if it is  *)
(* idle and a request is pending.                                          *)
Grant(i) ==
  /\ kicks > 0 /\ MayGrant /\ Dequeue(i)
  /\ kicks' = kicks - 1
  /\ idle' = FALSE
  /\ queue' = RemoveAt(queue, i)
  /\ LET t == queue[i] IN
       \/ /\ ~DecodeOk
          /\ UNCHANGED <<pay, targ, bwPeq, states>>
       \/ /\ DecodeOk
          /\ \E r \in TargetCall(t, "BEGIN_REQ", pay[t]) :
               /\ pay' = [pay EXCEPT ![t] = r.pay]
               /\ targ' = [targ EXCEPT ![t] = r.targ]
               /\ bwPeq' = CASE r.ret = "UPDATED" -> Notify(bwPeq, t, r.ph, r.pay)
                             [] r.ret = "COMPLETED" ->
                                  Notify(bwPeq, t,
                                         IF \/ cmd[t] = "WRITE" /\ HasWriteResp
                                            \/ cmd[t] = "READ"
                                         THEN "BEGIN_RESP" ELSE "END_REQ", r.pay)
                             [] OTHER -> bwPeq
               /\ states' = Completed(t, "target", r.ret)
  /\ UNCHANGED <<fwPeq, cmd, refs, init, mapped, setup>>

(* processMasterAccess while the bus is busy or nobody waits. *)
NoGrant ==
  /\ kicks > 0 /\ ~MayGrant
  /\ kicks' = kicks - 1
  /\ UNCHANGED <<fwPeq, bwPeq, queue, idle, states, pay, refs, env>>

(* A base address changes: the addresses in use stop or start decoding. *)
Remap ==
  /\ setup.remap
  /\ mapped' = ~mapped
  /\ UNCHANGED <<bus, cmd, init, targ, pay, setup>>

Router(t) == FwRequest(t) \/ FwForward(t) \/ BwForward(t)
Kernel    == NoGrant \/ \E i \in 1..Len(queue) : Grant(i)
Agents(t) == BeginData(t) \/ EndResp(t) \/ InitReleases(t) \/ RegisterSlaveAccess(t)

Next == \/ \E t \in Txns : Router(t) \/ Agents(t) \/ \E c \in Commands : BeginReq(t, c)
        \/ Kernel
        \/ Remap

Spec == Init /\ [][Next]_vars

(* The kernel runs what is due, and initiators and targets that owe a      *)
(* phase eventually send it; nobody has to issue a request.                *)
Fairness == /\ WF_vars(Kernel)
            /\ \A t \in Txns : WF_vars(Router(t)) /\ WF_vars(Agents(t))

LiveSpec == Spec /\ Fairness

----------------------------------------------------------------------------
(* Transactions that wait for the bus, and those that it processes. *)
Arriving == {t \in Txns : \E i \in 1..Len(fwPeq[t]) : fwPeq[t][i].ph = "BEGIN_REQ"}
Queued   == {queue[i] : i \in 1..Len(queue)}
Waiting  == Arriving \cup Queued
Active   == {t \in Txns : "bus" \in refs[t]} \ Waiting

(* No request is forgotten: while the bus is idle and a request is queued  *)
(* a notification is pending that will process it, although notifications  *)
(* that find the bus busy are consumed without effect.                     *)
NoLostRequest == idle /\ queue # <<>> => kicks > 0

(* The bus never touches a payload it has released: whatever it still has  *)
(* queued or waiting belongs to a payload that it has acquired.            *)
NoUseAfterRelease ==
  \A t \in Txns : (fwPeq[t] # <<>> \/ bwPeq[t] # <<>> \/ t \in Waiting) => "bus" \in refs[t]

(* Initiators and targets only ever see the phases that the protocol       *)
(* allows in their state, whatever was merged, skipped or completed early. *)
PhasesInOrder ==
  \A t \in Txns :
    /\ bwPeq[t] # <<>> =>
         LET phase == Head(bwPeq[t]).ph IN
           CASE init[t] = "req"   -> phase \in {"END_REQ", "BEGIN_RESP"}
             [] init[t] = "acked" -> phase = "BEGIN_RESP"
             [] init[t] = "data"  -> phase = "END_DATA"
             [] OTHER -> FALSE
    /\ fwPeq[t] # <<>> /\ "target" \notin states[t] =>
         LET phase == Head(fwPeq[t]).ph IN
           CASE targ[t] = "none"  -> phase = "BEGIN_REQ"
             [] targ[t] = "wait"  -> phase = "BEGIN_DATA"
             [] targ[t] = "resp"  -> phase = "END_RESP"
             [] OTHER -> FALSE

Arbiter == INSTANCE BusArbiter WITH
             arriving <- Arriving, waiting <- Queued, owner <- Active

(* The bus and the scheduler implement the arbiter: one owner at a time,   *)
(* granted by priority, and a bus that is freed only by its owner.         *)
ImplementsArbiter == Arbiter!ASpec

(* "else they will have to wait until the bus is available again": a       *)
(* transaction that is granted the bus leaves it, unless base addresses    *)
(* change while the simulation runs (processMasterAccess).                 *)
BusFrees == ~idle /\ ~setup.remap ~> idle

(* A request of the port with the highest priority is eventually answered, *)
(* unless base addresses change: its initiator sees the end of the         *)
(* transaction (fixedPriorityScheduler, processMasterAccess).              *)
FirstServed ==
  \A t \in Txns : (\A u \in Txns : Master[t] <= Master[u]) =>
    (init[t] = "req" /\ ~setup.remap) ~> (init[t] = "done")

============================================================================
