----------------------------- MODULE GsgpSockets -----------------------------
(***************************************************************************)
(* The GSGP master and slave sockets: functors that send a GreenBus phase, *)
(* transport callbacks that receive a TLM-2.0 phase, and the event queues  *)
(* in front of the users.  conf.link says who is connected:                *)
(*   "gsgp"       master socket - slave socket                             *)
(*   "target"     master socket - target of the TLM base protocol          *)
(*   "initiator"  initiator of the base protocol - slave socket            *)
(* Initiator, target and the users of the sockets are external.  A base    *)
(* protocol peer knows no data phases, so the sockets make them up.        *)
(*                                                                         *)
(* All state of a transaction is one record of txn: the payload (cmd,      *)
(* resp, bv), the instance specific extensions of the sockets (mc and sc:  *)
(* completed, req: in the request cycle, serr: sent as an error), the      *)
(* queues bwq and fwq, what the two sides do (mu, su) and the result each  *)
(* has seen (mout, sout).  A functor is an operator on that record; those  *)
(* that call the other side yield the set of records the peer can cause.   *)
(* Delays of one transaction do not overtake each other, so its queues are *)
(* FIFO; queues of different transactions are not ordered.                 *)
(***************************************************************************)
EXTENDS Integers, Sequences, FiniteSets

CONSTANTS
  Txns,      \* transactions of the pool
  Burst,     \* data is sent in this many chunks (bytes_valid counts them)
  Rounds     \* bound: times the pool hands out each transaction

ASSUME BurstAssumption == Burst \in Nat \ {0}

VARIABLES
  conf,      \* [link, wr_resp, style]: style "f" is a slave with f_transact only
  txn,
  blocking   \* a call of b_transport: "none", "waiting", "ready", "running"

socketVars == <<conf, txn, blocking>>

Gsgp == conf.link = "gsgp"
Err(x) == x.resp = "error"
IsWrite(x) == x.cmd = "write"

Fresh == [cmd |-> "read", resp |-> "incomplete", bv |-> 0, mc |-> FALSE, req |-> FALSE,
          sc |-> FALSE, serr |-> FALSE, bwq |-> <<>>, fwq |-> <<>>, mu |-> "idle", su |-> "idle",
          sent |-> 0, mout |-> "none", sout |-> "none", round |-> 0, assert |-> TRUE, legal |-> TRUE]

BwEnq(x, ph) == [x EXCEPT !.bwq = Append(@, [ph |-> ph, bv |-> x.bv, resp |-> x.resp])]
FwEnq(x, ph) == [x EXCEPT !.fwq = Append(@, [ph |-> ph, bv |-> x.bv, resp |-> x.resp])]
MasterDone(x, r) == [x EXCEPT !.mu = "done", !.mout = r]
SlaveDone(x, r) == [x EXCEPT !.su = "done", !.sout = r]
Check(x, ok) == [x EXCEPT !.assert = @ /\ ok]

(* synchronize_transaction_phase: TLM phase and status to GreenBus phase *)
GreenBusPhase(ph, resp, inReq) ==
  CASE ph = "BEGIN_REQ"  -> "RequestValid"
    [] ph = "END_REQ"    -> "RequestAccepted"
    [] ph = "BEGIN_DATA" -> "DataValid"
    [] ph = "END_DATA"   -> IF resp = "error" THEN "DataError" ELSE "DataAccepted"
    [] ph = "BEGIN_RESP" -> IF resp # "ok" /\ inReq THEN "RequestError" ELSE "ResponseValid"
    [] ph = "END_RESP"   -> IF resp = "error" THEN "ResponseError" ELSE "ResponseAccepted"

Result(x, ret, ph) == [x |-> x, ret |-> ret, ph |-> ph]
Accepted(x) == {Result(x, "ACCEPTED", "none")}
-----------------------------------------------------------------------------
(* Receiving a call: bw_nb_transport_cb of the master socket *)

AsItComes(x) == x     \* mutant
EndReqFirst(x) == IF x.req THEN BwEnq(x, "END_REQ") ELSE x
Return(x, completed) == Result(x, IF completed THEN "COMPLETED" ELSE "ACCEPTED", "none")
MasterSees(x, ph) == [x EXCEPT !.mc = FALSE, !.req = @ /\ ph # "END_REQ",
                               !.bv = IF ~Gsgp /\ ph = "BEGIN_RESP" THEN Burst ELSE @]
MasterReceives(x, ph) ==
  LET z == MasterSees(x, ph)
      early == ph = "BEGIN_RESP" /\ z.req /\ z.resp # "ok"
  IN IF Gsgp THEN Return(BwEnq(z, ph), early)
     ELSE IF ph = "END_REQ" THEN Return(IF IsWrite(x) THEN z ELSE BwEnq(z, ph), FALSE)
     ELSE IF ~IsWrite(x) THEN Return(BwEnq(EndReqFirst(z), "BEGIN_RESP"), early)
     ELSE IF conf.wr_resp /\ z.resp = "ok"
     THEN Return(BwEnq(BwEnq(z, "END_DATA"), "BEGIN_RESP"), early)
     ELSE Return(BwEnq(z, "END_DATA"), TRUE)

(* fw_nb_transport_cb of the slave socket *)
SlaveReceives(x, ph) ==
  LET y == [x EXCEPT !.sc = FALSE, !.serr = @ /\ ph # "BEGIN_REQ"]
      z == IF Gsgp THEN y ELSE [y EXCEPT !.bv = Burst]
  IN IF ph = "END_RESP" /\ Err(y) /\ y.serr THEN Accepted(y)
     ELSE IF ~Gsgp /\ ph = "END_RESP" /\ IsWrite(x)
     THEN LET w == [z EXCEPT !.resp = "ok"]
          IN {Result(IF conf.wr_resp THEN FwEnq(w, ph) ELSE w, "COMPLETED", "none")}
     ELSE Accepted(FwEnq(z, ph))

(* A base protocol target answers at once or later; a router that cannot
   decode the address answers END_REQ with an error *)
TargetReceives(x, ph) ==
  IF ph = "END_RESP"
  THEN LET y == SlaveDone(x, IF Err(x) THEN "error" ELSE x.sout)
       IN Accepted(y) \cup {Result(y, "COMPLETED", "none")}
  ELSE Accepted([x EXCEPT !.su = "req"])
       \cup {Result([x EXCEPT !.su = "work"], "UPDATED", "END_REQ"),
             Result(SlaveDone([x EXCEPT !.resp = "error"], "error"), "UPDATED", "END_REQ")}
       \cup {Result(SlaveDone([x EXCEPT !.resp = r], r), "COMPLETED", "none") : r \in {"ok", "error"}}
       \cup {Result([x EXCEPT !.resp = r, !.su = "respwait", !.sout = r], "UPDATED", "BEGIN_RESP")
               : r \in {"ok", "error"}}

(* A base protocol initiator *)
InitiatorReceives(x, ph) ==
  IF ph = "END_REQ"
  THEN Accepted([x EXCEPT !.mu = "resp", !.legal = @ /\ x.mu = "req"])
  ELSE LET y == [x EXCEPT !.legal = @ /\ x.mu \in {"req", "resp"}, !.mout = x.resp]
       IN Accepted([y EXCEPT !.mu = "ack"])
            \cup {Result(MasterDone(y, y.resp), "COMPLETED", "none"),
                  Result(MasterDone(y, y.resp), "UPDATED", "END_RESP")}

FwSend(x, ph) == IF conf.link = "target" THEN TargetReceives(x, ph) ELSE SlaveReceives(x, ph)
BwSend(x, ph) == IF conf.link = "initiator" THEN InitiatorReceives(x, ph) ELSE {MasterReceives(x, ph)}
Sent(rs) == {r.x : r \in rs}
-----------------------------------------------------------------------------
(* Functors of the master socket *)

RequestReturns(r) ==
  LET x == r.x IN
  CASE r.ret = "ACCEPTED" -> {x}
    [] r.ret = "UPDATED" /\ r.ph = "END_REQ" ->
         {BwEnq([x EXCEPT !.req = FALSE], IF Err(x) THEN "BEGIN_RESP" ELSE "END_REQ")}
    [] r.ret = "UPDATED" /\ r.ph = "BEGIN_RESP" ->
         IF ~Err(x) THEN {BwEnq(BwEnq(x, "END_REQ"), "BEGIN_RESP")}
         ELSE {BwEnq(y, "BEGIN_RESP") : y \in IF x.req THEN Sent(FwSend(x, "END_RESP")) ELSE {x}}
    [] r.ret = "COMPLETED" ->
         LET y == [Check(x, ~IsWrite(x)) EXCEPT !.mc = TRUE]
             z == IF Err(y) THEN y ELSE BwEnq(y, "END_REQ")
         IN {BwEnq(IF Gsgp THEN z ELSE [z EXCEPT !.bv = Burst], "BEGIN_RESP")}

BeginKeepsCompleted(x) == [x EXCEPT !.req = TRUE, !.bv = 0]     \* mutant
Begin(x) == [x EXCEPT !.mc = FALSE, !.req = TRUE, !.bv = 0]
Request(x) ==
  IF ~Gsgp /\ IsWrite(x) THEN {BwEnq(Begin(x), "END_REQ")}
  ELSE UNION {RequestReturns(r) : r \in FwSend(Begin(x), "BEGIN_REQ")}

SendDataReturns(r) ==
  LET x == r.x
      more == conf.wr_resp /\ ~Err(x)
      Ack(y) == IF more THEN BwEnq(BwEnq(y, "END_DATA"), "BEGIN_RESP") ELSE BwEnq(y, "END_DATA")
  IN CASE r.ret = "ACCEPTED" -> {x}
       [] r.ret = "UPDATED" /\ r.ph = "END_REQ" -> {[x EXCEPT !.req = FALSE]}
       [] r.ret = "UPDATED" /\ r.ph = "BEGIN_RESP" ->
            IF more THEN {Ack(Check(x, ~Gsgp))} ELSE Sent(FwSend(Ack(Check(x, ~Gsgp)), "END_RESP"))
       [] r.ret = "COMPLETED" -> {Ack([x EXCEPT !.mc = TRUE])}

SendData(x, chunk) ==
  LET y == [Check(x, ~x.mc /\ IsWrite(x)) EXCEPT !.bv = chunk]
  IN IF Gsgp THEN UNION {SendDataReturns(r) : r \in FwSend(y, "BEGIN_DATA")}
     ELSE IF chunk < Burst THEN {BwEnq(y, "END_DATA")}
     ELSE UNION {SendDataReturns(r) : r \in FwSend([y EXCEPT !.req = TRUE], "BEGIN_REQ")}

(* AckResponse, and ErrorResponse, which sets the status *)
Completes(rs) == {IF r.ret = "COMPLETED" THEN [r.x EXCEPT !.mc = TRUE] ELSE r.x : r \in rs}
AckResponse(x) == IF x.mc THEN {x} ELSE Completes(FwSend(x, "END_RESP"))
ErrorResponse(x) == IF x.mc THEN {x} ELSE Completes(FwSend([x EXCEPT !.resp = "error"], "END_RESP"))
-----------------------------------------------------------------------------
(* Functors of the slave socket *)

AckRequest(x) ==
  IF x.sc THEN {x}
  ELSE IF ~Gsgp /\ IsWrite(x) THEN {FwEnq([x EXCEPT !.bv = Burst], "BEGIN_DATA")}
  ELSE Sent(BwSend(x, "END_REQ"))

EndedOnlyCompleted(r) == r.ret = "COMPLETED"     \* mutant
Ended(r) == r.ret = "COMPLETED" \/ r.ph = "END_RESP"
SendErrorAsIs(x, ph) ==     \* mutant
  {[r.x EXCEPT !.sc = @ \/ Ended(r)] :
     r \in BwSend([Check(x, ~x.sc) EXCEPT !.resp = "ok", !.serr = TRUE], ph)}
SendError(x, ph) ==
  {[r.x EXCEPT !.sc = @ \/ Ended(r)] :
     r \in BwSend([Check(x, ~x.sc) EXCEPT !.resp = "error", !.serr = TRUE], ph)}
ErrorRequest(x) == SendError(x, "BEGIN_RESP")
ErrorData(x) == SendError(x, IF Gsgp THEN "END_DATA" ELSE "BEGIN_RESP")

(* a base protocol initiator gets END_REQ, and at once its response unless the
   user of the slave sends write responses *)
AckData(x) ==
  IF x.sc THEN {x}
  ELSE IF Gsgp THEN Sent(BwSend(x, "END_DATA"))
  ELSE UNION {IF conf.wr_resp THEN {r.x}
              ELSE {[q.x EXCEPT !.sc = @ \/ q.ret = "COMPLETED"] :
                      q \in BwSend([r.x EXCEPT !.resp = "ok"], "BEGIN_RESP")} : r \in BwSend(x, "END_REQ")}

Response(x, chunk) ==
  LET y == [Check(x, ~x.sc /\ x.resp # "incomplete" /\ (IsWrite(x) => conf.wr_resp)) EXCEPT !.bv = chunk]
  IN IF ~Gsgp /\ chunk < Burst THEN {FwEnq(y, "END_RESP")}
     ELSE {IF Ended(r) THEN [FwEnq(r.x, "END_RESP") EXCEPT !.sc = @ \/ r.ret = "COMPLETED"] ELSE r.x :
             r \in BwSend(y, "BEGIN_RESP")}
-----------------------------------------------------------------------------
(* What the queues deliver *)

Delivered(x, q) == [x EXCEPT !.resp = Head(q).resp, !.bv = Head(q).bv]

MasterUser(x, gb) ==
  CASE gb = "RequestAccepted" /\ x.mu = "req" -> [x EXCEPT !.mu = IF IsWrite(x) THEN "send" ELSE "resp"]
    [] gb = "RequestError" /\ x.mu = "req" -> MasterDone(x, "error")
    [] gb = "DataAccepted" /\ x.mu = "data" ->
         IF x.sent < Burst THEN [x EXCEPT !.mu = "send"]
         ELSE IF conf.wr_resp THEN [x EXCEPT !.mu = "resp"] ELSE MasterDone(x, "ok")
    [] gb = "DataError" /\ x.mu = "data" -> MasterDone(x, "error")
    [] gb = "ResponseValid" /\ (x.mu = "resp" \/ (x.mu = "req" /\ Err(x))) -> [x EXCEPT !.mu = "ack"]
    [] OTHER -> [x EXCEPT !.legal = FALSE]

(* bw_peq_cb: an END_REQ with an error is dropped, a BEGIN_RESP follows *)
BwPeq(x) ==
  LET ph == Head(x.bwq).ph
      y == [Delivered(x, x.bwq) EXCEPT !.bwq = Tail(@)]
  IN IF ph = "END_REQ" /\ Err(y) THEN [y EXCEPT !.req = TRUE]
     ELSE MasterUser([y EXCEPT !.req = FALSE], GreenBusPhase(ph, y.resp, y.req))

SlaveUser(x, gb) ==
  CASE gb = "RequestValid" /\ x.su \in {"idle", "done"} -> [x EXCEPT !.su = "req"]
    [] gb = "DataValid" /\ x.su = "wait" /\ x.bv = (IF Gsgp THEN x.sent ELSE Burst) -> [x EXCEPT !.su = "data"]
    [] gb \in {"ResponseAccepted", "ResponseError"} /\ x.su = "respwait" ->
         IF gb = "ResponseError" \/ x.sout = "error" THEN SlaveDone(x, "error")
         ELSE IF x.bv < Burst THEN [x EXCEPT !.su = "resp"] ELSE SlaveDone(x, "ok")
    [] OTHER -> [x EXCEPT !.legal = FALSE]

AfterData(x) ==
  IF x.bv < Burst THEN [x EXCEPT !.su = "wait"]
  ELSE IF conf.wr_resp THEN [x EXCEPT !.su = "resp"] ELSE SlaveDone(x, "ok")
AfterRequest(x) == [x EXCEPT !.su = IF IsWrite(x) THEN "wait" ELSE "resp"]
Respond(x, chunk, r) ==
  Response([x EXCEPT !.resp = r, !.sout = r, !.su = "respwait", !.sent = chunk], chunk)

(* nb_from_f: the socket answers for a user that only has f_transact *)
NbFromF(x) ==
  CASE x.su = "req" -> UNION {IF IsWrite(y) THEN {y} ELSE Respond(y, Burst, "ok") : y \in AckRequest(AfterRequest(x))}
    [] x.su = "data" -> AckData(AfterData(x))
    [] OTHER -> {x}

FwPeq(x) ==
  LET y == [Delivered(x, x.fwq) EXCEPT !.fwq = Tail(@)]
      z == SlaveUser(y, GreenBusPhase(Head(x.fwq).ph, y.resp, FALSE))
  IN IF conf.style = "f" THEN NbFromF(z) ELSE {z}
-----------------------------------------------------------------------------
SocketsInit ==
  /\ conf \in [link : {"gsgp", "target", "initiator"}, wr_resp : BOOLEAN, style : {"nb", "f"}]
  /\ conf.style = "f" => ~conf.wr_resp     \* nb_from_f sends no write response
  /\ conf.link = "target" => conf.style = "nb"     \* no slave socket
  /\ txn = [t \in Txns |-> Fresh]
  /\ blocking = "none"

Step(t, ys) == \E y \in ys : txn' = [txn EXCEPT ![t] = y]
Outstanding(ts) == \E t \in Txns : ts[t].fwq # <<>>    \* m_outstanding_nb_count > 0

(* the pool hands out a transaction nobody holds a reference to *)
Free(x) == {x.mu, x.su} \subseteq {"idle", "done"} /\ x.bwq = <<>> /\ x.fwq = <<>> /\ x.round < Rounds
Start(x, cmd) == [x EXCEPT !.cmd = cmd, !.resp = "incomplete", !.mu = "req", !.su = "idle", !.sent = 0,
                           !.mout = "none", !.sout = "none", !.round = @ + 1]

(* users of the master socket *)
UserRequests(t, cmd) ==
  conf.link # "initiator" /\ Free(txn[t]) /\ Step(t, Request(Start(txn[t], cmd)))
UserSendsData(t) ==
  LET x == txn[t] IN
  /\ conf.link # "initiator" /\ x.mu = "send"
  /\ Step(t, SendData([x EXCEPT !.mu = "data", !.sent = @ + 1], x.sent + 1))
UserAcks(t) ==
  LET x == txn[t]
      y == IF ~IsWrite(x) /\ ~Err(x) /\ x.bv < Burst THEN [x EXCEPT !.mu = "resp"] ELSE MasterDone(x, x.resp)
  IN /\ conf.link # "initiator" /\ x.mu = "ack"
     /\ Step(t, AckResponse(y) \cup ErrorResponse(MasterDone(x, "rejected")))
MasterPeq(t) == txn[t].bwq # <<>> /\ Step(t, {BwPeq(txn[t])})

(* base protocol initiator *)
InitiatorRequests(t, cmd) ==
  conf.link = "initiator" /\ Free(txn[t]) /\ Step(t, Sent(SlaveReceives(Start(txn[t], cmd), "BEGIN_REQ")))
InitiatorEnds(t) ==
  /\ conf.link = "initiator" /\ txn[t].mu = "ack"
  /\ Step(t, Sent(SlaveReceives(MasterDone(txn[t], txn[t].mout), "END_RESP")))

(* base protocol target *)
TargetEndsReq(t) ==
  /\ conf.link = "target" /\ txn[t].su = "req"
  /\ Step(t, Sent({MasterReceives([txn[t] EXCEPT !.su = "work"], "END_REQ")}))
TargetResponds(t, r) ==
  LET q == MasterReceives([txn[t] EXCEPT !.resp = r, !.sout = r, !.su = "respwait"], "BEGIN_RESP")
  IN /\ conf.link = "target" /\ txn[t].su \in {"req", "work"}
     /\ Step(t, {IF q.ret = "COMPLETED" THEN SlaveDone(q.x, r) ELSE q.x})

(* users of the slave socket; an error response carries all bytes *)
UserAnswers(t) ==
  LET x == txn[t] IN
  /\ conf.link # "target" /\ conf.style = "nb"
  /\ \/ x.su = "req" /\ Step(t, AckRequest(AfterRequest(x)) \cup ErrorRequest(SlaveDone(x, "error")))
     \/ x.su = "data" /\ Step(t, AckData(AfterData(x)) \cup ErrorData(SlaveDone(x, "error")))
     \/ /\ x.su = "resp"
        /\ Step(t, Respond(x, IF IsWrite(x) THEN Burst ELSE x.sent + 1, "ok") \cup Respond(x, Burst, "error"))
SlavePeq(t) ==
  /\ txn[t].fwq # <<>> /\ Step(t, FwPeq(txn[t]))
  /\ blocking' = IF blocking = "waiting" /\ ~Outstanding(txn') THEN "ready" ELSE blocking
  /\ UNCHANGED conf

(* fw_b_transport_cb *)
BlockingCall ==
  /\ conf.link # "target"
  /\ \/ blocking = "none" /\ blocking' = IF Outstanding(txn) THEN "waiting" ELSE "running"
     \/ blocking = "ready" /\ blocking' = "running"
     \/ blocking = "running" /\ blocking' = "none"
  /\ UNCHANGED <<conf, txn>>

Progress(t) ==
  UserSendsData(t) \/ UserAcks(t) \/ MasterPeq(t) \/ InitiatorEnds(t) \/ TargetEndsReq(t)
    \/ (\E r \in {"ok", "error"} : TargetResponds(t, r)) \/ UserAnswers(t)
SocketsNext ==
  \/ \E t \in Txns :
       \/ /\ Progress(t) \/ \E cmd \in {"read", "write"} : UserRequests(t, cmd) \/ InitiatorRequests(t, cmd)
          /\ UNCHANGED <<conf, blocking>>
       \/ SlavePeq(t)
  \/ BlockingCall

(* the kernel runs every process that is ready, peers and users answer *)
Fairness == /\ \A t \in Txns : WF_socketVars(Progress(t) /\ UNCHANGED <<conf, blocking>>) /\ WF_socketVars(SlavePeq(t))
            /\ WF_socketVars(BlockingCall)
SocketsSpec == SocketsInit /\ [][SocketsNext]_socketVars /\ Fairness
-----------------------------------------------------------------------------
(* The assertions of the functors hold however the peers answer and whatever an
   earlier round left in the recycled transaction: no data or response is sent
   after the transaction was completed, a request to a GSGP slave is not
   completed at once, a response has a status (GSGPMasterSocket.tpp SendData,
   Request; GSGPSlaveSocket.tpp ErrorRequest, ErrorData, Response). *)
SocketAsserts == \A t \in Txns : txn[t].assert

(* The users on both sides get exactly the phases of the GreenBus generic
   protocol, in its order, although a base protocol peer sends only some of them
   and may skip END_REQ (bw_nb_transport_cb, bw_peq_cb, fw_peq_cb). *)
UsersSeeProtocol == \A t \in Txns : txn[t].legal

(* A transaction both sides are done with has ended the same way on both: an
   error reported by the slave or by ErrorResponse of the master reaches the
   other side, unless the transaction was already completed. *)
OutcomesAgree ==
  \A t \in Txns : LET x == txn[t] IN
    x.mu = "done" /\ x.su = "done" =>
      IF x.mout = "rejected" THEN x.mc \/ x.sout = "error" ELSE x.mout = x.sout

(* The target is done, nothing is queued, and the user of the master waits for
   ever: SendData got END_REQ with an error and queued nothing for it, or Request
   got BEGIN_RESP, which leaves bytes_valid unset. *)
Stranded(x) ==
  /\ conf.link = "target" /\ x.su = "done" /\ x.bwq = <<>> /\ x.fwq = <<>>
  /\ \/ IsWrite(x) /\ x.mu = "data" /\ Err(x) /\ ~x.mc /\ ~x.req
     \/ ~IsWrite(x) /\ x.mu = "resp" /\ x.resp = "ok" /\ x.bv < Burst

(* Every transaction a master starts ends on both sides, but for the two cases
   above: no phase the users wait for is swallowed by a socket (Ended, the
   queues, SlaveReceives). *)
EveryTxnEnds ==
  \A t \in Txns : txn[t].mu \notin {"idle", "done"} ~>
    (txn[t].mu = "done" /\ txn[t].su = "done") \/ Stranded(txn[t])
=============================================================================
