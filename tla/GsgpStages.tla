----------------------------- MODULE GsgpStages -----------------------------
(***************************************************************************)
(* Where a transaction of GsgpSockets can be: its stages.  A stage says at *)
(* once what the two sides do (mu, su), which phases are still queued, the *)
(* flags the sockets keep and how far the data got; every handler moves a  *)
(* transaction from a stage of its link to a stage of its link.  This is   *)
(* the inductive invariant of the sockets: TransportProofs proves it, and  *)
(* from it that the assertions hold, that the users see the generic        *)
(* protocol and that both sides agree on the outcome.                      *)
(***************************************************************************)
EXTENDS GsgpSockets

(* Types of the payload, of a queued phase, of a transaction and of conf. *)
Statuses == {"incomplete", "ok", "error"}
Phases == {"BEGIN_REQ", "END_REQ", "BEGIN_DATA", "END_DATA", "BEGIN_RESP", "END_RESP"}
Messages == [ph : Phases, bv : 0 .. Burst, resp : Statuses]
Txn ==
  [cmd : {"read", "write"}, resp : Statuses, bv : 0 .. Burst,
   mc : BOOLEAN, req : BOOLEAN, sc : BOOLEAN, serr : BOOLEAN,
   bwq : Seq(Messages), fwq : Seq(Messages),
   mu : {"idle", "req", "send", "data", "resp", "ack", "done"},
   su : {"idle", "req", "wait", "work", "data", "resp", "respwait", "done"},
   sent : 0 .. Burst, mout : {"none", "ok", "error", "rejected"},
   sout : {"none", "ok", "error"}, round : Nat, assert : BOOLEAN, legal : BOOLEAN]
Confs == [link : {"gsgp", "target", "initiator"}, wr_resp : BOOLEAN, style : {"nb", "f"}]

(* What the two sides do, and what is queued for them. *)
Msg(ph, b, r) == [ph |-> ph, bv |-> b, resp |-> r]
At(x, m, s) == x.mu = m /\ x.su = s
Queues(x, b, f) == x.bwq = b /\ x.fwq = f
Quiet(x) == Queues(x, <<>>, <<>>)

(* Nobody works on it: it was never used, or both sides are done with it and
   agree on how it ended. *)
Agree(x) == IF x.mout = "rejected" THEN x.mc \/ x.sout = "error" ELSE x.mout = x.sout
Resting(x) == Quiet(x) /\ (At(x, "idle", "idle") \/ (At(x, "done", "done") /\ Agree(x)))

(* All data of a write has been sent, and it gets a response *)
AllSent(x) == conf.wr_resp /\ x.sent = Burst
(* The flags of a transaction no socket has completed or failed *)
Clear(x) == ~x.mc /\ ~x.sc /\ ~x.serr
-----------------------------------------------------------------------------
(* Master socket and slave socket: the request travels, is with the user of the
   slave, or was accepted; nothing was completed or failed, so the request
   extension of the master tells whether END_REQ is still to come. *)
GsgpRequest(x) ==
  /\ Clear(x) /\ x.resp = "incomplete" /\ x.sent = 0 /\ x.bv = 0
  /\ \/ x.req /\ At(x, "req", "idle") /\ Queues(x, <<>>, <<Msg("BEGIN_REQ", 0, "incomplete")>>)
     \/ x.req /\ At(x, "req", "req") /\ Quiet(x)
     \/ /\ ~x.req /\ At(x, "req", IF IsWrite(x) THEN "wait" ELSE "resp")
        /\ Queues(x, <<Msg("END_REQ", 0, "incomplete")>>, <<>>)

(* A chunk of a write is due, travels, is with the user of the slave, or was
   acknowledged, the last one with or without a response to follow. *)
GsgpData(x) ==
  /\ Clear(x) /\ ~x.req /\ IsWrite(x) /\ x.resp = "incomplete"
  /\ \/ At(x, "send", "wait") /\ Quiet(x) /\ x.sent < Burst
     \/ At(x, "data", "wait") /\ Queues(x, <<>>, <<Msg("BEGIN_DATA", x.sent, "incomplete")>>)
     \/ At(x, "data", "data") /\ Quiet(x) /\ x.bv = x.sent
     \/ /\ At(x, "data", "wait") /\ x.sent < Burst
        /\ Queues(x, <<Msg("END_DATA", x.sent, "incomplete")>>, <<>>)
     \/ /\ \/ At(x, "data", "done") /\ ~conf.wr_resp /\ x.sent = Burst /\ x.sout = "ok"
           \/ At(x, "data", "resp") /\ AllSent(x)
        /\ Queues(x, <<Msg("END_DATA", Burst, "incomplete")>>, <<>>)

(* The user of the slave is due a response or waits for its acknowledgement; its
   BEGIN_RESP may still queue behind the END_REQ or END_DATA it followed. *)
GsgpResponse(x) ==
  LET answer == Msg("BEGIN_RESP", x.sent, x.sout) IN
  /\ Clear(x) /\ ~x.req
  /\ \/ At(x, "resp", "resp") /\ Quiet(x) /\ (IF IsWrite(x) THEN AllSent(x) ELSE x.sent < Burst)
     \/ /\ x.su = "respwait" /\ x.sout # "none" /\ (IsWrite(x) => AllSent(x))
        /\ \/ /\ x.mu = "req" /\ ~IsWrite(x)
              /\ Queues(x, <<Msg("END_REQ", 0, "incomplete"), answer>>, <<>>)
           \/ /\ x.mu = "data" /\ IsWrite(x)
              /\ Queues(x, <<Msg("END_DATA", Burst, "incomplete"), answer>>, <<>>)
           \/ x.mu = "resp" /\ Queues(x, <<answer>>, <<>>)
           \/ x.mu = "ack" /\ Quiet(x) /\ x.bv = x.sent /\ x.resp = x.sout
           \/ /\ x.mu = "resp" /\ ~IsWrite(x) /\ x.sent < Burst /\ x.sout = "ok"
              /\ Queues(x, <<>>, <<Msg("END_RESP", x.sent, "ok")>>)
           \/ /\ x.mu = "done"
              /\ \/ x.mout = x.sout /\ (x.sout = "ok" => x.sent = Burst)
                    /\ Queues(x, <<>>, <<Msg("END_RESP", x.sent, x.sout)>>)
                 \/ x.mout = "rejected" /\ Queues(x, <<>>, <<Msg("END_RESP", x.sent, "error")>>)

(* The user of the slave failed the request or a chunk and is done. *)
GsgpFailed(x) ==
  /\ ~x.mc /\ x.su = "done" /\ x.sout = "error"
  /\ \/ x.mu = "req" /\ x.req /\ Queues(x, <<Msg("BEGIN_RESP", 0, "error")>>, <<>>)
     \/ x.mu = "data" /\ ~x.req /\ IsWrite(x) /\ Queues(x, <<Msg("END_DATA", x.sent, "error")>>, <<>>)

GsgpStage(x) == Resting(x) \/ GsgpRequest(x) \/ GsgpData(x) \/ GsgpResponse(x) \/ GsgpFailed(x)
-----------------------------------------------------------------------------
(* Master socket and base protocol target: a read the target works on.  A target
   that answers the request of a read on the return path may be done while the
   user of the master waits for the rest of the data. *)
TargetRead(x) ==
  /\ ~IsWrite(x)
  /\ \/ At(x, "req", "req") /\ Quiet(x) /\ ~x.mc /\ x.req /\ x.resp = "incomplete" /\ x.bv = 0
     \/ At(x, "req", "work") /\ Queues(x, <<Msg("END_REQ", 0, "incomplete")>>, <<>>) /\ ~x.mc /\ ~x.req
     \/ At(x, "resp", "work") /\ Quiet(x) /\ ~x.mc /\ ~x.req
     \/ At(x, "resp", "done") /\ Quiet(x)

(* A write: the socket acknowledges the request and all chunks but the last one
   itself; the last one is the request of the target. *)
TargetWrite(x) ==
  /\ IsWrite(x) /\ x.resp = "incomplete" /\ ~x.mc
  /\ \/ At(x, "req", "idle") /\ Queues(x, <<Msg("END_REQ", 0, "incomplete")>>, <<>>) /\ x.sent = 0
     \/ At(x, "send", "idle") /\ Quiet(x) /\ x.sent < Burst
     \/ At(x, "data", "idle") /\ Queues(x, <<Msg("END_DATA", x.sent, "incomplete")>>, <<>>) /\ x.sent < Burst
     \/ At(x, "data", "req") /\ Quiet(x) /\ x.sent = Burst
     \/ At(x, "data", "work") /\ Quiet(x) /\ x.sent = Burst

(* The target has answered and waits for END_RESP, or has completed the
   transaction; the answer is queued behind the phases the socket made up. *)
TargetAnswered(x) ==
  /\ (x.su = "respwait" /\ ~x.mc) \/ (x.su = "done" /\ x.mc /\ x.sout = "ok")
  /\ IF IsWrite(x) THEN AllSent(x) /\ x.sout = "ok" ELSE x.sout # "none"
  /\ \E b \in 0 .. Burst :
       LET answer == Msg("BEGIN_RESP", b, x.sout) IN
       /\ x.su = "done" \/ IsWrite(x) => b = Burst
       /\ \/ /\ x.mu = "req" /\ ~IsWrite(x)
             /\ \E c \in 0 .. Burst, r \in {"incomplete", "ok"} :
                  Queues(x, <<Msg("END_REQ", c, r), answer>>, <<>>)
          \/ /\ x.mu = "data" /\ IsWrite(x)
             /\ Queues(x, <<Msg("END_DATA", Burst, "ok"), answer>>, <<>>)
          \/ x.mu = "resp" /\ ~x.req /\ Queues(x, <<answer>>, <<>>)
          \/ x.mu = "ack" /\ Quiet(x) /\ x.bv = b /\ x.resp = x.sout

(* The target failed a read and is done; the END_REQ of a router that could not
   decode the address carries the error, too. *)
TargetFailed(x) ==
  /\ x.su = "done" /\ x.sout = "error" /\ ~IsWrite(x)
  /\ \/ x.mu = "req" /\ \E b \in 0 .. Burst : Queues(x, <<Msg("BEGIN_RESP", b, "error")>>, <<>>)
     \/ /\ x.mu = "req"
        /\ \E b, c \in 0 .. Burst : Queues(x, <<Msg("END_REQ", c, "error"), Msg("BEGIN_RESP", b, "error")>>, <<>>)
     \/ x.mu = "ack" /\ Quiet(x) /\ x.resp = "error"

(* A write without a response has ended at the target. *)
TargetEnded(x) ==
  /\ At(x, "data", "done") /\ IsWrite(x) /\ x.sent = Burst
  /\ x.sout = "error" \/ (x.sout = "ok" /\ ~conf.wr_resp)
  /\ Queues(x, <<Msg("END_DATA", Burst, x.sout)>>, <<>>)

(* A router could not decode the address of a write: SendData forgets the error
   and the user of the master waits. *)
TargetRefused(x) ==
  At(x, "data", "done") /\ IsWrite(x) /\ Quiet(x) /\ x.sent = Burst /\ x.sout = "error" /\ x.resp = "error"

TargetStage(x) ==
  \/ Resting(x) \/ TargetRead(x) \/ TargetWrite(x) \/ TargetAnswered(x) \/ TargetFailed(x)
  \/ TargetEnded(x) \/ TargetRefused(x)
-----------------------------------------------------------------------------
(* Base protocol initiator and slave socket: the request, and for a write the one
   data phase the socket makes up. *)
InitiatorRequest(x) ==
  /\ x.resp = "incomplete" /\ x.mu = "req" /\ x.sent = 0 /\ ~x.sc /\ ~x.serr
  /\ \/ x.su = "idle" /\ Queues(x, <<>>, <<Msg("BEGIN_REQ", Burst, "incomplete")>>)
     \/ x.su = "req" /\ Quiet(x)
     \/ x.su = "wait" /\ IsWrite(x) /\ Queues(x, <<>>, <<Msg("BEGIN_DATA", Burst, "incomplete")>>)
     \/ x.su = "data" /\ IsWrite(x) /\ Quiet(x) /\ x.bv = Burst

(* The user of the slave is due a response, gets END_RESP from the socket between
   the chunks of a read, or waits for the initiator to end. *)
InitiatorResponse(x) ==
  /\ IsWrite(x) => conf.wr_resp
  /\ \/ /\ At(x, "resp", "resp") /\ Quiet(x) /\ ~x.sc /\ ~x.serr
        /\ ~IsWrite(x) => x.sent < Burst
     \/ /\ At(x, "resp", "respwait") /\ ~IsWrite(x) /\ x.sent < Burst /\ x.sout = "ok" /\ ~x.sc /\ ~x.serr
        /\ Queues(x, <<>>, <<Msg("END_RESP", x.sent, "ok")>>)
     \/ /\ At(x, "ack", "respwait") /\ Quiet(x) /\ ~x.serr
        /\ x.sout # "none" /\ x.resp = x.sout /\ x.mout = x.sout
     \/ /\ At(x, "done", "respwait") /\ x.sout # "none" /\ x.mout = x.sout
        /\ \E r \in {"ok", x.sout} : Queues(x, <<>>, <<Msg("END_RESP", Burst, r)>>)

(* The user of the slave is done with a transaction the initiator has not ended:
   it failed, or it was a write without a response. *)
InitiatorEnded(x) ==
  /\ At(x, "ack", "done") /\ Quiet(x) /\ x.mout = x.sout /\ x.resp = x.sout
  /\ (x.sout = "error" /\ x.serr) \/ (x.sout = "ok" /\ IsWrite(x) /\ ~conf.wr_resp)

InitiatorStage(x) == Resting(x) \/ InitiatorRequest(x) \/ InitiatorResponse(x) \/ InitiatorEnded(x)
-----------------------------------------------------------------------------
Stage(x) ==
  CASE conf.link = "gsgp" -> GsgpStage(x)
    [] conf.link = "target" -> TargetStage(x)
    [] conf.link = "initiator" -> InitiatorStage(x)

Good(x) == x \in Txn /\ x.assert /\ x.legal /\ Stage(x)

(* The inductive invariant: every transaction is at a stage of its link, no
   assertion has failed and no user has got a phase out of order. *)
SocketsInv ==
  /\ conf \in Confs /\ (conf.style = "f" => ~conf.wr_resp)
  /\ DOMAIN txn = Txns
  /\ \A t \in Txns : Good(txn[t])
=============================================================================
