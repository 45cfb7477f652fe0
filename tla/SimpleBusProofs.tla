--------------------------- MODULE SimpleBusProofs ---------------------------
(***************************************************************************)
(* Proofs about the bus, its scheduler and the protocol that initiators    *)
(* and targets see through it, for every number of transactions and ports  *)
(* and every way of using the bus.                                         *)
(***************************************************************************)
EXTENDS SimpleBus, SequenceTheorems, TLAPS

(* Phases, what the bus looks at in a payload, and the entries of a payload *)
(* event queue.                                                             *)
Phases == {"BEGIN_REQ", "END_REQ", "BEGIN_DATA", "END_DATA", "BEGIN_RESP", "END_RESP"}
Pays == [resp : {"INCOMPLETE", "OK", "ERROR"}, valid : 0..2]
Msgs == [ph : Phases, pay : Pays]

(* The types of the variables. *)
TypeOK ==
  /\ setup \in Setups
  /\ fwPeq \in [Txns -> Seq(Msgs)] /\ bwPeq \in [Txns -> Seq(Msgs)]
  /\ queue \in Seq(Txns)
  /\ kicks \in Nat /\ idle \in BOOLEAN /\ mapped \in BOOLEAN
  /\ states \in [Txns -> SUBSET {"initiator", "target"}]
  /\ pay \in [Txns -> Pays]
  /\ cmd \in [Txns -> {"READ", "WRITE", "IGNORE"}]
  /\ refs \in [Txns -> SUBSET Holders]
  /\ init \in [Txns -> {"free", "req", "acked", "data", "resp", "done"}]
  /\ targ \in [Txns -> {"none", "req", "wait", "acked", "data", "resp", "done"}]

-----------------------------------------------------------------------------
(* What is under way for a transaction: nothing, a phase to the bus, one to *)
(* the initiator, or one with a response behind it.                         *)
Empty(t) == fwPeq[t] = <<>> /\ bwPeq[t] = <<>>
Fw(t, phase) == Len(fwPeq[t]) = 1 /\ fwPeq[t][1].ph = phase /\ bwPeq[t] = <<>>
Bw(t, phase) == fwPeq[t] = <<>> /\ Len(bwPeq[t]) = 1 /\ bwPeq[t][1].ph = phase
Bw2(t, phase) ==
  /\ fwPeq[t] = <<>> /\ Len(bwPeq[t]) = 2
  /\ bwPeq[t][1].ph = phase /\ bwPeq[t][2].ph = "BEGIN_RESP"

Fw1(t) == fwPeq[t][1].pay
Bw1(t) == bwPeq[t][1].pay

(* A response says that the request failed, or comes after all the data. *)
MayRespond(t, p) == HasError(p) \/ ~ NeedsData(t, p)

(* The target waits for END_RESP, or has completed the transaction. *)
Answered(t) == targ[t] = "resp" \/ (targ[t] = "done" /\ "target" \in states[t])

(* A transaction that the bus does not have, and those that wait for it. *)
Outside(t) ==
  /\ Empty(t) /\ init[t] \in {"free", "done"} /\ targ[t] \in {"none", "wait", "resp", "done"}
Arrives(t) ==
  /\ Fw(t, "BEGIN_REQ") /\ init[t] = "req" /\ targ[t] = "none" /\ states[t] = {}
  /\ Fw1(t) = Fresh
InQueue(t) ==
  /\ Empty(t) /\ init[t] = "req" /\ targ[t] = "none" /\ states[t] = {}
  /\ pay[t] = Fresh

(* The request is with the target, or its acknowledgement is on the way. *)
Requested(t) ==
  \/ Empty(t) /\ init[t] = "req" /\ targ[t] = "req" /\ ~ HasError(pay[t])
  \/ /\ Bw(t, "END_REQ") /\ init[t] = "req"
     /\ \/ targ[t] = "wait" /\ ~ HasError(Bw1(t))
        \/ targ[t] = "acked" /\ ~ NeedsData(t, Bw1(t)) /\ ~ NeedsData(t, pay[t])
        \/ targ[t] = "done" /\ ~ NeedsData(t, Bw1(t))
  \/ /\ Bw2(t, "END_REQ") /\ init[t] = "req" /\ targ[t] = "resp"
     /\ ~ NeedsData(t, Bw1(t)) /\ MayRespond(t, bwPeq[t][2].pay)

(* The initiator sends data, and the target takes them. *)
Data(t) ==
  \/ Empty(t) /\ init[t] = "acked" /\ targ[t] = "wait" /\ ~ HasError(pay[t])
  \/ /\ Fw(t, "BEGIN_DATA") /\ init[t] = "data" /\ targ[t] = "wait"
     /\ ~ HasError(Fw1(t)) /\ 0 < Fw1(t).valid /\ Fw1(t).valid <= Chunks
  \/ /\ Empty(t) /\ init[t] = "data" /\ targ[t] = "data"
     /\ ~ HasError(pay[t]) /\ 0 < pay[t].valid /\ pay[t].valid <= Chunks
  \/ /\ Bw(t, "END_DATA") /\ init[t] = "data"
     /\ \/ targ[t] = "wait" /\ ~ HasError(Bw1(t)) /\ 0 < Bw1(t).valid /\ Bw1(t).valid < Chunks
        \/ /\ targ[t] = "acked" /\ HasWriteResp /\ ~ HasError(Bw1(t))
           /\ ~ NeedsData(t, Bw1(t)) /\ ~ NeedsData(t, pay[t])
        \/ targ[t] = "done" /\ (HasError(Bw1(t)) \/ Bw1(t).valid = Chunks)
  \/ /\ Bw2(t, "END_DATA") /\ init[t] = "data" /\ targ[t] = "resp" /\ HasWriteResp
     /\ ~ HasError(Bw1(t)) /\ ~ NeedsData(t, Bw1(t)) /\ MayRespond(t, bwPeq[t][2].pay)

(* The response is awaited, on its way, with the initiator, or at its end. *)
Response(t) ==
  \/ Empty(t) /\ init[t] = "acked" /\ targ[t] = "acked" /\ ~ NeedsData(t, pay[t])
  \/ /\ Bw(t, "BEGIN_RESP") /\ Answered(t) /\ MayRespond(t, Bw1(t))
     /\ init[t] = "req" \/ (init[t] = "acked" /\ ~ NeedsData(t, pay[t]))
  \/ Empty(t) /\ init[t] = "resp" /\ Answered(t) /\ MayRespond(t, pay[t])
  \/ /\ Fw(t, "END_RESP") /\ Answered(t)
     /\ IF HasError(Fw1(t)) \/ Over(Fw1(t))
        THEN init[t] \in {"done", "free"}
        ELSE init[t] = "acked" /\ ~ NeedsData(t, pay[t]) /\ ~ NeedsData(t, Fw1(t))

(* Nobody goes on: a phase met an address that no longer decodes, or the    *)
(* target has completed what has another phase to come.                     *)
Stuck(t) ==
  /\ Empty(t) /\ targ[t] \in {"none", "wait", "resp", "done"}
  /\ \/ init[t] \in {"free", "done"}
     \/ init[t] = "req" /\ targ[t] = "none"
     \/ init[t] = "data" /\ targ[t] = "wait"
     \/ init[t] = "acked" /\ targ[t] \in {"resp", "done"} /\ ~ NeedsData(t, pay[t])

(* Where a transaction is, as far as its own state tells. *)
Granted(t) == Requested(t) \/ Data(t) \/ Response(t) \/ Stuck(t)

Stage(t) ==
  /\ IF "bus" \notin refs[t] THEN Outside(t) /\ t \notin Queued
     ELSE \/ Arrives(t) /\ t \notin Queued
          \/ InQueue(t) /\ t \in Queued
          \/ Granted(t) /\ t \notin Queued
  /\ "initiator" \in states[t] => init[t] \in {"done", "free"}
  /\ "target" \in states[t] => targ[t] = "done"

Stages == \A t \in Txns : Stage(t)

(* A request is queued once. *)
QueuedOnce == \A i, j \in 1..Len(queue) : queue[i] = queue[j] => i = j

(* The bus is idle when no transaction has it, and at most one has it. *)
OneOwner ==
  /\ idle <=> Active = {}
  /\ \A t, u \in Active : t = u

(* The inductive invariant. *)
IInv == TypeOK /\ Stages /\ QueuedOnce /\ OneOwner /\ NoLostRequest

-----------------------------------------------------------------------------
USE BusAssumption

(* How a payload event queue changes at its ends, as far as it is filled. *)
LEMMA PeqTake ==
  ASSUME NEW s \in Seq(Msgs)
  PROVE  /\ Len(<<>>) = 0
         /\ Len(s) \in Nat /\ (Len(s) = 0 <=> s = <<>>)
         /\ Len(s) = 1 => s # <<>> /\ Head(s) = s[1] /\ Tail(s) = <<>>
         /\ Len(s) = 2 => /\ s # <<>> /\ Head(s) = s[1]
                          /\ Len(Tail(s)) = 1 /\ Tail(s)[1] = s[2]
         /\ s # <<>> => Tail(s) \in Seq(Msgs) /\ Head(s) \in Msgs
<1>1. Len(<<>>) = 0 /\ Len(s) \in Nat /\ (Len(s) = 0 <=> s = <<>>)
  BY EmptySeq, LenProperties
<1>2. s # <<>> => /\ Tail(s) \in Seq(Msgs) /\ Head(s) \in Msgs
                  /\ Len(Tail(s)) = Len(s) - 1
                  /\ \A i \in 1..Len(Tail(s)) : Tail(s)[i] = s[i + 1]
  BY HeadTailProperties
<1>3. s # <<>> => Head(s) = s[1] OBVIOUS
<1>4. Len(s) = 1 => Tail(s) = <<>>
  <2> SUFFICES ASSUME Len(s) = 1 PROVE Tail(s) = <<>> OBVIOUS
  <2>1. s # <<>> /\ Tail(s) \in Seq(Msgs) /\ Len(Tail(s)) = 0 BY <1>1, <1>2
  <2> QED BY <2>1, EmptySeq
<1>5. Len(s) = 2 => /\ s # <<>> /\ Len(Tail(s)) = 1 /\ Tail(s)[1] = s[2]
  <2> SUFFICES ASSUME Len(s) = 2
               PROVE  s # <<>> /\ Len(Tail(s)) = 1 /\ Tail(s)[1] = s[2]
    OBVIOUS
  <2>1. s # <<>> /\ Len(Tail(s)) = 1 BY <1>1, <1>2
  <2> QED BY <1>2, <2>1
<1>6. Len(s) = 1 => s # <<>> BY <1>1
<1> QED BY <1>1, <1>2, <1>3, <1>4, <1>5, <1>6

(* And what a new entry does to it. *)
LEMMA PeqPut ==
  ASSUME NEW s \in Seq(Msgs), NEW m \in Msgs
  PROVE  /\ Append(s, m) \in Seq(Msgs)
         /\ s = <<>> => Len(Append(s, m)) = 1 /\ Append(s, m)[1] = m
         /\ Len(s) = 1 => /\ Len(Append(s, m)) = 2
                          /\ Append(s, m)[1] = s[1] /\ Append(s, m)[2] = m
<1>1. /\ Append(s, m) \in Seq(Msgs) /\ Len(Append(s, m)) = Len(s) + 1
      /\ \A i \in 1..Len(s) : Append(s, m)[i] = s[i]
      /\ Append(s, m)[Len(s) + 1] = m
  BY AppendProperties
<1>2. s = <<>> => Len(s) = 0 BY EmptySeq
<1>3. Len(s) \in Nat BY LenProperties
<1>4. Len(s) = 1 => Append(s, m)[1] = s[1] /\ Append(s, m)[2] = m
  <2>1. Len(s) = 1 => Len(s) + 1 = 2 /\ 1 \in 1..Len(s) OBVIOUS
  <2> QED BY <1>1, <2>1
<1>5. Len(s) = 0 => Append(s, m)[1] = m
  <2>1. Len(s) = 0 => Len(s) + 1 = 1 OBVIOUS
  <2> QED BY <1>1, <2>1
<1> QED BY <1>1, <1>2, <1>3, <1>4, <1>5

(* A chunk of data more, and an error. *)
LEMMA PayUpdates ==
  ASSUME NEW p \in Pays
  PROVE  /\ p.valid < 2 => /\ [p EXCEPT !.valid = @ + 1] \in Pays
                           /\ [p EXCEPT !.valid = @ + 1].resp = p.resp
                           /\ [p EXCEPT !.valid = @ + 1].valid = p.valid + 1
         /\ [p EXCEPT !.resp = "ERROR"] \in Pays
<1>1. p = [resp |-> p.resp, valid |-> p.valid] /\ p.resp \in {"INCOMPLETE", "OK", "ERROR"}
      /\ p.valid \in 0..2
  BY DEF Pays
<1>2. [p EXCEPT !.valid = @ + 1] = [resp |-> p.resp, valid |-> p.valid + 1] BY <1>1
<1>3. [p EXCEPT !.resp = "ERROR"] = [resp |-> "ERROR", valid |-> p.valid] BY <1>1
<1>4. ASSUME NEW x \in {"INCOMPLETE", "OK", "ERROR"}, NEW v \in 0..2
      PROVE  [resp |-> x, valid |-> v] \in Pays
  BY DEF Pays
<1>5. p.valid < 2 => p.valid + 1 \in 0..2 BY <1>1
<1> QED BY <1>1, <1>2, <1>3, <1>4, <1>5

(* What a target may send. *)
LEMMA Moves ==
  ASSUME TypeOK, NEW t \in Txns, NEW p \in Pays, NEW st, NEW m \in TargetMoves(t, st, p)
  PROVE  /\ m.pay \in Pays /\ m.ph \in Phases /\ m.targ \in {"wait", "acked", "resp", "done"}
         /\ \/ /\ st = "req" /\ m.ph = "END_REQ" /\ m.pay = p
               /\ m.targ = IF NeedsData(t, p) THEN "wait" ELSE "acked"
            \/ /\ m.ph = "BEGIN_RESP" /\ m.targ = "resp"
               /\ st = "req" => MayRespond(t, m.pay)
               /\ st = "acked" /\ ~ NeedsData(t, p) => MayRespond(t, m.pay)
               /\ ~ NeedsData(t, p) => ~ NeedsData(t, m.pay)
               /\ st \in {"req", "acked"}
            \/ /\ st = "data" /\ m.ph = "END_DATA"
               /\ \/ m.targ = "done" /\ HasError(m.pay)
                  \/ /\ m.pay = p
                     /\ \/ m.targ = "wait" /\ p.valid < Chunks
                        \/ m.targ = "acked" /\ p.valid = Chunks /\ HasWriteResp
                        \/ m.targ = "done" /\ p.valid >= Chunks
                                           /\ ~ (p.valid = Chunks /\ HasWriteResp)
<1> Chunks \in 1..2 BY DEF TypeOK, Chunks
<1> DEFINE R == {[ph |-> "BEGIN_RESP", targ |-> "resp", pay |-> [p EXCEPT !.resp = "ERROR"]],
                 [ph |-> "BEGIN_RESP", targ |-> "resp",
                  pay |-> [resp |-> "OK",
                           valid |-> IF cmd[t] = "READ" /\ p.valid < Chunks
                                     THEN p.valid + 1 ELSE p.valid]]}
<1>1. ASSUME m \in R
      PROVE  /\ m.pay \in Pays /\ m.ph = "BEGIN_RESP" /\ m.targ = "resp"
             /\ HasError(m.pay) \/ ~ NeedsData(t, p) => MayRespond(t, m.pay)
             /\ ~ NeedsData(t, p) => ~ NeedsData(t, m.pay)
  BY <1>1 DEF Pays, HasError, MayRespond, NeedsData
<1>2. Responses(t, p) = R BY DEF Responses
<1> HIDE DEF R
<1>3. CASE st = "req"
  <2>1. \/ m = [ph |-> "END_REQ", targ |-> IF NeedsData(t, p) THEN "wait" ELSE "acked", pay |-> p]
        \/ m \in R /\ (NeedsData(t, p) => HasError(m.pay))
    BY <1>2, <1>3 DEF TargetMoves
  <2> QED BY <1>1, <1>3, <2>1 DEF Phases
<1>4. CASE st = "acked"
  <2>1. m \in R BY <1>2, <1>4 DEF TargetMoves
  <2> QED BY <1>1, <1>4, <2>1 DEF Phases
<1>5. CASE st = "data"
  <2>1. \/ m = [ph |-> "END_DATA", targ |-> "done", pay |-> [p EXCEPT !.resp = "ERROR"]]
        \/ m = [ph |-> "END_DATA", pay |-> p,
                targ |-> CASE p.valid < Chunks -> "wait"
                           [] p.valid = Chunks /\ HasWriteResp -> "acked"
                           [] OTHER -> "done"]
    BY <1>5 DEF TargetMoves
  <2>2. CASE m = [ph |-> "END_DATA", targ |-> "done", pay |-> [p EXCEPT !.resp = "ERROR"]]
    BY <1>5, <2>2 DEF Pays, Phases, HasError
  <2>3. CASE m = [ph |-> "END_DATA", pay |-> p,
                  targ |-> CASE p.valid < Chunks -> "wait"
                             [] p.valid = Chunks /\ HasWriteResp -> "acked"
                             [] OTHER -> "done"]
    <3>1. m.ph = "END_DATA" /\ m.pay = p BY <2>3
    <3>2. CASE p.valid < Chunks BY <1>5, <2>3, <3>1, <3>2 DEF Phases
    <3>3. CASE p.valid = Chunks /\ HasWriteResp BY <1>5, <2>3, <3>1, <3>3 DEF Phases
    <3>4. CASE p.valid >= Chunks /\ ~ (p.valid = Chunks /\ HasWriteResp)
      <4>1. m.targ = "done" BY <2>3, <3>4 DEF Pays
      <4> QED BY <1>5, <3>1, <3>4, <4>1 DEF Phases
    <3> QED BY <3>2, <3>3, <3>4 DEF Pays
  <2> QED BY <2>1, <2>2, <2>3
<1>6. CASE st \notin {"req", "acked", "data"}
  <2>1. TargetMoves(t, st, p) = {} BY <1>6 DEF TargetMoves
  <2> QED BY <2>1
<1> QED BY <1>3, <1>4, <1>5, <1>6

(* What a call of a target may return. *)
LEMMA Calls ==
  ASSUME TypeOK, NEW t \in Txns, NEW p \in Pays,
         NEW phase \in {"BEGIN_REQ", "BEGIN_DATA", "END_RESP"},
         NEW r \in TargetCall(t, phase, p)
  PROVE  /\ r.pay \in Pays
         /\ \/ r.ret = "ACCEPTED" /\ r.pay = p /\ r.targ = TargetSees(phase, p)
            \/ /\ r.ret = "UPDATED" /\ phase # "END_RESP"
               /\ \E m \in TargetMoves(t, TargetSees(phase, p), p) :
                    r.ph = m.ph /\ r.targ = m.targ /\ r.pay = m.pay
            \/ /\ r.ret = "COMPLETED" /\ r.targ = "done"
               /\ phase = "BEGIN_REQ" => ~ HasData \/ cmd[t] = "READ"
               /\ phase = "BEGIN_DATA" => r.pay = p /\ p.valid = Chunks
               /\ phase = "END_RESP" => r.pay = p /\ TargetSees(phase, p) = "done"
<1> Chunks \in 1..2 BY DEF TypeOK, Chunks
<1> DEFINE st == TargetSees(phase, p)
           completes == /\ setup.early
                        /\ phase = "BEGIN_REQ" => ~HasData \/ cmd[t] = "READ"
                        /\ phase = "BEGIN_DATA" => p.valid = Chunks
                        /\ phase = "END_RESP" => st = "done"
           Q == IF ~completes THEN {}
                ELSE IF phase = "BEGIN_REQ"
                THEN {[resp |-> x, valid |-> IF cmd[t] = "READ" THEN Chunks ELSE 0] :
                        x \in {"OK", "ERROR"}}
                ELSE {p}
<1>1. \/ r = [ret |-> "ACCEPTED", ph |-> phase, targ |-> st, pay |-> p]
      \/ \E m \in IF phase = "END_RESP" THEN {} ELSE TargetMoves(t, st, p) :
           r = [ret |-> "UPDATED", ph |-> m.ph, targ |-> m.targ, pay |-> m.pay]
      \/ \E q \in Q : r = [ret |-> "COMPLETED", ph |-> phase, targ |-> "done", pay |-> q]
  BY DEF TargetCall
<1>2. CASE r = [ret |-> "ACCEPTED", ph |-> phase, targ |-> st, pay |-> p]
  BY <1>2
<1>3. CASE \E m \in IF phase = "END_RESP" THEN {} ELSE TargetMoves(t, st, p) :
             r = [ret |-> "UPDATED", ph |-> m.ph, targ |-> m.targ, pay |-> m.pay]
  <2>1. PICK m \in TargetMoves(t, st, p) :
          /\ phase # "END_RESP"
          /\ r = [ret |-> "UPDATED", ph |-> m.ph, targ |-> m.targ, pay |-> m.pay]
    BY <1>3
  <2>2. m.pay \in Pays BY Moves
  <2> HIDE DEF st
  <2>3. r.ret = "UPDATED" /\ r.ph = m.ph /\ r.targ = m.targ /\ r.pay = m.pay BY <2>1
  <2> QED BY <2>1, <2>2, <2>3 DEF st
<1>4. CASE \E q \in Q : r = [ret |-> "COMPLETED", ph |-> phase, targ |-> "done", pay |-> q]
  <2>1. PICK q \in Q : r = [ret |-> "COMPLETED", ph |-> phase, targ |-> "done", pay |-> q]
    BY <1>4
  <2>2. r.ret = "COMPLETED" /\ r.targ = "done" /\ r.pay = q BY <2>1
  <2>3. completes BY <2>1
  <2> HIDE DEF st
  <2>4. q \in Pays /\ (phase # "BEGIN_REQ" => q = p) BY <2>1, <2>3 DEF Pays
  <2> HIDE DEF Q
  <2> QED BY <2>2, <2>3, <2>4 DEF st
<1> QED BY <1>1, <1>2, <1>3, <1>4

(* What a call of an initiator may return. *)
LEMMA InitCalls ==
  ASSUME NEW phase \in {"END_REQ", "END_DATA", "BEGIN_RESP"}, NEW p \in Pays,
         NEW r \in InitCall(phase, p)
  PROVE  /\ r.pay = p
         /\ \/ r.ret = "ACCEPTED" /\ r.init = InitSees(phase, p)
            \/ /\ phase = "BEGIN_RESP" /\ r.ret \in {"UPDATED", "COMPLETED"}
               /\ r.ph = "END_RESP" /\ r.init = AfterEndResp(p)
               /\ r.ret = "COMPLETED" => AfterEndResp(p) = "done"
<1>1. \/ r = [ret |-> "ACCEPTED", ph |-> phase, init |-> InitSees(phase, p), pay |-> p]
      \/ \E x \in {"UPDATED", "COMPLETED"} :
           /\ InitSees(phase, p) = "resp"
           /\ x = "COMPLETED" => AfterEndResp(p) = "done"
           /\ r = [ret |-> x, ph |-> "END_RESP", init |-> AfterEndResp(p), pay |-> p]
  BY DEF InitCall
<1>2. InitSees(phase, p) = "resp" => phase = "BEGIN_RESP" BY DEF InitSees
<1> QED BY <1>1, <1>2

-----------------------------------------------------------------------------
(* Nothing about transaction u changes. *)
SameTxn(u) ==
  /\ fwPeq'[u] = fwPeq[u] /\ bwPeq'[u] = bwPeq[u] /\ states'[u] = states[u]
  /\ pay'[u] = pay[u] /\ cmd'[u] = cmd[u] /\ refs'[u] = refs[u]
  /\ init'[u] = init[u] /\ targ'[u] = targ[u]
Others(t) == setup' = setup /\ \A u \in Txns \ {t} : SameTxn(u)

(* A transaction stays in its stage while others move. *)
LEMMA SameStage ==
  ASSUME NEW u \in Txns, Stage(u), SameTxn(u), setup' = setup, u \in Queued' <=> u \in Queued
  PROVE  Stage(u)'
<1> USE DEF SameTxn, Empty, Fw, Bw, Bw2, Fw1, Bw1, Answered, MayRespond, NeedsData, HasError,
            HasData, HasWriteResp, HasBytesValid, Chunks, Over
<1>1. Outside(u) => Outside(u)' BY DEF Outside
<1>2. Arrives(u) => Arrives(u)' BY DEF Arrives
<1>3. InQueue(u) => InQueue(u)' BY DEF InQueue
<1>4. Requested(u) => Requested(u)' BY DEF Requested
<1>5. Data(u) => Data(u)' BY DEF Data
<1>6. Response(u) => Response(u)' BY DEF Response
<1>7. Stuck(u) => Stuck(u)' BY DEF Stuck
<1> QED BY <1>1, <1>2, <1>3, <1>4, <1>5, <1>6, <1>7 DEF Stage, Granted

(* The initiator begins a transaction. *)
LEMMA BeginReqMoves ==
  ASSUME TypeOK, NEW t \in Txns, Stage(t), NEW c \in Commands, BeginReq(t, c)
  PROVE  /\ TypeOK' /\ Others(t) /\ Stage(t)'
         /\ "bus" \notin refs[t] /\ t \notin Queued /\ Queued' = Queued
         /\ "bus" \in refs'[t] => Arrives(t)'
<1> USE DEF TypeOK
<1>1. "bus" \notin refs[t] /\ Empty(t) /\ t \notin Queued
  BY DEF BeginReq, Stage, Outside
<1>2. Queued' = Queued BY DEF BeginReq, Queued
<1>3. [ph |-> "BEGIN_REQ", pay |-> Fresh] \in Msgs /\ [Fresh EXCEPT !.resp = "ERROR"] \in Pays
  BY DEF Msgs, Phases, Pays, Fresh
<1>4. c \in {"READ", "WRITE", "IGNORE"} BY DEF Commands
<1>5. CASE DecodeOk
  <2> DEFINE f == Append(fwPeq[t], [ph |-> "BEGIN_REQ", pay |-> Fresh])
  <2>1. f \in Seq(Msgs) /\ Len(f) = 1 /\ f[1] = [ph |-> "BEGIN_REQ", pay |-> Fresh]
    BY <1>1, <1>3, PeqPut DEF Empty
  <2> HIDE DEF f
  <2>2. /\ fwPeq' = [fwPeq EXCEPT ![t] = f] /\ init' = [init EXCEPT ![t] = "req"]
        /\ refs' = [refs EXCEPT ![t] = Holders] /\ pay' = [pay EXCEPT ![t] = Fresh]
        /\ cmd' = [cmd EXCEPT ![t] = c] /\ targ' = [targ EXCEPT ![t] = "none"]
        /\ states' = [states EXCEPT ![t] = {}]
        /\ UNCHANGED <<bwPeq, queue, kicks, idle, mapped, setup>>
    BY <1>5 DEF BeginReq, Notify, f
  <2>3. TypeOK' BY <1>4, <2>1, <2>2 DEF Holders, Pays, Fresh
  <2>4. Others(t) BY <2>2 DEF Others, SameTxn
  <2>5. Arrives(t)' BY <1>1, <2>1, <2>2 DEF Arrives, Fw, Fw1, Empty
  <2> QED BY <1>1, <1>2, <2>2, <2>3, <2>4, <2>5 DEF Stage, Holders
<1>6. CASE ~ DecodeOk
  <2>1. /\ fwPeq' = fwPeq /\ init' = [init EXCEPT ![t] = "done"]
        /\ refs' = [refs EXCEPT ![t] = {"initiator"}]
        /\ pay' = [pay EXCEPT ![t] = [Fresh EXCEPT !.resp = "ERROR"]]
        /\ cmd' = [cmd EXCEPT ![t] = c] /\ targ' = [targ EXCEPT ![t] = "none"]
        /\ states' = [states EXCEPT ![t] = {}]
        /\ UNCHANGED <<bwPeq, queue, kicks, idle, mapped, setup>>
    BY <1>6 DEF BeginReq
  <2>2. TypeOK' BY <1>3, <1>4, <2>1 DEF Holders
  <2>3. Others(t) BY <2>1 DEF Others, SameTxn
  <2>4. Outside(t)' BY <1>1, <2>1 DEF Outside, Empty
  <2> QED BY <1>1, <1>2, <2>1, <2>2, <2>3, <2>4 DEF Stage
<1> QED BY <1>5, <1>6

(* The initiator sends BEGIN_DATA or END_RESP, or finds that the address no *)
(* longer decodes.                                                          *)
LEMMA InitSendsMoves ==
  ASSUME TypeOK, NEW t \in Txns, Stage(t), BeginData(t) \/ EndResp(t)
  PROVE  TypeOK' /\ Others(t) /\ Stage(t)' /\ "bus" \in refs[t] /\ Granted(t) /\ Granted(t)'
<1> USE DEF TypeOK
<1> Chunks \in 1..2 BY DEF Chunks
<1>1. PICK phase \in {"BEGIN_DATA", "END_RESP"}, st \in {"data", "done", "acked"}, p \in Pays :
        /\ InitSends(t, phase, st, p)
        /\ \/ /\ phase = "BEGIN_DATA" /\ st = "data" /\ init[t] = "acked"
              /\ NeedsData(t, pay[t]) /\ p = [pay[t] EXCEPT !.valid = @ + 1]
           \/ /\ phase = "END_RESP" /\ st = AfterEndResp(p) /\ init[t] = "resp"
              /\ p = pay[t]
  <2>1. CASE BeginData(t)
    <3>0. pay[t] \in Pays /\ pay[t].valid < 2
      <4>1. pay[t] \in Pays /\ pay[t].valid < Chunks BY <2>1 DEF BeginData, NeedsData
      <4>2. pay[t].valid \in 0..2 BY <4>1 DEF Pays
      <4> QED BY <4>1, <4>2
    <3>1. [pay[t] EXCEPT !.valid = @ + 1] \in Pays BY <3>0, PayUpdates
    <3> QED BY <2>1, <3>1 DEF BeginData
  <2>2. CASE EndResp(t)
    <3>1. AfterEndResp(pay[t]) \in {"done", "acked"} BY DEF AfterEndResp
    <3> QED BY <2>2, <3>1 DEF EndResp
  <2> QED BY <2>1, <2>2
<1>2. /\ "bus" \in refs[t] /\ Empty(t) /\ t \notin Queued
      /\ \/ phase = "BEGIN_DATA" /\ targ[t] = "wait" /\ ~ HasError(pay[t])
         \/ phase = "END_RESP" /\ Answered(t) /\ MayRespond(t, pay[t])
      /\ Granted(t)
  <2>0. init[t] \in {"acked", "resp"} BY <1>1
  <2>1. "bus" \in refs[t] /\ t \notin Queued /\ Granted(t)
    BY <2>0 DEF Stage, Outside, Arrives, InQueue
  <2>2. ~ Requested(t) BY <2>0 DEF Requested
  <2>3. CASE Data(t)
    <3>1. Empty(t) /\ init[t] = "acked" /\ targ[t] = "wait" /\ ~ HasError(pay[t])
      BY <2>0, <2>3 DEF Data
    <3> QED BY <1>1, <2>1, <3>1
  <2>4. CASE Response(t)
    <3>1. Empty(t) /\ init[t] = "resp" /\ Answered(t) /\ MayRespond(t, pay[t])
      BY <1>1, <2>4 DEF Response
    <3> QED BY <1>1, <2>1, <3>1
  <2>5. ~ Stuck(t) BY <1>1 DEF Stuck
  <2> QED BY <2>1, <2>2, <2>3, <2>4, <2>5 DEF Granted
<1>3. Queued' = Queued BY <1>1 DEF InitSends, Queued
<1>4. phase = "BEGIN_DATA" => 0 < p.valid /\ p.valid <= Chunks /\ ~ HasError(p)
  <2> SUFFICES ASSUME phase = "BEGIN_DATA"
               PROVE  0 < p.valid /\ p.valid <= Chunks /\ ~ HasError(p)
    OBVIOUS
  <2>0. pay[t] \in Pays /\ pay[t].valid \in 0..2 BY DEF Pays
  <2>1. /\ pay[t].valid < 2 /\ pay[t].valid < Chunks /\ ~ HasError(pay[t])
        /\ p = [pay[t] EXCEPT !.valid = @ + 1]
    BY <1>1, <1>2, <2>0 DEF NeedsData
  <2>2. p.valid = pay[t].valid + 1 /\ p.resp = pay[t].resp BY <2>0, <2>1, PayUpdates
  <2> QED BY <2>0, <2>1, <2>2 DEF HasError
<1>5. CASE DecodeOk
  <2> DEFINE f == Append(fwPeq[t], [ph |-> phase, pay |-> p])
  <2>1. f \in Seq(Msgs) /\ Len(f) = 1 /\ f[1] = [ph |-> phase, pay |-> p]
    <3>1. [ph |-> phase, pay |-> p] \in Msgs BY DEF Msgs, Phases
    <3> QED BY <1>2, <3>1, PeqPut DEF Empty
  <2> HIDE DEF f
  <2>2. /\ fwPeq' = [fwPeq EXCEPT ![t] = f] /\ init' = [init EXCEPT ![t] = st]
        /\ pay' = [pay EXCEPT ![t] = p]
        /\ UNCHANGED <<bwPeq, queue, kicks, idle, states, cmd, refs, targ, mapped, setup>>
    BY <1>1, <1>5 DEF InitSends, Notify, f
  <2>3. TypeOK' BY <2>1, <2>2
  <2>4. Others(t) BY <2>2 DEF Others, SameTxn
  <2>5. phase = "BEGIN_DATA" => Data(t)'
    BY <1>1, <1>2, <1>4, <2>1, <2>2 DEF Data, Fw, Fw1, Empty, HasError, Chunks
  <2>6. phase = "END_RESP" => Response(t)'
    BY <1>1, <1>2, <2>1, <2>2 DEF Response, Fw, Fw1, Empty, HasError, AfterEndResp, Over,
         MayRespond, Answered, NeedsData, HasData, Chunks, HasBytesValid
  <2>7. "initiator" \notin states[t] /\ ("target" \in states[t] => targ[t] = "done")
    BY <1>1 DEF Stage
  <2>8. Granted(t)' BY <2>5, <2>6 DEF Granted
  <2> QED BY <1>2, <1>3, <2>2, <2>3, <2>4, <2>7, <2>8 DEF Stage
<1>6. CASE ~ DecodeOk
  <2>1. /\ fwPeq' = fwPeq /\ init' = [init EXCEPT ![t] = "done"]
        /\ pay' = [pay EXCEPT ![t] = [p EXCEPT !.resp = "ERROR"]]
        /\ UNCHANGED <<bwPeq, queue, kicks, idle, states, cmd, refs, targ, mapped, setup>>
    BY <1>1, <1>6 DEF InitSends
  <2>2. [p EXCEPT !.resp = "ERROR"] \in Pays BY DEF Pays
  <2>3. TypeOK' BY <2>1, <2>2
  <2>4. Others(t) BY <2>1 DEF Others, SameTxn
  <2>5. Stuck(t)' BY <1>2, <2>1 DEF Stuck, Empty, Answered
  <2>6. "target" \in states[t] => targ[t] = "done" BY DEF Stage
  <2> QED BY <1>2, <1>3, <2>1, <2>3, <2>4, <2>5, <2>6 DEF Stage, Granted
<1> QED BY <1>5, <1>6

(* The initiator releases the payload; the bus may still have it. *)
LEMMA InitReleasesMoves ==
  ASSUME TypeOK, NEW t \in Txns, Stage(t), InitReleases(t)
  PROVE  /\ TypeOK' /\ Others(t) /\ Stage(t)'
         /\ "bus" \in refs[t] <=> "bus" \in refs'[t]
         /\ "bus" \in refs[t] => Granted(t) /\ Granted(t)'
<1> USE DEF TypeOK
<1>1. /\ init' = [init EXCEPT ![t] = "free"]
      /\ refs' = [refs EXCEPT ![t] = @ \ {"initiator"}]
      /\ init[t] = "done"
      /\ UNCHANGED <<fwPeq, bwPeq, queue, kicks, idle, states, pay, cmd, targ, mapped, setup>>
  BY DEF InitReleases
<1>2. TypeOK' BY <1>1
<1>3. Others(t) BY <1>1 DEF Others, SameTxn
<1>4. Queued' = Queued BY <1>1 DEF Queued
<1>5. "bus" \in refs[t] <=> "bus" \in refs'[t] BY <1>1
<1>6. CASE "bus" \notin refs[t]
  <2>1. Outside(t) /\ t \notin Queued BY <1>6 DEF Stage
  <2>2. Outside(t)' BY <1>1, <2>1 DEF Outside, Empty
  <2>3. ("target" \in states[t] => targ[t] = "done") BY DEF Stage
  <2> QED BY <1>1, <1>2, <1>3, <1>4, <1>5, <1>6, <2>1, <2>2, <2>3 DEF Stage
<1>7. CASE "bus" \in refs[t]
  <2>1. Granted(t) /\ t \notin Queued
    BY <1>1, <1>7 DEF Stage, Arrives, InQueue
  <2>2. ~ Requested(t) /\ ~ Data(t) BY <1>1 DEF Requested, Data
  <2>3. Response(t) => Granted(t)'
    <3> SUFFICES ASSUME Response(t) PROVE Granted(t)' OBVIOUS
    <3>1. /\ Fw(t, "END_RESP") /\ Answered(t)
          /\ HasError(Fw1(t)) \/ Over(Fw1(t))
      BY <1>1 DEF Response, Empty, Bw
    <3>2. Response(t)'
      BY <1>1, <3>1 DEF Response, Fw, Fw1, Answered, HasError, Over, HasBytesValid, Chunks
    <3> QED BY <3>2 DEF Granted
  <2>4. Stuck(t) => Granted(t)'
    <3>1. Stuck(t) => Stuck(t)' BY <1>1 DEF Stuck, Empty
    <3> QED BY <3>1 DEF Granted
  <2>5. Granted(t)' BY <2>1, <2>2, <2>3, <2>4 DEF Granted
  <2>6. ("target" \in states[t] => targ[t] = "done") BY DEF Stage
  <2> QED BY <1>1, <1>2, <1>3, <1>4, <1>5, <1>7, <2>1, <2>5, <2>6 DEF Stage
<1> QED BY <1>6, <1>7

(* The target answers. *)
LEMMA TargetMovesOn ==
  ASSUME TypeOK, NEW t \in Txns, Stage(t), RegisterSlaveAccess(t)
  PROVE  TypeOK' /\ Others(t) /\ Stage(t)' /\ "bus" \in refs[t] /\ Granted(t) /\ Granted(t)'
<1> USE DEF TypeOK
<1> Chunks \in 1..2 BY DEF Chunks
<1>1. PICK m \in TargetMoves(t, targ[t], pay[t]) :
        /\ targ' = [targ EXCEPT ![t] = m.targ]
        /\ pay' = [pay EXCEPT ![t] = m.pay]
        /\ bwPeq' = Notify(bwPeq, t, m.ph, m.pay)
        /\ UNCHANGED <<fwPeq, queue, kicks, idle, states, cmd, refs, init, mapped, setup>>
  BY DEF RegisterSlaveAccess
<1>2. pay[t] \in Pays OBVIOUS
<1>3. /\ m.pay \in Pays /\ m.ph \in Phases /\ m.targ \in {"wait", "acked", "resp", "done"}
      /\ \/ /\ targ[t] = "req" /\ m.ph = "END_REQ" /\ m.pay = pay[t]
            /\ m.targ = IF NeedsData(t, pay[t]) THEN "wait" ELSE "acked"
         \/ /\ m.ph = "BEGIN_RESP" /\ m.targ = "resp"
            /\ targ[t] = "req" => MayRespond(t, m.pay)
            /\ targ[t] = "acked" /\ ~ NeedsData(t, pay[t]) => MayRespond(t, m.pay)
            /\ ~ NeedsData(t, pay[t]) => ~ NeedsData(t, m.pay)
            /\ targ[t] \in {"req", "acked"}
         \/ /\ targ[t] = "data" /\ m.ph = "END_DATA"
            /\ \/ m.targ = "done" /\ HasError(m.pay)
               \/ /\ m.pay = pay[t]
                  /\ \/ m.targ = "wait" /\ pay[t].valid < Chunks
                     \/ m.targ = "acked" /\ pay[t].valid = Chunks /\ HasWriteResp
                     \/ m.targ = "done" /\ pay[t].valid >= Chunks
                                        /\ ~ (pay[t].valid = Chunks /\ HasWriteResp)
  <2> HIDE DEF TypeOK
  <2> QED BY <1>2, Moves
<1> DEFINE msg == [ph |-> m.ph, pay |-> m.pay]
           b == Append(bwPeq[t], msg)
<1>4. msg \in Msgs BY <1>3 DEF Msgs
<1>5. /\ b \in Seq(Msgs)
      /\ bwPeq[t] = <<>> => Len(b) = 1 /\ b[1] = msg
      /\ Len(bwPeq[t]) = 1 => Len(b) = 2 /\ b[1] = bwPeq[t][1] /\ b[2] = msg
  <2> HIDE DEF msg
  <2> QED BY <1>4, PeqPut
<1>6. bwPeq' = [bwPeq EXCEPT ![t] = b] BY <1>1 DEF Notify
<1>7. msg.ph = m.ph /\ msg.pay = m.pay OBVIOUS
<1> HIDE DEF msg, b
<1>8. /\ targ'[t] = m.targ /\ pay'[t] = m.pay /\ bwPeq'[t] = b /\ fwPeq'[t] = fwPeq[t]
      /\ init'[t] = init[t] /\ states'[t] = states[t] /\ cmd'[t] = cmd[t]
      /\ setup' = setup /\ refs' = refs /\ queue' = queue
  BY <1>1, <1>6
<1>9. TypeOK' BY <1>1, <1>3, <1>5, <1>6
<1>10. Others(t) BY <1>1, <1>6 DEF Others, SameTxn
<1>11. targ[t] \in {"req", "acked", "data"} BY <1>3
<1>12. "bus" \in refs[t] /\ t \notin Queued /\ Granted(t)
  BY <1>11 DEF Stage, Outside, Arrives, InQueue
<1>13. Queued' = Queued BY <1>8 DEF Queued
<1> USE DEF Empty, Fw, Bw, Bw2, Bw1, MayRespond, NeedsData, HasError, Answered, HasData,
            HasWriteResp
<1>14. Requested(t) => Granted(t)'
  <2> SUFFICES ASSUME Requested(t) PROVE Granted(t)' OBVIOUS
  <2>1. CASE Empty(t) /\ init[t] = "req" /\ targ[t] = "req" /\ ~ HasError(pay[t])
    <3>1. CASE m.ph = "END_REQ"
      <4>1. Requested(t)'
        BY <1>3, <1>5, <1>7, <1>8, <2>1, <3>1 DEF Requested, Chunks
      <4> QED BY <4>1 DEF Granted
    <3>2. CASE m.ph = "BEGIN_RESP"
      <4>1. Response(t)'
        BY <1>3, <1>5, <1>7, <1>8, <2>1, <3>2 DEF Response, Chunks
      <4> QED BY <4>1 DEF Granted
    <3> QED BY <1>3, <2>1, <3>1, <3>2
  <2>2. CASE /\ Bw(t, "END_REQ") /\ init[t] = "req" /\ targ[t] = "acked"
             /\ ~ NeedsData(t, Bw1(t)) /\ ~ NeedsData(t, pay[t])
    <3>1. Requested(t)'
      BY <1>3, <1>5, <1>7, <1>8, <2>2 DEF Requested, Chunks
    <3> QED BY <3>1 DEF Granted
  <2> QED BY <1>11, <2>1, <2>2 DEF Requested
<1>15. Data(t) => Granted(t)'
  <2> SUFFICES ASSUME Data(t) PROVE Granted(t)' OBVIOUS
  <2>1. CASE /\ Empty(t) /\ init[t] = "data" /\ targ[t] = "data"
             /\ ~ HasError(pay[t]) /\ 0 < pay[t].valid /\ pay[t].valid <= Chunks
    <3>1. pay[t].valid \in 0..2 BY DEF Pays
    <3>3. Data(t)'
      BY <1>3, <1>5, <1>7, <1>8, <2>1, <3>1 DEF Data, Chunks
    <3> QED BY <3>3 DEF Granted
  <2>2. CASE /\ Bw(t, "END_DATA") /\ init[t] = "data" /\ targ[t] = "acked" /\ HasWriteResp
             /\ ~ HasError(Bw1(t)) /\ ~ NeedsData(t, Bw1(t)) /\ ~ NeedsData(t, pay[t])
    <3>1. Data(t)'
      BY <1>3, <1>5, <1>7, <1>8, <2>2 DEF Data, Chunks
    <3> QED BY <3>1 DEF Granted
  <2> QED BY <1>11, <2>1, <2>2 DEF Data
<1>16. Response(t) => Granted(t)'
  <2> SUFFICES ASSUME Response(t) PROVE Granted(t)' OBVIOUS
  <2>1. Empty(t) /\ init[t] = "acked" /\ targ[t] = "acked" /\ ~ NeedsData(t, pay[t])
    BY <1>11 DEF Response
  <2>2. Response(t)'
    BY <1>3, <1>5, <1>7, <1>8, <2>1 DEF Response, Chunks
  <2> QED BY <2>2 DEF Granted
<1>17. ~ Stuck(t) BY <1>11 DEF Stuck
<1>18. Granted(t)' BY <1>12, <1>14, <1>15, <1>16, <1>17 DEF Granted
<1>19. /\ "initiator" \in states[t] => init[t] \in {"done", "free"}
       /\ "target" \notin states[t]
  BY <1>11 DEF Stage
<1> QED BY <1>8, <1>9, <1>10, <1>12, <1>13, <1>18, <1>19 DEF Stage

-----------------------------------------------------------------------------
(* The stages in which a phase is on its way to the bus. *)
SendsData(t) ==
  /\ Fw(t, "BEGIN_DATA") /\ init[t] = "data" /\ targ[t] = "wait"
  /\ ~ HasError(Fw1(t)) /\ 0 < Fw1(t).valid /\ Fw1(t).valid <= Chunks
EndsResponse(t) ==
  /\ Fw(t, "END_RESP") /\ Answered(t)
  /\ IF HasError(Fw1(t)) \/ Over(Fw1(t))
     THEN init[t] \in {"done", "free"}
     ELSE init[t] = "acked" /\ ~ NeedsData(t, pay[t]) /\ ~ NeedsData(t, Fw1(t))

(* These, and the arrival of a request, are the only ones. *)
LEMMA FwKinds ==
  ASSUME TypeOK, NEW t \in Txns, Stage(t)
  PROVE  /\ \/ fwPeq[t] = <<>> /\ ~ Arrives(t)
            \/ Arrives(t) /\ "bus" \in refs[t] /\ t \notin Queued /\ ~ Granted(t)
            \/ /\ SendsData(t) \/ EndsResponse(t)
               /\ Granted(t) /\ "bus" \in refs[t] /\ t \notin Queued /\ ~ Arrives(t)
         /\ t \in Queued => "bus" \in refs[t] /\ InQueue(t)
<1>1. Len(<<>>) = 0 BY EmptySeq
<1>2. Outside(t) \/ InQueue(t) => fwPeq[t] = <<>> /\ ~ Arrives(t)
  BY <1>1 DEF Outside, InQueue, Arrives, Empty, Fw
<1>3. Granted(t) => ~ Arrives(t) /\ (SendsData(t) \/ EndsResponse(t) \/ fwPeq[t] = <<>>)
  <2>1. Requested(t) => fwPeq[t] = <<>> BY DEF Requested, Empty, Bw, Bw2
  <2>2. Data(t) => SendsData(t) \/ fwPeq[t] = <<>> BY DEF Data, SendsData, Empty, Bw, Bw2
  <2>3. Response(t) => EndsResponse(t) \/ fwPeq[t] = <<>>
    BY DEF Response, EndsResponse, Empty, Bw, Bw2
  <2>4. Stuck(t) => fwPeq[t] = <<>> BY DEF Stuck, Empty
  <2>5. SendsData(t) \/ EndsResponse(t) \/ fwPeq[t] = <<>> => ~ Arrives(t)
    BY <1>1 DEF SendsData, EndsResponse, Arrives, Fw
  <2> QED BY <2>1, <2>2, <2>3, <2>4, <2>5 DEF Granted
<1>4. \/ Outside(t) /\ t \notin Queued
      \/ "bus" \in refs[t] /\ Arrives(t) /\ t \notin Queued
      \/ "bus" \in refs[t] /\ InQueue(t) /\ t \in Queued
      \/ "bus" \in refs[t] /\ Granted(t) /\ t \notin Queued
  BY DEF Stage
<1> QED BY <1>2, <1>3, <1>4

(* Where a transaction is shows in what the bus has of it. *)
Place(t) ==
  /\ t \in Arriving <=> Arrives(t)
  /\ t \in Active <=> "bus" \in refs[t] /\ t \notin Queued /\ ~ Arrives(t)
  /\ Arrives(t) => "bus" \in refs[t] /\ t \notin Queued
  /\ t \in Queued => "bus" \in refs[t]
  /\ Granted(t) => ~ Arrives(t)

(* Every transaction is in such a place. *)
LEMMA Places ==
  TypeOK /\ Stages => \A t \in Txns : Place(t)
<1> SUFFICES ASSUME TypeOK, Stages, NEW t \in Txns PROVE Place(t)
  OBVIOUS
<1>1. Stage(t) BY DEF Stages
<1>2. /\ \/ fwPeq[t] = <<>> /\ ~ Arrives(t)
         \/ Arrives(t) /\ "bus" \in refs[t] /\ t \notin Queued /\ ~ Granted(t)
         \/ /\ SendsData(t) \/ EndsResponse(t)
            /\ Granted(t) /\ "bus" \in refs[t] /\ t \notin Queued /\ ~ Arrives(t)
      /\ t \in Queued => "bus" \in refs[t] /\ InQueue(t)
  BY <1>1, FwKinds
<1>3. t \in Arriving <=> Arrives(t)
  <2>1. t \in Arriving <=> \E i \in 1..Len(fwPeq[t]) : fwPeq[t][i].ph = "BEGIN_REQ"
    BY DEF Arriving
  <2>2. CASE fwPeq[t] = <<>> /\ ~ Arrives(t)
    <3>1. Len(fwPeq[t]) = 0 BY <2>2, EmptySeq
    <3> QED BY <2>1, <2>2, <3>1
  <2>3. CASE Arrives(t)
    <3>1. Len(fwPeq[t]) = 1 /\ fwPeq[t][1].ph = "BEGIN_REQ" BY <2>3 DEF Arrives, Fw
    <3> QED BY <2>1, <2>3, <3>1
  <2>4. CASE (SendsData(t) \/ EndsResponse(t)) /\ ~ Arrives(t)
    <3>1. Len(fwPeq[t]) = 1 /\ fwPeq[t][1].ph # "BEGIN_REQ"
      BY <2>4 DEF SendsData, EndsResponse, Fw
    <3>2. \A i \in 1..Len(fwPeq[t]) : i = 1 BY <3>1
    <3> QED BY <2>1, <2>4, <3>1, <3>2
  <2> QED BY <1>2, <2>2, <2>3, <2>4
<1>4. t \in Active <=> "bus" \in refs[t] /\ t \notin Queued /\ ~ Arrives(t)
  BY <1>3 DEF Active, Waiting
<1>5. Granted(t) => ~ Arrives(t) BY <1>2
<1> QED BY <1>2, <1>3, <1>4, <1>5 DEF Place

(* A request reaches the scheduler. *)
LEMMA FwRequestMoves ==
  ASSUME TypeOK, NEW t \in Txns, Stage(t), FwRequest(t)
  PROVE  /\ TypeOK' /\ Others(t) /\ Stage(t)' /\ Arrives(t) /\ "bus" \in refs[t]
         /\ t \notin Queued /\ Queued' = Queued \cup {t}
<1>1. /\ Len(<<>>) = 0 /\ Len(fwPeq[t]) \in Nat
      /\ Len(fwPeq[t]) = 1 => Head(fwPeq[t]) = fwPeq[t][1] /\ Tail(fwPeq[t]) = <<>>
  BY PeqTake DEF TypeOK
<1>2. Arrives(t) /\ "bus" \in refs[t] /\ t \notin Queued
  <2>1. fwPeq[t] # <<>> /\ Head(fwPeq[t]).ph = "BEGIN_REQ" BY DEF FwRequest
  <2>2. SendsData(t) \/ EndsResponse(t) => Head(fwPeq[t]).ph # "BEGIN_REQ"
    BY <1>1 DEF SendsData, EndsResponse, Fw
  <2> QED BY <2>1, <2>2, FwKinds
<1>3. /\ Head(fwPeq[t]).pay = Fresh /\ Tail(fwPeq[t]) = <<>> /\ bwPeq[t] = <<>>
      /\ init[t] = "req" /\ targ[t] = "none" /\ states[t] = {}
  BY <1>1, <1>2 DEF Arrives, Fw, Fw1
<1>4. /\ pay' = [pay EXCEPT ![t] = Fresh] /\ fwPeq' = [fwPeq EXCEPT ![t] = <<>>]
      /\ queue' = Append(queue, t) /\ kicks' = kicks + 1
      /\ UNCHANGED <<bwPeq, idle, states, cmd, refs, init, targ, mapped, setup>>
  BY <1>3 DEF FwRequest
<1>5. /\ queue' \in Seq(Txns) /\ Len(queue') = Len(queue) + 1 /\ Len(queue) \in Nat
      /\ \A i \in 1..Len(queue) : queue'[i] = queue[i]
      /\ queue'[Len(queue) + 1] = t
  BY <1>4, AppendProperties, LenProperties DEF TypeOK
<1>6. TypeOK'
  <2>1. Fresh \in Pays /\ <<>> \in Seq(Msgs) BY EmptySeq DEF Fresh, Pays
  <2> QED BY <1>4, <1>5, <2>1 DEF TypeOK
<1>7. Others(t) BY <1>4 DEF Others, SameTxn, TypeOK
<1>8. Queued' = Queued \cup {t}
  <2>1. Queued' = {queue'[i] : i \in 1..Len(queue')} BY DEF Queued
  <2>2. ASSUME NEW x \in Queued' PROVE x \in Queued \cup {t}
    <3>1. PICK i \in 1..Len(queue') : x = queue'[i] BY <2>1
    <3>2. CASE i \in 1..Len(queue) BY <1>5, <3>1, <3>2 DEF Queued
    <3>3. CASE i = Len(queue) + 1 BY <1>5, <3>1, <3>3
    <3> QED BY <1>5, <3>1, <3>2, <3>3
  <2>3. ASSUME NEW x \in Queued PROVE x \in Queued'
    <3>1. PICK i \in 1..Len(queue) : x = queue[i] BY DEF Queued
    <3>2. i \in 1..Len(queue') /\ queue'[i] = x BY <1>5, <3>1
    <3> QED BY <2>1, <3>2
  <2>4. t \in Queued'
    <3>1. Len(queue) + 1 \in 1..Len(queue') BY <1>5
    <3> QED BY <1>5, <2>1, <3>1
  <2> QED BY <2>2, <2>3, <2>4
<1>9. InQueue(t)' BY <1>3, <1>4 DEF InQueue, Empty, TypeOK
<1>10. "bus" \in refs'[t] /\ t \in Queued' /\ states'[t] = {} BY <1>2, <1>3, <1>4, <1>8
<1> QED BY <1>2, <1>6, <1>7, <1>8, <1>9, <1>10 DEF Stage

(* A transaction that has the bus keeps it or frees it, as Finish says. *)
Serves(t) ==
  /\ Others(t) /\ Stage(t)' /\ Granted(t) /\ "bus" \in refs[t] /\ t \notin Queued
  /\ queue' = queue
  /\ \/ "bus" \in refs'[t] /\ Granted(t)' /\ UNCHANGED <<idle, kicks>>
     \/ "bus" \notin refs'[t] /\ idle' = TRUE /\ kicks' = kicks + 1

(* What Finish does to the variables it writes. *)
LEMMA Finishes ==
  ASSUME TypeOK, NEW t \in Txns, NEW over \in BOOLEAN, Finish(t, over)
  PROVE  /\ refs' \in [Txns -> SUBSET Holders] /\ idle' \in BOOLEAN /\ kicks' \in Nat
         /\ \A u \in Txns \ {t} : refs'[u] = refs[u]
         /\ over => "bus" \notin refs'[t] /\ idle' = TRUE /\ kicks' = kicks + 1
         /\ ~ over => refs' = refs /\ UNCHANGED <<idle, kicks>>
<1>1. CASE over
  <2>1. idle' = TRUE /\ refs' = [refs EXCEPT ![t] = @ \ {"bus"}] /\ kicks' = kicks + 1
    BY <1>1 DEF Finish
  <2> QED BY <1>1, <2>1 DEF TypeOK
<1>2. CASE ~ over
  <2>1. UNCHANGED <<idle, refs, kicks>> BY <1>2 DEF Finish
  <2> QED BY <1>2, <2>1 DEF TypeOK
<1> QED BY <1>1, <1>2

(* A phase of a running transaction is passed to the target. *)
LEMMA FwForwardMoves ==
  ASSUME TypeOK, NEW t \in Txns, Stage(t), FwForward(t)
  PROVE  TypeOK' /\ Serves(t)
<1> DEFINE phase == Head(fwPeq[t]).ph
           p == Head(fwPeq[t]).pay
           over(q) == phase = "END_RESP" /\ (Over(q) \/ HasError(q))
<1>0. setup \in Setups /\ Chunks \in 1..2 BY DEF TypeOK, Chunks
<1>1. /\ Len(<<>>) = 0 /\ Len(fwPeq[t]) \in Nat /\ fwPeq[t] # <<>>
      /\ Len(fwPeq[t]) = 1 => Head(fwPeq[t]) = fwPeq[t][1] /\ Tail(fwPeq[t]) = <<>>
      /\ Head(fwPeq[t]) \in Msgs
  BY PeqTake DEF TypeOK, FwForward
<1>2. /\ SendsData(t) \/ EndsResponse(t)
      /\ Granted(t) /\ "bus" \in refs[t] /\ t \notin Queued
  <2>1. phase # "BEGIN_REQ" BY DEF FwForward
  <2>2. Arrives(t) => phase = "BEGIN_REQ" BY <1>1 DEF Arrives, Fw
  <2> QED BY <1>1, <2>1, <2>2, FwKinds
<1>3. /\ p = Fw1(t) /\ Tail(fwPeq[t]) = <<>> /\ bwPeq[t] = <<>> /\ p \in Pays
      /\ \/ phase = "BEGIN_DATA" /\ SendsData(t)
         \/ phase = "END_RESP" /\ EndsResponse(t)
  BY <1>1, <1>2 DEF SendsData, EndsResponse, Fw, Fw1, Msgs
<1>4. /\ fwPeq' = [fwPeq EXCEPT ![t] = <<>>]
      /\ UNCHANGED <<queue, cmd, init, mapped, setup>>
      /\ \/ /\ "target" \in states[t] \/ ~DecodeOk
            /\ pay' = [pay EXCEPT ![t] = p]
            /\ Finish(t, over(p))
            /\ UNCHANGED <<bwPeq, states, targ>>
         \/ /\ "target" \notin states[t] /\ DecodeOk
            /\ \E r \in TargetCall(t, phase, p) :
                 /\ pay' = [pay EXCEPT ![t] = r.pay]
                 /\ targ' = [targ EXCEPT ![t] = r.targ]
                 /\ bwPeq' = CASE r.ret = "UPDATED" -> Notify(bwPeq, t, r.ph, r.pay)
                               [] r.ret = "COMPLETED" /\ phase = "BEGIN_DATA" ->
                                    Notify(bwPeq, t, "END_DATA", r.pay)
                               [] OTHER -> bwPeq
                 /\ states' = Completed(t, "target", r.ret)
                 /\ Finish(t, over(r.pay))
  BY <1>3 DEF FwForward
<1>5. /\ "initiator" \in states[t] => init[t] \in {"done", "free"}
      /\ "target" \in states[t] => targ[t] = "done"
  BY DEF Stage
<1>6. Queued' = Queued BY <1>4 DEF Queued
<1>7. over(p) <=> phase = "END_RESP" /\ (HasError(Fw1(t)) \/ Over(Fw1(t))) BY <1>3
<1> HIDE DEF phase, p
<1>8. CASE /\ "target" \in states[t] \/ ~DecodeOk
           /\ pay' = [pay EXCEPT ![t] = p]
           /\ Finish(t, over(p))
           /\ UNCHANGED <<bwPeq, states, targ>>
  <2>1. over(p) \in BOOLEAN OBVIOUS
  <2>2. /\ refs' \in [Txns -> SUBSET Holders] /\ idle' \in BOOLEAN /\ kicks' \in Nat
        /\ \A u \in Txns \ {t} : refs'[u] = refs[u]
        /\ over(p) => "bus" \notin refs'[t] /\ idle' = TRUE /\ kicks' = kicks + 1
        /\ ~ over(p) => refs' = refs /\ UNCHANGED <<idle, kicks>>
    <3> HIDE DEF over
    <3> QED BY <1>8, <2>1, Finishes
  <2>3. TypeOK'
    <3>1. <<>> \in Seq(Msgs) BY EmptySeq
    <3> QED BY <1>3, <1>4, <1>8, <2>2, <3>1 DEF TypeOK
  <2>4. Others(t) BY <1>4, <1>8, <2>2 DEF Others, SameTxn, TypeOK
  <2>5. /\ Empty(t)' /\ pay'[t] = p /\ targ'[t] = targ[t] /\ init'[t] = init[t]
        /\ states'[t] = states[t]
    BY <1>3, <1>4, <1>8 DEF TypeOK, Empty
  <2>6. over(p) => Outside(t)'
    BY <1>3, <1>7, <2>5 DEF Outside, EndsResponse, Answered, SendsData
  <2>7. ~ over(p) => Stuck(t)'
    <3>1. SendsData(t) => Stuck(t)' BY <2>5 DEF SendsData, Stuck
    <3>2. EndsResponse(t) /\ ~ over(p) /\ phase = "END_RESP" => Stuck(t)'
      BY <1>3, <1>4, <1>7, <2>5 DEF EndsResponse, Answered, Stuck, NeedsData, HasData, Chunks
    <3> QED BY <1>3, <3>1, <3>2
  <2>8. Stage(t)'
    BY <1>2, <1>4, <1>5, <1>6, <2>2, <2>5, <2>6, <2>7 DEF Stage, Granted
  <2> QED BY <1>2, <1>4, <2>2, <2>3, <2>4, <2>7, <2>8 DEF Serves, Granted
<1>9. ASSUME "target" \notin states[t], NEW r \in TargetCall(t, phase, p),
             pay' = [pay EXCEPT ![t] = r.pay],
             targ' = [targ EXCEPT ![t] = r.targ],
             bwPeq' = CASE r.ret = "UPDATED" -> Notify(bwPeq, t, r.ph, r.pay)
                        [] r.ret = "COMPLETED" /\ phase = "BEGIN_DATA" ->
                             Notify(bwPeq, t, "END_DATA", r.pay)
                        [] OTHER -> bwPeq,
             states' = Completed(t, "target", r.ret),
             Finish(t, over(r.pay))
      PROVE  TypeOK' /\ Serves(t)
  <2>1. /\ r.pay \in Pays
        /\ \/ r.ret = "ACCEPTED" /\ r.pay = p /\ r.targ = TargetSees(phase, p)
           \/ /\ r.ret = "UPDATED" /\ phase # "END_RESP"
              /\ \E m \in TargetMoves(t, TargetSees(phase, p), p) :
                   r.ph = m.ph /\ r.targ = m.targ /\ r.pay = m.pay
           \/ /\ r.ret = "COMPLETED" /\ r.targ = "done"
              /\ phase = "BEGIN_DATA" => r.pay = p /\ p.valid = Chunks
              /\ phase = "END_RESP" => r.pay = p /\ TargetSees(phase, p) = "done"
    BY <1>3, Calls
  <2>2. /\ refs' \in [Txns -> SUBSET Holders] /\ idle' \in BOOLEAN /\ kicks' \in Nat
        /\ \A u \in Txns \ {t} : refs'[u] = refs[u]
        /\ over(r.pay) => "bus" \notin refs'[t] /\ idle' = TRUE /\ kicks' = kicks + 1
        /\ ~ over(r.pay) => refs' = refs /\ UNCHANGED <<idle, kicks>>
    <3>1. over(r.pay) \in BOOLEAN OBVIOUS
    <3> HIDE DEF over
    <3> QED BY <1>9, <3>1, Finishes
  <2>3. CASE phase = "BEGIN_DATA"
    <3>1. TargetSees(phase, p) = "data" /\ ~ over(r.pay) BY <2>3 DEF TargetSees
    <3>2. \/ /\ r.ret = "ACCEPTED" /\ r.pay = p /\ r.targ = "data"
          \/ /\ r.ret = "UPDATED" /\ r.ph = "END_DATA"
             /\ \/ r.targ = "done" /\ HasError(r.pay)
                \/ /\ r.pay = p
                   /\ \/ r.targ = "wait" /\ p.valid < Chunks
                      \/ r.targ = "acked" /\ p.valid = Chunks /\ HasWriteResp
                      \/ r.targ = "done" /\ p.valid >= Chunks
          \/ r.ret = "COMPLETED" /\ r.targ = "done" /\ r.pay = p /\ p.valid = Chunks
      <4>1. CASE r.ret = "ACCEPTED" BY <2>1, <3>1, <4>1
      <4>2. CASE r.ret = "UPDATED"
        <5>1. PICK m \in TargetMoves(t, "data", p) :
                r.ph = m.ph /\ r.targ = m.targ /\ r.pay = m.pay
          BY <2>1, <3>1, <4>2
        <5>2. /\ m.ph = "END_DATA"
              /\ \/ m.targ = "done" /\ HasError(m.pay)
                 \/ /\ m.pay = p
                    /\ \/ m.targ = "wait" /\ p.valid < Chunks
                       \/ m.targ = "acked" /\ p.valid = Chunks /\ HasWriteResp
                       \/ m.targ = "done" /\ p.valid >= Chunks
          BY <1>3, Moves
        <5> QED BY <4>2, <5>1, <5>2
      <4>3. CASE r.ret = "COMPLETED" BY <2>1, <2>3, <4>3
      <4> QED BY <2>1, <4>1, <4>2, <4>3
    <3>3. r.targ \in {"data", "wait", "acked", "done"} BY <3>2
    <3>4. /\ pay'[t] = r.pay /\ targ'[t] = r.targ /\ init'[t] = "data" /\ fwPeq'[t] = <<>>
          /\ states'[t] = IF r.ret = "COMPLETED" THEN states[t] \cup {"target"} ELSE states[t]
          /\ states' \in [Txns -> SUBSET {"initiator", "target"}]
          /\ \A u \in Txns \ {t} : states'[u] = states[u]
      BY <1>3, <1>4, <1>9, <2>3 DEF TypeOK, SendsData, Completed
    <3>5. p.valid \in 0..2 /\ 0 < p.valid /\ p.valid <= Chunks /\ ~ HasError(p)
      BY <1>3, <2>3 DEF SendsData, Pays
    <3> DEFINE b == bwPeq'[t]
    <3>6. /\ b \in Seq(Msgs) /\ bwPeq' = [bwPeq EXCEPT ![t] = b]
          /\ IF r.ret = "ACCEPTED" THEN b = <<>>
             ELSE Len(b) = 1 /\ b[1].ph = "END_DATA" /\ b[1].pay = r.pay
      <4> DEFINE msg == [ph |-> "END_DATA", pay |-> r.pay]
      <4>1. msg \in Msgs /\ <<>> \in Seq(Msgs) BY <2>1, EmptySeq DEF Msgs, Phases
      <4>2. CASE r.ret = "ACCEPTED"
        <5>1. bwPeq' = bwPeq BY <1>9, <4>2
        <5> QED BY <1>3, <4>1, <4>2, <5>1 DEF TypeOK
      <4>3. CASE r.ret # "ACCEPTED"
        <5>1. bwPeq' = [bwPeq EXCEPT ![t] = Append(<<>>, msg)]
          <6>1. CASE r.ret = "UPDATED" BY <1>3, <1>9, <3>2, <6>1 DEF Notify, TypeOK
          <6>2. CASE r.ret = "COMPLETED" BY <1>3, <1>9, <2>3, <6>2 DEF Notify, TypeOK
          <6> QED BY <2>1, <4>3, <6>1, <6>2
        <5>2. msg.ph = "END_DATA" /\ msg.pay = r.pay OBVIOUS
        <5> HIDE DEF msg
        <5>3. /\ Append(<<>>, msg) \in Seq(Msgs)
              /\ Len(Append(<<>>, msg)) = 1 /\ Append(<<>>, msg)[1] = msg
          BY <4>1, PeqPut
        <5>4. b = Append(<<>>, msg) BY <5>1 DEF TypeOK
        <5> QED BY <4>3, <5>1, <5>2, <5>3, <5>4
      <4> QED BY <4>2, <4>3
    <3>7. TypeOK'
      <4>1. <<>> \in Seq(Msgs) BY EmptySeq
      <4>2. fwPeq' \in [Txns -> Seq(Msgs)] BY <1>4, <4>1 DEF TypeOK
      <4>3. bwPeq' \in [Txns -> Seq(Msgs)]
        <5> HIDE DEF b
        <5> QED BY <3>6 DEF TypeOK
      <4>4. pay' \in [Txns -> Pays] BY <1>9, <2>1 DEF TypeOK
      <4>5. targ' \in [Txns -> {"none", "req", "wait", "acked", "data", "resp", "done"}]
        BY <1>9, <3>3 DEF TypeOK
      <4> QED BY <1>4, <2>2, <3>4, <4>2, <4>3, <4>4, <4>5 DEF TypeOK
    <3>8. Others(t)
      <4>1. \A u \in Txns \ {t} : bwPeq'[u] = bwPeq[u]
        <5> HIDE DEF b
        <5> QED BY <3>6 DEF TypeOK
      <4> QED BY <1>4, <1>9, <2>2, <3>4, <4>1 DEF Others, SameTxn, TypeOK
    <3>9. Data(t)'
      <4>1. HasWriteResp' = HasWriteResp /\ Chunks' = Chunks /\ HasData' = HasData
        BY <1>4 DEF HasWriteResp, Chunks, HasData
      <4>2. r.ret = "ACCEPTED" => Data(t)'
        BY <3>2, <3>4, <3>5, <3>6, <4>1 DEF Data, Empty, HasError
      <4>3. ASSUME r.ret # "ACCEPTED", r.targ = "wait", r.pay = p, p.valid < Chunks
            PROVE  Data(t)'
        BY <4>3, <3>4, <3>5, <3>6, <4>1 DEF Data, Bw, Bw1, HasError
      <4>4. ASSUME r.ret # "ACCEPTED", r.targ = "acked", r.pay = p, p.valid = Chunks, HasWriteResp
            PROVE  Data(t)'
        BY <4>4, <3>4, <3>5, <3>6, <4>1 DEF Data, Bw, Bw1, HasError, NeedsData
      <4>5. ASSUME r.ret # "ACCEPTED", r.targ = "done", HasError(r.pay) \/ r.pay.valid = Chunks
            PROVE  Data(t)'
        BY <4>5, <3>4, <3>5, <3>6, <4>1 DEF Data, Bw, Bw1, HasError
      <4>6. p.valid >= Chunks => p.valid = Chunks BY <1>0, <3>5
      <4> QED BY <3>2, <4>2, <4>3, <4>4, <4>5, <4>6
    <3>10. /\ "initiator" \notin states'[t]
           /\ "target" \in states'[t] => targ'[t] = "done"
      BY <1>3, <1>5, <1>9, <2>3, <3>2, <3>4 DEF SendsData
    <3>11. Granted(t)' BY <3>9 DEF Granted
    <3>12. Stage(t)' BY <1>2, <1>6, <2>2, <3>1, <3>10, <3>11 DEF Stage
    <3> HIDE DEF over
    <3> QED BY <1>2, <1>4, <2>2, <3>1, <3>7, <3>8, <3>11, <3>12 DEF Serves
  <2>4. CASE phase = "END_RESP"
    <3>1. r.pay = p /\ r.targ = TargetSees(phase, p) /\ r.ret \in {"ACCEPTED", "COMPLETED"}
      BY <2>1, <2>4
    <3>2. /\ over(p) => r.targ = "done"
          /\ ~ over(p) => r.targ = "acked"
          /\ r.ret = "COMPLETED" => r.targ = "done"
      BY <2>1, <2>4, <3>1 DEF TargetSees, Over
    <3>3. bwPeq' = bwPeq BY <1>9, <2>4, <3>1
    <3>4. /\ pay'[t] = p /\ targ'[t] = r.targ /\ init'[t] = init[t] /\ fwPeq'[t] = <<>>
          /\ states'[t] = IF r.ret = "COMPLETED" THEN states[t] \cup {"target"} ELSE states[t]
          /\ states' \in [Txns -> SUBSET {"initiator", "target"}]
          /\ \A u \in Txns \ {t} : states'[u] = states[u]
      BY <1>4, <1>9, <3>1 DEF TypeOK, Completed
    <3>5. TypeOK'
      <4>1. <<>> \in Seq(Msgs) /\ r.targ \in {"acked", "done"} BY <3>2, EmptySeq
      <4>2. fwPeq' \in [Txns -> Seq(Msgs)] BY <1>4, <4>1 DEF TypeOK
      <4>3. pay' \in [Txns -> Pays] BY <1>9, <2>1 DEF TypeOK
      <4>4. targ' \in [Txns -> {"none", "req", "wait", "acked", "data", "resp", "done"}]
        BY <1>9, <4>1 DEF TypeOK
      <4> QED BY <1>4, <2>2, <3>3, <3>4, <4>2, <4>3, <4>4 DEF TypeOK
    <3>6. Others(t) BY <1>4, <1>9, <2>2, <3>3, <3>4 DEF Others, SameTxn, TypeOK
    <3>7. Empty(t)' BY <1>3, <3>3, <3>4 DEF Empty
    <3>8. /\ "initiator" \in states'[t] => init'[t] \in {"done", "free"}
          /\ "target" \in states'[t] => targ'[t] = "done"
      BY <1>5, <1>9, <3>2, <3>4
    <3>9. CASE over(p)
      <4>1. Outside(t)'
        <5>1. init[t] \in {"done", "free"} BY <1>3, <1>7, <2>4, <3>9 DEF EndsResponse
        <5> QED BY <3>2, <3>4, <3>7, <3>9, <5>1 DEF Outside
      <4>2. Stage(t)' BY <1>2, <1>6, <2>2, <3>1, <3>8, <3>9, <4>1 DEF Stage
      <4> HIDE DEF over
      <4> QED BY <1>2, <1>4, <2>2, <3>1, <3>5, <3>6, <3>9, <4>2 DEF Serves
    <3>10. CASE ~ over(p)
      <4>1. Response(t)'
        <5>1. init[t] = "acked" /\ ~ NeedsData(t, p)
          BY <1>3, <1>7, <2>4, <3>10 DEF EndsResponse
        <5>2. ~ NeedsData(t, pay[t])'
          BY <1>4, <3>4, <5>1 DEF NeedsData, HasData, Chunks
        <5> QED BY <3>2, <3>4, <3>7, <3>10, <5>1, <5>2 DEF Response
      <4>2. Granted(t)' BY <4>1 DEF Granted
      <4>3. Stage(t)' BY <1>2, <1>6, <2>2, <3>1, <3>8, <3>10, <4>2 DEF Stage
      <4> HIDE DEF over
      <4> QED BY <1>2, <1>4, <2>2, <3>1, <3>5, <3>6, <3>10, <4>2, <4>3 DEF Serves
    <3> QED BY <3>9, <3>10
  <2> QED BY <1>3, <2>3, <2>4
<1> HIDE DEF over
<1> QED BY <1>4, <1>8, <1>9

(* The stages in which a phase is on its way to the initiator. *)
AckComes(t) ==
  /\ init[t] = "req"
  /\ \/ /\ Bw(t, "END_REQ")
        /\ \/ targ[t] = "wait" /\ ~ HasError(Bw1(t))
           \/ targ[t] = "acked" /\ ~ NeedsData(t, Bw1(t)) /\ ~ NeedsData(t, pay[t])
           \/ targ[t] = "done" /\ ~ NeedsData(t, Bw1(t))
     \/ /\ Bw2(t, "END_REQ") /\ targ[t] = "resp"
        /\ ~ NeedsData(t, Bw1(t)) /\ MayRespond(t, bwPeq[t][2].pay)
DataAckComes(t) ==
  /\ init[t] = "data"
  /\ \/ /\ Bw(t, "END_DATA")
        /\ \/ targ[t] = "wait" /\ ~ HasError(Bw1(t)) /\ 0 < Bw1(t).valid /\ Bw1(t).valid < Chunks
           \/ /\ targ[t] = "acked" /\ HasWriteResp /\ ~ HasError(Bw1(t))
              /\ ~ NeedsData(t, Bw1(t)) /\ ~ NeedsData(t, pay[t])
           \/ targ[t] = "done" /\ (HasError(Bw1(t)) \/ Bw1(t).valid = Chunks)
     \/ /\ Bw2(t, "END_DATA") /\ targ[t] = "resp" /\ HasWriteResp
        /\ ~ HasError(Bw1(t)) /\ ~ NeedsData(t, Bw1(t)) /\ MayRespond(t, bwPeq[t][2].pay)
ResponseComes(t) ==
  /\ Bw(t, "BEGIN_RESP") /\ Answered(t) /\ MayRespond(t, Bw1(t))
  /\ init[t] = "req" \/ (init[t] = "acked" /\ ~ NeedsData(t, pay[t]))

(* A phase on its way back is one of these. *)
LEMMA BwKinds ==
  ASSUME TypeOK, NEW t \in Txns, Stage(t), bwPeq[t] # <<>>
  PROVE  /\ Granted(t) /\ "bus" \in refs[t] /\ t \notin Queued
         /\ AckComes(t) \/ DataAckComes(t) \/ ResponseComes(t)
<1>1. ~ Outside(t) /\ ~ InQueue(t) /\ ~ Arrives(t)
  BY DEF Outside, InQueue, Arrives, Empty, Fw
<1>2. Granted(t) /\ "bus" \in refs[t] /\ t \notin Queued
  BY <1>1 DEF Stage
<1>3. Requested(t) => AckComes(t)
  <2>1. ~ Empty(t) BY DEF Empty
  <2> QED BY <2>1 DEF Requested, AckComes
<1>4. Data(t) => DataAckComes(t)
  <2>1. ~ Empty(t) /\ ~ Fw(t, "BEGIN_DATA") BY DEF Empty, Fw
  <2> QED BY <2>1 DEF Data, DataAckComes
<1>5. Response(t) => ResponseComes(t)
  <2>1. ~ Empty(t) /\ ~ Fw(t, "END_RESP") BY DEF Empty, Fw
  <2> QED BY <2>1 DEF Response, ResponseComes
<1>6. ~ Stuck(t) BY DEF Stuck, Empty
<1> QED BY <1>2, <1>3, <1>4, <1>5, <1>6 DEF Granted

(* A phase of the target is passed to the initiator. *)
LEMMA BwForwardMoves ==
  ASSUME TypeOK, NEW t \in Txns, Stage(t), BwForward(t)
  PROVE  TypeOK' /\ Serves(t)
<1> DEFINE phase == Head(bwPeq[t]).ph
           p == Head(bwPeq[t]).pay
           rest == Tail(bwPeq[t])
           over(q) == phase = "END_DATA" /\ ((~HasWriteResp /\ Over(q)) \/ HasError(q))
<1>0. setup \in Setups /\ Chunks \in 1..2 /\ (~ HasBytesValid => Chunks = 1)
  BY DEF TypeOK, Chunks, HasBytesValid
<1>1. /\ Len(<<>>) = 0 /\ bwPeq[t] # <<>>
      /\ Len(bwPeq[t]) = 1 => Head(bwPeq[t]) = bwPeq[t][1] /\ rest = <<>>
      /\ Len(bwPeq[t]) = 2 => /\ Head(bwPeq[t]) = bwPeq[t][1]
                              /\ Len(rest) = 1 /\ rest[1] = bwPeq[t][2]
      /\ Head(bwPeq[t]) \in Msgs /\ rest \in Seq(Msgs)
  BY PeqTake DEF TypeOK, BwForward
<1>2. /\ Granted(t) /\ "bus" \in refs[t] /\ t \notin Queued
      /\ AckComes(t) \/ DataAckComes(t) \/ ResponseComes(t)
  BY <1>1, BwKinds
<1>3. /\ p = Bw1(t) /\ fwPeq[t] = <<>> /\ p \in Pays /\ p.valid \in 0..2
      /\ init[t] \in {"req", "acked", "data"} /\ phase \in {"END_REQ", "END_DATA", "BEGIN_RESP"}
      /\ \/ phase = "END_REQ" /\ AckComes(t)
         \/ phase = "END_DATA" /\ DataAckComes(t)
         \/ phase = "BEGIN_RESP" /\ ResponseComes(t)
  BY <1>1, <1>2 DEF AckComes, DataAckComes, ResponseComes, Bw, Bw2, Bw1, Msgs, Pays
<1>4. "initiator" \notin states[t] /\ ("target" \in states[t] => targ[t] = "done")
  BY <1>3 DEF Stage
<1>5. PICK r \in InitCall(phase, p) :
        /\ pay' = [pay EXCEPT ![t] = r.pay]
        /\ init' = [init EXCEPT ![t] = r.init]
        /\ fwPeq' = IF r.ret = "ACCEPTED" THEN fwPeq ELSE Notify(fwPeq, t, r.ph, r.pay)
        /\ states' = Completed(t, "initiator", r.ret)
        /\ Finish(t, over(r.pay))
  BY <1>4 DEF BwForward
<1>6. /\ bwPeq' = [bwPeq EXCEPT ![t] = rest]
      /\ UNCHANGED <<queue, cmd, targ, mapped, setup>>
  BY DEF BwForward
<1>7. Queued' = Queued BY <1>6 DEF Queued
<1>8. /\ HasWriteResp' = HasWriteResp /\ HasBytesValid' = HasBytesValid /\ Chunks' = Chunks
      /\ \A q : NeedsData(t, q)' <=> NeedsData(t, q)
  BY <1>6 DEF HasWriteResp, HasBytesValid, Chunks, NeedsData, HasData
<1> HIDE DEF phase, p, rest
<1>9. /\ r.pay = p
      /\ \/ r.ret = "ACCEPTED" /\ r.init = InitSees(phase, p)
         \/ /\ phase = "BEGIN_RESP" /\ r.ret \in {"UPDATED", "COMPLETED"}
            /\ r.ph = "END_RESP" /\ r.init = AfterEndResp(p)
            /\ r.ret = "COMPLETED" => AfterEndResp(p) = "done"
  BY <1>3, InitCalls
<1>10. /\ refs' \in [Txns -> SUBSET Holders] /\ idle' \in BOOLEAN /\ kicks' \in Nat
       /\ \A u \in Txns \ {t} : refs'[u] = refs[u]
       /\ over(p) => "bus" \notin refs'[t] /\ idle' = TRUE /\ kicks' = kicks + 1
       /\ ~ over(p) => refs' = refs /\ UNCHANGED <<idle, kicks>>
  <2>1. over(p) \in BOOLEAN /\ Finish(t, over(p)) BY <1>5, <1>9
  <2> HIDE DEF over
  <2> QED BY <2>1, Finishes
<1>11. /\ pay'[t] = p /\ init'[t] = r.init /\ targ'[t] = targ[t] /\ bwPeq'[t] = rest
       /\ states'[t] = IF r.ret = "COMPLETED" THEN states[t] \cup {"initiator"} ELSE states[t]
       /\ states' \in [Txns -> SUBSET {"initiator", "target"}]
       /\ \A u \in Txns \ {t} : states'[u] = states[u]
  BY <1>5, <1>6, <1>9 DEF TypeOK, Completed
<1>12. r.init \in {"acked", "done", "resp"} BY <1>3, <1>9 DEF InitSees, AfterEndResp
<1>13. /\ fwPeq' \in [Txns -> Seq(Msgs)] /\ \A u \in Txns \ {t} : fwPeq'[u] = fwPeq[u]
       /\ r.ret = "ACCEPTED" => fwPeq'[t] = <<>>
       /\ r.ret # "ACCEPTED" => /\ Len(fwPeq'[t]) = 1 /\ fwPeq'[t][1].ph = "END_RESP"
                                /\ fwPeq'[t][1].pay = p
  <2>1. CASE r.ret = "ACCEPTED" BY <1>3, <1>5, <2>1 DEF TypeOK
  <2>2. CASE r.ret # "ACCEPTED"
    <3> DEFINE msg == [ph |-> "END_RESP", pay |-> p]
    <3>1. msg \in Msgs /\ <<>> \in Seq(Msgs) BY <1>3, EmptySeq DEF Msgs, Phases
    <3>2. fwPeq' = [fwPeq EXCEPT ![t] = Append(<<>>, msg)]
      BY <1>3, <1>5, <1>9, <2>2 DEF Notify, TypeOK
    <3>3. msg.ph = "END_RESP" /\ msg.pay = p OBVIOUS
    <3> HIDE DEF msg
    <3>4. /\ Append(<<>>, msg) \in Seq(Msgs)
          /\ Len(Append(<<>>, msg)) = 1 /\ Append(<<>>, msg)[1] = msg
      BY <3>1, PeqPut
    <3>5. fwPeq'[t] = Append(<<>>, msg) BY <3>2 DEF TypeOK
    <3> QED BY <2>2, <3>2, <3>3, <3>4, <3>5 DEF TypeOK
  <2> QED BY <2>1, <2>2
<1>14. TypeOK'
  <2>1. bwPeq' \in [Txns -> Seq(Msgs)] BY <1>1, <1>6 DEF TypeOK
  <2>2. pay' \in [Txns -> Pays] BY <1>3, <1>5, <1>9 DEF TypeOK
  <2>3. init' \in [Txns -> {"free", "req", "acked", "data", "resp", "done"}]
    BY <1>5, <1>12 DEF TypeOK
  <2> QED BY <1>6, <1>10, <1>11, <1>13, <2>1, <2>2, <2>3 DEF TypeOK
<1>15. Others(t) BY <1>5, <1>6, <1>10, <1>11, <1>13 DEF Others, SameTxn, TypeOK
<1>16. /\ "initiator" \in states'[t] => init'[t] \in {"done", "free"}
       /\ "target" \in states'[t] => targ'[t] = "done"
  BY <1>4, <1>9, <1>11
<1>17. /\ over(p) => Outside(t)'
       /\ ~ over(p) => Granted(t)'
  <2>1. CASE phase = "END_REQ"
    <3>1. /\ ~ over(p) /\ r.init = "acked" /\ fwPeq'[t] = <<>> /\ AckComes(t)
      BY <1>3, <1>9, <1>13, <2>1 DEF InitSees
    <3>2. Bw(t, "END_REQ") => Empty(t)' BY <1>1, <1>11, <3>1 DEF Bw, Empty
    <3>3. ASSUME Bw(t, "END_REQ"), targ[t] = "wait", ~ HasError(p) PROVE Data(t)'
      BY <1>11, <3>1, <3>2, <3>3 DEF Data, HasError
    <3>4. ASSUME Bw(t, "END_REQ"), targ[t] = "acked", ~ NeedsData(t, p) PROVE Response(t)'
      BY <1>8, <1>11, <3>1, <3>2, <3>4 DEF Response
    <3>5. ASSUME Bw(t, "END_REQ"), targ[t] = "done", ~ NeedsData(t, p) PROVE Stuck(t)'
      BY <1>8, <1>11, <3>1, <3>2, <3>5 DEF Stuck
    <3>6. ASSUME Bw2(t, "END_REQ"), targ[t] = "resp", ~ NeedsData(t, p),
                 MayRespond(t, bwPeq[t][2].pay)
          PROVE  Response(t)'
      BY <1>1, <1>8, <1>11, <3>1, <3>6
         DEF Response, Bw2, Bw, Bw1, Answered, MayRespond, HasError
    <3> QED BY <1>3, <3>1, <3>3, <3>4, <3>5, <3>6 DEF AckComes, Granted
  <2>2. CASE phase = "END_DATA"
    <3>1. /\ r.init = IF HasError(p) \/ (p.valid = Chunks /\ ~HasWriteResp) THEN "done" ELSE "acked"
          /\ fwPeq'[t] = <<>> /\ DataAckComes(t)
      BY <1>3, <1>9, <1>13, <2>2 DEF InitSees
    <3>2. over(p) <=> (~HasWriteResp /\ (HasBytesValid => p.valid = Chunks)) \/ HasError(p)
      BY <2>2 DEF Over
    <3>3. Bw(t, "END_DATA") => Empty(t)' BY <1>1, <1>11, <3>1 DEF Bw, Empty
    <3>4. ASSUME Bw(t, "END_DATA"), targ[t] = "wait", ~ HasError(p), 0 < p.valid, p.valid < Chunks
          PROVE  Data(t)' /\ ~ over(p)
      <4>1. Chunks = 2 /\ p.valid # Chunks BY <1>0, <1>3, <3>4
      <4>2. HasBytesValid BY <1>0, <4>1
      <4>3. ~ over(p) /\ r.init = "acked" BY <3>1, <3>2, <3>4, <4>1, <4>2
      <4>4. Data(t)' BY <1>11, <3>3, <3>4, <4>3 DEF Data, HasError
      <4> QED BY <4>3, <4>4
    <3>5. ASSUME Bw(t, "END_DATA"), targ[t] = "acked", HasWriteResp, ~ HasError(p),
                 ~ NeedsData(t, p)
          PROVE  Response(t)' /\ ~ over(p)
      <4>1. ~ over(p) /\ r.init = "acked" BY <3>1, <3>2, <3>5
      <4> QED BY <1>8, <1>11, <3>3, <3>5, <4>1 DEF Response
    <3>6. ASSUME Bw(t, "END_DATA"), targ[t] = "done", HasError(p) \/ (p.valid = Chunks /\ ~HasWriteResp)
          PROVE  Outside(t)' /\ over(p)
      <4>1. over(p) /\ r.init = "done" BY <3>1, <3>2, <3>6
      <4> QED BY <1>11, <3>3, <3>6, <4>1 DEF Outside
    <3>7. ASSUME Bw(t, "END_DATA"), targ[t] = "done", ~ HasError(p), p.valid = Chunks, HasWriteResp
          PROVE  Stuck(t)' /\ ~ over(p)
      <4>1. ~ over(p) /\ r.init = "acked" BY <3>1, <3>2, <3>7
      <4>2. ~ NeedsData(t, p) BY <1>0, <3>7 DEF NeedsData
      <4> QED BY <1>8, <1>11, <3>3, <3>7, <4>1, <4>2 DEF Stuck
    <3>8. ASSUME Bw2(t, "END_DATA"), targ[t] = "resp", HasWriteResp, ~ HasError(p),
                 ~ NeedsData(t, p), MayRespond(t, bwPeq[t][2].pay)
          PROVE  Response(t)' /\ ~ over(p)
      <4>1. ~ over(p) /\ r.init = "acked" BY <3>1, <3>2, <3>8
      <4>2. Response(t)'
        BY <1>1, <1>8, <1>11, <3>1, <3>8, <4>1
           DEF Response, Bw2, Bw, Bw1, Answered, MayRespond, HasError
      <4> QED BY <4>1, <4>2
    <3> HIDE DEF over
    <3> QED BY <1>3, <3>1, <3>4, <3>5, <3>6, <3>7, <3>8 DEF DataAckComes, Granted
  <2>3. CASE phase = "BEGIN_RESP"
    <3>1. /\ ~ over(p) /\ ResponseComes(t) /\ Answered(t) /\ MayRespond(t, p)
      BY <1>3, <2>3 DEF ResponseComes
    <3>2. rest = <<>> BY <1>1, <3>1 DEF ResponseComes, Bw
    <3>3. Answered(t)' BY <1>11, <3>1 DEF Answered
    <3>4. CASE r.ret = "ACCEPTED"
      <4>1. r.init = "resp" /\ Empty(t)'
        BY <1>9, <1>11, <1>13, <2>3, <3>2, <3>4 DEF InitSees, Empty
      <4>2. Response(t)' BY <1>8, <1>11, <3>1, <3>3, <4>1 DEF Response, MayRespond, HasError
      <4> QED BY <3>1, <4>2 DEF Granted
    <3>5. CASE r.ret # "ACCEPTED"
      <4>1. r.init = AfterEndResp(p) /\ Fw(t, "END_RESP")' /\ Fw1(t)' = p
        BY <1>9, <1>11, <1>13, <3>2, <3>5 DEF Fw, Fw1
      <4>2. Over(Fw1(t))' <=> Over(p) BY <1>8, <4>1 DEF Over
      <4>3. Response(t)'
        BY <1>8, <1>11, <3>1, <3>3, <4>1, <4>2 DEF Response, MayRespond, HasError, AfterEndResp
      <4> QED BY <3>1, <4>3 DEF Granted
    <3> QED BY <3>4, <3>5
  <2> QED BY <1>3, <2>1, <2>2, <2>3
<1> HIDE DEF over
<1>18. Stage(t)' BY <1>2, <1>7, <1>10, <1>16, <1>17 DEF Stage
<1> QED BY <1>2, <1>6, <1>10, <1>14, <1>15, <1>17, <1>18 DEF Serves

-----------------------------------------------------------------------------
(* RemoveAt takes one entry out of the scheduler's queue. *)
LEMMA Removal ==
  ASSUME NEW s \in Seq(Txns), NEW i \in 1..Len(s)
  PROVE  /\ RemoveAt(s, i) \in Seq(Txns) /\ Len(RemoveAt(s, i)) = Len(s) - 1
         /\ \A j \in 1..(Len(s) - 1) :
              RemoveAt(s, i)[j] = IF j < i THEN s[j] ELSE s[j + 1]
<1> DEFINE a == SubSeq(s, 1, i - 1)
           b == SubSeq(s, i + 1, Len(s))
<1>1. Len(s) \in Nat BY LenProperties
<1>2. a \in Seq(Txns) /\ Len(a) = i - 1 /\ \A j \in 1..(i - 1) : a[j] = s[j]
  <2>1. \A j \in 1..(i - 1) : j \in 1..Len(s) BY <1>1
  <2>2. 1 \in 1..(Len(s) + 1) /\ i - 1 \in 0..Len(s) BY <1>1
  <2>3. \A j \in 1..(i - 1) : 1 + j - 1 = j BY <1>1
  <2> QED BY <1>1, <2>1, <2>2, <2>3, SubSeqProperties
<1>3. b \in Seq(Txns) /\ Len(b) = Len(s) - i /\ \A j \in 1..(Len(s) - i) : b[j] = s[i + j]
  <2>1. i + 1 \in 1..(Len(s) + 1) /\ Len(s) \in i..Len(s) BY <1>1
  <2>2. \A j \in 1..(Len(s) - i) : (i + 1) + j - 1 = i + j BY <1>1
  <2> QED BY <1>1, <2>1, <2>2, SubSeqProperties
<1> HIDE DEF a, b
<1>4. /\ a \o b \in Seq(Txns) /\ Len(a \o b) = Len(a) + Len(b)
      /\ \A j \in 1..(Len(a) + Len(b)) : (a \o b)[j] = IF j <= Len(a) THEN a[j] ELSE b[j - Len(a)]
  <2>1. a \in Seq(Txns) /\ b \in Seq(Txns) BY <1>2, <1>3
  <2> QED BY <2>1, ConcatProperties
<1>5. RemoveAt(s, i) = a \o b BY DEF RemoveAt, a, b
<1>6. Len(a) + Len(b) = Len(s) - 1 BY <1>1, <1>2, <1>3
<1>7. ASSUME NEW j \in 1..(Len(s) - 1) PROVE (a \o b)[j] = IF j < i THEN s[j] ELSE s[j + 1]
  <2>1. (a \o b)[j] = IF j <= i - 1 THEN a[j] ELSE b[j - (i - 1)] BY <1>2, <1>4, <1>6
  <2>2. CASE j < i
    <3>1. j \in 1..(i - 1) BY <1>1, <2>2
    <3> QED BY <1>2, <2>1, <2>2, <3>1
  <2>3. CASE j >= i
    <3>1. /\ j - (i - 1) \in 1..(Len(s) - i) /\ i + (j - (i - 1)) = j + 1
          /\ ~ (j <= i - 1) /\ ~ (j < i)
      BY <1>1, <2>3
    <3>2. b[j - (i - 1)] = s[i + (j - (i - 1))] BY <1>3, <3>1
    <3> QED BY <2>1, <3>1, <3>2
  <2>4. j < i \/ j >= i BY <1>1
  <2> QED BY <2>2, <2>3, <2>4
<1> QED BY <1>4, <1>5, <1>6, <1>7

(* The scheduler's queue without the request that is granted. *)
LEMMA Dequeued ==
  ASSUME TypeOK, QueuedOnce, NEW i \in 1..Len(queue), queue' = RemoveAt(queue, i)
  PROVE  /\ queue' \in Seq(Txns) /\ QueuedOnce' /\ Queued' = Queued \ {queue[i]}
         /\ queue[i] \in Queued
<1>1. Len(queue) \in Nat BY LenProperties DEF TypeOK
<1>2. /\ queue' \in Seq(Txns) /\ Len(queue') = Len(queue) - 1
      /\ \A j \in 1..(Len(queue) - 1) : queue'[j] = IF j < i THEN queue[j] ELSE queue[j + 1]
  <2>1. queue \in Seq(Txns) BY DEF TypeOK
  <2>2. /\ RemoveAt(queue, i) \in Seq(Txns) /\ Len(RemoveAt(queue, i)) = Len(queue) - 1
        /\ \A j \in 1..(Len(queue) - 1) :
             RemoveAt(queue, i)[j] = IF j < i THEN queue[j] ELSE queue[j + 1]
    BY <2>1, Removal
  <2> QED BY <2>2
<1> DEFINE at(j) == IF j < i THEN j ELSE j + 1
<1>3. \A j \in 1..Len(queue') : at(j) \in 1..Len(queue) /\ at(j) # i /\ queue'[j] = queue[at(j)]
  <2> SUFFICES ASSUME NEW j \in 1..Len(queue')
               PROVE  at(j) \in 1..Len(queue) /\ at(j) # i /\ queue'[j] = queue[at(j)]
    OBVIOUS
  <2>1. j \in 1..(Len(queue) - 1) BY <1>2
  <2>2. queue'[j] = IF j < i THEN queue[j] ELSE queue[j + 1] BY <1>2, <2>1
  <2>3. CASE j < i
    <3>1. at(j) = j /\ j \in 1..Len(queue) /\ j # i BY <1>1, <2>1, <2>3
    <3> QED BY <2>2, <2>3, <3>1
  <2>4. CASE ~ (j < i)
    <3>1. at(j) = j + 1 BY <2>4
    <3>2. j + 1 \in 1..Len(queue) /\ j + 1 # i BY <1>1, <2>1, <2>4
    <3> QED BY <2>2, <2>4, <3>1, <3>2
  <2> QED BY <2>3, <2>4
<1>4. \A j, k \in 1..Len(queue') : at(j) = at(k) => j = k BY <1>1, <1>2
<1>5. \A k \in 1..Len(queue) \ {i} : \E j \in 1..Len(queue') : at(j) = k
  <2> SUFFICES ASSUME NEW k \in 1..Len(queue), k # i
               PROVE  \E j \in 1..Len(queue') : at(j) = k
    OBVIOUS
  <2>1. CASE k < i
    <3>1. k \in 1..Len(queue') /\ at(k) = k BY <1>1, <1>2, <2>1
    <3> QED BY <3>1
  <2>2. CASE k > i
    <3>1. k - 1 \in 1..Len(queue') /\ at(k - 1) = k BY <1>1, <1>2, <2>2
    <3> QED BY <3>1
  <2> QED BY <1>1, <2>1, <2>2
<1> HIDE DEF at
<1>6. QueuedOnce'
  <2> SUFFICES ASSUME NEW j \in 1..Len(queue'), NEW k \in 1..Len(queue'), queue'[j] = queue'[k]
               PROVE  j = k
    BY DEF QueuedOnce
  <2>1. /\ at(j) \in 1..Len(queue) /\ at(k) \in 1..Len(queue)
        /\ queue[at(j)] = queue[at(k)]
    BY <1>3
  <2>2. at(j) = at(k) BY <2>1 DEF QueuedOnce
  <2> QED BY <1>4, <2>2
<1>7. Queued' = {queue'[j] : j \in 1..Len(queue')} BY DEF Queued
<1>8. ASSUME NEW x \in Queued' PROVE x \in Queued \ {queue[i]}
  <2>1. PICK j \in 1..Len(queue') : x = queue'[j] BY <1>7
  <2> QED BY <1>3, <2>1 DEF Queued, QueuedOnce
<1>9. ASSUME NEW x \in Queued, x # queue[i] PROVE x \in Queued'
  <2>1. PICK k \in 1..Len(queue) : x = queue[k] BY DEF Queued
  <2>2. k # i BY <1>9, <2>1
  <2>3. PICK j \in 1..Len(queue') : at(j) = k BY <1>5, <2>2
  <2> QED BY <1>3, <1>7, <2>1, <2>3
<1>10. queue[i] \in Queued BY DEF Queued
<1> QED BY <1>2, <1>6, <1>8, <1>9, <1>10

(* The scheduler grants the bus to the request in place i. *)
LEMMA GrantMoves ==
  ASSUME TypeOK, Stages, QueuedOnce, NEW i \in 1..Len(queue), Grant(i),
         NEW t \in Txns, t = queue[i]
  PROVE  /\ TypeOK' /\ QueuedOnce' /\ Others(t) /\ Stage(t)' /\ Granted(t)'
         /\ t \in Queued /\ Queued' = Queued \ {t} /\ "bus" \in refs[t]
         /\ idle = TRUE /\ idle' = FALSE /\ refs' = refs
<1>1. /\ kicks > 0 /\ idle = TRUE /\ kicks' = kicks - 1 /\ idle' = FALSE
      /\ queue' = RemoveAt(queue, i)
      /\ UNCHANGED <<fwPeq, cmd, refs, init, mapped, setup>>
  BY DEF Grant, MayGrant, TypeOK
<1>2. queue' \in Seq(Txns) /\ QueuedOnce' /\ Queued' = Queued \ {t} /\ t \in Queued
  BY <1>1, Dequeued
<1>3. t \in Txns OBVIOUS
<1>4. "bus" \in refs[t] /\ InQueue(t) /\ t \in Queued
  BY <1>2, <1>3, FwKinds DEF Stages
<1>5. /\ fwPeq[t] = <<>> /\ bwPeq[t] = <<>> /\ init[t] = "req" /\ targ[t] = "none"
      /\ states[t] = {} /\ pay[t] = Fresh
  BY <1>4 DEF InQueue, Empty
<1>6. kicks' \in Nat BY <1>1 DEF TypeOK
<1>7. \/ /\ ~DecodeOk
         /\ UNCHANGED <<pay, targ, bwPeq, states>>
      \/ /\ DecodeOk
         /\ \E r \in TargetCall(t, "BEGIN_REQ", pay[t]) :
              /\ pay' = [pay EXCEPT ![t] = r.pay]
              /\ targ' = [targ EXCEPT ![t] = r.targ]
              /\ bwPeq' = CASE r.ret = "UPDATED" -> Notify(bwPeq, t, r.ph, r.pay)
                            [] r.ret = "COMPLETED" ->
                                 Notify(bwPeq, t,
                                        IF \/ cmd[t] = "WRITE" /\ HasWriteResp
                                           \/ cmd[t] = "READ"
                                        THEN "BEGIN_RESP" ELSE "END_REQ", r.pay)
                            [] OTHER -> bwPeq
              /\ states' = Completed(t, "target", r.ret)
  BY DEF Grant
<1>8. Fresh \in Pays /\ ~ HasError(Fresh) BY DEF Fresh, Pays, HasError
<1>9. CASE UNCHANGED <<pay, targ, bwPeq, states>>
  <2>1. TypeOK' BY <1>1, <1>2, <1>6, <1>9 DEF TypeOK
  <2>2. Others(t) BY <1>1, <1>9 DEF Others, SameTxn
  <2>3. Stuck(t)' BY <1>1, <1>5, <1>9 DEF Stuck, Empty
  <2>4. Granted(t)' BY <2>3 DEF Granted
  <2>5. Stage(t)' BY <1>1, <1>2, <1>4, <1>5, <1>9, <2>4 DEF Stage
  <2> QED BY <1>1, <1>2, <1>4, <2>1, <2>2, <2>4, <2>5
<1>10. ASSUME NEW r \in TargetCall(t, "BEGIN_REQ", pay[t]),
              pay' = [pay EXCEPT ![t] = r.pay],
              targ' = [targ EXCEPT ![t] = r.targ],
              bwPeq' = CASE r.ret = "UPDATED" -> Notify(bwPeq, t, r.ph, r.pay)
                         [] r.ret = "COMPLETED" ->
                              Notify(bwPeq, t,
                                     IF \/ cmd[t] = "WRITE" /\ HasWriteResp
                                        \/ cmd[t] = "READ"
                                     THEN "BEGIN_RESP" ELSE "END_REQ", r.pay)
                         [] OTHER -> bwPeq,
              states' = Completed(t, "target", r.ret)
       PROVE  TypeOK' /\ Others(t) /\ Stage(t)' /\ Granted(t)'
  <2>1. /\ r.pay \in Pays
        /\ \/ r.ret = "ACCEPTED" /\ r.pay = Fresh /\ r.targ = "req"
           \/ /\ r.ret = "UPDATED"
              /\ \E m \in TargetMoves(t, "req", Fresh) :
                   r.ph = m.ph /\ r.targ = m.targ /\ r.pay = m.pay
           \/ r.ret = "COMPLETED" /\ r.targ = "done" /\ (~ HasData \/ cmd[t] = "READ")
    <3>1. TargetSees("BEGIN_REQ", pay[t]) = "req" BY DEF TargetSees
    <3>2. r \in TargetCall(t, "BEGIN_REQ", Fresh) BY <1>5
    <3> QED BY <1>3, <1>5, <1>8, <3>1, <3>2, Calls
  <2>2. PICK ph \in {"NONE", "END_REQ", "BEGIN_RESP"} :
          /\ ph = "NONE" => bwPeq' = bwPeq /\ r.pay = Fresh /\ r.targ = "req"
          /\ ph # "NONE" => bwPeq' = Notify(bwPeq, t, ph, r.pay)
          /\ ph = "END_REQ" => \/ r.targ = "wait" /\ ~ HasError(r.pay)
                               \/ r.targ = "acked" /\ ~ NeedsData(t, r.pay)
                               \/ r.targ = "done" /\ ~ NeedsData(t, r.pay)
          /\ ph = "BEGIN_RESP" => /\ MayRespond(t, r.pay)
                                  /\ r.targ = "resp" \/ (r.targ = "done" /\ r.ret = "COMPLETED")
          /\ r.ret = "COMPLETED" => r.targ = "done"
    <3>1. CASE r.ret = "ACCEPTED"
      <4>1. bwPeq' = bwPeq /\ r.pay = Fresh /\ r.targ = "req" BY <1>10, <2>1, <3>1
      <4> QED BY <3>1, <4>1
    <3>2. CASE r.ret = "UPDATED"
      <4>1. PICK m \in TargetMoves(t, "req", Fresh) :
              r.ph = m.ph /\ r.targ = m.targ /\ r.pay = m.pay
        BY <2>1, <3>2
      <4>2. \/ /\ m.ph = "END_REQ" /\ m.pay = Fresh
               /\ m.targ = IF NeedsData(t, Fresh) THEN "wait" ELSE "acked"
            \/ m.ph = "BEGIN_RESP" /\ m.targ = "resp" /\ MayRespond(t, m.pay)
        BY <1>3, <1>8, Moves
      <4>3. bwPeq' = Notify(bwPeq, t, r.ph, r.pay) BY <1>10, <3>2
      <4>4. CASE m.ph = "END_REQ" BY <1>8, <3>2, <4>1, <4>2, <4>3, <4>4
      <4>5. CASE m.ph = "BEGIN_RESP" BY <3>2, <4>1, <4>2, <4>3, <4>5
      <4> QED BY <4>2, <4>4, <4>5
    <3>3. CASE r.ret = "COMPLETED"
      <4>1. r.targ = "done" /\ ~ NeedsData(t, r.pay) BY <2>1, <3>3 DEF NeedsData
      <4> DEFINE x == IF \/ cmd[t] = "WRITE" /\ HasWriteResp
                         \/ cmd[t] = "READ"
                      THEN "BEGIN_RESP" ELSE "END_REQ"
      <4>2. bwPeq' = Notify(bwPeq, t, x, r.pay) BY <1>10, <3>3
      <4>3. x \in {"END_REQ", "BEGIN_RESP"} OBVIOUS
      <4> HIDE DEF x
      <4> QED BY <3>3, <4>1, <4>2, <4>3 DEF MayRespond
    <3> QED BY <2>1, <3>1, <3>2, <3>3
  <2>3. /\ pay'[t] = r.pay /\ targ'[t] = r.targ /\ init'[t] = "req" /\ fwPeq'[t] = <<>>
        /\ states'[t] = IF r.ret = "COMPLETED" THEN {"target"} ELSE {}
        /\ states' \in [Txns -> SUBSET {"initiator", "target"}]
        /\ \A u \in Txns \ {t} : states'[u] = states[u]
        /\ cmd'[t] = cmd[t]
    BY <1>1, <1>3, <1>5, <1>10 DEF TypeOK, Completed
  <2>4. r.targ \in {"req", "wait", "acked", "resp", "done"} BY <2>2
  <2>5. /\ bwPeq' \in [Txns -> Seq(Msgs)] /\ \A u \in Txns \ {t} : bwPeq'[u] = bwPeq[u]
        /\ ph = "NONE" => bwPeq'[t] = <<>>
        /\ ph # "NONE" => Len(bwPeq'[t]) = 1 /\ bwPeq'[t][1].ph = ph /\ bwPeq'[t][1].pay = r.pay
    <3>1. CASE ph = "NONE" BY <1>5, <2>2, <3>1 DEF TypeOK
    <3>2. CASE ph # "NONE"
      <4> DEFINE msg == [ph |-> ph, pay |-> r.pay]
      <4>1. msg \in Msgs /\ <<>> \in Seq(Msgs) BY <2>1, <2>2, <3>2, EmptySeq DEF Msgs, Phases
      <4>2. bwPeq' = [bwPeq EXCEPT ![t] = Append(<<>>, msg)]
        BY <1>3, <1>5, <2>2, <3>2 DEF Notify, TypeOK
      <4>3. msg.ph = ph /\ msg.pay = r.pay OBVIOUS
      <4> HIDE DEF msg
      <4>4. /\ Append(<<>>, msg) \in Seq(Msgs)
            /\ Len(Append(<<>>, msg)) = 1 /\ Append(<<>>, msg)[1] = msg
        BY <4>1, PeqPut
      <4>5. bwPeq'[t] = Append(<<>>, msg) BY <1>3, <4>2 DEF TypeOK
      <4> QED BY <1>3, <3>2, <4>2, <4>3, <4>4, <4>5 DEF TypeOK
    <3> QED BY <3>1, <3>2
  <2>6. TypeOK'
    <3>1. pay' \in [Txns -> Pays] BY <1>10, <2>1 DEF TypeOK
    <3>2. targ' \in [Txns -> {"none", "req", "wait", "acked", "data", "resp", "done"}]
      BY <1>10, <2>4 DEF TypeOK
    <3> QED BY <1>1, <1>2, <1>6, <2>3, <2>5, <3>1, <3>2 DEF TypeOK
  <2>7. Others(t) BY <1>1, <1>3, <1>10, <2>3, <2>5 DEF Others, SameTxn, TypeOK
  <2>8. \A q : NeedsData(t, q)' <=> NeedsData(t, q)
    <3>1. HasData' = HasData /\ Chunks' = Chunks /\ cmd' = cmd BY <1>1 DEF HasData, Chunks
    <3> QED BY <2>3, <3>1 DEF NeedsData
  <2>9. Granted(t)'
    <3>1. ph = "NONE" => Requested(t)'
      BY <1>8, <2>2, <2>3, <2>5 DEF Requested, Empty, HasError
    <3>2. ph = "END_REQ" => Requested(t)'
      BY <2>2, <2>3, <2>5, <2>8 DEF Requested, Bw, Bw1, HasError
    <3>3. ph = "BEGIN_RESP" => Response(t)'
      BY <2>2, <2>3, <2>5, <2>8 DEF Response, Bw, Bw1, MayRespond, Answered, HasError
    <3> QED BY <2>2, <3>1, <3>2, <3>3 DEF Granted
  <2>10. Stage(t)' BY <1>1, <1>2, <1>4, <2>2, <2>3, <2>9 DEF Stage
  <2> QED BY <2>6, <2>7, <2>9, <2>10
<1>11. TypeOK' /\ Others(t) /\ Stage(t)' /\ Granted(t)' BY <1>7, <1>9, <1>10
<1> QED BY <1>1, <1>2, <1>4, <1>11

-----------------------------------------------------------------------------
(* The same for the next state. *)
LEMMA PlacesNext ==
  (TypeOK /\ Stages)' => (\A t \in Txns : Place(t))'
BY Places, PTL

(* Two sets that agree on one element and on the others are equal. *)
LEMMA SameSet ==
  ASSUME NEW A, NEW B, NEW x, A \ {x} = B \ {x}, x \in A <=> x \in B
  PROVE  A = B
<1>1. \A y : y # x => (y \in A <=> y \in A \ {x}) /\ (y \in B <=> y \in B \ {x}) OBVIOUS
<1>2. \A y : y \in A <=> y \in B BY <1>1
<1> QED BY <1>2

(* A transaction moves, the others stay where they are. *)
LEMMA OthersStay ==
  ASSUME TypeOK, Stages, TypeOK', NEW t \in Txns, Others(t), Stage(t)',
         \A u \in Txns \ {t} : u \in Queued' <=> u \in Queued
  PROVE  /\ Stages' /\ Place(t) /\ Place(t)'
         /\ Arriving' \ {t} = Arriving \ {t} /\ Active' \ {t} = Active \ {t}
<1>1. Stages'
  <2> SUFFICES ASSUME NEW u \in Txns PROVE Stage(u)' BY DEF Stages
  <2>1. CASE u = t BY <2>1
  <2>2. CASE u # t BY <2>2, SameStage DEF Others, Stages
  <2> QED BY <2>1, <2>2
<1>2. \A u \in Txns : Place(u) BY Places
<1>3. \A u \in Txns : Place(u)'
  BY <1>1, PlacesNext
<1>4. ASSUME NEW u \in Txns \ {t}
      PROVE  (u \in Arriving' <=> u \in Arriving) /\ (u \in Active' <=> u \in Active)
  <2>1. SameTxn(u) BY DEF Others
  <2>2. Arrives(u)' <=> Arrives(u) BY <2>1 DEF SameTxn, Arrives, Fw, Fw1, Fresh
  <2>3. refs'[u] = refs[u] BY <2>1 DEF SameTxn
  <2>4. Place(u) /\ Place(u)' BY <1>2, <1>3
  <2>5. u \in Arriving' <=> u \in Arriving BY <2>2, <2>4 DEF Place
  <2>6. u \in Active' <=> u \in Active BY <2>2, <2>3, <2>4 DEF Place
  <2> QED BY <2>5, <2>6
<1>5. Arriving \subseteq Txns /\ Active \subseteq Txns BY DEF Arriving, Active
<1>6. Arriving' \subseteq Txns /\ Active' \subseteq Txns BY DEF Arriving, Active
<1>7. Arriving' \ {t} = Arriving \ {t} BY <1>4, <1>5, <1>6
<1>8. Active' \ {t} = Active \ {t} BY <1>4, <1>5, <1>6
<1> QED BY <1>1, <1>2, <1>3, <1>7, <1>8

(* What a step does to the transactions that arrive, wait and have the bus: *)
(* nothing, or one of the steps of the arbiter.                             *)
Rests == Arriving' = Arriving /\ Queued' = Queued /\ Active' = Active /\ idle' = idle
ArrivesNow(t) ==
  /\ t \notin Arriving \cup Queued \cup Active
  /\ Arriving' = Arriving \cup {t} /\ Queued' = Queued /\ Active' = Active /\ idle' = idle
WaitsNow(t) ==
  /\ t \in Arriving
  /\ Arriving' = Arriving \ {t} /\ Queued' = Queued \cup {t} /\ Active' = Active /\ idle' = idle
GrantedNow(t) ==
  /\ idle /\ t \in Queued /\ \A u \in Queued : Master[t] <= Master[u]
  /\ Arriving' = Arriving /\ Queued' = Queued \ {t} /\ Active' = Active \cup {t} /\ ~ idle'
FreesNow(t) ==
  /\ t \in Active
  /\ Arriving' = Arriving /\ Queued' = Queued /\ Active' = Active \ {t} /\ idle'

(* What has the bus and stays, or frees it. *)
LEMMA ServesKinds ==
  ASSUME TypeOK, Stages, TypeOK', NEW t \in Txns, Serves(t)
  PROVE  Stages' /\ (Rests \/ FreesNow(t))
<1>1. Queued' = Queued BY DEF Serves, Queued
<1>2. /\ Stages' /\ Place(t) /\ Place(t)'
      /\ Arriving' \ {t} = Arriving \ {t} /\ Active' \ {t} = Active \ {t}
  BY <1>1, OthersStay DEF Serves
<1>3. t \in Active /\ t \notin Arriving BY <1>2 DEF Serves, Place
<1>4. CASE "bus" \in refs'[t] /\ Granted(t)' /\ UNCHANGED <<idle, kicks>>
  <2>1. t \in Active' /\ t \notin Arriving' BY <1>1, <1>2, <1>4 DEF Serves, Place
  <2>2. Arriving' = Arriving BY <1>2, <1>3, <2>1, SameSet
  <2>3. Active' = Active BY <1>2, <1>3, <2>1, SameSet
  <2> QED BY <1>1, <1>2, <1>4, <2>2, <2>3 DEF Rests
<1>5. CASE "bus" \notin refs'[t] /\ idle' = TRUE
  <2>1. t \notin Active' /\ t \notin Arriving' BY <1>2, <1>5 DEF Place
  <2>2. Arriving' = Arriving BY <1>2, <1>3, <2>1, SameSet
  <2>3. Active' = Active \ {t} BY <1>2, <1>3, <2>1
  <2> QED BY <1>1, <1>2, <1>3, <1>5, <2>2, <2>3 DEF FreesNow
<1> QED BY <1>4, <1>5 DEF Serves

(* Every step is one of these, and keeps the types, the stages and the      *)
(* scheduler's queue in order.                                              *)
LEMMA Steps ==
  ASSUME TypeOK, Stages, QueuedOnce, [Next]_vars
  PROVE  /\ TypeOK' /\ Stages' /\ QueuedOnce'
         /\ Rests \/ \E t \in Txns : ArrivesNow(t) \/ WaitsNow(t) \/ GrantedNow(t) \/ FreesNow(t)
<1>1. ASSUME NEW t \in Txns, NEW c \in Commands, BeginReq(t, c)
      PROVE  TypeOK' /\ Stages' /\ QueuedOnce' /\ (Rests \/ ArrivesNow(t))
  <2>1. /\ TypeOK' /\ Others(t) /\ Stage(t)'
        /\ "bus" \notin refs[t] /\ t \notin Queued /\ Queued' = Queued
        /\ "bus" \in refs'[t] => Arrives(t)'
    BY <1>1, BeginReqMoves DEF Stages
  <2>2. QueuedOnce' /\ idle' = idle BY <1>1 DEF BeginReq, QueuedOnce
  <2>3. /\ Stages' /\ Place(t) /\ Place(t)'
        /\ Arriving' \ {t} = Arriving \ {t} /\ Active' \ {t} = Active \ {t}
    BY <2>1, OthersStay
  <2>4. t \notin Arriving /\ t \notin Active BY <2>1, <2>3 DEF Place
  <2>5. t \notin Active' BY <2>1, <2>3 DEF Place
  <2>6. Active' = Active BY <2>3, <2>4, <2>5, SameSet
  <2>7. CASE t \in Arriving'
    <3>1. Arriving' = Arriving \cup {t} BY <2>3, <2>4, <2>7
    <3> QED BY <2>1, <2>2, <2>3, <2>4, <2>6, <3>1 DEF ArrivesNow
  <2>8. CASE t \notin Arriving'
    <3>1. Arriving' = Arriving BY <2>3, <2>4, <2>8, SameSet
    <3> QED BY <2>1, <2>2, <2>3, <2>6, <3>1 DEF Rests
  <2> QED BY <2>7, <2>8
<1>2. ASSUME NEW t \in Txns, BeginData(t) \/ EndResp(t)
      PROVE  TypeOK' /\ Stages' /\ QueuedOnce' /\ (Rests \/ FreesNow(t))
  <2>1. TypeOK' /\ Others(t) /\ Stage(t)' /\ "bus" \in refs[t] /\ Granted(t) /\ Granted(t)'
    BY <1>2, InitSendsMoves DEF Stages
  <2>2. QueuedOnce' /\ UNCHANGED <<queue, idle, kicks, refs>>
    BY <1>2 DEF BeginData, EndResp, InitSends, QueuedOnce
  <2>3. t \notin Queued
    <3>1. Arrives(t) \/ InQueue(t) => init[t] = "req" BY DEF Arrives, InQueue
    <3>2. init[t] # "req" BY <1>2 DEF BeginData, EndResp
    <3> QED BY <3>1, <3>2 DEF Stages, Stage
  <2>4. Serves(t) BY <2>1, <2>2, <2>3 DEF Serves
  <2> QED BY <2>1, <2>2, <2>4, ServesKinds
<1>3. ASSUME NEW t \in Txns, InitReleases(t)
      PROVE  TypeOK' /\ Stages' /\ QueuedOnce' /\ Rests
  <2>1. /\ TypeOK' /\ Others(t) /\ Stage(t)'
        /\ "bus" \in refs[t] <=> "bus" \in refs'[t]
        /\ "bus" \in refs[t] => Granted(t) /\ Granted(t)'
    BY <1>3, InitReleasesMoves DEF Stages
  <2>2. QueuedOnce' /\ idle' = idle /\ Queued' = Queued
    BY <1>3 DEF InitReleases, QueuedOnce, Queued
  <2>3. /\ Stages' /\ Place(t) /\ Place(t)'
        /\ Arriving' \ {t} = Arriving \ {t} /\ Active' \ {t} = Active \ {t}
    BY <2>1, <2>2, OthersStay
  <2>4. t \in Arriving' <=> t \in Arriving BY <2>1, <2>3 DEF Place
  <2>5. t \in Active' <=> t \in Active BY <2>1, <2>2, <2>3 DEF Place
  <2>6. Arriving' = Arriving BY <2>3, <2>4, SameSet
  <2>7. Active' = Active BY <2>3, <2>5, SameSet
  <2> QED BY <2>1, <2>2, <2>3, <2>6, <2>7 DEF Rests
<1>4. ASSUME NEW t \in Txns, RegisterSlaveAccess(t)
      PROVE  TypeOK' /\ Stages' /\ QueuedOnce' /\ (Rests \/ FreesNow(t))
  <2>1. TypeOK' /\ Others(t) /\ Stage(t)' /\ "bus" \in refs[t] /\ Granted(t) /\ Granted(t)'
    BY <1>4, TargetMovesOn DEF Stages
  <2>2. QueuedOnce' /\ UNCHANGED <<queue, idle, kicks, refs>>
    BY <1>4 DEF RegisterSlaveAccess, QueuedOnce
  <2>3. t \notin Queued
    <3>1. InQueue(t) => targ[t] = "none" BY DEF InQueue
    <3>2. targ[t] # "none" BY <1>4 DEF RegisterSlaveAccess, TargetMoves
    <3> QED BY <2>1, <3>1, <3>2 DEF Stages, Stage
  <2>4. Serves(t) BY <2>1, <2>2, <2>3 DEF Serves
  <2> QED BY <2>1, <2>2, <2>4, ServesKinds
<1>5. ASSUME NEW t \in Txns, FwRequest(t)
      PROVE  TypeOK' /\ Stages' /\ QueuedOnce' /\ WaitsNow(t)
  <2>1. /\ TypeOK' /\ Others(t) /\ Stage(t)' /\ Arrives(t) /\ "bus" \in refs[t]
        /\ t \notin Queued /\ Queued' = Queued \cup {t}
    BY <1>5, FwRequestMoves DEF Stages
  <2>2. idle' = idle BY <1>5 DEF FwRequest
  <2>3. /\ Stages' /\ Place(t) /\ Place(t)'
        /\ Arriving' \ {t} = Arriving \ {t} /\ Active' \ {t} = Active \ {t}
    BY <2>1, OthersStay
  <2>4. t \in Arriving /\ t \notin Active /\ t \notin Arriving' /\ t \notin Active'
    BY <2>1, <2>3 DEF Place
  <2>5. QueuedOnce'
    <3>1. queue' = Append(queue, t) BY <1>5 DEF FwRequest
    <3>2. /\ Len(queue') = Len(queue) + 1 /\ Len(queue) \in Nat
          /\ \A i \in 1..Len(queue) : queue'[i] = queue[i] /\ queue[i] # t
          /\ queue'[Len(queue) + 1] = t
      <4>1. queue \in Seq(Txns) BY DEF TypeOK
      <4>2. /\ Len(queue') = Len(queue) + 1 /\ Len(queue) \in Nat
            /\ \A i \in 1..Len(queue) : queue'[i] = queue[i]
            /\ queue'[Len(queue) + 1] = t
        BY <3>1, <4>1, AppendProperties, LenProperties
      <4>3. \A i \in 1..Len(queue) : queue[i] # t BY <2>1 DEF Queued
      <4> QED BY <4>2, <4>3
    <3> SUFFICES ASSUME NEW i \in 1..Len(queue'), NEW j \in 1..Len(queue'), queue'[i] = queue'[j]
                 PROVE  i = j
      BY DEF QueuedOnce
    <3>3. CASE i \in 1..Len(queue) /\ j \in 1..Len(queue) BY <3>2, <3>3 DEF QueuedOnce
    <3>4. CASE i = Len(queue) + 1 /\ j \in 1..Len(queue) BY <3>2, <3>4
    <3>5. CASE j = Len(queue) + 1 /\ i \in 1..Len(queue) BY <3>2, <3>5
    <3>6. i \in 1..Len(queue) \/ i = Len(queue) + 1 BY <3>2
    <3>7. j \in 1..Len(queue) \/ j = Len(queue) + 1 BY <3>2
    <3> QED BY <3>3, <3>4, <3>5, <3>6, <3>7
  <2>6. Arriving' = Arriving \ {t} BY <2>3, <2>4
  <2>7. Active' = Active BY <2>3, <2>4, SameSet
  <2> QED BY <2>1, <2>2, <2>3, <2>4, <2>5, <2>6, <2>7 DEF WaitsNow
<1>6. ASSUME NEW t \in Txns, FwForward(t) \/ BwForward(t)
      PROVE  TypeOK' /\ Stages' /\ QueuedOnce' /\ (Rests \/ FreesNow(t))
  <2>1. TypeOK' /\ Serves(t) BY <1>6, FwForwardMoves, BwForwardMoves DEF Stages
  <2>2. QueuedOnce' BY <2>1 DEF Serves, QueuedOnce
  <2> QED BY <2>1, <2>2, ServesKinds
<1>7. ASSUME NEW i \in 1..Len(queue), Grant(i)
      PROVE  TypeOK' /\ Stages' /\ QueuedOnce' /\ \E t \in Txns : GrantedNow(t)
  <2>1. PICK t \in Txns : t = queue[i] BY DEF TypeOK
  <2>2. /\ TypeOK' /\ QueuedOnce' /\ Others(t) /\ Stage(t)' /\ Granted(t)'
        /\ t \in Queued /\ Queued' = Queued \ {t} /\ "bus" \in refs[t]
        /\ idle = TRUE /\ idle' = FALSE /\ refs' = refs
    BY <1>7, <2>1, GrantMoves
  <2>3. /\ Stages' /\ Place(t) /\ Place(t)'
        /\ Arriving' \ {t} = Arriving \ {t} /\ Active' \ {t} = Active \ {t}
    BY <2>2, OthersStay
  <2>4. t \notin Arriving /\ t \notin Active /\ t \notin Arriving' /\ t \in Active'
    BY <2>2, <2>3 DEF Place
  <2>5. \A u \in Queued : Master[t] <= Master[u]
    <3>1. ASSUME NEW j \in 1..Len(queue) PROVE Master[t] <= Master[queue[j]]
      <4>1. Master[queue[i]] < Master[queue[j]] \/ Master[queue[i]] = Master[queue[j]]
        BY <1>7 DEF Grant, Dequeue
      <4>2. queue[j] \in Txns BY DEF TypeOK
      <4>3. Master[t] \in Nat /\ Master[queue[j]] \in Nat BY <4>2
      <4> QED BY <2>1, <4>1, <4>3
    <3> QED BY <3>1 DEF Queued
  <2>6. Arriving' = Arriving BY <2>3, <2>4, SameSet
  <2>7. Active' = Active \cup {t} BY <2>3, <2>4
  <2>8. GrantedNow(t) BY <2>2, <2>5, <2>6, <2>7 DEF GrantedNow
  <2> QED BY <2>2, <2>3, <2>8
<1>8. ASSUME NoGrant \/ Remap \/ UNCHANGED vars
      PROVE  TypeOK' /\ Stages' /\ QueuedOnce' /\ Rests
  <2>1. /\ UNCHANGED <<fwPeq, bwPeq, queue, idle, states, pay, refs, cmd, init, targ, setup>>
        /\ kicks' \in Nat /\ mapped' \in BOOLEAN
    <3>1. CASE NoGrant BY <3>1 DEF NoGrant, env, TypeOK
    <3>2. CASE Remap BY <3>2 DEF Remap, bus, TypeOK
    <3>3. CASE UNCHANGED vars BY <3>3 DEF vars, bus, env, TypeOK
    <3> QED BY <1>8, <3>1, <3>2, <3>3
  <2>2. TypeOK' BY <2>1 DEF TypeOK
  <2>3. QueuedOnce' /\ Queued' = Queued BY <2>1 DEF QueuedOnce, Queued
  <2>4. Stages'
    <3> SUFFICES ASSUME NEW u \in Txns PROVE Stage(u)' BY DEF Stages
    <3>1. SameTxn(u) BY <2>1 DEF SameTxn
    <3> QED BY <2>1, <2>3, <3>1, SameStage DEF Stages
  <2>5. Arriving' = Arriving BY <2>1 DEF Arriving
  <2>6. Active' = Active BY <2>1, <2>3, <2>5 DEF Active, Waiting
  <2> QED BY <2>1, <2>2, <2>3, <2>4, <2>5, <2>6 DEF Rests
<1>9. \/ \E t \in Txns : \/ \E c \in Commands : BeginReq(t, c)
                         \/ BeginData(t) \/ EndResp(t)
                         \/ InitReleases(t)
                         \/ RegisterSlaveAccess(t)
                         \/ FwRequest(t)
                         \/ FwForward(t) \/ BwForward(t)
      \/ \E i \in 1..Len(queue) : Grant(i)
      \/ NoGrant \/ Remap \/ UNCHANGED vars
  BY DEF Next, Router, Kernel, Agents
<1> QED BY <1>1, <1>2, <1>3, <1>4, <1>5, <1>6, <1>7, <1>8, <1>9

-----------------------------------------------------------------------------
(* The bus and its scheduler start empty. *)
LEMMA InitIInv == Init => IInv
<1> SUFFICES ASSUME Init PROVE IInv OBVIOUS
<1>1. Len(<<>>) = 0 /\ <<>> \in Seq(Msgs) /\ <<>> \in Seq(Txns) BY EmptySeq
<1>2. TypeOK
  <2>1. Fresh \in Pays BY DEF Fresh, Pays
  <2> QED BY <1>1, <2>1 DEF Init, TypeOK, Holders
<1>3. Queued = {} /\ QueuedOnce BY <1>1 DEF Init, Queued, QueuedOnce
<1>4. Stages
  <2> SUFFICES ASSUME NEW t \in Txns PROVE Stage(t) BY DEF Stages
  <2>1. Outside(t) BY DEF Init, Outside, Empty
  <2> QED BY <1>3, <2>1 DEF Init, Stage
<1>5. OneOwner
  <2>1. Active = {} BY DEF Init, Active
  <2> QED BY <2>1 DEF Init, OneOwner
<1>6. NoLostRequest BY DEF Init, NoLostRequest
<1> QED BY <1>2, <1>3, <1>4, <1>5, <1>6 DEF IInv

(* Only processMasterAccess consumes a notification, and it leaves none to  *)
(* be missed.                                                               *)
LEMMA NotificationKept ==
  ASSUME TypeOK, NoLostRequest, [Next]_vars
  PROVE  NoLostRequest'
<1> USE DEF NoLostRequest
<1>0. kicks \in Nat BY DEF TypeOK
<1>1. ASSUME NEW t \in Txns, NEW over \in BOOLEAN, Finish(t, over), queue' = queue
      PROVE  NoLostRequest'
  <2>1. CASE over
    <3>1. kicks' = kicks + 1 BY <1>1, <2>1 DEF Finish
    <3> QED BY <1>0, <3>1
  <2>2. CASE ~ over
    <3>1. UNCHANGED <<idle, kicks>> BY <1>1, <2>2 DEF Finish
    <3> QED BY <1>1, <3>1
  <2> QED BY <1>1, <2>1, <2>2
<1>2. ASSUME NEW t \in Txns, FwForward(t) PROVE NoLostRequest'
  <2>1. queue' = queue /\ \E over \in BOOLEAN : Finish(t, over)
    <3> DEFINE over(q) == Head(fwPeq[t]).ph = "END_RESP" /\ (Over(q) \/ HasError(q))
    <3>1. \E q : Finish(t, over(q)) BY <1>2 DEF FwForward
    <3>2. \A q : over(q) \in BOOLEAN OBVIOUS
    <3> HIDE DEF over
    <3>3. queue' = queue BY <1>2 DEF FwForward
    <3> QED BY <3>1, <3>2, <3>3
  <2> QED BY <1>1, <2>1
<1>3. ASSUME NEW t \in Txns, BwForward(t) PROVE NoLostRequest'
  <2>1. queue' = queue /\ \E over \in BOOLEAN : Finish(t, over)
    <3> DEFINE over(q) == Head(bwPeq[t]).ph = "END_DATA" /\ ((~HasWriteResp /\ Over(q)) \/ HasError(q))
    <3>1. \E q : Finish(t, over(q)) BY <1>3 DEF BwForward
    <3>2. \A q : over(q) \in BOOLEAN OBVIOUS
    <3> HIDE DEF over
    <3>3. queue' = queue BY <1>3 DEF BwForward
    <3> QED BY <3>1, <3>2, <3>3
  <2> QED BY <1>1, <2>1
<1>4. ASSUME NEW t \in Txns, FwRequest(t) PROVE NoLostRequest'
  BY <1>0, <1>4 DEF FwRequest
<1>5. ASSUME NEW t \in Txns, BeginData(t) \/ EndResp(t) PROVE NoLostRequest'
  BY <1>5 DEF BeginData, EndResp, InitSends
<1>6. ASSUME NEW t \in Txns, InitReleases(t) PROVE NoLostRequest'
  BY <1>6 DEF InitReleases
<1>7. ASSUME NEW t \in Txns, RegisterSlaveAccess(t) PROVE NoLostRequest'
  BY <1>7 DEF RegisterSlaveAccess
<1>8. ASSUME NEW t \in Txns, NEW c \in Commands, BeginReq(t, c) PROVE NoLostRequest'
  BY <1>8 DEF BeginReq
<1>9. ASSUME NEW i \in 1..Len(queue), Grant(i) PROVE NoLostRequest'
  BY <1>9 DEF Grant
<1>10. CASE NoGrant BY <1>10 DEF NoGrant, MayGrant
<1>11. CASE Remap BY <1>11 DEF Remap, bus
<1>12. CASE UNCHANGED vars BY <1>12 DEF vars, bus
<1> HIDE DEF NoLostRequest
<1> QED BY <1>2, <1>3, <1>4, <1>5, <1>6, <1>7, <1>8, <1>9, <1>10, <1>11, <1>12
        DEF Next, Router, Kernel, Agents

(* The bus has at most one owner after every kind of step. *)
LEMMA OwnerKept ==
  ASSUME OneOwner,
         Rests \/ \E t \in Txns : ArrivesNow(t) \/ WaitsNow(t) \/ GrantedNow(t) \/ FreesNow(t)
  PROVE  OneOwner'
<1>1. CASE Rests BY <1>1 DEF OneOwner, Rests
<1>2. ASSUME NEW t \in Txns, ArrivesNow(t) PROVE OneOwner' BY <1>2 DEF OneOwner, ArrivesNow
<1>3. ASSUME NEW t \in Txns, WaitsNow(t) PROVE OneOwner' BY <1>3 DEF OneOwner, WaitsNow
<1>4. ASSUME NEW t \in Txns, GrantedNow(t) PROVE OneOwner'
  <2>1. Active' = {t} BY <1>4 DEF OneOwner, GrantedNow
  <2> QED BY <1>4, <2>1 DEF OneOwner, GrantedNow
<1>5. ASSUME NEW t \in Txns, FreesNow(t) PROVE OneOwner'
  <2>1. Active' = {} BY <1>5 DEF OneOwner, FreesNow
  <2> QED BY <1>5, <2>1 DEF OneOwner, FreesNow
<1> QED BY <1>1, <1>2, <1>3, <1>4, <1>5

(* The invariant holds in every state of the bus. *)
THEOREM Invariance == Spec => []IInv
<1>1. IInv /\ [Next]_vars => IInv'
  <2> SUFFICES ASSUME IInv, [Next]_vars PROVE IInv' OBVIOUS
  <2>1. TypeOK /\ Stages /\ QueuedOnce /\ OneOwner /\ NoLostRequest BY DEF IInv
  <2>2. /\ TypeOK' /\ Stages' /\ QueuedOnce'
        /\ Rests \/ \E t \in Txns : ArrivesNow(t) \/ WaitsNow(t) \/ GrantedNow(t) \/ FreesNow(t)
    BY <2>1, Steps
  <2>3. OneOwner' BY <2>1, <2>2, OwnerKept
  <2>4. NoLostRequest' BY <2>1, NotificationKept
  <2> QED BY <2>2, <2>3, <2>4 DEF IInv
<1> QED BY InitIInv, <1>1, PTL DEF Spec

(* A request that waits while the bus is idle has a notification that will  *)
(* process it (processMasterAccess, registerMasterAccess).                  *)
THEOREM RequestsAreNotLost == Spec => []NoLostRequest
<1>1. IInv => NoLostRequest BY DEF IInv
<1> QED BY Invariance, <1>1, PTL

(* What the bus still has of a transaction belongs to a payload that it has *)
(* acquired and not yet released (fw_peq_cb, bw_peq_cb, gp_peq).            *)
THEOREM PayloadsAreHeld == Spec => []NoUseAfterRelease
<1>1. IInv => NoUseAfterRelease
  <2> SUFFICES ASSUME IInv, NEW t \in Txns,
                      fwPeq[t] # <<>> \/ bwPeq[t] # <<>> \/ t \in Waiting
               PROVE  "bus" \in refs[t]
    BY DEF NoUseAfterRelease
  <2>1. TypeOK /\ Stages /\ Stage(t) BY DEF IInv, Stages
  <2>2. Place(t) BY <2>1, Places
  <2>3. fwPeq[t] # <<>> => "bus" \in refs[t] BY <2>1, FwKinds
  <2>4. bwPeq[t] # <<>> => "bus" \in refs[t] BY <2>1, BwKinds
  <2>5. t \in Waiting => "bus" \in refs[t] BY <2>2 DEF Place, Waiting
  <2> QED BY <2>3, <2>4, <2>5
<1> QED BY Invariance, <1>1, PTL

(* The phase that reaches an initiator or a target next is one that the     *)
(* protocol allows in its state, whatever was merged, skipped or completed  *)
(* early (fw_peq_cb, bw_peq_cb, processMasterAccess).                       *)
THEOREM PhasesComeInOrder == Spec => []PhasesInOrder
<1>1. IInv => PhasesInOrder
  <2> SUFFICES ASSUME IInv PROVE PhasesInOrder OBVIOUS
  <2>1. TypeOK /\ Stages BY DEF IInv
  <2>2. ASSUME NEW t \in Txns, bwPeq[t] # <<>>
        PROVE  LET phase == Head(bwPeq[t]).ph IN
                 CASE init[t] = "req"   -> phase \in {"END_REQ", "BEGIN_RESP"}
                   [] init[t] = "acked" -> phase = "BEGIN_RESP"
                   [] init[t] = "data"  -> phase = "END_DATA"
                   [] OTHER -> FALSE
    <3>1. AckComes(t) \/ DataAckComes(t) \/ ResponseComes(t)
      BY <2>1, <2>2, BwKinds DEF Stages
    <3>2. Len(bwPeq[t]) \in {1, 2} => Head(bwPeq[t]) = bwPeq[t][1]
      BY <2>1, PeqTake DEF TypeOK
    <3>3. \/ init[t] = "req" /\ Head(bwPeq[t]).ph = "END_REQ"
          \/ init[t] = "data" /\ Head(bwPeq[t]).ph = "END_DATA"
          \/ init[t] \in {"req", "acked"} /\ Head(bwPeq[t]).ph = "BEGIN_RESP"
      BY <3>1, <3>2 DEF AckComes, DataAckComes, ResponseComes, Bw, Bw2
    <3> QED BY <3>3
  <2>3. ASSUME NEW t \in Txns, fwPeq[t] # <<>>, "target" \notin states[t]
        PROVE  LET phase == Head(fwPeq[t]).ph IN
                 CASE targ[t] = "none"  -> phase = "BEGIN_REQ"
                   [] targ[t] = "wait"  -> phase = "BEGIN_DATA"
                   [] targ[t] = "resp"  -> phase = "END_RESP"
                   [] OTHER -> FALSE
    <3>1. Arrives(t) \/ SendsData(t) \/ EndsResponse(t)
      BY <2>1, <2>3, FwKinds DEF Stages
    <3>2. Len(fwPeq[t]) = 1 => Head(fwPeq[t]) = fwPeq[t][1]
      BY <2>1, PeqTake DEF TypeOK
    <3>3. \/ targ[t] = "none" /\ Head(fwPeq[t]).ph = "BEGIN_REQ"
          \/ targ[t] = "wait" /\ Head(fwPeq[t]).ph = "BEGIN_DATA"
          \/ targ[t] = "resp" /\ Head(fwPeq[t]).ph = "END_RESP"
      BY <2>3, <3>1, <3>2 DEF Arrives, SendsData, EndsResponse, Fw, Answered
    <3> QED BY <3>3
  <2> QED BY <2>2, <2>3 DEF PhasesInOrder
<1> QED BY Invariance, <1>1, PTL

(* The bus and its scheduler implement the arbiter: requests arrive, wait,  *)
(* are granted the bus one at a time by priority and free it, and nothing   *)
(* else changes who has it (registerMasterAccess, fw_peq_cb, bw_peq_cb,     *)
(* processMasterAccess, fixedPriorityScheduler).                            *)
THEOREM BusIsAnArbiter == Spec => ImplementsArbiter
<1>1. Init => Arbiter!AInit
  <2> SUFFICES ASSUME Init PROVE Arbiter!AInit OBVIOUS
  <2>1. Len(<<>>) = 0 BY EmptySeq
  <2>2. Arriving = {} BY <2>1 DEF Init, Arriving
  <2>3. Queued = {} BY <2>1 DEF Init, Queued
  <2>4. Active = {} BY DEF Init, Active
  <2> QED BY <2>2, <2>3, <2>4 DEF Arbiter!AInit
<1>2. IInv /\ [Next]_vars => [Arbiter!ANext]_(Arbiter!avars)
  <2> SUFFICES ASSUME IInv, [Next]_vars PROVE [Arbiter!ANext]_(Arbiter!avars) OBVIOUS
  <2>1. TypeOK /\ Stages /\ QueuedOnce /\ OneOwner BY DEF IInv
  <2>2. Rests \/ \E t \in Txns : ArrivesNow(t) \/ WaitsNow(t) \/ GrantedNow(t) \/ FreesNow(t)
    BY <2>1, Steps
  <2>3. CASE Rests BY <2>3 DEF Rests, Arbiter!avars
  <2>4. ASSUME NEW t \in Txns, ArrivesNow(t) PROVE Arbiter!Arrive(t)
    BY <2>4 DEF ArrivesNow, Arbiter!Arrive
  <2>5. ASSUME NEW t \in Txns, WaitsNow(t) PROVE Arbiter!Wait(t)
    BY <2>5 DEF WaitsNow, Arbiter!Wait
  <2>6. ASSUME NEW t \in Txns, GrantedNow(t) PROVE Arbiter!AGrant(t)
    <3>1. Active = {} BY <2>1, <2>6 DEF OneOwner, GrantedNow
    <3>2. Active' = {t} BY <2>6, <3>1 DEF GrantedNow
    <3> QED BY <2>6, <3>1, <3>2 DEF GrantedNow, Arbiter!AGrant
  <2>7. ASSUME NEW t \in Txns, FreesNow(t) PROVE Arbiter!Free
    <3>1. Active' = {} /\ Active # {} BY <2>1, <2>7 DEF OneOwner, FreesNow
    <3> QED BY <2>7, <3>1 DEF FreesNow, Arbiter!Free
  <2> QED BY <2>2, <2>3, <2>4, <2>5, <2>6, <2>7 DEF Arbiter!ANext
<1> QED BY <1>1, <1>2, Invariance, PTL DEF Spec, ImplementsArbiter, Arbiter!ASpec

=============================================================================
