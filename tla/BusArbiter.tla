----------------------------- MODULE BusArbiter -----------------------------
(***************************************************************************)
(* What SimpleBusProtocol and its scheduler promise together: requests     *)
(* arrive, wait, are granted the bus one at a time in the order of their   *)
(* priorities, and free it again.                                          *)
(***************************************************************************)
EXTENDS Naturals

CONSTANTS Txns, Master

VARIABLES arriving, waiting, owner

avars == <<arriving, waiting, owner>>

AInit == arriving = {} /\ waiting = {} /\ owner = {}

Arrive(t) ==
  /\ t \notin arriving \cup waiting \cup owner
  /\ arriving' = arriving \cup {t}
  /\ UNCHANGED <<waiting, owner>>

Wait(t) ==
  /\ t \in arriving
  /\ arriving' = arriving \ {t}
  /\ waiting' = waiting \cup {t}
  /\ UNCHANGED owner

AGrant(t) ==
  /\ owner = {} /\ t \in waiting
  /\ \A u \in waiting : Master[t] <= Master[u]
  /\ owner' = {t}
  /\ waiting' = waiting \ {t}
  /\ UNCHANGED arriving

Free ==
  /\ owner # {}
  /\ owner' = {}
  /\ UNCHANGED <<arriving, waiting>>

ANext == Free \/ \E t \in Txns : Arrive(t) \/ Wait(t) \/ AGrant(t)

ASpec == AInit /\ [][ANext]_avars

=============================================================================
