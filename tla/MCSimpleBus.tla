---------------------------- MODULE MCSimpleBus ----------------------------
(* Instances of SimpleBus for TLC: t1 and t2 arrive at the port with the   *)
(* highest priority, t3 at another one.                                    *)
EXTENDS SimpleBus

CONSTANTS t1, t2, t3

MCMaster == [t \in Txns |-> IF t = t3 THEN 1 ELSE 0]

Contended ==     \* three requests in the base protocol, where reads and writes have the same phases
  [txns |-> {t1, t2, t3}, commands |-> {"READ"}, data |-> FALSE, write_resp |-> TRUE,
   bytes_valid |-> FALSE, chunks |-> 1, early |-> FALSE, remap |-> FALSE]
WithData ==     \* data in two chunks, no write responses
  [txns |-> {t1, t3}, commands |-> {"READ", "WRITE"}, data |-> TRUE, write_resp |-> FALSE,
   bytes_valid |-> TRUE, chunks |-> 2, early |-> TRUE, remap |-> FALSE]
Remapped ==     \* write responses, and base addresses that change
  [txns |-> {t1, t3}, commands |-> {"READ", "WRITE"}, data |-> TRUE, write_resp |-> TRUE,
   bytes_valid |-> TRUE, chunks |-> 2, early |-> TRUE, remap |-> TRUE]
MCSetups == {Contended, WithData, Remapped}

============================================================================
