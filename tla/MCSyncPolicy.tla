---------------------------- MODULE MCSyncPolicy ----------------------------
(* Instances of SyncPolicy for TLC. *)
EXTENDS SyncPolicy, TLC

(* Every thread is synchronised, and may use every bridge. *)
Synchronised ==
  {[syncing |-> Threads, decoupled |-> {}, bridges |-> Bridges]}

(* Synchronised threads without transactions; and decoupled threads that    *)
(* share the bridges, as in examples/async-wait, one of which also calls    *)
(* syncAt().                                                                *)
TimeOrTransactions ==
  {[syncing |-> Threads, decoupled |-> {}, bridges |-> {}],
   [syncing |-> {CHOOSE t \in Threads : TRUE}, decoupled |-> Threads,
    bridges |-> Bridges]}

Symmetry == Permutations(Threads)
=============================================================================
