--------------------------- MODULE AsyncEventSpec ---------------------------
(***************************************************************************)
(* What gs_event_async promises.  A notification request is taken at once, *)
(* from any thread; the last delay requested counts; some time later the   *)
(* request is applied to the sc_event, where the earlier of the pending    *)
(* and the new notification wins; no notification is passed over when time *)
(* elapses.  A request that arrives while an earlier one is being applied  *)
(* may be applied together with it and then again, so applying a request   *)
(* may leave it in place.                                                  *)
(***************************************************************************)
EXTENDS Integers

CONSTANTS Events, MaxDelay

Never == MaxDelay + 1

VARIABLES
  requested,    \* the events with an unserved request
  delay,        \* the delay of the last request
  due           \* the time until the event triggers, or Never

vars == <<requested, delay, due>>

Init ==
  /\ requested = {}
  /\ delay = [e \in Events |-> 0]
  /\ due = [e \in Events |-> Never]

Request(e, d) ==
  /\ requested' = requested \cup {e}
  /\ delay' = [delay EXCEPT ![e] = d]
  /\ UNCHANGED due

Apply(e) ==
  /\ e \in requested
  /\ requested' \in {requested, requested \ {e}}
  /\ due' = [due EXCEPT ![e] = IF @ < delay[e] THEN @ ELSE delay[e]]
  /\ UNCHANGED delay

(* m time units pass, at most up to the next notification. *)
Elapse(m) ==
  /\ \A e \in Events : m <= due[e]
  /\ due' = [e \in Events |->
               IF due[e] \in {m, Never} THEN Never ELSE due[e] - m]
  /\ UNCHANGED <<requested, delay>>

Next ==
  \/ \E e \in Events, d \in 0 .. MaxDelay : Request(e, d)
  \/ \E e \in Events : Apply(e)
  \/ \E m \in 0 .. MaxDelay : Elapse(m)

Spec == Init /\ [][Next]_vars
=============================================================================
