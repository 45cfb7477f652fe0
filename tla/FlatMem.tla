------------------------------- MODULE FlatMem -------------------------------
(* What a user expects of a memory array: a cell keeps the last value written.
   Cells never written hold Junk, whatever the allocator left there. *)
CONSTANTS Addr, Value, Junk
VARIABLE mem

Init == mem = [a \in Addr |-> Junk]
Write(a, v) == mem' = [mem EXCEPT ![a] = v]
Next == \E a \in Addr, v \in Value : Write(a, v)
Spec == Init /\ [][Next]_mem
=============================================================================
