----------------------------- MODULE MCRouterMap -----------------------------
EXTENDS RouterMap, TLC
CONSTANTS i1, i2
MCInitHigh == [t \in Ports |-> 2 * t + 1]
Symmetry == Permutations(Initiators)
=============================================================================
