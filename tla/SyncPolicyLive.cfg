\* Liveness: two synchronised threads, or two decoupled ones that share a
\* bridge; the quantum is left at its default of zero.
CONSTANTS
  Threads = {t1, t2}
  K = K
  Bridges = {b1}
  Setups <- TimeOrTransactions
  Chk = Chk
  None = None
  Quantum = 0
  MaxTime = 1
  MaxLocks = 0
SPECIFICATION FairSpec
PROPERTIES
  TxnReturns
  CatchesUp
