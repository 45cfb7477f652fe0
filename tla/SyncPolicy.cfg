\* Two synchronised threads, one bridge.
CONSTANTS
  Threads = {t1, t2}
  Setups <- Synchronised
  K = K
  Bridges = {b1}
  Chk = Chk
  None = None
  Quantum = 1
  MaxTime = 2
  MaxLocks = 1
SPECIFICATION Spec
SYMMETRY Symmetry
INVARIANTS
  WindowsSound
  NoTokenLeft
  OwnAnswer
PROPERTIES
  NoRunAhead
  WithinQuantum
  UsesAsyncEvents
