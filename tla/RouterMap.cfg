CONSTANTS
  i1 = i1
  i2 = i2
  Targets = 2
  Initiators = {i1, i2}
  DmiTargets = {1}
  AddrMax = 3
  InitHigh <- MCInitHigh
  WriteBases = {0, 2}
  WriteHighs = {1, 3}
  MaxEntries = 2
  MaxHeld = 2
SPECIFICATION Spec
INVARIANTS Revocable RoutesToOwner
CHECK_DEADLOCK FALSE
SYMMETRY Symmetry
