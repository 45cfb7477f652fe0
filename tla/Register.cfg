CONSTANTS
  m1 = m1
  m2 = m2
  b0 = b0
  b1 = b1
  Masters = {m1, m2}
  Bits = {b0, b1}
  Nobody = Nobody
  MaxRequests = 2
  MaxSets = 1
  Setups <- MCSetups
SPECIFICATION Spec
INVARIANTS HandlersFirst
PROPERTIES OnlyWritableBits
CHECK_DEADLOCK FALSE
