CONSTANTS
  t1 = t1
  t2 = t2
  t3 = t3
  Txns = {t1, t2, t3}
  Master <- MCMaster
  Setups <- MCSetups
  KickBound = 1
SPECIFICATION LiveSpec
INVARIANTS
  NoLostRequest
  NoUseAfterRelease
  PhasesInOrder
PROPERTIES
  ImplementsArbiter
  BusFrees
  FirstServed
