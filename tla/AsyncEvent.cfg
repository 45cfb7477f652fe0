\* gs_event_async: two remote threads and the kernel notify two events.
CONSTANTS
  Threads = {t1, t2}
  Events = {e1, e2}
  K = K
  Helper = Helper
  Free = Free
  MaxDelay = 1
  MaxOutstanding = 2
SPECIFICATION FairSpec
INVARIANTS
  TokensBalance
  NoLostWakeup
  KernelNeverStarves
PROPERTIES
  ImplementsAbstract
  RequestApplied
