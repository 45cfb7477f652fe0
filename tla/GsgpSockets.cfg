CONSTANTS
  Txns = {t1, t2}
  Burst = 2
  Rounds = 2
SPECIFICATION SocketsSpec
INVARIANTS SocketAsserts UsersSeeProtocol OutcomesAgree
PROPERTIES EveryTxnEnds
CHECK_DEADLOCK FALSE
