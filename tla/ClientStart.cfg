\* Up to three connections; two may be lost while the handshakes are under
\* way.  conn-num may be missing, too small, fit or be too large.
CONSTANTS
  GORM_MAX_CONN_NUM = 3
  ConnNums = {0, 2, 5}
  MaxPolls = 4
  MaxLosses = 2
SPECIFICATION FairSpec
INVARIANTS
  TypeOK
  OkMeansRunning
  FailureTold
PROPERTY
  InitReturns
CHECK_DEADLOCK FALSE
