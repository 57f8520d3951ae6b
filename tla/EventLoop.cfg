SPECIFICATION Spec
CONSTANTS
  Conns = {c1, c2}
  Signal = signal
  None = none
  MaxFd = 5
  EventNum = 2
  MaxTries = 2
  MaxRounds = 2
INVARIANTS
  TypeOK
  MaskIsRegistration
  InterestAccepted
  Listening
  NoLeak
  OwnDescriptors
PROPERTIES
  ComesBack
\* The thread ends when it cannot start.
CHECK_DEADLOCK FALSE
