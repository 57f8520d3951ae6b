\* Two connections on one network thread, one of which may be lost once.  The
\* queues have room for every message, so nothing is refused or dropped, and
\* threads and peer are fair.
CONSTANTS
  ConnNum = 2
  MaxId = 3
  SendCap = 3
  RspCap = 2
  WireIds = 8
  TT = 0
  MaxTries = 1
  MaxRounds = 2
  MaxFaults = 1
  Results = {"Success"}
SPECIFICATION FairSpec
INVARIANT
  HalfSentUnanswered
PROPERTY
  Answered
