\* A half-sent request times out and is handed back.
CONSTANTS
  ConnNum = 1
  MaxId = 3
  SendCap = 4
  RspCap = 4
  WireIds = 8
  TT = 1
  MaxTries = 2
  MaxRounds = 2
  MaxFaults = 0
  Results = {"Success"}
SPECIFICATION Spec
INVARIANT
  FreedUnused
