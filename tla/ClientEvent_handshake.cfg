\* One connection lost once: a message other than the handshake goes first.
CONSTANTS
  ConnNum = 1
  MaxId = 3
  SendCap = 4
  RspCap = 4
  WireIds = 8
  TT = 1
  MaxTries = 2
  MaxRounds = 2
  MaxFaults = 1
  Results = {"Success"}
SPECIFICATION Spec
INVARIANT
  HandshakeFirst
