\* One connection, three requests, two connection losses; the send queue has
\* room for two messages, so sends are refused and resends fail.  A header cuts
\* the last of the ids.
CONSTANTS
  ConnNum = 1
  MaxId = 4
  SendCap = 2
  RspCap = 2
  WireIds = 4
  TT = 1
  MaxTries = 2
  MaxRounds = 2
  MaxFaults = 2
  Results = {"Success", "VersionFailed"}
SPECIFICATION Spec
INVARIANTS
  TypeOK
  OnePlace
  NoneForgotten
  SentInOrder
  HandshakeAhead
  NotSentTwice
PROPERTIES
  ReceivedInOrder
  ServiceSpec
  SignalSpec
