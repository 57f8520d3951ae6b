\* Responses of two and three bytes, all of which fit into the buffer, from a
\* server that stays connected.
CONSTANTS
  BufCap = 6
  LenBytes = 1
  MaxLen = 8
  Half = 10
  ReadMax = 3
  Lens = {2, 3}
  MaxMsgs = 3
  MaxCloses = 1
SPECIFICATION Spec
INVARIANT
  ClosedOnlyByServer
CHECK_DEADLOCK FALSE
