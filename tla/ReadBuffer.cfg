\* A buffer of 6 bytes, responses of 2, 5, 7 (larger than the buffer) and 9
\* bytes (larger than allowed), cut by recv in every way, and of 12 bytes, whose
\* length becomes negative.
CONSTANTS
  BufCap = 6
  LenBytes = 1
  MaxLen = 8
  Half = 10
  ReadMax = 3
  Lens = {2, 5, 7, 9, 12}
  MaxMsgs = 3
  MaxCloses = 1
SPECIFICATION FairSpec
INVARIANTS
  TypeOK
  RoomForRest
  NothingLeftBehind
PROPERTIES
  StreamSpec
  EveryResponse
CHECK_DEADLOCK FALSE
