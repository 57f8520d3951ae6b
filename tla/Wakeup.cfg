\* Two business threads, two connections, one request for each, one loss.
CONSTANTS
  Senders = {s1, s2}
  Conns = {c1, c2}
  NoConn = none
  Pipe = pipe
  MaxPut = 1
  PipeCap = 4
  MaxDrops = 1
SPECIFICATION FairSpec
INVARIANTS
  TypeOK
  OneByte
  FlagTellsTruth
  NoLostWakeup
PROPERTIES
  SignalSpec
  Delivered
