CONSTANTS
  Workers = {w1, w2}
  Daemons = {d1}
  NSegments = 1
  Paths = {"long", "none"}
  Cached = {"long"}
  Byte <- MCBytes
  File <- MCFile
  SegSize = 2
  MaxMsg = 1
  SizeMod = 16
  SendErrors <- AllSendErrors
  ReadErrors <- AllReadErrors
  NoHeader = NoHeader
SPECIFICATION Spec
INVARIANTS TypeOK SegmentOwnership NoLostWakeup
CHECK_DEADLOCK FALSE
