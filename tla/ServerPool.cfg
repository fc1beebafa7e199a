CONSTANTS
  Workers = {w1, w2}
  Requests = {r1, r2, r3}
  Leavers = {r1, r2}
  Paths = {"long", "none"}
  Cached = {"long"}
  Byte <- MCBytes
  File <- MCFile
  BufSize = 2
  SizeMod = 16
  NoRequest = NoRequest
  NoHeader = NoHeader
  NoFile = NoFile
SPECIFICATION FairSpec
INVARIANTS TypeOK EachRequestOnce
PROPERTIES EveryRequestEnds ImplementsFileService
CHECK_DEADLOCK FALSE
