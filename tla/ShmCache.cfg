CONSTANTS
  Workers = {w1, w2}
  Daemons = {d1, d2}
  NSegments = 2
  Paths = {"long", "none"}
  Cached = {"long"}
  Byte <- MCBytes
  File <- MCFile
  SegSize = 2
  MaxMsg = 1
  SizeMod = 16
  SendErrors = {}
  ReadErrors = {}
  NoHeader = NoHeader
SPECIFICATION FairSpec
INVARIANTS LeaseIsExclusive NoSegmentRace
PROPERTIES ImplementsFileService EveryRequestAnswered
