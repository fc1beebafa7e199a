CONSTANTS
  Workers = {w1, w2}
  Daemons = {d1}
  NSegments = 1
  Paths = {"long", "short"}
  Cached = {"long", "short"}
  Byte <- MCBytes
  File <- MCFile
  SegSize = 2
  MaxMsg = 10
  SizeMod = 16
  SendErrors = {0}
  ReadErrors = {}
  NoHeader = NoHeader
SPECIFICATION Spec
INVARIANT ClientGetsItsFile
