CONSTANTS
  c1 = c1
  c2 = c2
  c3 = c3
  Clients = {c1, c2, c3}
  Leavers = {c1, c2, c3}
  Byte <- MCByte
  File <- MCFile
  Old <- MCOld
  BufSize = 2
  Window = 2
  MaxFiles = 2
  NoClient = NoClient
SPECIFICATION Spec
INVARIANTS FileArrives
CHECK_DEADLOCK FALSE
