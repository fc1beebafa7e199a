CONSTANTS
  Nodes = {n1, n2, n3}
  Items = {x, y}
  NULL = NULL
  NoItem = NoItem
  Threads = {t1, t2}
  Paths <- MCPaths
  Lines <- MCLines
  NoPath = NoPath
  Chop <- MCChop
  Disks <- MCDisks
  Capacity = 2
  Wanted = {0, 1, 3, 4, 5, 8}
  NoFd = NoFd
SPECIFICATION MCSpec
INVARIANTS TypeOK WellLinked RoomForLine KeyInWindow FindsListedFile WindowHalves
PROPERTY ImplementsDeque
CHECK_DEADLOCK FALSE
