CONSTANTS
  Responses <- MCOwn
  Byte <- MCByte
  BufSize = 4
  SendSizes = {1, 2}
SPECIFICATION GetSpec
INVARIANTS KeptIsServersFile
CHECK_DEADLOCK FALSE
