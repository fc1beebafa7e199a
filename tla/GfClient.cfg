CONSTANTS
  Responses <- MCResponses
  Byte <- MCByte
  BufSize = 4
  SendSizes = {1, 2}
SPECIFICATION FairGetSpec
INVARIANTS GivenIsStart KeptIsWhole
PROPERTY Returns
CHECK_DEADLOCK FALSE
