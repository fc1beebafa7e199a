CONSTANTS
  Clients = {c1, c2, c3}
  Requests <- MCRequests
  CutTo <- MCCutTo
  Leavers = {c1}
  Contents <- MCContents
  NoFile = NoFile
  MaxFds = 2
  NoClient = NoClient
SPECIFICATION FairSpec
INVARIANTS AnswerIsWhole
PROPERTY EveryClientServed
CHECK_DEADLOCK FALSE
