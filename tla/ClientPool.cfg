CONSTANTS
  Workers = {w1, w2, w3}
  Boss = boss
  NRequests = 3
  NPaths = 2
  LongPaths = {1}
SPECIFICATION FairSpec
INVARIANTS TypeOK RequestsInOnePlace BossLeavesLast NoNeedlessSleep
PROPERTIES OwnFile Termination
