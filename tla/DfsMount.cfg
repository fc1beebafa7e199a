CONSTANTS
  Names = {"f.txt", "g.txt", ".h"}
  Watched = {"f.txt", "g.txt"}
  NoFile = NoFile
  Torn = Torn
  NoEvent = NoEvent
  MaxVersion = 2
  QueueLimit = 3
  BatchLimit = 2
SPECIFICATION FairSpec
INVARIANT NoChangeForgotten
PROPERTY ChangeArrives
