CONSTANTS
  Clients = {"ann", "bob"}
  Calls = {"a", "b"}
  Owner <- MCOwner
  Ops = {"store", "fetch", "delete", "stat", "list"}
  Names <- MCNames
  Dot = "."
  Byte <- MCByte
  Hole <- MCHole
  Place <- MCPlace
  Local <- MCLocal
  Remote <- MCRemote
  NoFile = NoFile
  Unwritable = {"g"}
  Locked <- MCLocked
  Editors = {"bob"}
  Chunk = 2
  Window = 1
SPECIFICATION FairSpec
INVARIANTS TypeOK ByteInPlace DeletedOnce
PROPERTIES OkStoreIsThere OkFetchIsWhole ListsWhatStays HandlersEnd
CHECK_DEADLOCK FALSE
