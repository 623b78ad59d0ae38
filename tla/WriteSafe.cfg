SPECIFICATION BothSpec
CONSTANTS
  c = c
  Chunks = {c}
  Names = {n1, n2}
  NoName = NoName
  Threads = {t1, t2}
  OnServer <- TwoThere
  Permits = 1
  MaxInodes = 2
  MaxHandles = 2
  MaxLen = 2
  MaxRefs = 2
  MaxMaps = 1
  Byte = {0, 1}
  Zero = 0
  Initials <- NewOrStatic
  MaxWriteBytes = 5
  SpillThreshold = 3
  MaxChunk = 2
  MaxCalls = 3
SYMMETRY Symmetric
INVARIANTS
  PermitsExact
  RemoteIsStored
  StoredIsAll
  UploadedOnce
  OwnContent
  DataExact
  
CHECK_DEADLOCK FALSE
