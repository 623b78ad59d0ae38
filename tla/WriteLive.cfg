SPECIFICATION FairSpec
CONSTANTS
  c = c
  Chunks = {c}
  Names = {n1}
  NoName = NoName
  Threads = {t1, t2}
  OnServer <- Nothing
  Permits = 1
  MaxInodes = 1
  MaxHandles = 2
  MaxLen = 1
  MaxRefs = 2
  MaxMaps = 1
PROPERTIES
  CallsReturn
  UploadDecided
CHECK_DEADLOCK FALSE
