SPECIFICATION Spec
CONSTANTS
  c = c
  Chunks = {c}
  Names = {n1}
  NoName = NoName
  Threads = {t1, t2}
  OnServer <- Nothing
  Permits = 1
  MaxInodes = 2
  MaxHandles = 2
  MaxLen = 2
  MaxRefs = 2
  MaxMaps = 1
SYMMETRY Symmetric
INVARIANTS
  ContentUploaded
CHECK_DEADLOCK FALSE
