SPECIFICATION Spec
CONSTANTS
  m1 = m1
  m2 = m2
  t1 = t1
  t2 = t2
  t3 = t3
  b1 = b1
  b2 = b2
  b3 = b3
  Mounts = {m1}
  Threads = {t1, t2}
  MountOf <- OneMount
  Blobs = {b1, b2, b3}
  NoBlob = NoBlob
  Inodes = {1, 2, 3}
  Listing <- OneEach
  Announced = {}
  Size <- MixedSize
  MaxCacheBytes = 2
  MaxReads = 2
  Unlinkable = {b1}
  Ticks = {0, 1}
  MaySunset = FALSE
  MayRewrite = FALSE
  MayCrash = FALSE
INVARIANTS
  CacheBounded
PROPERTIES
  EvictsOldestFirst
SYMMETRY Peers
CHECK_DEADLOCK FALSE
