SPECIFICATION GaugedSpec
CONSTANTS
  m1 = m1
  m2 = m2
  t1 = t1
  t2 = t2
  t3 = t3
  b1 = b1
  b2 = b2
  b3 = b3
  Mounts = {m1}
  Threads = {t1, t2}
  MountOf <- OneMount
  Blobs = {b1, b2}
  NoBlob = NoBlob
  Inodes = {1}
  Listing <- OneEach
  Announced = {1}
  Size <- UnitSize
  MaxCacheBytes = 1
  MaxReads = 1
  Unlinkable = {b1, b2}
  Ticks = {1}
  MaySunset = TRUE
  MayRewrite = TRUE
  MayCrash = TRUE
INVARIANTS
  OnlyVerified
  GaugeCovers
PROPERTIES
  ReadsReturn
CHECK_DEADLOCK FALSE
