SPECIFICATION Spec
CONSTANTS
  m1 = m1
  m2 = m2
  t1 = t1
  t2 = t2
  t3 = t3
  b1 = b1
  b2 = b2
  b3 = b3
  Mounts = {m1, m2}
  Threads = {t1, t2, t3}
  MountOf <- TwoMounts
  Blobs = {b1}
  NoBlob = NoBlob
  Inodes = {1}
  Listing <- OneEach
  Announced = {}
  Size <- UnitSize
  MaxCacheBytes = 0
  MaxReads = 2
  Unlinkable = {}
  Ticks = {0}
  MaySunset = FALSE
  MayRewrite = TRUE
  MayCrash = TRUE
INVARIANTS
  SingleFlight
  WaiterHasFetcher
PROPERTIES
  ServiceSafety
SYMMETRY Peers
CHECK_DEADLOCK FALSE
