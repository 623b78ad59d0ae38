SPECIFICATION Spec
CONSTANTS
  b1 = b1
  b2 = b2
  n1 = n1
  n2 = n2
  Blobs = {b1, b2}
  San <- Cleaned
  Published = {"public"}
  ShaOf <- Itself
  TypeOf <- OneType
  DayOf <- OneDay
  NameOf <- Itself
  Repo <- SmallRepo
  Servers <- Listings
  PageSize = 1
  MaxPages = 3
  Limits = {0, 1}
  UserNames = {n1, n2}
  Chunk = 1
  MaxOps = 3
  MaxMounts = 2
  MaxDepth = 2
INVARIANTS
  PublicWhole
  TypeOK
  RepoShown
  ListingWhole
PROPERTIES
  ServiceSafety
SYMMETRY Alike
CHECK_DEADLOCK FALSE
