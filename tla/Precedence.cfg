SPECIFICATION NamedSpec
CONSTANTS
  San <- Sanitized
  Published = {"public"}
  ShaOf <- Hashes
  TypeOf <- TypesOf
  DayOf <- DaysOf
  NameOf <- NamesOf
  Repo <- NoRepo
  KeyForm <- Forms
  HexOf <- Hexes
  Scheme <- Schemes
  Desc <- Descriptors
  MaxBlobSize = 2
  GuessExt <- Ext
  HostDir <- Hosts
  WebUrls <- Web
  Shas = {"s1", "s2", "s3"}
  PrimalUrls = {"u3"}
  OrangeUrls = {"u2"}
  TollgateNames = {"tollgate-os"}
  Daemons = {"d1", "d2"}
  Plans <- CommandLines
  PersistLimit = 3
  Manifests <- ManifestFiles
  ServerEvents <- FoundServers
  Listings <- BlobLists
  DriveEvents <- DriveLists
  MetaEvents <- MetaLists
  RepoEvents <- RepoLists
  IssueEvents <- IssueLists
  SavedEvents <- SavedLists
  Now <- At
  MaxLaunches = 2
  Chars = {"a", "A", "w", ".", "_", "/", "nl"}
  Controls = {"nl"}
  HostUnsafe = {"/", "nl", "?"}
  Wide = {"w"}
  LowerOf <- Digits
  MaxBytes = 4
  HashLength = 3
INVARIANTS
  FlagsOverride
CHECK_DEADLOCK FALSE
