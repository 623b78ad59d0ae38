SPECIFICATION BothSpec
CONSTANTS
  m1 = m1
  m2 = m2
  u1 = u1
  u2 = u2
  Uploads = {u1, u2}
  Mounts = {m1, m2}
  MountOf <- Apart
  Multipart = {u1, u2}
  Total = 2
  MaxAttempts = 2
  MaxSessions = 2
  MaxCalls = 1
  MayExpire = TRUE
  Killable = {m1}
  Leased = {"c1", "c2"}
  Small = {"c1"}
  FreePeriod = 2
  Today = 3
  Horizon = 5
INVARIANTS
  SessionsExact
  PaidAgainOnlyUnheard
  ShownIsGranted
PROPERTIES
  ServiceSafety
  ServiceSpec
CHECK_DEADLOCK FALSE
