SPECIFICATION MCSpec
CONSTANTS
  m1 = m1
  m2 = m2
  m3 = m3
  u1 = u1
  u2 = u2
  Paths = {"in", "out"}
  Files <- MCFiles
  MaxCalls = 2
  Writers = {"w1", "w2"}
  Assets = {a1, a2}
  Indexed = {a1}
  Tenants = {u1, u2}
  Bytes <- MCBytes
  Manifests = {m1, m2, m3}
  TenantOf <- MCTenantOf
  Threads = {t1, t2}
  Walkers = {t1}
  Programs <- MCPrograms
  Regions = {r1, r2}
  LastKey = 2
  PageSize = 1
  BatchMax = 1
  MaxFaults = 1
  SizeOf <- MCSizeOf
  Partitions = {"p1", "p2", "p3"}
  LastVersion = 3
  MaxFailures = 2
CHECK_DEADLOCK FALSE
INVARIANTS
  EmbedIsFaithful
  CasIsContent
  IndexStays
  RunsAreWhole
  PreflightIsRight
  WalkAccounts
  UrlsStayOurs
