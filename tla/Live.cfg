SPECIFICATION PartsFairSpec
CONSTANTS
  Caller = {c1, c2, c3, c4}
  MaxLimit = 3
  QueueCap = 2
  Repo = {r1, r2}
  Owner = {o1, o2}
  Slot = {s1}
  Null = Null
  MaxJobs = 2
  LastPage = 4
  PageCap = 3
  MaxAttempts = 1
  Call = {k1, k2, k3}
  RetryAfter = 2
  Emitter = {e1, e2}
  MaxEvents = 3
  BufferSize = 2
  MaxCopies = 1
  Rate = 1
  Viewer = {v1, v2}
  MaxViewers = 1
  MaxChanges = 2
  ClaimedIssue = {i1, i2}
  Handler = {h1, h2}
  MaxClaims = 3
  Member = {m1, m2}
  Author = m1
  Theme = {t1}
  Listing = {}
  PerDay = 1
  HideAfter = 2
  MaxPerUser = 1
  MaxReports = 2
  Nothing = Nothing
INVARIANTS
  TypeOK
  SlotsAccounted
  NoLostWakeup
  PartsTypeOK
PROPERTIES
  NoOvercommit
  LongestWaitingFirst
  NobodyWaitsForever
  PoolServes
  LeasesSelfHeal
  NobodyWaitsForRedis
  MemoryCatchesUp
CHECK_DEADLOCK FALSE
