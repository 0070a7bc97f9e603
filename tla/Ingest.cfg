SPECIFICATION PartsSpec
CONSTANTS
  LastHour = 2
  Reader = {x1, x2}
  MaxBackfill = 2
  MissingAfter = 1
  MaxLag = 1
  ReadAttempts = 2
  Candidate = {n1}
  MaxTime = 7
  HourLen = 2
  Recheck = 1
  Pull = {p1, p2, p3}
  PullsMax = 4
  PageSize = 1
  Coordinator = {c1}
  Project = {g1, g2}
  Name = {m1, m2, m3}
  RowId = {1, 2}
  Excluded = {m3}
  MaxMoves = 3
  Repo = {x1, x2}
  Owner = {x1, x2}
  Slot = {s1}
  MaxJobs = 3
  LastPage = 4
  PageCap = 3
  MaxAttempts = 1
  Crawl = {x1, x2}
  Interactive = {u1}
  Limit = 7
  Floor = 1
  Reserve = 4
  WindowLen = 2
  Pauses = {1}
  MaxClock = 2
  MaxBlind = 1
  Null = Null
SYMMETRY Symmetry
INVARIANTS
  PartsTypeOK
  ActiveCandidateComesDue
  ChangesAreReadLater
  TwinStaysRetired
  ReserveKept
PROPERTIES
  CoverageIsHonest
CHECK_DEADLOCK FALSE
