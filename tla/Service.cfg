SPECIFICATION PartsSpec
CONSTANTS
  Entry = {e1, e2}
  Ingester = {p1, p2}
  MaxWrites = 3
  PullRequest = {1, 2, 3}
  Issue = {1, 2}
  Links <- TheLinks
  RepoOf <- Repos
  CreatedOn <- Created
  LastDay = 2
  Joined = 2
  Worth <- Worths
  FirstMerge = 3
  Backfill = 50
  DailyCap = 14
  Opened = 2
  WeeklyCap = 1
  WeekLen = 7
  QuestNeed <- Needs
  Text = {1, 2, 3}
  SizeOf <- Sizes
  MaxBytes = 2
  Request = {r1, r2}
  MissLimit = 2
  MaxCount = 4
  Person = {h1, h2}
  Task = {i1, i2}
  Try = {t1, t2}
  MaxActive = 1
  Nobody = Nobody
  Lesson = {l1, l2, l3}
  Position = {1, 2}
  PathId = {1, 2}
  Visit = {v1}
  Dropped = Dropped
  Project = {1, 2, 3}
  Key = {0, 1}
  MaxLimit = 2
  Pool = 2
  Draws <- TheDraws
  Listed = {1, 2, 3}
  Score = {1, 2}
  Time = {1, 2}
  MaxPage = 2
  Preferred = {2}
  Creations <- TheCreations
INVARIANTS
  PartsTypeOK
  TotalsAddUp
  LedgerIsFair
  FreshClaimsCapped
  PaidPathsAreEarned
  ShownOnce
PROPERTIES
  BodiesBounded
CHECK_DEADLOCK FALSE
