SPECIFICATION Spec
CONSTANTS
  Repo = {r1}
  Owner = {o1}
  Slot = {s1}
  Null = Null
  Within = 3
  Width = 2
  MinSpan = 1
  MaxAttempts = 1
  MaxTime = 4
  MaxSweeps = 2
  MaxWindows = 5
INVARIANTS
  TypeOK
  RangeNeverLost
  EndedSweepsAreQuiet
  NothingMissed
