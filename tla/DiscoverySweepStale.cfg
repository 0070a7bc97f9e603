SPECIFICATION Spec
CONSTANTS
  Repo = {r1}
  Owner = {o1}
  Slot = {s1, s2}
  Null = Null
  Within = 2
  Width = 2
  MinSpan = 1
  MaxAttempts = 1
  MaxTime = 2
  MaxSweeps = 1
  MaxWindows = 5
SYMMETRY Symmetry
INVARIANTS
  RangeNeverDoubled
  StaleCopiesLoseNothing
