SPECIFICATION Spec
CONSTANTS
  Saved = {}
  Issue = {i1}
  Worker = {w1}
  MaxTime = 3
  HourLen = 1
INVARIANTS
  HoursInAnyOrder
