SPECIFICATION Spec
CONSTANTS
  Saved = {}
  Issue = {i1, i2}
  Worker = {w1}
  MaxTime = 3
  HourLen = 1
PROPERTIES
  RequalifiedComesBack
