SPECIFICATION Spec
CONSTANTS
  Repo = {r1}
  Owner = {o1, o2}
  Slot = {s1, s2}
  Null = Null
  MaxJobs = 3
  LastPage = 2
  PageCap = 0
  MaxAttempts = 2
SYMMETRY Symmetry
INVARIANTS
  TypeOK
  OneActiveJobPerRepo
  CursorBehindRows
  WatermarkEarned
  PassAfterWatermark
PROPERTIES
  ImplementsPassLedger
  LeasesAreHonoured
