SPECIFICATION Spec
CONSTANTS
  Repo = {r1}
  Owner = {o1}
  Slot = {s1, s2}
  Null = Null
  MaxJobs = 2
  LastPage = 2
  PageCap = 0
  MaxAttempts = 2
PROPERTIES
  ReclaimedWorkerNeverWrites
