SPECIFICATION Spec
CONSTANTS
  Repo = {r1}
  Owner = {o1}
  Slot = {s1}
  Null = Null
  MaxJobs = 2
  LastPage = 2
  PageCap = 0
  MaxAttempts = 2
INVARIANTS
  NoRepositoryStranded
