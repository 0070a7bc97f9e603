SPECIFICATION ScopedSpec
CONSTANTS
  Saved = {i1}
  Issue = {i1, i2}
  Worker = {w1, w2}
  MaxTime = 4
  HourLen = 2
  FewChanges = 3
SYMMETRY Symmetry
INVARIANTS
  TypeOK
  IssuesReflected
  CatalogIsHistory
