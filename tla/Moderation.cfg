SPECIFICATION Spec
CONSTANTS
  Member = {m1, m2}
  Author = m1
  Theme = {t1}
  Listing = {i1}
  PerDay = 1
  HideAfter = 1
  MaxPerUser = 1
  MaxReports = 1
  Nothing = Nothing
INVARIANTS
  PrivateThemesStayHome
