SPECIFICATION Spec
CONSTANTS
  t1 = t1  t2 = t2
  r1 = r1  r2 = r2  r3 = r3
  Tabs = {t1, t2}
  Requests = {r1, r2, r3}
  TabOf <- MCTabOf
  AccessTTL = 1
  RefreshTTL = 2
  MaxSessions = 3
  MaxSends = 3
  MaxTime = 2
  None = None
INVARIANTS FirstUseWorks
PROPERTIES EndedMeansOut ImplementsLogins
SYMMETRY MCSymmetry
CHECK_DEADLOCK FALSE
