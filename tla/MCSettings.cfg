SPECIFICATION PageSpec
CONSTANTS
  ann = ann  bob = bob
  a1 = a1  a2 = a2  b1 = b1
  Users = {ann, bob}
  Clients = {a1, a2, b1}
  UserOf <- MCUserOf
  Seeded <- MCSeeded
  MaxRows = 5
  MaxOps = 3
  None = None
  t1 = t1  t2 = t2
  Tabs = {t1, t2}
  Owned <- MCOwned
  Others <- MCOthers
  Env <- MCEnv
  CacheMax = 2
  TTL = 1
  MaxSaves = 3
  MaxTime = 2
INVARIANTS
  SwitchShowsStored
  SavedIsInForce StaleWithinTTL KeepsTheRecent
PROPERTIES DefaultKept NoEditUndone
SYMMETRY MCSymmetry
CHECK_DEADLOCK FALSE
