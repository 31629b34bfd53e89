SPECIFICATION FairSpec
CONSTANTS
  u1 = u1
  None = None
  Tabs = {t1, t2}
  Uploads = {u1}
  Patches <- MCPatches
  MaxQueries = 2
  MaxExtracts = 1
INVARIANTS CompleteHasArticles ProcessingIsConfirmed PatchMendsFlow
PROPERTIES BackgroundWorkEnds
