SPECIFICATION Spec
CONSTANTS
  Runs = {r1, r2}
  Docs <- MCDocs
  WithReach <- MCWithReach
  Indexed <- MCIndexed
  PageSize = 2
  MaxPages = 3
  Retries = 2
  SampleSize = 2
  MaxPatches = 1
  MaxCrashes = 1
INVARIANTS FetchIsComplete NothingStranded
CHECK_DEADLOCK FALSE
