SPECIFICATION FairSpec
CONSTANTS
  Polls = {p1}
  Outcomes = {"completed", "failed"}
  MaxJobs = 2
  MaxWire = 1
  MaxFaults = 1
  None = None
PROPERTIES
  EndedShowsDone
CHECK_DEADLOCK FALSE
