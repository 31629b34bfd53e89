SPECIFICATION Spec
CONSTANTS
  Polls = {p1}
  Outcomes = {"completed", "failed"}
  MaxJobs = 2
  MaxWire = 1
  MaxFaults = 1
  None = None
INVARIANTS
  ToldEndShowsDone
PROPERTIES
  DoneWasReached
CHECK_DEADLOCK FALSE
