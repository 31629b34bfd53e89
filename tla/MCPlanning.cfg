SPECIFICATION TopicSpec
CONSTANTS
  Terms = {1, 2}
  Samples <- MCSamples
  UserTerms = {2}
  UserDays = {1}
  MinMentions = 3
  ShortSpan = 60
  Majority = 70
  InferFloor = 50
  ProbeBelow = 70
  SupplementFloor = 60
  Saturation = 25
  MaxCalls = 2
  MaxWrites = 1
  MaxMounts = 1
  None = None
  LastDay = 8
  MaxInputTokens = 10
  MaxJobTokens = 25
  print = print  blogs = blogs  online = online
  MediaTypes = {print, blogs, online}
  Online = online
  Blogish = {blogs}
  Cluster <- MCCluster
  MonthDays = 3
  LongWindow = 2
  MonthCap = 2
  DayCap = 4
  FewShot = 1
INVARIANTS
  CardIsCurrent
  NothingMissed BatchesHold
PROPERTIES AsksWhatIsMissing
CHECK_DEADLOCK FALSE
