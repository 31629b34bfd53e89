SPECIFICATION Spec
CONSTANTS
  Posts = {p1, p2}
  None = None
  Messages <- MCMessages
  Intents <- MCIntents
  PatchedTypes = {"reach"}
  Begins = {"welcome", "awaiting_brand", "awaiting_intention"}
  MaxPosts = 2
  MaxSearches = 1
INVARIANTS NoSlotSkipped EnrichingIsExplained
PROPERTIES OnlyOverlapRewinds ConsentIsHonoured RepliesSettle
CHECK_DEADLOCK FALSE
