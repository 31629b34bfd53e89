SPECIFICATION RetryFairSpec
CONSTANTS
  a1 = a1
  a2 = a2
  None = None
  BatchCount = 2
  Articles <- MCArticles
  ArticleIds <- MCArticleIds
  Slots = {s1, s2}
  MaxRetries = 1
  ExactReplies = TRUE
  Duplicates = 0
  Clients = {c1}
  MaxRequests = 2
INVARIANTS OneAttemptPerBatch CounterNeverShort
PROPERTIES RetriedJobFinishes
