SPECIFICATION FailureFairSpec
CONSTANTS
  a1 = a1
  a2 = a2
  None = None
  BatchCount = 2
  Articles <- MCArticles
  ArticleIds <- MCArticleIds
  Slots = {s1, s2}
  MaxRetries = 1
  ExactReplies = TRUE
  Duplicates = 0
  MaxFailures = 1
INVARIANTS EnoughRunsAhead
PROPERTIES SurvivesFailure
CHECK_DEADLOCK FALSE
