SPECIFICATION MCSpec
CONSTANTS
  a1 = a1
  a2 = a2
  a3 = a3
  a4 = a4
  None = None
  BatchCount = 3
  Articles <- MCArticles
  ArticleIds <- MCArticleIds
  Slots = {s1, s2}
  MaxRetries = 2
  ExactReplies = TRUE
  Duplicates = 0
INVARIANTS CountMatches VerdictTruthful CompletedMeansEnriched
PROPERTIES JobFinishes ImplementsJob
