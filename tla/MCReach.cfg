SPECIFICATION ReachFairSpec
CONSTANTS
  a1 = a1
  a2 = a2
  d1 = d1
  d2 = d2
  None = None
  NoDomain = NoDomain
  BatchCount = 1
  Articles <- MCArticles
  ArticleIds <- MCArticleIds
  Slots = {s1, s2}
  MaxRetries = 0
  ExactReplies = TRUE
  Duplicates = 0
  Domains <- MCDomains
  DomainOf <- MCDomainOf
  MaxRefetches = 1
  MaxOutside = 1
  MaxThrows = 1
PROPERTIES SpoilsOnlyInRace RefetchRepairs PipelinesFinish
