-------------------------- MODULE MCEnrichmentRetry --------------------------
(* Small instances of EnrichmentRetry.                                       *)
EXTENDS EnrichmentRetry

CONSTANTS a1, a2

MCArticles == {a1, a2}
MCArticleIds == <<{a1}, {a2}>>
=============================================================================
