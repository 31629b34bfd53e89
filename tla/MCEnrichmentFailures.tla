------------------------- MODULE MCEnrichmentFailures -------------------------
(* Small instances of EnrichmentFailures.                                    *)
EXTENDS EnrichmentFailures

CONSTANTS a1, a2

MCArticles == {a1, a2}
MCArticleIds == <<{a1}, {a2}>>
=============================================================================
