---------------------------- MODULE MCEnrichment ----------------------------
(* Small instances of EnrichmentPipeline: one article in each batch but the  *)
(* first, which has the rest.                                               *)
EXTENDS EnrichmentPipeline

CONSTANTS a1, a2, a3, a4

MCArticles == {a1, a2, a3, a4}
MCArticleIds == <<{a1, a4}, {a2}, {a3}>>

(* The finished job may stay as it is; any other stop is a deadlock.        *)
MCNext == Next \/ Done
MCSpec == Init /\ [][MCNext]_vars /\ Fairness
=============================================================================
