------------------------------- MODULE MCReach -------------------------------
(* Small instances of ReachPipeline: a batch of two articles, from two     *)
(* publishers.                                                              *)
EXTENDS ReachPipeline, TLC

CONSTANTS a1, a2, d1, d2

MCArticles == {a1, a2}
MCArticleIds == <<{a1, a2}>>
MCDomains == {d1, d2}
MCDomainOf == (a1 :> d1) @@ (a2 :> d2)
=============================================================================
