------------------------------- MODULE MCSearch -------------------------------
(* A small instance of Search: two runs page, two documents at a time, through *)
(* a cluster that indexes a document meanwhile.                              *)
EXTENDS Search

MCDocs == 1..4
MCWithReach == {1, 2, 4}
MCIndexed == {1, 2, 4}
=============================================================================
