------------------------------- MODULE MCAuth -------------------------------
(* A small instance of AuthSession: a tab with two requests at a time beside a   *)
(* tab with one.  Access tokens last one tick, refresh tokens two;   *)
(* the two requests of the first tab are alike.                               *)
EXTENDS AuthSession, TLC

CONSTANTS t1, t2, r1, r2, r3

MCTabOf == (r1 :> t1) @@ (r2 :> t1) @@ (r3 :> t2)
MCSymmetry == Permutations({r1, r2})
=============================================================================
