----------------------------- MODULE MCSettings -----------------------------
(***************************************************************************)
(* A small instance of SettingsPage.  The tabs are those of a user in two       *)
(* clients and of another user, over two agents, a server and a first-party     *)
(* skill that are there before.  On the panel the user changes the password of   *)
(* one account while two others search on the same cluster.                    *)
(***************************************************************************)
EXTENDS SettingsPage, TLC

CONSTANTS ann, bob, a1, a2, b1, t1, t2

MCUserOf == (a1 :> ann) @@ (a2 :> ann) @@ (b1 :> bob)
Row(kind, owner) == [kind |-> kind, owner |-> owner, edits |-> {}, verdict |-> None]
MCSeeded == <<Row("skill", None), Row("agent", ann), Row("agent", ann), Row("server", ann)>>

Connection(user, password) == [url |-> "cluster", user |-> user, password |-> password]
MCOwned == {Connection("me", "old"), Connection("me", "new")}
MCOthers == {Connection("bob", "b"), Connection("eve", "e")}
MCEnv == Connection("org", "o")

MCSymmetry == Permutations({a1, a2}) \cup Permutations({t1, t2})
=============================================================================
