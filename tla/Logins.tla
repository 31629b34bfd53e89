------------------------------- MODULE Logins -------------------------------
(***************************************************************************)
(* What the logins of one user promise, with no request, tab or lost answer *)
(* in sight.  A login is a chain of tokens: the next is made when the one    *)
(* before is spent, so that one at most is live, until a client presents a    *)
(* token twice and the login is shared.  A login that is over makes no more;  *)
(* the user is looked at when it is asked for, and it is opened after that.   *)
(***************************************************************************)
CONSTANTS Ids,         \* of tokens; a login has the id of its first
          Askers       \* those who may ask for one at a time

VARIABLES chain,       \* the tokens of each login
          live,        \* those that are live
          shared,      \* the logins with a token that was presented twice
          over,        \* the logins that were ended
          due,         \* the askers who were let in, and have no login yet
          enabled      \* the user is active

loginVars == <<chain, live, shared, over, due, enabled>>

Init ==
  /\ chain = [l \in Ids |-> {}]
  /\ live = [l \in Ids |-> {}]
  /\ shared = {}
  /\ over = {}
  /\ due = {}
  /\ enabled = TRUE

Fresh(k) == \A l \in Ids : k \notin chain[l]

(* The chain of l goes on with k.                                            *)
Grow(l, k) ==
  /\ Fresh(k)
  /\ chain' = [chain EXCEPT ![l] = @ \cup {k}]
  /\ live' = [live EXCEPT ![l] = @ \cup {k}]
  /\ UNCHANGED <<shared, enabled>>

Admit(d) ==
  /\ enabled
  /\ due' = due \cup {d}
  /\ UNCHANGED <<chain, live, shared, over, enabled>>

Withdraw(d) ==
  /\ due' = due \ {d}
  /\ UNCHANGED <<chain, live, shared, over, enabled>>

(* If the user was barred since, the login is over from the beginning.        *)
Open(l, d) ==
  /\ d \in due
  /\ chain[l] = {}
  /\ Grow(l, l)
  /\ due' = due \ {d}
  /\ over' = IF enabled THEN over ELSE over \cup {l}

Renew(l) ==
  /\ chain[l] # {}
  /\ l \notin over
  /\ l \in shared \/ live[l] = {}
  /\ \E k \in Ids : Grow(l, k)
  /\ UNCHANGED <<over, due>>

Spend(l) ==
  /\ \E k \in live[l] : live' = [live EXCEPT ![l] = @ \ {k}]
  /\ UNCHANGED <<chain, shared, over, due, enabled>>

Share(l) ==
  /\ chain[l] # {}
  /\ shared' = shared \cup {l}
  /\ UNCHANGED <<chain, live, over, due, enabled>>

(* A logout spends the last live token, and nothing is under way.            *)
End(l) ==
  /\ \E k \in chain[l] : live[l] \subseteq {k}
  /\ live' = [live EXCEPT ![l] = {}]
  /\ over' = over \cup {l}
  /\ UNCHANGED <<chain, shared, due, enabled>>

(* The user is deactivated: logins with a refresh under way go on to its end. *)
Bar(ls) ==
  /\ enabled
  /\ enabled' = FALSE
  /\ \A l \in ls : chain[l] # {}
  /\ over' = over \cup ls
  /\ UNCHANGED <<chain, live, shared, due>>

Next ==
  \/ \E d \in Askers : Admit(d) \/ Withdraw(d)
  \/ \E l \in Ids : \/ \E d \in Askers : Open(l, d)
                    \/ Renew(l) \/ Spend(l) \/ Share(l) \/ End(l)
  \/ \E ls \in SUBSET Ids : Bar(ls)

Spec == Init /\ [][Next]_loginVars
=============================================================================
