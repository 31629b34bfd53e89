-------------------------- MODULE AuthSession_proofs --------------------------
(***************************************************************************)
(* Proofs about AuthSession, for any number of tabs, requests, sessions and   *)
(* any token lifetimes: a refresh token presented once is not refused, a login *)
(* has one live session, an ended login is let through no longer than its last   *)
(* access token lasts, and the table of sessions implements Logins.           *)
(***************************************************************************)
EXTENDS AuthSession, FiniteSetTheorems, TLAPS

USE AuthAssumption

Kinds == {"api", "me", "login", "logout"}
ReqPcs == {"idle", "sent", "checked", "ok", "refused", "refreshing", "found", "rotated", "issued",
           "denied", "failed"}

(* A request at one of these presents a refresh token that may still work.    *)
Presenting == {"refreshing", "found", "rotated"}

Row == [live : BOOLEAN, made : Nat, line : Nat, out : BOOLEAN]
ReqType == [pc : ReqPcs, kind : Kinds \cup {None}, token : Ids \cup {None}, again : BOOLEAN,
            got : Ids \cup {None}, here : BOOLEAN]

(* A request has the token of a session there is where its next step needs it. *)
ReqOK(q, ids) ==
  /\ q.token \in ids \cup {None}
  /\ q.got \in ids \cup {None}
  /\ q.pc = "sent" /\ q.kind # "login" => q.token \in ids
  /\ q.pc \in Presenting \cup {"denied"} => q.token \in ids
  /\ q.pc = "issued" => q.got \in ids

ReqsOK == reqs \in [Requests -> ReqType] /\ \A r \in Requests : ReqOK(reqs[r], DOMAIN sessions)

RowsOK ==
  /\ \E n \in 0..MaxSessions : sessions \in [1..n -> Row]
  /\ \A k \in DOMAIN sessions : sessions[k].made <= now /\ sessions[k].line \in 1..k

StoreOK ==
  /\ store \in [Tabs -> DOMAIN sessions \cup {None}]
  /\ disk \in DOMAIN sessions \cup {None}

Typed ==
  /\ RowsOK
  /\ ReqsOK
  /\ StoreOK
  /\ enabled \in BOOLEAN
  /\ uses \in [Ids -> Nat]
  /\ ended \in [Ids -> Nat \cup {None}]
  /\ now \in Nat

(* Sessions are numbered as they are made.                                   *)
LEMMA SessionIds ==
  ASSUME RowsOK
  PROVE  /\ NextId \in Nat
         /\ DOMAIN sessions = 1..(NextId - 1)
         /\ DOMAIN sessions \subseteq Ids
         /\ sessions \in [DOMAIN sessions -> Row]
<1>1. PICK n \in 0..MaxSessions : sessions \in [1..n -> Row]
  BY DEF RowsOK
<1>2. DOMAIN sessions = 1..n /\ Cardinality(1..n) = n
  BY <1>1, FS_Interval
<1>3. QED
  BY <1>1, <1>2 DEF NextId, Ids

LEMMA IdleType == Idle \in ReqType /\ \A ids : ReqOK(Idle, ids)
BY DEF Idle, ReqType, ReqPcs, ReqOK, Presenting

LEMMA SetReq ==
  ASSUME ReqsOK, NEW r \in Requests, NEW q \in ReqType, Set(r, q),
         DOMAIN sessions \subseteq DOMAIN sessions', ReqOK(q, DOMAIN sessions')
  PROVE  /\ ReqsOK'
         /\ reqs'[r] = q
         /\ \A x \in Requests : x # r => reqs'[x] = reqs[x]
<1>1. /\ reqs' \in [Requests -> ReqType]
      /\ reqs'[r] = q
      /\ \A x \in Requests : x # r => reqs'[x] = reqs[x]
  BY DEF ReqsOK, Set
<1>2. \A x \in Requests : ReqOK(reqs'[x], DOMAIN sessions')
  BY <1>1 DEF ReqsOK, ReqOK
<1>3. QED
  BY <1>1, <1>2 DEF ReqsOK

(* issueTokens() adds a live session at the end.                             *)
LEMMA IssuedRows ==
  ASSUME RowsOK, now \in Nat, now' = now, NEW line \in 1..NextId, Issued(line)
  PROVE  /\ RowsOK'
         /\ DOMAIN sessions' = DOMAIN sessions \cup {NextId}
         /\ NextId \notin DOMAIN sessions /\ NextId \in Ids
         /\ \A k \in DOMAIN sessions : sessions'[k] = sessions[k] /\ k < NextId
         /\ sessions'[NextId] = [live |-> TRUE, made |-> now, line |-> line, out |-> FALSE]
<1>1. NextId \in Nat /\ DOMAIN sessions = 1..(NextId - 1) /\ sessions \in [DOMAIN sessions -> Row]
  BY SessionIds
<1> DEFINE new == [live |-> TRUE, made |-> now, line |-> line, out |-> FALSE]
<1>2. new \in Row
  BY <1>1 DEF Row
<1>3. NextId \in 1..MaxSessions
        /\ sessions' = [k \in 1..NextId |-> IF k = NextId THEN new ELSE sessions[k]]
  BY DEF Issued, Ids
<1> HIDE DEF new
<1>4. sessions' \in [1..NextId -> Row] /\ NextId \in 0..MaxSessions
  BY <1>1, <1>2, <1>3
<1>5. DOMAIN sessions' = 1..NextId /\ sessions'[NextId] = new
        /\ \A k \in DOMAIN sessions : sessions'[k] = sessions[k] /\ k < NextId
  BY <1>1, <1>3
<1>6. \A k \in DOMAIN sessions' : sessions'[k].made <= now /\ sessions'[k].line \in 1..k
  BY <1>1, <1>5 DEF RowsOK, new
<1>7. RowsOK'
  BY <1>4, <1>6 DEF RowsOK
<1>8. QED
  BY <1>1, <1>3, <1>5, <1>7 DEF Ids, new

LEMMA KeepType ==
  ASSUME StoreOK, NEW t \in Tabs, NEW k \in DOMAIN sessions \cup {None}, Keep(t, k),
         sessions' = sessions
  PROVE  StoreOK'
BY DEF Keep, StoreOK

LEMMA TypedInit == Init => Typed
<1> SUFFICES ASSUME Init
             PROVE  Typed
  OBVIOUS
<1>1. sessions \in [1..0 -> Row] /\ DOMAIN sessions = {}
  BY DEF Init
<1>2. RowsOK
  BY <1>1 DEF RowsOK
<1>3. ReqsOK
  BY IdleType DEF Init, ReqsOK
<1>4. QED
  BY <1>2, <1>3 DEF Init, Typed, StoreOK

(* A step that makes no session and moves one request, or none.              *)
LEMMA TypedKept ==
  ASSUME Typed, sessions' = sessions, ReqsOK', StoreOK', enabled' \in BOOLEAN,
         uses' \in [Ids -> Nat], ended' \in [Ids -> Nat \cup {None}], now' \in Nat, now' >= now
  PROVE  Typed'
<1>1. RowsOK'
  <2>1. \A k \in DOMAIN sessions : sessions[k].made \in Nat
    BY SessionIds DEF Typed, Row
  <2>2. \A k \in DOMAIN sessions : sessions[k].made <= now'
    BY <2>1 DEF Typed, RowsOK
  <2>3. QED
    BY <2>2 DEF Typed, RowsOK
<1>2. QED
  BY <1>1 DEF Typed

LEMMA TypedServe ==
  ASSUME Typed, NEW r \in Requests, Serve(r)
  PROVE  Typed'
<1> DEFINE q == reqs[r]
<1>t. /\ q \in ReqType /\ ReqOK(q, DOMAIN sessions) /\ q.pc = "sent"
      /\ UNCHANGED <<enabled, store, disk, uses, now>>
      /\ DOMAIN sessions \subseteq Ids
  BY SessionIds DEF Typed, ReqsOK, Serve
<1>2. ASSUME NEW pc \in {"ok", "refused", "checked"},
             Set(r, [q EXCEPT !.pc = pc]) \/ Set(r, Idle), UNCHANGED <<sessions, ended>>
      PROVE  Typed'
  <2> DEFINE n == [q EXCEPT !.pc = pc]
  <2>1. n \in ReqType /\ ReqOK(n, DOMAIN sessions)
    <3> HIDE DEF q
    <3>1. QED
      BY <1>t DEF ReqType, ReqPcs, ReqOK, Presenting
  <2>2. ReqsOK'
    <3> HIDE DEF n
    <3>1. QED
      BY <1>2, <2>1, SetReq, IdleType DEF Typed, n
  <2>3. StoreOK'
    BY <1>2, <1>t DEF Typed, StoreOK
  <2>4. QED
    BY <1>2, <1>t, <2>2, <2>3, TypedKept DEF Typed
<1>3. CASE /\ q.kind = "logout"
           /\ sessions' = [sessions EXCEPT ![q.token].live = FALSE, ![q.token].out = TRUE]
           /\ ended' = IF Ends(Line(q.token), q.token) /\ ended[Line(q.token)] = None
                       THEN [ended EXCEPT ![Line(q.token)] = now] ELSE ended
           /\ Set(r, [q EXCEPT !.pc = "ok"])
  <2>1. q.token \in DOMAIN sessions
    BY <1>3, <1>t DEF ReqOK
  <2>2. sessions[q.token] \in Row
    BY <2>1, SessionIds DEF Typed
  <2> DEFINE row == [sessions[q.token] EXCEPT !.live = FALSE, !.out = TRUE]
  <2>3. row \in Row /\ row.made = sessions[q.token].made /\ row.line = sessions[q.token].line
    BY <2>2 DEF Row
  <2>4. sessions' = [sessions EXCEPT ![q.token] = row]
    BY <1>3
  <2>5. /\ DOMAIN sessions' = DOMAIN sessions
        /\ \A k \in DOMAIN sessions : sessions'[k] = IF k = q.token THEN row ELSE sessions[k]
    BY <2>4, SessionIds DEF Typed
  <2> HIDE DEF row
  <2>6. RowsOK'
    <3>1. PICK n \in 0..MaxSessions : sessions \in [1..n -> Row]
      BY DEF Typed, RowsOK
    <3>2. sessions' \in [1..n -> Row]
      BY <2>3, <2>4, <3>1
    <3>3. QED
      BY <1>t, <2>3, <2>5, <3>2 DEF Typed, RowsOK
  <2> DEFINE n == [q EXCEPT !.pc = "ok"]
  <2>7. n \in ReqType /\ ReqOK(n, DOMAIN sessions')
    <3> HIDE DEF q
    <3>1. QED
      BY <1>t, <2>5 DEF ReqType, ReqPcs, ReqOK, Presenting
  <2>8. ReqsOK'
    <3> HIDE DEF n
    <3>1. QED
      BY <1>3, <2>5, <2>7, SetReq DEF Typed, n
  <2>9. StoreOK'
    BY <1>t, <2>5 DEF Typed, StoreOK
  <2>10. ended' \in [Ids -> Nat \cup {None}]
    BY <1>3 DEF Typed
  <2>11. QED
    BY <1>t, <2>6, <2>8, <2>9, <2>10 DEF Typed
<1>4. QED
  BY <1>2, <1>3 DEF Serve

LEMMA TypedOpen ==
  ASSUME Typed, NEW r \in Requests, OpenLogin(r)
  PROVE  Typed'
<1> DEFINE q == reqs[r]
           n == [q EXCEPT !.pc = "ok", !.got = NextId]
<1>1. /\ q \in ReqType /\ ReqOK(q, DOMAIN sessions) /\ q.pc = "checked"
      /\ UNCHANGED <<enabled, store, disk, uses, now>>
      /\ Issued(NextId) /\ Set(r, n)
  BY DEF Typed, ReqsOK, OpenLogin
<1>2. NextId \in 1..NextId
  BY <1>1 DEF Issued, Ids
<1>3. RowsOK' /\ DOMAIN sessions' = DOMAIN sessions \cup {NextId} /\ NextId \in Ids
  BY <1>1, <1>2, IssuedRows DEF Typed
<1>4. n \in ReqType /\ ReqOK(n, DOMAIN sessions')
  <2> HIDE DEF q
  <2>1. QED
    BY <1>1, <1>3 DEF ReqType, ReqPcs, ReqOK, Presenting
<1>5. ReqsOK'
  <2> HIDE DEF n
  <2>1. QED
    BY <1>1, <1>3, <1>4, SetReq DEF Typed
<1>6. StoreOK'
  BY <1>1, <1>3 DEF Typed, StoreOK
<1>7. ended' \in [Ids -> Nat \cup {None}]
  BY DEF OpenLogin, Typed
<1>8. QED
  BY <1>1, <1>3, <1>5, <1>6, <1>7 DEF Typed

LEMMA TypedNext == Typed /\ [Next]_vars => Typed'
<1> SUFFICES ASSUME Typed, [Next]_vars
             PROVE  Typed'
  OBVIOUS
<1>t. /\ DOMAIN sessions \subseteq Ids
      /\ \A r \in Requests : reqs[r] \in ReqType /\ ReqOK(reqs[r], DOMAIN sessions)
                               /\ TabOf[r] \in Tabs
      /\ \A t \in Tabs : store[t] \in DOMAIN sessions \cup {None}
  BY SessionIds DEF Typed, ReqsOK, StoreOK
(* One request moves to q, and the tokens kept stay of the right type.        *)
<1>1. ASSUME NEW r \in Requests, NEW q \in ReqType, Set(r, q), ReqOK(q, DOMAIN sessions),
             sessions' = sessions, StoreOK', uses' \in [Ids -> Nat],
             UNCHANGED <<enabled, ended, now>>
      PROVE  Typed'
  <2>1. ReqsOK'
    BY <1>1, SetReq DEF Typed
  <2>2. QED
    BY <1>1, <2>1, TypedKept DEF Typed
<1>2. ASSUME NEW r \in Requests, NEW kind \in Kinds, Send(r, kind)
      PROVE  Typed'
  <2> DEFINE n == [Idle EXCEPT !.pc = "sent", !.kind = kind, !.token = store[TabOf[r]]]
  <2>1. n \in ReqType /\ ReqOK(n, DOMAIN sessions)
    BY <1>t, <1>2 DEF Send, Idle, ReqType, ReqPcs, ReqOK, Presenting
  <2>2. StoreOK'
    BY <1>2 DEF Send, Typed, StoreOK
  <2>3. Set(r, n) /\ UNCHANGED <<sessions, enabled, uses, ended, now>>
    BY <1>2 DEF Send
  <2> HIDE DEF n
  <2>4. QED
    BY <1>1, <2>1, <2>2, <2>3 DEF Typed
<1>3. ASSUME NEW r \in Requests, Answer(r)
      PROVE  Typed'
  <2>1. reqs[r].got \in DOMAIN sessions \cup {None}
    BY <1>t DEF ReqOK
  <2>2. sessions' = sessions
    BY <1>3 DEF Answer
  <2>3. StoreOK'
    <3>1. (\E k \in DOMAIN sessions \cup {None} : Keep(TabOf[r], k)) \/ UNCHANGED <<store, disk>>
      BY <1>t, <1>3, <2>1 DEF Answer
    <3>2. QED
      BY <1>t, <2>2, <3>1, KeepType DEF Typed, StoreOK
  <2>4. QED
    BY <1>1, <1>3, <2>2, <2>3, IdleType DEF Answer, Typed
<1>4. ASSUME NEW r \in Requests, Refused(r)
      PROVE  Typed'
  <2> DEFINE t == TabOf[r]
             n == [reqs[r] EXCEPT !.pc = "refreshing", !.token = store[t]]
  <2>0. UNCHANGED <<sessions, enabled, ended, now>>
    BY <1>4 DEF Refused
  <2>1. CASE /\ store[t] # None /\ Set(r, n)
             /\ uses' = [uses EXCEPT ![store[t]] = @ + 1]
             /\ UNCHANGED <<store, disk>>
    <3>1. n \in ReqType /\ ReqOK(n, DOMAIN sessions)
      BY <1>t, <2>1 DEF ReqType, ReqPcs, ReqOK, Presenting
    <3>2. StoreOK'
      BY <2>0, <2>1 DEF Typed, StoreOK
    <3>3. uses' \in [Ids -> Nat]
      BY <1>t, <2>1 DEF Typed
    <3> HIDE DEF n
    <3>4. QED
      BY <1>1, <2>0, <2>1, <3>1, <3>2, <3>3
  <2>2. CASE (UNCHANGED <<store, disk>> \/ Keep(t, None)) /\ Set(r, Idle) /\ UNCHANGED uses
    <3>1. StoreOK'
      BY <1>t, <2>0, <2>2, KeepType DEF Typed, StoreOK
    <3>2. QED
      BY <1>1, <2>0, <2>2, <3>1, IdleType DEF Typed
  <2>3. QED
    BY <1>4, <2>1, <2>2 DEF Refused
<1>5. ASSUME NEW r \in Requests, NEW pc \in {"found", "denied", "failed", "refused"},
             reqs[r].pc = "refreshing" \/ pc \in {"failed", "refused"},
             Set(r, [reqs[r] EXCEPT !.pc = pc]),
             UNCHANGED <<sessions, enabled, store, disk, uses, ended, now>>
      PROVE  Typed'
  <2> DEFINE n == [reqs[r] EXCEPT !.pc = pc]
  <2>1. n \in ReqType /\ ReqOK(n, DOMAIN sessions)
    BY <1>t, <1>5 DEF ReqType, ReqPcs, ReqOK, Presenting
  <2>2. StoreOK'
    BY <1>5 DEF Typed, StoreOK
  <2> HIDE DEF n
  <2>3. QED
    BY <1>1, <1>5, <2>1, <2>2 DEF Typed, n
<1>6. ASSUME NEW r \in Requests, Rotate(r)
      PROVE  Typed'
  <2> DEFINE k == reqs[r].token
             row == [sessions[k] EXCEPT !.live = FALSE]
             n == [reqs[r] EXCEPT !.pc = "rotated"]
  <2>1. k \in DOMAIN sessions
    BY <1>t, <1>6 DEF Rotate, ReqOK, Presenting
  <2>2. sessions[k] \in Row
    BY <2>1, SessionIds DEF Typed
  <2>3. row \in Row /\ row.made = sessions[k].made /\ row.line = sessions[k].line
    BY <2>2 DEF Row
  <2>4. sessions' = [sessions EXCEPT ![k] = row] /\ Set(r, n)
        /\ UNCHANGED <<enabled, store, disk, uses, ended, now>>
    BY <1>6 DEF Rotate
  <2>5. n \in ReqType /\ ReqOK(n, DOMAIN sessions)
    BY <1>t, <1>6 DEF Rotate, ReqType, ReqPcs, ReqOK, Presenting
  <2> HIDE DEF row, n, k
  <2>6. /\ DOMAIN sessions' = DOMAIN sessions
        /\ \A m \in DOMAIN sessions : sessions'[m] = IF m = k THEN row ELSE sessions[m]
    BY <2>4, SessionIds DEF Typed
  <2>7. RowsOK'
    <3>1. PICK c \in 0..MaxSessions : sessions \in [1..c -> Row]
      BY DEF Typed, RowsOK
    <3>2. sessions' \in [1..c -> Row]
      BY <2>3, <2>4, <3>1
    <3>3. QED
      BY <2>3, <2>4, <2>6, <3>2 DEF Typed, RowsOK
  <2>8. ReqsOK'
    BY <2>4, <2>5, <2>6, SetReq DEF Typed
  <2>9. StoreOK'
    BY <2>4, <2>6 DEF Typed, StoreOK
  <2>10. QED
    BY <2>4, <2>7, <2>8, <2>9 DEF Typed
<1>7. ASSUME NEW r \in Requests, Issue(r)
      PROVE  Typed'
  <2> DEFINE k == reqs[r].token
             n == [reqs[r] EXCEPT !.pc = "issued", !.got = NextId]
  <2>1. k \in DOMAIN sessions
    BY <1>t, <1>7 DEF Issue, ReqOK, Presenting
  <2>2. Line(k) \in 1..NextId
    <3>1. NextId \in Nat /\ k \in 1..(NextId - 1) /\ Line(k) \in 1..k
      BY <2>1, SessionIds DEF Typed, RowsOK, Line
    <3> HIDE DEF k
    <3>2. QED
      BY <3>1
  <2>3. /\ RowsOK' /\ DOMAIN sessions' = DOMAIN sessions \cup {NextId} /\ NextId \in Ids
    BY <1>7, <2>2, IssuedRows DEF Issue, Typed
  <2>4. n \in ReqType /\ ReqOK(n, DOMAIN sessions')
    BY <1>t, <1>7, <2>3 DEF Issue, ReqType, ReqPcs, ReqOK, Presenting
  <2>5. Set(r, n) /\ UNCHANGED <<enabled, store, disk, uses, ended, now>>
    BY <1>7 DEF Issue
  <2> HIDE DEF n
  <2>6. ReqsOK'
    BY <2>3, <2>4, <2>5, SetReq DEF Typed
  <2>7. StoreOK'
    BY <2>3, <2>5 DEF Typed, StoreOK
  <2>8. QED
    BY <2>3, <2>5, <2>6, <2>7 DEF Typed
<1>8. ASSUME NEW r \in Requests, Arrive(r)
      PROVE  Typed'
  <2> DEFINE n == [reqs[r] EXCEPT !.pc = "sent", !.token = reqs[r].got, !.again = TRUE]
  <2>0. /\ reqs[r].got \in DOMAIN sessions
        /\ reqs[r].got \in Ids \cup {None} /\ reqs[r].kind \in Kinds \cup {None}
        /\ reqs[r].here \in BOOLEAN
    BY <1>t, <1>8 DEF Arrive, ReqType, ReqOK
  <2>1. n \in ReqType /\ ReqOK(n, DOMAIN sessions)
    <3>1. PICK v \in ReqType : v = reqs[r]
      BY <1>t
    <3>2. n = [v EXCEPT !.pc = "sent", !.token = v.got, !.again = TRUE]
      BY <3>1
    <3>3. n \in ReqType /\ n.pc = "sent" /\ n.token = v.got /\ n.got = v.got
      BY <3>2 DEF ReqType, ReqPcs
    <3> HIDE DEF n
    <3>4. QED
      BY <2>0, <3>1, <3>3 DEF ReqOK, Presenting
  <2>2. Set(r, n) /\ UNCHANGED <<sessions, enabled, uses, ended, now>>
        /\ Keep(TabOf[r], reqs[r].got) /\ reqs[r].got \in DOMAIN sessions
    BY <1>t, <1>8 DEF Arrive, ReqOK
  <2>3. StoreOK'
    BY <1>t, <2>2, KeepType DEF Typed
  <2> HIDE DEF n
  <2>4. QED
    BY <1>1, <2>1, <2>2, <2>3 DEF Typed
<1>9. ASSUME NEW r \in Requests, Denied(r) \/ Lose(r)
      PROVE  Typed'
  <2>1. Set(r, Idle) /\ UNCHANGED <<sessions, enabled, uses, ended, now>>
        /\ (Keep(TabOf[r], None) \/ UNCHANGED <<store, disk>>)
    BY <1>9 DEF Denied, Lose
  <2>2. StoreOK'
    BY <1>t, <2>1, KeepType DEF Typed, StoreOK
  <2>3. QED
    BY <1>1, <2>1, <2>2, IdleType DEF Typed
<1>10. ASSUME NEW t \in Tabs, Reload(t)
       PROVE  Typed'
  <2>1. ReqsOK'
    <3>1. \A r \in Requests : LET n == [reqs[r] EXCEPT !.here = FALSE]
                              IN  n \in ReqType /\ ReqOK(n, DOMAIN sessions)
      BY <1>t DEF ReqType, ReqOK
    <3>2. reqs' = [r \in Requests |-> IF TabOf[r] = t /\ reqs[r].pc # "idle"
                                      THEN [reqs[r] EXCEPT !.here = FALSE] ELSE reqs[r]]
          /\ sessions' = sessions
      BY <1>10 DEF Reload
    <3>3. QED
      BY <1>t, <3>1, <3>2 DEF ReqsOK
  <2>2. StoreOK'
    BY <1>10 DEF Reload, Typed, StoreOK
  <2>3. QED
    BY <1>10, <2>1, <2>2, TypedKept DEF Reload, Typed
<1>11. CASE Disable
  <2>1. ReqsOK' /\ StoreOK'
    BY <1>11 DEF Disable, Typed, ReqsOK, StoreOK
  <2>2. ended' \in [Ids -> Nat \cup {None}]
    BY <1>11 DEF Disable, Typed
  <2>3. sessions' = sessions /\ uses' = uses /\ now' = now /\ enabled' = FALSE
    BY <1>11 DEF Disable
  <2>n. now' \in Nat /\ now' >= now /\ uses' \in [Ids -> Nat]
    <3>1. now \in Nat /\ uses \in [Ids -> Nat]
      BY DEF Typed
    <3>2. QED
      BY <2>3, <3>1
  <2>e. enabled' \in BOOLEAN
    BY <2>3, Zenon
  <2>4. QED
    BY <2>1, <2>2, <2>3, <2>n, <2>e, TypedKept
<1>12. CASE Tick
  <2>1. ReqsOK' /\ StoreOK'
    BY <1>12 DEF Tick, Typed, ReqsOK, StoreOK
  <2>2. now' \in Nat /\ now' >= now
    BY <1>12 DEF Tick, Typed
  <2>3. QED
    BY <1>12, <2>1, <2>2, TypedKept DEF Tick, Typed
<1>13. CASE UNCHANGED vars
  BY <1>13 DEF vars, Typed, ReqsOK, StoreOK, RowsOK
<1>14. ASSUME NEW r \in Requests, Find(r)
       PROVE  Typed'
  BY <1>5, <1>14 DEF Find
<1>15. ASSUME NEW r \in Requests, Throws(r)
       PROVE  Typed'
  BY <1>5, <1>15 DEF Throws
<1>16. QED
  BY <1>2, <1>3, <1>4, <1>6, <1>7, <1>8, <1>9, <1>10, <1>11, <1>12, <1>13, <1>14, <1>15, TypedServe,
     TypedOpen
     DEF Next, Kinds
-----------------------------------------------------------------------------
(* A token that may still work was counted when it was presented, and twice   *)
(* if two requests present it.                                               *)
Presented ==
  /\ \A r \in Requests : reqs[r].pc \in Presenting => uses[reqs[r].token] >= 1
  /\ \A r, q \in Requests :
       r # q /\ reqs[r].pc \in Presenting /\ reqs[q].pc \in Presenting
         /\ reqs[r].token = reqs[q].token => uses[reqs[r].token] >= 2

(* A session ends by a logout or by its token's use; the first use of a token *)
(* finds it live, if no logout came before.                                  *)
Spent ==
  /\ \A k \in DOMAIN sessions : sessions[k].live \/ sessions[k].out \/ uses[k] >= 1
  /\ \A r \in Requests : LET k == reqs[r].token IN
       /\ reqs[r].pc \in {"refreshing", "found"} =>
            sessions[k].live \/ sessions[k].out \/ uses[k] >= 2
       /\ reqs[r].pc = "rotated" => ~sessions[k].live

(* In a login whose tokens were used once at most, all sessions but the last   *)
(* are over: used, not live, and presented by nobody any more.                *)
Clean(line) == \A k \in DOMAIN sessions : Line(k) = line => uses[k] <= 1

Tips ==
  \A k, m \in DOMAIN sessions : k < m /\ Line(k) = Line(m) /\ Clean(Line(k)) =>
    /\ ~sessions[k].live
    /\ uses[k] >= 1
    /\ \A r \in Requests : reqs[r].pc \in Presenting => reqs[r].token # k

(* A login that is ended has no session from later, and nothing that could    *)
(* make one.                                                                *)
EndedOK ==
  \A k \in Ids : ended[k] # None =>
    /\ k \in DOMAIN sessions
    /\ ended[k] \in Nat
    /\ ~Passed(k)
    /\ \A m \in DOMAIN sessions : Line(m) = k =>
         sessions[m].made <= ended[k] /\ (sessions[m].live => ~enabled)

Inv == Typed /\ Presented /\ Spent /\ Tips /\ EndedOK /\ FirstUseWorks

LEMMA InvInit == Init => Inv
<1> SUFFICES ASSUME Init
             PROVE  Inv
  OBVIOUS
<1>1. \A r \in Requests : reqs[r].pc = "idle"
  BY DEF Init, Idle
<1>2. DOMAIN sessions = {}
  BY DEF Init
<1>3. \A k \in Ids : ended[k] = None
  BY DEF Init
<1>4. QED
  BY <1>1, <1>2, <1>3, TypedInit
     DEF Inv, Presented, Spent, Tips, EndedOK, FirstUseWorks, Presenting

(* A step that changes no session and no count, and in which requests only    *)
(* leave the refresh.                                                        *)
LEMMA InvQuiet ==
  ASSUME Inv, Typed', UNCHANGED <<sessions, uses, ended>>, now' >= now,
         enabled' = enabled,
         \A r \in Requests : \/ reqs'[r].pc = reqs[r].pc /\ reqs'[r].token = reqs[r].token
                             \/ reqs'[r].pc \notin Presenting \cup {"denied"}
  PROVE  Inv'
<1>0. now \in Nat /\ now' \in Nat /\ \A k \in DOMAIN sessions : sessions[k].made \in Nat
  BY SessionIds DEF Inv, Typed, Row
<1>1. Presented'
  BY DEF Inv, Presented
<1>2. Spent'
  BY DEF Inv, Spent, Presenting
<1>3. Tips'
  BY DEF Inv, Tips, Clean, Line
<1>4. EndedOK'
  BY DEF Inv, EndedOK, Passed, Line, Presenting
<1>5. FirstUseWorks'
  <2> SUFFICES ASSUME NEW r \in Requests, reqs'[r].pc = "denied"
               PROVE  LET k == reqs'[r].token
                      IN  \/ uses'[k] > 1 \/ ~enabled' \/ sessions'[k].out
                          \/ now' >= sessions'[k].made + RefreshTTL
    BY DEF FirstUseWorks
  <2>1. reqs'[r].pc = reqs[r].pc /\ reqs'[r].token = reqs[r].token
    OBVIOUS
  <2>2. sessions[reqs[r].token].made \in Nat
    BY <1>0, <2>1 DEF Inv, Typed, ReqsOK, ReqOK
  <2>3. QED
    BY <1>0, <2>1, <2>2 DEF Inv, FirstUseWorks
<1>6. QED
  BY <1>1, <1>2, <1>3, <1>4, <1>5 DEF Inv

(* A token is presented: if it was used before, the count says so; if not, its  *)
(* session is the last of its login.                                         *)
LEMMA InvPresent ==
  ASSUME Inv, Typed', NEW r \in Requests, NEW k \in DOMAIN sessions,
         reqs'[r].pc = "refreshing", reqs'[r].token = k,
         \A q \in Requests : q # r => reqs'[q] = reqs[q],
         uses' = [uses EXCEPT ![k] = @ + 1],
         UNCHANGED <<sessions, enabled, ended, now>>
  PROVE  Inv'
<1>0. /\ uses \in [Ids -> Nat] /\ k \in Ids
      /\ \A q \in Requests : reqs[q].pc \in Presenting => reqs[q].token \in Ids
  BY SessionIds DEF Inv, Typed, ReqsOK, ReqOK
<1>1. \A m \in Ids : uses[m] \in Nat /\ uses'[m] = IF m = k THEN uses[m] + 1 ELSE uses[m]
  BY <1>0
<1>2. Presented'
  <2>1. ASSUME NEW q \in Requests, reqs'[q].pc \in Presenting
        PROVE  uses'[reqs'[q].token] >= 1
    BY <1>0, <1>1, <2>1 DEF Inv, Presented
  <2>2. ASSUME NEW p \in Requests, NEW q \in Requests, p # q, reqs'[p].pc \in Presenting,
               reqs'[q].pc \in Presenting, reqs'[p].token = reqs'[q].token
        PROVE  uses'[reqs'[p].token] >= 2
    BY <1>0, <1>1, <2>2 DEF Inv, Presented
  <2>3. QED
    BY <2>1, <2>2 DEF Presented
<1>3. Spent'
  <2>1. \A m \in DOMAIN sessions : sessions[m].live \/ sessions[m].out \/ uses'[m] >= 1
    BY <1>1, SessionIds DEF Inv, Spent, Typed
  <2>2. ASSUME NEW q \in Requests
        PROVE  /\ reqs'[q].pc \in {"refreshing", "found"} =>
                    \/ sessions[reqs'[q].token].live
                    \/ sessions[reqs'[q].token].out
                    \/ uses'[reqs'[q].token] >= 2
               /\ reqs'[q].pc = "rotated" => ~sessions[reqs'[q].token].live
    <3>1. CASE q = r
      BY <1>0, <1>1, <3>1 DEF Inv, Spent
    <3>2. CASE q # r
      BY <1>0, <1>1, <3>2 DEF Inv, Spent, Presenting
    <3>3. QED
      BY <3>1, <3>2
  <2>3. QED
    BY <2>1, <2>2 DEF Spent
<1>4. Tips'
  <2> SUFFICES ASSUME NEW a \in DOMAIN sessions, NEW m \in DOMAIN sessions, a < m,
                      Line(a) = Line(m), Clean(Line(a))'
               PROVE  /\ ~sessions[a].live
                      /\ uses'[a] >= 1
                      /\ \A q \in Requests : reqs'[q].pc \in Presenting => reqs'[q].token # a
    BY DEF Tips, Line
  <2>0. DOMAIN sessions \subseteq Ids
    BY SessionIds DEF Inv, Typed
  <2>1. \A x \in DOMAIN sessions : uses'[x] >= uses[x] /\ x \in Ids
    BY <1>1, <2>0
  <2>2. Clean(Line(a))
    BY <1>1, <2>1 DEF Clean, Line
  <2>3. /\ ~sessions[a].live /\ uses[a] >= 1
        /\ \A q \in Requests : reqs[q].pc \in Presenting => reqs[q].token # a
    BY <2>2 DEF Inv, Tips
  <2>4. a # k
    BY <1>1, <2>1, <2>3 DEF Clean, Line
  <2>5. uses'[a] >= 1
    BY <1>1, <2>1, <2>3, <2>4
  <2>6. ASSUME NEW q \in Requests, reqs'[q].pc \in Presenting
        PROVE  reqs'[q].token # a
    <3>1. CASE q = r
      BY <2>4, <3>1
    <3>2. CASE q # r
      BY <2>3, <2>6, <3>2
    <3>3. QED
      BY <3>1, <3>2
  <2>7. QED
    BY <2>3, <2>5, <2>6
<1>5. EndedOK'
  BY DEF Inv, EndedOK, Passed, Line
<1>6. FirstUseWorks'
  <2> SUFFICES ASSUME NEW q \in Requests, reqs'[q].pc = "denied"
               PROVE  LET m == reqs'[q].token
                      IN  \/ uses'[m] > 1 \/ ~enabled \/ sessions[m].out
                          \/ now >= sessions[m].made + RefreshTTL
    BY DEF FirstUseWorks
  <2>1. reqs'[q] = reqs[q]
    OBVIOUS
  <2>2. reqs[q].token \in Ids
    BY <2>1, SessionIds DEF Inv, Typed, ReqsOK, ReqOK
  <2>3. uses'[reqs[q].token] >= uses[reqs[q].token] /\ uses[reqs[q].token] \in Nat
          /\ uses'[reqs[q].token] \in Nat
    BY <1>1, <2>2
  <2>4. QED
    BY <2>1, <2>3 DEF Inv, FirstUseWorks
<1>7. QED
  BY <1>2, <1>3, <1>4, <1>5, <1>6 DEF Inv

(* refresh() has looked at the session.                                      *)
LEMMA InvFind ==
  ASSUME Inv, Typed', NEW r \in Requests, Find(r)
  PROVE  Inv'
<1> DEFINE k == reqs[r].token
<1>0. /\ reqs[r].pc = "refreshing" /\ k \in DOMAIN sessions
      /\ UNCHANGED <<sessions, enabled, uses, ended, now>>
  BY DEF Find, Inv, Typed, ReqsOK, ReqOK, Presenting
<1>1. /\ reqs'[r].pc = (IF Found(k) THEN "found" ELSE "denied") /\ reqs'[r].token = k
      /\ \A q \in Requests : q # r => reqs'[q] = reqs[q]
  <2>1. reqs \in [Requests -> ReqType] /\ reqs[r] \in ReqType
    BY DEF Inv, Typed, ReqsOK
  <2>2. reqs' = [reqs EXCEPT ![r] = [reqs[r] EXCEPT !.pc = IF Found(k) THEN "found" ELSE "denied"]]
    BY DEF Find, Set
  <2>3. QED
    BY <2>1, <2>2 DEF ReqType
<1>2. Presented'
  BY <1>0, <1>1 DEF Inv, Presented, Presenting
<1>3. Spent'
  BY <1>0, <1>1 DEF Inv, Spent
<1>4. Tips'
  BY <1>0, <1>1 DEF Inv, Tips, Clean, Line, Presenting
<1>5. EndedOK'
  <2> SUFFICES ASSUME NEW e \in Ids, ended[e] # None, Passed(e)'
               PROVE  FALSE
    BY <1>0 DEF Inv, EndedOK, Line
  <2>1. ~Passed(e)
    BY DEF Inv, EndedOK
  <2>2. Found(k) /\ Line(k) = e
    BY <1>0, <1>1, <2>1 DEF Passed, Line
  <2>3. sessions[k].live /\ enabled
    BY <2>2 DEF Found
  <2>4. QED
    BY <1>0, <2>2, <2>3 DEF Inv, EndedOK
<1>6. FirstUseWorks'
  <2> SUFFICES ASSUME NEW q \in Requests, reqs'[q].pc = "denied"
               PROVE  LET m == reqs'[q].token
                      IN  \/ uses[m] > 1 \/ ~enabled \/ sessions[m].out
                          \/ now >= sessions[m].made + RefreshTTL
    BY <1>0 DEF FirstUseWorks
  <2>1. CASE q # r
    BY <1>1, <2>1 DEF Inv, FirstUseWorks
  <2>2. CASE q = r
    <3>1. ~Found(k) /\ reqs'[q].token = k
      BY <1>1, <2>2
    <3>2. sessions[k].made \in Nat /\ uses[k] \in Nat /\ now \in Nat
      BY <1>0, SessionIds DEF Inv, Typed, Row
    <3>3. ~sessions[k].live \/ ~enabled \/ now >= sessions[k].made + RefreshTTL
      BY <3>1, <3>2 DEF Found
    <3>4. sessions[k].live \/ sessions[k].out \/ uses[k] >= 2
      BY <1>0 DEF Inv, Spent
    <3>5. QED
      BY <3>1, <3>2, <3>3, <3>4
  <2>3. QED
    BY <2>1, <2>2
<1>7. QED
  BY <1>2, <1>3, <1>4, <1>5, <1>6 DEF Inv

(* The use ends the session.                                                 *)
LEMMA InvRotate ==
  ASSUME Inv, Typed', NEW r \in Requests, Rotate(r)
  PROVE  Inv'
<1> DEFINE k == reqs[r].token
<1>0. /\ reqs[r].pc = "found" /\ k \in DOMAIN sessions /\ k \in Ids
      /\ UNCHANGED <<enabled, uses, ended, now>>
  BY SessionIds DEF Rotate, Inv, Typed, ReqsOK, ReqOK, Presenting
<1>1. /\ reqs'[r].pc = "rotated" /\ reqs'[r].token = k
      /\ \A q \in Requests : q # r => reqs'[q] = reqs[q]
  <2>1. reqs \in [Requests -> ReqType] /\ reqs[r] \in ReqType
    BY DEF Inv, Typed, ReqsOK
  <2>2. reqs' = [reqs EXCEPT ![r] = [reqs[r] EXCEPT !.pc = "rotated"]]
    BY DEF Rotate, Set
  <2>3. QED
    BY <2>1, <2>2 DEF ReqType
<1>2. /\ DOMAIN sessions' = DOMAIN sessions
      /\ \A m \in DOMAIN sessions : m # k => sessions'[m] = sessions[m]
      /\ ~sessions'[k].live
      /\ sessions'[k].made = sessions[k].made /\ sessions'[k].line = sessions[k].line
      /\ sessions'[k].out = sessions[k].out
  <2>1. sessions \in [DOMAIN sessions -> Row] /\ sessions[k] \in Row
    BY <1>0, SessionIds DEF Inv, Typed
  <2>2. sessions' = [sessions EXCEPT ![k] = [sessions[k] EXCEPT !.live = FALSE]]
    BY DEF Rotate
  <2>3. sessions'[k] = [sessions[k] EXCEPT !.live = FALSE]
    BY <1>0, <2>1, <2>2
  <2> HIDE DEF k
  <2>4. QED
    BY <2>1, <2>2, <2>3 DEF Row
<1>l. \A m \in DOMAIN sessions : Line(m)' = Line(m)
  BY <1>2 DEF Line
<1> HIDE DEF k
<1>3. Presented'
  BY <1>0, <1>1 DEF Inv, Presented, Presenting, k
<1>4. uses[k] >= 1 /\ uses[k] \in Nat
  BY <1>0 DEF Inv, Typed, Presented, Presenting, k
<1>5. Spent'
  <2>1. \A m \in DOMAIN sessions : sessions'[m].live \/ sessions'[m].out \/ uses[m] >= 1
    BY <1>2, <1>4 DEF Inv, Spent
  <2>2. ASSUME NEW q \in Requests, q # r, reqs[q].pc \in {"refreshing", "found"}
        PROVE  \/ sessions'[reqs[q].token].live \/ sessions'[reqs[q].token].out
               \/ uses[reqs[q].token] >= 2
    <3>1. reqs[q].token \in DOMAIN sessions
      BY <2>2 DEF Inv, Typed, ReqsOK, ReqOK, Presenting
    <3>2. reqs[q].token = k => uses[k] >= 2
      BY <1>0, <2>2 DEF Inv, Presented, Presenting, k
    <3>3. QED
      BY <1>2, <2>2, <3>1, <3>2 DEF Inv, Spent
  <2>3. ASSUME NEW q \in Requests, q # r, reqs[q].pc = "rotated"
        PROVE  ~sessions'[reqs[q].token].live
    <3>1. reqs[q].token \in DOMAIN sessions
      BY <2>3 DEF Inv, Typed, ReqsOK, ReqOK, Presenting
    <3>2. QED
      BY <1>2, <2>3, <3>1 DEF Inv, Spent
  <2>4. QED
    BY <1>0, <1>1, <1>2, <2>1, <2>2, <2>3 DEF Spent
<1>6. Tips'
  <2> SUFFICES ASSUME NEW a \in DOMAIN sessions, NEW m \in DOMAIN sessions, a < m,
                      Line(a) = Line(m), Clean(Line(a))
               PROVE  /\ ~sessions'[a].live
                      /\ uses[a] >= 1
                      /\ \A q \in Requests : reqs'[q].pc \in Presenting => reqs'[q].token # a
    BY <1>0, <1>2, <1>l DEF Tips, Clean, Line
  <2>1. /\ ~sessions[a].live /\ uses[a] >= 1
        /\ \A q \in Requests : reqs[q].pc \in Presenting => reqs[q].token # a
    BY DEF Inv, Tips
  <2>2. QED
    BY <1>0, <1>1, <1>2, <2>1 DEF Presenting, k
<1>7. EndedOK'
  <2> SUFFICES ASSUME NEW e \in Ids, ended[e] # None
               PROVE  /\ e \in DOMAIN sessions /\ ended[e] \in Nat /\ ~Passed(e)'
                      /\ \A m \in DOMAIN sessions : Line(m) = e =>
                           sessions'[m].made <= ended[e] /\ (sessions'[m].live => ~enabled)
    BY <1>0, <1>2, <1>l DEF EndedOK
  <2>1. /\ e \in DOMAIN sessions /\ ended[e] \in Nat /\ ~Passed(e)
        /\ \A m \in DOMAIN sessions : Line(m) = e =>
             sessions[m].made <= ended[e] /\ (sessions[m].live => ~enabled)
    BY DEF Inv, EndedOK
  <2>2. ~Passed(e)'
    <3>1. ASSUME NEW q \in Requests, reqs'[q].pc \in {"found", "rotated"}
          PROVE  /\ reqs[q].pc \in {"found", "rotated"} /\ reqs'[q].token = reqs[q].token
                 /\ reqs[q].token \in DOMAIN sessions
      <4>1. reqs[q].pc \in {"found", "rotated"} /\ reqs'[q].token = reqs[q].token
        BY <1>0, <1>1, <3>1 DEF k
      <4>2. QED
        BY <4>1 DEF Inv, Typed, ReqsOK, ReqOK, Presenting
    <3>2. QED
      BY <1>2, <2>1, <3>1 DEF Passed, Line
  <2>3. QED
    BY <1>2, <2>1, <2>2
<1>8. FirstUseWorks'
  <2> SUFFICES ASSUME NEW q \in Requests, reqs'[q].pc = "denied"
               PROVE  LET m == reqs'[q].token
                      IN  \/ uses[m] > 1 \/ ~enabled \/ sessions'[m].out
                          \/ now >= sessions'[m].made + RefreshTTL
    BY <1>0 DEF FirstUseWorks
  <2>1. reqs'[q] = reqs[q] /\ reqs[q].token \in DOMAIN sessions
    BY <1>1 DEF Inv, Typed, ReqsOK, ReqOK
  <2>2. QED
    BY <1>2, <2>1 DEF Inv, FirstUseWorks
<1>9. QED
  BY <1>3, <1>5, <1>6, <1>7, <1>8 DEF Inv

(* A new session is the last of its login: of a new one, or of the login whose *)
(* token has been used for it, which had no other live session then.         *)
LEMMA InvNew ==
  ASSUME Inv, Typed', NEW r \in Requests, NEW line \in 1..NextId, Issued(line),
         line = NextId \/ (reqs[r].pc = "rotated" /\ line = Line(reqs[r].token)),
         reqs'[r].pc \notin Presenting \cup {"denied"},
         \A q \in Requests : q # r => reqs'[q] = reqs[q],
         \/ ended' = ended
         \/ ~enabled /\ line = NextId /\ ended' = [ended EXCEPT ![NextId] = now],
         UNCHANGED <<enabled, uses, now>>
  PROVE  Inv'
<1>0. /\ NextId \in Nat /\ now \in Nat
      /\ DOMAIN sessions = 1..(NextId - 1)
      /\ DOMAIN sessions' = DOMAIN sessions \cup {NextId}
      /\ NextId \notin DOMAIN sessions /\ NextId \in Ids
      /\ \A k \in DOMAIN sessions : sessions'[k] = sessions[k] /\ k < NextId
      /\ sessions'[NextId] = [live |-> TRUE, made |-> now, line |-> line, out |-> FALSE]
  BY SessionIds, IssuedRows DEF Inv, Typed
<1>1. /\ sessions'[NextId].live /\ sessions'[NextId].made = now
      /\ sessions'[NextId].line = line
  BY <1>0
<1>2. \A q \in Requests : reqs[q].pc \in Presenting \cup {"denied"} =>
        reqs[q].token \in DOMAIN sessions /\ reqs[q].token # NextId
  BY <1>0 DEF Inv, Typed, ReqsOK, ReqOK
<1>3. \A q \in Requests : reqs'[q].pc \in Presenting \cup {"denied"} =>
        q # r /\ reqs'[q] = reqs[q]
  OBVIOUS
<1>l. /\ \A m \in DOMAIN sessions : Line(m)' = Line(m) /\ Line(m) \in 1..m
      /\ \A m : m = NextId => Line(m)' = line
  BY <1>0, <1>1 DEF Line, Inv, Typed, RowsOK
<1>4. Presented'
  BY <1>3 DEF Inv, Presented
<1>5. Spent'
  <2>1. \A m \in DOMAIN sessions' : sessions'[m].live \/ sessions'[m].out \/ uses[m] >= 1
    BY <1>0, <1>1 DEF Inv, Spent
  <2>2. ASSUME NEW q \in Requests, reqs'[q].pc \in Presenting
        PROVE  /\ reqs[q].pc = reqs'[q].pc /\ reqs'[q].token = reqs[q].token
               /\ sessions'[reqs[q].token] = sessions[reqs[q].token]
    BY <1>0, <1>2, <1>3, <2>2
  <2>3. QED
    BY <2>1, <2>2 DEF Inv, Spent, Presenting
<1>6. Tips'
  <2> SUFFICES ASSUME NEW a \in DOMAIN sessions', NEW m \in DOMAIN sessions', a < m,
                      Line(a)' = Line(m)', Clean(Line(a))'
               PROVE  /\ ~sessions'[a].live
                      /\ uses[a] >= 1
                      /\ \A q \in Requests : reqs'[q].pc \in Presenting => reqs'[q].token # a
    BY DEF Tips
  <2>1. a \in DOMAIN sessions
    BY <1>0
  <2>2. Clean(Line(a))
    BY <1>0, <1>l, <2>1 DEF Clean
  <2>3. \A x, y \in DOMAIN sessions : x < y /\ Line(x) = Line(a) /\ Line(y) = Line(a) =>
          /\ ~sessions[x].live /\ uses[x] >= 1
          /\ \A q \in Requests : reqs[q].pc \in Presenting => reqs[q].token # x
    BY <2>2 DEF Inv, Tips
  <2>4. CASE \E y \in DOMAIN sessions : a < y /\ Line(y) = Line(a)
    BY <1>0, <1>3, <2>1, <2>3, <2>4
  <2>5. CASE ~ \E y \in DOMAIN sessions : a < y /\ Line(y) = Line(a)
    <3>1. m = NextId /\ Line(a) = line
      BY <1>0, <1>l, <2>1, <2>5
    <3>2. Line(a) # NextId
      BY <1>0, <1>l, <2>1
    <3>3. reqs[r].pc = "rotated" /\ line = Line(reqs[r].token)
      BY <3>1, <3>2
    <3>4. reqs[r].token \in DOMAIN sessions /\ reqs[r].pc \in Presenting
      BY <1>2, <3>3 DEF Presenting
    <3>5. ~(reqs[r].token < a)
      BY <2>1, <2>3, <3>1, <3>3, <3>4
    <3>6. a = reqs[r].token
      BY <1>0, <2>1, <2>5, <3>1, <3>3, <3>4, <3>5
    <3>7. ~sessions[a].live /\ uses[a] >= 1
      BY <3>3, <3>4, <3>6 DEF Inv, Spent, Presented
    <3>8. uses[a] <= 1 /\ uses[a] \in Nat
      BY <1>0, <2>1, <2>2, SessionIds DEF Clean, Inv, Typed
    <3>9. \A q \in Requests : q # r /\ reqs[q].pc \in Presenting => reqs[q].token # a
      BY <3>4, <3>6, <3>8 DEF Inv, Presented
    <3>10. QED
      BY <1>0, <1>3, <2>1, <3>7, <3>9
  <2>6. QED
    BY <2>4, <2>5
<1>7. EndedOK'
  <2> SUFFICES ASSUME NEW e \in Ids, ended'[e] # None
               PROVE  /\ e \in DOMAIN sessions' /\ ended'[e] \in Nat /\ ~Passed(e)'
                      /\ \A m \in DOMAIN sessions' : Line(m)' = e =>
                           sessions'[m].made <= ended'[e] /\ (sessions'[m].live => ~enabled)
    BY DEF EndedOK
  <2>0. ended \in [Ids -> Nat \cup {None}]
    BY DEF Inv, Typed
  <2>p. Passed(e)' => Passed(e) /\ e # NextId
    <3>1. ASSUME NEW q \in Requests, reqs'[q].pc \in {"found", "rotated"}
          PROVE  /\ reqs[q].pc \in {"found", "rotated"} /\ reqs'[q].token = reqs[q].token
                 /\ reqs[q].token \in DOMAIN sessions
      BY <1>2, <1>3, <3>1 DEF Presenting
    <3>2. QED
      BY <1>0, <1>l, <3>1 DEF Passed
  <2>1. CASE e # NextId
    <3>0. ended'[e] = ended[e]
      BY <2>0, <2>1
    <3>1. /\ e \in DOMAIN sessions /\ ended[e] \in Nat /\ ~Passed(e)
          /\ \A m \in DOMAIN sessions : Line(m) = e =>
               sessions[m].made <= ended[e] /\ (sessions[m].live => ~enabled)
      BY <3>0 DEF Inv, EndedOK
    <3>2. line # e
      <4>1. line # NextId => Passed(line)
        BY DEF Passed
      <4>2. QED
        BY <2>1, <3>1, <4>1
    <3>3. QED
      BY <1>0, <1>l, <2>p, <3>0, <3>1, <3>2
  <2>2. CASE e = NextId
    <3>1. ended[NextId] = None
      BY <1>0 DEF Inv, EndedOK
    <3>2. ~enabled /\ ended' = [ended EXCEPT ![NextId] = now]
      BY <2>2, <3>1
    <3>3. ended'[e] = now
      BY <1>0, <2>0, <2>2, <3>2
    <3>4. \A m \in DOMAIN sessions : Line(m)' # e
      BY <1>0, <1>l, <2>2
    <3>5. QED
      BY <1>0, <1>1, <2>2, <2>p, <3>2, <3>3, <3>4
  <2>3. QED
    BY <2>1, <2>2
<1>8. FirstUseWorks'
  <2> SUFFICES ASSUME NEW q \in Requests, reqs'[q].pc = "denied"
               PROVE  LET m == reqs'[q].token
                      IN  \/ uses[m] > 1 \/ ~enabled \/ sessions'[m].out
                          \/ now >= sessions'[m].made + RefreshTTL
    BY DEF FirstUseWorks
  <2>1. reqs'[q] = reqs[q] /\ reqs[q].token \in DOMAIN sessions
    BY <1>2, <1>3
  <2>2. sessions'[reqs[q].token] = sessions[reqs[q].token]
    BY <1>0, <2>1
  <2>3. QED
    BY <2>1, <2>2 DEF Inv, FirstUseWorks
<1>9. QED
  BY <1>4, <1>5, <1>6, <1>7, <1>8 DEF Inv

(* A logout ends the session its access token names, and perhaps its login.   *)
LEMMA InvLogout ==
  ASSUME Inv, Typed', NEW r \in Requests, NEW k \in DOMAIN sessions,
         sessions' = [sessions EXCEPT ![k].live = FALSE, ![k].out = TRUE],
         ended' = IF Ends(Line(k), k) /\ ended[Line(k)] = None
                  THEN [ended EXCEPT ![Line(k)] = now] ELSE ended,
         reqs'[r].pc \notin Presenting \cup {"denied"},
         \A q \in Requests : q # r => reqs'[q] = reqs[q],
         UNCHANGED <<enabled, uses, now>>
  PROVE  Inv'
<1>1. /\ DOMAIN sessions' = DOMAIN sessions
      /\ \A m \in DOMAIN sessions : m # k => sessions'[m] = sessions[m]
      /\ ~sessions'[k].live /\ sessions'[k].out
      /\ sessions'[k].made = sessions[k].made /\ sessions'[k].line = sessions[k].line
  <2>1. sessions \in [DOMAIN sessions -> Row] /\ sessions[k] \in Row
    BY SessionIds DEF Inv, Typed
  <2>2. sessions'[k] = [sessions[k] EXCEPT !.live = FALSE, !.out = TRUE]
    BY <2>1
  <2>3. QED
    BY <2>1, <2>2 DEF Row
<1>2. \A q \in Requests : reqs'[q].pc \in Presenting \cup {"denied"} =>
        /\ q # r /\ reqs'[q] = reqs[q] /\ reqs[q].token \in DOMAIN sessions
  BY DEF Inv, Typed, ReqsOK, ReqOK
<1>l. \A m \in DOMAIN sessions : Line(m)' = Line(m) /\ Line(m) \in 1..m /\ m \in Ids
  BY <1>1, SessionIds DEF Line, Inv, Typed, RowsOK
<1>3. Presented'
  BY <1>2 DEF Inv, Presented
<1>4. Spent'
  <2>1. \A m \in DOMAIN sessions : sessions'[m].live \/ sessions'[m].out \/ uses[m] >= 1
    BY <1>1 DEF Inv, Spent
  <2>2. \A q \in Requests : reqs'[q].pc \in {"refreshing", "found"} =>
          \/ sessions'[reqs'[q].token].live \/ sessions'[reqs'[q].token].out
          \/ uses[reqs'[q].token] >= 2
    BY <1>1, <1>2 DEF Inv, Spent, Presenting
  <2>3. \A q \in Requests : reqs'[q].pc = "rotated" => ~sessions'[reqs'[q].token].live
    BY <1>1, <1>2 DEF Inv, Spent, Presenting
  <2>4. QED
    BY <1>1, <2>1, <2>2, <2>3 DEF Spent
<1>5. Tips'
  <2> SUFFICES ASSUME NEW a \in DOMAIN sessions, NEW m \in DOMAIN sessions, a < m,
                      Line(a) = Line(m), Clean(Line(a))
               PROVE  /\ ~sessions'[a].live
                      /\ uses[a] >= 1
                      /\ \A q \in Requests : reqs'[q].pc \in Presenting => reqs'[q].token # a
    BY <1>1, <1>l DEF Tips, Clean
  <2>1. /\ ~sessions[a].live /\ uses[a] >= 1
        /\ \A q \in Requests : reqs[q].pc \in Presenting => reqs[q].token # a
    BY DEF Inv, Tips
  <2>2. QED
    BY <1>1, <1>2, <2>1
<1>6. EndedOK'
  <2> SUFFICES ASSUME NEW e \in Ids, ended'[e] # None
               PROVE  /\ e \in DOMAIN sessions /\ ended'[e] \in Nat /\ ~Passed(e)'
                      /\ \A m \in DOMAIN sessions : Line(m) = e =>
                           sessions'[m].made <= ended'[e] /\ (sessions'[m].live => ~enabled)
    BY <1>1, <1>l DEF EndedOK
  <2>0. Line(k) \in DOMAIN sessions /\ Line(k) \in Ids
    <3>1. NextId \in Nat /\ DOMAIN sessions = 1..(NextId - 1) /\ DOMAIN sessions \subseteq Ids
      BY SessionIds DEF Inv, Typed
    <3>2. QED
      BY <1>l, <3>1
  <2>1. Passed(e)' => Passed(e)
    <3>1. ASSUME NEW q \in Requests, reqs'[q].pc \in {"found", "rotated"}
          PROVE  /\ reqs[q].pc \in {"found", "rotated"} /\ reqs'[q].token = reqs[q].token
                 /\ reqs[q].token \in DOMAIN sessions
      BY <1>2, <3>1 DEF Presenting
    <3>2. QED
      BY <1>l, <3>1 DEF Passed
  <2>2. CASE ended[e] # None
    <3>1. ended'[e] = ended[e]
      BY <2>0, <2>2 DEF Inv, Typed
    <3>2. QED
      BY <1>1, <2>1, <2>2, <3>1 DEF Inv, EndedOK
  <2>3. CASE ended[e] = None
    <3>1. e = Line(k) /\ Ends(e, k) /\ ended'[e] = now
      BY <2>0, <2>3 DEF Inv, Typed
    <3>2. \A m \in DOMAIN sessions : sessions'[m].made <= now
      BY <1>1 DEF Inv, Typed, RowsOK
    <3>3. \A m \in DOMAIN sessions : Line(m) = e => ~sessions'[m].live
      BY <1>1, <3>1 DEF Ends
    <3>4. QED
      BY <2>0, <2>1, <3>1, <3>2, <3>3 DEF Ends, Inv, Typed
  <2>4. QED
    BY <2>2, <2>3
<1>7. FirstUseWorks'
  <2> SUFFICES ASSUME NEW q \in Requests, reqs'[q].pc = "denied"
               PROVE  LET m == reqs'[q].token
                      IN  \/ uses[m] > 1 \/ ~enabled \/ sessions'[m].out
                          \/ now >= sessions'[m].made + RefreshTTL
    BY DEF FirstUseWorks
  <2>1. QED
    BY <1>1, <1>2 DEF Inv, FirstUseWorks
<1>8. QED
  BY <1>3, <1>4, <1>5, <1>6, <1>7 DEF Inv

(* The operator ends every login that no refresh is past its check for.       *)
LEMMA InvDisable ==
  ASSUME Inv, Typed', Disable
  PROVE  Inv'
<1>1. UNCHANGED <<sessions, reqs, uses, now>> /\ ~enabled'
        /\ ended' = [k \in Ids |-> IF k \in DOMAIN sessions /\ ended[k] = None /\ ~Passed(k)
                                   THEN now ELSE ended[k]]
  BY DEF Disable
<1>2. EndedOK'
  <2> SUFFICES ASSUME NEW e \in Ids, ended'[e] # None
               PROVE  /\ e \in DOMAIN sessions /\ ended'[e] \in Nat /\ ~Passed(e)
                      /\ \A m \in DOMAIN sessions : Line(m) = e => sessions[m].made <= ended'[e]
    BY <1>1 DEF EndedOK, Passed, Line
  <2>1. CASE ended[e] # None
    BY <1>1, <2>1 DEF Inv, EndedOK
  <2>2. CASE ended[e] = None
    BY <1>1, <2>2 DEF Inv, Typed, RowsOK
  <2>3. QED
    BY <2>1, <2>2
<1>3. Presented' /\ Spent' /\ FirstUseWorks'
  BY <1>1 DEF Inv, Presented, Spent, FirstUseWorks
<1>4. Tips'
  BY <1>1 DEF Inv, Tips, Clean, Line
<1>5. QED
  BY <1>2, <1>3, <1>4 DEF Inv

LEMMA InvNext == Inv /\ [Next]_vars => Inv'
<1> SUFFICES ASSUME Inv, [Next]_vars
             PROVE  Inv'
  OBVIOUS
<1>t. Typed /\ Typed'
  BY TypedNext DEF Inv
<1>n. /\ now \in Nat /\ NextId \in Nat
      /\ reqs \in [Requests -> ReqType]
      /\ \A r \in Requests : reqs[r] \in ReqType /\ ReqOK(reqs[r], DOMAIN sessions)
  BY <1>t, SessionIds DEF Typed, ReqsOK
(* The request moves to q, and q does not refresh.                            *)
<1>1. ASSUME NEW r \in Requests, NEW q, Set(r, q), q.pc \notin Presenting \cup {"denied"}
      PROVE  /\ reqs'[r].pc \notin Presenting \cup {"denied"}
             /\ \A x \in Requests : x # r => reqs'[x] = reqs[x]
  BY <1>n, <1>1 DEF Set
<1>2. ASSUME NEW r \in Requests, NEW q, Set(r, q), q.pc \notin Presenting \cup {"denied"},
             UNCHANGED <<sessions, uses, ended, enabled, now>>
      PROVE  Inv'
  BY <1>1, <1>2, <1>n, <1>t, InvQuiet
<1>3. \A pc \in {"ok", "refused", "checked", "failed"}, r \in Requests :
        [reqs[r] EXCEPT !.pc = pc].pc \notin Presenting \cup {"denied"}
  BY <1>n DEF ReqType, Presenting
<1>i. Idle.pc \notin Presenting \cup {"denied"}
  BY DEF Idle, Presenting
<1>4. ASSUME NEW r \in Requests, NEW kind \in Kinds, Send(r, kind)
      PROVE  Inv'
  <2> DEFINE n == [Idle EXCEPT !.pc = "sent", !.kind = kind, !.token = store[TabOf[r]]]
  <2>1. n.pc \notin Presenting \cup {"denied"}
    BY DEF Idle, Presenting
  <2>2. Set(r, n) /\ UNCHANGED <<sessions, uses, ended, enabled, now>>
    BY <1>4 DEF Send
  <2> HIDE DEF n
  <2>3. QED
    BY <1>2, <2>1, <2>2
<1>5. ASSUME NEW r \in Requests, Serve(r)
      PROVE  Inv'
  <2>0. UNCHANGED <<enabled, uses, now>> /\ reqs[r].pc = "sent"
    BY <1>5 DEF Serve
  <2>2. CASE /\ \/ \E pc \in {"ok", "refused", "checked"} : Set(r, [reqs[r] EXCEPT !.pc = pc])
                \/ Set(r, Idle)
             /\ UNCHANGED <<sessions, ended>>
    BY <1>2, <1>3, <1>i, <2>0, <2>2
  <2>3. CASE LET k == reqs[r].token IN
             /\ reqs[r].kind = "logout"
             /\ sessions' = [sessions EXCEPT ![k].live = FALSE, ![k].out = TRUE]
             /\ ended' = IF Ends(Line(k), k) /\ ended[Line(k)] = None
                         THEN [ended EXCEPT ![Line(k)] = now] ELSE ended
             /\ Set(r, [reqs[r] EXCEPT !.pc = "ok"])
    <3>1. reqs[r].token \in DOMAIN sessions
      BY <1>n, <2>0, <2>3 DEF ReqOK
    <3>2. /\ reqs'[r].pc \notin Presenting \cup {"denied"}
          /\ \A x \in Requests : x # r => reqs'[x] = reqs[x]
      BY <1>1, <1>3, <2>3
    <3>3. QED
      BY <1>t, <2>0, <2>3, <3>1, <3>2, InvLogout
  <2>4. QED
    BY <1>5, <2>2, <2>3 DEF Serve
<1>o. ASSUME NEW r \in Requests, OpenLogin(r)
      PROVE  Inv'
  <2> DEFINE n == [reqs[r] EXCEPT !.pc = "ok", !.got = NextId]
  <2>1. /\ Issued(NextId) /\ Set(r, n) /\ UNCHANGED <<enabled, uses, now>>
        /\ ended' = IF enabled THEN ended ELSE [ended EXCEPT ![NextId] = now]
    BY <1>o DEF OpenLogin
  <2>2. n.pc \notin Presenting \cup {"denied"}
    BY <1>n DEF ReqType, Presenting
  <2>3. NextId \in 1..NextId
    BY <2>1, <1>n DEF Issued, Ids
  <2> HIDE DEF n
  <2>4. /\ reqs'[r].pc \notin Presenting \cup {"denied"}
        /\ \A x \in Requests : x # r => reqs'[x] = reqs[x]
    BY <1>1, <2>1, <2>2
  <2>5. \/ ended' = ended
        \/ ~enabled /\ ended' = [ended EXCEPT ![NextId] = now]
    BY <2>1, Zenon
  <2>6. QED
    BY <1>t, <2>1, <2>3, <2>4, <2>5, InvNew
<1>h. ASSUME NEW r \in Requests, Throws(r)
      PROVE  Inv'
  BY <1>2, <1>3, <1>h DEF Throws
<1>6. ASSUME NEW r \in Requests, Answer(r) \/ Denied(r) \/ Lose(r)
      PROVE  Inv'
  BY <1>2, <1>6, <1>i DEF Answer, Denied, Lose
<1>7. ASSUME NEW r \in Requests, Refused(r)
      PROVE  Inv'
  <2> DEFINE k == store[TabOf[r]]
             n == [reqs[r] EXCEPT !.pc = "refreshing", !.token = k]
  <2>0. UNCHANGED <<sessions, enabled, ended, now>>
    BY <1>7 DEF Refused
  <2>1. CASE k # None /\ Set(r, n) /\ uses' = [uses EXCEPT ![k] = @ + 1]
    <3>1. k \in DOMAIN sessions
      BY <1>t, <2>1 DEF Typed, StoreOK
    <3>2. n.pc = "refreshing" /\ n.token = k
      BY <1>n DEF ReqType
    <3>3. reqs'[r] = n /\ \A q \in Requests : q # r => reqs'[q] = reqs[q]
      BY <1>n, <2>1 DEF Set
    <3> HIDE DEF n, k
    <3>4. QED
      BY <1>t, <2>0, <2>1, <3>1, <3>2, <3>3, InvPresent
  <2>2. CASE Set(r, Idle) /\ UNCHANGED uses
    BY <1>2, <1>i, <2>0, <2>2
  <2>3. QED
    BY <1>7, <2>1, <2>2 DEF Refused
<1>8. ASSUME NEW r \in Requests, Issue(r)
      PROVE  Inv'
  <2> DEFINE n == [reqs[r] EXCEPT !.pc = "issued", !.got = NextId]
  <2>1. n.pc \notin Presenting \cup {"denied"}
    BY <1>n DEF ReqType, Presenting
  <2>2. reqs[r].pc = "rotated" /\ Issued(Line(reqs[r].token)) /\ Set(r, n)
        /\ UNCHANGED <<enabled, uses, ended, now>>
    BY <1>8 DEF Issue
  <2>3. Line(reqs[r].token) \in 1..NextId
    <3>1. reqs[r].token \in DOMAIN sessions
      BY <1>n, <2>2 DEF ReqOK, Presenting
    <3>2. reqs[r].token \in 1..(NextId - 1) /\ Line(reqs[r].token) \in 1..reqs[r].token
      BY <1>t, <3>1, SessionIds DEF Typed, RowsOK, Line
    <3>3. QED
      BY <1>n, <3>2
  <2> HIDE DEF n
  <2>4. /\ reqs'[r].pc \notin Presenting \cup {"denied"}
        /\ \A x \in Requests : x # r => reqs'[x] = reqs[x]
    BY <1>1, <2>1, <2>2
  <2>5. QED
    BY <1>t, <2>2, <2>3, <2>4, InvNew
<1>9. ASSUME NEW r \in Requests, Arrive(r)
      PROVE  Inv'
  <2> DEFINE n == [reqs[r] EXCEPT !.pc = "sent", !.token = reqs[r].got, !.again = TRUE]
  <2>1. n.pc \notin Presenting \cup {"denied"}
    BY <1>n DEF ReqType, Presenting
  <2>2. Set(r, n) /\ UNCHANGED <<sessions, uses, ended, enabled, now>>
    BY <1>9 DEF Arrive
  <2> HIDE DEF n
  <2>3. QED
    BY <1>2, <2>1, <2>2
<1>10. ASSUME NEW t \in Tabs, Reload(t)
       PROVE  Inv'
  <2>1. \A r \in Requests : reqs'[r].pc = reqs[r].pc /\ reqs'[r].token = reqs[r].token
    <3>1. \A r \in Requests : LET n == [reqs[r] EXCEPT !.here = FALSE]
                              IN  n.pc = reqs[r].pc /\ n.token = reqs[r].token
      BY <1>n DEF ReqType
    <3>2. QED
      BY <1>10, <3>1 DEF Reload
  <2>2. QED
    BY <1>10, <1>n, <1>t, <2>1, InvQuiet DEF Reload
<1>11. CASE Tick
  <2>1. now' >= now
    BY <1>11, <1>n DEF Tick
  <2>2. QED
    BY <1>11, <1>t, <2>1, InvQuiet DEF Tick
<1>12. CASE UNCHANGED vars
  BY <1>12, <1>n, <1>t, InvQuiet DEF vars
<1>13. QED
  BY <1>4, <1>5, <1>o, <1>h, <1>6, <1>7, <1>8, <1>9, <1>10, <1>11, <1>12, <1>t,
     InvFind, InvRotate, InvDisable DEF Next, Kinds

LEMMA InvAlways == Spec => []Inv
BY InvInit, InvNext, PTL DEF Spec
-----------------------------------------------------------------------------
(* AuthSession's TypeOK: tokens are those of a session there is, and a request *)
(* under way has the token its next step needs.                              *)
THEOREM TypeCorrect == Spec => []TypeOK
<1>1. Inv => TypeOK
  <2> SUFFICES ASSUME Inv
               PROVE  TypeOK
    OBVIOUS
  <2>1. DOMAIN sessions \in {1..n : n \in 0..MaxSessions}
    BY DEF Inv, Typed, RowsOK
  <2>2. \A k \in DOMAIN sessions : /\ sessions[k].live \in BOOLEAN
                                   /\ sessions[k].made \in 0..now
                                   /\ sessions[k].line \in 1..k
    BY SessionIds DEF Inv, Typed, RowsOK, Row
  <2>3. \A k \in DOMAIN sessions : k # None
    BY SessionIds DEF Inv, Typed, Ids
  <2>4. QED
    BY <2>1, <2>2, <2>3 DEF Inv, Typed, StoreOK, ReqsOK, ReqOK, TypeOK, Presenting
<1>2. QED
  BY <1>1, InvAlways, PTL

(* A refresh token presented once is not turned down by refresh()'s checks while  *)
(* its session lasts: tabs, lost answers and reloads cost a client its session by *)
(* presenting a token twice only.  (A refresh that throws is answered 401 too.)   *)
THEOREM FirstUseIsGood == Spec => []FirstUseWorks
<1>1. Inv => FirstUseWorks
  BY DEF Inv
<1>2. QED
  BY <1>1, InvAlways, PTL

(* As long as no token of a login was presented twice, the login has at most    *)
(* one live session: what a logout ends is all there is.                      *)
THEOREM LoginHasOneSession == Spec => []OneLiveSession
<1>1. Inv => OneLiveSession
  <2> SUFFICES ASSUME Inv, NEW line \in DOMAIN sessions, Clean(line)
               PROVE  Cardinality({k \in DOMAIN sessions : sessions[k].live /\ Line(k) = line}) <= 1
    BY DEF OneLiveSession, Clean
  <2> DEFINE S == {k \in DOMAIN sessions : sessions[k].live /\ Line(k) = line}
  <2>1. \A k, m \in S : ~(k < m)
    BY DEF Inv, Tips
  <2>2. \A k, m \in S : k = m
    <3>1. NextId \in Nat /\ DOMAIN sessions = 1..(NextId - 1)
      BY SessionIds DEF Inv, Typed
    <3>2. QED
      BY <2>1, <3>1
  <2>3. S = {} \/ \E k : S = {k}
    <3> HIDE DEF S
    <3>1. QED
      BY <2>2
  <2>4. Cardinality(S) <= 1
    <3> HIDE DEF S
    <3>1. CASE S = {}
      <4>1. Cardinality(S) = 0
        BY <3>1, FS_EmptySet
      <4>2. QED
        BY <4>1
    <3>2. CASE \E k : S = {k}
      <4>1. Cardinality(S) = 1
        BY <3>2, FS_Singleton
      <4>2. QED
        BY <4>1
    <3>3. QED
      BY <2>3, <3>1, <3>2
  <2>5. QED
    BY <2>4
<1>2. QED
  BY <1>1, InvAlways, PTL

(* A login that was ended, by a logout or with its user, is let through only   *)
(* as long as its last access token lasts, whatever refreshes were under way.  *)
THEOREM EndedIsOut == Spec => EndedMeansOut
<1>1. Inv /\ [Next]_vars =>
        \A r \in Requests : Served(r) =>
          LET line == Line(reqs[r].token)
          IN  ended[line] # None => now < ended[line] + AccessTTL
  <2> SUFFICES ASSUME Inv, [Next]_vars, NEW r \in Requests, Served(r),
                      ended[Line(reqs[r].token)] # None
               PROVE  now < ended[Line(reqs[r].token)] + AccessTTL
    OBVIOUS
  <2> DEFINE k == reqs[r].token
  <2>1. reqs[r].pc = "sent" /\ reqs'[r].pc = "ok" /\ reqs[r].kind # "login"
    BY DEF Served
  <2>2. k \in DOMAIN sessions
    BY <2>1 DEF Inv, Typed, ReqsOK, ReqOK
  <2>3. Serve(r)
    <3>1. reqs \in [Requests -> ReqType]
      BY DEF Inv, Typed, ReqsOK
    <3>2. ASSUME NEW q \in Requests, NEW n, Set(q, n),
                 q # r \/ reqs[q].pc # "sent" \/ n.pc # "ok"
          PROVE  FALSE
      BY <2>1, <3>1, <3>2 DEF Set
    <3>3. ASSUME reqs' = reqs
          PROVE  FALSE
      BY <2>1, <3>3
    <3>4. ASSUME NEW q \in Requests, Serve(q), q # r
          PROVE  FALSE
      BY <3>2, <3>4 DEF Serve
    <3>5. ASSUME NEW q \in Requests, NEW kind, Send(q, kind)
          PROVE  FALSE
      BY <3>2, <3>5 DEF Send
    <3>6. ASSUME NEW q \in Requests,
                 \/ OpenLogin(q) \/ Answer(q) \/ Find(q) \/ Rotate(q) \/ Issue(q)
                 \/ Throws(q) \/ Arrive(q) \/ Denied(q)
          PROVE  FALSE
      BY <3>2, <3>6 DEF OpenLogin, Answer, Find, Rotate, Issue, Throws, Arrive, Denied
    <3>7. ASSUME NEW q \in Requests, Refused(q)
          PROVE  FALSE
      BY <3>2, <3>7 DEF Refused
    <3>8. ASSUME NEW q \in Requests, Lose(q)
          PROVE  FALSE
      BY <3>2, <3>8 DEF Lose, Idle
    <3>9. ASSUME NEW t \in Tabs, Reload(t)
          PROVE  FALSE
      <4>1. [reqs[r] EXCEPT !.here = FALSE].pc = reqs[r].pc
        BY <3>1 DEF ReqType
      <4>2. QED
        BY <2>1, <3>9, <4>1 DEF Reload
    <3>10. ASSUME Disable \/ Tick \/ UNCHANGED vars
           PROVE  FALSE
      BY <3>3, <3>10 DEF Disable, Tick, vars
    <3>11. QED
      BY <3>4, <3>5, <3>6, <3>7, <3>8, <3>9, <3>10 DEF Next
  <2>4. now < sessions[k].made + AccessTTL
    <3> DEFINE q == reqs[r]
    <3>1. reqs \in [Requests -> ReqType]
      BY DEF Inv, Typed, ReqsOK
    <3>2. ASSUME NEW n, Set(r, n), n.pc # "ok"
          PROVE  FALSE
      BY <2>1, <3>1, <3>2 DEF Set
    <3>3. q \in ReqType
      BY <3>1
    <3>4. [q EXCEPT !.pc = "refused"].pc = "refused"
      BY <3>3 DEF ReqType
    <3>5. SUFFICES ASSUME ~(now < sessions[q.token].made + AccessTTL)
                   PROVE  FALSE
      OBVIOUS
    <3>6. Set(r, [q EXCEPT !.pc = "refused"])
      BY <2>1, <2>3, <3>5 DEF Serve
    <3> HIDE DEF q
    <3>7. QED
      BY <3>2, <3>4, <3>6
  <2>5. /\ Line(k) \in Ids /\ sessions[k].made \in Nat /\ now \in Nat
    <3>1. k \in 1..(NextId - 1) /\ NextId \in Nat /\ Line(k) \in 1..k
            /\ 1..(NextId - 1) \subseteq Ids /\ sessions[k] \in Row
      BY <2>2, SessionIds DEF Inv, Typed, RowsOK, Line
    <3>2. QED
      BY <3>1 DEF Row, Inv, Typed
  <2>6. sessions[k].made <= ended[Line(k)] /\ ended[Line(k)] \in Nat
    BY <2>2, <2>5 DEF Inv, EndedOK
  <2>7. QED
    BY <2>4, <2>5, <2>6
<1>2. QED
  BY <1>1, InvAlways, PTL DEF Spec, EndedMeansOut
-----------------------------------------------------------------------------
(* A line is named by its first session, and a token is used once it is made.  *)
Heads ==
  /\ \A k \in DOMAIN sessions : Line(k) \in DOMAIN sessions /\ Line(Line(k)) = Line(k)
  /\ \A k \in Ids : k \notin DOMAIN sessions => uses[k] = 0

(* What a step may do to the logins: nothing, ask for one or give it up,       *)
(* present a token, make a session, end one (and with it, perhaps, its login),  *)
(* or deactivate the user.                                                   *)
Quiet == UNCHANGED <<sessions, uses, ended, enabled>>

Asked(r) ==
  /\ \/ Due' = Due \ {r}
     \/ /\ enabled
        /\ Due' = Due \cup {r}
  /\ Quiet

Used(k) ==
  /\ uses' = [uses EXCEPT ![k] = @ + 1]
  /\ UNCHANGED <<sessions, ended, enabled, Due>>

Opened(r) ==
  /\ r \in Due /\ Due' = Due \ {r}
  /\ Issued(NextId)
  /\ ended' = IF enabled THEN ended ELSE [ended EXCEPT ![NextId] = now]
  /\ UNCHANGED <<uses, enabled, now>>

Made(line) ==
  /\ \E r \in Requests : reqs[r].pc = "rotated" /\ line = Line(reqs[r].token)
  /\ Issued(line)
  /\ UNCHANGED <<uses, ended, enabled, now, Due>>

Died(k) ==
  /\ DOMAIN sessions' = DOMAIN sessions
  /\ \A m \in DOMAIN sessions : /\ sessions'[m].line = sessions[m].line
                                /\ sessions'[m].live <=> (m # k /\ sessions[m].live)
  /\ \/ ended' = ended
     \/ Ends(Line(k), k) /\ ended' = [ended EXCEPT ![Line(k)] = now]
  /\ UNCHANGED <<uses, enabled, Due>>

LoginStep ==
  \/ Quiet /\ Due' = Due
  \/ \E r \in Requests : Asked(r) \/ Opened(r)
  \/ \E k \in DOMAIN sessions : Used(k) \/ Died(k)
  \/ \E line \in 1..NextId : Made(line)
  \/ Disable

LEMMA DueSet ==
  ASSUME Inv, NEW r \in Requests, NEW q, Set(r, q)
  PROVE  Due' = IF q.pc = "checked" THEN Due \cup {r} ELSE Due \ {r}
<1>1. /\ reqs \in [Requests -> ReqType]
      /\ reqs'[r] = q /\ \A x \in Requests : x # r => reqs'[x] = reqs[x]
  BY DEF Inv, Typed, ReqsOK, Set
<1>2. Due' = {x \in Requests : reqs'[x].pc = "checked"}
  BY DEF Due
<1>3. \A x \in Requests : x \in Due <=> reqs[x].pc = "checked"
  BY DEF Due
<1>4. Due \subseteq Requests
  BY DEF Due
<1>5. CASE q.pc = "checked"
  BY <1>1, <1>2, <1>3, <1>4, <1>5
<1>6. CASE q.pc # "checked"
  BY <1>1, <1>2, <1>3, <1>4, <1>6
<1>7. QED
  BY <1>5, <1>6

(* A request that moves, and was not let in and is not now.                   *)
LEMMA DueKept ==
  ASSUME Inv, NEW r \in Requests, NEW q, Set(r, q), reqs[r].pc # "checked", q.pc # "checked"
  PROVE  Due' = Due
<1>1. r \notin Due
  BY DEF Due
<1>2. QED
  BY <1>1, DueSet

LEMMA LoginSteps == Inv /\ [Next]_vars => LoginStep
<1> SUFFICES ASSUME Inv, [Next]_vars
             PROVE  LoginStep
  OBVIOUS
<1>t. /\ sessions \in [DOMAIN sessions -> Row] /\ NextId \in Nat
      /\ DOMAIN sessions = 1..(NextId - 1)
      /\ \A r \in Requests : ReqOK(reqs[r], DOMAIN sessions) /\ TabOf[r] \in Tabs
                               /\ reqs[r] \in ReqType
      /\ \A t \in Tabs : store[t] \in DOMAIN sessions \cup {None}
      /\ \A k \in DOMAIN sessions : Line(k) \in 1..k
  BY SessionIds DEF Inv, Typed, ReqsOK, StoreOK, RowsOK, Line
(* A request moves, and is not let in.                                        *)
<1>a. ASSUME NEW r \in Requests, NEW q, Set(r, q), q.pc # "checked", Quiet
      PROVE  LoginStep
  <2>1. Due' = Due \ {r}
    BY <1>a, DueSet
  <2>2. Asked(r)
    BY <1>a, <2>1, Zenon DEF Asked
  <2>3. QED
    BY <2>2, Zenon DEF LoginStep
<1>e. \A r \in Requests : \A pc \in ReqPcs : [reqs[r] EXCEPT !.pc = pc].pc = pc
  BY <1>t DEF ReqType
<1>1. ASSUME NEW r \in Requests, Serve(r)
      PROVE  LoginStep
  <2> DEFINE k == reqs[r].token
  <2>0. UNCHANGED <<enabled, uses, now>> /\ reqs[r].pc = "sent"
    BY <1>1 DEF Serve
  <2>1. CASE enabled /\ Set(r, [reqs[r] EXCEPT !.pc = "checked"]) /\ UNCHANGED <<sessions, ended>>
    <3> DEFINE q == [reqs[r] EXCEPT !.pc = "checked"]
    <3>0. q.pc = "checked"
      BY <1>e DEF ReqPcs
    <3>1. Due' = Due \cup {r}
      <4> HIDE DEF q
      <4>1. Set(r, q)
        BY <2>1 DEF q
      <4>2. QED
        BY <3>0, <4>1, DueSet
    <3>2. QED
      BY <2>0, <2>1, <3>1 DEF LoginStep, Asked, Quiet
  <2>2. CASE /\ \/ \E pc \in {"ok", "refused"} : Set(r, [reqs[r] EXCEPT !.pc = pc])
                \/ Set(r, Idle)
             /\ UNCHANGED <<sessions, ended>>
    <3>1. Quiet
      BY <2>0, <2>2 DEF Quiet
    <3>2. CASE Set(r, Idle)
      BY <1>a, <3>1, <3>2 DEF Idle
    <3>3. CASE \E pc \in {"ok", "refused"} : Set(r, [reqs[r] EXCEPT !.pc = pc])
      BY <1>a, <1>e, <3>1, <3>3 DEF ReqPcs
    <3>4. QED
      BY <2>2, <3>2, <3>3
  <2>3. CASE /\ reqs[r].kind = "logout"
             /\ sessions' = [sessions EXCEPT ![k].live = FALSE, ![k].out = TRUE]
             /\ ended' = IF Ends(Line(k), k) /\ ended[Line(k)] = None
                         THEN [ended EXCEPT ![Line(k)] = now] ELSE ended
             /\ Set(r, [reqs[r] EXCEPT !.pc = "ok"])
    <3>1. k \in DOMAIN sessions
      BY <1>t, <2>0, <2>3 DEF ReqOK
    <3>2. sessions[k] \in Row
      BY <1>t, <3>1
    <3>d. Due' = Due
      BY <1>e, <2>0, <2>3, DueKept DEF ReqPcs
    <3> DEFINE row == [sessions[k] EXCEPT !.live = FALSE, !.out = TRUE]
    <3>3. ~row.live /\ row.line = sessions[k].line
      BY <3>2 DEF Row
    <3>4. sessions' = [sessions EXCEPT ![k] = row]
      BY <2>3
    <3> HIDE DEF row, k
    <3>5. Died(k)
      BY <1>t, <2>0, <2>3, <3>1, <3>3, <3>4, <3>d DEF Died
    <3>6. QED
      BY <3>1, <3>5 DEF LoginStep
  <2>4. QED
    BY <1>1, <2>1, <2>2, <2>3 DEF Serve
<1>2. ASSUME NEW r \in Requests, Refused(r)
      PROVE  LoginStep
  <2> DEFINE k == store[TabOf[r]]
  <2>0. UNCHANGED <<sessions, enabled, ended, now>>
    BY <1>2 DEF Refused
  <2>1. CASE /\ k # None /\ uses' = [uses EXCEPT ![k] = @ + 1]
             /\ Set(r, [reqs[r] EXCEPT !.pc = "refreshing", !.token = k])
    <3>1. k \in DOMAIN sessions
      BY <1>t, <2>1
    <3>2. [reqs[r] EXCEPT !.pc = "refreshing", !.token = k].pc # "checked" /\ reqs[r].pc # "checked"
      BY <1>2, <1>t DEF ReqType, Refused
    <3>3. Due' = Due
      BY <2>1, <3>2, DueKept
    <3>4. QED
      BY <2>0, <2>1, <3>1, <3>3 DEF LoginStep, Used
  <2>2. CASE UNCHANGED uses /\ Set(r, Idle)
    BY <1>a, <2>0, <2>2 DEF Quiet, Idle
  <2>3. QED
    BY <1>2, <2>1, <2>2 DEF Refused
<1>3. ASSUME NEW r \in Requests, Rotate(r)
      PROVE  LoginStep
  <2> DEFINE k == reqs[r].token
             row == [sessions[k] EXCEPT !.live = FALSE]
  <2>1. k \in DOMAIN sessions
    BY <1>t, <1>3 DEF Rotate, ReqOK, Presenting
  <2>2. ~row.live /\ row.line = sessions[k].line
    BY <1>t, <2>1 DEF Row
  <2>3. sessions' = [sessions EXCEPT ![k] = row] /\ UNCHANGED <<enabled, uses, ended>>
    BY <1>3 DEF Rotate
  <2>d. Due' = Due
    <3>1. Set(r, [reqs[r] EXCEPT !.pc = "rotated"]) /\ reqs[r].pc = "found"
      BY <1>3 DEF Rotate
    <3>2. QED
      BY <1>e, <3>1, DueKept DEF ReqPcs
  <2> HIDE DEF row, k
  <2>4. Died(k)
    BY <1>t, <2>1, <2>2, <2>3, <2>d DEF Died
  <2>5. QED
    BY <2>1, <2>4 DEF LoginStep
<1>4. ASSUME NEW r \in Requests, Issue(r)
      PROVE  LoginStep
  <2> DEFINE k == reqs[r].token
  <2>1. k \in DOMAIN sessions
    BY <1>t, <1>4 DEF Issue, ReqOK, Presenting
  <2>2. Line(k) \in 1..NextId
    <3> HIDE DEF k
    <3>1. QED
      BY <1>t, <2>1
  <2>d. Due' = Due
    <3>1. /\ Set(r, [reqs[r] EXCEPT !.pc = "issued", !.got = NextId])
          /\ [reqs[r] EXCEPT !.pc = "issued", !.got = NextId].pc # "checked"
          /\ reqs[r].pc # "checked"
      BY <1>4, <1>t DEF Issue, ReqType
    <3>2. QED
      BY <3>1, DueKept
  <2>3. Made(Line(k))
    BY <1>4, <2>d DEF Issue, Made
  <2>4. QED
    BY <2>2, <2>3 DEF LoginStep
<1>o. ASSUME NEW r \in Requests, OpenLogin(r)
      PROVE  LoginStep
  <2> DEFINE q == [reqs[r] EXCEPT !.pc = "ok", !.got = NextId]
  <2>1. q.pc = "ok" /\ r \in Due
    BY <1>o, <1>t DEF OpenLogin, ReqType, Due
  <2>2. Set(r, q)
    BY <1>o DEF OpenLogin
  <2> HIDE DEF q
  <2>3. Due' = Due \ {r}
    BY <2>1, <2>2, DueSet
  <2>4. Opened(r)
    BY <1>o, <2>1, <2>3 DEF OpenLogin, Opened
  <2>5. QED
    BY <2>4 DEF LoginStep
<1>5. ASSUME NEW r \in Requests, NEW kind, Send(r, kind)
      PROVE  LoginStep
  <2> DEFINE q == [Idle EXCEPT !.pc = "sent", !.kind = kind, !.token = store[TabOf[r]]]
  <2>1. q.pc = "sent"
    BY DEF Idle
  <2>2. Set(r, q) /\ Quiet
    BY <1>5 DEF Send, Quiet
  <2> HIDE DEF q
  <2>3. QED
    BY <1>a, <2>1, <2>2
<1>6. ASSUME NEW r \in Requests, Answer(r) \/ Denied(r) \/ Lose(r)
      PROVE  LoginStep
  <2>1. Set(r, Idle) /\ Quiet
    BY <1>6 DEF Answer, Denied, Lose, Quiet
  <2>2. QED
    BY <1>a, <2>1 DEF Idle
<1>9. ASSUME NEW r \in Requests, Find(r) \/ Throws(r)
      PROVE  LoginStep
  <2>1. Quiet
    BY <1>9 DEF Find, Throws, Quiet
  <2>2. \E pc \in {"found", "denied", "failed", "refused"} : Set(r, [reqs[r] EXCEPT !.pc = pc])
    BY <1>9 DEF Find, Throws
  <2>3. QED
    BY <1>a, <1>e, <2>1, <2>2 DEF ReqPcs
<1>10. ASSUME NEW r \in Requests, Arrive(r)
       PROVE  LoginStep
  <2> DEFINE q == [reqs[r] EXCEPT !.pc = "sent", !.token = reqs[r].got, !.again = TRUE]
  <2>1. q.pc = "sent"
    BY <1>t DEF ReqType
  <2>2. Set(r, q) /\ Quiet
    BY <1>10 DEF Arrive, Quiet
  <2> HIDE DEF q
  <2>3. QED
    BY <1>a, <2>1, <2>2
<1>11. ASSUME NEW t \in Tabs, Reload(t)
       PROVE  LoginStep
  <2>1. \A r \in Requests : reqs'[r].pc = reqs[r].pc
    <3>1. \A r \in Requests : [reqs[r] EXCEPT !.here = FALSE].pc = reqs[r].pc
      BY <1>t DEF ReqType
    <3>2. QED
      BY <1>11, <3>1 DEF Reload
  <2>2. Due' = Due
    BY <2>1 DEF Due
  <2>3. QED
    BY <1>11, <2>2 DEF Reload, LoginStep, Quiet
<1>7. ASSUME Tick \/ UNCHANGED vars
      PROVE  LoginStep
  BY <1>7 DEF Tick, vars, LoginStep, Quiet, Due
<1>8. QED
  BY <1>1, <1>2, <1>3, <1>4, <1>o, <1>5, <1>6, <1>7, <1>9, <1>10, <1>11 DEF Next, LoginStep

LEMMA HeadsInit == Init => Heads
BY DEF Init, Heads

(* issueTokens() goes on with a line that there is, or begins one.            *)
LEMMA MadeRow ==
  ASSUME Inv, NEW line \in 1..NextId, Issued(line), now' = now
  PROVE  /\ DOMAIN sessions' = DOMAIN sessions \cup {NextId}
         /\ NextId \notin DOMAIN sessions /\ NextId \in Ids
         /\ \A k \in DOMAIN sessions : sessions'[k] = sessions[k]
         /\ sessions'[NextId].live /\ sessions'[NextId].line = line
<1>1. now \in Nat /\ now' = now /\ RowsOK /\ Issued(line)
  BY DEF Inv, Typed
<1> DEFINE new == [live |-> TRUE, made |-> now, line |-> line, out |-> FALSE]
<1>2. /\ DOMAIN sessions' = DOMAIN sessions \cup {NextId}
      /\ NextId \notin DOMAIN sessions /\ NextId \in Ids
      /\ \A k \in DOMAIN sessions : sessions'[k] = sessions[k]
      /\ sessions'[NextId] = new
  BY <1>1, IssuedRows
<1>3. new.live /\ new.line = line
  OBVIOUS
<1> HIDE DEF new
<1>4. QED
  BY <1>2, <1>3

LEMMA HeadsNext == Inv /\ Heads /\ [Next]_vars => Heads'
<1> SUFFICES ASSUME Inv, Heads, LoginStep
             PROVE  Heads'
  BY LoginSteps
<1>t. DOMAIN sessions \subseteq Ids /\ uses \in [Ids -> Nat]
  BY SessionIds DEF Inv, Typed
<1>1. CASE Quiet \/ Disable
  BY <1>1 DEF Quiet, Disable, Heads, Line
<1>a. ASSUME NEW r \in Requests, Asked(r)
      PROVE  Heads'
  BY <1>a DEF Asked, Quiet, Heads, Line
<1>o. ASSUME NEW r \in Requests, Opened(r)
      PROVE  Heads'
  <2>1. NextId \in 1..NextId
    BY <1>o, SessionIds DEF Opened, Issued, Ids
  <2>2. Issued(NextId) /\ now' = now /\ uses' = uses
    BY <1>o DEF Opened
  <2>3. /\ DOMAIN sessions' = DOMAIN sessions \cup {NextId}
        /\ \A k \in DOMAIN sessions : sessions'[k] = sessions[k]
        /\ sessions'[NextId].line = NextId
    BY <2>1, <2>2, MadeRow
  <2>4. QED
    BY <2>2, <2>3 DEF Heads, Line
<1>2. ASSUME NEW k \in DOMAIN sessions, Used(k)
      PROVE  Heads'
  BY <1>t, <1>2 DEF Used, Heads, Line
<1>3. ASSUME NEW k \in DOMAIN sessions, Died(k)
      PROVE  Heads'
  BY <1>t, <1>3 DEF Died, Heads, Line
<1>4. ASSUME NEW line \in 1..NextId, Made(line)
      PROVE  Heads'
  <2>1. line \in DOMAIN sessions /\ Line(line) = line
    <3>1. PICK r \in Requests : reqs[r].pc = "rotated" /\ line = Line(reqs[r].token)
      BY <1>4 DEF Made
    <3>2. reqs[r].token \in DOMAIN sessions
      BY <3>1 DEF Inv, Typed, ReqsOK, ReqOK, Presenting
    <3>3. QED
      BY <3>1, <3>2 DEF Heads
  <2>2. uses' = uses /\ Issued(line) /\ now' = now
    BY <1>4 DEF Made
  <2>3. QED
    BY <2>1, <2>2, MadeRow DEF Heads, Line
<1>5. QED
  BY <1>1, <1>a, <1>o, <1>2, <1>3, <1>4 DEF LoginStep

(* Login's variables, as the tables give them.                               *)
LEMMA LoginInit == Init => Login!Init
BY DEF Init, Idle, Login!Init, Chain, Live, Shared, Over, Due

LEMMA ChainOf ==
  ASSUME NEW l \in Ids, NEW k
  PROVE  /\ k \in Chain[l] <=> k \in DOMAIN sessions /\ Line(k) = l
         /\ k \in Live[l] <=> k \in DOMAIN sessions /\ Line(k) = l /\ sessions[k].live
         /\ l \in Shared <=> \E m \in DOMAIN sessions : Line(m) = l /\ uses[m] > 1
BY DEF Chain, Live, Shared

LEMMA LoginQuiet == Quiet => UNCHANGED <<Chain, Live, Shared, Over, enabled>>
BY DEF Quiet, Chain, Live, Shared, Over, Line

(* The second use of a token makes its login a shared one.                   *)
LEMMA LoginUsed ==
  ASSUME Inv, Heads, NEW k \in DOMAIN sessions, Used(k)
  PROVE  Login!Share(Line(k)) \/ UNCHANGED <<Chain, Live, Shared, Over, Due, enabled>>
<1> DEFINE l == Line(k)
<1>t. /\ DOMAIN sessions \subseteq Ids /\ uses \in [Ids -> Nat]
      /\ l \in DOMAIN sessions /\ l \in Ids /\ k \in Ids
  BY SessionIds DEF Inv, Typed, Heads
<1>1. UNCHANGED <<Chain, Live, Over, Due, enabled>>
  BY DEF Used, Chain, Live, Over, Line
<1>2. \A m \in DOMAIN sessions : uses'[m] = IF m = k THEN uses[m] + 1 ELSE uses[m]
  BY <1>t DEF Used
<1>3. Shared' = {e \in Ids : \E m \in DOMAIN sessions : Line(m) = e /\ uses'[m] > 1}
  BY DEF Used, Shared, Line
<1>4. \A e \in Ids : e # l => (e \in Shared' <=> e \in Shared)
  BY <1>2, <1>3 DEF Shared
<1>5. Shared \subseteq Shared' /\ Shared' \subseteq Ids
  <2>1. \A m \in DOMAIN sessions : uses[m] > 1 => uses'[m] > 1
    BY <1>t, <1>2
  <2>2. QED
    BY <1>3, <2>1 DEF Shared
<1>6. Shared' = Shared \/ Shared' = Shared \cup {l}
  <2> HIDE DEF l
  <2>1. QED
    BY <1>t, <1>4, <1>5 DEF Shared
<1>7. Chain[l] # {}
  BY <1>t, ChainOf
<1>8. QED
  BY <1>1, <1>6, <1>7 DEF Login!Share

(* A session that ends was the login's last live one, if the login ends.      *)
LEMMA LoginDied ==
  ASSUME Inv, Heads, NEW k \in DOMAIN sessions, Died(k)
  PROVE  \/ Login!End(Line(k)) \/ Login!Spend(Line(k))
         \/ UNCHANGED <<Chain, Live, Shared, Over, Due, enabled>>
<1> DEFINE l == Line(k)
<1>t. /\ DOMAIN sessions \subseteq Ids /\ ended \in [Ids -> Nat \cup {None}]
      /\ l \in DOMAIN sessions /\ l \in Ids /\ k \in Ids /\ Line(l) = l
  BY SessionIds DEF Inv, Typed, Heads
<1>1. DOMAIN sessions' = DOMAIN sessions /\ \A m \in DOMAIN sessions : Line(m)' = Line(m)
  BY DEF Died, Line
<1>2. Chain' = Chain
  BY <1>1 DEF Chain
<1>3. UNCHANGED <<Shared, Due, enabled>>
  BY <1>1 DEF Died, Shared
<1>4. \A e \in Ids : Live'[e] = Live[e] \ {k}
  BY <1>1 DEF Died, Live
<1>5. \A e \in Ids : e # l => k \notin Live[e]
  BY ChainOf
<1>6. Live' = [Live EXCEPT ![l] = @ \ {k}]
  <2>1. Live = [e \in Ids |-> Live[e]] /\ Live' = [e \in Ids |-> Live'[e]]
    BY DEF Live
  <2>2. \A e \in Ids : Live'[e] = IF e = l THEN Live[l] \ {k} ELSE Live[e]
    <3>1. \A e \in Ids : e # l => Live[e] \ {k} = Live[e]
      BY <1>5
    <3>2. QED
      BY <1>4, <3>1
  <2> HIDE DEF l
  <2>3. QED
    BY <1>t, <2>1, <2>2
<1>7. CASE ended' = ended
  <2>1. Over' = Over
    BY <1>1, <1>7 DEF Over
  <2>2. CASE k \in Live[l]
    BY <1>2, <1>3, <1>6, <2>1, <2>2 DEF Login!Spend
  <2>3. CASE k \notin Live[l]
    <3>1. Live' = Live
      <4>1. Live = [e \in Ids |-> Live[e]]
        BY DEF Live
      <4> HIDE DEF l
      <4>2. QED
        BY <1>t, <1>6, <2>3, <4>1
    <3>2. QED
      BY <1>2, <1>3, <2>1, <3>1
  <2>4. QED
    BY <2>2, <2>3
<1>8. CASE Ends(l, k) /\ ended' = [ended EXCEPT ![l] = now]
  <2>1. Over' = Over \cup {l}
    <3>1. now # None
      BY DEF Inv, Typed
    <3> HIDE DEF l
    <3>2. \A e \in DOMAIN sessions : ended'[e] = IF e = l THEN now ELSE ended[e]
      BY <1>t, <1>8
    <3>3. QED
      BY <1>1, <1>t, <3>1, <3>2 DEF Over
  <2>2. Live[l] \subseteq {k}
    BY <1>t, <1>8, ChainOf DEF Ends
  <2>3. Live' = [Live EXCEPT ![l] = {}]
    <3>1. Live[l] \ {k} = {}
      BY <2>2
    <3> HIDE DEF l
    <3>2. QED
      BY <1>6, <3>1
  <2>4. k \in Chain[l]
    BY <1>t, ChainOf
  <2>5. QED
    BY <1>2, <1>3, <2>1, <2>2, <2>3, <2>4 DEF Login!End
<1>9. QED
  BY <1>7, <1>8 DEF Died

(* A new session makes a login's chain one longer.                           *)
LEMMA LoginGrows ==
  ASSUME Inv, Heads, NEW line \in 1..NextId, Issued(line), UNCHANGED <<uses, enabled, now>>
  PROVE  line \in Ids /\ NextId \in Ids /\ Login!Grow(line, NextId)
<1> DEFINE n == NextId
<1>t. /\ DOMAIN sessions \subseteq Ids /\ uses \in [Ids -> Nat] /\ n \in Nat
      /\ DOMAIN sessions = 1..(n - 1)
      /\ \A k \in DOMAIN sessions : Line(k) \in DOMAIN sessions /\ Line(k) \in 1..k
  BY SessionIds DEF Inv, Typed, Heads, RowsOK, Line
<1>1. /\ DOMAIN sessions' = DOMAIN sessions \cup {n}
      /\ n \notin DOMAIN sessions /\ n \in Ids
      /\ \A k \in DOMAIN sessions : sessions'[k] = sessions[k]
      /\ sessions'[n].live /\ sessions'[n].line = line
  BY MadeRow
<1>l. line \in Ids
  <2>1. NextId \in Nat /\ NextId \in 1..MaxSessions
    BY <1>1, <1>t DEF Ids
  <2>2. QED
    BY <2>1 DEF Ids
<1>3. Login!Fresh(n)
  <2>1. \A l \in Ids : n \notin Chain[l]
    BY <1>1, ChainOf
  <2>2. QED
    BY <2>1 DEF Login!Fresh
<1>4. Chain' = [Chain EXCEPT ![line] = @ \cup {n}]
  <2>1. Chain' = [l \in Ids |-> {k \in DOMAIN sessions' : sessions'[k].line = l}]
    BY DEF Chain, Line
  <2>2. \A l \in Ids : Chain'[l] = IF l = line THEN Chain[l] \cup {n} ELSE Chain[l]
    BY <1>1, <2>1 DEF Chain, Line
  <2>3. Chain = [l \in Ids |-> Chain[l]] /\ Chain' = [l \in Ids |-> Chain'[l]]
    BY <2>1 DEF Chain
  <2> HIDE DEF n
  <2>4. QED
    BY <1>l, <2>2, <2>3
<1>5. Live' = [Live EXCEPT ![line] = @ \cup {n}]
  <2>1. Live' = [l \in Ids |-> {k \in DOMAIN sessions' : sessions'[k].line = l /\ sessions'[k].live}]
    BY DEF Live, Line
  <2>2. \A l \in Ids : Live'[l] = IF l = line THEN Live[l] \cup {n} ELSE Live[l]
    BY <1>1, <2>1 DEF Live, Line
  <2>3. Live = [l \in Ids |-> Live[l]] /\ Live' = [l \in Ids |-> Live'[l]]
    BY <2>1 DEF Live
  <2> HIDE DEF n
  <2>4. QED
    BY <1>l, <2>2, <2>3
<1>6. Shared' = Shared
  <2>1. uses[n] = 0
    BY <1>1 DEF Heads
  <2>2. Shared' = {l \in Ids : \E k \in DOMAIN sessions' : sessions'[k].line = l /\ uses[k] > 1}
    BY DEF Shared, Line
  <2>3. \A l \in Ids : l \in Shared' <=> l \in Shared
    BY <1>1, <2>1, <2>2 DEF Shared, Line
  <2>4. QED
    BY <2>2, <2>3 DEF Shared
<1>7. QED
  <2>1. enabled' = enabled
    OBVIOUS
  <2>2. QED
    BY <1>1, <1>l, <1>3, <1>4, <1>5, <1>6, <2>1 DEF Login!Grow

(* A login's next token is made when the one before is spent.                *)
LEMMA LoginMade ==
  ASSUME Inv, Heads, NEW line \in 1..NextId, Made(line)
  PROVE  Login!Renew(line)
<1> DEFINE n == NextId
<1>t. /\ DOMAIN sessions \subseteq Ids /\ uses \in [Ids -> Nat] /\ n \in Nat
      /\ DOMAIN sessions = 1..(n - 1)
      /\ \A k \in DOMAIN sessions : Line(k) \in DOMAIN sessions /\ Line(k) \in 1..k
  BY SessionIds DEF Inv, Typed, Heads, RowsOK, Line
<1>1. /\ Issued(line) /\ UNCHANGED <<uses, ended, enabled, now, Due>>
      /\ \E r \in Requests : reqs[r].pc = "rotated" /\ line = Line(reqs[r].token)
  BY DEF Made
<1>l. line \in Ids /\ NextId \in Ids /\ Login!Grow(line, NextId)
  BY <1>1, LoginGrows
<1>7. Over' = Over
  <2>1. ended[n] = None
    BY <1>t, <1>l DEF Inv, EndedOK
  <2>2. Over' = {l \in DOMAIN sessions' : sessions'[l].line = l /\ ended[l] # None}
    BY <1>1 DEF Over, Line
  <2>3. /\ DOMAIN sessions' = DOMAIN sessions \cup {n}
        /\ \A k \in DOMAIN sessions : sessions'[k] = sessions[k]
    BY <1>1, MadeRow
  <2> HIDE DEF n
  <2>4. QED
    BY <2>1, <2>2, <2>3 DEF Over, Line
<1>9. QED
  <2>1. PICK r \in Requests : reqs[r].pc = "rotated" /\ line = Line(reqs[r].token)
    BY <1>1
  <2> DEFINE k == reqs[r].token
  <2>2. k \in DOMAIN sessions /\ ~sessions[k].live /\ line = Line(k)
    BY <2>1 DEF Inv, Typed, ReqsOK, ReqOK, Spent, Presenting
  <2>3. Chain[line] # {}
    BY <1>l, <2>2, ChainOf
  <2>4. line \notin Over
    <3>1. Passed(line)
      BY <2>1 DEF Passed
    <3>2. QED
      BY <1>l, <3>1 DEF Over, Inv, EndedOK
(* No token of the line was presented twice: k is its last, and the others are over. *)
  <2>5. ASSUME line \notin Shared
        PROVE  Live[line] = {}
    <3>1. Clean(line)
      <4>1. \A m \in DOMAIN sessions : Line(m) = line => ~(uses[m] > 1) /\ uses[m] \in Nat
        BY <1>t, <1>l, <2>5 DEF Shared
      <4>2. QED
        BY <4>1 DEF Clean
    <3>2. ASSUME NEW m \in DOMAIN sessions, Line(m) = line, sessions[m].live
          PROVE  FALSE
      <4>1. m # k
        BY <2>2, <3>2
      <4>2. m < k \/ k < m
        <5> HIDE DEF k, n
        <5>1. QED
          BY <1>t, <2>2, <4>1
      <4>3. CASE m < k
        BY <2>2, <3>1, <3>2, <4>3 DEF Inv, Tips
      <4>4. CASE k < m
        BY <2>1, <2>2, <3>1, <3>2, <4>4 DEF Inv, Tips, Presenting
      <4>5. QED
        BY <4>2, <4>3, <4>4
    <3>3. QED
      BY <1>l, <3>2, ChainOf
  <2>6. QED
    <3>1. \E m \in Ids : Login!Grow(line, m)
      BY <1>l
    <3>2. Over' = Over /\ Due' = Due
      BY <1>1, <1>7
    <3>3. QED
      BY <2>3, <2>4, <2>5, <3>1, <3>2 DEF Login!Renew

(* A login that was asked for is opened; if the user was barred, it is over.   *)
LEMMA LoginOpened ==
  ASSUME Inv, Heads, NEW r \in Requests, Opened(r)
  PROVE  \E l \in Ids : Login!Open(l, r)
<1> DEFINE n == NextId
<1>t. /\ n \in Nat /\ DOMAIN sessions = 1..(n - 1)
      /\ ended \in [Ids -> Nat \cup {None}] /\ now # None
      /\ \A k \in DOMAIN sessions : Line(k) \in 1..k
  BY SessionIds DEF Inv, Typed, RowsOK, Line
<1>1. /\ r \in Due /\ Due' = Due \ {r} /\ Issued(NextId) /\ UNCHANGED <<uses, enabled, now>>
      /\ ended' = IF enabled THEN ended ELSE [ended EXCEPT ![NextId] = now]
  BY DEF Opened
<1>2. NextId \in 1..NextId
  BY <1>1, <1>t DEF Issued, Ids
<1>l. n \in Ids /\ Login!Grow(n, n)
  BY <1>1, <1>2, LoginGrows
<1>r. /\ DOMAIN sessions' = DOMAIN sessions \cup {n} /\ n \notin DOMAIN sessions
      /\ \A k \in DOMAIN sessions : sessions'[k] = sessions[k]
      /\ sessions'[n].line = n
  BY <1>1, <1>2, MadeRow
<1>3. Chain[n] = {}
  <2>1. \A k \in DOMAIN sessions : Line(k) # n
    BY <1>t
  <2>2. QED
    BY <1>l, <2>1, ChainOf
<1>4. Over' = IF enabled THEN Over ELSE Over \cup {n}
  <2>1. ended[n] = None
    BY <1>l, <1>r DEF Inv, EndedOK
  <2>2. Over' = {l \in DOMAIN sessions' : sessions'[l].line = l /\ ended'[l] # None}
    BY DEF Over, Line
  <2> HIDE DEF n
  <2>3. CASE enabled
    <3>1. ended' = ended
      BY <1>1, <2>3
    <3>2. Over' = Over
      BY <1>r, <2>1, <2>2, <3>1 DEF Over, Line
    <3>3. QED
      BY <2>3, <3>2
  <2>4. CASE ~enabled
    <3>1. ended' = [ended EXCEPT ![n] = now]
      BY <1>1, <2>4 DEF n
    <3>2. \A e \in Ids : ended'[e] = IF e = n THEN now ELSE ended[e]
      BY <1>t, <3>1
    <3>3. DOMAIN sessions \subseteq Ids
      BY SessionIds DEF Inv, Typed
    <3>4. Over' = Over \cup {n}
      BY <1>l, <1>r, <1>t, <2>2, <3>2, <3>3 DEF Over, Line
    <3>5. QED
      BY <2>4, <3>4
  <2>5. QED
    BY <2>3, <2>4
<1>5. Login!Open(n, r)
  <2> HIDE DEF n
  <2>1. QED
    BY <1>1, <1>l, <1>3, <1>4 DEF Login!Open
<1>6. QED
  BY <1>l, <1>5

LEMMA LoginBar ==
  ASSUME Inv, Heads, Disable
  PROVE  \E ls \in SUBSET Ids : Login!Bar(ls)
<1>t. DOMAIN sessions \subseteq Ids /\ ended \in [Ids -> Nat \cup {None}] /\ now # None
  BY SessionIds DEF Inv, Typed
<1> DEFINE ls == {l \in DOMAIN sessions : Line(l) = l /\ ended'[l] # None}
<1>1. UNCHANGED <<Chain, Live, Shared, Due>> /\ Over' = ls
  BY DEF Disable, Chain, Live, Shared, Over, Line, Due
<1>2. Over \subseteq ls
  BY <1>t DEF Disable, Over
<1>3. Over' = Over \cup ls
  <2> HIDE DEF ls
  <2>1. QED
    BY <1>1, <1>2
<1>4. \A l \in ls : Chain[l] # {}
  <2>1. ASSUME NEW l \in ls
        PROVE  Chain[l] # {}
    <3>1. l \in Ids /\ l \in DOMAIN sessions /\ Line(l) = l
      BY <1>t
    <3>2. l \in Chain[l]
      BY <3>1, ChainOf
    <3>3. QED
      BY <3>2
  <2>2. QED
    BY <2>1
<1>5. enabled /\ enabled' = FALSE /\ ls \in SUBSET Ids
  BY <1>t DEF Disable
<1>6. Login!Bar(ls)
  <2> HIDE DEF ls
  <2>1. QED
    BY <1>1, <1>3, <1>4, <1>5 DEF Login!Bar
<1>7. QED
  BY <1>5, <1>6

LEMMA LoginNext == Inv /\ Heads /\ [Next]_vars => [Login!Next]_<<Chain, Live, Shared, Over, Due, enabled>>
<1> SUFFICES ASSUME Inv, Heads, LoginStep
             PROVE  [Login!Next]_<<Chain, Live, Shared, Over, Due, enabled>>
  BY LoginSteps
<1>t. DOMAIN sessions \subseteq Ids /\ \A k \in DOMAIN sessions : Line(k) \in Ids
  BY SessionIds DEF Inv, Typed, Heads
<1>1. CASE Quiet /\ Due' = Due
  BY <1>1, LoginQuiet
<1>a. ASSUME NEW r \in Requests, Asked(r)
      PROVE  Login!Next
  <2>1. UNCHANGED <<Chain, Live, Shared, Over, enabled>>
    BY <1>a, LoginQuiet DEF Asked
  <2>2. CASE Due' = Due \ {r}
    BY <2>1, <2>2 DEF Login!Next, Login!Withdraw
  <2>3. CASE enabled /\ Due' = Due \cup {r}
    BY <2>1, <2>3 DEF Login!Next, Login!Admit
  <2>4. QED
    BY <1>a, <2>2, <2>3 DEF Asked
<1>o. ASSUME NEW r \in Requests, Opened(r)
      PROVE  Login!Next
  BY <1>o, LoginOpened DEF Login!Next
<1>2. ASSUME NEW k \in DOMAIN sessions, Used(k)
      PROVE  [Login!Next]_<<Chain, Live, Shared, Over, Due, enabled>>
  BY <1>2, <1>t, LoginUsed DEF Login!Next
<1>3. ASSUME NEW k \in DOMAIN sessions, Died(k)
      PROVE  [Login!Next]_<<Chain, Live, Shared, Over, Due, enabled>>
  BY <1>3, <1>t, LoginDied DEF Login!Next
<1>4. ASSUME NEW line \in 1..NextId, Made(line)
      PROVE  Login!Next
  <2>1. line \in Ids
    BY <1>4, LoginGrows DEF Made
  <2>2. QED
    BY <1>4, <2>1, LoginMade DEF Login!Next
<1>5. CASE Disable
  BY <1>5, LoginBar DEF Login!Next
<1>6. QED
  BY <1>1, <1>a, <1>o, <1>2, <1>3, <1>4, <1>5 DEF LoginStep

(* The sessions table implements the logins it keeps, whatever tabs, retries,  *)
(* lost answers, logouts and the operator do: a login is one chain of tokens   *)
(* until one is presented twice, is never renewed once it is over, and if opened  *)
(* for a user barred after the check of the password, is over at once.        *)
THEOREM SessionsImplementLogins == Spec => ImplementsLogins
<1>1. Spec => []Heads
  BY HeadsInit, HeadsNext, InvAlways, PTL DEF Spec
<1>2. QED
  BY LoginInit, LoginNext, InvAlways, <1>1, PTL
     DEF Spec, ImplementsLogins, Login!Spec, Login!loginVars
=============================================================================
