---------------------------- MODULE AuthSession ----------------------------
(***************************************************************************)
(* Sign-in, refresh and sign-out of one user: the sessions table, and the    *)
(* client of several tabs, each with its tokens in memory, that share the     *)
(* tokens on disk.  A pair of tokens is the number of its session.  What an   *)
(* api request does beside being let through is left out; "me" is AuthGate's. *)
(***************************************************************************)
EXTENDS Integers, FiniteSets

CONSTANTS
  Tabs,
  Requests,        \* requests a client may have under way
  TabOf,           \* the tab of each
  AccessTTL,       \* JWT_ACCESS_TTL
  RefreshTTL,      \* JWT_REFRESH_TTL
  MaxSessions,     \* bound: sessions
  MaxSends,        \* bound: requests
  MaxTime,         \* bound: the clock
  None

ASSUME AuthAssumption ==
  /\ TabOf \in [Requests -> Tabs]
  /\ {AccessTTL, RefreshTTL} \subseteq Nat \ {0}
  /\ {MaxSessions, MaxSends, MaxTime} \subseteq Nat
  /\ None \notin Nat

VARIABLES
  sessions,   \* the rows, by number: live (is_active), made, line (its login);
              \* history: out, a logout has named it
  enabled,    \* the user is active
  store,      \* each tab's tokens
  disk,       \* the tokens in localStorage
  reqs,       \* the requests under way; here: the page that sent it still waits
  uses,       \* history: how often each refresh token was presented
  ended,      \* history: logins that were ended, and when
  sends,
  now

vars == <<sessions, enabled, store, disk, reqs, uses, ended, sends, now>>

Ids == 1..MaxSessions
Idle == [pc |-> "idle", kind |-> None, token |-> None, again |-> FALSE, got |-> None,
         here |-> TRUE]
Init ==
  /\ sessions = <<>>
  /\ enabled = TRUE
  /\ store = [t \in Tabs |-> None]
  /\ disk = None
  /\ reqs = [r \in Requests |-> Idle]
  /\ uses = [k \in Ids |-> 0]
  /\ ended = [k \in Ids |-> None]
  /\ sends = 0
  /\ now = 0

Line(k) == sessions[k].line
Set(r, q) == reqs' = [reqs EXCEPT ![r] = q]

(* issueTokens(): a new session; a login starts a line of its own.            *)
NextId == Cardinality(DOMAIN sessions) + 1
Issued(line) ==
  /\ NextId \in Ids
  /\ sessions' = [k \in 1..NextId |-> IF k = NextId THEN [live |-> TRUE, made |-> now, line |-> line, out |-> FALSE]
                                      ELSE sessions[k]]

(* setAuth(), setTokens() and clear() write the tab's memory and the disk.      *)
Keep(t, k) ==
  /\ store' = [store EXCEPT ![t] = k]
  /\ disk' = k
-----------------------------------------------------------------------------
(* apiFetch(): a request goes out with the tab's access token.  The sign-in page  *)
(* is open to all, the others to a tab with tokens (AuthGate).                 *)
Send(r, kind) ==
  /\ reqs[r].pc = "idle"
  /\ sends < MaxSends
  /\ kind = "login" \/ store[TabOf[r]] # None
  /\ sends' = sends + 1
  /\ Set(r, [Idle EXCEPT !.pc = "sent", !.kind = kind, !.token = store[TabOf[r]]])
  /\ UNCHANGED <<sessions, enabled, store, disk, uses, ended, now>>

(* Past Find, a refresh goes on whatever happens to its session.              *)
Passed(line) == \E q \in Requests : reqs[q].pc \in {"found", "rotated"} /\ Line(reqs[q].token) = line

(* history: a login is ended when nothing is left that could go on with it.     *)
Ends(line, dead) ==
  /\ ~Passed(line)
  /\ \A k \in DOMAIN sessions : sessions[k].live /\ Line(k) = line => k = dead

(* The auth middleware looks at the token only; login and me look at the user   *)
(* (me answers 404, and the page shows).  A logout ends the session its access    *)
(* token names.  login() answers every failure with a 401: a wrong password, an    *)
(* error, a user who is not active.                                          *)
Serve(r) ==
  LET q == reqs[r]
      valid == now < sessions[q.token].made + AccessTTL
  IN  /\ q.pc = "sent"
      /\ \/ /\ q.kind = "login" /\ enabled
            /\ Set(r, [q EXCEPT !.pc = "checked"])
            /\ UNCHANGED <<sessions, ended>>
         \/ /\ q.kind \in {"api", "me"} /\ valid
            /\ Set(r, IF q.kind = "me" /\ ~enabled THEN Idle ELSE [q EXCEPT !.pc = "ok"])
            /\ UNCHANGED <<sessions, ended>>
         \/ /\ q.kind = "logout" /\ valid
            /\ sessions' = [sessions EXCEPT ![q.token].live = FALSE, ![q.token].out = TRUE]
            /\ ended' = IF Ends(Line(q.token), q.token) /\ ended[Line(q.token)] = None
                        THEN [ended EXCEPT ![Line(q.token)] = now] ELSE ended
            /\ Set(r, [q EXCEPT !.pc = "ok"])
         \/ /\ q.kind # "login" => ~valid
            /\ Set(r, [q EXCEPT !.pc = "refused"])
            /\ UNCHANGED <<sessions, ended>>
  /\ UNCHANGED <<enabled, store, disk, uses, sends, now>>

(* After the password and the hash, both awaited, login() makes the session of    *)
(* the user it read; history: one who was barred meanwhile has it ended at once.  *)
OpenLogin(r) ==
  /\ reqs[r].pc = "checked"
  /\ Issued(NextId)
  /\ ended' = IF enabled THEN ended ELSE [ended EXCEPT ![NextId] = now]
  /\ Set(r, [reqs[r] EXCEPT !.pc = "ok", !.got = NextId])
  /\ UNCHANGED <<enabled, store, disk, uses, sends, now>>

(* onSubmit() keeps the tokens; AuthGate writes back those it finds; Sidebar's  *)
(* handleLogout() clears.                                                     *)
Answer(r) ==
  LET t == TabOf[r]
  IN  /\ reqs[r].pc = "ok" /\ reqs[r].here
      /\ CASE reqs[r].kind = "login" -> Keep(t, reqs[r].got)
           [] reqs[r].kind = "me" -> Keep(t, store[t])
           [] reqs[r].kind = "logout" -> Keep(t, None)
           [] OTHER -> UNCHANGED <<store, disk>>
      /\ Set(r, Idle)
      /\ UNCHANGED <<sessions, enabled, uses, ended, sends, now>>

(* A 401: tryRefresh() presents the refresh token the tab has now.  Without one, *)
(* the tab is cleared; the second 401 of a request ends it.                   *)
Refused(r) ==
  LET t == TabOf[r]
      q == reqs[r]
  IN  /\ q.pc = "refused" /\ q.here
      /\ \/ /\ ~q.again /\ store[t] # None
            /\ Set(r, [q EXCEPT !.pc = "refreshing", !.token = store[t]])
            /\ uses' = [uses EXCEPT ![store[t]] = @ + 1]
            /\ UNCHANGED <<store, disk>>
         \/ /\ q.again \/ store[t] = None
            /\ IF q.again /\ q.kind \notin {"me", "logout"} THEN UNCHANGED <<store, disk>>
               ELSE Keep(t, None)
            /\ Set(r, Idle)
            /\ UNCHANGED uses
      /\ UNCHANGED <<sessions, enabled, ended, sends, now>>
-----------------------------------------------------------------------------
(* Mutant of Found: whether the session is active is not looked at.          *)
FoundEnded(k) == now < sessions[k].made + RefreshTTL /\ enabled

(* Mutant of Found: whether the user is active is not looked at.             *)
FoundBarred(k) == sessions[k].live /\ now < sessions[k].made + RefreshTTL

(* Mutant of Found: a session expires with its access token.                 *)
FoundEarly(k) == sessions[k].live /\ now < sessions[k].made + AccessTTL /\ enabled

(* refresh(): the session of the token is active and unexpired, so is the user. *)
Found(k) == sessions[k].live /\ now < sessions[k].made + RefreshTTL /\ enabled

Find(r) ==
  /\ reqs[r].pc = "refreshing"
  /\ Set(r, [reqs[r] EXCEPT !.pc = IF Found(reqs[r].token) THEN "found" ELSE "denied"])
  /\ UNCHANGED <<sessions, enabled, store, disk, uses, ended, sends, now>>

Rotate(r) ==
  /\ reqs[r].pc = "found"
  /\ sessions' = [sessions EXCEPT ![reqs[r].token].live = FALSE]
  /\ Set(r, [reqs[r] EXCEPT !.pc = "rotated"])
  /\ UNCHANGED <<enabled, store, disk, uses, ended, sends, now>>

Issue(r) ==
  /\ reqs[r].pc = "rotated"
  /\ Issued(Line(reqs[r].token))
  /\ Set(r, [reqs[r] EXCEPT !.pc = "issued", !.got = NextId])
  /\ UNCHANGED <<enabled, store, disk, uses, ended, sends, now>>

(* The new tokens are kept, and the request goes out once more with them.      *)
Arrive(r) ==
  LET q == reqs[r]
  IN  /\ q.pc = "issued" /\ q.here
      /\ Keep(TabOf[r], q.got)
      /\ Set(r, [q EXCEPT !.pc = "sent", !.token = q.got, !.again = TRUE])
      /\ UNCHANGED <<sessions, enabled, uses, ended, sends, now>>

(* The refresh throws (a database error, say), before or after what it has       *)
(* written; the route answers that, too, with a 401.                         *)
Throws(r) ==
  /\ \/ reqs[r].pc \in {"refreshing", "found", "rotated"}
        /\ Set(r, [reqs[r] EXCEPT !.pc = "failed"])
     \/ reqs[r].pc = "checked"
        /\ Set(r, [reqs[r] EXCEPT !.pc = "refused"])
  /\ UNCHANGED <<sessions, enabled, store, disk, uses, ended, sends, now>>

(* A refused refresh clears the tab, whatever refused it.                      *)
Denied(r) ==
  /\ reqs[r].pc \in {"denied", "failed"} /\ reqs[r].here
  /\ Keep(TabOf[r], None)
  /\ Set(r, Idle)
  /\ UNCHANGED <<sessions, enabled, uses, ended, sends, now>>
-----------------------------------------------------------------------------
(* The request or its answer is lost, or the server dies in the middle of it.    *)
Lose(r) ==
  /\ reqs[r].pc # "idle"
  /\ IF reqs[r].kind = "logout" /\ reqs[r].here THEN Keep(TabOf[r], None) ELSE UNCHANGED <<store, disk>>
  /\ Set(r, Idle)
  /\ UNCHANGED <<sessions, enabled, uses, ended, sends, now>>

(* A tab is loaded anew: nobody waits for its requests, which the server may go    *)
(* on with, and its tokens are those on disk.                                *)
Reload(t) ==
  /\ reqs' = [r \in Requests |-> IF TabOf[r] = t /\ reqs[r].pc # "idle"
                                 THEN [reqs[r] EXCEPT !.here = FALSE] ELSE reqs[r]]
  /\ store' = [store EXCEPT ![t] = disk]
  /\ <<reqs', store'>> # <<reqs, store>>
  /\ UNCHANGED <<sessions, enabled, disk, uses, ended, sends, now>>

(* The operator deactivates the user.                                        *)
Disable ==
  /\ enabled
  /\ enabled' = FALSE
  /\ ended' = [k \in Ids |-> IF k \in DOMAIN sessions /\ ended[k] = None /\ ~Passed(k)
                             THEN now ELSE ended[k]]
  /\ UNCHANGED <<sessions, store, disk, reqs, uses, sends, now>>

Tick ==
  /\ now < MaxTime
  /\ now' = now + 1
  /\ UNCHANGED <<sessions, enabled, store, disk, reqs, uses, ended, sends>>

Next ==
  \/ \E r \in Requests :
       \/ \E kind \in {"api", "me", "login", "logout"} : Send(r, kind)
       \/ Serve(r) \/ OpenLogin(r) \/ Answer(r) \/ Refused(r)
       \/ Find(r) \/ Rotate(r) \/ Issue(r) \/ Throws(r) \/ Arrive(r) \/ Denied(r)
       \/ Lose(r)
  \/ \E t \in Tabs : Reload(t)
  \/ Disable \/ Tick

Spec == Init /\ [][Next]_vars
-----------------------------------------------------------------------------
(* Tokens are those of a session there is, a session's line is a login at or     *)
(* before it, and a request under way has the token its next step needs.       *)
TypeOK ==
  /\ DOMAIN sessions \in {1..n : n \in 0..MaxSessions}
  /\ \A k \in DOMAIN sessions : /\ sessions[k].live \in BOOLEAN
                                /\ sessions[k].made \in 0..now
                                /\ sessions[k].line \in 1..k
  /\ store \in [Tabs -> DOMAIN sessions \cup {None}]
  /\ disk \in DOMAIN sessions \cup {None}
  /\ \A r \in Requests :
       /\ reqs[r].token \in DOMAIN sessions \cup {None}
       /\ reqs[r].pc = "sent" /\ reqs[r].kind # "login" => reqs[r].token # None
       /\ reqs[r].pc \in {"refreshing", "found", "rotated"} => reqs[r].token # None
       /\ reqs[r].pc = "issued" => reqs[r].got \in DOMAIN sessions

Served(r) == reqs[r].pc = "sent" /\ reqs'[r].pc = "ok" /\ reqs[r].kind # "login"

(* A login that was ended, by a logout or with its user, is let through only as   *)
(* long as its last access token may last, however refreshes and retries fall.   *)
EndedMeansOut ==
  [][\A r \in Requests : Served(r) =>
       LET line == Line(reqs[r].token)
       IN  ended[line] # None => now < ended[line] + AccessTTL]_vars

(* A refresh token that was presented once is not turned down while its session   *)
(* lasts: of two tabs, other sessions, reloads and lost answers, none costs a      *)
(* client its session but by presenting a token twice.  (A refresh that throws     *)
(* does: Throws' 401 clears a client whose token was good.)                    *)
FirstUseWorks ==
  \A r \in Requests : reqs[r].pc = "denied" =>
    LET k == reqs[r].token
    IN  uses[k] > 1 \/ ~enabled \/ sessions[k].out \/ now >= sessions[k].made + RefreshTTL

(* A login has one live session, which a logout can end, as long as no refresh    *)
(* token of it was presented twice.                                          *)
OneLiveSession ==
  \A line \in DOMAIN sessions :
    (\A k \in DOMAIN sessions : Line(k) = line => uses[k] <= 1) =>
      Cardinality({k \in DOMAIN sessions : sessions[k].live /\ Line(k) = line}) <= 1
-----------------------------------------------------------------------------
(* The logins as their user has them: a line of sessions is a login.          *)
Chain == [l \in Ids |-> {k \in DOMAIN sessions : Line(k) = l}]
Live == [l \in Ids |-> {k \in DOMAIN sessions : Line(k) = l /\ sessions[k].live}]
Shared == {l \in Ids : \E k \in DOMAIN sessions : Line(k) = l /\ uses[k] > 1}
Over == {l \in DOMAIN sessions : Line(l) = l /\ ended[l] # None}

Due == {r \in Requests : reqs[r].pc = "checked"}

Login == INSTANCE Logins WITH Askers <- Requests, chain <- Chain, live <- Live,
                              shared <- Shared, over <- Over, due <- Due

(* The sessions table keeps what a login promises, whatever the tabs do, answers *)
(* are lost, and refreshes fall between logouts and the end of the user: a login  *)
(* is a chain with one live token until a token is presented twice, one that is    *)
(* over is never renewed, and one opened for a barred user was asked for before.  *)
ImplementsLogins == Login!Spec
=============================================================================
