------------------------------ MODULE Override ------------------------------
(***************************************************************************)
(* A user's own OpenSearch connection: the settings panel, open in several    *)
(* tabs, keeps it as a row of data_sources; a search resolves the connection  *)
(* to use, and every call takes its client from a cache shared by all users.  *)
(*                                                                         *)
(* A connection is an account, of which the cache tells url and user name     *)
(* apart, and a password.  Rows are numbered in the order they were created.  *)
(* Rows of other kinds, and those the resolver skips as malformed, are left    *)
(* out; the panel's test uses a client of its own and changes nothing.        *)
(***************************************************************************)
EXTENDS Integers, FiniteSetsExt, SequencesExt

CONSTANTS
  Tabs,          \* tabs in which the panel is open
  Owned,          \* connections the user may save
  Others,        \* connections of other users
  Env,           \* the platform's connection
  CacheMax,      \* CLIENT_CACHE_MAX
  TTL,           \* CLIENT_CACHE_TTL_MS
  MaxSaves,      \* bound: saves and clears
  MaxTime,       \* bound: the clock
  None           \* no row, no connection

ConnectionType == [url : STRING, user : STRING, password : STRING]

OverrideAssumption ==
  /\ Owned \cup Others \cup {Env} \subseteq ConnectionType
  /\ None \notin Owned /\ None \notin Nat
  /\ {CacheMax, TTL} \subseteq Nat \ {0}
  /\ {MaxSaves, MaxTime} \subseteq Nat

VARIABLES
  rows,      \* the user's override rows, by number
  next,      \* the number of the next row
  panel,     \* what each tab is about
  wanted,    \* history: what the user saved last, Env after "use org default"
  crossed,   \* history: two tabs were at it at the same time
  config,    \* the connection the user's search has resolved, None before
  clients,   \* the cache, least recently used first
  call,      \* history: the last call: what it was for, its client, when
  recent,    \* history: the accounts called, last first, and their clients
  saves,     \* saves and clears so far
  now

store == <<rows, next>>
calls == <<clients, call, recent>>
vars == <<store, panel, wanted, crossed, config, calls, saves, now>>
-----------------------------------------------------------------------------
(* configKey(): the password is not part of it.                              *)
ClientKey(c) == <<c.user, c.url>>

(* getOpenSearchOverride(): the list is in the order of creation, and its first *)
(* override is the one the panel shows, changes and deletes.                  *)
Shown == IF DOMAIN rows = {} THEN None ELSE Min(DOMAIN rows)

(* resolveOpenSearchConfig(): no custom row is ever tested, so the latest one   *)
(* created is the one used; without a row, the platform's.                    *)
Resolved == IF DOMAIN rows = {} THEN Env ELSE rows[Max(DOMAIN rows)]

Idle == [pc |-> "idle", want |-> None, found |-> None]
Busy(t) == panel[t].pc # "idle"

Init ==
  /\ rows = <<>>
  /\ next = 1
  /\ panel = [t \in Tabs |-> Idle]
  /\ wanted = Env
  /\ crossed = FALSE
  /\ config = None
  /\ clients = <<>>
  /\ call = None
  /\ recent = <<>>
  /\ saves = 0
  /\ now = 0
-----------------------------------------------------------------------------
(* onSave() with a connection, onClear() with None: the tab reads the list ...  *)
Submit(t, c) ==
  /\ ~Busy(t)
  /\ saves < MaxSaves
  /\ saves' = saves + 1
  /\ panel' = [panel EXCEPT ![t] = [pc |-> "write", want |-> c, found |-> Shown]]
  /\ crossed' = (crossed \/ \E u \in Tabs : Busy(u))
  /\ UNCHANGED <<store, wanted, config, calls, now>>

Finish(t) ==
  /\ panel' = [panel EXCEPT ![t] = Idle]
  /\ UNCHANGED <<crossed, config, calls, saves, now>>

(* Mutant of Write: every save posts a row.                                  *)
WritePosts(t) ==
  /\ panel[t].pc = "write"
  /\ LET want == panel[t].want
     IN  /\ rows' = IF want = None THEN [i \in DOMAIN rows \ {panel[t].found} |-> rows[i]]
                    ELSE [i \in DOMAIN rows \cup {next} |-> IF i = next THEN want ELSE rows[i]]
         /\ next' = IF want = None THEN next ELSE next + 1
         /\ wanted' = IF want = None THEN Env ELSE want
  /\ Finish(t)

(* ... and patches or deletes the row it found, or posts one.  The row may be   *)
(* gone by then, and the request answered with 404.                          *)
Write(t) ==
  /\ panel[t].pc = "write"
  /\ LET want == panel[t].want
         found == panel[t].found
     IN  \/ /\ found = None /\ want # None
            /\ rows' = [i \in DOMAIN rows \cup {next} |-> IF i = next THEN want ELSE rows[i]]
            /\ next' = next + 1
            /\ wanted' = want
         \/ /\ found \in DOMAIN rows /\ want # None
            /\ rows' = [rows EXCEPT ![found] = want]
            /\ wanted' = want
            /\ UNCHANGED next
         \/ /\ found \in DOMAIN rows /\ want = None
            /\ rows' = [i \in DOMAIN rows \ {found} |-> rows[i]]
            /\ wanted' = Env
            /\ UNCHANGED next
         \/ /\ found \notin DOMAIN rows /\ (found # None \/ want = None)
            /\ wanted' = IF found = None THEN Env ELSE wanted
            /\ UNCHANGED store
  /\ Finish(t)

(* The request fails before it is handled.                                   *)
WriteFails(t) ==
  /\ Busy(t)
  /\ Finish(t)
  /\ UNCHANGED <<store, wanted>>
-----------------------------------------------------------------------------
(* What a sequence has at some of its places.                                *)
Nth(places, n) == CHOOSE i \in places : Cardinality({j \in places : j <= i}) = n
Kept(s, places) == [n \in 1..Cardinality(places) |-> s[Nth(places, n)]]

Fresh == {i \in DOMAIN clients : now - clients[i].made <= TTL}
Hits(c) == {i \in Fresh : clients[i].key = ClientKey(c)}
Made(c) == [key |-> ClientKey(c), conn |-> c, made |-> now, born |-> now]
Room(s) == IF Len(s) >= CacheMax THEN Tail(s) ELSE s

(* Mutant of Use: a hit counts as a new client.                              *)
UseRenews(c) ==
  LET rest == Kept(clients, Fresh \ Hits(c))
  IN  IF Hits(c) # {} THEN Append(rest, [clients[CHOOSE i \in Hits(c) : TRUE] EXCEPT !.made = now])
      ELSE Append(Room(rest), Made(c))

(* Mutant of Use: a hit stays where it is.                                   *)
UseFifo(c) ==
  LET fresh == Kept(clients, Fresh)
  IN  IF Hits(c) # {} THEN fresh ELSE Append(Room(fresh), Made(c))

(* getOpenSearchClientForConfig(): expired clients go; one with the key moves to *)
(* the end with its age; else one is made, in the place of the first when full.  *)
(* (born, a history: when the client was made.)                              *)
Use(c) ==
  LET rest == Kept(clients, Fresh \ Hits(c))
  IN  IF Hits(c) # {} THEN Append(rest, clients[CHOOSE i \in Hits(c) : TRUE])
      ELSE Append(Room(rest), Made(c))

ClientOf(cache, c) == CHOOSE e \in Range(cache) : e.key = ClientKey(c)

(* search(): each call takes the client anew.                                *)
Called(c) ==
  /\ clients' = Use(c)
  /\ call' = [config |-> c, client |-> ClientOf(clients', c), at |-> now]
  /\ recent' = <<[account |-> <<c.user, c.url>>, made |-> ClientOf(clients', c).made]>>
                 \o Kept(recent, {i \in DOMAIN recent : recent[i].account # <<c.user, c.url>>})
  /\ UNCHANGED <<store, panel, wanted, crossed, saves, now>>

(* The user's search resolves its connection once and calls as often as it has  *)
(* pages; a search of another user comes in between.                          *)
Resolve ==
  /\ config' = Resolved
  /\ config' # config
  /\ UNCHANGED <<store, panel, wanted, crossed, calls, saves, now>>

Call == config # None /\ Called(config) /\ UNCHANGED config
OtherCall(c) == Called(c) /\ UNCHANGED config

Tick ==
  /\ now < MaxTime
  /\ now' = now + 1
  /\ UNCHANGED <<store, panel, wanted, crossed, config, calls, saves>>

Next ==
  \/ \E t \in Tabs : (\E c \in Owned \cup {None} : Submit(t, c)) \/ Write(t) \/ WriteFails(t)
  \/ Resolve \/ Call \/ Tick
  \/ \E c \in Others : OtherCall(c)

Spec == Init /\ [][Next]_vars
-----------------------------------------------------------------------------
(* What is in force is what the user saved last, or the platform's connection    *)
(* after "use org default": the panel, the route and the resolver, which order   *)
(* the rows differently, agree as long as no two tabs were at it at once.       *)
SavedIsInForce ==
  ~crossed /\ (\A t \in Tabs : ~Busy(t)) => Resolved = wanted

(* A call never goes out with the client of another account: the cache is shared *)
(* by all users, and the password is only what may differ, for no longer than    *)
(* the TTL however often the client is used.                                 *)
StaleWithinTTL ==
  call # None =>
    /\ call.client.conn.url = call.config.url
    /\ call.client.conn.user = call.config.user
    /\ call.client.conn # call.config => call.at - call.client.born <= TTL

(* The cache keeps the accounts called last, never more than CacheMax: of those   *)
(* only a client that has expired may be missing.                             *)
KeepsTheRecent ==
  /\ Len(clients) <= CacheMax
  /\ \A i \in 1..Min({CacheMax, Len(recent)}) :
       \/ \E e \in Range(clients) : e.key = recent[i].account
       \/ call.at - recent[i].made > TTL
=============================================================================
