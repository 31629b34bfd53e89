---------------------------- MODULE ReachPipeline ----------------------------
(***************************************************************************)
(* The enrichment pipeline of a 'reach' job together with the SimilarWeb    *)
(* pipeline that runs beside it on the same worker slots: a reach-fetch     *)
(* entry looks the publishers' domains of the chat up in the reach cache,   *)
(* which all users share, fetches what is missing, and merges what it finds *)
(* into the enrichments that exist at that moment.                          *)
(*                                                                         *)
(* Visitor counts and scores are left out: what counts is whether a domain   *)
(* has data, and whether an enrichment carries it.                          *)
(***************************************************************************)
EXTENDS EnrichmentPipeline

CONSTANTS
  Domains,       \* publisher domains
  DomainOf,      \* articles.publisher_domain, NoDomain where it is null
  NoDomain,
  MaxRefetches,  \* bound: POST /chats/:id/reach/fetch requests
  MaxOutside,    \* bound: changes of the shared cache from outside the chat
  MaxThrows      \* bound: reach-fetch runs that throw

ASSUME ReachAssumption ==
  /\ NoDomain \notin Domains
  /\ DomainOf \in [Articles -> Domains \cup {NoDomain}]
  /\ MaxRefetches \in Nat
  /\ MaxOutside \in Nat
  /\ MaxThrows \in Nat

VARIABLES
  cache,         \* reach_cache by domain
  reach,         \* articles whose enrichment has a reach value
  reachSent,     \* the agent has enqueued the job's reach-fetch
  reachQueue,    \* waiting reach-fetch entries
  reachRun,      \* the reach-fetch run in each slot
  refetches,     \* reach-fetch requests of the user so far
  outside,       \* changes of the cache from outside so far
  thrown,        \* runs that threw so far
  renewed        \* history: domains whose row was renewed since the run in a
                 \* slot looked at the cache, while it may still store

reachVars == <<cache, reach, reachSent, reachQueue, reachRun, refetches, outside, thrown, renewed>>
allVars == <<vars, reachVars>>

(* A cache row: data fetched within its ttl_hours or before, or is_valid =      *)
(* false, which is what a domain without data (a 404) and a fetch that failed  *)
(* alike are stored as.                                                     *)
Answers == {"fresh", "invalid"}
CacheRows == Answers \cup {"absent", "expired"}
Valid == {"fresh", "expired"}

ChatDomains == {DomainOf[a] : a \in Articles} \ {NoDomain}

(* "todo" holds the domains to fetch, "answers" what is still to be stored,  *)
(* "rows" the valid rows read back for the merge.                           *)
NoRun == [pc |-> "idle", todo |-> {}, answers |-> <<>>, rows |-> {}]
ReachPcs == {"idle", "start", "fetch", "store", "reread", "merge"}

ReachInit ==
  /\ Init
  /\ cache = [d \in Domains |-> "absent"]
  /\ reach = {}
  /\ reachSent = FALSE
  /\ reachQueue = 0
  /\ reachRun = [s \in Slots |-> NoRun]
  /\ refetches = 0
  /\ outside = 0
  /\ thrown = 0
  /\ renewed = [s \in Slots |-> {}]

(* history: a fresh answer for d is stored beside the runs that have looked.    *)
Renews(d, answer) ==
  renewed' = [s \in Slots |-> IF answer = "fresh" /\ reachRun[s].pc \in {"fetch", "store"}
                              THEN renewed[s] \cup {d} ELSE renewed[s]]
-----------------------------------------------------------------------------
(* EnrichmentAgent.act: after its batches, the job's reach-fetch.            *)
SendReach ==
  /\ sent = BatchCount
  /\ ~reachSent
  /\ reachSent' = TRUE
  /\ reachQueue' = reachQueue + 1
  /\ UNCHANGED <<vars, cache, reach, reachRun, refetches, outside, thrown, renewed>>

(* enqueueReachFetchForChat: once there is a job, at any time.               *)
Refetch ==
  /\ jobStatus # "none"
  /\ refetches < MaxRefetches
  /\ refetches' = refetches + 1
  /\ reachQueue' = reachQueue + 1
  /\ UNCHANGED <<vars, cache, reach, reachSent, reachRun, outside, thrown, renewed>>

(* An entry takes a slot that no entry of either kind holds.                *)
TakeReach(s) ==
  /\ slot[s] = Idle
  /\ reachRun[s] = NoRun
  /\ reachQueue > 0
  /\ reachQueue' = reachQueue - 1
  /\ reachRun' = [reachRun EXCEPT ![s].pc = "start"]
  /\ UNCHANGED <<vars, cache, reach, reachSent, refetches, outside, thrown, renewed>>

(* Mutant of ReachReason: all domains are fetched, cached or not.             *)
ReachReasonAll(s) ==
  /\ reachRun[s].pc = "start"
  /\ \E key \in BOOLEAN :
       reachRun' = [reachRun EXCEPT ![s].pc = "fetch", ![s].todo = IF key THEN ChatDomains ELSE {}]
  /\ UNCHANGED <<vars, cache, reach, reachSent, reachQueue, refetches, outside, thrown, renewed>>

(* Mutant of ReachReason: with nothing to fetch there is nothing to do.      *)
ReachReasonSkips(s) ==
  /\ reachRun[s].pc = "start"
  /\ \E key \in BOOLEAN :
       LET uncached == {d \in ChatDomains : cache[d] # "fresh"} IN
       reachRun' = [reachRun EXCEPT ![s] =
         IF uncached = {} THEN NoRun
         ELSE [@ EXCEPT !.pc = "fetch", !.todo = IF key THEN uncached ELSE {}]]
  /\ UNCHANGED <<vars, cache, reach, reachSent, reachQueue, refetches, outside, thrown, renewed>>

(* perceive and reason: the domains without a valid row within its ttl are   *)
(* to be fetched, if the user or the server has a key at all.               *)
ReachReason(s) ==
  /\ reachRun[s].pc = "start"
  /\ \E key \in BOOLEAN :
       LET uncached == {d \in ChatDomains : cache[d] # "fresh"} IN
       reachRun' = [reachRun EXCEPT ![s].pc = "fetch", ![s].todo = IF key THEN uncached ELSE {}]
  /\ UNCHANGED <<vars, cache, reach, reachSent, reachQueue, refetches, outside, thrown, renewed>>

(* fetchSimilarWebBatch: one answer for every domain, failures included.     *)
ReachFetch(s) ==
  /\ reachRun[s].pc = "fetch"
  /\ \E ans \in [reachRun[s].todo -> Answers] :
       reachRun' = [reachRun EXCEPT ![s].pc = "store", ![s].todo = {}, ![s].answers = ans]
  /\ UNCHANGED <<vars, cache, reach, reachSent, reachQueue, refetches, outside, thrown, renewed>>

(* Each answer is upserted by itself, over whatever row is there by then.    *)
ReachStore(s, d) ==
  /\ reachRun[s].pc = "store"
  /\ d \in DOMAIN reachRun[s].answers
  /\ cache' = [cache EXCEPT ![d] = reachRun[s].answers[d]]
  /\ reachRun' = [reachRun EXCEPT ![s].answers = [e \in DOMAIN @ \ {d} |-> @[e]]]
  /\ Renews(d, reachRun[s].answers[d])
  /\ UNCHANGED <<vars, reach, reachSent, reachQueue, refetches, outside, thrown>>

(* The valid rows of all the chat's domains, whatever their age.             *)
ReachReread(s) ==
  /\ reachRun[s].pc = "store"
  /\ DOMAIN reachRun[s].answers = {}
  /\ reachRun' = [reachRun EXCEPT ![s].pc = "merge",
                                  ![s].rows = {d \in ChatDomains : cache[d] \in Valid}]
  /\ renewed' = [renewed EXCEPT ![s] = {}]
  /\ UNCHANGED <<vars, cache, reach, reachSent, reachQueue, refetches, outside, thrown>>

(* Mutant of ReachMerge: a run that resolved nothing does not end.           *)
ReachMergeSome(s) ==
  /\ reachRun[s].pc = "merge"
  /\ reachRun[s].rows # {}
  /\ reach' = reach \cup {a \in Articles : row[a] # None /\ DomainOf[a] \in reachRun[s].rows}
  /\ reachRun' = [reachRun EXCEPT ![s] = NoRun]
  /\ UNCHANGED <<vars, cache, reachSent, reachQueue, refetches, outside, thrown, renewed>>

(* One transaction merges the rows into the enrichments there are; the run   *)
(* publishes its coverage and ends.                                         *)
ReachMerge(s) ==
  /\ reachRun[s].pc = "merge"
  /\ reach' = reach \cup {a \in Articles : row[a] # None /\ DomainOf[a] \in reachRun[s].rows}
  /\ reachRun' = [reachRun EXCEPT ![s] = NoRun]
  /\ UNCHANGED <<vars, cache, reachSent, reachQueue, refetches, outside, thrown, renewed>>

(* Time passes, or a run for another chat stores its answer.                *)
CacheChanges(d) ==
  /\ outside < MaxOutside
  /\ outside' = outside + 1
  /\ \/ /\ cache[d] = "fresh"
        /\ cache' = [cache EXCEPT ![d] = "expired"]
        /\ UNCHANGED renewed
     \/ \E ans \in Answers \ {cache[d]} : /\ cache' = [cache EXCEPT ![d] = ans]
                                          /\ Renews(d, ans)
  /\ UNCHANGED <<vars, reach, reachSent, reachQueue, reachRun, refetches, thrown>>

(* A read, an upsert, the merge's transaction or the bus fails: the run ends     *)
(* where it is, what it has stored stays, and the entry is not tried again.      *)
ReachThrows(s) ==
  /\ thrown < MaxThrows
  /\ reachRun[s].pc # "idle"
  /\ thrown' = thrown + 1
  /\ reachRun' = [reachRun EXCEPT ![s] = NoRun]
  /\ renewed' = [renewed EXCEPT ![s] = {}]
  /\ UNCHANGED <<vars, cache, reach, reachSent, reachQueue, refetches, outside>>

ReachStep(s) ==
  ReachReason(s) \/ ReachFetch(s) \/ (\E d \in Domains : ReachStore(s, d))
    \/ ReachReread(s) \/ ReachMerge(s)

(* The slots are shared: an enrich-batch entry needs one no reach run holds. *)
BatchTake(s) ==
  /\ reachRun[s] = NoRun
  /\ \E b \in Batches : Take(s, b)
  /\ UNCHANGED reachVars

BatchRun(s) == Run(s) /\ UNCHANGED reachVars
BatchAgent == Agent /\ UNCHANGED reachVars

ReachNext ==
  \/ BatchAgent
  \/ SendReach
  \/ Refetch
  \/ \E s \in Slots : BatchRun(s) \/ BatchTake(s) \/ TakeReach(s) \/ ReachStep(s) \/ ReachThrows(s)
  \/ \E d \in Domains : CacheChanges(d)

AllDone ==
  /\ Finished
  /\ reachSent
  /\ reachQueue = 0
  /\ \A s \in Slots : reachRun[s] = NoRun

ReachDone == AllDone /\ UNCHANGED allVars

ReachSpec == ReachInit /\ [][ReachNext \/ ReachDone]_allVars

(* Both pipelines' runs go on, a free slot takes an entry of either kind,    *)
(* neither kind is passed over for ever, and the agent finishes its loop.    *)
ReachFairness ==
  /\ WF_allVars(Enqueue /\ UNCHANGED reachVars)
  /\ WF_allVars(SendReach)
  /\ \A s \in Slots : WF_allVars(BatchRun(s) \/ ReachStep(s))
  /\ SF_allVars(\E s \in Slots : BatchTake(s))
  /\ SF_allVars(\E s \in Slots : TakeReach(s))

ReachFairSpec == ReachSpec /\ ReachFairness
-----------------------------------------------------------------------------
ReachTypeOK ==
  /\ TypeOK
  /\ cache \in [Domains -> CacheRows]
  /\ reach \subseteq Articles
  /\ reachSent \in BOOLEAN
  /\ reachQueue \in 0..(1 + MaxRefetches)
  /\ thrown \in 0..MaxThrows
  /\ \A s \in Slots :
       /\ reachRun[s].pc \in ReachPcs
       /\ reachRun[s].todo \subseteq ChatDomains
       /\ reachRun[s].rows \subseteq ChatDomains
       /\ reachRun[s] = NoRun \/ slot[s] = Idle

(* The cache is shared by every chat, and a fetch that fails marks its domain's   *)
(* row invalid whatever was there.  It costs a row that was good only in a race:  *)
(* if the row was renewed, by another run, after the one that fails had found it   *)
(* missing or too old.                                                      *)
SpoilsOnlyInRace ==
  [][\A d \in Domains :
       cache[d] = "fresh" /\ cache'[d] \notin Valid /\ outside' = outside =>
         \E s \in Slots : reachRun'[s] # reachRun[s] /\ d \in renewed[s]]_allVars

(* What a user who fetches again after the job can rely on: every article that is *)
(* enriched when a run starts, and whose domain has a fresh row then, gets its     *)
(* value, unless that row is made invalid meanwhile or a run throws.  So a merge   *)
(* that came before the batch is made good by a later one.                     *)
RefetchRepairs ==
  \A a \in Articles, n \in 0..MaxThrows :
    (\E s \in Slots : reachRun[s].pc = "start") /\ row[a] # None /\ thrown = n
      /\ DomainOf[a] \in Domains /\ cache[DomainOf[a]] = "fresh"
    ~> a \in reach \/ cache[DomainOf[a]] \notin Valid \/ thrown > n

(* The two kinds of entries share the slots and never wait on each other:    *)
(* once there is a job, a time comes when every batch is settled and counted, *)
(* every reach-fetch has been run, whatever was answered or thrown, and every  *)
(* slot is free.                                                                    *)
PipelinesFinish == jobStatus # "none" ~> AllDone
=============================================================================
