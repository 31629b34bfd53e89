------------------------------- MODULE Search -------------------------------
(***************************************************************************)
(* The OpenSearch side of a chat: data-extract entries whose run pages       *)
(* through the cluster, stores every page in a transaction of its own, and   *)
(* at the end hands the chat over to enrichment or opens the reach probe.    *)
(*                                                                         *)
(* A document is the number its sort key (publication date, then id) ranks   *)
(* it by, and the cluster goes on indexing while a run pages through it.  Of  *)
(* a call to the cluster only its outcome is kept; search_history, which is     *)
(* written and then read for a log line only, is left out.  Several runs of one chat  *)
(* may be active at once, and a run that dies with the server is started      *)
(* again from the beginning.                                                *)
(***************************************************************************)
EXTENDS Integers, FiniteSetsExt

CONSTANTS
  Runs,          \* data-extract entries of the chat
  Docs,          \* the documents the query matches, newest highest
  WithReach,     \* those that carry a reach value
  Indexed,       \* those the cluster holds at the start
  PageSize,      \* OPENSEARCH_PAGE_SIZE
  MaxPages,      \* OPENSEARCH_MAX_PAGES
  Retries,       \* OPENSEARCH_RETRIES
  SampleSize,    \* PRESENCE_SAMPLE_SIZE
  MaxPatches,    \* bound: changes the user makes to the params
  MaxCrashes     \* bound: deaths of the server

ASSUME SearchAssumption ==
  /\ Docs \subseteq Nat \ {0} /\ IsFiniteSet(Docs)
  /\ WithReach \subseteq Docs /\ Indexed \subseteq Docs
  /\ {PageSize, MaxPages, Retries, SampleSize} \subseteq Nat \ {0}
  /\ {MaxPatches, MaxCrashes} \subseteq Nat

VARIABLES
  live,      \* the chat has not been deleted
  params,    \* chat_params: dataSource and enrichmentType
  cluster,   \* documents indexed
  stored,    \* open_search_id of the chat's articles
  run,       \* the run of each entry
  bus,       \* enrichmentType of each agent:enrichment:incoming published
  patches,   \* patches so far
  crashes    \* deaths so far

counts == <<patches, crashes>>
vars == <<live, params, cluster, stored, run, bus, counts>>
-----------------------------------------------------------------------------
(* The kinds of source the registry has an adapter for.                      *)
Kinds == {"opensearch", "csv_upload"}
EnrichmentTypes == {"standard", "reach"}

Pcs == {"queued", "perceive", "reason", "fetch", "insert", "reflect",
        "finish", "handover", "done", "failed"}
Ended == {"done", "failed"}

(* The last of the search:* events, or of reach:absent, that the client is told. *)
Events == {"nothing", "error", "absent", "complete"}

(* What a run holds: the enrichmentType it perceived, the pages scanned, the   *)
(* calls that failed on this page, openSearchIds as a set and the number of its *)
(* entries, the page in hand and whether it is the last, the rows it inserted,  *)
(* the final event it published; and, for the properties, the documents that    *)
(* were indexed as it began.                                                *)
RunType == [pc : Pcs, type : EnrichmentTypes, pages : 0..MaxPages,
            tries : 0..(Retries - 1), ids : SUBSET Docs, fetched : Nat,
            page : SUBSET Docs, last : BOOLEAN, inserted : Nat,
            told : Events, began : SUBSET Docs]
Queued == [pc |-> "queued", type |-> "standard", pages |-> 0, tries |-> 0,
           ids |-> {}, fetched |-> 0, page |-> {}, last |-> FALSE,
           inserted |-> 0, told |-> "nothing", began |-> {}]
Active(r) == run[r].pc \notin Ended \cup {"queued"}

Init ==
  /\ live = TRUE
  /\ params \in [source : {"opensearch"}, type : EnrichmentTypes]
  /\ cluster = Indexed
  /\ stored = {}
  /\ run = [r \in Runs |-> Queued]
  /\ bus = {}
  /\ patches = 0
  /\ crashes = 0

Set(r, x) == run' = [run EXCEPT ![r] = x]
Over(x, pc, told) == [Queued EXCEPT !.pc = pc, !.told = told, !.inserted = x.inserted]
Stop(r) == Set(r, Over(run[r], "failed", "nothing"))
StopTold(r) == Set(r, Over(run[r], "failed", "error"))
-----------------------------------------------------------------------------
(* dataExtractProcessor(): a chat whose source is not OpenSearch goes to the   *)
(* CSV agent, which is not this module's.                                   *)
Take(r) ==
  /\ run[r].pc = "queued"
  /\ Set(r, [run[r] EXCEPT !.pc = IF live /\ params.source = "opensearch"
                                  THEN "perceive" ELSE "done"])
  /\ UNCHANGED <<live, params, cluster, stored, bus, counts>>

(* perceive() reads the row again; it fails without a word when the chat or its *)
(* source is gone, and so it does when the transaction fails.                 *)
Perceive(r) ==
  /\ run[r].pc = "perceive"
  /\ \/ /\ live /\ params.source = "opensearch"
        /\ Set(r, [run[r] EXCEPT !.pc = "reason", !.type = params.type])
     \/ Stop(r)
  /\ UNCHANGED <<live, params, cluster, stored, bus, counts>>

(* reason() and plan(): no configuration resolves, or there is an adapter.      *)
Reason(r) ==
  /\ run[r].pc = "reason"
  /\ \/ Set(r, [run[r] EXCEPT !.pc = "fetch", !.began = cluster])
     \/ StopTold(r)
  /\ UNCHANGED <<live, params, cluster, stored, bus, counts>>

(* The page after the last hit: search_after, newest first.                  *)
Newest(n, S) == {d \in S : Cardinality({e \in S : e > d}) < n}

(* Mutant of PageOf: the pages are cut by their offset.                      *)
PageByOffset(x) ==
  Newest(PageSize, cluster \ Newest(x.pages * PageSize, cluster))

PageOf(x) == Newest(PageSize, {d \in cluster : \A e \in x.ids : d < e})

(* search() is answered: an empty page ends the fetch, the others are handed    *)
(* to act() with the word whether more are to come.                          *)
Fetch(r) ==
  /\ run[r].pc = "fetch"
  /\ LET x == run[r]
         hits == PageOf(x)
     IN  Set(r, [x EXCEPT
           !.pc = IF hits = {} THEN "reflect" ELSE "insert",
           !.pages = @ + 1, !.tries = 0,
           !.ids = @ \cup hits, !.fetched = @ + Cardinality(hits), !.page = hits,
           !.last = Cardinality(hits) < PageSize \/ x.pages + 1 >= MaxPages])
  /\ UNCHANGED <<live, params, cluster, stored, bus, counts>>

(* It fails: a retryable status or none at all is tried again, Retries calls in *)
(* all; a syntax error, another status and the last call end the run.          *)
FetchFails(r) ==
  /\ run[r].pc = "fetch"
  /\ \/ run[r].tries + 1 < Retries /\ Set(r, [run[r] EXCEPT !.tries = @ + 1])
     \/ StopTold(r)
  /\ UNCHANGED <<live, params, cluster, stored, bus, counts>>

(* bulkInsertArticles(): the rows it does not skip as duplicates.              *)
Fresh(hits) == hits \ stored

(* The page's transaction: bulkInsertArticles() skips the ids the chat has. It  *)
(* is rolled back when it fails, as it must once the chat is gone.            *)
Insert(r) ==
  /\ run[r].pc = "insert"
  /\ LET hits == run[r].page
     IN  \/ /\ live
            /\ stored' = stored \cup hits
            /\ Set(r, [run[r] EXCEPT !.pc = IF run[r].last THEN "reflect" ELSE "fetch",
                                     !.inserted = @ + Cardinality(Fresh(hits)), !.page = {}])
         \/ StopTold(r) /\ UNCHANGED stored
  /\ UNCHANGED <<live, params, cluster, bus, counts>>

(* detectFieldPresence() over the first articles fetched, which are the newest:  *)
(* below four in five.                                                      *)
Low(x) ==
  LET sample == Newest(SampleSize, x.ids)
  IN  5 * Cardinality(sample \cap WithReach) < 4 * Cardinality(sample)

(* reflect(): a standard run that sees too little reach opens the probe; a      *)
(* failure to pin it ends the run after reach:absent, and nothing tells of it.  *)
Reflect(r) ==
  /\ run[r].pc = "reflect"
  /\ IF run[r].ids # {} /\ run[r].type = "standard" /\ Low(run[r])
     THEN \E pc \in {"done", "failed"} : Set(r, Over(run[r], pc, "absent"))
     ELSE Set(r, [run[r] EXCEPT !.pc = "finish"])
  /\ UNCHANGED <<live, params, cluster, stored, bus, counts>>

(* Mutant of Finish: a run that meets only articles the chat has hands over,    *)
(* one that inserts some does not.                                          *)
FinishForOld(r) ==
  /\ run[r].pc = "finish"
  /\ LET x == run[r]
     IN  Set(r, IF x.inserted < x.fetched
                THEN [x EXCEPT !.pc = "handover", !.told = "complete"]
                ELSE Over(x, "done", "complete"))
  /\ UNCHANGED <<live, params, cluster, stored, bus, counts>>

(* learn() of a run that is not paused publishes search:complete, and then hands *)
(* over when it has inserted anything.                                       *)
Finish(r) ==
  /\ run[r].pc = "finish"
  /\ LET x == run[r]
     IN  Set(r, IF x.inserted > 0
                THEN [x EXCEPT !.pc = "handover", !.told = "complete"]
                ELSE Over(x, "done", "complete"))
  /\ UNCHANGED <<live, params, cluster, stored, bus, counts>>

HandOver(r) ==
  /\ run[r].pc = "handover"
  /\ bus' = bus \cup {run[r].type}
  /\ Set(r, Over(run[r], "done", "complete"))
  /\ UNCHANGED <<live, params, cluster, stored, counts>>
-----------------------------------------------------------------------------
(* The server dies: BullMQ hands its entries out again.                       *)
Crash ==
  /\ crashes < MaxCrashes
  /\ \E r \in Runs : Active(r)
  /\ crashes' = crashes + 1
  /\ run' = [r \in Runs |-> IF Active(r) THEN Queued ELSE run[r]]
  /\ UNCHANGED <<live, params, cluster, stored, bus, patches>>

(* The cluster indexes a document, wherever it sorts.                         *)
Index(d) ==
  /\ cluster' = cluster \cup {d}
  /\ UNCHANGED <<live, params, stored, run, bus, counts>>

(* The user changes the row, or deletes the chat and its rows with it.         *)
PatchParams ==
  /\ live
  /\ patches < MaxPatches
  /\ patches' = patches + 1
  /\ params' \in [source : Kinds, type : EnrichmentTypes]
  /\ UNCHANGED <<live, cluster, stored, run, bus, crashes>>

DeleteChat ==
  /\ live
  /\ live' = FALSE
  /\ stored' = {}
  /\ UNCHANGED <<params, cluster, run, bus, counts>>

Step(r) ==
  Take(r) \/ Perceive(r) \/ Reason(r) \/ Fetch(r) \/ FetchFails(r) \/ Insert(r)
    \/ Reflect(r) \/ Finish(r) \/ HandOver(r)

Next ==
  \/ \E r \in Runs : Step(r)
  \/ Crash
  \/ \E d \in Docs : Index(d)
  \/ PatchParams
  \/ DeleteChat

(* The worker takes every entry and goes on with every run.                   *)
Spec == Init /\ [][Next]_vars /\ \A r \in Runs : WF_vars(Step(r))
-----------------------------------------------------------------------------
TypeOK ==
  /\ live \in BOOLEAN
  /\ params \in [source : Kinds, type : EnrichmentTypes]
  /\ cluster \subseteq Docs
  /\ stored \subseteq Docs
  /\ run \in [Runs -> RunType]
  /\ bus \subseteq EnrichmentTypes
  /\ patches \in 0..MaxPatches
  /\ crashes \in 0..MaxCrashes

(* Paging by search_after neither repeats nor skips: whatever the cluster       *)
(* indexes meanwhile, the ids a run has fetched are distinct, every document    *)
(* that was there as it began and sorts no later than the last of them is       *)
(* among them, and all are when it came to the end before the page limit.       *)
FetchIsComplete ==
  \A r \in Runs :
    LET x == run[r]
        reached == {d \in x.began : \E e \in x.ids : d >= e}
    IN  /\ Cardinality(x.ids) = x.fetched
        /\ reached \subseteq x.ids
        /\ x.pc = "reflect" /\ x.pages < MaxPages => x.began \subseteq x.ids

(* Articles do not wait for a run that is over: when every run has ended, none   *)
(* with an error or by the server's death, the chat's articles were handed over  *)
(* or the user is asked about reach.                                         *)
NothingStranded ==
  live /\ (\A r \in Runs : run[r].pc = "done") /\ crashes = 0 /\ stored # {}
    => bus # {} \/ \E r \in Runs : run[r].told = "absent"
=============================================================================
