------------------------------- MODULE ChatFlow -------------------------------
(***************************************************************************)
(* One chat on its way to a corpus: the user uploads a file, which a worker *)
(* parses into articles; the parameters are patched one by one while the    *)
(* flow engine names the next one to ask for; a boolean query is drafted,   *)
(* edited and confirmed; and the data-extract run the confirmation enqueues *)
(* checks the upload and hands the chat over to enrichment.                 *)
(*                                                                         *)
(* The user has several tabs, so requests overlap; a request is a sequence  *)
(* of transactions and so is a run of a worker.  Texts, dates and schemas   *)
(* are left out: a parameter is given or missing.  The entries of the queue *)
(* are run in any order, which allows all that the worker's two slots do.   *)
(***************************************************************************)
EXTENDS Integers, FiniteSets, Sequences

CONSTANTS
  Tabs,          \* sources of requests of the user
  Uploads,       \* uploads the user may create
  Patches,       \* bodies of PATCH /chats/:id/params that are sent
  MaxQueries,    \* bound: boolean_queries rows
  MaxExtracts,   \* bound: data-extract entries
  None           \* no upload

Fields == {"dates", "enrichment", "brand", "competitors", "intention"}

(* PatchBody: what may be set, and what may be taken back (a null or, for    *)
(* competitors, an empty list).  The client sends hasUpload and uploadId     *)
(* together: "keep" neither, None to detach, an upload to attach it.         *)
PatchType == [set : SUBSET Fields, clear : SUBSET {"dates", "brand", "competitors"},
              upload : Uploads \cup {None, "keep"}]
EmptyPatch == [set |-> {}, clear |-> {}, upload |-> "keep"]

ASSUME FlowAssumption ==
  /\ None \notin Uploads
  /\ "keep" \notin Uploads
  /\ Patches \subseteq PatchType
  /\ MaxQueries \in Nat
  /\ MaxExtracts \in Nat

VARIABLES
  params,        \* the chat_params row
  query,         \* the boolean_queries rows, in the order they were created
  upload,        \* uploads.status by upload
  ranged,        \* uploads whose date range was detected
  articles,      \* uploads whose articles are in the articles table
  parse,         \* the upload request and the parse-upload run, by upload
  extract,       \* the data-extract entries
  req,           \* the request each tab has in flight
  trusted        \* the last patch that ended met no other request

uploadVars == <<upload, ranged, articles, parse>>
vars == <<params, query, upload, ranged, articles, parse, extract, req, trusted>>
-----------------------------------------------------------------------------
FlowStates == {"init", "collect_dates", "collect_enrichment", "collect_brand",
               "collect_competitors", "collect_intention", "generate_query",
               "processing", "complete"}
UploadStatuses == {"absent", "uploading", "parsing", "ready", "error", "deleted"}

(* A row of uploads that is there.                                          *)
Exists(u) == upload[u] \notin {"absent", "deleted"}

Confirmed == \E i \in DOMAIN query : query[i].confirmed

(* The drafts with the highest version; two drafts created at once may share *)
(* it, and the database then returns either.                                *)
LatestDrafts ==
  {i \in DOMAIN query :
     /\ ~query[i].confirmed
     /\ \A j \in DOMAIN query : query[j].confirmed \/ query[j].version <= query[i].version}

(* Mutant of NextFlow: nobody waits for the query to be confirmed.           *)
NextFlowHasty(p, confirmed) ==
  IF "dates" \notin p.filled /\ ~p.hasUpload THEN "collect_dates"
  ELSE IF "enrichment" \notin p.filled THEN "collect_enrichment"
  ELSE IF "brand" \notin p.filled THEN "collect_brand"
  ELSE IF p.flow = "complete" THEN "complete" ELSE "processing"

(* getNextFlowState: the first thing that is missing, in the order of its     *)
(* tests.  That processing is complete is taken from the row's own state.    *)
NextFlow(p, confirmed) ==
  IF "dates" \notin p.filled /\ ~p.hasUpload THEN "collect_dates"
  ELSE IF "enrichment" \notin p.filled THEN "collect_enrichment"
  ELSE IF "brand" \notin p.filled THEN "collect_brand"
  ELSE IF "competitors" \notin p.filled THEN "collect_competitors"
  ELSE IF "intention" \notin p.filled THEN "collect_intention"
  ELSE IF ~confirmed THEN "generate_query"
  ELSE IF p.flow # "complete" THEN "processing"
  ELSE "complete"

NoParams == [flow |-> "absent", filled |-> {}, hasUpload |-> FALSE, upload |-> None]
NewParams == [NoParams EXCEPT !.flow = "init"]

(* A request: where it stands, the draft it read, the version it will give,  *)
(* the flow state it will write, and whether it has met no other request.    *)
NoRequest == [pc |-> "idle", draft |-> 0, version |-> 0, next |-> "none", alone |-> FALSE]
RequestPcs == {"idle", "generate", "edit", "confirm", "enqueue", "refresh", "advance"}

Init ==
  /\ params = NoParams
  /\ query = <<>>
  /\ upload = [u \in Uploads |-> "absent"]
  /\ ranged = {}
  /\ articles = {}
  /\ parse = [u \in Uploads |-> "none"]
  /\ extract = <<>>
  /\ req = [t \in Tabs |-> NoRequest]
  /\ trusted = FALSE
-----------------------------------------------------------------------------
(* Uploads.  POST /uploads writes the row ...                                *)
CreateUpload(u) ==
  /\ upload[u] = "absent"
  /\ upload' = [upload EXCEPT ![u] = "uploading"]
  /\ parse' = [parse EXCEPT ![u] = "put"]
  /\ UNCHANGED <<params, query, ranged, articles, extract, req, trusted>>

(* ... puts the bytes into the storage and marks the row 'parsing'; the row   *)
(* may be deleted by then, and the request ends with an error ...            *)
StoreUpload(u) ==
  /\ parse[u] = "put"
  /\ \/ Exists(u) /\ upload' = [upload EXCEPT ![u] = "parsing"]
                  /\ parse' = [parse EXCEPT ![u] = "enqueue"]
     \/ ~Exists(u) /\ parse' = [parse EXCEPT ![u] = "over"] /\ UNCHANGED upload
  /\ UNCHANGED <<params, query, ranged, articles, extract, req, trusted>>

(* ... or the storage refuses them ...                                      *)
StoreFails(u) ==
  /\ parse[u] = "put"
  /\ upload' = [upload EXCEPT ![u] = IF Exists(u) THEN "error" ELSE @]
  /\ parse' = [parse EXCEPT ![u] = "over"]
  /\ UNCHANGED <<params, query, ranged, articles, extract, req, trusted>>

(* ... and enqueues parse-upload.                                           *)
EnqueueParse(u) ==
  /\ parse[u] = "enqueue"
  /\ parse' = [parse EXCEPT ![u] = "queued"]
  /\ UNCHANGED <<params, query, upload, ranged, articles, extract, req, trusted>>

(* The parse run finds the row, or ends: there is none to mark 'error'.      *)
ParseRead(u) ==
  /\ parse[u] = "queued"
  /\ parse' = [parse EXCEPT ![u] = IF Exists(u) THEN "insert" ELSE "over"]
  /\ UNCHANGED <<params, query, upload, ranged, articles, extract, req, trusted>>

(* Mutant of ParseInsert: the row is marked before the articles are there.   *)
ParseInsertLater(u) ==
  /\ parse[u] = "insert"
  /\ Exists(u)
  /\ upload' = [upload EXCEPT ![u] = "ready"]
  /\ ranged' \in {ranged, ranged \cup {u}}
  /\ parse' = [parse EXCEPT ![u] = "over"]
  /\ UNCHANGED <<params, query, articles, extract, req, trusted>>

(* One transaction inserts all the articles and marks the row 'ready'.  If    *)
(* the row has been deleted the foreign key refuses the articles.            *)
ParseInsert(u) ==
  /\ parse[u] = "insert"
  /\ Exists(u)
  /\ articles' = articles \cup {u}
  /\ upload' = [upload EXCEPT ![u] = "ready"]
  /\ ranged' \in {ranged, ranged \cup {u}}
  /\ parse' = [parse EXCEPT ![u] = "over"]
  /\ UNCHANGED <<params, query, extract, req, trusted>>

(* No bytes, no rows, or an insert that throws: the row, if it is still       *)
(* there, is marked 'error'.                                                *)
ParseFails(u) ==
  /\ parse[u] = "insert"
  /\ upload' = [upload EXCEPT ![u] = IF Exists(u) THEN "error" ELSE @]
  /\ parse' = [parse EXCEPT ![u] = "over"]
  /\ UNCHANGED <<params, query, ranged, articles, extract, req, trusted>>

(* DELETE /uploads/:id: the row goes, chat_params and the articles forget     *)
(* it (ON DELETE SET NULL), has_upload stays.                               *)
DeleteUpload(u) ==
  /\ Exists(u)
  /\ upload' = [upload EXCEPT ![u] = "deleted"]
  /\ params' = [params EXCEPT !.upload = IF @ = u THEN None ELSE @]
  /\ UNCHANGED <<query, ranged, articles, parse, extract, req, trusted>>
-----------------------------------------------------------------------------
(* Requests.  A tab starts one when its last one has ended; the requests in   *)
(* flight then meet it.                                                     *)
Alone(t) == \A x \in Tabs \ {t} : req[x].pc = "idle"

Started(t, r) ==
  [x \in Tabs |-> IF x = t THEN [r EXCEPT !.alone = Alone(t)]
                  ELSE [req[x] EXCEPT !.alone = FALSE]]

Ended(t) == [req EXCEPT ![t] = NoRequest]

(* The rows and entries there will be when the requests in flight have ended. *)
QueriesAhead == Len(query) + Cardinality({t \in Tabs : req[t].pc \in {"generate", "edit"}})
ExtractsAhead == Len(extract) + Cardinality({t \in Tabs : req[t].pc \in {"confirm", "enqueue"}})

(* GET /chats/:id/params creates the row if it is not there.                *)
OpenChat ==
  /\ params.flow = "absent"
  /\ params' = NewParams
  /\ UNCHANGED <<query, uploadVars, extract, req, trusted>>

(* The row patchParams leaves behind its first transaction.                  *)
Patched(patch) ==
  LET p == IF params.flow = "absent" THEN NewParams ELSE params IN
  [p EXCEPT !.filled = (@ \cup patch.set) \ patch.clear,
            !.hasUpload = IF patch.upload = "keep" THEN @ ELSE patch.upload # None,
            !.upload = IF patch.upload = "keep" THEN @ ELSE patch.upload]

(* Mutant of PatchWrite: the flow engine sees the row before the update.      *)
PatchWriteStale(t, patch, r) ==
  LET p == Patched(patch)
      next == NextFlow(params, Confirmed) IN
  /\ patch.upload \in Uploads => Exists(patch.upload)
  /\ params' = p
  /\ IF next = p.flow
     THEN req' = [r EXCEPT ![t] = NoRequest] /\ trusted' = r[t].alone
     ELSE req' = [r EXCEPT ![t].pc = "advance", ![t].next = next] /\ UNCHANGED trusted
  /\ UNCHANGED <<query, uploadVars, extract>>

(* patchParams, first transaction: the row is updated, and the next state is  *)
(* computed from what it returns; if it is another one, it is still to be     *)
(* written.  "r" are the requests with this one among them.                  *)
PatchWrite(t, patch, r) ==
  LET p == Patched(patch)
      next == NextFlow(p, Confirmed) IN
  /\ patch.upload \in Uploads => Exists(patch.upload)
  /\ params' = p
  /\ IF next = p.flow
     THEN req' = [r EXCEPT ![t] = NoRequest] /\ trusted' = r[t].alone
     ELSE req' = [r EXCEPT ![t].pc = "advance", ![t].next = next] /\ UNCHANGED trusted
  /\ UNCHANGED <<query, uploadVars, extract>>

(* PATCH /chats/:id/params.  An upload that is not there fails the request.   *)
Patch(t) ==
  /\ req[t].pc = "idle"
  /\ \E patch \in Patches : PatchWrite(t, patch, Started(t, NoRequest))

(* patchParams, second transaction: the state computed before is written,    *)
(* whatever the row has become.                                             *)
PatchAdvance(t) ==
  /\ req[t].pc = "advance"
  /\ params' = [params EXCEPT !.flow = req[t].next]
  /\ trusted' = req[t].alone
  /\ req' = Ended(t)
  /\ UNCHANGED <<query, uploadVars, extract>>

(* generateQueryForChat reads the latest draft; a draft with the same text    *)
(* is all the user gets, and the request is over.                           *)
GenerateRead(t) ==
  /\ req[t].pc = "idle"
  /\ "brand" \in params.filled
  /\ QueriesAhead < MaxQueries
  /\ \/ /\ LatestDrafts = {}
        /\ req' = Started(t, [NoRequest EXCEPT !.pc = "generate", !.version = 1])
     \/ \E i \in LatestDrafts :
          req' = Started(t, [NoRequest EXCEPT !.pc = "generate",
                                              !.version = query[i].version + 1])
  /\ UNCHANGED <<params, query, uploadVars, extract, trusted>>

(* patchQueryText reads the latest draft.                                   *)
EditRead(t) ==
  /\ req[t].pc = "idle"
  /\ QueriesAhead < MaxQueries
  /\ \E i \in LatestDrafts :
       req' = Started(t, [NoRequest EXCEPT !.pc = "edit", !.version = query[i].version + 1])
  /\ UNCHANGED <<params, query, uploadVars, extract, trusted>>

(* Both then create a draft of their own, with the version they computed.    *)
CreateDraft(t) ==
  /\ req[t].pc \in {"generate", "edit"}
  /\ query' = Append(query, [version |-> req[t].version, confirmed |-> FALSE])
  /\ req' = Ended(t)
  /\ UNCHANGED <<params, uploadVars, extract, trusted>>

(* confirmQuery reads the latest draft ...                                  *)
ConfirmRead(t) ==
  /\ req[t].pc = "idle"
  /\ ExtractsAhead < MaxExtracts
  /\ \E i \in LatestDrafts :
       req' = Started(t, [NoRequest EXCEPT !.pc = "confirm", !.draft = i])
  /\ UNCHANGED <<params, query, uploadVars, extract, trusted>>

(* ... confirms it, though another request may have done so ...              *)
ConfirmWrite(t) ==
  /\ req[t].pc = "confirm"
  /\ query' = [query EXCEPT ![req[t].draft].confirmed = TRUE]
  /\ req' = [req EXCEPT ![t].pc = "enqueue"]
  /\ UNCHANGED <<params, uploadVars, extract, trusted>>

(* ... enqueues data-extract ...                                            *)
ConfirmEnqueue(t) ==
  /\ req[t].pc = "enqueue"
  /\ extract' = Append(extract, [pc |-> "queued", upload |-> None])
  /\ req' = [req EXCEPT ![t].pc = "refresh", ![t].draft = 0]
  /\ UNCHANGED <<params, query, uploadVars, trusted>>

(* ... and patches nothing, for the flow state's sake.                       *)
ConfirmRefresh(t) ==
  /\ req[t].pc = "refresh"
  /\ PatchWrite(t, EmptyPatch, req)

Request(t) ==
  PatchAdvance(t) \/ CreateDraft(t) \/ ConfirmWrite(t) \/ ConfirmEnqueue(t) \/ ConfirmRefresh(t)
-----------------------------------------------------------------------------
(* DataExtractAgent.  perceive reads the upload attached to the chat, without  *)
(* which reason() throws; BullMQ does not repeat a run that throws.           *)
ExtractPerceive(e) ==
  /\ extract[e].pc = "queued"
  /\ extract' = [extract EXCEPT ![e] =
       IF params.upload = None THEN [@ EXCEPT !.pc = "failed"]
       ELSE [pc |-> "validate", upload |-> params.upload]]
  /\ UNCHANGED <<params, query, uploadVars, req, trusted>>

(* Mutant of ExtractValidate: the run waits for an upload that is not ready.  *)
ExtractValidateWaits(e) ==
  /\ extract[e].pc = "validate"
  /\ upload[extract[e].upload] = "ready"
  /\ extract' = [extract EXCEPT ![e].pc = "dates"]
  /\ UNCHANGED <<params, query, uploadVars, req, trusted>>

(* Step 'validate': the upload is still there and ready.                     *)
ExtractValidate(e) ==
  /\ extract[e].pc = "validate"
  /\ extract' = [extract EXCEPT ![e].pc =
       IF upload[extract[e].upload] = "ready" THEN "dates" ELSE "failed"]
  /\ UNCHANGED <<params, query, uploadVars, req, trusted>>

(* Steps 'parse' and 'dates': the counts agree, and a date range was detected. *)
(* The row may be gone by now.                                              *)
ExtractDates(e) ==
  /\ extract[e].pc = "dates"
  /\ extract' = [extract EXCEPT ![e].pc =
       IF Exists(extract[e].upload) /\ extract[e].upload \in ranged THEN "handoff" ELSE "failed"]
  /\ UNCHANGED <<params, query, uploadVars, req, trusted>>

(* Steps 'domains' to 'handoff', which only the last writes in: the flow is   *)
(* complete, whatever it was, and enrichment is told.                        *)
ExtractHandoff(e) ==
  /\ extract[e].pc = "handoff"
  /\ params' = [params EXCEPT !.flow = "complete"]
  /\ extract' = [extract EXCEPT ![e].pc = "done"]
  /\ UNCHANGED <<query, uploadVars, req, trusted>>

UploadRun(u) ==
  StoreUpload(u) \/ StoreFails(u) \/ EnqueueParse(u) \/ ParseRead(u) \/ ParseInsert(u) \/ ParseFails(u)

ExtractRun(e) ==
  ExtractPerceive(e) \/ ExtractValidate(e) \/ ExtractDates(e) \/ ExtractHandoff(e)

Next ==
  \/ OpenChat
  \/ \E u \in Uploads : CreateUpload(u) \/ DeleteUpload(u) \/ UploadRun(u)
  \/ \E t \in Tabs : Patch(t) \/ GenerateRead(t) \/ EditRead(t) \/ ConfirmRead(t) \/ Request(t)
  \/ \E e \in DOMAIN extract : ExtractRun(e)

Spec == Init /\ [][Next]_vars

(* Requests and runs that have begun go on, and the queue is served.         *)
Fairness ==
  /\ \A u \in Uploads : WF_vars(UploadRun(u))
  /\ \A t \in Tabs : WF_vars(Request(t))
  /\ \A e \in 1..MaxExtracts : WF_vars(e \in DOMAIN extract /\ ExtractRun(e))

FairSpec == Spec /\ Fairness
-----------------------------------------------------------------------------
TypeOK ==
  /\ params \in [flow : FlowStates \cup {"absent"}, filled : SUBSET Fields,
                 hasUpload : BOOLEAN, upload : Uploads \cup {None}]
  /\ query \in Seq([version : Nat, confirmed : BOOLEAN])
  /\ upload \in [Uploads -> UploadStatuses]
  /\ ranged \subseteq Uploads
  /\ articles \subseteq Uploads
  /\ parse \in [Uploads -> {"none", "put", "enqueue", "queued", "insert", "over"}]
  /\ extract \in Seq([pc : {"queued", "validate", "dates", "handoff", "done", "failed"},
                      upload : Uploads \cup {None}])
  /\ req \in [Tabs -> [pc : RequestPcs, draft : Nat, version : Nat,
                       next : FlowStates \cup {"none"}, alone : BOOLEAN]]
  /\ trusted \in BOOLEAN

(* A chat that is 'complete' has articles to enrich, although the upload may  *)
(* be deleted, replaced or detached at any moment of the run that completes   *)
(* it, and although patches in flight write states computed earlier.          *)
CompleteHasArticles == params.flow = "complete" => articles # {}

(* 'processing' and 'complete' are for chats with a confirmed query, however   *)
(* late a state computed earlier is written.                                 *)
ProcessingIsConfirmed == params.flow \in {"processing", "complete"} => Confirmed

(* The parser's transaction is all or nothing: an upload is 'ready' exactly   *)
(* when its articles are in the table, and one that failed left none.         *)
ReadyWithArticles == \A u \in Uploads : Exists(u) => (upload[u] = "ready" <=> u \in articles)

(* The second transaction of patchParams can write a state that is out of     *)
(* date, but the next patch that meets no other request mends it: the user   *)
(* is then asked for the first parameter that is missing, even if uploads     *)
(* and a data-extract run moved meanwhile.                                   *)
PatchMendsFlow ==
  trusted /\ (\A t \in Tabs : req[t].pc = "idle") /\ params.flow # "complete"
    => params.flow = NextFlow(params, Confirmed)

(* An upload does not stay in 'uploading' or 'parsing', and a data-extract    *)
(* entry is run to its end.                                                 *)
BackgroundWorkEnds ==
  /\ \A u \in Uploads : upload[u] \in {"uploading", "parsing"}
                          ~> upload[u] \in {"ready", "error", "deleted"}
  /\ \A e \in 1..MaxExtracts : e \in DOMAIN extract ~>
       (e \in DOMAIN extract /\ extract[e].pc \in {"done", "failed"})
=============================================================================
