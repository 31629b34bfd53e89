--------------------------- MODULE ChatFlow_proofs ---------------------------
(***************************************************************************)
(* Proofs about ChatFlow, for any tabs, uploads and patches and any number  *)
(* of drafts and data-extract entries: the types, that an upload is ready   *)
(* exactly when its articles are there, that no state is written that the   *)
(* query or the articles do not back, and that a patch that meets no other  *)
(* request mends the flow state.                                              *)
(***************************************************************************)
EXTENDS ChatFlow, SequenceTheorems, TLAPS

QueryType == [version : Nat, confirmed : BOOLEAN]
ExtractType == [pc : {"queued", "validate", "dates", "handoff", "done", "failed"},
                upload : Uploads \cup {None}]
ParamsType == [flow : FlowStates \cup {"absent"}, filled : SUBSET Fields,
               hasUpload : BOOLEAN, upload : Uploads \cup {None}]
RequestType == [pc : RequestPcs, draft : Nat, version : Nat,
                next : FlowStates \cup {"none"}, alone : BOOLEAN]

(* A request about to write a state has one to write, never 'complete', and   *)
(* one about to confirm a draft has read one.                               *)
RequestOK ==
  \A t \in Tabs :
    /\ req[t].pc = "advance" => req[t].next \in FlowStates \ {"complete"}
    /\ req[t].pc = "confirm" => req[t].draft \in DOMAIN query

(* Articles are there exactly once the parser is through, and their upload,   *)
(* unless it has been deleted since, is ready.                              *)
UploadOK ==
  \A u \in Uploads :
    /\ upload[u] = "ready" => u \in articles
    /\ u \in articles => parse[u] = "over" /\ upload[u] \in {"ready", "deleted"}

(* A confirmed query stands behind every state, request and entry that takes *)
(* one for granted.                                                         *)
ConfirmOK ==
  /\ params.flow \in {"processing", "complete"} => Confirmed
  /\ \A t \in Tabs :
       \/ req[t].pc \in {"enqueue", "refresh"}
       \/ req[t].pc = "advance" /\ req[t].next = "processing"
       => Confirmed
  /\ \A e \in DOMAIN extract : Confirmed

(* A data-extract run that has validated its upload has seen articles, which *)
(* nothing removes.                                                         *)
ExtractOK ==
  /\ params.flow = "complete" => articles # {}
  /\ \A e \in DOMAIN extract :
       /\ extract[e].pc \in {"validate", "dates", "handoff"} => extract[e].upload \in Uploads
       /\ extract[e].pc \in {"dates", "handoff"} => extract[e].upload \in articles

(* A request that has met no other is the only one in flight, and the state   *)
(* it is about to write is still the next one.                              *)
AloneOK ==
  \A t \in Tabs :
    /\ req[t].alone => req[t].pc # "idle" /\ Alone(t)
    /\ req[t].pc = "advance" => params.flow # "absent"
    /\ req[t].alone /\ req[t].pc = "advance" =>
         NextFlow([params EXCEPT !.flow = req[t].next], Confirmed) = req[t].next

(* After such a request the state stays the next one until a patch begins or  *)
(* a query is confirmed.                                                    *)
MendOK ==
  trusted =>
    /\ params.flow # "absent"
    /\ (\A t \in Tabs : req[t].pc \in {"idle", "generate", "edit", "confirm"})
         => params.flow = "complete" \/ params.flow = NextFlow(params, Confirmed)

USE FlowAssumption
-----------------------------------------------------------------------------
(* The flow engine asks for 'processing' only once a query is confirmed, and  *)
(* answers 'complete' only to a row that is complete.                        *)
LEMMA NextFlowRange ==
  ASSUME NEW p, NEW c \in BOOLEAN
  PROVE  /\ NextFlow(p, c) \in FlowStates \ {"init"}
         /\ NextFlow(p, c) = "processing" => c
         /\ NextFlow(p, c) = "complete" => c /\ p.flow = "complete"
BY DEF NextFlow, FlowStates

(* It looks at nothing but the parameters given, whether there is an upload, *)
(* and whether the row is complete.                                         *)
LEMMA NextFlowSame ==
  ASSUME NEW p, NEW q, NEW c \in BOOLEAN,
         p.filled = q.filled, p.hasUpload = q.hasUpload,
         p.flow = "complete" <=> q.flow = "complete"
  PROVE  NextFlow(p, c) = NextFlow(q, c)
BY DEF NextFlow

(* Nor does an incomplete row's state matter if another than it is the next.  *)
LEMMA NextFlowAdvance ==
  ASSUME NEW p \in ParamsType, NEW c \in BOOLEAN, NEW f \in FlowStates,
         f = NextFlow(p, c), f # p.flow
  PROVE  f # "complete" /\ NextFlow([p EXCEPT !.flow = f], c) = f
BY DEF NextFlow, ParamsType, FlowStates

LEMMA ConfirmedType == Confirmed \in BOOLEAN
BY DEF Confirmed

LEMMA PatchedType ==
  ASSUME TypeOK, NEW patch \in PatchType
  PROVE  Patched(patch) \in ParamsType /\ Patched(patch).flow # "absent"
<1> DEFINE p == IF params.flow = "absent" THEN NewParams ELSE params
<1>1. p \in ParamsType /\ p.flow # "absent"
  BY DEF TypeOK, ParamsType, NewParams, NoParams, FlowStates
<1>2. /\ patch.set \subseteq Fields
      /\ patch.upload \in Uploads \cup {None, "keep"}
  BY DEF PatchType, Fields
<1>3. Patched(patch) = [p EXCEPT !.filled = (@ \cup patch.set) \ patch.clear,
            !.hasUpload = IF patch.upload = "keep" THEN @ ELSE patch.upload # None,
            !.upload = IF patch.upload = "keep" THEN @ ELSE patch.upload]
  BY DEF Patched
<1> HIDE DEF p
<1>4. QED
  BY <1>1, <1>2, <1>3 DEF ParamsType

(* A step that puts one well-formed record into the table of extract entries. *)
LEMMA ExtractUpdate ==
  ASSUME TypeOK, NEW e \in DOMAIN extract, NEW v \in ExtractType,
         extract' = [extract EXCEPT ![e] = v]
  PROVE  /\ extract' \in Seq(ExtractType)
         /\ DOMAIN extract' = DOMAIN extract
         /\ \A x \in DOMAIN extract : extract'[x] = IF x = e THEN v ELSE extract[x]
<1>1. extract \in Seq(ExtractType)
  BY DEF TypeOK, ExtractType
<1>2. DOMAIN extract = 1..Len(extract)
  BY <1>1, LenProperties
<1>3. /\ extract' \in Seq(ExtractType)
      /\ Len(extract') = Len(extract)
      /\ \A x \in 1..Len(extract) : extract'[x] = IF x = e THEN v ELSE extract[x]
  BY <1>1, <1>2, ExceptSeq
<1>4. DOMAIN extract' = 1..Len(extract')
  BY <1>3, LenProperties
<1>5. QED
  BY <1>2, <1>3, <1>4

LEMMA ExtractEntry ==
  ASSUME TypeOK, NEW e \in DOMAIN extract
  PROVE  extract[e] \in ExtractType
<1>1. extract \in Seq(ExtractType)
  BY DEF TypeOK, ExtractType
<1>2. extract \in [1..Len(extract) -> ExtractType] /\ DOMAIN extract = 1..Len(extract)
  BY <1>1, LenProperties
<1>3. QED
  BY <1>2

LEMMA QueryRow ==
  ASSUME TypeOK, NEW i \in DOMAIN query
  PROVE  query[i] \in QueryType /\ i \in Nat
<1>1. query \in Seq(QueryType)
  BY DEF TypeOK, QueryType
<1>2. query \in [1..Len(query) -> QueryType] /\ DOMAIN query = 1..Len(query)
  BY <1>1, LenProperties
<1>3. QED
  BY <1>2

LEMMA StartedType ==
  ASSUME TypeOK, NEW t \in Tabs, NEW r \in RequestType
  PROVE  /\ Started(t, r) \in [Tabs -> RequestType]
         /\ Started(t, r)[t].pc = r.pc
         /\ Started(t, r)[t].draft = r.draft
         /\ Started(t, r)[t].alone = Alone(t)
         /\ \A x \in Tabs \ {t} : Started(t, r)[x] = [req[x] EXCEPT !.alone = FALSE]
<1>1. Alone(t) \in BOOLEAN
  BY DEF Alone
<1>2. [r EXCEPT !.alone = Alone(t)] \in RequestType
  BY <1>1 DEF RequestType
<1>3. \A x \in Tabs : [req[x] EXCEPT !.alone = FALSE] \in RequestType
  BY DEF TypeOK, RequestType
<1>4. /\ [r EXCEPT !.alone = Alone(t)].pc = r.pc
      /\ [r EXCEPT !.alone = Alone(t)].draft = r.draft
      /\ [r EXCEPT !.alone = Alone(t)].alone = Alone(t)
  BY DEF RequestType
<1>5. Started(t, r)[t] = [r EXCEPT !.alone = Alone(t)]
  BY DEF Started
<1>6. QED
  BY <1>2, <1>3, <1>4, <1>5 DEF Started

LEMMA NoRequestType == NoRequest \in RequestType /\ NoRequest.pc = "idle" /\ NoRequest.alone = FALSE
BY DEF NoRequest, RequestType, RequestPcs

(* The two ends of the first transaction of patchParams.                     *)
PatchEnds(t, r) ==
  /\ params'.flow = NextFlow(params', Confirmed)
  /\ req' = [r EXCEPT ![t] = NoRequest]
  /\ trusted' = r[t].alone

PatchGoesOn(t, r, next) ==
  /\ next = NextFlow(params', Confirmed)
  /\ NextFlow([params' EXCEPT !.flow = next], Confirmed) = next
  /\ req' = [r EXCEPT ![t] = [r[t] EXCEPT !.pc = "advance", !.next = next]]
  /\ trusted' = trusted

(* What patchParams does to the row and to the request, in either of its ways *)
(* to end the first transaction.                                            *)
LEMMA PatchWriteFacts ==
  ASSUME TypeOK, NEW t \in Tabs, NEW patch \in PatchType,
         NEW r \in [Tabs -> RequestType], PatchWrite(t, patch, r)
  PROVE  /\ params' = Patched(patch)
         /\ params' \in ParamsType
         /\ params'.flow # "absent"
         /\ \/ PatchEnds(t, r)
            \/ \E next \in FlowStates \ {"complete"} : PatchGoesOn(t, r, next)
         /\ req' \in [Tabs -> RequestType]
         /\ trusted' \in BOOLEAN
<1> DEFINE p == Patched(patch)
           next == NextFlow(p, Confirmed)
<1>0. params' = Patched(patch)
  BY DEF PatchWrite
<1>1. params' = p /\ p \in ParamsType /\ p.flow # "absent"
  BY <1>0, PatchedType
<1>2. Confirmed \in BOOLEAN
  BY ConfirmedType
<1>3. next \in FlowStates
  BY <1>2, NextFlowRange
<1>4. r[t] \in RequestType /\ r[t].alone \in BOOLEAN
  BY DEF RequestType
<1>5. CASE next = p.flow
  <2>1. req' = [r EXCEPT ![t] = NoRequest] /\ trusted' = r[t].alone
    BY <1>5 DEF PatchWrite
  <2>2. req' \in [Tabs -> RequestType]
    BY <2>1, NoRequestType
  <2> HIDE DEF p
  <2>3. params'.flow = NextFlow(params', Confirmed)
    BY <1>1, <1>5
  <2> HIDE DEF next
  <2>4. trusted' \in BOOLEAN
    BY <1>4, <2>1
  <2>5. QED
    BY <1>0, <1>1, <2>1, <2>2, <2>3, <2>4 DEF PatchEnds
<1>6. CASE next # p.flow
  <2>1. req' = [r EXCEPT ![t].pc = "advance", ![t].next = next] /\ trusted' = trusted
    BY <1>6 DEF PatchWrite
  <2> DEFINE v == [r[t] EXCEPT !.pc = "advance", !.next = next]
  <2>2. next # "complete" /\ NextFlow([p EXCEPT !.flow = next], Confirmed) = next
    BY <1>1, <1>2, <1>3, <1>6, NextFlowAdvance
  <2> HIDE DEF p, next
  <2>3. v \in RequestType
    BY <1>3, <1>4 DEF RequestType, RequestPcs
  <2>4. req' = [r EXCEPT ![t] = v]
    BY <2>1
  <2>5. req' \in [Tabs -> RequestType]
    BY <2>3, <2>4
  <2>6. trusted' \in BOOLEAN
    BY <2>1 DEF TypeOK
  <2>7. next = NextFlow(params', Confirmed)
    BY <1>1 DEF next
  <2>8. NextFlow([params' EXCEPT !.flow = next], Confirmed) = next
    BY <1>1, <2>2
  <2>9. next \in FlowStates \ {"complete"}
    BY <1>3, <2>2
  <2>10. PatchGoesOn(t, r, next)
    BY <2>1, <2>4, <2>7, <2>8 DEF PatchGoesOn
  <2>11. QED
    BY <1>0, <1>1, <2>5, <2>6, <2>9, <2>10
<1>7. QED
  BY <1>5, <1>6

LEMMA InitType == Init => TypeOK
<1> SUFFICES ASSUME Init PROVE TypeOK
  OBVIOUS
<1>1. params \in ParamsType
  BY DEF Init, ParamsType, NoParams
<1>2. req \in [Tabs -> RequestType]
  BY NoRequestType DEF Init
<1>3. query \in Seq(QueryType) /\ extract \in Seq(ExtractType)
  BY DEF Init
<1>4. QED
  BY <1>1, <1>2, <1>3 DEF Init, TypeOK, ParamsType, RequestType, QueryType, ExtractType,
                          UploadStatuses

(* The new type of each variable, one action at a time: uploads ...           *)
LEMMA UploadStepType ==
  ASSUME TypeOK, NEW u \in Uploads,
         CreateUpload(u) \/ DeleteUpload(u) \/ UploadRun(u)
  PROVE  TypeOK'
<1> USE DEF TypeOK, UploadStatuses, uploadVars
<1>1. CASE CreateUpload(u)
  BY <1>1 DEF CreateUpload
<1>2. CASE DeleteUpload(u)
  <2>1. params' \in [flow : FlowStates \cup {"absent"}, filled : SUBSET Fields,
                     hasUpload : BOOLEAN, upload : Uploads \cup {None}]
    BY <1>2 DEF DeleteUpload
  <2>2. QED
    BY <1>2, <2>1 DEF DeleteUpload
<1>3. CASE StoreUpload(u)
  <2>1. upload' \in [Uploads -> UploadStatuses]
    BY <1>3 DEF StoreUpload
  <2>2. parse' \in [Uploads -> {"none", "put", "enqueue", "queued", "insert", "over"}]
    BY <1>3 DEF StoreUpload
  <2>3. QED
    BY <1>3, <2>1, <2>2 DEF StoreUpload
<1>4. CASE StoreFails(u)
  BY <1>4 DEF StoreFails
<1>5. CASE EnqueueParse(u)
  BY <1>5 DEF EnqueueParse
<1>6. CASE ParseRead(u)
  BY <1>6 DEF ParseRead
<1>7. CASE ParseInsert(u)
  BY <1>7 DEF ParseInsert
<1>8. CASE ParseFails(u)
  BY <1>8 DEF ParseFails
<1>9. QED
  BY <1>1, <1>2, <1>3, <1>4, <1>5, <1>6, <1>7, <1>8 DEF UploadRun

(* ... a request that is patched through ...                                *)
LEMMA PatchWriteType ==
  ASSUME TypeOK, NEW t \in Tabs, NEW patch \in PatchType,
         NEW r \in [Tabs -> RequestType], PatchWrite(t, patch, r)
  PROVE  TypeOK'
<1>1. params' \in ParamsType /\ req' \in [Tabs -> RequestType] /\ trusted' \in BOOLEAN
  BY PatchWriteFacts
<1>2. UNCHANGED <<query, uploadVars, extract>>
  BY DEF PatchWrite
<1>3. QED
  BY <1>1, <1>2 DEF TypeOK, uploadVars, ParamsType, RequestType

(* ... a tab's other steps ...                                              *)
LEMMA RequestUpdateType ==
  ASSUME TypeOK, NEW t \in Tabs, NEW v \in RequestType,
         req' = [req EXCEPT ![t] = v]
  PROVE  req' \in [Tabs -> RequestType]
BY DEF TypeOK, RequestType

LEMMA QueryAppendType ==
  ASSUME TypeOK, NEW v \in QueryType, query' = Append(query, v)
  PROVE  query' \in Seq(QueryType)
<1>1. query \in Seq(QueryType)
  BY DEF TypeOK, QueryType
<1>2. QED
  BY <1>1, AppendProperties

LEMMA QueryUpdateType ==
  ASSUME TypeOK, NEW i \in DOMAIN query, query' = [query EXCEPT ![i].confirmed = TRUE]
  PROVE  query' \in Seq(QueryType) /\ DOMAIN query' = DOMAIN query
<1> DEFINE v == [query[i] EXCEPT !.confirmed = TRUE]
<1>1. query \in Seq(QueryType) /\ query[i] \in QueryType
  BY QueryRow DEF TypeOK, QueryType
<1>2. v \in QueryType
  BY <1>1 DEF QueryType
<1>3. query' = [query EXCEPT ![i] = v]
  OBVIOUS
<1> HIDE DEF v
<1>4. DOMAIN query = 1..Len(query)
  BY <1>1, LenProperties
<1>5. query' \in Seq(QueryType) /\ Len(query') = Len(query)
  <2>1. i \in 1..Len(query)
    BY <1>4
  <2>2. /\ [query EXCEPT ![i] = v] \in Seq(QueryType)
        /\ Len([query EXCEPT ![i] = v]) = Len(query)
    BY <1>1, <1>2, <2>1, ExceptSeq
  <2>3. QED
    BY <1>3, <2>2
<1>6. DOMAIN query' = 1..Len(query')
  BY <1>5, LenProperties
<1>7. QED
  BY <1>4, <1>5, <1>6

(* Other requests lose at most their loneliness when one starts, and drafts   *)
(* are never removed.                                                       *)
LEMMA RequestKept ==
  ASSUME TypeOK, RequestOK, NEW t \in Tabs,
         \A x \in Tabs \ {t} : \/ req'[x] = req[x]
                               \/ req'[x] = [req[x] EXCEPT !.alone = FALSE],
         req'[t].pc = "advance" => req'[t].next \in FlowStates \ {"complete"},
         req'[t].pc = "confirm" => req'[t].draft \in DOMAIN query,
         DOMAIN query \subseteq DOMAIN query'
  PROVE  RequestOK'
<1>1. ASSUME NEW x \in Tabs \ {t}
      PROVE  req'[x].pc = req[x].pc /\ req'[x].next = req[x].next /\ req'[x].draft = req[x].draft
  <2>1. req[x] \in RequestType
    BY DEF TypeOK, RequestType
  <2>2. QED
    BY <2>1 DEF RequestType
<1>2. QED
  BY <1>1 DEF RequestOK

LEMMA TabStepType ==
  ASSUME TypeOK, RequestOK, NEW t \in Tabs,
         Patch(t) \/ GenerateRead(t) \/ EditRead(t) \/ ConfirmRead(t) \/ Request(t)
  PROVE  TypeOK'
<1> DEFINE Others == UNCHANGED <<params, uploadVars, extract, trusted>>
<1>a. ASSUME query' \in Seq(QueryType), req' \in [Tabs -> RequestType], Others
      PROVE  TypeOK'
  BY <1>a DEF TypeOK, QueryType, RequestType, uploadVars
<1>b. req[t] \in RequestType /\ query \in Seq(QueryType)
  BY DEF TypeOK, RequestType, QueryType
<1>c. ASSUME NEW v \in Nat
      PROVE  /\ [NoRequest EXCEPT !.pc = "generate", !.version = v] \in RequestType
             /\ [NoRequest EXCEPT !.pc = "edit", !.version = v] \in RequestType
             /\ [NoRequest EXCEPT !.pc = "confirm", !.draft = v] \in RequestType
  BY <1>c DEF NoRequest, RequestType, RequestPcs
<1>d. \A i \in LatestDrafts : i \in Nat /\ query[i].version + 1 \in Nat
  BY QueryRow DEF LatestDrafts, QueryType
<1>1. CASE Patch(t)
  <2>1. PICK patch \in Patches : PatchWrite(t, patch, Started(t, NoRequest))
    BY <1>1 DEF Patch
  <2>2. patch \in PatchType /\ Started(t, NoRequest) \in [Tabs -> RequestType]
    BY NoRequestType, StartedType
  <2>3. QED
    BY <2>1, <2>2, PatchWriteType
<1>2. CASE PatchAdvance(t)
  <2>1. params' \in ParamsType
    <3>1. params \in ParamsType /\ req[t].next \in FlowStates
      BY <1>2 DEF PatchAdvance, RequestOK, TypeOK, ParamsType
    <3>2. QED
      BY <1>2, <3>1 DEF PatchAdvance, ParamsType
  <2>2. req' \in [Tabs -> RequestType] /\ trusted' \in BOOLEAN
    BY <1>2, <1>b, NoRequestType, RequestUpdateType DEF PatchAdvance, Ended, RequestType
  <2>3. QED
    BY <1>2, <2>1, <2>2 DEF PatchAdvance, TypeOK, ParamsType, RequestType, uploadVars
<1>3. CASE GenerateRead(t)
  <2>1. PICK v \in Nat : req' = Started(t, [NoRequest EXCEPT !.pc = "generate", !.version = v])
    BY <1>3, <1>d DEF GenerateRead
  <2>2. req' \in [Tabs -> RequestType]
    BY <1>c, <2>1, StartedType
  <2>3. QED
    BY <1>3, <1>a, <1>b, <2>2 DEF GenerateRead
<1>4. CASE EditRead(t)
  <2>1. PICK v \in Nat : req' = Started(t, [NoRequest EXCEPT !.pc = "edit", !.version = v])
    BY <1>4, <1>d DEF EditRead
  <2>2. req' \in [Tabs -> RequestType]
    BY <1>c, <2>1, StartedType
  <2>3. QED
    BY <1>4, <1>a, <1>b, <2>2 DEF EditRead
<1>5. CASE ConfirmRead(t)
  <2>1. PICK i \in Nat : req' = Started(t, [NoRequest EXCEPT !.pc = "confirm", !.draft = i])
    BY <1>5, <1>d DEF ConfirmRead
  <2>2. req' \in [Tabs -> RequestType]
    BY <1>c, <2>1, StartedType
  <2>3. QED
    BY <1>5, <1>a, <1>b, <2>2 DEF ConfirmRead
<1>6. CASE CreateDraft(t)
  <2>1. [version |-> req[t].version, confirmed |-> FALSE] \in QueryType
    BY <1>b DEF QueryType, RequestType
  <2>2. query' \in Seq(QueryType)
    BY <1>6, <2>1, QueryAppendType DEF CreateDraft
  <2>3. req' \in [Tabs -> RequestType]
    BY <1>6, NoRequestType, RequestUpdateType DEF CreateDraft, Ended
  <2>4. QED
    BY <1>6, <1>a, <2>2, <2>3 DEF CreateDraft
<1>7. CASE ConfirmWrite(t)
  <2>1. query' \in Seq(QueryType)
    BY <1>7, QueryUpdateType DEF ConfirmWrite, RequestOK
  <2>2. [req[t] EXCEPT !.pc = "enqueue"] \in RequestType
    BY <1>b DEF RequestType, RequestPcs
  <2>3. req' \in [Tabs -> RequestType]
    BY <1>7, <2>2, RequestUpdateType DEF ConfirmWrite
  <2>4. QED
    BY <1>7, <1>a, <2>1, <2>3 DEF ConfirmWrite
<1>8. CASE ConfirmEnqueue(t)
  <2>1. [req[t] EXCEPT !.pc = "refresh", !.draft = 0] \in RequestType
    BY <1>b DEF RequestType, RequestPcs
  <2>2. req' \in [Tabs -> RequestType]
    <3>1. req' = [req EXCEPT ![t] = [req[t] EXCEPT !.pc = "refresh", !.draft = 0]]
      BY <1>8 DEF ConfirmEnqueue
    <3>2. QED
      BY <2>1, <3>1, RequestUpdateType
  <2>3. [pc |-> "queued", upload |-> None] \in ExtractType
    BY DEF ExtractType
  <2>4. extract' \in Seq(ExtractType)
    BY <1>8, <2>3, AppendProperties DEF ConfirmEnqueue, TypeOK, ExtractType
  <2>5. QED
    BY <1>8, <2>2, <2>4 DEF ConfirmEnqueue, TypeOK, ExtractType, RequestType, uploadVars
<1>9. CASE ConfirmRefresh(t)
  <2>1. EmptyPatch \in PatchType /\ req \in [Tabs -> RequestType]
    BY DEF EmptyPatch, PatchType, TypeOK, RequestType
  <2>2. QED
    BY <1>9, <2>1, PatchWriteType DEF ConfirmRefresh
<1>10. QED
  BY <1>1, <1>2, <1>3, <1>4, <1>5, <1>6, <1>7, <1>8, <1>9 DEF Request

(* ... and the data-extract runs.                                           *)
LEMMA ExtractStepType ==
  ASSUME TypeOK, NEW e \in DOMAIN extract, ExtractRun(e)
  PROVE  TypeOK'
<1>a. extract[e] \in ExtractType
  BY ExtractEntry
<1>b. ASSUME extract' \in Seq(ExtractType), UNCHANGED <<params, query, uploadVars, req, trusted>>
      PROVE  TypeOK'
  BY <1>b DEF TypeOK, ExtractType, uploadVars
<1>1. CASE ExtractPerceive(e)
  <2> DEFINE v == IF params.upload = None THEN [extract[e] EXCEPT !.pc = "failed"]
                  ELSE [pc |-> "validate", upload |-> params.upload]
  <2>1. v \in ExtractType
    BY <1>a DEF TypeOK, ExtractType
  <2>2. extract' = [extract EXCEPT ![e] = v]
    BY <1>1 DEF ExtractPerceive
  <2> HIDE DEF v
  <2>3. QED
    BY <1>1, <1>b, <2>1, <2>2, ExtractUpdate DEF ExtractPerceive
<1>2. ASSUME NEW pc \in {"dates", "handoff", "done", "failed"},
             extract' = [extract EXCEPT ![e].pc = pc]
      PROVE  extract' \in Seq(ExtractType)
  <2> DEFINE v == [extract[e] EXCEPT !.pc = pc]
  <2>1. v \in ExtractType
    BY <1>a DEF ExtractType
  <2>2. extract' = [extract EXCEPT ![e] = v]
    BY <1>2
  <2> HIDE DEF v
  <2>3. QED
    BY <2>1, <2>2, ExtractUpdate
<1>3. CASE ExtractValidate(e)
  <2>1. PICK pc \in {"dates", "failed"} : extract' = [extract EXCEPT ![e].pc = pc]
    BY <1>3 DEF ExtractValidate
  <2>2. QED
    BY <1>3, <1>b, <1>2, <2>1 DEF ExtractValidate
<1>4. CASE ExtractDates(e)
  <2>1. PICK pc \in {"handoff", "failed"} : extract' = [extract EXCEPT ![e].pc = pc]
    BY <1>4 DEF ExtractDates
  <2>2. QED
    BY <1>4, <1>b, <1>2, <2>1 DEF ExtractDates
<1>5. CASE ExtractHandoff(e)
  <2>1. extract' \in Seq(ExtractType)
    BY <1>5, <1>2 DEF ExtractHandoff
  <2>2. params' \in ParamsType
    BY <1>5 DEF ExtractHandoff, TypeOK, ParamsType, FlowStates
  <2>3. QED
    BY <1>5, <2>1, <2>2 DEF ExtractHandoff, TypeOK, ExtractType, ParamsType, uploadVars
<1>6. QED
  BY <1>1, <1>3, <1>4, <1>5 DEF ExtractRun
-----------------------------------------------------------------------------
(* What a tab's step does to the requests and the drafts.                   *)
LEMMA TabStepRequest ==
  ASSUME TypeOK, RequestOK, NEW t \in Tabs,
         Patch(t) \/ GenerateRead(t) \/ EditRead(t) \/ ConfirmRead(t) \/ Request(t)
  PROVE  RequestOK'
<1>a. req \in [Tabs -> RequestType]
  BY DEF TypeOK, RequestType
<1>b. ASSUME NEW v \in RequestType, req' = Started(t, v), query' = query,
             v.pc # "advance", v.pc = "confirm" => v.draft \in DOMAIN query
      PROVE  RequestOK'
  <2>1. /\ req'[t].pc = v.pc /\ req'[t].draft = v.draft
        /\ \A x \in Tabs \ {t} : req'[x] = [req[x] EXCEPT !.alone = FALSE]
    <3>1. /\ Started(t, v)[t].pc = v.pc /\ Started(t, v)[t].draft = v.draft
          /\ \A x \in Tabs \ {t} : Started(t, v)[x] = [req[x] EXCEPT !.alone = FALSE]
      BY StartedType
    <3>2. QED
      BY <1>b, <3>1
  <2>2. QED
    BY <1>b, <2>1, RequestKept
<1>c. ASSUME NEW v \in RequestType, req' = [req EXCEPT ![t] = v],
             DOMAIN query \subseteq DOMAIN query', v.pc \notin {"advance", "confirm"}
      PROVE  RequestOK'
  <2>1. req'[t] = v /\ \A x \in Tabs \ {t} : req'[x] = req[x]
    BY <1>a, <1>c
  <2>2. QED
    BY <1>c, <2>1, RequestKept
<1>d. ASSUME NEW patch \in PatchType, NEW r \in [Tabs -> RequestType],
             PatchWrite(t, patch, r),
             \A x \in Tabs \ {t} : r[x] = req[x] \/ r[x] = [req[x] EXCEPT !.alone = FALSE]
      PROVE  RequestOK'
  <2> DEFINE Goal == /\ req'[t].pc = "advance" => req'[t].next \in FlowStates \ {"complete"}
                     /\ req'[t].pc # "confirm"
                     /\ \A x \in Tabs \ {t} : req'[x] = r[x]
  <2>1. Goal
    <3>1. CASE PatchEnds(t, r)
      BY <1>d, <3>1, NoRequestType DEF PatchEnds
    <3>2. ASSUME NEW next \in FlowStates \ {"complete"}, PatchGoesOn(t, r, next)
          PROVE  Goal
      <4>1. req' = [r EXCEPT ![t] = [r[t] EXCEPT !.pc = "advance", !.next = next]]
        BY <3>2 DEF PatchGoesOn
      <4>2. QED
        BY <1>d, <4>1 DEF RequestType
    <3> HIDE DEF Goal
    <3>3. QED
      BY <1>d, <3>1, <3>2, PatchWriteFacts
  <2>2. query' = query
    BY <1>d DEF PatchWrite
  <2>3. QED
    BY <1>d, <2>1, <2>2, RequestKept
<1>e. \A i \in LatestDrafts : i \in Nat /\ i \in DOMAIN query /\ query[i].version + 1 \in Nat
  BY QueryRow DEF LatestDrafts, QueryType
<1>1. CASE Patch(t)
  <2>1. PICK patch \in Patches : PatchWrite(t, patch, Started(t, NoRequest))
    BY <1>1 DEF Patch
  <2>2. QED
    BY <1>d, <2>1, NoRequestType, StartedType
<1>2. CASE PatchAdvance(t)
  BY <1>2, <1>c, NoRequestType DEF PatchAdvance, Ended
<1>3. CASE GenerateRead(t)
  <2>1. PICK v \in Nat : req' = Started(t, [NoRequest EXCEPT !.pc = "generate", !.version = v])
    BY <1>3, <1>e DEF GenerateRead
  <2>2. [NoRequest EXCEPT !.pc = "generate", !.version = v] \in RequestType
    BY DEF NoRequest, RequestType, RequestPcs
  <2>3. QED
    BY <1>3, <1>b, <2>1, <2>2 DEF GenerateRead, NoRequest
<1>4. CASE EditRead(t)
  <2>1. PICK v \in Nat : req' = Started(t, [NoRequest EXCEPT !.pc = "edit", !.version = v])
    BY <1>4, <1>e DEF EditRead
  <2>2. [NoRequest EXCEPT !.pc = "edit", !.version = v] \in RequestType
    BY DEF NoRequest, RequestType, RequestPcs
  <2>3. QED
    BY <1>4, <1>b, <2>1, <2>2 DEF EditRead, NoRequest
<1>5. CASE ConfirmRead(t)
  <2>1. PICK i \in LatestDrafts : req' = Started(t, [NoRequest EXCEPT !.pc = "confirm", !.draft = i])
    BY <1>5 DEF ConfirmRead
  <2>2. [NoRequest EXCEPT !.pc = "confirm", !.draft = i] \in RequestType
    BY <1>e DEF NoRequest, RequestType, RequestPcs
  <2>3. QED
    BY <1>5, <1>b, <1>e, <2>1, <2>2 DEF ConfirmRead, NoRequest
<1>6. CASE CreateDraft(t)
  <2>1. [version |-> req[t].version, confirmed |-> FALSE] \in QueryType /\ query \in Seq(QueryType)
    BY <1>a DEF QueryType, RequestType, TypeOK
  <2>2. DOMAIN query \subseteq DOMAIN query'
    BY <1>6, <2>1, AppendProperties, LenProperties DEF CreateDraft
  <2>3. QED
    BY <1>6, <1>c, <2>2, NoRequestType DEF CreateDraft, Ended
<1>7. CASE ConfirmWrite(t)
  <2>1. DOMAIN query' = DOMAIN query
    BY <1>7, QueryUpdateType DEF ConfirmWrite, RequestOK
  <2>2. [req[t] EXCEPT !.pc = "enqueue"] \in RequestType
    BY <1>a DEF RequestType, RequestPcs
  <2>3. QED
    BY <1>7, <1>a, <1>c, <2>1, <2>2 DEF ConfirmWrite, RequestType
<1>8. CASE ConfirmEnqueue(t)
  <2>1. [req[t] EXCEPT !.pc = "refresh", !.draft = 0] \in RequestType
    BY <1>a DEF RequestType, RequestPcs
  <2>2. req' = [req EXCEPT ![t] = [req[t] EXCEPT !.pc = "refresh", !.draft = 0]]
    BY <1>8 DEF ConfirmEnqueue
  <2>3. QED
    BY <1>8, <1>a, <1>c, <2>1, <2>2 DEF ConfirmEnqueue, RequestType
<1>9. CASE ConfirmRefresh(t)
  <2>1. EmptyPatch \in PatchType
    BY DEF EmptyPatch, PatchType
  <2>2. QED
    BY <1>9, <1>a, <1>d, <2>1 DEF ConfirmRefresh
<1>10. QED
  BY <1>1, <1>2, <1>3, <1>4, <1>5, <1>6, <1>7, <1>8, <1>9 DEF Request

(* Every step is one of a tab, of an upload or of a run, or opens the chat.   *)
LEMMA TypeNext == TypeOK /\ RequestOK /\ [Next]_vars => TypeOK' /\ RequestOK'
<1> SUFFICES ASSUME TypeOK, RequestOK, [Next]_vars
             PROVE  TypeOK' /\ RequestOK'
  OBVIOUS
<1>a. ASSUME UNCHANGED <<req, query>>
      PROVE  RequestOK'
  BY <1>a DEF RequestOK
<1>1. CASE OpenChat
  <2>1. params' \in ParamsType
    BY <1>1 DEF OpenChat, NewParams, NoParams, ParamsType, FlowStates
  <2>2. QED
    BY <1>1, <1>a, <2>1 DEF OpenChat, TypeOK, ParamsType, uploadVars
<1>2. ASSUME NEW u \in Uploads, CreateUpload(u) \/ DeleteUpload(u) \/ UploadRun(u)
      PROVE  TypeOK' /\ RequestOK'
  <2>1. UNCHANGED <<req, query>>
    BY <1>2 DEF CreateUpload, DeleteUpload, UploadRun, StoreUpload, StoreFails, EnqueueParse,
                ParseRead, ParseInsert, ParseFails
  <2>2. QED
    BY <1>2, <1>a, <2>1, UploadStepType
<1>3. ASSUME NEW t \in Tabs,
             Patch(t) \/ GenerateRead(t) \/ EditRead(t) \/ ConfirmRead(t) \/ Request(t)
      PROVE  TypeOK' /\ RequestOK'
  BY <1>3, TabStepType, TabStepRequest
<1>4. ASSUME NEW e \in DOMAIN extract, ExtractRun(e)
      PROVE  TypeOK' /\ RequestOK'
  <2>1. UNCHANGED <<req, query>>
    BY <1>4 DEF ExtractRun, ExtractPerceive, ExtractValidate, ExtractDates, ExtractHandoff
  <2>2. QED
    BY <1>4, <1>a, <2>1, ExtractStepType
<1>5. CASE UNCHANGED vars
  BY <1>5, <1>a DEF vars, TypeOK
<1>6. QED
  BY <1>1, <1>2, <1>3, <1>4, <1>5 DEF Next

(* The types of a chat's rows, its requests and its entries hold for ever.    *)
THEOREM TypeCorrect == Spec => []TypeOK
<1>1. Init => TypeOK /\ RequestOK
  BY InitType, NoRequestType DEF Init, RequestOK
<1>2. QED
  BY <1>1, TypeNext, PTL DEF Spec
-----------------------------------------------------------------------------
(* Only the steps of uploads touch uploads, articles and parser runs.        *)
LEMMA TabStepUploads ==
  ASSUME NEW t \in Tabs,
         Patch(t) \/ GenerateRead(t) \/ EditRead(t) \/ ConfirmRead(t) \/ Request(t)
  PROVE  UNCHANGED uploadVars
BY DEF Patch, PatchWrite, GenerateRead, EditRead, ConfirmRead, Request, PatchAdvance, CreateDraft,
       ConfirmWrite, ConfirmEnqueue, ConfirmRefresh

LEMMA UploadNext == TypeOK /\ UploadOK /\ [Next]_vars => UploadOK'
<1> SUFFICES ASSUME TypeOK, UploadOK, [Next]_vars
             PROVE  UploadOK'
  OBVIOUS
<1>a. ASSUME UNCHANGED uploadVars
      PROVE  UploadOK'
  BY <1>a DEF UploadOK, uploadVars
<1>1. CASE OpenChat
  BY <1>1, <1>a DEF OpenChat
<1>2. ASSUME NEW u \in Uploads, CreateUpload(u) \/ DeleteUpload(u) \/ UploadRun(u)
      PROVE  UploadOK'
  <2> USE DEF TypeOK, UploadOK
  <2>1. CASE CreateUpload(u)
    BY <2>1 DEF CreateUpload
  <2>2. CASE DeleteUpload(u)
    BY <2>2 DEF DeleteUpload, Exists
  <2>3. CASE StoreUpload(u)
    BY <2>3 DEF StoreUpload
  <2>4. CASE StoreFails(u)
    BY <2>4 DEF StoreFails
  <2>5. CASE EnqueueParse(u)
    BY <2>5 DEF EnqueueParse
  <2>6. CASE ParseRead(u)
    BY <2>6 DEF ParseRead
  <2>7. CASE ParseInsert(u)
    BY <2>7 DEF ParseInsert
  <2>8. CASE ParseFails(u)
    BY <2>8 DEF ParseFails
  <2>9. QED
    BY <1>2, <2>1, <2>2, <2>3, <2>4, <2>5, <2>6, <2>7, <2>8 DEF UploadRun
<1>3. ASSUME NEW t \in Tabs,
             Patch(t) \/ GenerateRead(t) \/ EditRead(t) \/ ConfirmRead(t) \/ Request(t)
      PROVE  UploadOK'
  BY <1>3, <1>a, TabStepUploads
<1>4. ASSUME NEW e \in DOMAIN extract, ExtractRun(e)
      PROVE  UploadOK'
  BY <1>4, <1>a DEF ExtractRun, ExtractPerceive, ExtractValidate, ExtractDates, ExtractHandoff
<1>5. CASE UNCHANGED vars
  BY <1>5, <1>a DEF vars, uploadVars
<1>6. QED
  BY <1>1, <1>2, <1>3, <1>4, <1>5 DEF Next

(* An upload that is there is 'ready' exactly when its articles are in the   *)
(* table, at whatever point of the parser's run it is deleted or fails.      *)
THEOREM ReadyMeansParsed == Spec => []ReadyWithArticles
<1>1. Init => TypeOK /\ RequestOK /\ UploadOK
  BY InitType, NoRequestType DEF Init, RequestOK, UploadOK
<1>2. UploadOK => ReadyWithArticles
  BY DEF UploadOK, ReadyWithArticles, Exists
<1>3. QED
  BY <1>1, <1>2, TypeNext, UploadNext, PTL DEF Spec
-----------------------------------------------------------------------------
(* Whether a query is confirmed changes only when one is confirmed.          *)
LEMMA ConfirmedSame == query' = query => (Confirmed' <=> Confirmed)
BY DEF Confirmed

LEMMA ConfirmedDraft ==
  ASSUME TypeOK, NEW t \in Tabs, CreateDraft(t)
  PROVE  Confirmed' <=> Confirmed
<1> DEFINE d == [version |-> req[t].version, confirmed |-> FALSE]
<1>1. d \in QueryType /\ query \in Seq(QueryType)
  BY DEF QueryType, TypeOK
<1>2. query' = Append(query, d)
  BY DEF CreateDraft
<1>3. d.confirmed = FALSE
  OBVIOUS
<1> HIDE DEF d
<1>4. /\ query' \in Seq(QueryType)
      /\ Len(query') = Len(query) + 1
      /\ \A i \in 1..Len(query) : query'[i] = query[i]
      /\ query'[Len(query) + 1] = d
  BY <1>1, <1>2, AppendProperties
<1>5. DOMAIN query = 1..Len(query) /\ DOMAIN query' = 1..Len(query') /\ Len(query) \in Nat
  BY <1>1, <1>4, LenProperties
<1>6. ASSUME NEW i \in DOMAIN query', query'[i].confirmed
      PROVE  i \in DOMAIN query /\ query[i].confirmed
  BY <1>3, <1>4, <1>5, <1>6
<1>7. ASSUME NEW i \in DOMAIN query, query[i].confirmed
      PROVE  i \in DOMAIN query' /\ query'[i].confirmed
  BY <1>4, <1>5, <1>7
<1>8. QED
  BY <1>6, <1>7 DEF Confirmed

LEMMA ConfirmedWrite ==
  ASSUME TypeOK, RequestOK, NEW t \in Tabs, ConfirmWrite(t)
  PROVE  Confirmed'
<1> DEFINE i == req[t].draft
<1>1. i \in DOMAIN query
  BY DEF ConfirmWrite, RequestOK
<1>2. query' = [query EXCEPT ![i].confirmed = TRUE]
  BY DEF ConfirmWrite
<1>3. DOMAIN query' = DOMAIN query
  BY <1>1, <1>2, QueryUpdateType
<1>4. query[i] \in QueryType
  BY <1>1, QueryRow
<1> HIDE DEF i
<1>5. query'[i].confirmed
  BY <1>1, <1>2, <1>4 DEF QueryType
<1>6. QED
  BY <1>1, <1>3, <1>5 DEF Confirmed

LEMMA PatchedFlow ==
  ASSUME TypeOK, NEW patch \in PatchType
  PROVE  Patched(patch).flow = params.flow \/ Patched(patch).flow = "init"
<1> DEFINE p == IF params.flow = "absent" THEN NewParams ELSE params
<1>1. p \in ParamsType /\ (p.flow = params.flow \/ p.flow = "init")
  BY DEF TypeOK, ParamsType, NewParams, NoParams, FlowStates
<1>2. Patched(patch).flow = p.flow
  <2> HIDE DEF p
  <2>1. p.flow = [p EXCEPT !.filled = (@ \cup patch.set) \ patch.clear,
            !.hasUpload = IF patch.upload = "keep" THEN @ ELSE patch.upload # None,
            !.upload = IF patch.upload = "keep" THEN @ ELSE patch.upload].flow
    BY <1>1 DEF ParamsType
  <2>2. QED
    BY <2>1 DEF Patched, p
<1>3. QED
  BY <1>1, <1>2

(* What an untouched request keeps when another one starts.                  *)
LEMMA OtherRequest ==
  ASSUME TypeOK, NEW x \in Tabs,
         req'[x] = req[x] \/ req'[x] = [req[x] EXCEPT !.alone = FALSE]
  PROVE  /\ req'[x].pc = req[x].pc
         /\ req'[x].next = req[x].next
         /\ req'[x].alone => req[x].alone
<1>1. req[x] \in RequestType
  BY DEF TypeOK, RequestType
<1>2. QED
  BY <1>1 DEF RequestType

(* A step that confirms nothing keeps ConfirmOK if the state and the request  *)
(* it leaves behind need no confirmation that was not there.                 *)
LEMMA ConfirmKept ==
  ASSUME TypeOK, ConfirmOK, NEW t \in Tabs,
         Confirmed' <=> Confirmed,
         DOMAIN extract' = DOMAIN extract,
         \A x \in Tabs \ {t} : req'[x] = req[x] \/ req'[x] = [req[x] EXCEPT !.alone = FALSE],
         params'.flow \in {"processing", "complete"} => Confirmed,
         req'[t].pc \in {"enqueue", "refresh"} => Confirmed,
         req'[t].pc = "advance" /\ req'[t].next = "processing" => Confirmed
  PROVE  ConfirmOK'
<1>1. ASSUME NEW x \in Tabs,
             \/ req'[x].pc \in {"enqueue", "refresh"}
             \/ req'[x].pc = "advance" /\ req'[x].next = "processing"
      PROVE  Confirmed
  <2>1. CASE x = t
    BY <1>1, <2>1
  <2>2. CASE x # t
    BY <1>1, <2>2, OtherRequest DEF ConfirmOK
  <2>3. QED
    BY <2>1, <2>2
<1>2. QED
  BY <1>1 DEF ConfirmOK

LEMMA PatchConfirm ==
  ASSUME TypeOK, ConfirmOK, NEW t \in Tabs, NEW patch \in PatchType,
         NEW r \in [Tabs -> RequestType], PatchWrite(t, patch, r),
         \A x \in Tabs \ {t} : r[x] = req[x] \/ r[x] = [req[x] EXCEPT !.alone = FALSE]
  PROVE  ConfirmOK'
<1>1. UNCHANGED <<query, extract>>
  BY DEF PatchWrite
<1>2. (Confirmed' <=> Confirmed) /\ Confirmed \in BOOLEAN
  BY <1>1, ConfirmedSame, ConfirmedType
<1>3. params'.flow = params.flow \/ params'.flow = "init"
  BY PatchWriteFacts, PatchedFlow
<1>4. params'.flow \in {"processing", "complete"} => Confirmed
  BY <1>3 DEF ConfirmOK
<1>5. NextFlow(params', Confirmed) = "processing" => Confirmed
  BY <1>2, NextFlowRange
<1>6. CASE PatchEnds(t, r)
  <2>1. req'[t].pc = "idle" /\ \A x \in Tabs \ {t} : req'[x] = r[x]
    BY <1>6, NoRequestType DEF PatchEnds
  <2>2. QED
    BY <1>1, <1>2, <1>4, <2>1, ConfirmKept
<1>7. ASSUME NEW next \in FlowStates, PatchGoesOn(t, r, next)
      PROVE  ConfirmOK'
  <2>1. req' = [r EXCEPT ![t] = [r[t] EXCEPT !.pc = "advance", !.next = next]]
    BY <1>7 DEF PatchGoesOn
  <2>2. /\ req'[t].pc = "advance"
        /\ req'[t].next = next
        /\ \A x \in Tabs \ {t} : req'[x] = r[x]
    BY <2>1 DEF RequestType
  <2>3. next = "processing" => Confirmed
    BY <1>5, <1>7 DEF PatchGoesOn
  <2>4. QED
    BY <1>1, <1>2, <1>4, <2>2, <2>3, ConfirmKept
<1>8. QED
  BY <1>6, <1>7, PatchWriteFacts

LEMMA TabStepConfirm ==
  ASSUME TypeOK, RequestOK, ConfirmOK, NEW t \in Tabs,
         Patch(t) \/ GenerateRead(t) \/ EditRead(t) \/ ConfirmRead(t) \/ Request(t)
  PROVE  ConfirmOK'
<1>a. req \in [Tabs -> RequestType] /\ req[t] \in RequestType
  BY DEF TypeOK, RequestType
<1>b. ASSUME NEW v \in RequestType, req' = Started(t, v), v.pc \in {"generate", "edit", "confirm"},
             UNCHANGED <<params, query, extract>>
      PROVE  ConfirmOK'
  <2>1. /\ Started(t, v)[t].pc = v.pc
        /\ \A x \in Tabs \ {t} : Started(t, v)[x] = [req[x] EXCEPT !.alone = FALSE]
    BY StartedType
  <2>2. Confirmed' <=> Confirmed
    BY <1>b, ConfirmedSame
  <2>3. req'[t].pc \in {"generate", "edit", "confirm"}
    BY <1>b, <2>1
  <2>4. params'.flow \in {"processing", "complete"} => Confirmed
    BY <1>b DEF ConfirmOK
  <2>5. QED
    BY <1>b, <2>1, <2>2, <2>3, <2>4, ConfirmKept
<1>c. \A i \in LatestDrafts : query[i].version + 1 \in Nat
  BY QueryRow DEF LatestDrafts, QueryType
<1>1. CASE Patch(t)
  <2>1. PICK patch \in Patches : PatchWrite(t, patch, Started(t, NoRequest))
    BY <1>1 DEF Patch
  <2> DEFINE r == Started(t, NoRequest)
  <2>2. /\ r \in [Tabs -> RequestType]
        /\ \A x \in Tabs \ {t} : r[x] = [req[x] EXCEPT !.alone = FALSE]
    BY NoRequestType, StartedType
  <2> HIDE DEF r
  <2>3. PatchWrite(t, patch, r) /\ patch \in PatchType
    BY <2>1 DEF r
  <2>4. QED
    BY <2>2, <2>3, PatchConfirm
<1>2. CASE PatchAdvance(t)
  <2>1. params'.flow = req[t].next /\ req[t].next \in FlowStates \ {"complete"}
    BY <1>2 DEF PatchAdvance, RequestOK, TypeOK
  <2>2. (Confirmed' <=> Confirmed) /\ extract' = extract
    BY <1>2, ConfirmedSame DEF PatchAdvance
  <2>3. req' = [req EXCEPT ![t] = NoRequest]
    BY <1>2 DEF PatchAdvance, Ended
  <2>4. params'.flow \in {"processing", "complete"} => Confirmed
    BY <1>2, <2>1 DEF PatchAdvance, ConfirmOK
  <2>5. req'[t].pc = "idle" /\ \A x \in Tabs \ {t} : req'[x] = req[x]
    BY <1>a, <2>3, NoRequestType
  <2>6. QED
    BY <2>2, <2>4, <2>5, ConfirmKept
<1>3. CASE GenerateRead(t)
  <2>1. PICK v \in Nat : req' = Started(t, [NoRequest EXCEPT !.pc = "generate", !.version = v])
    BY <1>3, <1>c DEF GenerateRead
  <2>2. /\ [NoRequest EXCEPT !.pc = "generate", !.version = v] \in RequestType
        /\ [NoRequest EXCEPT !.pc = "generate", !.version = v].pc = "generate"
    BY DEF NoRequest, RequestType, RequestPcs
  <2>3. QED
    BY <1>3, <1>b, <2>1, <2>2 DEF GenerateRead
<1>4. CASE EditRead(t)
  <2>1. PICK v \in Nat : req' = Started(t, [NoRequest EXCEPT !.pc = "edit", !.version = v])
    BY <1>4, <1>c DEF EditRead
  <2>2. /\ [NoRequest EXCEPT !.pc = "edit", !.version = v] \in RequestType
        /\ [NoRequest EXCEPT !.pc = "edit", !.version = v].pc = "edit"
    BY DEF NoRequest, RequestType, RequestPcs
  <2>3. QED
    BY <1>4, <1>b, <2>1, <2>2 DEF EditRead
<1>5. CASE ConfirmRead(t)
  <2>1. PICK i \in Nat : req' = Started(t, [NoRequest EXCEPT !.pc = "confirm", !.draft = i])
    BY <1>5, QueryRow DEF ConfirmRead, LatestDrafts
  <2>2. /\ [NoRequest EXCEPT !.pc = "confirm", !.draft = i] \in RequestType
        /\ [NoRequest EXCEPT !.pc = "confirm", !.draft = i].pc = "confirm"
    BY DEF NoRequest, RequestType, RequestPcs
  <2>3. QED
    BY <1>5, <1>b, <2>1, <2>2 DEF ConfirmRead
<1>6. CASE CreateDraft(t)
  <2>1. req' = [req EXCEPT ![t] = NoRequest] /\ UNCHANGED <<params, extract>>
    BY <1>6 DEF CreateDraft, Ended
  <2>2. Confirmed' <=> Confirmed
    BY <1>6, ConfirmedDraft
  <2>3. req'[t].pc = "idle" /\ \A x \in Tabs \ {t} : req'[x] = req[x]
    BY <1>a, <2>1, NoRequestType
  <2>4. params'.flow \in {"processing", "complete"} => Confirmed
    BY <2>1 DEF ConfirmOK
  <2>5. QED
    BY <2>1, <2>2, <2>3, <2>4, ConfirmKept
<1>7. CASE ConfirmWrite(t)
  BY <1>7, ConfirmedWrite DEF ConfirmOK
<1>8. CASE ConfirmEnqueue(t)
  <2>1. Confirmed /\ query' = query
    BY <1>8 DEF ConfirmEnqueue, ConfirmOK
  <2>2. Confirmed'
    BY <2>1, ConfirmedSame
  <2>3. QED
    BY <2>2 DEF ConfirmOK
<1>9. CASE ConfirmRefresh(t)
  <2>1. EmptyPatch \in PatchType /\ PatchWrite(t, EmptyPatch, req)
    BY <1>9 DEF EmptyPatch, PatchType, ConfirmRefresh
  <2>2. QED
    BY <1>a, <2>1, PatchConfirm
<1>10. QED
  BY <1>1, <1>2, <1>3, <1>4, <1>5, <1>6, <1>7, <1>8, <1>9 DEF Request

LEMMA ConfirmNext == TypeOK /\ RequestOK /\ ConfirmOK /\ [Next]_vars => ConfirmOK'
<1> SUFFICES ASSUME TypeOK, RequestOK, ConfirmOK, [Next]_vars
             PROVE  ConfirmOK'
  OBVIOUS
<1>a. ASSUME UNCHANGED <<query, req>>, DOMAIN extract' = DOMAIN extract,
             params'.flow \in {"processing", "complete"} => Confirmed
      PROVE  ConfirmOK'
  <2>1. Confirmed' <=> Confirmed
    BY <1>a, ConfirmedSame
  <2>2. QED
    BY <1>a, <2>1 DEF ConfirmOK
<1>b. params.flow \in {"processing", "complete"} => Confirmed
  BY DEF ConfirmOK
<1>1. CASE OpenChat
  BY <1>1, <1>a DEF OpenChat, NewParams, NoParams
<1>2. ASSUME NEW u \in Uploads, CreateUpload(u) \/ DeleteUpload(u) \/ UploadRun(u)
      PROVE  ConfirmOK'
  <2>1. UNCHANGED <<query, req, extract>>
    BY <1>2 DEF CreateUpload, DeleteUpload, UploadRun, StoreUpload, StoreFails, EnqueueParse,
                ParseRead, ParseInsert, ParseFails
  <2>2. params'.flow = params.flow
    BY <1>2 DEF CreateUpload, DeleteUpload, UploadRun, StoreUpload, StoreFails, EnqueueParse,
                ParseRead, ParseInsert, ParseFails, TypeOK
  <2>3. QED
    BY <1>a, <1>b, <2>1, <2>2
<1>3. ASSUME NEW t \in Tabs,
             Patch(t) \/ GenerateRead(t) \/ EditRead(t) \/ ConfirmRead(t) \/ Request(t)
      PROVE  ConfirmOK'
  BY <1>3, TabStepConfirm
<1>4. ASSUME NEW e \in DOMAIN extract, ExtractRun(e)
      PROVE  ConfirmOK'
  <2>1. UNCHANGED <<query, req>> /\ DOMAIN extract' = DOMAIN extract
    BY <1>4 DEF ExtractRun, ExtractPerceive, ExtractValidate, ExtractDates, ExtractHandoff
  <2>2. Confirmed
    BY <1>4 DEF ConfirmOK
  <2>3. QED
    BY <1>a, <2>1, <2>2
<1>5. CASE UNCHANGED vars
  BY <1>5, <1>a, <1>b DEF vars
<1>6. QED
  BY <1>1, <1>2, <1>3, <1>4, <1>5 DEF Next

(* A chat is 'processing' or 'complete' only with a confirmed query, however  *)
(* late a state computed earlier is written.                                 *)
THEOREM StatesAreConfirmed == Spec => []ProcessingIsConfirmed
<1>1. Init => TypeOK /\ RequestOK /\ ConfirmOK
  BY InitType, NoRequestType DEF Init, RequestOK, ConfirmOK, NoParams
<1>2. ConfirmOK => ProcessingIsConfirmed
  BY DEF ConfirmOK, ProcessingIsConfirmed
<1>3. QED
  BY <1>1, <1>2, TypeNext, ConfirmNext, PTL DEF Spec
-----------------------------------------------------------------------------
(* A tab's step touches the entries only to add one, and completes nothing.   *)
LEMMA TabStepExtract ==
  ASSUME TypeOK, RequestOK, NEW t \in Tabs,
         Patch(t) \/ GenerateRead(t) \/ EditRead(t) \/ ConfirmRead(t) \/ Request(t)
  PROVE  /\ params'.flow = "complete" => params.flow = "complete"
         /\ \/ extract' = extract
            \/ extract' = Append(extract, [pc |-> "queued", upload |-> None])
<1>1. CASE Patch(t)
  <2>1. PICK patch \in Patches : PatchWrite(t, patch, Started(t, NoRequest))
    BY <1>1 DEF Patch
  <2>2. params' = Patched(patch) /\ extract' = extract /\ patch \in PatchType
    BY <2>1 DEF PatchWrite
  <2>3. QED
    BY <2>2, PatchedFlow
<1>2. CASE PatchAdvance(t)
  BY <1>2 DEF PatchAdvance, RequestOK, TypeOK
<1>3. CASE ConfirmRefresh(t)
  <2>1. params' = Patched(EmptyPatch) /\ extract' = extract /\ EmptyPatch \in PatchType
    BY <1>3 DEF ConfirmRefresh, PatchWrite, EmptyPatch, PatchType
  <2>2. QED
    BY <2>1, PatchedFlow
<1>4. CASE GenerateRead(t) \/ EditRead(t) \/ ConfirmRead(t) \/ CreateDraft(t)
             \/ ConfirmWrite(t) \/ ConfirmEnqueue(t)
  BY <1>4 DEF GenerateRead, EditRead, ConfirmRead, CreateDraft, ConfirmWrite, ConfirmEnqueue
<1>5. QED
  BY <1>1, <1>2, <1>3, <1>4 DEF Request

LEMMA ExtractNext == TypeOK /\ RequestOK /\ UploadOK /\ ExtractOK /\ [Next]_vars => ExtractOK'
<1> SUFFICES ASSUME TypeOK, RequestOK, UploadOK, ExtractOK, [Next]_vars
             PROVE  ExtractOK'
  OBVIOUS
<1>a. ASSUME articles \subseteq articles', extract' = extract,
             params'.flow = "complete" => params.flow = "complete"
      PROVE  ExtractOK'
  BY <1>a DEF ExtractOK
<1>1. CASE OpenChat
  <2>1. params'.flow = "init" /\ UNCHANGED <<articles, extract>>
    BY <1>1 DEF OpenChat, NewParams, NoParams, uploadVars
  <2>2. QED
    BY <1>a, <2>1
<1>2. ASSUME NEW u \in Uploads, CreateUpload(u) \/ DeleteUpload(u) \/ UploadRun(u)
      PROVE  ExtractOK'
  <2>1. articles \subseteq articles' /\ extract' = extract
    BY <1>2 DEF CreateUpload, DeleteUpload, UploadRun, StoreUpload, StoreFails, EnqueueParse,
                ParseRead, ParseInsert, ParseFails
  <2>2. params'.flow = params.flow
    BY <1>2 DEF CreateUpload, DeleteUpload, UploadRun, StoreUpload, StoreFails, EnqueueParse,
                ParseRead, ParseInsert, ParseFails, TypeOK
  <2>3. QED
    BY <1>a, <2>1, <2>2
<1>3. ASSUME NEW t \in Tabs,
             Patch(t) \/ GenerateRead(t) \/ EditRead(t) \/ ConfirmRead(t) \/ Request(t)
      PROVE  ExtractOK'
  <2>1. params'.flow = "complete" => params.flow = "complete"
    BY <1>3, TabStepExtract
  <2>2. articles' = articles
    BY <1>3, TabStepUploads DEF uploadVars
  <2>3. CASE extract' = extract
    BY <1>a, <2>1, <2>2, <2>3
  <2>4. CASE extract' = Append(extract, [pc |-> "queued", upload |-> None])
    <3> DEFINE v == [pc |-> "queued", upload |-> None]
    <3>1. extract \in Seq(ExtractType) /\ v \in ExtractType /\ v.pc = "queued"
      BY DEF TypeOK, ExtractType
    <3> HIDE DEF v
    <3>2. /\ extract' \in Seq(ExtractType)
          /\ Len(extract') = Len(extract) + 1
          /\ \A i \in 1..Len(extract) : extract'[i] = extract[i]
          /\ extract'[Len(extract) + 1] = v
      BY <2>4, <3>1, AppendProperties DEF v
    <3>3. DOMAIN extract = 1..Len(extract) /\ DOMAIN extract' = 1..Len(extract') /\ Len(extract) \in Nat
      BY <3>1, <3>2, LenProperties
    <3>4. \A x \in DOMAIN extract' : \/ x \in DOMAIN extract /\ extract'[x] = extract[x]
                                    \/ extract'[x].pc = "queued"
      BY <3>1, <3>2, <3>3
    <3>5. QED
      BY <2>1, <2>2, <3>4 DEF ExtractOK
  <2>5. QED
    BY <1>3, <2>3, <2>4, TabStepExtract
<1>4. ASSUME NEW e \in DOMAIN extract, ExtractRun(e)
      PROVE  ExtractOK'
  <2>1. extract[e] \in ExtractType
    BY ExtractEntry
  <2>2. articles' = articles
    BY <1>4 DEF ExtractRun, ExtractPerceive, ExtractValidate, ExtractDates, ExtractHandoff, uploadVars
  <2>3. ASSUME NEW v \in ExtractType, extract' = [extract EXCEPT ![e] = v],
               v.pc \in {"validate", "dates", "handoff"} => v.upload \in Uploads,
               v.pc \in {"dates", "handoff"} => v.upload \in articles,
               params'.flow = "complete" => articles # {}
        PROVE  ExtractOK'
    <3>1. /\ DOMAIN extract' = DOMAIN extract
          /\ \A x \in DOMAIN extract : extract'[x] = IF x = e THEN v ELSE extract[x]
      BY <2>3, ExtractUpdate
    <3>2. QED
      BY <2>2, <2>3, <3>1 DEF ExtractOK
  <2>4. CASE ExtractPerceive(e)
    <3> DEFINE v == IF params.upload = None THEN [extract[e] EXCEPT !.pc = "failed"]
                    ELSE [pc |-> "validate", upload |-> params.upload]
    <3>1. /\ v \in ExtractType
          /\ (v.pc = "validate" /\ v.upload \in Uploads) \/ v.pc = "failed"
      BY <2>1 DEF TypeOK, ExtractType
    <3>2. extract' = [extract EXCEPT ![e] = v] /\ params' = params
      BY <2>4 DEF ExtractPerceive
    <3> HIDE DEF v
    <3>3. params'.flow = "complete" => articles # {}
      BY <3>2 DEF ExtractOK
    <3>4. QED
      BY <2>3, <3>1, <3>2, <3>3
  <2>5. ASSUME NEW pc \in {"dates", "handoff", "done", "failed"},
               extract' = [extract EXCEPT ![e].pc = pc],
               pc \in {"dates", "handoff"} => extract[e].upload \in articles,
               params'.flow = "complete" => articles # {}
        PROVE  ExtractOK'
    <3> DEFINE v == [extract[e] EXCEPT !.pc = pc]
    <3>1. v \in ExtractType /\ v.pc = pc /\ v.upload = extract[e].upload
      BY <2>1 DEF ExtractType
    <3>2. extract' = [extract EXCEPT ![e] = v]
      BY <2>5
    <3> HIDE DEF v
    <3>3. v.pc \in {"validate", "dates", "handoff"} => v.upload \in Uploads
      BY <2>5, <3>1 DEF TypeOK
    <3>4. QED
      BY <2>3, <2>5, <3>1, <3>2, <3>3
  <2>6. params' = params => (params'.flow = "complete" => articles # {})
    BY DEF ExtractOK
  <2>7. CASE ExtractValidate(e)
    <3>1. upload[extract[e].upload] = "ready" => extract[e].upload \in articles
      BY <2>7 DEF ExtractValidate, ExtractOK, UploadOK
    <3>2. PICK pc \in {"dates", "failed"} :
            /\ extract' = [extract EXCEPT ![e].pc = pc]
            /\ pc = "dates" => upload[extract[e].upload] = "ready"
      BY <2>7 DEF ExtractValidate
    <3>3. params' = params
      BY <2>7 DEF ExtractValidate
    <3>4. QED
      BY <2>5, <2>6, <3>1, <3>2, <3>3
  <2>8. CASE ExtractDates(e)
    <3>1. extract[e].upload \in articles /\ params' = params
      BY <2>8 DEF ExtractDates, ExtractOK
    <3>2. PICK pc \in {"handoff", "failed"} : extract' = [extract EXCEPT ![e].pc = pc]
      BY <2>8 DEF ExtractDates
    <3>3. QED
      BY <2>5, <2>6, <3>1, <3>2
  <2>9. CASE ExtractHandoff(e)
    <3>1. extract[e].upload \in articles /\ extract' = [extract EXCEPT ![e].pc = "done"]
      BY <2>9 DEF ExtractHandoff, ExtractOK
    <3>2. QED
      BY <2>5, <3>1
  <2>10. QED
    BY <1>4, <2>4, <2>7, <2>8, <2>9 DEF ExtractRun
<1>5. CASE UNCHANGED vars
  BY <1>5, <1>a DEF vars
<1>6. QED
  BY <1>1, <1>2, <1>3, <1>4, <1>5 DEF Next

(* A chat that is 'complete' has articles, although its upload may go at any  *)
(* moment and patches write states computed earlier.                        *)
THEOREM CompleteIsBacked == Spec => []CompleteHasArticles
<1>1. Init => TypeOK /\ RequestOK /\ UploadOK /\ ExtractOK
  BY InitType, NoRequestType DEF Init, RequestOK, UploadOK, ExtractOK, NoParams
<1>2. ExtractOK => CompleteHasArticles
  BY DEF ExtractOK, CompleteHasArticles
<1>3. QED
  BY <1>1, <1>2, TypeNext, UploadNext, ExtractNext, PTL DEF Spec
-----------------------------------------------------------------------------
(* While a request is alone, nothing but its own steps changes what the flow  *)
(* engine looks at: a step that leaves the requests, the drafts and the       *)
(* parameters be keeps both invariants.                                      *)
LEMMA MendKept ==
  ASSUME TypeOK, TypeOK', AloneOK, MendOK, UNCHANGED <<req, query, trusted>>,
         params'.filled = params.filled, params'.hasUpload = params.hasUpload,
         \/ params'.flow = params.flow
         \/ params'.flow = "complete"
         \/ params.flow = "absent" /\ params'.flow = "init"
  PROVE  AloneOK' /\ MendOK'
<1> DEFINE c == Confirmed
<1>1. c \in BOOLEAN
  BY ConfirmedType
<1>2. params \in ParamsType /\ params' \in ParamsType
  BY DEF TypeOK, ParamsType
<1>3. Confirmed' = c
  BY Zenon DEF Confirmed
<1> HIDE DEF c
<1>4. ASSUME NEW f \in FlowStates \cup {"none"}
      PROVE  NextFlow([params' EXCEPT !.flow = f], c) = NextFlow([params EXCEPT !.flow = f], c)
  <2> DEFINE p == [params EXCEPT !.flow = f]
             q == [params' EXCEPT !.flow = f]
  <2>1. p.filled = q.filled /\ p.hasUpload = q.hasUpload /\ p.flow = q.flow
    BY <1>2 DEF ParamsType
  <2> HIDE DEF p, q
  <2>2. NextFlow(q, c) = NextFlow(p, c)
    BY <1>1, <2>1, NextFlowSame
  <2>3. QED
    BY <2>2 DEF p, q
<1>5. AloneOK'
  <2> SUFFICES ASSUME NEW t \in Tabs
               PROVE  /\ req[t].alone => req[t].pc # "idle" /\ Alone(t)'
                      /\ req[t].pc = "advance" => params'.flow # "absent"
                      /\ req[t].alone /\ req[t].pc = "advance" =>
                           NextFlow([params' EXCEPT !.flow = req[t].next], c) = req[t].next
    BY <1>3 DEF AloneOK
  <2>1. req[t].next \in FlowStates \cup {"none"}
    BY DEF TypeOK
  <2>2. req[t].alone => req[t].pc # "idle" /\ Alone(t)'
    BY DEF AloneOK, Alone
  <2>3. req[t].pc = "advance" => params'.flow # "absent"
    BY DEF AloneOK
  <2>4. ASSUME req[t].alone, req[t].pc = "advance"
        PROVE  NextFlow([params EXCEPT !.flow = req[t].next], c) = req[t].next
    BY <2>4 DEF AloneOK, c
  <2>5. QED
    BY <1>4, <2>1, <2>2, <2>3, <2>4
<1>6. MendOK'
  <2> SUFFICES ASSUME trusted
               PROVE  /\ params'.flow # "absent"
                      /\ (\A t \in Tabs : req[t].pc \in {"idle", "generate", "edit", "confirm"})
                           => params'.flow = "complete" \/ params'.flow = NextFlow(params', c)
    BY <1>3 DEF MendOK
  <2>1. params.flow # "absent"
    BY DEF MendOK
  <2>2. CASE params'.flow = "complete"
    BY <2>2
  <2>3. CASE params'.flow = params.flow
    <3>1. NextFlow(params', c) = NextFlow(params, c)
      BY <1>1, <2>3, NextFlowSame
    <3>2. (\A t \in Tabs : req[t].pc \in {"idle", "generate", "edit", "confirm"})
            => params.flow = "complete" \/ params.flow = NextFlow(params, c)
      BY DEF MendOK, c
    <3>3. QED
      BY <2>1, <2>3, <3>1, <3>2
  <2>4. QED
    BY <2>1, <2>2, <2>3
<1>7. QED
  BY <1>5, <1>6

(* A step of tab t, after which no other request is alone.                   *)
LEMMA AloneTab ==
  ASSUME AloneOK, NEW t \in Tabs,
         \A x \in Tabs \ {t} : ~req'[x].alone /\ req'[x].pc = req[x].pc,
         req'[t].alone => req'[t].pc # "idle" /\ Alone(t),
         params.flow # "absent" => params'.flow # "absent",
         req'[t].pc = "advance" => params'.flow # "absent",
         req'[t].alone /\ req'[t].pc = "advance" =>
           (NextFlow([params EXCEPT !.flow = req[t].next], Confirmed) = req[t].next)'
  PROVE  AloneOK'
<1> SUFFICES ASSUME NEW x \in Tabs
             PROVE  /\ req'[x].alone => req'[x].pc # "idle" /\ Alone(x)'
                    /\ req'[x].pc = "advance" => params'.flow # "absent"
                    /\ req'[x].alone /\ req'[x].pc = "advance" =>
                         (NextFlow([params EXCEPT !.flow = req[x].next], Confirmed) = req[x].next)'
  BY DEF AloneOK
<1>1. CASE x = t
  BY <1>1 DEF Alone
<1>2. CASE x # t
  BY <1>2 DEF AloneOK
<1>3. QED
  BY <1>1, <1>2

LEMMA PatchMends ==
  ASSUME TypeOK, AloneOK, MendOK, NEW t \in Tabs, NEW patch \in PatchType,
         NEW r \in [Tabs -> RequestType], PatchWrite(t, patch, r),
         \A x \in Tabs \ {t} : ~r[x].alone /\ r[x].pc = req[x].pc,
         r[t].alone => Alone(t)
  PROVE  AloneOK' /\ MendOK'
<1>1. params'.flow # "absent"
  BY PatchWriteFacts
<1>2. Confirmed' = Confirmed
  <2>1. query' = query
    BY DEF PatchWrite
  <2>2. QED
    BY <2>1, Zenon DEF Confirmed
<1>3. CASE PatchEnds(t, r)
  <2>1. /\ req'[t].pc = "idle" /\ ~req'[t].alone
        /\ \A x \in Tabs \ {t} : req'[x] = r[x]
    BY <1>3, NoRequestType DEF PatchEnds
  <2>2. AloneOK'
    BY <1>1, <2>1, AloneTab
  <2>3. (params.flow = NextFlow(params, Confirmed))'
    BY <1>2, <1>3 DEF PatchEnds
  <2>4. QED
    BY <1>1, <2>2, <2>3 DEF MendOK
<1>4. ASSUME NEW next \in FlowStates, PatchGoesOn(t, r, next)
      PROVE  AloneOK' /\ MendOK'
  <2>1. /\ req' = [r EXCEPT ![t] = [r[t] EXCEPT !.pc = "advance", !.next = next]]
        /\ NextFlow([params' EXCEPT !.flow = next], Confirmed) = next
    BY <1>4 DEF PatchGoesOn
  <2>2. /\ req'[t].pc = "advance" /\ req'[t].next = next /\ req'[t].alone = r[t].alone
        /\ \A x \in Tabs \ {t} : req'[x] = r[x]
    BY <2>1 DEF RequestType
  <2>3. (NextFlow([params EXCEPT !.flow = req[t].next], Confirmed) = req[t].next)'
    BY <1>2, <2>1, <2>2
  <2>4. \A x \in Tabs \ {t} : ~req'[x].alone /\ req'[x].pc = req[x].pc
    BY <2>2
  <2>5. req'[t].alone => req'[t].pc # "idle" /\ Alone(t)
    BY <2>2
  <2>6. AloneOK'
    BY <1>1, <2>3, <2>4, <2>5, AloneTab
  <2>7. MendOK'
    BY <1>1, <2>2 DEF MendOK
  <2>8. QED
    BY <2>6, <2>7
<1>5. QED
  BY <1>3, <1>4, PatchWriteFacts

(* The steps of a tab that patch nothing: the state stays the next one if it  *)
(* was, and the tab was not in the middle of a patch.                        *)
LEMMA MendTab ==
  ASSUME MendOK, NEW t \in Tabs, UNCHANGED <<params, trusted>>,
         \/ req'[t].pc \notin {"idle", "generate", "edit", "confirm"}
         \/ /\ req[t].pc \in {"idle", "generate", "edit", "confirm"}
            /\ Confirmed' <=> Confirmed,
         \A x \in Tabs \ {t} : req'[x].pc = req[x].pc
  PROVE  MendOK'
<1> SUFFICES ASSUME trusted,
                    \A x \in Tabs : req'[x].pc \in {"idle", "generate", "edit", "confirm"},
                    params.flow # "complete"
             PROVE  (params.flow = NextFlow(params, Confirmed))'
  BY DEF MendOK
<1>1. /\ Confirmed' <=> Confirmed
      /\ \A x \in Tabs : req[x].pc \in {"idle", "generate", "edit", "confirm"}
  OBVIOUS
<1>2. params.flow = NextFlow(params, Confirmed)
  BY <1>1 DEF MendOK
<1>3. NextFlow(params, Confirmed') = NextFlow(params, Confirmed)
  BY <1>1 DEF NextFlow
<1>4. (NextFlow(params, Confirmed))' = NextFlow(params, Confirmed')
  OBVIOUS
<1>5. QED
  BY <1>2, <1>3, <1>4

LEMMA TabStepMend ==
  ASSUME TypeOK, RequestOK, AloneOK, MendOK, NEW t \in Tabs,
         Patch(t) \/ GenerateRead(t) \/ EditRead(t) \/ ConfirmRead(t) \/ Request(t)
  PROVE  AloneOK' /\ MendOK'
<1>a. req \in [Tabs -> RequestType] /\ req[t] \in RequestType
  BY DEF TypeOK, RequestType
<1>b. ASSUME NEW x \in Tabs \ {t}, req[t].pc # "idle"
      PROVE  ~req[x].alone
  BY <1>b DEF AloneOK, Alone
<1>c. ASSUME NEW v \in RequestType
      PROVE  /\ Started(t, v) \in [Tabs -> RequestType]
             /\ Started(t, v)[t].pc = v.pc
             /\ Started(t, v)[t].alone = Alone(t)
             /\ \A x \in Tabs \ {t} : ~Started(t, v)[x].alone /\ Started(t, v)[x].pc = req[x].pc
  <2>1. /\ Started(t, v) \in [Tabs -> RequestType]
        /\ Started(t, v)[t].pc = v.pc
        /\ Started(t, v)[t].alone = Alone(t)
        /\ \A x \in Tabs \ {t} : Started(t, v)[x] = [req[x] EXCEPT !.alone = FALSE]
    BY StartedType
  <2>2. ASSUME NEW x \in Tabs \ {t}
        PROVE  ~Started(t, v)[x].alone /\ Started(t, v)[x].pc = req[x].pc
    BY <1>a, <2>1 DEF RequestType
  <2>3. QED
    BY <2>1, <2>2
<1>d. ASSUME NEW v \in RequestType, req' = Started(t, v), req[t].pc = "idle",
             v.pc \in {"generate", "edit", "confirm"}, UNCHANGED <<params, query, trusted>>
      PROVE  AloneOK' /\ MendOK'
  <2>1. /\ req'[t].pc = v.pc
        /\ req'[t].alone => Alone(t)
        /\ \A x \in Tabs \ {t} : ~req'[x].alone /\ req'[x].pc = req[x].pc
    BY <1>c, <1>d
  <2>2. Confirmed' <=> Confirmed
    BY <1>d, ConfirmedSame
  <2>3. AloneOK'
    BY <1>d, <2>1, AloneTab
  <2>4. MendOK'
    BY <1>d, <2>1, <2>2, MendTab
  <2>5. QED
    BY <2>3, <2>4
<1>e. ASSUME NEW v \in RequestType, req' = [req EXCEPT ![t] = v], req[t].pc # "idle",
             v.pc # "advance", v.alone => v.pc # "idle" /\ req[t].alone
      PROVE  /\ req'[t] = v
             /\ req'[t].alone => req'[t].pc # "idle" /\ Alone(t)
             /\ req'[t].pc # "advance"
             /\ \A x \in Tabs \ {t} : ~req'[x].alone /\ req'[x].pc = req[x].pc
  BY <1>a, <1>b, <1>e DEF AloneOK
<1>1. CASE Patch(t)
  <2>1. PICK patch \in Patches : PatchWrite(t, patch, Started(t, NoRequest))
    BY <1>1 DEF Patch
  <2> DEFINE r == Started(t, NoRequest)
  <2>2. /\ r \in [Tabs -> RequestType]
        /\ r[t].alone = Alone(t)
        /\ \A x \in Tabs \ {t} : ~r[x].alone /\ r[x].pc = req[x].pc
    BY <1>c, NoRequestType
  <2>3. PatchWrite(t, patch, r) /\ patch \in PatchType
    BY <2>1
  <2> HIDE DEF r
  <2>4. QED
    BY <2>2, <2>3, PatchMends
<1>2. CASE PatchAdvance(t)
  <2>1. /\ req' = [req EXCEPT ![t] = NoRequest] /\ req[t].pc = "advance"
        /\ params' = [params EXCEPT !.flow = req[t].next] /\ trusted' = req[t].alone
        /\ query' = query
    BY <1>2 DEF PatchAdvance, Ended
  <2>2. params'.flow = req[t].next /\ req[t].next \in FlowStates
    BY <2>1 DEF RequestOK, TypeOK
  <2>3. params'.flow # "absent"
    BY <2>2 DEF FlowStates
  <2>4. /\ ~req'[t].alone /\ req'[t].pc = "idle"
        /\ \A x \in Tabs \ {t} : ~req'[x].alone /\ req'[x].pc = req[x].pc
    BY <1>e, <2>1, NoRequestType
  <2>5. AloneOK'
    BY <2>3, <2>4, AloneTab
  <2>6. Confirmed' = Confirmed
    BY <2>1, Zenon DEF Confirmed
  <2>7. req[t].alone => NextFlow(params', Confirmed) = params'.flow
    BY <2>1, <2>2 DEF AloneOK
  <2>8. req[t].alone => (NextFlow(params, Confirmed) = params.flow)'
    BY <2>6, <2>7
  <2>9. MendOK'
    BY <2>1, <2>3, <2>8 DEF MendOK
  <2>10. QED
    BY <2>5, <2>9
<1>3. CASE GenerateRead(t)
  <2>1. \A i \in LatestDrafts : query[i].version + 1 \in Nat
    BY QueryRow DEF LatestDrafts, QueryType
  <2>2. PICK v \in Nat : req' = Started(t, [NoRequest EXCEPT !.pc = "generate", !.version = v])
    BY <1>3, <2>1 DEF GenerateRead
  <2>3. /\ [NoRequest EXCEPT !.pc = "generate", !.version = v] \in RequestType
        /\ [NoRequest EXCEPT !.pc = "generate", !.version = v].pc = "generate"
    BY DEF NoRequest, RequestType, RequestPcs
  <2>4. QED
    BY <1>3, <1>d, <2>2, <2>3 DEF GenerateRead
<1>4. CASE EditRead(t)
  <2>1. \A i \in LatestDrafts : query[i].version + 1 \in Nat
    BY QueryRow DEF LatestDrafts, QueryType
  <2>2. PICK v \in Nat : req' = Started(t, [NoRequest EXCEPT !.pc = "edit", !.version = v])
    BY <1>4, <2>1 DEF EditRead
  <2>3. /\ [NoRequest EXCEPT !.pc = "edit", !.version = v] \in RequestType
        /\ [NoRequest EXCEPT !.pc = "edit", !.version = v].pc = "edit"
    BY DEF NoRequest, RequestType, RequestPcs
  <2>4. QED
    BY <1>4, <1>d, <2>2, <2>3 DEF EditRead
<1>5. CASE ConfirmRead(t)
  <2>1. PICK i \in Nat : req' = Started(t, [NoRequest EXCEPT !.pc = "confirm", !.draft = i])
    BY <1>5, QueryRow DEF ConfirmRead, LatestDrafts
  <2>2. /\ [NoRequest EXCEPT !.pc = "confirm", !.draft = i] \in RequestType
        /\ [NoRequest EXCEPT !.pc = "confirm", !.draft = i].pc = "confirm"
    BY DEF NoRequest, RequestType, RequestPcs
  <2>3. QED
    BY <1>5, <1>d, <2>1, <2>2 DEF ConfirmRead
<1>6. CASE CreateDraft(t)
  <2>1. /\ req' = [req EXCEPT ![t] = NoRequest] /\ req[t].pc \in {"generate", "edit"}
        /\ UNCHANGED <<params, trusted>>
    BY <1>6 DEF CreateDraft, Ended
  <2>2. /\ req'[t] = NoRequest
        /\ req'[t].pc = "idle" /\ ~req'[t].alone
        /\ \A x \in Tabs \ {t} : ~req'[x].alone /\ req'[x].pc = req[x].pc
    BY <1>e, <2>1, NoRequestType
  <2>3. AloneOK'
    BY <2>1, <2>2, AloneTab
  <2>4. MendOK'
    BY <1>6, <2>1, <2>2, ConfirmedDraft, MendTab
  <2>5. QED
    BY <2>3, <2>4
<1>7. CASE ConfirmWrite(t)
  <2> DEFINE v == [req[t] EXCEPT !.pc = "enqueue"]
  <2>1. v \in RequestType /\ v.pc = "enqueue" /\ v.alone = req[t].alone
    BY <1>a DEF RequestType, RequestPcs
  <2>2. /\ req' = [req EXCEPT ![t] = v] /\ req[t].pc = "confirm"
        /\ UNCHANGED <<params, trusted>>
    BY <1>7 DEF ConfirmWrite
  <2> HIDE DEF v
  <2>3. /\ req'[t] = v
        /\ req'[t].alone => req'[t].pc # "idle" /\ Alone(t)
        /\ \A x \in Tabs \ {t} : ~req'[x].alone /\ req'[x].pc = req[x].pc
    BY <1>e, <2>1, <2>2
  <2>4. AloneOK'
    BY <2>1, <2>2, <2>3, AloneTab
  <2>5. MendOK'
    BY <2>1, <2>2, <2>3, MendTab
  <2>6. QED
    BY <2>4, <2>5
<1>8. CASE ConfirmEnqueue(t)
  <2> DEFINE v == [req[t] EXCEPT !.pc = "refresh", !.draft = 0]
  <2>1. v \in RequestType /\ v.pc = "refresh" /\ v.alone = req[t].alone
    BY <1>a DEF RequestType, RequestPcs
  <2>2. /\ req' = [req EXCEPT ![t] = v] /\ req[t].pc = "enqueue"
        /\ UNCHANGED <<params, trusted>>
    BY <1>8 DEF ConfirmEnqueue
  <2> HIDE DEF v
  <2>3. /\ req'[t] = v
        /\ req'[t].alone => req'[t].pc # "idle" /\ Alone(t)
        /\ \A x \in Tabs \ {t} : ~req'[x].alone /\ req'[x].pc = req[x].pc
    BY <1>e, <2>1, <2>2
  <2>4. AloneOK'
    BY <2>1, <2>2, <2>3, AloneTab
  <2>5. MendOK'
    BY <2>1, <2>2, <2>3, MendTab
  <2>6. QED
    BY <2>4, <2>5
<1>9. CASE ConfirmRefresh(t)
  <2>1. EmptyPatch \in PatchType /\ PatchWrite(t, EmptyPatch, req) /\ req[t].pc # "idle"
    BY <1>9 DEF EmptyPatch, PatchType, ConfirmRefresh
  <2>2. req[t].alone => Alone(t)
    BY DEF AloneOK
  <2>3. QED
    BY <1>a, <1>b, <2>1, <2>2, PatchMends
<1>10. QED
  BY <1>1, <1>2, <1>3, <1>4, <1>5, <1>6, <1>7, <1>8, <1>9 DEF Request

LEMMA MendNext == TypeOK /\ RequestOK /\ AloneOK /\ MendOK /\ [Next]_vars => AloneOK' /\ MendOK'
<1> SUFFICES ASSUME TypeOK, RequestOK, AloneOK, MendOK, [Next]_vars
             PROVE  AloneOK' /\ MendOK'
  OBVIOUS
<1>t. TypeOK'
  BY TypeNext
<1>1. CASE OpenChat
  <2>1. /\ params.flow = "absent" /\ params' = NewParams
        /\ UNCHANGED <<req, query, trusted>>
    BY <1>1 DEF OpenChat
  <2>2. \A t \in Tabs : req[t].pc # "advance"
    BY <2>1 DEF AloneOK
  <2>3. ~trusted
    BY <2>1 DEF MendOK
  <2>4. AloneOK'
    BY <2>1, <2>2 DEF AloneOK, Alone
  <2>5. MendOK'
    BY <2>1, <2>3 DEF MendOK
  <2>6. QED
    BY <2>4, <2>5
<1>2. ASSUME NEW u \in Uploads, CreateUpload(u) \/ DeleteUpload(u) \/ UploadRun(u)
      PROVE  AloneOK' /\ MendOK'
  <2>1. UNCHANGED <<req, query, trusted>>
    BY <1>2 DEF CreateUpload, DeleteUpload, UploadRun, StoreUpload, StoreFails, EnqueueParse,
                ParseRead, ParseInsert, ParseFails
  <2>2. /\ params'.flow = params.flow
        /\ params'.filled = params.filled
        /\ params'.hasUpload = params.hasUpload
    BY <1>2 DEF CreateUpload, DeleteUpload, UploadRun, StoreUpload, StoreFails, EnqueueParse,
                ParseRead, ParseInsert, ParseFails, TypeOK
  <2>3. QED
    BY <1>t, <2>1, <2>2, MendKept
<1>3. ASSUME NEW t \in Tabs,
             Patch(t) \/ GenerateRead(t) \/ EditRead(t) \/ ConfirmRead(t) \/ Request(t)
      PROVE  AloneOK' /\ MendOK'
  BY <1>3, TabStepMend
<1>4. ASSUME NEW e \in DOMAIN extract, ExtractRun(e)
      PROVE  AloneOK' /\ MendOK'
  <2>1. UNCHANGED <<req, query, trusted>>
    BY <1>4 DEF ExtractRun, ExtractPerceive, ExtractValidate, ExtractDates, ExtractHandoff
  <2>2. /\ params'.flow = params.flow \/ params'.flow = "complete"
        /\ params'.filled = params.filled
        /\ params'.hasUpload = params.hasUpload
    BY <1>4 DEF ExtractRun, ExtractPerceive, ExtractValidate, ExtractDates, ExtractHandoff, TypeOK
  <2>3. QED
    BY <1>t, <2>1, <2>2, MendKept
<1>5. CASE UNCHANGED vars
  BY <1>5, <1>t, MendKept DEF vars
<1>6. QED
  BY <1>1, <1>2, <1>3, <1>4, <1>5 DEF Next

(* A patch that met no other request leaves the state of the first missing    *)
(* parameter, until the next patch or confirmation, whatever uploads and      *)
(* data-extract runs do meanwhile.                                          *)
THEOREM FlowIsMended == Spec => []PatchMendsFlow
<1>1. Init => TypeOK /\ RequestOK /\ AloneOK /\ MendOK
  BY InitType, NoRequestType DEF Init, RequestOK, AloneOK, MendOK
<1>2. MendOK => PatchMendsFlow
  BY DEF MendOK, PatchMendsFlow
<1>3. QED
  BY <1>1, <1>2, TypeNext, MendNext, PTL DEF Spec
=============================================================================
