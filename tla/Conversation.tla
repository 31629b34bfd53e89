---------------------------- MODULE Conversation ----------------------------
(***************************************************************************)
(* One chat's conversation: requests that post a message move               *)
(* chat.context along the wizard in one transaction, and each leaves a task *)
(* in the background that extracts the user's intent, words the reply and    *)
(* answers the reach probe.  The search run of the chat opens that probe.    *)
(*                                                                         *)
(* chat.context is one JSON value: it is read, changed and written whole,    *)
(* and two transactions that read it before either wrote lose an update.     *)
(* The wording of messages is left out; what is kept of one is the chip it   *)
(* names, if any, and whether its text is blank.  The four date chips, and    *)
(* likewise the chips of the other slots, lead to the same place and are one. *)
(***************************************************************************)
EXTENDS Integers, FiniteSets, Sequences

CONSTANTS
  Posts,         \* requests that may be in flight at once, each with its task
  Messages,      \* messages the user sends
  Intents,       \* what the extractor may be confident of in a first message
  PatchedTypes,  \* enrichmentTypes the params route is sent
  Begins,        \* states the conversation is observed from
  MaxPosts,      \* bound: messages posted from there
  MaxSearches,   \* bound: search runs
  None           \* no chip, no state

Welcome == "welcome"
Probe == "awaiting_reach_upgrade_consent"

(* The states in their order, the last two beyond the wizard; where the wizard  *)
(* goes from each of its states, and the slot of chat.context filled there.    *)
Rank == [welcome |-> 1, awaiting_date |-> 2, awaiting_enrichment |-> 3,
         awaiting_brand |-> 4, awaiting_competitors |-> 5, awaiting_intention |-> 6,
         ready |-> 7, awaiting_reach_upgrade_consent |-> 8, enriching |-> 9]
States == DOMAIN Rank
Succ == [welcome |-> "awaiting_date", awaiting_date |-> "awaiting_enrichment",
         awaiting_enrichment |-> "awaiting_brand", awaiting_brand |-> "awaiting_competitors",
         awaiting_competitors |-> "awaiting_intention", awaiting_intention |-> "ready"]
Slot == [awaiting_date |-> "dateRange", awaiting_enrichment |-> "enrichment",
         awaiting_brand |-> "brand", awaiting_competitors |-> "competitors",
         awaiting_intention |-> "intention"]
Slots == {Slot[s] : s \in DOMAIN Slot}

(* CHIP_OPTIONS_BY_STATE: what free text may be mapped to.                    *)
Options == [awaiting_date |-> {"date"}, awaiting_enrichment |-> {"enrich"},
            awaiting_competitors |-> {"preset"}, awaiting_intention |-> {"intent"},
            awaiting_reach_upgrade_consent |-> {"upgrade", "continue"}]
Choices == UNION {Options[s] : s \in DOMAIN Options}

MessageType == [choice : Choices \cup {None}, blank : BOOLEAN]
ParamSlots == {"dates", "brand", "competitors", "intention"}
IntentType == [filled : SUBSET ParamSlots, type : {"none", "standard", "reach"}]

ASSUME ConversationAssumption ==
  /\ None \notin Choices \cup States
  /\ Messages \subseteq MessageType
  /\ Intents \subseteq IntentType
  /\ PatchedTypes \subseteq {"standard", "reach"}
  /\ Begins \subseteq DOMAIN Succ \cup {"ready"}
  /\ MaxPosts \in Nat
  /\ MaxSearches \in Nat

VARIABLES
  live,          \* the chat has not been deleted
  ctx,           \* chat.context
  params,        \* what the wizard reads of the chat_params row
  posts,         \* the request each p \in Posts stands for, and its task
  search,        \* the chat's search run
  bus,           \* enrichmentType of the agent:enrichment:incoming published
  lapsed,        \* history: a task has ended without the dispatch it owed
  posted,        \* messages posted so far
  searched       \* search runs so far

counts == <<posted, searched>>
vars == <<live, ctx, params, posts, search, bus, lapsed, counts>>
-----------------------------------------------------------------------------
ContextType == [state : States, slots : SUBSET Slots]
NewContext == [state |-> Welcome, slots |-> {}]

(* chat_params: the slots that are filled, enrichmentType, intentExtractedAt. *)
ParamsType == [filled : SUBSET ParamSlots, type : {"none", "standard", "reach"},
               stamped : BOOLEAN]

(* What advance() makes of a message in state s once it was mapped to the     *)
(* chip c, None for free text: only a brand is taken from text, and the first  *)
(* message may be anything.                                                *)
Accepts(s, c, m) ==
  \/ s = Welcome
  \/ s \in DOMAIN Options /\ c \in Options[s]
  \/ s = "awaiting_brand" /\ c = None /\ ~m.blank

(* Mutant of Advance: the state is patched and the slot is not.             *)
AdvanceStateOnly(x, c, m) ==
  IF ~Accepts(x.state, c, m) THEN x
  ELSE [x EXCEPT !.state = IF @ = Probe THEN "enriching" ELSE Succ[@]]

(* advance(): the context after the message, x itself when it is not accepted. *)
Advance(x, c, m) ==
  IF ~Accepts(x.state, c, m) THEN x
  ELSE IF x.state = Probe THEN [x EXCEPT !.state = "enriching"]
  ELSE [state |-> Succ[x.state],
        slots |-> IF x.state = Welcome THEN x.slots ELSE x.slots \cup {Slot[x.state]}]

(* What a message may be mapped to in state s: its own chip; or for free text *)
(* whatever parseChoice() finds among the options, and it is asked anew by     *)
(* the request and by its task.                                            *)
Parsed(s, m) ==
  IF m.choice # None THEN {m.choice}
  ELSE {None} \cup UNION {Options[t] : t \in {s} \cap DOMAIN Options}

(* nextUnfilledState().                                                    *)
NextUnfilled(p) ==
  IF "dates" \notin p.filled THEN "awaiting_date"
  ELSE IF p.type = "none" THEN "awaiting_enrichment"
  ELSE IF "brand" \notin p.filled THEN "awaiting_brand"
  ELSE IF "competitors" \notin p.filled THEN "awaiting_competitors"
  ELSE IF "intention" \notin p.filled THEN "awaiting_intention"
  ELSE "ready"

(* A request and its task: the context it has read and not yet written over,  *)
(* the state it found, the chip it was mapped to first, the state the intent   *)
(* hook skips to, and whether it has dispatched enrichment.                  *)
PostPcs == {"idle", "parse", "gate", "extract", "mark", "reload", "stream",
            "patch", "pin", "pinned", "dispatch", "save", "done", "failed"}
PostType == [pc : PostPcs, msg : MessageType, snap : ContextType, from : States,
             first : Choices \cup {None}, again : Choices \cup {None},
             skip : States \cup {None}, sent : BOOLEAN]
Text == [choice |-> None, blank |-> FALSE]
NoPost == [pc |-> "idle", msg |-> Text, snap |-> NewContext, from |-> Welcome,
           first |-> None, again |-> None, skip |-> None, sent |-> FALSE]
Ended == {"idle", "done", "failed"}
InTask(p) == posts[p].pc \notin Ended \cup {"parse"}

Failed == [NoPost EXCEPT !.pc = "failed"]

(* A post that was mapped to an answer of the probe owes a dispatch.          *)
Owes(p) ==
  /\ posts[p].from = Probe
  /\ {posts[p].first, posts[p].again} \cap Options[Probe] # {}
  /\ ~posts[p].sent

NoSearch == [pc |-> "idle", type |-> "standard", snap |-> NewContext]

(* createChat() leaves the context as it is, with its welcome message stored;   *)
(* the other states are those the wizard has been answered up to.             *)
Init ==
  /\ live = TRUE
  /\ \E s \in Begins :
       ctx = [state |-> s, slots |-> {Slot[t] : t \in {u \in DOMAIN Slot : Rank[u] < Rank[s]}}]
  /\ params = [filled |-> {}, type |-> "none", stamped |-> FALSE]
  /\ posts = [p \in Posts |-> NoPost]
  /\ search = NoSearch
  /\ bus = {}
  /\ lapsed = FALSE
  /\ posted = 0
  /\ searched = 0
-----------------------------------------------------------------------------
(* startStreamingReply().  The transaction reads the chat; free text is parsed *)
(* by the model while it is open ...                                        *)
Post(p, m) ==
  /\ live
  /\ posts[p].pc \in Ended
  /\ posted < MaxPosts
  /\ posts' = [posts EXCEPT ![p] =
       [NoPost EXCEPT !.pc = "parse", !.msg = m, !.snap = ctx, !.from = ctx.state]]
  /\ posted' = posted + 1
  /\ UNCHANGED <<live, ctx, params, search, bus, lapsed, searched>>

(* ... and what it read, advanced, is written as the chat's context.  Its task *)
(* goes on with the state the message was posted in.                         *)
Commit(p) ==
  /\ posts[p].pc = "parse"
  /\ \E c \in Parsed(posts[p].from, posts[p].msg) :
       /\ ctx' = Advance(posts[p].snap, c, posts[p].msg)
       /\ posts' = [posts EXCEPT ![p].pc = "gate", ![p].snap = NewContext,
                                 ![p].first = c]
  /\ UNCHANGED <<live, params, search, bus, lapsed, counts>>

(* The model, a transaction or the process fails under a request or its task:  *)
(* the request's transaction is rolled back, a task ends where it is.          *)
PostFails(p) ==
  /\ posts[p].pc \notin Ended
  /\ posts' = [posts EXCEPT ![p] = Failed]
  /\ lapsed' = (lapsed \/ (InTask(p) /\ Owes(p)))
  /\ UNCHANGED <<live, ctx, params, search, bus, counts>>

(* A step of a task that goes on at pc, or ends with an error as it writes to   *)
(* a row that went with the chat.                                           *)
GoOn(p, pc) ==
  /\ posts' = [posts EXCEPT ![p] = IF live THEN [@ EXCEPT !.pc = pc] ELSE Failed]
  /\ lapsed' = (lapsed \/ (~live /\ Owes(p)))

(* executeStreaming() and runIntentExtractionHook(): a first message that is    *)
(* neither a chip nor blank goes to the extractor, unless the row is stamped    *)
(* or gone.                                                               *)
Gate(p) ==
  /\ posts[p].pc = "gate"
  /\ LET first == /\ posts[p].from = Welcome
                  /\ posts[p].msg = Text
                  /\ live /\ ~params.stamped
     IN  posts' = [posts EXCEPT ![p].pc = IF first THEN "extract" ELSE "stream"]
  /\ UNCHANGED <<live, ctx, params, search, bus, lapsed, counts>>

(* extractIntent() fails, and the wizard goes on as without it; or it yields    *)
(* an intent, whose confident fields applyIntentToChatParams() patches ...     *)
Extract(p) ==
  /\ posts[p].pc = "extract"
  /\ \/ /\ posts' = [posts EXCEPT ![p].pc = "stream"]
        /\ UNCHANGED <<params, lapsed, counts>>
     \/ \E i \in Intents :
          /\ params' = IF ~live THEN params
                       ELSE [params EXCEPT !.filled = @ \cup i.filled,
                                           !.type = IF i.type = "none" THEN @ ELSE i.type]
          /\ GoOn(p, "mark")
  /\ UNCHANGED <<live, ctx, search, bus, counts>>

(* ... markIntentExtracted() stamps the row ...                             *)
Mark(p) ==
  /\ posts[p].pc = "mark"
  /\ params' = [params EXCEPT !.stamped = @ \/ live]
  /\ GoOn(p, "reload")
  /\ UNCHANGED <<live, ctx, search, bus, counts>>

(* ... and the row, read again, says which state to skip to.                 *)
Reload(p) ==
  /\ posts[p].pc = "reload"
  /\ LET target == NextUnfilled(params)
     IN  IF target = "awaiting_date" \/ ~live
         THEN GoOn(p, "stream")
         ELSE /\ posts' = [posts EXCEPT ![p].pc = "stream", ![p].skip = target]
              /\ UNCHANGED lapsed
  /\ UNCHANGED <<live, ctx, params, search, bus, counts>>

(* reason() maps the message to a chip a second time and actStreaming()         *)
(* publishes the reply; the probe is resolved when that chip answers it.  In    *)
(* the other states the mapping decides about the chips of the reply only.     *)
Stream(p) ==
  /\ posts[p].pc = "stream"
  /\ \/ /\ posts[p].from # Probe
        /\ posts' = [posts EXCEPT ![p].pc = "save"]
        /\ UNCHANGED lapsed
     \/ /\ posts[p].from = Probe
        /\ \E c \in Parsed(Probe, posts[p].msg) :
             LET answers == c \in Options[Probe]
             IN  /\ posts' = [posts EXCEPT ![p].pc = IF answers THEN "patch" ELSE "save",
                                           ![p].again = c]
                 /\ lapsed' = (lapsed \/ (~answers /\ Owes(p)))
  /\ UNCHANGED <<live, ctx, params, search, bus, counts>>

(* resolveReachProbe(): the choice is patched into chat_params ...            *)
Patch(p) ==
  /\ posts[p].pc = "patch"
  /\ params' = IF ~live THEN params
               ELSE IF posts[p].again = "upgrade" THEN [params EXCEPT !.type = "reach"]
               ELSE [params EXCEPT !.filled = @ \cup {"intention"}]
  /\ GoOn(p, "pin")
  /\ UNCHANGED <<live, ctx, search, bus, counts>>

(* Mutant of Pin: that the state is set already is taken for a probe that was  *)
(* resolved.                                                              *)
PinOnce(p) ==
  /\ posts[p].pc = "pin"
  /\ posts' = [posts EXCEPT
       ![p].pc = IF ~live \/ ctx.state = "enriching" THEN "save" ELSE "pinned",
       ![p].snap = IF ~live \/ ctx.state = "enriching" THEN @ ELSE ctx]
  /\ UNCHANGED <<live, ctx, params, search, bus, lapsed, counts>>

(* ... setChatProbeState() reads the chat: there is nothing to do when it is   *)
(* gone or has the state already, as after the request's own commit ...        *)
Pin(p) ==
  /\ posts[p].pc = "pin"
  /\ posts' = [posts EXCEPT
       ![p].pc = IF ~live \/ ctx.state = "enriching" THEN "dispatch" ELSE "pinned",
       ![p].snap = IF ~live \/ ctx.state = "enriching" THEN @ ELSE ctx]
  /\ UNCHANGED <<live, ctx, params, search, bus, lapsed, counts>>

(* ... and writes what it read, in state 'enriching' ...                     *)
WritePin(p) ==
  /\ posts[p].pc = "pinned"
  /\ ctx' = IF live THEN [posts[p].snap EXCEPT !.state = "enriching"] ELSE ctx
  /\ posts' = [posts EXCEPT ![p] =
       IF live THEN [@ EXCEPT !.pc = "dispatch", !.snap = NewContext] ELSE Failed]
  /\ lapsed' = (lapsed \/ (~live /\ Owes(p)))
  /\ UNCHANGED <<live, params, search, bus, counts>>

(* Mutant of Dispatch: nobody publishes.                                    *)
DispatchNothing(p) ==
  /\ posts[p].pc = "dispatch"
  /\ posts' = [posts EXCEPT ![p].pc = "save", ![p].sent = TRUE]
  /\ UNCHANGED <<live, ctx, params, search, bus, lapsed, counts>>

(* ... and enrichment is dispatched with the type the row has by then.         *)
Dispatch(p) ==
  /\ posts[p].pc = "dispatch"
  /\ bus' = bus \cup {IF live /\ params.type = "reach" THEN "reach" ELSE "standard"}
  /\ posts' = [posts EXCEPT ![p].pc = "save", ![p].sent = TRUE]
  /\ UNCHANGED <<live, ctx, params, search, lapsed, counts>>

(* The post whose reply is stored; what its task went by is forgotten.        *)
Stored(p) == [NoPost EXCEPT !.pc = "done", !.skip = posts[p].skip]

(* Mutant of Save: a task whose chat was deleted waits for it.              *)
SaveLive(p) ==
  /\ posts[p].pc = "save"
  /\ live
  /\ posts' = [posts EXCEPT ![p] = Stored(p)]
  /\ UNCHANGED <<live, ctx, params, search, bus, lapsed, counts>>

(* Mutant of Save: the context the task went by is written once more.         *)
SaveContext(p) ==
  /\ posts[p].pc = "save"
  /\ ctx' = IF live THEN [ctx EXCEPT !.state =
                       Advance([NewContext EXCEPT !.state = posts[p].from],
                               posts[p].first, posts[p].msg).state]
            ELSE ctx
  /\ posts' = [posts EXCEPT ![p] = IF live THEN Stored(p) ELSE Failed]
  /\ UNCHANGED <<live, params, search, bus, lapsed, counts>>

(* The reply is stored in the placeholder; the context is not written again.   *)
Save(p) ==
  /\ posts[p].pc = "save"
  /\ posts' = [posts EXCEPT ![p] = IF live THEN Stored(p) ELSE Failed]
  /\ UNCHANGED <<live, ctx, params, search, bus, lapsed, counts>>
-----------------------------------------------------------------------------
(* The chat's search run, SearchAgent: perceive() reads enrichmentType ...     *)
StartSearch ==
  /\ live
  /\ search.pc = "idle"
  /\ searched < MaxSearches
  /\ search' = [NoSearch EXCEPT !.pc = "running",
                                !.type = IF params.type = "reach" THEN "reach" ELSE "standard"]
  /\ searched' = searched + 1
  /\ UNCHANGED <<live, ctx, params, posts, bus, lapsed, posted>>

(* ... and reflect() opens the probe, where the type is 'standard' and the      *)
(* articles cover too little reach; otherwise learn() dispatches enrichment    *)
(* if there are articles at all.                                           *)
Reflect ==
  /\ search.pc = "running"
  /\ \/ search.type = "standard" /\ search' = [search EXCEPT !.pc = "pin"] /\ UNCHANGED bus
     \/ search' = NoSearch /\ bus' \in {bus, bus \cup {search.type}}
  /\ UNCHANGED <<live, ctx, params, posts, lapsed, counts>>

(* enterReachProbe(): setChatProbeState() reads the chat ...                  *)
OpenProbe ==
  /\ search.pc = "pin"
  /\ search' = IF ~live \/ ctx.state = Probe THEN NoSearch
               ELSE [search EXCEPT !.pc = "pinned", !.snap = ctx]
  /\ UNCHANGED <<live, ctx, params, posts, bus, lapsed, counts>>

(* ... and writes what it read, in the probe's state.                        *)
PinProbe ==
  /\ search.pc = "pinned"
  /\ ctx' = IF live THEN [search.snap EXCEPT !.state = Probe] ELSE ctx
  /\ search' = NoSearch
  /\ UNCHANGED <<live, params, posts, bus, lapsed, counts>>

(* The search run fails, or dies with the process.                          *)
SearchFails ==
  /\ search.pc # "idle"
  /\ search' = NoSearch
  /\ UNCHANGED <<live, ctx, params, posts, bus, lapsed, counts>>
-----------------------------------------------------------------------------
(* PATCH /chats/:id/params sets the type of enrichment.                      *)
SetType(t) ==
  /\ live
  /\ params' = [params EXCEPT !.type = t]
  /\ UNCHANGED <<live, ctx, posts, search, bus, lapsed, counts>>

(* deleteChat(): the delete waits for a request that has stored its message.    *)
DeleteChat ==
  /\ live
  /\ \A p \in Posts : posts[p].pc # "parse"
  /\ live' = FALSE
  /\ UNCHANGED <<ctx, params, posts, search, bus, lapsed, counts>>

PostStep(p) ==
  \/ Commit(p) \/ Gate(p) \/ Extract(p) \/ Mark(p) \/ Reload(p)
  \/ Stream(p) \/ Patch(p) \/ Pin(p) \/ WritePin(p) \/ Dispatch(p) \/ Save(p)

Next ==
  \/ \E p \in Posts : PostStep(p) \/ PostFails(p) \/ \E m \in Messages : Post(p, m)
  \/ StartSearch \/ Reflect \/ OpenProbe \/ PinProbe \/ SearchFails
  \/ \E t \in PatchedTypes : SetType(t)
  \/ DeleteChat

(* A promise of the server process is taken on until it settles: every call a   *)
(* request or a task waits for returns or throws.                            *)
Spec == Init /\ [][Next]_vars /\ \A p \in Posts : WF_vars(PostStep(p))
-----------------------------------------------------------------------------
TypeOK ==
  /\ live \in BOOLEAN
  /\ ctx \in ContextType
  /\ params \in ParamsType
  /\ posts \in [Posts -> PostType]
  /\ search \in [pc : {"idle", "running", "pin", "pinned"}, type : {"standard", "reach"},
                 snap : ContextType]
  /\ bus \subseteq {"standard", "reach"}
  /\ lapsed \in BOOLEAN
  /\ posted \in 0 .. MaxPosts
  /\ searched \in 0 .. MaxSearches

(* The context x has the slot of every wizard state before its own.           *)
Backed(x) ==
  \A s \in DOMAIN Slot : Rank[s] < Rank[x.state] /\ Rank[x.state] <= 7
                         => Slot[s] \in x.slots

(* However requests, tasks and the probe overwrite each other's context, the    *)
(* wizard never stands behind a question that was not answered: in each of its  *)
(* states chat.context has the slot of every state before.                   *)
NoSlotSkipped == Backed(ctx)

(* The conversation goes back only when a request commits what it read before   *)
(* another transaction wrote.  The tasks in the background, which go by the      *)
(* state their message was posted in, never take it back, however late they     *)
(* end; a search run may ask its question again after enrichment began.         *)
OnlyOverlapRewinds ==
  [][Rank[ctx'.state] < Rank[ctx.state] /\ ctx'.state # Probe =>
       \E p \in Posts : /\ posts[p].pc = "parse" /\ posts'[p].pc = "gate"
                        /\ posts[p].snap # ctx]_vars

(* When the reply to a click on a chip of the probe is about to be stored, the    *)
(* task has published the dispatch the reply announces.                       *)
RepliedClickDispatched ==
  \A p \in Posts : /\ posts[p].pc = "save" /\ posts[p].from = Probe
                   /\ posts[p].msg.choice \in Options[Probe]
                   => posts[p].sent

(* A chat that rests in 'enriching' with no enrichment dispatched has lost a     *)
(* task: one that failed under the reply, or whose second mapping of the text   *)
(* did not agree with the first.                                            *)
EnrichingIsExplained ==
  ctx.state = "enriching" /\ bus = {} /\ ~lapsed => \E p \in Posts : InTask(p)

(* A click on the probe that was committed leads to its dispatch, unless the      *)
(* task fails on the way: whatever another request, another click or the search   *)
(* run does to the context meanwhile.                                        *)
ConsentIsHonoured ==
  \A p \in Posts :
    (InTask(p) /\ Owes(p) /\ posts[p].msg.choice # None)
      ~> (posts[p].sent \/ posts[p].pc = "failed")

(* Every request ends, and every placeholder is filled or given up, also when    *)
(* the chat is deleted under the task.                                       *)
RepliesSettle == \A p \in Posts : posts[p].pc \notin Ended ~> posts[p].pc \in Ended
=============================================================================
