------------------------- MODULE Conversation_proofs -------------------------
(***************************************************************************)
(* The safety properties of Conversation, for any number of requests at     *)
(* once and whatever the user sends and the model answers.                  *)
(***************************************************************************)
EXTENDS Conversation, TLAPS

LEMMA NewContextType == NewContext \in ContextType /\ NewContext.state = Welcome
  BY DEF NewContext, ContextType, States, Rank, Welcome

LEMMA AdvanceType ==
  ASSUME NEW x \in ContextType, NEW c, NEW m
  PROVE  Advance(x, c, m) \in ContextType
<1>1. CASE ~Accepts(x.state, c, m)
  BY <1>1 DEF Advance
<1>2. CASE Accepts(x.state, c, m) /\ x.state = Probe
  BY <1>2 DEF Advance, ContextType, States, Rank
<1>3. CASE Accepts(x.state, c, m) /\ x.state = Welcome
  BY <1>3 DEF Advance, ContextType, States, Rank, Welcome, Probe, Succ
<1>4. CASE Accepts(x.state, c, m) /\ x.state # Probe /\ x.state # Welcome
  <2>1. x.state \in DOMAIN Slot
    BY <1>4 DEF Accepts, Options, Slot, Probe
  <2>2. Slot[x.state] \in Slots /\ Succ[x.state] \in States
    BY <2>1 DEF Slots, Slot, Succ, States, Rank
  <2>3. Advance(x, c, m) = [state |-> Succ[x.state], slots |-> x.slots \cup {Slot[x.state]}]
    BY <1>4 DEF Advance
  <2>4. QED
    BY <2>2, <2>3 DEF ContextType
<1>5. QED
  BY <1>1, <1>2, <1>3, <1>4

LEMMA NoPostType == NoPost \in PostType /\ Failed \in PostType
  BY NewContextType DEF NoPost, Failed, PostType, PostPcs, MessageType, Text, States, Rank, Welcome

LEMMA ParsedType ==
  ASSUME NEW s, NEW m \in MessageType
  PROVE  Parsed(s, m) \subseteq Choices \cup {None}
  BY DEF Parsed, MessageType, Choices

LEMMA InitType == Init => TypeOK
<1>1. SUFFICES ASSUME Init PROVE TypeOK
  OBVIOUS
<1>2. ctx \in ContextType
  <2>1. PICK s \in Begins :
          ctx = [state |-> s, slots |-> {Slot[t] : t \in {u \in DOMAIN Slot : Rank[u] < Rank[s]}}]
    BY <1>1 DEF Init
  <2>2. s \in States
    BY ConversationAssumption DEF States, Rank, Succ
  <2>3. {Slot[t] : t \in {u \in DOMAIN Slot : Rank[u] < Rank[s]}} \subseteq Slots
    BY DEF Slots
  <2>4. QED
    BY <2>1, <2>2, <2>3 DEF ContextType
<1>3. posts \in [Posts -> PostType]
  BY <1>1, NoPostType DEF Init
<1>4. posted \in 0 .. MaxPosts /\ searched \in 0 .. MaxSearches
  BY <1>1, ConversationAssumption DEF Init
<1>5. search \in [pc : {"idle", "running", "pin", "pinned"}, type : {"standard", "reach"},
                  snap : ContextType]
  BY <1>1, NewContextType DEF Init, NoSearch
<1>6. QED
  BY <1>1, <1>2, <1>3, <1>4, <1>5 DEF Init, TypeOK, ParamsType

(* What an action does to posts, as one new record.                         *)
LEMMA PostUpdate ==
  ASSUME NEW f \in [Posts -> PostType], NEW p \in Posts, NEW v \in PostType
  PROVE  [f EXCEPT ![p] = v] \in [Posts -> PostType]
  OBVIOUS

(* A post with a field replaced is a post.                                  *)
LEMMA FieldType ==
  ASSUME NEW r \in PostType
  PROVE  /\ \A x \in PostPcs : [r EXCEPT !.pc = x] \in PostType
         /\ \A x \in MessageType : [r EXCEPT !.msg = x] \in PostType
         /\ \A x \in ContextType : [r EXCEPT !.snap = x] \in PostType
         /\ \A x \in States : [r EXCEPT !.from = x] \in PostType
         /\ \A x \in Choices \cup {None} : /\ [r EXCEPT !.first = x] \in PostType
                                           /\ [r EXCEPT !.again = x] \in PostType
         /\ \A x \in States \cup {None} : [r EXCEPT !.skip = x] \in PostType
         /\ \A x \in BOOLEAN : [r EXCEPT !.sent = x] \in PostType
  BY DEF PostType

LEMMA SnapType ==
  ASSUME NEW r \in PostType
  PROVE  /\ r.snap \in ContextType /\ r.msg \in MessageType /\ r.from \in States
         /\ r.first \in Choices \cup {None} /\ r.again \in Choices \cup {None}
  BY DEF PostType

(* ... and a step of a task that goes on or ends keeps the types.             *)
LEMMA GoOnType ==
  ASSUME TypeOK, NEW p \in Posts, NEW pc \in PostPcs, GoOn(p, pc)
  PROVE  posts' \in [Posts -> PostType] /\ lapsed' \in BOOLEAN
<1>1. [posts[p] EXCEPT !.pc = pc] \in PostType
  BY FieldType DEF TypeOK
<1>2. \/ posts' = [posts EXCEPT ![p] = [posts[p] EXCEPT !.pc = pc]]
      \/ posts' = [posts EXCEPT ![p] = Failed]
  BY DEF GoOn
<1>3. posts' \in [Posts -> PostType]
  BY <1>1, <1>2, PostUpdate, NoPostType DEF TypeOK
<1>4. QED
  BY <1>3 DEF GoOn, TypeOK

(* The steps of a request or its task keep the types.                       *)
LEMMA PostStepType ==
  ASSUME TypeOK, NEW p \in Posts,
         PostStep(p) \/ PostFails(p) \/ \E m \in Messages : Post(p, m)
  PROVE  TypeOK'
<1> USE DEF TypeOK
<1>1. CASE \E m \in Messages : Post(p, m)
  <2>1. PICK m \in Messages : Post(p, m)
    BY <1>1
  <2>2. [NoPost EXCEPT !.pc = "parse", !.msg = m, !.snap = ctx, !.from = ctx.state] \in PostType
    <3>1. m \in MessageType /\ ctx.state \in States /\ "parse" \in PostPcs
      BY ConversationAssumption DEF ContextType, PostPcs
    <3>2. QED
      BY <3>1, NoPostType DEF NoPost, PostType, Text
  <2>3. posted' \in 0 .. MaxPosts
    <3>1. posted < MaxPosts /\ posted' = posted + 1
      BY <2>1 DEF Post
    <3>2. posted \in 0 .. MaxPosts /\ MaxPosts \in Nat
      BY ConversationAssumption
    <3> HIDE DEF TypeOK
    <3>3. QED
      BY <3>1, <3>2
  <2>4. posts' \in [Posts -> PostType]
    BY <2>1, <2>2, PostUpdate DEF Post
  <2>5. QED
    BY <2>1, <2>3, <2>4 DEF Post
<1>2. CASE Commit(p)
  <2>1. PICK c \in Parsed(posts[p].from, posts[p].msg) :
          /\ ctx' = Advance(posts[p].snap, c, posts[p].msg)
          /\ posts' = [posts EXCEPT ![p].pc = "gate", ![p].snap = NewContext, ![p].first = c]
    BY <1>2 DEF Commit
  <2>2. c \in Choices \cup {None}
    BY ParsedType DEF PostType
  <2>3. ctx' \in ContextType
    BY <2>1, AdvanceType DEF PostType
  <2>4. posts' \in [Posts -> PostType]
    <3> DEFINE v == [posts[p] EXCEPT !.pc = "gate", !.snap = NewContext, !.first = c]
    <3>1. v \in PostType
      BY <2>2, NewContextType, FieldType, "gate" \in PostPcs DEF PostPcs
    <3>2. posts' = [posts EXCEPT ![p] = v]
      BY <2>1
    <3>3. QED
      BY <3>1, <3>2, PostUpdate
  <2>5. QED
    BY <1>2, <2>3, <2>4 DEF Commit, counts
<1>3. CASE PostFails(p)
  BY <1>3, NoPostType DEF PostFails, counts
<1>4. CASE Gate(p)
  <2>1. posts' \in [Posts -> PostType]
    BY <1>4 DEF Gate, PostType, PostPcs
  <2>2. QED
    BY <1>4, <2>1 DEF Gate, counts
<1>5. CASE Extract(p)
  <2>1. posts' \in [Posts -> PostType] /\ lapsed' \in BOOLEAN
    <3>1. CASE posts' = [posts EXCEPT ![p].pc = "stream"] /\ UNCHANGED lapsed
      <4>1. [posts[p] EXCEPT !.pc = "stream"] \in PostType
        BY FieldType DEF PostPcs
      <4>2. QED
        BY <3>1, <4>1, PostUpdate
    <3>2. CASE GoOn(p, "mark")
      BY <3>2, GoOnType DEF PostPcs
    <3>3. QED
      BY <1>5, <3>1, <3>2 DEF Extract
  <2>2. params' \in ParamsType
    <3>1. CASE params' = params
      BY <3>1
    <3>2. ASSUME NEW i \in Intents,
                 params' = [params EXCEPT !.filled = @ \cup i.filled,
                                          !.type = IF i.type = "none" THEN @ ELSE i.type]
          PROVE  params' \in ParamsType
      <4>1. i \in IntentType
        BY ConversationAssumption
      <4>2. QED
        BY <3>2, <4>1 DEF ParamsType, IntentType
    <3>3. QED
      BY <1>5, <3>1, <3>2 DEF Extract
  <2>3. QED
    BY <1>5, <2>1, <2>2 DEF Extract, counts
<1>6. CASE Mark(p)
  <2>1. posts' \in [Posts -> PostType] /\ lapsed' \in BOOLEAN
    BY <1>6, GoOnType DEF Mark, PostPcs
  <2>2. params' \in ParamsType
    BY <1>6 DEF Mark, ParamsType
  <2>3. QED
    BY <1>6, <2>1, <2>2 DEF Mark, counts
<1>7. CASE Reload(p)
  <2>1. NextUnfilled(params) \in States
    BY DEF NextUnfilled, States, Rank
  <2>2. posts' \in [Posts -> PostType] /\ lapsed' \in BOOLEAN
    <3> DEFINE v == [posts[p] EXCEPT !.pc = "stream", !.skip = NextUnfilled(params)]
    <3>1. CASE GoOn(p, "stream")
      BY <3>1, GoOnType DEF PostPcs
    <3>2. CASE posts' = [posts EXCEPT ![p] = v] /\ UNCHANGED lapsed
      <4>1. v \in PostType
        BY <2>1, FieldType DEF PostPcs
      <4>2. QED
        BY <3>2, <4>1, PostUpdate
    <3>3. QED
      BY <1>7, <3>1, <3>2 DEF Reload
  <2>3. QED
    BY <1>7, <2>2 DEF Reload, counts
<1>8. CASE Stream(p)
  <2>1. Parsed(Probe, posts[p].msg) \subseteq Choices \cup {None}
    BY ParsedType DEF PostType
  <2>2. posts' \in [Posts -> PostType] /\ lapsed' \in BOOLEAN
    <3>1. CASE posts' = [posts EXCEPT ![p].pc = "save"] /\ UNCHANGED lapsed
      <4>1. [posts[p] EXCEPT !.pc = "save"] \in PostType
        BY FieldType DEF PostPcs
      <4>2. QED
        BY <3>1, <4>1, PostUpdate
    <3>2. ASSUME NEW c \in Parsed(Probe, posts[p].msg), NEW pc \in PostPcs,
                 posts' = [posts EXCEPT ![p].pc = pc, ![p].again = c]
          PROVE  posts' \in [Posts -> PostType]
      <4>1. [posts[p] EXCEPT !.pc = pc, !.again = c] \in PostType
        BY <2>1, FieldType
      <4>2. posts' = [posts EXCEPT ![p] = [posts[p] EXCEPT !.pc = pc, !.again = c]]
        BY <3>2
      <4>3. QED
        BY <4>1, <4>2, PostUpdate
    <3>3. CASE \E c \in Parsed(Probe, posts[p].msg) : \E pc \in {"patch", "save"} :
                 /\ posts' = [posts EXCEPT ![p].pc = pc, ![p].again = c]
                 /\ lapsed' \in BOOLEAN
      BY <3>2, <3>3 DEF PostPcs
    <3>4. QED
      BY <1>8, <3>1, <3>3 DEF Stream
  <2>3. QED
    BY <1>8, <2>2 DEF Stream, counts
<1>9. CASE Patch(p)
  <2>1. posts' \in [Posts -> PostType] /\ lapsed' \in BOOLEAN
    BY <1>9, GoOnType DEF Patch, PostPcs
  <2>2. params' \in ParamsType
    BY <1>9 DEF Patch, ParamsType, ParamSlots
  <2>3. QED
    BY <1>9, <2>1, <2>2 DEF Patch, counts
<1>10. CASE Pin(p)
  <2>1. posts' \in [Posts -> PostType]
    <3>1. /\ [posts[p] EXCEPT !.pc = "dispatch", !.snap = posts[p].snap] \in PostType
          /\ [posts[p] EXCEPT !.pc = "pinned", !.snap = ctx] \in PostType
      BY FieldType, SnapType DEF PostPcs
    <3>2. \/ posts' = [posts EXCEPT ![p] =
                        [posts[p] EXCEPT !.pc = "dispatch", !.snap = posts[p].snap]]
          \/ posts' = [posts EXCEPT ![p] = [posts[p] EXCEPT !.pc = "pinned", !.snap = ctx]]
      BY <1>10 DEF Pin
    <3>3. QED
      BY <3>1, <3>2, PostUpdate
  <2>2. QED
    BY <1>10, <2>1 DEF Pin, counts
<1>11. CASE WritePin(p)
  <2>1. posts' \in [Posts -> PostType] /\ lapsed' \in BOOLEAN
    <3>1. [posts[p] EXCEPT !.pc = "dispatch", !.snap = NewContext] \in PostType
      BY FieldType, NewContextType DEF PostPcs
    <3>2. \/ posts' = [posts EXCEPT ![p] =
                        [posts[p] EXCEPT !.pc = "dispatch", !.snap = NewContext]]
          \/ posts' = [posts EXCEPT ![p] = Failed]
      BY <1>11 DEF WritePin
    <3>3. posts' \in [Posts -> PostType]
      BY <3>1, <3>2, PostUpdate, NoPostType
    <3>4. QED
      BY <1>11, <3>3 DEF WritePin
  <2>2. ctx' \in ContextType
    BY <1>11 DEF WritePin, PostType, ContextType, States, Rank
  <2>3. QED
    BY <1>11, <2>1, <2>2 DEF WritePin, counts
<1>12. CASE Dispatch(p)
  <2>1. posts' \in [Posts -> PostType]
    <3>1. [posts[p] EXCEPT !.pc = "save", !.sent = TRUE] \in PostType
      BY FieldType DEF PostPcs
    <3>2. posts' = [posts EXCEPT ![p] = [posts[p] EXCEPT !.pc = "save", !.sent = TRUE]]
      BY <1>12 DEF Dispatch
    <3>3. QED
      BY <3>1, <3>2, PostUpdate
  <2>2. QED
    BY <1>12, <2>1 DEF Dispatch, counts
<1>13. CASE Save(p)
  <2>1. posts' \in [Posts -> PostType]
    BY <1>13, NoPostType DEF Save, Stored, PostType, PostPcs
  <2>2. QED
    BY <1>13, <2>1 DEF Save, counts
<1>14. QED
  BY <1>1, <1>2, <1>3, <1>4, <1>5, <1>6, <1>7, <1>8, <1>9, <1>10, <1>11, <1>12, <1>13 DEF PostStep

(* ... and so do the search run, the patches of the type and the deletion.    *)
LEMMA OtherStepType ==
  ASSUME TypeOK,
         \/ StartSearch \/ Reflect \/ OpenProbe \/ PinProbe \/ SearchFails
         \/ \E t \in PatchedTypes : SetType(t)
         \/ DeleteChat
  PROVE  TypeOK'
<1> USE DEF TypeOK, counts
<1>1. CASE StartSearch
  <2>1. searched' \in 0 .. MaxSearches
    BY <1>1, ConversationAssumption DEF StartSearch
  <2>2. search' \in [pc : {"idle", "running", "pin", "pinned"}, type : {"standard", "reach"},
                     snap : ContextType]
    BY <1>1, NewContextType DEF StartSearch, NoSearch
  <2>3. QED
    BY <1>1, <2>1, <2>2 DEF StartSearch
<1>2. CASE Reflect
  BY <1>2, NewContextType DEF Reflect, NoSearch
<1>3. CASE OpenProbe
  BY <1>3, NewContextType DEF OpenProbe, NoSearch
<1>4. CASE PinProbe
  <2>1. ctx' \in ContextType
    BY <1>4 DEF PinProbe, ContextType, States, Rank, Probe
  <2>2. QED
    BY <1>4, <2>1, NewContextType DEF PinProbe, NoSearch
<1>5. CASE SearchFails
  BY <1>5, NewContextType DEF SearchFails, NoSearch
<1>6. CASE \E t \in PatchedTypes : SetType(t)
  BY <1>6, ConversationAssumption DEF SetType, ParamsType
<1>7. CASE DeleteChat
  BY <1>7 DEF DeleteChat
<1>8. QED
  BY <1>1, <1>2, <1>3, <1>4, <1>5, <1>6, <1>7

LEMMA TypeStep ==
  ASSUME TypeOK, [Next]_vars
  PROVE  TypeOK'
<1>1. CASE UNCHANGED vars
  BY <1>1 DEF vars, counts, TypeOK
<1>2. CASE Next
  BY <1>2, PostStepType, OtherStepType DEF Next
<1>3. QED
  BY <1>1, <1>2

(* Requests, tasks, the probe and the chat always hold values of their kind.  *)
THEOREM TypeCorrect == Spec => []TypeOK
  BY InitType, TypeStep, PTL DEF Spec
-----------------------------------------------------------------------------
(* The wizard's slots.  Every context that is kept somewhere, to be written     *)
(* over the chat's later, is as complete as the chat's own.                  *)
BackedInv ==
  /\ Backed(ctx)
  /\ \A p \in Posts : Backed(posts[p].snap)
  /\ Backed(search.snap)

LEMMA NewContextBacked == Backed(NewContext)
  BY DEF Backed, NewContext, Rank, Slot, Welcome

LEMMA PinnedBacked ==
  ASSUME NEW x \in ContextType, NEW s \in {"enriching", Probe}
  PROVE  Backed([x EXCEPT !.state = s])
  BY DEF Backed, ContextType, Rank, Probe

(* An accepted message fills the slot of the state it leaves, and moves one     *)
(* state on.                                                              *)
LEMMA AdvanceBacked ==
  ASSUME NEW x \in ContextType, Backed(x), NEW c, NEW m
  PROVE  Backed(Advance(x, c, m))
<1>1. CASE ~Accepts(x.state, c, m)
  BY <1>1 DEF Advance
<1>2. CASE Accepts(x.state, c, m) /\ x.state = Probe
  BY <1>2, PinnedBacked DEF Advance
<1>3. CASE Accepts(x.state, c, m) /\ x.state = Welcome
  BY <1>3 DEF Advance, Backed, Rank, Slot, Succ, Welcome, Probe
<1>4. CASE Accepts(x.state, c, m) /\ x.state # Probe /\ x.state # Welcome
  <2>1. x.state \in DOMAIN Slot
    BY <1>4 DEF Accepts, Options, Slot, Probe
  <2>2. Advance(x, c, m) = [state |-> Succ[x.state], slots |-> x.slots \cup {Slot[x.state]}]
    BY <1>4 DEF Advance
  <2>3. \A s \in DOMAIN Slot :
          Rank[s] < Rank[Succ[x.state]] => s = x.state \/ Rank[s] < Rank[x.state]
    BY <2>1 DEF Slot, Rank, Succ
  <2>4. Rank[x.state] <= 7
    BY <2>1 DEF Slot, Rank
  <2>5. QED
    BY <2>2, <2>3, <2>4 DEF Backed
<1>5. QED
  BY <1>1, <1>2, <1>3, <1>4

(* An accepted message does not lead back.                                  *)
LEMMA AdvanceForward ==
  ASSUME NEW x \in ContextType, NEW c, NEW m
  PROVE  Rank[Advance(x, c, m).state] >= Rank[x.state]
<1>1. CASE ~Accepts(x.state, c, m)
  BY <1>1 DEF Advance, ContextType, States, Rank
<1>2. CASE Accepts(x.state, c, m) /\ x.state = Probe
  BY <1>2 DEF Advance, ContextType, States, Rank, Probe
<1>3. CASE Accepts(x.state, c, m) /\ x.state # Probe
  <2>1. x.state \in DOMAIN Slot \cup {Welcome}
    BY <1>3 DEF Accepts, Options, Slot, Probe
  <2>2. Advance(x, c, m).state = Succ[x.state]
    BY <1>3 DEF Advance
  <2>3. QED
    BY <2>1, <2>2 DEF Slot, Rank, Succ, Welcome
<1>4. QED
  BY <1>1, <1>2, <1>3

(* Who writes chat.context: the commit of a request, and the pins of the probe. *)
LEMMA ContextStep ==
  ASSUME TypeOK, [Next]_vars
  PROVE  \/ ctx' = ctx
         \/ \E p \in Posts : /\ posts[p].pc = "parse" /\ posts'[p].pc = "gate"
                             /\ posts'[p].from = posts[p].from
                             /\ ctx' = Advance(posts[p].snap, posts'[p].first, posts[p].msg)
         \/ \E x \in ContextType : ctx' = [x EXCEPT !.state = Probe]
         \/ /\ \E x \in ContextType : ctx' = [x EXCEPT !.state = "enriching"]
            /\ \E p \in Posts : posts[p].pc = "pinned"
<1>1. CASE \E p \in Posts : Commit(p)
  <2>1. PICK p \in Posts : Commit(p)
    BY <1>1
  <2>2. PICK c : /\ ctx' = Advance(posts[p].snap, c, posts[p].msg)
                 /\ posts' = [posts EXCEPT ![p].pc = "gate", ![p].snap = NewContext,
                                           ![p].first = c]
    BY <2>1 DEF Commit
  <2> DEFINE v == [posts[p] EXCEPT !.pc = "gate", !.snap = NewContext, !.first = c]
  <2>3. posts' = [posts EXCEPT ![p] = v]
    BY <2>2
  <2>4. v.pc = "gate" /\ v.from = posts[p].from /\ v.first = c
    BY DEF TypeOK, PostType
  <2> HIDE DEF v
  <2>5. posts'[p] = v
    BY <2>3 DEF TypeOK
  <2>6. QED
    BY <2>1, <2>2, <2>4, <2>5 DEF Commit
<1>2. CASE \E p \in Posts : WritePin(p)
  BY <1>2, SnapType DEF WritePin, TypeOK
<1>3. CASE PinProbe
  <2>1. search.snap \in ContextType
    BY DEF TypeOK
  <2>2. QED
    BY <1>3, <2>1 DEF PinProbe
<1>4. CASE ctx' = ctx
  BY <1>4
<1>5. QED
  <2>1. ASSUME NEW p \in Posts, PostStep(p) PROVE Commit(p) \/ WritePin(p) \/ ctx' = ctx
    BY <2>1 DEF PostStep, Gate, Extract, Mark, Reload, Stream, Patch, Pin, Dispatch, Save
  <2>2. ASSUME NEW p \in Posts, PostFails(p) \/ \E m \in Messages : Post(p, m)
        PROVE  ctx' = ctx
    BY <2>2 DEF PostFails, Post
  <2>3. CASE \/ StartSearch \/ Reflect \/ OpenProbe \/ SearchFails
             \/ \E t \in PatchedTypes : SetType(t)
             \/ DeleteChat \/ UNCHANGED vars
    BY <2>3 DEF StartSearch, Reflect, OpenProbe, SearchFails, SetType, DeleteChat, vars
  <2>4. QED
    BY <1>1, <1>2, <1>3, <1>4, <2>1, <2>2, <2>3 DEF Next

(* A post that only goes on keeps its fields.                               *)
LEMMA FieldKept ==
  ASSUME NEW r \in PostType, NEW pc
  PROVE  /\ [r EXCEPT !.pc = pc].snap = r.snap
         /\ [r EXCEPT !.pc = pc].msg = r.msg
         /\ [r EXCEPT !.pc = pc].from = r.from
         /\ [r EXCEPT !.pc = pc].first = r.first
         /\ [r EXCEPT !.pc = pc].again = r.again
         /\ [r EXCEPT !.pc = pc].sent = r.sent
         /\ [r EXCEPT !.pc = pc].pc = pc
  BY DEF PostType

(* What is kept of a context: what was kept before, the chat's, or a fresh one. *)
LEMMA SnapStep ==
  ASSUME TypeOK, [Next]_vars
  PROVE  /\ \A p \in Posts : posts'[p].snap \in {posts[p].snap, ctx, NewContext}
         /\ search'.snap \in {search.snap, ctx, NewContext}
<1> USE DEF TypeOK
<1>1. ASSUME NEW p \in Posts, PostStep(p) \/ PostFails(p) \/ \E m \in Messages : Post(p, m)
      PROVE  /\ \A q \in Posts : posts'[q].snap \in {posts[q].snap, ctx, NewContext}
             /\ UNCHANGED search
  <2>0. UNCHANGED search
    BY <1>1 DEF PostStep, PostFails, Post, Commit, Gate, Extract, Mark, Reload, Stream, Patch,
                Pin, WritePin, Dispatch, Save
  <2> SUFFICES \A q \in Posts : posts'[q].snap \in {posts[q].snap, ctx, NewContext}
    BY <2>0
  <2>1. ASSUME NEW v, v.snap \in {posts[p].snap, ctx, NewContext},
               posts' = [posts EXCEPT ![p] = v]
        PROVE  \A q \in Posts : posts'[q].snap \in {posts[q].snap, ctx, NewContext}
    BY <2>1
  <2>2. posts[p] \in PostType
    OBVIOUS
  <2>3. NoPost.snap = NewContext /\ Failed.snap = NewContext /\ Stored(p).snap = NewContext
    BY DEF NoPost, Failed, Stored
  <2>4. ASSUME NEW pc, posts' = [posts EXCEPT ![p].pc = pc] \/ GoOn(p, pc)
        PROVE  \A q \in Posts : posts'[q].snap \in {posts[q].snap, ctx, NewContext}
    <3>1. [posts[p] EXCEPT !.pc = pc].snap \in {posts[p].snap, ctx, NewContext}
      BY <2>2, FieldKept
    <3>2. QED
      BY <2>1, <2>3, <2>4, <3>1 DEF GoOn
  <2>5. CASE \E m \in Messages : Post(p, m)
    <3>1. PICK m \in Messages : Post(p, m)
      BY <2>5
    <3>2. [NoPost EXCEPT !.pc = "parse", !.msg = m, !.snap = ctx, !.from = ctx.state].snap = ctx
      BY DEF NoPost
    <3>3. QED
      BY <2>1, <3>1, <3>2 DEF Post
  <2>6. CASE PostFails(p) \/ Save(p)
    BY <2>1, <2>3, <2>6 DEF PostFails, Save
  <2>7. CASE Commit(p)
    <3>1. PICK c : posts' = [posts EXCEPT ![p].pc = "gate", ![p].snap = NewContext, ![p].first = c]
      BY <2>7 DEF Commit
    <3>2. [posts[p] EXCEPT !.pc = "gate", !.snap = NewContext, !.first = c].snap = NewContext
      BY <2>2 DEF PostType
    <3>3. QED
      BY <2>1, <2>7, <3>1, <3>2 DEF Commit
  <2>8. CASE Gate(p)
    BY <2>4, <2>8 DEF Gate
  <2>9. CASE Extract(p)
    BY <2>4, <2>9 DEF Extract
  <2>10. CASE Mark(p) \/ Patch(p)
    BY <2>4, <2>10 DEF Mark, Patch
  <2>11. CASE Reload(p)
    <3>1. [posts[p] EXCEPT !.pc = "stream", !.skip = NextUnfilled(params)].snap = posts[p].snap
      BY <2>2 DEF PostType
    <3>2. QED
      BY <2>1, <2>4, <2>11, <3>1 DEF Reload
  <2>12. CASE Stream(p)
    <3>1. CASE posts' = [posts EXCEPT ![p].pc = "save"]
      <4> DEFINE v == [posts[p] EXCEPT !.pc = "save"]
      <4>1. v.snap \in {posts[p].snap, ctx, NewContext}
        BY <2>2, FieldKept
      <4>2. posts' = [posts EXCEPT ![p] = v]
        BY <3>1
      <4> HIDE DEF v
      <4>3. QED
        BY <2>1, <4>1, <4>2
    <3>2. CASE \E c, x : posts' = [posts EXCEPT ![p].pc = x, ![p].again = c]
      <4>1. PICK c, x : posts' = [posts EXCEPT ![p].pc = x, ![p].again = c]
        BY <3>2
      <4> DEFINE v == [posts[p] EXCEPT !.pc = x, !.again = c]
      <4>2. v.snap \in {posts[p].snap, ctx, NewContext}
        BY <2>2 DEF PostType
      <4>3. posts' = [posts EXCEPT ![p] = v]
        BY <4>1
      <4> HIDE DEF v
      <4>4. QED
        BY <2>1, <4>2, <4>3
    <3>3. QED
      BY <2>12, <3>1, <3>2 DEF Stream
  <2>13. CASE Pin(p)
    <3> DEFINE v == [posts[p] EXCEPT
                       !.pc = IF ~live \/ ctx.state = "enriching" THEN "dispatch" ELSE "pinned",
                       !.snap = IF ~live \/ ctx.state = "enriching" THEN @ ELSE ctx]
    <3>1. v.snap \in {posts[p].snap, ctx, NewContext}
      BY <2>2 DEF PostType
    <3>2. posts' = [posts EXCEPT ![p] = v]
      BY <2>13 DEF Pin
    <3> HIDE DEF v
    <3>3. QED
      BY <2>1, <3>1, <3>2
  <2>14. CASE WritePin(p)
    <3>1. [posts[p] EXCEPT !.pc = "dispatch", !.snap = NewContext].snap = NewContext
      BY <2>2 DEF PostType
    <3>2. QED
      BY <2>1, <2>3, <2>14, <3>1 DEF WritePin
  <2>15. CASE Dispatch(p)
    <3> DEFINE v == [posts[p] EXCEPT !.pc = "save", !.sent = TRUE]
    <3>1. v.snap \in {posts[p].snap, ctx, NewContext}
      BY <2>2 DEF PostType
    <3>2. posts' = [posts EXCEPT ![p] = v]
      BY <2>15 DEF Dispatch
    <3> HIDE DEF v
    <3>3. QED
      BY <2>1, <3>1, <3>2
  <2>16. QED
    BY <1>1, <2>5, <2>6, <2>7, <2>8, <2>9, <2>10, <2>11, <2>12, <2>13, <2>14, <2>15
       DEF PostStep
<1>2. CASE StartSearch \/ Reflect \/ OpenProbe \/ PinProbe \/ SearchFails
  <2>1. NoSearch.snap = NewContext
    BY DEF NoSearch
  <2>2. CASE StartSearch
    BY <2>2 DEF StartSearch, NoSearch
  <2>3. CASE Reflect
    BY <2>1, <2>3 DEF Reflect
  <2>4. CASE OpenProbe
    BY <2>1, <2>4 DEF OpenProbe
  <2>5. CASE PinProbe \/ SearchFails
    BY <2>1, <2>5 DEF PinProbe, SearchFails
  <2>6. QED
    BY <1>2, <2>2, <2>3, <2>4, <2>5 DEF StartSearch, Reflect, OpenProbe, PinProbe, SearchFails
<1>3. CASE (\E t \in PatchedTypes : SetType(t)) \/ DeleteChat \/ UNCHANGED vars
  BY <1>3 DEF SetType, DeleteChat, vars
<1>4. QED
  BY <1>1, <1>2, <1>3 DEF Next

LEMMA BackedStep ==
  ASSUME TypeOK, BackedInv, [Next]_vars
  PROVE  BackedInv'
<1>1. Backed(ctx')
  <2>1. ASSUME NEW p \in Posts, NEW c, ctx' = Advance(posts[p].snap, c, posts[p].msg)
        PROVE  Backed(ctx')
    BY <2>1, AdvanceBacked, SnapType DEF TypeOK, BackedInv
  <2>2. QED
    BY <2>1, ContextStep, PinnedBacked DEF BackedInv
<1>2. \A p \in Posts : Backed(posts'[p].snap)
  BY SnapStep, NewContextBacked DEF BackedInv
<1>3. Backed(search'.snap)
  BY SnapStep, NewContextBacked DEF BackedInv
<1>4. QED
  BY <1>1, <1>2, <1>3 DEF BackedInv, Backed

LEMMA BackedInit == Init => BackedInv
<1>1. SUFFICES ASSUME Init PROVE BackedInv
  OBVIOUS
<1>2. Backed(ctx)
  <2>1. PICK s \in Begins :
          ctx = [state |-> s, slots |-> {Slot[t] : t \in {u \in DOMAIN Slot : Rank[u] < Rank[s]}}]
    BY <1>1 DEF Init
  <2>2. QED
    BY <2>1 DEF Backed
<1>3. QED
  BY <1>1, <1>2, NewContextBacked DEF Init, BackedInv, NoPost, NoSearch

(* In each of its states the wizard has the slot of every state before, however *)
(* many requests, tasks and runs overwrite chat.context.                      *)
THEOREM NothingSkipped == Spec => []NoSlotSkipped
<1>1. BackedInv => NoSlotSkipped
  BY DEF BackedInv, NoSlotSkipped
<1>2. QED
  BY <1>1, TypeCorrect, BackedInit, BackedStep, PTL DEF Spec

(* Only the commit of a request that read chat.context before another wrote it  *)
(* takes the conversation back, the probe's question apart.                   *)
THEOREM RewindsOverlap == Spec => OnlyOverlapRewinds
<1>1. ASSUME TypeOK, [Next]_vars, Rank[ctx'.state] < Rank[ctx.state], ctx'.state # Probe
      PROVE  \E p \in Posts : /\ posts[p].pc = "parse" /\ posts'[p].pc = "gate"
                              /\ posts[p].snap # ctx
  <2>1. ctx.state \in States
    BY <1>1 DEF TypeOK, ContextType
  <2>2. ctx' # ctx
    BY <1>1, <2>1 DEF States, Rank
  <2>3. ASSUME NEW x \in ContextType, NEW s \in {"enriching", Probe},
               ctx' = [x EXCEPT !.state = s]
        PROVE  FALSE
    <3>1. ctx'.state = "enriching"
      BY <1>1, <2>3 DEF ContextType
    <3>2. QED
      BY <1>1, <2>1, <3>1 DEF States, Rank
  <2>4. PICK p \in Posts : /\ posts[p].pc = "parse" /\ posts'[p].pc = "gate"
                           /\ ctx' = Advance(posts[p].snap, posts'[p].first, posts[p].msg)
    BY <1>1, <2>2, <2>3, ContextStep
  <2>5. posts[p].snap # ctx
    <3>1. SUFFICES ASSUME posts[p].snap = ctx PROVE FALSE
      OBVIOUS
    <3>2. ctx \in ContextType
      BY <1>1 DEF TypeOK
    <3>3. Rank[ctx'.state] >= Rank[ctx.state]
      BY <2>4, <3>1, <3>2, AdvanceForward
    <3>4. ctx'.state \in States
      BY <1>1, TypeStep DEF TypeOK, ContextType
    <3>5. QED
      BY <1>1, <2>1, <3>3, <3>4 DEF States, Rank
  <2>6. QED
    BY <2>4, <2>5
<1>2. QED
  BY <1>1, TypeCorrect, PTL DEF Spec, OnlyOverlapRewinds
-----------------------------------------------------------------------------
(* What a step of a request or its task does, field by field, to the post: the  *)
(* stations it passes, and what it owes.                                     *)
Same(p) ==
  /\ posts'[p].msg = posts[p].msg /\ posts'[p].from = posts[p].from
  /\ posts'[p].first = posts[p].first /\ posts'[p].again = posts[p].again
  /\ posts'[p].sent = posts[p].sent

Goes(p, pcs, next) == posts[p].pc \in pcs /\ posts'[p].pc \in next

Begun(p) ==
  /\ Goes(p, {"parse"}, {"gate"})
  /\ posts'[p].from = posts[p].from /\ posts'[p].msg = posts[p].msg
  /\ posts'[p].sent = posts[p].sent
  /\ ctx' = Advance(posts[p].snap, posts'[p].first, posts[p].msg)

Answered(p) ==
  /\ Goes(p, {"stream"}, {"patch", "save"})
  /\ posts[p].from = Probe
  /\ posts'[p].again \in Parsed(Probe, posts[p].msg)
  /\ posts'[p].pc = "patch" <=> posts'[p].again \in Options[Probe]
  /\ posts'[p].pc = "save" /\ Owes(p) => lapsed'
  /\ posts'[p].from = posts[p].from /\ posts'[p].msg = posts[p].msg
  /\ posts'[p].first = posts[p].first /\ posts'[p].sent = posts[p].sent

Published(p) ==
  /\ Goes(p, {"dispatch"}, {"save"})
  /\ posts'[p].sent
  /\ bus' # {}

Left(p) ==
  /\ posts'[p].pc \in {"done", "failed"}
  /\ ~posts'[p].sent
  /\ posts[p].pc = "save" \/ (InTask(p) /\ Owes(p) => lapsed')

Carries(p) ==
  /\ Same(p)
  /\ \/ Goes(p, {"gate", "extract", "mark", "reload"}, {"extract", "mark", "reload", "stream"})
     \/ Goes(p, {"stream"}, {"save"}) /\ posts[p].from # Probe
     \/ Goes(p, {"patch", "pin", "pinned"}, {"pin", "pinned", "dispatch"})

LEMMA Written ==
  ASSUME TypeOK, NEW p \in Posts, NEW v, posts' = [posts EXCEPT ![p] = v]
  PROVE  posts'[p] = v /\ \A q \in Posts \ {p} : posts'[q] = posts[q]
  BY DEF TypeOK

LEMMA EndedPost ==
  /\ Failed.pc = "failed" /\ ~Failed.sent
  /\ \A p : Stored(p).pc = "done" /\ ~Stored(p).sent
  BY DEF Failed, Stored, NoPost

(* A task that goes on keeps what it owes; one that ends has lost it.         *)
LEMMA GoOnStep ==
  ASSUME TypeOK, NEW p \in Posts, NEW pc, GoOn(p, pc)
  PROVE  /\ \A q \in Posts \ {p} : posts'[q] = posts[q]
         /\ Left(p) \/ (posts'[p].pc = pc /\ Same(p))
<1>1. CASE live
  <2>1. posts' = [posts EXCEPT ![p] = [posts[p] EXCEPT !.pc = pc]]
    BY <1>1 DEF GoOn
  <2>2. /\ posts'[p] = [posts[p] EXCEPT !.pc = pc]
        /\ \A q \in Posts \ {p} : posts'[q] = posts[q]
    BY <2>1, Written
  <2>3. posts'[p].pc = pc /\ Same(p)
    BY <2>2, FieldKept DEF Same, TypeOK
  <2>4. QED
    BY <2>2, <2>3
<1>2. CASE ~live
  <2>1. posts' = [posts EXCEPT ![p] = Failed]
    BY <1>2 DEF GoOn
  <2>2. posts'[p] = Failed /\ \A q \in Posts \ {p} : posts'[q] = posts[q]
    BY <2>1, Written
  <2>3. Owes(p) => lapsed'
    BY <1>2 DEF GoOn
  <2>4. QED
    BY <2>2, <2>3, EndedPost DEF Left
<1>3. QED
  BY <1>1, <1>2

(* Every step of a task is one of the five.                                  *)
LEMMA TaskStep ==
  ASSUME TypeOK, NEW p \in Posts, PostStep(p)
  PROVE  /\ \A q \in Posts \ {p} : posts'[q] = posts[q]
         /\ Begun(p) \/ Carries(p) \/ Answered(p) \/ Published(p) \/ Left(p)
<1> DEFINE Others == \A q \in Posts \ {p} : posts'[q] = posts[q]
<1>0. posts[p] \in PostType
  BY DEF TypeOK
<1>1. CASE Commit(p)
  <2>1. PICK c : /\ ctx' = Advance(posts[p].snap, c, posts[p].msg)
                 /\ posts' = [posts EXCEPT ![p].pc = "gate", ![p].snap = NewContext,
                                           ![p].first = c]
    BY <1>1 DEF Commit
  <2> DEFINE v == [posts[p] EXCEPT !.pc = "gate", !.snap = NewContext, !.first = c]
  <2>2. posts' = [posts EXCEPT ![p] = v]
    BY <2>1
  <2>3. /\ v.pc = "gate" /\ v.from = posts[p].from /\ v.msg = posts[p].msg
        /\ v.sent = posts[p].sent /\ v.first = c
    BY <1>0 DEF PostType
  <2> HIDE DEF v
  <2>4. posts'[p] = v /\ Others
    BY <2>2, Written
  <2>5. QED
    BY <1>1, <2>1, <2>3, <2>4 DEF Commit, Begun, Goes
<1>2. ASSUME NEW pc, posts' = [posts EXCEPT ![p].pc = pc]
      PROVE  posts'[p].pc = pc /\ Same(p) /\ Others
  <2>1. posts' = [posts EXCEPT ![p] = [posts[p] EXCEPT !.pc = pc]]
    BY <1>2
  <2>2. posts'[p] = [posts[p] EXCEPT !.pc = pc] /\ Others
    BY <2>1, Written
  <2>3. QED
    BY <1>0, <2>2, FieldKept DEF Same
<1>3. CASE Gate(p)
  <2>1. PICK pc \in {"extract", "stream"} : posts' = [posts EXCEPT ![p].pc = pc]
    BY <1>3 DEF Gate
  <2>2. posts'[p].pc = pc /\ Same(p) /\ Others
    BY <1>2, <2>1
  <2>3. QED
    BY <1>3, <2>2 DEF Gate, Carries, Goes
<1>4. CASE Extract(p)
  <2>1. CASE posts' = [posts EXCEPT ![p].pc = "stream"]
    BY <1>2, <1>4, <2>1 DEF Extract, Carries, Goes
  <2>2. CASE GoOn(p, "mark")
    BY <1>4, <2>2, GoOnStep DEF Extract, Carries, Goes
  <2>3. QED
    BY <1>4, <2>1, <2>2 DEF Extract
<1>5. CASE Mark(p)
  BY <1>5, GoOnStep DEF Mark, Carries, Goes
<1>6. CASE Reload(p)
  <2>1. CASE GoOn(p, "stream")
    BY <1>6, <2>1, GoOnStep DEF Reload, Carries, Goes
  <2>2. CASE posts' = [posts EXCEPT ![p].pc = "stream", ![p].skip = NextUnfilled(params)]
    <3> DEFINE v == [posts[p] EXCEPT !.pc = "stream", !.skip = NextUnfilled(params)]
    <3>1. posts' = [posts EXCEPT ![p] = v]
      BY <2>2
    <3>2. /\ v.pc = "stream" /\ v.from = posts[p].from /\ v.msg = posts[p].msg
          /\ v.sent = posts[p].sent /\ v.first = posts[p].first /\ v.again = posts[p].again
      BY <1>0 DEF PostType
    <3> HIDE DEF v
    <3>3. posts'[p] = v /\ Others
      BY <3>1, Written
    <3>4. QED
      BY <1>6, <3>2, <3>3 DEF Reload, Carries, Same, Goes
  <2>3. QED
    BY <1>6, <2>1, <2>2 DEF Reload
<1>7. CASE Stream(p)
  <2>1. CASE posts[p].from # Probe /\ posts' = [posts EXCEPT ![p].pc = "save"]
    BY <1>2, <1>7, <2>1 DEF Stream, Carries, Goes
  <2>2. ASSUME posts[p].from = Probe, NEW c \in Parsed(Probe, posts[p].msg),
               NEW pc, pc = IF c \in Options[Probe] THEN "patch" ELSE "save",
               posts' = [posts EXCEPT ![p].pc = pc, ![p].again = c],
               lapsed' = (lapsed \/ (c \notin Options[Probe] /\ Owes(p)))
        PROVE  Others /\ Answered(p)
    <3> DEFINE v == [posts[p] EXCEPT !.pc = pc, !.again = c]
    <3>1. posts' = [posts EXCEPT ![p] = v]
      BY <2>2
    <3>2. /\ v.pc = pc /\ v.from = posts[p].from /\ v.msg = posts[p].msg
          /\ v.sent = posts[p].sent /\ v.first = posts[p].first /\ v.again = c
      BY <1>0 DEF PostType
    <3> HIDE DEF v
    <3>3. posts'[p] = v /\ Others
      BY <3>1, Written
    <3>4. QED
      BY <1>7, <2>2, <3>2, <3>3 DEF Stream, Answered, Goes
  <2>3. CASE \E c \in Parsed(Probe, posts[p].msg) : \E pc :
               /\ posts[p].from = Probe
               /\ pc = IF c \in Options[Probe] THEN "patch" ELSE "save"
               /\ posts' = [posts EXCEPT ![p].pc = pc, ![p].again = c]
               /\ lapsed' = (lapsed \/ (c \notin Options[Probe] /\ Owes(p)))
    BY <2>2, <2>3
  <2>4. QED
    BY <1>7, <2>1, <2>3 DEF Stream
<1>8. CASE Patch(p)
  BY <1>8, GoOnStep DEF Patch, Carries, Goes
<1>9. CASE Pin(p)
  <2> DEFINE v == [posts[p] EXCEPT
                     !.pc = IF ~live \/ ctx.state = "enriching" THEN "dispatch" ELSE "pinned",
                     !.snap = IF ~live \/ ctx.state = "enriching" THEN @ ELSE ctx]
  <2>1. posts' = [posts EXCEPT ![p] = v]
    BY <1>9 DEF Pin
  <2>2. /\ v.pc \in {"dispatch", "pinned"} /\ v.from = posts[p].from /\ v.msg = posts[p].msg
        /\ v.sent = posts[p].sent /\ v.first = posts[p].first /\ v.again = posts[p].again
    BY <1>0 DEF PostType
  <2> HIDE DEF v
  <2>3. posts'[p] = v /\ Others
    BY <2>1, Written
  <2>4. QED
    BY <1>9, <2>2, <2>3 DEF Pin, Carries, Same, Goes
<1>10. CASE WritePin(p)
  <2>1. CASE live
    <3> DEFINE v == [posts[p] EXCEPT !.pc = "dispatch", !.snap = NewContext]
    <3>1. posts' = [posts EXCEPT ![p] = v]
      BY <1>10, <2>1 DEF WritePin
    <3>2. /\ v.pc = "dispatch" /\ v.from = posts[p].from /\ v.msg = posts[p].msg
          /\ v.sent = posts[p].sent /\ v.first = posts[p].first /\ v.again = posts[p].again
      BY <1>0 DEF PostType
    <3> HIDE DEF v
    <3>3. posts'[p] = v /\ Others
      BY <3>1, Written
    <3>4. QED
      BY <1>10, <3>2, <3>3 DEF WritePin, Carries, Same, Goes
  <2>2. CASE ~live
    <3>1. posts' = [posts EXCEPT ![p] = Failed]
      BY <1>10, <2>2 DEF WritePin
    <3>2. posts'[p] = Failed /\ Others
      BY <3>1, Written
    <3>3. QED
      BY <1>10, <2>2, <3>2, EndedPost DEF WritePin, Left
  <2>3. QED
    BY <2>1, <2>2
<1>11. CASE Dispatch(p)
  <2> DEFINE v == [posts[p] EXCEPT !.pc = "save", !.sent = TRUE]
  <2>1. posts' = [posts EXCEPT ![p] = v]
    BY <1>11 DEF Dispatch
  <2>2. v.pc = "save" /\ v.sent
    BY <1>0 DEF PostType
  <2> HIDE DEF v
  <2>3. posts'[p] = v /\ Others
    BY <2>1, Written
  <2>4. bus' # {}
    BY <1>11 DEF Dispatch
  <2>5. QED
    BY <1>11, <2>2, <2>3, <2>4 DEF Dispatch, Published, Goes
<1>12. CASE Save(p)
  <2>1. posts' = [posts EXCEPT ![p] = Stored(p)] \/ posts' = [posts EXCEPT ![p] = Failed]
    BY <1>12 DEF Save
  <2>2. posts'[p] \in {Stored(p), Failed} /\ Others
    BY <2>1, Written
  <2>3. QED
    BY <1>12, <2>2, EndedPost DEF Save, Left
<1>13. QED
  BY <1>1, <1>3, <1>4, <1>5, <1>6, <1>7, <1>8, <1>9, <1>10, <1>11, <1>12 DEF PostStep

(* What a task has done by the time it is at a station.  A post in "parse" goes  *)
(* by the state it has read; from "patch" on it has an answer of the probe; and  *)
(* a reply is stored after the dispatch, or the post that owed one is counted.   *)
TaskInv(p) ==
  /\ posts[p].pc = "parse" => posts[p].from = posts[p].snap.state
  /\ posts[p].pc \in {"patch", "pin", "pinned", "dispatch"}
       => posts[p].from = Probe /\ posts[p].again \in Options[Probe]
  /\ posts[p].pc # "save" => ~posts[p].sent
  /\ posts[p].pc = "save" /\ Owes(p) => lapsed
  /\ posts[p].pc = "save" /\ posts[p].from = Probe /\ posts[p].msg.choice \in Options[Probe]
       => posts[p].sent

LEMMA ProbeOptions == Options[Probe] = {"upgrade", "continue"} /\ None \notin Options[Probe]
<1>1. Options[Probe] = {"upgrade", "continue"}
  BY DEF Options, Probe
<1>2. Options[Probe] \subseteq Choices
  BY DEF Choices, Options, Probe
<1>3. QED
  BY <1>1, <1>2, ConversationAssumption

(* A click is mapped to the chip itself, the second time like the first.      *)
LEMMA ClickParsed ==
  ASSUME NEW m, m.choice \in Options[Probe], NEW c \in Parsed(Probe, m)
  PROVE  c \in Options[Probe]
<1>1. m.choice # None
  BY ProbeOptions
<1>2. QED
  BY <1>1 DEF Parsed

(* A dispatch is never unsaid, nor is a task that was lost.                   *)
LEMMA HistoryGrows ==
  ASSUME [Next]_vars
  PROVE  (lapsed => lapsed') /\ (bus # {} => bus' # {})
<1>1. ASSUME NEW p \in Posts, PostStep(p)
      PROVE  (lapsed => lapsed') /\ (bus # {} => bus' # {})
  <2>1. CASE Commit(p) \/ Gate(p) \/ Pin(p) \/ Save(p)
    BY <2>1 DEF Commit, Gate, Pin, Save
  <2>2. ASSUME NEW pc, GoOn(p, pc) PROVE lapsed => lapsed'
    BY <2>2 DEF GoOn
  <2>3. CASE Extract(p) \/ Mark(p) \/ Reload(p) \/ Patch(p)
    <3>1. bus' = bus
      BY <2>3 DEF Extract, Mark, Reload, Patch
    <3>2. lapsed' = lapsed \/ \E pc : GoOn(p, pc)
      BY <2>3 DEF Extract, Mark, Reload, Patch
    <3>3. QED
      BY <2>2, <3>1, <3>2
  <2>4. CASE Stream(p)
    <3>1. bus' = bus
      BY <2>4 DEF Stream
    <3>2. \/ lapsed' = lapsed
          \/ \E c \in Parsed(Probe, posts[p].msg) :
               lapsed' = (lapsed \/ (c \notin Options[Probe] /\ Owes(p)))
      BY <2>4 DEF Stream
    <3>3. ASSUME NEW c, lapsed' = (lapsed \/ (c \notin Options[Probe] /\ Owes(p)))
          PROVE  lapsed => lapsed'
      BY <3>3
    <3>4. lapsed => lapsed'
      BY <3>2, <3>3
    <3>5. QED
      BY <3>1, <3>4
  <2>5. CASE WritePin(p)
    BY <2>5 DEF WritePin
  <2>6. CASE Dispatch(p)
    BY <2>6 DEF Dispatch
  <2>7. QED
    BY <1>1, <2>1, <2>3, <2>4, <2>5, <2>6 DEF PostStep
<1>2. ASSUME NEW p \in Posts, PostFails(p) \/ \E m \in Messages : Post(p, m)
      PROVE  (lapsed => lapsed') /\ (bus # {} => bus' # {})
  <2>1. CASE PostFails(p)
    BY <2>1 DEF PostFails
  <2>2. CASE \E m \in Messages : Post(p, m)
    BY <2>2 DEF Post
  <2>3. QED
    BY <1>2, <2>1, <2>2
<1>3. CASE \/ StartSearch \/ Reflect \/ OpenProbe \/ PinProbe \/ SearchFails
           \/ \E t \in PatchedTypes : SetType(t)
           \/ DeleteChat \/ UNCHANGED vars
  BY <1>3 DEF StartSearch, Reflect, OpenProbe, PinProbe, SearchFails, SetType, DeleteChat, vars
<1>4. QED
  BY <1>1, <1>2, <1>3 DEF Next

(* The step of another leaves a post alone.                                  *)
LEMMA TaskInvKept ==
  ASSUME NEW p \in Posts, TaskInv(p), posts'[p] = posts[p], lapsed => lapsed'
  PROVE  TaskInv(p)'
  BY DEF TaskInv, Owes

LEMMA PostFields ==
  ASSUME TypeOK, NEW p \in Posts, NEW m \in Messages, Post(p, m)
  PROVE  /\ \A q \in Posts \ {p} : posts'[q] = posts[q]
         /\ posts'[p].pc = "parse" /\ posts'[p].snap = ctx
         /\ posts'[p].from = ctx.state /\ ~posts'[p].sent
<1> DEFINE v == [NoPost EXCEPT !.pc = "parse", !.msg = m, !.snap = ctx, !.from = ctx.state]
<1>1. posts' = [posts EXCEPT ![p] = v]
  BY DEF Post
<1>2. v.pc = "parse" /\ v.snap = ctx /\ v.from = ctx.state /\ ~v.sent
  BY DEF NoPost
<1> HIDE DEF v
<1>3. QED
  BY <1>1, <1>2, Written

LEMMA FailsFields ==
  ASSUME TypeOK, NEW p \in Posts, PostFails(p)
  PROVE  /\ \A q \in Posts \ {p} : posts'[q] = posts[q]
         /\ Left(p)
<1>1. posts'[p] = Failed /\ \A q \in Posts \ {p} : posts'[q] = posts[q]
  BY Written DEF PostFails
<1>2. QED
  BY <1>1, EndedPost DEF PostFails, Left

(* The steps of other parts leave the posts alone.                           *)
LEMMA OthersKeepPosts ==
  ASSUME \/ StartSearch \/ Reflect \/ OpenProbe \/ PinProbe \/ SearchFails
         \/ \E t \in PatchedTypes : SetType(t)
         \/ DeleteChat \/ UNCHANGED vars
  PROVE  posts' = posts
  BY DEF StartSearch, Reflect, OpenProbe, PinProbe, SearchFails, SetType, DeleteChat, vars

LEMMA TaskInvStep ==
  ASSUME TypeOK, \A p \in Posts : TaskInv(p), [Next]_vars
  PROVE  \A p \in Posts : TaskInv(p)'
<1>0. lapsed => lapsed'
  BY HistoryGrows
<1>1. ASSUME NEW p \in Posts, PostStep(p) PROVE TaskInv(p)'
  <2>1. CASE Begun(p)
    BY <1>1, <2>1 DEF Begun, Goes, TaskInv
  <2>2. CASE Carries(p)
    BY <1>0, <1>1, <2>2 DEF Carries, Same, Goes, TaskInv, Owes
  <2>3. CASE Answered(p)
    <3>1. posts[p].msg.choice \in Options[Probe] => posts'[p].again \in Options[Probe]
      BY <2>3, ClickParsed DEF Answered
    <3>2. posts'[p].pc = "save" /\ Owes(p)' => Owes(p)
      BY <2>3 DEF Answered, Owes
    <3>3. posts'[p].pc \in {"patch", "save"} /\ (posts'[p].pc # "save" => ~posts'[p].sent)
      BY <1>1, <2>3 DEF Answered, Goes, TaskInv
    <3>4. QED
      BY <2>3, <3>1, <3>2, <3>3 DEF Answered, TaskInv
  <2>4. CASE Published(p)
    BY <2>4 DEF Published, Goes, TaskInv, Owes
  <2>5. CASE Left(p)
    BY <2>5 DEF Left, TaskInv
  <2>6. QED
    BY <1>1, <2>1, <2>2, <2>3, <2>4, <2>5, TaskStep
<1>2. ASSUME NEW p \in Posts, PostFails(p) PROVE TaskInv(p)'
  BY <1>2, FailsFields DEF Left, TaskInv
<1>3. ASSUME NEW p \in Posts, NEW m \in Messages, Post(p, m) PROVE TaskInv(p)'
  BY <1>3, PostFields DEF TaskInv
<1>4. ASSUME NEW p \in Posts, PostStep(p) \/ PostFails(p) \/ \E m \in Messages : Post(p, m)
      PROVE  \A q \in Posts : TaskInv(q)'
  <2>1. \A q \in Posts \ {p} : posts'[q] = posts[q]
    BY <1>4, TaskStep, FailsFields, PostFields
  <2>2. \A q \in Posts \ {p} : TaskInv(q)'
    BY <1>0, <2>1, TaskInvKept
  <2>3. TaskInv(p)'
    BY <1>1, <1>2, <1>3, <1>4
  <2>4. QED
    BY <2>2, <2>3
<1>5. CASE posts' = posts
  BY <1>0, <1>5, TaskInvKept
<1>6. QED
  BY <1>4, <1>5, OthersKeepPosts DEF Next

LEMMA TaskInvInit == Init => \A p \in Posts : TaskInv(p)
  BY DEF Init, NoPost, TaskInv

(* The reply to a click on the probe is stored after its dispatch.            *)
THEOREM ClickDispatched == Spec => []RepliedClickDispatched
<1>1. (\A p \in Posts : TaskInv(p)) => RepliedClickDispatched
  BY DEF TaskInv, RepliedClickDispatched
<1>2. TypeOK /\ (\A p \in Posts : TaskInv(p)) /\ [Next]_vars => (\A p \in Posts : TaskInv(p))'
  BY TaskInvStep
<1>3. QED
  BY <1>1, <1>2, TypeCorrect, TaskInvInit, PTL DEF Spec
-----------------------------------------------------------------------------
(* What accounts for a context in 'enriching', the chat's or one kept to be      *)
(* written over it: a dispatch, a task that was lost, or one that still owes.    *)
Explained == bus # {} \/ lapsed \/ \E p \in Posts : InTask(p) /\ Owes(p)

ExplainedInv ==
  /\ ctx.state = "enriching" => Explained
  /\ \A p \in Posts : posts[p].snap.state = "enriching" => Explained
  /\ search.snap.state = "enriching" => Explained

(* An explanation does not go away: a task that owes dispatches, or is counted.  *)
LEMMA ExplainedKept ==
  ASSUME TypeOK, \A p \in Posts : TaskInv(p), Explained, [Next]_vars
  PROVE  Explained'
<1>1. CASE bus # {} \/ lapsed
  BY <1>1, HistoryGrows DEF Explained
<1>2. CASE \E p \in Posts : InTask(p) /\ Owes(p)
  <2>1. PICK p \in Posts : InTask(p) /\ Owes(p)
    BY <1>2
  <2>2. CASE posts'[p] = posts[p]
    <3>1. InTask(p)' /\ Owes(p)'
      BY <2>1, <2>2 DEF InTask, Owes
    <3>2. QED
      BY <3>1 DEF Explained
  <2>3. CASE PostStep(p)
    <3>1. CASE Begun(p)
      BY <2>1, <3>1 DEF Begun, Goes, InTask
    <3>2. CASE Carries(p)
      <4>1. Owes(p)' /\ InTask(p)'
        BY <2>1, <3>2 DEF Carries, Same, Goes, Owes, InTask, Ended
      <4>2. QED
        BY <4>1 DEF Explained
    <3>3. CASE Answered(p) /\ posts'[p].pc = "save"
      BY <2>1, <3>3 DEF Answered, Explained
    <3>4. CASE Answered(p) /\ posts'[p].pc # "save"
      <4>1. Owes(p)' /\ InTask(p)'
        BY <2>1, <3>4 DEF Answered, Goes, Owes, InTask, Ended
      <4>2. QED
        BY <4>1 DEF Explained
    <3>5. CASE Published(p)
      BY <3>5 DEF Published, Explained
    <3>6. CASE Left(p)
      <4>1. lapsed'
        BY <2>1, <3>6, HistoryGrows DEF Left, TaskInv
      <4>2. QED
        BY <4>1 DEF Explained
    <3>7. QED
      BY <2>3, <3>1, <3>2, <3>3, <3>4, <3>5, <3>6, TaskStep
  <2>4. CASE PostFails(p)
    <3>1. lapsed'
      BY <2>1, <2>4 DEF PostFails
    <3>2. QED
      BY <3>1 DEF Explained
  <2>5. CASE \E m \in Messages : Post(p, m)
    BY <2>1, <2>5 DEF Post, InTask
  <2>6. ASSUME NEW q \in Posts, q # p,
               PostStep(q) \/ PostFails(q) \/ \E m \in Messages : Post(q, m)
        PROVE  posts'[p] = posts[p]
    BY <2>6, TaskStep, FailsFields, PostFields
  <2>7. QED
    BY <2>2, <2>3, <2>4, <2>5, <2>6, OthersKeepPosts DEF Next
<1>3. QED
  BY <1>1, <1>2 DEF Explained

(* The wizard does not lead to 'enriching': only an answer of the probe does.  *)
LEMMA AdvanceEnriching ==
  ASSUME NEW x \in ContextType, NEW c, NEW m, Advance(x, c, m).state = "enriching"
  PROVE  x.state = "enriching" \/ (x.state = Probe /\ c \in Options[Probe])
<1>1. CASE ~Accepts(x.state, c, m)
  BY <1>1 DEF Advance
<1>2. CASE Accepts(x.state, c, m) /\ x.state = Probe
  BY <1>2 DEF Accepts, Probe, Welcome
<1>3. CASE Accepts(x.state, c, m) /\ x.state # Probe
  <2>1. x.state \in DOMAIN Slot \cup {Welcome}
    BY <1>3 DEF Accepts, Options, Slot, Probe
  <2>2. Advance(x, c, m).state = Succ[x.state]
    BY <1>3 DEF Advance
  <2>3. QED
    BY <2>1, <2>2 DEF Slot, Succ, Welcome
<1>4. QED
  BY <1>1, <1>2, <1>3

LEMMA ExplainedInit == Init => ExplainedInv
<1>1. SUFFICES ASSUME Init PROVE ExplainedInv
  OBVIOUS
<1>2. ctx.state # "enriching"
  <2>1. PICK s \in Begins :
          ctx = [state |-> s, slots |-> {Slot[t] : t \in {u \in DOMAIN Slot : Rank[u] < Rank[s]}}]
    BY <1>1 DEF Init
  <2>2. "enriching" \notin DOMAIN Succ \cup {"ready"}
    BY DEF Succ
  <2>3. QED
    BY <2>1, <2>2, ConversationAssumption
<1>3. NewContext.state # "enriching"
  BY DEF NewContext, Welcome
<1>4. QED
  BY <1>1, <1>2, <1>3 DEF Init, ExplainedInv, NoPost, NoSearch

LEMMA ExplainedStep ==
  ASSUME TypeOK, \A p \in Posts : TaskInv(p), ExplainedInv, [Next]_vars
  PROVE  ExplainedInv'
<1>1. Explained => Explained'
  BY ExplainedKept
<1>2. NewContext.state # "enriching"
  BY DEF NewContext, Welcome
<1>3. ASSUME ctx'.state = "enriching" PROVE Explained'
  <2>1. CASE ctx' = ctx
    BY <1>1, <1>3, <2>1 DEF ExplainedInv
  <2>2. ASSUME NEW p \in Posts, posts[p].pc = "parse", posts'[p].pc = "gate",
               posts'[p].from = posts[p].from,
               ctx' = Advance(posts[p].snap, posts'[p].first, posts[p].msg)
        PROVE  Explained'
    <3>1. posts[p].snap \in ContextType
      BY SnapType DEF TypeOK
    <3>2. CASE posts[p].snap.state = "enriching"
      BY <1>1, <3>2 DEF ExplainedInv
    <3>3. CASE posts[p].snap.state = Probe /\ posts'[p].first \in Options[Probe]
      <4>1. TaskInv(p) /\ TaskInv(p)'
        BY TaskInvStep
      <4>2. posts'[p].from = Probe /\ ~posts'[p].sent
        BY <2>2, <3>3, <4>1 DEF TaskInv
      <4>3. InTask(p)' /\ Owes(p)'
        BY <2>2, <3>3, <4>2 DEF InTask, Ended, Owes
      <4>4. QED
        BY <4>3 DEF Explained
    <3>4. QED
      BY <1>3, <2>2, <3>1, <3>2, <3>3, AdvanceEnriching
  <2>3. ASSUME NEW x \in ContextType, ctx' = [x EXCEPT !.state = Probe]
        PROVE  FALSE
    BY <1>3, <2>3 DEF ContextType, Probe
  <2>4. ASSUME NEW p \in Posts, posts[p].pc = "pinned" PROVE Explained'
    <3>1. InTask(p) /\ Owes(p)
      BY <2>4 DEF TaskInv, InTask, Ended, Owes
    <3>2. QED
      BY <1>1, <3>1 DEF Explained
  <2>5. QED
    BY <2>1, <2>2, <2>3, <2>4, ContextStep
<1>4. ASSUME NEW p \in Posts, posts'[p].snap.state = "enriching" PROVE Explained'
  BY <1>1, <1>2, <1>4, SnapStep DEF ExplainedInv
<1>5. ASSUME search'.snap.state = "enriching" PROVE Explained'
  BY <1>1, <1>2, <1>5, SnapStep DEF ExplainedInv
<1>6. QED
  BY <1>3, <1>4, <1>5 DEF ExplainedInv

(* A chat rests in 'enriching' without a dispatch only when a task was lost.   *)
THEOREM EnrichingExplained == Spec => []EnrichingIsExplained
<1>1. ExplainedInv => EnrichingIsExplained
  BY DEF ExplainedInv, Explained, EnrichingIsExplained
<1>2. TypeOK /\ (\A p \in Posts : TaskInv(p)) /\ [Next]_vars => (\A p \in Posts : TaskInv(p))'
  BY TaskInvStep
<1>3. TypeOK /\ (\A p \in Posts : TaskInv(p)) /\ ExplainedInv /\ [Next]_vars => ExplainedInv'
  BY ExplainedStep
<1>4. QED
  BY <1>1, <1>2, <1>3, TypeCorrect, TaskInvInit, ExplainedInit, PTL DEF Spec
=============================================================================
