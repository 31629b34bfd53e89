--------------------------- MODULE Planning_proofs ---------------------------
(***************************************************************************)
(* Proofs about the two modules on what a chat is to search.  Probing: a card  *)
(* asks for all that is missing, and one that is left alone asks what a fresh read   *)
(* would have it ask.                                                        *)
(* Planning: the indices that are resolved hold every document that is sought,   *)
(* and the batches are full, in order and within the target.                  *)
(***************************************************************************)
EXTENDS Preparation, SequenceTheorems, FiniteSetTheorems, WellFoundedInduction, TLAPS

CardFields == {"mount", "loading", "busy", "loaded", "listed", "asked"}
CallFields == {"pc", "mount", "field", "value", "sample", "listed", "asked"}
HookFields == {"pc", "sample", "dated", "take"}
ParamFields == {"brand", "competitors", "start", "end", "mediaTypes", "intention", "enrichmentType"}

(* A request of a card that is left alone knows what the server would say now,    *)
(* and is of the card that is shown, if one is.                               *)
CallOK(c) ==
  /\ DOMAIN c = CallFields
  /\ c.pc = "classify" => c.sample = sample
  /\ c.pc = "answer" => c.asked = Probes(sample, params)
  /\ c.mount # 0
  /\ c.mount = card.mount \/ card = Hidden

(* A card that is left alone has at most one request under way.                  *)
CalmOK ==
  calm =>
    /\ hook.pc \in {"idle", "done"}
    /\ \/ calls = <<>> /\ (card.loaded => card.asked = Probes(sample, params))
       \/ \E c : calls = <<c>> /\ CallOK(c)

Shapes ==
  /\ DOMAIN card = CardFields
  /\ DOMAIN hook = HookFields
  /\ DOMAIN params = ParamFields
  /\ mounts \in Nat

Inv == Shapes /\ CalmOK

LEMMA InvInit == Init => Inv
<1> SUFFICES ASSUME Init
             PROVE  Inv
  OBVIOUS
<1>1. DOMAIN params = ParamFields
  BY DEF Init, NoParams, ParamFields
<1>2. QED
  BY <1>1 DEF Init, Inv, Shapes, CalmOK, Hidden, Quiet, CardFields, HookFields

(* Sequences of one request.                                                 *)
LEMMA OneCall ==
  /\ \A c : Append(<<>>, c) = <<c>> /\ <<c>> # <<>>
  /\ \A c, d : <<c>> = <<d>> => c = d
  /\ \A c : DOMAIN <<c>> = {1} /\ <<c>>[1] = c
  /\ \A c, d : [<<c>> EXCEPT ![1] = d] = <<d>>
OBVIOUS

LEMMA OneCallDropped == \A c : RemoveAt(<<c>>, 1) = <<>>
<1> SUFFICES ASSUME NEW c
             PROVE  RemoveAt(<<c>>, 1) = <<>>
  OBVIOUS
<1>1. SubSeq(<<c>>, 1, 0) = <<>> /\ SubSeq(<<c>>, 2, 1) = <<>> /\ Len(<<c>>) = 1
  OBVIOUS
<1>2. QED
  BY <1>1 DEF RemoveAt
-----------------------------------------------------------------------------
(* A step that leaves the card's reads behind, or that nobody waits for.          *)
LEMMA InvNotCalm ==
  ASSUME Inv, Shapes', ~calm'
  PROVE  Inv'
BY DEF Inv, CalmOK

(* A request goes out: none is under way, or the card is not left alone.          *)
LEMMA InvSend ==
  ASSUME Inv, NEW pc \in {"sample", "patch"}, NEW field, NEW value, Send(pc, field, value),
         UNCHANGED <<params, sample, hook>>, Shapes', card'.mount # 0,
         calm' => calls = <<>> /\ hook.pc \in {"idle", "done"}
  PROVE  Inv'
<1> DEFINE c == Request(pc, field, value)
<1>1. calls' = Append(calls, c) /\ c.mount = card'.mount /\ c.pc = pc /\ DOMAIN c = CallFields
  BY DEF Send, Request, CallFields
<1> HIDE DEF c
<1>3. ASSUME calm'
      PROVE  hook'.pc \in {"idle", "done"} /\ \E d : calls' = <<d>> /\ CallOK(d)'
  <2>1. calls' = <<c>>
    BY <1>1, <1>3, OneCall
  <2>2. \A d : d = c => CallOK(d)'
    BY <1>1 DEF CallOK
  <2>3. QED
    BY <1>3, <2>1, <2>2
<1>4. QED
  BY <1>3 DEF Inv, CalmOK

LEMMA InvShow ==
  ASSUME Inv, Show
  PROVE  Inv'
<1> DEFINE x == [Hidden EXCEPT !.mount = mounts', !.loading = TRUE]
<1>1. DOMAIN x = CardFields /\ x.mount = mounts'
  BY DEF Hidden, CardFields
<1>2. Shapes' /\ card'.mount # 0
  BY <1>1 DEF Show, Inv, Shapes, others
<1>3. QED
  BY <1>2, InvSend DEF Show, others

LEMMA InvStartOver ==
  ASSUME Inv, StartOver
  PROVE  Inv'
<1>1. DOMAIN card' = CardFields /\ card'.mount = card.mount
  BY DEF StartOver, Inv, Shapes, CardFields
<1>2. Shapes' /\ card'.mount # 0
  BY <1>1 DEF StartOver, Shown, Inv, Shapes, others
<1>3. QED
  BY <1>2, InvSend DEF StartOver, others

LEMMA InvResolve ==
  ASSUME Inv, NEW f \in Fields, Resolve(f)
  PROVE  Inv'
<1>1. DOMAIN card' = CardFields /\ card'.mount = card.mount
  BY DEF Resolve, Inv, Shapes, CardFields
<1>2. Shapes' /\ card'.mount # 0
  BY <1>1 DEF Resolve, Shown, Inv, Shapes, others
<1>3. PICK v \in Values(f) : Send("patch", f, v)
  BY DEF Resolve
<1>4. calm' => calls = <<>> /\ hook.pc \in {"idle", "done"}
  BY DEF Resolve, Inv, CalmOK
<1>5. UNCHANGED <<params, sample, hook>>
  BY DEF Resolve, others
<1>6. QED
  BY <1>2, <1>3, <1>4, <1>5, InvSend

LEMMA InvHide ==
  ASSUME Inv, Hide
  PROVE  Inv'
<1>1. UNCHANGED <<params, sample, hook, mounts, calls, calm>> /\ card' = Hidden
  BY DEF Hide, others, requests
<1>2. Shapes' /\ ~card'.loaded
  BY <1>1 DEF Inv, Shapes, Hidden, CardFields
<1>3. \A c : CallOK(c) => CallOK(c)'
  BY <1>1 DEF CallOK
<1>4. CalmOK'
  BY <1>1, <1>2, <1>3 DEF Inv, CalmOK
<1>5. QED
  BY <1>2, <1>4 DEF Inv
-----------------------------------------------------------------------------
(* The one request of a card that is left alone goes on.                        *)
LEMMA InvProceed ==
  ASSUME Inv, NEW i \in DOMAIN calls, NEW d, Proceed(i, d),
         UNCHANGED <<sample, hook, card, mounts, calm>>, DOMAIN params' = ParamFields,
         calm /\ CallOK(calls[i]) => CallOK(d)'
  PROVE  Inv'
<1>1. Shapes'
  BY DEF Inv, Shapes
<1>2. ASSUME calm
      PROVE  hook'.pc \in {"idle", "done"} /\ \E c : calls' = <<c>> /\ CallOK(c)'
  <2>1. PICK c : calls = <<c>> /\ CallOK(c)
    BY <1>2 DEF Inv, CalmOK
  <2>2. i = 1 /\ calls[i] = c
    BY <2>1, OneCall
  <2>3. calls' = <<d>>
    BY <2>1, <2>2, OneCall DEF Proceed
  <2>4. CallOK(d)'
    BY <1>2, <2>1, <2>2
  <2>5. QED
    BY <1>2, <2>3, <2>4 DEF Inv, CalmOK
<1>3. QED
  BY <1>1, <1>2 DEF Inv, CalmOK

LEMMA InvPatch ==
  ASSUME Inv, NEW i \in DOMAIN calls, Patch(i)
  PROVE  Inv'
<1>1. PICK d : d = [calls[i] EXCEPT !.pc = "sample", !.value = None,
                                    !.listed = {f \in Fields : IsGiven(params', f)}]
  OBVIOUS
<1>2. Proceed(i, d) /\ UNCHANGED <<sample, hook, card, mounts, calm>>
  BY <1>1 DEF Patch, others, page
<1>3. DOMAIN params' = ParamFields
  BY DEF Patch, Translated, Inv, Shapes
<1>4. CallOK(calls[i]) => DOMAIN d = CallFields /\ d.pc = "sample" /\ d.mount = calls[i].mount
  BY <1>1 DEF CallOK, CallFields
<1>5. CallOK(calls[i]) => CallOK(d)'
  BY <1>2, <1>4 DEF CallOK
<1>6. QED
  BY <1>2, <1>3, <1>5, InvProceed

LEMMA InvTakeSample ==
  ASSUME Inv, NEW i \in DOMAIN calls, TakeSample(i)
  PROVE  Inv'
<1>1. PICK d : d = [calls[i] EXCEPT !.pc = "classify", !.sample = sample]
  OBVIOUS
<1>2. Proceed(i, d) /\ UNCHANGED <<params, sample, hook, card, mounts, calm>>
  BY <1>1 DEF TakeSample, others, page
<1>3. CallOK(calls[i]) => /\ DOMAIN d = CallFields /\ d.pc = "classify"
                          /\ d.mount = calls[i].mount /\ d.sample = sample
  BY <1>1 DEF CallOK, CallFields
<1>4. CallOK(calls[i]) => CallOK(d)'
  BY <1>2, <1>3 DEF CallOK
<1>5. QED
  BY <1>2, <1>4, InvProceed DEF Inv, Shapes

LEMMA InvClassify ==
  ASSUME Inv, NEW i \in DOMAIN calls, Classify(i)
  PROVE  Inv'
<1>1. PICK asked, known : /\ asked = Probes(calls[i].sample, params)
                          /\ known = IF calls[i].field = None THEN Inferred(calls[i].sample, params)
                                     ELSE calls[i].listed
  OBVIOUS
<1>2. PICK d : d = [calls[i] EXCEPT !.pc = "answer", !.sample = NoSource, !.listed = known,
                                    !.asked = asked]
  OBVIOUS
<1>3. /\ Proceed(i, d) /\ calls[i].pc = "classify"
      /\ UNCHANGED <<params, sample, hook, card, mounts, calm>>
  BY <1>1, <1>2 DEF Classify, others, page
<1>4. CallOK(calls[i]) => /\ DOMAIN d = CallFields /\ d.pc = "answer"
                          /\ d.mount = calls[i].mount /\ d.asked = asked
  BY <1>2 DEF CallOK, CallFields
<1>5. CallOK(calls[i]) => asked = Probes(sample, params)
  BY <1>1, <1>3 DEF CallOK
<1>6. UNCHANGED Probes(sample, params)
  BY <1>3 DEF Probes, EmptyProbes, IsGiven, Doubtful, Media
<1>7. CallOK(calls[i]) => CallOK(d)'
  BY <1>3, <1>4, <1>5, <1>6 DEF CallOK
<1>8. QED
  BY <1>3, <1>7, InvProceed DEF Inv, Shapes

(* An answer settles the card: it hides it, finds it gone, or shows what it says.   *)
LEMMA InvAnswer ==
  ASSUME Inv, NEW i \in DOMAIN calls, Answer(i)
  PROVE  Inv'
<1>1. PICK c : c = calls[i]
  OBVIOUS
<1>2. /\ c.pc = "answer"
      /\ card' = IF c.field # None /\ c.asked = {} THEN Hidden
                 ELSE IF c.mount # card.mount THEN card
                 ELSE [Loaded(c) EXCEPT !.loading = Freed(c).loading, !.busy = Freed(c).busy]
      /\ calls' = RemoveAt(calls, i)
      /\ UNCHANGED <<params, sample, hook, mounts, calm>>
  BY <1>1 DEF Answer, Drop, others
<1>3. DOMAIN card = CardFields
  BY DEF Inv, Shapes
<1>4. DOMAIN Loaded(c) = CardFields /\ Loaded(c).asked = c.asked
  BY <1>3 DEF Loaded, CardFields
<1>5. DOMAIN Hidden = CardFields /\ ~Hidden.loaded
  BY DEF Hidden, CardFields
<1>6. \/ card' = Hidden
      \/ c.mount # card.mount /\ card' = card
      \/ DOMAIN card' = CardFields /\ card'.asked = c.asked
  <2>1. CASE c.field # None /\ c.asked = {}
    BY <1>2, <2>1
  <2>2. CASE ~(c.field # None /\ c.asked = {}) /\ c.mount # card.mount
    BY <1>2, <2>2
  <2>3. CASE ~(c.field # None /\ c.asked = {}) /\ c.mount = card.mount
    <3>1. card' = [Loaded(c) EXCEPT !.loading = Freed(c).loading, !.busy = Freed(c).busy]
      BY <1>2, <2>3
    <3>2. QED
      BY <1>4, <3>1 DEF CardFields
  <2>4. QED
    BY <2>1, <2>2, <2>3
<1>7. Shapes'
  BY <1>2, <1>3, <1>5, <1>6 DEF Inv, Shapes
<1>8. UNCHANGED Probes(sample, params)
  BY <1>2 DEF Probes, EmptyProbes, IsGiven, Doubtful, Media
<1>9. ASSUME calm
      PROVE  calls' = <<>> /\ (card'.loaded => card'.asked = Probes(sample, params))
  <2>1. PICK e : calls = <<e>> /\ CallOK(e)
    BY <1>9 DEF Inv, CalmOK
  <2>2. i = 1 /\ e = c
    BY <1>1, <2>1, OneCall
  <2>3. calls' = <<>>
    BY <1>2, <2>1, <2>2, OneCallDropped
  <2>4. c.asked = Probes(sample, params) /\ (c.mount = card.mount \/ card = Hidden)
    BY <1>2, <2>1, <2>2 DEF CallOK
  <2>5. QED
    BY <1>5, <1>6, <2>3, <2>4
<1>10. CalmOK'
  BY <1>2, <1>8, <1>9 DEF Inv, CalmOK
<1>11. QED
  BY <1>7, <1>10 DEF Inv

LEMMA InvCallFails ==
  ASSUME Inv, NEW i \in DOMAIN calls, CallFails(i)
  PROVE  Inv'
<1>1. PICK c : c = calls[i]
  OBVIOUS
<1>2. /\ card' = IF c.mount # card.mount THEN card ELSE Freed(c)
      /\ ~calm'
      /\ UNCHANGED <<params, sample, hook, mounts>>
  BY <1>1 DEF CallFails, Drop, others
<1>3. DOMAIN card' = CardFields
  BY <1>2 DEF Freed, Inv, Shapes, CardFields
<1>4. Shapes'
  BY <1>2, <1>3 DEF Inv, Shapes
<1>5. QED
  BY <1>2, <1>4, InvNotCalm
-----------------------------------------------------------------------------
(* What others write ends the time the card is left alone.                       *)
LEMMA InvAttach ==
  ASSUME Inv, Attach
  PROVE  Inv'
<1>1. ~calm' /\ UNCHANGED <<params, card, mounts, hook>>
  BY DEF Attach, Interfere, page
<1>2. QED
  BY <1>1, InvNotCalm DEF Inv, Shapes

LEMMA InvWizardPatch ==
  ASSUME Inv, WizardPatch
  PROVE  Inv'
<1>1. ~calm' /\ UNCHANGED <<card, mounts, hook>>
  BY DEF WizardPatch, Interfere, page
<1>2. DOMAIN params' = ParamFields
  BY DEF WizardPatch, Inv, Shapes, ParamFields
<1>3. QED
  BY <1>1, <1>2, InvNotCalm DEF Inv, Shapes

LEMMA InvHookApply ==
  ASSUME Inv, HookApply
  PROVE  Inv'
<1>1. ~calm' /\ UNCHANGED <<card, mounts>>
  BY DEF HookApply, page
<1>2. DOMAIN params' = ParamFields
  BY DEF HookApply, Inv, Shapes
<1>3. DOMAIN hook' = HookFields /\ hook'.pc # "write"
  <2>1. PICK pc \in {"sample", "done"} :
          \E dated : hook' = [Quiet EXCEPT !.pc = pc, !.dated = dated]
    BY DEF HookApply
  <2>2. QED
    BY <2>1 DEF Quiet, HookFields
<1>4. QED
  BY <1>1, <1>2, <1>3, InvNotCalm DEF Inv, Shapes
-----------------------------------------------------------------------------
(* Between the hook's first write and its last nothing is calm.                   *)
LEMMA InvSupplementSample ==
  ASSUME Inv, SupplementSample
  PROVE  Inv'
<1>1. ~calm' /\ UNCHANGED <<params, card, mounts>>
  BY DEF SupplementSample, Inv, CalmOK, page
<1>2. DOMAIN hook' = HookFields /\ hook'.pc = "read"
  BY DEF SupplementSample, Inv, Shapes, HookFields
<1>3. QED
  BY <1>1, <1>2, InvNotCalm DEF Inv, Shapes

LEMMA InvSupplementRead ==
  ASSUME Inv, SupplementRead
  PROVE  Inv'
<1>1. ~calm' /\ UNCHANGED <<params, card, mounts>>
  BY DEF SupplementRead, Inv, CalmOK, page
<1>2. DOMAIN hook' = HookFields
  BY DEF SupplementRead, Inv, Shapes, HookFields
<1>3. QED
  BY <1>1, <1>2, InvNotCalm DEF Inv, Shapes

LEMMA InvSupplementWrite ==
  ASSUME Inv, SupplementWrite
  PROVE  Inv'
<1>1. ~calm' /\ UNCHANGED <<card, mounts>>
  BY DEF SupplementWrite, page
<1>2. DOMAIN hook' = HookFields /\ hook'.pc = "done"
  BY DEF SupplementWrite, Inv, Shapes, HookFields
<1>3. DOMAIN params' = ParamFields
  BY DEF SupplementWrite, Inv, Shapes
<1>4. QED
  BY <1>1, <1>2, <1>3, InvNotCalm DEF Inv, Shapes

LEMMA InvSupplementFails ==
  ASSUME Inv, SupplementFails
  PROVE  Inv'
<1>1. ~calm' /\ UNCHANGED <<params, card, mounts>>
  BY DEF SupplementFails, Inv, CalmOK, page
<1>2. DOMAIN hook' = HookFields /\ hook'.pc = "done"
  BY DEF SupplementFails, Inv, Shapes, HookFields
<1>3. QED
  BY <1>1, <1>2, InvNotCalm DEF Inv, Shapes
-----------------------------------------------------------------------------
LEMMA InvNext ==
  ASSUME Inv, [Next]_vars
  PROVE  Inv'
<1>1. CASE UNCHANGED vars
  <2>1. UNCHANGED <<params, sample, hook, card, mounts, calls, calm>>
    BY <1>1 DEF vars, others, page, requests
  <2>2. \A c : CallOK(c) => CallOK(c)'
    BY <2>1 DEF CallOK
  <2>3. QED
    BY <2>1, <2>2 DEF Inv, Shapes, CalmOK
<1>2. CASE \E i \in DOMAIN calls :
             Patch(i) \/ TakeSample(i) \/ Classify(i) \/ Answer(i) \/ CallFails(i)
  BY <1>2, InvPatch, InvTakeSample, InvClassify, InvAnswer, InvCallFails
<1>3. CASE Show \/ StartOver \/ Hide \/ \E f \in Fields : Resolve(f)
  BY <1>3, InvShow, InvStartOver, InvHide, InvResolve
<1>4. CASE Attach \/ WizardPatch \/ HookApply
  BY <1>4, InvAttach, InvWizardPatch, InvHookApply
<1>5. CASE SupplementSample \/ SupplementRead \/ SupplementWrite \/ SupplementFails
  BY <1>5, InvSupplementSample, InvSupplementRead, InvSupplementWrite, InvSupplementFails
<1>6. QED
  BY <1>1, <1>2, <1>3, <1>4, <1>5 DEF Next

LEMMA InvAlways == Spec => []Inv
BY InvInit, InvNext, PTL DEF Spec

(* Whoever answers the card's probes one after the other, with nobody else writing   *)
(* meanwhile, sees what a fresh GET /probe would ask: the list POST /probe/resolve     *)
(* returns is never behind.                                                   *)
THEOREM CardStaysCurrent == Spec => []CardIsCurrent
<1>1. Inv => CardIsCurrent
  <2> SUFFICES ASSUME Inv, calm, calls = <<>>, card.loaded
               PROVE  card.asked = Probes(sample, params)
    BY DEF CardIsCurrent
  <2>1. QED
    BY OneCall DEF Inv, CalmOK
<1>2. QED
  BY <1>1, InvAlways, PTL
-----------------------------------------------------------------------------
(* From the parameters to the articles found, which is Planning's matter.         *)

(* The document is asked for, and not beyond the months that are searched.         *)
Sought(doc) ==
  /\ Plan!Matches(doc, query)
  /\ doc.medium \in query.media
  /\ ~Plan!Unnamed(doc)
  /\ ~(query.range # None /\ Plan!Month(doc.day) >= Plan!Month(query.range[1]) + MonthCap)

QueryOK ==
  stage # "params" => query.range = None \/ query.range \in Nat \X Nat

Covered ==
  stage \notin {"params", "query"} =>
    \A doc \in Cluster : Sought(doc) => \E i \in indices : Plan!Covers(i, Plan!Home(doc))

PlanInv == mode \in {"daywise", "monthwise"} /\ QueryOK /\ Covered /\ Plan!Filed /\ Plan!NothingMissed

LEMMA MonthMonotonic ==
  ASSUME NEW a \in Nat, NEW b \in Nat, a <= b, MonthDays \in Nat \ {0}
  PROVE  Plan!Month(a) <= Plan!Month(b) /\ Plan!Month(a) \in Nat /\ Plan!Month(b) \in Nat
BY DEF Plan!Month

(* All of the days, or months, from a to b are among the first cap if these reach b. *)
LEMMA FirstsReach ==
  ASSUME NEW a \in Nat, NEW b \in Nat, NEW cap \in Nat, NEW x \in Nat,
         a <= x, x <= b, x < a + cap
  PROVE  x \in Plan!Firsts(a, b, cap)
<1>1. Plan!Min({b, a + cap - 1}) \in {b, a + cap - 1}
  <2>1. \E y \in {b, a + cap - 1} : \A z \in {b, a + cap - 1} : y <= z
    OBVIOUS
  <2>2. QED
    BY <2>1 DEF Plan!Min
<1>2. QED
  BY <1>1 DEF Plan!Firsts

(* The instance counts like this module.                                      *)
LEMMA SameCardinality ==
  ASSUME NEW S
  PROVE  (Plan!IsFiniteSet(S) <=> IsFiniteSet(S)) /\ Plan!Cardinality(S) = Cardinality(S)
BY DEF Plan!IsFiniteSet, IsFiniteSet, Plan!Cardinality, Cardinality

(* A search for the elements of a finite set, in any order, brings all of them.     *)
LEMMA AllCome ==
  ASSUME NEW S, IsFiniteSet(S), NEW s \in SetToSeqs(S)
  PROVE  Plan!Range(s) = S
<1>1. s \in [1..Cardinality(S) -> S] /\ Cardinality(S) \in Nat
  BY FS_CardinalityType DEF SetToSeqs
<1>2. s \in Injection(1..Cardinality(S), S)
  BY <1>1 DEF SetToSeqs, Injection, IsInjective
<1>3. Cardinality(1..Cardinality(S)) = Cardinality(S)
  BY <1>1, FS_Interval
<1>4. s \in Surjection(1..Cardinality(S), S)
  BY <1>2, <1>3, FS_Injection
<1>5. QED
  BY <1>1, <1>4 DEF Surjection, Plan!Range
-----------------------------------------------------------------------------
(* The batches.  A set of numbers has a least one.                                *)
LEMMA Least ==
  ASSUME NEW S \in SUBSET Nat, S # {}
  PROVE  \E m \in S : \A l \in S : m <= l
<1> DEFINE R == OpToRel(<, Nat)
<1>1. \A l, m \in Nat : <<l, m>> \in R <=> l < m
  BY DEF OpToRel
<1>2. IsWellFoundedOn(R, Nat)
  BY NatLessThanWellFounded
<1> HIDE DEF R
<1>3. PICK m \in S : \A l \in S : <<l, m>> \notin R
  BY <1>2, WFMin
<1>4. \A l \in S : l \in Nat /\ m \in Nat /\ ~(l < m)
  BY <1>1, <1>3
<1>5. QED
  BY <1>4

(* A loop's state after each of n steps is a function, if a step leads    *)
(* from states to states: there is no smallest number of steps that has none.         *)
Loop(g, n, base, step) == \A i \in 0..n : g[i] = IF i = 0 THEN base ELSE step[<<g[i - 1], i>>]

LEMMA LoopExists ==
  ASSUME NEW n \in Nat, NEW D, NEW base \in D, NEW step \in [D \X (1..n) -> D]
  PROVE  \E g \in [0..n -> D] : Loop(g, n, base, step)
<1> USE DEF Loop
<1> DEFINE Has(m) == \E g \in [0..m -> D] : Loop(g, m, base, step)
           Lacks == {m \in Nat : m <= n /\ ~Has(m)}
<1>1. Has(0)
  <2>1. [i \in 0..0 |-> base] \in [0..0 -> D] /\ \A i \in 0..0 : i = 0
    OBVIOUS
  <2>2. QED
    BY <2>1
<1>2. ASSUME NEW m \in Nat, m < n, Has(m)
      PROVE  Has(m + 1)
  <2>1. PICK g \in [0..m -> D] :
          \A i \in 0..m : g[i] = IF i = 0 THEN base ELSE step[<<g[i - 1], i>>]
    BY <1>2
  <2> DEFINE last == step[<<g[m], m + 1>>]
             h == [i \in 0..m + 1 |-> IF i = m + 1 THEN last ELSE g[i]]
  <2>2. last \in D
    <3>1. m \in 0..m /\ m + 1 \in 1..n
      BY <1>2
    <3>2. <<g[m], m + 1>> \in D \X (1..n)
      BY <3>1
    <3>3. QED
      BY <3>2
  <2> HIDE DEF last
  <2>3. /\ \A i \in 0..m + 1 : i = m + 1 \/ (i \in 0..m /\ i # m + 1)
        /\ \A i \in 0..m : i \in 0..m + 1 /\ i # m + 1
        /\ m + 1 # 0 /\ m + 1 - 1 = m /\ m \in 0..m /\ m + 1 \in 0..m + 1
        /\ \A i \in 0..m : i = 0 \/ i - 1 \in 0..m
    OBVIOUS
  <2>4. h \in [0..m + 1 -> D]
    BY <2>2, <2>3
  <2>5. h[m + 1] = last /\ \A i \in 0..m : h[i] = g[i]
    BY <2>3
  <2> HIDE DEF h
  <2>6. ASSUME NEW i \in 0..m + 1
        PROVE  h[i] = IF i = 0 THEN base ELSE step[<<h[i - 1], i>>]
    <3>1. CASE i = m + 1
      <4>1. h[i] = last /\ h[i - 1] = g[m] /\ i # 0
        BY <2>3, <2>5, <3>1
      <4>2. QED
        BY <3>1, <4>1 DEF last
    <3>2. CASE i \in 0..m
      <4>1. g[i] = IF i = 0 THEN base ELSE step[<<g[i - 1], i>>]
        BY <2>1, <3>2
      <4>2. QED
        BY <2>3, <2>5, <3>2, <4>1
    <3>3. QED
      BY <2>3, <3>1, <3>2
  <2>7. QED
    BY <2>4, <2>6
<1> HIDE DEF Has
<1>3. Lacks = {}
  <2> SUFFICES ASSUME Lacks # {}
               PROVE  FALSE
    OBVIOUS
  <2>1. PICK m \in Lacks : \A l \in Lacks : m <= l
    <3>1. Lacks \in SUBSET Nat
      OBVIOUS
    <3> HIDE DEF Lacks
    <3>2. QED
      BY <3>1, Least
  <2>2. m # 0 /\ m \in Nat /\ m <= n /\ ~Has(m)
    BY <1>1, <2>1
  <2>3. m - 1 \in Nat /\ m - 1 < n /\ m - 1 < m /\ m - 1 + 1 = m
    BY <2>2
  <2>4. Has(m - 1)
    BY <2>1, <2>3
  <2>5. QED
    BY <1>2, <2>2, <2>3, <2>4
<1>4. Has(n)
  BY <1>3
<1>5. QED
  BY <1>4 DEF Has

(* What is so at first and stays so is so all the way.                             *)
LEMMA AllTheWay ==
  ASSUME NEW n \in Nat, NEW Good \in SUBSET Nat, 0 \in Good,
         \A m \in Nat : m < n /\ m \in Good => m + 1 \in Good
  PROVE  0..n \subseteq Good
<1> DEFINE Bad == {m \in Nat : m <= n /\ m \notin Good}
<1> SUFFICES ASSUME Bad # {}
             PROVE  FALSE
  OBVIOUS
<1>1. PICK m \in Bad : \A l \in Bad : m <= l
  <2>1. Bad \in SUBSET Nat
    OBVIOUS
  <2> HIDE DEF Bad
  <2>2. QED
    BY <2>1, Least
<1>2. m # 0 /\ m \in Nat /\ m <= n /\ m \notin Good
  BY <1>1
<1>3. m - 1 \in Nat /\ m - 1 < n /\ m - 1 < m /\ m - 1 + 1 = m
  BY <1>2
<1>4. m - 1 \in Good
  BY <1>1, <1>3
<1>5. QED
  BY <1>2, <1>3, <1>4

TokensOK == Len(articles) \in Nat /\ \A i \in 1..Len(articles) : Plan!Tokens(i) \in Nat

LEMMA UptoIs ==
  ASSUME TokensOK
  PROVE  /\ Plan!Upto[0] = 0
         /\ \A i \in 1..Len(articles) : Plan!Upto[i] = Plan!Upto[i - 1] + Plan!Tokens(i)
         /\ \A i \in 0..Len(articles) : Plan!Upto[i] \in Nat
<1> DEFINE n == Len(articles)
           step == [x \in Nat \X (1..n) |-> x[1] + Plan!Tokens(x[2])]
<1>1. n \in Nat /\ \A i \in 1..n : Plan!Tokens(i) \in Nat
  BY DEF TokensOK
<1> HIDE DEF n
<1>2. step \in [Nat \X (1..n) -> Nat] /\ 0 \in Nat
  BY <1>1
<1>3. \A a \in Nat, i \in 1..n : step[<<a, i>>] = a + Plan!Tokens(i)
  OBVIOUS
<1> HIDE DEF step
<1>4. PICK g \in [0..n -> Nat] : Loop(g, n, 0, step)
  BY <1>1, <1>2, LoopExists
<1>5. \A i \in 0..n : i = 0 \/ (i \in 1..n /\ i - 1 \in 0..n)
  BY <1>1
<1>6. \A i \in 0..n : g[i] = IF i = 0 THEN 0 ELSE g[i - 1] + Plan!Tokens(i)
  BY <1>3, <1>4, <1>5 DEF Loop
<1>7. g = [i \in 0..n |-> IF i = 0 THEN 0 ELSE g[i - 1] + Plan!Tokens(i)]
  BY <1>6
<1>8. Plan!Upto = [i \in 0..n |-> IF i = 0 THEN 0 ELSE Plan!Upto[i - 1] + Plan!Tokens(i)]
  BY <1>7 DEF Plan!Upto, n
<1> HIDE DEF Plan!Upto
<1>9. \A i \in 0..n : Plan!Upto[i] = IF i = 0 THEN 0 ELSE Plan!Upto[i - 1] + Plan!Tokens(i)
  BY <1>8
<1>10. \A i \in 0..n : Plan!Upto[i] \in Nat
  <2> DEFINE Good == {i \in Nat : i <= n => Plan!Upto[i] \in Nat}
  <2>1. 0 \in Good
    BY <1>1, <1>9
  <2>2. ASSUME NEW m \in Nat, m < n, m \in Good
        PROVE  m + 1 \in Good
    <3>1. m + 1 \in 0..n /\ m + 1 \in 1..n /\ m + 1 # 0 /\ m + 1 - 1 = m /\ m <= n
      BY <1>1, <2>2
    <3>2. Plan!Upto[m + 1] = Plan!Upto[m] + Plan!Tokens(m + 1)
      BY <1>9, <3>1
    <3>3. QED
      BY <1>1, <2>2, <3>1, <3>2
  <2>3. Good \in SUBSET Nat
    OBVIOUS
  <2> HIDE DEF Good
  <2>4. 0..n \subseteq Good
    BY <1>1, <2>1, <2>2, <2>3, AllTheWay
  <2>5. QED
    BY <1>1, <2>4 DEF Good
<1>11. 0 \in 0..n /\ \A i \in 1..n : i \in 0..n /\ i # 0
  BY <1>1
<1>12. QED
  BY <1>9, <1>10, <1>11 DEF n

(* The loop of createBatches() after each article.                                *)
Accs == [full : Seq(Seq(Nat)), open : Seq(Nat), sum : Nat]

LEMMA PutType ==
  ASSUME TokensOK, NEW acc \in Accs, NEW i \in 1..Len(articles)
  PROVE  /\ Plan!Started(acc, i) \in Accs /\ Plan!Added(acc, i) \in Accs /\ Plan!Put(acc, i) \in Accs
         /\ Plan!Started(acc, i).full = Append(acc.full, acc.open)
         /\ Plan!Started(acc, i).open = <<i>> /\ Plan!Started(acc, i).sum = Plan!Tokens(i)
         /\ Plan!Added(acc, i).full = acc.full /\ Plan!Added(acc, i).open = Append(acc.open, i)
         /\ Plan!Added(acc, i).sum = acc.sum + Plan!Tokens(i)
<1>1. i \in Nat /\ Plan!Tokens(i) \in Nat
  BY DEF TokensOK
<1>2. acc.full \in Seq(Seq(Nat)) /\ acc.open \in Seq(Nat) /\ acc.sum \in Nat
  BY DEF Accs
<1>3. Append(acc.full, acc.open) \in Seq(Seq(Nat)) /\ <<i>> \in Seq(Nat)
      /\ Append(acc.open, i) \in Seq(Nat) /\ acc.sum + Plan!Tokens(i) \in Nat
  BY <1>1, <1>2
<1>4. /\ Plan!Started(acc, i) \in Accs
      /\ Plan!Started(acc, i).full = Append(acc.full, acc.open)
      /\ Plan!Started(acc, i).open = <<i>> /\ Plan!Started(acc, i).sum = Plan!Tokens(i)
  BY <1>1, <1>3 DEF Plan!Started, Accs
<1>5. /\ Plan!Added(acc, i).full = acc.full /\ Plan!Added(acc, i).open = Append(acc.open, i)
      /\ Plan!Added(acc, i).sum = acc.sum + Plan!Tokens(i)
      /\ Plan!Added(acc, i) \in Accs
  <2> DEFINE open == Append(acc.open, i)
             sum == acc.sum + Plan!Tokens(i)
  <2>1. Plan!Added(acc, i) = [acc EXCEPT !.open = open, !.sum = sum]
    BY DEF Plan!Added
  <2>2. open \in Seq(Nat) /\ sum \in Nat
    BY <1>3
  <2> HIDE DEF open, sum
  <2>3. /\ Plan!Added(acc, i).full = acc.full /\ Plan!Added(acc, i).open = open
        /\ Plan!Added(acc, i).sum = sum /\ Plan!Added(acc, i) \in Accs
    BY <2>1, <2>2 DEF Accs
  <2>4. QED
    BY <2>3 DEF open, sum
<1>6. Plan!Added(acc, i) \in Accs
  BY <1>5
<1>7. QED
  BY <1>4, <1>5, <1>6 DEF Plan!Put

LEMMA PackingIs ==
  ASSUME TokensOK
  PROVE  /\ Plan!Packing[0] = Plan!Nothing
         /\ \A i \in 1..Len(articles) : Plan!Packing[i] = Plan!Put(Plan!Packing[i - 1], i)
<1> DEFINE n == Len(articles)
           step == [x \in Accs \X (1..n) |-> Plan!Put(x[1], x[2])]
<1>1. n \in Nat
  BY DEF TokensOK
<1>2. \A a \in Accs, i \in 1..n : Plan!Put(a, i) \in Accs
  BY PutType
<1> HIDE DEF n
<1>3. step \in [Accs \X (1..n) -> Accs] /\ Plan!Nothing \in Accs
  <2>1. <<>> \in Seq(Nat) /\ <<>> \in Seq(Seq(Nat))
    OBVIOUS
  <2>2. Plan!Nothing \in Accs
    BY <2>1 DEF Plan!Nothing, Accs
  <2> HIDE DEF Accs
  <2>3. QED
    BY <1>2, <2>2
<1>4. \A a \in Accs, i \in 1..n : step[<<a, i>>] = Plan!Put(a, i)
  OBVIOUS
<1> HIDE DEF step
<1>5. PICK g \in [0..n -> Accs] : Loop(g, n, Plan!Nothing, step)
  BY <1>1, <1>3, LoopExists
<1>6. \A i \in 0..n : i = 0 \/ (i \in 1..n /\ i - 1 \in 0..n)
  BY <1>1
<1>7. \A i \in 0..n : g[i] = IF i = 0 THEN Plan!Nothing ELSE Plan!Put(g[i - 1], i)
  BY <1>4, <1>5, <1>6 DEF Loop
<1>8. g = [i \in 0..n |-> IF i = 0 THEN Plan!Nothing ELSE Plan!Put(g[i - 1], i)]
  BY <1>7
<1>9. Plan!Packing = [i \in 0..n |-> IF i = 0 THEN Plan!Nothing ELSE Plan!Put(Plan!Packing[i - 1], i)]
  BY <1>8 DEF Plan!Packing, n
<1> HIDE DEF Plan!Packing
<1>10. \A i \in 0..n :
         Plan!Packing[i] = IF i = 0 THEN Plan!Nothing ELSE Plan!Put(Plan!Packing[i - 1], i)
  BY <1>9
<1>11. 0 \in 0..n /\ \A i \in 1..n : i \in 0..n /\ i # 0
  BY <1>1
<1>12. QED
  BY <1>10, <1>11 DEF n

(* What the property says of a batch, and of the batches of the first articles.        *)
BatchOK(plan, k) ==
  /\ plan[k] # <<>>
  /\ \A j \in DOMAIN plan[k] : plan[k][j] = Plan!EndOf(plan, k - 1) + j
  /\ Plan!Sum(plan[k]) > Plan!Target => Len(plan[k]) = 1
  /\ k > 1 => Plan!Sum(plan[k - 1]) + Plan!Tokens(plan[k][1]) > Plan!Target

Filled(plan, m) ==
  /\ plan \in Seq(Seq(Nat))
  /\ Plan!EndOf(plan, Len(plan)) = m
  /\ \A k \in DOMAIN plan : BatchOK(plan, k)

(* The batches so far and the open one, whose tokens the loop carries along.           *)
PackOK(acc, m) ==
  /\ acc.open # <<>>
  /\ acc.sum = Plan!Sum(acc.open)
  /\ Filled(Append(acc.full, acc.open), m)

(* Another batch at the end leaves those before as they are.                         *)
Longer(full, c, new, L, K) ==
  /\ L \in Nat /\ L = Len(full) /\ K = L + 1 /\ DOMAIN full = 1..L
  /\ DOMAIN new = 1..K /\ Len(new) = K /\ new \in Seq(Seq(Nat)) /\ new[K] = c
  /\ \A k \in 1..L : new[k] = full[k]
  /\ Plan!EndOf(new, L) = Plan!EndOf(full, L)
  /\ Plan!EndOf(new, K) = c[Len(c)]
  /\ \A k \in 1..L : BatchOK(new, k) <=> BatchOK(full, k)

LEMMA BatchesStay ==
  ASSUME NEW full \in Seq(Seq(Nat)), NEW c \in Seq(Nat)
  PROVE  Longer(full, c, Append(full, c), Len(full), Len(full) + 1)
<1> DEFINE L == Len(full)
           new == Append(full, c)
<1>1. L \in Nat /\ DOMAIN full = 1..L
  OBVIOUS
<1>2. /\ DOMAIN new = 1..L + 1 /\ Len(new) = L + 1 /\ new \in Seq(Seq(Nat)) /\ new[L + 1] = c
      /\ \A k \in 1..L : new[k] = full[k]
  BY <1>1
<1> HIDE DEF L, new
<1>3. \A k \in 0..L : k = 0 \/ k \in 1..L
  BY <1>1
<1>4. \A k \in 0..L : Plan!EndOf(new, k) = Plan!EndOf(full, k)
  BY <1>2, <1>3 DEF Plan!EndOf
<1>5. \A k \in 1..L : k - 1 \in 0..L /\ (k > 1 => k - 1 \in 1..L)
  BY <1>1
<1>6. \A k \in 1..L : BatchOK(new, k) <=> BatchOK(full, k)
  BY <1>2, <1>4, <1>5 DEF BatchOK
<1>7. L \in 0..L /\ L + 1 # 0
  BY <1>1
<1>8. Plan!EndOf(new, L + 1) = c[Len(c)]
  BY <1>2, <1>7 DEF Plan!EndOf
<1>9. QED
  BY <1>1, <1>2, <1>4, <1>6, <1>7, <1>8 DEF L, new, Longer

(* A batch ends at the number of an article, one before the next begins.              *)
LEMMA EndIsNumber ==
  ASSUME NEW plan \in Seq(Seq(Nat)), \A k \in DOMAIN plan : plan[k] # <<>>, NEW k \in 0..Len(plan)
  PROVE  Plan!EndOf(plan, k) \in Nat
<1>1. CASE k = 0
  BY <1>1 DEF Plan!EndOf
<1>2. CASE k # 0
  <2>1. k \in DOMAIN plan /\ plan[k] \in Seq(Nat) /\ plan[k] # <<>>
    BY <1>2
  <2> DEFINE b == plan[k]
  <2>2. Len(b) \in 1..Len(b) /\ DOMAIN b = 1..Len(b) /\ b \in [1..Len(b) -> Nat]
    <3> HIDE DEF b
    <3>1. b \in Seq(Nat) /\ b # <<>>
      BY <2>1 DEF b
    <3>2. Len(b) \in Nat /\ DOMAIN b = 1..Len(b) /\ b \in [1..Len(b) -> Nat]
      BY <3>1, LenProperties
    <3>3. Len(b) # 0
      BY <3>1
    <3>4. QED
      BY <3>2, <3>3
  <2>3. b[Len(b)] \in Nat
    BY <2>2
  <2>4. QED
    BY <1>2, <2>3 DEF Plan!EndOf
<1>3. QED
  BY <1>1, <1>2

LEMMA PutFirst ==
  ASSUME TokensOK, 1 <= Len(articles)
  PROVE  PackOK(Plan!Put(Plan!Nothing, 1), 1)
<1> DEFINE acc == Plan!Put(Plan!Nothing, 1)
           plan == Append(<<>>, <<1>>)
<1>1. 1 \in 1..Len(articles) /\ Plan!Tokens(1) \in Nat
  BY DEF TokensOK
<1>2. acc.full = <<>> /\ acc.open = <<1>> /\ acc.sum = Plan!Tokens(1)
  BY <1>1 DEF Plan!Put, Plan!Nothing, Plan!Added
<1>3. plan \in Seq(Seq(Nat)) /\ Len(plan) = 1 /\ DOMAIN plan = {1} /\ plan[1] = <<1>>
  OBVIOUS
<1>4. <<1>> # <<>> /\ Len(<<1>>) = 1 /\ <<1>>[1] = 1 /\ DOMAIN <<1>> = {1}
  OBVIOUS
<1> HIDE DEF acc, plan
<1>5. Plan!Sum(<<1>>) = Plan!Tokens(1)
  <2>1. Plan!Sum(<<1>>) = Plan!Upto[1] - Plan!Upto[0]
    BY <1>4 DEF Plan!Sum
  <2>2. Plan!Upto[1] = Plan!Upto[0] + Plan!Tokens(1) /\ Plan!Upto[0] = 0
    BY <1>1, UptoIs
  <2>3. QED
    BY <1>1, <2>1, <2>2
<1>6. Plan!EndOf(plan, 1) = 1 /\ Plan!EndOf(plan, 0) = 0
  BY <1>3, <1>4 DEF Plan!EndOf
<1>7. BatchOK(plan, 1)
  BY <1>3, <1>4, <1>6 DEF BatchOK
<1>8. Filled(plan, 1)
  BY <1>3, <1>6, <1>7 DEF Filled
<1>9. QED
  BY <1>2, <1>4, <1>5, <1>8 DEF PackOK, acc, plan

LEMMA PutStarts ==
  ASSUME TokensOK, NEW acc \in Accs, NEW i \in Nat, i + 1 \in 1..Len(articles), PackOK(acc, i),
         acc.sum + Plan!Tokens(i + 1) > Plan!Target
  PROVE  PackOK(Plan!Started(acc, i + 1), i + 1)
<1> DEFINE old == Append(acc.full, acc.open)
           one == <<i + 1>>
           new == Append(old, one)
           L == Len(old)
           K == L + 1
<1>1. /\ Plan!Started(acc, i + 1).full = old /\ Plan!Started(acc, i + 1).open = one
      /\ Plan!Started(acc, i + 1).sum = Plan!Tokens(i + 1)
  BY PutType
<1>2. old \in Seq(Seq(Nat)) /\ acc.full \in Seq(Seq(Nat)) /\ acc.open \in Seq(Nat)
  BY DEF Accs
<1>3. old[L] = acc.open /\ L \in Nat /\ L >= 1 /\ DOMAIN old = 1..L
  BY <1>2
<1>4. /\ Plan!EndOf(old, L) = i /\ \A k \in 1..L : BatchOK(old, k)
      /\ acc.sum = Plan!Sum(acc.open)
  BY <1>2 DEF PackOK, Filled
<1>5. one \in Seq(Nat) /\ one # <<>> /\ Len(one) = 1 /\ one[1] = i + 1 /\ DOMAIN one = {1}
  OBVIOUS
<1>6. Plan!Sum(one) = Plan!Tokens(i + 1)
  <2>1. Plan!Sum(one) = Plan!Upto[i + 1] - Plan!Upto[i + 1 - 1]
    BY <1>5 DEF Plan!Sum
  <2>2. Plan!Upto[i + 1] = Plan!Upto[i + 1 - 1] + Plan!Tokens(i + 1)
    BY UptoIs
  <2>3. Plan!Upto[i + 1 - 1] \in Nat /\ Plan!Tokens(i + 1) \in Nat
    <3>1. i + 1 - 1 \in 0..Len(articles)
      BY DEF TokensOK
    <3>2. QED
      BY <3>1, UptoIs DEF TokensOK
  <2>4. QED
    BY <2>1, <2>2, <2>3
<1>n. new = Append(old, one)
  OBVIOUS
<1>k. K = L + 1
  OBVIOUS
<1>l. Longer(old, one, new, L, K)
  BY <1>2, <1>5, BatchesStay
<1> HIDE DEF old, one, new, K, L
<1>7. /\ DOMAIN new = 1..K /\ Len(new) = K /\ new \in Seq(Seq(Nat)) /\ new[K] = one
      /\ \A k \in 1..L : new[k] = old[k]
      /\ Plan!EndOf(new, L) = Plan!EndOf(old, L) /\ Plan!EndOf(new, K) = one[Len(one)]
      /\ \A k \in 1..L : BatchOK(new, k) <=> BatchOK(old, k)
  BY <1>l DEF Longer
<1>8. L \in 1..L /\ K - 1 = L /\ \A k \in 1..K : k = K \/ k \in 1..L
  BY <1>3, <1>k
<1>9. BatchOK(new, K)
  <2>1. \A j \in DOMAIN one : one[j] = Plan!EndOf(new, L) + j
    BY <1>4, <1>5, <1>7
  <2>2. Plan!Sum(new[L]) + Plan!Tokens(one[1]) > Plan!Target
    BY <1>3, <1>4, <1>5, <1>7, <1>8
  <2>3. QED
    BY <1>5, <1>7, <1>8, <2>1, <2>2 DEF BatchOK
<1>10. Filled(new, i + 1)
  BY <1>4, <1>5, <1>7, <1>8, <1>9 DEF Filled
<1>11. QED
  BY <1>1, <1>5, <1>6, <1>n, <1>10 DEF PackOK

LEMMA PutAdds ==
  ASSUME TokensOK, NEW acc \in Accs, NEW i \in Nat, i + 1 \in 1..Len(articles), PackOK(acc, i),
         ~(acc.sum + Plan!Tokens(i + 1) > Plan!Target)
  PROVE  PackOK(Plan!Added(acc, i + 1), i + 1)
<1> DEFINE full == acc.full
           open == acc.open
           more == Append(open, i + 1)
           old == Append(full, open)
           new == Append(full, more)
           L == Len(full)
           K == L + 1
           begin == Plan!EndOf(full, L)
           count == Len(open)
<1>1. /\ Plan!Added(acc, i + 1).full = full /\ Plan!Added(acc, i + 1).open = more
      /\ Plan!Added(acc, i + 1).sum = acc.sum + Plan!Tokens(i + 1)
  BY PutType
<1>2. full \in Seq(Seq(Nat)) /\ open \in Seq(Nat) /\ acc.sum \in Nat
  BY DEF Accs
<1>3. acc.sum = Plan!Sum(open) /\ open # <<>> /\ Filled(old, i)
  BY DEF PackOK
<1>n. new = Append(full, more) /\ old = Append(full, open) /\ more = Append(open, i + 1)
  OBVIOUS
<1> HIDE DEF old, new, more
<1>4. count \in Nat /\ count >= 1 /\ DOMAIN open = 1..count
  <2>1. count \in Nat /\ DOMAIN open = 1..count
    BY <1>2
  <2>2. count # 0
    BY <1>2, <1>3
  <2>3. QED
    BY <2>1, <2>2
<1>5. /\ more \in Seq(Nat) /\ Len(more) = count + 1 /\ more[count + 1] = i + 1
      /\ \A j \in 1..count : more[j] = open[j]
      /\ DOMAIN more = 1..count + 1
  BY <1>2, <1>n
<1>m. more # <<>>
  <2>1. Len(more) # 0
    BY <1>4, <1>5
  <2>2. QED
    BY <2>1
<1>o. Longer(full, open, old, L, K) /\ Longer(full, more, new, L, K)
  BY <1>2, <1>5, <1>n, BatchesStay
<1> HIDE DEF full, open, L, K
<1>6. /\ L \in Nat /\ K = L + 1 /\ DOMAIN full = 1..L /\ L = Len(full)
      /\ DOMAIN old = 1..K /\ Len(old) = K /\ old[K] = open
      /\ \A k \in 1..L : old[k] = full[k]
      /\ Plan!EndOf(old, L) = begin /\ Plan!EndOf(old, K) = open[count]
      /\ \A k \in 1..L : BatchOK(old, k) <=> BatchOK(full, k)
  BY <1>o DEF Longer
<1>7. /\ DOMAIN new = 1..K /\ Len(new) = K /\ new[K] = more /\ new \in Seq(Seq(Nat))
      /\ \A k \in 1..L : new[k] = full[k]
      /\ Plan!EndOf(new, L) = begin /\ Plan!EndOf(new, K) = more[Len(more)]
      /\ \A k \in 1..L : BatchOK(new, k) <=> BatchOK(full, k)
  BY <1>o DEF Longer
<1>8. K - 1 = L /\ K \in 1..K /\ \A k \in 1..K : k = K \/ k \in 1..L
  BY <1>6
<1>9. \A k \in 1..L : k \in 1..K
  BY <1>6
<1>f. DOMAIN full = 1..L /\ L \in 0..Len(full)
  BY <1>6
<1>10. Plan!EndOf(old, K) = i /\ \A k \in 1..K : BatchOK(old, k)
  BY <1>3, <1>6 DEF Filled
<1>11. begin \in Nat
  <2>1. \A k \in DOMAIN full : BatchOK(full, k)
    BY <1>6, <1>9, <1>10, <1>f
  <2>2. \A k \in DOMAIN full : full[k] # <<>>
    BY <2>1 DEF BatchOK
  <2>3. QED
    BY <1>2, <1>f, <2>2, EndIsNumber
<1>c. Len(open) = count
  OBVIOUS
<1> HIDE DEF begin, count
<1>12. \A j \in 1..count : open[j] = begin + j
  <2>1. BatchOK(old, K)
    BY <1>8, <1>10
  <2>2. \A j \in DOMAIN old[K] : old[K][j] = Plan!EndOf(old, K - 1) + j
    BY <2>1 DEF BatchOK
  <2>3. old[K] = open /\ DOMAIN open = 1..count /\ Plan!EndOf(old, K - 1) = begin
    BY <1>4, <1>6, <1>8
  <2>4. QED
    BY <2>2, <2>3
<1>13. count \in 1..count /\ 1 \in 1..count
  BY <1>4
<1>14. i = begin + count /\ open[count] = i /\ open[1] = begin + 1 /\ more[1] = begin + 1
  BY <1>5, <1>6, <1>10, <1>12, <1>13
<1>15. Plan!Sum(more) = acc.sum + Plan!Tokens(i + 1)
  <2> DEFINE first == open[1] - 1
  <2>1. Plan!Sum(open) = Plan!Upto[i] - Plan!Upto[first]
    BY <1>c, <1>14 DEF Plan!Sum
  <2>2. Plan!Sum(more) = Plan!Upto[i + 1] - Plan!Upto[first]
    <3>1. more[Len(more)] = i + 1 /\ more[1] = open[1]
      BY <1>5, <1>14
    <3>2. QED
      BY <3>1 DEF Plan!Sum
  <2>3. first \in 0..Len(articles) /\ i \in 0..Len(articles) /\ i + 1 - 1 = i
    BY <1>4, <1>11, <1>14 DEF TokensOK
  <2> HIDE DEF first
  <2>4. Plan!Upto[first] \in Nat /\ Plan!Upto[i] \in Nat
    BY <2>3, UptoIs
  <2>5. Plan!Upto[i + 1] = Plan!Upto[i + 1 - 1] + Plan!Tokens(i + 1)
    BY UptoIs
  <2>7. Plan!Tokens(i + 1) \in Nat
    BY DEF TokensOK
  <2>6. QED
    BY <1>3, <2>1, <2>2, <2>3, <2>4, <2>5, <2>7
<1>16. BatchOK(new, K)
  <2>1. \A j \in 1..count + 1 : more[j] = begin + j
    <3>1. \A j \in 1..count + 1 : j = count + 1 \/ j \in 1..count
      BY <1>4
    <3>2. i + 1 = begin + (count + 1)
      BY <1>4, <1>11, <1>14
    <3>3. QED
      BY <1>5, <1>12, <3>1, <3>2
  <2>2. ~(Plan!Sum(more) > Plan!Target)
    BY <1>15
  <2>3. ASSUME K > 1
        PROVE  Plan!Sum(new[L]) + Plan!Tokens(more[1]) > Plan!Target
    <3>1. L \in 1..L
      BY <1>6, <1>8, <2>3
    <3>2. new[L] = old[L]
      BY <1>6, <1>7, <3>1
    <3>3. Plan!Sum(old[L]) + Plan!Tokens(open[1]) > Plan!Target
      BY <1>6, <1>8, <1>10, <2>3 DEF BatchOK
    <3>4. QED
      BY <1>14, <3>2, <3>3
  <2>4. QED
    BY <1>5, <1>7, <1>8, <1>m, <2>1, <2>2, <2>3 DEF BatchOK
<1>17. \A k \in 1..L : BatchOK(new, k)
  BY <1>6, <1>7, <1>9, <1>10
<1>18. Filled(new, i + 1)
  BY <1>5, <1>7, <1>8, <1>16, <1>17 DEF Filled
<1>19. QED
  BY <1>1, <1>15, <1>18, <1>m, <1>n DEF PackOK

LEMMA PackingOK ==
  ASSUME TokensOK
  PROVE  \A i \in 1..Len(articles) : Plan!Packing[i] \in Accs /\ PackOK(Plan!Packing[i], i)
<1> DEFINE n == Len(articles)
           P == Plan!Packing
           Good == {i \in Nat : i <= n => P[i] \in Accs /\ (i = 0 \/ PackOK(P[i], i))}
<1>1. n \in Nat /\ \A i \in 1..n : Plan!Tokens(i) \in Nat
  BY DEF TokensOK
<1>2. P[0] = Plan!Nothing /\ \A i \in 1..n : P[i] = Plan!Put(P[i - 1], i)
  BY PackingIs
<1>3. Plan!Nothing \in Accs
  <2>1. <<>> \in Seq(Nat) /\ <<>> \in Seq(Seq(Nat))
    OBVIOUS
  <2>2. QED
    BY <2>1 DEF Plan!Nothing, Accs
<1> HIDE DEF P
<1>4. 0 \in Good
  BY <1>2, <1>3
<1>5. ASSUME NEW m \in Nat, m < n, m \in Good
      PROVE  m + 1 \in Good
  <2>1. m + 1 \in 1..n /\ m + 1 - 1 = m /\ m <= n /\ m + 1 \in Nat /\ m + 1 # 0
    BY <1>1, <1>5
  <2>2. P[m] \in Accs /\ (m = 0 \/ PackOK(P[m], m))
    BY <1>5, <2>1
  <2>3. P[m + 1] = Plan!Put(P[m], m + 1)
    BY <1>2, <2>1
  <2>4. P[m + 1] \in Accs
    BY <2>1, <2>2, <2>3, PutType
  <2>5. PackOK(P[m + 1], m + 1)
    <3>1. CASE m = 0
      <4>1. 1 <= n /\ m + 1 = 1 /\ P[m] = Plan!Nothing
        BY <1>1, <1>2, <1>5, <3>1
      <4>2. QED
        BY <2>3, <4>1, PutFirst
    <3>2. CASE m # 0
      <4>1. PackOK(P[m], m) /\ P[m].open # <<>>
        BY <2>2, <3>2 DEF PackOK
      <4>2. CASE P[m].sum + Plan!Tokens(m + 1) > Plan!Target
        <5>1. P[m + 1] = Plan!Started(P[m], m + 1)
          BY <2>3, <4>1, <4>2 DEF Plan!Put
        <5>2. QED
          BY <2>1, <2>2, <4>1, <4>2, <5>1, PutStarts
      <4>3. CASE ~(P[m].sum + Plan!Tokens(m + 1) > Plan!Target)
        <5>1. P[m + 1] = Plan!Added(P[m], m + 1)
          BY <2>3, <4>1, <4>3 DEF Plan!Put
        <5>2. QED
          BY <2>1, <2>2, <4>1, <4>3, <5>1, PutAdds
      <4>4. QED
        BY <4>2, <4>3
    <3>3. QED
      BY <3>1, <3>2
  <2>6. QED
    BY <2>1, <2>4, <2>5
<1>6. Good \in SUBSET Nat
  OBVIOUS
<1> HIDE DEF Good
<1>7. 0..n \subseteq Good
  BY <1>1, <1>4, <1>5, <1>6, AllTheWay
<1>8. \A i \in 1..n : i \in 0..n /\ i <= n /\ i # 0
  BY <1>1
<1>9. \A i \in 1..n : P[i] \in Accs /\ PackOK(P[i], i)
  BY <1>7, <1>8 DEF Good
<1>10. QED
  BY <1>9 DEF P

(* What is planned of articles that have tokens is as the property wants it.          *)
LEMMA PackedOK ==
  ASSUME TokensOK, 1 <= Len(articles)
  PROVE  Filled(Plan!Packed, Len(articles))
<1> DEFINE n == Len(articles)
           end == Plan!Packing[n]
<1>1. n \in 1..n
  BY DEF TokensOK
<1>2. PackOK(end, n)
  BY <1>1, PackingOK
<1>3. end.open # <<>> /\ Filled(Append(end.full, end.open), n)
  BY <1>2 DEF PackOK
<1>4. Plan!Packed = Append(end.full, end.open)
  BY <1>3 DEF Plan!Packed
<1>5. QED
  BY <1>3, <1>4

(* The sums are the articles' alone.                                             *)
LEMMA SameSums ==
  ASSUME articles' = articles
  PROVE  /\ \A b : Plan!Sum(b)' = Plan!Sum(b)
         /\ \A i : Plan!Tokens(i)' = Plan!Tokens(i)
<1>1. Plan!Upto' = Plan!Upto
  BY DEF Plan!Upto, Plan!Tokens
<1>2. QED
  BY <1>1 DEF Plan!Sum, Plan!Tokens
-----------------------------------------------------------------------------
LEMMA PlanInit == Plan!Init => PlanInv
BY DEF Plan!Init, PlanInv, QueryOK, Covered, Plan!NothingMissed

LEMMA PlanGenerate ==
  ASSUME Plan!PlanningAssumption, PlanInv, Plan!Generate
  PROVE  PlanInv'
<1>1. stage' = "query" /\ mode' = mode
  BY DEF Plan!Generate
<1>2. PICK start \in 0..LastDay \cup {None}, end \in 0..LastDay \cup {None} :
        query'.range = IF start = None \/ end = None THEN None ELSE <<start, end>>
  BY DEF Plan!Generate
<1>3. query'.range = None \/ query'.range \in Nat \X Nat
  BY <1>2 DEF Plan!PlanningAssumption
<1>4. QED
  BY <1>1, <1>3 DEF PlanInv, QueryOK, Covered, Plan!Filed, Plan!NothingMissed

(* Whatever keeps a document that is sought, one of the indices covers it.         *)
LEMMA PlanResolve ==
  ASSUME Plan!PlanningAssumption, Plan!ClusterAssumption, PlanInv, Plan!ResolveIndices
  PROVE  PlanInv'
<1>1. /\ stage = "query" /\ stage' = "indices"
      /\ indices' = (IF mode = "daywise" THEN Plan!DaywisePatterns(query.range)
                     ELSE Plan!MonthwisePatterns(query.range, query.media))
                    \cup UNION {Plan!Standalone(m) : m \in query.media}
      /\ UNCHANGED <<mode, query>>
  BY DEF Plan!ResolveIndices
<1>2. query.range = None \/ query.range \in Nat \X Nat
  BY <1>1 DEF PlanInv, QueryOK
<1>3. ASSUME NEW doc \in Cluster, Sought(doc)
      PROVE  \E i \in indices' : Plan!Covers(i, Plan!Home(doc))
  <2>1. doc.day \in Nat /\ doc.day # None /\ doc.medium \in query.media
    BY <1>3 DEF Plan!ClusterAssumption, Plan!PlanningAssumption, Sought
  <2>2. CASE doc.home = "standalone"
    <3>1. Plan!Home(doc) \in Plan!Standalone(doc.medium)
      BY <2>2 DEF Plan!ClusterAssumption, Plan!Home, Plan!Standalone, Plan!Whole
    <3>2. Plan!Covers(Plan!Home(doc), Plan!Home(doc))
      BY DEF Plan!Covers
    <3>3. QED
      BY <1>1, <2>1, <3>1, <3>2
  <2>3. CASE doc.home # "standalone"
    <3> DEFINE base == IF mode = "daywise" \/ doc.medium \notin {Online} \cup Blogish THEN "data"
                       ELSE IF doc.medium = Online THEN "webz" ELSE "twingly"
               month == Plan!Month(doc.day)
    <3>1. Plan!Home(doc) = Plan!Pattern(base, month, doc.day)
      BY <2>3 DEF Plan!Home
    <3>2. CASE query.range = None
      <4>0. mode = "daywise" /\ base = "data"
        BY <1>1, <1>3, <2>3, <3>2 DEF Sought, Plan!Unnamed, PlanInv
      <4>1. Plan!Whole("data") \in indices'
        BY <1>1, <3>2, <4>0 DEF Plan!DaywisePatterns
      <4>2. Plan!Covers(Plan!Whole("data"), Plan!Pattern(base, month, doc.day))
        BY <2>1, <4>0 DEF Plan!Covers, Plan!Whole, Plan!Pattern
      <4>3. QED
        BY <3>1, <4>1, <4>2
    <3>3. CASE query.range # None
      <4>1. PICK a \in Nat, b \in Nat : query.range = <<a, b>>
        BY <1>2, <3>3
      <4>2. a <= doc.day /\ doc.day <= b /\ ~(month >= Plan!Month(a) + MonthCap)
        BY <1>3, <3>3, <4>1 DEF Sought, Plan!Matches
      <4>3. /\ Plan!Month(a) \in Nat /\ Plan!Month(b) \in Nat /\ month \in Nat
            /\ Plan!Month(a) <= month /\ month <= Plan!Month(b)
        BY <2>1, <4>1, <4>2, MonthMonotonic DEF Plan!PlanningAssumption
      <4>4. month \in Plan!MonthsOf(query.range)
        <5>1. month \in Plan!Firsts(Plan!Month(a), Plan!Month(b), MonthCap)
          BY <4>2, <4>3, FirstsReach DEF Plan!PlanningAssumption
        <5>2. QED
          BY <4>1, <5>1 DEF Plan!MonthsOf
      <4>5. CASE mode = "daywise"
        <5>1. base = "data"
          BY <4>5
        <5>2. CASE b - a > LongWindow
          <6>1. Plan!Pattern("data", month, None) \in indices'
            BY <1>1, <3>3, <4>1, <4>4, <4>5, <5>2 DEF Plan!DaywisePatterns
          <6>2. Plan!Covers(Plan!Pattern("data", month, None), Plan!Pattern(base, month, doc.day))
            BY <5>1 DEF Plan!Covers, Plan!Pattern
          <6>3. QED
            BY <3>1, <6>1, <6>2
        <5>3. CASE ~(b - a > LongWindow)
          <6>1. doc.day \in Plan!Firsts(a, b, DayCap)
            BY <2>1, <4>1, <4>2, <5>3, FirstsReach DEF Plan!PlanningAssumption
          <6>2. Plan!Pattern("data", month, doc.day) \in indices'
            BY <1>1, <3>3, <4>1, <4>5, <5>3, <6>1 DEF Plan!DaywisePatterns
          <6>3. Plan!Covers(Plan!Pattern("data", month, doc.day), Plan!Pattern(base, month, doc.day))
            BY <5>1 DEF Plan!Covers, Plan!Pattern
          <6>4. QED
            BY <3>1, <6>2, <6>3
        <5>4. QED
          BY <5>2, <5>3
      <4>6. CASE mode # "daywise"
        <5>1. /\ doc.medium \in {Online} \cup Blogish
              /\ base = IF doc.medium = Online THEN "webz" ELSE "twingly"
          <6>1. mode = "monthwise"
            BY <4>6 DEF PlanInv
          <6>2. QED
            BY <2>3, <4>6, <6>1 DEF PlanInv, Plan!Filed
        <5>2. Plan!Pattern(base, month, None) \in indices'
          <6>1. Plan!Pattern(base, month, None) \in Plan!MonthwisePatterns(query.range, query.media)
            BY <2>1, <3>3, <4>4, <5>1 DEF Plan!MonthwisePatterns
          <6>2. QED
            BY <1>1, <4>6, <6>1
        <5>3. Plan!Covers(Plan!Pattern(base, month, None), Plan!Pattern(base, month, doc.day))
          BY DEF Plan!Covers, Plan!Pattern
        <5>4. QED
          BY <3>1, <5>2, <5>3
      <4>7. QED
        BY <4>5, <4>6
    <3>4. QED
      BY <3>2, <3>3
  <2>4. QED
    BY <2>2, <2>3
<1>4. \A doc : Plan!Home(doc)' = Plan!Home(doc) /\ (Sought(doc)' => Sought(doc))
  BY <1>1 DEF Plan!Home, Sought, Plan!Matches, Plan!Unnamed
<1>5. Covered'
  BY <1>3, <1>4 DEF Covered, Plan!Covers
<1>6. QED
  BY <1>1, <1>2, <1>5 DEF PlanInv, QueryOK, Plan!Filed, Plan!NothingMissed

LEMMA PlanFetch ==
  ASSUME Plan!ClusterAssumption, PlanInv, Plan!Fetch
  PROVE  PlanInv'
<1> DEFINE Found == {doc \in Cluster : /\ Plan!Matches(doc, query)
                                       /\ \E i \in indices : Plan!Covers(i, Plan!Home(doc))}
<1>1. stage = "indices" /\ stage' = "found" /\ UNCHANGED <<mode, query, indices>>
  BY DEF Plan!Fetch
<1>2. articles' \in Plan!SetToSeqs(Found)
  BY DEF Plan!Fetch
<1>3. IsFiniteSet(Found)
  <2>1. Found \in SUBSET Cluster /\ IsFiniteSet(Cluster)
    BY SameCardinality DEF Plan!ClusterAssumption
  <2>2. QED
    BY <2>1, FS_Subset
<1> HIDE DEF Found
<1>4. Plan!Range(articles') = Found
  <2>1. Plan!Cardinality(Found) = Cardinality(Found)
    BY SameCardinality
  <2>2. articles' \in SetToSeqs(Found)
    BY <1>2, <2>1 DEF SetToSeqs, Plan!SetToSeqs
  <2>3. QED
    BY <1>3, <2>2, AllCome
<1>5. \A doc \in Cluster : Sought(doc) => doc \in Found
  BY <1>1 DEF PlanInv, Covered, Sought, Found
<1>6. QueryOK' /\ Plan!Filed'
  BY <1>1 DEF PlanInv, QueryOK, Plan!Filed
<1>7. Covered'
  BY <1>1 DEF PlanInv, Covered, Sought, Plan!Matches, Plan!Home, Plan!Covers, Plan!Unnamed
<1>8. Plan!NothingMissed'
  BY <1>1, <1>4, <1>5 DEF Plan!NothingMissed, Plan!Range, Sought, Plan!Matches, Plan!Unnamed
<1>9. QED
  BY <1>1, <1>6, <1>7, <1>8 DEF PlanInv

LEMMA PlanElsewhere ==
  ASSUME PlanInv, UNCHANGED <<mode, query, indices, articles>>,
         stage' = stage \/ (stage = "found" /\ stage' \in {"planned", "refused"})
  PROVE  PlanInv'
BY DEF PlanInv, QueryOK, Covered, Sought, Plan!Filed, Plan!NothingMissed, Plan!Matches, Plan!Home,
       Plan!Covers, Plan!Range, Plan!Unnamed

LEMMA PlanNext ==
  ASSUME Plan!PlanningAssumption, Plan!ClusterAssumption, PlanInv, [Plan!Next]_(Plan!vars)
  PROVE  PlanInv'
<1>1. CASE Plan!Generate \/ Plan!ResolveIndices \/ Plan!Fetch
  BY <1>1, PlanGenerate, PlanResolve, PlanFetch
<1>2. CASE Plan!PlanBatches
  BY <1>2, PlanElsewhere DEF Plan!PlanBatches
<1>3. CASE UNCHANGED Plan!vars
  BY <1>3, PlanElsewhere DEF Plan!vars
<1>4. QED
  BY <1>1, <1>2, <1>3 DEF Plan!Next

(* resolveIndices() leaves no document out that the query matches, whatever index      *)
(* keeps it, for windows and caps of any length: the switch to months comes before      *)
(* the days' cap is reached, and with dates only the months' cap may cost anything.     *)
(* Without dates and by months, what is kept by month is not searched at all.          *)
THEOREM SearchMissesNothing == TopicSpec => []NothingMissed
<1>1. PlanInv => NothingMissed
  BY DEF PlanInv, NothingMissed
<1>2. PlanInv /\ [TopicNext]_<<topic, vars, planVars>> => PlanInv'
  <2>1. PlanInv /\ UNCHANGED planVars => PlanInv'
    BY PlanElsewhere DEF planVars
  <2>2. QED
    BY <2>1, PlanNext, PlanAssumption DEF TopicNext
<1>3. TopicInit => PlanInv
  BY PlanInit DEF TopicInit
<1>4. QED
  BY <1>1, <1>2, <1>3, PTL DEF TopicSpec
-----------------------------------------------------------------------------
(* Batches are planned of documents of the cluster, and kept.                        *)
PackInv ==
  /\ stage \in {"found", "planned", "refused"} => articles \in Seq(Cluster)
  /\ Plan!BatchesHold

LEMMA PackFetch ==
  ASSUME Plan!ClusterAssumption, Plan!Fetch
  PROVE  PackInv'
<1> DEFINE Found == {doc \in Cluster : /\ Plan!Matches(doc, query)
                                       /\ \E i \in indices : Plan!Covers(i, Plan!Home(doc))}
<1>1. stage' = "found" /\ articles' \in Plan!SetToSeqs(Found)
  BY DEF Plan!Fetch
<1>2. Found \in SUBSET Cluster /\ IsFiniteSet(Cluster)
  BY SameCardinality DEF Plan!ClusterAssumption
<1> HIDE DEF Found
<1>3. Cardinality(Found) \in Nat
  BY <1>2, FS_Subset, FS_CardinalityType
<1>4. articles' \in [1..Cardinality(Found) -> Found]
  BY <1>1, SameCardinality DEF Plan!SetToSeqs
<1>5. articles' \in Seq(Cluster)
  <2> DEFINE c == Cardinality(Found)
  <2>1. articles' \in [1..c -> Cluster] /\ c \in Nat
    BY <1>2, <1>3, <1>4
  <2> HIDE DEF c
  <2>2. QED
    BY <2>1
<1>6. QED
  BY <1>1, <1>5 DEF PackInv, Plan!BatchesHold

LEMMA PackPlan ==
  ASSUME Plan!ClusterAssumption, PackInv, Plan!PlanBatches
  PROVE  PackInv'
<1>1. /\ stage = "found" /\ articles' = articles /\ articles \in Seq(Cluster)
      /\ \/ stage' = "refused"
         \/ stage' = "planned" /\ batches' = Plan!Packed /\ articles # <<>>
  BY DEF Plan!PlanBatches, PackInv
<1>2. CASE stage' = "refused"
  BY <1>1, <1>2 DEF PackInv, Plan!BatchesHold
<1>3. CASE stage' = "planned" /\ batches' = Plan!Packed /\ articles # <<>>
  <2>1. Len(articles) \in Nat /\ 1 <= Len(articles)
    BY <1>1, <1>3
  <2>2. TokensOK
    BY <1>1, <2>1 DEF TokensOK, Plan!Tokens, Plan!ClusterAssumption
  <2>3. Filled(batches', Len(articles))
    BY <1>3, <2>1, <2>2, PackedOK
  <2>4. Plan!BatchesHold'
    <3>1. Plan!EndOf(batches', Len(batches')) = Len(articles')
      BY <1>1, <2>3 DEF Filled
    <3>2. ASSUME NEW k \in DOMAIN batches'
          PROVE  /\ batches'[k] # <<>>
                 /\ \A j \in DOMAIN batches'[k] : batches'[k][j] = Plan!EndOf(batches', k - 1) + j
                 /\ Plan!Sum(batches[k])' > Plan!Target => Len(batches'[k]) = 1
                 /\ k > 1 => Plan!Sum(batches[k - 1])' + Plan!Tokens(batches[k][1])' > Plan!Target
      <4>1. BatchOK(batches', k)
        BY <2>3 DEF Filled
      <4>2. /\ Plan!Sum(batches[k])' = Plan!Sum(batches'[k])
            /\ Plan!Sum(batches[k - 1])' = Plan!Sum(batches'[k - 1])
            /\ Plan!Tokens(batches[k][1])' = Plan!Tokens(batches'[k][1])
        BY <1>1, SameSums DEF Plan!Sum, Plan!Tokens
      <4>3. QED
        BY <4>1, <4>2 DEF BatchOK
    <3>3. QED
      BY <3>1, <3>2 DEF Plan!BatchesHold, Plan!EndOf, Plan!Target
  <2>5. QED
    BY <1>1, <2>4 DEF PackInv
<1>4. QED
  BY <1>1, <1>2, <1>3

LEMMA PackElsewhere ==
  ASSUME PackInv, UNCHANGED <<stage, articles, batches>>
  PROVE  PackInv'
<1>1. Plan!BatchesHold'
  BY SameSums DEF PackInv, Plan!BatchesHold, Plan!EndOf, Plan!Target
<1>2. QED
  BY <1>1 DEF PackInv

LEMMA PackNext ==
  ASSUME Plan!ClusterAssumption, PackInv, [Plan!Next]_(Plan!vars)
  PROVE  PackInv'
<1>1. CASE Plan!Generate \/ Plan!ResolveIndices
  BY <1>1 DEF PackInv, Plan!BatchesHold, Plan!Generate, Plan!ResolveIndices
<1>2. CASE Plan!Fetch
  BY <1>2, PackFetch
<1>3. CASE Plan!PlanBatches
  BY <1>3, PackPlan
<1>4. CASE UNCHANGED Plan!vars
  BY <1>4, PackElsewhere DEF Plan!vars
<1>5. QED
  BY <1>1, <1>2, <1>3, <1>4 DEF Plan!Next

(* createBatches() packs every article once and in order, keeps each batch to the      *)
(* target unless it is of one article beyond it, and starts none before the next         *)
(* article would not have fit: for any articles, tokens, window and limit.              *)
THEOREM BatchesAreTight == TopicSpec => []BatchesHold
<1>1. PackInv => BatchesHold
  BY DEF PackInv, BatchesHold
<1>2. PackInv /\ [TopicNext]_<<topic, vars, planVars>> => PackInv'
  <2>1. PackInv /\ UNCHANGED planVars => PackInv'
    BY PackElsewhere DEF planVars
  <2>2. QED
    BY <2>1, PackNext, PlanAssumption DEF TopicNext
<1>3. TopicInit => PackInv
  BY DEF TopicInit, Plan!Init, PackInv, Plan!BatchesHold
<1>4. QED
  BY <1>1, <1>2, <1>3, PTL DEF TopicSpec
-----------------------------------------------------------------------------
(* What is asked for.  A finite set of numbers has a greatest one.                   *)
LEMMA Greatest ==
  ASSUME NEW S \in SUBSET Nat, IsFiniteSet(S), S # {}
  PROVE  Max(S) \in S /\ Min(S) \in S /\ \A l \in S : Max(S) >= l
<1> DEFINE Good == {n \in Nat : \A T \in SUBSET S : Cardinality(T) = n =>
                                  T = {} \/ \E m \in T : \A l \in T : m >= l}
<1>1. Cardinality(S) \in Nat
  BY FS_CardinalityType
<1>2. 0 \in Good
  <2>1. \A T \in SUBSET S : Cardinality(T) = 0 => T = {}
    BY FS_Subset, FS_EmptySet
  <2>2. QED
    BY <2>1
<1>3. ASSUME NEW n \in Nat, n \in Good
      PROVE  n + 1 \in Good
  <2> SUFFICES ASSUME NEW T \in SUBSET S, Cardinality(T) = n + 1, T # {}
               PROVE  \E m \in T : \A l \in T : m >= l
    OBVIOUS
  <2>1. PICK x \in T : TRUE
    OBVIOUS
  <2>2. T \ {x} \in SUBSET S /\ Cardinality(T \ {x}) = n
    <3>1. IsFiniteSet(T)
      BY FS_Subset
    <3>2. Cardinality(T \ {x}) = Cardinality(T) - 1
      BY <2>1, <3>1, FS_RemoveElement
    <3>3. QED
      BY <3>2
  <2>3. T \ {x} = {} \/ \E m \in T \ {x} : \A l \in T \ {x} : m >= l
    BY <1>3, <2>2
  <2>4. CASE T \ {x} = {}
    <3>1. \A l \in T : l = x /\ x \in Nat
      BY <2>1, <2>4
    <3>2. QED
      BY <2>1, <3>1
  <2>5. CASE \E m \in T \ {x} : \A l \in T \ {x} : m >= l
    <3>1. PICK m \in T \ {x} : \A l \in T \ {x} : m >= l
      BY <2>5
    <3>2. m \in T /\ x \in T /\ m \in Nat /\ x \in Nat /\ \A l \in T : l \in Nat /\ (l = x \/ m >= l)
      BY <2>1, <3>1
    <3>3. CASE m >= x
      BY <3>2, <3>3
    <3>4. CASE x >= m
      BY <3>2, <3>4
    <3>5. QED
      BY <3>2, <3>3, <3>4
  <2>6. QED
    BY <2>3, <2>4, <2>5
<1>4. Good \in SUBSET Nat
  OBVIOUS
<1>5. Cardinality(S) \in Good
  <2> HIDE DEF Good
  <2>1. 0..Cardinality(S) \subseteq Good
    BY <1>1, <1>2, <1>3, <1>4, AllTheWay
  <2>2. QED
    BY <1>1, <2>1
<1>6. \E m \in S : \A l \in S : m >= l
  BY <1>5
<1>7. \E m \in S : \A l \in S : m <= l
  BY Least
<1>8. QED
  BY <1>6, <1>7 DEF Max, Min

LEMMA LesserOfTwo ==
  ASSUME NEW a \in Int, NEW b \in Int
  PROVE  Min({a, b}) \in Int /\ (Min({a, b}) = a \/ Min({a, b}) = b)
<1>1. \E x \in {a, b} : \A y \in {a, b} : x <= y
  OBVIOUS
<1>2. Min({a, b}) \in {a, b}
  BY <1>1 DEF Min
<1>3. QED
  BY <1>2

(* The articles of a sample, which are some.                                      *)
ArticlesOK(s) ==
  /\ Len(s) \in Nat \ {0} /\ DOMAIN s = 1..Len(s)
  /\ \A i \in 1..Len(s) : /\ s[i].day \in Nat \cup {None}
                          /\ \A t \in Terms : s[i].mentions[t] \in Nat

LEMMA MentionsAreCounted ==
  ASSUME NEW s, ArticlesOK(s), NEW t \in Terms
  PROVE  Mentions(s, t) \in Nat
<1> DEFINE n == Len(s)
           F == CHOOSE f : f = [i \in 0..n |-> IF i = 0 THEN 0 ELSE f[i - 1] + s[i].mentions[t]]
           step == [x \in Nat \X (1..n) |-> x[1] + s[x[2]].mentions[t]]
<1>1. n \in Nat /\ n \in 0..n /\ \A i \in 1..n : s[i].mentions[t] \in Nat
  BY DEF ArticlesOK
<1>2. Mentions(s, t) = F[n]
  BY DEF Mentions
<1> HIDE DEF n
<1>3. step \in [Nat \X (1..n) -> Nat] /\ 0 \in Nat
  BY <1>1
<1>4. \A a \in Nat, i \in 1..n : step[<<a, i>>] = a + s[i].mentions[t]
  OBVIOUS
<1> HIDE DEF step
<1>5. PICK g \in [0..n -> Nat] : Loop(g, n, 0, step)
  BY <1>1, <1>3, LoopExists
<1>6. \A i \in 0..n : i = 0 \/ (i \in 1..n /\ i - 1 \in 0..n)
  BY <1>1
<1>7. \A i \in 0..n : g[i] = IF i = 0 THEN 0 ELSE g[i - 1] + s[i].mentions[t]
  BY <1>4, <1>5, <1>6 DEF Loop
<1>8. g = [i \in 0..n |-> IF i = 0 THEN 0 ELSE g[i - 1] + s[i].mentions[t]]
  BY <1>7
<1>9. F = [i \in 0..n |-> IF i = 0 THEN 0 ELSE F[i - 1] + s[i].mentions[t]]
  BY <1>8
<1> HIDE DEF F
<1>10. \A i \in 0..n : F[i] = IF i = 0 THEN 0 ELSE F[i - 1] + s[i].mentions[t]
  BY <1>9
<1> DEFINE Good == {i \in Nat : i <= n => F[i] \in Nat}
<1>11. 0 \in Good
  BY <1>1, <1>10
<1>12. ASSUME NEW m \in Nat, m < n, m \in Good
       PROVE  m + 1 \in Good
  <2> HIDE DEF Good
  <2>1. m + 1 \in 0..n /\ m + 1 \in 1..n /\ m + 1 # 0 /\ m + 1 - 1 = m /\ m <= n
    BY <1>1, <1>12
  <2> USE DEF Good
  <2>2. F[m + 1] = F[m] + s[m + 1].mentions[t]
    BY <1>10, <2>1
  <2>3. F[m] \in Nat /\ s[m + 1].mentions[t] \in Nat
    BY <1>1, <1>12, <2>1
  <2>4. QED
    BY <2>1, <2>2, <2>3
<1>13. Good \in SUBSET Nat
  OBVIOUS
<1> HIDE DEF Good
<1>14. 0..n \subseteq Good
  BY <1>1, <1>11, <1>12, <1>13, AllTheWay
<1>15. F[n] \in Nat
  BY <1>1, <1>14 DEF Good
<1>16. QED
  BY <1>2, <1>15

(* If terms are mentioned often enough, one of them comes first.                     *)
LEMMA OneComesFirst ==
  ASSUME NEW s, ArticlesOK(s), Entities(s) # {}
  PROVE  TopEntity(s) \in Entities(s)
<1> DEFINE E == Entities(s)
           count == [t \in E |-> Mentions(s, t)]
           Counts == {count[t] : t \in E}
<1>1. E \in SUBSET Terms /\ IsFiniteSet(E)
  <2>1. E \in SUBSET Terms
    BY DEF Entities
  <2>2. QED
    BY <2>1, SamplesAssumption, FS_Subset
<1>2. \A t \in E : Mentions(s, t) \in Nat /\ t \in Nat
  BY ProbingAssumption, <1>1, MentionsAreCounted
<1>a. E # {}
  OBVIOUS
<1> HIDE DEF E
<1>3. \A t \in E : count[t] = Mentions(s, t)
  OBVIOUS
<1>4. count \in Surjection(E, Counts)
  BY DEF Surjection
<1>5. Counts \in SUBSET Nat /\ Counts # {}
  BY <1>2, <1>3, <1>a
<1>6. IsFiniteSet(Counts)
  BY <1>1, <1>4, FS_Surjection
<1> HIDE DEF Counts
<1>7. Max(Counts) \in Counts /\ \A c \in Counts : Max(Counts) >= c
  BY <1>5, <1>6, Greatest
<1> DEFINE Tops == {t \in E : count[t] = Max(Counts)}
<1>8. Tops \in SUBSET Nat /\ Tops # {}
  BY <1>2, <1>7 DEF Counts
<1>9. PICK t \in Tops : \A u \in Tops : t <= u
  <2> HIDE DEF Tops
  <2>1. QED
    BY <1>8, Least
<1>10. t \in E /\ Mentions(s, t) = Max(Counts)
  BY <1>3, <1>9
<1>11. ASSUME NEW u \in E \ {t}
       PROVE  Before(s, t, u)
  <2>1. count[u] \in Counts /\ Mentions(s, u) = count[u] /\ Mentions(s, t) >= Mentions(s, u)
    BY <1>3, <1>7, <1>10 DEF Counts
  <2>2. Mentions(s, t) \in Nat /\ Mentions(s, u) \in Nat /\ t \in Nat /\ u \in Nat /\ u # t
    BY <1>2, <1>10
  <2>3. CASE Mentions(s, t) = Mentions(s, u)
    <3>1. u \in Tops
      BY <1>10, <2>1, <2>3
    <3>2. t < u
      BY <1>9, <2>2, <3>1
    <3>3. QED
      BY <2>3, <3>2 DEF Before
  <2>4. CASE Mentions(s, t) # Mentions(s, u)
    BY <2>1, <2>2, <2>4 DEF Before
  <2>5. QED
    BY <2>3, <2>4
<1>12. \E x \in E : \A u \in E \ {x} : Before(s, x, u)
  BY <1>10, <1>11
<1>13. QED
  BY <1>12 DEF TopEntity, E

LEMMA BrandIsRated ==
  ASSUME NEW s, ArticlesOK(s)
  PROVE  BrandConfidence(s) \in Int /\ (Entities(s) = {} => BrandConfidence(s) = 0)
<1>1. CASE Entities(s) = {}
  BY <1>1 DEF BrandConfidence
<1>2. CASE Entities(s) # {}
  <2> DEFINE rate == (100 * Mentions(s, TopEntity(s))) \div Len(s)
  <2>1. TopEntity(s) \in Terms
    BY <1>2, OneComesFirst DEF Entities
  <2>2. Mentions(s, TopEntity(s)) \in Nat
    BY <2>1, MentionsAreCounted
  <2>3. 100 * Mentions(s, TopEntity(s)) \in Int /\ Len(s) \in Nat \ {0}
    BY <2>2 DEF ArticlesOK
  <2>4. rate \in Int
    BY <2>3
  <2>5. BrandConfidence(s) = Min({95, rate})
    BY <1>2 DEF BrandConfidence
  <2> HIDE DEF rate
  <2>6. Min({95, rate}) \in Int
    BY <2>4, LesserOfTwo
  <2>7. QED
    BY <1>2, <2>5, <2>6
<1>3. QED
  BY <1>1, <1>2

LEMMA DatesAreRated ==
  ASSUME NEW s, ArticlesOK(s)
  PROVE  DateConfidence(s) \in Int /\ DateConfidence(s) >= 50
<1> DEFINE m == Min({Saturation, Len(s)})
           a == 40 * m
           q == a \div Saturation
<1>1. Saturation \in Nat \ {0} /\ Saturation \in Int /\ Len(s) \in Nat /\ Len(s) \in Int
  BY ProbingAssumption DEF ArticlesOK
<1>2. m \in Nat
  BY <1>1, LesserOfTwo
<1>3. DateConfidence(s) = Min({90, 50 + q})
  BY DEF DateConfidence
<1> HIDE DEF m
<1>4. a \in Nat
  BY <1>2
<1> HIDE DEF a
<1>5. q \in Int /\ q >= 0
  BY <1>1, <1>4
<1> HIDE DEF q
<1>6. 50 + q \in Int /\ 50 + q >= 50
  BY <1>5
<1>7. QED
  BY <1>3, <1>6, LesserOfTwo

LEMMA SpanIsMeasured ==
  ASSUME NEW s, ArticlesOK(s), Days(s) # {}
  PROVE  Span(s) \in Int
<1> DEFINE n == Len(s)
           day == [i \in 1..n |-> s[i].day]
           All == {day[i] : i \in 1..n}
<1>1. n \in Nat /\ DOMAIN s = 1..n /\ \A i \in 1..n : s[i].day \in Nat \cup {None}
  BY DEF ArticlesOK
<1> HIDE DEF n
<1>2. IsFiniteSet(1..n)
  BY <1>1, FS_Interval
<1>3. day \in Surjection(1..n, All)
  BY DEF Surjection
<1>4. IsFiniteSet(All)
  BY <1>2, <1>3, FS_Surjection
<1>5. Days(s) \in SUBSET All /\ Days(s) \in SUBSET Nat
  BY <1>1 DEF Days
<1>6. IsFiniteSet(Days(s))
  <2> HIDE DEF All
  <2>1. QED
    BY <1>4, <1>5, FS_Subset
<1>7. Max(Days(s)) \in Days(s) /\ Min(Days(s)) \in Days(s)
  BY <1>5, <1>6, Greatest
<1>8. QED
  BY <1>5, <1>7 DEF Span

SampleSet == Samples \cup {NoSource}

LEMMA SamplesOK ==
  ASSUME NEW smp \in SampleSet, smp.articles # <<>>
  PROVE  ArticlesOK(smp.articles)
<1> DEFINE s == smp.articles
<1>1. smp \in Samples
  BY DEF SampleSet, NoSource
<1>2. /\ s \in Seq(Range(s))
      /\ \A i \in DOMAIN s : s[i].day \in Nat \cup {None} /\ \A t \in Terms : s[i].mentions[t] \in Nat
  BY <1>1, SamplesAssumption
<1>3. s # <<>>
  OBVIOUS
<1> HIDE DEF s
<1>4. Len(s) \in Nat /\ DOMAIN s = 1..Len(s) /\ Len(s) # 0
  BY <1>2, <1>3
<1>5. ArticlesOK(s)
  BY <1>2, <1>4 DEF ArticlesOK
<1>6. QED
  BY <1>5 DEF s

(* Of a sample and of parameters, whatever they are: between the two thresholds and     *)
(* the two branches nothing that is missing goes unasked, nothing that is given is      *)
(* asked or inferred.                                                         *)
Complete(smp, p, told) ==
  /\ \A f \in Fields : IsGiven(p, f) => f \notin told
  /\ \A f \in {"brand", "intention", "enrichmentType"} : ~IsGiven(p, f) => f \in told
  /\ \/ IsGiven(p, "dateRange") \/ "dateRange" \in told
     \/ smp.articles # <<>> /\ Days(smp.articles) = {}

LEMMA NoGap ==
  ASSUME NEW smp \in SampleSet, NEW p
  PROVE  Complete(smp, p, Inferred(smp, p) \cup Probes(smp, p))
<1> DEFINE s == smp.articles
           told == Inferred(smp, p) \cup Probes(smp, p)
<1>1. \A f \in Fields : IsGiven(p, f) => f \notin told
  BY DEF Inferred, Probes, EmptyProbes
<1>2. CASE s = <<>>
  <2>1. \A f \in {"brand", "intention", "enrichmentType", "dateRange"} : ~IsGiven(p, f) => f \in told
    BY <1>2 DEF Probes, EmptyProbes, Fields
  <2>2. QED
    BY <1>1, <2>1 DEF Complete
<1>3. CASE s # <<>>
  <2>1. ArticlesOK(s)
    BY <1>3, SamplesOK
  <2>2. \A f \in {"intention", "enrichmentType"} : ~IsGiven(p, f) => f \in told
    BY <1>3 DEF Probes, Fields, Doubtful
  <2>3. ~IsGiven(p, "brand") => "brand" \in told
    <3>1. /\ BrandConfidence(s) \in Int /\ (Entities(s) = {} => BrandConfidence(s) = 0)
          /\ InferFloor \in Nat /\ ProbeBelow \in Nat \ {0} /\ InferFloor <= ProbeBelow
      BY ProbingAssumption, <2>1, BrandIsRated
    <3>2. (Entities(s) # {} /\ BrandConfidence(s) >= InferFloor) \/ BrandConfidence(s) < ProbeBelow
      BY <3>1
    <3>3. Sure(s, "brand") \/ Doubtful(smp, "brand")
      BY <3>2 DEF Sure, Doubtful
    <3>4. QED
      BY <1>3, <3>3 DEF Inferred, Probes, Fields
  <2>4. IsGiven(p, "dateRange") \/ "dateRange" \in told \/ Days(s) = {}
    <3> SUFFICES ASSUME ~IsGiven(p, "dateRange"), Days(s) # {}
                 PROVE  "dateRange" \in told
      OBVIOUS
    <3>1. /\ Span(s) \in Int /\ ShortSpan \in Nat /\ InferFloor \in Nat /\ InferFloor <= 50
          /\ DateConfidence(s) \in Int /\ DateConfidence(s) >= 50
      BY ProbingAssumption, <2>1, SpanIsMeasured, DatesAreRated
    <3>2. (Span(s) <= ShortSpan /\ DateConfidence(s) >= InferFloor) \/ Span(s) > ShortSpan
      BY <3>1
    <3>3. Sure(s, "dateRange") \/ Doubtful(smp, "dateRange")
      BY <3>2 DEF Sure, Doubtful
    <3>4. QED
      BY <1>3, <3>3 DEF Inferred, Probes, Fields
  <2>5. QED
    BY <1>1, <1>3, <2>2, <2>3, <2>4 DEF Complete
<1>4. QED
  BY <1>2, <1>3
-----------------------------------------------------------------------------
(* What a request is; its sample is one the source yields.                          *)
Sayable == {None} \cup UNION {Values(f) : f \in Fields}

Calls ==
  [pc : {"patch", "sample", "classify", "answer"}, mount : Nat, field : Fields \cup {None},
   value : Sayable, sample : SampleSet,
   listed : SUBSET Fields, asked : SUBSET Fields]

CallsOK == sample \in SampleSet /\ card.mount \in Nat /\ calls \in Seq(Calls)

LEMMA CallSent ==
  ASSUME NEW pc \in {"sample", "patch"}, NEW field \in Fields \cup {None},
         NEW value \in Sayable, Send(pc, field, value),
         CallsOK, card'.mount \in Nat, sample' = sample
  PROVE  CallsOK'
<1>1. Request(pc, field, value) \in Calls
  BY DEF Request, Calls, SampleSet
<1>2. calls' = Append(calls, Request(pc, field, value))
  BY DEF Send
<1>3. QED
  BY <1>1, <1>2 DEF CallsOK, SampleSet

LEMMA CallProceeds ==
  ASSUME CallsOK, NEW i \in DOMAIN calls, NEW d \in Calls, Proceed(i, d),
         UNCHANGED <<sample, card>>
  PROVE  CallsOK'
<1>1. calls' = [calls EXCEPT ![i] = d] /\ calls \in Seq(Calls)
  BY DEF Proceed, CallsOK
<1>2. calls' \in Seq(Calls)
  BY <1>1
<1>3. QED
  BY <1>2 DEF CallsOK, SampleSet

LEMMA CallDropped ==
  ASSUME CallsOK, NEW i \in DOMAIN calls, Drop(i), card'.mount \in Nat
  PROVE  CallsOK'
<1>1. calls' = SubSeq(calls, 1, i - 1) \o SubSeq(calls, i + 1, Len(calls))
  BY DEF Drop, RemoveAt
<1>2. calls \in Seq(Calls) /\ i \in 1..Len(calls) /\ Len(calls) \in Nat
  BY DEF CallsOK
<1>3. SubSeq(calls, 1, i - 1) \in Seq(Calls) /\ SubSeq(calls, i + 1, Len(calls)) \in Seq(Calls)
  BY <1>2
<1>4. calls' \in Seq(Calls) /\ sample' = sample
  BY <1>1, <1>3 DEF Drop, others
<1>5. QED
  BY <1>4 DEF CallsOK, SampleSet

LEMMA CallsNext ==
  ASSUME Inv, CallsOK, [Next]_vars
  PROVE  CallsOK'
<1>1. DOMAIN card = CardFields /\ mounts \in Nat /\ card.mount \in Nat /\ calls \in Seq(Calls)
  BY DEF Inv, Shapes, CallsOK
<1>s. None \in Sayable /\ \A f \in Fields : Values(f) \subseteq Sayable
  <2>1. None \in Sayable
    BY DEF Sayable
  <2>2. ASSUME NEW f \in Fields, NEW v \in Values(f)
        PROVE  v \in Sayable
    BY Zenon DEF Sayable
  <2>3. QED
    BY <2>1, <2>2
<1>2. ASSUME Show \/ StartOver
      PROVE  CallsOK'
  <2>1. Send("sample", None, None) /\ sample' = sample
    BY <1>2 DEF Show, StartOver, others
  <2>2. card'.mount \in Nat
    <3>1. CASE Show
      BY <1>1, <3>1 DEF Show, Hidden
    <3>2. CASE StartOver
      BY <1>1, <3>2 DEF StartOver, CardFields
    <3>3. QED
      BY <1>2, <3>1, <3>2
  <2>3. QED
    BY <1>s, <2>1, <2>2, CallSent
<1>3. ASSUME NEW f \in Fields, Resolve(f)
      PROVE  CallsOK'
  <2>1. card'.mount \in Nat /\ sample' = sample
    BY <1>1, <1>3 DEF Resolve, CardFields, others
  <2>2. PICK v \in Values(f) : Send("patch", f, v)
    BY <1>3 DEF Resolve
  <2>3. v \in Sayable
    BY <1>s
  <2>4. QED
    BY <2>1, <2>2, <2>3, CallSent
<1>4. ASSUME NEW i \in DOMAIN calls, Patch(i) \/ TakeSample(i) \/ Classify(i)
      PROVE  CallsOK'
  <2>1. calls[i] \in Calls /\ UNCHANGED <<sample, card>>
    BY <1>1, <1>4 DEF Patch, TakeSample, Classify, others, page
  <2>2. CASE Patch(i)
    <3> DEFINE listed == {f \in Fields : IsGiven(params', f)}
               d == [calls[i] EXCEPT !.pc = "sample", !.value = None, !.listed = listed]
    <3>1. Proceed(i, d)
      BY <2>2 DEF Patch
    <3>2. listed \in SUBSET Fields
      OBVIOUS
    <3> HIDE DEF listed
    <3>3. d \in Calls
      BY <1>s, <2>1, <3>2 DEF Calls
    <3>4. QED
      BY <2>1, <3>1, <3>3, CallProceeds
  <2>3. CASE TakeSample(i)
    <3> DEFINE d == [calls[i] EXCEPT !.pc = "classify", !.sample = sample]
    <3>1. Proceed(i, d)
      BY <2>3 DEF TakeSample
    <3>2. d \in Calls
      BY <2>1 DEF Calls, CallsOK
    <3>3. QED
      BY <2>1, <3>1, <3>2, CallProceeds
  <2>4. CASE Classify(i)
    <3> DEFINE known == IF calls[i].field = None THEN Inferred(calls[i].sample, params) ELSE calls[i].listed
               asked == Probes(calls[i].sample, params)
               d == [calls[i] EXCEPT !.pc = "answer", !.sample = NoSource, !.listed = known,
                                     !.asked = asked]
    <3>1. Proceed(i, d)
      <4>1. Proceed(i, [calls[i] EXCEPT !.pc = "answer", !.sample = NoSource,
                                 !.listed = IF calls[i].field = None THEN Inferred(calls[i].sample, params) ELSE @,
                                 !.asked = Probes(calls[i].sample, params)])
        BY <2>4 DEF Classify
      <4>2. QED
        BY <4>1
    <3>2. known \in SUBSET Fields /\ asked \in SUBSET Fields
      BY <2>1 DEF Inferred, Probes, EmptyProbes, Fields, Calls
    <3> HIDE DEF known, asked
    <3>3. d \in Calls
      BY <2>1, <3>2 DEF Calls, SampleSet
    <3>4. QED
      BY <2>1, <3>1, <3>3, CallProceeds
  <2>5. QED
    BY <1>4, <2>2, <2>3, <2>4
<1>5. ASSUME NEW i \in DOMAIN calls, Answer(i) \/ CallFails(i)
      PROVE  CallsOK'
  <2>1. Drop(i)
    BY <1>5 DEF Answer, CallFails
  <2>2. \A c : Loaded(c).mount = card.mount /\ DOMAIN Loaded(c) = CardFields /\ Freed(c).mount = card.mount
    BY <1>1 DEF Loaded, Freed, CardFields
  <2>3. \A c, l, b : [Loaded(c) EXCEPT !.loading = l, !.busy = b].mount = card.mount
    BY <2>2 DEF CardFields
  <2>4. card'.mount \in Nat
    <3>1. CASE CallFails(i)
      BY <1>1, <2>2, <3>1 DEF CallFails
    <3>2. CASE Answer(i)
      <4>1. \/ card' = Hidden \/ card' = card
            \/ \E c, l, b : card' = [Loaded(c) EXCEPT !.loading = l, !.busy = b]
        BY <3>2 DEF Answer
      <4>2. Hidden.mount = 0
        BY DEF Hidden
      <4>3. CASE card' = Hidden \/ card' = card
        BY <1>1, <4>2, <4>3
      <4>4. CASE \E c, l, b : card' = [Loaded(c) EXCEPT !.loading = l, !.busy = b]
        <5>1. PICK c, l, b : card' = [Loaded(c) EXCEPT !.loading = l, !.busy = b]
          BY <4>4
        <5>2. QED
          BY <1>1, <2>3, <5>1
      <4>5. QED
        BY <4>1, <4>3, <4>4
    <3>3. QED
      BY <1>5, <3>1, <3>2
  <2>5. QED
    BY <2>1, <2>4, CallDropped
<1>6. CASE Hide \/ Attach \/ WizardPatch \/ HookApply \/ SupplementSample \/ SupplementRead
           \/ SupplementWrite \/ SupplementFails \/ UNCHANGED vars
  <2>1. calls' = calls /\ sample' \in SampleSet /\ card' \in {card, Hidden}
    BY <1>6 DEF Hide, Attach, WizardPatch, HookApply, SupplementSample, SupplementRead, SupplementWrite,
                SupplementFails, others, page, requests, vars, CallsOK, SampleSet
  <2>2. QED
    BY <1>1, <2>1 DEF CallsOK, Hidden, Calls, SampleSet, Values
<1>7. QED
  BY <1>2, <1>3, <1>4, <1>5, <1>6 DEF Next

(* classifyAndProbe() leaves no gap between what it infers and what it asks for: for any  *)
(* sample and thresholds, if its floor of inference is not above the least trust it has   *)
(* in dates nor above the threshold below which it asks for the brand.                 *)
THEOREM NothingGoesUnasked == Spec => AsksWhatIsMissing
<1> DEFINE Asks ==
             \A i \in DOMAIN calls : Classify(i) =>
               Complete(calls[i].sample, params, Inferred(calls[i].sample, params) \cup calls'[i].asked)
<1>1. Init => CallsOK
  BY DEF Init, CallsOK, Hidden, SampleSet
<1>2. CallsOK => Asks
  <2> SUFFICES ASSUME CallsOK, NEW i \in DOMAIN calls, Classify(i)
               PROVE  Complete(calls[i].sample, params,
                               Inferred(calls[i].sample, params) \cup calls'[i].asked)
    OBVIOUS
  <2> DEFINE asked == Probes(calls[i].sample, params)
  <2>1. calls[i] \in Calls
    BY DEF CallsOK
  <2>2. PICK known : calls' = [calls EXCEPT ![i] = [calls[i] EXCEPT !.pc = "answer", !.sample = NoSource,
                                                                    !.listed = known, !.asked = asked]]
    BY DEF Classify, Proceed
  <2>3. calls[i].sample \in SampleSet /\ "asked" \in DOMAIN calls[i]
    BY <2>1 DEF Calls
  <2>4. Complete(calls[i].sample, params, Inferred(calls[i].sample, params) \cup asked)
    BY <2>3, NoGap
  <2> HIDE DEF asked
  <2>5. calls'[i].asked = asked
    BY <2>2, <2>3
  <2>6. QED
    BY <2>4, <2>5
<1>3. Asks => \A i \in DOMAIN calls : Classify(i) =>
                LET smp == calls[i].sample
                    told == Inferred(smp, params) \cup calls'[i].asked
                IN  /\ \A f \in Fields : IsGiven(params, f) => f \notin told
                    /\ \A f \in {"brand", "intention", "enrichmentType"} : ~IsGiven(params, f) => f \in told
                    /\ \/ IsGiven(params, "dateRange") \/ "dateRange" \in told
                       \/ smp.articles # <<>> /\ Days(smp.articles) = {}
  BY DEF Complete
<1>4. QED
  BY <1>1, <1>2, <1>3, InvAlways, CallsNext, PTL DEF Spec, AsksWhatIsMissing
=============================================================================
