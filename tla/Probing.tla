------------------------------ MODULE Probing ------------------------------
(***************************************************************************)
(* What a chat still needs to know: a classifier looks at a sample of the     *)
(* attached source and says which parameters it can infer and which the user  *)
(* must be asked for; a card asks them, one request per answer; the intent    *)
(* hook fills what it may from the same classification.  The wizard and the   *)
(* parser go on meanwhile.                                                    *)
(*                                                                         *)
(* A sample is the kind of its source and its articles; an article is how     *)
(* often it mentions each brand-like term, its day, its language and whether   *)
(* its source names a medium.  Terms are numbered in alphabetical order;       *)
(* confidences are percentages.  The order of the probes, their chips and     *)
(* their wording are left out.                                               *)
(***************************************************************************)
EXTENDS Integers, FiniteSetsExt, SequencesExt

CONSTANTS
  Terms,
  Samples,          \* what the chat's source may yield, SAMPLE_LIMIT articles at most
  UserTerms,        \* terms the user or the model may name
  UserDays,         \* and days
  MinMentions,      \* MIN_BRAND_MENTIONS
  ShortSpan,        \* SHORT_DATE_RANGE_DAYS
  Majority,         \* MIN_LANGUAGE_MAJORITY
  InferFloor,       \* INFERENCE_CONFIDENCE_FLOOR
  ProbeBelow,       \* BRAND_CONFIDENCE_PROBE_THRESHOLD
  SupplementFloor,  \* SUPPLEMENT_INFERRED_CONFIDENCE_FLOOR
  Saturation,       \* rows from which dates are trusted most
  MaxCalls,         \* bound: requests of the card
  MaxWrites,        \* bound: what others write
  MaxMounts,        \* bound: how often the card is shown
  None

Fields == {"brand", "competitors", "dateRange", "language", "mediaTypes", "intention",
           "enrichmentType"}

(* Brands are inferred below where they stop being asked for, and the floor is not     *)
(* above the 50 that dates are trusted with at least.                            *)
ASSUME ProbingAssumption ==
  /\ Terms \subseteq Nat /\ UserTerms \subseteq Terms /\ None \notin Nat \cup UserDays
  /\ {InferFloor, ProbeBelow, MinMentions, ShortSpan, Saturation} \subseteq Nat \ {0}
  /\ InferFloor <= 50 /\ InferFloor <= ProbeBelow

(* A sample has the mentions of each term; a day may be missing.                  *)
ASSUME SamplesAssumption ==
  /\ IsFiniteSet(Terms)
  /\ \A smp \in Samples :
       /\ smp.articles \in Seq(Range(smp.articles))
       /\ \A i \in DOMAIN smp.articles : /\ smp.articles[i].day \in Nat \cup {None}
                                        /\ \A t \in Terms : smp.articles[i].mentions[t] \in Nat

VARIABLES
  sample,    \* what the adapter yields by now
  params,    \* the chat_params row
  card,      \* the card: its mount, what it lists as known and asks for
  mounts,    \* how often it was shown
  calls,     \* requests of the card under way
  sent,      \* and how many there were
  hook,      \* the intent hook
  writes,    \* what others have written
  calm       \* history: since the card's last fresh read nobody else wrote,
             \* no request failed and none overlapped another

others == <<sample, hook, writes>>
page == <<card, mounts>>
requests == <<calls, sent>>
vars == <<params, others, page, requests, calm>>

NoParams == [brand |-> None, competitors |-> None, start |-> None, end |-> None,
             mediaTypes |-> None, intention |-> None, enrichmentType |-> None]
NoSource == [kind |-> None, articles |-> <<>>]

IsGiven(p, f) ==
  CASE f = "dateRange" -> p.start # None /\ p.end # None
    [] f = "language" -> FALSE
    [] OTHER -> p[f] # None
-----------------------------------------------------------------------------
(* countEntities(): every mention counts; terms mentioned often enough, the most *)
(* mentioned first.                                                          *)
Mentions(s, t) ==
  LET upto[i \in 0..Len(s)] == IF i = 0 THEN 0 ELSE upto[i - 1] + s[i].mentions[t]
  IN  upto[Len(s)]

Entities(s) == {t \in Terms : Mentions(s, t) >= MinMentions}
Before(s, t, u) ==
  \/ Mentions(s, t) > Mentions(s, u)
  \/ Mentions(s, t) = Mentions(s, u) /\ t < u
TopEntity(s) == CHOOSE t \in Entities(s) : \A u \in Entities(s) \ {t} : Before(s, t, u)

(* dateBounds(): days that are missing do not count.                          *)
Days(s) == {s[i].day : i \in DOMAIN s} \ {None}
Span(s) == Max(Days(s)) - Min(Days(s))

(* languageDistribution(): the share of the language most articles have.        *)
TopShare(s) ==
  Max({(100 * Cardinality({i \in DOMAIN s : s[i].language = s[j].language})) \div Len(s) : j \in DOMAIN s})

BrandConfidence(s) ==
  IF Entities(s) = {} THEN 0 ELSE Min({95, (100 * Mentions(s, TopEntity(s))) \div Len(s)})
DateConfidence(s) == Min({90, 50 + (40 * Min({Saturation, Len(s)})) \div Saturation})

(* The entities offered as competitors: those after the first, which alone is ever *)
(* inferred to be the brand.                                                   *)
Rivals(s) == {u \in Entities(s) : \E t \in Entities(s) : Before(s, t, u)}

(* Of an OpenSearch sample, the articles whose source names a medium.            *)
Media(smp) == IF smp.kind # "opensearch" THEN {}
              ELSE {smp.articles[i].media : i \in DOMAIN smp.articles} \ {None}

(* Mutant of Sure: a brand is taken as known from the higher threshold only.     *)
SureLater(s, f) ==
  CASE f = "brand" -> Entities(s) # {} /\ BrandConfidence(s) > ProbeBelow
    [] f = "dateRange" -> Days(s) # {} /\ Span(s) <= ShortSpan /\ DateConfidence(s) >= InferFloor

(* classifyAndProbe(): what the sample tells ...                               *)
Sure(s, f) ==
  CASE f = "brand" -> Entities(s) # {} /\ BrandConfidence(s) >= InferFloor
    [] f = "dateRange" -> Days(s) # {} /\ Span(s) <= ShortSpan /\ DateConfidence(s) >= InferFloor

(* ... and what it makes the user be asked for.                               *)
Doubtful(smp, f) ==
  LET s == smp.articles IN
  CASE f = "brand" -> BrandConfidence(s) < ProbeBelow
    [] f = "competitors" -> Rivals(s) # {}
    [] f = "dateRange" -> Days(s) # {} /\ Span(s) > ShortSpan
    [] f = "language" -> TopShare(s) < Majority
    [] f = "mediaTypes" -> Media(smp) # {}
    [] OTHER -> TRUE

(* emptyResult(): without articles, all but language and media.                 *)
EmptyProbes(p) == {f \in Fields \ {"language", "mediaTypes"} : ~IsGiven(p, f)}

Inferred(smp, p) ==
  {f \in {"brand", "dateRange"} : smp.articles # <<>> /\ ~IsGiven(p, f) /\ Sure(smp.articles, f)}
Probes(smp, p) ==
  IF smp.articles = <<>> THEN EmptyProbes(p)
  ELSE {f \in Fields : ~IsGiven(p, f) /\ Doubtful(smp, f)}
-----------------------------------------------------------------------------
Hidden == [mount |-> 0, loading |-> FALSE, busy |-> FALSE, loaded |-> FALSE, listed |-> {}, asked |-> {}]
Quiet == [pc |-> "idle", sample |-> NoSource, dated |-> FALSE, take |-> {}]

(* A source may be there, and the choices be made, before.                      *)
Init ==
  /\ sample \in Samples \cup {NoSource}
  /\ \E choice \in {None, "given"} :
       params = [NoParams EXCEPT !.intention = choice, !.enrichmentType = choice]
  /\ card = Hidden
  /\ mounts = 0
  /\ calls = <<>>
  /\ sent = 0
  /\ hook = Quiet
  /\ writes = 0
  /\ calm = FALSE

Shown == card.mount # 0
Request(pc, field, value) ==
  [pc |-> pc, mount |-> card'.mount, field |-> field, value |-> value, sample |-> NoSource,
   listed |-> {}, asked |-> {}]
Send(pc, field, value) ==
  /\ sent < MaxCalls
  /\ sent' = sent + 1
  /\ calls' = Append(calls, Request(pc, field, value))

(* intent:extracted or reach:absent shows the card, which reads the probe; so does *)
(* "Start over".                                                             *)
Show ==
  /\ ~Shown
  /\ mounts < MaxMounts
  /\ mounts' = mounts + 1
  /\ card' = [Hidden EXCEPT !.mount = mounts', !.loading = TRUE]
  /\ Send("sample", None, None)
  /\ calm' = (calls = <<>> /\ hook.pc \in {"idle", "done"})
  /\ UNCHANGED <<params, others>>

StartOver ==
  /\ Shown /\ ~card.busy /\ ~card.loading
  /\ card' = [card EXCEPT !.loading = TRUE]
  /\ Send("sample", None, None)
  /\ calm' = (calls = <<>> /\ hook.pc \in {"idle", "done"})
  /\ UNCHANGED <<params, others, mounts>>

(* "Looks good" (when nothing is under way), the cross and reach:resolved hide it.  *)
Hide ==
  /\ Shown
  /\ card' = Hidden
  /\ UNCHANGED <<params, others, mounts, requests, calm>>

Values(f) == CASE f = "brand" -> UserTerms
               [] f = "dateRange" -> {range \in UserDays \X UserDays : range[1] <= range[2]}
               [] OTHER -> {"given"}

(* applyResolution(): a probe is answered, or a listed field edited.  The editors  *)
(* of brand, competitors and dates take input while the card is busy.            *)
Resolve(f) ==
  /\ Shown
  /\ f \in card.asked \cup (card.listed \ {"mediaTypes", "language"})
  /\ card.busy => f \in {"brand", "competitors", "dateRange"}
  /\ card' = [card EXCEPT !.busy = TRUE]
  /\ \E v \in Values(f) : Send("patch", f, v)
  /\ calm' = (calm /\ calls = <<>>)
  /\ UNCHANGED <<params, others, mounts>>
-----------------------------------------------------------------------------
(* translateResolution(): there is no column for a language.                    *)
Translated(f, v) ==
  CASE f = "language" -> params
    [] f = "dateRange" -> [params EXCEPT !.start = v[1], !.end = v[2]]
    [] OTHER -> [params EXCEPT ![f] = v]

Proceed(i, c) == calls' = [calls EXCEPT ![i] = c]

(* POST /probe/resolve: the patch, and then the probe of GET /probe.             *)
Patch(i) ==
  /\ calls[i].pc = "patch"
  /\ params' = Translated(calls[i].field, calls[i].value)
  /\ Proceed(i, [calls[i] EXCEPT !.pc = "sample", !.value = None,
                                 !.listed = {f \in Fields : IsGiven(params', f)}])
  /\ UNCHANGED <<others, page, sent, calm>>

(* runProbe(): the sample, and then the parameters.                            *)
TakeSample(i) ==
  /\ calls[i].pc = "sample"
  /\ Proceed(i, [calls[i] EXCEPT !.pc = "classify", !.sample = sample])
  /\ UNCHANGED <<params, others, page, sent, calm>>

Classify(i) ==
  /\ calls[i].pc = "classify"
  /\ Proceed(i, [calls[i] EXCEPT !.pc = "answer", !.sample = NoSource,
                                 !.listed = IF calls[i].field = None THEN Inferred(calls[i].sample, params) ELSE @,
                                 !.asked = Probes(calls[i].sample, params)])
  /\ UNCHANGED <<params, others, page, sent, calm>>

Drop(i) == calls' = RemoveAt(calls, i) /\ UNCHANGED <<params, others, mounts, sent>>

(* What the card shows: the answer's probes, and as known what a read has inferred    *)
(* or, of an answered probe, the fields that are given by now.                    *)
(* Mutant of Loaded: once there are probes, they stay.                          *)
LoadedOnce(c) ==
  [card EXCEPT !.loaded = TRUE, !.listed = c.listed, !.asked = IF card.loaded THEN @ ELSE c.asked]

Loaded(c) == [card EXCEPT !.loaded = TRUE, !.listed = c.listed, !.asked = c.asked]

Freed(c) == IF c.field = None THEN [card EXCEPT !.loading = FALSE] ELSE [card EXCEPT !.busy = FALSE]

(* An answer to a card that is gone changes nothing, but onDone hides the next.    *)
Answer(i) ==
  LET c == calls[i] IN
  /\ c.pc = "answer"
  /\ card' = IF c.field # None /\ c.asked = {} THEN Hidden
             ELSE IF c.mount # card.mount THEN card
             ELSE [Loaded(c) EXCEPT !.loading = Freed(c).loading, !.busy = Freed(c).busy]
  /\ Drop(i)
  /\ UNCHANGED calm

(* A request fails at any step; what it has patched stays.                       *)
CallFails(i) ==
  LET c == calls[i] IN
  /\ card' = IF c.mount # card.mount THEN card ELSE Freed(c)
  /\ Drop(i)
  /\ calm' = FALSE
-----------------------------------------------------------------------------
Interfere == writes < MaxWrites /\ writes' = writes + 1 /\ calm' = FALSE

(* An upload is attached and parsed, or the chat goes over to OpenSearch.         *)
Attach ==
  /\ Interfere
  /\ \E smp \in Samples \ {sample} : sample' = smp
  /\ UNCHANGED <<params, page, requests, hook>>

(* The wizard sets or clears a parameter the sample may tell.                    *)
WizardPatch ==
  /\ Interfere
  /\ \/ \E v \in UserTerms \cup {None} : params' = [params EXCEPT !.brand = v]
     \/ \E d \in UserDays \cup {None} : params' = [params EXCEPT !.start = d]
     \/ \E d \in UserDays \cup {None} : params' = [params EXCEPT !.end = d]
  /\ params' # params
  /\ UNCHANGED <<sample, page, requests, hook>>

(* applyIntentToChatParams(): what the model is confident of, whatever is there; of   *)
(* the choices all or none.  A model that is not sure of the brand is supplemented.  *)
HookApply ==
  /\ hook.pc = "idle"
  /\ \E dates \in {None} \cup Values("dateRange"), brand \in {None} \cup UserTerms,
        choices \in {{}, {"competitors", "mediaTypes", "intention", "enrichmentType"}} :
       /\ params' = [f \in DOMAIN params |->
                       CASE f = "brand" /\ brand # None -> brand
                         [] f = "start" /\ dates # None -> dates[1]
                         [] f = "end" /\ dates # None -> dates[2]
                         [] f \in choices -> "given"
                         [] OTHER -> params[f]]
       /\ hook' = [Quiet EXCEPT !.pc = IF brand = None THEN "sample" ELSE "done",
                                !.dated = dates # None]
  /\ calm' = FALSE
  /\ UNCHANGED <<sample, writes, page, requests>>

(* tryClassifierSupplement(): reads the sample, then the parameters; ...           *)
SupplementSample ==
  /\ hook.pc = "sample"
  /\ hook' = [hook EXCEPT !.pc = "read", !.sample = sample]
  /\ UNCHANGED <<params, sample, writes, page, requests, calm>>

MayTake(smp, p) ==
  {f \in Inferred(smp, p) :
     /\ f = "dateRange" => ~hook.dated /\ p.start = None /\ p.end = None
     /\ SupplementFloor <= IF f = "brand" THEN BrandConfidence(smp.articles)
                           ELSE DateConfidence(smp.articles)}

SupplementRead ==
  /\ hook.pc = "read"
  /\ hook' = [hook EXCEPT !.pc = "write", !.take = MayTake(hook.sample, params)]
  /\ UNCHANGED <<params, sample, writes, page, requests, calm>>

(* ... and writes what the sample tells, in a transaction of its own: an answer or a   *)
(* patch that came in between is overwritten.                                    *)
SupplementWrite ==
  /\ hook.pc = "write"
  /\ LET s == hook.sample.articles IN
     params' = [params EXCEPT !.brand = IF "brand" \in hook.take THEN TopEntity(s) ELSE @,
                              !.start = IF "dateRange" \in hook.take THEN Min(Days(s)) ELSE @,
                              !.end = IF "dateRange" \in hook.take THEN Max(Days(s)) ELSE @]
  /\ hook' = [hook EXCEPT !.pc = "done"]
  /\ calm' = FALSE
  /\ UNCHANGED <<sample, writes, page, requests>>

(* An error of the supplement is swallowed.                                   *)
SupplementFails ==
  /\ hook.pc \in {"sample", "read", "write"}
  /\ hook' = [hook EXCEPT !.pc = "done"]
  /\ UNCHANGED <<params, sample, writes, page, requests, calm>>

Next ==
  \/ Show \/ StartOver \/ Hide \/ \E f \in Fields : Resolve(f)
  \/ \E i \in DOMAIN calls : Patch(i) \/ TakeSample(i) \/ Classify(i) \/ Answer(i) \/ CallFails(i)
  \/ Attach \/ WizardPatch \/ HookApply
  \/ SupplementSample \/ SupplementRead \/ SupplementWrite \/ SupplementFails

Spec == Init /\ [][Next]_vars
-----------------------------------------------------------------------------
(* A classification neither asks for nor infers what is given, and does one or the    *)
(* other with what the flow needs and is not given, dates if the sample has any: the  *)
(* thresholds of inferring and of asking, and the two branches, leave no gap between  *)
(* them.  It is the classification alone: POST /probe/resolve drops what it inferred.  *)
AsksWhatIsMissing ==
  [][\A i \in DOMAIN calls : Classify(i) =>
       LET smp == calls[i].sample
           told == Inferred(smp, params) \cup calls'[i].asked
       IN  /\ \A f \in Fields : IsGiven(params, f) => f \notin told
           /\ \A f \in {"brand", "intention", "enrichmentType"} : ~IsGiven(params, f) => f \in told
           /\ \/ IsGiven(params, "dateRange") \/ "dateRange" \in told
              \/ smp.articles # <<>> /\ Days(smp.articles) = {}]_vars

(* A card that is left alone asks what a fresh read would have it ask, after any       *)
(* number of answers given one after the other (which for the language is to ask again: *)
(* its answer is not kept).  What it lists as known is not compared.                *)
CardIsCurrent ==
  calm /\ calls = <<>> /\ card.loaded => card.asked = Probes(sample, params)
=============================================================================
