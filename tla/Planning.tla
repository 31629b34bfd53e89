------------------------------ MODULE Planning ------------------------------
(***************************************************************************)
(* From a chat's parameters to the batches of its enrichment: the query is    *)
(* generated from the parameters, the indices to search are worked out from    *)
(* its dates and media, the articles it matches are packed into batches.       *)
(* Paging, inserting and running are other modules' matter.                    *)
(*                                                                         *)
(* Days are numbered and a month has MonthDays of them.  An index is named     *)
(* after a base and the month or the day it holds; a pattern that leaves       *)
(* these open covers all indices of its base.                                *)
(***************************************************************************)
EXTENDS Integers, FiniteSetsExt, SequencesExt

CONSTANTS
  MediaTypes,           \* ALL_MEDIA_TYPES
  Online,          \* of these, the one without an index of its own
  Blogish,         \* and those monthwise indices hold, too
  Cluster,         \* the documents: day, medium, language, home, tokens
  LastDay,         \* bound: days
  MonthDays,
  LongWindow,      \* 27: a longer window is searched by months
  MonthCap,        \* 36
  DayCap,          \* 90
  MaxInputTokens,  \* of the provider
  FewShot,         \* FEW_SHOT_OVERHEAD_TOKENS
  MaxJobTokens,    \* MAX_TOKENS_PER_JOB
  None

PlanningAssumption ==
  /\ Online \in MediaTypes /\ Blogish \subseteq MediaTypes \ {Online}
  /\ {LastDay, LongWindow, DayCap, FewShot, MaxJobTokens} \subseteq Nat
  /\ {MonthDays, MonthCap, MaxInputTokens} \subseteq Nat \ {0}
  /\ LongWindow < DayCap
  /\ None \notin Nat

(* Documents have a day, and there is no index of its own for the online medium.   *)
ClusterAssumption ==
  /\ IsFiniteSet(Cluster)
  /\ \A doc \in Cluster : /\ doc.day \in Nat /\ doc.tokens \in Nat
                          /\ doc.home = "standalone" => doc.medium # Online

VARIABLES
  stage,     \* "params", "query", "indices", "found", "planned", "refused"
  mode,      \* OPENSEARCH_INDEX_TYPE
  query,     \* the range of days, the language, the media
  indices,   \* the patterns searched
  articles,  \* the matching articles as they are read back
  batches    \* sequences of numbers of articles

vars == <<stage, mode, query, indices, articles, batches>>

Month(day) == day \div MonthDays
Firsts(a, b, cap) == a..Min({b, a + cap - 1})

NoQuery == [range |-> None, language |-> "en", media |-> {}]

(* By months only online media and blogs and the like are kept by their date.      *)
Filed ==
  mode = "monthwise" =>
    \A doc \in Cluster : doc.home # "standalone" => doc.medium \in {Online} \cup Blogish

Init ==
  /\ stage = "params"
  /\ mode \in {"daywise", "monthwise"}
  /\ Filed
  /\ query = NoQuery
  /\ indices = {}
  /\ articles = <<>>
  /\ batches = <<>>
-----------------------------------------------------------------------------
(* generateBooleanQuery(): one bound alone is no range, and no caller names a     *)
(* language.  Without media all are searched.                                  *)
Generate ==
  /\ stage = "params"
  /\ stage' = "query"
  /\ \E start, end \in 0..LastDay \cup {None}, media \in SUBSET MediaTypes :
       query' = [range |-> IF start = None \/ end = None THEN None ELSE <<start, end>>,
                 language |-> "en",
                 media |-> IF media = {} THEN MediaTypes ELSE media]
  /\ UNCHANGED <<mode, indices, articles, batches>>

Pattern(base, month, day) == [base |-> base, month |-> month, day |-> day]
Whole(base) == Pattern(base, None, None)

(* The name amx-data without a wildcard: no index that holds a day or a month has it. *)
JustData == Whole("data itself")

MonthsOf(range) == Firsts(Month(range[1]), Month(range[2]), MonthCap)

(* Mutant of DaywisePatterns: the last day of a short window is left out.        *)
DaywisePatternsBefore(range) ==
  IF range = None THEN {Whole("data")}
  ELSE {Whole("data-old-others")} \cup
       IF range[2] - range[1] > LongWindow THEN {Pattern("data", m, None) : m \in MonthsOf(range)}
       ELSE {Pattern("data", Month(d), d) : d \in Firsts(range[1], range[2] - 1, DayCap)}

(* getDaywiseIndices(), whatever the media: days of a short window, months of a    *)
(* long one.                                                                 *)
DaywisePatterns(range) ==
  IF range = None THEN {Whole("data")}
  ELSE {Whole("data-old-others")} \cup
       IF range[2] - range[1] > LongWindow THEN {Pattern("data", m, None) : m \in MonthsOf(range)}
       ELSE {Pattern("data", Month(d), d) : d \in Firsts(range[1], range[2], DayCap)}

(* getMonthwiseIndices(): months, of online media and of blogs and the like.      *)
MonthwisePatterns(range, media) ==
  IF range = None THEN {JustData}
  ELSE UNION {(IF Online \in media
               THEN {Pattern("webz", m, None), Pattern("opoint", m, None), Whole("webz-others")} ELSE {})
              \cup (IF media \cap Blogish # {}
                    THEN {Pattern("twingly", m, None), Whole("twingly-old-others")} ELSE {})
              : m \in MonthsOf(range)}

(* MEDIA_TYPE_INDICES: the indices a medium has of its own.                     *)
Standalone(medium) ==
  IF medium = Online THEN {} ELSE {Whole(IF medium \in Blogish THEN "webz-social" ELSE medium)}

(* resolveIndices(): the search goes to those.                                 *)
ResolveIndices ==
  /\ stage = "query"
  /\ stage' = "indices"
  /\ indices' = (IF mode = "daywise" THEN DaywisePatterns(query.range)
                 ELSE MonthwisePatterns(query.range, query.media))
                \cup UNION {Standalone(m) : m \in query.media}
  /\ UNCHANGED <<mode, query, articles, batches>>

(* Where the cluster keeps a document: with its medium, or by its date.           *)
Home(doc) ==
  IF doc.home = "standalone" THEN Pattern(IF doc.medium \in Blogish THEN "webz-social" ELSE doc.medium, None, None)
  ELSE Pattern(IF mode = "daywise" \/ doc.medium \notin {Online} \cup Blogish THEN "data"
               ELSE IF doc.medium = Online THEN "webz" ELSE "twingly",
               Month(doc.day), doc.day)

(* A pattern covers what it leaves open.                                        *)
Covers(p, index) ==
  /\ p.base = index.base
  /\ p.month \in {None, index.month}
  /\ p.day \in {None, index.day}

(* buildOpenSearchDsl(): the range and the language filter what is searched.      *)
Matches(doc, q) ==
  /\ q.range # None => q.range[1] <= doc.day /\ doc.day <= q.range[2]
  /\ doc.language = q.language

(* The articles come back in any order: their query names none.                 *)
Fetch ==
  /\ stage = "indices"
  /\ stage' = "found"
  /\ \E s \in SetToSeqs({doc \in Cluster : Matches(doc, query) /\ \E p \in indices : Covers(p, Home(doc))}) :
       articles' = s
  /\ UNCHANGED <<mode, query, indices, batches>>
-----------------------------------------------------------------------------
(* planBatching(): batches are to take four fifths of the window.                *)
Target == (MaxInputTokens * 4) \div 5
Tokens(i) == articles[i].tokens

Nothing == [full |-> <<>>, open |-> <<>>, sum |-> 0]
Started(acc, i) == [full |-> Append(acc.full, acc.open), open |-> <<i>>, sum |-> Tokens(i)]
Added(acc, i) == [acc EXCEPT !.open = Append(@, i), !.sum = @ + Tokens(i)]

(* Mutant of Put: an article is added before the sum is looked at.               *)
PutLate(acc, i) ==
  IF acc.open # <<>> /\ acc.sum > Target THEN Started(acc, i) ELSE Added(acc, i)

(* createBatches(): an article goes to the open batch unless that would be too     *)
(* much and there is something in it ...                                       *)
Put(acc, i) ==
  IF acc.open # <<>> /\ acc.sum + Tokens(i) > Target THEN Started(acc, i) ELSE Added(acc, i)

Packing[i \in 0..Len(articles)] == IF i = 0 THEN Nothing ELSE Put(Packing[i - 1], i)

(* ... and what is open at the end is a batch, too.                             *)
Packed ==
  LET end == Packing[Len(articles)]
  IN  IF end.open = <<>> THEN end.full ELSE Append(end.full, end.open)

(* The tokens of the first articles, and of a batch, which is a run of them.       *)
Upto[i \in 0..Len(articles)] == IF i = 0 THEN 0 ELSE Upto[i - 1] + Tokens(i)
Sum(b) == Upto[b[Len(b)]] - Upto[b[1] - 1]

JobTokens(plan) == FoldLeft(LAMBDA acc, b : acc + Sum(b) + FewShot, 0, plan)

(* perceive() and reason(): no articles or too many tokens, and there is no job.   *)
PlanBatches ==
  /\ stage = "found"
  /\ LET plan == Packed
     IN  IF articles = <<>> \/ JobTokens(plan) > MaxJobTokens
         THEN stage' = "refused" /\ UNCHANGED batches
         ELSE stage' = "planned" /\ batches' = plan
  /\ UNCHANGED <<mode, query, indices, articles>>

Next == Generate \/ ResolveIndices \/ Fetch \/ PlanBatches

Spec == Init /\ [][Next]_vars
-----------------------------------------------------------------------------
(* By months, a query without dates names no index that is kept by date.            *)
Unnamed(doc) == mode = "monthwise" /\ query.range = None /\ doc.home # "standalone"

(* Every document of the chosen media that the query matches is found, whatever     *)
(* index keeps it and by days or by months: only one MonthCap months or more after   *)
(* the window's first month may be missing, and by months, without dates, all that    *)
(* are kept by their date.                                                     *)
NothingMissed ==
  stage \in {"found", "planned", "refused"} =>
    \A doc \in Cluster :
      \/ doc \in Range(articles)
      \/ ~Matches(doc, query)
      \/ doc.medium \notin query.media
      \/ Unnamed(doc)
      \/ query.range # None /\ Month(doc.day) >= Month(query.range[1]) + MonthCap

EndOf(plan, k) == IF k = 0 THEN 0 ELSE plan[k][Len(plan[k])]

(* The plan takes each article once and in order, keeps to the target but for an     *)
(* article that alone is beyond it, and starts no batch earlier than it must.       *)
BatchesHold ==
  stage = "planned" =>
    /\ EndOf(batches, Len(batches)) = Len(articles)
    /\ \A k \in DOMAIN batches :
         /\ batches[k] # <<>>
         /\ \A j \in DOMAIN batches[k] : batches[k][j] = EndOf(batches, k - 1) + j
         /\ Sum(batches[k]) > Target => Len(batches[k]) = 1
         /\ k > 1 => Sum(batches[k - 1]) + Tokens(batches[k][1]) > Target
=============================================================================
