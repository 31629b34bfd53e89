---------------------------- MODULE Search_proofs ----------------------------
(***************************************************************************)
(* Proofs about Search, for any number of runs, documents, pages and retries:  *)
(* paging by search_after neither repeats nor skips, and the articles of a chat *)
(* whose runs all ended well were handed over or asked about.                 *)
(***************************************************************************)
EXTENDS Search, FiniteSetTheorems, WellFoundedInduction, TLAPS

USE SearchAssumption
-----------------------------------------------------------------------------
(* Pages.  A non-empty finite set of numbers has a greatest: take one above     *)
(* which the set holds the least.                                            *)
Above(S, d) == {e \in S : e > d}

LEMMA AboveShrinks ==
  ASSUME NEW S \in SUBSET Nat, NEW d \in S, NEW e \in S, e >= d
  PROVE  Above(S, e) \subseteq Above(S, d)
<1>1. \A f \in S : f > e => f > d
  <2> SUFFICES ASSUME NEW f \in S, f > e
               PROVE  f > d
    OBVIOUS
  <2>1. f \in Nat /\ e \in Nat /\ d \in Nat
    OBVIOUS
  <2>2. QED
    BY <2>1
<1>2. QED
  BY <1>1 DEF Above

LEMMA Greatest ==
  ASSUME NEW S \in SUBSET Nat, IsFiniteSet(S), S # {}
  PROVE  \E d \in S : Above(S, d) = {}
<1> DEFINE T == {Above(S, d) : d \in S}
<1>1. IsWellFoundedOn(StrictSubsetOrdering(S), SUBSET S)
  BY FS_StrictSubsetOrderingWellFounded, FS_FiniteSubsetsOfFinite
<1>2. T \subseteq SUBSET S /\ T # {}
  BY DEF Above
<1>3. \E U \in T : \A V \in T : <<V, U>> \notin StrictSubsetOrdering(S)
  <2> HIDE DEF T
  <2>1. QED
    BY <1>1, <1>2, WFMin
<1>4. PICK d \in S : \A e \in S : <<Above(S, e), Above(S, d)>> \notin StrictSubsetOrdering(S)
  BY <1>3
<1>5. ASSUME NEW e \in Above(S, d)
      PROVE  FALSE
  <2>1. e \in S /\ d \in Nat /\ e \in Nat /\ e > d
    BY <1>5 DEF Above
  <2>2. Above(S, e) \subseteq Above(S, d)
    BY <2>1, AboveShrinks
  <2>3. e \notin Above(S, e) /\ e \in Above(S, d)
    BY <2>1 DEF Above
  <2>4. <<Above(S, e), Above(S, d)>> \in StrictSubsetOrdering(S)
    BY <2>2, <2>3 DEF StrictSubsetOrdering, Above
  <2>5. QED
    BY <1>4, <2>1, <2>4
<1>6. QED
  BY <1>5

(* The newest of a set are in it, with all that are newer still.               *)
LEMMA NewestUpward ==
  ASSUME NEW S \in SUBSET Nat, IsFiniteSet(S), NEW n \in Nat,
         NEW d \in Newest(n, S), NEW e \in S, e >= d
  PROVE  d \in S /\ e \in Newest(n, S)
<1>1. d \in S /\ Cardinality(Above(S, d)) < n
  BY DEF Newest, Above
<1>2. Above(S, e) \subseteq Above(S, d)
  BY <1>1, AboveShrinks
<1>3. /\ Cardinality(Above(S, e)) <= Cardinality(Above(S, d))
      /\ Cardinality(Above(S, e)) \in Nat /\ Cardinality(Above(S, d)) \in Nat
  <2>1. IsFiniteSet(Above(S, d)) /\ IsFiniteSet(Above(S, e))
    BY FS_Subset DEF Above
  <2>2. QED
    BY <1>2, <2>1, FS_Subset, FS_CardinalityType
<1>4. QED
  BY <1>1, <1>3 DEF Newest, Above

(* A page that is not full is all there is: the greatest of those it leaves out *)
(* has fewer above it than a page takes.                                      *)
LEMMA NewestShort ==
  ASSUME NEW S \in SUBSET Nat, IsFiniteSet(S), NEW n \in Nat,
         Cardinality(Newest(n, S)) < n
  PROVE  Newest(n, S) = S
<1> DEFINE N == Newest(n, S)
<1>1. N \subseteq S /\ IsFiniteSet(N)
  <2>1. N \subseteq S
    BY DEF Newest
  <2>2. QED
    BY <2>1, FS_Subset
<1>2. ASSUME S \ N # {}
      PROVE  FALSE
  <2>1. (S \ N) \in SUBSET Nat /\ IsFiniteSet(S \ N)
    BY FS_Difference
  <2>2. PICK d \in S \ N : Above(S \ N, d) = {}
    BY <1>2, <2>1, Greatest
  <2>3. Above(S, d) \subseteq N
    BY <2>2 DEF Above
  <2>4. Cardinality(Above(S, d)) <= Cardinality(N) /\ Cardinality(Above(S, d)) \in Nat
          /\ Cardinality(N) \in Nat
    BY <1>1, <2>3, FS_Subset, FS_CardinalityType
  <2>5. Cardinality(Above(S, d)) < n
    BY <2>4
  <2>6. d \in N
    BY <2>5 DEF Newest, Above
  <2>7. QED
    BY <2>2, <2>6
<1>3. QED
  BY <1>1, <1>2
-----------------------------------------------------------------------------
(* What a run has fetched: distinct, all of what it found there down to the      *)
(* last, and everything once it came to the end before the page limit.         *)
Paged(x) ==
  /\ Cardinality(x.ids) = x.fetched
  /\ \A d \in x.began, e \in x.ids : d >= e => d \in x.ids
  /\ x.began \subseteq cluster
  /\ (x.pc = "reflect" \/ (x.pc = "insert" /\ x.last)) /\ x.pages < MaxPages =>
       x.began \subseteq x.ids

(* A run that has not begun has nothing, one that goes on has pages left, and    *)
(* one that inserts has something to insert.                                 *)
Going(x) ==
  /\ x.pc \in {"queued", "perceive", "reason"} => x.ids = {} /\ x.pages = 0 /\ x.inserted = 0
  /\ x.pc = "fetch" => x.pages < MaxPages
  /\ x.pc = "insert" => x.page # {} /\ (~x.last => x.pages < MaxPages)

RunsOK == \A r \in Runs : Paged(run[r]) /\ Going(run[r])

(* As long as no server died, what is stored was inserted by a run, and one that *)
(* inserted something handed over or asked.                                   *)
Inserted ==
  /\ live /\ stored # {} => \E r \in Runs : run[r].inserted > 0
  /\ \A r \in Runs : run[r].pc = "done" /\ run[r].inserted > 0 => bus # {} \/ run[r].told = "absent"

Inv == TypeOK /\ RunsOK /\ (crashes = 0 => Inserted)

LEMMA InvInit == Init => Inv
<1> SUFFICES ASSUME Init
             PROVE  Inv
  OBVIOUS
<1>1. Queued \in RunType
  BY DEF Queued, RunType, Pcs, EnrichmentTypes, Events
<1>2. Paged(Queued) /\ Going(Queued)
  BY FS_EmptySet DEF Queued, Paged, Going
<1>3. TypeOK
  BY <1>1 DEF Init, TypeOK, Kinds, EnrichmentTypes
<1>4. RunsOK
  BY <1>2 DEF Init, RunsOK
<1>5. Inserted
  BY DEF Init, Inserted, Queued
<1>6. QED
  BY <1>3, <1>4, <1>5 DEF Inv

(* A step of one run, to x.                                                  *)
LEMMA InvSet ==
  ASSUME Inv, NEW r \in Runs, NEW x \in RunType, Set(r, x),
         Paged(x), Going(x), cluster' = cluster, crashes' = crashes,
         live' = live, stored' = stored, params' = params, patches' = patches,
         bus \subseteq bus', bus' \subseteq EnrichmentTypes,
         x.inserted >= run[r].inserted,
         crashes = 0 /\ x.pc = "done" /\ x.inserted > 0 => bus' # {} \/ x.told = "absent"
  PROVE  Inv'
<1>1. /\ run' \in [Runs -> RunType] /\ run'[r] = x
      /\ \A q \in Runs : q # r => run'[q] = run[q]
  BY DEF Inv, TypeOK, Set
<1>2. TypeOK'
  BY <1>1 DEF Inv, TypeOK
<1>3. RunsOK'
  <2>1. \A q \in Runs : Paged(run'[q]) /\ Going(run'[q])
    BY <1>1 DEF Inv, RunsOK
  <2>2. QED
    BY <2>1 DEF RunsOK, Paged, Going
<1>4. ASSUME crashes' = 0
      PROVE  Inserted'
  <2>1. Inserted /\ \A q \in Runs : run[q].inserted \in Nat
    BY <1>4 DEF Inv, TypeOK, RunType
  <2>2. x.inserted \in Nat
    BY DEF RunType
  <2>3. live' /\ stored' # {} => \E q \in Runs : run'[q].inserted > 0
    BY <1>1, <2>1, <2>2 DEF Inserted
  <2>4. \A q \in Runs : run'[q].pc = "done" /\ run'[q].inserted > 0 => bus' # {} \/ run'[q].told = "absent"
    BY <1>1, <1>4, <2>1 DEF Inserted
  <2>5. QED
    BY <2>3, <2>4 DEF Inserted
<1>5. QED
  BY <1>2, <1>3, <1>4 DEF Inv

(* A run that is over keeps how much it inserted and nothing else.             *)
LEMMA OverOK ==
  ASSUME NEW x \in RunType, NEW pc \in Ended, NEW told \in Events
  PROVE  /\ Over(x, pc, told) \in RunType
         /\ Paged(Over(x, pc, told)) /\ Going(Over(x, pc, told))
         /\ Over(x, pc, told).pc = pc /\ Over(x, pc, told).told = told
         /\ Over(x, pc, told).inserted = x.inserted
<1>1. Queued \in RunType /\ Queued.ids = {} /\ Queued.fetched = 0 /\ Queued.began = {}
  BY DEF Queued, RunType, Pcs, EnrichmentTypes, Events
<1> DEFINE y == Over(x, pc, told)
<1>2. /\ y \in RunType /\ y.ids = {} /\ y.fetched = 0 /\ y.began = {}
      /\ y.pc = pc /\ y.told = told /\ y.inserted = x.inserted
  BY <1>1 DEF Over, RunType, Queued, Pcs, Ended
<1>3. Paged(y) /\ Going(y)
  <2> HIDE DEF y
  <2>1. QED
    BY <1>2, FS_EmptySet DEF Paged, Going, Ended
<1>4. QED
  BY <1>2, <1>3

LEMMA InvOver ==
  ASSUME Inv, NEW r \in Runs, NEW pc \in Ended, NEW told \in Events,
         Set(r, Over(run[r], pc, told)),
         UNCHANGED <<live, params, cluster, stored, bus, counts>>,
         run[r].inserted = 0 \/ pc = "failed" \/ told = "absent"
  PROVE  Inv'
<1> DEFINE x == Over(run[r], pc, told)
<1>1. run[r] \in RunType
  BY DEF Inv, TypeOK
<1>2. /\ x \in RunType /\ Paged(x) /\ Going(x)
      /\ x.pc = pc /\ x.told = told /\ x.inserted = run[r].inserted
  BY <1>1, OverOK
<1>3. run[r].inserted \in Nat /\ bus \subseteq EnrichmentTypes
  BY <1>1 DEF RunType, Inv, TypeOK
<1> HIDE DEF x
<1>4. Set(r, x)
  BY DEF x
<1>5. QED
  BY <1>2, <1>3, <1>4, InvSet DEF counts

(* The page a run asks for is above none of what it has, holds all that is newer *)
(* than its last, and is all that is left when it is not full.                 *)
LEMMA Page ==
  ASSUME Inv, NEW x \in RunType, Paged(x)
  PROVE  /\ PageOf(x) \subseteq cluster
         /\ PageOf(x) \cap x.ids = {}
         /\ \A e \in PageOf(x), i \in x.ids : e < i
         /\ \A d \in x.began, e \in x.ids \cup PageOf(x) : d >= e => d \in x.ids \cup PageOf(x)
         /\ Cardinality(PageOf(x)) < PageSize => x.began \subseteq x.ids \cup PageOf(x)
         /\ IsFiniteSet(PageOf(x)) /\ IsFiniteSet(x.ids)
<1> DEFINE S == {d \in cluster : \A e \in x.ids : d < e}
           P == PageOf(x)
<1>1. /\ cluster \subseteq Docs /\ x.ids \subseteq Docs /\ x.began \subseteq cluster
      /\ Docs \subseteq Nat /\ IsFiniteSet(Docs) /\ PageSize \in Nat /\ PageSize > 0
  BY DEF Inv, TypeOK, RunType, Paged
<1>2. P = Newest(PageSize, S) /\ P \subseteq S /\ S \subseteq cluster
  BY DEF PageOf, Newest
<1>3. S \in SUBSET Nat /\ IsFiniteSet(S) /\ IsFiniteSet(P) /\ IsFiniteSet(x.ids)
  BY <1>1, <1>2, FS_Subset
<1>4. \A e \in P, i \in x.ids : e < i
  BY <1>2
<1>5. P \cap x.ids = {}
  <2> SUFFICES ASSUME NEW i \in x.ids, i \in P
               PROVE  FALSE
    OBVIOUS
  <2>1. i < i /\ i \in Nat
    BY <1>1, <1>4
  <2>2. QED
    BY <2>1
<1>6. \A d \in x.began : d \in S \/ d \in x.ids
  <2> SUFFICES ASSUME NEW d \in x.began, d \notin S
               PROVE  d \in x.ids
    OBVIOUS
  <2>1. PICK i \in x.ids : ~(d < i)
    BY <1>1
  <2>2. d \in Nat /\ i \in Nat
    BY <1>1
  <2>3. QED
    BY <2>1, <2>2 DEF Paged
<1>7. ASSUME NEW d \in x.began, NEW e \in x.ids \cup P, d >= e
      PROVE  d \in x.ids \cup P
  <2>1. CASE d \in x.ids \/ e \in x.ids
    BY <1>7, <2>1 DEF Paged
  <2>2. CASE d \in S /\ e \in P
    <3> HIDE DEF S, P
    <3>1. QED
      BY <1>2, <1>3, <1>1, <1>7, <2>2, NewestUpward
  <2>3. QED
    BY <1>6, <2>1, <2>2
<1>8. ASSUME Cardinality(P) < PageSize
      PROVE  x.began \subseteq x.ids \cup P
  <2>1. P = S
    <3> HIDE DEF S, P
    <3>1. QED
      BY <1>1, <1>2, <1>3, <1>8, NewestShort
  <2>2. QED
    BY <2>1, <1>6
<1>9. P \subseteq cluster
  BY <1>2
<1> HIDE DEF S, P
<1>10. QED
  BY <1>3, <1>4, <1>5, <1>7, <1>8, <1>9 DEF P
-----------------------------------------------------------------------------
LEMMA InvFetch ==
  ASSUME Inv, NEW r \in Runs, Fetch(r)
  PROVE  Inv'
<1> DEFINE x == run[r]
           hits == PageOf(x)
           n == Cardinality(hits)
           pc == IF hits = {} THEN "reflect" ELSE "insert"
           last == n < PageSize \/ x.pages + 1 >= MaxPages
           y == [x EXCEPT
                   !.pc = pc, !.pages = @ + 1, !.tries = 0,
                   !.ids = @ \cup hits, !.fetched = @ + n, !.page = hits, !.last = last]
<1>1. /\ x \in RunType /\ Paged(x) /\ Going(x) /\ x.pc = "fetch"
      /\ cluster \subseteq Docs /\ x.inserted \in Nat
  BY DEF Inv, TypeOK, RunsOK, Fetch, RunType
<1>2. Set(r, y) /\ UNCHANGED <<live, params, cluster, stored, bus, counts>>
  BY DEF Fetch
<1>3. /\ hits \subseteq cluster /\ hits \cap x.ids = {}
      /\ \A d \in x.began, e \in x.ids \cup hits : d >= e => d \in x.ids \cup hits
      /\ Cardinality(hits) < PageSize => x.began \subseteq x.ids \cup hits
      /\ IsFiniteSet(hits) /\ IsFiniteSet(x.ids)
  BY <1>1, Page
<1> HIDE DEF x, hits
<1>4. /\ Cardinality(x.ids \cup hits) = x.fetched + n
      /\ n \in Nat
      /\ hits = {} => n < PageSize
  <2>1. x.ids \cap hits = {} /\ Cardinality({}) = 0
    BY <1>3, FS_EmptySet
  <2>2. n \in Nat /\ Cardinality(x.ids) \in Nat
    BY <1>3, FS_CardinalityType
  <2>3. Cardinality(x.ids \cup hits)
          = Cardinality(x.ids) + Cardinality(hits) - Cardinality(x.ids \cap hits)
    BY <1>3, FS_Union
  <2>4. Cardinality(x.ids \cup hits) = x.fetched + n
    <3>1. Cardinality(x.ids) = x.fetched
      BY <1>1 DEF Paged
    <3>2. Cardinality(x.ids \cap hits) = 0
      BY <2>1
    <3>3. QED
      BY <2>2, <2>3, <3>1, <3>2
  <2>5. hits = {} => n < PageSize
    BY <2>1
  <2>6. QED
    BY <2>2, <2>4, <2>5
<1>5. x.pages < MaxPages /\ x.pages \in Nat /\ MaxPages \in Nat /\ Retries - 1 \in Nat
  BY <1>1 DEF Going, RunType
<1>6. /\ pc = "reflect" => n < PageSize
      /\ pc \in {"reflect", "insert"} /\ (pc = "insert" => hits # {})
  BY <1>4
<1>7. last \in BOOLEAN /\ (last <=> n < PageSize \/ x.pages + 1 >= MaxPages)
  OBVIOUS
<1> HIDE DEF pc, last, n
<1>8. /\ y \in RunType
      /\ y.pc = pc /\ y.pages = x.pages + 1 /\ y.ids = x.ids \cup hits
      /\ y.fetched = x.fetched + n /\ y.page = hits /\ y.last = last
      /\ y.inserted = x.inserted /\ y.began = x.began
  <2>1. /\ pc \in Pcs /\ x.pages + 1 \in 0..MaxPages /\ 0 \in 0..(Retries - 1)
        /\ x.ids \cup hits \in SUBSET Docs /\ x.fetched + n \in Nat /\ hits \in SUBSET Docs
    <3>1. pc \in Pcs
      BY <1>6 DEF Pcs
    <3>2. x.pages + 1 \in 0..MaxPages /\ 0 \in 0..(Retries - 1)
      BY <1>5
    <3>3. x.ids \in SUBSET Docs /\ x.fetched \in Nat
      BY <1>1 DEF RunType
    <3>4. hits \in SUBSET Docs /\ x.ids \cup hits \in SUBSET Docs
      BY <1>1, <1>3, <3>3
    <3>5. x.fetched + n \in Nat
      BY <1>4, <3>3
    <3>6. QED
      BY <3>1, <3>2, <3>4, <3>5
  <2>2. QED
    BY <1>1, <1>7, <2>1 DEF RunType
<1> HIDE DEF y
<1>9. Paged(y)
  <2>1. Cardinality(y.ids) = y.fetched /\ y.began \subseteq cluster
    BY <1>1, <1>4, <1>8 DEF Paged
  <2>2. \A d \in y.began, e \in y.ids : d >= e => d \in y.ids
    BY <1>3, <1>8
  <2>3. ASSUME (y.pc = "reflect") \/ (y.pc = "insert" /\ y.last), y.pages < MaxPages
        PROVE  y.began \subseteq y.ids
    <3>1. n < PageSize
      BY <1>5, <1>6, <1>7, <1>8, <2>3
    <3>2. QED
      BY <1>3, <1>8, <3>1 DEF n
  <2>4. QED
    BY <2>1, <2>2, <2>3 DEF Paged
<1>10. Going(y)
  BY <1>5, <1>6, <1>7, <1>8 DEF Going
<1>11. y.pc # "done" /\ bus \subseteq EnrichmentTypes /\ y.inserted >= run[r].inserted
  BY <1>1, <1>6, <1>8 DEF Inv, TypeOK, x
<1>12. Set(r, y) /\ UNCHANGED <<live, params, cluster, stored, bus, counts>>
  BY <1>2 DEF y, pc, last, n
<1>13. QED
  BY <1>8, <1>9, <1>10, <1>11, <1>12, InvSet DEF counts

LEMMA InvInsert ==
  ASSUME Inv, NEW r \in Runs, Insert(r)
  PROVE  Inv'
<1> DEFINE x == run[r]
<1>1. CASE StopTold(r) /\ UNCHANGED stored
  BY <1>1, InvOver DEF Insert, StopTold, Ended, Events
<1>2. CASE ~(StopTold(r) /\ UNCHANGED stored)
  <2> DEFINE n == Cardinality(Fresh(x.page))
             pc == IF x.last THEN "reflect" ELSE "fetch"
             y == [x EXCEPT !.pc = pc, !.inserted = @ + n, !.page = {}]
  <2>1. /\ live /\ stored' = stored \cup x.page /\ Set(r, y) /\ x.pc = "insert"
        /\ UNCHANGED <<live, params, cluster, bus, counts>>
    BY <1>2 DEF Insert
  <2>2. /\ x \in RunType /\ Paged(x) /\ Going(x) /\ x.page \subseteq Docs
        /\ IsFiniteSet(Docs) /\ stored \subseteq Docs
    BY DEF Inv, TypeOK, RunsOK, RunType
  <2>3. n \in Nat /\ (stored = {} => n > 0)
    <3>1. IsFiniteSet(x.page) /\ IsFiniteSet(Fresh(x.page))
      BY <2>2, FS_Subset DEF Fresh
    <3>2. stored = {} => Fresh(x.page) # {}
      BY <2>1, <2>2 DEF Going, Fresh
    <3>3. QED
      BY <3>1, <3>2, FS_CardinalityType, FS_EmptySet
  <2>4. x.inserted \in Nat /\ x.pages <= MaxPages
    BY <2>2 DEF RunType
  <2> HIDE DEF x, n
  <2>5. (pc = "reflect" /\ x.last) \/ (pc = "fetch" /\ ~x.last)
    <3>1. CASE x.last
      BY <3>1
    <3>2. CASE ~x.last
      BY <3>2
    <3>3. QED
      BY <3>1, <3>2
  <2> HIDE DEF pc
  <2>6. /\ y \in RunType
        /\ y.pc = pc /\ y.inserted = x.inserted + n
        /\ y.ids = x.ids /\ y.fetched = x.fetched /\ y.began = x.began /\ y.pages = x.pages
    <3>1. pc \in Pcs /\ x.inserted + n \in Nat
      BY <2>3, <2>4, <2>5 DEF Pcs
    <3>2. QED
      BY <2>2, <3>1 DEF RunType
  <2>12. Set(r, y)
    BY <2>1
  <2> HIDE DEF y
  <2>7. Paged(y) /\ Going(y)
    BY <2>1, <2>2, <2>5, <2>6 DEF Paged, Going
  <2>8. /\ run' \in [Runs -> RunType] /\ run'[r] = y
        /\ \A q \in Runs : q # r => run'[q] = run[q]
    BY <2>6, <2>12 DEF Inv, TypeOK, Set
  <2>9. TypeOK'
    BY <2>1, <2>2, <2>8 DEF Inv, TypeOK, counts
  <2>10. RunsOK'
    <3>1. \A q \in Runs : Paged(run'[q]) /\ Going(run'[q])
      BY <2>7, <2>8 DEF Inv, RunsOK
    <3>2. QED
      BY <2>1, <3>1 DEF RunsOK, Paged, Going
  <2>11. ASSUME crashes' = 0
         PROVE  Inserted'
    <3>1. Inserted /\ \A q \in Runs : run[q].inserted \in Nat
      BY <2>1, <2>11 DEF Inv, TypeOK, RunType, counts
    <3>2. \E q \in Runs : run'[q].inserted > 0
      <4>1. CASE stored = {}
        BY <2>3, <2>4, <2>6, <2>8, <4>1
      <4>2. CASE stored # {}
        <5>1. PICK q \in Runs : run[q].inserted > 0
          BY <2>1, <3>1, <4>2 DEF Inserted
        <5>2. run'[q].inserted > 0
          BY <2>3, <2>4, <2>6, <2>8, <3>1, <5>1 DEF x
        <5>3. QED
          BY <5>2
      <4>3. QED
        BY <4>1, <4>2
    <3>3. \A q \in Runs : run'[q].pc = "done" /\ run'[q].inserted > 0 => bus' # {} \/ run'[q].told = "absent"
      BY <2>1, <2>5, <2>6, <2>8, <3>1 DEF Inserted
    <3>4. QED
      BY <3>2, <3>3 DEF Inserted
  <2>13. QED
    BY <2>9, <2>10, <2>11 DEF Inv
<1>3. QED
  BY <1>1, <1>2
-----------------------------------------------------------------------------
(* A step that moves the run on and leaves what it fetched as it is.           *)
LEMMA InvOn ==
  ASSUME Inv, NEW r \in Runs, NEW x \in RunType, Set(r, x),
         UNCHANGED <<live, params, cluster, stored, bus, counts>>,
         x.ids = run[r].ids, x.fetched = run[r].fetched,
         x.began \subseteq cluster, x.ids = {} \/ x.began = run[r].began,
         x.pc \notin {"insert", "reflect"},
         x.pc = "done" => x.inserted = 0,
         x.inserted = run[r].inserted, Going(x)
  PROVE  Inv'
<1>1. run[r] \in RunType /\ Paged(run[r]) /\ bus \subseteq EnrichmentTypes
  BY DEF Inv, TypeOK, RunsOK
<1>2. Paged(x)
  BY <1>1 DEF Paged
<1>3. x.inserted \in Nat /\ ~(x.inserted > 0 /\ x.inserted = 0)
  BY DEF RunType
<1>4. QED
  BY <1>1, <1>2, <1>3, InvSet DEF counts

LEMMA InvTake ==
  ASSUME Inv, NEW r \in Runs, Take(r)
  PROVE  Inv'
<1> DEFINE x == run[r]
           pc == IF live /\ params.source = "opensearch" THEN "perceive" ELSE "done"
           y == [x EXCEPT !.pc = pc]
<1>1. Set(r, y) /\ x.pc = "queued" /\ UNCHANGED <<live, params, cluster, stored, bus, counts>>
  BY DEF Take
<1>2. x \in RunType /\ Paged(x) /\ Going(x)
  BY DEF Inv, TypeOK, RunsOK
<1>3. pc \in {"perceive", "done"}
  OBVIOUS
<1> HIDE DEF x, pc
<1>4. /\ y \in RunType /\ y.pc = pc /\ y.ids = x.ids /\ y.fetched = x.fetched
      /\ y.began = x.began /\ y.inserted = x.inserted /\ y.pages = x.pages
  BY <1>2, <1>3 DEF RunType, Pcs
<1> HIDE DEF y
<1>5. Going(y) /\ y.inserted = 0 /\ y.began \subseteq cluster
  BY <1>1, <1>2, <1>3, <1>4 DEF Going, Paged
<1>6. QED
  BY <1>1, <1>3, <1>4, <1>5, InvOn DEF x

LEMMA InvPerceive ==
  ASSUME Inv, NEW r \in Runs, Perceive(r)
  PROVE  Inv'
<1>1. CASE Stop(r)
  BY <1>1, InvOver DEF Perceive, Stop, Ended, Events
<1>2. CASE ~Stop(r)
  <2> DEFINE x == run[r]
             y == [x EXCEPT !.pc = "reason", !.type = params.type]
  <2>1. Set(r, y) /\ x.pc = "perceive" /\ UNCHANGED <<live, params, cluster, stored, bus, counts>>
    BY <1>2 DEF Perceive
  <2>2. x \in RunType /\ Paged(x) /\ Going(x) /\ params.type \in EnrichmentTypes
    BY DEF Inv, TypeOK, RunsOK
  <2> HIDE DEF x
  <2>3. /\ y \in RunType /\ y.pc = "reason" /\ y.ids = x.ids /\ y.fetched = x.fetched
        /\ y.began = x.began /\ y.inserted = x.inserted /\ y.pages = x.pages
    BY <2>2 DEF RunType, Pcs
  <2> HIDE DEF y
  <2>4. Going(y) /\ y.began \subseteq cluster
    BY <2>1, <2>2, <2>3 DEF Going, Paged
  <2>5. QED
    BY <2>1, <2>3, <2>4, InvOn DEF x
<1>3. QED
  BY <1>1, <1>2

LEMMA InvReason ==
  ASSUME Inv, NEW r \in Runs, Reason(r)
  PROVE  Inv'
<1>1. CASE StopTold(r)
  BY <1>1, InvOver DEF Reason, StopTold, Ended, Events
<1>2. CASE ~StopTold(r)
  <2> DEFINE x == run[r]
             y == [x EXCEPT !.pc = "fetch", !.began = cluster]
  <2>1. Set(r, y) /\ x.pc = "reason" /\ UNCHANGED <<live, params, cluster, stored, bus, counts>>
    BY <1>2 DEF Reason
  <2>2. x \in RunType /\ Paged(x) /\ Going(x) /\ cluster \in SUBSET Docs
    BY DEF Inv, TypeOK, RunsOK
  <2> HIDE DEF x
  <2>3. /\ y \in RunType /\ y.pc = "fetch" /\ y.ids = x.ids /\ y.fetched = x.fetched
        /\ y.began = cluster /\ y.inserted = x.inserted /\ y.pages = x.pages
    BY <2>2 DEF RunType, Pcs
  <2> HIDE DEF y
  <2>4. Going(y) /\ y.ids = {}
    BY <2>1, <2>2, <2>3 DEF Going
  <2>5. QED
    BY <2>1, <2>3, <2>4, InvOn DEF x
<1>3. QED
  BY <1>1, <1>2

LEMMA InvFetchFails ==
  ASSUME Inv, NEW r \in Runs, FetchFails(r)
  PROVE  Inv'
<1>1. CASE StopTold(r)
  BY <1>1, InvOver DEF FetchFails, StopTold, Ended, Events
<1>2. CASE ~StopTold(r)
  <2> DEFINE x == run[r]
             y == [x EXCEPT !.tries = @ + 1]
  <2>1. /\ Set(r, y) /\ x.pc = "fetch" /\ x.tries + 1 < Retries
        /\ UNCHANGED <<live, params, cluster, stored, bus, counts>>
    BY <1>2 DEF FetchFails
  <2>2. x \in RunType /\ Paged(x) /\ Going(x)
    BY DEF Inv, TypeOK, RunsOK
  <2>3. x.tries + 1 \in 0..(Retries - 1)
    BY <2>1, <2>2 DEF RunType
  <2> HIDE DEF x
  <2>4. /\ y \in RunType /\ y.pc = x.pc /\ y.ids = x.ids /\ y.fetched = x.fetched
        /\ y.began = x.began /\ y.inserted = x.inserted /\ y.pages = x.pages
    BY <2>2, <2>3 DEF RunType
  <2> HIDE DEF y
  <2>5. Going(y) /\ y.began \subseteq cluster
    BY <2>1, <2>2, <2>4 DEF Going, Paged
  <2>6. QED
    BY <2>1, <2>4, <2>5, InvOn DEF x
<1>3. QED
  BY <1>1, <1>2

LEMMA InvReflect ==
  ASSUME Inv, NEW r \in Runs, Reflect(r)
  PROVE  Inv'
<1> DEFINE x == run[r]
           y == [x EXCEPT !.pc = "finish"]
<1>1. CASE \E pc \in {"done", "failed"} : Set(r, Over(run[r], pc, "absent"))
  <2>1. PICK pc \in {"done", "failed"} : Set(r, Over(run[r], pc, "absent"))
    BY <1>1
  <2>2. QED
    BY <2>1, InvOver DEF Reflect, Ended, Events
<1>2. CASE Set(r, y)
  <2>1. x \in RunType /\ Paged(x) /\ Going(x) /\ Set(r, y)
    BY <1>2 DEF Inv, TypeOK, RunsOK
  <2> HIDE DEF x
  <2>2. /\ y \in RunType /\ y.pc = "finish" /\ y.ids = x.ids /\ y.fetched = x.fetched
        /\ y.began = x.began /\ y.inserted = x.inserted
    BY <2>1 DEF RunType, Pcs
  <2> HIDE DEF y
  <2>3. Going(y) /\ y.began \subseteq cluster
    BY <2>1, <2>2 DEF Going, Paged
  <2>4. QED
    BY <2>1, <2>2, <2>3, InvOn DEF Reflect, x
<1>3. QED
  BY <1>1, <1>2 DEF Reflect

LEMMA InvFinish ==
  ASSUME Inv, NEW r \in Runs, Finish(r)
  PROVE  Inv'
<1> DEFINE x == run[r]
           y == [x EXCEPT !.pc = "handover", !.told = "complete"]
<1>1. x \in RunType /\ Paged(x) /\ Going(x) /\ x.inserted \in Nat
  BY DEF Inv, TypeOK, RunsOK, RunType
<1>2. CASE ~(x.inserted > 0)
  <2>1. x.inserted = 0 /\ Set(r, Over(x, "done", "complete"))
    BY <1>1, <1>2 DEF Finish
  <2>2. QED
    BY <2>1, InvOver DEF Finish, Ended, Events
<1>3. CASE x.inserted > 0
  <2>1. Set(r, y) /\ UNCHANGED <<live, params, cluster, stored, bus, counts>>
    BY <1>3 DEF Finish
  <2> HIDE DEF x
  <2>2. /\ y \in RunType /\ y.pc = "handover" /\ y.ids = x.ids /\ y.fetched = x.fetched
        /\ y.began = x.began /\ y.inserted = x.inserted
    BY <1>1 DEF RunType, Pcs, Events
  <2> HIDE DEF y
  <2>3. Going(y) /\ y.began \subseteq cluster
    BY <1>1, <2>2 DEF Going, Paged
  <2>4. QED
    BY <2>1, <2>2, <2>3, InvOn DEF x
<1>4. QED
  BY <1>2, <1>3

LEMMA InvHandOver ==
  ASSUME Inv, NEW r \in Runs, HandOver(r)
  PROVE  Inv'
<1> DEFINE x == Over(run[r], "done", "complete")
<1>1. run[r] \in RunType /\ run[r].inserted \in Nat
  BY DEF Inv, TypeOK, RunType
<1>2. /\ x \in RunType /\ Paged(x) /\ Going(x)
      /\ x.inserted = run[r].inserted
  BY <1>1, OverOK DEF Ended, Events
<1>3. bus' # {} /\ bus \subseteq bus' /\ bus' \subseteq EnrichmentTypes
  BY <1>1 DEF HandOver, Inv, TypeOK, RunType
<1>4. Set(r, x) /\ UNCHANGED <<live, params, cluster, stored, counts>>
  BY DEF HandOver
<1> HIDE DEF x
<1>5. QED
  BY <1>1, <1>2, <1>3, <1>4, InvSet DEF counts
-----------------------------------------------------------------------------
LEMMA InvCrash ==
  ASSUME Inv, Crash
  PROVE  Inv'
<1>1. Queued \in RunType /\ Paged(Queued) /\ Going(Queued)
  <2>1. Queued \in RunType
    BY DEF Queued, RunType, Pcs, EnrichmentTypes, Events
  <2>2. QED
    BY <2>1, FS_EmptySet DEF Queued, Paged, Going
<1>2. \A r \in Runs : run'[r] \in {Queued, run[r]}
  BY DEF Crash
<1>3. run' \in [Runs -> RunType]
  BY <1>1 DEF Crash, Inv, TypeOK
<1>4. crashes' # 0 /\ TypeOK'
  BY <1>3 DEF Crash, Inv, TypeOK
<1>5. RunsOK'
  <2>1. \A r \in Runs : Paged(run'[r]) /\ Going(run'[r])
    BY <1>1, <1>2 DEF Inv, RunsOK
  <2>2. QED
    BY <2>1 DEF RunsOK, Paged, Going, Crash
<1>6. QED
  BY <1>4, <1>5 DEF Inv

(* The cluster only gains documents, which no property of a run minds.          *)
LEMMA InvAround ==
  ASSUME Inv, cluster \subseteq cluster', UNCHANGED <<run, bus, crashes>>,
         live' => live /\ stored' = stored, TypeOK'
  PROVE  Inv'
<1>1. RunsOK'
  <2>1. \A r \in Runs : Paged(run[r])' /\ Going(run[r])'
    BY DEF Inv, RunsOK, Paged, Going
  <2>2. QED
    BY <2>1 DEF RunsOK
<1>2. crashes' = 0 => Inserted'
  BY DEF Inv, Inserted
<1>3. QED
  BY <1>1, <1>2 DEF Inv

LEMMA InvNext ==
  ASSUME Inv, [Next]_vars
  PROVE  Inv'
<1>1. ASSUME NEW r \in Runs, Step(r)
      PROVE  Inv'
  BY <1>1, InvTake, InvPerceive, InvReason, InvFetch, InvFetchFails, InvInsert,
     InvReflect, InvFinish, InvHandOver DEF Step
<1>2. CASE Crash
  BY <1>2, InvCrash
<1>3. ASSUME NEW d \in Docs, Index(d)
      PROVE  Inv'
  <2>1. TypeOK'
    BY <1>3 DEF Index, Inv, TypeOK, counts
  <2>2. QED
    BY <1>3, <2>1, InvAround DEF Index, counts
<1>4. CASE PatchParams
  <2>1. TypeOK'
    BY <1>4 DEF PatchParams, Inv, TypeOK
  <2>2. QED
    BY <1>4, <2>1, InvAround DEF PatchParams
<1>5. CASE DeleteChat
  <2>1. TypeOK'
    BY <1>5 DEF DeleteChat, Inv, TypeOK, counts
  <2>2. QED
    BY <1>5, <2>1, InvAround DEF DeleteChat, counts
<1>6. CASE UNCHANGED vars
  <2>1. TypeOK'
    BY <1>6 DEF vars, Inv, TypeOK, counts
  <2>2. QED
    BY <1>6, <2>1, InvAround DEF vars, counts
<1>7. QED
  BY <1>1, <1>2, <1>3, <1>4, <1>5, <1>6 DEF Next

LEMMA InvAlways == Spec => []Inv
BY InvInit, InvNext, PTL DEF Spec
-----------------------------------------------------------------------------
(* Search's TypeOK: a run scans at most MaxPages pages and makes at most         *)
(* Retries calls for one.                                                    *)
THEOREM TypeCorrect == Spec => []TypeOK
<1>1. Inv => TypeOK
  BY DEF Inv
<1>2. QED
  BY <1>1, InvAlways, PTL

(* However the cluster grows while a run pages through it, no document comes     *)
(* twice, none down to the last is skipped, and at the end, unless the page       *)
(* limit is met, the run has all that were there as it began.                  *)
THEOREM PagingIsComplete == Spec => []FetchIsComplete
<1>1. Inv => FetchIsComplete
  <2> SUFFICES ASSUME Inv, NEW r \in Runs
               PROVE  LET x == run[r]
                          reached == {d \in x.began : \E e \in x.ids : d >= e}
                      IN  /\ Cardinality(x.ids) = x.fetched
                          /\ reached \subseteq x.ids
                          /\ x.pc = "reflect" /\ x.pages < MaxPages => x.began \subseteq x.ids
    BY DEF FetchIsComplete
  <2>1. Paged(run[r])
    BY DEF Inv, RunsOK
  <2>2. QED
    BY <2>1 DEF Paged
<1>2. QED
  BY <1>1, InvAlways, PTL

(* When every run of a chat has ended well and no server died, what the chat     *)
(* has stored was handed to enrichment, or the user is asked about reach.       *)
THEOREM NoneStranded == Spec => []NothingStranded
<1>1. Inv => NothingStranded
  BY DEF Inv, Inserted, NothingStranded
<1>2. QED
  BY <1>1, InvAlways, PTL
=============================================================================
