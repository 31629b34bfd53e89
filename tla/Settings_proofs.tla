--------------------------- MODULE Settings_proofs ---------------------------
(***************************************************************************)
(* Proofs about Settings, for any number of users and open tabs: the switch of *)
(* a skill shows what is stored, a save of the model leaves the default it      *)
(* chose, and no save undoes what was saved before.  At the end Override, the    *)
(* connection panel of the same page: what was saved last is in force.          *)
(***************************************************************************)
EXTENDS SettingsPage, SequenceTheorems, FiniteSetTheorems, TLAPS

USE SettingsAssumption

ReqPcs == {"idle", "save", "clear", "write", "custom", "join",
           "create", "patch", "open", "reload", "listed", "look", "delete", "read", "note"}
RowReqs == {"create", "patch", "open", "reload", "listed", "look", "delete", "read", "note"}
Reqs == [pc : ReqPcs, kind : Kinds \cup {None}, id : Nat \cup {None},
         cleared : SUBSET Nat, met : BOOLEAN]
ReqType == {r \in Reqs : /\ r.pc \in RowReqs => r.kind \in Kinds
                         /\ r.pc = "create" => r.id = None
                         /\ r.pc = "open" => r.kind \in Modals}
SavePcs == {"clear", "write"}

Flights == [pc : {"toggle", "reload", "arrive"}, to : BOOLEAN]

(* A client that met no other: with nothing under way it shows what is stored, if its *)
(* last toggle or reload came through; what is under way will store what is shown, or *)
(* brings what is stored; and no other tab of the user is about it.                *)
SwitchOf(c) ==
  /\ flights[c] = <<>> /\ c \notin astray => shown[c] = Stored(User(c))
  /\ flights[c] # <<>> =>
       /\ Len(flights[c]) = 1
       /\ flights[c][1].pc = "toggle" => flights[c][1].to = shown[c]
       /\ flights[c][1].pc = "arrive" => flights[c][1].to = Stored(User(c))
  /\ \A d \in Clients : d # c /\ User(d) = User(c) => flights[d] = <<>>

SwitchOK ==
  /\ shown \in [Clients -> BOOLEAN]
  /\ switch \in [Users -> BOOLEAN \cup {None}]
  /\ flights \in [Clients -> Seq(Flights)]
  /\ \A c \in Clients : c \notin crossed => SwitchOf(c)

(* A save knows the row it found, which stays, and one that met no other has      *)
(* cleared all that is a default when it writes.                              *)
SaveOf(c) ==
  req[c].pc \in SavePcs =>
    /\ req[c].id # None => req[c].id \in DOMAIN models[User(c)]
    /\ req[c].pc = "write" /\ ~req[c].met => req[c].cleared = Defaults(User(c))
    /\ \A d \in Clients : d # c /\ User(d) = User(c) /\ req[d].pc \in SavePcs => req[c].met

ModelsOK ==
  /\ models \in [Users -> Seq(BOOLEAN)]
  /\ req \in [Clients -> ReqType]
  /\ \A c \in Clients : SaveOf(c)

(* Rows are numbered upwards, and a client knows none that is not there yet.       *)
SaveReqs == {"patch", "open", "reload", "listed"}
Draws(c, i) == req[c].pc \in SaveReqs /\ req[c].id = i

Below(D) == \A i \in D : i \in Nat /\ i < next

NumbersOf(c) ==
  /\ Below(DOMAIN list[c])
  /\ Below(DOMAIN copy[c])
  /\ HasLate(c) => Below(DOMAIN late[c].read)
  /\ late[c] # None => late[c].kind \in Kinds
  /\ req[c].pc \in SaveReqs /\ req[c].id # None => Below({req[c].id})

(* What a client knows of a row has the row's kind; and unless it slipped, all that *)
(* it shows, has read or is about to send has every edit that is stored, but for a   *)
(* modal whose save is stored and whose list is still to be read or to arrive.       *)
KindOf(c, i) ==
  /\ i \in DOMAIN list[c] => list[c][i].kind = rows[i].kind
  /\ HasLate(c) /\ i \in DOMAIN late[c].read =>
       late[c].kind = rows[i].kind /\ late[c].read[i].kind = rows[i].kind
  /\ req[c].pc = "listed" /\ i \in DOMAIN copy[c] =>
       req[c].kind = rows[i].kind /\ copy[c][i].kind = rows[i].kind
  /\ Draws(c, i) => /\ req[c].kind = rows[i].kind
                    /\ late[c] # None => i \in DOMAIN list[c]

Closing(c, i) == /\ req[c].pc \in {"reload", "listed"}
                 /\ req[c].id = i
                 /\ req[c].kind \in Modals

HasAll(c, i) ==
  /\ i \in DOMAIN list[c] => rows[i].edits \subseteq list[c][i].text \/ Closing(c, i)
  /\ HasLate(c) /\ i \in DOMAIN late[c].read => rows[i].edits \subseteq late[c].read[i].text
  /\ req[c].pc \in {"patch", "open"} /\ req[c].id = i => rows[i].edits \subseteq draft[c]
  /\ req[c].pc = "listed" /\ i \in DOMAIN copy[c] => rows[i].edits \subseteq copy[c][i].text

(* A card shows what it is sending.                                          *)
CardOf(c, i) ==
  /\ req[c].pc = "patch"
  /\ req[c].id = i
  /\ req[c].kind \in Cards
  /\ i \in DOMAIN list[c]
  => draft[c] \subseteq list[c][i].text

TextOf(c) ==
  \A i \in DOMAIN rows : /\ KindOf(c, i)
                         /\ CardOf(c, i)
                         /\ <<c, i>> \notin slipped => HasAll(c, i)

RowForm(r) == r = [kind |-> r.kind, owner |-> r.owner, edits |-> r.edits, verdict |-> r.verdict]

RowsOK ==
  /\ next \in Nat
  /\ \A i \in DOMAIN rows : i \in Nat /\ i < next /\ RowForm(rows[i])
  /\ DOMAIN list = Clients /\ DOMAIN late = Clients
  /\ DOMAIN draft = Clients /\ DOMAIN copy = Clients
  /\ \A c \in Clients : NumbersOf(c) /\ TextOf(c)

Inv == SwitchOK /\ ModelsOK /\ RowsOK

LEMMA IdleType == Idle \in ReqType /\ Idle.pc = "idle"
BY DEF Idle, ReqType, Reqs, RowReqs, ReqPcs

LEMMA UpToCount == \A n \in Nat : IsFiniteSet(1..n) /\ Cardinality(1..n) = n
<1> SUFFICES ASSUME NEW n \in Nat
             PROVE  IsFiniteSet(1..n) /\ Cardinality(1..n) = n
  OBVIOUS
<1>1. 1 \in Int /\ n \in Int /\ (1 > n => n = 0) /\ n - 1 + 1 = n
  OBVIOUS
<1>2. QED
  BY <1>1, FS_Interval

LEMMA InvInit == Init => Inv
<1> SUFFICES ASSUME Init
             PROVE  Inv
  OBVIOUS
<1>1. SwitchOK
  <2>1. \A c \in Clients : SwitchOf(c)
    <3> SUFFICES ASSUME NEW c \in Clients
                 PROVE  SwitchOf(c)
      OBVIOUS
    <3>1. User(c) \in Users /\ switch[User(c)] = None
      BY DEF Init, User
    <3>2. Stored(User(c)) = FALSE
      BY <3>1 DEF Stored
    <3>3. QED
      BY <3>2 DEF Init, SwitchOf
  <2>2. QED
    BY <2>1 DEF Init, SwitchOK
<1>2. ModelsOK
  BY IdleType DEF Init, ModelsOK, SaveOf, SavePcs
<1>3. RowsOK
  <2>1. PICK n \in 0..MaxRows :
          Seeded \in [1..n -> [kind : Kinds, owner : Users \cup {None}, edits : {{}}, verdict : {None}]]
    OBVIOUS
  <2>n. n \in Nat
    OBVIOUS
  <2>2. Cardinality(1..n) = n
    BY <2>n, UpToCount
  <2>3. rows = Seeded /\ DOMAIN rows = 1..n /\ next = n + 1
    BY <2>1, <2>2 DEF Init
  <2>4. \A i \in DOMAIN rows : /\ i \in Nat /\ i < next /\ RowForm(rows[i]) /\ rows[i].edits = {}
    BY <2>1, <2>n, <2>3 DEF RowForm
  <2>5. ASSUME NEW c \in Clients
        PROVE  NumbersOf(c) /\ TextOf(c)
    <3>1. /\ \A i \in DOMAIN list[c] : i \in DOMAIN rows /\ list[c][i].kind = rows[i].kind
          /\ late[c] = None /\ copy[c] = <<>> /\ req[c] = Idle
      BY <2>3 DEF Init
    <3>2. DOMAIN copy[c] = {}
      BY <3>1
    <3>3. NumbersOf(c)
      BY <2>4, <3>1, <3>2, IdleType DEF NumbersOf, Below, HasLate, SaveReqs
    <3>4. \A i \in DOMAIN rows : KindOf(c, i)
      BY <3>1, IdleType DEF KindOf, HasLate, SaveReqs, Draws
    <3>5. \A i \in DOMAIN rows : HasAll(c, i)
      BY <2>4, <3>1, IdleType DEF HasAll, HasLate
    <3>6. QED
      BY <3>1, <3>3, <3>4, <3>5, IdleType DEF TextOf, CardOf
  <2>6. QED
    BY <2>3, <2>4, <2>5, <2>n DEF Init, RowsOK
<1>4. QED
  BY <1>1, <1>2, <1>3 DEF Inv
-----------------------------------------------------------------------------
SwitchVars == <<switch, shown, flights, astray, crossed>>

LEMMA SwitchKept ==
  ASSUME SwitchOK, UNCHANGED SwitchVars
  PROVE  SwitchOK'
BY DEF SwitchOK, SwitchOf, SwitchVars, Stored, User

(* A step of a client that is not saving, or stops.                           *)
LEMMA ReqStep ==
  ASSUME ModelsOK, NEW c \in Clients, NEW q \in ReqType, Become(c, q),
         q.pc \notin SavePcs, UNCHANGED models
  PROVE  ModelsOK'
<1>1. /\ req' \in [Clients -> ReqType] /\ req'[c] = q
      /\ \A d \in Clients : d # c => req'[d] = req[d]
  BY DEF ModelsOK, Become
<1>2. \A d \in Clients : SaveOf(d)'
  BY <1>1 DEF ModelsOK, SaveOf, Defaults, User
<1>3. QED
  BY <1>1, <1>2 DEF ModelsOK

LEMMA ModelsKept ==
  ASSUME ModelsOK, UNCHANGED <<models, req>>
  PROVE  ModelsOK'
BY DEF ModelsOK, SaveOf, Defaults, User

(* A client whose part of the lists stays, whatever others do: what they save, it    *)
(* does not have.                                                            *)
SameReq(c) ==
  req[c].pc \in SaveReqs \/ req'[c].pc \in SaveReqs =>
    req'[c].pc = req[c].pc /\ req'[c].id = req[c].id /\ req'[c].kind = req[c].kind

LEMMA ListStays ==
  ASSUME RowsOK, NEW c \in Clients, SameReq(c),
         UNCHANGED <<list[c], draft[c], copy[c]>>,
         \/ late'[c] \in {late[c], None}
         \/ ~HasLate(c)' /\ late'[c].kind \in Kinds /\ req'[c].pc \notin SaveReqs,
         next' \in Nat, next <= next', slipped \subseteq slipped',
         \A i \in DOMAIN rows' :
           \/ i = next
           \/ /\ i \in DOMAIN rows /\ rows'[i].kind = rows[i].kind
              /\ rows'[i].edits = rows[i].edits \/ <<c, i>> \in slipped'
  PROVE  NumbersOf(c)' /\ TextOf(c)'
<1>1. NumbersOf(c) /\ TextOf(c) /\ next \in Nat
  BY DEF RowsOK
<1>2. HasLate(c)' => HasLate(c) /\ late'[c] = late[c]
  BY DEF HasLate
<1>3. NumbersOf(c)'
  BY <1>1, <1>2 DEF NumbersOf, Below, SameReq
<1>4. ASSUME NEW i \in DOMAIN rows'
      PROVE  KindOf(c, i)' /\ CardOf(c, i)' /\ (<<c, i>> \notin slipped' => HasAll(c, i)')
  <2>1. CASE i = next
    <3>1. /\ i \notin DOMAIN list[c] /\ i \notin DOMAIN copy[c] /\ ~Draws(c, i)
          /\ HasLate(c) => i \notin DOMAIN late[c].read
      BY <1>1, <2>1 DEF NumbersOf, Below, Draws
    <3>2. ~Draws(c, i)'
      BY <3>1 DEF SameReq, Draws
    <3>3. QED
      BY <1>2, <3>1, <3>2 DEF KindOf, CardOf, HasAll, Draws, SaveReqs
  <2>2. CASE /\ i \in DOMAIN rows /\ rows'[i].kind = rows[i].kind
             /\ rows'[i].edits = rows[i].edits \/ <<c, i>> \in slipped'
    <3>1. KindOf(c, i) /\ CardOf(c, i) /\ (<<c, i>> \notin slipped => HasAll(c, i))
      BY <1>1, <2>2 DEF TextOf
    <3>2. KindOf(c, i)'
      BY <1>2, <2>2, <3>1 DEF KindOf, SameReq, Draws, SaveReqs
    <3>3. CardOf(c, i)'
      BY <2>2, <3>1 DEF CardOf, SameReq, SaveReqs
    <3>4. ASSUME <<c, i>> \notin slipped'
          PROVE  HasAll(c, i)'
      <4>1. HasAll(c, i) /\ rows'[i].edits = rows[i].edits
        BY <2>2, <3>1, <3>4
      <4>2. Closing(c, i) => Closing(c, i)'
        BY DEF Closing, SameReq, SaveReqs
      <4>3. QED
        BY <1>2, <4>1, <4>2 DEF HasAll, SameReq, SaveReqs
    <3>5. QED
      BY <3>2, <3>3, <3>4
  <2>3. QED
    BY <2>1, <2>2
<1>5. QED
  BY <1>3, <1>4 DEF TextOf

LEMMA RowsKept ==
  ASSUME RowsOK, UNCHANGED listed, \A c \in Clients : SameReq(c)
  PROVE  RowsOK'
<1>1. UNCHANGED <<rows, next, list, late, draft, copy, slipped>> /\ next \in Nat
  BY DEF listed, shows, RowsOK
<1>2. \A c \in Clients : NumbersOf(c)' /\ TextOf(c)'
  BY <1>1, ListStays
<1>3. QED
  BY <1>1, <1>2 DEF RowsOK

LEMMA InvReq ==
  ASSUME Inv, NEW c \in Clients, NEW q \in ReqType, Become(c, q),
         q.pc \notin SavePcs, UNCHANGED <<models, SwitchVars>>, RowsOK'
  PROVE  Inv'
BY SwitchKept, ReqStep DEF Inv

LEMMA InvAsk ==
  ASSUME Inv, NEW c \in Clients, NEW q \in ReqType, Ask(c, q), q.pc \notin SavePcs \cup SaveReqs
  PROVE  Inv'
<1>1. /\ Become(c, q) /\ req[c].pc = "idle" /\ UNCHANGED <<models, SwitchVars, listed>>
  BY DEF Ask, Begin, defaults, skills, SwitchVars
<1>2. \A d \in Clients : SameReq(d)
  BY <1>1 DEF Become, Inv, ModelsOK, SameReq, SaveReqs
<1>3. QED
  BY <1>1, <1>2, InvReq, RowsKept DEF Inv
-----------------------------------------------------------------------------
(* The model tab.                                                            *)
LEMMA InvFindDefault ==
  ASSUME Inv, NEW c \in Clients, FindDefault(c)
  PROVE  Inv'
<1> DEFINE u == User(c)
           others == Saving(u)
<1>1. PICK found \in IF Defaults(u) = {} THEN {None} ELSE Defaults(u) :
        req' = [d \in Clients |->
                  IF d = c THEN [Idle EXCEPT !.pc = "clear", !.id = found, !.met = others # {}]
                  ELSE IF d \in others THEN [req[d] EXCEPT !.met = TRUE] ELSE req[d]]
  BY DEF FindDefault
<1>2. UNCHANGED <<models, SwitchVars, listed>> /\ req[c].pc = "save"
  BY DEF FindDefault, defaults, skills, SwitchVars
<1>3. found = None \/ found \in DOMAIN models[u]
  BY DEF Defaults
<1>4. u \in Users /\ found \in Nat \cup {None}
  <2>1. u \in Users
    BY DEF User
  <2>2. DOMAIN models[u] \subseteq Nat
    BY <2>1, LenProperties DEF Inv, ModelsOK
  <2>3. QED
    BY <1>3, <2>1, <2>2
<1> DEFINE met == others # {}
           q == [Idle EXCEPT !.pc = "clear", !.id = found, !.met = met]
<1>5. met \in BOOLEAN /\ (met <=> others # {})
  OBVIOUS
<1> HIDE DEF met
<1>6. /\ q \in ReqType /\ q.pc = "clear" /\ q.id = found /\ (q.met <=> others # {})
  BY <1>4, <1>5 DEF Idle, ReqType, Reqs, RowReqs, ReqPcs
<1>7. \A d \in Clients : d # c =>
        /\ req'[d] \in ReqType
        /\ req'[d].pc = req[d].pc /\ req'[d].id = req[d].id /\ req'[d].cleared = req[d].cleared
        /\ req'[d].met <=> (d \in others \/ req[d].met)
  <2> SUFFICES ASSUME NEW d \in Clients, d # c
               PROVE  /\ req'[d] \in ReqType
                      /\ req'[d].pc = req[d].pc /\ req'[d].id = req[d].id
                      /\ req'[d].cleared = req[d].cleared
                      /\ req'[d].met <=> (d \in others \/ req[d].met)
    OBVIOUS
  <2>1. req[d] \in ReqType
    BY DEF Inv, ModelsOK
  <2> DEFINE x == req[d]
  <2>2. CASE d \in others
    <3>1. req'[d] = [x EXCEPT !.met = TRUE]
      BY <1>1, <2>2
    <3> HIDE DEF x
    <3>2. x \in ReqType
      BY <2>1 DEF x
    <3>3. /\ req'[d] \in ReqType /\ req'[d].pc = x.pc /\ req'[d].id = x.id
          /\ req'[d].cleared = x.cleared /\ req'[d].met
      BY <3>1, <3>2 DEF ReqType, Reqs, RowReqs
    <3>4. QED
      BY <2>2, <3>3 DEF x
  <2>3. CASE d \notin others
    BY <1>1, <2>1, <2>3
  <2>4. QED
    BY <2>2, <2>3
<1>8. req'[c] = q
  BY <1>1 DEF met
<1> HIDE DEF q, others
<1>9. req' \in [Clients -> ReqType]
  <2>1. DOMAIN req' = Clients /\ req' = [d \in Clients |-> req'[d]]
    BY <1>1
  <2>2. QED
    BY <1>6, <1>7, <1>8, <2>1
<1>10. \A d \in Clients : SaveOf(d)'
  <2> SUFFICES ASSUME NEW d \in Clients, req'[d].pc \in SavePcs
               PROVE  /\ req'[d].id # None => req'[d].id \in DOMAIN models[User(d)]
                      /\ req'[d].pc = "write" /\ ~req'[d].met =>
                           req'[d].cleared = Defaults(User(d))
                      /\ \A e \in Clients : e # d /\ User(e) = User(d) /\ req'[e].pc \in SavePcs
                           => req'[d].met
    BY <1>2 DEF SaveOf, Defaults, User
  <2>0. \A e \in Clients : e \in others <=> User(e) = u /\ req[e].pc \in SavePcs
    BY DEF others, Saving, SavePcs
  <2>1. CASE d = c
    BY <1>3, <1>6, <1>7, <1>8, <2>0, <2>1 DEF SavePcs
  <2>2. CASE d # c
    <3>1. SaveOf(d)
      BY DEF Inv, ModelsOK
    <3>2. \A e \in Clients : e # d /\ User(e) = User(d) /\ req'[e].pc \in SavePcs => req'[d].met
      BY <1>7, <2>0, <2>2, <3>1 DEF SaveOf
    <3>3. QED
      BY <1>7, <2>2, <3>1, <3>2 DEF SaveOf
  <2>3. QED
    BY <2>1, <2>2
<1>11. ModelsOK'
  BY <1>2, <1>9, <1>10 DEF Inv, ModelsOK
<1>12. \A d \in Clients : SameReq(d)
  <2> SUFFICES ASSUME NEW d \in Clients
               PROVE  SameReq(d)
    OBVIOUS
  <2>1. CASE d = c
    BY <1>2, <1>6, <1>8, <2>1 DEF SameReq, SaveReqs
  <2>2. CASE d # c
    <3>1. d \in others => req[d].pc \notin SaveReqs
      BY DEF others, Saving, SaveReqs
    <3>2. d \notin others => req'[d] = req[d]
      BY <1>1, <2>2 DEF others
    <3>3. QED
      BY <1>7, <2>2, <3>1, <3>2 DEF SameReq
  <2>3. QED
    BY <2>1, <2>2
<1>13. QED
  BY <1>2, <1>11, <1>12, SwitchKept, RowsKept DEF Inv

LEMMA InvClearDefaults ==
  ASSUME Inv, NEW c \in Clients, ClearDefaults(c)
  PROVE  Inv'
<1> DEFINE u == User(c)
           x == req[c]
           q == [x EXCEPT !.pc = "write", !.cleared = Defaults(u)]
<1>1. /\ x \in ReqType /\ x.pc = "clear" /\ Become(c, q)
      /\ UNCHANGED <<models, SwitchVars, listed>>
  BY DEF ClearDefaults, defaults, skills, SwitchVars, Inv, ModelsOK
<1>2. u \in Users /\ Defaults(u) \in SUBSET Nat
  <2>1. u \in Users
    BY DEF User
  <2>2. DOMAIN models[u] \subseteq Nat
    BY <2>1, LenProperties DEF Inv, ModelsOK
  <2>3. QED
    BY <2>1, <2>2 DEF Defaults
<1> HIDE DEF x, u
<1>3. /\ q \in ReqType /\ q.pc = "write" /\ q.id = x.id /\ q.cleared = Defaults(u)
      /\ q.met = x.met
  BY <1>1, <1>2 DEF ReqType, Reqs, RowReqs, ReqPcs
<1> HIDE DEF q
<1>4. /\ req' \in [Clients -> ReqType] /\ req'[c] = q
      /\ \A d \in Clients : d # c => req'[d] = req[d]
  BY <1>1, <1>3 DEF Inv, ModelsOK, Become
<1>5. \A d \in Clients : SaveOf(d)'
  <2> SUFFICES ASSUME NEW d \in Clients, req'[d].pc \in SavePcs
               PROVE  /\ req'[d].id # None => req'[d].id \in DOMAIN models[User(d)]
                      /\ req'[d].pc = "write" /\ ~req'[d].met =>
                           req'[d].cleared = Defaults(User(d))
                      /\ \A e \in Clients : e # d /\ User(e) = User(d) /\ req'[e].pc \in SavePcs
                           => req'[d].met
    BY <1>1 DEF SaveOf, Defaults, User
  <2>1. SaveOf(d) /\ SaveOf(c)
    BY DEF Inv, ModelsOK
  <2>2. \A e \in Clients : req'[e].pc \in SavePcs => req[e].pc \in SavePcs
    BY <1>1, <1>4 DEF x, SavePcs
  <2>3. req'[d].id = req[d].id /\ req'[d].met = req[d].met
    BY <1>3, <1>4 DEF x
  <2>4. req'[d].pc = "write" /\ ~req'[d].met => req'[d].cleared = Defaults(User(d))
    BY <1>3, <1>4, <2>1, <2>2, <2>3 DEF SaveOf, u
  <2>5. QED
    BY <2>1, <2>2, <2>3, <2>4 DEF SaveOf
<1>6. ModelsOK'
  BY <1>1, <1>4, <1>5 DEF Inv, ModelsOK
<1>7. \A d \in Clients : SameReq(d)
  BY <1>1, <1>3, <1>4 DEF x, SameReq, SaveReqs
<1>8. QED
  BY <1>1, <1>6, <1>7, SwitchKept, RowsKept DEF Inv

(* What a save writes keeps the rows, and the row it writes is the default: the   *)
(* only one, when the save met no other.                                      *)
Own(c) == IF req[c].id = None THEN Len(Written(c)) ELSE req[c].id

LEMMA AppendFront ==
  ASSUME NEW s \in Seq(BOOLEAN), NEW b \in BOOLEAN
  PROVE  \A i \in 1..Len(s) : Append(s, b)[i] = s[i]
BY AppendProperties

LEMMA WrittenKeeps ==
  ASSUME Inv, NEW c \in Clients, req[c].pc = "write"
  PROVE  /\ Written(c) \in Seq(BOOLEAN)
         /\ DOMAIN models[User(c)] \subseteq DOMAIN Written(c)
         /\ Own(c) \in {i \in DOMAIN Written(c) : Written(c)[i]}
         /\ ~req[c].met => {i \in DOMAIN Written(c) : Written(c)[i]} = {Own(c)}
<1> DEFINE m == models[User(c)]
           id == req[c].id
           kept == [i \in DOMAIN m |-> m[i] /\ i \notin req[c].cleared]
           n == Len(m)
<1>1. m \in Seq(BOOLEAN) /\ n \in Nat /\ DOMAIN m = 1..n
  BY LenProperties DEF Inv, ModelsOK, User
<1>2. /\ id # None => id \in 1..n
      /\ ~req[c].met => req[c].cleared = {i \in DOMAIN m : m[i]}
  BY <1>1 DEF Inv, ModelsOK, SaveOf, SavePcs, Defaults
<1>3. /\ kept \in [1..n -> BOOLEAN]
      /\ ~req[c].met => \A i \in 1..n : ~kept[i]
  BY <1>1, <1>2
<1>4. Written(c) = IF id = None THEN Append(kept, TRUE) ELSE [kept EXCEPT ![id] = TRUE]
  BY DEF Written
<1> HIDE DEF m, kept, n, id
<1>5. kept \in Seq(BOOLEAN) /\ Len(kept) = n
  <2>1. kept \in Seq(BOOLEAN)
    BY <1>1, <1>3
  <2>2. QED
    BY <1>1, <1>3, <2>1, LenProperties
<1>6. CASE id = None
  <2> DEFINE w == Append(kept, TRUE)
  <2>1. /\ w \in Seq(BOOLEAN) /\ Len(w) = n + 1 /\ w[n + 1] = TRUE
        /\ \A i \in 1..n : w[i] = kept[i]
    <3>1. Append(kept, TRUE) \in Seq(BOOLEAN) /\ Len(Append(kept, TRUE)) = Len(kept) + 1
      BY <1>5, AppendProperties
    <3>2. \A i \in 1..Len(kept) : Append(kept, TRUE)[i] = kept[i]
      BY <1>5, AppendFront
    <3>3. Append(kept, TRUE)[Len(kept) + 1] = TRUE
      BY <1>5, AppendProperties
    <3>4. QED
      BY <1>5, <3>1, <3>2, <3>3
  <2>2. Written(c) = w /\ Own(c) = n + 1 /\ DOMAIN w = 1..(n + 1)
    BY <1>4, <1>6, <2>1, LenProperties DEF Own, id
  <2> HIDE DEF w
  <2>3. \A i \in 1..(n + 1) : i = n + 1 \/ i \in 1..n
    BY <1>1
  <2>4. 1..n \subseteq 1..(n + 1) /\ n + 1 \in 1..(n + 1)
    BY <1>1
  <2>5. ~req[c].met => \A i \in 1..(n + 1) : w[i] => i = n + 1
    BY <1>3, <2>1, <2>3
  <2>6. QED
    BY <1>1, <2>1, <2>2, <2>4, <2>5 DEF m
<1>7. CASE id # None
  <2> DEFINE w == [kept EXCEPT ![id] = TRUE]
  <2>1. /\ w \in [1..n -> BOOLEAN] /\ w[id] = TRUE /\ id \in 1..n
        /\ \A i \in 1..n : i # id => w[i] = kept[i]
    BY <1>2, <1>3, <1>7
  <2>2. Written(c) = w /\ Own(c) = id
    BY <1>4, <1>7 DEF Own, id
  <2> HIDE DEF w
  <2>3. w \in Seq(BOOLEAN)
    BY <1>1, <2>1
  <2>4. ~req[c].met => \A i \in 1..n : w[i] => i = id
    BY <1>3, <2>1
  <2>5. QED
    BY <1>1, <2>1, <2>2, <2>3, <2>4 DEF m
<1>8. QED
  BY <1>6, <1>7

LEMMA InvWriteModel ==
  ASSUME Inv, NEW c \in Clients, WriteModel(c)
  PROVE  Inv'
<1> DEFINE u == User(c)
           w == Written(c)
<1>1. /\ req[c].pc = "write" /\ models' = [models EXCEPT ![u] = w] /\ Become(c, Idle)
      /\ UNCHANGED <<SwitchVars, listed>>
  BY DEF WriteModel, skills, SwitchVars
<1>2. w \in Seq(BOOLEAN) /\ DOMAIN models[u] \subseteq DOMAIN w /\ u \in Users
  BY <1>1, WrittenKeeps DEF User
<1> HIDE DEF w
<1>3. /\ models' \in [Users -> Seq(BOOLEAN)] /\ models'[u] = w
      /\ \A v \in Users : v # u => models'[v] = models[v]
  BY <1>1, <1>2 DEF Inv, ModelsOK
<1>4. /\ req' \in [Clients -> ReqType] /\ req'[c] = Idle
      /\ \A d \in Clients : d # c => req'[d] = req[d]
  BY <1>1, IdleType DEF Inv, ModelsOK, Become
<1>5. \A d \in Clients : SaveOf(d)'
  <2> SUFFICES ASSUME NEW d \in Clients, req'[d].pc \in SavePcs
               PROVE  /\ req'[d].id # None => req'[d].id \in DOMAIN models'[User(d)]
                      /\ req'[d].pc = "write" /\ ~req'[d].met =>
                           req'[d].cleared = Defaults(User(d))'
                      /\ \A e \in Clients : e # d /\ User(e) = User(d) /\ req'[e].pc \in SavePcs
                           => req'[d].met
    BY DEF SaveOf, User
  <2>1. d # c /\ req'[d] = req[d] /\ SaveOf(d) /\ User(d) \in Users
    BY <1>4, IdleType DEF Inv, ModelsOK, SavePcs, User
  <2>2. \A e \in Clients : req'[e].pc \in SavePcs => req[e].pc \in SavePcs
    BY <1>4, IdleType DEF SavePcs
  <2>3. CASE User(d) = u
    <3>1. req[d].met
      BY <1>1, <2>1, <2>3 DEF SaveOf, SavePcs
    <3>2. req[d].id # None => req[d].id \in DOMAIN models'[User(d)]
      BY <1>2, <1>3, <2>1, <2>3 DEF SaveOf
    <3>3. QED
      BY <2>1, <3>1, <3>2
  <2>4. CASE User(d) # u
    <3>1. models'[User(d)] = models[User(d)]
      BY <1>3, <2>1, <2>4
    <3>2. Defaults(User(d))' = Defaults(User(d))
      BY <3>1 DEF Defaults, User
    <3>3. QED
      BY <2>1, <2>2, <3>1, <3>2 DEF SaveOf
  <2>5. QED
    BY <2>3, <2>4
<1>6. \A d \in Clients : SameReq(d)
  BY <1>1, <1>4, IdleType DEF SameReq, SaveReqs
<1>7. QED
  BY <1>1, <1>3, <1>4, <1>5, <1>6, SwitchKept, RowsKept DEF Inv, ModelsOK
-----------------------------------------------------------------------------
(* The skills tab.                                                           *)
LEMMA WithoutOf ==
  ASSUME NEW s \in Seq(Flights), NEW i \in DOMAIN s
  PROVE  /\ Without(s, i) \in Seq(Flights)
         /\ Len(s) = 1 => Without(s, i) = <<>>
<1>1. Len(s) \in Nat /\ DOMAIN s = 1..Len(s) /\ i \in 1..Len(s)
  BY LenProperties
<1>2. /\ SubSeq(s, 1, i - 1) \in Seq(Flights)
      /\ SubSeq(s, i + 1, Len(s)) \in Seq(Flights)
  <2>1. /\ 1 \in 1..(Len(s) + 1) /\ i - 1 \in 0..Len(s)
        /\ i + 1 \in 1..(Len(s) + 1) /\ Len(s) \in 0..Len(s)
    BY <1>1
  <2>2. QED
    BY <1>1, <2>1, SubSeqProperties
<1>3. Without(s, i) \in Seq(Flights)
  BY <1>2, ConcatProperties DEF Without
<1>4. ASSUME Len(s) = 1
      PROVE  Without(s, i) = <<>>
  <2>1. i = 1
    BY <1>1, <1>4
  <2>2. SubSeq(s, 1, 0) = <<>> /\ SubSeq(s, 2, 1) = <<>>
    BY <1>4, SubSeqProperties
  <2>3. QED
    BY <1>4, <2>1, <2>2 DEF Without
<1>5. QED
  BY <1>3, <1>4

LEMMA AppendToEmpty == \A x : Append(<<>>, x) = <<x>>
OBVIOUS

LEMMA OneFlight == \A x : <<x>> # <<>> /\ Len(<<x>>) = 1 /\ <<x>>[1] = x
OBVIOUS

LEMMA FlightType ==
  /\ Reloading \in Flights /\ Reloading.pc = "reload"
  /\ \A to \in BOOLEAN : /\ Toggling(to) \in Flights /\ Toggling(to).pc = "toggle" /\ Toggling(to).to = to
                          /\ Arriving(to) \in Flights /\ Arriving(to).pc = "arrive" /\ Arriving(to).to = to
BY DEF Reloading, Toggling, Arriving, Flights

LEMMA StoredBoolean == \A u : Stored(u) \in BOOLEAN
BY DEF Stored

(* A client's own part of the switch, when another's step leaves it and its user *)
(* alone.                                                                    *)
LEMMA SwitchAlone ==
  ASSUME NEW c \in Clients, SwitchOf(c), c \in astray' <=> c \in astray,
         UNCHANGED <<shown[c], flights[c], switch[User(c)]>>,
         \A d \in Clients : d # c /\ User(d) = User(c) => flights[d]' \in {flights[d], <<>>}
  PROVE  SwitchOf(c)'
BY DEF SwitchOf, Stored, User

(* A client begins something, a toggle or a reload, and with it crosses the others. *)
LEMMA SwitchBegins ==
  ASSUME SwitchOK, NEW c \in Clients, NEW x \in Flights,
         flights' = [flights EXCEPT ![c] = Append(@, x)], crossed' = crossed \cup Crossed(c),
         switch' \in [Users -> BOOLEAN \cup {None}],
         \A u \in Users : u # User(c) => switch'[u] = switch[u],
         shown' \in [Clients -> BOOLEAN],
         \A d \in Clients : d # c => shown'[d] = shown[d],
         astray' = astray,
         x.pc # "arrive", x.pc = "toggle" => x.to = shown'[c]
  PROVE  SwitchOK'
<1>1. flights \in [Clients -> Seq(Flights)]
  BY DEF SwitchOK
<1>2. /\ flights' \in [Clients -> Seq(Flights)]
      /\ flights'[c] = Append(flights[c], x)
      /\ \A d \in Clients : d # c => flights'[d] = flights[d]
  <2>1. Append(flights[c], x) \in Seq(Flights)
    BY <1>1, AppendProperties
  <2>2. QED
    BY <1>1, <2>1
<1>3. \A d \in Clients : d \notin crossed' => SwitchOf(d)'
  <2> SUFFICES ASSUME NEW d \in Clients, d \notin crossed'
               PROVE  SwitchOf(d)'
    OBVIOUS
  <2>1. SwitchOf(d) /\ (User(d) = User(c) => d = c /\ flights[c] = <<>>)
    BY DEF Crossed, SwitchOK
  <2>2. CASE d = c
    <3>1. \A e \in Clients : e # c /\ User(e) = User(c) => flights'[e] = <<>>
      BY <1>2, <2>1, <2>2 DEF SwitchOf
    <3>2. flights'[c] = <<x>>
      <4>1. flights'[c] = Append(<<>>, x)
        BY <1>2, <2>1, <2>2
      <4>2. QED
        BY <4>1, AppendToEmpty, Zenon
    <3>3. flights'[c] # <<>> /\ Len(flights'[c]) = 1 /\ flights'[c][1] = x
      BY <3>2, OneFlight, Zenon
    <3>4. QED
      BY <2>2, <3>1, <3>3 DEF SwitchOf, User
  <2>3. CASE d # c
    <3>1. User(d) # User(c) /\ User(d) \in Users
      BY <2>1, <2>3 DEF User
    <3>2. QED
      BY <1>2, <2>1, <2>3, <3>1, SwitchAlone DEF User
  <2>4. QED
    BY <2>2, <2>3
<1>4. QED
  BY <1>2, <1>3 DEF SwitchOK

LEMMA SwitchJoin ==
  ASSUME SwitchOK, NEW c \in Clients, Join(c)
  PROVE  SwitchOK'
<1>1. User(c) \in Users /\ shown' = shown /\ astray' = astray
  BY DEF User, Join
<1>2. CASE UNCHANGED <<switch, flights, crossed>>
  BY <1>1, <1>2, SwitchKept DEF SwitchVars
<1>3. CASE /\ switch' = [switch EXCEPT ![User(c)] = TRUE]
           /\ flights' = [flights EXCEPT ![c] = Append(@, Reloading)]
           /\ crossed' = crossed \cup Crossed(c)
  <2>1. /\ switch' \in [Users -> BOOLEAN \cup {None}]
        /\ \A u \in Users : u # User(c) => switch'[u] = switch[u]
    BY <1>1, <1>3 DEF SwitchOK
  <2>2. QED
    BY <1>1, <1>3, <2>1, FlightType, SwitchBegins DEF SwitchOK
<1>4. QED
  BY <1>2, <1>3 DEF Join

LEMMA SwitchToggle ==
  ASSUME SwitchOK, NEW c \in Clients, Toggle(c)
  PROVE  SwitchOK'
<1>1. /\ shown' \in [Clients -> BOOLEAN]
      /\ \A d \in Clients : d # c => shown'[d] = shown[d]
  BY DEF SwitchOK, Toggle
<1> DEFINE to == shown'[c]
<1>2. to \in BOOLEAN
  BY <1>1
<1>3. Toggling(to) \in Flights /\ Toggling(to).pc = "toggle" /\ Toggling(to).to = to
  BY <1>2, FlightType
<1>4. QED
  BY <1>1, <1>3, SwitchBegins DEF SwitchOK, Toggle

(* The only thing under way in a client that met no other goes a step on, or ends. *)
LEMMA SwitchGoesOn ==
  ASSUME SwitchOK, NEW c \in Clients, NEW i \in DOMAIN flights[c], crossed' = crossed,
         switch' \in [Users -> BOOLEAN \cup {None}],
         \A u \in Users : u # User(c) => switch'[u] = switch[u],
         shown' \in [Clients -> BOOLEAN],
         \A d \in Clients : d # c => shown'[d] = shown[d] /\ (d \in astray' <=> d \in astray),
         \/ /\ Land(c, i)
            /\ flights[c] = <<flights[c][i]>> /\ SwitchOf(c) /\ c \notin astray' =>
                 shown'[c] = Stored(User(c))'
         \/ \E x \in Flights : /\ flights' = [flights EXCEPT ![c][i] = x]
                               /\ x.pc # "toggle"
                               /\ x.pc = "arrive" => x.to = Stored(User(c))'
  PROVE  SwitchOK'
<1>1. /\ flights \in [Clients -> Seq(Flights)] /\ flights[c] \in Seq(Flights)
      /\ flights[c] # <<>> /\ i \in 1..Len(flights[c]) /\ Len(flights[c]) \in Nat
  BY LenProperties DEF SwitchOK
<1>2. /\ flights' \in [Clients -> Seq(Flights)]
      /\ \A d \in Clients : d # c => flights'[d] = flights[d]
  <2>1. CASE Land(c, i)
    <3>1. Without(flights[c], i) \in Seq(Flights)
      BY <1>1, WithoutOf
    <3>2. QED
      BY <1>1, <2>1, <3>1 DEF Land
  <2>2. CASE \E x \in Flights : flights' = [flights EXCEPT ![c][i] = x]
    <3>1. PICK x \in Flights : flights' = [flights EXCEPT ![c] = [flights[c] EXCEPT ![i] = x]]
      BY <2>2
    <3>2. [flights[c] EXCEPT ![i] = x] \in Seq(Flights)
      BY <1>1, ExceptSeq
    <3>3. QED
      BY <1>1, <3>1, <3>2
  <2>3. QED
    BY <2>1, <2>2
<1>3. \A d \in Clients : d \notin crossed' => SwitchOf(d)'
  <2> SUFFICES ASSUME NEW d \in Clients, d \notin crossed
               PROVE  SwitchOf(d)'
    OBVIOUS
  <2>1. SwitchOf(d) /\ (User(d) = User(c) => d = c)
    BY <1>1 DEF SwitchOf, SwitchOK
  <2>2. CASE d = c
    <3>1. Len(flights[c]) = 1 /\ i = 1
      BY <1>1, <2>1, <2>2 DEF SwitchOf
    <3>2. \A e \in Clients : e # c /\ User(e) = User(c) => flights'[e] = <<>>
      BY <1>2, <2>1, <2>2 DEF SwitchOf
    <3>3. CASE /\ Land(c, i)
               /\ flights[c] = <<flights[c][i]>> /\ SwitchOf(c) /\ c \notin astray' =>
                    shown'[c] = Stored(User(c))'
      <4>1. flights'[c] = <<>>
        BY <1>1, <3>1, <3>3, WithoutOf DEF Land
      <4>2. flights[c] = <<flights[c][i]>>
        BY <1>1, <3>1
      <4>3. QED
        BY <2>1, <2>2, <3>2, <3>3, <4>1, <4>2 DEF SwitchOf, User
    <3>4. CASE \E x \in Flights : /\ flights' = [flights EXCEPT ![c][i] = x]
                                  /\ x.pc # "toggle"
                                  /\ x.pc = "arrive" => x.to = Stored(User(c))'
      <4>1. PICK x \in Flights : /\ flights' = [flights EXCEPT ![c] = [flights[c] EXCEPT ![i] = x]]
                                 /\ x.pc # "toggle"
                                 /\ x.pc = "arrive" => x.to = Stored(User(c))'
        BY <3>4
      <4>2. flights'[c] = [flights[c] EXCEPT ![1] = x]
        BY <1>1, <3>1, <4>1
      <4>3. Len(flights'[c]) = 1 /\ flights'[c][1] = x /\ flights'[c] # <<>>
        BY <1>1, <3>1, <4>2, ExceptSeq
      <4>4. QED
        BY <2>2, <3>2, <4>1, <4>3 DEF SwitchOf, User
    <3>5. QED
      BY <3>3, <3>4
  <2>3. CASE d # c
    <3>1. User(d) # User(c) /\ User(d) \in Users
      BY <2>1, <2>3 DEF User
    <3>2. QED
      BY <1>2, <2>1, <2>3, <3>1, SwitchAlone DEF User
  <2>4. QED
    BY <2>2, <2>3
<1>4. QED
  BY <1>2, <1>3 DEF SwitchOK

LEMMA SwitchFlight ==
  ASSUME SwitchOK, NEW c \in Clients, NEW i \in DOMAIN flights[c],
         \/ Toggled(c, i) \/ ToggleFails(c, i) \/ ListSkills(c, i)
         \/ ShowSkills(c, i) \/ ReloadFails(c, i)
  PROVE  SwitchOK'
<1>1. /\ User(c) \in Users /\ shown \in [Clients -> BOOLEAN]
      /\ switch \in [Users -> BOOLEAN \cup {None}] /\ flights[c][i] \in Flights
  <2>1. flights[c] \in Seq(Flights)
    BY DEF SwitchOK
  <2>2. QED
    BY <2>1, LenProperties DEF SwitchOK, User
<1> DEFINE to == flights[c][i].to
<1>t. to \in BOOLEAN
  BY <1>1 DEF Flights
<1>o. flights[c] = <<flights[c][i]>> /\ SwitchOf(c) =>
        /\ flights[c][i].pc = "toggle" => to = shown[c]
        /\ flights[c][i].pc = "arrive" => to = Stored(User(c))
  <2> SUFFICES ASSUME flights[c] = <<flights[c][i]>>, SwitchOf(c)
               PROVE  /\ flights[c][i].pc = "toggle" => to = shown[c]
                      /\ flights[c][i].pc = "arrive" => to = Stored(User(c))
    OBVIOUS
  <2>1. flights[c][1] = flights[c][i] /\ flights[c] # <<>>
    OBVIOUS
  <2>2. QED
    BY <2>1 DEF SwitchOf
<1>2. CASE Toggled(c, i)
  <2>1. /\ switch' \in [Users -> BOOLEAN \cup {None}] /\ switch'[User(c)] = to
        /\ \A u \in Users : u # User(c) => switch'[u] = switch[u]
    BY <1>1, <1>2, <1>t DEF Toggled
  <2>2. Stored(User(c))' = to
    <3>1. Stored(User(c))' <=> to = TRUE
      BY <2>1 DEF Stored, User
    <3>2. Stored(User(c))' \in BOOLEAN
      BY DEF Stored
    <3>3. QED
      BY <1>t, <3>1, <3>2
  <2>3. /\ Land(c, i) /\ UNCHANGED <<shown, crossed>> /\ flights[c][i].pc = "toggle"
        /\ \A d \in Clients : d # c => (d \in astray' <=> d \in astray)
    BY <1>2 DEF Toggled
  <2>4. flights[c] = <<flights[c][i]>> /\ SwitchOf(c) => shown'[c] = Stored(User(c))'
    BY <1>o, <2>2, <2>3
  <2> HIDE DEF to
  <2>5. QED
    BY <1>1, <2>1, <2>3, <2>4, SwitchGoesOn
<1>3. CASE ToggleFails(c, i)
  <2>1. /\ switch' \in [Users -> BOOLEAN \cup {None}]
        /\ \A u \in Users : u # User(c) => switch'[u] = switch[u]
    BY <1>1, <1>3, <1>t DEF ToggleFails
  <2>2. UNCHANGED <<shown, crossed, astray>> /\ flights' = [flights EXCEPT ![c][i] = Reloading]
    BY <1>3 DEF ToggleFails
  <2>3. QED
    BY <1>1, <2>1, <2>2, FlightType, SwitchGoesOn
<1>4. CASE ListSkills(c, i)
  <2> DEFINE x == Arriving(Stored(User(c)))
  <2>1. x \in Flights /\ x.pc = "arrive" /\ x.to = Stored(User(c))
    BY FlightType, StoredBoolean
  <2>2. UNCHANGED <<shown, crossed, astray, switch>> /\ flights' = [flights EXCEPT ![c][i] = x]
    BY <1>4 DEF ListSkills
  <2>3. Stored(User(c))' = Stored(User(c))
    BY <2>2 DEF Stored, User
  <2> HIDE DEF x
  <2>4. QED
    BY <1>1, <2>1, <2>2, <2>3, SwitchGoesOn
<1>5. CASE ShowSkills(c, i)
  <2>1. /\ shown' \in [Clients -> BOOLEAN] /\ shown'[c] = to
        /\ \A d \in Clients : d # c => shown'[d] = shown[d]
    BY <1>1, <1>5, <1>t DEF ShowSkills
  <2>2. /\ Land(c, i) /\ UNCHANGED <<switch, crossed>> /\ flights[c][i].pc = "arrive"
        /\ \A d \in Clients : d # c => (d \in astray' <=> d \in astray)
    BY <1>5 DEF ShowSkills
  <2>3. Stored(User(c))' = Stored(User(c))
    BY <2>2 DEF Stored, User
  <2>4. flights[c] = <<flights[c][i]>> /\ SwitchOf(c) => shown'[c] = Stored(User(c))'
    BY <1>o, <2>1, <2>2, <2>3
  <2> HIDE DEF to
  <2>5. QED
    BY <1>1, <2>1, <2>2, <2>4, SwitchGoesOn
<1>6. CASE ReloadFails(c, i)
  <2>1. /\ Land(c, i) /\ UNCHANGED <<switch, crossed, shown>> /\ c \in astray'
        /\ \A d \in Clients : d # c => (d \in astray' <=> d \in astray)
    BY <1>6 DEF ReloadFails
  <2>2. QED
    BY <1>1, <2>1, SwitchGoesOn
<1>7. QED
  BY <1>2, <1>3, <1>4, <1>5, <1>6
-----------------------------------------------------------------------------
(* Rows.                                                                     *)
LEMMA ReqWith ==
  ASSUME ModelsOK, NEW c \in Clients, NEW pc \in ReqPcs \ {"create"},
         pc \in RowReqs => req[c].kind \in Kinds, pc = "open" => req[c].kind \in Modals
  PROVE  LET q == [req[c] EXCEPT !.pc = pc]
         IN  q \in ReqType /\ q.pc = pc /\ q.id = req[c].id /\ q.kind = req[c].kind
<1> DEFINE x == req[c]
<1>1. x \in ReqType
  BY DEF ModelsOK
<1> HIDE DEF x
<1>2. [x EXCEPT !.pc = pc] \in Reqs
  BY <1>1 DEF ReqType, Reqs
<1>3. /\ [x EXCEPT !.pc = pc].pc = pc
      /\ [x EXCEPT !.pc = pc].id = x.id
      /\ [x EXCEPT !.pc = pc].kind = x.kind
  BY <1>1 DEF ReqType, Reqs
<1>4. (pc \in RowReqs => x.kind \in Kinds) /\ (pc = "open" => x.kind \in Modals)
  BY DEF x
<1>5. [x EXCEPT !.pc = pc] \in ReqType
  BY <1>2, <1>3, <1>4 DEF ReqType
<1>6. QED
  BY <1>3, <1>5 DEF x

(* A step of one client: to the others it is what someone else saved, if anything. *)
ListsElsewhere(c) ==
  /\ DOMAIN list' = Clients /\ DOMAIN late' = Clients
  /\ DOMAIN draft' = Clients /\ DOMAIN copy' = Clients
  /\ \A d \in Clients : d # c => UNCHANGED <<list[d], late[d], draft[d], copy[d]>>

RowsBy(c) ==
  /\ next' \in Nat /\ next <= next'
  /\ slipped \subseteq slipped'
  /\ \A i \in DOMAIN rows' :
       /\ i \in Nat /\ i < next' /\ RowForm(rows'[i])
       /\ \/ i = next
          \/ /\ i \in DOMAIN rows /\ rows'[i].kind = rows[i].kind
             /\ \/ rows'[i].edits = rows[i].edits
                \/ \A d \in Clients : d # c => <<d, i>> \in slipped'

LEMMA ClientStep ==
  ASSUME Inv, NEW c \in Clients, NEW q \in ReqType, Become(c, q) \/ (req' = req /\ q = req[c]),
         q.pc \notin SavePcs \/ req' = req, UNCHANGED <<models, SwitchVars>>,
         ListsElsewhere(c), RowsBy(c), NumbersOf(c)' /\ TextOf(c)'
  PROVE  Inv'
<1>1. \A d \in Clients : d # c => req'[d] = req[d]
  BY DEF Become, Inv, ModelsOK
<1>2. ASSUME NEW d \in Clients, d # c
      PROVE  NumbersOf(d)' /\ TextOf(d)'
  BY <1>1, <1>2, ListStays DEF Inv, ListsElsewhere, RowsBy, SameReq
<1>3. RowsOK'
  BY <1>2 DEF RowsOK, ListsElsewhere, RowsBy
<1>4. ModelsOK'
  BY ReqStep, ModelsKept DEF Inv
<1>5. QED
  BY <1>3, <1>4, SwitchKept DEF Inv

LEMMA RowsByNobody ==
  ASSUME Inv, NEW c \in Clients, UNCHANGED <<rows, next>>, slipped \subseteq slipped'
  PROVE  RowsBy(c)
BY DEF Inv, RowsOK, RowsBy

LEMMA ReadIs ==
  ASSUME Inv, NEW c \in Clients, NEW kind \in Kinds
  PROVE  \A i \in DOMAIN Read(c, kind) :
           /\ i \in DOMAIN rows /\ i \in Nat /\ i < next
           /\ rows[i].kind = kind /\ Read(c, kind)[i].kind = kind
           /\ Read(c, kind)[i].text = rows[i].edits
<1>1. \A i \in ListOf(kind, User(c)) : i \in DOMAIN rows /\ rows[i].kind = kind
  BY DEF ListOf, AgentsOf, SkillsOf, SourcesOf, ServersOf, Kinds, Modals, Cards
<1>2. \A i \in DOMAIN rows : i \in Nat /\ i < next
  BY DEF Inv, RowsOK
<1>3. QED
  BY <1>1, <1>2 DEF Read

(* Saving a row.                                                             *)
LEMMA InvSave ==
  ASSUME Inv, NEW c \in Clients, NEW kind \in Kinds, Save(c, kind)
  PROVE  Inv'
<1>1. PICK id \in Listed(c, kind) :
        /\ Begin(c)
        /\ Become(c, [Idle EXCEPT !.pc = "patch", !.kind = kind, !.id = id])
        /\ draft' = [draft EXCEPT ![c] = list[c][id].text \cup {ops'}]
        /\ list' = IF kind \in Cards THEN [list EXCEPT ![c][id] = [kind |-> kind, text |-> draft'[c]]]
                    ELSE list
        /\ UNCHANGED <<defaults, skills, rows, next, late, copy, slipped>>
  BY DEF Save
<1> DEFINE q == [Idle EXCEPT !.pc = "patch", !.kind = kind, !.id = id]
<1>2. /\ id \in DOMAIN list[c] /\ list[c][id].kind = kind
      /\ id \in Nat /\ id < next
      /\ NumbersOf(c) /\ TextOf(c) /\ req[c].pc = "idle"
      /\ DOMAIN list = Clients /\ DOMAIN draft = Clients
  BY <1>1 DEF Listed, Inv, RowsOK, NumbersOf, Below, Begin
<1>3. q \in ReqType /\ q.pc = "patch" /\ q.kind = kind /\ q.id = id
  BY <1>2 DEF Idle, ReqType, Reqs, RowReqs, ReqPcs
<1> HIDE DEF q
<1>4. /\ req'[c] = q /\ draft'[c] = list[c][id].text \cup {ops'} /\ late' = late /\ copy' = copy
      /\ rows' = rows /\ next' = next /\ slipped' = slipped
  BY <1>1, <1>2 DEF q, Become, Inv, ModelsOK
<1>5. /\ DOMAIN list' = Clients /\ DOMAIN list'[c] = DOMAIN list[c]
      /\ \A d \in Clients : d # c => list'[d] = list[d]
      /\ \A i \in DOMAIN list[c] : i # id => list'[c][i] = list[c][i]
      /\ kind \in Cards => list'[c][id] = [kind |-> kind, text |-> draft'[c]]
      /\ kind \notin Cards => list'[c][id] = list[c][id]
  <2>1. CASE kind \in Cards
    <3>1. list' = [list EXCEPT ![c] = [list[c] EXCEPT ![id] = [kind |-> kind, text |-> draft'[c]]]]
      BY <1>1, <2>1
    <3>2. list'[c] = [list[c] EXCEPT ![id] = [kind |-> kind, text |-> draft'[c]]]
      BY <1>2, <3>1
    <3>3. QED
      BY <1>2, <2>1, <3>1, <3>2
  <2>2. CASE kind \notin Cards
    BY <1>1, <1>2, <2>2
  <2>3. QED
    BY <2>1, <2>2
<1>6. NumbersOf(c)'
  BY <1>2, <1>3, <1>4, <1>5 DEF NumbersOf, Below, HasLate
<1>7. ASSUME NEW i \in DOMAIN rows
      PROVE  KindOf(c, i)' /\ CardOf(c, i)' /\ (<<c, i>> \notin slipped => HasAll(c, i)')
  <2>0. KindOf(c, i) /\ (<<c, i>> \notin slipped => HasAll(c, i))
    BY <1>2 DEF TextOf
  <2>1. i \in DOMAIN list[c] => list'[c][i].kind = list[c][i].kind
    BY <1>2, <1>5
  <2>2. KindOf(c, i)'
    BY <1>2, <1>3, <1>4, <1>5, <2>0, <2>1 DEF KindOf, HasLate, Draws, SaveReqs
  <2>3. CardOf(c, i)'
    BY <1>3, <1>4, <1>5 DEF CardOf
  <2>4. ASSUME <<c, i>> \notin slipped
        PROVE  HasAll(c, i)'
    <3>1. i \in DOMAIN list[c] => rows[i].edits \subseteq list[c][i].text
      BY <1>2, <2>0, <2>4 DEF HasAll, Closing
    <3>2. i \in DOMAIN list[c] => rows[i].edits \subseteq list'[c][i].text
      BY <1>4, <1>5, <3>1
    <3>3. i = id => rows[i].edits \subseteq draft'[c]
      BY <1>2, <1>4, <3>1
    <3>4. QED
      BY <1>3, <1>4, <1>5, <2>0, <2>4, <3>2, <3>3 DEF HasAll, HasLate
  <2>5. QED
    BY <2>2, <2>3, <2>4
<1>8. TextOf(c)'
  BY <1>4, <1>7 DEF TextOf
<1>9. ListsElsewhere(c)
  BY <1>1, <1>5 DEF ListsElsewhere, Inv, RowsOK
<1>10. Become(c, q) /\ UNCHANGED <<models, SwitchVars>>
  BY <1>1 DEF q, defaults, skills, SwitchVars
<1>11. QED
  BY <1>3, <1>4, <1>6, <1>8, <1>9, <1>10, RowsByNobody, ClientStep DEF SavePcs

LEMMA InvAskFor ==
  ASSUME Inv, NEW c \in Clients, NEW pc \in {"create", "look", "read", "delete"}, NEW kind \in Kinds,
         NEW id, id = None \/ (pc # "create" /\ id \in Listed(c, kind)), AskFor(c, pc, kind, id)
  PROVE  Inv'
<1> DEFINE q == [Idle EXCEPT !.pc = pc, !.kind = kind, !.id = id]
<1>1. id \in Nat \cup {None} /\ (pc = "create" => id = None)
  BY DEF Inv, RowsOK, NumbersOf, Below, Listed
<1>2. q \in ReqType /\ q.pc = pc
  BY <1>1 DEF Idle, ReqType, Reqs, RowReqs, ReqPcs
<1>3. Ask(c, q)
  BY DEF AskFor
<1> HIDE DEF q
<1>4. QED
  BY <1>2, <1>3, InvAsk DEF SavePcs, SaveReqs

LEMMA InvRemove ==
  ASSUME Inv, NEW c \in Clients, NEW pc \in {"look", "read", "delete"}, NEW kind \in Kinds,
         Remove(c, pc, kind)
  PROVE  Inv'
BY InvAskFor DEF Remove

LEMMA InvLists ==
  ASSUME Inv, NEW c \in Clients,
         \/ SubmitAgent(c) \/ RemoveAgent(c) \/ SubmitSkill(c) \/ RemoveSkill(c)
         \/ SourceTab(c) \/ ServerTab(c)
  PROVE  Inv'
<1>1. \E kind \in Kinds : \/ AskFor(c, "create", kind, None)
                        \/ Save(c, kind)
                        \/ \E pc \in {"look", "read", "delete"} : Remove(c, pc, kind)
  BY DEF SubmitAgent, RemoveAgent, SubmitSkill, RemoveSkill, SourceTab, ServerTab,
         Kinds, Modals, Cards
<1>2. QED
  BY <1>1, InvAskFor, InvSave, InvRemove

(* What the steps below share: they change neither a model nor a switch.           *)
LEMMA RestIs ==
  ASSUME Rest
  PROVE  UNCHANGED <<models, SwitchVars>>
BY DEF Rest, defaults, skills, SwitchVars

LEMMA ReqOf ==
  ASSUME Inv, NEW c \in Clients
  PROVE  /\ req[c] \in ReqType
         /\ req[c].pc \in RowReqs => req[c].kind \in Kinds
         /\ req[c].pc = "create" => req[c].id = None
         /\ req[c].pc = "open" => req[c].kind \in Modals
         /\ NumbersOf(c) /\ TextOf(c)
         /\ \A q : Become(c, q) => req'[c] = q
BY DEF Inv, ModelsOK, ReqType, RowsOK, Become

LEMMA RowIs ==
  ASSUME Inv, NEW i \in DOMAIN rows
  PROVE  i \in Nat /\ i < next /\ i # None /\ RowForm(rows[i])
BY DEF Inv, RowsOK

(* Nobody has the number of a row that is created.                             *)
LEMMA InvNewRow ==
  ASSUME Inv, NEW c \in Clients, req[c].pc = "create", NewRow(c)
  PROVE  Inv'
<1> DEFINE q == [req[c] EXCEPT !.pc = "reload"]
<1>0. req[c].kind \in Kinds /\ req[c].id = None
  BY ReqOf DEF RowReqs
<1>1. q \in ReqType /\ q.pc = "reload" /\ q.id = None /\ q.kind = req[c].kind
  BY <1>0, ReqWith DEF Inv, ReqPcs
<1>2. Become(c, q)
  BY DEF NewRow
<1> HIDE DEF q
<1>3. req'[c] = q
  BY <1>2, ReqOf
<1>4. /\ UNCHANGED <<list, late, draft, copy, slipped>> /\ next' = next + 1
      /\ DOMAIN rows' = DOMAIN rows \cup {next}
      /\ \A i \in DOMAIN rows : rows'[i] = rows[i]
      /\ rows'[next] = [kind |-> req[c].kind, owner |-> User(c), edits |-> {}, verdict |-> None]
  BY RowIs DEF NewRow, shows
<1>n. next \in Nat
  BY DEF Inv, RowsOK
<1>5. NumbersOf(c) /\ TextOf(c)
  BY ReqOf
<1>6. NumbersOf(c)'
  BY <1>1, <1>3, <1>4, <1>5, <1>n DEF NumbersOf, Below, HasLate
<1>7. ASSUME NEW i \in DOMAIN rows'
      PROVE  KindOf(c, i)' /\ CardOf(c, i)' /\ (<<c, i>> \notin slipped' => HasAll(c, i)')
  <2>0. q.id # i
    BY <1>1, <1>4, <1>n, RowIs
  <2>1. CASE i \in DOMAIN rows
    <3>1. KindOf(c, i) /\ (<<c, i>> \notin slipped => HasAll(c, i)) /\ rows'[i] = rows[i]
      BY <1>4, <1>5, <2>1 DEF TextOf
    <3>2. QED
      BY <1>1, <1>3, <1>4, <2>0, <3>1 DEF KindOf, CardOf, HasAll, Closing, Draws, HasLate
  <2>2. CASE i = next
    <3>1. /\ i \notin DOMAIN list[c]
          /\ HasLate(c) => i \notin DOMAIN late[c].read
      BY <1>5, <1>n, <2>2 DEF NumbersOf, Below
    <3>2. QED
      BY <1>1, <1>3, <1>4, <2>0, <3>1 DEF KindOf, CardOf, HasAll, Closing, Draws, HasLate
  <2>3. QED
    BY <1>4, <2>1, <2>2
<1>8. TextOf(c)'
  BY <1>7 DEF TextOf
<1>9. ListsElsewhere(c)
  BY <1>4 DEF ListsElsewhere, Inv, RowsOK
<1>10. RowForm(rows'[next])
  BY <1>4 DEF RowForm
<1>11. RowsBy(c)
  <2>1. next' \in Nat /\ next <= next' /\ next < next' /\ slipped' = slipped
    BY <1>4, <1>n
  <2>2. ASSUME NEW i \in DOMAIN rows
        PROVE  i \in Nat /\ i < next' /\ RowForm(rows'[i]) /\ rows'[i] = rows[i]
    <3>1. i \in Nat /\ i < next /\ RowForm(rows'[i]) /\ rows'[i] = rows[i]
      BY <1>4, RowIs
    <3>2. QED
      BY <2>1, <1>n, <3>1
  <2>3. \A i \in DOMAIN rows' : i \in DOMAIN rows \/ i = next
    BY <1>4
  <2>4. QED
    BY <1>n, <1>10, <2>1, <2>2, <2>3 DEF RowsBy
<1>12. UNCHANGED <<models, SwitchVars>>
  BY RestIs DEF NewRow
<1>13. QED
  BY <1>1, <1>2, <1>6, <1>8, <1>9, <1>11, <1>12, ClientStep DEF SavePcs

(* A row is removed, or a test noted: the texts stay.                            *)
LEMMA InvAnswer ==
  ASSUME Inv, NEW c \in Clients, req[c].pc \in {"delete", "note"},
         NEW reloads \in BOOLEAN, Answer(c, reloads),
         \A i \in DOMAIN rows' : /\ i \in DOMAIN rows /\ RowForm(rows'[i])
                                 /\ rows'[i].kind = rows[i].kind /\ rows'[i].edits = rows[i].edits
  PROVE  Inv'
<1>1. Become(c, Idle) /\ req'[c] = Idle /\ req[c].kind \in Kinds
  BY ReqOf DEF Answer, RowReqs
<1>2. /\ UNCHANGED <<next, list, draft, copy, slipped>>
      /\ late' = IF reloads THEN [late EXCEPT ![c] = [kind |-> req[c].kind, read |-> None]] ELSE late
  BY DEF Answer
<1>3. SameReq(c) /\ req'[c].pc \notin SaveReqs
  BY <1>1, IdleType DEF SameReq, SaveReqs
<1>4. /\ DOMAIN late' = Clients
      /\ \A d \in Clients : d # c => late'[d] = late[d]
      /\ \/ late'[c] = late[c]
         \/ late'[c] = [kind |-> req[c].kind, read |-> None]
  BY <1>2 DEF Inv, RowsOK
<1>5. late'[c] = late[c] \/ (~HasLate(c)' /\ late'[c].kind \in Kinds)
  BY <1>1, <1>4 DEF HasLate
<1>n. next \in Nat
  BY DEF Inv, RowsOK
<1>6. NumbersOf(c)' /\ TextOf(c)'
  BY <1>2, <1>3, <1>5, <1>n, ListStays DEF Inv
<1>7. ListsElsewhere(c)
  BY <1>2, <1>4 DEF ListsElsewhere, Inv, RowsOK
<1>8. RowsBy(c)
  BY <1>2, <1>n, RowIs DEF RowsBy
<1>9. UNCHANGED <<models, SwitchVars>>
  BY RestIs DEF Answer
<1>10. QED
  BY <1>1, <1>6, <1>7, <1>8, <1>9, IdleType, ClientStep DEF SavePcs

LEMMA InvDeleted ==
  ASSUME Inv, NEW c \in Clients, req[c].pc = "delete", Deleted(c)
  PROVE  Inv'
<1>1. \A i \in DOMAIN rows' : i \in DOMAIN rows /\ rows'[i] = rows[i]
  BY DEF Deleted
<1>2. Mine(c) \in BOOLEAN
  BY DEF Mine
<1>3. Answer(c, Mine(c))
  BY DEF Deleted
<1>4. QED
  BY <1>1, <1>2, <1>3, RowIs, InvAnswer

LEMMA InvNoted ==
  ASSUME Inv, NEW c \in Clients, req[c].pc = "note", NEW verdict, NEW reloads \in BOOLEAN,
         Noted(c, verdict, reloads)
  PROVE  Inv'
<1> DEFINE r == rows[req[c].id]
<1>1. ASSUME NEW i \in DOMAIN rows'
      PROVE  /\ i \in DOMAIN rows /\ RowForm(rows'[i])
             /\ rows'[i].kind = rows[i].kind /\ rows'[i].edits = rows[i].edits
  <2>1. CASE Mine(c)
    <3>1. rows' = [rows EXCEPT ![req[c].id] = [r EXCEPT !.verdict = verdict]]
      BY <2>1 DEF Noted
    <3>2. i \in DOMAIN rows /\ RowForm(rows[i])
      BY <3>1, RowIs
    <3>3. CASE i = req[c].id
      <4>1. rows'[i] = [r EXCEPT !.verdict = verdict] /\ RowForm(r)
        BY <3>1, <3>2, <3>3
      <4>2. [r EXCEPT !.verdict = verdict] =
              [kind |-> r.kind, owner |-> r.owner, edits |-> r.edits, verdict |-> verdict]
        BY <4>1 DEF RowForm
      <4>3. QED
        BY <3>2, <3>3, <4>1, <4>2 DEF RowForm
    <3>4. CASE i # req[c].id
      BY <3>1, <3>2, <3>4
    <3>5. QED
      BY <3>3, <3>4
  <2>2. CASE ~Mine(c)
    BY <2>2, RowIs DEF Noted
  <2>3. QED
    BY <2>1, <2>2
<1>2. (reloads /\ Mine(c)) \in BOOLEAN
  OBVIOUS
<1>3. Answer(c, reloads /\ Mine(c))
  BY DEF Noted
<1>4. QED
  BY <1>1, <1>2, <1>3, InvAnswer

(* A row is looked up.                                                       *)
LEMMA InvFound ==
  ASSUME Inv, NEW c \in Clients, req[c].pc \in {"look", "read"}, NEW pc \in {"delete", "note"},
         Found(c, pc)
  PROVE  Inv'
<1> DEFINE q == IF req[c].id \in ListOf(req[c].kind, User(c)) THEN [req[c] EXCEPT !.pc = pc] ELSE Idle
<1>1. req[c].kind \in Kinds
  BY ReqOf DEF RowReqs
<1>0. pc \in ReqPcs \ {"create", "open"} /\ pc \notin SaveReqs \cup SavePcs
      /\ Idle.pc \notin SaveReqs \cup SavePcs
  BY IdleType DEF ReqPcs, SaveReqs, SavePcs
<1>5. ModelsOK
  BY DEF Inv
<1> DEFINE x == [req[c] EXCEPT !.pc = pc]
<1>6. x \in ReqType /\ x.pc = pc
  BY <1>0, <1>1, <1>5, ReqWith
<1>3. Become(c, q)
  BY DEF Found
<1>2. q \in ReqType /\ q.pc \notin SaveReqs \cup SavePcs
  <2> HIDE DEF x
  <2>1. q = x \/ q = Idle
    BY DEF x
  <2> HIDE DEF q
  <2>2. QED
    BY <1>0, <1>6, <2>1, IdleType
<1> HIDE DEF q
<1>4. UNCHANGED listed /\ UNCHANGED <<models, SwitchVars>>
  BY RestIs DEF Found
<1>7. \A d \in Clients : SameReq(d)
  BY <1>2, <1>3 DEF Become, Inv, ModelsOK, SameReq, SaveReqs
<1>8. QED
  BY <1>2, <1>3, <1>4, <1>7, InvReq, RowsKept DEF Inv
-----------------------------------------------------------------------------

(* A save is stored: others who show the row slip, and the client itself if a reload   *)
(* that was read before is still to arrive.                                     *)
LEMMA InvStored ==
  ASSUME Inv, NEW c \in Clients, req[c].pc = "patch", Mine(c), Edited(c)
  PROVE  Inv'
<1> DEFINE q == [req[c] EXCEPT !.pc = "reload"]
<1>0. PICK id : id = req[c].id
  OBVIOUS
<1>1. req[c].kind \in Kinds /\ id \in DOMAIN rows /\ id \in Nat
  BY <1>0, ReqOf, RowIs DEF RowReqs, Mine
<1>2. q \in ReqType /\ q.pc = "reload" /\ q.id = id /\ q.kind = req[c].kind
  BY <1>0, <1>1, ReqWith DEF Inv, ReqPcs
<1>3. Become(c, q)
  BY DEF Edited
<1> HIDE DEF q
<1>4. req'[c] = q
  BY <1>3, ReqOf
<1>5. /\ UNCHANGED <<next, list, late, draft, copy>>
      /\ slipped' = slipped \cup Slips(c)
      /\ rows' = [rows EXCEPT ![id] = [rows[id] EXCEPT !.edits = draft[c]]]
  BY <1>0 DEF Edited
<1>6. [rows[id] EXCEPT !.edits = draft[c]] =
        [kind |-> rows[id].kind, owner |-> rows[id].owner, edits |-> draft[c], verdict |-> rows[id].verdict]
  BY <1>1, RowIs DEF RowForm
<1>7. /\ DOMAIN rows' = DOMAIN rows
      /\ \A i \in DOMAIN rows : i # id => rows'[i] = rows[i]
      /\ RowForm(rows'[id]) /\ rows'[id].kind = rows[id].kind /\ rows'[id].edits = draft[c]
  BY <1>1, <1>5, <1>6 DEF RowForm
<1>8. \A i \in DOMAIN rows : RowForm(rows'[i]) /\ rows'[i].kind = rows[i].kind
  BY <1>7, RowIs
<1>9. NumbersOf(c) /\ TextOf(c)
  BY ReqOf
<1>10. NumbersOf(c)'
  BY <1>0, <1>2, <1>4, <1>5, <1>9 DEF NumbersOf, Below, HasLate, SaveReqs
<1>11. ASSUME NEW i \in DOMAIN rows'
       PROVE  KindOf(c, i)' /\ CardOf(c, i)' /\ (<<c, i>> \notin slipped' => HasAll(c, i)')
  <2>0. /\ i \in DOMAIN rows /\ KindOf(c, i) /\ CardOf(c, i)
        /\ (<<c, i>> \notin slipped => HasAll(c, i))
    BY <1>7, <1>9 DEF TextOf
  <2>1. KindOf(c, i)'
    BY <1>0, <1>2, <1>4, <1>5, <1>8, <2>0 DEF KindOf, HasLate, Draws, SaveReqs
  <2>2. CardOf(c, i)'
    BY <1>2, <1>4 DEF CardOf
  <2>3. ASSUME <<c, i>> \notin slipped'
        PROVE  HasAll(c, i)'
    <3>0. HasAll(c, i)
      BY <1>5, <2>0, <2>3
    <3>1. CASE i # id
      BY <1>0, <1>2, <1>4, <1>5, <1>7, <2>0, <3>0, <3>1 DEF HasAll, Closing, HasLate
    <3>2. CASE i = id
      <4>1. ~(HasLate(c) /\ i \in DOMAIN late[c].read)
        BY <1>0, <1>5, <2>3, <3>2 DEF Slips
      <4>2. i \in DOMAIN list[c] => draft[c] \subseteq list[c][i].text \/ req[c].kind \in Modals
        BY <1>0, <1>1, <2>0, <3>2 DEF CardOf, Kinds
      <4>3. QED
        BY <1>2, <1>4, <1>5, <1>7, <3>2, <4>1, <4>2 DEF HasAll, Closing, HasLate
    <3>3. QED
      BY <3>1, <3>2
  <2>4. QED
    BY <2>1, <2>2, <2>3
<1>12. TextOf(c)'
  BY <1>11 DEF TextOf
<1>13. ListsElsewhere(c)
  BY <1>5 DEF ListsElsewhere, Inv, RowsOK
<1>14. RowsBy(c)
  <2>1. \A d \in Clients : d # c => <<d, id>> \in slipped'
    BY <1>0, <1>5 DEF Slips
  <2>2. next' = next /\ next \in Nat /\ slipped \subseteq slipped'
    BY <1>5 DEF Inv, RowsOK
  <2>3. QED
    BY <1>7, <1>8, <2>1, <2>2, RowIs DEF RowsBy
<1>15. UNCHANGED <<models, SwitchVars>>
  BY RestIs DEF Edited
<1>16. QED
  BY <1>2, <1>3, <1>10, <1>12, <1>13, <1>14, <1>15, ClientStep DEF SavePcs

(* A save whose modal is closed, or any other request that is over.                *)
LEMMA InvOver ==
  ASSUME Inv, NEW c \in Clients, Over(c), \A i \in DOMAIN rows : ~Closing(c, i),
         UNCHANGED <<models, SwitchVars, rows, next, list, late, slipped>>
  PROVE  Inv'
<1>1. Become(c, Idle) /\ req'[c] = Idle /\ Idle.pc = "idle" /\ Idle \in ReqType
  BY ReqOf, IdleType DEF Over
<1>2. /\ draft' = [draft EXCEPT ![c] = {}] /\ copy' = [copy EXCEPT ![c] = <<>>]
      /\ DOMAIN draft = Clients /\ DOMAIN copy = Clients /\ DOMAIN list = Clients /\ DOMAIN late = Clients
  BY DEF Over, Inv, RowsOK
<1>3. copy'[c] = <<>> /\ DOMAIN copy'[c] = {}
  BY <1>2
<1>4. NumbersOf(c) /\ TextOf(c)
  BY ReqOf
<1>5. NumbersOf(c)'
  BY <1>1, <1>3, <1>4 DEF NumbersOf, Below, HasLate, SaveReqs
<1>6. ASSUME NEW i \in DOMAIN rows
      PROVE  KindOf(c, i)' /\ CardOf(c, i)' /\ (<<c, i>> \notin slipped => HasAll(c, i)')
  <2>0. KindOf(c, i) /\ (<<c, i>> \notin slipped => HasAll(c, i)) /\ ~Closing(c, i)
    BY <1>4 DEF TextOf
  <2>1. KindOf(c, i)' /\ CardOf(c, i)'
    BY <1>1, <2>0 DEF KindOf, CardOf, HasLate, Draws, SaveReqs
  <2>2. <<c, i>> \notin slipped => HasAll(c, i)'
    BY <1>1, <2>0 DEF HasAll, HasLate
  <2>3. QED
    BY <2>1, <2>2
<1>7. TextOf(c)'
  BY <1>6 DEF TextOf
<1>8. ListsElsewhere(c)
  BY <1>2 DEF ListsElsewhere
<1>9. QED
  BY <1>1, <1>5, <1>7, <1>8, RowsByNobody, ClientStep DEF SavePcs

(* A request fails; a modal stays open with what it has.                          *)
LEMMA InvRefused ==
  ASSUME Inv, NEW c \in Clients, Refused(c), UNCHANGED <<models, SwitchVars>>
  PROVE  Inv'
<1>1. UNCHANGED <<rows, next, list, late>>
  BY DEF Refused
<1>2. CASE ~Editing(c)
  <2>1. Over(c) /\ UNCHANGED slipped
    BY <1>2 DEF Refused
  <2>2. \A i \in DOMAIN rows : ~Closing(c, i)
    BY <1>2, RowIs DEF Editing, Closing
  <2>3. QED
    BY <1>1, <2>1, <2>2, InvOver
<1>3. CASE Editing(c)
  <2> DEFINE q == [req[c] EXCEPT !.pc = "open"]
  <2>0. PICK id : id = req[c].id
    OBVIOUS
  <2>1. req[c].kind \in Modals /\ id # None /\ req[c].pc \in {"patch", "reload", "listed"}
    BY <1>3, <2>0 DEF Editing
  <2>2. q \in ReqType /\ q.pc = "open" /\ q.id = id /\ q.kind = req[c].kind
    BY <2>0, <2>1, ReqWith DEF Inv, ReqPcs, Kinds
  <2>3. Become(c, q)
    BY <1>3 DEF Refused
  <2> HIDE DEF q
  <2>4. req'[c] = q
    BY <2>3, ReqOf
  <2>5. /\ copy' = [copy EXCEPT ![c] = <<>>] /\ draft' = draft
        /\ slipped' = IF req[c].pc # "patch" THEN slipped \cup {<<c, id>>} ELSE slipped
        /\ DOMAIN draft = Clients /\ DOMAIN copy = Clients /\ DOMAIN list = Clients
        /\ DOMAIN late = Clients
    BY <1>3, <2>0 DEF Refused, Inv, RowsOK
  <2>6. copy'[c] = <<>> /\ DOMAIN copy'[c] = {}
    BY <2>5
  <2>7. NumbersOf(c) /\ TextOf(c)
    BY ReqOf
  <2>8. NumbersOf(c)'
    BY <1>1, <2>0, <2>1, <2>2, <2>4, <2>6, <2>7 DEF NumbersOf, Below, HasLate, SaveReqs
  <2>9. ASSUME NEW i \in DOMAIN rows
        PROVE  KindOf(c, i)' /\ CardOf(c, i)' /\ (<<c, i>> \notin slipped' => HasAll(c, i)')
    <3>0. KindOf(c, i) /\ (<<c, i>> \notin slipped => HasAll(c, i))
      BY <2>7 DEF TextOf
    <3>1. KindOf(c, i)' /\ CardOf(c, i)'
      BY <1>1, <2>0, <2>1, <2>2, <2>4, <3>0 DEF KindOf, CardOf, HasLate, Draws, SaveReqs
    <3>2. ASSUME <<c, i>> \notin slipped'
          PROVE  HasAll(c, i)'
      <4>1. HasAll(c, i) /\ ~Closing(c, i)
        BY <2>0, <2>5, <3>0, <3>2 DEF Closing
      <4>2. i = id => req[c].pc = "patch"
        BY <2>5, <3>2
      <4>3. QED
        BY <1>1, <2>0, <2>2, <2>4, <2>5, <4>1, <4>2 DEF HasAll, HasLate
    <3>3. QED
      BY <3>1, <3>2
  <2>10. TextOf(c)'
    BY <1>1, <2>9 DEF TextOf
  <2>11. ListsElsewhere(c) /\ slipped \subseteq slipped'
    BY <1>1, <2>5 DEF ListsElsewhere
  <2>12. QED
    BY <1>1, <2>2, <2>3, <2>8, <2>10, <2>11, RowsByNobody, ClientStep DEF SavePcs
<1>4. QED
  BY <1>2, <1>3

LEMMA InvEdited ==
  ASSUME Inv, NEW c \in Clients, req[c].pc = "patch", Edited(c)
  PROVE  Inv'
<1>1. CASE Mine(c)
  BY <1>1, InvStored
<1>2. CASE ~Mine(c)
  <2>1. Refused(c) /\ Rest
    BY <1>2 DEF Edited
  <2>2. QED
    BY <2>1, RestIs, InvRefused
<1>3. QED
  BY <1>1, <1>2

LEMMA InvFail ==
  ASSUME Inv, NEW c \in Clients, Fail(c)
  PROVE  Inv'
BY RestIs, InvRefused DEF Fail

LEMMA InvCancel ==
  ASSUME Inv, NEW c \in Clients, Cancel(c)
  PROVE  Inv'
BY InvOver DEF Cancel, Closing, defaults, skills, SwitchVars

(* An open modal is submitted again.                                          *)
LEMMA InvResubmit ==
  ASSUME Inv, NEW c \in Clients, Resubmit(c)
  PROVE  Inv'
<1> DEFINE q == [req[c] EXCEPT !.pc = "patch"]
<1>0. PICK id : id = req[c].id
  OBVIOUS
<1>1. req[c].pc = "open" /\ req[c].kind \in Modals
  BY ReqOf DEF Resubmit
<1>2. q \in ReqType /\ q.pc = "patch" /\ q.id = id /\ q.kind = req[c].kind
  BY <1>0, <1>1, ReqWith DEF Inv, ReqPcs, Kinds
<1>3. Become(c, q)
  BY DEF Resubmit
<1> HIDE DEF q
<1>4. req'[c] = q
  BY <1>3, ReqOf
<1>5. PICK more : draft' = [draft EXCEPT ![c] = draft[c] \cup more]
  BY DEF Resubmit
<1>6. /\ UNCHANGED <<rows, next, list, late, copy, slipped, models, SwitchVars>>
      /\ DOMAIN draft = Clients /\ DOMAIN copy = Clients /\ DOMAIN list = Clients
      /\ DOMAIN late = Clients
  BY DEF Resubmit, Inv, RowsOK, defaults, skills, SwitchVars
<1>7. draft[c] \subseteq draft'[c]
  BY <1>5, <1>6
<1>8. NumbersOf(c) /\ TextOf(c)
  BY ReqOf
<1>9. NumbersOf(c)'
  BY <1>0, <1>1, <1>2, <1>4, <1>6, <1>8 DEF NumbersOf, Below, HasLate, SaveReqs
<1>10. ASSUME NEW i \in DOMAIN rows
       PROVE  KindOf(c, i)' /\ CardOf(c, i)' /\ (<<c, i>> \notin slipped => HasAll(c, i)')
  <2>0. KindOf(c, i) /\ (<<c, i>> \notin slipped => HasAll(c, i)) /\ ~Closing(c, i)
    BY <1>1, <1>8 DEF TextOf, Closing
  <2>1. KindOf(c, i)'
    BY <1>0, <1>1, <1>2, <1>4, <1>6, <2>0 DEF KindOf, HasLate, Draws, SaveReqs
  <2>2. CardOf(c, i)'
    BY <1>1, <1>2, <1>4 DEF CardOf, Modals, Cards
  <2>3. <<c, i>> \notin slipped => HasAll(c, i)'
    BY <1>0, <1>1, <1>2, <1>4, <1>6, <1>7, <2>0 DEF HasAll, HasLate
  <2>4. QED
    BY <2>1, <2>2, <2>3
<1>11. TextOf(c)'
  BY <1>6, <1>10 DEF TextOf
<1>12. ListsElsewhere(c)
  BY <1>5, <1>6 DEF ListsElsewhere
<1>13. QED
  BY <1>2, <1>3, <1>6, <1>9, <1>11, <1>12, RowsByNobody, ClientStep DEF SavePcs
-----------------------------------------------------------------------------

(* The list of a kind is read and shown.                                         *)
LEMMA InvReadList ==
  ASSUME Inv, NEW c \in Clients, ReadList(c)
  PROVE  Inv'
<1> DEFINE q == [req[c] EXCEPT !.pc = "listed"]
<1>0. PICK id, kind : id = req[c].id /\ kind = req[c].kind
  OBVIOUS
<1>1. req[c].pc = "reload" /\ kind \in Kinds
  BY <1>0, ReqOf DEF ReadList, RowReqs
<1>2. q \in ReqType /\ q.pc = "listed" /\ q.id = id /\ q.kind = kind
  BY <1>0, <1>1, ReqWith DEF Inv, ReqPcs
<1>3. Become(c, q)
  BY DEF ReadList
<1> HIDE DEF q
<1>4. req'[c] = q
  BY <1>3, ReqOf
<1>5. /\ copy' = [copy EXCEPT ![c] = Read(c, kind)]
      /\ UNCHANGED <<rows, next, list, late, draft, slipped>>
      /\ DOMAIN draft = Clients /\ DOMAIN copy = Clients /\ DOMAIN list = Clients
      /\ DOMAIN late = Clients
  BY <1>0 DEF ReadList, Inv, RowsOK
<1>6. PICK read : read = Read(c, kind)
  OBVIOUS
<1>7. copy'[c] = read
  BY <1>5, <1>6
<1>8. \A i \in DOMAIN read : /\ i \in DOMAIN rows /\ i \in Nat /\ i < next
                             /\ rows[i].kind = kind /\ read[i].kind = kind
                             /\ read[i].text = rows[i].edits
  BY <1>1, <1>6, ReadIs
<1>9. NumbersOf(c) /\ TextOf(c)
  BY ReqOf
<1>10. NumbersOf(c)'
  BY <1>0, <1>1, <1>2, <1>4, <1>5, <1>7, <1>8, <1>9 DEF NumbersOf, Below, HasLate, SaveReqs
<1>11. ASSUME NEW i \in DOMAIN rows
       PROVE  KindOf(c, i)' /\ CardOf(c, i)' /\ (<<c, i>> \notin slipped => HasAll(c, i)')
  <2>0. KindOf(c, i) /\ (<<c, i>> \notin slipped => HasAll(c, i))
    BY <1>9 DEF TextOf
  <2>1. KindOf(c, i)'
    BY <1>0, <1>1, <1>2, <1>4, <1>5, <1>7, <1>8, <2>0 DEF KindOf, HasLate, Draws, SaveReqs
  <2>2. CardOf(c, i)'
    BY <1>2, <1>4 DEF CardOf
  <2>3. Closing(c, i) => Closing(c, i)'
    BY <1>0, <1>2, <1>4 DEF Closing
  <2>4. <<c, i>> \notin slipped => HasAll(c, i)'
    BY <1>2, <1>4, <1>5, <1>7, <1>8, <2>0, <2>3 DEF HasAll, HasLate
  <2>5. QED
    BY <2>1, <2>2, <2>4
<1>12. TextOf(c)'
  BY <1>5, <1>11 DEF TextOf
<1>13. ListsElsewhere(c)
  BY <1>5 DEF ListsElsewhere
<1>14. UNCHANGED <<models, SwitchVars>>
  BY RestIs DEF ReadList
<1>15. QED
  BY <1>2, <1>3, <1>5, <1>10, <1>12, <1>13, <1>14, RowsByNobody, ClientStep DEF SavePcs

(* Of each row either what was there, or what was read.                           *)
Kept(c, kind, read, i) ==
  /\ i \in DOMAIN list[c] /\ list'[c][i] = list[c][i]
  /\ i \in DOMAIN read => kind \in Cards
  /\ i \notin DOMAIN read => list[c][i].kind # kind
Taken(c, kind, read, i) ==
  /\ i \in DOMAIN read /\ list'[c][i] = read[i]
  /\ i \notin DOMAIN list[c] \/ kind \notin Cards

LEMMA ShowIs ==
  ASSUME DOMAIN list = Clients, NEW c \in Clients, NEW kind, NEW read, Show(c, kind, read)
  PROVE  /\ DOMAIN list' = Clients /\ \A d \in Clients : d # c => list'[d] = list[d]
         /\ \A i \in DOMAIN list'[c] : Kept(c, kind, read, i) \/ Taken(c, kind, read, i)
<1>1. PICK old : old = list[c]
  OBVIOUS
<1> DEFINE D == (DOMAIN old \ Listed(c, kind)) \cup DOMAIN read
           f == [i \in D |-> IF i \in DOMAIN old /\ (i \notin DOMAIN read \/ kind \in Cards)
                             THEN old[i] ELSE read[i]]
<1>2. list' = [list EXCEPT ![c] = f]
  BY <1>1 DEF Show
<1>3. ASSUME NEW i \in D
      PROVE  \/ /\ i \in DOMAIN old /\ f[i] = old[i]
                /\ i \in DOMAIN read => kind \in Cards
                /\ i \notin DOMAIN read => old[i].kind # kind
             \/ /\ i \in DOMAIN read /\ f[i] = read[i]
                /\ i \notin DOMAIN old \/ kind \notin Cards
  BY <1>1 DEF Listed
<1>4. DOMAIN f = D
  OBVIOUS
<1> HIDE DEF f
<1>5. DOMAIN list' = Clients /\ list'[c] = f /\ \A d \in Clients : d # c => list'[d] = list[d]
  BY <1>2
<1>6. QED
  BY <1>1, <1>3, <1>4, <1>5 DEF Kept, Taken

LEMMA InvShowList ==
  ASSUME Inv, NEW c \in Clients, ShowList(c)
  PROVE  Inv'
<1>0. PICK kind, read : kind = req[c].kind /\ read = copy[c]
  OBVIOUS
<1>1. Become(c, Idle) /\ req'[c] = Idle /\ Idle.pc = "idle" /\ Idle \in ReqType
  BY ReqOf, IdleType DEF ShowList, Over
<1>2. /\ draft' = [draft EXCEPT ![c] = {}] /\ copy' = [copy EXCEPT ![c] = <<>>]
      /\ DOMAIN draft = Clients /\ DOMAIN copy = Clients /\ DOMAIN list = Clients /\ DOMAIN late = Clients
      /\ UNCHANGED <<rows, next, late, slipped>>
      /\ req[c].pc = "listed"
  BY DEF ShowList, Over, Inv, RowsOK
<1>3. copy'[c] = <<>> /\ DOMAIN copy'[c] = {}
  BY <1>2
<1>4. /\ DOMAIN list' = Clients /\ \A d \in Clients : d # c => list'[d] = list[d]
      /\ \A i \in DOMAIN list'[c] : Kept(c, kind, read, i) \/ Taken(c, kind, read, i)
  BY <1>0, <1>2, ShowIs DEF ShowList
<1>5. NumbersOf(c) /\ TextOf(c)
  BY ReqOf
<1>6. NumbersOf(c)'
  <2>1. Below(DOMAIN list'[c])
    BY <1>0, <1>4, <1>5 DEF Kept, Taken, NumbersOf, Below
  <2>2. QED
    BY <1>1, <1>2, <1>3, <1>5, <2>1 DEF NumbersOf, Below, HasLate, SaveReqs
<1>7. ASSUME NEW i \in DOMAIN rows
      PROVE  KindOf(c, i)' /\ CardOf(c, i)' /\ (<<c, i>> \notin slipped => HasAll(c, i)')
  <2>0. KindOf(c, i) /\ (<<c, i>> \notin slipped => HasAll(c, i))
    BY <1>5 DEF TextOf
  <2>1. i \in DOMAIN read => rows[i].kind = kind /\ read[i].kind = kind
    BY <1>0, <1>2, <2>0 DEF KindOf
  <2>2. KindOf(c, i)'
    BY <1>1, <1>2, <1>4, <2>0, <2>1 DEF KindOf, HasLate, Draws, SaveReqs, Kept, Taken
  <2>3. CardOf(c, i)'
    BY <1>1 DEF CardOf
  <2>4. ASSUME <<c, i>> \notin slipped
        PROVE  HasAll(c, i)'
    <3>1. HasAll(c, i)
      BY <2>0, <2>4
    <3>2. ASSUME i \in DOMAIN list'[c]
          PROVE  rows[i].edits \subseteq list'[c][i].text
      <4>1. CASE Kept(c, kind, read, i)
        <5>1. i \in DOMAIN list[c] /\ list'[c][i] = list[c][i]
          BY <4>1 DEF Kept
        <5>2. ~Closing(c, i)
          <6>1. ASSUME Closing(c, i)
                PROVE  FALSE
            <7>1. kind \in Modals /\ kind = rows[i].kind
              BY <1>0, <2>0, <6>1 DEF Closing, KindOf, Draws, SaveReqs
            <7>2. list[c][i].kind = kind
              BY <2>0, <5>1, <7>1 DEF KindOf
            <7>3. QED
              BY <4>1, <7>1, <7>2 DEF Kept, Modals, Cards
          <6>2. QED
            BY <6>1
        <5>3. QED
          BY <3>1, <5>1, <5>2 DEF HasAll
      <4>2. CASE Taken(c, kind, read, i)
        BY <1>0, <1>2, <3>1, <4>2 DEF Taken, HasAll
      <4>3. QED
        BY <1>4, <3>2, <4>1, <4>2
    <3>3. QED
      BY <1>1, <1>2, <3>1, <3>2 DEF HasAll, HasLate
  <2>5. QED
    BY <2>2, <2>3, <2>4
<1>8. TextOf(c)'
  BY <1>2, <1>7 DEF TextOf
<1>9. ListsElsewhere(c)
  BY <1>2, <1>4 DEF ListsElsewhere
<1>10. UNCHANGED <<models, SwitchVars>>
  BY RestIs DEF ShowList
<1>11. QED
  BY <1>1, <1>2, <1>6, <1>8, <1>9, <1>10, RowsByNobody, ClientStep DEF SavePcs

LEMMA InvReadLate ==
  ASSUME Inv, NEW c \in Clients, ReadLate(c)
  PROVE  Inv'
<1>0. PICK kind : kind = late[c].kind
  OBVIOUS
<1>1. /\ DOMAIN draft = Clients /\ DOMAIN copy = Clients /\ DOMAIN list = Clients /\ DOMAIN late = Clients
      /\ UNCHANGED <<rows, next, list, draft, copy, slipped, req>>
      /\ late[c] # None /\ NumbersOf(c) /\ TextOf(c)
  BY ReqOf DEF ReadLate, Inv, RowsOK
<1>2. kind \in Kinds
  BY <1>0, <1>1 DEF NumbersOf
<1>3. PICK read : read = Read(c, kind)
  OBVIOUS
<1>4. /\ late'[c] = [kind |-> kind, read |-> read] /\ DOMAIN late' = Clients
      /\ \A d \in Clients : d # c => late'[d] = late[d]
  BY <1>0, <1>1, <1>3 DEF ReadLate
<1>5. late'[c].kind = kind /\ late'[c].read = read
  BY <1>4
<1>6. \A i \in DOMAIN read : /\ i \in DOMAIN rows /\ i \in Nat /\ i < next
                             /\ rows[i].kind = kind /\ read[i].kind = kind
                             /\ read[i].text = rows[i].edits
  BY <1>2, <1>3, ReadIs
<1>7. NumbersOf(c)'
  BY <1>1, <1>2, <1>5, <1>6 DEF NumbersOf, Below
<1>8. ASSUME NEW i \in DOMAIN rows
      PROVE  KindOf(c, i)' /\ CardOf(c, i)' /\ (<<c, i>> \notin slipped => HasAll(c, i)')
  <2>0. KindOf(c, i) /\ CardOf(c, i) /\ (<<c, i>> \notin slipped => HasAll(c, i))
    BY <1>1 DEF TextOf
  <2>1. KindOf(c, i)'
    BY <1>1, <1>5, <1>6, <2>0 DEF KindOf, Draws
  <2>2. CardOf(c, i)'
    BY <1>1, <2>0 DEF CardOf
  <2>3. Closing(c, i) => Closing(c, i)'
    BY <1>1 DEF Closing
  <2>4. <<c, i>> \notin slipped => HasAll(c, i)'
    BY <1>1, <1>5, <1>6, <2>0, <2>3 DEF HasAll
  <2>5. QED
    BY <2>1, <2>2, <2>4
<1>9. TextOf(c)'
  BY <1>1, <1>8 DEF TextOf
<1>10. ListsElsewhere(c)
  BY <1>1, <1>4 DEF ListsElsewhere
<1>11. UNCHANGED <<models, SwitchVars>>
  BY RestIs DEF ReadLate
<1>12. QED
  BY <1>1, <1>7, <1>9, <1>10, <1>11, ReqOf, RowsByNobody, ClientStep

LEMMA InvShowLate ==
  ASSUME Inv, NEW c \in Clients, ShowLate(c)
  PROVE  Inv'
<1>0. PICK kind, read : kind = late[c].kind /\ read = late[c].read
  OBVIOUS
<1>1. /\ DOMAIN draft = Clients /\ DOMAIN copy = Clients /\ DOMAIN list = Clients /\ DOMAIN late = Clients
      /\ UNCHANGED <<rows, next, draft, copy, slipped, req>>
      /\ HasLate(c) /\ late[c] # None /\ NumbersOf(c) /\ TextOf(c)
  BY ReqOf DEF ShowLate, HasLate, Inv, RowsOK
<1>2. /\ late'[c] = None /\ DOMAIN late' = Clients
      /\ \A d \in Clients : d # c => late'[d] = late[d]
  BY <1>1 DEF ShowLate
<1>3. /\ DOMAIN list' = Clients /\ \A d \in Clients : d # c => list'[d] = list[d]
      /\ \A i \in DOMAIN list'[c] : Kept(c, kind, read, i) \/ Taken(c, kind, read, i)
  BY <1>0, <1>1, ShowIs DEF ShowLate
<1>4. NumbersOf(c)'
  <2>1. Below(DOMAIN list'[c])
    BY <1>0, <1>1, <1>3 DEF Kept, Taken, NumbersOf, Below
  <2>2. QED
    BY <1>1, <1>2, <2>1 DEF NumbersOf, Below, HasLate
<1>5. ASSUME NEW i \in DOMAIN rows
      PROVE  KindOf(c, i)' /\ CardOf(c, i)' /\ (<<c, i>> \notin slipped => HasAll(c, i)')
  <2>0. KindOf(c, i) /\ CardOf(c, i) /\ (<<c, i>> \notin slipped => HasAll(c, i))
    BY <1>1 DEF TextOf
  <2>1. i \in DOMAIN read => rows[i].kind = kind /\ read[i].kind = kind
    BY <1>0, <1>1, <2>0 DEF KindOf
  <2>2. KindOf(c, i)'
    BY <1>1, <1>2, <1>3, <2>0, <2>1 DEF KindOf, HasLate, Draws, Kept, Taken
  <2>3. CardOf(c, i)'
    <3> SUFFICES ASSUME req[c].pc = "patch", req[c].id = i, req[c].kind \in Cards, i \in DOMAIN list'[c]
                 PROVE  draft[c] \subseteq list'[c][i].text
      BY <1>1 DEF CardOf
    <3>1. i \in DOMAIN list[c] /\ req[c].kind = rows[i].kind
      BY <1>1, <2>0 DEF KindOf, Draws, SaveReqs
    <3>2. Kept(c, kind, read, i)
      BY <1>3, <2>1, <3>1 DEF Taken
    <3>3. QED
      BY <2>0, <3>1, <3>2 DEF CardOf, Kept
  <2>4. ASSUME <<c, i>> \notin slipped
        PROVE  HasAll(c, i)'
    <3>1. HasAll(c, i)
      BY <2>0, <2>4
    <3>2. Closing(c, i) => Closing(c, i)'
      BY <1>1 DEF Closing
    <3>3. i \in DOMAIN list'[c] => rows[i].edits \subseteq list'[c][i].text \/ Closing(c, i)
      BY <1>0, <1>1, <1>3, <3>1 DEF HasAll, Kept, Taken
    <3>4. QED
      BY <1>1, <1>2, <3>1, <3>2, <3>3 DEF HasAll, HasLate
  <2>5. QED
    BY <2>2, <2>3, <2>4
<1>6. TextOf(c)'
  BY <1>1, <1>5 DEF TextOf
<1>7. ListsElsewhere(c)
  BY <1>1, <1>2, <1>3 DEF ListsElsewhere
<1>8. UNCHANGED <<models, SwitchVars>>
  BY RestIs DEF ShowLate
<1>9. QED
  BY <1>1, <1>4, <1>6, <1>7, <1>8, ReqOf, RowsByNobody, ClientStep

LEMMA InvLateFails ==
  ASSUME Inv, NEW c \in Clients, LateFails(c)
  PROVE  Inv'
<1>1. /\ DOMAIN draft = Clients /\ DOMAIN copy = Clients /\ DOMAIN list = Clients /\ DOMAIN late = Clients
      /\ UNCHANGED <<rows, next, list, draft, copy, slipped, req>>
      /\ late' = [late EXCEPT ![c] = None] /\ next \in Nat
  BY DEF LateFails, Inv, RowsOK
<1>2. /\ late'[c] = None /\ DOMAIN late' = Clients
      /\ \A d \in Clients : d # c => late'[d] = late[d]
  BY <1>1
<1>3. NumbersOf(c)' /\ TextOf(c)'
  BY <1>1, <1>2, ListStays DEF SameReq, Inv
<1>4. ListsElsewhere(c)
  BY <1>1, <1>2 DEF ListsElsewhere
<1>5. UNCHANGED <<models, SwitchVars>>
  BY RestIs DEF LateFails
<1>6. QED
  BY <1>1, <1>3, <1>4, <1>5, ReqOf, RowsByNobody, ClientStep
-----------------------------------------------------------------------------

(* What the routes of the lists do, and what else a client does there.              *)
Handler(c) ==
  \/ CreateAgent(c) \/ PatchAgent(c) \/ LookForAgent(c) \/ DeleteAgent(c)
  \/ CreateSkill(c) \/ PatchSkill(c) \/ LookForSkill(c) \/ DeleteSkill(c)
  \/ CreateSource(c) \/ PatchSource(c) \/ DeleteSource(c) \/ TestSource(c)
  \/ CreateServer(c) \/ PatchServer(c) \/ DeleteServer(c) \/ VerifyServer(c)
Asking(c) ==
  \/ SubmitAgent(c) \/ RemoveAgent(c) \/ SubmitSkill(c) \/ RemoveSkill(c)
  \/ SourceTab(c) \/ ServerTab(c)
Showing(c) ==
  \/ Resubmit(c) \/ Cancel(c) \/ ReadList(c) \/ ShowList(c) \/ ReadLate(c) \/ ShowLate(c)
  \/ LateFails(c) \/ Fail(c)
Flying(c) ==
  \E i \in DOMAIN flights[c] : \/ Toggled(c, i) \/ ToggleFails(c, i) \/ ListSkills(c, i)
                               \/ ShowSkills(c, i) \/ ReloadFails(c, i)

Handled(c) ==
  \/ req[c].pc = "create" /\ NewRow(c)
  \/ req[c].pc = "patch" /\ Edited(c)
  \/ req[c].pc = "delete" /\ Deleted(c)
  \/ req[c].pc = "note" /\ \E verdict : \E reloads \in BOOLEAN : Noted(c, verdict, reloads)
  \/ req[c].pc \in {"look", "read"} /\ \E pc \in {"delete", "note"} : Found(c, pc)

LEMMA HandlerIs ==
  ASSUME NEW c \in Clients, Handler(c)
  PROVE  Handled(c)
<1>1. ASSUME CreateAgent(c) \/ CreateSkill(c) \/ CreateSource(c) \/ CreateServer(c)
      PROVE  Handled(c)
  BY <1>1 DEF CreateAgent, CreateSkill, CreateSource, CreateServer, At, Handled
<1>2. ASSUME PatchAgent(c) \/ PatchSkill(c) \/ PatchSource(c) \/ PatchServer(c)
      PROVE  Handled(c)
  BY <1>2 DEF PatchAgent, PatchSkill, PatchSource, PatchServer, At, Handled
<1>3. ASSUME DeleteAgent(c) \/ DeleteSkill(c) \/ DeleteSource(c) \/ DeleteServer(c)
      PROVE  Handled(c)
  BY <1>3 DEF DeleteAgent, DeleteSkill, DeleteSource, DeleteServer, At, Handled
<1>4. ASSUME LookForAgent(c) \/ LookForSkill(c) \/ TestSource(c) \/ VerifyServer(c)
      PROVE  Handled(c)
  BY <1>4 DEF LookForAgent, LookForSkill, TestSource, VerifyServer, At, Handled
<1>5. QED
  BY <1>1, <1>2, <1>3, <1>4 DEF Handler

LEMMA InvHandler ==
  ASSUME Inv, NEW c \in Clients, Handler(c)
  PROVE  Inv'
BY HandlerIs, InvNewRow, InvEdited, InvDeleted, InvNoted, InvFound DEF Handled

LEMMA InvShowing ==
  ASSUME Inv, NEW c \in Clients, Showing(c)
  PROVE  Inv'
BY InvResubmit, InvCancel, InvReadList, InvShowList, InvReadLate, InvShowLate, InvLateFails,
   InvFail DEF Showing

LEMMA RowsAlone ==
  ASSUME Inv, UNCHANGED <<listed, req>>
  PROVE  RowsOK'
BY RowsKept DEF SameReq, Inv

LEMMA InvStep ==
  ASSUME Inv, NEW c \in Clients,
         \/ AddSkill(c) \/ SaveModel(c) \/ CreateCustom(c) \/ Join(c) \/ Toggle(c)
         \/ Flying(c)
  PROVE  Inv'
<1>1. CASE AddSkill(c)
  <2>1. [Idle EXCEPT !.pc = "custom"] \in ReqType /\ [Idle EXCEPT !.pc = "custom"].pc = "custom"
    BY DEF Idle, ReqType, Reqs, RowReqs, ReqPcs
  <2>2. QED
    BY <1>1, <2>1, InvAsk DEF AddSkill, SavePcs, SaveReqs
<1>2. CASE SaveModel(c)
  <2>1. [Idle EXCEPT !.pc = "save"] \in ReqType /\ [Idle EXCEPT !.pc = "save"].pc = "save"
    BY DEF Idle, ReqType, Reqs, RowReqs, ReqPcs
  <2>2. QED
    BY <1>2, <2>1, InvAsk DEF SaveModel, SavePcs, SaveReqs
<1>3. CASE CreateCustom(c)
  <2>1. [Idle EXCEPT !.pc = "join"] \in ReqType /\ [Idle EXCEPT !.pc = "join"].pc = "join"
    BY DEF Idle, ReqType, Reqs, RowReqs, ReqPcs
  <2>2. UNCHANGED <<models, SwitchVars, listed>> /\ req[c].pc = "custom"
    BY <1>3 DEF CreateCustom, defaults, SwitchVars
  <2>3. PICK q \in {Idle, [Idle EXCEPT !.pc = "join"]} : Become(c, q)
    BY <1>3 DEF CreateCustom
  <2>4. q \in ReqType /\ q.pc \notin SavePcs \cup SaveReqs
    BY <2>1, IdleType DEF SavePcs, SaveReqs
  <2>5. \A d \in Clients : SameReq(d)
    BY <2>2, <2>3, <2>4 DEF Become, Inv, ModelsOK, SameReq, SaveReqs
  <2>6. QED
    BY <2>2, <2>3, <2>4, <2>5, RowsKept, InvReq DEF Inv
<1>4. CASE Join(c)
  <2>1. UNCHANGED <<models, listed>> /\ Become(c, Idle) /\ req[c].pc = "join"
    BY <1>4 DEF Join, defaults
  <2>2. \A d \in Clients : SameReq(d)
    BY <2>1, IdleType DEF Become, Inv, ModelsOK, SameReq, SaveReqs
  <2>3. SwitchOK'
    BY <1>4, SwitchJoin DEF Inv
  <2>4. QED
    BY <2>1, <2>2, <2>3, IdleType, RowsKept, ReqStep DEF Inv, SavePcs
<1>5. CASE Toggle(c)
  <2>1. UNCHANGED <<models, listed, req>>
    BY <1>5 DEF Toggle, defaults
  <2>2. QED
    BY <1>5, <2>1, SwitchToggle, ModelsKept, RowsAlone DEF Inv
<1>6. ASSUME NEW i \in DOMAIN flights[c],
             \/ Toggled(c, i) \/ ToggleFails(c, i) \/ ListSkills(c, i)
             \/ ShowSkills(c, i) \/ ReloadFails(c, i)
      PROVE  Inv'
  <2>1. UNCHANGED <<models, listed, req>>
    BY <1>6 DEF Toggled, ToggleFails, ListSkills, ShowSkills, ReloadFails, defaults
  <2>2. SwitchOK'
    BY <1>6, SwitchFlight DEF Inv
  <2>3. QED
    BY <2>1, <2>2, ModelsKept, RowsAlone DEF Inv
<1>7. QED
  BY <1>1, <1>2, <1>3, <1>4, <1>5, <1>6 DEF Flying

Other(c) ==
  \/ SaveModel(c) \/ FindDefault(c) \/ ClearDefaults(c) \/ AddSkill(c) \/ CreateCustom(c)
  \/ Join(c) \/ Toggle(c) \/ Flying(c)

LEMMA NextIs ==
  Next => \E c \in Clients : \/ Other(c) \/ WriteModel(c) \/ Asking(c) \/ Showing(c) \/ Handler(c)
<1> SUFFICES ASSUME NEW c \in Clients,
      \/ SaveModel(c) \/ FindDefault(c) \/ ClearDefaults(c) \/ WriteModel(c)
      \/ AddSkill(c) \/ CreateCustom(c) \/ Join(c) \/ Toggle(c)
      \/ Flying(c) \/ Asking(c) \/ Showing(c) \/ Handler(c)
             PROVE  \/ Other(c) \/ WriteModel(c) \/ Asking(c) \/ Showing(c) \/ Handler(c)
  BY DEF Next, Flying, Asking, Showing, Handler
<1>1. QED
  BY DEF Other

LEMMA InvNext ==
  ASSUME Inv, [Next]_vars
  PROVE  Inv'
<1>1. ASSUME NEW c \in Clients, Other(c) \/ WriteModel(c)
      PROVE  Inv'
  BY <1>1, InvStep, InvFindDefault, InvClearDefaults, InvWriteModel DEF Other
<1>2. ASSUME NEW c \in Clients, Asking(c) \/ Showing(c) \/ Handler(c)
      PROVE  Inv'
  BY <1>2, InvLists, InvShowing, InvHandler DEF Asking
<1>3. CASE UNCHANGED vars
  BY <1>3, SwitchKept, ModelsKept, RowsAlone DEF vars, defaults, skills, SwitchVars, Inv
<1>4. QED
  BY <1>1, <1>2, <1>3, NextIs

LEMMA InvAlways == Spec => []Inv
BY InvInit, InvNext, PTL DEF Spec
-----------------------------------------------------------------------------
(* The switch of a skill shows what is stored once its last toggle is answered,   *)
(* in every tab whose clicks did not overtake each other.                      *)
THEOREM SwitchIsStored == Spec => []SwitchShowsStored
<1>1. Inv => SwitchShowsStored
  BY DEF Inv, SwitchOK, SwitchOf, SwitchShowsStored
<1>2. QED
  BY <1>1, InvAlways, PTL

(* Only a save's last step writes the model rows.                             *)
LEMMA ModelsWritten ==
  ASSUME Inv, [Next]_vars, models' # models
  PROVE  \E c \in Clients : WriteModel(c)
<1>1. ASSUME NEW c \in Clients, Handler(c)
      PROVE  models' = models
  BY <1>1, HandlerIs DEF Handled, NewRow, Edited, Deleted, Noted, Found, Answer, Rest, defaults
<1>2. ASSUME NEW c \in Clients, Other(c)
      PROVE  models' = models
  BY <1>2 DEF Other, SaveModel, FindDefault, ClearDefaults, AddSkill, CreateCustom, Join, Toggle,
              Flying, Toggled, ToggleFails, ListSkills, ShowSkills, ReloadFails, Ask, defaults
<1>3. ASSUME NEW c \in Clients, Asking(c)
      PROVE  models' = models
  BY <1>3 DEF Asking, SubmitAgent, RemoveAgent, SubmitSkill, RemoveSkill, SourceTab, ServerTab,
              Save, Remove, AskFor, Ask, defaults
<1>4. ASSUME NEW c \in Clients, Showing(c)
      PROVE  models' = models
  BY <1>4 DEF Showing, Resubmit, Cancel, ReadList, ShowList, ReadLate, ShowLate, LateFails, Fail,
              Rest, defaults
<1>5. CASE UNCHANGED vars
  BY <1>5 DEF vars, defaults
<1>6. QED
  BY <1>1, <1>2, <1>3, <1>4, <1>5, NextIs

(* A save that commits leaves the default it chose, and one that met no other     *)
(* save leaves it as the only one.                                           *)
THEOREM SaveLeavesDefault == Spec => DefaultKept
<1>1. Inv /\ [Next]_vars =>
        \A c \in Clients : req[c].pc = "write" /\ models' # models /\ req'[c] = Idle =>
          LET after == {i \in DOMAIN models'[User(c)] : models'[User(c)][i]}
              own == IF req[c].id = None THEN Len(models'[User(c)]) ELSE req[c].id
          IN  own \in after /\ (~req[c].met => after = {own})
  <2> SUFFICES ASSUME Inv, [Next]_vars, NEW c \in Clients,
                      req[c].pc = "write", models' # models, req'[c] = Idle
               PROVE  LET after == {i \in DOMAIN models'[User(c)] : models'[User(c)][i]}
                          own == IF req[c].id = None THEN Len(models'[User(c)]) ELSE req[c].id
                      IN  own \in after /\ (~req[c].met => after = {own})
    OBVIOUS
  <2>1. PICK a \in Clients : WriteModel(a)
    BY ModelsWritten
  <2>2. a = c
    <3>1. a # c => req'[c] = req[c]
      BY <2>1 DEF WriteModel, Become, Inv, ModelsOK
    <3>2. QED
      BY <3>1, IdleType
  <2>3. models'[User(c)] = Written(c)
    BY <2>1, <2>2 DEF WriteModel, User, Inv, ModelsOK
  <2>4. QED
    BY <2>3, WrittenKeeps DEF Own
<1>2. QED
  BY <1>1, InvAlways, PTL DEF Spec, DefaultKept

(* Only a save writes the text of a row that is there.                            *)
LEMMA EditsWritten ==
  ASSUME Inv, [Next]_vars, NEW i \in DOMAIN rows \cap DOMAIN rows', rows'[i].edits # rows[i].edits
  PROVE  \E c \in Clients : req[c].pc = "patch" /\ Mine(c) /\ Edited(c)
<1>1. rows' # rows
  OBVIOUS
<1>2. ASSUME NEW c \in Clients, Handler(c)
      PROVE  req[c].pc = "patch" /\ Mine(c) /\ Edited(c)
  <2>1. CASE NewRow(c)
    <3>1. i # next
      BY RowIs DEF Inv, RowsOK
    <3>2. rows'[i] = rows[i]
      BY <2>1, <3>1 DEF NewRow
    <3>3. QED
      BY <3>2
  <2>2. CASE Deleted(c)
    BY <2>2 DEF Deleted
  <2>3. ASSUME NEW verdict, NEW reloads, Noted(c, verdict, reloads)
        PROVE  FALSE
    <3>1. Mine(c) /\ rows' = [rows EXCEPT ![req[c].id] = [rows[req[c].id] EXCEPT !.verdict = verdict]]
      BY <1>1, <2>3 DEF Noted
    <3>2. rows'[i] = rows[i] \/ rows'[i] = [rows[i] EXCEPT !.verdict = verdict]
      BY <3>1
    <3>3. [rows[i] EXCEPT !.verdict = verdict].edits = rows[i].edits
      BY RowIs DEF RowForm
    <3>4. QED
      BY <3>2, <3>3
  <2>4. ASSUME NEW pc, Found(c, pc)
        PROVE  FALSE
    BY <1>1, <2>4 DEF Found, listed
  <2>5. req[c].pc = "patch" /\ Edited(c)
    BY <1>2, <2>1, <2>2, <2>3, <2>4, HandlerIs DEF Handled
  <2>6. QED
    BY <1>1, <2>5 DEF Edited, Refused
<1>3. ASSUME NEW c \in Clients, Other(c) \/ WriteModel(c)
      PROVE  FALSE
  BY <1>1, <1>3
     DEF Other, SaveModel, FindDefault, ClearDefaults, WriteModel, AddSkill, CreateCustom, Join,
         Toggle, Flying, Toggled, ToggleFails, ListSkills, ShowSkills, ReloadFails, Ask, listed
<1>4. ASSUME NEW c \in Clients, Asking(c)
      PROVE  FALSE
  BY <1>1, <1>4 DEF Asking, SubmitAgent, RemoveAgent, SubmitSkill, RemoveSkill, SourceTab,
                    ServerTab, Save, Remove, AskFor, Ask, listed
<1>5. ASSUME NEW c \in Clients, Showing(c)
      PROVE  FALSE
  BY <1>1, <1>5 DEF Showing, Resubmit, Cancel, ReadList, ShowList, ReadLate, ShowLate, LateFails,
                    Fail, Refused
<1>6. ~UNCHANGED vars
  BY <1>1 DEF vars, listed
<1>7. QED
  BY <1>2, <1>3, <1>4, <1>5, <1>6, NextIs

(* A save sends the whole row as its client shows it, and yet undoes nothing that was   *)
(* saved before, in any interleaving of saves, reloads and removals, but where another  *)
(* client saved the row or a reload failed or came late.                           *)
THEOREM NoEditIsUndone == Spec => NoEditUndone
<1>1. Inv /\ [Next]_vars =>
        \A i \in DOMAIN rows \cap DOMAIN rows' :
          rows[i].edits \subseteq rows'[i].edits \/
          \E c \in Clients : req[c].pc = "patch" /\ req[c].id = i /\ <<c, i>> \in slipped
  <2> SUFFICES ASSUME Inv, [Next]_vars, NEW i \in DOMAIN rows \cap DOMAIN rows',
                      rows'[i].edits # rows[i].edits
               PROVE  \/ rows[i].edits \subseteq rows'[i].edits
                      \/ \E c \in Clients : req[c].pc = "patch" /\ req[c].id = i /\ <<c, i>> \in slipped
    OBVIOUS
  <2>1. PICK c \in Clients : req[c].pc = "patch" /\ Mine(c) /\ Edited(c)
    BY EditsWritten
  <2>2. PICK id : id = req[c].id
    OBVIOUS
  <2>3. rows' = [rows EXCEPT ![id] = [rows[id] EXCEPT !.edits = draft[c]]]
    BY <2>1, <2>2 DEF Edited
  <2>4. i = id
    BY <2>3
  <2>5. rows'[i].edits = draft[c]
    BY <2>3, <2>4, RowIs DEF RowForm
  <2>6. <<c, i>> \notin slipped => rows[i].edits \subseteq draft[c]
    BY <2>1, <2>2, <2>4, ReqOf DEF TextOf, HasAll
  <2>7. QED
    BY <2>1, <2>2, <2>4, <2>5, <2>6
<1>2. QED
  BY <1>1, InvAlways, PTL DEF Spec, NoEditUndone
-----------------------------------------------------------------------------
(* The connection panel of the same page, which shares no state with the tabs.    *)
HIDE SettingsAssumption


(* There is one row or none, and what is stored is what the user wants.           *)
OneRow ==
  \/ DOMAIN pRows = {} /\ wanted = Env
  \/ \E i \in Nat : DOMAIN pRows = {i} /\ pRows[i] = wanted

(* As long as no two tabs were at it, one is, at most, and it knows the row there is. *)
PanelInv ==
  /\ DOMAIN panel = Tabs
  /\ pNext \in Nat
  /\ ~pCrossed =>
       /\ OneRow
       /\ \A t \in Tabs : Panel!Busy(t) =>
            /\ panel[t].found = Panel!Shown
            /\ \A u \in Tabs : Panel!Busy(u) => u = t

(* The resolver takes the last row and the panel the first: of one row, the same.    *)
LEMMA OneRowShown ==
  /\ DOMAIN pRows = {} => Panel!Shown = None /\ Panel!Resolved = Env
  /\ \A i \in Nat : DOMAIN pRows = {i} => Panel!Shown = i /\ Panel!Resolved = pRows[i]
<1>1. \A i \in Nat : Panel!Min({i}) = i /\ Panel!Max({i}) = i
  BY DEF Panel!Min, Panel!Max
<1>2. QED
  BY <1>1 DEF Panel!Shown, Panel!Resolved

LEMMA PanelInit == Panel!Init => PanelInv
BY DEF Panel!Init, Panel!Idle, Panel!Busy, PanelInv, OneRow

(* A step that leaves the rows and what the tabs are about alone.                 *)
LEMMA PanelElsewhere ==
  ASSUME PanelInv, UNCHANGED <<pRows, pNext, panel, wanted, pCrossed>>
  PROVE  PanelInv'
BY DEF PanelInv, OneRow, Panel!Busy, Panel!Shown

LEMMA PanelSubmit ==
  ASSUME PanelInv, NEW t \in Tabs, NEW c, Panel!Submit(t, c)
  PROVE  PanelInv'
<1>1. /\ panel' = [panel EXCEPT ![t] = [pc |-> "write", want |-> c, found |-> Panel!Shown]]
      /\ pCrossed' = (pCrossed \/ \E u \in Tabs : Panel!Busy(u))
      /\ UNCHANGED <<pRows, pNext, wanted>>
  BY DEF Panel!Submit, Panel!store
<1>2. DOMAIN panel' = Tabs /\ pNext' \in Nat /\ Panel!Shown' = Panel!Shown
  BY <1>1 DEF PanelInv, Panel!Shown
<1>3. ASSUME ~pCrossed'
      PROVE  /\ OneRow'
             /\ \A u \in Tabs : Panel!Busy(u)' => u = t
             /\ panel'[t].found = Panel!Shown'
  <2>1. ~pCrossed /\ \A u \in Tabs : ~Panel!Busy(u)
    BY <1>1, <1>3
  <2>2. OneRow'
    BY <1>1, <2>1 DEF PanelInv, OneRow
  <2>3. \A u \in Tabs : u # t => panel'[u] = panel[u]
    BY <1>1 DEF PanelInv
  <2>4. panel'[t].found = Panel!Shown
    BY <1>1 DEF PanelInv
  <2>5. QED
    BY <1>2, <2>1, <2>2, <2>3, <2>4 DEF Panel!Busy
<1>4. QED
  BY <1>2, <1>3 DEF PanelInv

(* A tab is done: it was the only one.                                         *)
LEMMA PanelDone ==
  ASSUME PanelInv, NEW t \in Tabs, Panel!Busy(t), Panel!Finish(t), pNext' \in Nat,
         ~pCrossed => OneRow'
  PROVE  PanelInv'
<1>1. panel' = [panel EXCEPT ![t] = Panel!Idle] /\ pCrossed' = pCrossed
  BY DEF Panel!Finish
<1>2. DOMAIN panel' = Tabs /\ panel'[t].pc = "idle" /\ \A u \in Tabs : u # t => panel'[u] = panel[u]
  BY <1>1 DEF PanelInv, Panel!Idle
<1>3. ~pCrossed => \A u \in Tabs : ~Panel!Busy(u)'
  BY <1>2 DEF PanelInv, Panel!Busy
<1>4. QED
  BY <1>1, <1>2, <1>3 DEF PanelInv

LEMMA PanelWrite ==
  ASSUME Panel!OverrideAssumption, PanelInv, NEW t \in Tabs, Panel!Write(t)
  PROVE  PanelInv'
<1> DEFINE want == panel[t].want
           found == panel[t].found
<1>1. panel[t].pc = "write" /\ Panel!Finish(t) /\ Panel!Busy(t)
  BY DEF Panel!Write, Panel!Busy
<1>2. pNext' \in Nat
  BY DEF Panel!Write, Panel!store, PanelInv
<1>3. ASSUME ~pCrossed
      PROVE  OneRow'
  <2>1. \/ DOMAIN pRows = {} /\ found = None /\ wanted = Env
        \/ \E i \in Nat : DOMAIN pRows = {i} /\ found = i
    BY <1>1, <1>3, OneRowShown DEF PanelInv, OneRow
  <2>2. CASE found = None /\ want # None
    <3>1. DOMAIN pRows = {}
      BY <2>1, <2>2 DEF Panel!OverrideAssumption
    <3>2. /\ pRows' = [i \in DOMAIN pRows \cup {pNext} |-> IF i = pNext THEN want ELSE pRows[i]]
          /\ wanted' = want
      BY <2>2, <3>1 DEF Panel!Write
    <3>3. DOMAIN pRows' = {pNext} /\ pRows'[pNext] = want
      BY <3>1, <3>2
    <3>4. QED
      BY <3>2, <3>3 DEF OneRow, PanelInv
  <2>3. CASE found # None /\ want # None
    <3>1. PICK i \in Nat : DOMAIN pRows = {i} /\ found = i
      BY <2>1, <2>3
    <3>2. pRows' = [pRows EXCEPT ![i] = want] /\ wanted' = want
      BY <2>3, <3>1 DEF Panel!Write
    <3>3. DOMAIN pRows' = {i} /\ pRows'[i] = want
      BY <3>1, <3>2
    <3>4. QED
      BY <3>2, <3>3 DEF OneRow
  <2>4. CASE found # None /\ want = None
    <3>1. PICK i \in Nat : DOMAIN pRows = {i} /\ found = i
      BY <2>1, <2>4
    <3>2. pRows' = [j \in DOMAIN pRows \ {i} |-> pRows[j]] /\ wanted' = Env
      BY <2>4, <3>1 DEF Panel!Write
    <3>3. QED
      BY <3>1, <3>2 DEF OneRow
  <2>5. CASE found = None /\ want = None
    <3>1. DOMAIN pRows = {}
      BY <2>1, <2>5 DEF Panel!OverrideAssumption
    <3>2. pRows' = pRows /\ wanted' = Env
      BY <2>5, <3>1 DEF Panel!Write, Panel!store
    <3>3. QED
      BY <3>1, <3>2 DEF OneRow
  <2>6. QED
    BY <2>2, <2>3, <2>4, <2>5
<1>4. QED
  BY <1>1, <1>2, <1>3, PanelDone

LEMMA PanelWriteFails ==
  ASSUME PanelInv, NEW t \in Tabs, Panel!WriteFails(t)
  PROVE  PanelInv'
<1>1. Panel!Busy(t) /\ Panel!Finish(t) /\ UNCHANGED <<pRows, pNext, wanted>>
  BY DEF Panel!WriteFails, Panel!store
<1>2. pNext' \in Nat /\ (~pCrossed => OneRow')
  BY <1>1 DEF PanelInv, OneRow
<1>3. QED
  BY <1>1, <1>2, PanelDone

LEMMA PanelNext ==
  ASSUME Panel!OverrideAssumption, PanelInv, [Panel!Next]_(Panel!vars)
  PROVE  PanelInv'
<1>1. CASE \E t \in Tabs : \E c \in Owned \cup {None} : Panel!Submit(t, c)
  BY <1>1, PanelSubmit
<1>2. CASE \E t \in Tabs : Panel!Write(t) \/ Panel!WriteFails(t)
  BY <1>2, PanelWrite, PanelWriteFails
<1>3. CASE Panel!Resolve \/ Panel!Call \/ Panel!Tick \/ (\E c \in Others : Panel!OtherCall(c))
  BY <1>3, PanelElsewhere DEF Panel!Resolve, Panel!Call, Panel!Tick, Panel!OtherCall, Panel!Called,
                              Panel!store
<1>4. CASE UNCHANGED Panel!vars
  BY <1>4, PanelElsewhere DEF Panel!vars, Panel!store
<1>5. QED
  BY <1>1, <1>2, <1>3, <1>4 DEF Panel!Next

(* A search uses what the user saved last, or the platform's connection after         *)
(* "use org default", though the panel goes by the first override row and               *)
(* resolveOpenSearchConfig() by the last: with the panel never busy in two tabs at      *)
(* once there is no second row.                                                *)
THEOREM SavedStaysInForce == PageSpec => []SavedIsInForce
<1>1. PanelInv => SavedIsInForce
  BY OneRowShown DEF PanelInv, OneRow, SavedIsInForce, Panel!SavedIsInForce
<1>2. PanelInv /\ [PageNext]_<<page, vars, panelVars>> => PanelInv'
  BY PanelNext, PanelElsewhere, PanelAssumption DEF PageNext, panelVars
<1>3. PageInit => PanelInv
  BY PanelInit DEF PageInit
<1>4. QED
  BY <1>1, <1>2, <1>3, PTL DEF PageSpec
-----------------------------------------------------------------------------
(* The cache of clients behind it.  Of a sequence, what is left at some places.      *)
LEMMA PanelCardinality == \A S : Panel!Cardinality(S) = Cardinality(S)
BY DEF Panel!Cardinality, Cardinality, Panel!IsFiniteSet, IsFiniteSet

Rank(places, i) == Cardinality({j \in places : j <= i})

LEMMA PlacesCount ==
  ASSUME NEW n \in Nat, NEW places \in SUBSET (1..n)
  PROVE  IsFiniteSet(places) /\ Cardinality(places) \in 0..n
<1> DEFINE all == 1..n
<1>1. IsFiniteSet(all) /\ Cardinality(all) = n /\ places \in SUBSET all
  BY UpToCount
<1> HIDE DEF all
<1>2. IsFiniteSet(places) /\ Cardinality(places) <= Cardinality(all)
  BY <1>1, FS_Subset
<1>3. Cardinality(places) \in Nat
  BY <1>2, FS_CardinalityType
<1>4. QED
  BY <1>1, <1>2, <1>3

LEMMA RankRises ==
  ASSUME NEW n \in Nat, NEW places \in SUBSET (1..n), NEW i \in places
  PROVE  /\ Cardinality(places) \in 0..n
         /\ Rank(places, i) \in 1..Cardinality(places)
         /\ \A j \in places : i < j => Rank(places, i) < Rank(places, j)
<1> DEFINE upTo(j) == {l \in places : l <= j}
<1>1. IsFiniteSet(places) /\ Cardinality(places) \in 0..n
  BY PlacesCount
<1>2. \A j \in places : /\ IsFiniteSet(upTo(j))
                        /\ Cardinality(upTo(j)) \in Nat
                        /\ Cardinality(upTo(j)) <= Cardinality(places)
  <2> SUFFICES ASSUME NEW j \in places
               PROVE  /\ IsFiniteSet(upTo(j))
                      /\ Cardinality(upTo(j)) \in Nat
                      /\ Cardinality(upTo(j)) <= Cardinality(places)
    OBVIOUS
  <2>1. upTo(j) \in SUBSET places
    OBVIOUS
  <2> HIDE DEF upTo
  <2>2. IsFiniteSet(upTo(j)) /\ Cardinality(upTo(j)) <= Cardinality(places)
    BY <1>1, <2>1, FS_Subset
  <2>3. QED
    BY <2>2, FS_CardinalityType
<1>3. Rank(places, i) \in 1..Cardinality(places)
  <2>1. i \in upTo(i)
    OBVIOUS
  <2>2. Cardinality(upTo(i)) # 0
    BY <1>2, <2>1, FS_EmptySet
  <2>3. QED
    BY <1>1, <1>2, <2>2 DEF Rank
<1>4. ASSUME NEW j \in places, i < j
      PROVE  Rank(places, i) < Rank(places, j)
  <2>1. /\ upTo(i) \in SUBSET (upTo(j) \ {j})
        /\ j \in upTo(j)
    <3>1. places \subseteq Int
      OBVIOUS
    <3>2. ASSUME NEW l \in upTo(i)
          PROVE  l \in places /\ l <= j /\ l # j
      <4>1. l \in Int /\ i \in Int /\ j \in Int /\ l <= i
        BY <3>1
      <4>2. QED
        BY <1>4, <4>1
    <3>3. j <= j
      BY <3>1
    <3>4. QED
      BY <3>2, <3>3
  <2> HIDE DEF upTo
  <2>2. /\ IsFiniteSet(upTo(j) \ {j})
        /\ Cardinality(upTo(j) \ {j}) = Cardinality(upTo(j)) - 1
    BY <1>2, <2>1, FS_RemoveElement
  <2>3. Cardinality(upTo(i)) <= Cardinality(upTo(j)) - 1
    BY <2>1, <2>2, FS_Subset
  <2>4. Cardinality(upTo(i)) < Cardinality(upTo(j))
    BY <1>2, <2>3
  <2>5. QED
    BY <2>4 DEF Rank, upTo
<1>5. QED
  BY <1>1, <1>3, <1>4

(* The places in order: the ranks are an injection, so every rank is taken.           *)
LEMMA InOrder ==
  ASSUME NEW n \in Nat, NEW places \in SUBSET (1..n)
  PROVE  \E m \in 0..n, f \in [1..n -> 1..n] :
           /\ Panel!Cardinality(places) = m /\ Cardinality(places) = m
           /\ \A k \in 1..m : /\ Panel!Nth(places, k) = f[k]
                              /\ f[k] \in places /\ Rank(places, f[k]) = k
           /\ \A k, l \in 1..m : k < l => f[k] < f[l]
           /\ \A i \in places : \E k \in 1..m : f[k] = i
<1> DEFINE m == Cardinality(places)
           nth(k) == CHOOSE i \in places : Rank(places, i) = k
           f == [k \in 1..n |-> IF k \in 1..m THEN nth(k) ELSE k]
<1>1. IsFiniteSet(places) /\ m \in 0..n
  BY PlacesCount
<1> HIDE DEF m
<1>2. \A i \in places : /\ Rank(places, i) \in 1..m
                        /\ \A j \in places : i < j => Rank(places, i) < Rank(places, j)
  BY RankRises DEF m
<1>3. \A k \in 1..m : \E i \in places : Rank(places, i) = k
  <2> DEFINE r == [i \in places |-> Rank(places, i)]
  <2>1. r \in [places -> 1..m]
    BY <1>2
  <2>2. \A i, j \in places : r[i] = r[j] => i = j
    BY <1>2
  <2>3. IsFiniteSet(1..m) /\ Cardinality(1..m) = m
    BY <1>1, UpToCount
  <2>4. r \in Injection(places, 1..m)
    BY <2>1, <2>2 DEF Injection, IsInjective
  <2>5. r \in Surjection(places, 1..m)
    BY <1>1, <2>3, <2>4, FS_Injection DEF m
  <2>6. QED
    BY <2>5 DEF Surjection
<1>4. \A k \in 1..m : nth(k) \in places /\ Rank(places, nth(k)) = k
  BY <1>3
<1>5. \A k \in 1..m : Panel!Nth(places, k) = nth(k)
  BY PanelCardinality DEF Panel!Nth, Rank
<1> HIDE DEF nth
<1>6. f \in [1..n -> 1..n]
  BY <1>1, <1>4
<1>7. \A k \in 1..m : f[k] = nth(k)
  BY <1>1
<1> HIDE DEF f
<1>8. \A k \in 1..m : /\ Panel!Nth(places, k) = f[k]
                      /\ f[k] \in places /\ Rank(places, f[k]) = k
  BY <1>4, <1>5, <1>7
<1>9. \A k, l \in 1..m : k < l => f[k] < f[l]
  <2> SUFFICES ASSUME NEW k \in 1..m, NEW l \in 1..m, k < l, ~(f[k] < f[l])
               PROVE  FALSE
    OBVIOUS
  <2>1. f[k] \in places /\ f[l] \in places /\ Rank(places, f[k]) = k /\ Rank(places, f[l]) = l
    BY <1>8
  <2>2. /\ f[k] \in Int /\ f[l] \in Int /\ m \in Int
        /\ k \in Int /\ l \in Int
    <3>1. places \subseteq Int /\ m \in Int
      BY <1>1
    <3>2. f[k] \in Int /\ f[l] \in Int
      BY <2>1, <3>1
    <3>3. k \in Int /\ l \in Int
      OBVIOUS
    <3>4. QED
      BY <3>1, <3>2, <3>3
  <2>3. f[l] = f[k] \/ f[l] < f[k]
    BY <2>2
  <2>4. CASE f[l] = f[k]
    BY <2>1, <2>2, <2>4
  <2>5. CASE f[l] < f[k]
    <3>1. Rank(places, f[l]) < Rank(places, f[k])
      BY <1>2, <2>1, <2>5
    <3>2. QED
      BY <2>1, <2>2, <3>1
  <2>6. QED
    BY <2>3, <2>4, <2>5
<1>10. ASSUME NEW i \in places
       PROVE  \E k \in 1..m : f[k] = i
  <2>1. PICK k \in 1..m : k = Rank(places, i)
    BY <1>2
  <2>2. f[k] \in places /\ Rank(places, f[k]) = k
    BY <1>8
  <2>0. places \subseteq Int
    OBVIOUS
  <2>3. f[k] \in Int /\ i \in Int
    BY <2>0, <2>2
  <2>4. f[k] < i \/ i < f[k] \/ f[k] = i
    BY <2>3
  <2>5. ~(f[k] < i) /\ ~(i < f[k])
    <3>1. k \in Int /\ ~(k < k)
      OBVIOUS
    <3>2. QED
      BY <1>2, <2>1, <2>2, <3>1
  <2>6. QED
    BY <2>4, <2>5
<1>11. Panel!Cardinality(places) = m
  BY PanelCardinality DEF m
<1>12. QED
  BY <1>1, <1>6, <1>8, <1>9, <1>10, <1>11 DEF m

(* What is kept of a sequence is what it has at these places, in their order.         *)
KeptBy(s, places, m, f) ==
  /\ Cardinality(places) = m
  /\ Len(Panel!Kept(s, places)) = m
  /\ \A k \in 1..m : /\ Panel!Kept(s, places)[k] = s[f[k]]
                     /\ f[k] \in places /\ Rank(places, f[k]) = k
  /\ \A k, l \in 1..m : k < l => f[k] < f[l]
  /\ \A i \in places : \E k \in 1..m : f[k] = i

LEMMA KeptIs ==
  ASSUME NEW S, NEW s \in Seq(S), NEW places \in SUBSET DOMAIN s
  PROVE  /\ Panel!Kept(s, places) \in Seq(S)
         /\ \E m \in 0..Len(s), f \in [1..Len(s) -> 1..Len(s)] : KeptBy(s, places, m, f)
<1>1. /\ Len(s) \in Nat /\ places \in SUBSET (1..Len(s))
      /\ \A i \in 1..Len(s) : s[i] \in S
  OBVIOUS
<1>2. PICK m \in 0..Len(s), f \in [1..Len(s) -> 1..Len(s)] :
        /\ Panel!Cardinality(places) = m /\ Cardinality(places) = m
        /\ \A k \in 1..m : /\ Panel!Nth(places, k) = f[k]
                           /\ f[k] \in places /\ Rank(places, f[k]) = k
        /\ \A k, l \in 1..m : k < l => f[k] < f[l]
        /\ \A i \in places : \E k \in 1..m : f[k] = i
  <2> HIDE DEF Rank
  <2>1. QED
    BY <1>1, InOrder
<1> DEFINE kept == Panel!Kept(s, places)
<1>3. kept = [k \in 1..m |-> s[f[k]]]
  BY <1>2 DEF Panel!Kept
<1> HIDE DEF kept
<1>4. m \in Nat /\ \A k \in 1..m : s[f[k]] \in S
  BY <1>1, <1>2
<1>5. kept \in Seq(S) /\ Len(kept) = m /\ \A k \in 1..m : kept[k] = s[f[k]]
  <2>1. kept \in [1..m -> S]
    BY <1>3, <1>4
  <2>2. kept \in Seq(S)
    BY <1>4, <2>1, SeqDef
  <2>3. DOMAIN kept = 1..m
    BY <2>1
  <2>4. Len(kept) = m
    BY <1>4, <2>2, <2>3, LenProperties
  <2>5. QED
    BY <1>3, <2>2, <2>4
<1>6. KeptBy(s, places, m, f)
  BY <1>2, <1>5 DEF kept, KeptBy
<1>7. QED
  BY <1>5, <1>6 DEF kept

(* Numbers that fall, one for each of m, start at m or more.                        *)
LEMMA Descends ==
  ASSUME NEW m \in Nat \ {0}, NEW b \in Nat, NEW q \in [1..m -> 1..b],
         \A i, j \in 1..m : i < j => q[i] > q[j]
  PROVE  q[1] >= m
<1>1. 1 \in 1..m /\ q[1] \in Nat
  OBVIOUS
<1>2. ASSUME NEW i \in 1..m
      PROVE  q[i] \in 1..q[1]
  <2>1. i = 1 \/ 1 < i
    OBVIOUS
  <2>2. q[i] \in 1..b /\ q[i] <= q[1]
    BY <1>1, <2>1
  <2>3. QED
    BY <2>2
<1>3. \A i, j \in 1..m : q[i] = q[j] => i = j
  <2> SUFFICES ASSUME NEW i \in 1..m, NEW j \in 1..m, i < j
               PROVE  q[i] # q[j]
    OBVIOUS
  <2>1. q[i] > q[j] /\ q[i] \in Int /\ q[j] \in Int
    OBVIOUS
  <2>2. QED
    BY <2>1
<1> DEFINE top == q[1]
<1>4. q \in [1..m -> 1..top]
  BY <1>2
<1>5. q \in Injection(1..m, 1..top)
  BY <1>3, <1>4 DEF Injection, IsInjective
<1>6. /\ IsFiniteSet(1..top) /\ Cardinality(1..top) = top
      /\ Cardinality(1..m) = m
  BY <1>1, UpToCount
<1> HIDE DEF top
<1>7. Cardinality(1..m) <= Cardinality(1..top)
  BY <1>5, <1>6, FS_Injection
<1>8. QED
  BY <1>1, <1>6, <1>7 DEF top

(* With one place missing, a rank is short by one at most.                          *)
LEMMA RankShortByOne ==
  ASSUME NEW n \in Nat, NEW places \in SUBSET (1..n), NEW i \in places,
         \A k, l \in 1..n : k \notin places /\ l \notin places => k = l
  PROVE  i <= Rank(places, i) + 1
<1> DEFINE upTo == {l \in places : l <= i}
           gap == CHOOSE k \in 1..n : k \notin places
<1>1. 1..i \subseteq upTo \cup {gap}
  <2> SUFFICES ASSUME NEW k \in 1..i, k \notin upTo
               PROVE  k = gap
    OBVIOUS
  <2>1. i \in 1..n /\ k \in 1..n
    OBVIOUS
  <2>2. k \notin places
    BY <2>1
  <2>3. QED
    BY <2>1, <2>2
<1>2. upTo \in SUBSET (1..n)
  OBVIOUS
<1>3. IsFiniteSet(upTo) /\ Cardinality(upTo) \in Nat
  BY <1>2, PlacesCount
<1> HIDE DEF upTo, gap
<1>4. /\ IsFiniteSet(upTo \cup {gap})
      /\ Cardinality(upTo \cup {gap}) \in {Cardinality(upTo), Cardinality(upTo) + 1}
  BY <1>3, FS_AddElement
<1>5. Cardinality(1..i) <= Cardinality(upTo \cup {gap})
  BY <1>1, <1>4, FS_Subset
<1>6. i \in Nat /\ Cardinality(1..i) = i
  <2>1. i \in Nat
    OBVIOUS
  <2>2. QED
    BY <2>1, UpToCount
<1>7. i <= Cardinality(upTo) + 1
  BY <1>3, <1>4, <1>5, <1>6
<1>8. QED
  BY <1>7 DEF Rank, upTo

-----------------------------------------------------------------------------
Conns == Owned \cup Others \cup {Env}
Accounts == {Panel!ClientKey(c) : c \in Conns}
ClientType == [key : Accounts, conn : Conns, made : Nat, born : Nat]
RecentType == [account : Accounts, made : Nat]

CacheType ==
  /\ now \in Nat
  /\ pNext \in Nat \ {0} /\ DOMAIN pRows \subseteq 1..pNext
  /\ \A i \in DOMAIN pRows : pRows[i] \in Owned
  /\ \A t \in Tabs : Panel!Busy(t) => panel[t].want \in Owned \cup {None}
  /\ config \in Conns \cup {None}
  /\ clients \in Seq(ClientType)
  /\ recent \in Seq(RecentType)

(* A client has the key of its connection and the age it was made with.             *)
OwnKey(e) == e.key = Panel!ClientKey(e.conn) /\ e.born = e.made /\ e.made <= now

(* The accounts called are told apart, and the clients stand as these do, backwards:   *)
(* which one the full cache gives up is the one called longest ago.                 *)
Lined(p) ==
  /\ \A i, j \in DOMAIN clients : i < j => p[i] > p[j]
  /\ \A i \in DOMAIN clients :
       recent[p[i]].account = clients[i].key /\ recent[p[i]].made = clients[i].made

Ranked ==
  /\ \A i, j \in DOMAIN recent : recent[i].account = recent[j].account => i = j
  /\ \E p \in [DOMAIN clients -> DOMAIN recent] : Lined(p)

(* An account without a client: CacheMax others were called since, or it expired.      *)
Gone(i) == i > CacheMax \/ call.at - recent[i].made > TTL
Cached(i) == \E j \in DOMAIN clients : clients[j].key = recent[i].account

CacheInv ==
  /\ CacheType
  /\ \A i \in DOMAIN clients : OwnKey(clients[i])
  /\ Ranked
  /\ Len(clients) <= CacheMax
  /\ \A i \in DOMAIN recent : call.at \in Nat /\ call.at <= now /\ (Cached(i) \/ Gone(i))
  /\ Panel!StaleWithinTTL

LEMMA CacheInit == Panel!OverrideAssumption /\ Panel!Init => CacheInv
<1> SUFFICES ASSUME Panel!OverrideAssumption, Panel!Init
             PROVE  CacheInv
  OBVIOUS
<1>1. clients = <<>> /\ recent = <<>> /\ call = None /\ now = 0 /\ config = None /\ DOMAIN pRows = {}
  BY DEF Panel!Init
<1>2. CacheType
  BY <1>1 DEF CacheType, Panel!Init, Panel!Idle, Panel!Busy
<1>3. Ranked
  <2>1. DOMAIN clients = {}
    BY <1>1
  <2>2. [i \in {} |-> i] \in [DOMAIN clients -> DOMAIN recent]
    BY <2>1
  <2>3. QED
    BY <1>1, <2>1, <2>2 DEF Ranked, Lined
<1>4. Len(clients) <= CacheMax
  BY <1>1 DEF Panel!OverrideAssumption
<1>5. QED
  BY <1>1, <1>2, <1>3, <1>4 DEF CacheInv, Panel!StaleWithinTTL

(* A step that calls nobody.                                                 *)
LEMMA CacheElsewhere ==
  ASSUME CacheInv, CacheType', UNCHANGED <<clients, call, recent>>, now <= now'
  PROVE  CacheInv'
<1>1. now \in Nat /\ now' \in Nat
  BY DEF CacheInv, CacheType
<1>2. \A i \in DOMAIN clients : OwnKey(clients[i])'
  <2> SUFFICES ASSUME NEW i \in DOMAIN clients
               PROVE  OwnKey(clients[i])'
    OBVIOUS
  <2>1. OwnKey(clients[i]) /\ clients[i] \in ClientType
    BY DEF CacheInv, CacheType
  <2>2. clients[i].made \in Nat
    BY <2>1 DEF ClientType
  <2>3. QED
    BY <1>1, <2>1, <2>2 DEF OwnKey, Panel!ClientKey
<1>3. Ranked'
  BY DEF CacheInv, Ranked, Lined
<1>4. \A i \in DOMAIN recent' : call'.at \in Nat /\ call'.at <= now' /\ (Cached(i)' \/ Gone(i)')
  BY <1>1 DEF CacheInv, Cached, Gone
<1>5. QED
  BY <1>2, <1>3, <1>4 DEF CacheInv, Panel!StaleWithinTTL

(* What the cache is after a call: the fresh clients of other accounts in their order,   *)
(* but the first of them when the cache is full, and the account's own at the end.      *)
UsedBy(c, m, f, e, d) ==
  /\ \A k \in 1..m : f[k] \in Panel!Fresh \ Panel!Hits(c)
  /\ \A k, l \in 1..m : k < l => f[k] < f[l]
  /\ \A i \in Panel!Fresh \ Panel!Hits(c) : \E k \in 1..m : f[k] = i
  /\ e.key = Panel!ClientKey(c) /\ OwnKey(e) /\ (e.conn = c \/ now - e.made <= TTL)
  /\ Len(Panel!Use(c)) = m + 1 - d /\ m + 1 - d <= CacheMax
  /\ Panel!Use(c)[m + 1 - d] = e
  /\ \A k \in 1..m - d : Panel!Use(c)[k] = clients[f[k + d]]
  /\ d = 1 => m = CacheMax

LEMMA UseIs ==
  ASSUME Panel!OverrideAssumption, CacheInv, NEW c \in Conns
  PROVE  /\ Panel!Use(c) \in Seq(ClientType)
         /\ \E m \in 0..Len(clients), f \in [1..Len(clients) -> 1..Len(clients)],
               e \in ClientType, d \in {0, 1} : UsedBy(c, m, f, e, d)
<1> DEFINE keep == Panel!Fresh \ Panel!Hits(c)
           rest == Panel!Kept(clients, keep)
<1>1. /\ clients \in Seq(ClientType) /\ now \in Nat /\ CacheMax \in Nat \ {0} /\ TTL \in Nat
      /\ Len(clients) \in Nat /\ Len(clients) <= CacheMax /\ DOMAIN clients = 1..Len(clients)
  BY DEF CacheInv, CacheType, Panel!OverrideAssumption
<1>2. Panel!Fresh \subseteq DOMAIN clients /\ Panel!Hits(c) \subseteq Panel!Fresh
  BY DEF Panel!Fresh, Panel!Hits
<1>k. keep \in SUBSET DOMAIN clients
  BY <1>2
<1>r. rest \in Seq(ClientType)
  BY <1>1, <1>k, KeptIs
<1>p. PICK m \in 0..Len(clients), f \in [1..Len(clients) -> 1..Len(clients)] :
        KeptBy(clients, keep, m, f)
  BY <1>1, <1>k, KeptIs
<1>3. /\ Cardinality(keep) = m
      /\ rest \in Seq(ClientType) /\ Len(rest) = m
      /\ \A k \in 1..m : rest[k] = clients[f[k]] /\ f[k] \in keep
      /\ \A k, l \in 1..m : k < l => f[k] < f[l]
      /\ \A i \in keep : \E k \in 1..m : f[k] = i
  BY <1>p, <1>r DEF KeptBy
<1>4. m \in Nat /\ m <= CacheMax
  BY <1>1
<1>5. CASE Panel!Hits(c) # {}
  <2> DEFINE h == CHOOSE i \in Panel!Hits(c) : TRUE
             e == clients[h]
  <2>1. h \in Panel!Hits(c)
    BY <1>5
  <2> HIDE DEF h
  <2>2. h \in DOMAIN clients /\ e.key = Panel!ClientKey(c) /\ now - e.made <= TTL
    BY <2>1 DEF Panel!Hits, Panel!Fresh
  <2>3. e \in ClientType /\ OwnKey(e)
    BY <1>1, <2>2 DEF CacheInv
  <2>4. m + 1 <= CacheMax
    <3>1. keep \in SUBSET (DOMAIN clients \ {h})
      BY <1>2, <2>1
    <3>2. IsFiniteSet(DOMAIN clients) /\ Cardinality(DOMAIN clients) = Len(clients)
      BY <1>1, UpToCount
    <3>3. /\ IsFiniteSet(DOMAIN clients \ {h})
          /\ Cardinality(DOMAIN clients \ {h}) = Len(clients) - 1
      BY <2>2, <3>2, FS_RemoveElement
    <3> HIDE DEF keep
    <3>4. Cardinality(keep) <= Len(clients) - 1
      BY <3>1, <3>3, FS_Subset
    <3>5. QED
      BY <1>1, <1>3, <1>4, <3>4
  <2>5. Panel!Use(c) = Append(rest, e)
    BY <1>5 DEF Panel!Use, h
  <2> HIDE DEF e, rest
  <2>6. /\ Panel!Use(c) \in Seq(ClientType) /\ Len(Panel!Use(c)) = m + 1
        /\ Panel!Use(c)[m + 1] = e /\ \A k \in 1..m : Panel!Use(c)[k] = rest[k]
    BY <1>3, <1>4, <2>3, <2>5
  <2>7. \A k \in 1..m - 0 : Panel!Use(c)[k] = clients[f[k + 0]]
    BY <1>3, <1>4, <2>6
  <2>8. UsedBy(c, m, f, e, 0)
    <3>1. m + 1 - 0 = m + 1 /\ m - 0 = m /\ 0 # 1
      BY <1>4
    <3>2. e.key = Panel!ClientKey(c) /\ OwnKey(e) /\ now - e.made <= TTL
      BY <2>2, <2>3 DEF e
    <3>3. /\ Len(Panel!Use(c)) = m + 1 - 0 /\ m + 1 - 0 <= CacheMax
          /\ Panel!Use(c)[m + 1 - 0] = e
          /\ \A k \in 1..m - 0 : Panel!Use(c)[k] = clients[f[k + 0]]
      BY <2>4, <2>6, <2>7, <3>1
    <3>4. /\ \A k \in 1..m : f[k] \in keep
          /\ \A k, l \in 1..m : k < l => f[k] < f[l]
          /\ \A i \in keep : \E k \in 1..m : f[k] = i
      BY <1>3
    <3>5. QED
      BY <3>1, <3>2, <3>3, <3>4 DEF UsedBy
  <2>9. QED
    BY <2>3, <2>6, <2>8
<1>6. CASE Panel!Hits(c) = {}
  <2> DEFINE e == Panel!Made(c)
  <2>1. /\ e \in ClientType /\ e.key = Panel!ClientKey(c) /\ e.conn = c
        /\ e.made = now /\ e.born = now
    BY <1>1 DEF Panel!Made, ClientType, Accounts
  <2>2. OwnKey(e)
    BY <1>1, <2>1 DEF OwnKey
  <2>3. Panel!Use(c) = Append(Panel!Room(rest), e)
    BY <1>6 DEF Panel!Use
  <2> HIDE DEF e, rest
  <2>4. CASE m < CacheMax
    <3>1. Panel!Use(c) = Append(rest, e)
      BY <1>1, <1>3, <1>4, <2>3, <2>4 DEF Panel!Room
    <3>2. /\ Panel!Use(c) \in Seq(ClientType) /\ Len(Panel!Use(c)) = m + 1
          /\ Panel!Use(c)[m + 1] = e /\ \A k \in 1..m : Panel!Use(c)[k] = rest[k]
      BY <1>3, <1>4, <2>1, <3>1
    <3>3. m + 1 <= CacheMax /\ \A k \in 1..m - 0 : Panel!Use(c)[k] = clients[f[k + 0]]
      BY <1>1, <1>3, <1>4, <2>4, <3>2
    <3>z. m + 1 - 0 = m + 1 /\ 0 # 1
      BY <1>4
    <3>4. UsedBy(c, m, f, e, 0)
      BY <1>3, <2>1, <2>2, <3>2, <3>3, <3>z DEF UsedBy
    <3>5. QED
      BY <2>1, <3>2, <3>4
  <2>5. CASE m >= CacheMax
    <3>1. m = CacheMax /\ m >= 1
      BY <1>1, <1>4, <2>5
    <3>2. Panel!Use(c) = Append(Tail(rest), e)
      BY <1>1, <1>3, <1>4, <2>3, <2>5 DEF Panel!Room
    <3>3. /\ Tail(rest) \in Seq(ClientType) /\ Len(Tail(rest)) = m - 1
          /\ \A k \in 1..m - 1 : Tail(rest)[k] = rest[k + 1]
      BY <1>3, <1>4, <3>1
    <3>4. /\ Panel!Use(c) \in Seq(ClientType) /\ Len(Panel!Use(c)) = m
          /\ Panel!Use(c)[m] = e /\ \A k \in 1..m - 1 : Panel!Use(c)[k] = rest[k + 1]
      BY <1>4, <2>1, <3>1, <3>2, <3>3
    <3>5. \A k \in 1..m - 1 : Panel!Use(c)[k] = clients[f[k + 1]]
      <4>1. \A k \in 1..m - 1 : k + 1 \in 1..m
        BY <1>4
      <4>2. QED
        BY <1>3, <3>4, <4>1
    <3>6. m + 1 - 1 = m /\ m <= CacheMax
      BY <1>4
    <3>7. UsedBy(c, m, f, e, 1)
      BY <1>3, <2>1, <2>2, <3>1, <3>4, <3>5, <3>6 DEF UsedBy
    <3>8. QED
      BY <2>1, <3>4, <3>7
  <2>6. m < CacheMax \/ m >= CacheMax
    BY <1>1, <1>4
  <2>7. QED
    BY <2>4, <2>5, <2>6
<1>7. QED
  BY <1>5, <1>6

(* The accounts called, with this one put first.                                  *)
Apart(c) == {i \in DOMAIN recent : recent[i].account # Panel!ClientKey(c)}

RecentBy(c, made, calls, r, g) ==
  /\ Len(calls) = r + 1
  /\ calls[1].account = Panel!ClientKey(c) /\ calls[1].made = made
  /\ \A k \in 1..r : calls[k + 1] = recent[g[k]]
  /\ \A k \in 1..r : g[k] \in Apart(c) /\ Rank(Apart(c), g[k]) = k
  /\ \A k, l \in 1..r : k < l => g[k] < g[l]
  /\ \A i \in Apart(c) : \E k \in 1..r : g[k] = i

LEMMA RecentIs ==
  ASSUME CacheInv, NEW c \in Conns, NEW made \in Nat, NEW calls,
         calls = <<[account |-> Panel!ClientKey(c), made |-> made]>> \o Panel!Kept(recent, Apart(c))
  PROVE  /\ calls \in Seq(RecentType)
         /\ \E r \in 0..Len(recent), g \in [1..Len(recent) -> 1..Len(recent)] :
              RecentBy(c, made, calls, r, g)
<1> DEFINE first == [account |-> Panel!ClientKey(c), made |-> made]
           rest == Panel!Kept(recent, Apart(c))
<1>1. recent \in Seq(RecentType) /\ Apart(c) \in SUBSET DOMAIN recent /\ Len(recent) \in Nat
  BY DEF CacheInv, CacheType, Apart
<1>2. rest \in Seq(RecentType)
  BY <1>1, KeptIs
<1>3. PICK r \in 0..Len(recent), g \in [1..Len(recent) -> 1..Len(recent)] :
        KeptBy(recent, Apart(c), r, g)
  BY <1>1, KeptIs
<1>4. Len(rest) = r /\ \A k \in 1..r : rest[k] = recent[g[k]]
  BY <1>3 DEF KeptBy
<1>5. first \in RecentType /\ first.account = Panel!ClientKey(c) /\ first.made = made
  BY DEF RecentType, Accounts
<1>6. calls = <<first>> \o rest
  OBVIOUS
<1> HIDE DEF first, rest
<1>7. r \in Nat
  BY <1>1
<1>8. /\ calls \in Seq(RecentType) /\ Len(calls) = r + 1 /\ calls[1] = first
      /\ \A k \in 1..r : calls[k + 1] = rest[k]
  <2> DEFINE one == <<first>>
  <2>1. one \in Seq(RecentType) /\ Len(one) = 1 /\ one[1] = first
    BY <1>5
  <2>2. calls = one \o rest
    BY <1>6
  <2> HIDE DEF one
  <2>3. /\ calls \in Seq(RecentType) /\ Len(calls) = Len(one) + Len(rest)
        /\ \A k \in 1..Len(one) + Len(rest) :
             calls[k] = IF k <= Len(one) THEN one[k] ELSE rest[k - Len(one)]
    <3>1. /\ one \o rest \in Seq(RecentType) /\ Len(one \o rest) = Len(one) + Len(rest)
          /\ \A k \in 1..Len(one) + Len(rest) :
               (one \o rest)[k] = IF k <= Len(one) THEN one[k] ELSE rest[k - Len(one)]
      BY ONLY <1>2, <2>1, ConcatProperties
    <3>2. QED
      BY ONLY <2>2, <3>1
  <2>4. Len(one) + Len(rest) = r + 1
    BY <1>4, <1>7, <2>1
  <2>5. ASSUME NEW k \in 1..r
        PROVE  calls[k + 1] = rest[k]
    <3>1. k + 1 \in 1..r + 1 /\ ~(k + 1 <= 1) /\ k + 1 - 1 = k
      BY <1>7
    <3>a. k + 1 \in 1..Len(one) + Len(rest)
      BY <2>4, <3>1
    <3>2. calls[k + 1] = IF k + 1 <= Len(one) THEN one[k + 1] ELSE rest[k + 1 - Len(one)]
      BY <2>3, <3>a
    <3>3. QED
      BY <2>1, <3>1, <3>2
  <2>6. calls[1] = first
    <3>1. 1 \in 1..r + 1 /\ 1 <= 1
      BY <1>7
    <3>2. QED
      BY <2>1, <2>3, <2>4, <3>1
  <2>7. QED
    BY <2>3, <2>4, <2>5, <2>6
<1>9. RecentBy(c, made, calls, r, g)
  BY <1>3, <1>4, <1>5, <1>8 DEF RecentBy, KeptBy
<1>10. QED
  BY <1>8, <1>9

LEMMA Older ==
  \A at, until, made, ttl \in Nat :
    at <= until => /\ at - made > ttl => until - made > ttl
                   /\ ~(until - made <= ttl) => until - made > ttl
OBVIOUS

(* A call: whatever order hits, expiry and the limit left the cache in, it stays the    *)
(* accounts called last; only one called CacheMax accounts ago gives way.            *)
LEMMA CacheCalled ==
  ASSUME Panel!OverrideAssumption, CacheInv, NEW c \in Conns, Panel!Called(c),
         config' \in Conns \cup {None}
  PROVE  CacheInv'
<1> DEFINE key == Panel!ClientKey(c)
<1>1. /\ clients' = Panel!Use(c)
      /\ call' = [config |-> c, client |-> Panel!ClientOf(clients', c), at |-> now]
      /\ UNCHANGED <<pRows, pNext, panel, now>>
      /\ recent' = <<[account |-> key, made |-> Panel!ClientOf(clients', c).made]>>
                   \o Panel!Kept(recent, Apart(c))
  BY DEF Panel!Called, Panel!store, Panel!ClientKey, Apart
<1>2. /\ clients \in Seq(ClientType) /\ recent \in Seq(RecentType)
      /\ now \in Nat /\ CacheMax \in Nat \ {0} /\ TTL \in Nat
      /\ Len(clients) \in Nat /\ Len(recent) \in Nat
      /\ DOMAIN clients = 1..Len(clients) /\ DOMAIN recent = 1..Len(recent)
  BY DEF CacheInv, CacheType, Panel!OverrideAssumption
<1>3. clients' \in Seq(ClientType)
  BY <1>1, UseIs
<1>4. PICK m \in 0..Len(clients), f \in [1..Len(clients) -> 1..Len(clients)],
           e \in ClientType, d \in {0, 1} : UsedBy(c, m, f, e, d)
  BY UseIs
<1>5. /\ \A k \in 1..m : f[k] \in Panel!Fresh \ Panel!Hits(c)
      /\ \A k, l \in 1..m : k < l => f[k] < f[l]
      /\ \A i \in Panel!Fresh \ Panel!Hits(c) : \E k \in 1..m : f[k] = i
      /\ e.key = key /\ OwnKey(e) /\ (e.conn = c \/ now - e.made <= TTL)
      /\ Len(clients') = m + 1 - d /\ m + 1 - d <= CacheMax
      /\ clients'[m + 1 - d] = e
      /\ \A k \in 1..m - d : clients'[k] = clients[f[k + d]]
      /\ d = 1 => m = CacheMax
  BY <1>1, <1>4 DEF UsedBy
<1>6. m \in Nat /\ m + 1 - d \in Nat /\ m + 1 - d >= 1 /\ DOMAIN clients' = 1..m + 1 - d
  <2>1. m \in Nat
    BY <1>2
  <2>2. m + 1 - d \in Nat /\ m + 1 - d >= 1
    BY <1>2, <1>5, <2>1
  <2>3. DOMAIN clients' = 1..m + 1 - d
    BY <1>3, <1>5
  <2>4. QED
    BY <2>1, <2>2, <2>3
<1>7. \A k \in 1..m : /\ f[k] \in 1..Len(clients)
                      /\ clients[f[k]].key # key
                      /\ now - clients[f[k]].made <= TTL
  BY <1>2, <1>5 DEF Panel!Fresh, Panel!Hits
<1>8. \A k \in DOMAIN clients' :
        \/ k = m + 1 - d /\ clients'[k] = e
        \/ /\ k \in 1..m - d /\ k + d \in 1..m /\ clients'[k] = clients[f[k + d]]
           /\ clients'[k].key # key
  <2> SUFFICES ASSUME NEW k \in 1..m + 1 - d, k # m + 1 - d
               PROVE  /\ k \in 1..m - d /\ k + d \in 1..m
                      /\ clients'[k] = clients[f[k + d]] /\ clients'[k].key # key
    BY <1>5, <1>6
  <2>i. k \in Int /\ m \in Int /\ d \in Int
    BY <1>6
  <2>1. k \in 1..m - d /\ k + d \in 1..m
    <3>1. CASE d = 0
      BY <2>i, <3>1
    <3>2. CASE d = 1
      BY <2>i, <3>2
    <3>3. QED
      BY <3>1, <3>2
  <2>2. clients'[k] = clients[f[k + d]]
    BY <1>5, <2>1
  <2>3. clients'[k].key # key
    BY <1>7, <2>1, <2>2
  <2>4. QED
    BY <2>1, <2>2, <2>3
<1>9. Panel!ClientOf(clients', c) = e
  <2>1. Panel!Range(clients') = {clients'[k] : k \in DOMAIN clients'}
    BY DEF Panel!Range
  <2>2. e \in Panel!Range(clients')
    BY <1>5, <1>6, <2>1
  <2>3. \A x \in Panel!Range(clients') : x.key = key => x = e
    BY <1>8, <2>1
  <2>4. QED
    BY <1>5, <2>2, <2>3 DEF Panel!ClientOf
<1>10. e.made \in Nat /\ e.conn \in Conns
  BY DEF ClientType
<1>11. recent' \in Seq(RecentType)
  BY <1>1, <1>9, <1>10, RecentIs
<1>12. PICK r \in 0..Len(recent), g \in [1..Len(recent) -> 1..Len(recent)] :
         RecentBy(c, e.made, recent', r, g)
  BY <1>1, <1>9, <1>10, RecentIs
<1>13. /\ Len(recent') = r + 1
       /\ recent'[1].account = key /\ recent'[1].made = e.made
       /\ \A k \in 1..r : recent'[k + 1] = recent[g[k]]
       /\ \A k \in 1..r : g[k] \in Apart(c) /\ Rank(Apart(c), g[k]) = k
       /\ \A k, l \in 1..r : k < l => g[k] < g[l]
       /\ \A i \in Apart(c) : \E k \in 1..r : g[k] = i
  BY <1>12 DEF RecentBy
<1>14. r \in Nat /\ DOMAIN recent' = 1..r + 1
  BY <1>2, <1>11, <1>13
<1>15. \A i \in 1..r + 1 : i = 1 \/ (i - 1 \in 1..r /\ recent'[i] = recent[g[i - 1]])
  <2> SUFFICES ASSUME NEW i \in 1..r + 1, i # 1
               PROVE  i - 1 \in 1..r /\ recent'[i] = recent[g[i - 1]]
    OBVIOUS
  <2>1. i - 1 \in 1..r /\ (i - 1) + 1 = i
    BY <1>14
  <2>2. QED
    BY <1>13, <2>1
<1>16. \A k \in 1..r : g[k] \in 1..Len(recent) /\ recent[g[k]].account # key
  BY <1>2, <1>13 DEF Apart
<1>t. CacheType'
  <2>1. /\ now' \in Nat /\ \A i \in DOMAIN pRows' : pRows'[i] \in Owned
        /\ pNext' \in Nat \ {0} /\ DOMAIN pRows' \subseteq 1..pNext'
    BY <1>1 DEF CacheInv, CacheType
  <2>2. \A t \in Tabs : Panel!Busy(t)' => panel'[t].want \in Owned \cup {None}
    BY <1>1 DEF CacheInv, CacheType, Panel!Busy
  <2>3. Conns' = Conns /\ ClientType' = ClientType /\ RecentType' = RecentType
    BY DEF Conns, ClientType, RecentType, Accounts, Panel!ClientKey
  <2>4. QED
    BY <1>3, <1>11, <2>1, <2>2, <2>3 DEF CacheType
<1>o. \A k \in DOMAIN clients' : OwnKey(clients'[k]) /\ (OwnKey(clients[k])' <=> OwnKey(clients'[k]))
  <2> SUFFICES ASSUME NEW k \in DOMAIN clients'
               PROVE  OwnKey(clients'[k]) /\ (OwnKey(clients[k])' <=> OwnKey(clients'[k]))
    OBVIOUS
  <2>1. OwnKey(clients'[k])
    BY <1>2, <1>5, <1>7, <1>8 DEF CacheInv
  <2>2. QED
    BY <1>1, <2>1 DEF OwnKey, Panel!ClientKey
<1>s. Panel!StaleWithinTTL'
  <2>1. call'.config = c /\ call'.client = e /\ call'.at = now
    BY <1>1, <1>9
  <2>2. e.conn.url = c.url /\ e.conn.user = c.user /\ (e.conn # c => now - e.born <= TTL)
    BY <1>5 DEF OwnKey, Panel!ClientKey
  <2>3. QED
    BY <2>1, <2>2 DEF Panel!StaleWithinTTL
<1>w. \A i, j \in DOMAIN recent : recent[i].account = recent[j].account => i = j
  BY DEF CacheInv, Ranked
<1>u. \A i, j \in DOMAIN recent' : recent'[i].account = recent'[j].account => i = j
  <2> SUFFICES ASSUME NEW i \in 1..r + 1, NEW j \in 1..r + 1, recent'[i].account = recent'[j].account
               PROVE  i = j
    BY <1>14
  <2>1. i = 1 \/ (i - 1 \in 1..r /\ recent'[i] = recent[g[i - 1]] /\ recent'[i].account # key)
    BY <1>15, <1>16
  <2>2. j = 1 \/ (j - 1 \in 1..r /\ recent'[j] = recent[g[j - 1]] /\ recent'[j].account # key)
    BY <1>15, <1>16
  <2>3. CASE i = 1 \/ j = 1
    BY <1>13, <2>1, <2>2, <2>3
  <2>4. CASE i # 1 /\ j # 1
    <3>a. /\ g[i - 1] \in DOMAIN recent /\ g[j - 1] \in DOMAIN recent
          /\ recent[g[i - 1]].account = recent[g[j - 1]].account
      BY <1>2, <1>16, <2>1, <2>2, <2>4
    <3>1. g[i - 1] = g[j - 1]
      BY <1>w, <3>a
    <3>2. i - 1 = j - 1
      BY <1>13, <2>1, <2>2, <2>4, <3>1
    <3>3. QED
      BY <3>2
  <2>5. QED
    BY <2>3, <2>4
<1>p. PICK p \in [DOMAIN clients -> DOMAIN recent] : Lined(p)
  BY DEF CacheInv, Ranked
<1>q. PICK q \in [1..m + 1 -> 1..r + 1] :
        /\ \A k, l \in 1..m + 1 : k < l => q[k] > q[l]
        /\ q[m + 1] = 1
        /\ \A k \in 1..m : /\ recent'[q[k]].account = clients[f[k]].key
                           /\ recent'[q[k]].made = clients[f[k]].made
  <2>1. \A k \in 1..m : /\ p[f[k]] \in Apart(c)
                        /\ recent[p[f[k]]].account = clients[f[k]].key
                        /\ recent[p[f[k]]].made = clients[f[k]].made
    BY <1>2, <1>7, <1>p DEF Lined, Apart
  <2> DEFINE at(k) == CHOOSE j \in 1..r : g[j] = p[f[k]]
             q == [k \in 1..m + 1 |-> IF k = m + 1 THEN 1 ELSE at(k) + 1]
  <2>2. \A k \in 1..m : at(k) \in 1..r /\ g[at(k)] = p[f[k]]
    BY <1>13, <2>1
  <2>3. \A k, l \in 1..m : k < l => at(k) > at(l)
    <3> SUFFICES ASSUME NEW k \in 1..m, NEW l \in 1..m, k < l
                 PROVE  at(k) > at(l)
      OBVIOUS
    <3>1. f[k] < f[l] /\ f[k] \in DOMAIN clients /\ f[l] \in DOMAIN clients
      BY <1>2, <1>5, <1>7
    <3>2. p[f[k]] > p[f[l]]
      BY <1>p, <3>1 DEF Lined
    <3>3. /\ at(k) \in 1..r /\ at(l) \in 1..r /\ g[at(k)] > g[at(l)]
          /\ g[at(k)] \in 1..Len(recent) /\ g[at(l)] \in 1..Len(recent)
      BY <1>16, <2>2, <3>2
    <3> HIDE DEF at
    <3>4. at(k) \in Int /\ at(l) \in Int /\ g[at(k)] \in Int /\ g[at(l)] \in Int
      BY <3>3
    <3>5. at(k) < at(l) => g[at(k)] < g[at(l)]
      BY <1>13, <3>3
    <3>6. QED
      BY <3>3, <3>4, <3>5
  <2> HIDE DEF at
  <2>4. \A k \in 1..m : /\ k \in 1..m + 1 /\ k # m + 1 /\ at(k) + 1 \in 1..r + 1
                        /\ at(k) + 1 > 1
    BY <1>6, <1>14, <2>2
  <2>5. \A k \in 1..m + 1 : k = m + 1 \/ k \in 1..m
    BY <1>6
  <2>6. q \in [1..m + 1 -> 1..r + 1]
    BY <1>14, <2>4, <2>5
  <2>7. q[m + 1] = 1 /\ \A k \in 1..m : q[k] = at(k) + 1
    BY <1>6, <2>4
  <2> HIDE DEF q
  <2>8. \A k, l \in 1..m + 1 : k < l => q[k] > q[l]
    <3> SUFFICES ASSUME NEW k \in 1..m + 1, NEW l \in 1..m + 1, k < l
                 PROVE  q[k] > q[l]
      OBVIOUS
    <3>1. k \in 1..m
      BY <1>6
    <3>2. CASE l = m + 1
      BY <2>4, <2>7, <3>1, <3>2
    <3>3. CASE l \in 1..m
      <4>1. at(k) > at(l) /\ at(k) \in Int /\ at(l) \in Int
        BY <2>2, <2>3, <3>1, <3>3
      <4>2. QED
        BY <2>7, <3>1, <3>3, <4>1
    <3>4. QED
      BY <2>5, <3>2, <3>3
  <2>9. ASSUME NEW k \in 1..m
        PROVE  recent'[q[k]].account = clients[f[k]].key /\ recent'[q[k]].made = clients[f[k]].made
    <3>1. q[k] = at(k) + 1 /\ at(k) \in 1..r /\ g[at(k)] = p[f[k]]
      BY <2>2, <2>7
    <3>2. recent'[at(k) + 1] = recent[g[at(k)]]
      BY <1>13, <3>1
    <3>3. recent'[q[k]] = recent[p[f[k]]]
      BY <3>1, <3>2
    <3>4. QED
      BY <2>1, <3>3
  <2>10. QED
    BY <2>6, <2>7, <2>8, <2>9
<1>l. Ranked'
  <2> DEFINE new == [k \in DOMAIN clients' |-> q[k + d]]
  <2>1. \A k \in DOMAIN clients' : k + d \in 1..m + 1
    BY <1>6
  <2>2. new \in [DOMAIN clients' -> DOMAIN recent']
    BY <1>14, <2>1
  <2>3. \A k, l \in DOMAIN clients' : k < l => new[k] > new[l]
    <3> SUFFICES ASSUME NEW k \in DOMAIN clients', NEW l \in DOMAIN clients', k < l
                 PROVE  new[k] > new[l]
      OBVIOUS
    <3>1. k + d < l + d
      BY <1>6
    <3>2. QED
      BY <1>q, <2>1, <3>1
  <2>4. ASSUME NEW k \in DOMAIN clients'
        PROVE  recent'[new[k]].account = clients'[k].key /\ recent'[new[k]].made = clients'[k].made
    <3>1. CASE k = m + 1 - d /\ clients'[k] = e
      <4>1. k + d = m + 1
        BY <1>6, <3>1
      <4>2. new[k] = 1
        BY <1>q, <4>1
      <4>3. QED
        BY <1>5, <1>13, <3>1, <4>2
    <3>2. CASE k + d \in 1..m /\ clients'[k] = clients[f[k + d]]
      BY <1>q, <3>2
    <3>3. QED
      BY <1>8, <3>1, <3>2
  <2> HIDE DEF new
  <2>5. \E x \in [DOMAIN clients' -> DOMAIN recent'] :
          /\ \A k, l \in DOMAIN clients' : k < l => x[k] > x[l]
          /\ \A k \in DOMAIN clients' :
               recent'[x[k]].account = clients'[k].key /\ recent'[x[k]].made = clients'[k].made
    BY <2>2, <2>3, <2>4
  <2>6. QED
    BY <1>u, <2>5 DEF Ranked, Lined
<1>d. d = 1 => q[1] > CacheMax
  <2>1. m + 1 \in Nat \ {0} /\ r + 1 \in Nat
    BY <1>6, <1>14
  <2>2. q[1] >= m + 1
    BY <1>q, <2>1, Descends
  <2>3. q[1] \in Int
    BY <1>q, <1>6
  <2>4. QED
    BY <1>2, <1>5, <2>2, <2>3
<1>g. ASSUME NEW i \in DOMAIN recent'
      PROVE  Cached(i)' \/ Gone(i)'
  <2>1. CASE i = 1
    <3>1. m + 1 - d \in DOMAIN clients' /\ clients'[m + 1 - d].key = recent'[i].account
      <4>1. m + 1 - d \in 1..m + 1 - d
        BY <1>6
      <4>2. QED
        BY <1>5, <1>6, <1>13, <2>1, <4>1
    <3>2. QED
      BY <3>1 DEF Cached
  <2>2. CASE i - 1 \in 1..r /\ recent'[i] = recent[g[i - 1]]
    <3> DEFINE old == g[i - 1]
    <3>1. old \in DOMAIN recent /\ recent[old].account # key /\ old \in Apart(c)
          /\ Rank(Apart(c), old) = i - 1
      BY <1>2, <1>13, <1>16, <2>2
    <3>2. /\ call.at \in Nat /\ call.at <= now /\ call'.at = now
          /\ recent[old].made \in Nat
      <4>1. recent[old] \in RecentType
        BY <1>2, <3>1
      <4>2. QED
        BY <1>1, <3>1, <4>1 DEF CacheInv, RecentType
    <3> HIDE DEF old
    <3>3. CASE old > CacheMax
      <4>1. \A k, l \in 1..Len(recent) : k \notin Apart(c) /\ l \notin Apart(c) => k = l
        BY <1>2 DEF Apart, CacheInv, Ranked
      <4>2. Apart(c) \in SUBSET (1..Len(recent))
        BY <1>2 DEF Apart
      <4>3. old <= Rank(Apart(c), old) + 1
        BY <1>2, <3>1, <4>1, <4>2, RankShortByOne
      <4>4. old <= i
        BY <1>14, <3>1, <4>3
      <4>5. i > CacheMax
        BY <1>2, <1>14, <3>1, <3>3, <4>4
      <4>6. QED
        BY <4>5 DEF Gone
    <3>4. CASE call.at - recent[old].made > TTL
      <4>1. now - recent[old].made > TTL
        BY <1>2, <3>2, <3>4, Older
      <4>2. call'.at - recent[old].made > TTL
        BY <3>2, <4>1
      <4>3. QED
        BY <2>2, <4>2 DEF Gone, old
    <3>5. CASE Cached(old)
      <4>1. PICK x \in DOMAIN clients : clients[x].key = recent[old].account
        BY <3>5 DEF Cached
      <4>2. clients[x].made = recent[old].made
        <5>1. recent[p[x]].account = recent[old].account /\ p[x] \in DOMAIN recent
          BY <1>p, <4>1 DEF Lined
        <5>2. p[x] = old
          BY <1>w, <3>1, <5>1
        <5>3. QED
          BY <1>p, <5>2 DEF Lined
      <4>3. CASE x \notin Panel!Fresh
        <5>1. ~(now - clients[x].made <= TTL)
          BY <4>3 DEF Panel!Fresh
        <5>m. now - recent[old].made > TTL
          BY <1>2, <3>2, <4>2, <5>1, Older
        <5>2. call'.at - recent[old].made > TTL
          BY <3>2, <5>m
        <5>3. QED
          BY <2>2, <5>2 DEF Gone, old
      <4>4. CASE x \in Panel!Fresh
        <5>1. x \in Panel!Fresh \ Panel!Hits(c)
          BY <3>1, <4>1, <4>4 DEF Panel!Hits
        <5>2. PICK k \in 1..m : f[k] = x
          BY <1>5, <5>1
        <5>i. k \in Int /\ m \in Int /\ k >= 1 /\ k <= m
          BY <1>6
        <5>3. ASSUME NEW y \in 1..m - d, y + d = k
              PROVE  Cached(i)'
          <6>1. clients'[y] = clients[x]
            BY <1>5, <5>2, <5>3
          <6>2. y \in 1..m + 1 - d
            BY <5>i
          <6>3. y \in DOMAIN clients' /\ clients'[y].key = recent'[i].account
            BY <1>6, <2>2, <4>1, <6>1, <6>2 DEF old
          <6>4. QED
            BY <6>3 DEF Cached
        <5>4. CASE d = 0
          <6>1. k \in 1..m - d /\ k + d = k
            BY <5>4, <5>i
          <6>2. QED
            BY <5>3, <6>1
        <5>5. CASE d = 1 /\ k # 1
          <6>1. k - 1 \in 1..m - d /\ k - 1 + d = k
            BY <5>5, <5>i
          <6>2. QED
            BY <5>3, <6>1
        <5>6. CASE d = 1 /\ k = 1
          <6>1. recent'[q[1]].account = clients[f[1]].key /\ f[1] = x
            BY <1>q, <5>2, <5>6
          <6>2. recent'[q[1]].account = recent'[i].account
            BY <2>2, <4>1, <6>1 DEF old
          <6>3. 1 \in 1..m + 1
            BY <1>6
          <6>4. q[1] \in DOMAIN recent'
            BY <1>14, <1>q, <6>3
          <6>5. q[1] = i
            BY <1>u, <6>2, <6>4
          <6>6. QED
            BY <1>d, <5>6, <6>5 DEF Gone
        <5>7. QED
          BY <5>4, <5>5, <5>6
      <4>5. QED
        BY <4>3, <4>4
    <3>6. QED
      BY <3>1, <3>3, <3>4, <3>5 DEF CacheInv, Gone
  <2>3. QED
    BY <1>14, <1>15, <2>1, <2>2
<1>c. call'.at \in Nat /\ call'.at <= now'
  BY <1>1, <1>2
<1>z. QED
  BY <1>5, <1>c, <1>g, <1>l, <1>o, <1>s, <1>t DEF CacheInv

(* The connections the page handles are the user's, others' or the platform's.          *)
LEMMA CacheTypeKept ==
  ASSUME CacheInv, UNCHANGED <<clients, recent>>, now' \in Nat,
         pNext' \in Nat \ {0}, DOMAIN pRows' \subseteq 1..pNext',
         \A i \in DOMAIN pRows' : pRows'[i] \in Owned,
         \A t \in Tabs : Panel!Busy(t)' => panel'[t].want \in Owned \cup {None},
         config' \in Conns \cup {None}
  PROVE  CacheType'
<1>1. Conns' = Conns /\ ClientType' = ClientType /\ RecentType' = RecentType
  BY DEF Conns, ClientType, RecentType, Accounts, Panel!ClientKey
<1>2. QED
  BY <1>1 DEF CacheInv, CacheType

LEMMA CacheSubmit ==
  ASSUME CacheInv, PanelInv, NEW t \in Tabs, NEW c \in Owned \cup {None}, Panel!Submit(t, c)
  PROVE  CacheInv'
<1>1. /\ panel' = [panel EXCEPT ![t] = [pc |-> "write", want |-> c, found |-> Panel!Shown]]
      /\ UNCHANGED <<pRows, pNext, config, clients, call, recent, now>>
  BY DEF Panel!Submit, Panel!store, Panel!calls
<1>2. \A u \in Tabs : Panel!Busy(u)' => panel'[u].want \in Owned \cup {None}
  <2> SUFFICES ASSUME NEW u \in Tabs, Panel!Busy(u)'
               PROVE  panel'[u].want \in Owned \cup {None}
    OBVIOUS
  <2>1. CASE u = t
    BY <1>1, <2>1 DEF PanelInv
  <2>2. CASE u # t
    BY <1>1, <2>2 DEF PanelInv, CacheInv, CacheType, Panel!Busy
  <2>3. QED
    BY <2>1, <2>2
<1>3. CacheType' /\ now <= now'
  BY <1>1, <1>2, CacheTypeKept DEF CacheInv, CacheType
<1>4. QED
  BY <1>1, <1>3, CacheElsewhere

LEMMA CacheWrite ==
  ASSUME CacheInv, PanelInv, NEW t \in Tabs, Panel!Write(t) \/ Panel!WriteFails(t)
  PROVE  CacheInv'
<1>1. /\ panel' = [panel EXCEPT ![t] = Panel!Idle] /\ Panel!Busy(t)
      /\ UNCHANGED <<config, clients, call, recent, now>>
  BY DEF Panel!Write, Panel!WriteFails, Panel!Finish, Panel!calls, Panel!Busy
<1>2. \A u \in Tabs : Panel!Busy(u)' => panel'[u].want \in Owned \cup {None}
  <2> SUFFICES ASSUME NEW u \in Tabs, Panel!Busy(u)'
               PROVE  panel'[u].want \in Owned \cup {None}
    OBVIOUS
  <2>1. u # t /\ panel'[u] = panel[u]
    BY <1>1 DEF PanelInv, Panel!Busy, Panel!Idle
  <2>2. QED
    BY <2>1 DEF CacheInv, CacheType, Panel!Busy
<1>3. \A i \in DOMAIN pRows' : pRows'[i] \in Owned
  <2> DEFINE want == panel[t].want
             found == panel[t].found
  <2>1. want \in Owned \cup {None} /\ \A i \in DOMAIN pRows : pRows[i] \in Owned
    BY <1>1 DEF CacheInv, CacheType
  <2> HIDE DEF want, found
  <2>2. CASE pRows' = pRows
    BY <2>1, <2>2
  <2>3. CASE /\ want # None
             /\ pRows' = [i \in DOMAIN pRows \cup {pNext} |-> IF i = pNext THEN want ELSE pRows[i]]
    BY <2>1, <2>3
  <2>4. CASE want # None /\ found \in DOMAIN pRows /\ pRows' = [pRows EXCEPT ![found] = want]
    <3>1. DOMAIN pRows' = DOMAIN pRows
          /\ \A i \in DOMAIN pRows : pRows'[i] = IF i = found THEN want ELSE pRows[i]
      BY <2>4
    <3>2. QED
      BY <2>1, <2>4, <3>1
  <2>5. CASE pRows' = [i \in DOMAIN pRows \ {found} |-> pRows[i]]
    BY <2>1, <2>5
  <2>6. QED
    BY <2>2, <2>3, <2>4, <2>5 DEF Panel!Write, Panel!WriteFails, Panel!store, want, found
<1>4. pNext' \in Nat \ {0} /\ DOMAIN pRows' \subseteq 1..pNext'
  <2>1. pNext \in Nat \ {0} /\ DOMAIN pRows \subseteq 1..pNext
    BY DEF CacheInv, CacheType
  <2>2. \/ DOMAIN pRows' = DOMAIN pRows \cup {pNext} /\ pNext' = pNext + 1
        \/ DOMAIN pRows' \subseteq DOMAIN pRows /\ pNext' = pNext
    BY DEF Panel!Write, Panel!WriteFails, Panel!store
  <2>3. QED
    BY <2>1, <2>2
<1>5. CacheType' /\ now <= now'
  BY <1>1, <1>2, <1>3, <1>4, CacheTypeKept DEF CacheInv, CacheType
<1>6. QED
  BY <1>1, <1>5, CacheElsewhere

LEMMA LastRow ==
  ASSUME NEW n \in Nat, NEW S \in SUBSET (1..n), S # {}
  PROVE  Panel!Max(S) \in S
<1>1. PICK m \in 0..n, f \in [1..n -> 1..n] :
        /\ Panel!Cardinality(S) = m /\ Cardinality(S) = m
        /\ \A k \in 1..m : /\ Panel!Nth(S, k) = f[k]
                           /\ f[k] \in S /\ Rank(S, f[k]) = k
        /\ \A k, l \in 1..m : k < l => f[k] < f[l]
        /\ \A i \in S : \E k \in 1..m : f[k] = i
  BY InOrder
<1>2. m \in 1..m /\ \A k \in 1..m : k = m \/ k < m
  <2>1. PICK i \in S : TRUE
    OBVIOUS
  <2>2. PICK k \in 1..m : f[k] = i
    BY <1>1
  <2>3. m \in Int
    OBVIOUS
  <2>4. QED
    BY <2>2, <2>3
<1>3. f[m] \in S /\ \A i \in S : f[m] >= i
  <2>1. ASSUME NEW i \in S
        PROVE  f[m] >= i
    <3>1. PICK k \in 1..m : f[k] = i
      BY <1>1
    <3>2. k = m \/ f[k] < f[m]
      BY <1>1, <1>2
    <3>3. f[k] \in S /\ f[m] \in S
      BY <1>1, <1>2
    <3>s. S \subseteq Int
      OBVIOUS
    <3>4. f[k] \in Int /\ f[m] \in Int
      BY <3>3, <3>s
    <3>5. CASE k = m
      BY <3>1, <3>4, <3>5
    <3>6. CASE f[k] < f[m]
      BY <3>1, <3>4, <3>6
    <3>7. QED
      BY <3>2, <3>5, <3>6
  <2>2. QED
    BY <1>1, <1>2, <2>1
<1>4. QED
  BY <1>3 DEF Panel!Max

(* The resolver takes a row of the user or the platform's connection.                 *)
LEMMA CacheResolve ==
  ASSUME CacheInv, PanelInv, Panel!Resolve
  PROVE  CacheInv'
<1>1. config' = Panel!Resolved /\ UNCHANGED <<pRows, pNext, panel, clients, call, recent, now>>
  BY DEF Panel!Resolve, Panel!store, Panel!calls
<1>2. Panel!Resolved \in Conns \cup {None}
  <2>1. CASE DOMAIN pRows = {}
    BY <2>1 DEF Panel!Resolved, Conns
  <2>2. CASE DOMAIN pRows # {}
    <3>1. Panel!Max(DOMAIN pRows) \in DOMAIN pRows
      BY <2>2, LastRow DEF CacheInv, CacheType
    <3>2. QED
      BY <2>2, <3>1 DEF Panel!Resolved, Conns, CacheInv, CacheType
  <2>3. QED
    BY <2>1, <2>2
<1>3. CacheType' /\ now <= now'
  <2>1. now \in Nat /\ pNext \in Nat \ {0} /\ DOMAIN pRows \subseteq 1..pNext /\ (\A i \in DOMAIN pRows : pRows[i] \in Owned)
        /\ \A t \in Tabs : Panel!Busy(t) => panel[t].want \in Owned \cup {None}
    BY DEF CacheInv, CacheType
  <2>2. QED
    BY <1>1, <1>2, <2>1, CacheTypeKept DEF Panel!Busy
<1>4. QED
  BY <1>1, <1>3, CacheElsewhere

LEMMA CacheNext ==
  ASSUME Panel!OverrideAssumption, CacheInv, PanelInv, [Panel!Next]_(Panel!vars)
  PROVE  CacheInv'
<1> USE DEF Panel!store, Panel!calls
<1>0. /\ now \in Nat /\ pNext \in Nat \ {0} /\ DOMAIN pRows \subseteq 1..pNext
      /\ \A i \in DOMAIN pRows : pRows[i] \in Owned
      /\ \A t \in Tabs : Panel!Busy(t) => panel[t].want \in Owned \cup {None}
      /\ config \in Conns \cup {None}
  BY DEF CacheInv, CacheType
<1>1. CASE \E t \in Tabs : \E c \in Owned \cup {None} : Panel!Submit(t, c)
  BY <1>1, CacheSubmit
<1>2. CASE \E t \in Tabs : Panel!Write(t) \/ Panel!WriteFails(t)
  BY <1>2, CacheWrite
<1>3. CASE Panel!Resolve
  BY <1>3, CacheResolve
<1>4. CASE Panel!Call
  <2>1. config \in Conns /\ config' = config /\ Panel!Called(config)
    BY <1>0, <1>4 DEF Panel!Call
  <2>2. QED
    BY <2>1, CacheCalled
<1>5. CASE \E c \in Others : Panel!OtherCall(c)
  <2>1. PICK c \in Others : Panel!Called(c) /\ config' = config
    BY <1>5 DEF Panel!OtherCall
  <2>2. c \in Conns /\ config' \in Conns \cup {None}
    BY <1>0, <2>1 DEF Conns
  <2>3. QED
    BY <2>1, <2>2, CacheCalled
<1>6. CASE Panel!Tick \/ UNCHANGED Panel!vars
  <2>1. /\ UNCHANGED <<pRows, pNext, panel, config, clients, call, recent>>
        /\ now' \in Nat /\ now <= now'
    BY <1>0, <1>6 DEF Panel!Tick, Panel!vars
  <2>2. CacheType'
    BY <1>0, <2>1, CacheTypeKept DEF Panel!Busy
  <2>3. QED
    BY <2>1, <2>2, CacheElsewhere
<1>7. QED
  BY <1>1, <1>2, <1>3, <1>4, <1>5, <1>6 DEF Panel!Next

LEMMA CacheAlways == PageSpec => []CacheInv
<1>1. PanelInv /\ CacheInv /\ [PageNext]_<<page, vars, panelVars>> => PanelInv' /\ CacheInv'
  <2>1. PanelInv /\ CacheInv /\ UNCHANGED panelVars => PanelInv' /\ CacheInv'
    BY CacheNext, PanelNext, PanelAssumption DEF panelVars, Panel!vars, Panel!store, Panel!calls
  <2>2. QED
    BY <2>1, CacheNext, PanelNext, PanelAssumption DEF PageNext
<1>2. PageInit => PanelInv /\ CacheInv
  BY PanelInit, CacheInit, PanelAssumption DEF PageInit
<1>3. QED
  BY <1>1, <1>2, PTL DEF PageSpec

(* getOpenSearchClientForConfig() never gives a search the client of another account,   *)
(* and one made with an old password for the TTL at most, however often it was used:    *)
(* a hit moves the client to the end of the map and leaves its age.                  *)
THEOREM NoStaleClient == PageSpec => []StaleWithinTTL
<1>1. CacheInv => StaleWithinTTL
  BY DEF CacheInv, StaleWithinTTL
<1>2. QED
  BY <1>1, CacheAlways, PTL

(* The clients stand in the order of their last use, whatever hits, expiry and the       *)
(* limit have taken out: of the accounts called last, none is given up but for its age.   *)
THEOREM CacheIsLRU == PageSpec => []KeepsTheRecent
<1>1. CacheInv /\ Panel!OverrideAssumption => KeepsTheRecent
  <2> SUFFICES ASSUME CacheInv, Panel!OverrideAssumption
               PROVE  Panel!KeepsTheRecent
    BY DEF KeepsTheRecent
  <2>1. recent \in Seq(RecentType) /\ CacheMax \in Nat /\ clients \in Seq(ClientType)
    BY DEF CacheInv, CacheType, Panel!OverrideAssumption
  <2>2. Len(recent) \in Nat /\ DOMAIN recent = 1..Len(recent)
    BY <2>1
  <2>3. ASSUME NEW i \in 1..Panel!Min({CacheMax, Len(recent)})
        PROVE  i \in DOMAIN recent /\ ~(i > CacheMax)
    <3>1. \E y \in {CacheMax, Len(recent)} : \A z \in {CacheMax, Len(recent)} : y <= z
      BY <2>1, <2>2
    <3>2. /\ Panel!Min({CacheMax, Len(recent)}) \in {CacheMax, Len(recent)}
          /\ \A z \in {CacheMax, Len(recent)} : Panel!Min({CacheMax, Len(recent)}) <= z
      BY <3>1 DEF Panel!Min
    <3> DEFINE least == Panel!Min({CacheMax, Len(recent)})
    <3>3. least \in Nat /\ least <= CacheMax /\ least <= Len(recent) /\ i \in 1..least
      BY <2>1, <2>2, <3>2
    <3> HIDE DEF least
    <3>4. QED
      BY <2>1, <2>2, <3>3
  <2>4. \A i \in DOMAIN recent : Cached(i) => \E e \in Panel!Range(clients) : e.key = recent[i].account
    BY DEF Cached, Panel!Range
  <2>5. QED
    BY <2>3, <2>4 DEF CacheInv, Gone, Panel!KeepsTheRecent
<1>2. QED
  BY <1>1, CacheAlways, PanelAssumption, PTL
=============================================================================
