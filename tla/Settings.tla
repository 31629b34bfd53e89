------------------------------ MODULE Settings ------------------------------
(***************************************************************************)
(* The settings tabs of several users, each open in one or more clients, over  *)
(* the tables behind them: the default model (llm_configs), the custom skills  *)
(* with each user's switch (skills, user_skills), and the rows that are listed, *)
(* edited, tested and removed by their number: agents (user_agents), skills    *)
(* (composable_skills), sources (data_sources) and servers (mcp_connections).   *)
(* What the rows say, validation of inputs and the layout are left out.         *)
(***************************************************************************)
EXTENDS Integers, FiniteSets, Sequences

CONSTANTS
  Users,
  Clients,      \* open tabs
  UserOf,       \* the user of each
  Seeded,       \* rows there are before: number |-> row
  MaxRows,      \* bound: rows
  MaxOps,       \* bound: what users do
  None

Modals == {"agent", "skill"}    \* edited in a modal, over what the list shows
Cards == {"source", "server"}   \* edited in the card, which keeps what is typed
Kinds == Modals \cup Cards

ASSUME SettingsAssumption ==
  /\ UserOf \in [Clients -> Users]
  /\ \E n \in 0..MaxRows :
       Seeded \in [1..n -> [kind : Kinds, owner : Users \cup {None}, edits : {{}}, verdict : {None}]]
  /\ {MaxRows, MaxOps} \subseteq Nat
  /\ None \notin Users \cup Nat \cup BOOLEAN

VARIABLES
  models,    \* each user's model rows: whether each is the default
  custom,    \* the custom skill exists
  switch,    \* each user's user_skills row for it
  shown,     \* each client's switch
  flights,   \* toggles, and reloads of the list, under way in each client, in
             \* the order of the clicks
  astray,    \* history: clients whose last toggle failed, and the reload too
  rows,      \* the listed rows: number |-> kind, owner, the edits its text
             \* is made of, the verdict of its last test
  next,      \* the number of the next row
  list,      \* the rows each client shows: number |-> kind, text
  late,      \* the reload after a removal or a test, which nothing waits for
  draft,     \* the text of the row that each client is saving
  copy,      \* the list that was read after a save, before it is shown
  slipped,   \* history: a client and a row that another saved, or whose list
             \* may lack what it saved itself
  req,       \* what each client is about
  crossed,   \* history: clients that had two toggles under way, or met another's
  ops

defaults == <<models>>
skills == <<custom, switch, shown, flights, astray, crossed>>
shows == <<list, late, draft, copy, slipped>>
listed == <<rows, next, shows>>
vars == <<defaults, skills, listed, req, ops>>

Idle == [pc |-> "idle", kind |-> None, id |-> None, cleared |-> {}, met |-> FALSE]
User(c) == UserOf[c]

(* The row policies: a user sees rows of their own and the first-party skills,   *)
(* and writes those of their own.                                            *)
Readable(u, row) == row.owner = u \/ (row.kind = "skill" /\ row.owner = None)
Writable(u, row) == row.owner = u

Init ==
  /\ models = [u \in Users |-> <<>>]
  /\ custom = FALSE
  /\ switch = [u \in Users |-> None]
  /\ shown = [c \in Clients |-> FALSE]
  /\ flights = [c \in Clients |-> <<>>]
  /\ astray = {}
  /\ rows = Seeded
  /\ next = Cardinality(DOMAIN Seeded) + 1
  /\ list = [c \in Clients |->
               [i \in {j \in DOMAIN Seeded : Readable(User(c), Seeded[j])} |->
                  [kind |-> Seeded[i].kind, text |-> Seeded[i].edits]]]
  /\ late = [c \in Clients |-> None]
  /\ draft = [c \in Clients |-> {}]
  /\ copy = [c \in Clients |-> <<>>]
  /\ slipped = {}
  /\ req = [c \in Clients |-> Idle]
  /\ crossed = {}
  /\ ops = 0

Begin(c) ==
  /\ req[c].pc = "idle"
  /\ ops < MaxOps
  /\ ops' = ops + 1

Become(c, r) == req' = [req EXCEPT ![c] = r]

Ask(c, r) == Begin(c) /\ Become(c, r) /\ UNCHANGED <<defaults, skills, listed>>
-----------------------------------------------------------------------------
Defaults(u) == {i \in DOMAIN models[u] : models[u][i]}
Saving(u) == {c \in Clients : User(c) = u /\ req[c].pc \in {"clear", "write"}}
LockedFor(c) ==
  UNION {req[d].cleared : d \in Saving(User(c)) \ {c}}

(* The model tab saves the model it shows.                                   *)
SaveModel(c) == Ask(c, [Idle EXCEPT !.pc = "save"])

(* upsertDefaultModelConfig(), a transaction of three statements that sees what  *)
(* is committed: it finds a default row ...                                    *)
FindDefault(c) ==
  /\ req[c].pc = "save"
  /\ \E found \in IF Defaults(User(c)) = {} THEN {None} ELSE Defaults(User(c)) :
       LET others == Saving(User(c))
       IN  req' = [d \in Clients |->
                     IF d = c THEN [Idle EXCEPT !.pc = "clear", !.id = found, !.met = others # {}]
                     ELSE IF d \in others THEN [req[d] EXCEPT !.met = TRUE] ELSE req[d]]
  /\ UNCHANGED <<defaults, skills, listed, ops>>

(* ... clears the default rows, which it locks: another's clear waits ...        *)
ClearDefaults(c) ==
  /\ req[c].pc = "clear"
  /\ Defaults(User(c)) \cap LockedFor(c) = {}
  /\ Become(c, [req[c] EXCEPT !.pc = "write", !.cleared = Defaults(User(c))])
  /\ UNCHANGED <<defaults, skills, listed, ops>>

(* Mutant of Written: the clear comes last.                                  *)
WrittenFirst(c) ==
  LET u == User(c)
      found == req[c].id
  IN  IF found = None THEN Append([i \in DOMAIN models[u] |-> i \notin req[c].cleared /\ models[u][i]], TRUE)
      ELSE [i \in DOMAIN models[u] |-> models[u][i] /\ i \notin req[c].cleared \cup {found}]

(* ... and writes the row it found, or a new one.                             *)
Written(c) ==
  LET u == User(c)
      kept == [i \in DOMAIN models[u] |-> models[u][i] /\ i \notin req[c].cleared]
  IN  IF req[c].id = None THEN Append(kept, TRUE) ELSE [kept EXCEPT ![req[c].id] = TRUE]

WriteModel(c) ==
  /\ req[c].pc = "write"
  /\ req[c].id \notin LockedFor(c)
  /\ models' = [models EXCEPT ![User(c)] = Written(c)]
  /\ Become(c, Idle)
  /\ UNCHANGED <<skills, listed, ops>>
-----------------------------------------------------------------------------
Stored(u) == switch[u] = TRUE

(* The skills tab adds a skill.                                              *)
AddSkill(c) == Ask(c, [Idle EXCEPT !.pc = "custom"])

(* createCustomSkill(): the skill, which is everybody's; then, in a transaction  *)
(* of its own, the user's row.  The tab then reads its list again; a row that a   *)
(* toggle has made already is an error, and nothing is read.                    *)
CreateCustom(c) ==
  /\ req[c].pc = "custom"
  /\ custom' = TRUE
  /\ Become(c, IF custom THEN Idle ELSE [Idle EXCEPT !.pc = "join"])
  /\ UNCHANGED <<defaults, switch, shown, flights, astray, crossed, listed, ops>>

Toggling(to) == [pc |-> "toggle", to |-> to]
Reloading == [pc |-> "reload", to |-> FALSE]
Arriving(to) == [pc |-> "arrive", to |-> to]

(* The other tabs of the user show what was stored before; and what is under way in *)
(* the tab itself meets what it begins now.                                    *)
Crossed(c) == {d \in Clients : User(d) = User(c) /\ (d # c \/ flights[c] # <<>>)}

Join(c) ==
  /\ req[c].pc = "join"
  /\ \/ /\ switch[User(c)] = None
        /\ switch' = [switch EXCEPT ![User(c)] = TRUE]
        /\ flights' = [flights EXCEPT ![c] = Append(@, Reloading)]
        /\ crossed' = crossed \cup Crossed(c)
     \/ switch[User(c)] # None /\ UNCHANGED <<switch, flights, crossed>>
  /\ Become(c, Idle)
  /\ UNCHANGED <<defaults, custom, shown, astray, listed, ops>>

(* onToggle(): the switch is shown at once, and asked for; nothing stops the next *)
(* click.                                                                    *)
Toggle(c) ==
  /\ custom
  /\ ops < MaxOps
  /\ ops' = ops + 1
  /\ shown' = [shown EXCEPT ![c] = ~@]
  /\ flights' = [flights EXCEPT ![c] = Append(@, Toggling(shown'[c]))]
  /\ crossed' = crossed \cup Crossed(c)
  /\ UNCHANGED <<defaults, custom, switch, astray, listed, req>>

Without(s, i) == SubSeq(s, 1, i - 1) \o SubSeq(s, i + 1, Len(s))
Land(c, i) == flights' = [flights EXCEPT ![c] = Without(@, i)]

(* toggleUserSkill(): the requests are handled in any order.                   *)
Toggled(c, i) ==
  /\ flights[c][i].pc = "toggle"
  /\ switch' = [switch EXCEPT ![User(c)] = flights[c][i].to]
  /\ astray' = astray \ {c}
  /\ Land(c, i)
  /\ UNCHANGED <<defaults, custom, shown, crossed, listed, req, ops>>

(* Mutant of ToggleFails: the list is not read again.                        *)
ToggleForgets(c, i) ==
  /\ flights[c][i].pc = "toggle"
  /\ Land(c, i)
  /\ UNCHANGED <<defaults, custom, switch, shown, astray, crossed, listed, req, ops>>

(* A toggle fails, before or after it was stored, and the list is asked for again. *)
ToggleFails(c, i) ==
  /\ flights[c][i].pc = "toggle"
  /\ switch' \in {switch, [switch EXCEPT ![User(c)] = flights[c][i].to]}
  /\ flights' = [flights EXCEPT ![c][i] = Reloading]
  /\ UNCHANGED <<defaults, custom, shown, astray, crossed, listed, req, ops>>

(* listSkillsForUser() answers a reload ...                                    *)
ListSkills(c, i) ==
  /\ flights[c][i].pc = "reload"
  /\ flights' = [flights EXCEPT ![c][i] = Arriving(Stored(User(c)))]
  /\ UNCHANGED <<defaults, custom, switch, shown, astray, crossed, listed, req, ops>>

(* ... and the answer is shown when it arrives.                                *)
ShowSkills(c, i) ==
  /\ flights[c][i].pc = "arrive"
  /\ shown' = [shown EXCEPT ![c] = flights[c][i].to]
  /\ astray' = astray \ {c}
  /\ Land(c, i)
  /\ UNCHANGED <<defaults, custom, switch, crossed, listed, req, ops>>

(* A reload that fails leaves what was shown, the optimistic switch included.       *)
ReloadFails(c, i) ==
  /\ flights[c][i].pc \in {"reload", "arrive"}
  /\ astray' = astray \cup {c}
  /\ Land(c, i)
  /\ UNCHANGED <<defaults, custom, switch, shown, crossed, listed, req, ops>>
-----------------------------------------------------------------------------
(* The lists: agents and connections are the user's own, skills all that may be   *)
(* read.                                                                     *)
AgentsOf(u) == {i \in DOMAIN rows : rows[i].kind = "agent" /\ Readable(u, rows[i])}
SkillsOf(u) == {i \in DOMAIN rows : rows[i].kind = "skill" /\ Readable(u, rows[i])}
SourcesOf(u) == {i \in DOMAIN rows : rows[i].kind = "source" /\ Readable(u, rows[i])}
ServersOf(u) == {i \in DOMAIN rows : rows[i].kind = "server" /\ Readable(u, rows[i])}
ListOf(kind, u) == CASE kind = "agent" -> AgentsOf(u) [] kind = "skill" -> SkillsOf(u)
                     [] kind = "source" -> SourcesOf(u) [] kind = "server" -> ServersOf(u)

(* A list as it is read: what the client shows of each row.                     *)
Read(c, kind) ==
  [i \in ListOf(kind, User(c)) |-> [kind |-> kind, text |-> rows[i].edits]]

Listed(c, kind) == {i \in DOMAIN list[c] : list[c][i].kind = kind}

(* What is shown when a list arrives: the cards that are there keep what was typed. *)
Show(c, kind, read) ==
  list' = [list EXCEPT ![c] =
    [i \in (DOMAIN @ \ Listed(c, kind)) \cup DOMAIN read |->
       IF i \in DOMAIN @ /\ (i \notin DOMAIN read \/ kind \in Cards) THEN @[i] ELSE read[i]]]

AskFor(c, pc, kind, id) == Ask(c, [Idle EXCEPT !.pc = pc, !.kind = kind, !.id = id])

(* Saving a row sends all its fields, as shown and with an edit; what is typed into *)
(* a card stays there.                                                       *)
Save(c, kind) ==
  \E id \in Listed(c, kind) :
    /\ Begin(c)
    /\ Become(c, [Idle EXCEPT !.pc = "patch", !.kind = kind, !.id = id])
    /\ draft' = [draft EXCEPT ![c] = list[c][id].text \cup {ops'}]
    /\ list' = IF kind \in Cards THEN [list EXCEPT ![c][id] = [kind |-> kind, text |-> draft'[c]]] ELSE list
    /\ UNCHANGED <<defaults, skills, rows, next, late, copy, slipped>>

(* The modals of agents and skills create a row, or save a listed one.           *)
SubmitAgent(c) == AskFor(c, "create", "agent", None) \/ Save(c, "agent")
SubmitSkill(c) == AskFor(c, "create", "skill", None) \/ Save(c, "skill")

(* A modal whose save went wrong stays open: it is submitted again, with a further  *)
(* edit or without, or cancelled.                                             *)
Resubmit(c) ==
  /\ req[c].pc = "open"
  /\ ops < MaxOps
  /\ ops' = ops + 1
  /\ \E more \in {{}, {ops'}} : draft' = [draft EXCEPT ![c] = @ \cup more]
  /\ Become(c, [req[c] EXCEPT !.pc = "patch"])
  /\ UNCHANGED <<defaults, skills, rows, next, list, late, copy, slipped>>

Over(c) ==
  /\ Become(c, Idle)
  /\ draft' = [draft EXCEPT ![c] = {}]
  /\ copy' = [copy EXCEPT ![c] = <<>>]

Cancel(c) ==
  /\ req[c].pc = "open"
  /\ Over(c)
  /\ UNCHANGED <<defaults, skills, rows, next, list, late, slipped, ops>>

(* The lists remove a row.  A first-party skill has no button for it, but the       *)
(* routes take the number of any row a client has listed.                      *)
Remove(c, pc, kind) ==
  late[c] = None /\ \E id \in Listed(c, kind) : AskFor(c, pc, kind, id)
RemoveAgent(c) == Remove(c, "look", "agent")
RemoveSkill(c) == Remove(c, "look", "skill")

(* The tabs of sources and servers: add, save, test or verify, remove.           *)
SourceTab(c) ==
  \/ AskFor(c, "create", "source", None)
  \/ Save(c, "source")
  \/ \E pc \in {"read", "delete"} : Remove(c, pc, "source")
ServerTab(c) ==
  \/ AskFor(c, "create", "server", None)
  \/ Save(c, "server")
  \/ \E pc \in {"read", "delete"} : Remove(c, pc, "server")
-----------------------------------------------------------------------------
At(c, pc, kind) == req[c].pc = pc /\ req[c].kind = kind
Rest == UNCHANGED <<defaults, skills, ops>>

(* The row is there and the user's: otherwise the database finds no row to write, *)
(* and the answer is 404.                                                     *)
Mine(c) == req[c].id \in DOMAIN rows /\ Writable(User(c), rows[req[c].id])

(* A write that ends the request, or is followed by a reload that nothing waits for. *)
Answer(c, reloads) ==
  /\ Become(c, Idle)
  /\ late' = IF reloads THEN [late EXCEPT ![c] = [kind |-> req[c].kind, read |-> None]] ELSE late
  /\ UNCHANGED <<next, list, draft, copy, slipped>>
  /\ Rest

(* A request that failed: the modal of a save stays open, with what was typed.       *)
Editing(c) == req[c].kind \in Modals /\ req[c].id # None /\ req[c].pc \in {"patch", "reload", "listed"}
Refused(c) ==
  /\ IF Editing(c)
     THEN /\ Become(c, [req[c] EXCEPT !.pc = "open"])
          /\ copy' = [copy EXCEPT ![c] = <<>>]
          /\ UNCHANGED draft
     ELSE Over(c)
  /\ slipped' = IF Editing(c) /\ req[c].pc # "patch" THEN slipped \cup {<<c, req[c].id>>} ELSE slipped
  /\ UNCHANGED <<rows, next, list, late>>

NewRow(c) ==
  /\ next <= MaxRows
  /\ rows' = [i \in DOMAIN rows \cup {next} |->
                IF i = next THEN [kind |-> req[c].kind, owner |-> User(c), edits |-> {},
                                  verdict |-> None]
                ELSE rows[i]]
  /\ next' = next + 1
  /\ Become(c, [req[c] EXCEPT !.pc = "reload"])
  /\ UNCHANGED shows
  /\ Rest

HasLate(c) == late[c] # None /\ late[c].read # None

(* history: who may now show less than what is stored: everybody else, and the      *)
(* client itself if a reload from before is still to arrive.                     *)
Slips(c) ==
  LET id == req[c].id
      before == HasLate(c) /\ id \in DOMAIN late[c].read
  IN  {d \in Clients : d # c \/ before} \X {id}

(* Mutant of Edited: the modal closes at once, and the list is read behind it.        *)
EditedCloses(c) ==
  /\ \/ /\ Mine(c)
        /\ rows' = [rows EXCEPT ![req[c].id].edits = draft[c]]
        /\ late' = [late EXCEPT ![c] = [kind |-> req[c].kind, read |-> None]]
        /\ Over(c)
        /\ slipped' = slipped \cup Slips(c)
        /\ UNCHANGED <<next, list>>
     \/ ~Mine(c) /\ Refused(c)
  /\ Rest

Edited(c) ==
  /\ \/ /\ Mine(c)
        /\ rows' = [rows EXCEPT ![req[c].id].edits = draft[c]]
        /\ Become(c, [req[c] EXCEPT !.pc = "reload"])
        /\ slipped' = slipped \cup Slips(c)
        /\ UNCHANGED <<next, list, late, draft, copy>>
     \/ ~Mine(c) /\ Refused(c)
  /\ Rest

Deleted(c) ==
  /\ rows' = IF Mine(c) THEN [i \in DOMAIN rows \ {req[c].id} |-> rows[i]] ELSE rows
  /\ Answer(c, Mine(c))

(* A read in a transaction of its own, on which the next step relies.            *)
Found(c, pc) ==
  /\ Become(c, IF req[c].id \in ListOf(req[c].kind, User(c)) THEN [req[c] EXCEPT !.pc = pc] ELSE Idle)
  /\ UNCHANGED listed
  /\ Rest

Noted(c, verdict, reloads) ==
  /\ rows' = IF Mine(c) THEN [rows EXCEPT ![req[c].id].verdict = verdict] ELSE rows
  /\ Answer(c, reloads /\ Mine(c))

(* Agents: the number alone names the row of an update; the route looks before it *)
(* deletes.                                                                  *)
CreateAgent(c) == At(c, "create", "agent") /\ NewRow(c)
PatchAgent(c) == At(c, "patch", "agent") /\ Edited(c)
LookForAgent(c) == At(c, "look", "agent") /\ Found(c, "delete")
DeleteAgent(c) == At(c, "delete", "agent") /\ Deleted(c)

(* Skills, alike: a first-party one is found and not deleted.                   *)
CreateSkill(c) == At(c, "create", "skill") /\ NewRow(c)
PatchSkill(c) == At(c, "patch", "skill") /\ Edited(c)
LookForSkill(c) == At(c, "look", "skill") /\ Found(c, "delete")
DeleteSkill(c) == At(c, "delete", "skill") /\ Deleted(c)

(* Sources and servers look and write in one transaction.                       *)
CreateSource(c) == At(c, "create", "source") /\ NewRow(c)
PatchSource(c) == At(c, "patch", "source") /\ Edited(c)
DeleteSource(c) == At(c, "delete", "source") /\ Deleted(c)
CreateServer(c) == At(c, "create", "server") /\ NewRow(c)
PatchServer(c) == At(c, "patch", "server") /\ Edited(c)
DeleteServer(c) == At(c, "delete", "server") /\ Deleted(c)

(* testDataSource(): the row is read, the provider asked outside any transaction, *)
(* and the test noted if the provider answered at all.                         *)
TestSource(c) ==
  \/ At(c, "read", "source") /\ Found(c, "note")
  \/ At(c, "note", "source") /\ Noted(c, "answered", FALSE)

(* verifyMCPConnection(), alike, but what came of it is noted either way.         *)
VerifyServer(c) ==
  \/ At(c, "read", "server") /\ Found(c, "note")
  \/ At(c, "note", "server") /\ \E verdict \in {"active", "error"} : Noted(c, verdict, TRUE)

(* After a row is created or saved the list is read again; only when it arrives does *)
(* the modal close.                                                          *)
ReadList(c) ==
  /\ req[c].pc = "reload"
  /\ Become(c, [req[c] EXCEPT !.pc = "listed"])
  /\ copy' = [copy EXCEPT ![c] = Read(c, req[c].kind)]
  /\ UNCHANGED <<rows, next, list, late, draft, slipped>>
  /\ Rest

ShowList(c) ==
  /\ req[c].pc = "listed"
  /\ Show(c, req[c].kind, copy[c])
  /\ Over(c)
  /\ UNCHANGED <<rows, next, late, slipped>>
  /\ Rest

(* The reload after a removal, alike, beside whatever the user does next.           *)
ReadLate(c) ==
  /\ late[c] # None
  /\ late[c].read = None
  /\ late' = [late EXCEPT ![c] = [kind |-> @.kind, read |-> Read(c, @.kind)]]
  /\ UNCHANGED <<rows, next, list, draft, copy, slipped, req>>
  /\ Rest

ShowLate(c) ==
  /\ HasLate(c)
  /\ Show(c, late[c].kind, late[c].read)
  /\ late' = [late EXCEPT ![c] = None]
  /\ UNCHANGED <<rows, next, draft, copy, slipped, req>>
  /\ Rest

LateFails(c) ==
  /\ late[c] # None
  /\ late' = [late EXCEPT ![c] = None]
  /\ UNCHANGED <<rows, next, list, draft, copy, slipped, req>>
  /\ Rest

(* A request fails between two of its transactions, or inside one; or the reload after *)
(* it fails, so that the list may lack what was saved.                              *)
Fail(c) ==
  /\ req[c].pc \notin {"idle", "open"}
  /\ Refused(c)
  /\ Rest

Next ==
  \E c \in Clients :
    \/ SaveModel(c) \/ FindDefault(c) \/ ClearDefaults(c) \/ WriteModel(c)
    \/ AddSkill(c) \/ CreateCustom(c) \/ Join(c) \/ Toggle(c)
    \/ \E i \in DOMAIN flights[c] : \/ Toggled(c, i) \/ ToggleFails(c, i) \/ ListSkills(c, i)
                                    \/ ShowSkills(c, i) \/ ReloadFails(c, i)
    \/ SubmitAgent(c) \/ RemoveAgent(c) \/ SubmitSkill(c) \/ RemoveSkill(c)
    \/ SourceTab(c) \/ ServerTab(c) \/ Resubmit(c) \/ Cancel(c)
    \/ CreateAgent(c) \/ PatchAgent(c) \/ LookForAgent(c) \/ DeleteAgent(c)
    \/ CreateSkill(c) \/ PatchSkill(c) \/ LookForSkill(c) \/ DeleteSkill(c)
    \/ CreateSource(c) \/ PatchSource(c) \/ DeleteSource(c) \/ TestSource(c)
    \/ CreateServer(c) \/ PatchServer(c) \/ DeleteServer(c) \/ VerifyServer(c)
    \/ ReadList(c) \/ ShowList(c) \/ ReadLate(c) \/ ShowLate(c) \/ LateFails(c)
    \/ Fail(c)

Spec == Init /\ [][Next]_vars
-----------------------------------------------------------------------------
(* A save that commits leaves a default, and one that met no other leaves one     *)
(* only, its own: nothing in the schema keeps the default unique.               *)
DefaultKept ==
  [][\A c \in Clients : req[c].pc = "write" /\ models' # models /\ req'[c] = Idle =>
       LET after == {i \in DOMAIN models'[User(c)] : models'[User(c)][i]}
           own == IF req[c].id = None THEN Len(models'[User(c)]) ELSE req[c].id
       IN  own \in after /\ (~req[c].met => after = {own})]_vars

(* Once all a client asked for is answered, its switch shows what is stored, unless  *)
(* clicks overtook each other or, after a toggle that failed, the list could not be  *)
(* read either: the switch is shown before the server has said anything.            *)
SwitchShowsStored ==
  \A c \in Clients : flights[c] = <<>> /\ c \notin crossed \cup astray => shown[c] = Stored(User(c))

(* A save sends all fields of a row as its client shows them, and undoes no edit saved *)
(* before, unless another client saved the row, the reload after an own save failed, or *)
(* a reload from before an own save arrived after it.                              *)
NoEditUndone ==
  [][\A i \in DOMAIN rows \cap DOMAIN rows' :
       rows[i].edits \subseteq rows'[i].edits \/
       \E c \in Clients : req[c].pc = "patch" /\ req[c].id = i /\ <<c, i>> \in slipped]_vars
=============================================================================
