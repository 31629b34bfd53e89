------------------------------ MODULE ChatPage ------------------------------
(***************************************************************************)
(* The chat page beside the server: what the page shows of the flow and of   *)
(* the enrichment jobs of its chat.  It learns of them in three ways that     *)
(* nothing puts in order: a first load, two WebSocket streams whose events    *)
(* are lost while they are down, and a poll every five seconds that stops      *)
(* once the page believes all is done.  The poll is answered only as long as   *)
(* the chat has no job: with one the answer holds the row's BigInt columns,    *)
(* which nothing turns into JSON, and the request ends in an error.          *)
(*                                                                         *)
(* The server is here for what it commits and publishes (EnrichmentPipeline   *)
(* has its inside).  The grid of batches, the progress bar, token counts and   *)
(* times are left out.                                                       *)
(***************************************************************************)
EXTENDS Integers, Sequences

CONSTANTS
  Polls,       \* reads of /enrich/status a page may have under way
  Outcomes,    \* bound: the verdicts that occur
  MaxJobs,     \* bound: jobs of the chat
  MaxWire,     \* bound: events under way on a stream
  MaxFaults,   \* bound: polls failed, pages reloaded
  None

ASSUME PageAssumption ==
  /\ {MaxJobs, MaxWire} \subseteq Nat \ {0}
  /\ MaxFaults \in Nat
  /\ Outcomes \subseteq {"completed", "partial", "failed"}
  /\ None \notin Nat /\ None \notin {"completed", "partial", "failed"}

VARIABLES
  flow,      \* chat_params.flow_state: data being extracted, or complete
  jobs,      \* the enrichment jobs in the order of their creation: the row's status,
             \* what has been published of the job, its SimilarWeb side
  wire,      \* the events under way on each stream
  load,      \* the page's first load
  polls,     \* its reads of /enrich/status
  view,      \* what it shows
  lost,      \* history: an event of the jobs, or what it told, is gone for this page
  faults

server == <<flow, jobs>>
page == <<load, polls, view>>
vars == <<server, wire, page, lost, faults>>

Verdicts == {"completed", "partial", "failed"}
Last == Len(jobs)

(* A job is planned, started and ended as its two events go out; a job of the  *)
(* standard kind has no SimilarWeb side.                                     *)
Stages == {"planned", "started", "ended"}
ReachSides == {"none", "idle", "fetching", "over"}
NewJob(side) == [status |-> "processing", stage |-> "planned", reach |-> side]

(* The page opens two connections: that of the chat and that of its enrichment. *)
Streams == {"session", "enrichment"}

Blank == [flow |-> "init", wired |-> FALSE, job |-> 0, kind |-> "standard", status |-> None,
          reach |-> "idle", done |-> FALSE]
NoPoll == [pc |-> "idle", first |-> FALSE]

(* A page is opened while the data is extracted or at any time after.         *)
Init ==
  /\ flow = "processing"
  /\ jobs = <<>>
  /\ wire = [s \in Streams |-> <<>>]
  /\ load = "sent"
  /\ polls = [p \in Polls |-> NoPoll]
  /\ view = Blank
  /\ lost = FALSE
  /\ faults = 0

(* A socket that is open when an event is published gets it.                  *)
Forwarded(s, e) ==
  /\ Len(wire[s]) < MaxWire
  /\ wire' = [wire EXCEPT ![s] = Append(@, e)]

(* publishChatEvent(): a stream that is down at this moment misses the event.  *)
Published(e) ==
  \/ Forwarded("enrichment", e) /\ lost' = lost
  \/ wire' = wire /\ lost' = TRUE

-----------------------------------------------------------------------------
(* The server: the data is there, and the flow is complete.                  *)
FlowCompletes ==
  /\ flow = "processing"
  /\ flow' = "complete"
  /\ Forwarded("session", [type |-> "flow"]) \/ wire' = wire
  /\ UNCHANGED <<jobs, page, lost, faults>>

(* EnrichmentAgent.plan(): the row of a job, of the handover, of POST /enrich   *)
(* (which names the kind) or of a click, while an earlier one may still run.   *)
PlanJob ==
  /\ flow = "complete"
  /\ Last < MaxJobs
  /\ \E side \in {"none", "idle"} : jobs' = Append(jobs, NewJob(side))
  /\ UNCHANGED <<flow, wire, page, lost, faults>>

(* act(): the page is told and the work is handed out.                       *)
StartJob(j) ==
  /\ jobs[j].stage = "planned"
  /\ jobs' = [jobs EXCEPT ![j].stage = "started"]
  /\ Published([type |-> "start", job |-> j])
  /\ UNCHANGED <<flow, page, faults>>

(* finalizeJob(), once all batches of the job have settled: the verdict ...    *)
Finalize(j) ==
  /\ jobs[j].stage = "started" /\ jobs[j].status = "processing"
  /\ \E verdict \in Outcomes : jobs' = [jobs EXCEPT ![j].status = verdict]
  /\ UNCHANGED <<flow, wire, page, lost, faults>>

(* ... and then its event.                                                   *)
TellEnd(j) ==
  /\ jobs[j].stage = "started" /\ jobs[j].status \in Verdicts
  /\ jobs' = [jobs EXCEPT ![j].stage = "ended"]
  /\ Published([type |-> "complete", status |-> jobs[j].status])
  /\ UNCHANGED <<flow, page, faults>>

(* SimilarWebAgent beside the batches of a reach job.                        *)
ReachStarts(j) ==
  /\ jobs[j].stage # "planned" /\ jobs[j].reach = "idle"
  /\ jobs' = [jobs EXCEPT ![j].reach = "fetching"]
  /\ Published([type |-> "reach-start"])
  /\ UNCHANGED <<flow, page, faults>>

ReachEnds(j) ==
  /\ jobs[j].reach = "fetching"
  /\ jobs' = [jobs EXCEPT ![j].reach = "over"]
  /\ Published([type |-> "reach-complete"])
  /\ UNCHANGED <<flow, page, faults>>

(* A run of the agent that throws publishes nothing more.                    *)
ReachThrows(j) ==
  /\ jobs[j].stage # "planned" /\ jobs[j].reach \in {"idle", "fetching"}
  /\ jobs' = [jobs EXCEPT ![j].reach = "over"]
  /\ UNCHANGED <<flow, wire, page, lost, faults>>
-----------------------------------------------------------------------------
(* Mutants of IsDone: a failed job is not done; one side over is enough.       *)
IsDonePositive(v) ==
  v.job # 0 /\ v.status \in {"completed", "partial"} /\ (v.kind = "reach" => v.reach = "done")
IsDoneEither(v) == v.job # 0 /\ (v.status \in Verdicts \/ v.reach = "done")

(* The page.  computeIsDone(): the job has its verdict and, if it is known to  *)
(* be a reach job, the reach side is over.                                   *)
IsDone(v) ==
  v.job # 0 /\ v.status \in Verdicts /\ (v.kind = "reach" => v.reach = "done")

Judged(v) == [v EXCEPT !.done = IsDone(v)]

(* enrichment:start keeps the kind of the job the page knows and invents       *)
(* 'standard' when it knows none, so that no page learns of another kind;      *)
(* "done" stays.                                                             *)
OnStart(v, e) == [v EXCEPT !.job = e.job, !.status = "processing"]

OnReachStart(v) == [v EXCEPT !.reach = "fetching"]
OnReachComplete(v) == Judged([v EXCEPT !.reach = "done"])

(* enrichment:complete ends whatever job is shown.                           *)
OnComplete(v, e) == IF v.job = 0 THEN v ELSE Judged([v EXCEPT !.status = e.status])

(* The handlers of useEnrichmentSession are hung on the stream when the flow   *)
(* first shows complete; before that an event finds nobody.                  *)
Handled(v, e) ==
  IF ~v.wired THEN v
  ELSE CASE e.type = "start" -> OnStart(v, e)
         [] e.type = "reach-start" -> OnReachStart(v)
         [] e.type = "reach-complete" -> OnReachComplete(v)
         [] e.type = "complete" -> OnComplete(v, e)

(* mergeSnapshot(): an answer replaces the job whatever events came since it    *)
(* was read.  Only answers without a job get here.                           *)
Merged(v) == Judged([v EXCEPT !.job = 0])

Enabled == view.flow = "complete"

Idle(p) == polls[p].pc = "idle"
Asked(p, first) == [polls EXCEPT ![p] = [NoPoll EXCEPT !.pc = "sent", !.first = first]]

(* The flow shown changes; with it the hook of the enrichment is switched on,  *)
(* which asks for a first snapshot, or off, which forgets that request.       *)
ShowFlow(f) ==
  /\ view' = [view EXCEPT !.flow = f, !.wired = @ \/ f = "complete"]
  /\ \/ /\ f = "complete" /\ ~Enabled
        /\ \/ \E p \in Polls : Idle(p) /\ polls' = Asked(p, TRUE)
           \/ (\A p \in Polls : ~Idle(p)) /\ polls' = polls
     \/ /\ f # "complete"
        /\ polls' = [p \in Polls |-> IF polls[p].first THEN NoPoll ELSE polls[p]]
     \/ f = "complete" /\ Enabled /\ polls' = polls

(* The first load reads the flow at the server ...                           *)
LoadRead ==
  /\ load = "sent"
  /\ load' = flow
  /\ UNCHANGED <<server, wire, polls, view, lost, faults>>

(* ... and is shown over what an event has brought in the meantime.           *)
LoadShown ==
  /\ load \in {"processing", "complete"}
  /\ load' = "shown"
  /\ ShowFlow(load)
  /\ UNCHANGED <<server, wire, lost, faults>>

(* ChatStream.dispatch(): the next event of the stream.                      *)
SessionEvent ==
  /\ wire["session"] # <<>>
  /\ wire' = [wire EXCEPT !["session"] = Tail(@)]
  /\ ShowFlow("complete")
  /\ UNCHANGED <<server, load, lost, faults>>

EnrichmentEvent ==
  /\ wire["enrichment"] # <<>>
  /\ wire' = [wire EXCEPT !["enrichment"] = Tail(@)]
  /\ view' = Handled(view, Head(wire["enrichment"]))
  /\ lost' = (lost \/ ~view.wired)
  /\ UNCHANGED <<server, load, polls, faults>>

(* A connection breaks, or a new access token replaces the stream: what was    *)
(* under way is lost, and scheduleReconnect() asks for nothing that was missed. *)
Drop(s) ==
  /\ wire[s] # <<>>
  /\ wire' = [wire EXCEPT ![s] = <<>>]
  /\ lost' = (lost \/ s = "enrichment")
  /\ UNCHANGED <<server, page, faults>>

Fault == faults < MaxFaults /\ faults' = faults + 1

Reload ==
  /\ Fault
  /\ wire' = [s \in Streams |-> <<>>]
  /\ load' = "sent"
  /\ polls' = [p \in Polls |-> NoPoll]
  /\ view' = Blank
  /\ lost' = (lost \/ \E j \in DOMAIN jobs : jobs[j].stage # "planned")
  /\ UNCHANGED server
-----------------------------------------------------------------------------
(* The poll every five seconds, unless the page shows the job as done.        *)
Tick(p) ==
  /\ Enabled
  /\ ~view.done
  /\ Idle(p)
  /\ polls' = Asked(p, FALSE)
  /\ UNCHANGED <<server, wire, load, view, lost, faults>>

(* getLatestJobStatus(): without a job the answer says so; with one its row     *)
(* goes into the reply as it is, and the reply cannot be written.            *)
ReadStatus(p) ==
  /\ polls[p].pc = "sent"
  /\ polls' = [polls EXCEPT ![p].pc = IF Last = 0 THEN "empty" ELSE "error"]
  /\ UNCHANGED <<server, wire, load, view, lost, faults>>

(* The answer of a chat without a job, which may have one by now.            *)
Answer(p) ==
  /\ polls[p].pc = "empty"
  /\ view' = Merged(view)
  /\ lost' = (lost \/ view.job # 0)
  /\ polls' = [polls EXCEPT ![p] = NoPoll]
  /\ UNCHANGED <<server, wire, load, faults>>

(* A read that fails is forgotten; the next tick is the retry.                *)
Forgotten(p) == polls' = [polls EXCEPT ![p] = NoPoll] /\ UNCHANGED <<server, wire, load, view, lost>>

Refused(p) == polls[p].pc = "error" /\ Forgotten(p) /\ faults' = faults
PollFails(p) == Fault /\ ~Idle(p) /\ Forgotten(p)

Poll(p) == ReadStatus(p) \/ Answer(p) \/ Refused(p)

Next ==
  \/ FlowCompletes \/ PlanJob
  \/ \E j \in DOMAIN jobs : \/ StartJob(j) \/ Finalize(j) \/ TellEnd(j)
                            \/ ReachStarts(j) \/ ReachEnds(j) \/ ReachThrows(j)
  \/ LoadRead \/ LoadShown \/ SessionEvent \/ EnrichmentEvent
  \/ \E s \in Streams : Drop(s)
  \/ Reload
  \/ \E p \in Polls : Tick(p) \/ Poll(p) \/ PollFails(p)

Spec == Init /\ [][Next]_vars

(* Timers fire and requests end, in an answer or an error.  Neither the streams nor the server's *)
(* own progress need be fair: a stream may stay down for good.                *)
Fairness ==
  /\ WF_vars(\E p \in Polls : Tick(p))
  /\ \A p \in Polls : WF_vars(Poll(p))

FairSpec == Spec /\ Fairness
-----------------------------------------------------------------------------
TypeOK ==
  /\ flow \in {"processing", "complete"}
  /\ jobs \in Seq([status : Verdicts \cup {"processing"}, stage : Stages, reach : ReachSides])
  /\ view.job \in 0..MaxJobs
  /\ lost \in BOOLEAN
  /\ faults \in 0..MaxFaults

(* The page comes to call a job done only with a verdict that a job of the chat  *)
(* has got: neither a poll answered late nor an event that finds another job     *)
(* shown invents one.  (Which job it was nobody can say: no handler looks at the *)
(* job an event names, and a job that starts does not take "done" back.)       *)
DoneWasReached ==
  [][~view.done /\ view'.done =>
       view'.status \in Verdicts /\ \E j \in DOMAIN jobs : jobs[j].status = view'.status]_vars

(* What the events are good for: when the end of every job that was started has   *)
(* been told and nothing of the stream is under way, the page shows "done",       *)
(* whatever the verdicts, however jobs and their SimilarWeb sides overlapped and  *)
(* whatever polls did meanwhile - unless an event was missed, or a read from      *)
(* before the first job, answered after a start was shown, took the job away      *)
(* again (lost).                                                            *)
AllTold ==
  /\ \E j \in DOMAIN jobs : jobs[j].stage = "ended"
  /\ \A j \in DOMAIN jobs : jobs[j].stage # "started"

ToldEndShowsDone == AllTold /\ ~lost /\ wire["enrichment"] = <<>> => view.done

(* useEnrichmentSession.ts: "Re-polls /enrich/status every 5s while we haven't   *)
(* reached the terminal state as a safety net against dropped WS frames."  On a  *)
(* page that shows the flow complete an ended job is then shown as done in the   *)
(* end, whatever events are lost.  The poll does not do that: see ReadStatus.   *)
EndedShowsDone == (Last > 0 /\ jobs[Last].stage = "ended" /\ Enabled) ~> (view.done \/ ~Enabled)
=============================================================================
