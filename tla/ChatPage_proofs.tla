--------------------------- MODULE ChatPage_proofs ---------------------------
(***************************************************************************)
(* Proofs about ChatPage, for any number of jobs, polls and events: the page   *)
(* says "done" only with a verdict that one of the chat's jobs has got, and a   *)
(* page that has missed nothing says it when all started jobs are over.       *)
(***************************************************************************)
EXTENDS ChatPage, SequenceTheorems, TLAPS

USE PageAssumption

JobStatuses == Verdicts \cup {"processing"}
JobType == [status : JobStatuses, stage : Stages, reach : ReachSides]
EventType ==
  [type : {"start"}, job : 1..MaxJobs] \cup [type : {"reach-start", "reach-complete"}]
  \cup [type : {"complete"}, status : Verdicts]
ViewType ==
  [flow : {"init", "processing", "complete"}, wired : BOOLEAN, job : 0..MaxJobs,
   kind : {"standard"}, status : JobStatuses \cup {None},
   reach : {"idle", "fetching", "done"}, done : BOOLEAN]

Carried == wire["enrichment"]

PageTyped ==
  /\ TypeOK
  /\ jobs \in Seq(JobType)
  /\ Len(jobs) <= MaxJobs
  /\ DOMAIN wire = Streams
  /\ Carried \in Seq(EventType)
  /\ view \in ViewType

(* Every verdict that is shown or under way is one that a job has got.           *)
Reached(v) == v \in Verdicts => \E j \in DOMAIN jobs : jobs[j].status = v

EventOK(e) == e.type = "complete" => Reached(e.status)

Known ==
  /\ Reached(view.status)
  /\ \A i \in 1..Len(Carried) : EventOK(Carried[i])

(* What is done is shown with its job.                                        *)
DoneHasJob == view.done => view.job # 0

PageInv == PageTyped /\ Known /\ DoneHasJob

(* A start is shown or under way; the end is shown and no start follows, or it is   *)
(* under way behind every start.                                              *)
StartAt(i) == i \in 1..Len(Carried) /\ Carried[i].type = "start"
StartKnown == view.job # 0 \/ \E i \in 1..Len(Carried) : StartAt(i)

Settled ==
  /\ view.job # 0 /\ view.status \in Verdicts /\ view.done
  /\ \A i \in 1..Len(Carried) : ~StartAt(i)

EndAt(k) ==
  /\ Carried[k].type = "complete"
  /\ view.job # 0 \/ \E i \in 1..(k - 1) : StartAt(i)
  /\ \A i \in (k + 1)..Len(Carried) : ~StartAt(i)
Coming == \E k \in 1..Len(Carried) : EndAt(k)

Started == \E j \in DOMAIN jobs : jobs[j].stage # "planned"

Told ==
  ~lost => /\ Started => StartKnown
           /\ AllTold => Settled \/ Coming

LEMMA PageInit ==
  ASSUME Init
  PROVE  PageInv /\ Told
<1>1. /\ jobs = <<>> /\ wire = [t \in Streams |-> <<>>] /\ view = Blank /\ lost = FALSE
      /\ faults = 0 /\ MaxJobs \in Nat /\ MaxFaults \in Nat /\ flow = "processing"
  BY DEF Init
<1>2. Blank \in ViewType /\ Blank.status = None /\ Blank.job = 0 /\ ~Blank.done
  BY <1>1 DEF Blank, ViewType, JobStatuses
<1>3. Carried = <<>>
  BY <1>1 DEF Carried, Streams
<1>4. None \notin Verdicts
  BY DEF Verdicts
<1>5. TypeOK
  <2>1. jobs \in Seq([status : Verdicts \cup {"processing"}, stage : Stages, reach : ReachSides])
    BY <1>1
  <2>2. view.job \in 0..MaxJobs /\ faults \in 0..MaxFaults
    BY <1>1, <1>2
  <2>3. QED
    BY <1>1, <2>1, <2>2 DEF TypeOK
<1>6. PageTyped
  BY <1>1, <1>2, <1>3, <1>5 DEF PageTyped, JobType, JobStatuses
<1>7. Known /\ DoneHasJob
  BY <1>1, <1>2, <1>3, <1>4 DEF Known, Reached, DoneHasJob
<1>8. Told
  BY <1>1 DEF Told, Started, AllTold
<1>9. QED
  BY <1>6, <1>7, <1>8 DEF PageInv

(* Events under way: one more, the first taken off, or none left.                *)
LEMMA Queues ==
  ASSUME NEW E, NEW w \in Seq(E)
  PROVE  /\ Len(w) \in Nat /\ \A i \in 1..Len(w) : w[i] \in E
         /\ \A e \in E : /\ Append(w, e) \in Seq(E) /\ Len(Append(w, e)) = Len(w) + 1
                         /\ Append(w, e)[Len(w) + 1] = e
                         /\ \A i \in 1..Len(w) : Append(w, e)[i] = w[i]
         /\ w # <<>> => /\ Tail(w) \in Seq(E) /\ Head(w) = w[1] /\ 1 \in 1..Len(w)
                        /\ Len(Tail(w)) = Len(w) - 1
                        /\ \A i \in 1..Len(Tail(w)) : i + 1 \in 1..Len(w) /\ Tail(w)[i] = w[i + 1]
OBVIOUS

(* An event goes out to the page, or is missed.                                *)
Sent(e) == DOMAIN wire' = Streams /\ Carried' = Append(Carried, e) /\ lost' = lost
Missed == wire' = wire /\ lost'

LEMMA Publishing ==
  ASSUME PageInv, NEW e, Published(e)
  PROVE  Sent(e) \/ Missed
BY DEF Published, Forwarded, Sent, Missed, PageInv, PageTyped, Carried, Streams

LEMMA OneMore ==
  ASSUME PageInv, NEW e \in EventType, Sent(e), EventOK(e)',
         \A v \in Verdicts : Reached(v) => Reached(v)'
  PROVE  /\ Carried' \in Seq(EventType)
         /\ \A i \in 1..Len(Carried') : EventOK(Carried[i])'
<1>1. Carried \in Seq(EventType) /\ Carried' = Append(Carried, e)
  BY DEF PageInv, PageTyped, Sent
<1>2. /\ Carried' \in Seq(EventType) /\ Len(Carried') = Len(Carried) + 1 /\ Len(Carried) \in Nat
      /\ Carried'[Len(Carried) + 1] = e
      /\ \A i \in 1..Len(Carried) : Carried'[i] = Carried[i]
  BY <1>1, Queues
<1>3. \A x : EventOK(x) => EventOK(x)'
  BY DEF EventOK, Reached
<1>4. ASSUME NEW i \in 1..Len(Carried')
      PROVE  EventOK(Carried[i])'
  <2>1. CASE i = Len(Carried) + 1
    BY <1>2, <2>1
  <2>2. CASE i \in 1..Len(Carried)
    BY <1>2, <1>3, <2>2 DEF PageInv, Known
  <2>3. QED
    BY <1>2, <2>1, <2>2
<1>5. QED
  BY <1>2, <1>4

(* A step of the server: no verdict is taken back, and at most one event goes out.  *)
LEMMA ServerStep ==
  ASSUME PageInv, TypeOK', jobs' \in Seq(JobType), Len(jobs') <= MaxJobs, view' = view,
         \A v \in Verdicts : Reached(v) => Reached(v)',
         \/ DOMAIN wire' = Streams /\ Carried' = Carried
         \/ \E e \in EventType : (Sent(e) \/ Missed) /\ EventOK(e)'
  PROVE  PageInv'
<1>1. \A x : EventOK(x) => EventOK(x)'
  BY DEF EventOK, Reached
<1>2. /\ DOMAIN wire' = Streams /\ Carried' \in Seq(EventType)
      /\ \A i \in 1..Len(Carried') : EventOK(Carried[i])'
  <2>1. CASE DOMAIN wire' = Streams /\ Carried' = Carried
    BY <1>1, <2>1 DEF PageInv, PageTyped, Known
  <2>2. CASE Missed
    BY <1>1, <2>2 DEF PageInv, PageTyped, Known, Missed, Carried
  <2>3. CASE \E e \in EventType : Sent(e) /\ EventOK(e)'
    BY <2>3, OneMore DEF Sent
  <2>4. QED
    BY <2>1, <2>2, <2>3
<1>3. PageTyped'
  BY <1>2 DEF PageInv, PageTyped
<1>4. Known' /\ DoneHasJob'
  BY <1>2 DEF PageInv, Known, DoneHasJob, Reached
<1>5. QED
  BY <1>3, <1>4 DEF PageInv

(* What a page has been told, while the server acts: nothing new, a start, ...      *)
LEMMA ToldKept ==
  ASSUME PageInv, Told, view' = view, lost' = lost \/ lost', Carried' = Carried \/ lost',
         Started' => Started, AllTold' => AllTold
  PROVE  Told'
BY DEF Told, StartKnown, StartAt, Settled, Coming, EndAt

LEMMA ToldEvent ==
  ASSUME PageInv, Told, view' = view,
         NEW e \in EventType, Sent(e) \/ Missed,
         \/ e.type = "start" /\ ~AllTold'
         \/ e.type = "complete" /\ Started
         \/ /\ e.type \in {"reach-start", "reach-complete"}
            /\ (Started' => Started) /\ (AllTold' => AllTold)
  PROVE  Told'
<1>1. Carried \in Seq(EventType)
  BY DEF PageInv, PageTyped
<1>2. CASE Missed
  BY <1>2 DEF Missed, Told
<1>3. CASE Sent(e) /\ ~lost
  <2>0. PICK n \in Nat : n = Len(Carried)
    BY <1>1
  <2>1. /\ Len(Carried') = n + 1 /\ Carried'[n + 1] = e
        /\ \A i \in 1..n : Carried'[i] = Carried[i]
    BY <1>1, <1>3, <2>0, Queues DEF Sent
  <2>2. \A i \in 1..n : i \in 1..Len(Carried') /\ (StartAt(i)' <=> StartAt(i))
    BY <2>0, <2>1 DEF StartAt
  <2>3. /\ n + 1 \in 1..Len(Carried') /\ (StartAt(n + 1)' <=> e.type = "start")
        /\ \A i \in 1..Len(Carried') : i \in 1..n \/ i = n + 1
    BY <2>1 DEF StartAt
  <2>4. StartKnown => StartKnown'
    BY <2>0, <2>2 DEF StartKnown
  <2>5. CASE e.type = "start" /\ ~AllTold'
    <3>1. StartKnown'
      BY <2>3, <2>5 DEF StartKnown
    <3>2. QED
      BY <2>5, <3>1 DEF Told
  <2>6. CASE e.type = "complete" /\ Started
    <3>1. StartKnown
      BY <1>3, <2>6 DEF Told
    <3>2. view.job # 0 \/ \E i \in 1..n : StartAt(i)'
      BY <2>0, <2>2, <3>1 DEF StartKnown
    <3>3. EndAt(n + 1)'
      <4>1. n + 1 - 1 = n /\ \A i \in (n + 1 + 1)..Len(Carried') : FALSE
        BY <2>1
      <4>2. QED
        BY <2>1, <2>6, <3>2, <4>1 DEF EndAt
    <3>4. Coming'
      BY <2>3, <3>3 DEF Coming
    <3>5. QED
      BY <2>4, <3>1, <3>4 DEF Told
  <2>7. CASE /\ e.type \in {"reach-start", "reach-complete"}
             /\ (Started' => Started) /\ (AllTold' => AllTold)
    <3>1. ~StartAt(n + 1)' /\ (Started' => StartKnown')
      BY <1>3, <2>3, <2>4, <2>7 DEF Told
    <3>2. Settled => Settled'
      BY <2>0, <2>2, <2>3, <3>1 DEF Settled
    <3>3. Coming => Coming'
      <4>1. SUFFICES ASSUME NEW k \in 1..n, EndAt(k)
                     PROVE  Coming'
        BY <2>0 DEF Coming
      <4>2. Carried'[k].type = "complete" /\ k \in 1..Len(Carried')
        BY <2>1, <2>2, <4>1 DEF EndAt
      <4>3. view.job # 0 \/ \E i \in 1..(k - 1) : StartAt(i)'
        <5>1. \A i \in 1..(k - 1) : i \in 1..n
          BY <2>1
        <5>2. QED
          BY <2>2, <4>1, <5>1 DEF EndAt
      <4>4. \A i \in (k + 1)..Len(Carried') : ~StartAt(i)'
        <5>1. \A i \in (k + 1)..Len(Carried') : i = n + 1 \/ (i \in (k + 1)..n /\ i \in 1..n)
          BY <2>1
        <5>2. QED
          BY <2>0, <2>2, <3>1, <4>1, <5>1 DEF EndAt
      <4>5. EndAt(k)'
        BY <4>2, <4>3, <4>4 DEF EndAt
      <4>6. QED
        BY <4>2, <4>5 DEF Coming
    <3>4. QED
      BY <1>3, <2>7, <3>1, <3>2, <3>3 DEF Told
  <2>8. QED
    BY <2>5, <2>6, <2>7
<1>4. CASE Sent(e) /\ lost
  BY <1>4 DEF Sent, Told
<1>5. QED
  BY <1>2, <1>3, <1>4
-----------------------------------------------------------------------------
(* One job's record is replaced; its verdict, if it has one, stays.                *)
LEMMA OneJob ==
  ASSUME PageInv, NEW j \in DOMAIN jobs, NEW r \in JobType,
         jobs' = [jobs EXCEPT ![j] = r],
         jobs[j].status \in Verdicts => r.status = jobs[j].status
  PROVE  /\ jobs' \in Seq(JobType) /\ Len(jobs') = Len(jobs) /\ DOMAIN jobs' = DOMAIN jobs
         /\ jobs'[j] = r /\ \A k \in DOMAIN jobs : k # j => jobs'[k] = jobs[k]
         /\ \A v \in Verdicts : Reached(v) => Reached(v)'
<1>1. jobs \in Seq(JobType)
  BY DEF PageInv, PageTyped
<1>2. /\ jobs' \in Seq(JobType) /\ Len(jobs') = Len(jobs) /\ DOMAIN jobs' = DOMAIN jobs
      /\ jobs'[j] = r /\ \A k \in DOMAIN jobs : k # j => jobs'[k] = jobs[k]
  BY <1>1
<1>3. ASSUME NEW v \in Verdicts, NEW k \in DOMAIN jobs, jobs[k].status = v
      PROVE  jobs'[k].status = v
  BY <1>2, <1>3
<1>4. \A v \in Verdicts : Reached(v) => Reached(v)'
  BY <1>2, <1>3 DEF Reached
<1>5. QED
  BY <1>2, <1>4

LEMMA PageFlowCompletes ==
  ASSUME PageInv, Told, FlowCompletes
  PROVE  PageInv' /\ Told'
<1>1. flow' = "complete" /\ UNCHANGED <<jobs, view, lost, faults>>
  BY DEF FlowCompletes, page
<1>2. DOMAIN wire' = Streams /\ Carried' = Carried
  <2>1. wire' = wire \/ \E e : wire' = [wire EXCEPT !["session"] = e]
    BY DEF FlowCompletes, Forwarded
  <2>2. QED
    BY <2>1 DEF PageInv, PageTyped, Carried, Streams
<1>3. TypeOK' /\ jobs' \in Seq(JobType) /\ Len(jobs') <= MaxJobs
  BY <1>1 DEF PageInv, PageTyped, TypeOK
<1>4. \A v : Reached(v) => Reached(v)'
  BY <1>1 DEF Reached
<1>5. PageInv'
  BY <1>1, <1>2, <1>3, <1>4, ServerStep
<1>6. (Started' => Started) /\ (AllTold' => AllTold)
  BY <1>1 DEF Started, AllTold
<1>7. QED
  BY <1>1, <1>2, <1>5, <1>6, ToldKept

LEMMA PagePlanJob ==
  ASSUME PageInv, Told, PlanJob
  PROVE  PageInv' /\ Told'
<1>1. PICK side \in {"none", "idle"} : jobs' = Append(jobs, NewJob(side))
  BY DEF PlanJob
<1>2. Len(jobs) < MaxJobs /\ UNCHANGED <<flow, wire, view, lost, faults>>
  BY DEF PlanJob, page, Last
<1>3. /\ NewJob(side) \in JobType /\ NewJob(side).stage = "planned"
      /\ NewJob(side).status = "processing"
  BY DEF NewJob, JobType, JobStatuses, Stages, ReachSides
<1>4. PICK r \in JobType : r = NewJob(side)
  BY <1>3
<1>5. jobs \in Seq(JobType) /\ MaxJobs \in Nat /\ jobs' = Append(jobs, r)
  BY <1>1, <1>4 DEF PageInv, PageTyped
<1>6. /\ jobs' \in Seq(JobType) /\ Len(jobs') <= MaxJobs
      /\ \A j \in DOMAIN jobs : j \in DOMAIN jobs' /\ jobs'[j] = jobs[j]
      /\ \A j \in DOMAIN jobs' : j \in DOMAIN jobs \/ jobs'[j] = r
  BY <1>2, <1>5
<1>7. TypeOK'
  BY <1>2, <1>6 DEF PageInv, PageTyped, TypeOK, JobType, JobStatuses
<1>8. \A v : Reached(v) => Reached(v)'
  <2>1. ASSUME NEW v, NEW j \in DOMAIN jobs, jobs[j].status = v
        PROVE  \E k \in DOMAIN jobs' : jobs'[k].status = v
    BY <1>6, <2>1
  <2>2. QED
    BY <2>1 DEF Reached
<1>9. PageInv'
  BY <1>2, <1>6, <1>7, <1>8, ServerStep DEF PageInv, PageTyped, Carried
<1>10. Started' => Started
  BY <1>3, <1>4, <1>6 DEF Started
<1>11. AllTold' => AllTold
  <2>1. ASSUME AllTold'
        PROVE  AllTold
    <3>1. PICK j \in DOMAIN jobs' : jobs'[j].stage = "ended"
      BY <2>1 DEF AllTold
    <3>2. j \in DOMAIN jobs /\ jobs[j].stage = "ended"
      BY <1>3, <1>4, <1>6, <3>1
    <3>3. \A k \in DOMAIN jobs : jobs[k].stage # "started"
      BY <1>6, <2>1 DEF AllTold
    <3>4. QED
      BY <3>2, <3>3 DEF AllTold
  <2>2. QED
    BY <2>1
<1>12. QED
  BY <1>2, <1>9, <1>10, <1>11, ToldKept DEF Carried

LEMMA PageStartJob ==
  ASSUME PageInv, Told, NEW j \in DOMAIN jobs, StartJob(j)
  PROVE  PageInv' /\ Told'
<1>1. /\ jobs' = [jobs EXCEPT ![j].stage = "started"]
      /\ Published([type |-> "start", job |-> j])
      /\ UNCHANGED <<flow, view, faults>>
  BY DEF StartJob, page
<1>2. jobs \in Seq(JobType) /\ Len(jobs) <= MaxJobs /\ MaxJobs \in Nat /\ jobs[j] \in JobType
  BY DEF PageInv, PageTyped
<1>3. PICK r : r = [jobs[j] EXCEPT !.stage = "started"]
  OBVIOUS
<1>4. /\ r \in JobType /\ r.status = jobs[j].status /\ r.stage = "started"
      /\ jobs' = [jobs EXCEPT ![j] = r]
  BY <1>1, <1>2, <1>3 DEF JobType, Stages
<1>5. /\ jobs' \in Seq(JobType) /\ Len(jobs') = Len(jobs) /\ DOMAIN jobs' = DOMAIN jobs
      /\ jobs'[j] = r /\ \A v \in Verdicts : Reached(v) => Reached(v)'
  BY <1>4, OneJob
<1>6. TypeOK'
  BY <1>1, <1>5, Publishing DEF PageInv, PageTyped, TypeOK, JobType, JobStatuses, Published
<1>7. PICK e : e = [type |-> "start", job |-> j]
  OBVIOUS
<1>8. e \in EventType /\ e.type = "start" /\ (Sent(e) \/ Missed)
  <2>1. j \in 1..MaxJobs
    BY <1>2
  <2>2. QED
    BY <1>1, <1>7, <2>1, Publishing DEF EventType
<1>9. PageInv'
  BY <1>1, <1>2, <1>5, <1>6, <1>8, ServerStep DEF EventOK
<1>10. ~AllTold'
  BY <1>4, <1>5 DEF AllTold
<1>11. QED
  BY <1>1, <1>8, <1>9, <1>10, ToldEvent

LEMMA PageFinalize ==
  ASSUME PageInv, Told, NEW j \in DOMAIN jobs, Finalize(j)
  PROVE  PageInv' /\ Told'
<1>1. PICK verdict \in Verdicts : jobs' = [jobs EXCEPT ![j].status = verdict]
  BY DEF Finalize, Verdicts
<1>2. jobs[j].status = "processing" /\ UNCHANGED <<flow, wire, view, lost, faults>>
  BY DEF Finalize, page
<1>3. jobs \in Seq(JobType) /\ Len(jobs) <= MaxJobs /\ jobs[j] \in JobType
  BY DEF PageInv, PageTyped
<1>4. PICK r : r = [jobs[j] EXCEPT !.status = verdict]
  OBVIOUS
<1>5. /\ r \in JobType /\ r.stage = jobs[j].stage
      /\ jobs' = [jobs EXCEPT ![j] = r]
  BY <1>1, <1>3, <1>4 DEF JobType, JobStatuses
<1>6. /\ jobs' \in Seq(JobType) /\ Len(jobs') = Len(jobs) /\ DOMAIN jobs' = DOMAIN jobs
      /\ jobs'[j] = r /\ \A k \in DOMAIN jobs : k # j => jobs'[k] = jobs[k]
      /\ \A v \in Verdicts : Reached(v) => Reached(v)'
  BY <1>2, <1>5, OneJob DEF Verdicts
<1>7. TypeOK'
  BY <1>2, <1>6 DEF PageInv, PageTyped, TypeOK, JobType, JobStatuses
<1>8. PageInv'
  BY <1>2, <1>3, <1>6, <1>7, ServerStep DEF PageInv, PageTyped, Carried
<1>9. \A k \in DOMAIN jobs : jobs'[k].stage = jobs[k].stage
  BY <1>5, <1>6
<1>10. (Started' => Started) /\ (AllTold' => AllTold)
  BY <1>6, <1>9 DEF Started, AllTold
<1>11. QED
  BY <1>2, <1>8, <1>10, ToldKept DEF Carried

LEMMA PageTellEnd ==
  ASSUME PageInv, Told, NEW j \in DOMAIN jobs, TellEnd(j)
  PROVE  PageInv' /\ Told'
<1>1. /\ jobs' = [jobs EXCEPT ![j].stage = "ended"]
      /\ Published([type |-> "complete", status |-> jobs[j].status])
      /\ UNCHANGED <<flow, view, faults>>
      /\ jobs[j].stage = "started" /\ jobs[j].status \in Verdicts
  BY DEF TellEnd, page
<1>2. jobs \in Seq(JobType) /\ Len(jobs) <= MaxJobs /\ jobs[j] \in JobType
  BY DEF PageInv, PageTyped
<1>3. PICK r : r = [jobs[j] EXCEPT !.stage = "ended"]
  OBVIOUS
<1>4. /\ r \in JobType /\ r.status = jobs[j].status /\ r.stage = "ended"
      /\ jobs' = [jobs EXCEPT ![j] = r]
  BY <1>1, <1>2, <1>3 DEF JobType, Stages
<1>5. /\ jobs' \in Seq(JobType) /\ Len(jobs') = Len(jobs) /\ DOMAIN jobs' = DOMAIN jobs
      /\ jobs'[j] = r /\ \A v \in Verdicts : Reached(v) => Reached(v)'
  BY <1>4, OneJob
<1>6. TypeOK'
  BY <1>1, <1>5 DEF PageInv, PageTyped, TypeOK, JobType, JobStatuses, Published
<1>7. PICK e : e = [type |-> "complete", status |-> jobs[j].status]
  OBVIOUS
<1>8. e \in EventType /\ e.type = "complete" /\ (Sent(e) \/ Missed)
  BY <1>1, <1>7, Publishing DEF EventType
<1>9. EventOK(e)'
  <2>1. e.status = jobs'[j].status
    BY <1>4, <1>5, <1>7
  <2>2. QED
    BY <1>5, <2>1 DEF EventOK, Reached
<1>10. PageInv'
  BY <1>1, <1>2, <1>5, <1>6, <1>8, <1>9, ServerStep
<1>11. Started
  BY <1>1 DEF Started
<1>12. QED
  BY <1>1, <1>8, <1>10, <1>11, ToldEvent

LEMMA PageReach ==
  ASSUME PageInv, Told, NEW j \in DOMAIN jobs,
         ReachStarts(j) \/ ReachEnds(j) \/ ReachThrows(j)
  PROVE  PageInv' /\ Told'
<1>1. PICK side \in {"fetching", "over"} : jobs' = [jobs EXCEPT ![j].reach = side]
  BY DEF ReachStarts, ReachEnds, ReachThrows
<1>2. UNCHANGED <<flow, view, faults>>
  BY DEF ReachStarts, ReachEnds, ReachThrows, page
<1>3. jobs \in Seq(JobType) /\ Len(jobs) <= MaxJobs /\ jobs[j] \in JobType
  BY DEF PageInv, PageTyped
<1>4. PICK r : r = [jobs[j] EXCEPT !.reach = side]
  OBVIOUS
<1>5. /\ r \in JobType /\ r.status = jobs[j].status /\ r.stage = jobs[j].stage
      /\ jobs' = [jobs EXCEPT ![j] = r]
  BY <1>1, <1>3, <1>4 DEF JobType, ReachSides
<1>6. /\ jobs' \in Seq(JobType) /\ Len(jobs') = Len(jobs) /\ DOMAIN jobs' = DOMAIN jobs
      /\ jobs'[j] = r /\ \A k \in DOMAIN jobs : k # j => jobs'[k] = jobs[k]
      /\ \A v \in Verdicts : Reached(v) => Reached(v)'
  BY <1>5, OneJob
<1>7. \A k \in DOMAIN jobs : jobs'[k].stage = jobs[k].stage
  BY <1>5, <1>6
<1>8. (Started' => Started) /\ (AllTold' => AllTold)
  BY <1>6, <1>7 DEF Started, AllTold
<1>9. lost' \in BOOLEAN
  BY DEF ReachStarts, ReachEnds, ReachThrows, Published, PageInv, PageTyped, TypeOK
<1>10. TypeOK'
  BY <1>2, <1>6, <1>9 DEF PageInv, PageTyped, TypeOK, JobType, JobStatuses
<1>11. CASE ReachThrows(j)
  <2>1. UNCHANGED <<wire, lost>>
    BY <1>11 DEF ReachThrows
  <2>2. PageInv'
    BY <1>2, <1>3, <1>6, <1>10, <2>1, ServerStep DEF PageInv, PageTyped, Carried
  <2>3. QED
    BY <1>2, <1>8, <2>1, <2>2, ToldKept DEF Carried
<1>12. CASE ReachStarts(j) \/ ReachEnds(j)
  <2>1. PICK type \in {"reach-start", "reach-complete"} : Published([type |-> type])
    BY <1>12 DEF ReachStarts, ReachEnds
  <2>2. PICK e : e = [type |-> type]
    OBVIOUS
  <2>3. e \in EventType /\ e.type = type /\ (Sent(e) \/ Missed)
    BY <2>1, <2>2, Publishing DEF EventType
  <2>4. PageInv'
    BY <1>2, <1>3, <1>6, <1>10, <2>3, ServerStep DEF EventOK
  <2>5. QED
    BY <1>2, <1>8, <2>3, <2>4, ToldEvent
<1>13. QED
  BY <1>11, <1>12
-----------------------------------------------------------------------------
(* A step of the page: it shows what is known, and calls nothing done but by a verdict  *)
(* it then shows.                                                             *)
Shows(v) ==
  /\ v \in ViewType
  /\ Reached(v.status)
  /\ v.done => v.job # 0
  /\ ~view.done /\ v.done => v.status \in Verdicts

PageStep == Shows(view')

LEMMA ClientStep ==
  ASSUME PageInv, PageStep, UNCHANGED server, faults' \in 0..MaxFaults, lost' \in BOOLEAN,
         DOMAIN wire' = Streams,
         Carried' \in {<<>>, Carried} \/ (Carried # <<>> /\ Carried' = Tail(Carried))
  PROVE  PageInv'
<1>1. \A v : Reached(v) => Reached(v)'
  BY DEF Reached, server
<1>2. Carried \in Seq(EventType)
  BY DEF PageInv, PageTyped
<1>3. /\ Carried' \in Seq(EventType)
      /\ \A i \in 1..Len(Carried') :
           \E k \in 1..Len(Carried) : Carried'[i] = Carried[k]
  <2>1. CASE Carried' = <<>>
    BY <2>1
  <2>2. CASE Carried' = Carried
    BY <1>2, <2>2
  <2>3. CASE Carried # <<>> /\ Carried' = Tail(Carried)
    BY <1>2, <2>3, Queues
  <2>4. QED
    BY <2>1, <2>2, <2>3
<1>4. view'.job \in 0..MaxJobs
  BY DEF PageStep, Shows, ViewType
<1>5. PageTyped'
  BY <1>3, <1>4 DEF PageInv, PageTyped, TypeOK, PageStep, Shows, server
<1>6. Known'
  <2>1. Reached(view.status)'
    BY <1>1 DEF PageStep, Shows
  <2>2. \A i \in 1..Len(Carried') : \A e : e = Carried'[i] => EventOK(e)'
    BY <1>1, <1>3 DEF PageInv, Known, EventOK
  <2>3. QED
    BY <2>1, <2>2 DEF Known
<1>7. DoneHasJob'
  BY DEF DoneHasJob, PageStep, Shows
<1>8. QED
  BY <1>5, <1>6, <1>7 DEF PageInv

(* What the streams do under a step of the page.                                *)
LEMMA PageActs ==
  ASSUME PageInv, PageStep, UNCHANGED server, faults' \in 0..MaxFaults, lost' \in BOOLEAN,
         \/ wire' = wire
         \/ wire' = [t \in Streams |-> <<>>]
         \/ \E t \in Streams : wire' = [wire EXCEPT ![t] = <<>>]
         \/ \E t \in Streams : wire[t] # <<>> /\ wire' = [wire EXCEPT ![t] = Tail(@)]
  PROVE  PageInv'
<1>1. DOMAIN wire = Streams /\ "enrichment" \in Streams
  BY DEF PageInv, PageTyped, Streams
<1>2. /\ DOMAIN wire' = Streams
      /\ Carried' \in {<<>>, Carried} \/ (Carried # <<>> /\ Carried' = Tail(Carried))
  <2>1. CASE wire' = wire \/ wire' = [t \in Streams |-> <<>>]
    BY <1>1, <2>1 DEF Carried
  <2>2. CASE \E t \in Streams : wire' = [wire EXCEPT ![t] = <<>>]
    BY <1>1, <2>2 DEF Carried
  <2>3. CASE \E t \in Streams : wire[t] # <<>> /\ wire' = [wire EXCEPT ![t] = Tail(@)]
    BY <1>1, <2>3 DEF Carried
  <2>4. QED
    BY <2>1, <2>2, <2>3
<1>3. QED
  BY <1>2, ClientStep

(* computeIsDone() calls a job done by its verdict alone, as no page knows of      *)
(* another kind than 'standard'.                                              *)
LEMMA JudgedShows ==
  ASSUME NEW v \in ViewType, Reached(v.status)
  PROVE  /\ Shows(Judged(v))
         /\ Judged(v).job = v.job /\ Judged(v).status = v.status
         /\ Judged(v).done <=> v.job # 0 /\ v.status \in Verdicts
<1>1. IsDone(v) \in BOOLEAN /\ (IsDone(v) <=> v.job # 0 /\ v.status \in Verdicts)
  BY DEF IsDone, ViewType
<1>2. PICK done \in BOOLEAN : done = IsDone(v)
  BY <1>1
<1>3. Judged(v) = [v EXCEPT !.done = done] /\ (done <=> v.job # 0 /\ v.status \in Verdicts)
  BY <1>1, <1>2 DEF Judged
<1>4. Judged(v) \in ViewType
  BY <1>3 DEF ViewType
<1>5. Judged(v).status = v.status /\ Judged(v).done = done /\ Judged(v).job = v.job
  BY <1>3 DEF ViewType
<1>6. QED
  BY <1>3, <1>4, <1>5 DEF Shows

(* What an event does to a page that listens.                                   *)
Follows(v, e) ==
  /\ Shows(v)
  /\ view.job # 0 \/ e.type = "start" => v.job # 0
  /\ v.job # 0 /\ e.type = "complete" => v.status \in Verdicts /\ v.done
  /\ e.type \in {"reach-start", "reach-complete"} =>
       v.status = view.status /\ v.job = view.job
       /\ (view.job # 0 /\ view.status \in Verdicts /\ view.done => v.done)

LEMMA HandledFollows ==
  ASSUME PageInv, view.wired, NEW e \in EventType, EventOK(e)
  PROVE  Follows(Handled(view, e), e)
<1>1. view \in ViewType /\ Reached(view.status) /\ Shows(view)
  BY DEF PageInv, PageTyped, Known, Shows, DoneHasJob
<1>2. CASE e.type = "start"
  <2>1. e.job \in 0..MaxJobs /\ e.job # 0
    BY <1>2 DEF EventType
  <2>2. PICK v : v = [view EXCEPT !.job = e.job, !.status = "processing"]
    OBVIOUS
  <2>3. Handled(view, e) = v
    BY <1>2, <2>2 DEF Handled, OnStart
  <2>4. v \in ViewType /\ v.status = "processing" /\ v.job = e.job /\ v.done = view.done
    BY <1>1, <2>1, <2>2 DEF ViewType, JobStatuses
  <2>5. Shows(v)
    BY <2>1, <2>4 DEF Shows, Reached, Verdicts
  <2>6. QED
    BY <1>2, <2>1, <2>3, <2>4, <2>5 DEF Follows
<1>3. CASE e.type = "reach-start"
  <2>1. PICK v : v = [view EXCEPT !.reach = "fetching"]
    OBVIOUS
  <2>2. Handled(view, e) = v
    BY <1>3, <2>1 DEF Handled, OnReachStart
  <2>3. v \in ViewType /\ v.status = view.status /\ v.job = view.job /\ v.done = view.done
    BY <1>1, <2>1 DEF ViewType
  <2>4. Shows(v)
    BY <1>1, <2>3 DEF Shows
  <2>5. QED
    BY <1>3, <2>2, <2>3, <2>4 DEF Follows
<1>4. CASE e.type = "reach-complete"
  <2>1. PICK v : v = [view EXCEPT !.reach = "done"]
    OBVIOUS
  <2>2. Handled(view, e) = Judged(v)
    BY <1>4, <2>1 DEF Handled, OnReachComplete
  <2>3. v \in ViewType /\ v.status = view.status /\ v.job = view.job
    BY <1>1, <2>1 DEF ViewType
  <2>4. /\ Shows(Judged(v)) /\ Judged(v).job = v.job /\ Judged(v).status = v.status
        /\ Judged(v).done <=> v.job # 0 /\ v.status \in Verdicts
    BY <1>1, <2>3, JudgedShows
  <2>5. QED
    BY <1>4, <2>2, <2>3, <2>4 DEF Follows
<1>5. CASE e.type = "complete"
  <2>1. e.status \in Verdicts /\ Reached(e.status)
    BY <1>5 DEF EventType, EventOK
  <2>2. CASE view.job = 0
    <3>1. Handled(view, e) = view
      BY <1>5, <2>2 DEF Handled, OnComplete
    <3>2. QED
      BY <1>1, <1>5, <2>2, <3>1 DEF Follows
  <2>3. CASE view.job # 0
    <3>1. PICK v : v = [view EXCEPT !.status = e.status]
      OBVIOUS
    <3>2. Handled(view, e) = Judged(v)
      BY <1>5, <2>3, <3>1 DEF Handled, OnComplete
    <3>3. v \in ViewType /\ v.status = e.status /\ v.job = view.job
      BY <1>1, <2>1, <3>1 DEF ViewType, JobStatuses
    <3>4. /\ Shows(Judged(v)) /\ Judged(v).job = v.job /\ Judged(v).status = v.status
          /\ Judged(v).done <=> v.job # 0 /\ v.status \in Verdicts
      BY <2>1, <3>3, JudgedShows
    <3>5. QED
      BY <1>5, <2>1, <2>3, <3>2, <3>3, <3>4 DEF Follows
  <2>4. QED
    BY <2>2, <2>3
<1>6. QED
  BY <1>2, <1>3, <1>4, <1>5 DEF EventType

(* An event handled: what was to come has come a place nearer, or is shown.         *)
LEMMA EventTold ==
  ASSUME PageInv, Told, view.wired, Carried # <<>>, Carried' = Tail(Carried),
         Follows(view', Head(Carried)), UNCHANGED <<jobs, lost>>
  PROVE  Told'
<1>1. Carried \in Seq(EventType)
  BY DEF PageInv, PageTyped
<1>2. PICK n \in Nat : n = Len(Carried)
  BY <1>1
<1>3. PICK e \in EventType : e = Head(Carried)
  BY <1>1, Queues
<1>4. /\ 1 \in 1..n /\ Carried[1] = e /\ Len(Carried') = n - 1
      /\ \A i \in 1..(n - 1) : i + 1 \in 1..n /\ Carried'[i] = Carried[i + 1]
  BY <1>1, <1>2, <1>3, Queues
<1>5. ASSUME NEW i \in 2..n
      PROVE  i - 1 \in 1..Len(Carried') /\ Carried'[i - 1] = Carried[i]
  <2>1. i - 1 \in 1..(n - 1) /\ i - 1 + 1 = i
    OBVIOUS
  <2>2. QED
    BY <1>4, <2>1
<1>6. \A i \in 1..n : i = 1 \/ i \in 2..n
  OBVIOUS
<1>7. /\ view.job # 0 \/ e.type = "start" => view'.job # 0
      /\ view'.job # 0 /\ e.type = "complete" => view'.status \in Verdicts /\ view'.done
      /\ e.type \in {"reach-start", "reach-complete"} =>
           view'.status = view.status /\ view'.job = view.job
           /\ (view.job # 0 /\ view.status \in Verdicts /\ view.done => view'.done)
  BY <1>3 DEF Follows
<1>8. StartKnown => StartKnown'
  <2>1. CASE view.job # 0
    BY <1>7, <2>1 DEF StartKnown
  <2>2. CASE \E i \in 1..n : StartAt(i)
    <3>1. PICK i \in 1..n : StartAt(i)
      BY <2>2
    <3>2. CASE i = 1
      BY <1>4, <1>7, <3>1, <3>2 DEF StartAt, StartKnown
    <3>3. CASE i \in 2..n
      <4>1. i - 1 \in 1..Len(Carried') /\ Carried'[i - 1].type = "start"
        BY <1>5, <3>1, <3>3 DEF StartAt
      <4>2. QED
        BY <4>1 DEF StartAt, StartKnown
    <3>4. QED
      BY <1>6, <3>2, <3>3
  <2>3. QED
    BY <1>2, <2>1, <2>2 DEF StartKnown
(* No start stands behind position k of the shortened queue, if none did behind k + 1. *)
<1>9. ASSUME NEW k \in 1..n, \A i \in (k + 1)..n : ~StartAt(i)
      PROVE  \A i \in k..Len(Carried') : ~(Carried'[i].type = "start")
  <2>1. SUFFICES ASSUME NEW i \in k..(n - 1)
                 PROVE  ~(Carried'[i].type = "start")
    BY <1>4
  <2>2. i \in 1..(n - 1) /\ i + 1 \in (k + 1)..n
    OBVIOUS
  <2>3. Carried'[i] = Carried[i + 1] /\ i + 1 \in 1..n
    BY <1>4, <2>2
  <2>4. QED
    BY <1>2, <1>9, <2>2, <2>3 DEF StartAt
<1>10. Settled => Settled'
  <2>1. SUFFICES ASSUME Settled
                 PROVE  Settled'
    OBVIOUS
  <2>2. /\ view.job # 0 /\ view.status \in Verdicts /\ view.done
        /\ \A i \in 1..n : ~StartAt(i)
    BY <1>2, <2>1 DEF Settled
  <2>3. e.type # "start"
    BY <1>2, <1>4, <2>2 DEF StartAt
  <2>4. view'.job # 0 /\ view'.status \in Verdicts /\ view'.done
    BY <1>7, <2>2, <2>3 DEF EventType
  <2>5. \A i \in 1..Len(Carried') : ~(Carried'[i].type = "start")
    <3>1. \A i \in (1 + 1)..n : i \in 1..n
      OBVIOUS
    <3>2. QED
      BY <1>4, <1>9, <2>2, <3>1
  <2>6. QED
    BY <2>4, <2>5 DEF Settled, StartAt
<1>11. Coming => Settled' \/ Coming'
  <2>1. SUFFICES ASSUME NEW k \in 1..n, EndAt(k)
                 PROVE  Settled' \/ Coming'
    BY <1>2 DEF Coming
  <2>2. /\ Carried[k].type = "complete"
        /\ view.job # 0 \/ \E i \in 1..(k - 1) : StartAt(i)
        /\ \A i \in (k + 1)..n : ~StartAt(i)
    BY <1>2, <2>1 DEF EndAt
  <2>3. \A i \in k..Len(Carried') : ~(Carried'[i].type = "start")
    BY <1>9, <2>2
  <2>4. CASE k = 1
    <3>1. view.job # 0 /\ e.type = "complete"
      <4>1. ~ \E i \in 1..(1 - 1) : StartAt(i)
        OBVIOUS
      <4>2. QED
        BY <1>4, <2>2, <2>4, <4>1
    <3>2. view'.job # 0 /\ view'.status \in Verdicts /\ view'.done
      BY <1>7, <3>1
    <3>3. \A i \in 1..Len(Carried') : ~StartAt(i)'
      BY <2>3, <2>4 DEF StartAt
    <3>4. QED
      BY <3>2, <3>3 DEF Settled
  <2>5. CASE k \in 2..n
    <3>1. k - 1 \in 1..Len(Carried') /\ Carried'[k - 1].type = "complete"
      BY <1>5, <2>2, <2>5
    <3>2. view'.job # 0 \/ \E i \in 1..(k - 1 - 1) : StartAt(i)'
      <4>1. CASE view.job # 0
        BY <1>7, <4>1
      <4>2. CASE \E i \in 1..(k - 1) : StartAt(i)
        <5>1. PICK i \in 1..(k - 1) : StartAt(i)
          BY <4>2
        <5>2. CASE i = 1
          BY <1>4, <1>7, <5>1, <5>2 DEF StartAt
        <5>3. CASE i # 1
          <6>1. i \in 2..n /\ i - 1 \in 1..(k - 1 - 1)
            BY <5>1, <5>3
          <6>2. i - 1 \in 1..Len(Carried') /\ Carried'[i - 1].type = "start"
            BY <1>5, <5>1, <6>1 DEF StartAt
          <6>3. StartAt(i - 1)'
            BY <6>2 DEF StartAt
          <6>4. QED
            BY <6>1, <6>3
        <5>4. QED
          BY <5>2, <5>3
      <4>3. QED
        BY <2>2, <4>1, <4>2
    <3>3. \A i \in (k - 1 + 1)..Len(Carried') : ~StartAt(i)'
      <4>1. k - 1 + 1 = k
        OBVIOUS
      <4>2. QED
        BY <2>3, <4>1 DEF StartAt
    <3>4. EndAt(k - 1)'
      BY <3>1, <3>2, <3>3 DEF EndAt
    <3>5. QED
      BY <3>1, <3>4 DEF Coming
  <2>6. QED
    BY <1>6, <2>4, <2>5
<1>12. Started' = Started /\ AllTold' = AllTold
  BY DEF Started, AllTold
<1>13. QED
  BY <1>8, <1>10, <1>11, <1>12 DEF Told
-----------------------------------------------------------------------------
LEMMA FlowShown ==
  ASSUME PageInv, NEW f, f \in {"processing", "complete"}, ShowFlow(f)
  PROVE  PageStep /\ view'.job = view.job /\ view'.status = view.status /\ view'.done = view.done
<1>1. view \in ViewType /\ Reached(view.status) /\ (view.done => view.job # 0)
  BY DEF PageInv, PageTyped, Known, DoneHasJob
<1>2. PICK wired \in BOOLEAN : wired = (view.wired \/ f = "complete")
  OBVIOUS
<1>3. view' = [view EXCEPT !.flow = f, !.wired = wired]
  BY <1>2 DEF ShowFlow
<1>4. /\ view' \in ViewType /\ view'.status = view.status /\ view'.done = view.done
      /\ view'.job = view.job
  BY <1>1, <1>3 DEF ViewType
<1>5. QED
  BY <1>1, <1>4 DEF PageStep, Shows

(* A page that shows the same job keeps what it was told.                         *)
LEMMA SameJobTold ==
  ASSUME Told, UNCHANGED <<jobs, lost>>, Carried' = Carried,
         view'.job = view.job, view'.status = view.status, view'.done = view.done
  PROVE  Told'
BY DEF Told, Started, AllTold, StartKnown, StartAt, Settled, Coming, EndAt

(* Each step either leaves the view alone or is the page's.                      *)
LEMMA PageNext ==
  ASSUME PageInv, Told, [Next]_vars
  PROVE  /\ PageInv' /\ Told'
         /\ ~view.done /\ view'.done => PageStep /\ UNCHANGED jobs
<1>1. /\ view \in ViewType /\ Reached(view.status) /\ (view.done => view.job # 0)
      /\ faults \in 0..MaxFaults /\ lost \in BOOLEAN /\ DOMAIN wire = Streams
  BY DEF PageInv, PageTyped, Known, DoneHasJob, TypeOK
<1>2. view' = view => PageStep
  BY <1>1 DEF PageStep, Shows
<1>3. CASE FlowCompletes \/ PlanJob
  <2>1. PageInv' /\ Told'
    BY <1>3, PageFlowCompletes, PagePlanJob
  <2>2. view' = view
    BY <1>3 DEF FlowCompletes, PlanJob, page
  <2>3. QED
    BY <2>1, <2>2
<1>4. CASE \E j \in DOMAIN jobs : \/ StartJob(j) \/ Finalize(j) \/ TellEnd(j)
                                  \/ ReachStarts(j) \/ ReachEnds(j) \/ ReachThrows(j)
  <2>1. PageInv' /\ Told'
    BY <1>4, PageStartJob, PageFinalize, PageTellEnd, PageReach
  <2>2. view' = view
    BY <1>4 DEF StartJob, Finalize, TellEnd, ReachStarts, ReachEnds, ReachThrows, page
  <2>3. QED
    BY <2>1, <2>2
<1>5. CASE LoadRead
  <2>1. UNCHANGED <<server, wire, view, lost, faults>>
    BY <1>5 DEF LoadRead
  <2>2. PageInv' /\ Told'
    BY <1>1, <1>2, <2>1, PageActs, SameJobTold DEF server, Carried
  <2>3. QED
    BY <2>1, <2>2
<1>6. CASE LoadShown \/ SessionEvent
  <2>1. PICK f : f \in {"processing", "complete"} /\ ShowFlow(f)
    BY <1>6 DEF LoadShown, SessionEvent
  <2>2. PageStep /\ view'.job = view.job /\ view'.status = view.status /\ view'.done = view.done
    BY <2>1, FlowShown
  <2>3. /\ UNCHANGED <<server, lost, faults>>
        /\ wire' = wire \/ (wire["session"] # <<>> /\ wire' = [wire EXCEPT !["session"] = Tail(@)])
    BY <1>6 DEF LoadShown, SessionEvent
  <2>4. Carried' = Carried
    BY <1>1, <2>3 DEF Carried, Streams
  <2>5. PageInv'
    BY <1>1, <2>2, <2>3, PageActs DEF Streams
  <2>6. Told'
    BY <2>2, <2>3, <2>4, SameJobTold DEF server
  <2>7. QED
    BY <2>2, <2>5, <2>6
<1>7. CASE EnrichmentEvent
  <2>1. /\ Carried # <<>> /\ wire' = [wire EXCEPT !["enrichment"] = Tail(@)]
        /\ view' = Handled(view, Head(Carried))
        /\ lost' = (lost \/ ~view.wired)
        /\ UNCHANGED <<server, faults>>
    BY <1>7 DEF EnrichmentEvent, Carried
  <2>2. Head(Carried) \in EventType /\ EventOK(Head(Carried))
    <3>1. Carried \in Seq(EventType)
      BY DEF PageInv, PageTyped
    <3>2. Head(Carried) = Carried[1] /\ 1 \in 1..Len(Carried) /\ Carried[1] \in EventType
      BY <2>1, <3>1, Queues
    <3>3. QED
      BY <3>2 DEF PageInv, Known
  <2>3. Carried' = Tail(Carried)
    BY <1>1, <2>1 DEF Carried, Streams
  <2>4. view.wired \in BOOLEAN /\ lost' \in BOOLEAN
    BY <1>1, <2>1 DEF ViewType
  <2>5. CASE view.wired
    <3>1. Follows(view', Head(Carried)) /\ PageStep
      BY <2>1, <2>2, <2>5, HandledFollows DEF Follows, PageStep
    <3>2. lost' = lost
      BY <1>1, <2>1, <2>5
    <3>3. PageInv'
      BY <1>1, <2>1, <2>4, <3>1, PageActs DEF Streams, Carried
    <3>4. Told'
      BY <2>1, <2>3, <2>5, <3>1, <3>2, EventTold DEF server
    <3>5. QED
      BY <2>1, <3>1, <3>3, <3>4 DEF server
  <2>6. CASE ~view.wired
    <3>1. view' = view /\ lost'
      BY <2>1, <2>6 DEF Handled
    <3>2. PageInv'
      BY <1>1, <1>2, <2>1, <2>4, <3>1, PageActs DEF Streams, Carried
    <3>3. QED
      BY <3>1, <3>2 DEF Told
  <2>7. QED
    BY <2>4, <2>5, <2>6
<1>8. CASE \E t \in Streams : Drop(t)
  <2>1. PICK t \in Streams : Drop(t)
    BY <1>8
  <2>2. /\ wire' = [wire EXCEPT ![t] = <<>>] /\ UNCHANGED <<server, view, faults>>
        /\ lost' = (lost \/ t = "enrichment")
    BY <2>1 DEF Drop, page
  <2>3. lost' \in BOOLEAN
    BY <1>1, <2>2
  <2>4. PageInv'
    BY <1>1, <1>2, <2>2, <2>3, PageActs
  <2>5. CASE t = "enrichment"
    BY <2>2, <2>4, <2>5 DEF Told
  <2>6. CASE t # "enrichment"
    <3>1. Carried' = Carried /\ lost' = lost
      BY <1>1, <2>2, <2>6 DEF Carried, Streams
    <3>2. QED
      BY <2>2, <2>4, <3>1, SameJobTold DEF server
  <2>7. QED
    BY <2>5, <2>6
<1>9. CASE Reload
  <2>1. /\ wire' = [t \in Streams |-> <<>>] /\ view' = Blank /\ UNCHANGED server
        /\ lost' = (lost \/ \E j \in DOMAIN jobs : jobs[j].stage # "planned")
        /\ faults < MaxFaults /\ faults' = faults + 1
    BY <1>9 DEF Reload, Fault
  <2>2. MaxJobs \in Nat /\ MaxFaults \in Nat /\ None \notin Verdicts
    BY DEF Verdicts
  <2>3. Blank \in ViewType /\ Blank.status = None /\ ~Blank.done
    BY <2>2 DEF Blank, ViewType
  <2>4. PageStep
    BY <2>1, <2>2, <2>3 DEF PageStep, Shows, Reached
  <2>5. faults' \in 0..MaxFaults /\ lost' \in BOOLEAN
    BY <1>1, <2>1, <2>2
  <2>6. PageInv'
    BY <2>1, <2>4, <2>5, PageActs
  <2>7. Told'
    <3>1. ~lost' => ~Started
      BY <2>1 DEF Started
    <3>2. Started' = Started /\ (AllTold' => Started)
      BY <2>1 DEF Started, AllTold, server
    <3>3. QED
      BY <3>1, <3>2 DEF Told
  <2>8. QED
    BY <2>1, <2>3, <2>6, <2>7
<1>10. CASE \E p \in Polls : Tick(p) \/ ReadStatus(p) \/ Refused(p) \/ PollFails(p)
  <2>1. PICK p \in Polls : Tick(p) \/ ReadStatus(p) \/ Refused(p) \/ PollFails(p)
    BY <1>10
  <2>2. UNCHANGED <<server, wire, view, lost>> /\ faults' \in 0..MaxFaults
    <3>1. faults' = faults \/ (faults < MaxFaults /\ faults' = faults + 1)
      BY <2>1 DEF Tick, ReadStatus, Refused, PollFails, Fault
    <3>2. faults' \in 0..MaxFaults
      BY <1>1, <3>1
    <3>3. QED
      BY <2>1, <3>2 DEF Tick, ReadStatus, Refused, PollFails, Forgotten
  <2>3. PageInv' /\ Told'
    BY <1>1, <1>2, <2>2, PageActs, SameJobTold DEF server, Carried
  <2>4. QED
    BY <2>2, <2>3
<1>11. CASE \E p \in Polls : Answer(p)
  <2>1. /\ view' = Merged(view) /\ lost' = (lost \/ view.job # 0)
        /\ UNCHANGED <<server, wire, faults>>
    BY <1>11 DEF Answer
  <2>2. PICK v : v = [view EXCEPT !.job = 0]
    OBVIOUS
  <2>3. v \in ViewType /\ v.status = view.status /\ v.job = 0 /\ view' = Judged(v)
    BY <1>1, <2>1, <2>2 DEF ViewType, Merged
  <2>4. PageStep /\ view'.job = 0 /\ ~view'.done /\ view'.status = view.status
    BY <1>1, <2>3, JudgedShows DEF PageStep
  <2>5. lost' \in BOOLEAN
    BY <1>1, <2>1
  <2>6. PageInv'
    BY <1>1, <2>1, <2>4, <2>5, PageActs
  <2>7. Told'
    <3>1. CASE view.job # 0
      BY <2>1, <3>1 DEF Told
    <3>2. CASE view.job = 0
      <4>1. view'.done = view.done /\ view'.job = view.job /\ lost' = lost
        <5>1. view.done \in BOOLEAN /\ view'.done \in BOOLEAN
          BY <1>1, <2>4 DEF ViewType, PageStep, Shows
        <5>2. ~view.done
          BY <1>1, <3>2
        <5>3. lost' = lost
          BY <1>1, <2>1, <3>2
        <5>4. QED
          BY <2>4, <3>2, <5>1, <5>2, <5>3
      <4>2. QED
        BY <2>1, <2>4, <4>1, SameJobTold DEF server, Carried
    <3>3. QED
      BY <3>1, <3>2
  <2>8. QED
    BY <2>4, <2>6, <2>7
<1>12. CASE UNCHANGED vars
  <2>1. UNCHANGED <<server, wire, view, lost, faults>>
    BY <1>12 DEF vars, page
  <2>2. PageInv' /\ Told'
    BY <1>1, <1>2, <2>1, PageActs, SameJobTold DEF server, Carried
  <2>3. QED
    BY <2>1, <2>2
<1>13. QED
  BY <1>3, <1>4, <1>5, <1>6, <1>7, <1>8, <1>9, <1>10, <1>11, <1>12 DEF Next, Poll
-----------------------------------------------------------------------------
LEMMA PageInvariants == Spec => [](PageInv /\ Told)
<1>1. PageInv /\ Told /\ [Next]_vars => PageInv' /\ Told'
  BY PageNext
<1>2. QED
  BY <1>1, PageInit, PTL DEF Spec

(* The page calls a job done only with a verdict that a job of the chat has got, for     *)
(* any number of jobs, reads and events, late, lost or about another job: what is         *)
(* shown or under way was final when it was told, and no verdict is taken back.           *)
THEOREM DoneIsReached == Spec => DoneWasReached
<1>1. PageInv /\ Told /\ [Next]_vars =>
        (~view.done /\ view'.done =>
           view'.status \in Verdicts /\ \E j \in DOMAIN jobs : jobs[j].status = view'.status)
  BY PageNext DEF PageStep, Shows, Reached
<1>2. QED
  BY <1>1, PageInvariants, PTL DEF Spec, DoneWasReached

(* A page that has missed nothing shows "done" when every started job is over and told,   *)
(* for any number of jobs that overlap: the last end stands behind every start on the      *)
(* stream, and until it is handled it is under way.                                     *)
THEOREM ToldEndIsShown == Spec => []ToldEndShowsDone
<1>1. PageInv /\ Told => ToldEndShowsDone
  <2>1. SUFFICES ASSUME PageInv, Told, AllTold, ~lost, wire["enrichment"] = <<>>
                 PROVE  view.done
    BY DEF ToldEndShowsDone
  <2>2. Carried = <<>> /\ ~Coming
    <3>1. Carried = <<>> /\ 1..Len(Carried) = {}
      BY <2>1 DEF Carried
    <3>2. QED
      BY <3>1 DEF Coming
  <2>3. QED
    BY <2>1, <2>2 DEF Told, Settled
<1>2. QED
  BY <1>1, PageInvariants, PTL
=============================================================================
