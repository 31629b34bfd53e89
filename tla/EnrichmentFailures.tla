-------------------------- MODULE EnrichmentFailures --------------------------
(***************************************************************************)
(* The enrichment pipeline when something breaks in the middle of a run:    *)
(*                                                                         *)
(*  - the server process dies and restarts.  Postgres keeps the rows and    *)
(*    Redis the waiting entries; the agent's loop and every running slot     *)
(*    are gone.  BullMQ finds the entries that were being run stalled and   *)
(*    hands them out again, each at most once (its default maxStalledCount; *)
(*    lib/queue.ts sets no other).                                          *)
(*                                                                         *)
(*  - a transaction throws outside the model call.  On the way of a         *)
(*    successful attempt the processor's catch takes over, even when the    *)
(*    batch is completed or counted by then; on the failure path nothing    *)
(*    catches, and BullMQ, which retries nothing, fails the entry.           *)
(***************************************************************************)
EXTENDS EnrichmentPipeline

CONSTANT MaxFailures     \* bound: crashes and thrown transactions in a behaviour

ASSUME FailureAssumption == MaxFailures \in Nat /\ IsFiniteSet(Slots)

VARIABLES
  failures,      \* crashes and thrown transactions so far
  agentLost,     \* the agent died inside its loop
  stalled,       \* stalled entries waiting to be handed out again, by batch
  secondRun,     \* slots that run an entry handed out again
  dropped        \* batches whose entry BullMQ has failed

faultVars == <<failures, agentLost, stalled, secondRun, dropped>>
failureVars == <<vars, faultVars>>

FailureInit ==
  /\ Init
  /\ failures = 0
  /\ agentLost = FALSE
  /\ stalled = [b \in Batches |-> 0]
  /\ secondRun = {}
  /\ dropped = {}

Fails == failures < MaxFailures /\ failures' = failures + 1

(* Everything that runs is lost; what ran for the first time is stalled.     *)
Crash ==
  /\ Fails
  /\ jobStatus # "none"
  /\ agentLost' = (agentLost \/ sent < BatchCount)
  /\ stalled' = [b \in Batches |-> stalled[b] +
       Cardinality({s \in Slots : slot[s] # Idle /\ slot[s].batch = b /\ s \notin secondRun})]
  /\ slot' = [s \in Slots |-> Idle]
  /\ secondRun' = {}
  /\ UNCHANGED <<jobRow, batchStatus, retryCount, row, queue, sent, dropped>>

(* A stalled entry is run from the start, whatever its first run had done.   *)
TakeStalled(s, b) ==
  /\ slot[s] = Idle
  /\ stalled[b] > 0
  /\ stalled' = [stalled EXCEPT ![b] = @ - 1]
  /\ secondRun' = secondRun \cup {s}
  /\ slot' = [slot EXCEPT ![s] = [Idle EXCEPT !.pc = "start", !.batch = b]]
  /\ UNCHANGED <<jobRow, batchStatus, retryCount, row, queue, sent, failures, agentLost,
                 dropped>>

(* The steps inside the processor's try block: a run that advances the job   *)
(* is inside it if its attempt succeeded, and has something processed then.  *)
InTry(s) ==
  \/ slot[s].pc \in {"start", "complete"}
  \/ slot[s].pc \in TailPcs /\ slot[s].delta > 0

(* A throw inside the try block is handled as a failed attempt ...           *)
Caught(s) ==
  /\ Fails
  /\ InTry(s)
  /\ Goto(s, "bump")
  /\ UNCHANGED <<jobRow, batchStatus, retryCount, row, queue, sent, agentLost, stalled,
                 secondRun, dropped>>

(* ... and one inside handleBatchFailure fails the entry.                    *)
Uncaught(s) ==
  /\ Fails
  /\ slot[s].pc \in CatchPcs \cup TailPcs
  /\ ~InTry(s)
  /\ dropped' = dropped \cup {slot[s].batch}
  /\ Goto(s, "ack")
  /\ UNCHANGED <<jobRow, batchStatus, retryCount, row, queue, sent, agentLost, stalled,
                 secondRun>>

AgentStep == ~agentLost /\ Agent /\ UNCHANGED faultVars
RunStep(s) == Run(s) /\ UNCHANGED faultVars
TakeStep(s, b) ==
  /\ Take(s, b)
  /\ secondRun' = secondRun \ {s}
  /\ UNCHANGED <<failures, agentLost, stalled, dropped>>

FailureNext ==
  \/ AgentStep
  \/ \E s \in Slots : RunStep(s) \/ Caught(s) \/ Uncaught(s)
  \/ \E s \in Slots, b \in Batches : TakeStep(s, b) \/ TakeStalled(s, b)
  \/ Crash

FailureSpec == FailureInit /\ [][FailureNext]_failureVars

(* Nothing has to fail; what does not fail goes on.                         *)
FailureFairness ==
  /\ WF_failureVars(~agentLost /\ Enqueue /\ UNCHANGED faultVars)
  /\ \A s \in Slots : WF_failureVars(RunStep(s))
  /\ WF_failureVars(\E s \in Slots, b \in Batches : TakeStep(s, b) \/ TakeStalled(s, b))

FailureFairSpec == FailureSpec /\ FailureFairness
-----------------------------------------------------------------------------
FailureTypeOK ==
  /\ TypeOK
  /\ failures \in 0..MaxFailures
  /\ agentLost \in BOOLEAN
  /\ stalled \in [Batches -> Nat]
  /\ secondRun \subseteq Slots
  /\ dropped \subseteq Batches

(* The batches for which a run that will still advance the counter is ahead. *)
Coming ==
  {b \in Batches :
     \/ b > sent /\ ~agentLost
     \/ queue[b] > 0
     \/ stalled[b] > 0
     \/ \E s \in Slots : Active(s) /\ slot[s].pc \notin {"read", "write"} /\ slot[s].batch = b}

(* As long as the agent reached the end of its loop and handleBatchFailure   *)
(* itself did not throw, one failure at any point leaves enough runs ahead   *)
(* to bring batches_completed up to batch_count, or a run at, or going back  *)
(* to, the finalizer: no completion is lost between the batch row, the       *)
(* counter and the job row, which are three transactions.                   *)
EnoughRunsAhead ==
  jobStatus = "processing" /\ ~agentLost /\ dropped = {} =>
    \/ batchesCompleted < BatchCount /\ batchesCompleted + Cardinality(Coming) >= BatchCount
    \/ batchesCompleted >= BatchCount
         /\ (Coming # {} \/ \E s \in Slots : slot[s].pc \in {"read", "write"})

(* A job all of whose batches were enqueued leaves 'processing' in spite of   *)
(* one failure, unless it was one of handleBatchFailure's own transactions:  *)
(* "otherwise the job hangs in 'processing' forever" is what the worker's    *)
(* failure path is there to prevent.                                        *)
SurvivesFailure ==
  (jobStatus = "processing" /\ sent = BatchCount)
    ~> (jobStatus \in Verdicts \/ dropped # {})
=============================================================================
