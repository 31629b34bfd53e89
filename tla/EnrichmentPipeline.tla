-------------------------- MODULE EnrichmentPipeline --------------------------
(***************************************************************************)
(* One enrichment job from the EnrichmentAgent's plan to its final status: *)
(* the agent writes the job and batch rows and fans one queue entry per    *)
(* batch out to BullMQ; the inline worker runs up to QUEUE_CONCURRENCY     *)
(* entries at a time; each run of enrichBatchProcessor is a sequence of     *)
(* transactions, and other runs move between any two of them.              *)
(*                                                                         *)
(* A step of a slot is one awaited operation of the processor.  Wording,   *)
(* token counts and durations are left out; an event published after a     *)
(* write is part of that write's step.                                      *)
(***************************************************************************)
EXTENDS Integers, FiniteSets

CONSTANTS
  BatchCount,     \* batches planBatching cut the corpus into
  Articles,       \* articles of the chat
  ArticleIds,     \* article ids stored on each batch row
  Slots,          \* entries the worker runs at once (QUEUE_CONCURRENCY)
  MaxRetries,     \* MAX_RETRIES of the processor
  ExactReplies,   \* TRUE: the model answers each batch article once, FALSE: anything valid
  Duplicates,     \* bound: how often a reply may repeat an article id
  None            \* no batch

Batches == 1..BatchCount

ASSUME PipelineAssumption ==
  /\ BatchCount \in Nat \ {0}
  /\ MaxRetries \in Nat
  /\ Duplicates \in Nat
  /\ ExactReplies \in BOOLEAN
  /\ None \notin Batches
  /\ IsFiniteSet(Articles)
  /\ ArticleIds \in [Batches -> (SUBSET Articles) \ {{}}]
  /\ \A b, c \in Batches : b # c => ArticleIds[b] \cap ArticleIds[c] = {}

VARIABLES
  jobStatus,         \* enrichment_jobs.status
  batchesCompleted,  \* enrichment_jobs.batches_completed
  processedCount,    \* enrichment_jobs.processed_count
  batchStatus,       \* enrichment_batches.status
  retryCount,        \* enrichment_batches.retry_count
  row,               \* enrichments.batch_id by article, None while there is no row
  queue,             \* waiting enrich-batch entries by batch
  sent,              \* batches the agent has enqueued
  slot,              \* what each worker slot runs
  finalized          \* how many times finalizeJob has written the job row

jobRow == <<jobStatus, batchesCompleted, processedCount, finalized>>
vars == <<jobStatus, batchesCompleted, processedCount, batchStatus, retryCount,
          row, queue, sent, slot, finalized>>
-----------------------------------------------------------------------------
Settled == {"completed", "failed"}
Verdicts == {"completed", "partial", "failed"}
BatchStatuses == {"absent", "pending", "processing", "retrying"} \cup Settled

(* Where a slot stands: before the step named.                              *)
TryPcs   == {"start", "llm", "complete"}
CatchPcs == {"bump", "retrying", "requeue", "failed"}
TailPcs  == {"count", "read", "write"}
Pcs == {"idle", "ack"} \cup TryPcs \cup CatchPcs \cup TailPcs

(* "delta" is processedDelta, "verdict" the status finalizeJob has derived   *)
(* and not yet written.                                                     *)
SlotType == [pc : Pcs, batch : Batches \cup {None}, delta : Nat,
             verdict : Verdicts \cup {"none"}]
Idle == [pc |-> "idle", batch |-> None, delta |-> 0, verdict |-> "none"]

(* A run that still has work on its batch; at "ack" only BullMQ's own       *)
(* bookkeeping of the finished entry is left.                               *)
Active(s) == slot[s].pc \notin {"idle", "ack"}

(* The replies that pass EnrichmentBatchResponseSchema and the foreign key  *)
(* of enrichments: a non-empty list of articles, in no way tied to the      *)
(* batch; "count" is its length.                                            *)
Replies(b) ==
  IF ExactReplies
  THEN {[ids |-> ArticleIds[b], count |-> Cardinality(ArticleIds[b])]}
  ELSE UNION {{[ids |-> R, count |-> Cardinality(R) + d] : d \in 0..Duplicates}
                : R \in (SUBSET Articles) \ {{}}}

(* Mutant of Verdict: one failed batch fails the job.                       *)
VerdictStrict(st) == IF \E b \in Batches : st[b] = "failed" THEN "failed" ELSE "completed"

(* finalizeJob: the status derived from the batch rows as they are read.    *)
Verdict(st) ==
  CASE \A b \in Batches : st[b] # "failed" -> "completed"
    [] \A b \in Batches : st[b] = "failed" -> "failed"
    [] OTHER -> "partial"

Goto(s, pc) == slot' = [slot EXCEPT ![s].pc = pc]
-----------------------------------------------------------------------------
Init ==
  /\ jobStatus = "none"
  /\ batchesCompleted = 0
  /\ processedCount = 0
  /\ batchStatus = [b \in Batches |-> "absent"]
  /\ retryCount = [b \in Batches |-> 0]
  /\ row = [a \in Articles |-> None]
  /\ queue = [b \in Batches |-> 0]
  /\ sent = 0
  /\ slot = [s \in Slots |-> Idle]
  /\ finalized = 0

(* EnrichmentAgent.plan: one transaction writes the job and its batches.     *)
Plan ==
  /\ jobStatus = "none"
  /\ jobStatus' = "processing"
  /\ batchStatus' = [b \in Batches |-> "pending"]
  /\ UNCHANGED <<batchesCompleted, processedCount, retryCount, row, queue, sent,
                 slot, finalized>>

(* EnrichmentAgent.act: the loop that enqueues the batches in their order.   *)
Enqueue ==
  /\ jobStatus # "none"
  /\ sent < BatchCount
  /\ queue' = [queue EXCEPT ![sent + 1] = @ + 1]
  /\ sent' = sent + 1
  /\ UNCHANGED <<jobRow, batchStatus, retryCount, row, slot>>

(* BullMQ hands a waiting entry to a free slot.                             *)
Take(s, b) ==
  /\ slot[s] = Idle
  /\ queue[b] > 0
  /\ queue' = [queue EXCEPT ![b] = @ - 1]
  /\ slot' = [slot EXCEPT ![s] = [Idle EXCEPT !.pc = "start", !.batch = b]]
  /\ UNCHANGED <<jobRow, batchStatus, retryCount, row, sent>>

(* 1) the batch row becomes 'processing'.                                   *)
MarkProcessing(s) ==
  /\ slot[s].pc = "start"
  /\ batchStatus' = [batchStatus EXCEPT ![slot[s].batch] = "processing"]
  /\ Goto(s, "llm")
  /\ UNCHANGED <<jobRow, retryCount, row, queue, sent>>

(* 2) to 6) the articles are read, the model answers, the answer passes the *)
(* schema, and the enrichments are upserted in one transaction.             *)
Upsert(s) ==
  /\ slot[s].pc = "llm"
  /\ \E r \in Replies(slot[s].batch) :
       /\ row' = [a \in Articles |-> IF a \in r.ids THEN slot[s].batch ELSE row[a]]
       /\ slot' = [slot EXCEPT ![s].pc = "complete", ![s].delta = r.count]
  /\ UNCHANGED <<jobRow, batchStatus, retryCount, queue, sent>>

(* No article loaded, the model call failed, the schema refused the answer, *)
(* or the upsert hit an unknown article: nothing of the attempt is kept.    *)
AttemptFails(s) ==
  /\ slot[s].pc = "llm"
  /\ Goto(s, "bump")
  /\ UNCHANGED <<jobRow, batchStatus, retryCount, row, queue, sent>>

(* 7) the batch row becomes 'completed'.                                    *)
MarkCompleted(s) ==
  /\ slot[s].pc = "complete"
  /\ batchStatus' = [batchStatus EXCEPT ![slot[s].batch] = "completed"]
  /\ Goto(s, "count")
  /\ UNCHANGED <<jobRow, retryCount, row, queue, sent>>

(* The next step of a run that has advanced the job.                        *)
AfterCount(s, last) == [slot[s] EXCEPT !.pc = IF last THEN "read" ELSE "ack"]

(* Mutants of Count: the processed articles are set, not added; a batch that *)
(* was given up does not advance the job; the limit is missed by one; the    *)
(* value from before the update is compared; or only the exact limit counts. *)
CountOverwrites(s) ==
  /\ slot[s].pc = "count"
  /\ batchesCompleted' = batchesCompleted + 1
  /\ processedCount' = slot[s].delta
  /\ slot' = [slot EXCEPT ![s] = AfterCount(s, batchesCompleted + 1 >= BatchCount)]
  /\ UNCHANGED <<jobStatus, finalized, batchStatus, retryCount, row, queue, sent>>

CountSuccesses(s) ==
  /\ slot[s].pc = "count"
  /\ batchesCompleted' = batchesCompleted + (IF slot[s].delta > 0 THEN 1 ELSE 0)
  /\ processedCount' = processedCount + slot[s].delta
  /\ slot' = [slot EXCEPT ![s] = AfterCount(s, batchesCompleted' >= BatchCount)]
  /\ UNCHANGED <<jobStatus, finalized, batchStatus, retryCount, row, queue, sent>>

CountEarly(s) ==
  /\ slot[s].pc = "count"
  /\ batchesCompleted' = batchesCompleted + 1
  /\ processedCount' = processedCount + slot[s].delta
  /\ slot' = [slot EXCEPT ![s] = AfterCount(s, batchesCompleted + 2 >= BatchCount)]
  /\ UNCHANGED <<jobStatus, finalized, batchStatus, retryCount, row, queue, sent>>

CountStale(s) ==
  /\ slot[s].pc = "count"
  /\ batchesCompleted' = batchesCompleted + 1
  /\ processedCount' = processedCount + slot[s].delta
  /\ slot' = [slot EXCEPT ![s] = AfterCount(s, batchesCompleted >= BatchCount)]
  /\ UNCHANGED <<jobStatus, finalized, batchStatus, retryCount, row, queue, sent>>

CountExactly(s) ==
  /\ slot[s].pc = "count"
  /\ batchesCompleted' = batchesCompleted + 1
  /\ processedCount' = processedCount + slot[s].delta
  /\ slot' = [slot EXCEPT ![s] = AfterCount(s, batchesCompleted + 1 = BatchCount)]
  /\ UNCHANGED <<jobStatus, finalized, batchStatus, retryCount, row, queue, sent>>

(* finalizeJobProgress: the counters of the job row are incremented in one   *)
(* update, and the value read back decides whether this run finalizes.      *)
Count(s) ==
  /\ slot[s].pc = "count"
  /\ batchesCompleted' = batchesCompleted + 1
  /\ processedCount' = processedCount + slot[s].delta
  /\ slot' = [slot EXCEPT ![s] = AfterCount(s, batchesCompleted + 1 >= BatchCount)]
  /\ UNCHANGED <<jobStatus, finalized, batchStatus, retryCount, row, queue, sent>>

(* finalizeJob reads the batch rows and derives the status ...               *)
FinalizeRead(s) ==
  /\ slot[s].pc = "read"
  /\ slot' = [slot EXCEPT ![s].pc = "write", ![s].verdict = Verdict(batchStatus)]
  /\ UNCHANGED <<jobRow, batchStatus, retryCount, row, queue, sent>>

(* ... and writes it: a second statement, which locks none of those rows.    *)
FinalizeWrite(s) ==
  /\ slot[s].pc = "write"
  /\ jobStatus' = slot[s].verdict
  /\ finalized' = finalized + 1
  /\ Goto(s, "ack")
  /\ UNCHANGED <<batchesCompleted, processedCount, batchStatus, retryCount, row,
                 queue, sent>>

(* handleBatchFailure: the retry counter goes up before it is compared.      *)
BumpRetry(s) ==
  LET b == slot[s].batch IN
  /\ slot[s].pc = "bump"
  /\ retryCount' = [retryCount EXCEPT ![b] = @ + 1]
  /\ Goto(s, IF retryCount[b] + 1 <= MaxRetries THEN "retrying" ELSE "failed")
  /\ UNCHANGED <<jobRow, batchStatus, row, queue, sent>>

(* The row tells that the batch will be attempted again.                    *)
MarkRetrying(s) ==
  /\ slot[s].pc = "retrying"
  /\ batchStatus' = [batchStatus EXCEPT ![slot[s].batch] = "retrying"]
  /\ Goto(s, "requeue")
  /\ UNCHANGED <<jobRow, retryCount, row, queue, sent>>

(* Mutant of Requeue: the retry is left to BullMQ, which retries nothing.     *)
RequeueForgets(s) ==
  /\ slot[s].pc = "requeue"
  /\ Goto(s, "ack")
  /\ UNCHANGED <<jobRow, batchStatus, retryCount, row, queue, sent>>

(* The same batch goes back into the queue and this run ends.                *)
Requeue(s) ==
  /\ slot[s].pc = "requeue"
  /\ queue' = [queue EXCEPT ![slot[s].batch] = @ + 1]
  /\ Goto(s, "ack")
  /\ UNCHANGED <<jobRow, batchStatus, retryCount, row, sent>>

(* Given up: the batch counts as finished, with nothing processed.           *)
MarkFailed(s) ==
  /\ slot[s].pc = "failed"
  /\ batchStatus' = [batchStatus EXCEPT ![slot[s].batch] = "failed"]
  /\ slot' = [slot EXCEPT ![s].pc = "count", ![s].delta = 0]
  /\ UNCHANGED <<jobRow, retryCount, row, queue, sent>>

(* The processor has returned: BullMQ marks the entry done, the slot is free. *)
Ack(s) ==
  /\ slot[s].pc = "ack"
  /\ slot' = [slot EXCEPT ![s] = Idle]
  /\ UNCHANGED <<jobRow, batchStatus, retryCount, row, queue, sent>>

(* The agent, a slot taking an entry, and the run in a slot.                 *)
Agent == Plan \/ Enqueue

Run(s) ==
  \/ MarkProcessing(s) \/ Upsert(s) \/ AttemptFails(s) \/ MarkCompleted(s)
  \/ Count(s) \/ FinalizeRead(s) \/ FinalizeWrite(s)
  \/ BumpRetry(s) \/ MarkRetrying(s) \/ Requeue(s) \/ MarkFailed(s)
  \/ Ack(s)

Next ==
  \/ Agent
  \/ \E s \in Slots : Run(s) \/ \E b \in Batches : Take(s, b)

(* The job is over: nothing is left to run.                                 *)
Finished ==
  /\ jobStatus \in Verdicts
  /\ \A b \in Batches : queue[b] = 0
  /\ \A s \in Slots : slot[s] = Idle

Done == Finished /\ UNCHANGED vars

Spec == Init /\ [][Next]_vars

(* The agent's loop, the queue's dispatcher and every run make progress: no  *)
(* process stops, and a model call answers or throws.                       *)
Fairness ==
  /\ WF_vars(Enqueue)
  /\ \A s \in Slots : WF_vars(Run(s))
  /\ WF_vars(\E s \in Slots, b \in Batches : Take(s, b))

FairSpec == Spec /\ Fairness
-----------------------------------------------------------------------------
TypeOK ==
  /\ jobStatus \in {"none", "processing"} \cup Verdicts
  /\ batchesCompleted \in Nat
  /\ processedCount \in Nat
  /\ batchStatus \in [Batches -> BatchStatuses]
  /\ retryCount \in [Batches -> Nat]
  /\ row \in [Articles -> Batches \cup {None}]
  /\ queue \in [Batches -> Nat]
  /\ sent \in 0..BatchCount
  /\ slot \in [Slots -> SlotType]
  /\ finalized \in Nat

(* A batch whose outcome is in the job's counter.                           *)
CountedBatches ==
  {b \in Batches : /\ batchStatus[b] \in Settled
                   /\ \A s \in Slots : ~(slot[s].pc = "count" /\ slot[s].batch = b)}

(* batches_completed is the number of settled batches, never one more: a    *)
(* batch that is attempted several times, in whatever order the slots run,  *)
(* is counted once (finalizeJobProgress fires the finalizer on this number). *)
CountMatches == batchesCompleted = Cardinality(CountedBatches)

(* When the job row leaves 'processing' every batch is settled, and the     *)
(* status is the one their rows call for (finalizeJob's table), although    *)
(* the rows are read in one statement and the job is written in another.    *)
VerdictTruthful ==
  jobStatus \in Verdicts =>
    /\ \A b \in Batches : batchStatus[b] \in Settled
    /\ jobStatus = Verdict(batchStatus)

(* A batch that is not settled is still going to be attempted: the agent    *)
(* has it to enqueue, it waits in the queue, or a slot runs it.  This is     *)
(* what the in-band retry path owes, BullMQ retrying nothing.               *)
NoStrandedBatch ==
  \A b \in Batches :
    jobStatus # "none" /\ batchStatus[b] \notin Settled =>
      \/ b > sent
      \/ queue[b] > 0
      \/ \E s \in Slots : Active(s) /\ slot[s].batch = b

(* A batch is given up after exactly MAX_RETRIES + 1 failed attempts and     *)
(* never completed after as many.                                           *)
GivenUpWhenExhausted ==
  \A b \in Batches :
    /\ batchStatus[b] = "failed" => retryCount[b] = MaxRetries + 1
    /\ batchStatus[b] = "completed" => retryCount[b] <= MaxRetries

(* If the model answers each article of a batch once, a job that is         *)
(* 'completed' has enriched every article of every batch, each row under    *)
(* its own batch, and counted each once.                                    *)
CompletedMeansEnriched ==
  ExactReplies /\ jobStatus = "completed" =>
    /\ \A b \in Batches, a \in Articles : a \in ArticleIds[b] => row[a] = b
    /\ processedCount = Cardinality(UNION {ArticleIds[b] : b \in Batches})

(* Once a batch is completed or failed, no later run changes its row: a     *)
(* stale attempt never overwrites the outcome that was counted.             *)
SettledStays ==
  [][\A b \in Batches : batchStatus[b] \in Settled
                          => batchStatus'[b] = batchStatus[b]]_vars

(* A job that is written is closed: no job hangs in 'processing'.           *)
JobFinishes == (jobStatus = "processing") ~> (jobStatus \in Verdicts)

(* What a batch row tells of the batch's outcome.                           *)
Outcome == [b \in Batches |-> IF batchStatus[b] \in Settled THEN batchStatus[b] ELSE "open"]

Job == INSTANCE EnrichmentJob WITH outcome <- Outcome, verdict <- jobStatus

(* The pipeline implements the promise of EnrichmentJob: with all its slots  *)
(* and retries, enrichBatchProcessor settles each batch once and closes the  *)
(* job once, when all are settled, with the status finalizeJob's table gives. *)
ImplementsJob == Job!Spec
=============================================================================
