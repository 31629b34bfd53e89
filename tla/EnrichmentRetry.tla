--------------------------- MODULE EnrichmentRetry ---------------------------
(***************************************************************************)
(* The enrichment pipeline with the user's retry, POST                     *)
(* /chats/:id/enrich/retry: retryFailedBatches resets the failed batches of *)
(* the latest job and enqueues them again, while the worker may still be at *)
(* the last steps of a run.  The counter and the status of the job row stay *)
(* as they are.                                                             *)
(***************************************************************************)
EXTENDS EnrichmentPipeline

CONSTANTS
  Clients,        \* browser tabs of the user
  MaxRequests     \* bound: how many retries the user asks for

ASSUME RetryAssumption == MaxRequests \in Nat

VARIABLES
  client,         \* what each request has read and still has to do
  requests        \* retries asked for so far

clientVars == <<client, requests>>
retryVars == <<vars, clientVars>>

NoRequest == [pc |-> "idle", rows |-> {}]

RetryInit ==
  /\ Init
  /\ client = [c \in Clients |-> NoRequest]
  /\ requests = 0

(* Mutant of RetryRead: every row that is not completed is retried.          *)
RetryReadOpen(c) ==
  LET open == {b \in Batches : batchStatus[b] # "completed"} IN
  /\ client[c].pc = "idle"
  /\ requests < MaxRequests
  /\ jobStatus # "none"
  /\ open # {}
  /\ client' = [client EXCEPT ![c] = [pc |-> "reset", rows |-> open]]
  /\ requests' = requests + 1
  /\ UNCHANGED vars

(* The failed rows of the job are read ...                                   *)
RetryRead(c) ==
  LET failed == {b \in Batches : batchStatus[b] = "failed"} IN
  /\ client[c].pc = "idle"
  /\ requests < MaxRequests
  /\ failed # {}
  /\ client' = [client EXCEPT ![c] = [pc |-> "reset", rows |-> failed]]
  /\ requests' = requests + 1
  /\ UNCHANGED vars

(* Mutant of RetryReset: the job's counter starts over.                      *)
RetryResetJob(c) ==
  LET rows == client[c].rows IN
  /\ client[c].pc = "reset"
  /\ batchStatus' = [b \in Batches |-> IF b \in rows THEN "pending" ELSE batchStatus[b]]
  /\ retryCount' = [b \in Batches |-> IF b \in rows THEN 0 ELSE retryCount[b]]
  /\ batchesCompleted' = 0
  /\ client' = [client EXCEPT ![c].pc = "enqueue"]
  /\ UNCHANGED <<jobStatus, processedCount, finalized, row, queue, sent, slot, requests>>

(* ... each row read is reset by its id, whatever it has become ...           *)
RetryReset(c) ==
  LET rows == client[c].rows IN
  /\ client[c].pc = "reset"
  /\ batchStatus' = [b \in Batches |-> IF b \in rows THEN "pending" ELSE batchStatus[b]]
  /\ retryCount' = [b \in Batches |-> IF b \in rows THEN 0 ELSE retryCount[b]]
  /\ client' = [client EXCEPT ![c].pc = "enqueue"]
  /\ UNCHANGED <<jobRow, row, queue, sent, slot, requests>>

(* ... and, after the commit, enqueued one by one.                           *)
RetryEnqueue(c, b) ==
  /\ client[c].pc = "enqueue"
  /\ b \in client[c].rows
  /\ queue' = [queue EXCEPT ![b] = @ + 1]
  /\ client' = [client EXCEPT ![c] = IF client[c].rows = {b} THEN NoRequest
                                     ELSE [client[c] EXCEPT !.rows = @ \ {b}]]
  /\ UNCHANGED <<jobRow, batchStatus, retryCount, row, sent, slot, requests>>

Client(c) == RetryRead(c) \/ RetryReset(c) \/ \E b \in Batches : RetryEnqueue(c, b)

RetryNext ==
  \/ Next /\ UNCHANGED clientVars
  \/ \E c \in Clients : Client(c)

RetryDone ==
  /\ Finished
  /\ \A c \in Clients : client[c] = NoRequest
  /\ UNCHANGED retryVars

RetrySpec == RetryInit /\ [][RetryNext \/ RetryDone]_retryVars

(* A request that has begun runs to its end; nobody has to ask for one.      *)
RetryFairness ==
  /\ WF_retryVars(Enqueue /\ UNCHANGED clientVars)
  /\ \A s \in Slots : WF_retryVars(Run(s) /\ UNCHANGED clientVars)
  /\ WF_retryVars((\E s \in Slots, b \in Batches : Take(s, b)) /\ UNCHANGED clientVars)
  /\ \A c \in Clients :
       WF_retryVars(RetryReset(c) \/ \E b \in Batches : RetryEnqueue(c, b))

RetryFairSpec == RetrySpec /\ RetryFairness
-----------------------------------------------------------------------------
RetryTypeOK ==
  /\ TypeOK
  /\ client \in [Clients -> [pc : {"idle", "reset", "enqueue"}, rows : SUBSET Batches]]
  /\ requests \in 0..MaxRequests

(* A slot works on a batch, from its start until its outcome is written.     *)
Attempting(s, b) == Active(s) /\ slot[s].pc \notin TailPcs /\ slot[s].batch = b

(* With one request at a time a batch is never attempted twice at once: not  *)
(* by two slots, not by a slot while another entry for it waits.  (Two       *)
(* requests that read the same failed rows break this.)                      *)
OneAttemptPerBatch ==
  \A b \in Batches :
    /\ \A s, t \in Slots : Attempting(s, b) /\ Attempting(t, b) => s = t
    /\ queue[b] + Cardinality({s \in Slots : Attempting(s, b)}) <= 1

(* batches_completed may overshoot after a retry but never lags behind the   *)
(* batches that are settled and counted, so the finalizer's >= test can      *)
(* always be met.                                                           *)
CounterNeverShort == batchesCompleted >= Cardinality(CountedBatches)

(* The job leaves 'processing' even if the retry resets a failed batch        *)
(* before the run that failed it has advanced the job.                       *)
RetriedJobFinishes == (jobStatus = "processing") ~> (jobStatus \in Verdicts)
=============================================================================
