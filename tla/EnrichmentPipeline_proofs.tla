---------------------- MODULE EnrichmentPipeline_proofs ----------------------
(***************************************************************************)
(* Proofs about EnrichmentPipeline, for any number of batches, slots,       *)
(* articles and retries: the types, and that no batch is stranded; that each *)
(* batch is counted once and a job closed with the status its batches call   *)
(* for; that a completed job has every article enriched; and that the        *)
(* pipeline implements EnrichmentJob.  Then about the modules that extend it: *)
(* the user's retry, failures in the middle of a run, and the reach pipeline. *)
(***************************************************************************)
EXTENDS EnrichmentRetry, EnrichmentFailures, ReachPipeline, FiniteSetTheorems, TLAPS

(* A slot that is not idle runs an entry of some batch, and one about to     *)
(* write the job's status has a status to write.                            *)
SlotOK == \A s \in Slots : /\ slot[s].pc # "idle" => slot[s].batch \in Batches
                           /\ slot[s].pc = "write" => slot[s].verdict \in Verdicts

(* The agent enqueues a batch once, and from then on there is at most one   *)
(* entry or run for it: it waits, or a single slot works on it.             *)
DeliveryOK ==
  /\ \A b \in Batches : queue[b] > 0 =>
       /\ queue[b] = 1
       /\ b <= sent
       /\ \A s \in Slots : Active(s) => slot[s].batch # b
  /\ \A s \in Slots : Active(s) => slot[s].batch <= sent
  /\ \A s, t \in Slots : Active(s) /\ Active(t) /\ slot[s].batch = slot[t].batch => s = t

(* The rows agree with the runs: they exist once the job does, a settled     *)
(* batch waits nowhere, and the slot that works on a batch is past the       *)
(* write of its outcome exactly when the row has it.                        *)
StatusOK ==
  /\ jobStatus = "none" => sent = 0
  /\ \A b \in Batches : (jobStatus = "none") <=> (batchStatus[b] = "absent")
  /\ \A b \in Batches : batchStatus[b] \in Settled => queue[b] = 0 /\ b <= sent
  /\ \A s \in Slots : Active(s) =>
       (slot[s].pc \in TailPcs <=> batchStatus[slot[s].batch] \in Settled)
-----------------------------------------------------------------------------
USE PipelineAssumption DEF Settled, Verdicts, BatchStatuses

(* A valid reply lists articles of the chat, and its length is a number.     *)
LEMMA RepliesType ==
  ASSUME NEW b \in Batches, NEW r \in Replies(b)
  PROVE  r.ids \subseteq Articles /\ r.count \in Nat
<1>1. \A R \in SUBSET Articles : Cardinality(R) \in Nat
  BY FS_Subset, FS_CardinalityType
<1>2. CASE ExactReplies
  BY <1>1, <1>2 DEF Replies
<1>3. CASE ~ExactReplies
  <2>1. PICK R \in (SUBSET Articles) \ {{}}, d \in 0..Duplicates :
          r = [ids |-> R, count |-> Cardinality(R) + d]
    BY <1>3 DEF Replies
  <2>2. QED
    BY <2>1, <1>1
<1>4. QED
  BY <1>2, <1>3

LEMMA VerdictType ==
  ASSUME NEW st
  PROVE  Verdict(st) \in Verdicts
BY DEF Verdict

LEMMA InitType == Init => TypeOK /\ SlotOK
BY DEF Init, TypeOK, SlotOK, SlotType, Idle, Pcs, TryPcs, CatchPcs, TailPcs

(* A step that puts a well-formed record into one slot keeps the slots typed. *)
LEMMA SlotUpdate ==
  ASSUME TypeOK, SlotOK, NEW s \in Slots, NEW v \in SlotType,
         v.pc # "idle" => v.batch \in Batches,
         v.pc = "write" => v.verdict \in Verdicts,
         slot' = [slot EXCEPT ![s] = v]
  PROVE  slot' \in [Slots -> SlotType] /\ SlotOK'
BY DEF TypeOK, SlotOK

LEMMA GotoType ==
  ASSUME TypeOK, SlotOK, NEW s \in Slots, NEW pc \in Pcs \ {"write"},
         slot[s].pc # "idle", Goto(s, pc)
  PROVE  slot' \in [Slots -> SlotType] /\ SlotOK'
<1> DEFINE v == [slot[s] EXCEPT !.pc = pc]
<1>1. slot[s] \in SlotType /\ slot[s].batch \in Batches
  BY DEF TypeOK, SlotOK
<1>2. v \in SlotType /\ v.batch \in Batches /\ v.pc # "write"
  BY <1>1 DEF SlotType
<1>3. slot' = [slot EXCEPT ![s] = v]
  BY DEF Goto
<1> HIDE DEF v
<1>4. QED
  BY <1>2, <1>3, SlotUpdate

LEMMA NextType == TypeOK /\ SlotOK /\ [Next]_vars => TypeOK' /\ SlotOK'
<1> SUFFICES ASSUME TypeOK, SlotOK, [Next]_vars
             PROVE  TypeOK' /\ SlotOK'
  OBVIOUS
<1> DEFINE SlotGoal == slot' \in [Slots -> SlotType] /\ SlotOK'
<1> USE DEF jobRow
<1>s. ASSUME NEW s \in Slots
      PROVE  slot[s] \in SlotType /\ (slot[s].pc # "idle" => slot[s].batch \in Batches)
  BY DEF TypeOK, SlotOK
<1>1. CASE Plan
  BY <1>1 DEF Plan, TypeOK, SlotOK
<1>2. CASE Enqueue
  <2>1. sent + 1 \in Batches /\ sent + 1 \in 0..BatchCount
    BY <1>2 DEF Enqueue, TypeOK, Batches
  <2>2. QED
    BY <1>2, <2>1 DEF Enqueue, TypeOK, SlotOK
<1>3. ASSUME NEW s \in Slots, NEW b \in Batches, Take(s, b)
      PROVE  TypeOK' /\ SlotOK'
  <2> DEFINE v == [Idle EXCEPT !.pc = "start", !.batch = b]
  <2>1. v \in SlotType /\ v.batch \in Batches /\ v.pc # "write"
    BY DEF Idle, SlotType, Pcs, TryPcs
  <2>2. slot' = [slot EXCEPT ![s] = v]
    BY <1>3 DEF Take
  <2> HIDE DEF v
  <2>3. SlotGoal
    BY <2>1, <2>2, SlotUpdate
  <2>4. queue' \in [Batches -> Nat]
    BY <1>3 DEF Take, TypeOK
  <2>5. QED
    BY <1>3, <2>3, <2>4 DEF Take, TypeOK
<1>4. ASSUME NEW s \in Slots, MarkProcessing(s)
      PROVE  TypeOK' /\ SlotOK'
  <2>1. SlotGoal
    BY <1>4, GotoType DEF MarkProcessing, Pcs, TryPcs
  <2>2. QED
    BY <1>4, <2>1, <1>s DEF MarkProcessing, TypeOK
<1>5. ASSUME NEW s \in Slots, Upsert(s)
      PROVE  TypeOK' /\ SlotOK'
  <2>1. slot[s].batch \in Batches /\ slot[s] \in SlotType
    BY <1>5, <1>s DEF Upsert
  <2>2. PICK r \in Replies(slot[s].batch) :
          /\ row' = [a \in Articles |-> IF a \in r.ids THEN slot[s].batch ELSE row[a]]
          /\ slot' = [slot EXCEPT ![s].pc = "complete", ![s].delta = r.count]
    BY <1>5 DEF Upsert
  <2>3. r.count \in Nat
    BY <2>1, RepliesType
  <2> DEFINE v == [slot[s] EXCEPT !.pc = "complete", !.delta = r.count]
  <2>4. v \in SlotType /\ v.batch \in Batches /\ v.pc # "write"
    BY <2>1, <2>3 DEF SlotType, Pcs, TryPcs
  <2>5. slot' = [slot EXCEPT ![s] = v]
    BY <2>2 DEF TypeOK
  <2> HIDE DEF v
  <2>6. SlotGoal
    BY <2>4, <2>5, SlotUpdate
  <2>7. row' \in [Articles -> Batches \cup {None}]
    BY <2>1, <2>2 DEF TypeOK
  <2>8. QED
    BY <1>5, <2>6, <2>7 DEF Upsert, TypeOK
<1>6. ASSUME NEW s \in Slots, AttemptFails(s)
      PROVE  TypeOK' /\ SlotOK'
  <2>1. SlotGoal
    BY <1>6, GotoType DEF AttemptFails, Pcs, CatchPcs
  <2>2. QED
    BY <1>6, <2>1 DEF AttemptFails, TypeOK
<1>7. ASSUME NEW s \in Slots, MarkCompleted(s)
      PROVE  TypeOK' /\ SlotOK'
  <2>1. SlotGoal
    BY <1>7, GotoType DEF MarkCompleted, Pcs, TailPcs
  <2>2. QED
    BY <1>7, <2>1, <1>s DEF MarkCompleted, TypeOK
<1>8. ASSUME NEW s \in Slots, Count(s)
      PROVE  TypeOK' /\ SlotOK'
  <2> DEFINE v == IF batchesCompleted + 1 >= BatchCount
                  THEN [slot[s] EXCEPT !.pc = "read"] ELSE [slot[s] EXCEPT !.pc = "ack"]
  <2>1. slot[s].batch \in Batches /\ slot[s] \in SlotType
    BY <1>8, <1>s DEF Count
  <2>2. v \in SlotType /\ v.batch \in Batches /\ v.pc # "write"
    BY <2>1 DEF SlotType, Pcs, TailPcs
  <2>3. slot' = [slot EXCEPT ![s] = v]
    BY <1>8 DEF Count, AfterCount, TypeOK
  <2> HIDE DEF v
  <2>4. SlotGoal
    BY <2>2, <2>3, SlotUpdate
  <2>5. batchesCompleted' \in Nat /\ processedCount' \in Nat
    BY <1>8, <2>1 DEF Count, TypeOK, SlotType
  <2>6. QED
    BY <1>8, <2>4, <2>5 DEF Count, TypeOK
<1>9. ASSUME NEW s \in Slots, FinalizeRead(s)
      PROVE  TypeOK' /\ SlotOK'
  <2> DEFINE v == [slot[s] EXCEPT !.pc = "write", !.verdict = Verdict(batchStatus)]
  <2>1. slot[s].batch \in Batches /\ slot[s] \in SlotType
    BY <1>9, <1>s DEF FinalizeRead
  <2>2. v \in SlotType /\ v.batch \in Batches /\ v.verdict \in Verdicts
    BY <2>1, VerdictType DEF SlotType, Pcs, TailPcs
  <2>3. slot' = [slot EXCEPT ![s] = v]
    BY <1>9 DEF FinalizeRead, TypeOK
  <2> HIDE DEF v
  <2>4. SlotGoal
    BY <2>2, <2>3, SlotUpdate
  <2>5. QED
    BY <1>9, <2>4 DEF FinalizeRead, TypeOK
<1>10. ASSUME NEW s \in Slots, FinalizeWrite(s)
      PROVE  TypeOK' /\ SlotOK'
  <2>1. SlotGoal
    BY <1>10, GotoType DEF FinalizeWrite, Pcs
  <2>2. jobStatus' \in {"none", "processing"} \cup Verdicts
    BY <1>10, <1>s DEF FinalizeWrite, SlotType
  <2>3. QED
    BY <1>10, <2>1, <2>2 DEF FinalizeWrite, TypeOK
<1>11. ASSUME NEW s \in Slots, BumpRetry(s)
      PROVE  TypeOK' /\ SlotOK'
  <2>1. slot[s].batch \in Batches
    BY <1>11, <1>s DEF BumpRetry
  <2>2. SlotGoal
    BY <1>11, GotoType DEF BumpRetry, Pcs, CatchPcs
  <2>3. retryCount' \in [Batches -> Nat]
    BY <1>11, <2>1 DEF BumpRetry, TypeOK
  <2>4. QED
    BY <1>11, <2>2, <2>3 DEF BumpRetry, TypeOK
<1>12. ASSUME NEW s \in Slots, MarkRetrying(s)
      PROVE  TypeOK' /\ SlotOK'
  <2>1. SlotGoal
    BY <1>12, GotoType DEF MarkRetrying, Pcs, CatchPcs
  <2>2. QED
    BY <1>12, <2>1, <1>s DEF MarkRetrying, TypeOK
<1>13. ASSUME NEW s \in Slots, Requeue(s)
      PROVE  TypeOK' /\ SlotOK'
  <2>1. slot[s].batch \in Batches
    BY <1>13, <1>s DEF Requeue
  <2>2. SlotGoal
    BY <1>13, GotoType DEF Requeue, Pcs
  <2>3. queue' \in [Batches -> Nat]
    BY <1>13, <2>1 DEF Requeue, TypeOK
  <2>4. QED
    BY <1>13, <2>2, <2>3 DEF Requeue, TypeOK
<1>14. ASSUME NEW s \in Slots, MarkFailed(s)
      PROVE  TypeOK' /\ SlotOK'
  <2> DEFINE v == [slot[s] EXCEPT !.pc = "count", !.delta = 0]
  <2>1. slot[s].batch \in Batches /\ slot[s] \in SlotType
    BY <1>14, <1>s DEF MarkFailed
  <2>2. v \in SlotType /\ v.batch \in Batches /\ v.pc # "write"
    BY <2>1 DEF SlotType, Pcs, TailPcs
  <2>3. slot' = [slot EXCEPT ![s] = v]
    BY <1>14 DEF MarkFailed, TypeOK
  <2> HIDE DEF v
  <2>4. SlotGoal
    BY <2>2, <2>3, SlotUpdate
  <2>5. batchStatus' \in [Batches -> BatchStatuses]
    BY <1>14, <2>1 DEF MarkFailed, TypeOK
  <2>6. QED
    BY <1>14, <2>4, <2>5 DEF MarkFailed, TypeOK
<1>15. ASSUME NEW s \in Slots, Ack(s)
      PROVE  TypeOK' /\ SlotOK'
  <2>1. Idle \in SlotType /\ Idle.pc = "idle"
    BY DEF Idle, SlotType, Pcs
  <2>2. SlotGoal
    BY <1>15, <2>1, SlotUpdate DEF Ack
  <2>3. QED
    BY <1>15, <2>2 DEF Ack, TypeOK
<1>16. CASE UNCHANGED vars
  BY <1>16 DEF vars, TypeOK, SlotOK
<1>17. QED
  BY <1>1, <1>2, <1>3, <1>4, <1>5, <1>6, <1>7, <1>8, <1>9, <1>10, <1>11, <1>12,
     <1>13, <1>14, <1>15, <1>16 DEF Next, Agent, Run

(* Type correctness: every column, entry and slot holds a value of its kind. *)
THEOREM TypeCorrect == Spec => [](TypeOK /\ SlotOK)
<1>1. QED
  BY InitType, NextType, PTL DEF Spec
-----------------------------------------------------------------------------
(* A step of the run in slot s leads to pc, on the same batch, and leaves the *)
(* other slots alone.                                                       *)
Moves(s, pc) ==
  /\ slot'[s].pc = pc
  /\ slot'[s].batch = slot[s].batch
  /\ slot'[s].verdict = slot[s].verdict
  /\ \A t \in Slots : t # s => slot'[t] = slot[t]

LEMMA GotoMoves ==
  ASSUME TypeOK, NEW s \in Slots, NEW pc \in Pcs, Goto(s, pc)
  PROVE  Moves(s, pc)
<1>1. slot[s] \in SlotType
  BY DEF TypeOK
<1>2. slot' = [slot EXCEPT ![s] = [slot[s] EXCEPT !.pc = pc]]
  BY DEF Goto
<1>3. slot'[s] = [slot[s] EXCEPT !.pc = pc]
  BY <1>2 DEF TypeOK
<1>4. QED
  BY <1>1, <1>2, <1>3 DEF Moves, SlotType, TypeOK

LEMMA UpsertMoves ==
  ASSUME TypeOK, NEW s \in Slots, Upsert(s)
  PROVE  Moves(s, "complete")
<1>1. slot[s] \in SlotType
  BY DEF TypeOK
<1>2. PICK n : slot' = [slot EXCEPT ![s] = [slot[s] EXCEPT !.pc = "complete", !.delta = n]]
  BY DEF Upsert, TypeOK
<1>3. slot'[s] = [slot[s] EXCEPT !.pc = "complete", !.delta = n]
  BY <1>2 DEF TypeOK
<1>4. QED
  BY <1>1, <1>2, <1>3 DEF Moves, SlotType, TypeOK

LEMMA CountMoves ==
  ASSUME TypeOK, NEW s \in Slots, Count(s)
  PROVE  Moves(s, IF batchesCompleted + 1 >= BatchCount THEN "read" ELSE "ack")
<1> DEFINE pc == IF batchesCompleted + 1 >= BatchCount THEN "read" ELSE "ack"
<1>1. slot[s] \in SlotType
  BY DEF TypeOK
<1>2. slot' = [slot EXCEPT ![s] = [slot[s] EXCEPT !.pc = pc]]
  BY DEF Count, AfterCount, TypeOK
<1>3. slot'[s] = [slot[s] EXCEPT !.pc = pc]
  BY <1>2 DEF TypeOK
<1> HIDE DEF pc
<1>4. Moves(s, pc)
  BY <1>1, <1>2, <1>3 DEF Moves, SlotType, TypeOK
<1>5. QED
  BY <1>4 DEF pc

LEMMA MarkFailedMoves ==
  ASSUME TypeOK, NEW s \in Slots, MarkFailed(s)
  PROVE  Moves(s, "count")
<1>1. slot[s] \in SlotType
  BY DEF TypeOK
<1>2. slot' = [slot EXCEPT ![s] = [slot[s] EXCEPT !.pc = "count", !.delta = 0]]
  BY DEF MarkFailed, TypeOK
<1>3. slot'[s] = [slot[s] EXCEPT !.pc = "count", !.delta = 0]
  BY <1>2 DEF TypeOK
<1>4. QED
  BY <1>1, <1>2, <1>3 DEF Moves, SlotType, TypeOK

(* The finalizer's read also takes down the status it derives.              *)
LEMMA FinalizeReadMoves ==
  ASSUME TypeOK, NEW s \in Slots, FinalizeRead(s)
  PROVE  /\ slot'[s].pc = "write"
         /\ slot'[s].batch = slot[s].batch
         /\ slot'[s].verdict = Verdict(batchStatus)
         /\ \A t \in Slots : t # s => slot'[t] = slot[t]
<1>1. slot[s] \in SlotType
  BY DEF TypeOK
<1>2. slot' = [slot EXCEPT ![s] = [slot[s] EXCEPT !.pc = "write",
                                                  !.verdict = Verdict(batchStatus)]]
  BY DEF FinalizeRead, TypeOK
<1>3. slot'[s] = [slot[s] EXCEPT !.pc = "write", !.verdict = Verdict(batchStatus)]
  BY <1>2 DEF TypeOK
<1>4. QED
  BY <1>1, <1>2, <1>3 DEF SlotType, TypeOK

LEMMA TakeMoves ==
  ASSUME TypeOK, NEW s \in Slots, NEW b \in Batches, Take(s, b)
  PROVE  /\ slot[s].pc = "idle"
         /\ slot'[s].pc = "start"
         /\ slot'[s].batch = b
         /\ \A t \in Slots : t # s => slot'[t] = slot[t]
<1>1. slot'[s] = [Idle EXCEPT !.pc = "start", !.batch = b]
  BY DEF Take, TypeOK
<1>2. QED
  BY <1>1 DEF Take, TypeOK, Idle

LEMMA AckMoves ==
  ASSUME TypeOK, NEW s \in Slots, Ack(s)
  PROVE  /\ slot[s].pc = "ack"
         /\ slot'[s].pc = "idle"
         /\ \A t \in Slots : t # s => slot'[t] = slot[t]
BY DEF Ack, TypeOK, Idle
-----------------------------------------------------------------------------
Core == TypeOK /\ SlotOK /\ DeliveryOK /\ StatusOK /\ NoStrandedBatch

(* While a slot works on a batch nothing else does.                          *)
LEMMA ActiveFacts ==
  ASSUME Core, NEW s \in Slots, Active(s)
  PROVE  /\ slot[s].batch \in Batches
         /\ slot[s].batch <= sent
         /\ sent > 0
         /\ queue[slot[s].batch] = 0
         /\ jobStatus # "none"
         /\ \A t \in Slots : Active(t) /\ t # s => slot[t].batch # slot[s].batch
<1>1. slot[s].batch \in Batches /\ slot[s].batch <= sent
  BY DEF Core, SlotOK, DeliveryOK, Active
<1>2. sent > 0
  BY <1>1 DEF Batches, Core, TypeOK
<1>3. queue[slot[s].batch] = 0
  BY <1>1 DEF Core, DeliveryOK, TypeOK
<1>4. jobStatus # "none"
  BY <1>2 DEF Core, StatusOK
<1>5. QED
  BY <1>1, <1>2, <1>3, <1>4 DEF Core, DeliveryOK

(* A step that starts no run and enqueues nothing keeps deliveries unique.   *)
LEMMA DeliveryKept ==
  ASSUME DeliveryOK, queue' = queue, sent' = sent,
         \A t \in Slots : Active(t)' => Active(t) /\ slot'[t].batch = slot[t].batch
  PROVE  DeliveryOK'
<1>1. ASSUME NEW b \in Batches, queue'[b] > 0
      PROVE  queue'[b] = 1 /\ b <= sent' /\ \A t \in Slots : Active(t)' => slot'[t].batch # b
  BY <1>1 DEF DeliveryOK
<1>2. ASSUME NEW t \in Slots, Active(t)'
      PROVE  slot'[t].batch <= sent'
  BY <1>2 DEF DeliveryOK
<1>3. ASSUME NEW t \in Slots, NEW u \in Slots, Active(t)', Active(u)',
             slot'[t].batch = slot'[u].batch
      PROVE  t = u
  <2>1. Active(t) /\ Active(u) /\ slot[t].batch = slot[u].batch
    BY <1>3
  <2>2. QED
    BY <2>1 DEF DeliveryOK
<1>4. QED
  BY <1>1, <1>2, <1>3 DEF DeliveryOK

(* A step inside a run that leaves the queue, the job and the other slots as  *)
(* they are, and writes at most the row of its own batch.                   *)
LEMMA InnerStep ==
  ASSUME Core, TypeOK', SlotOK', NEW s \in Slots, Active(s),
         NEW pc \in Pcs \ {"idle", "ack"}, Moves(s, pc),
         queue' = queue, sent' = sent, jobStatus' = jobStatus,
         \A b \in Batches : b # slot[s].batch => batchStatus'[b] = batchStatus[b],
         batchStatus'[slot[s].batch] # "absent",
         pc \in TailPcs <=> batchStatus'[slot[s].batch] \in Settled
  PROVE  Core'
<1>1. \A t \in Slots : Active(t)' => Active(t) /\ slot'[t].batch = slot[t].batch
  BY DEF Moves, Active
<1>2. DeliveryOK'
  BY <1>1, DeliveryKept DEF Core
<1>3. /\ slot[s].batch \in Batches
      /\ slot[s].batch <= sent
      /\ queue[slot[s].batch] = 0
      /\ jobStatus # "none"
      /\ \A t \in Slots : Active(t) /\ t # s => slot[t].batch # slot[s].batch
  BY ActiveFacts
<1>4. StatusOK'
  <2>1. \A b \in Batches : (jobStatus' = "none") <=> (batchStatus'[b] = "absent")
    BY <1>3 DEF Core, StatusOK
  <2>2. \A b \in Batches : batchStatus'[b] \in Settled => queue'[b] = 0 /\ b <= sent'
    BY <1>3 DEF Core, StatusOK
  <2>3. ASSUME NEW t \in Slots, Active(t)'
        PROVE  slot'[t].pc \in TailPcs <=> batchStatus'[slot'[t].batch] \in Settled
    <3>1. CASE t = s
      BY <3>1 DEF Moves
    <3>2. CASE t # s
      <4>1. slot'[t] = slot[t] /\ Active(t)
        BY <3>2, <2>3, <1>1 DEF Moves
      <4>2. slot[t].batch \in Batches /\ slot[t].batch # slot[s].batch
        BY <4>1, <3>2, <1>3, ActiveFacts
      <4>3. QED
        BY <4>1, <4>2 DEF Core, StatusOK
    <3>3. QED
      BY <3>1, <3>2
  <2>4. QED
    BY <2>1, <2>2, <2>3 DEF Core, StatusOK
<1>5. NoStrandedBatch'
  <2>1. SUFFICES ASSUME NEW b \in Batches, batchStatus'[b] \notin Settled,
                        ~(b > sent'), ~(queue'[b] > 0), jobStatus' # "none"
                 PROVE  \E t \in Slots : Active(t)' /\ slot'[t].batch = b
    BY DEF NoStrandedBatch
  <2>2. CASE b = slot[s].batch
    BY <2>2 DEF Moves, Active
  <2>3. CASE b # slot[s].batch
    <3>1. PICK t \in Slots : Active(t) /\ slot[t].batch = b
      BY <2>1, <2>3 DEF Core, NoStrandedBatch
    <3>2. slot'[t] = slot[t]
      BY <3>1, <2>3 DEF Moves
    <3>3. QED
      BY <3>1, <3>2 DEF Active
  <2>4. QED
    BY <2>2, <2>3
<1>6. QED
  BY <1>2, <1>4, <1>5 DEF Core

(* A run ends with its batch settled: the slot lets go of it.               *)
LEMMA EndStep ==
  ASSUME Core, TypeOK', SlotOK', NEW s \in Slots, Active(s), slot[s].pc \in TailPcs,
         Moves(s, "ack"),
         queue' = queue, sent' = sent, jobStatus # "none", jobStatus' # "none",
         batchStatus' = batchStatus
  PROVE  Core'
<1>1. \A t \in Slots : Active(t)' => Active(t) /\ slot'[t].batch = slot[t].batch
                                     /\ slot'[t] = slot[t]
  BY DEF Moves, Active
<1>2. DeliveryOK'
  BY <1>1, DeliveryKept DEF Core
<1>3. StatusOK'
  BY <1>1 DEF Core, StatusOK
<1>4. NoStrandedBatch'
  <2>1. SUFFICES ASSUME NEW b \in Batches, batchStatus[b] \notin Settled,
                        ~(b > sent), ~(queue[b] > 0)
                 PROVE  \E t \in Slots : Active(t)' /\ slot'[t].batch = b
    BY DEF NoStrandedBatch
  <2>2. PICK t \in Slots : Active(t) /\ slot[t].batch = b
    BY <2>1 DEF Core, NoStrandedBatch
  <2>3. t # s
    BY <2>1, <2>2 DEF Core, StatusOK
  <2>4. QED
    BY <2>2, <2>3 DEF Moves, Active
<1>5. QED
  BY <1>2, <1>3, <1>4 DEF Core

LEMMA CoreInit == Init => Core
<1> SUFFICES ASSUME Init PROVE Core
  OBVIOUS
<1>1. TypeOK /\ SlotOK
  BY InitType
<1>2. \A s \in Slots : slot[s].pc = "idle"
  BY DEF Init, Idle
<1>3. QED
  BY <1>1, <1>2 DEF Core, Init, DeliveryOK, StatusOK, NoStrandedBatch, Active, Batches

LEMMA CoreNext == Core /\ [Next]_vars => Core'
<1> SUFFICES ASSUME Core, [Next]_vars
             PROVE  Core'
  OBVIOUS
<1>t. TypeOK /\ SlotOK /\ TypeOK' /\ SlotOK'
  BY NextType DEF Core
<1> USE <1>t
<1> USE DEF jobRow
<1>1. CASE Plan
  <2>1. sent = 0 /\ \A s \in Slots : ~Active(s) /\ ~Active(s)'
    BY <1>1, ActiveFacts DEF Plan, Core, StatusOK, Active
  <2>2. \A b \in Batches : ~(queue[b] > 0)
    BY <2>1 DEF Core, DeliveryOK, Batches
  <2>3. DeliveryOK'
    BY <1>1, <2>1, <2>2 DEF Plan, DeliveryOK
  <2>4. StatusOK'
    BY <1>1, <2>1 DEF Plan, StatusOK, TypeOK
  <2>5. NoStrandedBatch'
    BY <1>1, <2>1 DEF Plan, NoStrandedBatch, Batches
  <2>6. QED
    BY <2>3, <2>4, <2>5 DEF Core
<1>2. CASE Enqueue
  <2>1. sent + 1 \in Batches /\ sent' = sent + 1 /\ jobStatus # "none"
    BY <1>2 DEF Enqueue, TypeOK, Batches
  <2>2. queue[sent + 1] = 0 /\ queue'[sent + 1] = 1
        /\ \A b \in Batches : b # sent + 1 => queue'[b] = queue[b]
    BY <1>2, <2>1 DEF Enqueue, Core, DeliveryOK, TypeOK, Batches
  <2>3. \A s \in Slots : Active(s) => slot[s].batch <= sent /\ slot[s].batch \in Batches
    BY ActiveFacts
  <2>4. \A s \in Slots : Active(s)' <=> Active(s)
    BY <1>2 DEF Enqueue, Active
  <2>5. DeliveryOK'
    <3>1. slot' = slot
      BY <1>2 DEF Enqueue
    <3>n. sent \in Nat /\ \A b \in Batches : b \in Nat
      BY DEF TypeOK, Batches
    <3>2. ASSUME NEW b \in Batches, queue'[b] > 0
          PROVE  queue'[b] = 1 /\ b <= sent' /\ \A t \in Slots : Active(t)' => slot'[t].batch # b
      <4>1. CASE b = sent + 1
        BY <4>1, <3>1, <3>n, <2>1, <2>2, <2>3, <2>4
      <4>2. CASE b # sent + 1
        BY <4>2, <3>1, <3>2, <3>n, <2>1, <2>2, <2>4 DEF Core, DeliveryOK
      <4>3. QED
        BY <4>1, <4>2
    <3>3. ASSUME NEW t \in Slots, Active(t)'
          PROVE  slot'[t].batch <= sent'
      BY <3>1, <3>3, <3>n, <2>1, <2>3, <2>4
    <3>4. \A t, u \in Slots :
            Active(t)' /\ Active(u)' /\ slot'[t].batch = slot'[u].batch => t = u
      BY <3>1, <2>4 DEF Core, DeliveryOK
    <3>5. QED
      BY <3>2, <3>3, <3>4 DEF DeliveryOK
  <2>6. StatusOK'
    BY <1>2, <2>1, <2>2, <2>4 DEF Enqueue, Core, StatusOK, Batches, TypeOK
  <2>7. NoStrandedBatch'
    BY <1>2, <2>1, <2>2, <2>4 DEF Enqueue, Core, NoStrandedBatch, Batches, TypeOK
  <2>8. QED
    BY <2>5, <2>6, <2>7 DEF Core
<1>3. ASSUME NEW s \in Slots, NEW b \in Batches, Take(s, b)
      PROVE  Core'
  <2>1. /\ slot[s].pc = "idle"
        /\ slot'[s].pc = "start"
        /\ slot'[s].batch = b
        /\ \A t \in Slots : t # s => slot'[t] = slot[t]
    BY <1>3, TakeMoves
  <2>2. queue[b] = 1 /\ queue'[b] = 0 /\ b <= sent
        /\ \A c \in Batches : c # b => queue'[c] = queue[c]
    BY <1>3 DEF Take, Core, DeliveryOK, TypeOK
  <2>3. \A t \in Slots : Active(t) => slot[t].batch # b
    BY <2>2 DEF Core, DeliveryOK
  <2>4. \A t \in Slots : t # s => (Active(t)' <=> Active(t))
    BY <2>1 DEF Active
  <2>5. ~Active(s) /\ Active(s)'
    BY <2>1 DEF Active
  <2>6. DeliveryOK'
    <3>1. \A c \in Batches : queue'[c] > 0 =>
            queue'[c] = 1 /\ c <= sent' /\ \A t \in Slots : Active(t)' => slot'[t].batch # c
      BY <1>3, <2>1, <2>2, <2>4 DEF Take, Core, DeliveryOK
    <3>2. \A t \in Slots : Active(t)' => slot'[t].batch <= sent'
      BY <1>3, <2>1, <2>2, <2>4 DEF Take, Core, DeliveryOK
    <3>3. \A t, u \in Slots :
            Active(t)' /\ Active(u)' /\ slot'[t].batch = slot'[u].batch => t = u
      BY <2>1, <2>3, <2>4 DEF Core, DeliveryOK
    <3>4. QED
      BY <3>1, <3>2, <3>3 DEF DeliveryOK
  <2>7. StatusOK'
    <3>1. batchStatus[b] \notin Settled
      BY <2>2 DEF Core, StatusOK
    <3>2. \A t \in Slots : Active(t)' =>
            (slot'[t].pc \in TailPcs <=> batchStatus'[slot'[t].batch] \in Settled)
      BY <1>3, <3>1, <2>1, <2>4 DEF Take, Core, StatusOK, TailPcs
    <3>3. \A c \in Batches : batchStatus'[c] \in Settled => queue'[c] = 0 /\ c <= sent'
      BY <1>3, <2>2 DEF Take, Core, StatusOK
    <3>4. QED
      BY <1>3, <3>2, <3>3 DEF Take, Core, StatusOK
  <2>8. NoStrandedBatch'
    BY <1>3, <2>1, <2>2, <2>4, <2>5 DEF Take, Core, NoStrandedBatch
  <2>9. QED
    BY <2>6, <2>7, <2>8 DEF Core
<1>4. ASSUME NEW s \in Slots, MarkProcessing(s)
      PROVE  Core'
  <2>1. Active(s) /\ Moves(s, "llm")
    BY <1>4, GotoMoves DEF MarkProcessing, Active, Pcs, TryPcs
  <2>2. slot[s].batch \in Batches
    BY <2>1, ActiveFacts
  <2>3. QED
    BY <1>4, <2>1, <2>2, InnerStep DEF MarkProcessing, TypeOK, Pcs, TryPcs, TailPcs
<1>5. ASSUME NEW s \in Slots, Upsert(s)
      PROVE  Core'
  <2>1. Active(s) /\ Moves(s, "complete")
    BY <1>5, UpsertMoves DEF Upsert, Active
  <2>2. batchStatus[slot[s].batch] \notin Settled \cup {"absent"}
    BY <1>5, <2>1, ActiveFacts DEF Upsert, Core, StatusOK, TailPcs
  <2>3. QED
    BY <1>5, <2>1, <2>2, InnerStep DEF Upsert, Pcs, TryPcs, TailPcs
<1>6. ASSUME NEW s \in Slots, AttemptFails(s)
      PROVE  Core'
  <2>1. Active(s) /\ Moves(s, "bump")
    BY <1>6, GotoMoves DEF AttemptFails, Active, Pcs, CatchPcs
  <2>2. batchStatus[slot[s].batch] \notin Settled \cup {"absent"}
    BY <1>6, <2>1, ActiveFacts DEF AttemptFails, Core, StatusOK, TailPcs
  <2>3. QED
    BY <1>6, <2>1, <2>2, InnerStep DEF AttemptFails, Pcs, CatchPcs, TailPcs
<1>7. ASSUME NEW s \in Slots, MarkCompleted(s)
      PROVE  Core'
  <2>1. Active(s) /\ Moves(s, "count")
    BY <1>7, GotoMoves DEF MarkCompleted, Active, Pcs, TailPcs
  <2>2. slot[s].batch \in Batches
    BY <2>1, ActiveFacts
  <2>3. QED
    BY <1>7, <2>1, <2>2, InnerStep DEF MarkCompleted, TypeOK, Pcs, TailPcs
<1>8. ASSUME NEW s \in Slots, Count(s)
      PROVE  Core'
  <2>1. Active(s) /\ slot[s].pc \in TailPcs
    BY <1>8 DEF Count, Active, TailPcs
  <2>2. batchStatus[slot[s].batch] \in Settled /\ jobStatus # "none"
    BY <2>1, ActiveFacts DEF Core, StatusOK
  <2>3. CASE batchesCompleted + 1 >= BatchCount
    <3>1. Moves(s, "read")
      BY <1>8, <2>3, CountMoves
    <3>2. QED
      BY <1>8, <2>1, <2>2, <3>1, InnerStep DEF Count, Pcs, TailPcs
  <2>4. CASE ~(batchesCompleted + 1 >= BatchCount)
    <3>1. Moves(s, "ack")
      BY <1>8, <2>4, CountMoves
    <3>2. QED
      BY <1>8, <2>1, <2>2, <3>1, EndStep DEF Count
  <2>5. QED
    BY <2>3, <2>4
<1>9. ASSUME NEW s \in Slots, FinalizeRead(s)
      PROVE  Core'
  <2>1. /\ slot'[s].pc = "write"
        /\ slot'[s].batch = slot[s].batch
        /\ \A t \in Slots : t # s => slot'[t] = slot[t]
    BY <1>9, FinalizeReadMoves
  <2>2. \A t \in Slots : /\ Active(t)' <=> Active(t)
                         /\ slot'[t].batch = slot[t].batch
                         /\ slot'[t].pc \in TailPcs <=> slot[t].pc \in TailPcs
    BY <1>9, <2>1 DEF FinalizeRead, Active, TailPcs
  <2>3. DeliveryOK'
    BY <1>9, <2>2, DeliveryKept DEF FinalizeRead, Core
  <2>4. StatusOK'
    BY <1>9, <2>2 DEF FinalizeRead, Core, StatusOK
  <2>5. NoStrandedBatch'
    BY <1>9, <2>2 DEF FinalizeRead, Core, NoStrandedBatch
  <2>6. QED
    BY <2>3, <2>4, <2>5 DEF Core
<1>10. ASSUME NEW s \in Slots, FinalizeWrite(s)
      PROVE  Core'
  <2>1. Active(s) /\ slot[s].pc \in TailPcs /\ Moves(s, "ack")
    BY <1>10, GotoMoves DEF FinalizeWrite, Active, TailPcs, Pcs
  <2>2. jobStatus # "none" /\ slot[s].batch \in Batches
    BY <2>1, ActiveFacts
  <2>3. jobStatus' # "none"
    BY <1>10 DEF FinalizeWrite, SlotOK
  <2>4. QED
    BY <1>10, <2>1, <2>2, <2>3, EndStep DEF FinalizeWrite
<1>11. ASSUME NEW s \in Slots, BumpRetry(s)
      PROVE  Core'
  <2>1. PICK pc \in {"retrying", "failed"} : Moves(s, pc)
    BY <1>11, GotoMoves DEF BumpRetry, Pcs, CatchPcs
  <2>2. Active(s)
    BY <1>11 DEF BumpRetry, Active
  <2>3. batchStatus[slot[s].batch] \notin Settled \cup {"absent"}
    BY <1>11, <2>2, ActiveFacts DEF BumpRetry, Core, StatusOK, TailPcs
  <2>4. QED
    BY <1>11, <2>1, <2>2, <2>3, InnerStep DEF BumpRetry, Pcs, CatchPcs, TailPcs
<1>12. ASSUME NEW s \in Slots, MarkRetrying(s)
      PROVE  Core'
  <2>1. Active(s) /\ Moves(s, "requeue")
    BY <1>12, GotoMoves DEF MarkRetrying, Active, Pcs, CatchPcs
  <2>2. slot[s].batch \in Batches
    BY <2>1, ActiveFacts
  <2>3. QED
    BY <1>12, <2>1, <2>2, InnerStep DEF MarkRetrying, TypeOK, Pcs, CatchPcs, TailPcs
<1>13. ASSUME NEW s \in Slots, Requeue(s)
      PROVE  Core'
  <2> DEFINE b == slot[s].batch
  <2>1. Active(s) /\ Moves(s, "ack")
    BY <1>13, GotoMoves DEF Requeue, Active, Pcs
  <2>2. /\ b \in Batches
        /\ b <= sent
        /\ queue[b] = 0
        /\ jobStatus # "none"
        /\ \A t \in Slots : Active(t) /\ t # s => slot[t].batch # b
    BY <2>1, ActiveFacts
  <2>3. queue'[b] = 1 /\ \A c \in Batches : c # b => queue'[c] = queue[c]
    BY <1>13, <2>2 DEF Requeue, TypeOK
  <2>4. batchStatus[b] \notin Settled
    BY <1>13, <2>1 DEF Requeue, Core, StatusOK, TailPcs
  <2>5. \A t \in Slots : Active(t)' => Active(t) /\ t # s /\ slot'[t] = slot[t]
    BY <2>1 DEF Moves, Active
  <2>6. \A t \in Slots : t # s /\ Active(t) => Active(t)' /\ slot'[t] = slot[t]
    BY <2>1 DEF Moves, Active
  <2>7. DeliveryOK'
    <3>1. \A c \in Batches : queue'[c] > 0 =>
            queue'[c] = 1 /\ c <= sent' /\ \A t \in Slots : Active(t)' => slot'[t].batch # c
      BY <1>13, <2>2, <2>3, <2>5 DEF Requeue, Core, DeliveryOK
    <3>2. QED
      BY <1>13, <3>1, <2>5 DEF Requeue, Core, DeliveryOK
  <2>8. StatusOK'
    BY <1>13, <2>3, <2>4, <2>5 DEF Requeue, Core, StatusOK
  <2>9. NoStrandedBatch'
    <3>1. SUFFICES ASSUME NEW c \in Batches, batchStatus[c] \notin Settled,
                          ~(c > sent), ~(queue'[c] > 0)
                   PROVE  \E t \in Slots : Active(t)' /\ slot'[t].batch = c
      BY <1>13 DEF Requeue, NoStrandedBatch
    <3>2. c # b /\ ~(queue[c] > 0)
      BY <3>1, <2>3
    <3>3. PICK t \in Slots : Active(t) /\ slot[t].batch = c
      BY <3>1, <3>2, <2>2 DEF Core, NoStrandedBatch
    <3>4. QED
      BY <3>2, <3>3, <2>6
  <2>10. QED
    BY <2>7, <2>8, <2>9 DEF Core
<1>14. ASSUME NEW s \in Slots, MarkFailed(s)
      PROVE  Core'
  <2>1. Active(s) /\ Moves(s, "count")
    BY <1>14, MarkFailedMoves DEF MarkFailed, Active
  <2>2. slot[s].batch \in Batches
    BY <2>1, ActiveFacts
  <2>3. QED
    BY <1>14, <2>1, <2>2, InnerStep DEF MarkFailed, TypeOK, Pcs, TailPcs
<1>15. ASSUME NEW s \in Slots, Ack(s)
      PROVE  Core'
  <2>1. \A t \in Slots : /\ Active(t)' <=> Active(t)
                         /\ Active(t) => slot'[t] = slot[t]
    BY <1>15, AckMoves DEF Active
  <2>2. DeliveryOK'
    BY <1>15, <2>1, DeliveryKept DEF Ack, Core
  <2>3. StatusOK'
    BY <1>15, <2>1 DEF Ack, Core, StatusOK
  <2>4. NoStrandedBatch'
    BY <1>15, <2>1 DEF Ack, Core, NoStrandedBatch
  <2>5. QED
    BY <2>2, <2>3, <2>4 DEF Core
<1>16. CASE UNCHANGED vars
  BY <1>16 DEF vars, Core, DeliveryOK, StatusOK, NoStrandedBatch, Active
<1>17. QED
  BY <1>1, <1>2, <1>3, <1>4, <1>5, <1>6, <1>7, <1>8, <1>9, <1>10, <1>11, <1>12,
     <1>13, <1>14, <1>15, <1>16 DEF Next, Agent, Run

(* No batch is lost: one that is not settled is still going to be attempted. *)
THEOREM NoBatchStranded == Spec => []NoStrandedBatch
<1>1. Core => NoStrandedBatch
  BY DEF Core
<1>2. QED
  BY <1>1, CoreInit, CoreNext, PTL DEF Spec
-----------------------------------------------------------------------------
(* The counter and the verdict.                                             *)
FinalPcs == {"read", "write"}

(* One run at most finalizes, when every batch is counted, and what it has  *)
(* read is what the rows still say when it writes.                          *)
FinalOK ==
  /\ \A s \in Slots : slot[s].pc \in FinalPcs =>
       batchesCompleted = BatchCount /\ jobStatus \notin Verdicts
  /\ \A s, t \in Slots : slot[s].pc \in FinalPcs /\ slot[t].pc \in FinalPcs => s = t
  /\ \A s \in Slots : slot[s].pc = "write" => slot[s].verdict = Verdict(batchStatus)
  /\ jobStatus \in Verdicts =>
       batchesCompleted = BatchCount /\ jobStatus = Verdict(batchStatus)

IInv == Core /\ CountMatches /\ FinalOK
-----------------------------------------------------------------------------
LEMMA BatchesFinite == IsFiniteSet(Batches) /\ Cardinality(Batches) = BatchCount
BY FS_Interval DEF Batches

(* The batches that are counted are a finite set, all of them or fewer.      *)
LEMMA CountedFacts ==
  /\ IsFiniteSet(CountedBatches)
  /\ Cardinality(CountedBatches) \in Nat
  /\ Cardinality(CountedBatches) <= BatchCount
  /\ Cardinality(CountedBatches) = BatchCount => CountedBatches = Batches
<1>1. CountedBatches \in SUBSET Batches
  BY DEF CountedBatches
<1>2. QED
  BY <1>1, BatchesFinite, FS_Subset, FS_CardinalityType

(* A batch outside the count leaves the counter below its limit.            *)
LEMMA NotYetFull ==
  ASSUME CountMatches, NEW b \in Batches, b \notin CountedBatches
  PROVE  batchesCompleted \in Nat /\ batchesCompleted < BatchCount
BY CountedFacts DEF CountMatches

(* At its limit the counter says that every batch is settled and that only   *)
(* a finalizer can still be at work.                                        *)
LEMMA FullMeansSettled ==
  ASSUME Core, CountMatches, batchesCompleted = BatchCount
  PROVE  /\ \A b \in Batches : batchStatus[b] \in Settled
         /\ \A s \in Slots : Active(s) => slot[s].pc \in FinalPcs
<1>1. CountedBatches = Batches
  BY CountedFacts DEF CountMatches
<1>2. \A b \in Batches : batchStatus[b] \in Settled
  BY <1>1 DEF CountedBatches
<1>3. ASSUME NEW s \in Slots, Active(s)
      PROVE  slot[s].pc \in FinalPcs
  <2>1. slot[s].batch \in Batches
    BY <1>3, ActiveFacts
  <2>2. slot[s].pc \in TailPcs
    BY <2>1, <1>2, <1>3 DEF Core, StatusOK
  <2>3. slot[s].pc # "count"
    BY <2>1, <1>1 DEF CountedBatches
  <2>4. QED
    BY <2>2, <2>3 DEF TailPcs, FinalPcs
<1>4. QED
  BY <1>2, <1>3

(* The step of a slot that is not at "count" before or after, and leaves the *)
(* rows alone, changes nothing that is counted.                             *)
LEMMA CountKept ==
  ASSUME CountMatches, batchesCompleted' = batchesCompleted,
         \A b \in Batches : b \in CountedBatches' <=> b \in CountedBatches
  PROVE  CountMatches'
<1>1. CountedBatches' = CountedBatches
  BY DEF CountedBatches
<1>2. QED
  BY <1>1 DEF CountMatches

LEMMA CountKeptByRun ==
  ASSUME CountMatches, batchesCompleted' = batchesCompleted, batchStatus' = batchStatus,
         NEW s \in Slots, slot[s].pc # "count", slot'[s].pc # "count",
         \A t \in Slots : t # s => slot'[t] = slot[t]
  PROVE  CountMatches'
<1>1. ASSUME NEW t \in Slots, NEW b \in Batches
      PROVE  (slot'[t].pc = "count" /\ slot'[t].batch = b)
               <=> (slot[t].pc = "count" /\ slot[t].batch = b)
  BY <1>1
<1>2. \A b \in Batches : b \in CountedBatches' <=> b \in CountedBatches
  BY <1>1 DEF CountedBatches
<1>3. QED
  BY <1>2, CountKept

(* A run that writes the row of its batch, before it is counted, leaves the  *)
(* batch uncounted.                                                         *)
LEMMA CountKeptByWrite ==
  ASSUME Core, CountMatches, batchesCompleted' = batchesCompleted,
         NEW s \in Slots, Active(s), slot[s].pc \notin TailPcs,
         NEW pc, Moves(s, pc),
         \A b \in Batches : b # slot[s].batch => batchStatus'[b] = batchStatus[b],
         pc = "count" \/ batchStatus'[slot[s].batch] \notin Settled
  PROVE  CountMatches'
<1> DEFINE c == slot[s].batch
<1>1. c \in Batches
  BY ActiveFacts
<1>2. batchStatus[c] \notin Settled
  BY <1>1 DEF Core, StatusOK
<1>3. c \notin CountedBatches
  BY <1>2 DEF CountedBatches
<1>4. c \notin CountedBatches'
  BY DEF CountedBatches, Moves
<1>5. ASSUME NEW b \in Batches, b # c
      PROVE  b \in CountedBatches' <=> b \in CountedBatches
  <2>1. \A t \in Slots : (slot'[t].pc = "count" /\ slot'[t].batch = b)
                           <=> (slot[t].pc = "count" /\ slot[t].batch = b)
    BY <1>5 DEF Moves
  <2>2. QED
    BY <1>5, <2>1 DEF CountedBatches
<1>6. QED
  BY <1>3, <1>4, <1>5, CountKept

(* finalizeJobProgress moves one batch into the count, and adds one.        *)
LEMMA CountStep ==
  ASSUME Core, CountMatches, NEW s \in Slots, Count(s)
  PROVE  /\ CountMatches'
         /\ batchesCompleted \in Nat
         /\ batchesCompleted < BatchCount
         /\ slot[s].batch \in Batches \ CountedBatches
         /\ CountedBatches' = CountedBatches \cup {slot[s].batch}
<1> DEFINE c == slot[s].batch
<1>1. Active(s) /\ slot[s].pc = "count"
  BY DEF Count, Active
<1>2. c \in Batches /\ \A t \in Slots : Active(t) /\ t # s => slot[t].batch # c
  BY <1>1, ActiveFacts
<1>3. batchStatus[c] \in Settled
  BY <1>1, <1>2 DEF Core, StatusOK, TailPcs
<1>4. c \notin CountedBatches
  BY <1>1 DEF CountedBatches
<1>5. PICK pc \in {"read", "ack"} : Moves(s, pc)
  BY CountMoves DEF Core
<1>6. c \in CountedBatches'
  <2>1. \A t \in Slots : ~(slot'[t].pc = "count" /\ slot'[t].batch = c)
    BY <1>2, <1>5 DEF Moves, Active
  <2>2. QED
    BY <2>1, <1>2, <1>3 DEF CountedBatches, Count
<1>7. ASSUME NEW b \in Batches, b # c
      PROVE  b \in CountedBatches' <=> b \in CountedBatches
  <2>1. \A t \in Slots : (slot'[t].pc = "count" /\ slot'[t].batch = b)
                           <=> (slot[t].pc = "count" /\ slot[t].batch = b)
    BY <1>7, <1>5, <1>1 DEF Moves
  <2>2. QED
    BY <1>7, <2>1 DEF CountedBatches, Count
<1>8. CountedBatches' = CountedBatches \cup {c}
  <2>1. CountedBatches \subseteq Batches /\ CountedBatches' \subseteq Batches
    BY DEF CountedBatches
  <2>2. QED
    BY <2>1, <1>2, <1>6, <1>7
<1>9. Cardinality(CountedBatches') = Cardinality(CountedBatches) + 1
  BY <1>4, <1>8, CountedFacts, FS_AddElement
<1>10. QED
  BY <1>2, <1>4, <1>8, <1>9, NotYetFull DEF CountMatches, Count

LEMMA CountNext == Core /\ CountMatches /\ [Next]_vars => CountMatches'
<1> SUFFICES ASSUME Core, CountMatches, [Next]_vars
             PROVE  CountMatches'
  OBVIOUS
<1>t. TypeOK
  BY DEF Core
<1> USE <1>t DEF jobRow
<1>1. CASE Plan
  <2>1. \A b \in Batches : batchStatus[b] \notin Settled /\ batchStatus'[b] \notin Settled
    BY <1>1 DEF Plan, Core, StatusOK
  <2>2. \A b \in Batches : b \in CountedBatches' <=> b \in CountedBatches
    BY <2>1 DEF CountedBatches
  <2>3. QED
    BY <1>1, <2>2, CountKept DEF Plan
<1>2. CASE Enqueue
  BY <1>2, CountKept DEF Enqueue, CountedBatches
<1>3. ASSUME NEW s \in Slots, NEW b \in Batches, Take(s, b)
      PROVE  CountMatches'
  <2>1. /\ slot[s].pc # "count" /\ slot'[s].pc # "count"
        /\ \A t \in Slots : t # s => slot'[t] = slot[t]
    BY <1>3, TakeMoves DEF Take
  <2>2. QED
    BY <1>3, <2>1, CountKeptByRun DEF Take
<1>4. ASSUME NEW s \in Slots, MarkProcessing(s)
      PROVE  CountMatches'
  <2>1. Active(s) /\ slot[s].pc \notin TailPcs /\ Moves(s, "llm")
    BY <1>4, GotoMoves DEF MarkProcessing, Active, Pcs, TryPcs, TailPcs
  <2>2. slot[s].batch \in Batches
    BY <2>1, ActiveFacts
  <2>3. batchStatus'[slot[s].batch] \notin Settled
    BY <1>4, <2>2 DEF MarkProcessing, TypeOK
  <2>4. \A b \in Batches : b # slot[s].batch => batchStatus'[b] = batchStatus[b]
    BY <1>4 DEF MarkProcessing, TypeOK
  <2>5. QED
    BY <1>4, <2>1, <2>3, <2>4, CountKeptByWrite DEF MarkProcessing
<1>5. ASSUME NEW s \in Slots, Upsert(s)
      PROVE  CountMatches'
  <2>1. slot[s].pc # "count" /\ Moves(s, "complete")
    BY <1>5, UpsertMoves DEF Upsert
  <2>2. QED
    BY <1>5, <2>1, CountKeptByRun DEF Upsert, Moves
<1>6. ASSUME NEW s \in Slots, AttemptFails(s)
      PROVE  CountMatches'
  <2>1. slot[s].pc # "count" /\ Moves(s, "bump")
    BY <1>6, GotoMoves DEF AttemptFails, Pcs, CatchPcs
  <2>2. QED
    BY <1>6, <2>1, CountKeptByRun DEF AttemptFails, Moves
<1>7. ASSUME NEW s \in Slots, MarkCompleted(s)
      PROVE  CountMatches'
  <2>1. Active(s) /\ slot[s].pc \notin TailPcs /\ Moves(s, "count")
    BY <1>7, GotoMoves DEF MarkCompleted, Active, Pcs, TailPcs
  <2>2. \A b \in Batches : b # slot[s].batch => batchStatus'[b] = batchStatus[b]
    BY <1>7 DEF MarkCompleted, TypeOK
  <2>3. QED
    BY <1>7, <2>1, <2>2, CountKeptByWrite DEF MarkCompleted
<1>8. ASSUME NEW s \in Slots, Count(s)
      PROVE  CountMatches'
  BY <1>8, CountStep
<1>9. ASSUME NEW s \in Slots, FinalizeRead(s)
      PROVE  CountMatches'
  <2>1. /\ slot[s].pc # "count" /\ slot'[s].pc # "count"
        /\ \A t \in Slots : t # s => slot'[t] = slot[t]
    BY <1>9, FinalizeReadMoves DEF FinalizeRead
  <2>2. QED
    BY <1>9, <2>1, CountKeptByRun DEF FinalizeRead
<1>10. ASSUME NEW s \in Slots, FinalizeWrite(s)
       PROVE  CountMatches'
  <2>1. slot[s].pc # "count" /\ Moves(s, "ack")
    BY <1>10, GotoMoves DEF FinalizeWrite, Pcs
  <2>2. QED
    BY <1>10, <2>1, CountKeptByRun DEF FinalizeWrite, Moves
<1>11. ASSUME NEW s \in Slots, BumpRetry(s)
       PROVE  CountMatches'
  <2>1. PICK pc \in {"retrying", "failed"} : Moves(s, pc)
    BY <1>11, GotoMoves DEF BumpRetry, Pcs, CatchPcs
  <2>2. QED
    BY <1>11, <2>1, CountKeptByRun DEF BumpRetry, Moves
<1>12. ASSUME NEW s \in Slots, MarkRetrying(s)
       PROVE  CountMatches'
  <2>1. Active(s) /\ slot[s].pc \notin TailPcs /\ Moves(s, "requeue")
    BY <1>12, GotoMoves DEF MarkRetrying, Active, Pcs, CatchPcs, TailPcs
  <2>2. slot[s].batch \in Batches
    BY <2>1, ActiveFacts
  <2>3. batchStatus'[slot[s].batch] \notin Settled
    BY <1>12, <2>2 DEF MarkRetrying, TypeOK
  <2>4. \A b \in Batches : b # slot[s].batch => batchStatus'[b] = batchStatus[b]
    BY <1>12 DEF MarkRetrying, TypeOK
  <2>5. QED
    BY <1>12, <2>1, <2>3, <2>4, CountKeptByWrite DEF MarkRetrying
<1>13. ASSUME NEW s \in Slots, Requeue(s)
       PROVE  CountMatches'
  <2>1. slot[s].pc # "count" /\ Moves(s, "ack")
    BY <1>13, GotoMoves DEF Requeue, Pcs
  <2>2. QED
    BY <1>13, <2>1, CountKeptByRun DEF Requeue, Moves
<1>14. ASSUME NEW s \in Slots, MarkFailed(s)
       PROVE  CountMatches'
  <2>1. Active(s) /\ slot[s].pc \notin TailPcs /\ Moves(s, "count")
    BY <1>14, MarkFailedMoves DEF MarkFailed, Active, TailPcs
  <2>2. \A b \in Batches : b # slot[s].batch => batchStatus'[b] = batchStatus[b]
    BY <1>14 DEF MarkFailed, TypeOK
  <2>3. QED
    BY <1>14, <2>1, <2>2, CountKeptByWrite DEF MarkFailed
<1>15. ASSUME NEW s \in Slots, Ack(s)
       PROVE  CountMatches'
  <2>1. /\ slot[s].pc # "count" /\ slot'[s].pc # "count"
        /\ \A t \in Slots : t # s => slot'[t] = slot[t]
    BY <1>15, AckMoves DEF Ack
  <2>2. QED
    BY <1>15, <2>1, CountKeptByRun DEF Ack
<1>16. CASE UNCHANGED vars
  BY <1>16, CountKept DEF vars, CountedBatches
<1>17. QED
  BY <1>1, <1>2, <1>3, <1>4, <1>5, <1>6, <1>7, <1>8, <1>9, <1>10, <1>11, <1>12,
     <1>13, <1>14, <1>15, <1>16 DEF Next, Agent, Run

LEMMA CountInit == Init => CountMatches
<1> SUFFICES ASSUME Init PROVE CountMatches
  OBVIOUS
<1>1. CountedBatches = {}
  BY DEF Init, CountedBatches
<1>2. QED
  BY <1>1, FS_EmptySet DEF Init, CountMatches

(* The job's counter is the number of settled batches: each is counted once, *)
(* whatever attempts it took and however the slots interleave.              *)
THEOREM EachBatchCountedOnce == Spec => []CountMatches
<1>1. Core /\ CountMatches /\ [Next]_vars => Core' /\ CountMatches'
  BY CoreNext, CountNext
<1>2. Init => Core /\ CountMatches
  BY CoreInit, CountInit
<1>3. QED
  BY <1>1, <1>2, PTL DEF Spec
-----------------------------------------------------------------------------
(* A step that neither counts nor finalizes: the rows can only change while  *)
(* the counter is below its limit.                                          *)
LEMMA FinalKept ==
  ASSUME FinalOK, jobStatus' = jobStatus, batchesCompleted' = batchesCompleted,
         batchesCompleted = BatchCount => batchStatus' = batchStatus,
         \A t \in Slots : slot'[t].pc \in FinalPcs =>
           slot'[t].pc = slot[t].pc /\ slot'[t].verdict = slot[t].verdict
  PROVE  FinalOK'
<1>1. \A t \in Slots : slot'[t].pc \in FinalPcs =>
        batchesCompleted = BatchCount /\ jobStatus \notin Verdicts
  BY DEF FinalOK
<1>2. \A t, u \in Slots : slot'[t].pc \in FinalPcs /\ slot'[u].pc \in FinalPcs => t = u
  BY DEF FinalOK
<1>3. ASSUME NEW t \in Slots, slot'[t].pc = "write"
      PROVE  slot'[t].verdict = Verdict(batchStatus')
  <2>1. slot[t].pc = "write" /\ slot'[t].verdict = slot[t].verdict
    BY <1>3 DEF FinalPcs
  <2>2. batchStatus' = batchStatus
    BY <2>1 DEF FinalOK, FinalPcs
  <2>3. QED
    BY <2>1, <2>2 DEF FinalOK
<1>4. jobStatus \in Verdicts =>
        batchesCompleted = BatchCount /\ jobStatus = Verdict(batchStatus')
  BY DEF FinalOK
<1>5. QED
  BY <1>1, <1>2, <1>3, <1>4 DEF FinalOK

(* The same for the step of one run to a point that does not finalize.      *)
LEMMA FinalKeptByRun ==
  ASSUME FinalOK, jobStatus' = jobStatus, batchesCompleted' = batchesCompleted,
         batchesCompleted = BatchCount => batchStatus' = batchStatus,
         NEW s \in Slots, NEW pc, pc \notin FinalPcs, Moves(s, pc)
  PROVE  FinalOK'
<1>1. \A t \in Slots : slot'[t].pc \in FinalPcs =>
        slot'[t].pc = slot[t].pc /\ slot'[t].verdict = slot[t].verdict
  BY DEF Moves
<1>2. QED
  BY <1>1, FinalKept

LEMMA FinalNext == Core /\ CountMatches /\ FinalOK /\ [Next]_vars => FinalOK'
<1> SUFFICES ASSUME Core, CountMatches, FinalOK, [Next]_vars
             PROVE  FinalOK'
  OBVIOUS
<1>t. TypeOK
  BY DEF Core
<1> USE <1>t DEF jobRow
<1>1. CASE Plan
  <2>1. 1 \in Batches /\ batchStatus[1] \notin Settled
    BY <1>1 DEF Plan, Core, StatusOK, Batches
  <2>2. batchesCompleted # BatchCount
    BY <2>1, FullMeansSettled
  <2>3. \A t \in Slots : slot[t].pc \notin FinalPcs
    BY <2>2 DEF FinalOK
  <2>4. QED
    BY <1>1, <2>3 DEF Plan, FinalOK, FinalPcs
<1>2. CASE Enqueue
  BY <1>2, FinalKept DEF Enqueue
<1>3. ASSUME NEW s \in Slots, NEW b \in Batches, Take(s, b)
      PROVE  FinalOK'
  <2>1. /\ slot'[s].pc \notin FinalPcs
        /\ \A t \in Slots : t # s => slot'[t] = slot[t]
    BY <1>3, TakeMoves DEF FinalPcs
  <2>2. \A t \in Slots : slot'[t].pc \in FinalPcs =>
          slot'[t].pc = slot[t].pc /\ slot'[t].verdict = slot[t].verdict
    BY <2>1
  <2>3. QED
    BY <1>3, <2>2, FinalKept DEF Take
<1>4. ASSUME NEW s \in Slots, MarkProcessing(s)
      PROVE  FinalOK'
  <2>1. Moves(s, "llm") /\ "llm" \notin FinalPcs
    BY <1>4, GotoMoves DEF MarkProcessing, Pcs, TryPcs, FinalPcs
  <2>2. Active(s) /\ slot[s].pc \notin FinalPcs
    BY <1>4 DEF MarkProcessing, Active, FinalPcs
  <2>3. batchesCompleted # BatchCount
    BY <2>2, FullMeansSettled
  <2>4. QED
    BY <1>4, <2>1, <2>3, FinalKeptByRun DEF MarkProcessing
<1>5. ASSUME NEW s \in Slots, Upsert(s)
      PROVE  FinalOK'
  <2>1. Moves(s, "complete") /\ "complete" \notin FinalPcs
    BY <1>5, UpsertMoves DEF FinalPcs
  <2>2. UNCHANGED <<jobStatus, batchesCompleted, batchStatus>>
    BY <1>5 DEF Upsert
  <2>3. QED
    BY <2>1, <2>2, FinalKeptByRun
<1>6. ASSUME NEW s \in Slots, AttemptFails(s)
      PROVE  FinalOK'
  <2>1. Moves(s, "bump") /\ "bump" \notin FinalPcs
    BY <1>6, GotoMoves DEF AttemptFails, Pcs, CatchPcs, FinalPcs
  <2>2. UNCHANGED <<jobStatus, batchesCompleted, batchStatus>>
    BY <1>6 DEF AttemptFails
  <2>3. QED
    BY <2>1, <2>2, FinalKeptByRun
<1>7. ASSUME NEW s \in Slots, MarkCompleted(s)
      PROVE  FinalOK'
  <2>1. Moves(s, "count") /\ "count" \notin FinalPcs
    BY <1>7, GotoMoves DEF MarkCompleted, Pcs, TailPcs, FinalPcs
  <2>2. Active(s) /\ slot[s].pc \notin FinalPcs
    BY <1>7 DEF MarkCompleted, Active, FinalPcs
  <2>3. batchesCompleted # BatchCount
    BY <2>2, FullMeansSettled
  <2>4. QED
    BY <1>7, <2>1, <2>3, FinalKeptByRun DEF MarkCompleted
<1>8. ASSUME NEW s \in Slots, Count(s)
      PROVE  FinalOK'
  <2>1. batchesCompleted \in Nat /\ batchesCompleted < BatchCount
    BY <1>8, CountStep
  <2>2. jobStatus \notin Verdicts /\ \A t \in Slots : slot[t].pc \notin FinalPcs
    BY <2>1 DEF FinalOK
  <2>3. CASE batchesCompleted + 1 >= BatchCount
    <3>1. Moves(s, "read")
      BY <1>8, <2>3, CountMoves
    <3>2. \A t \in Slots : slot'[t].pc \in FinalPcs => t = s /\ slot'[t].pc = "read"
      BY <2>2, <3>1 DEF Moves
    <3>3. batchesCompleted' = BatchCount /\ jobStatus' = jobStatus
      BY <1>8, <2>1, <2>3 DEF Count
    <3>4. QED
      BY <2>2, <3>2, <3>3 DEF FinalOK, FinalPcs
  <2>4. CASE ~(batchesCompleted + 1 >= BatchCount)
    <3>1. Moves(s, "ack")
      BY <1>8, <2>4, CountMoves
    <3>2. \A t \in Slots : slot'[t].pc \notin FinalPcs
      BY <2>2, <3>1 DEF Moves, FinalPcs
    <3>3. jobStatus' = jobStatus
      BY <1>8 DEF Count
    <3>4. QED
      BY <2>2, <3>2, <3>3 DEF FinalOK, FinalPcs
  <2>5. QED
    BY <2>3, <2>4
<1>9. ASSUME NEW s \in Slots, FinalizeRead(s)
      PROVE  FinalOK'
  <2>1. /\ slot'[s].verdict = Verdict(batchStatus)
        /\ \A t \in Slots : t # s => slot'[t] = slot[t]
    BY <1>9, FinalizeReadMoves
  <2>2. slot[s].pc \in FinalPcs
    BY <1>9 DEF FinalizeRead, FinalPcs
  <2>3. \A t \in Slots : slot'[t].pc \in FinalPcs => t = s
    BY <2>1, <2>2 DEF FinalOK
  <2>4. batchesCompleted = BatchCount /\ jobStatus \notin Verdicts
    BY <2>2 DEF FinalOK
  <2>5. jobStatus' = jobStatus /\ batchesCompleted' = batchesCompleted
        /\ batchStatus' = batchStatus
    BY <1>9 DEF FinalizeRead
  <2>6. QED
    BY <2>1, <2>3, <2>4, <2>5 DEF FinalOK, FinalPcs
<1>10. ASSUME NEW s \in Slots, FinalizeWrite(s)
       PROVE  FinalOK'
  <2>1. slot[s].pc \in FinalPcs /\ Moves(s, "ack")
    BY <1>10, GotoMoves DEF FinalizeWrite, FinalPcs, Pcs
  <2>2. batchesCompleted = BatchCount /\ slot[s].verdict = Verdict(batchStatus)
    BY <1>10, <2>1 DEF FinalizeWrite, FinalOK
  <2>3. \A t \in Slots : slot'[t].pc \notin FinalPcs
    BY <2>1 DEF FinalOK, Moves, FinalPcs
  <2>4. jobStatus' = Verdict(batchStatus) /\ batchesCompleted' = BatchCount
        /\ batchStatus' = batchStatus
    BY <1>10, <2>2 DEF FinalizeWrite
  <2>5. QED
    BY <2>3, <2>4 DEF FinalOK, FinalPcs
<1>11. ASSUME NEW s \in Slots, BumpRetry(s)
       PROVE  FinalOK'
  <2>1. PICK pc \in {"retrying", "failed"} : Moves(s, pc)
    BY <1>11, GotoMoves DEF BumpRetry, Pcs, CatchPcs
  <2>2. pc \notin FinalPcs
    BY DEF FinalPcs
  <2>3. UNCHANGED <<jobStatus, batchesCompleted, batchStatus>>
    BY <1>11 DEF BumpRetry
  <2>4. QED
    BY <2>1, <2>2, <2>3, FinalKeptByRun
<1>12. ASSUME NEW s \in Slots, MarkRetrying(s)
       PROVE  FinalOK'
  <2>1. Moves(s, "requeue") /\ "requeue" \notin FinalPcs
    BY <1>12, GotoMoves DEF MarkRetrying, Pcs, CatchPcs, FinalPcs
  <2>2. Active(s) /\ slot[s].pc \notin FinalPcs
    BY <1>12 DEF MarkRetrying, Active, FinalPcs
  <2>3. batchesCompleted # BatchCount
    BY <2>2, FullMeansSettled
  <2>4. QED
    BY <1>12, <2>1, <2>3, FinalKeptByRun DEF MarkRetrying
<1>13. ASSUME NEW s \in Slots, Requeue(s)
       PROVE  FinalOK'
  <2>1. Moves(s, "ack") /\ "ack" \notin FinalPcs
    BY <1>13, GotoMoves DEF Requeue, Pcs, FinalPcs
  <2>2. UNCHANGED <<jobStatus, batchesCompleted, batchStatus>>
    BY <1>13 DEF Requeue
  <2>3. QED
    BY <2>1, <2>2, FinalKeptByRun
<1>14. ASSUME NEW s \in Slots, MarkFailed(s)
       PROVE  FinalOK'
  <2>1. Moves(s, "count") /\ "count" \notin FinalPcs
    BY <1>14, MarkFailedMoves DEF FinalPcs
  <2>2. Active(s) /\ slot[s].pc \notin FinalPcs
    BY <1>14 DEF MarkFailed, Active, FinalPcs
  <2>3. batchesCompleted # BatchCount
    BY <2>2, FullMeansSettled
  <2>4. QED
    BY <1>14, <2>1, <2>3, FinalKeptByRun DEF MarkFailed
<1>15. ASSUME NEW s \in Slots, Ack(s)
       PROVE  FinalOK'
  <2>1. /\ slot'[s].pc \notin FinalPcs
        /\ \A t \in Slots : t # s => slot'[t] = slot[t]
    BY <1>15, AckMoves DEF FinalPcs
  <2>2. \A t \in Slots : slot'[t].pc \in FinalPcs =>
          slot'[t].pc = slot[t].pc /\ slot'[t].verdict = slot[t].verdict
    BY <2>1
  <2>3. QED
    BY <1>15, <2>2, FinalKept DEF Ack
<1>16. CASE UNCHANGED vars
  BY <1>16, FinalKept DEF vars
<1>17. QED
  BY <1>1, <1>2, <1>3, <1>4, <1>5, <1>6, <1>7, <1>8, <1>9, <1>10, <1>11, <1>12,
     <1>13, <1>14, <1>15, <1>16 DEF Next, Agent, Run

LEMMA IInvInit == Init => IInv
<1> SUFFICES ASSUME Init PROVE IInv
  OBVIOUS
<1>1. \A s \in Slots : slot[s].pc \notin FinalPcs
  BY DEF Init, Idle, FinalPcs
<1>2. FinalOK
  BY <1>1 DEF Init, FinalOK, FinalPcs
<1>3. QED
  BY <1>2, CoreInit, CountInit DEF IInv

LEMMA IInvNext == IInv /\ [Next]_vars => IInv'
BY CoreNext, CountNext, FinalNext DEF IInv

LEMMA IInvAlways == Spec => []IInv
BY IInvInit, IInvNext, PTL DEF Spec

(* The status a job is closed with is the one its batch rows call for, and   *)
(* every batch is settled by then, although finalizeJob reads the rows in    *)
(* one statement and writes the job in another.                             *)
THEOREM VerdictIsTruthful == Spec => []VerdictTruthful
<1>1. IInv => VerdictTruthful
  <2> SUFFICES ASSUME IInv, jobStatus \in Verdicts
               PROVE  /\ \A b \in Batches : batchStatus[b] \in Settled
                      /\ jobStatus = Verdict(batchStatus)
    BY DEF VerdictTruthful
  <2>1. batchesCompleted = BatchCount /\ jobStatus = Verdict(batchStatus)
    BY DEF IInv, FinalOK
  <2>2. QED
    BY <2>1, FullMeansSettled DEF IInv
<1>2. QED
  BY <1>1, IInvAlways, PTL
-----------------------------------------------------------------------------
(* A run that still attempts its batch works for an open job on a batch that *)
(* is not settled.                                                          *)
LEMMA AttemptFacts ==
  ASSUME IInv, NEW s \in Slots, Active(s), slot[s].pc \notin TailPcs
  PROVE  /\ slot[s].batch \in Batches
         /\ batchStatus[slot[s].batch] \notin Settled
         /\ jobStatus = "processing"
<1>1. slot[s].batch \in Batches /\ jobStatus # "none"
  BY ActiveFacts DEF IInv
<1>2. batchStatus[slot[s].batch] \notin Settled
  BY <1>1 DEF IInv, Core, StatusOK
<1>3. batchesCompleted # BatchCount
  BY <1>1, <1>2, FullMeansSettled DEF IInv
<1>4. jobStatus \notin Verdicts
  BY <1>3 DEF IInv, FinalOK
<1>5. QED
  BY <1>1, <1>2, <1>4 DEF IInv, Core, TypeOK

(* The only steps that change a batch row change one that is not settled.    *)
LEMMA SettledStaysNext ==
  IInv /\ [Next]_vars =>
    \A b \in Batches : batchStatus[b] \in Settled => batchStatus'[b] = batchStatus[b]
<1> SUFFICES ASSUME IInv, [Next]_vars, NEW b \in Batches, batchStatus[b] \in Settled
             PROVE  batchStatus'[b] = batchStatus[b]
  OBVIOUS
<1>t. TypeOK
  BY DEF IInv, Core
<1> USE <1>t
<1>1. CASE Plan
  BY <1>1 DEF Plan, IInv, Core, StatusOK
<1>2. ASSUME NEW s \in Slots,
             MarkProcessing(s) \/ MarkCompleted(s) \/ MarkRetrying(s) \/ MarkFailed(s)
      PROVE  batchStatus'[b] = batchStatus[b]
  <2>1. Active(s) /\ slot[s].pc \notin TailPcs
    BY <1>2 DEF MarkProcessing, MarkCompleted, MarkRetrying, MarkFailed, Active, TailPcs
  <2>2. slot[s].batch # b
    BY <2>1, AttemptFacts
  <2>3. PICK st : batchStatus' = [batchStatus EXCEPT ![slot[s].batch] = st]
    BY <1>2 DEF MarkProcessing, MarkCompleted, MarkRetrying, MarkFailed
  <2>4. QED
    BY <2>2, <2>3 DEF TypeOK
<1>3. CASE UNCHANGED batchStatus
  BY <1>3
<1>4. QED
  BY <1>1, <1>2, <1>3 DEF Next, Agent, Run, vars, Enqueue, Take, Upsert, AttemptFails, Count,
     FinalizeRead, FinalizeWrite, BumpRetry, Requeue, Ack

(* Once a batch is completed or failed no step changes its row.             *)
THEOREM SettledForGood == Spec => SettledStays
BY SettledStaysNext, IInvAlways, PTL DEF Spec, SettledStays
-----------------------------------------------------------------------------
(* The two modules derive the same status.                                  *)
LEMMA SameVerdict ==
  ASSUME \A b \in Batches : batchStatus[b] \in Settled
  PROVE  Job!VerdictOf(Outcome) = Verdict(batchStatus)
BY DEF Job!VerdictOf, Job!Batches, Batches, Outcome, Verdict

LEMMA JobInit == Init => Job!Init
BY DEF Init, Job!Init, Outcome, Job!Batches, Batches

(* The write of an outcome settles one open batch of an open job.           *)
LEMMA JobSettle ==
  ASSUME IInv, NEW s \in Slots, Active(s), slot[s].pc \notin TailPcs,
         NEW o \in Settled, UNCHANGED jobStatus,
         batchStatus' = [batchStatus EXCEPT ![slot[s].batch] = o]
  PROVE  Job!Next
<1> DEFINE c == slot[s].batch
<1>1. c \in Batches /\ batchStatus[c] \notin Settled /\ jobStatus = "processing"
  BY AttemptFacts
<1>2. Outcome[c] = "open"
  BY <1>1 DEF Outcome
<1>3. Outcome' = [Outcome EXCEPT ![c] = o]
  BY <1>1 DEF Outcome, IInv, Core, TypeOK
<1>4. Job!Settle(c, o)
  BY <1>1, <1>2, <1>3 DEF Job!Settle
<1>5. QED
  BY <1>1, <1>4 DEF Job!Next, Job!Settled, Job!Batches, Batches

(* A write of a row that is not settled leaves the outcomes as they are.     *)
LEMMA JobStutter ==
  ASSUME UNCHANGED jobStatus,
         \A b \in Batches : \/ batchStatus'[b] = batchStatus[b]
                            \/ (batchStatus[b] \notin Settled /\ batchStatus'[b] \notin Settled)
  PROVE  UNCHANGED Job!jobVars
<1>1. Outcome' = Outcome
  BY DEF Outcome
<1>2. QED
  BY <1>1 DEF Job!jobVars

LEMMA JobNext == IInv /\ [Next]_vars => [Job!Next]_(Job!jobVars)
<1> SUFFICES ASSUME IInv, [Next]_vars
             PROVE  [Job!Next]_(Job!jobVars)
  OBVIOUS
<1>t. TypeOK
  BY DEF IInv, Core
<1> USE <1>t
<1>1. CASE Plan
  <2>1. \A b \in Batches : batchStatus[b] \notin Settled /\ batchStatus'[b] \notin Settled
    BY <1>1 DEF Plan, IInv, Core, StatusOK
  <2>2. Outcome' = Outcome
    BY <2>1 DEF Outcome
  <2>3. Job!Start
    BY <1>1, <2>2 DEF Plan, Job!Start
  <2>4. QED
    BY <2>3 DEF Job!Next
<1>2. ASSUME NEW s \in Slots, MarkProcessing(s) \/ MarkRetrying(s)
      PROVE  [Job!Next]_(Job!jobVars)
  <2>1. Active(s) /\ slot[s].pc \notin TailPcs
    BY <1>2 DEF MarkProcessing, MarkRetrying, Active, TailPcs
  <2>2. slot[s].batch \in Batches /\ batchStatus[slot[s].batch] \notin Settled
    BY <2>1, AttemptFacts
  <2>3. PICK st \in {"processing", "retrying"} :
          batchStatus' = [batchStatus EXCEPT ![slot[s].batch] = st]
    BY <1>2 DEF MarkProcessing, MarkRetrying
  <2>4. \A b \in Batches : \/ batchStatus'[b] = batchStatus[b]
                           \/ (batchStatus[b] \notin Settled /\ batchStatus'[b] \notin Settled)
    BY <2>2, <2>3 DEF TypeOK
  <2>5. UNCHANGED jobStatus
    BY <1>2 DEF MarkProcessing, MarkRetrying, jobRow
  <2>6. QED
    BY <2>4, <2>5, JobStutter
<1>3. ASSUME NEW s \in Slots, MarkCompleted(s)
      PROVE  [Job!Next]_(Job!jobVars)
  <2>1. Active(s) /\ slot[s].pc \notin TailPcs
    BY <1>3 DEF MarkCompleted, Active, TailPcs
  <2>2. QED
    BY <1>3, <2>1, JobSettle DEF MarkCompleted, jobRow
<1>4. ASSUME NEW s \in Slots, MarkFailed(s)
      PROVE  [Job!Next]_(Job!jobVars)
  <2>1. Active(s) /\ slot[s].pc \notin TailPcs
    BY <1>4 DEF MarkFailed, Active, TailPcs
  <2>2. QED
    BY <1>4, <2>1, JobSettle DEF MarkFailed, jobRow
<1>5. ASSUME NEW s \in Slots, FinalizeWrite(s)
      PROVE  [Job!Next]_(Job!jobVars)
  <2>1. slot[s].pc \in FinalPcs /\ Active(s)
    BY <1>5 DEF FinalizeWrite, FinalPcs, Active
  <2>2. batchesCompleted = BatchCount /\ jobStatus \notin Verdicts
        /\ slot[s].verdict = Verdict(batchStatus)
    BY <1>5, <2>1 DEF FinalizeWrite, IInv, FinalOK
  <2>3. jobStatus = "processing"
    BY <2>1, <2>2, ActiveFacts DEF IInv, TypeOK
  <2>4. \A b \in Batches : batchStatus[b] \in Settled
    BY <2>2, FullMeansSettled DEF IInv
  <2>5. jobStatus' = Job!VerdictOf(Outcome) /\ batchStatus' = batchStatus
    BY <1>5, <2>2, <2>4, SameVerdict DEF FinalizeWrite
  <2>6. Job!Close
    BY <2>3, <2>4, <2>5 DEF Job!Close, Job!Batches, Job!Settled, Batches, Outcome
  <2>7. QED
    BY <2>6 DEF Job!Next
<1>6. CASE UNCHANGED <<batchStatus, jobStatus>>
  BY <1>6, JobStutter
<1>7. QED
  BY <1>1, <1>2, <1>3, <1>4, <1>5, <1>6 DEF Next, Agent, Run, vars, jobRow, Enqueue, Take,
     Upsert, AttemptFails, Count, FinalizeRead, BumpRetry, Requeue, Ack

(* The pipeline implements EnrichmentJob: every step settles one batch,      *)
(* closes the job with the right status, or is invisible.                   *)
THEOREM PipelineImplementsJob == Spec => ImplementsJob
BY JobInit, JobNext, IInvAlways, PTL DEF Spec, ImplementsJob, Job!Spec
-----------------------------------------------------------------------------
(* The budget of attempts, wherever the batch stands: what is still waiting  *)
(* or attempted has budget left, what is about to be given up has none.      *)
RetryOK ==
  /\ GivenUpWhenExhausted
  /\ \A b \in Batches : b > sent \/ queue[b] > 0 => retryCount[b] <= MaxRetries
  /\ \A s \in Slots : Active(s) /\ slot[s].pc \notin TailPcs \cup {"failed"} =>
       retryCount[slot[s].batch] <= MaxRetries
  /\ \A s \in Slots : slot[s].pc = "failed" => retryCount[slot[s].batch] = MaxRetries + 1

(* A step of a run that leaves the counters and the queue alone, and keeps   *)
(* the run on the same side of the budget.                                  *)
LEMMA RetryKept ==
  ASSUME Core, RetryOK, UNCHANGED <<retryCount, queue, sent>>,
         NEW s \in Slots, Active(s), NEW pc, Moves(s, pc),
         pc # "failed",
         pc \notin TailPcs => slot[s].pc \notin TailPcs \cup {"failed"} \/ pc \in {"idle", "ack"},
         \A b \in Batches : b # slot[s].batch => batchStatus'[b] = batchStatus[b],
         batchStatus'[slot[s].batch] = "failed" =>
           retryCount[slot[s].batch] = MaxRetries + 1,
         batchStatus'[slot[s].batch] = "completed" =>
           retryCount[slot[s].batch] <= MaxRetries
  PROVE  RetryOK'
<1>1. GivenUpWhenExhausted'
  BY DEF RetryOK, GivenUpWhenExhausted
<1>2. \A b \in Batches : b > sent \/ queue[b] > 0 => retryCount[b] <= MaxRetries
  BY DEF RetryOK
<1>3. ASSUME NEW t \in Slots, Active(t)', slot'[t].pc \notin TailPcs \cup {"failed"}
      PROVE  retryCount[slot'[t].batch] <= MaxRetries
  <2>1. CASE t = s
    BY <2>1, <1>3 DEF Moves, RetryOK, Active
  <2>2. CASE t # s
    BY <2>2, <1>3 DEF Moves, RetryOK, Active
  <2>3. QED
    BY <2>1, <2>2
<1>4. ASSUME NEW t \in Slots, slot'[t].pc = "failed"
      PROVE  retryCount[slot'[t].batch] = MaxRetries + 1
  BY <1>4 DEF Moves, RetryOK
<1>5. QED
  BY <1>1, <1>2, <1>3, <1>4 DEF RetryOK

LEMMA BudgetNext == IInv /\ RetryOK /\ [Next]_vars => RetryOK'
<1> SUFFICES ASSUME IInv, RetryOK, [Next]_vars
             PROVE  RetryOK'
  OBVIOUS
<1>t. TypeOK /\ Core
  BY DEF IInv, Core
<1> USE <1>t DEF jobRow
<1>1. CASE Plan
  <2>1. \A b \in Batches : batchStatus'[b] \notin Settled
    BY <1>1 DEF Plan
  <2>2. UNCHANGED <<retryCount, queue, sent, slot>>
    BY <1>1 DEF Plan
  <2>3. GivenUpWhenExhausted'
    BY <2>1 DEF GivenUpWhenExhausted
  <2>4. QED
    BY <2>2, <2>3 DEF RetryOK, Active
<1>2. CASE Enqueue
  <2>1. sent + 1 \in Batches /\ sent' = sent + 1 /\ UNCHANGED <<retryCount, batchStatus, slot>>
    BY <1>2 DEF Enqueue, TypeOK, Batches
  <2>2. \A b \in Batches : b # sent + 1 => queue'[b] = queue[b]
    BY <1>2 DEF Enqueue, TypeOK
  <2>3. sent \in Nat /\ \A b \in Batches : b \in Nat
    BY DEF TypeOK, Batches
  <2>4. ASSUME NEW b \in Batches, b > sent' \/ queue'[b] > 0
        PROVE  b > sent \/ queue[b] > 0
    BY <2>1, <2>2, <2>3, <2>4
  <2>5. \A b \in Batches : b > sent' \/ queue'[b] > 0 => retryCount'[b] <= MaxRetries
    BY <2>1, <2>4 DEF RetryOK
  <2>6. QED
    BY <2>1, <2>5 DEF RetryOK, GivenUpWhenExhausted, Active
<1>3. ASSUME NEW s \in Slots, NEW b \in Batches, Take(s, b)
      PROVE  RetryOK'
  <2>1. /\ slot'[s].pc = "start"
        /\ slot'[s].batch = b
        /\ \A t \in Slots : t # s => slot'[t] = slot[t]
    BY <1>3, TakeMoves
  <2>2. UNCHANGED <<retryCount, batchStatus, sent>>
    BY <1>3 DEF Take
  <2>3. queue[b] > 0 /\ \A c \in Batches : queue'[c] > 0 => queue[c] > 0
    BY <1>3 DEF Take, TypeOK
  <2>4. retryCount[b] <= MaxRetries
    BY <2>3 DEF RetryOK
  <2>5. \A c \in Batches : c > sent' \/ queue'[c] > 0 => retryCount'[c] <= MaxRetries
    BY <2>2, <2>3 DEF RetryOK
  <2>6. ASSUME NEW t \in Slots, Active(t)', slot'[t].pc \notin TailPcs \cup {"failed"}
        PROVE  retryCount'[slot'[t].batch] <= MaxRetries
    <3>1. CASE t = s
      BY <3>1, <2>1, <2>2, <2>4
    <3>2. CASE t # s
      BY <3>2, <2>6, <2>1, <2>2 DEF RetryOK, Active
    <3>3. QED
      BY <3>1, <3>2
  <2>7. \A t \in Slots : slot'[t].pc = "failed" => retryCount'[slot'[t].batch] = MaxRetries + 1
    BY <2>1, <2>2 DEF RetryOK
  <2>8. QED
    BY <2>2, <2>5, <2>6, <2>7 DEF RetryOK, GivenUpWhenExhausted
<1>4. ASSUME NEW s \in Slots, MarkProcessing(s)
      PROVE  RetryOK'
  <2>1. Active(s) /\ slot[s].pc \notin TailPcs /\ Moves(s, "llm")
    BY <1>4, GotoMoves DEF MarkProcessing, Active, Pcs, TryPcs, TailPcs
  <2>2. slot[s].batch \in Batches /\ batchStatus[slot[s].batch] \notin Settled
    BY <2>1, AttemptFacts
  <2>3. UNCHANGED <<retryCount, queue, sent>>
    BY <1>4 DEF MarkProcessing
  <2>4. \A b \in Batches : b # slot[s].batch => batchStatus'[b] = batchStatus[b]
    BY <1>4 DEF MarkProcessing, TypeOK
  <2>5. batchStatus'[slot[s].batch] \notin Settled
    BY <1>4, <2>2 DEF MarkProcessing, TypeOK
  <2>6. slot[s].pc # "failed" /\ "llm" # "failed"
    BY <1>4 DEF MarkProcessing
  <2>7. QED
    BY <2>1, <2>3, <2>4, <2>5, <2>6, RetryKept DEF IInv
<1>5. ASSUME NEW s \in Slots, Upsert(s)
      PROVE  RetryOK'
  <2>1. Active(s) /\ slot[s].pc \notin TailPcs /\ Moves(s, "complete")
    BY <1>5, UpsertMoves DEF Upsert, Active, TailPcs
  <2>2. slot[s].batch \in Batches /\ batchStatus[slot[s].batch] \notin Settled
    BY <2>1, AttemptFacts
  <2>3. UNCHANGED <<retryCount, queue, sent>>
    BY <1>5 DEF Upsert
  <2>4. \A b \in Batches : b # slot[s].batch => batchStatus'[b] = batchStatus[b]
    BY <1>5 DEF Upsert, TypeOK
  <2>5. batchStatus'[slot[s].batch] \notin Settled
    BY <1>5, <2>2 DEF Upsert, TypeOK
  <2>6. slot[s].pc # "failed" /\ "complete" # "failed"
    BY <1>5 DEF Upsert
  <2>7. QED
    BY <2>1, <2>3, <2>4, <2>5, <2>6, RetryKept DEF IInv
<1>6. ASSUME NEW s \in Slots, AttemptFails(s)
      PROVE  RetryOK'
  <2>1. Active(s) /\ slot[s].pc \notin TailPcs /\ Moves(s, "bump")
    BY <1>6, GotoMoves DEF AttemptFails, Active, Pcs, CatchPcs, TailPcs
  <2>2. slot[s].batch \in Batches /\ batchStatus[slot[s].batch] \notin Settled
    BY <2>1, AttemptFacts
  <2>3. UNCHANGED <<retryCount, queue, sent>>
    BY <1>6 DEF AttemptFails
  <2>4. \A b \in Batches : b # slot[s].batch => batchStatus'[b] = batchStatus[b]
    BY <1>6 DEF AttemptFails, TypeOK
  <2>5. batchStatus'[slot[s].batch] \notin Settled
    BY <1>6, <2>2 DEF AttemptFails, TypeOK
  <2>6. slot[s].pc # "failed" /\ "bump" # "failed"
    BY <1>6 DEF AttemptFails
  <2>7. QED
    BY <2>1, <2>3, <2>4, <2>5, <2>6, RetryKept DEF IInv
<1>7. ASSUME NEW s \in Slots, MarkCompleted(s)
      PROVE  RetryOK'
  <2>1. Active(s) /\ slot[s].pc \notin TailPcs /\ Moves(s, "count")
    BY <1>7, GotoMoves DEF MarkCompleted, Active, Pcs, TailPcs
  <2>2. slot[s].batch \in Batches /\ batchStatus[slot[s].batch] \notin Settled
    BY <2>1, AttemptFacts
  <2>3. UNCHANGED <<retryCount, queue, sent>>
    BY <1>7 DEF MarkCompleted
  <2>4. \A b \in Batches : b # slot[s].batch => batchStatus'[b] = batchStatus[b]
    BY <1>7 DEF MarkCompleted, TypeOK
  <2>5. batchStatus'[slot[s].batch] = "completed"
    BY <1>7, <2>2 DEF MarkCompleted, TypeOK
  <2>6. retryCount[slot[s].batch] <= MaxRetries
    BY <1>7, <2>1 DEF MarkCompleted, RetryOK
  <2>7. "count" \in TailPcs
    BY DEF TailPcs
  <2>8. QED
    BY <2>1, <2>3, <2>4, <2>5, <2>6, <2>7, RetryKept
<1>8. ASSUME NEW s \in Slots, Count(s)
      PROVE  RetryOK'
  <2>1. Active(s)
    BY <1>8 DEF Count, Active
  <2>2. slot[s].batch \in Batches
    BY <2>1, ActiveFacts
  <2>3. UNCHANGED <<retryCount, queue, sent, batchStatus>>
    BY <1>8 DEF Count
  <2>4. /\ batchStatus[slot[s].batch] = "failed" => retryCount[slot[s].batch] = MaxRetries + 1
        /\ batchStatus[slot[s].batch] = "completed" => retryCount[slot[s].batch] <= MaxRetries
    BY <2>2 DEF RetryOK, GivenUpWhenExhausted
  <2>5. PICK pc \in {"read", "ack"} : Moves(s, pc)
    BY <1>8, CountMoves
  <2>6. pc # "failed" /\ (pc \notin TailPcs => pc \in {"idle", "ack"})
    BY DEF TailPcs
  <2>7. QED
    BY <2>1, <2>3, <2>4, <2>5, <2>6, RetryKept
<1>9. ASSUME NEW s \in Slots, FinalizeRead(s)
      PROVE  RetryOK'
  <2>1. /\ slot'[s].pc = "write"
        /\ \A t \in Slots : t # s => slot'[t] = slot[t]
    BY <1>9, FinalizeReadMoves
  <2>2. UNCHANGED <<retryCount, queue, sent, batchStatus>>
    BY <1>9 DEF FinalizeRead
  <2>3. \A t \in Slots : slot'[t].pc \notin TailPcs => slot'[t] = slot[t]
    BY <2>1 DEF TailPcs
  <2>4. \A t \in Slots : Active(t)' /\ slot'[t].pc \notin TailPcs \cup {"failed"} =>
          retryCount'[slot'[t].batch] <= MaxRetries
    BY <2>2, <2>3 DEF RetryOK, Active
  <2>5. \A t \in Slots : slot'[t].pc = "failed" => retryCount'[slot'[t].batch] = MaxRetries + 1
    BY <2>2, <2>3 DEF RetryOK, TailPcs
  <2>6. QED
    BY <2>2, <2>4, <2>5 DEF RetryOK, GivenUpWhenExhausted
<1>10. ASSUME NEW s \in Slots, FinalizeWrite(s)
       PROVE  RetryOK'
  <2>1. Active(s) /\ Moves(s, "ack")
    BY <1>10, GotoMoves DEF FinalizeWrite, Active, Pcs
  <2>2. slot[s].batch \in Batches
    BY <2>1, ActiveFacts
  <2>3. UNCHANGED <<retryCount, queue, sent, batchStatus>>
    BY <1>10 DEF FinalizeWrite
  <2>4. /\ batchStatus[slot[s].batch] = "failed" => retryCount[slot[s].batch] = MaxRetries + 1
        /\ batchStatus[slot[s].batch] = "completed" => retryCount[slot[s].batch] <= MaxRetries
    BY <2>2 DEF RetryOK, GivenUpWhenExhausted
  <2>5. QED
    BY <2>1, <2>3, <2>4, RetryKept
<1>11. ASSUME NEW s \in Slots, BumpRetry(s)
       PROVE  RetryOK'
  <2> DEFINE c == slot[s].batch
  <2>1. Active(s) /\ slot[s].pc \notin TailPcs /\ slot[s].pc = "bump"
    BY <1>11 DEF BumpRetry, Active, TailPcs
  <2>2. c \in Batches /\ batchStatus[c] \notin Settled
    BY <2>1, AttemptFacts
  <2>3. /\ c <= sent
        /\ queue[c] = 0
        /\ \A t \in Slots : Active(t) /\ t # s => slot[t].batch # c
    BY <2>1, ActiveFacts
  <2>4. retryCount[c] \in Nat /\ retryCount[c] <= MaxRetries
    BY <2>1, <2>2 DEF RetryOK, TypeOK
  <2>5. retryCount'[c] = retryCount[c] + 1
        /\ \A b \in Batches : b # c => retryCount'[b] = retryCount[b]
    BY <1>11, <2>2 DEF BumpRetry, TypeOK
  <2>6. UNCHANGED <<batchStatus, queue, sent>>
    BY <1>11 DEF BumpRetry
  <2>7. PICK pc \in {"retrying", "failed"} :
          /\ Moves(s, pc)
          /\ pc = "retrying" => retryCount[c] + 1 <= MaxRetries
          /\ pc = "failed" => ~(retryCount[c] + 1 <= MaxRetries)
    <3>1. CASE retryCount[c] + 1 <= MaxRetries
      BY <1>11, <3>1, GotoMoves DEF BumpRetry, Pcs, CatchPcs
    <3>2. CASE ~(retryCount[c] + 1 <= MaxRetries)
      BY <1>11, <3>2, GotoMoves DEF BumpRetry, Pcs, CatchPcs
    <3>3. QED
      BY <3>1, <3>2
  <2>8. GivenUpWhenExhausted'
    BY <2>2, <2>5, <2>6 DEF RetryOK, GivenUpWhenExhausted
  <2>9. \A b \in Batches : b > sent \/ queue[b] > 0 => b # c
    BY <2>3, <2>2 DEF TypeOK, Batches
  <2>10. \A b \in Batches : b > sent' \/ queue'[b] > 0 => retryCount'[b] <= MaxRetries
    BY <2>5, <2>6, <2>9 DEF RetryOK
  <2>11. ASSUME NEW t \in Slots, Active(t)'
         PROVE  /\ slot'[t].pc \notin TailPcs \cup {"failed"} => retryCount'[slot'[t].batch] <= MaxRetries
                /\ slot'[t].pc = "failed" => retryCount'[slot'[t].batch] = MaxRetries + 1
    <3>1. CASE t = s
      BY <3>1, <2>4, <2>5, <2>7 DEF Moves
    <3>2. CASE t # s
      <4>1. slot'[t] = slot[t] /\ Active(t)
        BY <3>2, <2>7, <2>11 DEF Moves, Active
      <4>2. slot[t].batch \in Batches /\ retryCount'[slot[t].batch] = retryCount[slot[t].batch]
        BY <4>1, <3>2, <2>3, <2>5, ActiveFacts
      <4>3. QED
        BY <4>1, <4>2 DEF RetryOK
    <3>3. QED
      BY <3>1, <3>2
  <2>12. QED
    BY <2>8, <2>10, <2>11 DEF RetryOK, Active
<1>12. ASSUME NEW s \in Slots, MarkRetrying(s)
       PROVE  RetryOK'
  <2>1. Active(s) /\ slot[s].pc \notin TailPcs /\ Moves(s, "requeue")
    BY <1>12, GotoMoves DEF MarkRetrying, Active, Pcs, CatchPcs, TailPcs
  <2>2. slot[s].batch \in Batches /\ batchStatus[slot[s].batch] \notin Settled
    BY <2>1, AttemptFacts
  <2>3. UNCHANGED <<retryCount, queue, sent>>
    BY <1>12 DEF MarkRetrying
  <2>4. \A b \in Batches : b # slot[s].batch => batchStatus'[b] = batchStatus[b]
    BY <1>12 DEF MarkRetrying, TypeOK
  <2>5. batchStatus'[slot[s].batch] \notin Settled
    BY <1>12, <2>2 DEF MarkRetrying, TypeOK
  <2>6. slot[s].pc # "failed" /\ "requeue" # "failed"
    BY <1>12 DEF MarkRetrying
  <2>7. QED
    BY <2>1, <2>3, <2>4, <2>5, <2>6, RetryKept DEF IInv
<1>13. ASSUME NEW s \in Slots, Requeue(s)
       PROVE  RetryOK'
  <2> DEFINE c == slot[s].batch
  <2>1. Active(s) /\ slot[s].pc \notin TailPcs \cup {"failed"} /\ Moves(s, "ack")
    BY <1>13, GotoMoves DEF Requeue, Active, Pcs, TailPcs
  <2>2. c \in Batches
    BY <2>1, ActiveFacts
  <2>3. retryCount[c] <= MaxRetries
    BY <2>1 DEF RetryOK
  <2>4. UNCHANGED <<retryCount, batchStatus, sent>>
    BY <1>13 DEF Requeue
  <2>5. \A b \in Batches : b # c => queue'[b] = queue[b]
    BY <1>13 DEF Requeue, TypeOK
  <2>6. \A b \in Batches : b > sent' \/ queue'[b] > 0 => retryCount'[b] <= MaxRetries
    BY <2>3, <2>4, <2>5 DEF RetryOK
  <2>7. \A t \in Slots : Active(t)' => Active(t) /\ slot'[t] = slot[t]
    BY <2>1 DEF Moves, Active
  <2>8. \A t \in Slots : slot'[t].pc = "failed" => slot'[t] = slot[t]
    BY <2>1 DEF Moves
  <2>9. QED
    BY <2>4, <2>6, <2>7, <2>8 DEF RetryOK, GivenUpWhenExhausted
<1>14. ASSUME NEW s \in Slots, MarkFailed(s)
       PROVE  RetryOK'
  <2>1. Active(s) /\ slot[s].pc \notin TailPcs /\ Moves(s, "count")
    BY <1>14, MarkFailedMoves DEF MarkFailed, Active, TailPcs
  <2>2. slot[s].batch \in Batches /\ batchStatus[slot[s].batch] \notin Settled
    BY <2>1, AttemptFacts
  <2>3. UNCHANGED <<retryCount, queue, sent>>
    BY <1>14 DEF MarkFailed
  <2>4. \A b \in Batches : b # slot[s].batch => batchStatus'[b] = batchStatus[b]
    BY <1>14 DEF MarkFailed, TypeOK
  <2>5. batchStatus'[slot[s].batch] = "failed"
    BY <1>14, <2>2 DEF MarkFailed, TypeOK
  <2>6. retryCount[slot[s].batch] = MaxRetries + 1
    BY <1>14, <2>1 DEF MarkFailed, RetryOK
  <2>7. "count" \in TailPcs
    BY DEF TailPcs
  <2>8. QED
    BY <2>1, <2>3, <2>4, <2>5, <2>6, <2>7, RetryKept
<1>15. ASSUME NEW s \in Slots, Ack(s)
       PROVE  RetryOK'
  <2>1. \A t \in Slots : Active(t)' \/ slot'[t].pc = "failed" => Active(t) /\ slot'[t] = slot[t]
    BY <1>15, AckMoves DEF Active
  <2>2. UNCHANGED <<retryCount, batchStatus, sent, queue>>
    BY <1>15 DEF Ack
  <2>3. QED
    BY <2>1, <2>2 DEF RetryOK, GivenUpWhenExhausted
<1>16. CASE UNCHANGED vars
  BY <1>16 DEF vars, RetryOK, GivenUpWhenExhausted, Active
<1>17. QED
  BY <1>1, <1>2, <1>3, <1>4, <1>5, <1>6, <1>7, <1>8, <1>9, <1>10, <1>11, <1>12,
     <1>13, <1>14, <1>15, <1>16 DEF Next, Agent, Run

(* handleBatchFailure gives a batch up after exactly MAX_RETRIES + 1 failed   *)
(* attempts, and no batch completes that has used them up.                  *)
THEOREM RetryBudget == Spec => []GivenUpWhenExhausted
<1>1. Init => IInv /\ RetryOK
  <2> SUFFICES ASSUME Init PROVE RetryOK
    BY IInvInit
  <2>1. \A s \in Slots : slot[s].pc = "idle"
    BY DEF Init, Idle
  <2>2. QED
    BY <2>1 DEF Init, RetryOK, GivenUpWhenExhausted, Active
<1>2. IInv /\ RetryOK /\ [Next]_vars => (IInv /\ RetryOK)'
  BY IInvNext, BudgetNext
<1>3. RetryOK => GivenUpWhenExhausted
  BY DEF RetryOK
<1>4. QED
  BY <1>1, <1>2, <1>3, PTL DEF Spec
-----------------------------------------------------------------------------
(* The articles of the completed batches that are counted.                  *)
CountedArticles ==
  UNION {ArticleIds[b] : b \in {c \in CountedBatches : batchStatus[c] = "completed"}}

(* What exact replies leave behind: the rows of a completed batch, and of one *)
(* about to be, are its own; a run brings its batch's articles to the count,  *)
(* or nothing when it gave up; and the job's number is that of the articles.  *)
RowsOwn(b) == \A a \in ArticleIds[b] : row[a] = b
Size(b) == Cardinality(ArticleIds[b])

EnrichedOK ==
  ExactReplies =>
    /\ \A b \in Batches : batchStatus[b] = "completed" => RowsOwn(b)
    /\ \A s \in Slots : slot[s].pc = "complete" =>
         RowsOwn(slot[s].batch) /\ slot[s].delta = Size(slot[s].batch)
    /\ \A s \in Slots : slot[s].pc = "count" =>
         slot[s].delta = IF batchStatus[slot[s].batch] = "completed"
                         THEN Size(slot[s].batch) ELSE 0
    /\ processedCount = Cardinality(CountedArticles)

LEMMA SizeType == \A b \in Batches : IsFiniteSet(ArticleIds[b]) /\ Size(b) \in Nat
BY FS_Subset, FS_CardinalityType DEF Size

LEMMA CountedArticlesFinite == IsFiniteSet(CountedArticles) /\ Cardinality(CountedArticles) \in Nat
<1>1. CountedArticles \in SUBSET Articles
  BY DEF CountedArticles, CountedBatches
<1>2. QED
  BY <1>1, FS_Subset, FS_CardinalityType

(* A step that writes no enrichment, settles no batch, and takes no run to     *)
(* "complete" or past "count".                                              *)
LEMMA EnrichedKept ==
  ASSUME EnrichedOK, row' = row, processedCount' = processedCount,
         \A b \in Batches : batchStatus'[b] = batchStatus[b]
                              \/ (batchStatus[b] \notin Settled /\ batchStatus'[b] \notin Settled),
         \A s \in Slots : slot'[s] = slot[s]
                            \/ /\ slot[s].pc # "count"
                               /\ slot'[s].pc \notin {"complete", "count"},
         \A s \in Slots : slot[s].pc = "count" => slot[s].batch \in Batches
  PROVE  EnrichedOK'
<1> SUFFICES ASSUME ExactReplies
             PROVE  EnrichedOK'
  BY DEF EnrichedOK
<1>1. \A b \in Batches : b \in CountedBatches' <=> b \in CountedBatches
  BY DEF CountedBatches
<1>2. {c \in CountedBatches : batchStatus[c] = "completed"}'
        = {c \in CountedBatches : batchStatus[c] = "completed"}
  BY <1>1 DEF CountedBatches
<1>3. CountedArticles' = CountedArticles
  BY <1>2 DEF CountedArticles
<1>4. \A b : RowsOwn(b)' <=> RowsOwn(b)
  BY DEF RowsOwn
<1>5. QED
  BY <1>3, <1>4 DEF EnrichedOK

(* The step of one run, with the same conditions.                            *)
LEMMA EnrichedKeptByRun ==
  ASSUME Core, EnrichedOK, row' = row, processedCount' = processedCount,
         \A b \in Batches : batchStatus'[b] = batchStatus[b]
                              \/ (batchStatus[b] \notin Settled /\ batchStatus'[b] \notin Settled),
         NEW s \in Slots, slot[s].pc # "count", slot'[s].pc \notin {"complete", "count"},
         \A t \in Slots : t # s => slot'[t] = slot[t]
  PROVE  EnrichedOK'
<1>1. \A t \in Slots : slot[t].pc = "count" => slot[t].batch \in Batches
  BY ActiveFacts DEF Active
<1>2. QED
  BY <1>1, EnrichedKept

(* The upsert writes its batch's rows and no other batch's.                   *)
LEMMA EnrichedUpsert ==
  ASSUME ExactReplies, IInv, EnrichedOK, NEW s \in Slots, Upsert(s)
  PROVE  EnrichedOK'
<1> DEFINE OwnNext(b) == \A a \in ArticleIds[b] : row'[a] = b
<1>1. Active(s) /\ slot[s].pc = "llm" /\ slot[s].pc \notin TailPcs
  BY DEF Upsert, Active, TailPcs
<1>2. PICK c \in Batches : c = slot[s].batch /\ batchStatus[c] \notin Settled
  BY <1>1, AttemptFacts
<1>3. \A t \in Slots : Active(t) /\ t # s => slot[t].batch # c
  BY <1>1, <1>2, ActiveFacts DEF IInv
<1>4. Replies(c) = {[ids |-> ArticleIds[c], count |-> Size(c)]}
  BY DEF Replies, Size
<1>5. /\ row' = [a \in Articles |-> IF a \in ArticleIds[c] THEN c ELSE row[a]]
      /\ slot' = [slot EXCEPT ![s].pc = "complete", ![s].delta = Size(c)]
      /\ batchStatus' = batchStatus /\ processedCount' = processedCount
  <2>1. PICK r \in Replies(c) :
          /\ row' = [a \in Articles |-> IF a \in r.ids THEN c ELSE row[a]]
          /\ slot' = [slot EXCEPT ![s].pc = "complete", ![s].delta = r.count]
    BY <1>2 DEF Upsert
  <2>2. r.ids = ArticleIds[c] /\ r.count = Size(c)
    BY <1>4
  <2>3. QED
    BY <2>1, <2>2 DEF Upsert, jobRow
<1>6. Moves(s, "complete")
  BY UpsertMoves DEF IInv, Core
<1>7. slot'[s].delta = Size(c)
  <2>1. slot \in [Slots -> SlotType]
    BY DEF IInv, Core, TypeOK
  <2>2. slot'[s] = [slot[s] EXCEPT !.pc = "complete", !.delta = Size(c)]
    BY <1>5, <2>1
  <2>3. QED
    BY <2>1, <2>2 DEF SlotType
<1>8. OwnNext(c)
  <2>1. ArticleIds[c] \subseteq Articles
    OBVIOUS
  <2>2. QED
    BY <1>5, <2>1
<1>9. ASSUME NEW b \in Batches, b # c, RowsOwn(b)
      PROVE  OwnNext(b)
  <2>1. ArticleIds[b] \subseteq Articles /\ ArticleIds[b] \cap ArticleIds[c] = {}
    BY <1>2, <1>9
  <2>2. QED
    BY <1>5, <1>9, <2>1 DEF RowsOwn
<1>10. CountedArticles' = CountedArticles
  <2>1. \A b \in Batches : b \in CountedBatches' <=> b \in CountedBatches
    BY <1>1, <1>5, <1>6 DEF CountedBatches, Moves
  <2>2. {x \in CountedBatches : batchStatus[x] = "completed"}'
          = {x \in CountedBatches : batchStatus[x] = "completed"}
    BY <1>5, <2>1 DEF CountedBatches
  <2>3. QED
    BY <2>2 DEF CountedArticles
<1>11. \A b \in Batches : batchStatus'[b] = "completed" => OwnNext(b)
  BY <1>2, <1>5, <1>9 DEF EnrichedOK
<1>12. ASSUME NEW t \in Slots, slot'[t].pc = "complete"
       PROVE  OwnNext(slot'[t].batch) /\ slot'[t].delta = Size(slot'[t].batch)
  <2>1. CASE t = s
    <3>1. slot'[t].batch = c
      BY <1>2, <1>6, <2>1 DEF Moves
    <3>2. QED
      BY <1>7, <1>8, <2>1, <3>1
  <2>2. CASE t # s
    <3>1. slot'[t] = slot[t] /\ Active(t)
      BY <1>6, <1>12, <2>2 DEF Moves, Active
    <3>2. slot[t].batch \in Batches /\ slot[t].batch # c
      BY <1>3, <2>2, <3>1, ActiveFacts DEF IInv
    <3>3. RowsOwn(slot[t].batch) /\ slot[t].delta = Size(slot[t].batch)
      BY <1>12, <3>1 DEF EnrichedOK
    <3>4. OwnNext(slot[t].batch)
      BY <1>9, <3>2, <3>3
    <3>5. QED
      BY <3>1, <3>3, <3>4
  <2>3. QED
    BY <2>1, <2>2
<1>13. \A t \in Slots : slot'[t].pc = "count" => slot'[t] = slot[t]
  BY <1>6 DEF Moves
<1>14. \A b \in Batches : batchStatus'[b] = "completed" => RowsOwn(b)'
  BY <1>11 DEF RowsOwn
<1>15. \A t \in Slots : slot'[t].pc = "complete" =>
         (\A a \in ArticleIds[slot'[t].batch] : row'[a] = slot'[t].batch)
           /\ slot'[t].delta = Size(slot'[t].batch)
  BY <1>12
<1>16. \A t \in Slots : slot'[t].pc = "count" =>
         slot'[t].delta = IF batchStatus'[slot'[t].batch] = "completed"
                          THEN Size(slot'[t].batch) ELSE 0
  BY <1>5, <1>13 DEF EnrichedOK
<1>17. processedCount' = Cardinality(CountedArticles')
  BY <1>5, <1>10 DEF EnrichedOK
<1> HIDE DEF OwnNext
<1>18. QED
  BY <1>14, <1>15, <1>16, <1>17 DEF EnrichedOK, RowsOwn

(* A batch that is settled, and not yet counted, changes no counted article.  *)
LEMMA SettleUncounted ==
  ASSUME IInv, NEW s \in Slots, Active(s), slot[s].pc \notin TailPcs, Moves(s, "count"),
         \A b \in Batches : b # slot[s].batch => batchStatus'[b] = batchStatus[b]
  PROVE  CountedArticles' = CountedArticles
<1>1. slot[s].batch \in Batches /\ batchStatus[slot[s].batch] \notin Settled
  BY AttemptFacts
<1>2. \A b \in Batches : b \in CountedBatches' <=> b \in CountedBatches
  <2>1. slot[s].batch \notin CountedBatches /\ slot[s].batch \notin CountedBatches'
    BY <1>1 DEF CountedBatches, Moves
  <2>2. ASSUME NEW b \in Batches, b # slot[s].batch
        PROVE  b \in CountedBatches' <=> b \in CountedBatches
    <3>1. \A t \in Slots : (slot'[t].pc = "count" /\ slot'[t].batch = b)
                             <=> (slot[t].pc = "count" /\ slot[t].batch = b)
      BY <2>2 DEF Moves, TailPcs
    <3>2. QED
      BY <2>2, <3>1 DEF CountedBatches
  <2>3. QED
    BY <2>1, <2>2
<1>3. {x \in CountedBatches : batchStatus[x] = "completed"}'
        = {x \in CountedBatches : batchStatus[x] = "completed"}
  <2>1. slot[s].batch \notin CountedBatches
    BY <1>1 DEF CountedBatches
  <2>2. CountedBatches \subseteq Batches /\ CountedBatches' \subseteq Batches
    BY DEF CountedBatches
  <2>3. QED
    BY <1>2, <2>1, <2>2
<1>4. QED
  BY <1>3 DEF CountedArticles

(* The outcome of the attempts is written, with what the run brings to the    *)
(* count: its batch's articles if it completed, nothing if it gave up.        *)
LEMMA EnrichedSettle ==
  ASSUME ExactReplies, IInv, EnrichedOK, NEW s \in Slots, MarkCompleted(s) \/ MarkFailed(s)
  PROVE  EnrichedOK'
<1>1. Active(s) /\ slot[s].pc \notin TailPcs /\ Moves(s, "count")
  BY GotoMoves, MarkFailedMoves
     DEF MarkCompleted, MarkFailed, Active, Pcs, TailPcs, IInv, Core
<1>2. PICK c \in Batches : c = slot[s].batch /\ batchStatus[c] \notin Settled
  BY <1>1, AttemptFacts
<1>3. \A t \in Slots : Active(t) /\ t # s => slot[t].batch # c
  BY <1>1, <1>2, ActiveFacts DEF IInv
<1>t. slot \in [Slots -> SlotType] /\ batchStatus \in [Batches -> BatchStatuses]
  BY DEF IInv, Core, TypeOK
<1>4. row' = row /\ processedCount' = processedCount
      /\ \A b \in Batches : b # c => batchStatus'[b] = batchStatus[b]
  BY <1>2, <1>t DEF MarkCompleted, MarkFailed, jobRow
<1>5. CountedArticles' = CountedArticles
  BY <1>1, <1>2, <1>4, SettleUncounted
<1>6. \/ batchStatus'[c] = "completed" /\ RowsOwn(c) /\ slot'[s].delta = Size(c)
      \/ batchStatus'[c] = "failed" /\ slot'[s].delta = 0
  <2>1. CASE MarkCompleted(s)
    <3>1. slot'[s] = [slot[s] EXCEPT !.pc = "count"]
      BY <1>t, <2>1 DEF MarkCompleted, Goto
    <3>2. slot'[s].delta = slot[s].delta
      BY <1>t, <3>1 DEF SlotType
    <3>3. batchStatus'[c] = "completed" /\ slot[s].pc = "complete"
      BY <1>2, <1>t, <2>1 DEF MarkCompleted
    <3>4. QED
      BY <1>2, <3>2, <3>3 DEF EnrichedOK
  <2>2. CASE MarkFailed(s)
    <3>1. slot'[s] = [slot[s] EXCEPT !.pc = "count", !.delta = 0]
      BY <1>t, <2>2 DEF MarkFailed
    <3>2. slot'[s].delta = 0
      BY <1>t, <3>1 DEF SlotType
    <3>3. batchStatus'[c] = "failed"
      BY <1>2, <1>t, <2>2 DEF MarkFailed
    <3>4. QED
      BY <3>2, <3>3
  <2>3. QED
    BY <2>1, <2>2
<1>7. \A b \in Batches : batchStatus'[b] = "completed" => RowsOwn(b)
  BY <1>4, <1>6 DEF EnrichedOK
<1>8. \A t \in Slots : slot'[t].pc = "complete" => slot'[t] = slot[t]
  BY <1>1 DEF Moves
<1>9. ASSUME NEW t \in Slots, slot'[t].pc = "count"
      PROVE  slot'[t].delta = IF batchStatus'[slot'[t].batch] = "completed"
                              THEN Size(slot'[t].batch) ELSE 0
  <2>1. CASE t = s
    <3>1. slot'[t].batch = c
      BY <1>1, <1>2, <2>1 DEF Moves
    <3>2. QED
      BY <1>6, <2>1, <3>1
  <2>2. CASE t # s
    <3>1. slot'[t] = slot[t] /\ Active(t)
      BY <1>1, <1>9, <2>2 DEF Moves, Active
    <3>2. slot[t].batch \in Batches /\ slot[t].batch # c
      BY <1>3, <2>2, <3>1, ActiveFacts DEF IInv
    <3>3. QED
      BY <1>4, <1>9, <3>1, <3>2 DEF EnrichedOK
  <2>3. QED
    BY <2>1, <2>2
<1>10. QED
  BY <1>4, <1>5, <1>7, <1>8, <1>9 DEF EnrichedOK, RowsOwn

(* The count takes in the articles of the run's batch, which no other batch   *)
(* has, if the batch was completed.                                          *)
LEMMA EnrichedCount ==
  ASSUME ExactReplies, IInv, EnrichedOK, NEW s \in Slots, Count(s)
  PROVE  EnrichedOK'
<1>1. Active(s) /\ slot[s].pc = "count"
  BY DEF Count, Active
<1>2. PICK c \in Batches \ CountedBatches :
        c = slot[s].batch /\ CountedBatches' = CountedBatches \cup {c}
  BY CountStep DEF IInv
<1>3. PICK pc \in {"read", "ack"} : Moves(s, pc)
  BY CountMoves DEF IInv, Core
<1>4. row' = row /\ batchStatus' = batchStatus
      /\ processedCount' = processedCount + slot[s].delta
  BY DEF Count
<1>5. CASE batchStatus[c] # "completed"
  <2>1. {x \in CountedBatches : batchStatus[x] = "completed"}'
          = {x \in CountedBatches : batchStatus[x] = "completed"}
    BY <1>2, <1>4, <1>5
  <2>2. CountedArticles' = CountedArticles
    BY <2>1 DEF CountedArticles
  <2>3. processedCount' = Cardinality(CountedArticles')
    BY <1>1, <1>2, <1>4, <1>5, <2>2, CountedArticlesFinite DEF EnrichedOK
  <2>4. QED
    BY <1>3, <1>4, <2>3 DEF EnrichedOK, RowsOwn, Moves
<1>6. CASE batchStatus[c] = "completed"
  <2>1. {x \in CountedBatches : batchStatus[x] = "completed"}'
          = {x \in CountedBatches : batchStatus[x] = "completed"} \cup {c}
    BY <1>2, <1>4, <1>6
  <2>2. CountedArticles' = CountedArticles \cup ArticleIds[c]
    BY <2>1 DEF CountedArticles
  <2>3. CountedArticles \cap ArticleIds[c] = {}
    BY <1>2 DEF CountedArticles, CountedBatches
  <2>4. Cardinality(CountedArticles') = Cardinality(CountedArticles) + Size(c)
    <3>1. IsFiniteSet(ArticleIds[c]) /\ Size(c) = Cardinality(ArticleIds[c]) /\ Size(c) \in Nat
      BY SizeType DEF Size
    <3>2. Cardinality(CountedArticles \cup ArticleIds[c])
            = Cardinality(CountedArticles) + Cardinality(ArticleIds[c])
                - Cardinality(CountedArticles \cap ArticleIds[c])
      BY <3>1, CountedArticlesFinite, FS_Union
    <3>3. Cardinality(CountedArticles \cap ArticleIds[c]) = 0
      BY <2>3, FS_EmptySet
    <3>4. QED
      BY <2>2, <3>1, <3>2, <3>3, CountedArticlesFinite
  <2>5. processedCount' = Cardinality(CountedArticles')
    BY <1>1, <1>2, <1>4, <1>6, <2>4 DEF EnrichedOK
  <2>6. QED
    BY <1>3, <1>4, <2>5 DEF EnrichedOK, RowsOwn, Moves
<1>7. QED
  BY <1>5, <1>6

LEMMA EnrichedInit == Init => EnrichedOK
<1> SUFFICES ASSUME Init, ExactReplies
             PROVE  EnrichedOK
  BY DEF EnrichedOK
<1>1. CountedArticles = {}
  BY DEF Init, CountedArticles, CountedBatches
<1>2. Cardinality(CountedArticles) = 0
  BY <1>1, FS_EmptySet
<1>3. \A s \in Slots : slot[s].pc = "idle"
  BY DEF Init, Idle
<1>4. QED
  BY <1>2, <1>3 DEF Init, EnrichedOK

LEMMA EnrichedNext == IInv /\ EnrichedOK /\ [Next]_vars => EnrichedOK'
<1> SUFFICES ASSUME ExactReplies, IInv, EnrichedOK, [Next]_vars
             PROVE  EnrichedOK'
  BY DEF EnrichedOK
<1>t. TypeOK /\ Core
  BY DEF IInv, Core
<1> USE <1>t DEF jobRow
<1>c. \A t \in Slots : slot[t].pc = "count" => slot[t].batch \in Batches
  BY ActiveFacts DEF Active
<1>1. CASE Plan
  <2>1. \A b \in Batches : batchStatus[b] \notin Settled /\ batchStatus'[b] \notin Settled
    BY <1>1 DEF Plan, Core, StatusOK
  <2>2. QED
    BY <1>1, <1>c, <2>1, EnrichedKept DEF Plan
<1>2. CASE Enqueue
  BY <1>2, <1>c, EnrichedKept DEF Enqueue
<1>3. ASSUME NEW s \in Slots, NEW b \in Batches, Take(s, b)
      PROVE  EnrichedOK'
  <2>1. /\ slot[s].pc # "count" /\ slot'[s].pc \notin {"complete", "count"}
        /\ \A t \in Slots : t # s => slot'[t] = slot[t]
    BY <1>3, TakeMoves
  <2>2. QED
    BY <1>3, <2>1, EnrichedKeptByRun DEF Take
<1>4. ASSUME NEW s \in Slots, MarkProcessing(s)
      PROVE  EnrichedOK'
  <2>1. Active(s) /\ slot[s].pc # "count" /\ slot[s].pc \notin TailPcs /\ Moves(s, "llm")
    BY <1>4, GotoMoves DEF MarkProcessing, Active, Pcs, TryPcs, TailPcs
  <2>2. slot[s].batch \in Batches /\ batchStatus[slot[s].batch] \notin Settled
    BY <2>1, AttemptFacts
  <2>3. \A b \in Batches : batchStatus'[b] = batchStatus[b]
                             \/ (batchStatus[b] \notin Settled /\ batchStatus'[b] \notin Settled)
    BY <1>4, <2>2 DEF MarkProcessing, TypeOK
  <2>4. QED
    BY <1>4, <2>1, <2>3, EnrichedKeptByRun DEF MarkProcessing, Moves
<1>5. ASSUME NEW s \in Slots, AttemptFails(s)
      PROVE  EnrichedOK'
  <2>1. slot[s].pc # "count" /\ Moves(s, "bump")
    BY <1>5, GotoMoves DEF AttemptFails, Pcs, CatchPcs
  <2>2. QED
    BY <1>5, <2>1, EnrichedKeptByRun DEF AttemptFails, Moves
<1>6. ASSUME NEW s \in Slots, FinalizeRead(s)
      PROVE  EnrichedOK'
  <2>1. /\ slot[s].pc # "count" /\ slot'[s].pc \notin {"complete", "count"}
        /\ \A t \in Slots : t # s => slot'[t] = slot[t]
    BY <1>6, FinalizeReadMoves DEF FinalizeRead
  <2>2. QED
    BY <1>6, <2>1, EnrichedKeptByRun DEF FinalizeRead
<1>7. ASSUME NEW s \in Slots, FinalizeWrite(s)
      PROVE  EnrichedOK'
  <2>1. slot[s].pc # "count" /\ Moves(s, "ack")
    BY <1>7, GotoMoves DEF FinalizeWrite, Pcs
  <2>2. QED
    BY <1>7, <2>1, EnrichedKeptByRun DEF FinalizeWrite, Moves
<1>8. ASSUME NEW s \in Slots, BumpRetry(s)
      PROVE  EnrichedOK'
  <2>1. slot[s].pc # "count" /\ \E pc \in {"retrying", "failed"} : Moves(s, pc)
    BY <1>8, GotoMoves DEF BumpRetry, Pcs, CatchPcs
  <2>2. QED
    BY <1>8, <2>1, EnrichedKeptByRun DEF BumpRetry, Moves
<1>9. ASSUME NEW s \in Slots, MarkRetrying(s)
      PROVE  EnrichedOK'
  <2>1. Active(s) /\ slot[s].pc # "count" /\ slot[s].pc \notin TailPcs /\ Moves(s, "requeue")
    BY <1>9, GotoMoves DEF MarkRetrying, Active, Pcs, CatchPcs, TailPcs
  <2>2. slot[s].batch \in Batches /\ batchStatus[slot[s].batch] \notin Settled
    BY <2>1, AttemptFacts
  <2>3. \A b \in Batches : batchStatus'[b] = batchStatus[b]
                             \/ (batchStatus[b] \notin Settled /\ batchStatus'[b] \notin Settled)
    BY <1>9, <2>2 DEF MarkRetrying, TypeOK
  <2>4. QED
    BY <1>9, <2>1, <2>3, EnrichedKeptByRun DEF MarkRetrying, Moves
<1>10. ASSUME NEW s \in Slots, Requeue(s)
       PROVE  EnrichedOK'
  <2>1. slot[s].pc # "count" /\ Moves(s, "ack")
    BY <1>10, GotoMoves DEF Requeue, Pcs
  <2>2. QED
    BY <1>10, <2>1, EnrichedKeptByRun DEF Requeue, Moves
<1>11. ASSUME NEW s \in Slots, Ack(s)
       PROVE  EnrichedOK'
  <2>1. /\ slot[s].pc # "count" /\ slot'[s].pc \notin {"complete", "count"}
        /\ \A t \in Slots : t # s => slot'[t] = slot[t]
    BY <1>11, AckMoves
  <2>2. QED
    BY <1>11, <2>1, EnrichedKeptByRun DEF Ack
<1>12. CASE UNCHANGED vars
  BY <1>12, <1>c, EnrichedKept DEF vars
<1>13. QED
  BY <1>1, <1>2, <1>3, <1>4, <1>5, <1>6, <1>7, <1>8, <1>9, <1>10, <1>11, <1>12,
     EnrichedUpsert, EnrichedSettle, EnrichedCount DEF Next, Agent, Run

(* When the model answers each article of a batch once, a job that reads      *)
(* 'completed' has enriched every article of every batch under its own batch, *)
(* and processed_count is their number: no article counted twice by a retry,   *)
(* none missed, whatever the slots and attempts.                              *)
THEOREM CompletedIsEnriched == Spec => []CompletedMeansEnriched
<1>1. IInv /\ EnrichedOK => CompletedMeansEnriched
  <2> SUFFICES ASSUME IInv, EnrichedOK, ExactReplies, jobStatus = "completed"
               PROVE  /\ \A b \in Batches, a \in Articles : a \in ArticleIds[b] => row[a] = b
                      /\ processedCount = Cardinality(UNION {ArticleIds[b] : b \in Batches})
    BY DEF CompletedMeansEnriched
  <2>1. batchesCompleted = BatchCount /\ Verdict(batchStatus) = "completed"
    BY DEF IInv, FinalOK
  <2>2. CountedBatches = Batches
    BY <2>1, CountedFacts DEF IInv, CountMatches
  <2>3. \A b \in Batches : batchStatus[b] # "failed"
    BY <2>1 DEF Verdict
  <2>4. \A b \in Batches : batchStatus[b] = "completed"
    BY <2>2, <2>3 DEF CountedBatches
  <2>5. {b \in CountedBatches : batchStatus[b] = "completed"} = Batches
    BY <2>2, <2>4
  <2>6. CountedArticles = UNION {ArticleIds[b] : b \in Batches}
    BY <2>5 DEF CountedArticles
  <2>7. QED
    BY <2>4, <2>6 DEF EnrichedOK, RowsOwn
<1>2. IInv /\ EnrichedOK /\ [Next]_vars => (IInv /\ EnrichedOK)'
  BY IInvNext, EnrichedNext
<1>3. Init => IInv /\ EnrichedOK
  BY IInvInit, EnrichedInit
<1>4. QED
  BY <1>1, <1>2, <1>3, PTL DEF Spec
-----------------------------------------------------------------------------
(* From here on the modules that extend the pipeline: the user's retry,       *)
(* failures in the middle of a run, and the reach pipeline beside it.         *)
USE PipelineAssumption, RetryAssumption DEF Settled, Verdicts, BatchStatuses

-----------------------------------------------------------------------------
(* The retry: its own variables are typed, whatever the pipeline does.        *)
RetryTyped == RetryTypeOK /\ SlotOK

LEMMA RetryInitType == RetryInit => RetryTyped
BY InitType DEF RetryInit, RetryTyped, RetryTypeOK, NoRequest

LEMMA RetryNextType == RetryTyped /\ [RetryNext \/ RetryDone]_retryVars => RetryTyped'
<1> SUFFICES ASSUME RetryTyped, [RetryNext \/ RetryDone]_retryVars
             PROVE  RetryTyped'
  OBVIOUS
<1> USE DEF RetryTyped, RetryTypeOK
<1>1. CASE Next /\ UNCHANGED clientVars
  BY <1>1, NextType DEF clientVars
<1>2. ASSUME NEW c \in Clients, RetryRead(c)
      PROVE  RetryTyped'
  <2>1. TypeOK' /\ SlotOK'
    BY <1>2, NextType DEF RetryRead
  <2>2. QED
    BY <1>2, <2>1 DEF RetryRead
<1>3. ASSUME NEW c \in Clients, RetryReset(c)
      PROVE  RetryTyped'
  BY <1>3 DEF RetryReset, TypeOK, SlotOK, jobRow
<1>4. ASSUME NEW c \in Clients, NEW b \in Batches, RetryEnqueue(c, b)
      PROVE  RetryTyped'
  <2>1. TypeOK' /\ SlotOK'
    BY <1>4 DEF RetryEnqueue, TypeOK, SlotOK, jobRow
  <2>2. client' \in [Clients -> [pc : {"idle", "reset", "enqueue"}, rows : SUBSET Batches]]
    BY <1>4 DEF RetryEnqueue, NoRequest
  <2>3. QED
    BY <1>4, <2>1, <2>2 DEF RetryEnqueue
<1>5. CASE UNCHANGED retryVars
  <2>1. TypeOK' /\ SlotOK'
    BY <1>5, NextType DEF retryVars
  <2>2. QED
    BY <1>5, <2>1 DEF retryVars, clientVars
<1>6. QED
  BY <1>1, <1>2, <1>3, <1>4, <1>5 DEF RetryNext, Client, RetryDone

LEMMA RetryTypes == RetrySpec => []RetryTyped
BY RetryInitType, RetryNextType, PTL DEF RetrySpec
-----------------------------------------------------------------------------
LEMMA CountedFinite ==
  /\ IsFiniteSet(CountedBatches) /\ Cardinality(CountedBatches) \in Nat
  /\ IsFiniteSet(CountedBatches') /\ Cardinality(CountedBatches') \in Nat
<1>1. IsFiniteSet(Batches) /\ CountedBatches \subseteq Batches /\ CountedBatches' \subseteq Batches
  BY FS_Interval DEF Batches, CountedBatches
<1>2. QED
  BY <1>1, FS_Subset, FS_CardinalityType

(* The counter stays ahead of a step that adds no batch to the counted ones, *)
(* and of one that adds a single one and counts it.                         *)
LEMMA NeverShortKept ==
  ASSUME CounterNeverShort, batchesCompleted \in Nat,
         NEW added, CountedBatches' \subseteq CountedBatches \cup added,
         \/ added = {} /\ batchesCompleted' = batchesCompleted
         \/ (\E b : added = {b}) /\ batchesCompleted' = batchesCompleted + 1
  PROVE  CounterNeverShort'
<1>1. CASE added = {} /\ batchesCompleted' = batchesCompleted
  BY <1>1, CountedFinite, FS_Subset DEF CounterNeverShort
<1>2. ASSUME NEW b, added = {b}, batchesCompleted' = batchesCompleted + 1
      PROVE  CounterNeverShort'
  <2>1. /\ IsFiniteSet(CountedBatches \cup {b})
        /\ Cardinality(CountedBatches \cup {b}) =
             IF b \in CountedBatches THEN Cardinality(CountedBatches)
             ELSE Cardinality(CountedBatches) + 1
    BY CountedFinite, FS_AddElement
  <2>2. Cardinality(CountedBatches') <= Cardinality(CountedBatches \cup {b})
    BY <1>2, <2>1, FS_Subset
  <2>3. QED
    BY <1>2, <2>1, <2>2, CountedFinite DEF CounterNeverShort
<1>3. QED
  BY <1>1, <1>2

(* A run that neither counts nor writes an outcome settles no batch.         *)
LEMMA NeverShortByRun ==
  ASSUME CounterNeverShort, batchesCompleted \in Nat, batchesCompleted' = batchesCompleted,
         \A b \in Batches : batchStatus'[b] \in Settled => batchStatus[b] \in Settled,
         \A t \in Slots : slot[t].pc = "count" =>
           slot'[t].pc = "count" /\ slot'[t].batch = slot[t].batch
  PROVE  CounterNeverShort'
<1>1. CountedBatches' \subseteq CountedBatches \cup {}
  BY DEF CountedBatches
<1>2. QED
  BY <1>1, NeverShortKept

LEMMA NeverShortNext ==
  RetryTyped /\ CounterNeverShort /\ [RetryNext \/ RetryDone]_retryVars => CounterNeverShort'
<1> SUFFICES ASSUME RetryTyped, CounterNeverShort, [RetryNext \/ RetryDone]_retryVars
             PROVE  CounterNeverShort'
  OBVIOUS
<1>t. TypeOK /\ SlotOK /\ batchesCompleted \in Nat
  BY DEF RetryTyped, RetryTypeOK, TypeOK
<1> USE DEF jobRow
<1>1. CASE Plan
  <2>1. \A b \in Batches : batchStatus'[b] \notin Settled
    BY <1>1 DEF Plan
  <2>2. QED
    BY <1>1, <1>t, <2>1, NeverShortByRun DEF Plan
<1>2. CASE Enqueue
  BY <1>2, <1>t, NeverShortByRun DEF Enqueue
<1>3. ASSUME NEW s \in Slots, NEW b \in Batches, Take(s, b)
      PROVE  CounterNeverShort'
  BY <1>3, <1>t, TakeMoves, NeverShortByRun DEF Take
<1>4. ASSUME NEW s \in Slots, NEW pc, Moves(s, pc), slot[s].pc # "count",
             batchesCompleted' = batchesCompleted,
             \A b \in Batches : batchStatus'[b] \in Settled => batchStatus[b] \in Settled
      PROVE  CounterNeverShort'
  BY <1>4, <1>t, NeverShortByRun DEF Moves
<1>5. ASSUME NEW s \in Slots, MarkProcessing(s)
      PROVE  CounterNeverShort'
  <2>1. Moves(s, "llm")
    BY <1>5, <1>t, GotoMoves DEF MarkProcessing, Pcs, TryPcs
  <2>2. \A b \in Batches : batchStatus'[b] \in Settled => batchStatus[b] \in Settled
    BY <1>5, <1>t DEF MarkProcessing, TypeOK
  <2>3. QED
    BY <1>5, <2>1, <2>2, <1>4 DEF MarkProcessing
<1>6. ASSUME NEW s \in Slots, Upsert(s)
      PROVE  CounterNeverShort'
  BY <1>6, <1>t, UpsertMoves, <1>4 DEF Upsert
<1>7. ASSUME NEW s \in Slots, AttemptFails(s)
      PROVE  CounterNeverShort'
  <2>1. Moves(s, "bump")
    BY <1>7, <1>t, GotoMoves DEF AttemptFails, Pcs, CatchPcs
  <2>2. QED
    BY <1>7, <2>1, <1>4 DEF AttemptFails
<1>8. ASSUME NEW s \in Slots, Moves(s, "count"), slot[s].pc # "count",
             batchesCompleted' = batchesCompleted,
             \A b \in Batches : b # slot[s].batch => batchStatus'[b] = batchStatus[b]
      PROVE  CounterNeverShort'
  <2>1. CountedBatches' \subseteq CountedBatches \cup {}
    BY <1>8 DEF CountedBatches, Moves
  <2>2. QED
    BY <1>8, <1>t, <2>1, NeverShortKept
<1>9. ASSUME NEW s \in Slots, MarkCompleted(s)
      PROVE  CounterNeverShort'
  <2>1. Moves(s, "count")
    BY <1>9, <1>t, GotoMoves DEF MarkCompleted, Pcs, TailPcs
  <2>2. QED
    BY <1>9, <2>1, <1>8, <1>t DEF MarkCompleted, TypeOK
<1>10. ASSUME NEW s \in Slots, MarkFailed(s)
      PROVE  CounterNeverShort'
  BY <1>10, MarkFailedMoves, <1>8, <1>t DEF MarkFailed, TypeOK
<1>11. ASSUME NEW s \in Slots, Count(s)
      PROVE  CounterNeverShort'
  <2>1. \A t \in Slots : t # s => slot'[t] = slot[t]
    BY <1>11, <1>t, CountMoves DEF Moves
  <2>2. CountedBatches' \subseteq CountedBatches \cup {slot[s].batch}
    BY <1>11, <2>1 DEF CountedBatches, Count
  <2>3. QED
    BY <1>11, <1>t, <2>2, NeverShortKept DEF Count
<1>12. ASSUME NEW s \in Slots, FinalizeRead(s)
      PROVE  CounterNeverShort'
  BY <1>12, <1>t, FinalizeReadMoves, NeverShortByRun DEF FinalizeRead
<1>13. ASSUME NEW s \in Slots, FinalizeWrite(s)
      PROVE  CounterNeverShort'
  <2>1. Moves(s, "ack")
    BY <1>13, <1>t, GotoMoves DEF FinalizeWrite, Pcs
  <2>2. QED
    BY <1>13, <2>1, <1>4 DEF FinalizeWrite
<1>14. ASSUME NEW s \in Slots, BumpRetry(s)
      PROVE  CounterNeverShort'
  <2>1. PICK pc \in Pcs : Goto(s, pc)
    BY <1>14 DEF BumpRetry, Pcs, CatchPcs
  <2>2. QED
    BY <1>14, <2>1, <1>t, GotoMoves, <1>4 DEF BumpRetry
<1>15. ASSUME NEW s \in Slots, MarkRetrying(s)
      PROVE  CounterNeverShort'
  <2>1. Moves(s, "requeue")
    BY <1>15, <1>t, GotoMoves DEF MarkRetrying, Pcs, CatchPcs
  <2>2. \A b \in Batches : batchStatus'[b] \in Settled => batchStatus[b] \in Settled
    BY <1>15, <1>t DEF MarkRetrying, TypeOK
  <2>3. QED
    BY <1>15, <2>1, <2>2, <1>4 DEF MarkRetrying
<1>16. ASSUME NEW s \in Slots, Requeue(s)
      PROVE  CounterNeverShort'
  <2>1. Moves(s, "ack")
    BY <1>16, <1>t, GotoMoves DEF Requeue, Pcs
  <2>2. QED
    BY <1>16, <2>1, <1>4 DEF Requeue
<1>17. ASSUME NEW s \in Slots, Ack(s)
      PROVE  CounterNeverShort'
  BY <1>17, <1>t, AckMoves, NeverShortByRun DEF Ack
<1>18. ASSUME NEW c \in Clients, RetryRead(c) \/ RetryReset(c) \/ \E b \in Batches : RetryEnqueue(c, b)
      PROVE  CounterNeverShort'
  <2>1. \A b \in Batches : batchStatus'[b] \in Settled => batchStatus[b] \in Settled
    BY <1>18 DEF RetryRead, RetryReset, RetryEnqueue, vars
  <2>2. QED
    BY <1>18, <1>t, <2>1, NeverShortByRun DEF RetryRead, RetryReset, RetryEnqueue, vars
<1>19. CASE UNCHANGED vars
  BY <1>19, <1>t, NeverShortByRun DEF vars
<1>20. QED
  BY <1>1, <1>2, <1>3, <1>5, <1>6, <1>7, <1>9, <1>10, <1>11, <1>12, <1>13, <1>14, <1>15,
     <1>16, <1>17, <1>18, <1>19
     DEF RetryNext, RetryDone, retryVars, Client, Next, Agent, Run

(* Any number of clients may retry at any moment, and two of them may send one *)
(* batch into two slots: the counter still never falls behind the batches that  *)
(* are settled and counted, so that the finalizer's >= can always be met.       *)
THEOREM RetryNeverShort == RetrySpec => []CounterNeverShort
<1>1. RetryInit => CounterNeverShort
  <2> SUFFICES ASSUME RetryInit
               PROVE  CounterNeverShort
    OBVIOUS
  <2>1. CountedBatches = {}
    BY DEF RetryInit, Init, CountedBatches
  <2>2. QED
    BY <2>1, FS_EmptySet DEF CounterNeverShort, RetryInit, Init
<1>2. QED
  BY <1>1, NeverShortNext, RetryTypes, PTL DEF RetrySpec
-----------------------------------------------------------------------------
(* With one client.  A batch that is enqueued is waiting, attempted, settled  *)
(* or in the hands of a request that has reset it and still owes its entry,   *)
(* and never two of these; a request that has read it finds it failed still.  *)
Free(b) == queue[b] = 0 /\ b <= sent /\ \A s \in Slots : ~Attempting(s, b)

OneOwner ==
  /\ jobStatus = "none" => sent = 0 /\ \A b \in Batches : batchStatus[b] = "absent"
  /\ \A b \in Batches : queue[b] > 0 => queue[b] = 1 /\ b <= sent /\ \A s \in Slots : ~Attempting(s, b)
  /\ \A b \in Batches, s \in Slots : Attempting(s, b) => b <= sent
  /\ \A b \in Batches, s, t \in Slots : Attempting(s, b) /\ Attempting(t, b) => s = t
  /\ \A b \in Batches : batchStatus[b] \in Settled => Free(b)
  /\ \A c \in Clients : \A b \in client[c].rows :
       /\ client[c].pc = "reset" => batchStatus[b] = "failed"
       /\ client[c].pc = "enqueue" => Free(b) /\ batchStatus[b] \notin Settled

OneClient == \A c, d \in Clients : c = d

LEMMA AttemptingMoves ==
  ASSUME NEW s \in Slots, NEW pc, Moves(s, pc), NEW t \in Slots, NEW b
  PROVE  Attempting(t, b)' <=> IF t = s
                               THEN pc \notin {"idle", "ack"} \cup TailPcs /\ slot[s].batch = b
                               ELSE Attempting(t, b)
BY DEF Moves, Attempting, Active

(* A step within an attempt or behind its end: nobody's part in a batch       *)
(* changes, and at most the row of a batch that is attempted is written.      *)
LEMMA OwnersKept ==
  ASSUME OneOwner, queue' = queue, sent' = sent, client' = client,
         jobStatus' = "none" => jobStatus = "none",
         \A t \in Slots, b \in Batches : Attempting(t, b)' <=> Attempting(t, b),
         \A b \in Batches : \/ batchStatus'[b] = batchStatus[b]
                            \/ batchStatus'[b] \notin Settled /\ \E t \in Slots : Attempting(t, b),
         RetryTyped
  PROVE  OneOwner'
<1>1. \A b \in Batches : Free(b)' <=> Free(b)
  BY DEF Free
<1>2. \A c \in Clients : client[c].rows \subseteq Batches
  BY DEF RetryTyped, RetryTypeOK
<1>3. jobStatus' = "none" => sent' = 0 /\ \A b \in Batches : batchStatus'[b] = "absent"
  BY DEF OneOwner, Batches
<1>4. \A b \in Batches : queue'[b] > 0 => queue'[b] = 1 /\ b <= sent' /\ \A s \in Slots : ~Attempting(s, b)'
  BY DEF OneOwner
<1>5. \A b \in Batches, s \in Slots : Attempting(s, b)' => b <= sent'
  BY DEF OneOwner
<1>6. \A b \in Batches, s, t \in Slots : Attempting(s, b)' /\ Attempting(t, b)' => s = t
  BY DEF OneOwner
<1>7. \A b \in Batches : batchStatus'[b] \in Settled => Free(b)'
  BY <1>1 DEF OneOwner
<1>8. ASSUME NEW c \in Clients, NEW b \in client[c].rows
      PROVE  /\ client[c].pc = "reset" => batchStatus'[b] = "failed"
             /\ client[c].pc = "enqueue" => Free(b)' /\ batchStatus'[b] \notin Settled
  <2>1. b \in Batches
    BY <1>2
  <2>2. CASE client[c].pc = "reset"
    <3>1. Free(b)
      BY <2>1, <2>2 DEF OneOwner
    <3>2. QED
      BY <2>1, <2>2, <3>1 DEF OneOwner, Free
  <2>3. CASE client[c].pc = "enqueue"
    BY <2>1, <2>3, <1>1 DEF OneOwner
  <2>4. QED
    BY <2>2, <2>3
<1>9. QED
  BY <1>3, <1>4, <1>5, <1>6, <1>7, <1>8 DEF OneOwner

LEMMA OwnersKeptByRun ==
  ASSUME OneOwner, RetryTyped, queue' = queue, sent' = sent, client' = client,
         jobStatus' = "none" => jobStatus = "none",
         NEW s \in Slots, NEW pc, Moves(s, pc),
         slot[s].pc \in {"idle", "ack"} \cup TailPcs <=> pc \in {"idle", "ack"} \cup TailPcs,
         \/ batchStatus' = batchStatus
         \/ /\ slot[s].pc \notin {"idle", "ack"} \cup TailPcs
            /\ batchStatus'[slot[s].batch] \notin Settled
            /\ \A b \in Batches : b # slot[s].batch => batchStatus'[b] = batchStatus[b]
  PROVE  OneOwner'
<1>1. ASSUME NEW t \in Slots, NEW b \in Batches
      PROVE  Attempting(t, b)' <=> Attempting(t, b)
  <2>1. CASE t = s
    <3>1. Attempting(t, b)' <=> pc \notin {"idle", "ack"} \cup TailPcs /\ slot[s].batch = b
      BY <2>1, AttemptingMoves
    <3>2. QED
      BY <2>1, <3>1 DEF Attempting, Active
  <2>2. CASE t # s
    BY <2>2, AttemptingMoves
  <2>3. QED
    BY <2>1, <2>2
<1>2. \A b \in Batches : \/ batchStatus'[b] = batchStatus[b]
                         \/ batchStatus'[b] \notin Settled /\ \E t \in Slots : Attempting(t, b)
  BY DEF Attempting, Active
<1>3. QED
  BY <1>1, <1>2, OwnersKept

(* An attempt ends: it has settled its batch, or puts it back into the queue.  *)
LEMMA OwnersEnd ==
  ASSUME OneOwner, RetryTyped, sent' = sent, client' = client, jobStatus' = jobStatus,
         NEW s \in Slots, NEW e \in Batches, Attempting(s, e),
         \A t \in Slots, b \in Batches : Attempting(t, b)' <=> t # s /\ Attempting(t, b),
         \A b \in Batches : b # e => queue'[b] = queue[b] /\ batchStatus'[b] = batchStatus[b],
         \/ queue'[e] = queue[e] /\ batchStatus'[e] \in Settled
         \/ queue'[e] = queue[e] + 1 /\ batchStatus'[e] = batchStatus[e]
  PROVE  OneOwner'
<1>1. \A c \in Clients : client[c].rows \subseteq Batches
  BY DEF RetryTyped, RetryTypeOK
<1>2. queue \in [Batches -> Nat]
  BY DEF RetryTyped, RetryTypeOK, TypeOK
<1>3. /\ e <= sent /\ sent # 0 /\ queue[e] = 0 /\ batchStatus[e] \notin Settled
      /\ \A t \in Slots : Attempting(t, e) => t = s
  <2>1. e <= sent /\ queue[e] = 0
    BY <1>2 DEF OneOwner
  <2>2. batchStatus[e] \notin Settled
    BY DEF OneOwner, Free
  <2>3. \A t \in Slots : Attempting(t, e) => t = s
    BY DEF OneOwner
  <2>4. QED
    BY <2>1, <2>2, <2>3 DEF Batches
<1>4. \A t \in Slots : ~Attempting(t, e)'
  BY <1>3
<1>5. \A b \in Batches : b # e => (Free(b)' <=> Free(b))
  <2>1. \A b \in Batches : Attempting(s, b) => b = e
    BY DEF Attempting
  <2>2. QED
    BY <2>1 DEF Free
<1>6. jobStatus' # "none"
  BY <1>3 DEF OneOwner
<1>7. \A b \in Batches : queue'[b] > 0 => queue'[b] = 1 /\ b <= sent' /\ \A t \in Slots : ~Attempting(t, b)'
  BY <1>3, <1>4 DEF OneOwner
<1>8. \A b \in Batches, t \in Slots : Attempting(t, b)' => b <= sent'
  BY DEF OneOwner
<1>9. \A b \in Batches, t, u \in Slots : Attempting(t, b)' /\ Attempting(u, b)' => t = u
  BY DEF OneOwner
<1>10. \A b \in Batches : batchStatus'[b] \in Settled => Free(b)'
  <2>1. batchStatus'[e] \in Settled => Free(e)'
    BY <1>3, <1>4 DEF Free
  <2>2. QED
    BY <2>1, <1>5 DEF OneOwner
<1>11. ASSUME NEW c \in Clients, NEW b \in client[c].rows
       PROVE  /\ client[c].pc = "reset" => batchStatus'[b] = "failed"
              /\ client[c].pc = "enqueue" => Free(b)' /\ batchStatus'[b] \notin Settled
  <2>1. b \in Batches
    BY <1>1
  <2>2. client[c].pc \in {"reset", "enqueue"} => b # e
    BY <2>1, <1>3 DEF OneOwner, Free
  <2>3. QED
    BY <2>1, <2>2, <1>5 DEF OneOwner
<1>12. QED
  BY <1>6, <1>7, <1>8, <1>9, <1>10, <1>11 DEF OneOwner

(* A step of the queue: an entry is put in for a batch that nobody holds, or a *)
(* slot takes one.                                                          *)
LEMMA OwnersTake ==
  ASSUME OneOwner, RetryTyped, client' = client, NEW s \in Slots, NEW e \in Batches, Take(s, e)
  PROVE  OneOwner'
<1>1. \A c \in Clients : client[c].rows \subseteq Batches
  BY DEF RetryTyped, RetryTypeOK
<1>2. TypeOK /\ queue \in [Batches -> Nat]
  BY DEF RetryTyped, RetryTypeOK, TypeOK
<1>3. queue[e] = 1 /\ e <= sent /\ (\A t \in Slots : ~Attempting(t, e)) /\ batchStatus[e] \notin Settled
  BY DEF Take, OneOwner, Free
<1>4. \A t \in Slots, b \in Batches :
        Attempting(t, b)' <=> (t = s /\ b = e) \/ (t # s /\ Attempting(t, b))
  BY <1>2, TakeMoves DEF Attempting, Active, TailPcs
<1>5. \A b \in Batches : ~Attempting(s, b)
  BY <1>2, TakeMoves DEF Attempting, Active
<1>6. \A b \in Batches : b # e => (Free(b)' <=> Free(b))
  BY <1>2, <1>4, <1>5 DEF Free, Take
<1>7. /\ sent' = sent /\ batchStatus' = batchStatus /\ jobStatus' = jobStatus
      /\ queue'[e] = 0 /\ \A b \in Batches : b # e => queue'[b] = queue[b]
  BY <1>2, <1>3 DEF Take, jobRow
<1>8. jobStatus' = "none" => sent' = 0 /\ \A b \in Batches : batchStatus'[b] = "absent"
  BY <1>7 DEF OneOwner
<1>9. \A b \in Batches : queue'[b] > 0 => queue'[b] = 1 /\ b <= sent' /\ \A t \in Slots : ~Attempting(t, b)'
  BY <1>4, <1>7 DEF OneOwner
<1>10. \A b \in Batches, t \in Slots : Attempting(t, b)' => b <= sent'
  BY <1>3, <1>4, <1>7 DEF OneOwner
<1>11. \A b \in Batches, t, u \in Slots : Attempting(t, b)' /\ Attempting(u, b)' => t = u
  BY <1>3, <1>4 DEF OneOwner
<1>12. \A b \in Batches : batchStatus'[b] \in Settled => Free(b)'
  BY <1>3, <1>6, <1>7 DEF OneOwner
<1>13. ASSUME NEW c \in Clients, NEW b \in client[c].rows
       PROVE  /\ client[c].pc = "reset" => batchStatus'[b] = "failed"
              /\ client[c].pc = "enqueue" => Free(b)' /\ batchStatus'[b] \notin Settled
  <2>1. b \in Batches
    BY <1>1
  <2>2. client[c].pc \in {"reset", "enqueue"} => b # e
    BY <2>1, <1>3 DEF OneOwner, Free
  <2>3. QED
    BY <2>1, <2>2, <1>6, <1>7 DEF OneOwner
<1>14. QED
  BY <1>8, <1>9, <1>10, <1>11, <1>12, <1>13 DEF OneOwner

LEMMA OwnersEnqueue ==
  ASSUME OneOwner, RetryTyped, client' = client, Enqueue
  PROVE  OneOwner'
<1> DEFINE e == sent + 1
<1>1. \A c \in Clients : client[c].rows \subseteq Batches
  BY DEF RetryTyped, RetryTypeOK
<1>2. queue \in [Batches -> Nat] /\ sent \in Nat /\ e \in Batches
  BY DEF RetryTyped, RetryTypeOK, TypeOK, Enqueue, Batches
<1>3. queue[e] = 0 /\ (\A t \in Slots : ~Attempting(t, e)) /\ batchStatus[e] \notin Settled
  <2>1. ~(e <= sent)
    BY <1>2
  <2>2. QED
    BY <1>2, <2>1 DEF OneOwner, Free
<1>4. \A t \in Slots, b \in Batches : Attempting(t, b)' <=> Attempting(t, b)
  BY DEF Enqueue, Attempting, Active
<1>5. /\ sent' = e /\ batchStatus' = batchStatus /\ jobStatus' = jobStatus /\ jobStatus # "none"
      /\ queue'[e] = 1 /\ \A b \in Batches : b # e => queue'[b] = queue[b]
  BY <1>2, <1>3 DEF Enqueue, jobRow
<1>6. \A b \in Batches : b # e => (Free(b)' <=> Free(b))
  BY <1>2, <1>4, <1>5 DEF Free, Batches
<1>7. ~Free(e)
  BY <1>2 DEF Free
<1>8. \A b \in Batches : b <= sent => b <= sent'
  BY <1>2, <1>5 DEF Batches
<1> HIDE DEF e
<1>9. \A b \in Batches : queue'[b] > 0 => queue'[b] = 1 /\ b <= sent' /\ \A t \in Slots : ~Attempting(t, b)'
  <2>1. e <= sent'
    BY <1>2, <1>5 DEF e
  <2>2. QED
    BY <1>3, <1>4, <1>5, <1>8, <2>1 DEF OneOwner
<1>10. \A b \in Batches, t \in Slots : Attempting(t, b)' => b <= sent'
  BY <1>4, <1>8 DEF OneOwner
<1>11. \A b \in Batches, t, u \in Slots : Attempting(t, b)' /\ Attempting(u, b)' => t = u
  BY <1>4 DEF OneOwner
<1>12. \A b \in Batches : batchStatus'[b] \in Settled => Free(b)'
  BY <1>3, <1>5, <1>6 DEF OneOwner
<1>13. ASSUME NEW c \in Clients, NEW b \in client[c].rows
       PROVE  /\ client[c].pc = "reset" => batchStatus'[b] = "failed"
              /\ client[c].pc = "enqueue" => Free(b)' /\ batchStatus'[b] \notin Settled
  BY <1>1, <1>3, <1>5, <1>6, <1>7 DEF OneOwner
<1>14. QED
  BY <1>5, <1>9, <1>10, <1>11, <1>12, <1>13 DEF OneOwner

LEMMA OwnersPlan ==
  ASSUME OneOwner, RetryTyped, client' = client, Plan
  PROVE  OneOwner'
<1>1. \A c \in Clients : client[c].rows \subseteq Batches
  BY DEF RetryTyped, RetryTypeOK
<1>2. \A b \in Batches : ~Free(b)
  BY DEF Plan, OneOwner, Free, Batches
<1>3. \A t \in Slots, b \in Batches : Attempting(t, b)' <=> Attempting(t, b)
  BY DEF Plan, Attempting, Active
<1>4. /\ queue' = queue /\ sent' = sent /\ jobStatus' # "none"
      /\ \A b \in Batches : batchStatus[b] = "absent" /\ batchStatus'[b] = "pending"
  BY DEF Plan, OneOwner
<1>5. \A b \in Batches : queue'[b] > 0 => queue'[b] = 1 /\ b <= sent' /\ \A t \in Slots : ~Attempting(t, b)'
  BY <1>3, <1>4 DEF OneOwner
<1>6. \A b \in Batches, t \in Slots : Attempting(t, b)' => b <= sent'
  BY <1>3, <1>4 DEF OneOwner
<1>7. \A b \in Batches, t, u \in Slots : Attempting(t, b)' /\ Attempting(u, b)' => t = u
  BY <1>3 DEF OneOwner
<1>8. \A b \in Batches : batchStatus'[b] \notin Settled
  BY <1>4
<1>9. ASSUME NEW c \in Clients, NEW b \in client[c].rows
      PROVE  client[c].pc \notin {"reset", "enqueue"}
  BY <1>1, <1>2, <1>4 DEF OneOwner
<1>10. QED
  BY <1>4, <1>5, <1>6, <1>7, <1>8, <1>9 DEF OneOwner

(* The request itself, the only one there is.                               *)
LEMMA OwnersClient ==
  ASSUME OneClient, OneOwner, RetryTyped, NEW c \in Clients,
         RetryRead(c) \/ RetryReset(c) \/ \E b \in Batches : RetryEnqueue(c, b)
  PROVE  OneOwner'
<1>1. /\ client \in [Clients -> [pc : {"idle", "reset", "enqueue"}, rows : SUBSET Batches]]
      /\ queue \in [Batches -> Nat] /\ sent \in Nat
  BY DEF RetryTyped, RetryTypeOK, TypeOK
<1>2. \A d \in Clients : d = c
  BY DEF OneClient
<1>3. \A t \in Slots, b \in Batches : Attempting(t, b)' <=> Attempting(t, b)
  BY DEF RetryRead, RetryReset, RetryEnqueue, vars, Attempting, Active
<1>4. sent' = sent /\ jobStatus' = jobStatus
  BY DEF RetryRead, RetryReset, RetryEnqueue, vars, jobRow
<1>5. \A b \in Batches, t \in Slots : Attempting(t, b)' => b <= sent'
  BY <1>3, <1>4 DEF OneOwner
<1>6. \A b \in Batches, t, u \in Slots : Attempting(t, b)' /\ Attempting(u, b)' => t = u
  BY <1>3 DEF OneOwner
<1>7. CASE RetryRead(c)
  <2>1. client'[c] = [pc |-> "reset", rows |-> {b \in Batches : batchStatus[b] = "failed"}]
    BY <1>1, <1>7 DEF RetryRead
  <2>2. queue' = queue /\ batchStatus' = batchStatus
    BY <1>7 DEF RetryRead, vars
  <2>3. \A b \in Batches : Free(b)' <=> Free(b)
    BY <1>3, <1>4, <2>2 DEF Free
  <2>4. \A b \in client'[c].rows : batchStatus'[b] = "failed"
    BY <2>1, <2>2
  <2>5. \A b \in Batches : queue'[b] > 0 => queue'[b] = 1 /\ b <= sent' /\ \A t \in Slots : ~Attempting(t, b)'
    BY <1>3, <1>4, <2>2 DEF OneOwner
  <2>6. jobStatus' = "none" => sent' = 0 /\ \A b \in Batches : batchStatus'[b] = "absent"
    BY <1>4, <2>2 DEF OneOwner
  <2>7. \A b \in Batches : batchStatus'[b] \in Settled => Free(b)'
    BY <2>2, <2>3 DEF OneOwner
  <2>8. \A d \in Clients : \A b \in client'[d].rows :
          /\ client'[d].pc = "reset" => batchStatus'[b] = "failed"
          /\ client'[d].pc = "enqueue" => Free(b)' /\ batchStatus'[b] \notin Settled
    BY <1>2, <2>1, <2>4
  <2>9. QED
    BY <1>5, <1>6, <2>5, <2>6, <2>7, <2>8 DEF OneOwner
<1>8. CASE RetryReset(c)
  <2>1. client'[c].pc = "enqueue" /\ client'[c].rows = client[c].rows /\ client[c].rows \subseteq Batches
    BY <1>1, <1>8 DEF RetryReset
  <2>2. queue' = queue
    BY <1>8 DEF RetryReset
  <2>3. \A b \in Batches : Free(b)' <=> Free(b)
    BY <1>3, <1>4, <2>2 DEF Free
  <2>4. \A b \in client[c].rows : batchStatus[b] = "failed" /\ Free(b) /\ batchStatus'[b] = "pending"
    BY <1>8, <2>1 DEF RetryReset, OneOwner
  <2>5. \A b \in Batches : b \notin client[c].rows => batchStatus'[b] = batchStatus[b]
    BY <1>8 DEF RetryReset
  <2>6. \A b \in Batches : queue'[b] > 0 => queue'[b] = 1 /\ b <= sent' /\ \A t \in Slots : ~Attempting(t, b)'
    BY <1>3, <1>4, <2>2 DEF OneOwner
  <2>7. jobStatus' = "none" => sent' = 0 /\ \A b \in Batches : batchStatus'[b] = "absent"
    BY <1>4, <2>1, <2>4, <2>5 DEF OneOwner
  <2>8. \A b \in Batches : batchStatus'[b] \in Settled => Free(b)'
    BY <2>3, <2>4, <2>5 DEF OneOwner
  <2>9. \A d \in Clients : \A b \in client'[d].rows :
          /\ client'[d].pc = "reset" => batchStatus'[b] = "failed"
          /\ client'[d].pc = "enqueue" => Free(b)' /\ batchStatus'[b] \notin Settled
    BY <1>2, <2>1, <2>3, <2>4
  <2>10. QED
    BY <1>5, <1>6, <2>6, <2>7, <2>8, <2>9 DEF OneOwner
<1>9. ASSUME NEW e \in Batches, RetryEnqueue(c, e)
      PROVE  OneOwner'
  <2>1. client[c].pc = "enqueue" /\ e \in client[c].rows /\ client[c].rows \subseteq Batches
    BY <1>1, <1>9 DEF RetryEnqueue
  <2>2. \/ client'[c] = NoRequest
        \/ client'[c] = [client[c] EXCEPT !.rows = client[c].rows \ {e}]
    BY <1>1, <1>9 DEF RetryEnqueue
  <2>3. client'[c].rows \subseteq client[c].rows \ {e}
    BY <2>2, <1>1 DEF NoRequest
  <2>4. client'[c].pc # "reset"
    BY <2>1, <2>2, <1>1 DEF NoRequest
  <2>5. Free(e) /\ batchStatus[e] \notin Settled
    BY <2>1 DEF OneOwner
  <2>6. /\ batchStatus' = batchStatus /\ queue'[e] = 1
        /\ \A b \in Batches : b # e => queue'[b] = queue[b]
    BY <1>1, <1>9, <2>5 DEF RetryEnqueue, Free
  <2>7. \A b \in Batches : b # e => (Free(b)' <=> Free(b))
    BY <1>3, <1>4, <2>6 DEF Free
  <2>8. \A b \in Batches : queue'[b] > 0 => queue'[b] = 1 /\ b <= sent' /\ \A t \in Slots : ~Attempting(t, b)'
    BY <1>3, <1>4, <2>5, <2>6 DEF OneOwner, Free
  <2>9. jobStatus' = "none" => sent' = 0 /\ \A b \in Batches : batchStatus'[b] = "absent"
    BY <1>4, <2>6 DEF OneOwner
  <2>10. \A b \in Batches : batchStatus'[b] \in Settled => Free(b)'
    BY <2>5, <2>6, <2>7 DEF OneOwner
  <2>11. \A d \in Clients : \A b \in client'[d].rows :
           /\ client'[d].pc = "reset" => batchStatus'[b] = "failed"
           /\ client'[d].pc = "enqueue" => Free(b)' /\ batchStatus'[b] \notin Settled
    BY <1>2, <2>1, <2>3, <2>4, <2>6, <2>7 DEF OneOwner
  <2>12. QED
    BY <1>5, <1>6, <2>8, <2>9, <2>10, <2>11 DEF OneOwner
<1>10. QED
  BY <1>7, <1>8, <1>9

LEMMA OwnersNext ==
  ASSUME OneClient
  PROVE  RetryTyped /\ OneOwner /\ [RetryNext \/ RetryDone]_retryVars => OneOwner'
<1> SUFFICES ASSUME RetryTyped, OneOwner, [RetryNext \/ RetryDone]_retryVars
             PROVE  OneOwner'
  OBVIOUS
<1>t. TypeOK /\ SlotOK
  BY DEF RetryTyped, RetryTypeOK
<1> USE DEF jobRow
<1>1. ASSUME NEW s \in Slots, MarkProcessing(s), client' = client
      PROVE  OneOwner'
  <2>1. Moves(s, "llm")
    BY <1>1, <1>t, GotoMoves DEF MarkProcessing, Pcs, TryPcs
  <2>2. QED
    BY <1>1, <1>t, <2>1, OwnersKeptByRun DEF MarkProcessing, TypeOK, SlotOK, TailPcs
<1>2. ASSUME NEW s \in Slots, Upsert(s), client' = client
      PROVE  OneOwner'
  BY <1>2, <1>t, UpsertMoves, OwnersKeptByRun DEF Upsert, TailPcs
<1>3. ASSUME NEW s \in Slots, AttemptFails(s), client' = client
      PROVE  OneOwner'
  <2>1. Moves(s, "bump")
    BY <1>3, <1>t, GotoMoves DEF AttemptFails, Pcs, CatchPcs
  <2>2. QED
    BY <1>3, <2>1, OwnersKeptByRun DEF AttemptFails, TailPcs
<1>4. ASSUME NEW s \in Slots, BumpRetry(s), client' = client
      PROVE  OneOwner'
  <2>1. PICK pc \in {"retrying", "failed"} : Goto(s, pc)
    BY <1>4 DEF BumpRetry
  <2>2. Moves(s, pc)
    BY <2>1, <1>t, GotoMoves DEF Pcs, CatchPcs
  <2>3. QED
    BY <1>4, <2>1, <2>2, OwnersKeptByRun DEF BumpRetry, TailPcs
<1>5. ASSUME NEW s \in Slots, MarkRetrying(s), client' = client
      PROVE  OneOwner'
  <2>1. Moves(s, "requeue")
    BY <1>5, <1>t, GotoMoves DEF MarkRetrying, Pcs, CatchPcs
  <2>2. QED
    BY <1>5, <1>t, <2>1, OwnersKeptByRun DEF MarkRetrying, TypeOK, SlotOK, TailPcs
<1>6. ASSUME NEW s \in Slots, Count(s), client' = client
      PROVE  OneOwner'
  <2>1. PICK pc \in {"read", "ack"} : Moves(s, pc)
    BY <1>6, <1>t, CountMoves
  <2>2. QED
    BY <1>6, <2>1, OwnersKeptByRun DEF Count, TailPcs
<1>7. ASSUME NEW s \in Slots, FinalizeRead(s), client' = client
      PROVE  OneOwner'
  <2>1. \A t \in Slots, b \in Batches : Attempting(t, b)' <=> Attempting(t, b)
    BY <1>7, <1>t, FinalizeReadMoves DEF FinalizeRead, Attempting, Active, TailPcs
  <2>2. QED
    BY <1>7, <2>1, OwnersKept DEF FinalizeRead
<1>8. ASSUME NEW s \in Slots, FinalizeWrite(s), client' = client
      PROVE  OneOwner'
  <2>1. Moves(s, "ack")
    BY <1>8, <1>t, GotoMoves DEF FinalizeWrite, Pcs
  <2>2. jobStatus' # "none"
    BY <1>8, <1>t DEF FinalizeWrite, SlotOK
  <2>3. QED
    BY <1>8, <2>1, <2>2, OwnersKeptByRun DEF FinalizeWrite, TailPcs
<1>9. ASSUME NEW s \in Slots, Ack(s), client' = client
      PROVE  OneOwner'
  <2>1. \A t \in Slots, b \in Batches : Attempting(t, b)' <=> Attempting(t, b)
    BY <1>9, <1>t, AckMoves DEF Attempting, Active
  <2>2. QED
    BY <1>9, <2>1, OwnersKept DEF Ack
<1>10. ASSUME NEW s \in Slots, NEW pc \in {"ack", "count"}, Moves(s, pc),
              slot[s].pc \notin {"idle", "ack"} \cup TailPcs
       PROVE  /\ slot[s].batch \in Batches
              /\ Attempting(s, slot[s].batch)
              /\ \A t \in Slots, b \in Batches : Attempting(t, b)' <=> t # s /\ Attempting(t, b)
  <2>1. slot[s].batch \in Batches /\ Attempting(s, slot[s].batch)
    BY <1>10, <1>t DEF SlotOK, Attempting, Active
  <2>2. QED
    BY <1>10, <2>1, AttemptingMoves DEF TailPcs
<1>11. ASSUME NEW s \in Slots, MarkCompleted(s), client' = client
       PROVE  OneOwner'
  <2>1. Moves(s, "count") /\ slot[s].pc \notin {"idle", "ack"} \cup TailPcs
    BY <1>11, <1>t, GotoMoves DEF MarkCompleted, Pcs, TailPcs
  <2>2. QED
    BY <1>11, <1>t, <2>1, <1>10, OwnersEnd DEF MarkCompleted, TypeOK
<1>12. ASSUME NEW s \in Slots, MarkFailed(s), client' = client
       PROVE  OneOwner'
  <2>1. Moves(s, "count") /\ slot[s].pc \notin {"idle", "ack"} \cup TailPcs
    BY <1>12, <1>t, MarkFailedMoves DEF MarkFailed, TailPcs
  <2>2. QED
    BY <1>12, <1>t, <2>1, <1>10, OwnersEnd DEF MarkFailed, TypeOK
<1>13. ASSUME NEW s \in Slots, Requeue(s), client' = client
       PROVE  OneOwner'
  <2>1. Moves(s, "ack") /\ slot[s].pc \notin {"idle", "ack"} \cup TailPcs
    BY <1>13, <1>t, GotoMoves DEF Requeue, Pcs, TailPcs
  <2>2. QED
    BY <1>13, <1>t, <2>1, <1>10, OwnersEnd DEF Requeue, TypeOK
<1>14. CASE UNCHANGED vars /\ client' = client
  <2>1. \A t \in Slots, b \in Batches : Attempting(t, b)' <=> Attempting(t, b)
    BY <1>14 DEF vars, Attempting, Active
  <2>2. QED
    BY <1>14, <2>1, OwnersKept DEF vars
<1>15. QED
  BY <1>1, <1>2, <1>3, <1>4, <1>5, <1>6, <1>7, <1>8, <1>9, <1>11, <1>12, <1>13, <1>14,
     OwnersTake, OwnersEnqueue, OwnersPlan, OwnersClient
     DEF RetryNext, RetryDone, retryVars, clientVars, Client, Next, Agent, Run

LEMMA OwnersInit == RetryInit => OneOwner
BY DEF RetryInit, Init, OneOwner, Free, Attempting, Active, Idle, NoRequest

(* With one request at a time a batch is in one place: a retry resets a row that *)
(* its run has settled, and enqueues it only when no entry and no slot is left  *)
(* that works on it, however late the run is that failed it.  (The hypothesis    *)
(* is needed: two requests that have read the same rows enqueue them twice.)     *)
THEOREM OneAttemptAtATime ==
  ASSUME OneClient
  PROVE  RetrySpec => []OneAttemptPerBatch
<1>1. RetryTyped /\ OneOwner => OneAttemptPerBatch
  <2> SUFFICES ASSUME RetryTyped, OneOwner, NEW b \in Batches
               PROVE  /\ \A s, t \in Slots : Attempting(s, b) /\ Attempting(t, b) => s = t
                      /\ queue[b] + Cardinality({s \in Slots : Attempting(s, b)}) <= 1
    BY DEF OneAttemptPerBatch
  <2> DEFINE A == {s \in Slots : Attempting(s, b)}
  <2>1. \A s, t \in Slots : Attempting(s, b) /\ Attempting(t, b) => s = t
    BY DEF OneOwner
  <2>2. queue[b] \in Nat
    BY DEF RetryTyped, RetryTypeOK, TypeOK
  <2>3. CASE A = {}
    <3>1. queue[b] <= 1
      BY <2>2 DEF OneOwner
    <3>2. Cardinality(A) = 0
      BY <2>3, FS_EmptySet
    <3>3. QED
      BY <2>1, <2>2, <3>1, <3>2
  <2>4. CASE A # {}
    <3>1. PICK s \in Slots : Attempting(s, b)
      BY <2>4
    <3>2. A = {s}
      BY <2>1, <3>1
    <3>3. queue[b] = 0
      BY <2>2, <3>1 DEF OneOwner
    <3>4. Cardinality(A) = 1
      BY <3>2, FS_Singleton
    <3>5. QED
      BY <2>1, <3>3, <3>4
  <2>5. QED
    BY <2>1, <2>3, <2>4
<1>2. QED
  BY <1>1, OwnersInit, OwnersNext, RetryTypes, PTL DEF RetrySpec
-----------------------------------------------------------------------------
(* Failures.  No batch is lost before the agent or an entry is: all but those *)
(* that still have a run ahead are in the counter, and a full counter has a    *)
(* run that will close the job.                                             *)
Whole == ~agentLost /\ dropped = {}
Closing == \E s \in Slots : slot[s].pc \in {"read", "write"}

Unbroken == secondRun = {} /\ \A b \in Batches : stalled[b] = 0

Ahead ==
  /\ failures = 0 => Unbroken
  /\ jobStatus = "none" => sent = 0
  /\ Whole => Cardinality(Batches \ Coming) <= batchesCompleted
  /\ Whole /\ jobStatus = "processing" /\ batchesCompleted >= BatchCount =>
       Coming # {} \/ Closing

USE FailureAssumption

FailureTyped == FailureTypeOK /\ SlotOK

LEMMA FailureInitType == FailureInit => FailureTyped
<1> SUFFICES ASSUME FailureInit
             PROVE  FailureTyped
  OBVIOUS
<1>1. TypeOK /\ SlotOK
  BY InitType DEF FailureInit
<1>2. failures \in 0..MaxFailures /\ stalled \in [Batches -> Nat]
  BY DEF FailureInit
<1>3. QED
  BY <1>1, <1>2 DEF FailureInit, FailureTyped, FailureTypeOK

LEMMA CrashFacts ==
  ASSUME FailureTyped, Crash
  PROVE  /\ \A b \in Batches :
              /\ stalled'[b] \in Nat /\ stalled'[b] >= stalled[b]
              /\ (\E s \in Slots : slot[s] # Idle /\ slot[s].batch = b /\ s \notin secondRun)
                   => stalled'[b] > 0
         /\ slot' = [s \in Slots |-> Idle]
<1>1. ASSUME NEW b \in Batches
      PROVE  /\ stalled'[b] \in Nat /\ stalled'[b] >= stalled[b]
             /\ (\E s \in Slots : slot[s] # Idle /\ slot[s].batch = b /\ s \notin secondRun)
                  => stalled'[b] > 0
  <2> DEFINE S == {s \in Slots : slot[s] # Idle /\ slot[s].batch = b /\ s \notin secondRun}
  <2>1. IsFiniteSet(S) /\ Cardinality(S) \in Nat
    BY FS_Subset, FS_CardinalityType
  <2>2. stalled'[b] = stalled[b] + Cardinality(S)
    BY DEF Crash
  <2>3. stalled[b] \in Nat
    BY DEF FailureTyped, FailureTypeOK
  <2>4. S # {} => Cardinality(S) # 0
    BY <2>1, FS_EmptySet
  <2> HIDE DEF S
  <2>5. stalled'[b] \in Nat /\ stalled'[b] >= stalled[b] /\ (S # {} => stalled'[b] > 0)
    BY <2>1, <2>2, <2>3, <2>4
  <2>6. QED
    BY <2>5 DEF S
<1>2. QED
  BY <1>1 DEF Crash

LEMMA FailureNextType == FailureTyped /\ [FailureNext]_failureVars => FailureTyped'
<1> SUFFICES ASSUME FailureTyped, [FailureNext]_failureVars
             PROVE  FailureTyped'
  OBVIOUS
<1>t. TypeOK /\ SlotOK /\ FailureTypeOK
  BY DEF FailureTyped, FailureTypeOK
<1> USE DEF FailureTypeOK
<1>1. ASSUME Next, UNCHANGED faultVars
      PROVE  FailureTyped'
  BY <1>1, <1>t, NextType DEF FailureTyped, faultVars
<1>2. ASSUME NEW s \in Slots, NEW b \in Batches, TakeStep(s, b)
      PROVE  FailureTyped'
  <2>1. TypeOK' /\ SlotOK'
    BY <1>2, <1>t, NextType DEF TakeStep, Next
  <2>2. QED
    BY <1>2, <1>t, <2>1 DEF TakeStep, FailureTyped
<1>3. ASSUME NEW s \in Slots, NEW b \in Batches, TakeStalled(s, b)
      PROVE  FailureTyped'
  <2> DEFINE v == [Idle EXCEPT !.pc = "start", !.batch = b]
  <2>1. v \in SlotType /\ v.batch \in Batches /\ v.pc # "write"
    BY DEF Idle, SlotType, Pcs, TryPcs
  <2>2. slot' = [slot EXCEPT ![s] = v]
    BY <1>3 DEF TakeStalled
  <2> HIDE DEF v
  <2>3. slot' \in [Slots -> SlotType] /\ SlotOK'
    BY <1>t, <2>1, <2>2, SlotUpdate
  <2>4. stalled' \in [Batches -> Nat] /\ secondRun' \subseteq Slots
    BY <1>3, <1>t DEF TakeStalled
  <2>5. QED
    BY <1>3, <1>t, <2>3, <2>4 DEF TakeStalled, FailureTyped, TypeOK, jobRow
<1>4. ASSUME NEW s \in Slots, NEW pc \in Pcs \ {"write"}, slot[s].pc # "idle", Goto(s, pc),
             UNCHANGED <<jobRow, batchStatus, retryCount, row, queue, sent>>
      PROVE  TypeOK' /\ SlotOK'
  BY <1>4, <1>t, GotoType DEF TypeOK, jobRow
<1>5. ASSUME Fails
      PROVE  failures' \in 0..MaxFailures
  BY <1>5, <1>t DEF Fails
<1>6. ASSUME NEW s \in Slots, Caught(s)
      PROVE  FailureTyped'
  <2>1. TypeOK' /\ SlotOK'
    BY <1>6, <1>4 DEF Caught, InTry, TailPcs, Pcs, CatchPcs
  <2>2. QED
    BY <1>6, <1>5, <1>t, <2>1 DEF Caught, FailureTyped
<1>7. ASSUME NEW s \in Slots, Uncaught(s)
      PROVE  FailureTyped'
  <2>1. TypeOK' /\ SlotOK'
    BY <1>7, <1>4 DEF Uncaught, TailPcs, Pcs, CatchPcs
  <2>2. slot[s].batch \in Batches
    BY <1>7, <1>t DEF Uncaught, SlotOK, TailPcs, CatchPcs
  <2>3. QED
    BY <1>7, <1>5, <1>t, <2>1, <2>2 DEF Uncaught, FailureTyped
<1>8. CASE Crash
  <2>1. Idle \in SlotType /\ Idle.pc = "idle"
    BY DEF Idle, SlotType, Pcs
  <2>2. slot' \in [Slots -> SlotType] /\ SlotOK'
    BY <1>8, <2>1 DEF Crash, SlotOK
  <2>3. stalled' \in [Batches -> Nat]
    BY <1>8, CrashFacts DEF Crash
  <2>4. agentLost' \in BOOLEAN
    BY <1>8, <1>t DEF Crash
  <2>5. QED
    BY <1>8, <1>5, <1>t, <2>2, <2>3, <2>4 DEF Crash, FailureTyped, TypeOK, jobRow
<1>9. CASE UNCHANGED failureVars
  <2>1. TypeOK' /\ SlotOK'
    BY <1>9, <1>t, NextType DEF failureVars
  <2>2. QED
    BY <1>9, <1>t, <2>1 DEF failureVars, faultVars, FailureTyped
<1>10. QED
  BY <1>1, <1>2, <1>3, <1>6, <1>7, <1>8, <1>9 DEF FailureNext, AgentStep, RunStep, Next

LEMMA FailureTypes == FailureSpec => []FailureTyped
BY FailureInitType, FailureNextType, PTL DEF FailureSpec

LEMMA BehindFinite ==
  /\ Coming \subseteq Batches /\ Coming' \subseteq Batches
  /\ IsFiniteSet(Batches \ Coming) /\ Cardinality(Batches \ Coming) \in Nat
  /\ IsFiniteSet(Batches \ Coming') /\ Cardinality(Batches \ Coming') \in Nat
<1>1. IsFiniteSet(Batches)
  BY FS_Interval DEF Batches
<1>2. Batches \ Coming \subseteq Batches /\ Batches \ Coming' \subseteq Batches
  OBVIOUS
<1>3. QED
  BY <1>1, <1>2, FS_Subset, FS_CardinalityType DEF Coming

(* A step that does not count leaves every batch that has a run ahead with     *)
(* one, and the closing run where it is, or turns it into a run ahead.         *)
LEMMA AheadKept ==
  ASSUME Ahead, FailureTyped, batchesCompleted' = batchesCompleted,
         Whole' => Whole /\ Coming \subseteq Coming',
         Whole' /\ jobStatus' = "processing" =>
           \/ Coming' # {}
           \/ jobStatus = "processing" /\ (Closing => Closing'),
         failures' = 0 => Unbroken',
         jobStatus' = "none" => jobStatus = "none" /\ sent' = sent
  PROVE  Ahead'
<1>1. Whole' => Cardinality(Batches \ Coming') <= batchesCompleted'
  <2> SUFFICES ASSUME Whole'
               PROVE  Cardinality(Batches \ Coming') <= batchesCompleted
    OBVIOUS
  <2>1. Cardinality(Batches \ Coming') <= Cardinality(Batches \ Coming)
    BY BehindFinite, FS_Subset
  <2>2. Cardinality(Batches \ Coming) <= batchesCompleted
    BY DEF Ahead
  <2>3. batchesCompleted \in Nat
    BY DEF FailureTyped, FailureTypeOK, TypeOK
  <2>4. QED
    BY <2>1, <2>2, <2>3, BehindFinite
<1>2. Whole' /\ jobStatus' = "processing" /\ batchesCompleted' >= BatchCount =>
        Coming' # {} \/ Closing'
  BY DEF Ahead
<1>3. QED
  BY <1>1, <1>2 DEF Ahead

(* What a slot has ahead: the count of its batch.                           *)
Counts(s) == Active(s) /\ slot[s].pc \notin {"read", "write"}

LEMMA AheadByRun ==
  ASSUME Ahead, FailureTyped, batchesCompleted' = batchesCompleted, jobStatus' = jobStatus,
         queue' = queue, sent' = sent, UNCHANGED <<agentLost, stalled, dropped>>,
         failures' = 0 => Unbroken',
         NEW s \in Slots, \A t \in Slots : t # s => slot'[t] = slot[t],
         Counts(s) => Counts(s)' /\ slot'[s].batch = slot[s].batch,
         slot[s].pc \in {"read", "write"} =>
           \/ slot'[s].pc \in {"read", "write"}
           \/ Counts(s)' /\ slot'[s].batch \in Batches
  PROVE  Ahead'
<1>1. \A t \in Slots : Counts(t) => Counts(t)' /\ slot'[t].batch = slot[t].batch
  BY DEF Counts, Active
<1>2. Coming \subseteq Coming'
  BY <1>1 DEF Coming, Counts
<1>3. Whole' <=> Whole
  BY DEF Whole
<1>4. Closing => Closing' \/ Coming' # {}
  <2> SUFFICES ASSUME NEW t \in Slots, slot[t].pc \in {"read", "write"}, ~Closing'
               PROVE  Coming' # {}
    BY DEF Closing
  <2>1. Counts(s)' /\ slot'[s].batch \in Batches
    BY DEF Closing
  <2>2. slot'[s].batch \in Coming'
    BY <2>1 DEF Coming, Counts
  <2>3. QED
    BY <2>2
<1>5. QED
  BY <1>2, <1>3, <1>4, AheadKept

LEMMA AheadByMove ==
  ASSUME Ahead, FailureTyped, batchesCompleted' = batchesCompleted, jobStatus' = jobStatus,
         queue' = queue, sent' = sent, UNCHANGED faultVars,
         NEW s \in Slots, NEW pc, Moves(s, pc),
         slot[s].pc \in {"idle", "ack"} \/ pc \notin {"idle", "ack", "read", "write"},
         slot[s].pc \notin {"read", "write"}
  PROVE  Ahead'
<1>1. Counts(s) => Counts(s)' /\ slot'[s].batch = slot[s].batch
  BY DEF Moves, Counts, Active
<1>2. failures' = 0 => Unbroken'
  BY DEF Ahead, Unbroken, faultVars
<1>3. QED
  BY <1>1, <1>2, AheadByRun DEF faultVars, Moves

(* The counter: one batch gives up its run, and is counted; the run that makes *)
(* the counter full goes on to the finalizer.                               *)
LEMMA AheadCount ==
  ASSUME Ahead, FailureTyped, NEW s \in Slots, Count(s), UNCHANGED faultVars
  PROVE  Ahead'
<1>1. PICK pc \in {"read", "ack"} : Moves(s, pc) /\ (batchesCompleted + 1 >= BatchCount => pc = "read")
  BY CountMoves DEF FailureTyped, FailureTypeOK
<1>2. /\ batchesCompleted' = batchesCompleted + 1 /\ jobStatus' = jobStatus
      /\ queue' = queue /\ sent' = sent
  BY DEF Count
<1>3. batchesCompleted \in Nat
  BY DEF FailureTyped, FailureTypeOK, TypeOK
<1>4. Coming \subseteq Coming' \cup {slot[s].batch}
  BY <1>1, <1>2 DEF Coming, Moves, Active, faultVars
<1>5. Whole' <=> Whole
  BY DEF Whole, faultVars
<1>6. Whole' => Cardinality(Batches \ Coming') <= batchesCompleted'
  <2> SUFFICES ASSUME Whole
               PROVE  Cardinality(Batches \ Coming') <= batchesCompleted + 1
    BY <1>2, <1>5
  <2> DEFINE B == (Batches \ Coming) \cup {slot[s].batch}
  <2>1. IsFiniteSet(B) /\ Cardinality(B) = IF slot[s].batch \in Batches \ Coming
                                           THEN Cardinality(Batches \ Coming)
                                           ELSE Cardinality(Batches \ Coming) + 1
    BY BehindFinite, FS_AddElement
  <2>2. Batches \ Coming' \subseteq B
    BY <1>4
  <2>3. Cardinality(Batches \ Coming') <= Cardinality(B)
    BY <2>1, <2>2, FS_Subset
  <2>4. Cardinality(Batches \ Coming) <= batchesCompleted
    BY DEF Ahead
  <2>5. QED
    BY <2>1, <2>3, <2>4, <1>3, BehindFinite
<1>7. batchesCompleted' >= BatchCount => Closing'
  BY <1>1, <1>2 DEF Moves, Closing
<1>8. QED
  BY <1>2, <1>5, <1>6, <1>7 DEF Ahead, Unbroken, faultVars

OneFailure == MaxFailures <= 1

LEMMA AheadNext ==
  ASSUME OneFailure
  PROVE  FailureTyped /\ Ahead /\ [FailureNext]_failureVars => Ahead'
<1> SUFFICES ASSUME FailureTyped, Ahead, [FailureNext]_failureVars
             PROVE  Ahead'
  OBVIOUS
<1>t. TypeOK /\ SlotOK /\ stalled \in [Batches -> Nat] /\ failures \in 0..MaxFailures
  BY DEF FailureTyped, FailureTypeOK
<1> USE DEF jobRow
<1>a. failures' = failures /\ secondRun' = secondRun /\ stalled' = stalled => (failures' = 0 => Unbroken')
  BY DEF Ahead, Unbroken
<1>f. ASSUME Fails
      PROVE  failures = 0 /\ failures' = 1
  BY <1>f, <1>t DEF Fails, OneFailure
<1>1. CASE Plan /\ UNCHANGED faultVars
  <2>1. 1 \in Batches /\ 1 > sent'
    BY <1>1 DEF Plan, Ahead, Batches
  <2>2. Whole' => Coming' # {}
    BY <2>1 DEF Whole, Coming
  <2>3. Coming' = Coming /\ (Whole' <=> Whole)
    BY <1>1 DEF Plan, Coming, Whole, faultVars, Active
  <2>4. QED
    BY <1>1, <1>a, <2>2, <2>3, AheadKept DEF Plan, faultVars
<1>2. CASE ~agentLost /\ Enqueue /\ UNCHANGED faultVars
  <2>1. sent \in Nat /\ sent + 1 \in Batches /\ queue \in [Batches -> Nat]
    BY <1>2, <1>t DEF Enqueue, TypeOK, Batches
  <2>2. queue'[sent + 1] > 0 /\ \A b \in Batches : queue[b] > 0 => queue'[b] > 0
    BY <1>2, <2>1 DEF Enqueue
  <2>3. \A b \in Batches : b > sent => b > sent' \/ b = sent + 1
    BY <1>2, <2>1 DEF Enqueue, Batches
  <2>4. Coming \subseteq Coming'
    BY <1>2, <2>2, <2>3 DEF Enqueue, Coming, faultVars, Active
  <2>5. (Whole' <=> Whole) /\ (Closing' <=> Closing)
    BY <1>2 DEF Enqueue, Whole, Closing, faultVars
  <2>6. QED
    BY <1>2, <1>a, <2>4, <2>5, AheadKept DEF Enqueue, faultVars
<1>3. ASSUME NEW s \in Slots, NEW e \in Batches,
             slot[s].pc = "idle", slot'[s].pc = "start", slot'[s].batch = e,
             \A t \in Slots : t # s => slot'[t] = slot[t],
             \A b \in Batches : b # e => queue'[b] = queue[b] /\ stalled'[b] = stalled[b],
             UNCHANGED <<jobRow, sent, failures, agentLost, dropped>>,
             (secondRun' = secondRun \ {s} /\ stalled' = stalled) \/ failures # 0
      PROVE  Ahead'
  <2>1. Coming \subseteq Coming'
    BY <1>3 DEF Coming, Active
  <2>2. e \in Coming'
    BY <1>3 DEF Coming, Active
  <2>3. (Whole' <=> Whole) /\ (Closing => Closing')
    BY <1>3 DEF Whole, Closing
  <2>4. failures' = 0 => Unbroken'
    BY <1>3 DEF Ahead, Unbroken
  <2>5. QED
    BY <1>3, <2>1, <2>2, <2>3, <2>4, AheadKept
<1>4. ASSUME NEW s \in Slots, NEW b \in Batches, TakeStep(s, b)
      PROVE  Ahead'
  <2>1. /\ slot[s].pc = "idle" /\ slot'[s].pc = "start" /\ slot'[s].batch = b
        /\ \A t \in Slots : t # s => slot'[t] = slot[t]
    BY <1>4, <1>t, TakeMoves DEF TakeStep
  <2>2. \A c \in Batches : c # b => queue'[c] = queue[c]
    BY <1>4, <1>t DEF TakeStep, Take, TypeOK
  <2>3. QED
    BY <1>4, <1>3, <2>1, <2>2 DEF TakeStep, Take
<1>5. ASSUME NEW s \in Slots, NEW b \in Batches, TakeStalled(s, b)
      PROVE  Ahead'
  <2>0. failures # 0
    BY <1>5 DEF TakeStalled, Ahead, Unbroken
  <2>1. slot'[s] = [Idle EXCEPT !.pc = "start", !.batch = b] /\ slot[s] = Idle
    BY <1>5, <1>t DEF TakeStalled, TypeOK
  <2>2. slot[s].pc = "idle" /\ slot'[s].pc = "start" /\ slot'[s].batch = b
    BY <2>1 DEF Idle
  <2>3. QED
    BY <1>5, <1>t, <2>0, <2>2, <1>3 DEF TakeStalled, TypeOK
<1>6. ASSUME NEW s \in Slots, NEW pc \in Pcs \ {"idle", "ack", "read", "write"}, Goto(s, pc),
             slot[s].pc \notin {"read", "write"},
             UNCHANGED <<batchesCompleted, jobStatus, queue, sent, faultVars>>
      PROVE  Ahead'
  BY <1>6, <1>t, GotoMoves, AheadByMove
<1>7. ASSUME NEW s \in Slots, MarkProcessing(s) \/ AttemptFails(s) \/ MarkCompleted(s)
               \/ BumpRetry(s) \/ MarkRetrying(s), UNCHANGED faultVars
      PROVE  Ahead'
  <2>1. MarkProcessing(s) => Ahead'
    BY <1>6, <1>7 DEF MarkProcessing, Pcs, TryPcs
  <2>2. AttemptFails(s) => Ahead'
    BY <1>6, <1>7 DEF AttemptFails, Pcs, CatchPcs
  <2>3. MarkCompleted(s) => Ahead'
    BY <1>6, <1>7 DEF MarkCompleted, Pcs, TailPcs
  <2>4. BumpRetry(s) => Ahead'
    BY <1>6, <1>7 DEF BumpRetry, Pcs, CatchPcs
  <2>5. MarkRetrying(s) => Ahead'
    BY <1>6, <1>7 DEF MarkRetrying, Pcs, CatchPcs
  <2>6. QED
    BY <1>7, <2>1, <2>2, <2>3, <2>4, <2>5
<1>8. ASSUME NEW s \in Slots, Upsert(s), UNCHANGED faultVars
      PROVE  Ahead'
  BY <1>8, <1>t, UpsertMoves, AheadByMove DEF Upsert
<1>9. ASSUME NEW s \in Slots, MarkFailed(s), UNCHANGED faultVars
      PROVE  Ahead'
  BY <1>9, <1>t, MarkFailedMoves, AheadByMove DEF MarkFailed
<1>10. ASSUME NEW s \in Slots, FinalizeRead(s), UNCHANGED faultVars
       PROVE  Ahead'
  BY <1>10, <1>t, <1>a, FinalizeReadMoves, AheadByRun DEF FinalizeRead, Counts, faultVars
<1>11. ASSUME NEW s \in Slots, FinalizeWrite(s), UNCHANGED faultVars
       PROVE  Ahead'
  <2>1. Moves(s, "ack") /\ slot[s].pc = "write"
    BY <1>11, <1>t, GotoMoves DEF FinalizeWrite, Pcs
  <2>2. Coming \subseteq Coming'
    BY <1>11, <2>1 DEF FinalizeWrite, Moves, Coming, Active, faultVars
  <2>3. jobStatus' \notin {"none", "processing"}
    BY <1>11, <1>t DEF FinalizeWrite, SlotOK
  <2>4. QED
    BY <1>11, <1>a, <2>2, <2>3, AheadKept DEF FinalizeWrite, Whole, faultVars
<1>12. ASSUME NEW s \in Slots, Requeue(s), UNCHANGED faultVars
       PROVE  Ahead'
  <2>1. Moves(s, "ack") /\ slot[s].pc = "requeue" /\ slot[s].batch \in Batches
    BY <1>12, <1>t, GotoMoves DEF Requeue, Pcs, SlotOK
  <2>2. queue'[slot[s].batch] > 0 /\ \A b \in Batches : queue[b] > 0 => queue'[b] > 0
    BY <1>12, <1>t, <2>1 DEF Requeue, TypeOK
  <2>3. Coming \subseteq Coming'
    BY <1>12, <2>1, <2>2 DEF Requeue, Moves, Coming, Active, faultVars
  <2>4. slot[s].batch \in Coming'
    BY <2>1, <2>2 DEF Coming
  <2>5. QED
    BY <1>12, <1>a, <2>3, <2>4, AheadKept DEF Requeue, Whole, faultVars
<1>13. ASSUME NEW s \in Slots, Ack(s), UNCHANGED faultVars
       PROVE  Ahead'
  BY <1>13, <1>t, <1>a, AckMoves, AheadByRun DEF Ack, Counts, Active, faultVars
<1>14. ASSUME NEW s \in Slots, Caught(s)
       PROVE  Ahead'
  <2>1. Moves(s, "bump") /\ slot[s].pc # "idle" /\ slot[s].batch \in Batches
    BY <1>14, <1>t, GotoMoves DEF Caught, InTry, Pcs, CatchPcs, TailPcs, SlotOK
  <2>2. Counts(s)' /\ slot'[s].batch = slot[s].batch
    BY <2>1 DEF Counts, Active, Moves
  <2>3. QED
    BY <1>14, <1>f, <2>1, <2>2, AheadByRun DEF Caught, Moves
<1>15. ASSUME NEW s \in Slots, Uncaught(s)
       PROVE  Ahead'
  <2>1. ~Whole' /\ failures' # 0
    BY <1>15, <1>f DEF Uncaught, Whole
  <2>2. QED
    BY <1>15, <2>1 DEF Uncaught, Ahead
<1>16. CASE Crash
  <2>1. failures' # 0 /\ secondRun = {}
    BY <1>16, <1>f DEF Crash, Ahead, Unbroken
  <2>2. ASSUME NEW s \in Slots, slot[s].pc # "idle"
        PROVE  slot[s].batch \in Batches /\ stalled'[slot[s].batch] > 0
    <3>1. slot[s].batch \in Batches /\ slot[s] # Idle
      BY <2>2, <1>t DEF SlotOK, Idle
    <3>2. QED
      BY <1>16, <3>1, <2>1, CrashFacts
  <2>3. Whole' => Whole /\ sent = BatchCount
    <3>1. Whole' => Whole /\ ~(sent < BatchCount)
      BY <1>16 DEF Crash, Whole
    <3>2. sent \in 0..BatchCount
      BY <1>t DEF TypeOK
    <3>3. QED
      BY <3>1, <3>2
  <2>4. Whole' => Coming \subseteq Coming'
    <3> SUFFICES ASSUME Whole', NEW b \in Coming
                 PROVE  b \in Coming'
      OBVIOUS
    <3>1. b \in Batches /\ ~(b > sent)
      BY <2>3 DEF Coming, Batches
    <3>2. CASE queue[b] > 0
      BY <1>16, <3>1, <3>2 DEF Crash, Coming
    <3>3. CASE stalled[b] > 0
      BY <1>16, <1>t, <3>1, <3>3, CrashFacts DEF Coming
    <3>4. CASE \E s \in Slots : Active(s) /\ slot[s].batch = b
      BY <2>2, <3>1, <3>4 DEF Active, Coming
    <3>5. QED
      BY <3>1, <3>2, <3>3, <3>4 DEF Coming
  <2>5. Closing => Coming' # {}
    <3> SUFFICES ASSUME NEW s \in Slots, slot[s].pc \in {"read", "write"}
                 PROVE  Coming' # {}
      BY DEF Closing
    <3>1. slot[s].batch \in Coming'
      BY <2>2 DEF Coming
    <3>2. QED
      BY <3>1
  <2>6. QED
    BY <1>16, <2>1, <2>3, <2>4, <2>5, AheadKept DEF Crash
<1>17. CASE UNCHANGED failureVars
  <2>1. Coming' = Coming /\ (Whole' <=> Whole) /\ (Closing' <=> Closing)
    BY <1>17 DEF failureVars, faultVars, vars, Coming, Whole, Closing, Active
  <2>2. QED
    BY <1>17, <1>a, <2>1, AheadKept DEF failureVars, faultVars, vars
<1>18. QED
  BY <1>1, <1>2, <1>4, <1>5, <1>7, <1>8, <1>9, <1>10, <1>11, <1>12, <1>13, <1>14, <1>15, <1>16,
     <1>17, AheadCount DEF FailureNext, AgentStep, Agent, RunStep, Run

(* One throw or crash, wherever it falls between the transactions that write the *)
(* batch row, the counter and the job row, leaves enough runs ahead to fill the  *)
(* counter and to close the job; a slot's second run may count a batch again,    *)
(* but none is left out.  (Two crashes may drop a stalled entry for good.)       *)
THEOREM FailureLeavesEnough ==
  ASSUME OneFailure
  PROVE  FailureSpec => []EnoughRunsAhead
<1>1. FailureInit => Ahead
  <2> SUFFICES ASSUME FailureInit
               PROVE  Ahead
    OBVIOUS
  <2>1. sent = 0 /\ ~agentLost /\ batchesCompleted = 0 /\ jobStatus = "none" /\ Unbroken
    BY DEF FailureInit, Init, Unbroken
  <2>2. \A b \in Batches : b > sent
    BY <2>1 DEF Batches
  <2>3. Batches \ Coming = {}
    BY <2>1, <2>2 DEF Coming
  <2>4. QED
    BY <2>1, <2>3, FS_EmptySet DEF Ahead
<1>2. FailureTyped /\ Ahead => EnoughRunsAhead
  <2> SUFFICES ASSUME FailureTyped, Ahead, jobStatus = "processing", Whole
               PROVE  \/ batchesCompleted < BatchCount
                            /\ batchesCompleted + Cardinality(Coming) >= BatchCount
                      \/ batchesCompleted >= BatchCount /\ (Coming # {} \/ Closing)
    BY DEF EnoughRunsAhead, Whole, Closing
  <2>1. batchesCompleted \in Nat
    BY DEF FailureTyped, FailureTypeOK, TypeOK
  <2>2. IsFiniteSet(Batches) /\ Cardinality(Batches) = BatchCount
    BY FS_Interval DEF Batches
  <2>3. Cardinality(Batches \ Coming) = BatchCount - Cardinality(Coming)
    <3>1. Batches \cap Coming = Coming
      BY BehindFinite
    <3>2. QED
      BY <2>2, <3>1, FS_Difference
  <2>4. Cardinality(Coming) \in Nat
    BY <2>2, BehindFinite, FS_Subset, FS_CardinalityType
  <2>5. QED
    BY <2>1, <2>3, <2>4 DEF Ahead
<1>3. QED
  BY <1>1, <1>2, AheadNext, FailureTypes, PTL DEF FailureSpec
-----------------------------------------------------------------------------
(* The reach pipeline.  A run's answers are a partial function of the chat's  *)
(* domains; the entries never exceed the requests made for them; a slot holds *)
(* an entry of one kind.                                                     *)
AnswerSets == UNION {[E -> Answers] : E \in SUBSET ChatDomains}
ReachRuns == [pc : ReachPcs, todo : SUBSET ChatDomains, answers : AnswerSets,
              rows : SUBSET ChatDomains]

ReachTyped ==
  /\ TypeOK /\ SlotOK
  /\ cache \in [Domains -> CacheRows]
  /\ reach \subseteq Articles
  /\ reachSent \in BOOLEAN
  /\ refetches \in 0..MaxRefetches
  /\ reachQueue \in Nat
  /\ reachQueue <= refetches + (IF reachSent THEN 1 ELSE 0)
  /\ reachRun \in [Slots -> ReachRuns]
  /\ thrown \in 0..MaxThrows
  /\ outside \in Nat
  /\ renewed \in [Slots -> SUBSET Domains]

OneKind == \A s \in Slots : reachRun[s] = NoRun \/ slot[s] = Idle

LEMMA NoRunType == NoRun \in ReachRuns
<1>1. <<>> \in [{} -> Answers]
  OBVIOUS
<1>2. <<>> \in AnswerSets
  BY <1>1 DEF AnswerSets
<1>3. QED
  BY <1>2 DEF NoRun, ReachRuns, ReachPcs

(* A step of the composition is a step of the pipeline or leaves it alone.   *)
LEMMA ReachMapsToPipeline == [ReachNext \/ ReachDone]_allVars => [Next]_vars
BY DEF ReachNext, ReachDone, allVars, BatchAgent, SendReach, Refetch, BatchRun, BatchTake,
       TakeReach, ReachStep, ReachReason, ReachFetch, ReachStore, ReachReread, ReachMerge,
       ReachThrows, CacheChanges, Next

(* The reach pipeline beside it changes nothing the enrichment pipeline       *)
(* promises: every behaviour of both is, for the job, its batches and the     *)
(* enrichments, a behaviour of EnrichmentPipeline alone (the reach-fetch      *)
(* entries only take slots, at times when the worker could have been slow).   *)
THEOREM ReachRefinesPipeline == ReachSpec => Spec
<1>1. ReachInit => Init
  BY DEF ReachInit
<1>2. QED
  BY <1>1, ReachMapsToPipeline, PTL DEF ReachSpec, Spec

LEMMA ReachInitType == ReachInit => ReachTyped /\ OneKind
<1> SUFFICES ASSUME ReachInit
             PROVE  ReachTyped /\ OneKind
  OBVIOUS
<1>1. TypeOK /\ SlotOK
  BY InitType DEF ReachInit
<1>2. cache \in [Domains -> CacheRows]
  BY DEF ReachInit, CacheRows
<1>3. reachRun \in [Slots -> ReachRuns] /\ OneKind
  BY NoRunType DEF ReachInit, OneKind
<1>4. refetches = 0 /\ refetches \in 0..MaxRefetches
  <2>1. refetches = 0 /\ MaxRefetches \in Nat
    BY ReachAssumption DEF ReachInit
  <2>2. QED
    BY <2>1
<1>t. thrown \in 0..MaxThrows /\ outside \in Nat /\ renewed \in [Slots -> SUBSET Domains]
  <2>1. thrown = 0 /\ MaxThrows \in Nat
    BY ReachAssumption DEF ReachInit
  <2>2. QED
    BY <2>1 DEF ReachInit
<1>5. reach = {} /\ reachSent = FALSE /\ reachQueue = 0
  BY DEF ReachInit
<1>6. reachQueue \in Nat /\ reachQueue <= refetches + (IF reachSent THEN 1 ELSE 0)
  BY <1>4, <1>5
<1>7. reach \subseteq Articles /\ reachSent \in BOOLEAN
  BY <1>5
<1>8. QED
  BY <1>1, <1>2, <1>3, <1>4, <1>t, <1>6, <1>7, Zenon DEF ReachTyped

(* A run stays well formed, and only the run of its slot is touched.          *)
LEMMA ReachStepType ==
  ASSUME ReachTyped, NEW s \in Slots, ReachStep(s)
  PROVE  /\ reachRun[s].pc # "idle"
         /\ cache' \in [Domains -> CacheRows]
         /\ reach' \subseteq Articles
         /\ \E r \in ReachRuns : reachRun' = [reachRun EXCEPT ![s] = r]
<1> DEFINE r == reachRun[s]
<1>0. r \in ReachRuns /\ cache \in [Domains -> CacheRows] /\ reach \subseteq Articles
  BY DEF ReachTyped
<1>1. CASE ReachReason(s)
  <2>1. PICK key \in BOOLEAN :
          reachRun' = [reachRun EXCEPT ![s].pc = "fetch",
            ![s].todo = IF key THEN {d \in ChatDomains : cache[d] # "fresh"} ELSE {}]
    BY <1>1 DEF ReachReason
  <2> DEFINE todo == IF key THEN {d \in ChatDomains : cache[d] # "fresh"} ELSE {}
             n == [r EXCEPT !.pc = "fetch", !.todo = todo]
  <2>2. todo \in SUBSET ChatDomains
    OBVIOUS
  <2>3. reachRun' = [reachRun EXCEPT ![s] = n]
    BY <2>1
  <2>4. cache' = cache /\ reach' = reach /\ r.pc # "idle"
    BY <1>1 DEF ReachReason
  <2>5. n \in ReachRuns
    <3> HIDE DEF r, todo
    <3>1. QED
      BY <1>0, <2>2 DEF ReachRuns, ReachPcs
  <2> HIDE DEF n
  <2>6. QED
    BY <1>0, <2>3, <2>4, <2>5
<1>2. CASE ReachFetch(s)
  <2>1. PICK ans \in [reachRun[s].todo -> Answers] :
          reachRun' = [reachRun EXCEPT ![s].pc = "store", ![s].todo = {}, ![s].answers = ans]
    BY <1>2 DEF ReachFetch
  <2> DEFINE n == [r EXCEPT !.pc = "store", !.todo = {}, !.answers = ans]
  <2>2. ans \in AnswerSets
    <3>1. r.todo \in SUBSET ChatDomains
      BY <1>0 DEF ReachRuns
    <3>2. QED
      BY <2>1, <3>1 DEF AnswerSets
  <2>3. reachRun' = [reachRun EXCEPT ![s] = n]
    BY <2>1
  <2>4. cache' = cache /\ reach' = reach /\ r.pc # "idle"
    BY <1>2 DEF ReachFetch
  <2>5. n \in ReachRuns
    <3> HIDE DEF r
    <3>1. QED
      BY <1>0, <2>2 DEF ReachRuns, ReachPcs
  <2> HIDE DEF n
  <2>6. QED
    BY <1>0, <2>3, <2>4, <2>5
<1>3. ASSUME NEW d \in Domains, ReachStore(s, d)
      PROVE  /\ r.pc # "idle"
             /\ cache' \in [Domains -> CacheRows]
             /\ reach' \subseteq Articles
             /\ \E n \in ReachRuns : reachRun' = [reachRun EXCEPT ![s] = n]
  <2> DEFINE left == [e \in (DOMAIN r.answers) \ {d} |-> r.answers[e]]
             n == [r EXCEPT !.answers = left]
  <2>1. PICK E \in SUBSET ChatDomains : r.answers \in [E -> Answers]
    <3>1. r.answers \in AnswerSets
      BY <1>0 DEF ReachRuns
    <3>2. QED
      BY <3>1 DEF AnswerSets
  <2>2. left \in AnswerSets
    <3>1. E \ {d} \in SUBSET ChatDomains /\ left \in [E \ {d} -> Answers]
      BY <2>1
    <3>2. QED
      BY <3>1 DEF AnswerSets
  <2>3. reachRun' = [reachRun EXCEPT ![s] = n]
    BY <1>3 DEF ReachStore
  <2>4. reach' = reach /\ r.pc # "idle" /\ r.answers[d] \in Answers
        /\ cache' = [cache EXCEPT ![d] = r.answers[d]]
    BY <1>3, <2>1 DEF ReachStore
  <2>5. cache' \in [Domains -> CacheRows]
    BY <1>0, <2>4 DEF CacheRows
  <2>6. n \in ReachRuns
    <3> HIDE DEF r, left
    <3>1. QED
      BY <1>0, <2>2 DEF ReachRuns
  <2> HIDE DEF n
  <2>7. QED
    BY <1>0, <2>3, <2>4, <2>5, <2>6
<1>4. CASE ReachReread(s)
  <2> DEFINE rows == {d \in ChatDomains : cache[d] \in Valid}
             n == [r EXCEPT !.pc = "merge", !.rows = rows]
  <2>1. rows \in SUBSET ChatDomains
    OBVIOUS
  <2>2. reachRun' = [reachRun EXCEPT ![s] = n]
    BY <1>4 DEF ReachReread
  <2>3. cache' = cache /\ reach' = reach /\ r.pc # "idle"
    BY <1>4 DEF ReachReread
  <2>4. n \in ReachRuns
    <3> HIDE DEF r, rows
    <3>1. QED
      BY <1>0, <2>1 DEF ReachRuns, ReachPcs
  <2> HIDE DEF n
  <2>5. QED
    BY <1>0, <2>2, <2>3, <2>4
<1>5. CASE ReachMerge(s)
  <2>1. reachRun' = [reachRun EXCEPT ![s] = NoRun]
    BY <1>5 DEF ReachMerge
  <2>2. cache' = cache /\ r.pc # "idle" /\ reach' \subseteq Articles
    BY <1>0, <1>5 DEF ReachMerge
  <2>3. QED
    BY <1>0, <2>1, <2>2, NoRunType
<1>6. QED
  BY <1>1, <1>2, <1>3, <1>4, <1>5 DEF ReachStep

(* The history of a row's renewals, and the counts of what was done from outside  *)
(* and of runs that threw.                                                   *)
HistoryTyped ==
  /\ thrown \in 0..MaxThrows
  /\ outside \in Nat
  /\ renewed \in [Slots -> SUBSET Domains]

LEMMA HistoryType ==
  ASSUME ReachTyped, [ReachNext \/ ReachDone]_allVars
  PROVE  HistoryTyped'
<1>t. /\ thrown \in 0..MaxThrows /\ MaxThrows \in Nat /\ outside \in Nat
      /\ renewed \in [Slots -> SUBSET Domains]
  BY ReachAssumption DEF ReachTyped
<1>1. CASE UNCHANGED <<thrown, renewed>> /\ outside' \in Nat
  BY <1>1, <1>t DEF HistoryTyped
<1>2. ASSUME NEW d \in Domains, NEW answer, Renews(d, answer), UNCHANGED thrown,
             outside' \in Nat
      PROVE  HistoryTyped'
  BY <1>2, <1>t DEF Renews, HistoryTyped
<1>3. ASSUME NEW s \in Slots, renewed' = [renewed EXCEPT ![s] = {}], UNCHANGED <<thrown, outside>>
      PROVE  HistoryTyped'
  BY <1>3, <1>t DEF HistoryTyped
<1>4. ASSUME NEW s \in Slots, ReachStep(s)
      PROVE  HistoryTyped'
  <2>1. CASE ReachReason(s) \/ ReachFetch(s) \/ ReachMerge(s)
    BY <1>1, <1>t, <2>1 DEF ReachReason, ReachFetch, ReachMerge
  <2>2. ASSUME NEW d \in Domains, ReachStore(s, d)
        PROVE  HistoryTyped'
    BY <1>2, <1>t, <2>2 DEF ReachStore
  <2>3. CASE ReachReread(s)
    BY <1>3, <2>3 DEF ReachReread
  <2>4. QED
    BY <1>4, <2>1, <2>2, <2>3 DEF ReachStep
<1>5. ASSUME NEW s \in Slots, ReachThrows(s)
      PROVE  HistoryTyped'
  BY <1>5, <1>t DEF ReachThrows, HistoryTyped
<1>6. ASSUME NEW d \in Domains, CacheChanges(d)
      PROVE  HistoryTyped'
  BY <1>1, <1>2, <1>t, <1>6 DEF CacheChanges
<1>7. ASSUME NEW s \in Slots, BatchRun(s) \/ BatchTake(s) \/ TakeReach(s)
      PROVE  UNCHANGED <<thrown, renewed, outside>>
  BY <1>7 DEF BatchRun, BatchTake, TakeReach, reachVars
<1>8. ASSUME BatchAgent \/ SendReach \/ Refetch \/ UNCHANGED allVars
      PROVE  UNCHANGED <<thrown, renewed, outside>>
  BY <1>8 DEF BatchAgent, SendReach, Refetch, reachVars, allVars
<1>9. QED
  BY <1>t, <1>1, <1>4, <1>5, <1>6, <1>7, <1>8 DEF ReachNext, ReachDone

LEMMA ReachNextType ==
  ReachTyped /\ OneKind /\ [ReachNext \/ ReachDone]_allVars => ReachTyped' /\ OneKind'
<1> SUFFICES ASSUME ReachTyped, OneKind, [ReachNext \/ ReachDone]_allVars
             PROVE  ReachTyped' /\ OneKind'
  OBVIOUS
<1>0. /\ TypeOK' /\ SlotOK'
      /\ thrown' \in 0..MaxThrows /\ outside' \in Nat /\ renewed' \in [Slots -> SUBSET Domains]
  <2>1. TypeOK' /\ SlotOK'
    BY ReachMapsToPipeline, NextType DEF ReachTyped
  <2>2. QED
    BY <2>1, HistoryType DEF HistoryTyped
<1>s. slot \in [Slots -> SlotType] /\ reachRun \in [Slots -> ReachRuns]
  BY DEF ReachTyped, TypeOK
<1>i. \A s \in Slots : slot[s].pc # "idle" => reachRun[s] = NoRun
  BY DEF OneKind, Idle
<1>1. ASSUME UNCHANGED reachVars, NEW s \in Slots, reachRun[s] = NoRun,
             \A x \in Slots \ {s} : slot'[x] = slot[x]
      PROVE  ReachTyped' /\ OneKind'
  BY <1>0, <1>1 DEF ReachTyped, OneKind, reachVars
<1>2. ASSUME UNCHANGED <<slot, cache, reach, reachRun>>,
             refetches' \in 0..MaxRefetches, reachSent' \in BOOLEAN, reachQueue' \in Nat,
             reachQueue' <= refetches' + (IF reachSent' THEN 1 ELSE 0)
      PROVE  ReachTyped' /\ OneKind'
  BY <1>0, <1>2 DEF ReachTyped, OneKind
<1>3. ASSUME NEW s \in Slots, NEW r \in ReachRuns, slot[s] = Idle, UNCHANGED slot,
             reachRun' = [reachRun EXCEPT ![s] = r],
             cache' \in [Domains -> CacheRows], reach' \subseteq Articles,
             UNCHANGED <<reachSent, refetches>>, reachQueue' \in Nat, reachQueue' <= reachQueue
      PROVE  ReachTyped' /\ OneKind'
  <2>1. reachRun' \in [Slots -> ReachRuns]
    BY <1>s, <1>3
  <2>2. OneKind'
    BY <1>s, <1>3 DEF OneKind
  <2>3. reachQueue' <= refetches' + (IF reachSent' THEN 1 ELSE 0)
    BY <1>3 DEF ReachTyped
  <2>4. QED
    BY <1>0, <1>3, <2>1, <2>2, <2>3 DEF ReachTyped
<1>4. CASE BatchAgent
  <2>1. UNCHANGED <<slot, cache, reach, reachRun, refetches, reachSent, reachQueue>>
    BY <1>4 DEF BatchAgent, Agent, Plan, Enqueue, reachVars
  <2>2. QED
    BY <1>2, <2>1 DEF ReachTyped
<1>5. CASE SendReach
  <2>1. UNCHANGED <<slot, cache, reach, reachRun, refetches>>
        /\ reachSent = FALSE /\ reachSent' = TRUE /\ reachQueue' = reachQueue + 1
    BY <1>5 DEF SendReach, vars, ReachTyped
  <2>2. QED
    BY <1>2, <2>1 DEF ReachTyped
<1>6. CASE Refetch
  <2>1. UNCHANGED <<slot, cache, reach, reachRun, reachSent>> /\ refetches < MaxRefetches
        /\ refetches' = refetches + 1 /\ reachQueue' = reachQueue + 1
    BY <1>6 DEF Refetch, vars
  <2>2. MaxRefetches \in Nat
    BY ReachAssumption
  <2>3. QED
    BY <1>2, <2>1, <2>2 DEF ReachTyped
<1>7. ASSUME NEW s \in Slots, BatchRun(s)
      PROVE  ReachTyped' /\ OneKind'
  <2>1. slot[s].pc # "idle"
    BY <1>7 DEF BatchRun, Run, MarkProcessing, Upsert, AttemptFails, MarkCompleted, Count,
                FinalizeRead, FinalizeWrite, BumpRetry, MarkRetrying, Requeue, MarkFailed, Ack
  <2>2. \A x \in Slots \ {s} : slot'[x] = slot[x]
    BY <1>s, <1>7 DEF BatchRun, Run, MarkProcessing, Upsert, AttemptFails, MarkCompleted, Count,
                FinalizeRead, FinalizeWrite, BumpRetry, MarkRetrying, Requeue, MarkFailed, Ack, Goto
  <2>3. QED
    BY <1>1, <1>7, <1>i, <2>1, <2>2 DEF BatchRun
<1>8. ASSUME NEW s \in Slots, BatchTake(s)
      PROVE  ReachTyped' /\ OneKind'
  <2>1. \A x \in Slots \ {s} : slot'[x] = slot[x]
    BY <1>s, <1>8 DEF BatchTake, Take
  <2>2. QED
    BY <1>1, <1>8, <2>1 DEF BatchTake
<1>9. ASSUME NEW s \in Slots, TakeReach(s)
      PROVE  ReachTyped' /\ OneKind'
  <2> DEFINE n == [reachRun[s] EXCEPT !.pc = "start"]
  <2>1. n \in ReachRuns
    <3>1. reachRun[s] \in ReachRuns
      BY <1>s
    <3>2. QED
      BY <3>1 DEF ReachRuns, ReachPcs
  <2>2. reachRun' = [reachRun EXCEPT ![s] = n] /\ slot[s] = Idle /\ reachQueue > 0
        /\ reachQueue' = reachQueue - 1
        /\ UNCHANGED <<slot, cache, reach, reachSent, refetches>>
    BY <1>9 DEF TakeReach, vars
  <2> HIDE DEF n
  <2>3. reachQueue' \in Nat /\ reachQueue' <= reachQueue
    BY <2>2 DEF ReachTyped
  <2>4. cache' \in [Domains -> CacheRows] /\ reach' \subseteq Articles
    BY <2>2 DEF ReachTyped
  <2>5. QED
    BY <1>3, <2>1, <2>2, <2>3, <2>4
<1>10. ASSUME NEW s \in Slots, ReachStep(s)
       PROVE  ReachTyped' /\ OneKind'
  <2>1. reachRun[s].pc # "idle" /\ cache' \in [Domains -> CacheRows] /\ reach' \subseteq Articles
    BY <1>10, ReachStepType
  <2>2. PICK r \in ReachRuns : reachRun' = [reachRun EXCEPT ![s] = r]
    BY <1>10, ReachStepType
  <2>3. slot[s] = Idle
    BY <2>1 DEF OneKind, NoRun
  <2>4. UNCHANGED <<slot, reachSent, refetches, reachQueue>>
    BY <1>10 DEF ReachStep, ReachReason, ReachFetch, ReachStore, ReachReread, ReachMerge, vars
  <2>5. reachQueue' \in Nat /\ reachQueue' <= reachQueue
    BY <2>4 DEF ReachTyped
  <2>6. QED
    BY <1>3, <2>1, <2>2, <2>3, <2>4, <2>5
<1>th. ASSUME NEW s \in Slots, ReachThrows(s)
       PROVE  ReachTyped' /\ OneKind'
  <2>1. /\ reachRun[s].pc # "idle" /\ reachRun' = [reachRun EXCEPT ![s] = NoRun]
        /\ UNCHANGED <<slot, cache, reach, reachSent, refetches, reachQueue>>
    BY <1>th DEF ReachThrows, vars
  <2>2. slot[s] = Idle
    BY <2>1 DEF OneKind, NoRun
  <2>3. reachQueue' \in Nat /\ reachQueue' <= reachQueue
        /\ cache' \in [Domains -> CacheRows] /\ reach' \subseteq Articles
    BY <2>1 DEF ReachTyped
  <2>4. QED
    BY <1>3, <2>1, <2>2, <2>3, NoRunType
<1>11. ASSUME NEW d \in Domains, CacheChanges(d)
       PROVE  ReachTyped' /\ OneKind'
  <2>1. cache' \in [Domains -> CacheRows]
    BY <1>11 DEF CacheChanges, ReachTyped, CacheRows
  <2>2. QED
    BY <1>0, <1>11, <2>1 DEF CacheChanges, ReachTyped, OneKind, vars
<1>12. CASE UNCHANGED allVars
  BY <1>0, <1>12 DEF allVars, vars, reachVars, ReachTyped, OneKind
<1>13. QED
  BY <1>4, <1>5, <1>6, <1>7, <1>8, <1>9, <1>10, <1>th, <1>11, <1>12 DEF ReachNext, ReachDone

(* The slots are shared by both kinds of entries and never hold two at once,  *)
(* and the reach-fetch entries are at most the job's one and the user's        *)
(* requests (enqueueReachFetchForChat): ReachPipeline's ReachTypeOK.           *)
THEOREM SlotsAreShared == ReachSpec => []ReachTypeOK
<1>1. ReachTyped /\ OneKind => ReachTypeOK
  <2> SUFFICES ASSUME ReachTyped, OneKind
               PROVE  ReachTypeOK
    OBVIOUS
  <2>1. reachQueue \in 0..(1 + MaxRefetches)
    <3>1. MaxRefetches \in Nat
      BY ReachAssumption
    <3>2. QED
      BY <3>1 DEF ReachTyped
  <2>2. \A s \in Slots : /\ reachRun[s].pc \in ReachPcs
                         /\ reachRun[s].todo \subseteq ChatDomains
                         /\ reachRun[s].rows \subseteq ChatDomains
    BY DEF ReachTyped, ReachRuns
  <2>3. QED
    BY <2>1, <2>2 DEF ReachTyped, OneKind, ReachTypeOK
<1>2. QED
  BY <1>1, ReachInitType, ReachNextType, PTL DEF ReachSpec

(* A run that is to fetch a domain, or to store its answer, found the row missing *)
(* or old: if it is fresh by now, the row was renewed since.                   *)
LateNews ==
  \A s \in Slots :
    /\ reachRun[s].pc = "fetch" =>
         \A d \in reachRun[s].todo : cache[d] = "fresh" => d \in renewed[s]
    /\ reachRun[s].pc = "store" =>
         \A d \in DOMAIN reachRun[s].answers : cache[d] = "fresh" => d \in renewed[s]

(* The runs other than s's stay, and so do the rows that are not renewed.      *)
LEMMA LateNewsKept ==
  ASSUME ReachTyped, LateNews, NEW s \in Slots, cache' = cache,
         \A x \in Slots \ {s} : reachRun'[x] = reachRun[x] /\ renewed'[x] = renewed[x],
         reachRun'[s].pc \notin {"fetch", "store"}
  PROVE  LateNews'
BY DEF LateNews

(* A fresh row is one that was fresh before, or is news to every run that may    *)
(* still store.                                                             *)
LEMMA LateNewsChange ==
  ASSUME ReachTyped, LateNews, NEW d \in Domains, NEW answer,
         cache' = [cache EXCEPT ![d] = answer], Renews(d, answer),
         \A x \in Slots : /\ reachRun'[x].pc = reachRun[x].pc
                          /\ reachRun'[x].todo = reachRun[x].todo
                          /\ DOMAIN reachRun'[x].answers \subseteq DOMAIN reachRun[x].answers
  PROVE  LateNews'
<1>1. cache \in [Domains -> CacheRows]
  BY DEF ReachTyped
<1>2. \A e : cache'[e] = "fresh" => cache[e] = "fresh" \/ (e = d /\ answer = "fresh")
  BY <1>1
<1>g. \A x \in Slots : renewed[x] \subseteq renewed'[x]
  BY DEF Renews
<1>n. \A x \in Slots :
        answer = "fresh" /\ reachRun[x].pc \in {"fetch", "store"} => d \in renewed'[x]
  BY DEF Renews
<1>4. ASSUME NEW x \in Slots, NEW e, cache'[e] = "fresh", reachRun[x].pc \in {"fetch", "store"},
             cache[e] = "fresh" => e \in renewed[x]
      PROVE  e \in renewed'[x]
  <2>1. cache[e] = "fresh" \/ (e = d /\ answer = "fresh")
    BY <1>2, <1>4
  <2>2. CASE cache[e] = "fresh"
    <3>1. e \in renewed[x]
      BY <1>4, <2>2
    <3>2. QED
      BY <1>g, <3>1, Zenon
  <2>3. CASE e = d /\ answer = "fresh"
    BY <1>n, <1>4, <2>3, Zenon
  <2>4. QED
    BY <2>1, <2>2, <2>3
<1>5. ASSUME NEW x \in Slots
      PROVE  /\ reachRun'[x].pc = "fetch" =>
                  \A e \in reachRun'[x].todo : cache'[e] = "fresh" => e \in renewed'[x]
             /\ reachRun'[x].pc = "store" =>
                  \A e \in DOMAIN reachRun'[x].answers : cache'[e] = "fresh" => e \in renewed'[x]
  <2>1. ASSUME reachRun'[x].pc = "fetch", NEW e \in reachRun'[x].todo, cache'[e] = "fresh"
        PROVE  e \in renewed'[x]
    <3>1. reachRun[x].pc = "fetch" /\ e \in reachRun[x].todo
      BY <2>1
    <3>2. cache[e] = "fresh" => e \in renewed[x]
      BY <3>1 DEF LateNews
    <3>3. QED
      BY <1>4, <2>1, <3>1, <3>2
  <2>2. ASSUME reachRun'[x].pc = "store", NEW e \in DOMAIN reachRun'[x].answers, cache'[e] = "fresh"
        PROVE  e \in renewed'[x]
    <3>1. reachRun[x].pc = "store" /\ e \in DOMAIN reachRun[x].answers
      BY <2>2
    <3>2. cache[e] = "fresh" => e \in renewed[x]
      BY <3>1 DEF LateNews
    <3>3. QED
      BY <1>4, <2>2, <3>1, <3>2
  <2>3. QED
    BY <2>1, <2>2
<1>6. QED
  BY <1>5 DEF LateNews

LEMMA LateNewsNext ==
  ReachTyped /\ LateNews /\ [ReachNext \/ ReachDone]_allVars => LateNews'
<1> SUFFICES ASSUME ReachTyped, LateNews, [ReachNext \/ ReachDone]_allVars
             PROVE  LateNews'
  OBVIOUS
<1>t. /\ reachRun \in [Slots -> ReachRuns] /\ renewed \in [Slots -> SUBSET Domains]
      /\ \A s \in Slots : reachRun[s] \in ReachRuns
  BY DEF ReachTyped
<1>n. NoRun.pc = "idle"
  BY DEF NoRun
<1>1. CASE UNCHANGED <<cache, reachRun, renewed>>
  BY <1>1 DEF LateNews
<1>2. ASSUME NEW s \in Slots, TakeReach(s)
      PROVE  LateNews'
  <2>1. [reachRun[s] EXCEPT !.pc = "start"].pc = "start"
    BY <1>t DEF ReachRuns
  <2>2. reachRun'[s].pc = "start" /\ \A x \in Slots \ {s} : reachRun'[x] = reachRun[x]
    BY <1>2, <1>t, <2>1 DEF TakeReach
  <2>3. QED
    BY <1>2, <2>2, LateNewsKept DEF TakeReach
<1>3. ASSUME NEW s \in Slots, ReachReason(s)
      PROVE  LateNews'
  <2>1. PICK key \in BOOLEAN :
          reachRun' = [reachRun EXCEPT ![s].pc = "fetch",
            ![s].todo = IF key THEN {d \in ChatDomains : cache[d] # "fresh"} ELSE {}]
    BY <1>3 DEF ReachReason
  <2>2. PICK todo : todo = IF key THEN {d \in ChatDomains : cache[d] # "fresh"} ELSE {}
    OBVIOUS
  <2>3. \A d \in todo : cache[d] # "fresh"
    BY <2>2
  <2>4. LET n == [reachRun[s] EXCEPT !.pc = "fetch", !.todo = todo]
        IN  /\ reachRun' = [reachRun EXCEPT ![s] = n]
            /\ n.pc = "fetch" /\ n.todo = todo
    BY <1>t, <2>1, <2>2 DEF ReachRuns
  <2>5. /\ reachRun'[s].pc = "fetch" /\ reachRun'[s].todo = todo
        /\ \A x \in Slots \ {s} : reachRun'[x] = reachRun[x]
    BY <1>t, <2>4
  <2>6. UNCHANGED <<cache, renewed>>
    BY <1>3 DEF ReachReason
  <2>7. QED
    BY <2>3, <2>5, <2>6 DEF LateNews
<1>4. ASSUME NEW s \in Slots, ReachFetch(s)
      PROVE  LateNews'
  <2>1. PICK ans \in [reachRun[s].todo -> Answers] :
          reachRun' = [reachRun EXCEPT ![s].pc = "store", ![s].todo = {}, ![s].answers = ans]
    BY <1>4 DEF ReachFetch
  <2>2. LET n == [reachRun[s] EXCEPT !.pc = "store", !.todo = {}, !.answers = ans]
        IN  /\ reachRun' = [reachRun EXCEPT ![s] = n]
            /\ n.pc = "store" /\ n.answers = ans
    BY <1>t, <2>1 DEF ReachRuns
  <2>3. /\ reachRun'[s].pc = "store" /\ DOMAIN reachRun'[s].answers = reachRun[s].todo
        /\ \A x \in Slots \ {s} : reachRun'[x] = reachRun[x]
    BY <1>t, <2>1, <2>2
  <2>4. UNCHANGED <<cache, renewed>> /\ reachRun[s].pc = "fetch"
    BY <1>4 DEF ReachFetch
  <2>5. QED
    BY <2>3, <2>4 DEF LateNews
<1>5. ASSUME NEW s \in Slots, NEW d \in Domains, ReachStore(s, d)
      PROVE  LateNews'
  <2>1. PICK left : left = [e \in DOMAIN reachRun[s].answers \ {d} |-> reachRun[s].answers[e]]
    OBVIOUS
  <2>2. LET n == [reachRun[s] EXCEPT !.answers = left]
        IN  /\ reachRun' = [reachRun EXCEPT ![s] = n]
            /\ n.pc = reachRun[s].pc /\ n.todo = reachRun[s].todo /\ n.answers = left
    BY <1>5, <1>t, <2>1 DEF ReachStore, ReachRuns
  <2>3. DOMAIN left \subseteq DOMAIN reachRun[s].answers
    BY <2>1
  <2>4. \A x \in Slots : /\ reachRun'[x].pc = reachRun[x].pc
                         /\ reachRun'[x].todo = reachRun[x].todo
                         /\ DOMAIN reachRun'[x].answers \subseteq DOMAIN reachRun[x].answers
    BY <1>t, <2>2, <2>3
  <2>5. cache' = [cache EXCEPT ![d] = reachRun[s].answers[d]] /\ Renews(d, reachRun[s].answers[d])
    BY <1>5 DEF ReachStore
  <2>6. QED
    BY <2>4, <2>5, LateNewsChange
<1>6. ASSUME NEW s \in Slots, ReachReread(s)
      PROVE  LateNews'
  <2>1. PICK rows : rows = {d \in ChatDomains : cache[d] \in Valid}
    OBVIOUS
  <2>2. LET n == [reachRun[s] EXCEPT !.pc = "merge", !.rows = rows]
        IN  reachRun' = [reachRun EXCEPT ![s] = n] /\ n.pc = "merge"
    BY <1>6, <1>t, <2>1 DEF ReachReread, ReachRuns
  <2>3. reachRun'[s].pc = "merge"
        /\ \A x \in Slots \ {s} : reachRun'[x] = reachRun[x] /\ renewed'[x] = renewed[x]
    BY <1>6, <1>t, <2>2 DEF ReachReread
  <2>4. QED
    BY <1>6, <2>3, LateNewsKept DEF ReachReread
<1>7. ASSUME NEW s \in Slots, ReachMerge(s) \/ ReachThrows(s)
      PROVE  LateNews'
  <2>1. reachRun'[s] = NoRun
        /\ \A x \in Slots \ {s} : reachRun'[x] = reachRun[x] /\ renewed'[x] = renewed[x]
    BY <1>7, <1>t DEF ReachMerge, ReachThrows
  <2>2. QED
    BY <1>7, <1>n, <2>1, LateNewsKept DEF ReachMerge, ReachThrows
<1>8. ASSUME NEW d \in Domains, CacheChanges(d)
      PROVE  LateNews'
  <2>1. CASE cache' = [cache EXCEPT ![d] = "expired"] /\ UNCHANGED renewed
    <3>1. \A e : cache'[e] = "fresh" => cache[e] = "fresh"
      BY <2>1 DEF ReachTyped
    <3>2. QED
      BY <1>8, <2>1, <3>1 DEF CacheChanges, LateNews
  <2>2. CASE \E ans \in Answers : cache' = [cache EXCEPT ![d] = ans] /\ Renews(d, ans)
    BY <1>8, <2>2, LateNewsChange DEF CacheChanges
  <2>3. QED
    BY <1>8, <2>1, <2>2 DEF CacheChanges
<1>9. ASSUME NEW s \in Slots, BatchRun(s) \/ BatchTake(s)
      PROVE  LateNews'
  BY <1>1, <1>9 DEF BatchRun, BatchTake, reachVars
<1>10. ASSUME BatchAgent \/ SendReach \/ Refetch \/ UNCHANGED allVars
       PROVE  LateNews'
  BY <1>1, <1>10 DEF BatchAgent, SendReach, Refetch, reachVars, allVars
<1>11. QED
  BY <1>2, <1>3, <1>4, <1>5, <1>6, <1>7, <1>8, <1>9, <1>10 DEF ReachNext, ReachDone, ReachStep

(* The cache is shared by every chat: a run costs it a good row only if the row   *)
(* was renewed after that run had looked, however many runs there are and in     *)
(* whatever order they look, fetch and store.                                *)
THEOREM SpoilingIsARace == ReachSpec => SpoilsOnlyInRace
<1>1. ReachInit => LateNews
  BY DEF ReachInit, LateNews, NoRun
<1>2. ReachTyped /\ LateNews /\ [ReachNext \/ ReachDone]_allVars =>
        \A d \in Domains :
          cache[d] = "fresh" /\ cache'[d] \notin Valid /\ outside' = outside =>
            \E s \in Slots : reachRun'[s] # reachRun[s] /\ d \in renewed[s]
  <2> SUFFICES ASSUME ReachTyped, LateNews, [ReachNext \/ ReachDone]_allVars, NEW d \in Domains,
                      cache[d] = "fresh", cache'[d] \notin Valid, outside' = outside
               PROVE  \E s \in Slots : reachRun'[s] # reachRun[s] /\ d \in renewed[s]
    OBVIOUS
  <2>1. cache' # cache
    BY DEF Valid
  <2>2. PICK s \in Slots, e \in Domains : ReachStore(s, e)
    <3>1. ASSUME NEW x \in Slots,
                 \/ ReachReason(x) \/ ReachFetch(x) \/ ReachReread(x) \/ ReachMerge(x)
                 \/ ReachThrows(x) \/ TakeReach(x) \/ BatchRun(x) \/ BatchTake(x)
          PROVE  FALSE
      BY <2>1, <3>1 DEF ReachReason, ReachFetch, ReachReread, ReachMerge, ReachThrows, TakeReach,
                        BatchRun, BatchTake, reachVars
    <3>2. ASSUME BatchAgent \/ SendReach \/ Refetch \/ UNCHANGED allVars
          PROVE  FALSE
      BY <2>1, <3>2 DEF BatchAgent, SendReach, Refetch, reachVars, allVars
    <3>3. ASSUME NEW x \in Domains, CacheChanges(x)
          PROVE  FALSE
      BY <3>3 DEF CacheChanges, ReachTyped
    <3>4. QED
      BY <3>1, <3>2, <3>3 DEF ReachNext, ReachDone, ReachStep
  <2>3. cache \in [Domains -> CacheRows] /\ reachRun \in [Slots -> ReachRuns]
        /\ reachRun[s] \in ReachRuns
    BY DEF ReachTyped
  <2>4. e = d /\ d \in DOMAIN reachRun[s].answers /\ reachRun[s].pc = "store"
    BY <2>2, <2>3 DEF ReachStore, Valid
  <2>5. d \in renewed[s]
    BY <2>4 DEF LateNews
  <2>6. reachRun'[s] # reachRun[s]
    <3>1. PICK left : left = [x \in DOMAIN reachRun[s].answers \ {d} |-> reachRun[s].answers[x]]
      OBVIOUS
    <3>2. reachRun'[s].answers = left
      <4>1. [reachRun[s] EXCEPT !.answers = left].answers = left
        BY <2>3 DEF ReachRuns
      <4>2. reachRun' = [reachRun EXCEPT ![s] = [reachRun[s] EXCEPT !.answers = left]]
        BY <2>2, <2>4, <3>1 DEF ReachStore
      <4>3. QED
        BY <2>3, <4>1, <4>2
    <3>3. d \notin DOMAIN left
      BY <3>1
    <3>4. QED
      BY <2>4, <3>2, <3>3
  <2>7. QED
    BY <2>5, <2>6
<1>3. ReachSpec => []LateNews
  BY <1>1, LateNewsNext, ReachInitType, ReachNextType, PTL DEF ReachSpec
<1>4. QED
  BY <1>2, <1>3, ReachInitType, ReachNextType, PTL DEF ReachSpec, SpoilsOnlyInRace
=============================================================================
