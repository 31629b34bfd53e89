---------------------------- MODULE EnrichmentJob ----------------------------
(***************************************************************************)
(* What one enrichment job promises to the user who waits for it, with no  *)
(* queue, worker or retry in sight: every batch is settled once, as         *)
(* completed or as failed, and when the last one is settled the job closes  *)
(* once, with the verdict the outcomes call for.                            *)
(***************************************************************************)
EXTENDS Integers

CONSTANT BatchCount        \* enrichment_jobs.batch_count

VARIABLES outcome,         \* what became of each batch
          verdict          \* what the job row tells

jobVars == <<outcome, verdict>>

Batches == 1..BatchCount

Settled == {"completed", "failed"}
Verdicts == {"completed", "partial", "failed"}

(* The status finalizeJob derives from the outcomes of the batches.         *)
VerdictOf(o) ==
  CASE \A b \in Batches : o[b] # "failed" -> "completed"
    [] \A b \in Batches : o[b] = "failed" -> "failed"
    [] OTHER -> "partial"

JobTypeOK ==
  /\ outcome \in [Batches -> Settled \cup {"open"}]
  /\ verdict \in Verdicts \cup {"none", "processing"}

Init ==
  /\ outcome = [b \in Batches |-> "open"]
  /\ verdict = "none"

Start ==
  /\ verdict = "none"
  /\ verdict' = "processing"
  /\ UNCHANGED outcome

Settle(b, o) ==
  /\ verdict = "processing"
  /\ outcome[b] = "open"
  /\ outcome' = [outcome EXCEPT ![b] = o]
  /\ UNCHANGED verdict

Close ==
  /\ verdict = "processing"
  /\ \A b \in Batches : outcome[b] \in Settled
  /\ verdict' = VerdictOf(outcome)
  /\ UNCHANGED outcome

Next ==
  \/ Start
  \/ \E b \in Batches, o \in Settled : Settle(b, o)
  \/ Close

Spec == Init /\ [][Next]_jobVars
=============================================================================
