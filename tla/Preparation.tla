----------------------------- MODULE Preparation -----------------------------
(***************************************************************************)
(* What a chat is to search: the card that asks for its parameters (Probing)    *)
(* and the way from them to the batches (Planning), which share no state here.   *)
(* A behaviour is one of one of them, so that their states add up instead of     *)
(* multiplying.                                                               *)
(***************************************************************************)
EXTENDS Probing

CONSTANTS
  MediaTypes, Online, Blogish, Cluster, LastDay, MonthDays, LongWindow, MonthCap, DayCap,
  MaxInputTokens, FewShot, MaxJobTokens

VARIABLES
  topic,     \* the part the behaviour is about
  stage, mode, query, indices, articles, batches

Plan == INSTANCE Planning

ASSUME PlanAssumption == Plan!PlanningAssumption /\ Plan!ClusterAssumption

planVars == <<stage, mode, query, indices, articles, batches>>

TopicInit == topic \in {"asking", "planning"} /\ Init /\ Plan!Init

TopicNext ==
  \/ topic = "asking" /\ Next /\ UNCHANGED <<topic, planVars>>
  \/ topic = "planning" /\ Plan!Next /\ UNCHANGED <<topic, vars>>

TopicSpec == TopicInit /\ [][TopicNext]_<<topic, vars, planVars>>
-----------------------------------------------------------------------------
(* Every document of the chosen media that the query matches is found, but for        *)
(* those of months beyond the cap, and for those kept by month if there are no dates  *)
(* (Planning).                                                                *)
NothingMissed == Plan!NothingMissed

(* The plan takes each article once and in order, and keeps to the target (Planning).  *)
BatchesHold == Plan!BatchesHold
=============================================================================
