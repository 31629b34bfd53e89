---------------------------- MODULE MCConversation ----------------------------
(* Small instances of Conversation: free text, which may be mapped to any     *)
(* chip of its state, and a click on the probe; an extractor that is           *)
(* confident of nothing, or of the dates and the type.                       *)
EXTENDS Conversation

MCMessages == {Text, [choice |-> "upgrade", blank |-> FALSE]}
MCIntents == {[filled |-> {}, type |-> "none"], [filled |-> {"dates"}, type |-> "standard"]}
=============================================================================
