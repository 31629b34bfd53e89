----------------------------- MODULE MCChatFlow -----------------------------
(* Small instances of ChatFlow.  The parameters but the dates come in one    *)
(* patch; the brand may be taken back; the upload is attached and detached.  *)
EXTENDS ChatFlow

CONSTANT u1

MCPatches ==
  {[EmptyPatch EXCEPT !.set = Fields \ {"dates"}],
   [EmptyPatch EXCEPT !.clear = {"brand"}],
   [EmptyPatch EXCEPT !.upload = u1],
   [EmptyPatch EXCEPT !.upload = None]}
=============================================================================
