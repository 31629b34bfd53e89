------------------------------- MODULE MCPage -------------------------------
(* Small instances of ChatPage.                                              *)
EXTENDS ChatPage
=============================================================================
