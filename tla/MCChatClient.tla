----------------------------- MODULE MCChatClient -----------------------------
(* Values for model checking ChatClient. *)
EXTENDS ChatClient

(* A buffer that starts negative, empty and beyond its end. *)
MCInitialLens == {-2, 0, 3}
=============================================================================
