---------------------------- MODULE MCChatTurns -----------------------------
(* Values of the constants of ChatTurns for model checking. *)
EXTENDS ChatTurns, MCChatServer
=============================================================================
