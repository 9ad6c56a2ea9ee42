---------------------------- MODULE MCChatSystem ----------------------------
(* The server with its own clients, for model checking. *)
EXTENDS ChatSystem, MCChatServer
=============================================================================
