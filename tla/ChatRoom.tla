------------------------------ MODULE ChatRoom ------------------------------
(***************************************************************************)
(* What the smallchat server promises, without sockets, slots or select(): *)
(* a room in which one message at a time is handed to every other member.  *)
(* Nobody joins, leaves or speaks while a message is being handed out.     *)
(***************************************************************************)
EXTENDS Naturals, Sequences

CONSTANTS
  People,   \* whoever may be in the room
  Messages  \* what may be said; m.src is the speaker

VARIABLES
  members,  \* who is in the room
  gone,     \* who has hung up, noticed or not
  log,      \* everything said, in order
  owed,     \* the members that have not been handed the last message yet
  inbox,    \* what each member has been handed
  closed    \* the room has shut down

roomVars == <<members, gone, log, owed, inbox, closed>>

RoomInit ==
  /\ members = {} /\ gone = {} /\ owed = {}
  /\ log = <<>>
  /\ inbox = [p \in People |-> <<>>]
  /\ closed = FALSE

Join(p) ==
  /\ ~closed /\ owed = {} /\ p \notin members
  /\ members' = members \cup {p}
  /\ UNCHANGED <<gone, log, owed, inbox, closed>>

(* The last message of the log is new: that is what was said. *)
Said == log'[Len(log')]
Speak(p) ==
  /\ ~closed /\ owed = {} /\ p \in members
  /\ Len(log') = Len(log) + 1 /\ Said \in Messages /\ Said.src = p
  /\ log' = Append(log, Said)
  /\ owed' = members \ {p}
  /\ UNCHANGED <<members, gone, inbox, closed>>

Deliver(p) ==
  /\ ~closed /\ p \in owed /\ p \notin gone
  /\ inbox' = [inbox EXCEPT ![p] = Append(@, log[Len(log)])]
  /\ owed' = owed \ {p}
  /\ UNCHANGED <<members, gone, log, closed>>

Miss(p) ==
  /\ ~closed /\ p \in owed /\ p \in gone
  /\ owed' = owed \ {p}
  /\ UNCHANGED <<members, gone, log, inbox, closed>>

HangUp(p) ==
  /\ ~closed /\ p \notin gone
  /\ gone' = gone \cup {p}
  /\ UNCHANGED <<members, log, owed, inbox, closed>>

Leave(p) ==
  /\ ~closed /\ owed = {} /\ p \in members \cap gone
  /\ members' = members \ {p}
  /\ inbox' = [inbox EXCEPT ![p] = <<>>]
  /\ UNCHANGED <<gone, log, owed, closed>>

ShutDown ==
  /\ ~closed
  /\ closed' = TRUE /\ owed' = {}
  /\ UNCHANGED <<members, gone, log, inbox>>

RoomNext ==
  \/ \E p \in People :
       Join(p) \/ Speak(p) \/ Deliver(p) \/ Miss(p) \/ HangUp(p) \/ Leave(p)
  \/ ShutDown

(* A message that was said is handed out to the end. *)
RoomFairness == WF_roomVars(\E p \in People : Deliver(p) \/ Miss(p))

RoomSafety == RoomInit /\ [][RoomNext]_roomVars
RoomSpec == RoomSafety /\ RoomFairness
=============================================================================
