------------------------------ MODULE ChatSystem ------------------------------
(***************************************************************************)
(* The server together with its own clients (smallchat-client.c) over      *)
(* bounded socket buffers.  Both sides use blocking writes.  A client      *)
(* looks at the keyboard only when the server has sent nothing, and then   *)
(* writes every line of what it read before it looks at the server again.  *)
(***************************************************************************)
EXTENDS ChatServerHistory

CONSTANT BATCH \* bound: lines in one read() of the keyboard

ASSUME SystemAssumption == BATCH \in Nat

VARIABLE typing \* the lines each client has read and not yet written

systemVars == <<vars, typing>>

ClientInit == typing = [c \in Conns |-> 0]

TCPConnect(c) == PeerConnect(c) /\ UNCHANGED typing

(* Mutation: the keyboard comes first. *)
ReadStdinFirst(c) ==
  /\ exit = "none" /\ peer[c] = "open" /\ typing[c] = 0
  /\ \E n \in 1 .. BATCH :
       Len(lines[c]) + n <= MaxLines /\ typing' = [typing EXCEPT ![c] = n]
  /\ UNCHANGED vars

(* Nothing from the server: some lines are read from the keyboard. *)
ReadStdin(c) ==
  /\ exit = "none" /\ peer[c] = "open" /\ typing[c] = 0
  /\ rcvd[c] = Len(down[c])
  /\ \E n \in 1 .. BATCH :
       Len(lines[c]) + n <= MaxLines /\ typing' = [typing EXCEPT ![c] = n]
  /\ UNCHANGED vars

(* The next of them is written, when the socket has room for it. *)
WriteLine(c) ==
  /\ typing[c] > 0
  /\ \E line \in Lines : PeerSend(c, line)
  /\ typing' = [typing EXCEPT ![c] = @ - 1]

(* Mutation: a client whose keyboard has ended no longer looks at the server. *)
ReadServerWhileTyping(c) ==
  typing[c] = 0 /\ Len(lines[c]) < MaxLines /\ PeerRead(c) /\ UNCHANGED typing

(* Back in select(), the client takes what the server has sent. *)
ReadServer(c) == typing[c] = 0 /\ PeerRead(c) /\ UNCHANGED typing

(* The user ends the client, whatever it is doing. *)
Quit(c) ==
  /\ PeerClose(c) \/ PeerAbort(c)
  /\ typing' = [typing EXCEPT ![c] = 0]

ClientLoop(c) == WriteLine(c) \/ ReadServer(c)

SystemInit == Init /\ ClientInit
SystemNext ==
  \/ (Server \/ Exited) /\ UNCHANGED typing
  \/ \E c \in Conns : TCPConnect(c) \/ ReadStdin(c) \/ ClientLoop(c) \/ Quit(c)
SystemSpec == SystemInit /\ [][SystemNext]_systemVars

(* Every process is scheduled.  That a client reads what it is sent follows from its
   program and is not assumed. *)
FairSystem ==
  /\ SystemSpec
  /\ WF_systemVars(Server /\ UNCHANGED typing)
  /\ \A c \in Conns : WF_systemVars(ClientLoop(c))

-----------------------------------------------------------------------------
(* Properties. *)

(* The connection whose reader the server is waiting for in write(). *)
ServerWaitsFor(c) ==
  /\ ~Writable(c)
  /\ \/ At("welcome") /\ sock[fd] = c
     \/ At("reply") /\ sock[j] = c
     \/ At("broadcast") /\ \E f \in Recipients : IsLowest(f, Recipients) /\ sock[f] = c
ClientWaits(c) ==
  peer[c] = "open" /\ typing[c] > 0 /\ \A line \in Lines : Len(up[c]) + Len(line) > RCVBUF

(* The server and a client never wait for each other to read, although each of them
   stops reading while it writes.  Two things save them: a client looks at the
   keyboard only when it has read everything, and the server reads from each ready
   client in every scan.  The buffers must be large enough for that: the client's for
   the lines of one read() of the keyboard, the server's for all that the others
   can say while the server empties a full one, and the welcome. *)
NeverBothWaiting == \A c \in Conns : ~(ServerWaitsFor(c) /\ ClientWaits(c))
=============================================================================
