----------------------------- MODULE ChatTurns ------------------------------
(***************************************************************************)
(* Whose turn it is: the main loop of the smallchat server together with a *)
(* count of how often each connection was read while another one waited.   *)
(* The count is history; the steps are those of ChatServer.                *)
(***************************************************************************)
EXTENDS ChatServerHistory

VARIABLE
  passed  \* passed[c][d]: how often d was read since c began to wait

turnVars == <<vars, passed>>

(* A connection waits from the time it is queued until it is accepted, and from the
   time it is readable until it is read. *)
Queued(c) == \E i \in DOMAIN backlog : backlog[i] = c
Waiting(c) == Queued(c) \/ \E f \in Registered : sock[f] = c /\ Readable(c)

None == [d \in Conns |-> 0]

(* The next read() is on connection d. *)
Reads(d) == \E f \in ScanSet : IsLowest(f, ScanSet) /\ sock[f] = d

(* d is read, whether it brings text or its end: it has had its turn, and the others
   that wait have seen it pass. *)
ReadPasses ==
  \E d \in Conns :
    /\ Reads(d)
    /\ ReadText \/ Disconnect
    /\ passed' = [c \in Conns |->
         IF c = d THEN None
         ELSE IF Waiting(c) THEN [passed[c] EXCEPT ![d] = @ + 1] ELSE passed[c]]

(* The oldest connection of the queue has had its turn. *)
AcceptServes ==
  /\ Accept
  /\ passed' = [passed EXCEPT ![Head(backlog)] = None]

(* All other steps of the server, the kernel and the peers read nothing. *)
ReadsNothing ==
  /\ \/ InitChat \/ Select \/ AcceptFails \/ Welcome \/ Reply
     \/ BroadcastWrite \/ BroadcastDone \/ ScanDone
     \/ Peers \/ Exited
  /\ UNCHANGED passed

TurnInit == Init /\ passed = [c \in Conns |-> None]
TurnNext == ReadPasses \/ AcceptServes \/ ReadsNothing
TurnSpec == TurnInit /\ [][TurnNext]_turnVars

(* No connection starves behind another, whatever slot it sits in and however much
   the other sends: a client with text to be read sees each of the others read at
   most twice before its turn, once in the scan under way and once in the next, and
   one in the accept queue at most as often as there are places from it to the end of
   the queue, because every round of the loop accepts a connection before it reads. *)
ReadInTurn ==
  exit = "none" =>
    \A c, d \in Conns :
      /\ \A f \in Registered : sock[f] = c => passed[c][d] <= 2
      /\ \A a \in DOMAIN backlog : backlog[a] = c => passed[c][d] <= BACKLOG - a + 1

-----------------------------------------------------------------------------
(* What makes ReadInTurn inductive: who does not wait has seen nobody pass, and the
   bound depends on whether the connection and the other one are still to be read in
   the round under way. *)
ToRead(d) == \E f \in Pending : sock[f] = d
Once(d) == IF ToRead(d) THEN 0 ELSE 1
PassedInQueue(c, d) ==
  \A a \in DOMAIN backlog : backlog[a] = c =>
    passed[c][d] <= BACKLOG - a + (IF pc = "accept" THEN 1 ELSE Once(d))
PassedInTable(c, d) ==
  \A f \in Registered : sock[f] = c =>
    passed[c][d] <= Once(d) + (IF f \in Pending THEN 1 ELSE 0)
NonePassed(c, d) == ~Waiting(c) => passed[c][d] = 0
TurnInv ==
  /\ passed \in [Conns -> [Conns -> Nat]]
  /\ pc \in {"init", "select"} => readfds = {} /\ j = 0
  /\ exit = "none" =>
       \A c, d \in Conns : PassedInQueue(c, d) /\ PassedInTable(c, d) /\ NonePassed(c, d)
=============================================================================
