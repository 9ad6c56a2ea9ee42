------------------------- MODULE ChatServerHistory --------------------------
(***************************************************************************)
(* What the clients of the smallchat server may rely on, stated over the   *)
(* history variables of ChatServer: who receives what, how the text of a   *)
(* connection becomes messages, and what eventually happens.               *)
(***************************************************************************)
EXTENDS ChatServer, Subsequences, SequencesExt

Chats(s) == Subsequence(s, {i \in 1 .. Len(s) : s[i].kind = "chat"})

Members == {sock[f] : f \in Registered}
Gone == {c \in Conns : link[c] # "up"}
Inbox == [c \in Conns |-> Chats(down[c])]
Owed == IF At("broadcast") THEN {sock[f] : f \in Recipients} ELSE {}

(* Everyone in the room sees the same conversation: what was written to a live
   member is, in order and without loss or repetition, what the others said
   since it was accepted, up to the message sendMsgToAllClientsBut() has not
   yet brought to its slot.  A member that is gone holds a prefix of it.  It
   must hold while members join, leave and take over each other's slots between
   the writes. *)
SaidByOthers(log, c, from, to) ==
  Subsequence(log, {i \in from .. to : log[i].src # c})
Heard(c) ==
  SaidByOthers(room, c, joined[c] + 1, IF c \in Owed THEN Len(room) - 1 ELSE Len(room))
RoomAgreement ==
  exit = "none" =>
    \A c \in Members :
      IF c \in Gone THEN IsPrefix(Inbox[c], Heard(c)) ELSE Inbox[c] = Heard(c)

(* What makes RoomAgreement inductive: nothing was written to a connection that is
   not registered, a client has joined before what it is owed was said by another,
   and the message being sent is the last one of the conversation. *)
AgreementInv ==
  /\ RoomAgreement
  /\ exit = "none" =>
       /\ \A c \in Conns \ Members : Inbox[c] = <<>>
       /\ \A c \in Members : joined[c] <= Len(room)
       /\ \A c \in Owed : joined[c] < Len(room) /\ room[Len(room)].src # c
       /\ pc = "broadcast" =>
            /\ room # <<>> /\ msg = room[Len(room)]
            /\ msg.kind = "chat" /\ msg.src = sock[j]

-----------------------------------------------------------------------------
(* The server as an implementation of the abstract room. *)

Room == INSTANCE ChatRoom WITH
  People <- Conns,
  Messages <- {m \in Message : m.kind = "chat"},
  members <- Members,
  gone <- Gone,
  log <- room,
  owed <- Owed,
  inbox <- Inbox,
  closed <- exit # "none"

(* The server implements the room: whatever the connections do, every step of the
   loop, of the kernel and of the peers is a step of the room or none. *)
ImplementsRoomSafety == Room!RoomSafety

(* The same, and a message once begun is handed to all the others unless the
   process ends. *)
ImplementsRoom == Room!RoomSpec

-----------------------------------------------------------------------------
(* Streams.  These hold for text without commands, while no peer is cut off. *)

PlainText == \A line \in Lines : \A i \in 1 .. Len(line) : line[i] \notin SlashWords
Undisturbed == ~Aborts /\ PlainText

SaidBy(log, c) == Subsequence(log, {i \in 1 .. Len(log) : log[i].src = c})

Spoken(c) == SaidBy(room, c)
Sent(c) == FlattenSeq(lines[c])

(* The messages s are the text t up to its n-th token, read in chunks that end at
   cut[1], cut[2] ...: one message for each chunk, with all of the chunk that msg[]
   holds behind the name. *)
Start(cut, i) == IF i = 1 THEN 0 ELSE cut[i - 1]
CutsInto(s, t, n, cut) ==
  /\ n = IF s = <<>> THEN 0 ELSE cut[Len(s)]
  /\ \A i \in 1 .. Len(s) :
       /\ cut[i] - Start(cut, i) \in 1 .. READ_MAX
       /\ s[i].body = Truncate(SubSeq(t, Start(cut, i) + 1, cut[i]),
                               MSG_MAX - NameLen(s[i].name) - 1)
Relays(s, t, n) == \E cut \in [1 .. Len(s) -> 1 .. n] : CutsInto(s, t, n, cut)

(* However the stream of a connection is cut into reads, there is a point in it up to
   which all was relayed and behind which all is unread: nothing is lost, repeated
   or reordered between read() and write(), but for the tail of a chunk that is too
   long for msg[], which snprintf() cuts off. *)
StreamFidelity ==
  \A c \in Conns : \E n \in 0 .. Len(Sent(c)) :
    up[c] = SubSeq(Sent(c), n + 1, Len(Sent(c))) /\ Relays(Spoken(c), Sent(c), n)

(* A connection is dropped only after everything its peer sent before closing was
   relayed, chunk by chunk, although end-of-file and unread text arrive in any order
   with the other connections' traffic. *)
RelayedBeforeFreed ==
  [][\A f \in Registered : clients'[f] = NULL =>
       Relays(Spoken(sock[f]), Sent(sock[f]), Len(Sent(sock[f])))]_vars

-----------------------------------------------------------------------------
(* Lines.  These hold for peers that wait until a line was read before they
   send the next, on a network that does not cut a line. *)

IsText(line) == line[1] \notin SlashWords
IsNaming(line) == Len(line) > 2 /\ line[1] = "/name" /\ line[2] = " "
NameGiven(line) == Subsequence(line, {i \in 3 .. Len(line) : line[i] \notin Eol})

EndsInEol(line) ==
  \E n \in 0 .. Len(line) - 1 : \A i \in 1 .. Len(line) : line[i] \in Eol <=> i > n
LineByLine ==
  /\ ~Segmented /\ ~Pipelined /\ ~Aborts
  /\ \A line \in Lines : EndsInEol(line) /\ Len(line) <= READ_MAX
LinesFit ==
  \A line \in Lines : IsText(line) =>
    /\ \A t \in Residues : Len(t) + Len(line) + 2 <= MSG_MAX
    /\ \A naming \in Lines :
         IsNaming(naming) => Len(NameGiven(naming)) + Len(line) + 1 <= MSG_MAX

(* The name after the first n lines of s: that of the last naming line. *)
NameAfter(s, n, default) ==
  LET namings == {i \in 1 .. n : IsNaming(s[i])}
  IN  IF namings = {} THEN default
      ELSE Chosen(NameGiven(s[CHOOSE i \in namings : \A m \in namings : m <= i]))

(* What the lines of a connection mean as messages, and which of them are due: the
   text lines among those the server has read. *)
Meant(c, default) ==
  [i \in 1 .. Len(lines[c]) |->
     [kind |-> "chat", src |-> c, name |-> NameAfter(lines[c], i, default),
      body |-> lines[c][i]]]
LinesRead(c) == IF up[c] = <<>> THEN Len(lines[c]) ELSE Len(lines[c]) - 1
TextsRead(c) == {i \in 1 .. LinesRead(c) : IsText(lines[c][i])}

(* The messages of a connection are the text lines its peer sent, in order and
   whole, each under the name the peer had chosen with the last "/name" before that
   line; what the others say, and commands that are refused, do not disturb it. *)
LineFidelity ==
  exit = "none" =>
    \A f \in Registered : \E default \in DefaultNames(f) :
      Spoken(sock[f]) = Subsequence(Meant(sock[f], default), TextsRead(sock[f]))

(* Once everything a peer sent was read, the server knows it by the name of its
   last "/name" line, as the welcome message promises. *)
NameHonoured ==
  exit = "none" =>
    \A f \in Registered :
      LET c == sock[f]
      IN  up[c] = <<>> =>
            \E default \in DefaultNames(f) :
              clients[f].name = NameAfter(lines[c], Len(lines[c]), default)

-----------------------------------------------------------------------------
(* Progress. *)

(* A connection in the accept queue is eventually registered. *)
Served ==
  \A c \in Conns :
    peer[c] # "idle" ~> exit # "none" \/ peer[c] = "closed"
                          \/ \E f \in Registered : sock[f] = c

(* A peer that closed is eventually removed and its descriptor closed. *)
GoneRemoved ==
  \A c \in Conns :
    peer[c] = "closed" ~> exit # "none" \/ (/\ \A f \in Fds : sock[f] # c
                                            /\ \A i \in DOMAIN backlog : backlog[i] # c)
=============================================================================
