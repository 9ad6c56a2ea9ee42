------------------------- MODULE ChatHistoryProofs --------------------------
(***************************************************************************)
(* Proofs, for every value of the constants, about what the clients of the *)
(* smallchat server are told: the server implements the abstract room, all *)
(* members see the same conversation, and what a peer sends is relayed as  *)
(* it was sent, as a stream and as lines, under the name it had chosen.    *)
(***************************************************************************)
EXTENDS ChatTurns, ChatServerProofs, SequenceLemmas

-----------------------------------------------------------------------------
(* Lemmas about the operators on conversations. *)

(* What is written to an inbox is added to it if it is chat. *)
LEMMA ChatsAppend ==
  ASSUME NEW s \in Seq(Message), NEW m \in Message
  PROVE  Chats(Append(s, m)) =
           IF m.kind = "chat" THEN Append(Chats(s), m) ELSE Chats(s)
<1> DEFINE t == Append(s, m)
           N == Len(s)
           I == {i \in 1 .. N : s[i].kind = "chat"}
<1>1. /\ N \in Nat /\ Len(t) = N + 1 /\ t[N + 1] = m
      /\ \A i \in 1 .. N : t[i] = s[i]
  OBVIOUS
<1>2. I \in SUBSET (1 .. N)
  OBVIOUS
<1>3. {i \in 1 .. N + 1 : t[i].kind = "chat"} = IF m.kind = "chat" THEN I \cup {N + 1} ELSE I
  BY <1>1
<1>4. Chats(s) = Subsequence(s, I)
  BY DEF Chats
<1>5. Chats(t) = Subsequence(t, IF m.kind = "chat" THEN I \cup {N + 1} ELSE I)
  BY <1>1, <1>3 DEF Chats
<1>6. \A i \in I : t[i] = s[i]
  BY <1>1, <1>2
<1> HIDE DEF t, I, N
<1>7. Subsequence(t, I) = Subsequence(s, I)
  BY <1>1, <1>2, <1>6, SubsequenceSame
<1>8. Subsequence(t, I \cup {N + 1}) = Append(Subsequence(t, I), m)
  BY <1>1, <1>2, SubsequenceNext
<1>9. Chats(t) = IF m.kind = "chat" THEN Append(Chats(s), m) ELSE Chats(s)
  BY <1>4, <1>5, <1>7, <1>8
<1> QED
  BY <1>9 DEF t

(* An inbox is a sequence of messages; an empty one has no chat. *)
LEMMA ChatsType ==
  /\ \A s \in Seq(Message) : Chats(s) \in Seq(Message)
  /\ Chats(<<>>) = <<>>
<1>1. ASSUME NEW s \in Seq(Message) PROVE Chats(s) \in Seq(Message)
  <2> DEFINE I == {i \in 1 .. Len(s) : s[i].kind = "chat"}
  <2>1. I \in SUBSET (1 .. Len(s)) /\ Len(s) \in Nat /\ \A i \in I : s[i] \in Message
    OBVIOUS
  <2>2. Subsequence(s, I) \in Seq(Message)
    BY <2>1, SubsequenceType
  <2> QED
    BY <2>2 DEF Chats
<1>2. Chats(<<>>) = <<>>
  <2>1. {i \in 1 .. Len(<<>>) : <<>>[i].kind = "chat"} = {}
    OBVIOUS
  <2>2. Subsequence(<<>>, {}) = <<>>
    BY FS_EmptySet DEF Subsequence
  <2> QED
    BY <2>1, <2>2 DEF Chats
<1> QED
  BY <1>1, <1>2

(* What the others said does not change when the log grows ... *)
LEMMA OthersPast ==
  ASSUME NEW log \in Seq(Message), NEW m \in Message, NEW c,
         NEW from \in Nat \ {0}, NEW to \in 0 .. Len(log)
  PROVE  SaidByOthers(Append(log, m), c, from, to) = SaidByOthers(log, c, from, to)
<1> DEFINE t == Append(log, m)
           I == {i \in from .. to : log[i].src # c}
<1>1. \A i \in from .. to : i \in 1 .. Len(log) /\ t[i] = log[i]
  OBVIOUS
<1>2. I = {i \in from .. to : t[i].src # c}
  BY <1>1
<1>3. I \in SUBSET (1 .. Len(log)) /\ Len(log) \in Nat /\ \A i \in I : t[i] = log[i]
  BY <1>1
<1> HIDE DEF t, I
<1>4. Subsequence(t, I) = Subsequence(log, I)
  BY <1>3, SubsequenceSame
<1>5. SaidByOthers(t, c, from, to) = Subsequence(t, I)
  BY <1>2 DEF SaidByOthers
<1>6. SaidByOthers(log, c, from, to) = Subsequence(log, I)
  BY DEF SaidByOthers, I
<1> QED
  BY <1>4, <1>5, <1>6 DEF t

(* ... up to an older message, takes in the next message if another said it, ... *)
LEMMA OthersNext ==
  ASSUME NEW log \in Seq(Message), NEW c, NEW from \in Nat \ {0},
         NEW m \in Nat, NEW n \in 1 .. Len(log), n - m = 1, from <= n, log[n].src # c
  PROVE  SaidByOthers(log, c, from, n) = Append(SaidByOthers(log, c, from, m), log[n])
<1> DEFINE I == {i \in from .. m : log[i].src # c}
<1>1. I \in SUBSET (1 .. m) /\ n = m + 1
  OBVIOUS
<1>2. {i \in from .. n : log[i].src # c} = I \cup {n}
  OBVIOUS
<1>3. SaidByOthers(log, c, from, m) = Subsequence(log, I)
  BY DEF SaidByOthers
<1> HIDE DEF I
<1>4. Subsequence(log, I \cup {n}) = Append(Subsequence(log, I), log[n])
  BY <1>1, SubsequenceNext
<1> QED
  BY <1>2, <1>3, <1>4 DEF SaidByOthers

(* ... and passes over one's own. *)
LEMMA OthersOwn ==
  ASSUME NEW log \in Seq(Message), NEW c, NEW from \in Nat \ {0},
         NEW m \in Nat, NEW n \in 1 .. Len(log), n - m = 1, log[n].src = c
  PROVE  SaidByOthers(log, c, from, n) = SaidByOthers(log, c, from, m)
<1>1. {i \in from .. n : log[i].src # c} = {i \in from .. m : log[i].src # c}
  OBVIOUS
<1> QED
  BY <1>1 DEF SaidByOthers

(* Nobody has said anything yet to a client that has just joined. *)
LEMMA OthersNone ==
  ASSUME NEW log, NEW c, NEW n \in Nat
  PROVE  SaidByOthers(log, c, n + 1, n) = <<>>
<1>1. {i \in n + 1 .. n : log[i].src # c} = {}
  OBVIOUS
<1>2. Subsequence(log, {}) = <<>>
  BY FS_EmptySet DEF Subsequence
<1> QED
  BY <1>1, <1>2 DEF SaidByOthers

(* What the others said is a sequence of messages. *)
LEMMA OthersType ==
  ASSUME NEW log \in Seq(Message), NEW c,
         NEW from \in Nat \ {0}, NEW to \in 0 .. Len(log)
  PROVE  SaidByOthers(log, c, from, to) \in Seq(Message)
<1> DEFINE I == {i \in from .. to : log[i].src # c}
<1>1. I \in SUBSET (1 .. Len(log)) /\ Len(log) \in Nat /\ \A i \in I : log[i] \in Message
  OBVIOUS
<1> HIDE DEF I
<1>2. Subsequence(log, I) \in Seq(Message)
  BY <1>1, SubsequenceType
<1> QED
  BY <1>2 DEF SaidByOthers, I

(* A sequence is a prefix of itself, ... *)
LEMMA PrefixSelf ==
  ASSUME NEW s \in Seq(Message) PROVE IsPrefix(s, s)
BY DEF IsPrefix

(* ... and its prefixes stay prefixes when it grows. *)
LEMMA PrefixGrows ==
  ASSUME NEW s \in Seq(Message), NEW t \in Seq(Message), NEW e \in Message, IsPrefix(s, t)
  PROVE  IsPrefix(s, Append(t, e))
<1>1. SubSeq(Append(t, e), 1, Len(s)) = SubSeq(t, 1, Len(s))
  BY DEF IsPrefix
<1> QED
  BY <1>1 DEF IsPrefix

-----------------------------------------------------------------------------
(* Each step of the server is a step of the room, or none. *)

(* A step that no member hears of is none, or shuts the room down. *)
LEMMA UnheardStep ==
  ASSUME exit = "none", UNCHANGED <<Members, Gone, room, Inbox>>,
         exit' = "none" => UNCHANGED Owed
  PROVE  [Room!RoomNext]_(Room!roomVars)
<1>1. CASE exit' = "none"
  BY <1>1 DEF Room!roomVars
<1>2. CASE exit' # "none"
  <2>1. Owed' = {}
    BY <1>2 DEF Owed, At
  <2>2. Room!ShutDown
    BY <1>2, <2>1 DEF Room!ShutDown
  <2> QED
    BY <2>2 DEF Room!RoomNext
<1> QED
  BY <1>1, <1>2

(* What a write makes of the inboxes: a chat message goes to a live connection,
   nothing else is heard. *)
LEMMA WriteHeard ==
  ASSUME NetTypes, NEW c \in Conns, NEW m \in Message, Write(c, m)
  PROVE  /\ Gone' = Gone
         /\ \/ exit' = "sigpipe" /\ Inbox' = Inbox
            \/ exit' = exit /\ c \in Gone /\ Inbox' = Inbox
            \/ /\ exit' = exit /\ c \notin Gone
               /\ Inbox' = IF m.kind = "chat"
                           THEN [Inbox EXCEPT ![c] = Append(@, m)] ELSE Inbox
<1>1. Gone' = Gone
  BY WriteFacts DEF Gone
<1>2. CASE down' = down /\ (exit' = "sigpipe" \/ (exit' = exit /\ link[c] # "up"))
  <2>1. Inbox' = Inbox
    BY <1>2 DEF Inbox
  <2> QED
    BY <1>1, <1>2, <2>1 DEF Gone
<1>3. CASE link[c] = "up" /\ down' = [down EXCEPT ![c] = Append(@, m)] /\ exit' = exit
  <2>1. down \in [Conns -> Seq(Message)] /\ down[c] \in Seq(Message)
    BY DEF NetTypes
  <2>2. Chats(Append(down[c], m)) =
          IF m.kind = "chat" THEN Append(Chats(down[c]), m) ELSE Chats(down[c])
    BY <2>1, ChatsAppend
  <2>3. \A d \in Conns : down'[d] = IF d = c THEN Append(down[c], m) ELSE down[d]
    BY <1>3, <2>1
  <2>4. \A d \in Conns : Chats(down'[d]) =
          IF d = c /\ m.kind = "chat" THEN Append(Chats(down[d]), m) ELSE Chats(down[d])
    BY <2>2, <2>3
  <2>5. Inbox' = [d \in Conns |-> Chats(down'[d])]
    BY DEF Inbox
  <2>6. Inbox' = IF m.kind = "chat" THEN [Inbox EXCEPT ![c] = Append(@, m)] ELSE Inbox
    BY <2>4, <2>5 DEF Inbox
  <2> QED
    BY <1>1, <1>3, <2>6 DEF Gone
<1>4. \/ down' = down /\ (exit' = "sigpipe" \/ (exit' = exit /\ link[c] # "up"))
      \/ link[c] = "up" /\ down' = [down EXCEPT ![c] = Append(@, m)] /\ exit' = exit
  BY DEF Write
<1> QED
  BY <1>2, <1>3, <1>4

(* The room starts out empty. *)
LEMMA RoomStarts == Init => Room!RoomInit
<1> SUFFICES ASSUME Init PROVE Room!RoomInit
  OBVIOUS
<1>1. Registered = {}
  BY DEF Init, Registered
<1>2. Members = {} /\ Gone = {} /\ Owed = {} /\ room = <<>> /\ exit = "none"
  BY <1>1 DEF Init, Members, Gone, Owed, At
<1>3. Inbox = [c \in Conns |-> <<>>]
  BY ChatsType DEF Init, Inbox
<1> QED
  BY <1>2, <1>3 DEF Room!RoomInit

(* Members and inboxes depend on these variables only. *)
LEMMA RoomFrame ==
  /\ UNCHANGED <<clients, sock>> => UNCHANGED <<Registered, Members>>
  /\ UNCHANGED link => UNCHANGED Gone
  /\ UNCHANGED down => UNCHANGED Inbox
BY DEF Registered, Members, Gone, Inbox

(* Start-up, select(), a failing accept() and the ends of the loops are not heard. *)
LEMMA LoopUnheard ==
  ASSUME InitChat \/ Select \/ AcceptFails \/ ScanDone \/ BroadcastDone
  PROVE  [Room!RoomNext]_(Room!roomVars)
<1>1. exit = "none" /\ UNCHANGED <<clients, sock, link, down, room>>
  BY DEF InitChat, Select, AcceptFails, ScanDone, BroadcastDone, At, table, net, history
<1>2. UNCHANGED <<Members, Gone, Inbox>>
  BY <1>1, RoomFrame
<1>3. Owed = {}
  <2>1. CASE BroadcastDone
    BY <2>1 DEF BroadcastDone, Owed
  <2>2. CASE InitChat \/ Select \/ AcceptFails \/ ScanDone
    BY <2>2 DEF InitChat, Select, AcceptFails, ScanDone, Owed, At
  <2> QED
    BY <2>1, <2>2
<1>4. exit' = "none" => Owed' = {}
  <2>1. exit' = "none" => pc' # "broadcast"
    BY DEF InitChat, Select, AcceptFails, ScanDone, BroadcastDone, At
  <2> QED
    BY <2>1 DEF Owed, At
<1> QED
  BY <1>1, <1>2, <1>3, <1>4, UnheardStep

(* acceptClient() and createClient() let one connection into the room, or end it. *)
LEMMA AcceptJoins == ASSUME IInv, Accept PROVE [Room!RoomNext]_(Room!roomVars)
<1> DEFINE c == Head(backlog)
<1>1. exit = "none" /\ pc = "accept" /\ backlog # <<>>
  BY DEF Accept, At, IInv, ReadyInv
<1>2. PICK f \in FreeFds :
        /\ sock' = [sock EXCEPT ![f] = c]
        /\ exit' \in CreateOutcome(f)
        /\ IF exit' = "none" THEN createClient(f) /\ pc' = "welcome"
                             ELSE UNCHANGED clients
  BY DEF Accept, acceptClient, table
<1>3. UNCHANGED <<down, link, room>>
  BY DEF Accept
<1>4. f \in Fds /\ sock[f] = NULL /\ f \notin Registered
  BY <1>1, <1>2 DEF FreeFds, IInv, TableInv, KernelAgrees
<1>5. c \in Conns /\ c = backlog[1] /\ 1 \in 1 .. Len(backlog)
  BY <1>1 DEF IInv, TypeOK, NetTypes
<1>6. /\ sock \in [Fds -> Conns \cup {NULL}]
      /\ \A g \in Fds : sock'[g] = IF g = f THEN c ELSE sock[g]
  BY <1>2, <1>4 DEF IInv, TypeOK, NetTypes
<1>7. \A g \in Fds : sock[g] # c
  BY <1>5 DEF IInv, QueueInv
<1> HIDE DEF c
<1>8. Gone' = Gone /\ Inbox' = Inbox
  BY <1>3, RoomFrame
<1>9. \A g \in Registered : g \in Fds /\ sock'[g] = sock[g] /\ sock[g] # c
  BY <1>4, <1>6, <1>7 DEF IInv, SlotInv
<1>10. CASE exit' = "none"
  <2>1. f \in Slots /\ clients[f] = NULL
    BY <1>2, <1>4, <1>10 DEF CreateOutcome, Registered, chatMalloc
  <2>2. Registered' = Registered \cup {f}
    BY <1>2, <1>10, <2>1, CreateAdds DEF IInv, TableInv
  <2>3. sock'[f] = c
    BY <1>4, <1>6
  <2>4. Members' = Members \cup {c}
    BY <1>9, <2>2, <2>3 DEF Members
  <2>5. c \notin Members
    BY <1>9 DEF Members
  <2>6. Owed = {} /\ Owed' = {}
    BY <1>1, <1>2, <1>10 DEF Owed, At
  <2>7. Room!Join(c)
    BY <1>1, <1>3, <1>8, <1>10, <2>4, <2>5, <2>6 DEF Room!Join
  <2> QED
    BY <1>5, <2>7 DEF Room!RoomNext
<1>11. CASE exit' # "none"
  <2>1. Registered' = Registered
    BY <1>2, <1>11 DEF Registered
  <2>2. Members' = Members
    BY <1>9, <2>1 DEF Members
  <2> QED
    BY <1>1, <1>3, <1>8, <1>11, <2>2, UnheardStep
<1> QED
  BY <1>10, <1>11

(* The welcome and the error messages are no part of the conversation. *)
LEMMA NoticeUnheard ==
  ASSUME IInv, Welcome \/ Reply PROVE [Room!RoomNext]_(Room!roomVars)
<1>1. /\ exit = "none" /\ pc # "broadcast" /\ pc' = "scan"
      /\ UNCHANGED <<clients, room>>
  BY DEF Welcome, Reply, At, table, history
<1>2. PICK c \in Conns, kind \in {"welcome", "unsupported"} : Write(c, Notice(kind))
  <2>1. CASE Welcome
    <3>1. fd \in Registered
      BY <2>1 DEF Welcome, At, IInv, PlaceInv
    <3>2. sock[fd] \in Conns
      BY <1>1, <3>1, RegisteredSock
    <3> QED
      BY <2>1, <3>2 DEF Welcome
  <2>2. CASE Reply
    <3>1. j \in Registered
      BY <2>2 DEF Reply, At, IInv, PlaceInv
    <3>2. sock[j] \in Conns
      BY <1>1, <3>1, RegisteredSock
    <3> QED
      BY <2>2, <3>2 DEF Reply
  <2> QED
    BY <2>1, <2>2
<1>3. Notice(kind) \in Message /\ Notice(kind).kind # "chat"
  BY NoticeType DEF Notice
<1>4. Gone' = Gone /\ Inbox' = Inbox
  BY <1>2, <1>3, WriteHeard DEF IInv, TypeOK
<1>5. UNCHANGED Members
  <2>1. sock' = sock
    BY <1>2, Zenon DEF Write
  <2> QED
    BY <1>1, <2>1, RoomFrame
<1>6. Owed = {} /\ Owed' = {}
  BY <1>1 DEF Owed, At
<1> QED
  BY <1>1, <1>4, <1>5, <1>6, UnheardStep

(* The clients a message has still to be sent to. *)
LEMMA RecipientsRegistered ==
  IInv => Recipients = {g \in Registered : g >= k /\ g # j}
<1> SUFFICES ASSUME IInv PROVE Recipients = {g \in Registered : g >= k /\ g # j}
  OBVIOUS
<1>0. TypeOK /\ SlotsMatch /\ MaxMatches /\ SlotInv
  BY DEF IInv, TableInv
<1>1. \A g \in Registered : g \in Slots /\ g <= maxclient /\ clients[g].fd = g
  BY <1>0 DEF MaxMatches, SlotsMatch, Registered
<1>2. maxclient \in {-1} \cup Slots /\ k \in Nat
  BY <1>0, ServerAssumption DEF TypeOK, ServerTypes
<1>3. ASSUME NEW g \in k .. maxclient, clients[g] # NULL PROVE g \in Registered
  BY <1>2, <1>3, ServerAssumption DEF Registered, Slots
<1>4. \A g \in Registered : g >= k => g \in k .. maxclient
  BY <1>1, <1>2 DEF Slots
<1>5. \A g \in Registered : clients[g] # NULL
  BY DEF Registered
<1> QED
  BY <1>1, <1>2, <1>3, <1>4, <1>5 DEF Recipients

(* Each connection sits in one slot. *)
LEMMA OneSlotEach ==
  ASSUME IInv, exit = "none", NEW f \in Registered, NEW g \in Registered, sock[f] = sock[g]
  PROVE  f = g
<1>1. f \in Fds /\ g \in Fds /\ sock[f] \in Conns
  BY RegisteredSock
<1> QED
  BY <1>1, ServerAssumption DEF IInv, TableInv, OneFdEach

(* A client is renamed, is refused a command, or says something to all the others. *)
LEMMA ReadSpeaks == ASSUME IInv, IInv', ReadText PROVE [Room!RoomNext]_(Room!roomVars)
<1>1. exit = "none" /\ pc = "scan" /\ UNCHANGED <<numclients, maxclient, sock, down, link>>
  BY DEF ReadText, At
<1>2. PICK f \in ScanSet : \E n \in ReadSizes(sock[f]) :
        LET chunk == SubSeq(up[sock[f]], 1, n)
        IN  Rename(f, chunk) \/ Unsupported(f, chunk) \/ Say(f, chunk)
  BY DEF ReadText
<1>3. PICK n \in ReadSizes(sock[f]) :
        LET chunk == SubSeq(up[sock[f]], 1, n)
        IN  Rename(f, chunk) \/ Unsupported(f, chunk) \/ Say(f, chunk)
  BY <1>2
<1> DEFINE chunk == SubSeq(up[sock[f]], 1, n)
<1>4. f \in Registered
  BY <1>1, ScanSetRegistered
<1>5. sock[f] \in Conns /\ f \in Slots
  BY <1>1, <1>4, RegisteredSock
<1>6. Gone' = Gone /\ Inbox' = Inbox
  BY <1>1, RoomFrame
<1>7. Owed = {}
  BY <1>1 DEF Owed, At
<1>12. chunk \in Seq(Tokens)
  <2>1. up[sock[f]] \in Seq(Tokens) /\ n \in 1 .. Len(up[sock[f]])
    BY <1>5 DEF IInv, TypeOK, NetTypes, ReadSizes
  <2> QED
    BY <2>1
<1> HIDE DEF chunk
<1>8. CASE Rename(f, chunk)
  <2>1. /\ UNCHANGED <<pc, room>>
        /\ clients' = [clients EXCEPT ![f].name = Chosen(NameArg(chunk))]
    BY <1>8 DEF Rename
  <2>2. clients' \in [Slots -> Client \cup {NULL}] /\ clients \in [Slots -> Client \cup {NULL}]
    BY DEF IInv, TypeOK, ServerTypes
  <2>3. \A g \in Slots : g # f => clients'[g] = clients[g]
    BY <2>1, <2>2
  <2>4. clients'[f] = [clients[f] EXCEPT !.name = Chosen(NameArg(chunk))]
    BY <2>1, <2>2, <1>5
  <2>5. clients[f] \in Client
    BY <1>4, <2>2 DEF Registered
  <2>6. clients'[f] # NULL
    <3>1. NULL \notin Client
      BY ServerAssumption DEF Client, Name
    <3>2. Chosen(NameArg(chunk)) \in Name
      BY <1>12, NameArgType DEF Chosen, Name
    <3>3. clients'[f] \in Client
      BY <2>4, <2>5, <3>2 DEF Client
    <3> QED
      BY <3>1, <3>3
  <2>7. Registered' = Registered
    BY <1>4, <2>3, <2>6 DEF Registered
  <2>8. Members' = Members
    BY <1>1, <2>7 DEF Members
  <2>9. Owed' = {}
    BY <1>1, <2>1 DEF Owed, At
  <2> QED
    BY <1>1, <1>6, <1>7, <2>1, <2>8, <2>9, UnheardStep
<1>9. CASE Unsupported(f, chunk)
  <2>1. pc' = "reply" /\ UNCHANGED <<clients, room>>
    BY <1>9 DEF Unsupported
  <2>2. Members' = Members /\ Owed' = {}
    BY <1>1, <2>1, RoomFrame DEF Owed, At
  <2> QED
    BY <1>1, <1>6, <1>7, <2>1, <2>2, UnheardStep
<1>10. CASE Say(f, chunk)
  <2>1. /\ msg' = ChatMessage(sock[f], clients[f].name, chunk)
        /\ room' = Append(room, msg')
        /\ pc' = "broadcast" /\ j' = f /\ k' = 0 /\ UNCHANGED <<exit, clients>>
    BY <1>10 DEF Say
  <2>2. msg' \in Message /\ msg'.kind = "chat" /\ msg'.src = sock[f]
    <3>1. msg' \in Message
      BY <1>1, <2>1 DEF IInv, PlaceInv
    <3> QED
      BY <2>1, <3>1 DEF ChatMessage
  <2>3. /\ room \in Seq(Message) /\ Len(room') = Len(room) + 1 /\ room'[Len(room')] = msg'
    <3>1. room \in Seq(Message)
      BY DEF IInv, TypeOK, HistoryTypes
    <3> QED
      BY <2>1, <2>2, <3>1
  <2>4. Registered' = Registered /\ Members' = Members
    BY <1>1, <2>1, RoomFrame
  <2>5. Recipients' = {g \in Registered' : g >= k' /\ g # j'}
    <3>1. (IInv => Recipients = {g \in Registered : g >= k /\ g # j})'
      BY RecipientsRegistered, PTL
    <3> QED
      BY <3>1
  <2>6. Recipients' = Registered \ {f}
    <3>1. \A g \in Registered : g >= 0
      BY RegisteredFinite DEF Slots
    <3> QED
      BY <2>1, <2>4, <2>5, <3>1
  <2>7. Owed' = {sock[g] : g \in Registered \ {f}}
    BY <1>1, <2>1, <2>6 DEF Owed, At
  <2>8. Owed' = Members \ {sock[f]}
    <3>1. \A g \in Registered : sock[g] = sock[f] => g = f
      BY <1>1, <1>4, OneSlotEach
    <3> QED
      BY <1>4, <2>7, <3>1 DEF Members
  <2>9. Room!Said = msg'
    BY <2>3 DEF Room!Said
  <2>10. sock[f] \in Members
    BY <1>4 DEF Members
  <2>11. Room!Speak(sock[f])
    BY <1>1, <1>6, <1>7, <2>1, <2>2, <2>3, <2>4, <2>8, <2>9, <2>10 DEF Room!Speak
  <2> QED
    BY <1>5, <2>11 DEF Room!RoomNext
<1> QED
  BY <1>3, <1>8, <1>9, <1>10 DEF chunk

(* freeClient() takes out of the room one member that is gone. *)
LEMMA DisconnectLeaves == ASSUME IInv, Disconnect PROVE [Room!RoomNext]_(Room!roomVars)
<1>1. /\ exit = "none" /\ pc = "scan" /\ UNCHANGED <<pc, exit, link, room>>
  BY DEF Disconnect, At, history
<1>2. PICK f \in ScanSet :
        /\ AtEof(sock[f]) /\ freeClient(f)
        /\ down' = [down EXCEPT ![sock[f]] = <<>>]
  BY DEF Disconnect
<1>3. f \in Registered
  BY <1>1, ScanSetRegistered
<1>4. sock[f] \in Conns /\ f \in Fds
  BY <1>1, <1>3, RegisteredSock
<1>5. Registered' = Registered \ {f}
  BY <1>2, <1>3, FreeRemoves DEF IInv, TableInv
<1>6. sock' = [sock EXCEPT ![f] = NULL] /\ sock \in [Fds -> Conns \cup {NULL}]
  BY <1>2 DEF freeClient, IInv, TypeOK, NetTypes
<1>7. \A g \in Registered' : g \in Registered /\ sock'[g] = sock[g] /\ sock[g] # sock[f]
  <2> TAKE g \in Registered'
  <2>1. g \in Registered /\ g # f
    BY <1>5
  <2>2. g \in Fds /\ sock[g] # sock[f]
    BY <1>1, <1>3, <2>1, RegisteredSock, OneSlotEach
  <2> QED
    BY <1>6, <2>1, <2>2
<1>8. Members' = Members \ {sock[f]}
  BY <1>3, <1>5, <1>7 DEF Members
<1>9. Inbox' = [Inbox EXCEPT ![sock[f]] = <<>>]
  <2>1. down \in [Conns -> Seq(Message)]
    BY DEF IInv, TypeOK, NetTypes
  <2>2. \A c \in Conns : Chats(down'[c]) = IF c = sock[f] THEN <<>> ELSE Chats(down[c])
    BY <1>2, <1>4, <2>1, ChatsType
  <2>3. Inbox' = [c \in Conns |-> Chats(down'[c])]
    BY DEF Inbox
  <2> QED
    BY <2>2, <2>3 DEF Inbox
<1>10. sock[f] \in Members /\ sock[f] \in Gone
  BY <1>2, <1>3, <1>4 DEF Members, Gone, AtEof
<1>11. Gone' = Gone /\ Owed = {} /\ Owed' = {}
  BY <1>1, RoomFrame DEF Owed, At
<1>12. Room!Leave(sock[f])
  BY <1>1, <1>8, <1>9, <1>10, <1>11 DEF Room!Leave
<1> QED
  BY <1>4, <1>12 DEF Room!RoomNext

(* One write of sendMsgToAllClientsBut() hands the last message to one member, or
   finds it gone, or ends the process. *)
LEMMA BroadcastDelivers ==
  ASSUME IInv, AgreementInv, BroadcastWrite PROVE [Room!RoomNext]_(Room!roomVars)
<1>1. /\ exit = "none" /\ pc = "broadcast" /\ UNCHANGED <<pc, table, j, room>>
  BY DEF BroadcastWrite, At, history
<1>2. PICK f \in Recipients :
        IsLowest(f, Recipients) /\ Write(sock[f], msg) /\ k' = f + 1
  BY DEF BroadcastWrite
<1>3. f \in Registered /\ \A g \in Registered : g >= k /\ g # j => f <= g
  BY <1>2, RecipientsRegistered DEF IsLowest
<1>4. sock[f] \in Conns /\ f \in Slots
  BY <1>1, <1>3, RegisteredSock
<1>5. msg \in Message /\ msg = room[Len(room)] /\ msg.kind = "chat"
  BY <1>1 DEF AgreementInv, IInv, PlaceInv
<1>6. sock' = sock
  BY <1>2, Zenon DEF Write
<1>7. Registered' = Registered /\ Members' = Members
  BY <1>1, <1>6, RoomFrame DEF table
<1>8. /\ Gone' = Gone
      /\ \/ exit' = "sigpipe" /\ Inbox' = Inbox
         \/ exit' = exit /\ sock[f] \in Gone /\ Inbox' = Inbox
         \/ /\ exit' = exit /\ sock[f] \notin Gone
            /\ Inbox' = [Inbox EXCEPT ![sock[f]] = Append(@, msg)]
  BY <1>2, <1>4, <1>5, WriteHeard DEF IInv, TypeOK
<1>9. CASE exit' = "sigpipe"
  <2>1. Inbox' = Inbox
    BY <1>1, <1>8, <1>9
  <2> QED
    BY <1>1, <1>7, <1>8, <1>9, <2>1, UnheardStep
<1>10. CASE exit' = exit
  <2>1. Recipients' = {g \in k' .. maxclient : clients[g] # NULL /\ clients[g].fd # j}
    BY <1>1 DEF Recipients, table
  <2>2. Recipients' = Recipients \ {f}
    <3>1. k \in Nat /\ f \in Nat /\ f >= k /\ maxclient \in Int
      BY <1>2, <1>4, ServerAssumption DEF Recipients, IInv, TypeOK, ServerTypes, Slots
    <3>2. \A g \in k .. maxclient : clients[g] # NULL /\ clients[g].fd # j => f <= g
      BY <1>2 DEF IsLowest, Recipients
    <3> QED
      BY <1>2, <2>1, <3>1, <3>2 DEF Recipients
  <2>3. Owed = {sock[g] : g \in Recipients} /\ Owed' = {sock[g] : g \in Recipients \ {f}}
    BY <1>1, <1>6, <1>10, <2>2 DEF Owed, At
  <2>4. \A g \in Recipients : sock[g] = sock[f] => g = f
    BY <1>1, <1>3, RecipientsRegistered, OneSlotEach
  <2>5. sock[f] \in Owed /\ Owed' = Owed \ {sock[f]}
    BY <1>2, <2>3, <2>4
  <2>6. CASE sock[f] \in Gone
    <3>1. Inbox' = Inbox
      BY <1>1, <1>8, <1>10, <2>6
    <3>2. Room!Miss(sock[f])
      BY <1>1, <1>7, <1>8, <1>10, <2>5, <2>6, <3>1 DEF Room!Miss
    <3> QED
      BY <1>4, <3>2 DEF Room!RoomNext
  <2>7. CASE sock[f] \notin Gone
    <3>1. Inbox' = [Inbox EXCEPT ![sock[f]] = Append(@, room[Len(room)])]
      BY <1>1, <1>5, <1>8, <1>10, <2>7
    <3>2. Room!Deliver(sock[f])
      BY <1>1, <1>7, <1>8, <1>10, <2>5, <2>7, <3>1 DEF Room!Deliver
    <3> QED
      BY <1>4, <3>2 DEF Room!RoomNext
  <2> QED
    BY <2>6, <2>7
<1> QED
  BY <1>8, <1>9, <1>10

(* A peer may hang up; nothing else it does is heard before the server reads it. *)
LEMMA PeerHangsUp ==
  ASSUME IInv, NEW c \in Conns,
         \/ PeerConnect(c) \/ PeerRead(c) \/ PeerClose(c) \/ PeerAbort(c)
         \/ \E line \in Lines : PeerSend(c, line)
  PROVE  [Room!RoomNext]_(Room!roomVars)
<1>1. /\ exit = "none"
      /\ UNCHANGED <<pc, exit, clients, maxclient, j, k, sock, down, room>>
      /\ link' = link \/ \E l \in {"fin", "rst"} : link' = [link EXCEPT ![c] = l]
  BY DEF PeerConnect, PeerRead, PeerClose, PeerAbort, PeerSend, server, history
<1>2. UNCHANGED <<Members, Inbox>>
  BY <1>1, RoomFrame
<1>3. UNCHANGED Owed
  <2>1. Recipients' = Recipients
    BY <1>1 DEF Recipients
  <2> QED
    BY <1>1, <2>1 DEF Owed, At
<1>4. Gone' = Gone \/ Gone' = Gone \cup {c}
  BY <1>1 DEF IInv, TypeOK, NetTypes, Gone
<1>5. CASE Gone' = Gone
  BY <1>1, <1>2, <1>3, <1>5, UnheardStep
<1>6. CASE c \notin Gone /\ Gone' = Gone \cup {c}
  <2>1. Room!HangUp(c)
    BY <1>1, <1>2, <1>3, <1>6 DEF Room!HangUp
  <2> QED
    BY <2>1 DEF Room!RoomNext
<1> QED
  BY <1>4, <1>5, <1>6

(* Every step is a step of the room, or none that it knows of. *)
LEMMA RoomStep ==
  IInv /\ IInv' /\ AgreementInv /\ [Next]_vars => [Room!RoomNext]_(Room!roomVars)
<1> SUFFICES ASSUME IInv, IInv', AgreementInv, [Next]_vars
             PROVE  [Room!RoomNext]_(Room!roomVars)
  OBVIOUS
<1>1. CASE Server
  BY <1>1, LoopUnheard, AcceptJoins, NoticeUnheard, ReadSpeaks, DisconnectLeaves,
     BroadcastDelivers
  DEF Server
<1>2. CASE Peers
  BY <1>2, PeerHangsUp DEF Peers
<1>3. CASE UNCHANGED vars
  <2>1. UNCHANGED <<pc, exit, clients, maxclient, j, k, sock, link, down, room>>
    BY <1>3 DEF vars, server, net, history
  <2>2. UNCHANGED <<Members, Gone, Inbox, Recipients>>
    BY <2>1, RoomFrame DEF Recipients
  <2>3. UNCHANGED Owed
    BY <2>1, <2>2 DEF Owed, At
  <2> QED
    BY <2>1, <2>2, <2>3 DEF Room!roomVars
<1> QED
  BY <1>1, <1>2, <1>3 DEF Next, Exited

-----------------------------------------------------------------------------
(* All members see the same conversation. *)

(* Nobody is in the room, and nothing was said. *)
LEMMA InitAgreement == Init => AgreementInv
<1> SUFFICES ASSUME Init PROVE AgreementInv
  OBVIOUS
<1>1. Room!RoomInit /\ pc # "broadcast"
  BY RoomStarts DEF Init
<1> QED
  BY <1>1 DEF Room!RoomInit, AgreementInv, RoomAgreement

(* The message being sent stays the last of the conversation. *)
LEMMA LastSaidStep ==
  ASSUME IInv, IInv', AgreementInv, [Next]_vars, exit' = "none", pc' = "broadcast"
  PROVE  /\ room' # <<>> /\ msg' = room'[Len(room')]
         /\ msg'.kind = "chat" /\ msg'.src = sock'[j']
<1>1. CASE ReadText
  <2>1. PICK f, chunk : Rename(f, chunk) \/ Unsupported(f, chunk) \/ Say(f, chunk)
    BY <1>1 DEF ReadText
  <2>2. Say(f, chunk)
    BY <1>1, <2>1 DEF ReadText, At, Rename, Unsupported
  <2>3. /\ msg' = ChatMessage(sock[f], clients[f].name, chunk)
        /\ room' = Append(room, msg') /\ j' = f
    BY <2>2 DEF Say
  <2>4. room \in Seq(Message) /\ msg' \in Message
    BY DEF IInv, TypeOK, HistoryTypes, PlaceInv
  <2>5. room' # <<>> /\ room'[Len(room')] = msg'
    BY <2>3, <2>4
  <2>6. sock' = sock
    BY <1>1 DEF ReadText
  <2> QED
    BY <2>3, <2>5, <2>6 DEF ChatMessage
<1>2. CASE pc = "broadcast" /\ exit = "none" /\ UNCHANGED <<msg, room, sock, j>>
  BY <1>2 DEF AgreementInv
<1>3. CASE BroadcastWrite
  <2>1. exit = "none" /\ pc = "broadcast" /\ UNCHANGED <<msg, room, j>>
    BY <1>3 DEF BroadcastWrite, At, history
  <2>2. sock' = sock
    BY <1>3, Zenon DEF BroadcastWrite, Write
  <2> QED
    BY <1>2, <2>1, <2>2
<1>4. CASE Peers \/ Exited \/ UNCHANGED vars
  <2>1. UNCHANGED <<pc, exit, msg, room, sock, j>>
    BY <1>4 DEF Peers, PeerConnect, PeerRead, PeerClose, PeerAbort, PeerSend, Exited,
                server, history, vars, net
  <2> QED
    BY <1>2, <2>1
<1>5. CASE InitChat \/ Select \/ Accept \/ AcceptFails \/ Welcome \/ Disconnect \/ Reply
            \/ BroadcastDone \/ ScanDone
  BY <1>5 DEF InitChat, Select, Accept, AcceptFails, Welcome, Disconnect, Reply,
              BroadcastDone, ScanDone, At
<1> QED
  BY <1>1, <1>3, <1>4, <1>5 DEF Next, Server

(* Whoever is a member keeps the mark at which it joined; a new member's is the end
   of the conversation. *)
LEMMA JoinedStep ==
  ASSUME IInv, IInv', [Next]_vars, exit' = "none"
  PROVE  /\ exit = "none"
         /\ \A c \in Members : joined'[c] = joined[c]
         /\ \A c \in Members' \ Members : joined'[c] = Len(room)
<1>1. CASE Accept
  <2> DEFINE c == Head(backlog)
  <2>1. exit = "none" /\ backlog # <<>>
    BY <1>1 DEF Accept, At, IInv, ReadyInv
  <2>2. PICK f \in FreeFds :
          /\ sock' = [sock EXCEPT ![f] = c] /\ exit' \in CreateOutcome(f) /\ createClient(f)
          /\ joined' = [joined EXCEPT ![c] = Len(room)]
    BY <1>1 DEF Accept, acceptClient
  <2>3. c \in Conns /\ c = backlog[1] /\ 1 \in 1 .. Len(backlog)
    BY <2>1 DEF IInv, TypeOK, NetTypes
  <2>4. \A g \in Fds : sock[g] # c
    BY <2>3 DEF IInv, QueueInv
  <2>5. joined \in [Conns -> Nat] /\ f \in Fds /\ f \notin Registered
    BY <2>1, <2>2 DEF IInv, TypeOK, HistoryTypes, FreeFds, TableInv, KernelAgrees
  <2> HIDE DEF c
  <2>6. \A g \in Registered : g \in Fds /\ sock[g] \in Conns /\ sock[g] # c /\ sock'[g] = sock[g]
    <3> TAKE g \in Registered
    <3>1. g \in Fds /\ sock[g] \in Conns /\ g # f
      BY <2>1, <2>5, RegisteredSock
    <3>2. sock \in [Fds -> Conns \cup {NULL}]
      BY DEF IInv, TypeOK, NetTypes
    <3> QED
      BY <2>2, <2>4, <3>1, <3>2
  <2>7. f \in Slots /\ clients[f] = NULL
    BY <2>2, <2>5 DEF CreateOutcome, Registered, chatMalloc
  <2>8. Registered' = Registered \cup {f}
    BY <2>2, <2>7, CreateAdds DEF IInv, TableInv
  <2>9. sock'[f] = c
    BY <2>2, <2>5 DEF IInv, TypeOK, NetTypes
  <2>10. \A d \in Members' : d \in Members \/ d = c
    BY <2>6, <2>8, <2>9 DEF Members
  <2>11. \A d \in Members : d \in Conns /\ d # c
    BY <2>6 DEF Members
  <2> QED
    BY <2>1, <2>2, <2>3, <2>5, <2>10, <2>11
<1>2. CASE ~Accept
  <2>1. joined' = joined
    <3>1. CASE Server
      BY <1>2, <3>1 DEF Server, InitChat, Select, AcceptFails, Welcome, ReadText, Disconnect,
                 Reply, BroadcastWrite, BroadcastDone, ScanDone, history
    <3>2. CASE Peers
      BY <3>2 DEF Peers, PeerConnect, PeerRead, PeerClose, PeerAbort, PeerSend, history
    <3>3. CASE UNCHANGED vars
      BY <3>3 DEF vars, history
    <3> QED
      BY <3>1, <3>2, <3>3 DEF Next, Exited
  <2>2. exit = "none" /\ Members' \subseteq Members
    <3>1. CASE Disconnect
      <4>1. exit = "none" /\ pc = "scan"
        BY <3>1 DEF Disconnect, At
      <4>2. PICK f \in ScanSet : freeClient(f)
        BY <3>1 DEF Disconnect
      <4>3. f \in Registered
        BY <4>1, ScanSetRegistered
      <4>4. Registered' = Registered \ {f} /\ sock' = [sock EXCEPT ![f] = NULL]
        BY <4>2, <4>3, FreeRemoves DEF IInv, TableInv, freeClient
      <4>5. \A g \in Registered' : g \in Registered /\ sock'[g] = sock[g]
        BY <4>4 DEF IInv, TypeOK, NetTypes, SlotInv
      <4> QED
        BY <4>1, <4>5 DEF Members
    <3>2. CASE ReadText
      <4>1. exit = "none" /\ pc = "scan" /\ sock' = sock
        BY <3>2 DEF ReadText, At
      <4>2. PICK f \in ScanSet : \E chunk : Rename(f, chunk) \/ Unsupported(f, chunk) \/ Say(f, chunk)
        BY <3>2 DEF ReadText
      <4>3. f \in Registered /\ clients \in [Slots -> Client \cup {NULL}]
        BY <4>1, ScanSetRegistered DEF IInv, TypeOK, ServerTypes
      <4>4. clients' = clients \/ \E arg : clients' = [clients EXCEPT ![f].name = arg]
        BY <4>2 DEF Rename, Unsupported, Say
      <4>5. Registered' \subseteq Registered
        BY <4>3, <4>4 DEF Registered
      <4> QED
        BY <4>1, <4>5 DEF Members
    <3>3. CASE ~Disconnect /\ ~ReadText
      <4>1. CASE Welcome \/ Reply \/ BroadcastWrite
        <5>1. sock' = sock
          BY <4>1, Zenon DEF Welcome, Reply, BroadcastWrite, Write
        <5> QED
          BY <4>1, <5>1, RoomFrame DEF Welcome, Reply, BroadcastWrite, At, table
      <4>2. CASE InitChat \/ Select \/ AcceptFails \/ BroadcastDone \/ ScanDone
        BY <4>2, RoomFrame
        DEF InitChat, Select, AcceptFails, BroadcastDone, ScanDone, At, table, net
      <4>3. CASE Peers
        BY <4>3, RoomFrame
        DEF Peers, PeerConnect, PeerRead, PeerClose, PeerAbort, PeerSend, server
      <4>4. CASE Exited \/ UNCHANGED vars
        BY <4>4, RoomFrame DEF Exited, vars, server, net
      <4> QED
        BY <1>2, <3>3, <4>1, <4>2, <4>3, <4>4 DEF Next, Server
    <3> QED
      BY <3>1, <3>2, <3>3
  <2> QED
    BY <2>1, <2>2
<1> QED
  BY <1>1, <1>2

(* The strengthened agreement is preserved by every step of the room. *)
LEMMA AgreementStep ==
  IInv /\ IInv' /\ AgreementInv /\ [Next]_vars => AgreementInv'
<1> SUFFICES ASSUME IInv, IInv', AgreementInv, [Next]_vars, exit' = "none"
             PROVE  AgreementInv'
  BY DEF AgreementInv, RoomAgreement
<1>1. [Room!RoomNext]_(Room!roomVars)
  BY RoomStep
<1>2. /\ exit = "none"
      /\ \A c \in Members : joined'[c] = joined[c]
      /\ \A c \in Members' \ Members : joined'[c] = Len(room)
  BY JoinedStep
<1>3. pc' = "broadcast" =>
        /\ room' # <<>> /\ msg' = room'[Len(room')]
        /\ msg'.kind = "chat" /\ msg'.src = sock'[j']
  BY LastSaidStep
<1>4. /\ room \in Seq(Message) /\ joined \in [Conns -> Nat]
      /\ room' \in Seq(Message) /\ Members \subseteq Conns
      /\ \A c \in Conns : Inbox[c] \in Seq(Message)
  <2>1. \A f \in Registered : sock[f] \in Conns
    BY <1>2, RegisteredSock
  <2>2. \A c \in Conns : Inbox[c] \in Seq(Message)
    BY ChatsType DEF Inbox, IInv, TypeOK, NetTypes
  <2> QED
    BY <2>1, <2>2 DEF IInv, TypeOK, HistoryTypes, Members
<1>5. /\ \A c \in Members :
            IF c \in Gone THEN IsPrefix(Inbox[c], Heard(c)) ELSE Inbox[c] = Heard(c)
      /\ \A c \in Conns \ Members : Inbox[c] = <<>>
      /\ \A c \in Members : joined[c] <= Len(room)
      /\ \A c \in Owed : joined[c] < Len(room) /\ room[Len(room)].src # c
  BY <1>2 DEF AgreementInv, RoomAgreement
<1>6. Owed \subseteq Members
  BY RecipientsRegistered DEF Owed, Members
(* what is left to show *)
<1> DEFINE Agree ==
      /\ \A c \in Members' :
           IF c \in Gone' THEN IsPrefix(Inbox'[c], Heard(c)') ELSE Inbox'[c] = Heard(c)'
      /\ \A c \in Conns \ Members' : Inbox'[c] = <<>>
      /\ \A c \in Members' : joined'[c] <= Len(room')
      /\ \A c \in Owed' : joined'[c] < Len(room') /\ room'[Len(room')].src # c
<1> SUFFICES Agree
  BY <1>3 DEF AgreementInv, RoomAgreement
<1>7. \A c \in Members : Heard(c) \in Seq(Message)
  <2> TAKE c \in Members
  <2>1. joined[c] + 1 \in Nat \ {0} /\ Len(room) \in 0 .. Len(room)
    BY <1>4
  <2>2. c \in Owed => Len(room) - 1 \in 0 .. Len(room)
    BY <1>4, <1>5, <1>6
  <2> QED
    BY <1>4, <2>1, <2>2, OthersType DEF Heard
<1>8. ASSUME NEW c, room' = room, joined'[c] = joined[c], c \in Owed' <=> c \in Owed
      PROVE  Heard(c)' = Heard(c)
  BY <1>8 DEF Heard
(* nobody comes or is spoken to *)
<1>9. CASE UNCHANGED <<Members, room, Owed, Inbox>> /\ Gone \subseteq Gone'
  <2>1. \A c \in Members : Heard(c)' = Heard(c)
    BY <1>2, <1>8, <1>9
  <2>2. \A c \in Members : IsPrefix(Heard(c), Heard(c))
    BY <1>7, PrefixSelf
  <2>3. \A c \in Members :
          IF c \in Gone' THEN IsPrefix(Inbox[c], Heard(c)) ELSE Inbox[c] = Heard(c)
    BY <1>5, <1>9, <2>2
  <2> QED
    BY <1>2, <1>5, <1>6, <1>9, <2>1, <2>3
(* one more has joined and has been told nothing *)
<1>10. ASSUME NEW p \in Conns, Room!Join(p)
       PROVE  Agree
  <2>1. /\ p \notin Members /\ Members' = Members \cup {p}
        /\ UNCHANGED <<Gone, room, Inbox>> /\ Owed = {} /\ Owed' = {}
    BY <1>10 DEF Room!Join
  <2>2. \A c \in Members : Heard(c)' = Heard(c)
    BY <1>2, <1>8, <2>1
  <2>3. joined'[p] = Len(room) /\ Inbox[p] = <<>> /\ Len(room) \in Nat
    BY <1>2, <1>4, <1>5, <2>1
  <2>4. Heard(p)' = <<>>
    BY <2>1, <2>3, OthersNone DEF Heard
  <2>5. IsPrefix(<<>>, <<>>)
    BY DEF IsPrefix
  <2> QED
    BY <1>2, <1>3, <1>4, <1>5, <2>1, <2>2, <2>3, <2>4, <2>5
(* one has left, and its inbox is emptied *)
<1>11. ASSUME NEW p \in Conns, Room!Leave(p)
       PROVE  Agree
  <2>1. /\ Members' = Members \ {p} /\ Inbox' = [Inbox EXCEPT ![p] = <<>>]
        /\ UNCHANGED <<Gone, room, Owed>> /\ Owed = {}
    BY <1>11 DEF Room!Leave
  <2>2. \A c \in Members : Heard(c)' = Heard(c)
    BY <1>2, <1>8, <2>1
  <2>3. \A c \in Conns : Inbox'[c] = IF c = p THEN <<>> ELSE Inbox[c]
    BY <2>1 DEF Inbox
  <2> QED
    BY <1>2, <1>3, <1>4, <1>5, <2>1, <2>2, <2>3
(* one speaks: the others are owed what it said *)
<1>12. ASSUME NEW p \in Conns, Room!Speak(p)
       PROVE  Agree
  <2> DEFINE m == Room!Said
  <2>1. /\ Owed = {} /\ Owed' = Members \ {p} /\ p \in Members
        /\ m \in Message /\ m.src = p /\ room' = Append(room, m)
        /\ UNCHANGED <<Members, Gone, Inbox>>
    BY <1>12 DEF Room!Speak
  <2> HIDE DEF m
  <2>2. Len(room') = Len(room) + 1 /\ room'[Len(room')] = m /\ Len(room) \in Nat
    BY <1>4, <2>1
  <2>3. ASSUME NEW c \in Members PROVE Heard(c)' = Heard(c)
    <3>1. /\ joined'[c] = joined[c] /\ joined[c] + 1 \in Nat \ {0}
          /\ joined[c] <= Len(room) /\ Len(room) \in 0 .. Len(room)
      BY <1>2, <1>4, <1>5, <2>2
    <3>2. SaidByOthers(room', c, joined[c] + 1, Len(room))
            = SaidByOthers(room, c, joined[c] + 1, Len(room))
      BY <1>4, <2>1, <3>1, OthersPast
    <3>3. Heard(c) = SaidByOthers(room, c, joined[c] + 1, Len(room))
      BY <2>1 DEF Heard
    <3>4. CASE c # p
      <4>1. Heard(c)' = SaidByOthers(room', c, joined[c] + 1, Len(room') - 1)
        BY <2>1, <3>1, <3>4 DEF Heard
      <4> QED
        BY <2>2, <3>2, <3>3, <4>1
    <3>5. CASE c = p
      <4>1. Heard(c)' = SaidByOthers(room', c, joined[c] + 1, Len(room) + 1)
        BY <2>1, <2>2, <3>1, <3>5 DEF Heard
      <4>2. SaidByOthers(room', c, joined[c] + 1, Len(room) + 1)
              = SaidByOthers(room', c, joined[c] + 1, Len(room))
        <5>1. joined[c] <= Len(room) /\ joined[c] \in Nat
          BY <1>4, <1>5
        <5>2. PICK from \in Nat \ {0} : from = joined[c] + 1
          BY <5>1
        <5>3. PICK n \in 1 .. Len(room') : n = Len(room) + 1
          BY <2>2
        <5>4. n - Len(room) = 1 /\ room'[n].src = c
          BY <2>1, <2>2, <3>5, <5>1, <5>2, <5>3
        <5>5. SaidByOthers(room', c, from, n) = SaidByOthers(room', c, from, Len(room))
          BY <1>4, <2>2, <5>3, <5>4, OthersOwn
        <5> QED
          BY <5>2, <5>3, <5>4, <5>5
      <4> QED
        BY <3>2, <3>3, <4>1, <4>2
    <3> QED
      BY <3>4, <3>5
  <2> QED
    BY <1>2, <1>3, <1>4, <1>5, <2>1, <2>2, <2>3
(* the last message is handed to one of those it is owed to, ... *)
<1>13. ASSUME NEW p \in Owed
       PROVE  SaidByOthers(room, p, joined[p] + 1, Len(room)) = Append(Heard(p), room[Len(room)])
  <2>1. p \in Members /\ joined[p] < Len(room) /\ room[Len(room)].src # p
    BY <1>5, <1>6
  <2>2. joined[p] \in Nat /\ Len(room) \in Nat
    BY <1>4, <1>6
  <2>3. PICK from \in Nat \ {0} : from = joined[p] + 1
    BY <2>2
  <2>4. PICK m \in Nat : m = Len(room) - 1
    BY <2>1, <2>2
  <2>5. Len(room) \in 1 .. Len(room) /\ Len(room) - m = 1 /\ from <= Len(room)
    BY <2>1, <2>2, <2>3, <2>4
  <2>6. Heard(p) = SaidByOthers(room, p, from, m)
    BY <2>3, <2>4 DEF Heard
  <2>7. SaidByOthers(room, p, from, Len(room)) =
          Append(SaidByOthers(room, p, from, m), room[Len(room)])
    BY <1>4, <2>1, <2>5, OthersNext
  <2> QED
    BY <2>1, <2>3, <2>6, <2>7
<1>14. ASSUME NEW p \in Conns, Room!Deliver(p)
       PROVE  Agree
  <2>1. /\ p \in Owed /\ p \notin Gone /\ Owed' = Owed \ {p}
        /\ Inbox' = [Inbox EXCEPT ![p] = Append(@, room[Len(room)])]
        /\ UNCHANGED <<Members, Gone, room>>
    BY <1>14 DEF Room!Deliver
  <2>2. \A c \in Members \ {p} : Heard(c)' = Heard(c)
    BY <1>2, <1>8, <2>1
  <2>3. Heard(p)' = Append(Heard(p), room[Len(room)])
    <3>1. Heard(p)' = SaidByOthers(room, p, joined[p] + 1, Len(room))
      BY <1>2, <1>6, <2>1 DEF Heard
    <3> QED
      BY <1>13, <2>1, <3>1
  <2>4. \A c \in Conns : Inbox'[c] = IF c = p THEN Append(Inbox[c], room[Len(room)]) ELSE Inbox[c]
    BY <2>1 DEF Inbox
  <2>5. Inbox'[p] = Heard(p)'
    BY <1>5, <1>6, <2>1, <2>3, <2>4
  <2> QED
    BY <1>2, <1>3, <1>4, <1>5, <1>6, <2>1, <2>2, <2>4, <2>5
(* ... or misses it, being gone *)
<1>15. ASSUME NEW p \in Conns, Room!Miss(p)
       PROVE  Agree
  <2>1. /\ p \in Owed /\ p \in Gone /\ Owed' = Owed \ {p}
        /\ UNCHANGED <<Members, Gone, room, Inbox>>
    BY <1>15 DEF Room!Miss
  <2>2. \A c \in Members \ {p} : Heard(c)' = Heard(c)
    BY <1>2, <1>8, <2>1
  <2>3. Heard(p)' = Append(Heard(p), room[Len(room)])
    <3>1. Heard(p)' = SaidByOthers(room, p, joined[p] + 1, Len(room))
      BY <1>2, <1>6, <2>1 DEF Heard
    <3> QED
      BY <1>13, <2>1, <3>1
  <2>4. room[Len(room)] \in Message
    BY <1>4, <1>5, <1>6, <2>1
  <2>5. IsPrefix(Inbox[p], Heard(p)')
    <3>1. IsPrefix(Inbox[p], Heard(p))
      BY <1>5, <1>6, <2>1
    <3> QED
      BY <1>4, <1>6, <1>7, <2>1, <2>3, <2>4, <3>1, PrefixGrows
  <2> QED
    BY <1>2, <1>3, <1>4, <1>5, <1>6, <2>1, <2>2, <2>5
<1>16. CASE UNCHANGED Room!roomVars
  BY <1>9, <1>16 DEF Room!roomVars
<1>17. ASSUME NEW p \in Conns, Room!HangUp(p)
       PROVE  Agree
  BY <1>9, <1>17 DEF Room!HangUp
<1>18. ~Room!ShutDown
  BY DEF Room!ShutDown
<1> QED
  BY <1>1, <1>10, <1>11, <1>12, <1>14, <1>15, <1>16, <1>17, <1>18 DEF Room!RoomNext

-----------------------------------------------------------------------------
(* The theorems. *)

(* The strengthening of RoomAgreement is an invariant of the server. *)
THEOREM AgreementInvariance == Spec => []AgreementInv
  BY InitAgreement, AgreementStep, Invariance, PTL DEF Spec

(* For any number of connections, slots and messages, a live member has been told
   exactly what the others said since it joined, in order, except for the message
   now on its way to it. *)
THEOREM Agreement == Spec => []RoomAgreement
<1>1. AgreementInv => RoomAgreement
  BY DEF AgreementInv
<1> QED
  BY <1>1, AgreementInvariance, PTL

(* The server implements the abstract room: what its loop, the kernel and the peers
   do one system call at a time amounts to members that join, speak, are handed each
   message, hang up and leave. *)
THEOREM Refinement == Spec => ImplementsRoomSafety
<1>1. Spec => [][Room!RoomNext]_(Room!roomVars)
  BY RoomStep, Invariance, AgreementInvariance, PTL DEF Spec
<1> QED
  BY <1>1, RoomStarts, PTL DEF Spec, ImplementsRoomSafety, Room!RoomSafety

-----------------------------------------------------------------------------
(* Lemmas about what was said and what was sent. *)

(* A message adds to what its sender has said ... *)
LEMMA SaidByAppend ==
  ASSUME NEW log \in Seq(Message), NEW m \in Message
  PROVE  SaidBy(Append(log, m), m.src) = Append(SaidBy(log, m.src), m)
<1> DEFINE c == m.src
           t == Append(log, m)
           N == Len(log)
           I == {i \in 1 .. N : log[i].src = c}
<1>1. /\ N \in Nat /\ Len(t) = N + 1 /\ t[N + 1] = m
      /\ \A i \in 1 .. N : t[i] = log[i]
  OBVIOUS
<1>2. I \in SUBSET (1 .. N)
  OBVIOUS
<1>3. {i \in 1 .. N + 1 : t[i].src = c} = I \cup {N + 1}
  BY <1>1
<1>4. SaidBy(log, c) = Subsequence(log, I)
  BY DEF SaidBy
<1>5. SaidBy(t, c) = Subsequence(t, I \cup {N + 1})
  BY <1>1, <1>3 DEF SaidBy
<1>6. \A i \in I : t[i] = log[i]
  BY <1>1, <1>2
<1> HIDE DEF t, I, N, c
<1>7. Subsequence(t, I) = Subsequence(log, I)
  BY <1>1, <1>2, <1>6, SubsequenceSame
<1>8. Subsequence(t, I \cup {N + 1}) = Append(Subsequence(t, I), m)
  BY <1>1, <1>2, SubsequenceNext
<1>9. SaidBy(t, c) = Append(SaidBy(log, c), m)
  BY <1>4, <1>5, <1>7, <1>8
<1> QED
  BY <1>9 DEF t, c

(* ... and to nobody else's. *)
LEMMA SaidByOther ==
  ASSUME NEW log \in Seq(Message), NEW m \in Message, NEW c, m.src # c
  PROVE  SaidBy(Append(log, m), c) = SaidBy(log, c)
<1> DEFINE t == Append(log, m)
           N == Len(log)
           I == {i \in 1 .. N : log[i].src = c}
<1>1. /\ N \in Nat /\ Len(t) = N + 1 /\ t[N + 1] = m
      /\ \A i \in 1 .. N : t[i] = log[i]
  OBVIOUS
<1>2. I \in SUBSET (1 .. N) /\ \A i \in I : t[i] = log[i]
  BY <1>1
<1>3. {i \in 1 .. N + 1 : t[i].src = c} = I
  BY <1>1
<1>4. SaidBy(log, c) = Subsequence(log, I)
  BY DEF SaidBy
<1>5. SaidBy(t, c) = Subsequence(t, I)
  BY <1>1, <1>3 DEF SaidBy
<1> HIDE DEF t, I, N
<1>6. Subsequence(t, I) = Subsequence(log, I)
  BY <1>1, <1>2, SubsequenceSame
<1>7. SaidBy(t, c) = SaidBy(log, c)
  BY <1>4, <1>5, <1>6
<1> QED
  BY <1>7 DEF t

(* What a client has said is a sequence of messages, at first an empty one. *)
LEMMA SaidByType ==
  ASSUME NEW c
  PROVE  /\ \A log \in Seq(Message) : SaidBy(log, c) \in Seq(Message)
         /\ SaidBy(<<>>, c) = <<>>
<1>1. ASSUME NEW log \in Seq(Message) PROVE SaidBy(log, c) \in Seq(Message)
  <2> DEFINE I == {i \in 1 .. Len(log) : log[i].src = c}
  <2>1. I \in SUBSET (1 .. Len(log)) /\ Len(log) \in Nat /\ \A i \in I : log[i] \in Message
    OBVIOUS
  <2>2. Subsequence(log, I) \in Seq(Message)
    BY <2>1, SubsequenceType
  <2> QED
    BY <2>2 DEF SaidBy
<1>2. SaidBy(<<>>, c) = <<>>
  <2>1. {i \in 1 .. Len(<<>>) : <<>>[i].src = c} = {}
    OBVIOUS
  <2>2. Subsequence(<<>>, {}) = <<>>
    BY FS_EmptySet DEF Subsequence
  <2> QED
    BY <2>1, <2>2 DEF SaidBy
<1> QED
  BY <1>1, <1>2

(* A part of a text, token by token; parts of two texts that agree are the same. *)
LEMMA PartOf ==
  ASSUME NEW X, NEW t \in Seq(X), NEW a \in Nat, NEW b \in a .. Len(t)
  PROVE  /\ SubSeq(t, a + 1, b) \in Seq(X)
         /\ Len(SubSeq(t, a + 1, b)) = b - a
         /\ \A i \in 1 .. b - a : SubSeq(t, a + 1, b)[i] = t[a + i]
<1>1. Len(t) \in Nat /\ a + 1 \in Int /\ b \in Int
  OBVIOUS
<1>2. \A i \in a + 1 .. b : t[i] \in X
  BY <1>1
<1>3. PICK c \in Int : c = a + 1
  BY <1>1
<1>4. /\ SubSeq(t, c, b) \in Seq(X)
      /\ Len(SubSeq(t, c, b)) = IF c <= b THEN b - c + 1 ELSE 0
      /\ \A i \in 1 .. b - c + 1 : SubSeq(t, c, b)[i] = t[c + i - 1]
  BY <1>1, <1>2, <1>3, SubSeqProperties
<1> QED
  BY <1>1, <1>3, <1>4

Agree(s, a, t, b, n) == \A i \in 1 .. n : s[a + i] = t[b + i]

LEMMA SameParts ==
  ASSUME NEW X, NEW s \in Seq(X), NEW t \in Seq(X),
         NEW a \in Nat, NEW b \in a .. Len(s), NEW c \in Nat, NEW d \in c .. Len(t),
         b - a = d - c, Agree(s, a, t, c, b - a)
  PROVE  SubSeq(s, a + 1, b) = SubSeq(t, c + 1, d)
<1>1. PICK u \in Seq(X) : u = SubSeq(s, a + 1, b)
  BY PartOf
<1>2. PICK v \in Seq(X) : v = SubSeq(t, c + 1, d)
  BY PartOf
<1>3. Len(u) = b - a /\ \A i \in 1 .. b - a : u[i] = s[a + i]
  BY <1>1, PartOf
<1>4. Len(v) = d - c /\ \A i \in 1 .. d - c : v[i] = t[c + i]
  BY <1>2, PartOf
<1>5. u = v
  BY <1>3, <1>4, SeqEqual DEF Agree
<1> QED
  BY <1>1, <1>2, <1>5

(* A conversation of no messages is that of no text. *)
LEMMA RelaysNothing ==
  ASSUME NEW t
  PROVE  Relays(<<>>, t, 0)
<1>1. Len(<<>>) = 0 /\ 1 .. 0 = {}
  OBVIOUS
<1>2. PICK cut : cut = [i \in 1 .. Len(<<>>) |-> 1]
  OBVIOUS
<1>3. cut \in [1 .. Len(<<>>) -> 1 .. 0]
  BY <1>1, <1>2
<1>4. CutsInto(<<>>, t, 0, cut)
  BY <1>1 DEF CutsInto
<1> QED
  BY <1>3, <1>4 DEF Relays

(* Where a message begins in the text. *)
LEMMA CutsStart ==
  ASSUME NEW s \in Seq(Message), NEW n \in Nat, NEW cut \in [1 .. Len(s) -> 1 .. n],
         NEW i \in 1 .. Len(s)
  PROVE  Start(cut, i) \in 0 .. n /\ cut[i] \in 1 .. n
<1>1. Len(s) \in Nat /\ cut[i] \in 1 .. n
  OBVIOUS
<1>2. CASE i = 1
  BY <1>1, <1>2 DEF Start
<1>3. CASE i # 1
  <2>1. i - 1 \in 1 .. Len(s)
    BY <1>1, <1>3
  <2>2. cut[i - 1] \in 1 .. n
    BY <2>1
  <2> QED
    BY <1>1, <1>3, <2>2 DEF Start
<1> QED
  BY <1>2, <1>3

(* One more chunk that is relayed by one more message. *)
LEMMA RelaysChunk ==
  ASSUME NEW s \in Seq(Message), NEW m \in Message, NEW t \in Seq(Tokens), NEW n \in Nat,
         Relays(s, t, n), NEW q \in 1 .. READ_MAX,
         m.body = Truncate(SubSeq(t, n + 1, n + q), MSG_MAX - NameLen(m.name) - 1)
  PROVE  Relays(Append(s, m), t, n + q)
<1>1. PICK cut \in [1 .. Len(s) -> 1 .. n] : CutsInto(s, t, n, cut)
  BY DEF Relays
<1>2. PICK l \in Nat : l = Len(s)
  OBVIOUS
<1>3. PICK w \in Nat : w = n + q
  BY ServerAssumption
<1>4. PICK r : r = Append(s, m)
  OBVIOUS
<1>5. /\ Len(r) = l + 1 /\ r[l + 1] = m /\ r # <<>>
      /\ \A i \in 1 .. l : r[i] = s[i]
  BY <1>2, <1>4
<1>6. PICK cut2 : cut2 = [i \in 1 .. l + 1 |-> IF i = l + 1 THEN w ELSE cut[i]]
  OBVIOUS
<1>7. /\ \A i \in 1 .. l : cut2[i] = cut[i] /\ cut[i] \in 1 .. n
      /\ cut2[l + 1] = w /\ 1 .. n \subseteq 1 .. w /\ w \in 1 .. w
  <2>1. w \in 1 .. w /\ n <= w
    BY <1>3, ServerAssumption
  <2>2. 1 .. n \subseteq 1 .. w
    BY <2>1
  <2>3. l + 1 \in 1 .. l + 1 /\ \A i \in 1 .. l : i \in 1 .. l + 1 /\ i # l + 1
    BY <1>2
  <2> QED
    BY <1>1, <1>2, <1>6, <2>1, <2>2, <2>3
<1>8. cut2 \in [1 .. Len(r) -> 1 .. w]
  <2>1. \A i \in 1 .. l + 1 : i = l + 1 \/ i \in 1 .. l
    BY <1>2
  <2>2. \A i \in 1 .. l + 1 : cut2[i] \in 1 .. w
    BY <1>7, <2>1
  <2> QED
    BY <1>5, <1>6, <2>2
<1>9. Start(cut2, l + 1) = n
  <2>1. CASE l = 0
    <3>1. s = <<>>
      BY <1>2, <2>1, EmptySeq
    <3> QED
      BY <1>1, <2>1, <3>1 DEF CutsInto, Start
  <2>2. CASE l # 0
    <3>1. s # <<>> /\ l \in 1 .. l /\ l + 1 # 1 /\ (l + 1) - 1 = l
      BY <1>2, <2>2
    <3>2. n = cut[l]
      BY <1>1, <1>2, <3>1 DEF CutsInto
    <3> QED
      BY <1>7, <3>1, <3>2 DEF Start
  <2> QED
    BY <2>1, <2>2
<1>10. ASSUME NEW i \in 1 .. l PROVE Start(cut2, i) = Start(cut, i)
  <2>1. CASE i = 1
    BY <2>1 DEF Start
  <2>2. CASE i # 1
    <3>1. i - 1 \in 1 .. l
      BY <2>2
    <3> QED
      BY <1>7, <2>2, <3>1 DEF Start
  <2> QED
    BY <2>1, <2>2
<1>11. ASSUME NEW i \in 1 .. Len(r)
       PROVE  /\ cut2[i] - Start(cut2, i) \in 1 .. READ_MAX
              /\ r[i].body = Truncate(SubSeq(t, Start(cut2, i) + 1, cut2[i]),
                                      MSG_MAX - NameLen(r[i].name) - 1)
  <2>1. CASE i = l + 1
    <3>1. w - n = q
      BY <1>3, ServerAssumption
    <3> QED
      BY <1>3, <1>5, <1>7, <1>9, <2>1, <3>1
  <2>2. CASE i # l + 1
    <3>1. i \in 1 .. l
      BY <1>5, <2>2
    <3>2. cut2[i] = cut[i] /\ r[i] = s[i] /\ Start(cut2, i) = Start(cut, i)
      BY <1>5, <1>7, <1>10, <3>1
    <3> QED
      BY <1>1, <1>2, <3>1, <3>2 DEF CutsInto
  <2> QED
    BY <2>1, <2>2
<1>12. CutsInto(r, t, w, cut2)
  BY <1>5, <1>7, <1>11 DEF CutsInto
<1> QED
  BY <1>3, <1>4, <1>8, <1>12 DEF Relays

(* What was relayed stays relayed when more is sent. *)
LEMMA RelaysLonger ==
  ASSUME NEW s \in Seq(Message), NEW t \in Seq(Tokens), NEW u \in Seq(Tokens),
         NEW n \in 0 .. Len(t), Relays(s, t, n)
  PROVE  Relays(s, t \o u, n)
<1>1. PICK cut \in [1 .. Len(s) -> 1 .. n] : CutsInto(s, t, n, cut)
  BY DEF Relays
<1>2. PICK v \in Seq(Tokens) : v = t \o u
  BY ConcatProperties
<1>3. Len(t) \in Nat /\ Len(t) <= Len(v) /\ \A i \in 1 .. Len(t) : v[i] = t[i]
  BY <1>2, ConcatProperties
<1>4. ASSUME NEW i \in 1 .. Len(s)
      PROVE  SubSeq(v, Start(cut, i) + 1, cut[i]) = SubSeq(t, Start(cut, i) + 1, cut[i])
  <2>1. n \in Nat /\ n <= Len(t)
    OBVIOUS
  <2>2. PICK a \in 0 .. n : a = Start(cut, i)
    BY <2>1, CutsStart
  <2>3. PICK b \in 1 .. n : b = cut[i]
    BY <2>1, CutsStart
  <2>4. Agree(v, a, t, a, b - a)
    <3> SUFFICES ASSUME NEW x \in 1 .. b - a PROVE v[a + x] = t[a + x]
      BY DEF Agree
    <3>1. a + x \in 1 .. Len(t)
      BY <2>1, <2>2, <2>3
    <3> QED
      BY <1>3, <3>1
  <2>5. cut[i] - Start(cut, i) \in 1 .. READ_MAX
    BY <1>1 DEF CutsInto
  <2>6. a \in Nat /\ b \in a .. Len(t) /\ b \in a .. Len(v)
    BY <1>3, <2>1, <2>2, <2>3, <2>5
  <2>7. SubSeq(v, a + 1, b) = SubSeq(t, a + 1, b)
    BY <2>4, <2>6, SameParts
  <2> QED
    BY <2>2, <2>3, <2>7
<1>5. CutsInto(s, v, n, cut)
  BY <1>1, <1>4 DEF CutsInto
<1> QED
  BY <1>1, <1>2, <1>5 DEF Relays

(* The part of a text behind its n-th token, and what is left of that by a read of q
   tokens, which are the next q of the text. *)
Behind(t, n) == SubSeq(t, n + 1, Len(t))

LEMMA BehindCut ==
  ASSUME NEW t \in Seq(Tokens), NEW n \in 0 .. Len(t), NEW q \in 1 .. Len(Behind(t, n))
  PROVE  /\ n + q \in 0 .. Len(t)
         /\ SubSeq(Behind(t, n), 1, q) = SubSeq(t, n + 1, n + q)
         /\ SubSeq(Behind(t, n), q + 1, Len(Behind(t, n))) = Behind(t, n + q)
<1>1. PICK l \in Nat : l = Len(t)
  OBVIOUS
<1>2. n \in Nat /\ l \in n .. Len(t)
  BY <1>1
<1>3. Behind(t, n) = SubSeq(t, n + 1, l)
  BY <1>1 DEF Behind
<1>4. PICK u \in Seq(Tokens) : u = Behind(t, n)
  BY <1>2, <1>3, PartOf
<1>5. Len(u) = l - n /\ \A i \in 1 .. l - n : u[i] = t[n + i]
  BY <1>2, <1>4, <1>3, PartOf
<1>6. q \in 1 .. l - n /\ n \in 0 .. l
  BY <1>1, <1>4, <1>5
<1>7. PICK w \in 0 .. l : w = n + q
  BY <1>6
<1>8. SubSeq(u, 0 + 1, q) = SubSeq(t, n + 1, w)
  <2>1. Agree(u, 0, t, n, q - 0)
    BY <1>5, <1>6 DEF Agree
  <2>2. 0 \in Nat /\ q \in 0 .. Len(u) /\ n \in Nat /\ w \in n .. Len(t) /\ q - 0 = w - n
    BY <1>1, <1>5, <1>6, <1>7
  <2> QED
    BY <2>1, <2>2, SameParts
<1>9. SubSeq(u, q + 1, l - n) = SubSeq(t, w + 1, l)
  <2>1. PICK b \in Nat, e \in Nat, x \in Nat : b = l - n /\ e = q /\ x = w
    BY <1>6
  <2>2. Agree(u, e, t, x, b - e)
    <3> SUFFICES ASSUME NEW i \in 1 .. b - e PROVE u[e + i] = t[x + i]
      BY DEF Agree
    <3>1. e + i \in 1 .. l - n /\ n + (e + i) = x + i
      BY <1>6, <1>7, <2>1
    <3> QED
      BY <1>5, <3>1
  <2>3. b \in e .. Len(u) /\ l \in x .. Len(t) /\ b - e = l - x
    BY <1>1, <1>5, <1>6, <1>7, <2>1
  <2>4. SubSeq(u, e + 1, b) = SubSeq(t, x + 1, l)
    BY <2>2, <2>3, SameParts
  <2> QED
    BY <2>1, <2>4
<1> QED
  BY <1>1, <1>5, <1>7, <1>8, <1>9, <1>4 DEF Behind

LEMMA BehindLonger ==
  ASSUME NEW t \in Seq(Tokens), NEW u \in Seq(Tokens), NEW n \in 0 .. Len(t)
  PROVE  n \in 0 .. Len(t \o u) /\ Behind(t \o u, n) = Behind(t, n) \o u
<1>1. PICK l \in Nat, h \in Nat : l = Len(t) /\ h = Len(u)
  OBVIOUS
<1>2. PICK v \in Seq(Tokens) : v = t \o u
  BY ConcatProperties
<1>3. Len(v) = l + h /\ \A i \in 1 .. l + h : v[i] = IF i <= l THEN t[i] ELSE u[i - l]
  BY <1>1, <1>2, ConcatProperties
<1>4. n \in 0 .. l /\ n \in Nat /\ l \in n .. Len(t) /\ l + h \in n .. Len(v)
  BY <1>1, <1>3
<1>5. PICK b \in Seq(Tokens) : b = SubSeq(t, n + 1, l)
  BY <1>4, PartOf
<1>6. PICK d \in Nat : d = l - n
  BY <1>4
<1>7. Len(b) = d /\ \A i \in 1 .. d : b[i] = t[n + i]
  BY <1>4, <1>5, <1>6, PartOf
<1>8. PICK r \in Seq(Tokens) : r = b \o u
  BY ConcatProperties
<1>9. Len(r) = d + h /\ \A i \in 1 .. d + h : r[i] = IF i <= d THEN b[i] ELSE u[i - d]
  BY <1>1, <1>7, <1>8, ConcatProperties
<1>10. PICK z \in Seq(Tokens) : z = SubSeq(v, n + 1, l + h)
  BY <1>4, PartOf
<1>11. Len(z) = d + h /\ \A i \in 1 .. d + h : z[i] = v[n + i]
  <2>1. (l + h) - n = d + h
    BY <1>4, <1>6
  <2> QED
    BY <1>4, <1>10, <2>1, PartOf
<1>12. ASSUME NEW i \in 1 .. d + h PROVE z[i] = r[i]
  <2>1. n + i \in 1 .. l + h /\ z[i] = v[n + i]
    BY <1>4, <1>6, <1>11
  <2>2. CASE i <= d
    <3>1. n + i <= l /\ i \in 1 .. d
      BY <1>4, <1>6, <2>2
    <3> QED
      BY <1>3, <1>7, <1>9, <2>1, <2>2, <3>1
  <2>3. CASE ~(i <= d)
    <3>1. ~(n + i <= l) /\ (n + i) - l = i - d
      BY <1>4, <1>6, <2>3
    <3> QED
      BY <1>3, <1>9, <2>1, <2>3, <3>1
  <2> QED
    BY <2>2, <2>3
<1>13. z = r
  BY <1>9, <1>11, <1>12, SeqEqual
<1>14. Behind(v, n) = z /\ Behind(t, n) = b
  BY <1>1, <1>3, <1>5, <1>10 DEF Behind
<1> QED
  BY <1>2, <1>3, <1>4, <1>8, <1>13, <1>14

(* A read takes the front of what is unread and leaves the rest. *)
LEMMA ReadCuts ==
  ASSUME NEW s \in Seq(Tokens), NEW n \in 1 .. Len(s)
  PROVE  /\ SubSeq(s, 1, n) \in Seq(Tokens) /\ SubSeq(s, n + 1, Len(s)) \in Seq(Tokens)
         /\ SubSeq(s, 1, n) \o SubSeq(s, n + 1, Len(s)) = s
         /\ Len(SubSeq(s, 1, n)) = n /\ SubSeq(s, 1, n)[1] = s[1]
         /\ Len(SubSeq(s, n + 1, Len(s))) = Len(s) - n
         /\ \A i \in 1 .. Len(s) - n : SubSeq(s, n + 1, Len(s))[i] = s[i + n]
<1>1. Len(s) \in Nat /\ 1 \in 1 .. Len(s) + 1 /\ n \in 1 - 1 .. Len(s)
      /\ Len(s) \in n .. Len(s)
  OBVIOUS
<1>2. SubSeq(s, 1, n) \o SubSeq(s, n + 1, Len(s)) = SubSeq(s, 1, Len(s))
  BY <1>1, ConcatAdjacentSubSeq
<1>3. SubSeq(s, 1, Len(s)) = s
  OBVIOUS
<1>4. /\ SubSeq(s, 1, n) \in Seq(Tokens) /\ SubSeq(s, n + 1, Len(s)) \in Seq(Tokens)
      /\ Len(SubSeq(s, 1, n)) = n /\ SubSeq(s, 1, n)[1] = s[1]
  OBVIOUS
<1>5. /\ Len(SubSeq(s, n + 1, Len(s))) = Len(s) - n
      /\ \A i \in 1 .. Len(s) - n : SubSeq(s, n + 1, Len(s))[i] = s[i + n]
  BY <1>1
<1> QED
  BY <1>2, <1>3, <1>4, <1>5
-----------------------------------------------------------------------------
(* The invariant. *)

(* What makes StreamFidelity inductive: what is unread is plain text, so that every
   chunk is taken for a message. *)
StreamInv ==
  /\ StreamFidelity
  /\ \A c \in Conns : \A i \in 1 .. Len(up[c]) : up[c][i] \notin SlashWords

(* The point of the stream up to which the server has read. *)
ReadTo(c, n) ==
  /\ n \in 0 .. Len(Sent(c))
  /\ up[c] = Behind(Sent(c), n)
  /\ Relays(Spoken(c), Sent(c), n)

LEMMA ReadToSame ==
  ASSUME NEW c
  PROVE  (\E n \in 0 .. Len(Sent(c)) :
            up[c] = SubSeq(Sent(c), n + 1, Len(Sent(c))) /\ Relays(Spoken(c), Sent(c), n))
         <=> \E n : ReadTo(c, n)
  BY DEF ReadTo, Behind

LEMMA StreamPoint == StreamFidelity <=> \A c \in Conns : \E n : ReadTo(c, n)
  BY ReadToSame DEF StreamFidelity

(* What a client has sent and said. *)
LEMMA SentType ==
  ASSUME TypeOK, NEW c \in Conns
  PROVE  /\ Sent(c) \in Seq(Tokens) /\ Len(Sent(c)) \in Nat
         /\ Spoken(c) \in Seq(Message) /\ up[c] \in Seq(Tokens)
<1>1. lines[c] \in Seq(Seq(Tokens)) /\ room \in Seq(Message) /\ up[c] \in Seq(Tokens)
  BY ServerAssumption DEF TypeOK, NetTypes, HistoryTypes
<1>2. Sent(c) \in Seq(Tokens)
  BY <1>1, FlattenType DEF Sent
<1>3. Spoken(c) \in Seq(Message)
  BY <1>1, SaidByType DEF Spoken
<1> QED
  BY <1>1, <1>2, <1>3

LEMMA InitStream == Init => StreamInv
<1> SUFFICES ASSUME Init PROVE StreamInv
  OBVIOUS
<1>1. ASSUME NEW c \in Conns PROVE ReadTo(c, 0)
  <2>1. Spoken(c) = <<>>
    BY SaidByType DEF Init, Spoken
  <2>2. Sent(c) = <<>> /\ up[c] = <<>>
    BY FlattenType DEF Init, Sent
  <2>3. Behind(<<>>, 0) = <<>> /\ 0 \in 0 .. Len(<<>>)
    BY DEF Behind
  <2>4. Relays(<<>>, Sent(c), 0)
    BY RelaysNothing
  <2> QED
    BY <2>1, <2>2, <2>3, <2>4 DEF ReadTo
<1>2. \A c \in Conns : Len(up[c]) = 0
  BY DEF Init
<1> QED
  BY <1>1, <1>2, StreamPoint DEF StreamInv

(* What is neither sent nor read stays as it is. *)
LEMMA StreamFrame ==
  ASSUME StreamInv, UNCHANGED <<up, room, lines>>
  PROVE  StreamInv'
<1>1. \A c : Spoken(c)' = Spoken(c) /\ Sent(c)' = Sent(c)
  BY DEF Spoken, Sent
<1> QED
  BY <1>1 DEF StreamInv, StreamFidelity

(* A chunk of plain text is relayed, as much of it as fits. *)
LEMMA ReadRelays ==
  ASSUME Undisturbed, IInv, StreamInv, ReadText
  PROVE  StreamInv'
<1>0. PICK f \in ScanSet : \E q \in ReadSizes(sock[f]) :
        /\ up' = [up EXCEPT ![sock[f]] = SubSeq(@, q + 1, Len(@))]
        /\ \/ Rename(f, SubSeq(up[sock[f]], 1, q))
           \/ Unsupported(f, SubSeq(up[sock[f]], 1, q))
           \/ Say(f, SubSeq(up[sock[f]], 1, q))
  BY DEF ReadText
<1>1. PICK q \in ReadSizes(sock[f]) :
        /\ up' = [up EXCEPT ![sock[f]] = SubSeq(@, q + 1, Len(@))]
        /\ \/ Rename(f, SubSeq(up[sock[f]], 1, q))
           \/ Unsupported(f, SubSeq(up[sock[f]], 1, q))
           \/ Say(f, SubSeq(up[sock[f]], 1, q))
  BY <1>0
<1>2. exit = "none" /\ pc = "scan" /\ lines' = lines /\ TypeOK
  BY DEF ReadText, At, IInv
<1>3. f \in Registered /\ sock[f] \in Conns
  BY <1>2, ScanSetRegistered, RegisteredSock
<1>4. PICK c \in Conns : c = sock[f]
  BY <1>3
<1>5. PICK chunk : chunk = SubSeq(up[c], 1, q)
  OBVIOUS
<1>6. PICK rest : rest = SubSeq(up[c], q + 1, Len(up[c]))
  OBVIOUS
<1>7. /\ up \in [Conns -> Seq(Tokens)] /\ room \in Seq(Message) /\ up[c] \in Seq(Tokens)
      /\ clients \in [Slots -> Client \cup {NULL}]
  BY <1>2 DEF TypeOK, ServerTypes, NetTypes, HistoryTypes
<1>8. q \in 1 .. Len(up[c]) /\ q \in 1 .. READ_MAX
  BY <1>4, ServerAssumption DEF ReadSizes
<1>9. /\ chunk \in Seq(Tokens) /\ rest \in Seq(Tokens)
      /\ Len(chunk) = q /\ chunk[1] = up[c][1] /\ Len(rest) = Len(up[c]) - q
      /\ \A i \in 1 .. Len(up[c]) - q : rest[i] = up[c][i + q]
  BY <1>5, <1>6, <1>7, <1>8, ReadCuts
<1>10. up' = [up EXCEPT ![c] = rest]
  BY <1>1, <1>4, <1>6
<1>11. \A i \in 1 .. Len(up[c]) : up[c][i] \notin SlashWords
  BY DEF StreamInv
<1>12. ~IsCommand(chunk)
  BY <1>8, <1>9, <1>11 DEF IsCommand
<1>13. Say(f, chunk)
  BY <1>1, <1>4, <1>5, <1>12 DEF Rename, Unsupported
<1>14. msg' = ChatMessage(c, clients[f].name, chunk) /\ room' = Append(room, msg')
  BY <1>4, <1>13 DEF Say
<1>15. clients[f].name \in Name
  BY <1>3, <1>7 DEF Registered, Client
<1>16. PICK m \in Message : m = ChatMessage(c, clients[f].name, chunk)
  BY <1>9, <1>15, ChatMessageType
<1>17. m.src = c /\ m.body = Truncate(chunk, MSG_MAX - NameLen(m.name) - 1)
  BY <1>16 DEF ChatMessage
<1>18. room' = Append(room, m)
  BY <1>14, <1>16
<1>19. Spoken(c)' = Append(Spoken(c), m) /\ \A d : d # c => Spoken(d)' = Spoken(d)
  BY <1>7, <1>17, <1>18, SaidByAppend, SaidByOther DEF Spoken
<1>20. \A d : Sent(d)' = Sent(d)
  BY <1>2 DEF Sent
<1>21. up'[c] = rest /\ \A d \in Conns : d # c => up'[d] = up[d]
  BY <1>7, <1>10
<1>22. \E n : ReadTo(c, n)'
  <2>1. PICK n : ReadTo(c, n)
    BY StreamPoint DEF StreamInv
  <2>2. PICK t \in Seq(Tokens) : t = Sent(c)
    BY <1>2, SentType
  <2>3. n \in 0 .. Len(t) /\ n \in Nat /\ up[c] = Behind(t, n) /\ Relays(Spoken(c), t, n)
    BY <2>1, <2>2 DEF ReadTo
  <2>4. /\ n + q \in 0 .. Len(t)
        /\ chunk = SubSeq(t, n + 1, n + q)
        /\ rest = Behind(t, n + q)
    BY <1>5, <1>6, <1>8, <2>3, BehindCut
  <2>5. Spoken(c) \in Seq(Message)
    BY <1>2, SentType
  <2>6. Relays(Append(Spoken(c), m), t, n + q)
    BY <1>8, <1>17, <2>3, <2>4, <2>5, RelaysChunk
  <2>7. ReadTo(c, n + q)'
    BY <1>19, <1>20, <1>21, <2>2, <2>4, <2>6 DEF ReadTo
  <2> QED
    BY <2>7
<1>23. ASSUME NEW d \in Conns, d # c PROVE \E n : ReadTo(d, n)'
  <2>1. PICK n : ReadTo(d, n)
    BY StreamPoint DEF StreamInv
  <2>2. ReadTo(d, n)'
    BY <1>19, <1>20, <1>21, <1>23, <2>1 DEF ReadTo
  <2> QED
    BY <2>2
<1>24. StreamFidelity'
  BY <1>22, <1>23 DEF StreamFidelity, ReadTo, Behind
<1>25. \A i \in 1 .. Len(rest) : rest[i] \notin SlashWords
  <2>1. \A i \in 1 .. Len(rest) : i + q \in 1 .. Len(up[c]) /\ rest[i] = up[c][i + q]
    BY <1>7, <1>8, <1>9
  <2> QED
    BY <1>11, <2>1
<1>26. \A d \in Conns : \A i \in 1 .. Len(up'[d]) : up'[d][i] \notin SlashWords
  BY <1>21, <1>25 DEF StreamInv
<1> QED
  BY <1>24, <1>26 DEF StreamInv

(* What a peer sends is added to what it has sent and what is unread. *)
LEMMA SendAdds ==
  ASSUME Undisturbed, IInv, StreamInv, NEW c \in Conns, NEW line \in Lines, PeerSend(c, line)
  PROVE  StreamInv'
<1>1. /\ up' = [up EXCEPT ![c] = @ \o line] /\ lines' = [lines EXCEPT ![c] = Append(@, line)]
      /\ room' = room /\ TypeOK
  BY DEF PeerSend, IInv
<1>2. /\ up \in [Conns -> Seq(Tokens)] /\ lines \in [Conns -> Seq(Lines)]
      /\ line \in Seq(Tokens) /\ up[c] \in Seq(Tokens)
  BY <1>1, ServerAssumption DEF TypeOK, NetTypes, HistoryTypes
<1>3. \A d : Spoken(d)' = Spoken(d)
  BY <1>1 DEF Spoken
<1>4. lines[c] \in Seq(Seq(Tokens))
  BY <1>2, ServerAssumption
<1>5. FlattenSeq(Append(lines[c], line)) = FlattenSeq(lines[c]) \o line
  BY <1>2, <1>4, FlattenAppend
<1>6. Sent(c)' = Sent(c) \o line /\ \A d \in Conns : d # c => Sent(d)' = Sent(d)
  BY <1>1, <1>2, <1>5 DEF Sent
<1>7. up'[c] = up[c] \o line /\ \A d \in Conns : d # c => up'[d] = up[d]
  BY <1>1, <1>2
<1>8. \E n : ReadTo(c, n)'
  <2>1. PICK n : ReadTo(c, n)
    BY StreamPoint DEF StreamInv
  <2>2. PICK t \in Seq(Tokens) : t = Sent(c)
    BY <1>1, SentType
  <2>3. n \in 0 .. Len(t) /\ up[c] = Behind(t, n) /\ Relays(Spoken(c), t, n)
    BY <2>1, <2>2 DEF ReadTo
  <2>4. n \in 0 .. Len(t \o line) /\ Behind(t \o line, n) = up[c] \o line
    BY <1>2, <2>3, BehindLonger
  <2>5. Spoken(c) \in Seq(Message)
    BY <1>1, SentType
  <2>6. Relays(Spoken(c), t \o line, n)
    BY <1>2, <2>3, <2>5, RelaysLonger
  <2>7. ReadTo(c, n)'
    BY <1>3, <1>6, <1>7, <2>2, <2>4, <2>6 DEF ReadTo
  <2> QED
    BY <2>7
<1>9. ASSUME NEW d \in Conns, d # c PROVE \E n : ReadTo(d, n)'
  <2>1. PICK n : ReadTo(d, n)
    BY StreamPoint DEF StreamInv
  <2>2. ReadTo(d, n)'
    BY <1>3, <1>6, <1>7, <1>9, <2>1 DEF ReadTo
  <2> QED
    BY <2>2
<1>10. StreamFidelity'
  BY <1>8, <1>9 DEF StreamFidelity, ReadTo, Behind
<1>11. \A i \in 1 .. Len(up'[c]) : up'[c][i] \notin SlashWords
  <2>1. \A i \in 1 .. Len(line) : line[i] \notin SlashWords
    BY DEF Undisturbed, PlainText
  <2>2. \A i \in 1 .. Len(up[c]) : up[c][i] \notin SlashWords
    BY DEF StreamInv
  <2>3. PICK u \in Seq(Tokens) : u = up[c]
    BY <1>2
  <2>4. Len(u \o line) = Len(u) + Len(line) /\ Len(u) \in Nat /\ Len(line) \in Nat
    BY <1>2
  <2>5. ASSUME NEW i \in 1 .. Len(u \o line) PROVE (u \o line)[i] \notin SlashWords
    <3>1. CASE i <= Len(u)
      <4>1. (u \o line)[i] = u[i] /\ i \in 1 .. Len(u)
        BY <1>2, <2>4, <3>1
      <4> QED
        BY <2>2, <2>3, <4>1
    <3>2. CASE i > Len(u)
      <4>1. (u \o line)[i] = line[i - Len(u)] /\ i - Len(u) \in 1 .. Len(line)
        BY <1>2, <2>4, <3>2
      <4> QED
        BY <2>1, <4>1
    <3> QED
      BY <2>4, <3>1, <3>2
  <2> QED
    BY <1>7, <2>3, <2>5
<1>12. \A d \in Conns : \A i \in 1 .. Len(up'[d]) : up'[d][i] \notin SlashWords
  BY <1>7, <1>11 DEF StreamInv
<1> QED
  BY <1>10, <1>12 DEF StreamInv

(* Nothing else reads or sends. *)
LEMMA StreamStep ==
  ASSUME Undisturbed
  PROVE  IInv /\ StreamInv /\ [Next]_vars => StreamInv'
<1> SUFFICES ASSUME IInv, StreamInv, [Next]_vars PROVE StreamInv'
  OBVIOUS
<1>1. CASE Welcome \/ Reply \/ BroadcastWrite
  <2>1. up' = up
    BY <1>1, Zenon DEF Welcome, Reply, BroadcastWrite, Write
  <2> QED
    BY <1>1, <2>1, StreamFrame DEF Welcome, Reply, BroadcastWrite, history
<1>2. CASE InitChat \/ Select \/ AcceptFails \/ BroadcastDone \/ ScanDone
  BY <1>2, StreamFrame
  DEF InitChat, Select, AcceptFails, BroadcastDone, ScanDone, net, history
<1>3. CASE Accept \/ Disconnect
  BY <1>3, StreamFrame DEF Accept, Disconnect, history
<1>4. ASSUME NEW c \in Conns, PeerConnect(c) \/ PeerRead(c) \/ PeerClose(c) \/ PeerAbort(c)
      PROVE  StreamInv'
  BY <1>4, StreamFrame
  DEF PeerConnect, PeerRead, PeerClose, PeerAbort, history, Undisturbed
<1>5. CASE Exited \/ UNCHANGED vars
  BY <1>5, StreamFrame DEF Exited, vars, net, history
<1> QED
  BY <1>1, <1>2, <1>3, <1>4, <1>5, ReadRelays, SendAdds DEF Next, Server, Peers

-----------------------------------------------------------------------------
(* The theorems. *)

(* While no peer is cut off, what its peer sent in plain text is relayed up to a point
   and unread behind it, however the stream is cut into reads and whatever the others
   do: one message for each chunk, of which snprintf() cuts off what msg[] cannot hold. *)
THEOREM Streams ==
  ASSUME Undisturbed
  PROVE  Spec => []StreamFidelity
<1>1. StreamInv => StreamFidelity
  BY DEF StreamInv
<1> QED
  BY <1>1, InitStream, StreamStep, Invariance, PTL DEF Spec

(* A client is removed only when everything its peer sent was relayed in this way. *)
THEOREM RelayedFirst ==
  ASSUME Undisturbed
  PROVE  Spec => RelayedBeforeFreed
<1>1. IInv /\ StreamInv /\ [Next]_vars =>
        [\A f \in Registered : clients'[f] = NULL =>
           Relays(Spoken(sock[f]), Sent(sock[f]), Len(Sent(sock[f])))]_vars
  <2> SUFFICES ASSUME IInv, StreamInv, Next, NEW f \in Registered, clients'[f] = NULL
               PROVE  Relays(Spoken(sock[f]), Sent(sock[f]), Len(Sent(sock[f])))
    OBVIOUS
  <2>1. clients \in [Slots -> Client \cup {NULL}] /\ f \in Slots /\ clients[f] # NULL
    BY DEF IInv, TypeOK, ServerTypes, Registered
  <2>2. CASE Disconnect
    <3>1. exit = "none" /\ pc = "scan"
      BY <2>2 DEF Disconnect, At
    <3>2. PICK g \in ScanSet : AtEof(sock[g]) /\ freeClient(g)
      BY <2>2 DEF Disconnect
    <3>3. clients' = [clients EXCEPT ![g] = NULL]
      BY <3>2 DEF freeClient
    <3>4. f = g
      BY <2>1, <3>3
    <3>5. sock[f] \in Conns
      BY <3>1, RegisteredSock
    <3>6. PICK n : ReadTo(sock[f], n)
      BY <3>5, StreamPoint DEF StreamInv
    <3>7. PICK t \in Seq(Tokens) : t = Sent(sock[f])
      BY <3>5, SentType DEF IInv
    <3>8. n \in 0 .. Len(t) /\ Behind(t, n) = <<>>
      BY <3>2, <3>4, <3>6, <3>7 DEF AtEof, ReadTo
    <3>9. Len(Behind(t, n)) = Len(t) - n
      BY <3>8 DEF Behind
    <3>10. n = Len(t)
      BY <3>8, <3>9
    <3> QED
      BY <3>6, <3>7, <3>10 DEF ReadTo
  <2>3. CASE ~Disconnect
    <3>1. clients'[f] # NULL
      <4>1. clients' = clients \/ ReadText \/ Accept
        BY <2>3 DEF Next, Server, Peers, Exited, InitChat, Select, AcceptFails, Welcome, Reply,
          BroadcastWrite, BroadcastDone, ScanDone, PeerConnect, PeerRead, PeerClose, PeerAbort,
          PeerSend, table, server, vars
      <4>2. CASE ReadText
        <5>0. PICK g \in ScanSet, n \in Nat :
                LET chunk == SubSeq(up[sock[g]], 1, n)
                IN  /\ n \in 1 .. Len(up[sock[g]])
                    /\ Rename(g, chunk) \/ Unsupported(g, chunk) \/ Say(g, chunk)
          BY <4>2 DEF ReadText, ReadSizes
        <5> DEFINE chunk == SubSeq(up[sock[g]], 1, n)
        <5>4. NameArg(chunk) \in Seq(Tokens)
          <6>1. sock[g] \in Conns
            BY <4>2, ScanSetRegistered, RegisteredSock DEF ReadText, At
          <6>2. up[sock[g]] \in Seq(Tokens)
            BY <6>1 DEF IInv, TypeOK, NetTypes
          <6>3. chunk \in Seq(Tokens)
            BY <5>0, <6>2
          <6> QED
            BY <6>3, NameArgType
        <5>1. Rename(g, chunk) \/ Unsupported(g, chunk) \/ Say(g, chunk)
          BY <5>0
        <5> HIDE DEF chunk
        <5>2. clients' = clients \/ clients' = [clients EXCEPT ![g].name = Chosen(NameArg(chunk))]
          BY <5>1 DEF Rename, Unsupported, Say
        <5>3. CASE clients' = [clients EXCEPT ![g].name = Chosen(NameArg(chunk))]
          <6>1. clients[f] \in Client /\ \A r \in Client : r # NULL
            BY <2>1, ServerAssumption DEF Client, Name
          <6>2. CASE f = g
            <7>1. clients'[f] = [clients[f] EXCEPT !.name = Chosen(NameArg(chunk))]
              BY <2>1, <5>3, <6>2
            <7>2. [clients[f] EXCEPT !.name = Chosen(NameArg(chunk))] \in Client
              BY <5>4, <6>1 DEF Client, Name, Chosen
            <7> QED
              BY <6>1, <7>1, <7>2
          <6>3. CASE f # g
            BY <2>1, <5>3, <6>3
          <6> QED
            BY <6>2, <6>3
        <5> QED
          BY <2>1, <5>2, <5>3
      <4>3. CASE Accept
        <5>1. CASE clients' # clients
          <6>1. PICK g : exit' \in CreateOutcome(g) /\ exit' = "none" /\ createClient(g)
            BY <4>3, <5>1 DEF Accept, table
          <6>2. g \in Slots /\ clients[g] = NULL
            BY <6>1 DEF CreateOutcome, chatMalloc
          <6>3. Registered' = Registered \cup {g}
            BY <6>1, <6>2, CreateAdds DEF IInv, TableInv
          <6> QED
            BY <6>3 DEF Registered
        <5> QED
          BY <2>1, <5>1
      <4> QED
        BY <2>1, <4>1, <4>2, <4>3
    <3> QED
      BY <3>1
  <2> QED
    BY <2>2, <2>3
<1> QED
  BY <1>1, InitStream, StreamStep, Invariance, PTL DEF Spec, RelayedBeforeFreed

-----------------------------------------------------------------------------
(* Lemmas about lines and names. *)

(* A line that ends where its only end of line is means to the server what it means to
   the peer. *)
LEMMA WholeLine ==
  ASSUME NEW line \in Seq(Tokens), EndsInEol(line)
  PROVE  /\ IsCommand(line) /\ IsNameCommand(line) <=> IsNaming(line)
         /\ IsNaming(line) => NameArg(line) = NameGiven(line)
<1>1. PICK n \in 0 .. Len(line) - 1 : \A i \in 1 .. Len(line) : line[i] \in Eol <=> i > n
  BY DEF EndsInEol
<1>2. Len(line) \in Nat /\ n \in Nat /\ n < Len(line)
  OBVIOUS
<1>3. PICK cut : cut = CutAtEol(line)
  OBVIOUS
<1>4. cut = SubSeq(line, 1, n)
  <2>1. {i \in 1 .. Len(line) : \A m \in 1 .. i : line[m] \notin Eol} = 1 .. n
    <3>1. ASSUME NEW i \in 1 .. Len(line)
          PROVE  (\A m \in 1 .. i : line[m] \notin Eol) <=> i <= n
      <4>1. CASE i <= n
        BY <1>1, <1>2, <4>1
      <4>2. CASE i > n
        <5>1. line[i] \in Eol /\ i \in 1 .. i
          BY <1>1, <4>2
        <5> QED
          BY <1>2, <4>2, <5>1
      <4> QED
        BY <1>2, <4>1, <4>2
    <3>2. 1 .. n \subseteq 1 .. Len(line)
      BY <1>2
    <3> QED
      BY <1>2, <3>1, <3>2
  <2>2. Cardinality(1 .. n) = n
    BY <1>2, FS_Interval
  <2> QED
    BY <1>3, <2>1, <2>2 DEF CutAtEol
<1>5. Len(cut) = n /\ \A i \in 1 .. n : cut[i] = line[i]
  BY <1>2, <1>4
<1>6. IsNameCommand(line) <=> n >= 2 /\ line[1] = "/name" /\ line[2] = " "
  <2>1. IsNameCommand(line) <=> Len(cut) >= 2 /\ cut[1] = "/name" /\ cut[2] = " "
    BY <1>3 DEF IsNameCommand
  <2>2. n >= 2 => cut[1] = line[1] /\ cut[2] = line[2]
    BY <1>2, <1>5
  <2> QED
    BY <1>5, <2>1, <2>2
<1>7. "/name" \in SlashWords /\ " " \notin Eol
  BY ServerAssumption DEF Eol
<1>8. ASSUME IsNaming(line) PROVE n >= 2
  <2>1. 2 \in 1 .. Len(line)
    <3>1. Len(line) > 2
      BY <1>8, Zenon DEF IsNaming
    <3> QED
      BY <1>2, <3>1
  <2>2. line[2] \notin Eol
    BY <1>7, <1>8, Zenon DEF IsNaming
  <2> QED
    BY <1>1, <1>2, <2>1, <2>2
<1>9. IsCommand(line) /\ IsNameCommand(line) <=> IsNaming(line)
  <2>1. n >= 2 => Len(line) > 2
    BY <1>2
  <2>2. line[1] = "/name" => IsCommand(line)
    BY <1>7 DEF IsCommand
  <2> QED
    BY <1>6, <1>8, <2>1, <2>2 DEF IsNaming
<1>10. ASSUME IsNaming(line) PROVE NameArg(line) = NameGiven(line)
  <2>1. {i \in 3 .. Len(line) : line[i] \notin Eol} = 3 .. n
    BY <1>1, <1>2
  <2>2. NameGiven(line) = SubSeq(line, 3, n)
    <3>1. 3 \in Nat \ {0} /\ 3 - 1 <= n /\ n <= Len(line)
      BY <1>2, <1>8, <1>10
    <3> QED
      BY <1>2, <2>1, <3>1, SubsequenceInterval DEF NameGiven
  <2>3. SubSeq(cut, 3, n) = SubSeq(line, 3, n)
    BY <1>2, <1>4, <1>8, <1>10
  <2> QED
    BY <1>3, <1>5, <2>2, <2>3 DEF NameArg
<1> QED
  BY <1>9, <1>10

(* A naming line sets the name, ... *)
LEMMA NameAfterNaming ==
  ASSUME NEW s, NEW m \in Nat, NEW n \in Nat, n - m = 1, IsNaming(s[n]), NEW default
  PROVE  NameAfter(s, n, default) = Chosen(NameGiven(s[n]))
<1> DEFINE N == {i \in 1 .. n : IsNaming(s[i])}
           top == CHOOSE i \in N : \A h \in N : h <= i
<1>1. n \in N /\ \A h \in N : h <= n
  OBVIOUS
<1>2. \E i \in N : \A h \in N : h <= i
  BY <1>1
<1>3. top \in N /\ \A h \in N : h <= top
  BY <1>2
<1>4. top = n
  BY <1>1, <1>3
<1>5. NameAfter(s, n, default) = Chosen(NameGiven(s[top]))
  BY <1>1 DEF NameAfter
<1> QED
  BY <1>4, <1>5

(* ... every other leaves it, ... *)
LEMMA NameAfterOther ==
  ASSUME NEW s, NEW m \in Nat, NEW n \in Nat, n - m = 1, ~IsNaming(s[n]), NEW default
  PROVE  NameAfter(s, n, default) = NameAfter(s, m, default)
<1> DEFINE NameOf(N) == IF N = {} THEN default
                      ELSE Chosen(NameGiven(s[CHOOSE i \in N : \A h \in N : h <= i]))
<1>1. {i \in 1 .. n : IsNaming(s[i])} = {i \in 1 .. m : IsNaming(s[i])}
  OBVIOUS
<1>2. /\ NameAfter(s, n, default) = NameOf({i \in 1 .. n : IsNaming(s[i])})
      /\ NameAfter(s, m, default) = NameOf({i \in 1 .. m : IsNaming(s[i])})
  BY DEF NameAfter
<1> HIDE DEF NameOf
<1> QED
  BY <1>1, <1>2

(* ... and so do the lines after. *)
LEMMA NameAfterSame ==
  ASSUME NEW s, NEW t, NEW n \in Nat, \A i \in 1 .. n : s[i] = t[i], NEW default
  PROVE  NameAfter(s, n, default) = NameAfter(t, n, default)
<1> DEFINE N == {i \in 1 .. n : IsNaming(s[i])}
           top == CHOOSE i \in N : \A h \in N : h <= i
<1>1. N = {i \in 1 .. n : IsNaming(t[i])}
  OBVIOUS
<1>2. CASE N = {}
  BY <1>1, <1>2 DEF NameAfter
<1>3. CASE N # {}
  <2>1. \E i \in N : \A h \in N : h <= i
    <3>1. N \in SUBSET (1 .. n)
      OBVIOUS
    <3> QED
      BY <1>3, <3>1, LargestExists
  <2>2. top \in 1 .. n
    BY <2>1
  <2>3. NameAfter(s, n, default) = Chosen(NameGiven(s[top]))
    BY <1>3 DEF NameAfter
  <2>4. NameAfter(t, n, default) = Chosen(NameGiven(t[top]))
    BY <1>1, <1>3 DEF NameAfter
  <2> QED
    BY <2>2, <2>3, <2>4
<1> QED
  BY <1>2, <1>3

(* A name is the default one or was given by one of the lines. *)
LEMMA NameAfterFrom ==
  ASSUME NEW s, NEW n \in Nat, NEW default
  PROVE  \/ NameAfter(s, n, default) = default
         \/ \E i \in 1 .. n :
              IsNaming(s[i]) /\ NameAfter(s, n, default) = Chosen(NameGiven(s[i]))
<1> DEFINE N == {i \in 1 .. n : IsNaming(s[i])}
           top == CHOOSE i \in N : \A h \in N : h <= i
<1>1. CASE N = {}
  BY <1>1 DEF NameAfter
<1>2. CASE N # {}
  <2>1. \E i \in N : \A h \in N : h <= i
    <3>1. N \in SUBSET (1 .. n)
      OBVIOUS
    <3> QED
      BY <1>2, <3>1, LargestExists
  <2>2. top \in N
    BY <2>1
  <2>3. NameAfter(s, n, default) = Chosen(NameGiven(s[top]))
    BY <1>2 DEF NameAfter
  <2> QED
    BY <2>2, <2>3
<1> QED
  BY <1>1, <1>2

-----------------------------------------------------------------------------
(* The invariant for lines. *)

(* The name of the client in slot f is the one given last, and, if no text line is
   too long, what it has said is the text lines that were read.  *)
Faithful(f, default) ==
  /\ clients[f].name = NameAfter(lines[sock[f]], LinesRead(sock[f]), default)
  /\ LinesFit =>
       Spoken(sock[f]) = Subsequence(Meant(sock[f], default), TextsRead(sock[f]))

(* At most the last line of a connection is unread, and that as a whole; before it is
   accepted, none is read. *)
Fresh(c) == Spoken(c) = <<>> /\ LinesRead(c) = 0
Silent(c) == Spoken(c) = <<>> /\ lines[c] = <<>> /\ up[c] = <<>>
UnreadIsLine == \A c \in Conns :
  up[c] # <<>> => lines[c] # <<>> /\ up[c] = lines[c][Len(lines[c])]
NamesInv == \A f \in Registered : \E default \in DefaultNames(f) : Faithful(f, default)
WaitingInv == \A a \in 1 .. Len(backlog) : Fresh(backlog[a])
IdleInv == \A c \in Conns : peer[c] = "idle" => Silent(c)
LineInv == UnreadIsLine /\ (exit = "none" => NamesInv /\ WaitingInv /\ IdleInv)

LEMMA InitLines == Init => LineInv
<1> SUFFICES ASSUME Init PROVE LineInv
  OBVIOUS
<1>1. Registered = {}
  BY DEF Init, Registered
<1>2. \A c : Spoken(c) = <<>>
  BY SaidByType DEF Init, Spoken
<1>3. backlog = <<>> /\ \A c \in Conns : lines[c] = <<>> /\ up[c] = <<>>
  BY DEF Init
<1> QED
  BY <1>1, <1>2, <1>3
  DEF LineInv, UnreadIsLine, NamesInv, WaitingInv, IdleInv, Silent

(* What is said and sent of a connection depends on these alone. *)
LEMMA FaithfulFrame ==
  ASSUME UNCHANGED <<up, room, lines>>
  PROVE  /\ UnreadIsLine => UnreadIsLine'
         /\ \A c : (Fresh(c) => Fresh(c)') /\ (Silent(c) => Silent(c)')
         /\ \A f, default : /\ sock'[f] = sock[f] /\ clients'[f].name = clients[f].name
                            /\ Faithful(f, default)
                            => Faithful(f, default)'
<1>1. \A c : /\ Spoken(c)' = Spoken(c) /\ LinesRead(c)' = LinesRead(c)
             /\ TextsRead(c)' = TextsRead(c)
  BY DEF Spoken, LinesRead, TextsRead
<1>2. \A c, default : Meant(c, default)' = Meant(c, default)
  BY DEF Meant
<1> QED
  BY <1>1, <1>2 DEF Faithful, UnreadIsLine, Fresh, Silent

(* Clients that stay in their slots keep what is true of them. *)
LEMMA NamesFrame ==
  ASSUME NamesInv, UNCHANGED <<up, room, lines>>, NEW f \in Registered,
         sock'[f] = sock[f] /\ clients'[f].name = clients[f].name
  PROVE  \E default \in DefaultNames(f) : Faithful(f, default)'
<1>1. PICK default \in DefaultNames(f) : Faithful(f, default)
  BY DEF NamesInv
<1>2. Faithful(f, default)'
  BY <1>1, FaithfulFrame
<1> QED
  BY <1>2

(* Nor does what is true of the waiting and the idle change with them. *)
LEMMA OthersFrame ==
  ASSUME WaitingInv, IdleInv, UNCHANGED <<up, room, lines>>,
         NEW c, Fresh(c),
         \A a \in 1 .. Len(backlog') :
           backlog'[a] = c \/ \E b \in 1 .. Len(backlog) : backlog'[a] = backlog[b],
         \A d \in Conns : peer'[d] = "idle" => peer[d] = "idle"
  PROVE  WaitingInv' /\ IdleInv'
<1>1. \A d : (Fresh(d) => Fresh(d)') /\ (Silent(d) => Silent(d)')
  BY FaithfulFrame
<1>2. ASSUME NEW a \in 1 .. Len(backlog') PROVE Fresh(backlog[a])'
  <2>1. PICK d : d = backlog'[a]
    OBVIOUS
  <2>2. Fresh(d)
    BY <1>2, <2>1 DEF WaitingInv
  <2>3. Fresh(d)'
    BY <1>1, <2>2
  <2> QED
    BY <2>1, <2>3 DEF Fresh, Spoken, LinesRead
<1> QED
  BY <1>1, <1>2 DEF WaitingInv, IdleInv

(* What nobody sends, reads or accepts stays as it is. *)
LEMMA LineFrame ==
  ASSUME LineInv, UNCHANGED <<up, room, lines>>, exit' = "none" => exit = "none",
         exit' = "none" => \A f \in Registered' :
           f \in Registered /\ sock'[f] = sock[f] /\ clients'[f].name = clients[f].name,
         exit' = "none" => backlog' = backlog,
         \A c \in Conns : peer'[c] = "idle" => peer[c] = "idle"
  PROVE  LineInv'
<1>1. UnreadIsLine'
  BY FaithfulFrame DEF LineInv
<1> SUFFICES ASSUME exit' = "none" PROVE NamesInv' /\ WaitingInv' /\ IdleInv'
  BY <1>1 DEF LineInv
<1>2. NamesInv /\ WaitingInv /\ IdleInv /\ backlog' = backlog
  BY DEF LineInv
<1>3. NamesInv'
  BY <1>2, NamesFrame DEF NamesInv
<1>4. \A d : (Fresh(d) => Fresh(d)') /\ (Silent(d) => Silent(d)')
  BY FaithfulFrame
<1>5. ASSUME NEW a \in 1 .. Len(backlog') PROVE Fresh(backlog[a])'
  <2>1. PICK d : d = backlog[a] /\ d = backlog'[a]
    BY <1>2
  <2>2. Fresh(d)'
    BY <1>2, <1>4, <1>5, <2>1 DEF WaitingInv
  <2> QED
    BY <2>1, <2>2 DEF Fresh, Spoken, LinesRead
<1> QED
  BY <1>2, <1>3, <1>4, <1>5 DEF WaitingInv, IdleInv

(* Who connects has sent nothing yet. *)
LEMMA ConnectLines ==
  ASSUME IInv, LineInv, NEW c \in Conns, PeerConnect(c)
  PROVE  LineInv'
<1>1. /\ exit = "none" /\ exit' = "none" /\ peer[c] = "idle" /\ backlog' = Append(backlog, c)
      /\ UNCHANGED <<up, room, lines, clients, sock>>
      /\ peer' = [peer EXCEPT ![c] = "open"]
  BY DEF PeerConnect, server, history
<1>2. UnreadIsLine' /\ NamesInv /\ WaitingInv /\ IdleInv
  BY <1>1, FaithfulFrame DEF LineInv
<1>3. Registered' = Registered
  BY <1>1 DEF Registered
<1>4. NamesInv'
  BY <1>1, <1>2, <1>3, NamesFrame DEF NamesInv
<1>5. Fresh(c)
  BY <1>1, <1>2 DEF IdleInv, Fresh, Silent, LinesRead
<1>6. \A a \in 1 .. Len(backlog') :
        backlog'[a] = c \/ \E b \in 1 .. Len(backlog) : backlog'[a] = backlog[b]
  BY <1>1 DEF IInv, TypeOK, NetTypes
<1>7. \A d \in Conns : peer'[d] = "idle" => peer[d] = "idle"
  BY <1>1 DEF IInv, TypeOK, NetTypes
<1>8. WaitingInv' /\ IdleInv'
  BY <1>1, <1>2, <1>5, <1>6, <1>7, OthersFrame
<1> QED
  BY <1>2, <1>4, <1>8 DEF LineInv

(* Who is accepted has a default name, and nothing of it was read. *)
LEMMA AcceptLines ==
  ASSUME IInv, LineInv, Accept
  PROVE  LineInv'
<1>1. /\ exit = "none" /\ UNCHANGED <<up, room, lines, peer>>
  BY DEF Accept, At
<1>2. UnreadIsLine' /\ NamesInv /\ WaitingInv /\ IdleInv
  BY <1>1, FaithfulFrame DEF LineInv
<1> SUFFICES ASSUME exit' = "none" PROVE NamesInv' /\ WaitingInv' /\ IdleInv'
  BY <1>2 DEF LineInv
<1>3. PICK g \in FreeFds :
        /\ sock' = [sock EXCEPT ![g] = Head(backlog)] /\ backlog' = Tail(backlog)
        /\ exit' \in CreateOutcome(g) /\ createClient(g)
  BY DEF Accept, acceptClient
<1>4. backlog # <<>> /\ backlog \in Seq(Conns)
  BY DEF Accept, At, IInv, ReadyInv, TypeOK, NetTypes
<1>5. PICK c \in Conns : c = Head(backlog)
  BY <1>4
<1>6. /\ c = backlog[1] /\ 1 \in 1 .. Len(backlog)
      /\ \A a \in 1 .. Len(backlog') : a + 1 \in 1 .. Len(backlog) /\ backlog'[a] = backlog[a + 1]
  BY <1>3, <1>4, <1>5
<1>7. Fresh(c)
  BY <1>2, <1>6 DEF WaitingInv
<1>8. WaitingInv' /\ IdleInv'
  <2>1. \A a \in 1 .. Len(backlog') :
          backlog'[a] = c \/ \E b \in 1 .. Len(backlog) : backlog'[a] = backlog[b]
    BY <1>6
  <2> QED
    BY <1>1, <1>2, <1>7, <2>1, OthersFrame
<1>9. g \in Slots /\ clients[g] = NULL /\ g \in Fds
  BY <1>3 DEF CreateOutcome, chatMalloc, FreeFds
<1>10. Registered' = Registered \cup {g}
  BY <1>3, <1>9, CreateAdds DEF IInv, TableInv
<1>11. PICK name \in DefaultNames(g) : clients' = [clients EXCEPT ![g] = [fd |-> g, name |-> name]]
  BY <1>3 DEF createClient
<1>12. /\ clients \in [Slots -> Client \cup {NULL}] /\ sock \in [Fds -> Conns \cup {NULL}]
  BY DEF IInv, TypeOK, ServerTypes, NetTypes
<1>13. ASSUME NEW f \in Registered
       PROVE  \E default \in DefaultNames(f) : Faithful(f, default)'
  <2>1. f # g /\ f \in Slots /\ f \in Fds
    BY <1>1, <1>9, RegisteredSock DEF Registered
  <2>2. sock'[f] = sock[f] /\ clients'[f] = clients[f]
    BY <1>3, <1>11, <1>12, <2>1
  <2> QED
    BY <1>1, <1>2, <2>2, NamesFrame
<1>14. Faithful(g, name)'
  <2>1. sock'[g] = c /\ clients'[g].name = name
    BY <1>3, <1>5, <1>9, <1>11, <1>12
  <2>2. Spoken(c)' = <<>> /\ LinesRead(c)' = 0
    <3>1. Fresh(c)'
      BY <1>1, <1>7, FaithfulFrame
    <3> QED
      BY <3>1 DEF Fresh
  <2>3. 1 .. 0 = {}
    OBVIOUS
  <2>4. NameAfter(lines'[c], 0, name) = name
    BY <2>3 DEF NameAfter
  <2>5. TextsRead(c)' = {}
    BY <2>2, <2>3 DEF TextsRead
  <2>6. \A s : Subsequence(s, {}) = <<>>
    BY FS_EmptySet DEF Subsequence
  <2>7. /\ Spoken(sock[g])' = Spoken(c)' /\ LinesRead(sock[g])' = LinesRead(c)'
        /\ TextsRead(sock[g])' = TextsRead(c)'
    BY <2>1 DEF Spoken, LinesRead, TextsRead
  <2> QED
    BY <2>1, <2>2, <2>4, <2>5, <2>6, <2>7 DEF Faithful
<1>15. NamesInv'
  BY <1>10, <1>11, <1>13, <1>14 DEF NamesInv
<1> QED
  BY <1>8, <1>15

(* A line that is sent while none is unread is the unread one. *)
LEMMA SendLines ==
  ASSUME LineByLine, IInv, LineInv, NEW c \in Conns, NEW line \in Lines, PeerSend(c, line)
  PROVE  LineInv'
<1>1. /\ exit = "none" /\ exit' = "none" /\ peer[c] = "open" /\ up[c] = <<>>
      /\ up' = [up EXCEPT ![c] = @ \o line] /\ lines' = [lines EXCEPT ![c] = Append(@, line)]
      /\ UNCHANGED <<room, clients, sock, backlog, peer>>
  BY DEF PeerSend, server, LineByLine
<1>2. /\ up \in [Conns -> Seq(Tokens)] /\ lines \in [Conns -> Seq(Lines)]
      /\ line \in Seq(Tokens) /\ line # <<>> /\ lines[c] \in Seq(Lines) /\ Len(lines[c]) \in Nat
  BY ServerAssumption DEF IInv, TypeOK, NetTypes, HistoryTypes
<1>3. UnreadIsLine /\ NamesInv /\ WaitingInv /\ IdleInv
  BY <1>1 DEF LineInv
<1>4. /\ up'[c] = line /\ lines'[c] = Append(lines[c], line)
      /\ \A d \in Conns : d # c => up'[d] = up[d] /\ lines'[d] = lines[d]
  BY <1>1, <1>2
<1>5. /\ Len(lines'[c]) = Len(lines[c]) + 1 /\ lines'[c][Len(lines'[c])] = line
      /\ lines'[c] # <<>> /\ \A i \in 1 .. Len(lines[c]) : lines'[c][i] = lines[c][i]
  <2>1. PICK s \in Seq(Lines) : s = lines[c]
    BY <1>2
  <2>2. /\ Len(Append(s, line)) = Len(s) + 1 /\ Append(s, line)[Len(s) + 1] = line
        /\ Append(s, line) # <<>> /\ \A i \in 1 .. Len(s) : Append(s, line)[i] = s[i]
    BY AppendProperties
  <2> QED
    BY <1>4, <2>1, <2>2
<1>6. UnreadIsLine'
  BY <1>3, <1>4, <1>5 DEF UnreadIsLine
<1>7. \A d : Spoken(d)' = Spoken(d)
  BY <1>1 DEF Spoken
<1>8. \A d \in Conns : LinesRead(d)' = LinesRead(d)
  BY <1>1, <1>2, <1>4, <1>5 DEF LinesRead
<1>9. LinesRead(c) = Len(lines[c])
  BY <1>1 DEF LinesRead
<1>10. \A d \in Conns : TextsRead(d)' = TextsRead(d)
  <2>1. TextsRead(c)' = TextsRead(c)
    BY <1>5, <1>8, <1>9 DEF TextsRead
  <2>2. \A d \in Conns : d # c => TextsRead(d)' = TextsRead(d)
    BY <1>4, <1>8 DEF TextsRead
  <2> QED
    BY <2>1, <2>2
<1>11. ASSUME NEW default
       PROVE  /\ \A d \in Conns : NameAfter(lines'[d], LinesRead(d), default)
                                    = NameAfter(lines[d], LinesRead(d), default)
              /\ \A d \in Conns : Subsequence(Meant(d, default)', TextsRead(d))
                                    = Subsequence(Meant(d, default), TextsRead(d))
  <2>1. \A i \in 0 .. Len(lines[c]) :
          NameAfter(lines'[c], i, default) = NameAfter(lines[c], i, default)
    <3> TAKE i \in 0 .. Len(lines[c])
    <3>1. PICK s, t, e : s = lines'[c] /\ t = lines[c] /\ e = default
      OBVIOUS
    <3>2. PICK n \in Nat : n = i
      BY <1>2
    <3>3. \A h \in 1 .. n : s[h] = t[h]
      BY <1>2, <1>5, <3>1, <3>2
    <3>4. NameAfter(s, n, e) = NameAfter(t, n, e)
      BY <3>3, NameAfterSame
    <3> QED
      BY <3>1, <3>2, <3>4
  <2>2. TextsRead(c) \in SUBSET (1 .. Len(lines[c]))
    BY <1>9 DEF TextsRead
  <2>3. \A i \in TextsRead(c) : Meant(c, default)'[i] = Meant(c, default)[i]
    <3> TAKE i \in TextsRead(c)
    <3>1. /\ i \in 1 .. Len(lines[c]) /\ i \in 0 .. Len(lines[c]) /\ i \in 1 .. Len(lines'[c])
      BY <1>2, <1>5, <2>2
    <3>2. lines'[c][i] = lines[c][i]
      BY <1>5, <3>1
    <3> QED
      BY <2>1, <3>1, <3>2 DEF Meant
  <2>4. Subsequence(Meant(c, default)', TextsRead(c)) = Subsequence(Meant(c, default), TextsRead(c))
    BY <1>2, <2>2, <2>3, SubsequenceSame
  <2>5. \A d \in Conns : d # c => Meant(d, default)' = Meant(d, default)
    BY <1>4 DEF Meant
  <2>6. Len(lines[c]) \in 0 .. Len(lines[c])
    BY <1>2
  <2> QED
    BY <1>4, <1>9, <2>1, <2>4, <2>5, <2>6
<1>12. NamesInv'
  <2>1. Registered' = Registered
    BY <1>1 DEF Registered
  <2>2. ASSUME NEW f \in Registered
        PROVE  \E default \in DefaultNames(f) : Faithful(f, default)'
    <3>1. PICK default \in DefaultNames(f) : Faithful(f, default)
      BY <1>3 DEF NamesInv
    <3>2. PICK d \in Conns : d = sock[f] /\ d = sock'[f]
      BY <1>1, RegisteredSock
    <3>3. /\ clients'[f].name = NameAfter(lines[d], LinesRead(d), default)
          /\ LinesFit => Spoken(d) = Subsequence(Meant(d, default), TextsRead(d))
      BY <1>1, <3>1, <3>2 DEF Faithful
    <3>4. /\ clients'[f].name = NameAfter(lines'[d], LinesRead(d)', default)
          /\ LinesFit => Spoken(d)' = Subsequence(Meant(d, default)', TextsRead(d)')
      BY <1>7, <1>8, <1>10, <1>11, <3>3
    <3>5. /\ Spoken(sock[f])' = Spoken(d)' /\ LinesRead(sock[f])' = LinesRead(d)'
          /\ TextsRead(sock[f])' = TextsRead(d)'
          /\ Meant(sock[f], default)' = Meant(d, default)'
      BY <3>2 DEF Spoken, LinesRead, TextsRead, Meant
    <3>6. Faithful(f, default)'
      BY <3>2, <3>4, <3>5 DEF Faithful
    <3> QED
      BY <3>6
  <2> QED
    BY <2>1, <2>2 DEF NamesInv
<1>13. WaitingInv'
  <2>1. ASSUME NEW a \in 1 .. Len(backlog) PROVE Fresh(backlog[a])'
    <3>1. PICK d \in Conns : d = backlog[a] /\ d = backlog'[a]
      BY <1>1 DEF IInv, TypeOK, NetTypes
    <3>2. Fresh(d)
      BY <1>3, <3>1 DEF WaitingInv
    <3>3. Fresh(d)'
      BY <1>7, <1>8, <3>2 DEF Fresh
    <3>4. Spoken(backlog[a])' = Spoken(d)' /\ LinesRead(backlog[a])' = LinesRead(d)'
      BY <3>1 DEF Spoken, LinesRead
    <3> QED
      BY <3>3, <3>4 DEF Fresh
  <2> QED
    BY <1>1, <2>1 DEF WaitingInv
<1>14. IdleInv'
  BY <1>1, <1>3, <1>4, <1>7 DEF IdleInv, Silent
<1> QED
  BY <1>6, <1>12, <1>13, <1>14 DEF LineInv

(* The line that is read is obeyed, or said. *)
LEMMA ReadLines ==
  ASSUME LineByLine, IInv, LineInv, ReadText
  PROVE  LineInv'
<1>0. PICK f \in ScanSet : \E n \in ReadSizes(sock[f]) :
        /\ up' = [up EXCEPT ![sock[f]] = SubSeq(@, n + 1, Len(@))]
        /\ \/ Rename(f, SubSeq(up[sock[f]], 1, n))
           \/ Unsupported(f, SubSeq(up[sock[f]], 1, n))
           \/ Say(f, SubSeq(up[sock[f]], 1, n))
  BY DEF ReadText
<1>1. PICK n \in ReadSizes(sock[f]) :
        /\ up' = [up EXCEPT ![sock[f]] = SubSeq(@, n + 1, Len(@))]
        /\ \/ Rename(f, SubSeq(up[sock[f]], 1, n))
           \/ Unsupported(f, SubSeq(up[sock[f]], 1, n))
           \/ Say(f, SubSeq(up[sock[f]], 1, n))
  BY <1>0
<1>2. exit = "none" /\ pc = "scan" /\ UNCHANGED <<lines, sock, backlog, peer>>
  BY DEF ReadText, At
<1>3. f \in Registered /\ f \in Slots /\ f \in Fds
  BY <1>2, ScanSetRegistered, RegisteredSock
<1>4. PICK c \in Conns : c = sock[f]
  BY <1>2, <1>3, RegisteredSock
<1>5. UnreadIsLine /\ NamesInv /\ WaitingInv /\ IdleInv
  BY <1>2 DEF LineInv
<1>6. /\ up \in [Conns -> Seq(Tokens)] /\ room \in Seq(Message) /\ up[c] \in Seq(Tokens)
      /\ clients \in [Slots -> Client \cup {NULL}] /\ lines[c] \in Seq(Lines)
  BY DEF IInv, TypeOK, ServerTypes, NetTypes, HistoryTypes
(* the chunk is the last line *)
<1>7. PICK N \in Nat : N = Len(lines[c])
  BY <1>6
<1>8. PICK line : line = up[c]
  OBVIOUS
<1>9. n \in 1 .. Len(line) /\ (n = READ_MAX \/ n = Len(line)) /\ n <= READ_MAX
  BY <1>4, <1>8 DEF ReadSizes, LineByLine
<1>10. line \in Seq(Tokens) /\ line # <<>>
  BY <1>6, <1>8, <1>9
<1>11. N # 0 /\ N \in 1 .. N /\ line = lines[c][N] /\ line \in Lines
  <2>1. lines[c] # <<>> /\ line = lines[c][N]
    BY <1>5, <1>7, <1>8, <1>10 DEF UnreadIsLine
  <2>2. N # 0
    BY <1>6, <1>7, <2>1, EmptySeq
  <2> QED
    BY <1>6, <1>7, <2>1, <2>2
<1>12. EndsInEol(line) /\ Len(line) <= READ_MAX
  BY <1>11 DEF LineByLine
<1>13. n = Len(line)
  BY <1>9, <1>12, <1>10, ServerAssumption
<1>14. SubSeq(up[c], 1, n) = line /\ SubSeq(up[c], n + 1, Len(up[c])) = <<>>
  BY <1>8, <1>10, <1>13
<1>15. up'[c] = <<>> /\ \A d \in Conns : d # c => up'[d] = up[d]
  BY <1>1, <1>4, <1>6, <1>14
<1>16. Rename(f, line) \/ Unsupported(f, line) \/ Say(f, line)
  BY <1>1, <1>4, <1>14
<1>17. UnreadIsLine'
  BY <1>2, <1>5, <1>15 DEF UnreadIsLine
<1> SUFFICES ASSUME exit' = "none" PROVE NamesInv' /\ WaitingInv' /\ IdleInv'
  BY <1>17 DEF LineInv
(* the others *)
<1>18. room' = room \/ \E m \in Message : m.src = c /\ room' = Append(room, m)
  <2>1. clients[f].name \in Name
    BY <1>3, <1>6 DEF Registered, Client
  <2>2. ChatMessage(c, clients[f].name, line) \in Message
    BY <1>10, <2>1, ChatMessageType
  <2>3. ChatMessage(c, clients[f].name, line).src = c
    BY DEF ChatMessage
  <2> QED
    BY <1>4, <1>16, <2>2, <2>3 DEF Rename, Unsupported, Say
<1>19. \A d : d # c => Spoken(d)' = Spoken(d)
  BY <1>6, <1>18, SaidByOther DEF Spoken
<1>20. \A d \in Conns : d # c =>
         LinesRead(d)' = LinesRead(d) /\ TextsRead(d)' = TextsRead(d)
  BY <1>2, <1>15 DEF LinesRead, TextsRead
<1>21. \A d, default : Meant(d, default)' = Meant(d, default)
  BY <1>2 DEF Meant
<1>22. \A g \in Fds, a \in 1 .. Len(backlog) : sock[g] # backlog[a]
  BY DEF IInv, QueueInv
<1>23. WaitingInv'
  <2>1. ASSUME NEW a \in 1 .. Len(backlog) PROVE Fresh(backlog[a])'
    <3>1. PICK d \in Conns : d = backlog[a] /\ d = backlog'[a] /\ d # c
      BY <1>2, <1>3, <1>4, <1>22 DEF IInv, TypeOK, NetTypes
    <3>2. Fresh(d)
      BY <1>5, <3>1 DEF WaitingInv
    <3>3. Fresh(d)'
      BY <1>19, <1>20, <3>1, <3>2 DEF Fresh
    <3>4. Spoken(backlog[a])' = Spoken(d)' /\ LinesRead(backlog[a])' = LinesRead(d)'
      BY <3>1 DEF Spoken, LinesRead
    <3> QED
      BY <3>3, <3>4 DEF Fresh
  <2> QED
    BY <1>2, <2>1 DEF WaitingInv
<1>24. IdleInv'
  <2>1. \A d \in Conns : peer[d] = "idle" => d # c
    BY <1>3, <1>4 DEF IInv, QueueInv
  <2> QED
    BY <1>2, <1>5, <1>15, <1>19, <2>1 DEF IdleInv, Silent
<1>25. \A g \in Registered : g \in Fds /\ g \in Slots /\ (g # f => sock[g] # c)
  <2> TAKE g \in Registered
  <2>1. g \in Fds /\ g \in Slots /\ sock[g] \in Conns
    BY <1>2, RegisteredSock
  <2>2. NULL \notin Conns
    BY ServerAssumption
  <2> QED
    BY <1>3, <1>4, <2>1, <2>2 DEF IInv, TableInv, OneFdEach
<1>26. clients' = clients \/ clients' = [clients EXCEPT ![f].name = Chosen(NameArg(line))]
  BY <1>16 DEF Rename, Unsupported, Say
<1>27. Registered' \subseteq Registered /\ \A g \in Slots : g # f => clients'[g] = clients[g]
  BY <1>3, <1>6, <1>26 DEF Registered
<1>28. ASSUME NEW g \in Registered, g # f
       PROVE  \E default \in DefaultNames(g) : Faithful(g, default)'
  <2>1. PICK default \in DefaultNames(g) : Faithful(g, default)
    BY <1>5 DEF NamesInv
  <2>2. PICK d \in Conns : d = sock[g] /\ d = sock'[g] /\ d # c
    BY <1>2, <1>25, <1>28, RegisteredSock
  <2>3. clients'[g] = clients[g]
    BY <1>25, <1>27, <1>28
  <2>4. /\ Spoken(sock[g])' = Spoken(d)' /\ LinesRead(sock[g])' = LinesRead(d)'
        /\ TextsRead(sock[g])' = TextsRead(d)'
        /\ Meant(sock[g], default)' = Meant(d, default)'
    BY <2>2 DEF Spoken, LinesRead, TextsRead, Meant
  <2>5. Faithful(g, default)'
    BY <1>2, <1>19, <1>20, <1>21, <2>1, <2>2, <2>3, <2>4 DEF Faithful
  <2> QED
    BY <2>5
(* the reader *)
<1>29. PICK default \in DefaultNames(f) : Faithful(f, default)
  BY <1>3, <1>5 DEF NamesInv
<1>30. PICK M \in Nat : N - M = 1
  BY <1>7, <1>11
<1>31. LinesRead(c) = M /\ LinesRead(c)' = N
  BY <1>2, <1>7, <1>8, <1>10, <1>15, <1>30 DEF LinesRead
<1>32. PICK s : s = lines[c] /\ s = lines'[c] /\ line = s[N]
  BY <1>2, <1>11
<1>33. PICK R : R = TextsRead(c)
  OBVIOUS
<1>34. /\ R \in SUBSET (1 .. M)
       /\ TextsRead(c)' = IF IsText(line) THEN R \cup {N} ELSE R
  <2>1. R = {i \in 1 .. M : IsText(s[i])}
    BY <1>31, <1>32, <1>33 DEF TextsRead
  <2>2. TextsRead(c)' = {i \in 1 .. N : IsText(s[i])}
    BY <1>31, <1>32 DEF TextsRead
  <2>3. 1 .. N = (1 .. M) \cup {N}
    BY <1>30
  <2> QED
    BY <1>32, <2>1, <2>2, <2>3
<1>35. /\ clients[f].name = NameAfter(s, M, default)
       /\ LinesFit => Spoken(c) = Subsequence(Meant(c, default), R)
  BY <1>4, <1>29, <1>31, <1>32, <1>33 DEF Faithful
<1>36. /\ IsCommand(line) /\ IsNameCommand(line) <=> IsNaming(line)
       /\ IsNaming(line) => NameArg(line) = NameGiven(line)
  BY <1>10, <1>12, WholeLine
<1>37. IsText(line) <=> ~IsCommand(line)
  BY DEF IsText, IsCommand
<1> SUFFICES /\ clients'[f].name = NameAfter(s, N, default)
             /\ LinesFit => Spoken(c)' = Subsequence(Meant(c, default), TextsRead(c)')
  <2>1. /\ Spoken(sock[f])' = Spoken(c)' /\ LinesRead(sock[f])' = LinesRead(c)'
        /\ TextsRead(sock[f])' = TextsRead(c)'
        /\ Meant(sock[f], default)' = Meant(c, default)'
    BY <1>2, <1>4 DEF Spoken, LinesRead, TextsRead, Meant
  <2>2. sock'[f] = c /\ lines'[c] = s
    BY <1>2, <1>4, <1>32
  <2>3. Faithful(f, default)'
    BY <1>21, <1>31, <2>1, <2>2 DEF Faithful
  <2>4. NamesInv'
    BY <1>27, <1>28, <1>29, <2>3 DEF NamesInv
  <2> QED
    BY <1>23, <1>24, <2>4
<1>38. CASE Rename(f, line)
  <2>1. IsNaming(line) /\ ~IsText(line) /\ NameArg(line) = NameGiven(line)
    BY <1>36, <1>37, <1>38 DEF Rename
  <2>2. clients'[f].name = Chosen(NameGiven(line)) /\ room' = room
    BY <1>3, <1>6, <1>38, <2>1 DEF Rename, Registered, Client
  <2>3. NameAfter(s, N, default) = Chosen(NameGiven(line))
    BY <1>30, <1>32, <2>1, NameAfterNaming
  <2>4. Spoken(c)' = Spoken(c)
    BY <2>2 DEF Spoken
  <2> QED
    BY <1>34, <1>35, <2>1, <2>2, <2>3, <2>4
<1>39. CASE Unsupported(f, line)
  <2>1. ~IsNaming(line) /\ ~IsText(line) /\ clients' = clients /\ room' = room
    BY <1>36, <1>37, <1>39 DEF Unsupported
  <2>2. NameAfter(s, N, default) = NameAfter(s, M, default)
    BY <1>30, <1>32, <2>1, NameAfterOther
  <2>3. Spoken(c)' = Spoken(c)
    BY <2>1 DEF Spoken
  <2> QED
    BY <1>34, <1>35, <2>1, <2>2, <2>3
<1>40. CASE Say(f, line)
  <2> DEFINE name == clients[f].name
             m == ChatMessage(c, name, line)
  <2>1. /\ ~IsNaming(line) /\ IsText(line) /\ clients' = clients
        /\ room' = Append(room, m)
    BY <1>4, <1>36, <1>37, <1>40 DEF Say
  <2>2. NameAfter(s, N, default) = NameAfter(s, M, default)
    BY <1>30, <1>32, <2>1, NameAfterOther
  <2>3. name \in Name
    BY <1>3, <1>6 DEF Registered, Client
  <2>4. m \in Message /\ m.src = c
    BY <1>10, <2>3, ChatMessageType DEF ChatMessage
  <2>5. Spoken(c)' = Append(Spoken(c), m)
    BY <1>6, <2>1, <2>4, SaidByAppend DEF Spoken
  <2>6. ASSUME LinesFit PROVE m = Meant(c, default)[N]
    <3>1. NameLen(name) + Len(line) + 1 <= MSG_MAX /\ NameLen(name) \in Nat
      <4>1. CASE name = default
        <5>1. PICK t \in Residues : name = [user |-> f, text |-> t]
          BY <1>29, <4>1 DEF DefaultNames
        <5>2. f \in Nat /\ Len(t) \in Nat /\ Len(line) \in Nat
          BY <1>3, <1>10, ServerAssumption DEF Slots
        <5>3. NameLen(name) = Len(t) + 1
          BY <5>1, <5>2 DEF NameLen
        <5>4. Len(t) + Len(line) + 2 <= MSG_MAX
          BY <1>11, <2>1, <2>6, <5>1 DEF LinesFit
        <5> QED
          BY <5>2, <5>3, <5>4, ServerAssumption
      <4>2. CASE \E i \in 1 .. M : IsNaming(s[i]) /\ name = Chosen(NameGiven(s[i]))
        <5>1. PICK i \in 1 .. M : IsNaming(s[i]) /\ name = Chosen(NameGiven(s[i]))
          BY <4>2
        <5>2. i \in 1 .. Len(s) /\ s[i] \in Lines /\ s[i] \in Seq(Tokens)
          <6>1. i \in 1 .. Len(s)
            BY <1>7, <1>30, <1>32
          <6>2. s \in Seq(Lines)
            BY <1>6, <1>32
          <6>3. s[i] \in Lines
            BY <6>1, <6>2
          <6> QED
            BY <6>1, <6>3, ServerAssumption
        <5>3. Len(NameGiven(s[i])) + Len(line) + 1 <= MSG_MAX
          BY <1>11, <2>1, <2>6, <5>1, <5>2 DEF LinesFit
        <5>4. NameGiven(s[i]) \in Seq(Tokens)
          <6>1. PICK u \in Seq(Tokens) : u = s[i]
            BY <5>2
          <6>2. PICK K : K = {h \in 3 .. Len(u) : u[h] \notin Eol}
            OBVIOUS
          <6>3. K \in SUBSET (1 .. Len(u)) /\ Len(u) \in Nat /\ \A h \in K : u[h] \in Tokens
            BY <6>2
          <6>4. Subsequence(u, K) \in Seq(Tokens)
            BY <6>3, SubsequenceType
          <6> QED
            BY <6>1, <6>2, <6>4 DEF NameGiven
        <5>5. NameLen(name) = Len(NameGiven(s[i]))
          BY <5>1, <5>4 DEF NameLen, Chosen
        <5> QED
          BY <5>3, <5>4, <5>5
      <4> QED
        BY <1>30, <1>35, <4>1, <4>2, NameAfterFrom
    <3>2. PICK left : left = MSG_MAX - NameLen(name) - 1
      OBVIOUS
    <3>3. left \in Int /\ Len(line) <= left /\ Len(line) \in Nat
      BY <1>10, <3>1, <3>2, ServerAssumption
    <3>4. Truncate(line, left) = SubSeq(line, 1, Len(line))
      BY <3>3 DEF Truncate
    <3>5. SubSeq(line, 1, Len(line)) = line
      BY <1>10
    <3>6. m = [kind |-> "chat", src |-> c, name |-> name, body |-> line]
      BY <3>2, <3>4, <3>5 DEF ChatMessage
    <3>7. Meant(c, default)[N]
            = [kind |-> "chat", src |-> c, name |-> NameAfter(s, N, default), body |-> line]
      BY <1>7, <1>11, <1>32 DEF Meant
    <3> QED
      BY <1>35, <2>2, <3>6, <3>7
  <2> HIDE DEF name, m
  <2>7. N = M + 1
    BY <1>30
  <2>8. Subsequence(Meant(c, default), R \cup {N})
          = Append(Subsequence(Meant(c, default), R), Meant(c, default)[N])
    BY <1>34, <2>7, SubsequenceNext
  <2> QED
    BY <1>34, <1>35, <2>1, <2>2, <2>5, <2>6, <2>8
<1> QED
  BY <1>16, <1>38, <1>39, <1>40

(* Nothing else sends, reads or renames. *)
LEMMA LineStep ==
  ASSUME LineByLine
  PROVE  IInv /\ LineInv /\ [Next]_vars => LineInv'
<1> SUFFICES ASSUME IInv, LineInv, [Next]_vars PROVE LineInv'
  OBVIOUS
<1>1. CASE Welcome \/ Reply \/ BroadcastWrite
  <2>1. UNCHANGED <<up, sock, backlog, peer>>
    BY <1>1, Zenon DEF Welcome, Reply, BroadcastWrite, Write
  <2>2. exit = "none" /\ UNCHANGED <<clients, room, lines>>
    BY <1>1 DEF Welcome, Reply, BroadcastWrite, At, table, history
  <2> QED
    BY <2>1, <2>2, LineFrame DEF Registered
<1>2. CASE InitChat \/ Select \/ AcceptFails \/ BroadcastDone \/ ScanDone
  <2>1. exit = "none" /\ UNCHANGED <<up, sock, backlog, peer, clients, room, lines>>
    BY <1>2
    DEF InitChat, Select, AcceptFails, BroadcastDone, ScanDone, At, table, net, history
  <2> QED
    BY <2>1, LineFrame DEF Registered
<1>3. CASE Disconnect
  <2>1. exit = "none" /\ pc = "scan" /\ UNCHANGED <<up, room, lines, backlog, peer>>
    BY <1>3 DEF Disconnect, At, history
  <2>2. PICK f \in ScanSet : freeClient(f)
    BY <1>3 DEF Disconnect
  <2>3. /\ clients' = [clients EXCEPT ![f] = NULL] /\ clients \in [Slots -> Client \cup {NULL}]
        /\ sock' = [sock EXCEPT ![f] = NULL] /\ sock \in [Fds -> Conns \cup {NULL}]
    BY <2>2 DEF freeClient, IInv, TypeOK, ServerTypes, NetTypes
  <2>4. ASSUME NEW g \in Registered'
        PROVE  g \in Registered /\ sock'[g] = sock[g] /\ clients'[g].name = clients[g].name
    <3>1. g \in Slots /\ g # f
      BY <2>3 DEF Registered
    <3>2. g \in Registered /\ clients'[g] = clients[g]
      BY <2>3, <3>1 DEF Registered
    <3>3. g \in Fds
      BY <2>1, <3>2, RegisteredSock
    <3> QED
      BY <2>3, <3>1, <3>2, <3>3
  <2> QED
    BY <2>1, <2>4, LineFrame
<1>4. ASSUME NEW c \in Conns, PeerRead(c) \/ PeerClose(c) \/ PeerAbort(c)
      PROVE  LineInv'
  <2>1. exit = "none" /\ UNCHANGED <<up, sock, backlog, clients, room, lines>>
    BY <1>4 DEF PeerRead, PeerClose, PeerAbort, server, history, LineByLine
  <2>2. \A d \in Conns : peer'[d] = "idle" => peer[d] = "idle"
    <3>1. peer' = peer \/ peer' = [peer EXCEPT ![c] = "closed"]
      BY <1>4 DEF PeerRead, PeerClose, PeerAbort
    <3> QED
      BY <3>1 DEF IInv, TypeOK, NetTypes
  <2> QED
    BY <2>1, <2>2, LineFrame DEF Registered
<1>5. CASE Exited \/ UNCHANGED vars
  <2>1. UNCHANGED <<exit, up, sock, backlog, peer, clients, room, lines>>
    BY <1>5 DEF Exited, vars, server, net, history
  <2> QED
    BY <2>1, LineFrame DEF Registered
<1> QED
  BY <1>1, <1>2, <1>3, <1>4, <1>5, ReadLines, AcceptLines, ConnectLines, SendLines
  DEF Next, Server, Peers

-----------------------------------------------------------------------------
(* The theorems about lines. *)

(* The line-by-line peers and what is known of their lines, at every moment. *)
LEMMA LinesInvariance ==
  ASSUME LineByLine
  PROVE  Spec => []LineInv
  BY InitLines, LineStep, Invariance, PTL DEF Spec

(* When peers send whole lines, one at a time, a client is known by the name its last
   "/name" line gave as soon as that line was read, whatever slot it sits in and
   whatever the others say or are called. *)
THEOREM Names ==
  ASSUME LineByLine
  PROVE  Spec => []NameHonoured
<1>1. LineInv => NameHonoured
  BY DEF LineInv, NamesInv, Faithful, LinesRead, NameHonoured
<1> QED
  BY <1>1, LinesInvariance, PTL

(* If no text line is longer than msg[] has room for behind the names in use, the
   messages of a connection are its text lines that were read, whole, in order and each
   under the name chosen last before it. *)
THEOREM LinesKept ==
  ASSUME LineByLine, LinesFit
  PROVE  Spec => []LineFidelity
<1>1. LineInv => LineFidelity
  BY DEF LineInv, NamesInv, Faithful, LineFidelity
<1> QED
  BY <1>1, LinesInvariance, PTL

-----------------------------------------------------------------------------
(* Turns.  The rounds of the main loop give every connection its turn. *)

LEMMA OnceType == ASSUME NEW d PROVE Once(d) \in {0, 1}
BY DEF Once

(* The queue of what is known to be waiting is a sequence, and a registered connection
   is not in it. *)
LEMMA NotInQueue ==
  ASSUME IInv, exit = "none", NEW f \in Registered, NEW a \in DOMAIN backlog
  PROVE  backlog[a] # sock[f] /\ a \in 1 .. Len(backlog) /\ Len(backlog) \in Nat
<1>1. f \in Fds
  BY RegisteredSock
<1>2. backlog \in Seq(Conns)
  BY DEF IInv, TypeOK, NetTypes
<1> QED
  BY <1>1, <1>2 DEF IInv, QueueInv

LEMMA InitTurns == TurnInit => TurnInv
<1> SUFFICES ASSUME TurnInit PROVE TurnInv
  OBVIOUS
<1>1. passed \in [Conns -> [Conns -> Nat]] /\ \A c, d \in Conns : passed[c][d] = 0
  BY DEF TurnInit, None
<1>2. Registered = {} /\ backlog = <<>> /\ readfds = {} /\ j = 0
  BY DEF TurnInit, Init, Registered
<1> QED
  BY <1>1, <1>2 DEF TurnInv, PassedInQueue, PassedInTable, NonePassed

(* Steps that serve nobody, add nobody and leave the round as it is. *)
LEMMA TurnFrame ==
  ASSUME IInv, TurnInv, UNCHANGED <<passed, backlog, sock, clients>>,
         exit' = "none" => exit = "none" /\ Pending' = Pending,
         exit' = "none" /\ pc = "accept" => pc' = "accept",
         pc' \in {"init", "select"} => readfds' = {} /\ j' = 0,
         \A c \in Conns : Readable(c) => Readable(c)'
  PROVE  TurnInv'
<1>1. passed' \in [Conns -> [Conns -> Nat]]
  BY DEF TurnInv
<1>2. ASSUME exit' = "none", NEW c \in Conns, NEW d \in Conns
      PROVE  PassedInQueue(c, d)' /\ PassedInTable(c, d)' /\ NonePassed(c, d)'
  <2>1. /\ exit = "none" /\ Registered' = Registered
        /\ PassedInQueue(c, d) /\ PassedInTable(c, d) /\ NonePassed(c, d)
    BY <1>2 DEF TurnInv, Registered
  <2>2. Once(d)' = Once(d)
    BY <1>2 DEF Once, ToRead
  <2>3. PassedInQueue(c, d)'
    <3> SUFFICES ASSUME NEW a \in DOMAIN backlog, backlog[a] = c
                 PROVE  passed[c][d] <= BACKLOG - a
                                         + (IF pc' = "accept" THEN 1 ELSE Once(d)')
      BY DEF PassedInQueue
    <3>1. passed[c][d] <= BACKLOG - a + (IF pc = "accept" THEN 1 ELSE Once(d))
      BY <2>1 DEF PassedInQueue
    <3>2. passed[c][d] \in Nat /\ BACKLOG \in Nat /\ a \in Int
      BY ServerAssumption DEF TurnInv, IInv, TypeOK, NetTypes
    <3> QED
      BY <1>2, <2>2, <3>1, <3>2, OnceType
  <2>4. PassedInTable(c, d)'
    BY <1>2, <2>1, <2>2 DEF PassedInTable
  <2>5. NonePassed(c, d)'
    BY <2>1 DEF NonePassed, Waiting, Queued
  <2> QED
    BY <2>3, <2>4, <2>5
<1> QED
  BY <1>1, <1>2 DEF TurnInv

(* A connection that has just been made is the last of the queue and has seen nobody
   pass. *)
LEMMA ConnectTurns ==
  ASSUME IInv, TurnInv, NEW e \in Conns, PeerConnect(e), UNCHANGED passed
  PROVE  TurnInv'
<1>1. /\ exit = "none" /\ peer[e] = "idle" /\ Len(backlog) < BACKLOG
      /\ backlog' = Append(backlog, e)
      /\ UNCHANGED <<server, sock, up, link>>
  BY DEF PeerConnect
<1>2. UNCHANGED <<pc, exit, clients, readfds, j>>
  BY <1>1 DEF server
<1>3. /\ backlog \in Seq(Conns) /\ Len(backlog) \in Nat /\ BACKLOG \in Nat
      /\ passed \in [Conns -> [Conns -> Nat]]
  BY ServerAssumption DEF IInv, TypeOK, NetTypes, TurnInv
<1>4. /\ DOMAIN backlog' = 1 .. Len(backlog) + 1
      /\ backlog'[Len(backlog) + 1] = e
      /\ \A a \in DOMAIN backlog : a \in DOMAIN backlog' /\ backlog'[a] = backlog[a]
      /\ DOMAIN backlog = 1 .. Len(backlog)
  <2>1. PICK n \in Nat : n = Len(backlog)
    BY <1>3
  <2>2. DOMAIN backlog = 1 .. n
    BY <1>3, <2>1
  <2>3. backlog' \in Seq(Conns) /\ Len(backlog') = n + 1
    BY <1>1, <1>3, <2>1
  <2>4. DOMAIN backlog' = 1 .. n + 1
    BY <2>3
  <2>5. backlog'[n + 1] = e /\ \A a \in 1 .. n : backlog'[a] = backlog[a]
    BY <1>1, <1>3, <2>1
  <2>6. \A a \in 1 .. n : a \in 1 .. n + 1
    OBVIOUS
  <2> QED
    BY <2>1, <2>2, <2>4, <2>5, <2>6
<1>5. ~Waiting(e)
  <2>1. \A f \in Registered : f \in Fds
    BY <1>1, RegisteredSock
  <2> QED
    BY <1>1, <1>4, <2>1 DEF IInv, QueueInv, Waiting, Queued
<1>6. Registered' = Registered /\ Pending' = Pending
  BY <1>2 DEF Registered, Pending
<1>7. ASSUME NEW c \in Conns, NEW d \in Conns
      PROVE  PassedInQueue(c, d)' /\ PassedInTable(c, d)' /\ NonePassed(c, d)'
  <2>1. PassedInQueue(c, d) /\ PassedInTable(c, d) /\ NonePassed(c, d)
    BY <1>1 DEF TurnInv
  <2>2. Once(d)' = Once(d)
    BY <1>1, <1>6 DEF Once, ToRead
  <2>3. passed[c][d] \in Nat /\ Once(d) \in {0, 1}
    BY <1>3, OnceType
  <2>4. PassedInQueue(c, d)'
    <3> SUFFICES ASSUME NEW a \in DOMAIN backlog', backlog'[a] = c
                 PROVE  passed[c][d] <= BACKLOG - a
                                         + (IF pc = "accept" THEN 1 ELSE Once(d))
      BY <1>2, <2>2 DEF PassedInQueue
    <3>1. CASE a \in DOMAIN backlog
      BY <1>4, <2>1, <3>1 DEF PassedInQueue
    <3>2. CASE a = Len(backlog) + 1
      <4>1. passed[c][d] = 0
        BY <1>4, <1>5, <2>1, <3>2 DEF NonePassed
      <4> QED
        BY <1>1, <1>3, <2>3, <3>2, <4>1
    <3>3. a \in 1 .. Len(backlog) \/ a = Len(backlog) + 1
      <4>1. a \in 1 .. Len(backlog) + 1
        BY <1>4
      <4> QED
        BY <1>3, <4>1
    <3> QED
      BY <1>4, <3>1, <3>2, <3>3
  <2>5. PassedInTable(c, d)'
    BY <1>1, <1>6, <2>1, <2>2 DEF PassedInTable
  <2>6. NonePassed(c, d)'
    <3>1. Waiting(c) => Waiting(c)'
      BY <1>1, <1>4, <1>6 DEF Waiting, Queued, Readable
    <3> QED
      BY <2>1, <3>1 DEF NonePassed
  <2> QED
    BY <2>4, <2>5, <2>6
<1> QED
  BY <1>1, <1>2, <1>3, <1>7 DEF TurnInv

(* select() begins a round: every client that is readable is to be read in it, and
   the queue is served first. *)
LEMMA SelectTurns ==
  ASSUME IInv, TurnInv, Select, UNCHANGED passed
  PROVE  TurnInv'
<1>1. /\ exit = "none" /\ pc = "select" /\ readfds = {} /\ j = 0
      /\ UNCHANGED <<clients, j, sock, backlog, up, link>>
  BY DEF Select, At, TurnInv, table, net
<1>2. passed' \in [Conns -> [Conns -> Nat]]
  BY DEF TurnInv
<1>3. CASE exit' # "none"
  BY <1>1, <1>2, <1>3 DEF Select, TurnInv
<1>4. CASE exit' = "none"
  <2>1. /\ readfds' = Ready
        /\ pc' = CASE Ready = {} -> "select"
                   [] serversock \in Ready -> "accept"
                   [] OTHER -> "scan"
    BY <1>4 DEF Select
  <2>2. pc' \notin {"init", "select", "reply", "broadcast"} \/ readfds' = {}
    BY <2>1
  <2>3. Registered' = Registered /\ Pending = {} /\ \A d : Once(d) = 1
    BY <1>1 DEF Registered, Pending, Once, ToRead
  <2>4. ASSUME NEW f \in Registered, Readable(sock[f]) PROVE f \in Pending'
    <3>1. f \in Slots /\ f # serversock /\ f <= maxclient /\ f \in Int /\ f >= 0
      BY ServerAssumption DEF IInv, TableInv, MaxMatches, SlotInv, Registered, Slots
    <3>2. f \in SelectSet
      BY <3>1 DEF SelectSet, Registered, IInv, TypeOK, ServerTypes
    <3>3. f \in Ready
      BY <2>4, <3>2 DEF Ready
    <3> QED
      BY <1>1, <2>1, <2>2, <3>1, <3>3 DEF Pending
  <2>5. ASSUME NEW c \in Conns, NEW d \in Conns
        PROVE  PassedInQueue(c, d)' /\ PassedInTable(c, d)' /\ NonePassed(c, d)'
    <3>1. PassedInQueue(c, d) /\ PassedInTable(c, d) /\ NonePassed(c, d)
      BY <1>1 DEF TurnInv
    <3>2. passed[c][d] \in Nat /\ Once(d)' \in {0, 1}
      BY DEF TurnInv, Once
    <3>3. PassedInQueue(c, d)'
      <4> SUFFICES ASSUME NEW a \in DOMAIN backlog, backlog[a] = c
                   PROVE  passed[c][d] <= BACKLOG - a
                                           + (IF pc' = "accept" THEN 1 ELSE Once(d)')
        BY <1>1 DEF PassedInQueue
      <4>1. passed[c][d] <= BACKLOG - a + 1
        BY <1>1, <2>3, <3>1 DEF PassedInQueue
      <4>2. serversock \in Ready
        BY DEF Ready
      <4> QED
        BY <2>1, <4>1, <4>2
    <3>4. PassedInTable(c, d)'
      <4> SUFFICES ASSUME NEW f \in Registered, sock[f] = c
                   PROVE  passed[c][d] <= Once(d)' + (IF f \in Pending' THEN 1 ELSE 0)
        BY <1>1, <2>3 DEF PassedInTable
      <4>1. CASE Readable(c)
        <5>1. passed[c][d] <= 1 + 0
          BY <2>3, <3>1 DEF PassedInTable
        <5>2. f \in Pending'
          BY <2>4, <4>1
        <5> QED
          BY <3>2, <5>1, <5>2
      <4>2. CASE ~Readable(c)
        <5>1. ~Queued(c)
          BY <1>1, NotInQueue DEF Queued
        <5>2. ~Waiting(c)
          BY <4>2, <5>1 DEF Waiting
        <5>3. passed[c][d] = 0
          BY <3>1, <5>2 DEF NonePassed
        <5> QED
          BY <3>2, <5>3
      <4> QED
        BY <4>1, <4>2
    <3>5. NonePassed(c, d)'
      BY <1>1, <2>3, <3>1 DEF NonePassed, Waiting, Queued, Readable
    <3> QED
      BY <3>3, <3>4, <3>5
  <2> QED
    BY <1>1, <1>2, <2>2, <2>5 DEF TurnInv
<1> QED
  BY <1>3, <1>4

(* accept() takes the head of the queue; the others move up. *)
LEMMA AcceptTurns ==
  ASSUME IInv, TurnInv, AcceptServes
  PROVE  TurnInv'
<1> DEFINE e == Head(backlog)
<1>1. /\ exit = "none" /\ pc = "accept" /\ backlog # <<>>
      /\ passed' = [passed EXCEPT ![e] = None]
      /\ UNCHANGED <<readfds, j, up, link>>
  BY DEF AcceptServes, Accept, At, IInv, ReadyInv
<1>2. PICK f \in FreeFds :
        /\ sock' = [sock EXCEPT ![f] = e]
        /\ backlog' = Tail(backlog)
        /\ exit' \in CreateOutcome(f)
        /\ IF exit' = "none" THEN createClient(f) /\ pc' = "welcome"
           ELSE UNCHANGED <<pc, fd, table, joined>>
  BY DEF AcceptServes, Accept, acceptClient
<1>3. /\ backlog \in Seq(Conns) /\ Len(backlog) \in Nat \ {0} /\ BACKLOG \in Nat
      /\ passed \in [Conns -> [Conns -> Nat]] /\ e \in Conns
      /\ sock \in [Fds -> Conns \cup {NULL}] /\ f \in Fds /\ sock[f] = NULL
  BY <1>1, ServerAssumption DEF IInv, TypeOK, NetTypes, TurnInv, FreeFds
<1>4. passed' \in [Conns -> [Conns -> Nat]]
  BY <1>1, <1>3 DEF None
<1>5. pc' \notin {"init", "select"}
  BY <1>1, <1>2
<1>6. CASE exit' # "none"
  BY <1>4, <1>5, <1>6 DEF TurnInv
<1>7. CASE exit' = "none"
  <2>1. createClient(f) /\ pc' = "welcome"
    BY <1>2, <1>7
  <2>2. f \in Slots /\ clients[f] = NULL
    BY <1>2, <1>7 DEF CreateOutcome, chatMalloc
  <2>3. Registered' = Registered \cup {f} /\ f \notin Registered
    BY <2>1, <2>2, CreateAdds DEF IInv, TableInv, Registered
  <2>4. Pending' = Pending /\ f \notin Pending
    BY <1>1, <2>1, <2>3 DEF Pending, IInv, ReadyInv
  <2>5. \A g \in Fds : sock'[g] = IF g = f THEN e ELSE sock[g]
    BY <1>2, <1>3
  <2>6. /\ \A a \in DOMAIN backlog' :
             /\ a \in Nat \ {0} /\ a + 1 \in DOMAIN backlog
             /\ backlog'[a] = backlog[a + 1]
        /\ \A a \in DOMAIN backlog : a # 1 => a - 1 \in DOMAIN backlog' /\ backlog'[a - 1] = backlog[a]
        /\ backlog[1] = e /\ 1 \in DOMAIN backlog
    <3>1. PICK n \in Nat : n + 1 = Len(backlog)
      <4>1. Len(backlog) - 1 \in Nat /\ Len(backlog) - 1 + 1 = Len(backlog)
        BY <1>3
      <4> QED
        BY <4>1
    <3>2. DOMAIN backlog = 1 .. n + 1
      BY <1>3, <3>1
    <3>3. Tail(backlog) \in Seq(Conns) /\ Len(Tail(backlog)) = n
      BY <1>1, <1>3, <3>1
    <3>4. DOMAIN backlog' = 1 .. n
      BY <1>2, <3>3
    <3>5. \A a \in 1 .. n : backlog'[a] = backlog[a + 1]
      BY <1>1, <1>2, <1>3, <3>1
    <3>6. \A a \in 1 .. n + 1 : a # 1 => a - 1 \in 1 .. n /\ a - 1 + 1 = a
      OBVIOUS
    <3>7. \A a \in 1 .. n : a \in Nat \ {0} /\ a + 1 \in 1 .. n + 1
      OBVIOUS
    <3>8. backlog[1] = e /\ 1 \in 1 .. n + 1
      BY <1>1, <1>3
    <3> QED
      BY <3>2, <3>4, <3>5, <3>6, <3>7, <3>8
  <2>7. ASSUME NEW c \in Conns, NEW d \in Conns
        PROVE  PassedInQueue(c, d)' /\ PassedInTable(c, d)' /\ NonePassed(c, d)'
    <3>1. PassedInQueue(c, d) /\ PassedInTable(c, d) /\ NonePassed(c, d)
      BY <1>1 DEF TurnInv
    <3>2. passed'[c][d] = IF c = e THEN 0 ELSE passed[c][d]
      BY <1>1, <1>3 DEF None
    <3>3. passed[c][d] \in Nat /\ passed'[c][d] \in Nat /\ Once(d)' \in {0, 1}
      BY <1>3, <1>4 DEF Once
    <3>4. Once(d)' = Once(d)
      <4>1. \A g \in Pending : g \in Registered /\ g \in Fds /\ g # f
        BY <1>1, <2>4, RegisteredSock DEF IInv, ReadyInv
      <4> QED
        BY <2>4, <2>5, <4>1 DEF Once, ToRead
    <3>5. PassedInQueue(c, d)'
      <4> SUFFICES ASSUME NEW a \in DOMAIN backlog', backlog'[a] = c
                   PROVE  passed'[c][d] <= BACKLOG - a + Once(d)'
        BY <2>1 DEF PassedInQueue
      <4>1. a \in Nat \ {0} /\ a + 1 \in DOMAIN backlog /\ backlog[a + 1] = c
        BY <2>6
      <4>2. c # e
        <5>1. PICK b \in DOMAIN backlog : b = a + 1
          BY <4>1
        <5>2. b # 1
          BY <4>1, <5>1
        <5>3. b \in 1 .. Len(backlog) /\ 1 \in 1 .. Len(backlog)
          <6>1. DOMAIN backlog = 1 .. Len(backlog)
            BY <1>3
          <6> QED
            BY <2>6, <5>1, <6>1
        <5>4. backlog[b] # backlog[1]
          BY <5>2, <5>3 DEF IInv, QueueInv
        <5> QED
          BY <2>6, <4>1, <5>1, <5>4
      <4>3. passed[c][d] <= BACKLOG - (a + 1) + 1
        BY <1>1, <3>1, <4>1 DEF PassedInQueue
      <4>4. BACKLOG - (a + 1) + 1 = BACKLOG - a
        BY <1>3, <4>1
      <4> QED
        <5>1. PICK x \in Int : x = BACKLOG - a
          BY <1>3, <4>1
        <5>2. passed'[c][d] <= x
          BY <3>2, <4>2, <4>3, <4>4, <5>1
        <5> QED
          BY <3>3, <5>1, <5>2
    <3>6. PassedInTable(c, d)'
      <4> SUFFICES ASSUME NEW g \in Registered', sock'[g] = c
                   PROVE  passed'[c][d] <= Once(d)' + (IF g \in Pending' THEN 1 ELSE 0)
        BY DEF PassedInTable
      <4>1. CASE c = e
        BY <3>2, <3>3, <4>1
      <4>2. CASE c # e
        <5>1. g # f
          BY <1>3, <2>5, <4>2
        <5>2. g \in Registered /\ g \in Fds
          BY <1>1, <2>3, <5>1, RegisteredSock
        <5>3. sock[g] = c
          BY <2>5, <5>1, <5>2
        <5> QED
          BY <2>4, <3>1, <3>2, <3>4, <4>2, <5>2, <5>3 DEF PassedInTable
      <4> QED
        BY <4>1, <4>2
    <3>7. NonePassed(c, d)'
      <4> SUFFICES ASSUME c # e, Waiting(c) PROVE Waiting(c)'
        BY <3>1, <3>2 DEF NonePassed
      <4>1. Queued(c) => Queued(c)'
        BY <2>6 DEF Queued
      <4>2. ASSUME NEW g \in Registered, sock[g] = c, Readable(c)
            PROVE  g \in Registered' /\ sock'[g] = c /\ Readable(c)'
        <5>1. g \in Fds /\ g # f
          BY <1>1, <2>3, RegisteredSock
        <5> QED
          BY <1>1, <2>3, <2>5, <4>2, <5>1 DEF Readable
      <4> QED
        BY <4>1, <4>2 DEF Waiting
    <3> QED
      BY <3>5, <3>6, <3>7
  <2> QED
    BY <1>4, <1>5, <2>7 DEF TurnInv
<1> QED
  BY <1>6, <1>7

(* A read() gives one client its turn: the round goes on with all the others that it
   has still to read. *)
LEMMA ReadGoesOn ==
  ASSUME IInv, ReadText \/ Disconnect,
         NEW f \in ScanSet, IsLowest(f, ScanSet)
  PROVE  /\ exit = "none" /\ pc = "scan" /\ f \in Registered /\ f \in Pending
         /\ backlog' = backlog /\ pc' \in {"scan", "reply", "broadcast"}
         /\ exit' = "none" => Pending' = Pending \ {f}
         /\ \A g \in Registered' : /\ g \in Registered /\ sock'[g] = sock[g]
                                   /\ sock[g] = sock[f] => g = f
         /\ \A g \in Registered : g # f => g \in Registered' /\ sock'[g] = sock[g]
         /\ \A c \in Conns : c # sock[f] => Readable(c)' = Readable(c)
<1>1. /\ exit = "none" /\ pc = "scan" /\ f \in Registered /\ f \in Pending /\ f >= j
      /\ backlog' = backlog /\ readfds' = readfds
  <2>1. exit = "none" /\ pc = "scan" /\ backlog' = backlog /\ readfds' = readfds
    BY DEF ReadText, Disconnect, At
  <2> QED
    BY <2>1, ScanSetRegistered
<1>2. sock[f] \in Conns /\ f \in Slots /\ f \in Fds
  BY <1>1, RegisteredSock
<1>3. \A g \in ScanSet : f <= g
  BY DEF IsLowest
<1>4. /\ sock \in [Fds -> Conns \cup {NULL}] /\ clients \in [Slots -> Client \cup {NULL}]
      /\ up \in [Conns -> Seq(Tokens)] /\ NULL \notin Client /\ NULL \notin Conns
  BY ServerAssumption DEF IInv, TypeOK, NetTypes, ServerTypes, Client, Name
<1>5. \A g \in Fds : sock[g] = sock[f] => g = f
  BY <1>2, <1>4 DEF IInv, TableInv, OneFdEach
<1>6. /\ \/ pc' = "scan" /\ j' = f + 1
         \/ pc' \in {"reply", "broadcast"} /\ j' = f
      /\ link' = link
      /\ \A c \in Conns : c # sock[f] => up'[c] = up[c]
      /\ \/ sock' = sock /\ Registered' = Registered
         \/ sock' = [sock EXCEPT ![f] = NULL] /\ Registered' = Registered \ {f}
  <2>1. CASE ReadText
    <3>1. PICK g \in ScanSet : \E n \in ReadSizes(sock[g]) :
            /\ IsLowest(g, ScanSet)
            /\ up' = [up EXCEPT ![sock[g]] = SubSeq(@, n + 1, Len(@))]
            /\ LET chunk == SubSeq(up[sock[g]], 1, n)
               IN  Rename(g, chunk) \/ Unsupported(g, chunk) \/ Say(g, chunk)
      BY <2>1 DEF ReadText
    <3>2. PICK n \in ReadSizes(sock[g]) :
            /\ IsLowest(g, ScanSet)
            /\ up' = [up EXCEPT ![sock[g]] = SubSeq(@, n + 1, Len(@))]
            /\ LET chunk == SubSeq(up[sock[g]], 1, n)
               IN  Rename(g, chunk) \/ Unsupported(g, chunk) \/ Say(g, chunk)
      BY <3>1
    <3>3. g = f
      <4>1. g <= f /\ f <= g /\ g \in Int /\ f \in Int
        <5>1. g \in Registered
          BY <1>1, ScanSetRegistered
        <5>2. g \in Slots
          BY <1>1, <5>1, RegisteredSock
        <5> QED
          BY <1>2, <1>3, <3>2, <5>2, ServerAssumption DEF IsLowest, Slots
      <4> QED
        BY <4>1
    <3>4. /\ \/ pc' = "scan" /\ j' = f + 1
             \/ pc' \in {"reply", "broadcast"} /\ j' = f
          /\ \/ clients' = clients
             \/ clients' = [clients EXCEPT ![f].name
                              = Chosen(NameArg(SubSeq(up[sock[f]], 1, n)))]
      BY <1>1, <3>2, <3>3 DEF Rename, Unsupported, Say
    <3>5. Registered' = Registered
      <4>1. NameArg(SubSeq(up[sock[f]], 1, n)) \in Seq(Tokens)
        <5>1. n \in 1 .. Len(up[sock[f]]) /\ up[sock[f]] \in Seq(Tokens)
          BY <1>2, <1>4, <3>2, <3>3 DEF ReadSizes
        <5>2. SubSeq(up[sock[f]], 1, n) \in Seq(Tokens)
          BY <5>1
        <5> QED
          BY <5>2, NameArgType
      <4>2. Chosen(NameArg(SubSeq(up[sock[f]], 1, n))) \in Name
        BY <4>1 DEF Chosen, Name
      <4>3. clients[f] \in Client
        BY <1>1, <1>4 DEF Registered
      <4>4. clients'[f] \in Client /\ \A h \in Slots : h # f => clients'[h] = clients[h]
        BY <1>2, <1>4, <3>4, <4>2, <4>3 DEF Client
      <4> QED
        BY <1>1, <1>2, <1>4, <4>4 DEF Registered
    <3>6. sock' = sock /\ link' = link
      BY <2>1 DEF ReadText
    <3>7. \A c \in Conns : c # sock[f] => up'[c] = up[c]
      BY <1>2, <1>4, <3>2, <3>3
    <3> QED
      BY <3>4, <3>5, <3>6, <3>7
  <2>2. CASE Disconnect
    <3>1. PICK g \in ScanSet : IsLowest(g, ScanSet) /\ freeClient(g) /\ j' = g + 1
      BY <2>2 DEF Disconnect
    <3>2. pc' = "scan" /\ link' = link /\ up' = up
      BY <1>1, <2>2 DEF Disconnect
    <3>3. g = f
      <4>1. g <= f /\ f <= g /\ g \in Int /\ f \in Int
        <5>1. g \in Registered
          BY <1>1, ScanSetRegistered
        <5>2. g \in Slots
          BY <1>1, <5>1, RegisteredSock
        <5> QED
          BY <1>2, <1>3, <3>1, <5>2, ServerAssumption DEF IsLowest, Slots
      <4> QED
        BY <4>1
    <3>4. sock' = [sock EXCEPT ![f] = NULL] /\ Registered' = Registered \ {f}
      <4>1. clients' = [clients EXCEPT ![f] = NULL] /\ sock' = [sock EXCEPT ![f] = NULL]
        BY <3>1, <3>3 DEF freeClient
      <4> QED
        BY <1>4, <4>1 DEF Registered
    <3> QED
      BY <3>1, <3>2, <3>3, <3>4
  <2> QED
    BY <2>1, <2>2
<1>7. \A g \in Registered : g \in Fds
  BY <1>1, RegisteredSock
<1>8. ASSUME exit' = "none" PROVE Pending' = Pending \ {f}
  <2>1. \A g \in Pending : g \in Registered /\ g \in Int /\ g >= f
    <3> SUFFICES ASSUME NEW g \in Pending PROVE g \in Registered /\ g \in Int /\ g >= f
      OBVIOUS
    <3>1. g \in Registered /\ g \in readfds /\ g >= j
      BY <1>1 DEF IInv, ReadyInv, Pending
    <3>2. g \in Slots /\ g <= maxclient
      BY <3>1 DEF IInv, TableInv, MaxMatches, Registered
    <3>3. g \in j .. maxclient
      BY <3>1, <3>2, ServerAssumption DEF IInv, TypeOK, ServerTypes, Slots
    <3>4. g \in ScanSet
      BY <3>1, <3>3 DEF ScanSet, Registered
    <3> QED
      BY <1>2, <1>3, <3>1, <3>2, <3>4, ServerAssumption DEF Slots
  <2>2. f \in Int /\ j \in Int /\ readfds \subseteq Int
    BY <1>2, ServerAssumption DEF Slots, IInv, TypeOK, ServerTypes
  <2>3. Pending = {g \in readfds : g # serversock /\ g >= j}
    BY <1>1 DEF Pending
  <2>4. Pending' = {g \in readfds : g # serversock /\ g >= f /\ g # f}
    <3>1. CASE pc' = "scan" /\ j' = f + 1
      <4>1. \A g \in readfds : g >= f + 1 <=> g >= f /\ g # f
        BY <2>2
      <4> QED
        BY <1>1, <3>1, <4>1 DEF Pending
    <3>2. CASE pc' \in {"reply", "broadcast"} /\ j' = f
      BY <1>1, <3>2 DEF Pending
    <3> QED
      BY <1>6, <3>1, <3>2
  <2>5. \A g \in readfds : g >= f => g >= j
    BY <1>1, <2>2
  <2> QED
    BY <2>1, <2>3, <2>4, <2>5
<1>9. \A c \in Conns : c # sock[f] => Readable(c)' = Readable(c)
  BY <1>6 DEF Readable
<1>10. /\ \A g \in Registered' : /\ g \in Registered /\ sock'[g] = sock[g]
                                 /\ sock[g] = sock[f] => g = f
       /\ \A g \in Registered : g # f => g \in Registered' /\ sock'[g] = sock[g]
  BY <1>2, <1>4, <1>5, <1>6, <1>7
<1> QED
  BY <1>1, <1>6, <1>8, <1>9, <1>10

(* The client that was read has seen nobody pass since; for each of the others it is
   one more, but one that it has still to be read after in this round only if it was
   so before. *)
LEMMA ReadTurns ==
  ASSUME IInv, TurnInv, ReadPasses
  PROVE  TurnInv'
<1>1. PICK e \in Conns :
        /\ Reads(e)
        /\ ReadText \/ Disconnect
        /\ passed' = [c \in Conns |->
             IF c = e THEN None
             ELSE IF Waiting(c) THEN [passed[c] EXCEPT ![e] = @ + 1] ELSE passed[c]]
  BY DEF ReadPasses
<1>2. PICK f \in ScanSet : IsLowest(f, ScanSet) /\ sock[f] = e
  BY <1>1 DEF Reads
<1>3. /\ exit = "none" /\ pc = "scan" /\ f \in Registered /\ f \in Pending
      /\ backlog' = backlog /\ pc' \in {"scan", "reply", "broadcast"}
      /\ exit' = "none" => Pending' = Pending \ {f}
      /\ \A g \in Registered' : /\ g \in Registered /\ sock'[g] = sock[g]
                                /\ sock[g] = e => g = f
      /\ \A g \in Registered : g # f => g \in Registered' /\ sock'[g] = sock[g]
      /\ \A c \in Conns : c # e => Readable(c)' = Readable(c)
  BY <1>1, <1>2, ReadGoesOn
<1>4. passed \in [Conns -> [Conns -> Nat]] /\ BACKLOG \in Nat
  BY ServerAssumption DEF TurnInv
<1>5. \A c, d \in Conns :
        passed'[c][d] = IF c = e THEN 0
                        ELSE IF d = e /\ Waiting(c) THEN passed[c][d] + 1 ELSE passed[c][d]
  BY <1>1, <1>4 DEF None
<1>6. passed' \in [Conns -> [Conns -> Nat]]
  BY <1>1, <1>4 DEF None
<1>7. ASSUME exit' = "none" PROVE Once(e) = 0 /\ Once(e)' = 1
  <2>1. Once(e) = 0
    BY <1>2, <1>3 DEF Once, ToRead
  <2>2. ~ToRead(e)'
    <3> SUFFICES ASSUME NEW g \in Pending', sock'[g] = e PROVE FALSE
      BY DEF ToRead
    <3>1. g \in Registered' /\ g # f
      BY <1>3, <1>7, ReadTextStep, DisconnectStep, <1>1 DEF IInv, ReadyInv
    <3> QED
      BY <1>3, <3>1
  <2> QED
    BY <2>1, <2>2 DEF Once
<1>8. ASSUME exit' = "none", NEW d \in Conns, d # e PROVE Once(d)' = Once(d)
  <2>1. \A g \in Pending : g \in Registered
    BY <1>3 DEF IInv, ReadyInv
  <2>2. \A g \in Pending : g # f => g \in Pending' /\ sock'[g] = sock[g]
    BY <1>3, <1>8, <2>1
  <2>3. \A g \in Pending' : g \in Pending /\ g # f
    BY <1>3, <1>8
  <2>4. ToRead(d)' <=> ToRead(d)
    BY <1>2, <1>8, <2>2, <2>3 DEF ToRead
  <2> QED
    BY <2>4 DEF Once
<1>9. ASSUME exit' = "none", NEW c \in Conns, NEW d \in Conns
      PROVE  PassedInQueue(c, d)' /\ PassedInTable(c, d)' /\ NonePassed(c, d)'
  <2>1. PassedInQueue(c, d) /\ PassedInTable(c, d) /\ NonePassed(c, d)
    BY <1>3 DEF TurnInv
  <2>2. passed[c][d] \in Nat /\ passed'[c][d] \in Nat /\ Once(d) \in {0, 1}
    BY <1>4, <1>6, OnceType
  <2>3. c # e => passed'[c][d] <= passed[c][d] + (Once(d)' - Once(d))
    BY <1>5, <1>7, <1>8, <1>9, <2>2
  <2>4. Once(d)' \in {0, 1}
    BY DEF Once
  <2>5. PassedInQueue(c, d)'
    <3> SUFFICES ASSUME NEW a \in DOMAIN backlog, backlog[a] = c
                 PROVE  passed'[c][d] <= BACKLOG - a + Once(d)'
      BY <1>3 DEF PassedInQueue
    <3>1. c # e /\ a \in Int
      BY <1>2, <1>3, NotInQueue
    <3>2. passed[c][d] <= BACKLOG - a + Once(d)
      BY <1>3, <2>1 DEF PassedInQueue
    <3> QED
      BY <1>4, <2>2, <2>3, <2>4, <3>1, <3>2
  <2>6. PassedInTable(c, d)'
    <3> SUFFICES ASSUME NEW g \in Registered', sock'[g] = c
                 PROVE  passed'[c][d] <= Once(d)' + (IF g \in Pending' THEN 1 ELSE 0)
      BY DEF PassedInTable
    <3>1. CASE c = e
      BY <1>5, <2>4, <3>1
    <3>2. CASE c # e
      <4>1. g \in Registered /\ sock[g] = c
        BY <1>3
      <4>2. g # f
        BY <1>2, <3>2, <4>1
      <4>3. passed[c][d] <= Once(d) + (IF g \in Pending THEN 1 ELSE 0)
        BY <2>1, <4>1, <4>2 DEF PassedInTable
      <4>4. g \in Pending' <=> g \in Pending
        BY <1>3, <1>9, <4>2
      <4> QED
        BY <2>2, <2>3, <2>4, <3>2, <4>3, <4>4
    <3> QED
      BY <3>1, <3>2
  <2>7. NonePassed(c, d)'
    <3> SUFFICES ASSUME c # e, ~Waiting(c)' PROVE passed'[c][d] = 0
      BY <1>5 DEF NonePassed
    <3>1. ~Waiting(c)
      <4> SUFFICES ASSUME Waiting(c) PROVE Waiting(c)'
        OBVIOUS
      <4>1. CASE Queued(c)
        BY <1>3, <4>1 DEF Waiting, Queued
      <4>2. CASE \E g \in Registered : sock[g] = c /\ Readable(c)
        BY <1>2, <1>3, <4>2 DEF Waiting
      <4> QED
        BY <4>1, <4>2 DEF Waiting
    <3> QED
      BY <1>5, <2>1, <3>1 DEF NonePassed
  <2> QED
    BY <2>5, <2>6, <2>7
<1> QED
  BY <1>3, <1>6, <1>9 DEF TurnInv

(* No other step serves anyone or lets anyone pass. *)
LEMMA TurnStep == IInv /\ TurnInv /\ [TurnNext]_turnVars => TurnInv'
<1> SUFFICES ASSUME IInv, TurnInv, [TurnNext]_turnVars PROVE TurnInv'
  OBVIOUS
<1>1. CASE InitChat /\ UNCHANGED passed
  <2>1. /\ exit = "none" /\ pc = "init" /\ pc' \in {"init", "select"}
        /\ UNCHANGED <<clients, readfds, j, sock, backlog, up, link>>
    BY <1>1 DEF InitChat, At, table, net
  <2>2. Pending' = Pending /\ readfds' = {} /\ j' = 0
    BY <2>1 DEF Pending, TurnInv
  <2> QED
    BY <1>1, <2>1, <2>2, TurnFrame DEF Readable
<1>2. CASE AcceptFails /\ UNCHANGED passed
  <2>1. /\ exit' # "none" /\ pc' = "accept"
        /\ UNCHANGED <<clients, sock, backlog, up, link>>
    BY <1>2 DEF AcceptFails, At, table, net
  <2> QED
    BY <1>2, <2>1, TurnFrame DEF Readable
<1>3. CASE (Welcome \/ Reply \/ BroadcastWrite) /\ UNCHANGED passed
  <2>1. PICK c \in Conns, m \in Message : Write(c, m)
    <3>1. CASE Welcome
      BY <3>1, RegisteredSock, NoticeType DEF Welcome, At, IInv, PlaceInv
    <3>2. CASE Reply
      BY <3>2, RegisteredSock, NoticeType DEF Reply, At, IInv, PlaceInv
    <3>3. CASE BroadcastWrite
      <4>1. PICK f \in Recipients : Write(sock[f], msg)
        BY <3>3 DEF BroadcastWrite
      <4>2. exit = "none" /\ msg \in Message
        BY <3>3 DEF BroadcastWrite, At, IInv, PlaceInv
      <4>3. f \in Registered
        BY <4>2, RecipientsRegistered
      <4> QED
        BY <4>1, <4>2, <4>3, RegisteredSock
    <3> QED
      BY <1>3, <3>1, <3>2, <3>3
  <2>2. /\ UNCHANGED <<sock, backlog, up>>
        /\ \A d \in Conns : link'[d] = "up" <=> link[d] = "up"
    BY <2>1, WriteFacts DEF IInv, TypeOK
  <2>3. /\ exit = "none" /\ pc \in {"welcome", "reply", "broadcast"}
        /\ pc' \in {"scan", "broadcast"} /\ UNCHANGED <<clients, readfds>>
    BY <1>3 DEF Welcome, Reply, BroadcastWrite, At, table
  <2>4. Pending' = Pending
    <3>1. CASE Welcome \/ BroadcastWrite
      BY <3>1 DEF Welcome, BroadcastWrite, At, Pending
    <3>2. CASE Reply
      <4>1. readfds \subseteq Int /\ j \in Int
        BY ServerAssumption DEF IInv, TypeOK, ServerTypes, Slots
      <4>2. \A f \in readfds : f >= j + 1 <=> f >= j /\ f # j
        BY <4>1
      <4> QED
        BY <3>2, <4>2 DEF Reply, At, Pending
    <3> QED
      BY <1>3, <3>1, <3>2
  <2> QED
    BY <1>3, <2>2, <2>3, <2>4, TurnFrame DEF Readable
<1>4. CASE BroadcastDone /\ UNCHANGED passed
  <2>1. /\ exit = "none" /\ pc = "broadcast" /\ pc' = "scan" /\ j' = j + 1
        /\ UNCHANGED <<clients, readfds, sock, backlog, up, link>>
    BY <1>4 DEF BroadcastDone, At, table, net
  <2>2. Pending' = Pending
    <3>1. readfds \subseteq Int /\ j \in Int
      BY ServerAssumption DEF IInv, TypeOK, ServerTypes, Slots
    <3>2. \A f \in readfds : f >= j + 1 <=> f >= j /\ f # j
      BY <3>1
    <3> QED
      BY <2>1, <3>2 DEF Pending
  <2> QED
    BY <1>4, <2>1, <2>2, TurnFrame DEF Readable
<1>5. CASE ScanDone /\ UNCHANGED passed
  <2>1. /\ exit = "none" /\ pc = "scan" /\ ScanSet = {} /\ pc' = "select"
        /\ readfds' = {} /\ j' = 0
        /\ UNCHANGED <<clients, sock, backlog, up, link>>
    BY <1>5 DEF ScanDone, At, table, net
  <2>2. Pending = {}
    <3> SUFFICES ASSUME NEW f \in Pending PROVE FALSE
      OBVIOUS
    <3>1. f \in Registered /\ f \in readfds /\ f >= j
      BY <2>1 DEF IInv, ReadyInv, Pending
    <3>2. f \in Slots /\ f <= maxclient
      BY <3>1 DEF IInv, TableInv, MaxMatches, Registered
    <3>3. f \in j .. maxclient
      BY <3>1, <3>2, ServerAssumption DEF IInv, TypeOK, ServerTypes, Slots
    <3> QED
      BY <2>1, <3>1, <3>3 DEF ScanSet, Registered
  <2>3. Pending' = {}
    BY <2>1 DEF Pending
  <2> QED
    BY <1>5, <2>1, <2>2, <2>3, TurnFrame DEF Readable
<1>6. ASSUME NEW c \in Conns, UNCHANGED passed,
             PeerRead(c) \/ PeerClose(c) \/ PeerAbort(c)
             \/ \E line \in Lines : PeerSend(c, line)
      PROVE  TurnInv'
  <2>1. exit = "none" /\ UNCHANGED <<server, sock, backlog>>
    BY <1>6 DEF PeerRead, PeerClose, PeerAbort, PeerSend
  <2>2. UNCHANGED <<pc, exit, clients, readfds, j>>
    BY <2>1 DEF server
  <2>3. Pending' = Pending
    BY <2>2 DEF Pending
  <2>4. ASSUME NEW d \in Conns, Readable(d) PROVE Readable(d)'
    <3>1. /\ up \in [Conns -> Seq(Tokens)]
          /\ link \in [Conns -> {"up", "fin", "rst", "epipe"}]
      BY DEF IInv, TypeOK, NetTypes
    <3>2. CASE PeerRead(c)
      BY <2>4, <3>2 DEF PeerRead, Readable
    <3>3. CASE PeerClose(c)
      BY <2>4, <3>1, <3>3 DEF PeerClose, Readable
    <3>4. CASE PeerAbort(c)
      <4>1. link' = [link EXCEPT ![c] = "rst"] /\ (d # c => up'[d] = up[d])
        BY <3>1, <3>4 DEF PeerAbort
      <4> QED
        BY <2>4, <3>1, <4>1 DEF Readable
    <3>5. ASSUME NEW line \in Lines, PeerSend(c, line) PROVE Readable(d)'
      <4>1. up' = [up EXCEPT ![c] = @ \o line] /\ link' = link
        BY <3>5 DEF PeerSend
      <4>2. line \in Seq(Tokens)
        BY ServerAssumption
      <4>3. up[d] # <<>> => up[d] \o line # <<>>
        <5>1. PICK t \in Seq(Tokens) : t = up[d]
          BY <3>1
        <5>2. t # <<>> => Len(t) > 0
          BY <5>1
        <5>3. Len(t \o line) = Len(t) + Len(line) /\ Len(line) \in Nat /\ Len(t) \in Nat
          BY <4>2, <5>1
        <5>4. t # <<>> => Len(t \o line) # 0
          BY <5>2, <5>3
        <5> QED
          BY <5>1, <5>4
      <4>4. up'[d] = IF d = c THEN up[d] \o line ELSE up[d]
        BY <3>1, <4>1
      <4> QED
        BY <2>4, <4>1, <4>3, <4>4 DEF Readable
    <3> QED
      BY <1>6, <3>2, <3>3, <3>4, <3>5
  <2>5. pc \in {"init", "select"} => readfds = {} /\ j = 0
    BY DEF TurnInv
  <2> QED
    BY <1>6, <2>1, <2>2, <2>3, <2>4, <2>5, TurnFrame
<1>7. CASE (Exited /\ UNCHANGED passed) \/ UNCHANGED turnVars
  <2>1. UNCHANGED <<passed, pc, exit, clients, readfds, j, sock, backlog, up, link>>
    BY <1>7 DEF Exited, turnVars, vars, server, net
  <2>2. Pending' = Pending
    BY <2>1 DEF Pending
  <2>3. pc \in {"init", "select"} => readfds = {} /\ j = 0
    BY DEF TurnInv
  <2> QED
    BY <2>1, <2>2, <2>3, TurnFrame DEF Readable
<1> QED
  BY <1>1, <1>2, <1>3, <1>4, <1>5, <1>6, <1>7,
     SelectTurns, AcceptTurns, ReadTurns, ConnectTurns
  DEF TurnNext, ReadsNothing, Peers

(* Counting who passes whom changes nothing of what the server does. *)
LEMMA TurnsServe == TurnSpec => Spec
<1>1. TurnInit => Init
  BY DEF TurnInit
<1>2. [TurnNext]_turnVars => [Next]_vars
  BY Zenon DEF TurnNext, turnVars, ReadPasses, AcceptServes, ReadsNothing, Next, Server
<1> QED
  BY <1>1, <1>2, PTL DEF TurnSpec, Spec

(* No connection starves: in any run, with any number of connections, slots and lines,
   a client that waits to be read sees each of the others read at most twice, and one in
   the accept queue at most as often as there are places from it to the queue's end. *)
THEOREM Turns == TurnSpec => []ReadInTurn
<1>1. IInv /\ TurnInv => ReadInTurn
  <2> SUFFICES ASSUME IInv, TurnInv, exit = "none", NEW c \in Conns, NEW d \in Conns
               PROVE  /\ \A f \in Registered : sock[f] = c => passed[c][d] <= 2
                      /\ \A a \in DOMAIN backlog :
                           backlog[a] = c => passed[c][d] <= BACKLOG - a + 1
    BY DEF ReadInTurn
  <2>1. PassedInQueue(c, d) /\ PassedInTable(c, d)
    BY DEF TurnInv
  <2>2. passed[c][d] \in Nat /\ Once(d) \in {0, 1} /\ BACKLOG \in Nat
    BY OnceType, ServerAssumption DEF TurnInv
  <2>3. ASSUME NEW f \in Registered, sock[f] = c PROVE passed[c][d] <= 2
    BY <2>1, <2>2, <2>3 DEF PassedInTable
  <2>4. ASSUME NEW a \in DOMAIN backlog, backlog[a] = c
        PROVE  passed[c][d] <= BACKLOG - a + 1
    <3>1. passed[c][d] <= BACKLOG - a + (IF pc = "accept" THEN 1 ELSE Once(d))
      BY <2>1, <2>4 DEF PassedInQueue
    <3>2. a \in Int
      BY DEF IInv, TypeOK, NetTypes
    <3> QED
      BY <2>2, <3>1, <3>2
  <2> QED
    BY <2>3, <2>4
<1> QED
  BY <1>1, InitTurns, TurnStep, TurnsServe, Invariance, PTL DEF TurnSpec
=============================================================================
