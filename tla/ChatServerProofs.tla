-------------------------- MODULE ChatServerProofs --------------------------
(***************************************************************************)
(* Proofs, for every value of the constants, that the smallchat server's   *)
(* client table stays consistent with itself and with the kernel, that the *)
(* loop never acts on a stale select() result, and that it runs out of     *)
(* slots or descriptors only when they are all in use.                     *)
(***************************************************************************)
EXTENDS ChatServer, FiniteSetTheorems, SequenceTheorems, TLAPS

-----------------------------------------------------------------------------
(* Lemmas about the operators on text and messages. *)

(* The command line cut out of a chunk is a text no longer than the chunk. *)
LEMMA CutType ==
  ASSUME NEW s \in Seq(Tokens)
  PROVE  /\ CutAtEol(s) \in Seq(Tokens)
         /\ Len(CutAtEol(s)) <= Len(s)
<1> DEFINE I == {i \in 1 .. Len(s) : \A m \in 1 .. i : s[m] \notin Eol}
<1>1. Len(s) \in Nat
  OBVIOUS
<1>2. IsFiniteSet(1 .. Len(s)) /\ Cardinality(1 .. Len(s)) = Len(s)
  <2>1. ASSUME NEW n \in Nat PROVE IsFiniteSet(1 .. n) /\ Cardinality(1 .. n) = n
    BY FS_Interval
  <2> QED
    BY <1>1, <2>1
<1>3. CutAtEol(s) = SubSeq(s, 1, Cardinality(I))
  BY DEF CutAtEol
<1>4. I \subseteq 1 .. Len(s)
  OBVIOUS
<1> HIDE DEF I
<1>5. IsFiniteSet(I) /\ Cardinality(I) <= Len(s)
  BY <1>2, <1>4, FS_Subset
<1>6. Cardinality(I) \in Nat
  BY <1>5, FS_CardinalityType
<1>7. /\ SubSeq(s, 1, Cardinality(I)) \in Seq(Tokens)
      /\ Len(SubSeq(s, 1, Cardinality(I))) <= Len(s)
  BY <1>1, <1>5, <1>6
<1> QED
  BY <1>3, <1>7

(* The argument of a "/name" command is a text. *)
LEMMA NameArgType ==
  ASSUME NEW s \in Seq(Tokens)
  PROVE  NameArg(s) \in Seq(Tokens)
<1>1. CutAtEol(s) \in Seq(Tokens)
  BY CutType
<1> QED
  BY <1>1 DEF NameArg

(* What snprintf leaves of a text is a text. *)
LEMMA TruncateType ==
  ASSUME NEW s \in Seq(Tokens), NEW n \in Int
  PROVE  Truncate(s, n) \in Seq(Tokens)
BY DEF Truncate

(* A relayed chunk is a message. *)
LEMMA ChatMessageType ==
  ASSUME NEW c \in Conns, NEW name \in Name, NEW s \in Seq(Tokens)
  PROVE  ChatMessage(c, name, s) \in Message
<1>1. NameLen(name) \in Int
  BY DEF NameLen, Name
<1>2. MSG_MAX - NameLen(name) - 1 \in Int
  BY <1>1, ServerAssumption
<1>3. Truncate(s, MSG_MAX - NameLen(name) - 1) \in Seq(Tokens)
  BY <1>2, TruncateType
<1> QED
  BY <1>3 DEF ChatMessage, Message

(* The table is finite. *)
LEMMA RegisteredFinite == Registered \subseteq Slots /\ IsFiniteSet(Registered)
<1>1. Registered \subseteq Slots
  BY DEF Registered
<1>2. MAX_CLIENTS + SLACK - 1 \in Int
  BY ServerAssumption
<1>3. IsFiniteSet(Slots)
  BY <1>2, FS_Interval DEF Slots
<1> QED
  BY <1>1, <1>3, FS_Subset

-----------------------------------------------------------------------------
(* Frame lemmas: what an action that leaves some variables alone preserves. *)

(* A write keeps the kernel's types, delivers to nobody else, revives no link,
   and at worst ends the process with SIGPIPE. *)
LEMMA WriteFacts ==
  ASSUME NetTypes, NEW c \in Conns, NEW m \in Message, Write(c, m)
  PROVE  /\ NetTypes'
         /\ exit' \in {exit, "sigpipe"}
         /\ \A d \in Conns : link'[d] = "up" <=> link[d] = "up"
         /\ UNCHANGED <<sock, backlog, up, peer>>
<1>1. \/ link' = link
      \/ link[c] # "up" /\ \E l \in {"fin", "epipe"} : link' = [link EXCEPT ![c] = l]
  BY DEF Write
<1>2. /\ link' \in [Conns -> {"up", "fin", "rst", "epipe"}]
      /\ \A d \in Conns : link'[d] = "up" <=> link[d] = "up"
  BY <1>1 DEF NetTypes
<1>3. down' \in [Conns -> Seq(Message)]
  <2>1. \/ down' = down
        \/ down' = [down EXCEPT ![c] = Append(@, m)]
    BY DEF Write
  <2>2. down \in [Conns -> Seq(Message)] /\ Append(down[c], m) \in Seq(Message)
    BY DEF NetTypes
  <2> QED
    BY <2>1, <2>2
<1>4. UNCHANGED <<sock, backlog, up, rcvd, peer>> /\ exit' \in {exit, "sigpipe"}
  BY DEF Write
<1> QED
  BY <1>2, <1>3, <1>4 DEF NetTypes

(* The table stays consistent while nobody touches it or the descriptors. *)
LEMMA TableFrame ==
  ASSUME TableInv, SlotInv, UNCHANGED <<table, sock>>, exit' = "none" => exit = "none"
  PROVE  TableInv' /\ SlotInv'
BY DEF TableInv, SlotInv, SlotsMatch, CountMatches, MaxMatches, KernelAgrees,
       OneFdEach, Registered, table

(* Nor does the queue change places while nobody touches it. *)
LEMMA QueueFrame ==
  ASSUME QueueInv, UNCHANGED <<sock, backlog>>,
         \A c \in Conns : peer'[c] = "idle" => peer[c] = "idle"
  PROVE  QueueInv'
BY DEF QueueInv

(* A client that is readable stays readable while its link and its unread text
   are not touched. *)
LEMMA ReadyFrame ==
  ASSUME ReadyInv, TypeOK, KernelAgrees, SlotInv, UNCHANGED <<sock, clients>>,
         exit' = "none" => exit = "none",
         exit' = "none" => Pending' \subseteq Pending,
         exit' = "none" /\ pc' = "accept" => backlog' # <<>>,
         \A f \in Pending' : sock[f] \in Conns => (Readable(sock[f]) => Readable(sock[f])')
  PROVE  ReadyInv'
<1> SUFFICES ASSUME exit' = "none" PROVE ReadyInv'
  BY DEF ReadyInv
<1>1. Pending' \subseteq Registered'
  BY DEF ReadyInv, Registered
<1>2. ASSUME NEW f \in Pending' PROVE Readable(sock[f])'
  <2>1. f \in Pending /\ f \in Registered
    BY DEF ReadyInv
  <2>2. sock[f] \in Conns
    BY <2>1 DEF KernelAgrees, SlotInv, TypeOK, NetTypes
  <2> QED
    BY <2>1, <2>2 DEF ReadyInv
<1> QED
  BY <1>1, <1>2 DEF ReadyInv

-----------------------------------------------------------------------------
(* The initial state. *)

(* The empty table is consistent, and nothing is pending. *)
LEMMA InitInv == Init => IInv
<1> SUFFICES ASSUME Init PROVE IInv
  OBVIOUS
<1>1. Registered = {} /\ Cardinality(Registered) = 0
  BY FS_EmptySet DEF Init, Registered
<1>2. TypeOK
  BY ServerAssumption
  DEF Init, TypeOK, ServerTypes, NetTypes, HistoryTypes, Slots
<1>3. TableInv /\ SlotInv
  BY <1>1
  DEF Init, TableInv, SlotInv, SlotsMatch, CountMatches, MaxMatches, KernelAgrees, OneFdEach
<1>4. QueueInv
  BY ServerAssumption DEF Init, QueueInv
<1>5. PlaceInv /\ ReadyInv /\ ExitsOnlyWhenFull
  BY <1>1 DEF Init, PlaceInv, ReadyInv, Pending, ExitsOnlyWhenFull
<1> QED
  BY <1>2, <1>3, <1>4, <1>5 DEF IInv

-----------------------------------------------------------------------------
(* Each action preserves the invariant. *)

(* Start-up leaves the table empty. *)
LEMMA InitChatStep == ASSUME IInv, InitChat PROVE IInv'
<1> USE DEF IInv
<1>1. TypeOK'
  BY DEF TypeOK, ServerTypes, NetTypes, HistoryTypes, InitChat, chatMalloc,
         createTCPServer, table, net, history
<1>2. TableInv' /\ SlotInv'
  BY TableFrame DEF InitChat, At, net
<1>3. QueueInv'
  BY QueueFrame DEF InitChat, net
<1>4. PlaceInv' /\ ExitsOnlyWhenFull'
  BY DEF PlaceInv, ExitsOnlyWhenFull, InitChat, chatMalloc, createTCPServer, At
<1>5. Pending' = Pending
  BY DEF Pending, InitChat, At
<1>6. ReadyInv'
  <2>1. /\ UNCHANGED <<sock, clients, up, link>>
        /\ exit' = "none" => exit = "none" /\ pc' # "accept"
    BY DEF InitChat, At, net, table
  <2>2. \A f \in Pending' : sock[f] \in Conns => (Readable(sock[f]) => Readable(sock[f])')
    BY <2>1 DEF Readable
  <2> QED
    BY <1>5, <2>1, <2>2, ReadyFrame DEF TableInv
<1> QED
  BY <1>1, <1>2, <1>3, <1>4, <1>6

(* select() reports registered descriptors that are readable, and does not fail:
   the registered descriptors are open. *)
LEMMA SelectStep == ASSUME IInv, Select PROVE IInv'
<1> USE DEF IInv
<1>1. \A f \in SelectSet : f \in Registered /\ sock[f] # NULL
  <2>1. exit = "none"
    BY DEF Select, At
  <2>2. 0 .. maxclient \subseteq Slots
    BY ServerAssumption DEF TypeOK, ServerTypes, Slots
  <2>3. SelectSet \subseteq Registered
    BY <2>2 DEF SelectSet, Registered
  <2> QED
    BY <2>1, <2>3 DEF TableInv, KernelAgrees, SlotInv
<1>2. /\ UNCHANGED <<exit, table, fd, j, k, msg, net, history>>
      /\ readfds' = Ready
      /\ pc' \in {"select", "accept", "scan"}
      /\ pc' = "accept" => serversock \in Ready
  BY <1>1 DEF Select
<1>3. SelectSet \subseteq Slots /\ Ready \subseteq Slots
  BY <1>1, ServerAssumption DEF Ready, Registered, Slots
<1>4. TypeOK'
  BY <1>2, <1>3 DEF TypeOK, ServerTypes, NetTypes, HistoryTypes, table, net, history
<1>5. TableInv' /\ SlotInv'
  BY <1>2, TableFrame DEF net
<1>6. QueueInv'
  BY <1>2, QueueFrame DEF net
<1>7. PlaceInv' /\ ExitsOnlyWhenFull'
  BY <1>2 DEF PlaceInv, ExitsOnlyWhenFull, Registered, Select, At, table, net
<1>8. ReadyInv'
  <2>1. ASSUME NEW f \in Pending'
        PROVE  f \in Registered' /\ Readable(sock[f])'
    <3>1. f \in Ready /\ f # serversock
      BY <1>2 DEF Pending
    <3>2. f \in SelectSet /\ Readable(sock[f])
      BY <3>1 DEF Ready
    <3> QED
      BY <1>1, <1>2, <3>2 DEF Registered, Readable, table, net
  <2>2. serversock \notin SelectSet
    BY <1>1, ServerAssumption DEF SlotInv
  <2>3. pc' = "accept" => backlog' # <<>>
    BY <1>2, <2>2 DEF Ready, net
  <2> QED
    BY <2>1, <2>3 DEF ReadyInv
<1> QED
  BY <1>4, <1>5, <1>6, <1>7, <1>8

(* createClient() with a free slot adds one client to the table. *)
LEMMA CreateAdds ==
  ASSUME TypeOK, SlotsMatch, CountMatches, MaxMatches,
         NEW f \in Slots, clients[f] = NULL, createClient(f)
  PROVE  /\ clients' \in [Slots -> Client \cup {NULL}]
         /\ Registered' = Registered \cup {f}
         /\ SlotsMatch' /\ CountMatches' /\ MaxMatches'
<1>1. PICK name \in DefaultNames(f) :
        clients' = [clients EXCEPT ![f] = [fd |-> f, name |-> name]]
  BY DEF createClient
<1>2. name \in Name
  BY <1>1, ServerAssumption DEF DefaultNames, Name, Slots
<1>3. [fd |-> f, name |-> name] \in Client /\ NULL \notin Client
  BY <1>2, ServerAssumption DEF Client, Name, Slots
<1>4. clients \in [Slots -> Client \cup {NULL}]
  BY DEF TypeOK, ServerTypes
<1>5. clients' \in [Slots -> Client \cup {NULL}]
  BY <1>1, <1>3, <1>4
<1>6. Registered' = Registered \cup {f}
  BY <1>1, <1>3, <1>4 DEF Registered
<1>7. IsFiniteSet(Registered) /\ f \notin Registered
  BY RegisteredFinite DEF Registered
<1>8. Cardinality(Registered') = Cardinality(Registered) + 1
  BY <1>6, <1>7, FS_AddElement
<1>9. SlotsMatch'
  BY <1>1, <1>4, <1>6 DEF SlotsMatch, Registered
<1>10. CountMatches'
  BY <1>8 DEF CountMatches, createClient
<1>11. MaxMatches'
  <2>1. Registered \subseteq Slots
    BY DEF Registered
  <2>2. maxclient' = IF f > maxclient THEN f ELSE maxclient
    BY DEF createClient
  <2>3. f \in Int /\ \A g \in Registered : g \in Int
    BY <2>1 DEF Slots
  <2>4. maxclient \in {-1} \cup Registered /\ \A g \in Registered : g <= maxclient
    BY DEF MaxMatches
  <2>5. f > -1 /\ maxclient \in Int
    BY <2>3, <2>4 DEF Slots
  <2>6. maxclient' \in {-1} \cup Registered'
    BY <1>6, <2>2, <2>4
  <2>7. ASSUME NEW g \in Registered' PROVE g <= maxclient'
    BY <1>6, <2>2, <2>3, <2>4, <2>5, <2>7
  <2> QED
    BY <2>6, <2>7 DEF MaxMatches
<1> QED
  BY <1>5, <1>6, <1>9, <1>10, <1>11

(* The descriptor accept() returns is new to the table, because the table holds
   exactly the open ones. *)
LEMMA AcceptStep == ASSUME IInv, Accept PROVE IInv'
<1> USE DEF IInv
<1> DEFINE c == Head(backlog)
<1>1. exit = "none" /\ pc = "accept" /\ backlog # <<>>
  BY DEF Accept, At, ReadyInv
<1>2. PICK f \in FreeFds :
        /\ IsLowest(f, FreeFds)
        /\ sock' = [sock EXCEPT ![f] = c]
        /\ backlog' = Tail(backlog)
        /\ exit' \in CreateOutcome(f)
        /\ IF exit' = "none"
           THEN /\ createClient(f)
                /\ fd' = f
                /\ pc' = "welcome"
                /\ joined' = [joined EXCEPT ![c] = Len(room)]
           ELSE UNCHANGED <<pc, fd, table, joined>>
  BY DEF Accept, acceptClient
<1>3. UNCHANGED <<readfds, j, k, msg, up, down, rcvd, link, peer, room, lines>>
  BY DEF Accept
<1>4. f \in Fds /\ f > serversock /\ sock[f] = NULL /\ f \notin Registered
  BY <1>1, <1>2 DEF FreeFds, TableInv, KernelAgrees
<1>5. /\ backlog \in Seq(Conns) /\ c \in Conns /\ c # NULL /\ Tail(backlog) \in Seq(Conns)
      /\ c = backlog[1] /\ Len(backlog) \in Nat \ {0}
      /\ Len(Tail(backlog)) = Len(backlog) - 1
      /\ \A a \in 1 .. Len(Tail(backlog)) : Tail(backlog)[a] = backlog[a + 1]
  BY <1>1, ServerAssumption DEF TypeOK, NetTypes
<1>6. /\ exit' \in {"none", "memory", "assert", "overrun"}
      /\ exit' = "none" => f \in Slots /\ clients[f] = NULL
      /\ exit' \in {"assert", "overrun"} => f \notin Table
  <2>1. f \in Table => f \in Slots
    BY ServerAssumption DEF Table, Slots
  <2> QED
    BY <1>2, <1>4, <2>1 DEF CreateOutcome, chatMalloc, Registered
<1> HIDE DEF c
<1>7. sock \in [Fds -> Conns \cup {NULL}] /\ sock' \in [Fds -> Conns \cup {NULL}]
  BY <1>2, <1>5 DEF TypeOK, NetTypes
<1>8. exit' = "none" =>
        /\ clients' \in [Slots -> Client \cup {NULL}]
        /\ Registered' = Registered \cup {f}
        /\ SlotsMatch' /\ CountMatches' /\ MaxMatches'
        /\ numclients' = numclients + 1
  BY <1>2, <1>6, CreateAdds DEF TableInv, createClient
<1>9. exit' # "none" => UNCHANGED <<clients, numclients, maxclient, fd, pc, joined>>
  BY <1>2 DEF table
<1>10. TypeOK'
  <2>1. ServerTypes'
    <3>1. CASE exit' = "none"
      <4>1. maxclient' \in {-1} \cup Slots
        BY <3>1, <1>8 DEF MaxMatches, Registered
      <4> QED
        BY <3>1, <4>1, <1>2, <1>3, <1>6, <1>8 DEF TypeOK, ServerTypes
    <3>2. CASE exit' # "none"
      BY <3>2, <1>3, <1>6, <1>9 DEF TypeOK, ServerTypes
    <3> QED
      BY <3>1, <3>2
  <2>2. NetTypes'
    BY <1>2, <1>3, <1>5, <1>7 DEF TypeOK, NetTypes
  <2>3. joined' \in [Conns -> Nat]
    <3>1. joined \in [Conns -> Nat] /\ Len(room) \in Nat
      BY DEF TypeOK, HistoryTypes
    <3>2. joined' = joined \/ joined' = [joined EXCEPT ![c] = Len(room)]
      BY <1>2, <1>9
    <3> QED
      BY <3>1, <3>2, <1>5
  <2> QED
    BY <2>1, <2>2, <2>3, <1>3 DEF TypeOK, HistoryTypes
<1>11. OneFdEach'
  BY <1>2, <1>4, <1>5, <1>7 DEF OneFdEach, QueueInv, TableInv
<1>12. TableInv' /\ SlotInv'
  <2>1. CASE exit' = "none"
    <3>1. KernelAgrees'
      BY <2>1, <1>1, <1>2, <1>4, <1>5, <1>7, <1>8 DEF KernelAgrees, TableInv
    <3>2. SlotInv'
      BY <2>1, <1>4, <1>8 DEF SlotInv
    <3> QED
      BY <2>1, <3>1, <3>2, <1>8, <1>11 DEF TableInv
  <2>2. CASE exit' # "none"
    BY <2>2, <1>9, <1>11
    DEF TableInv, SlotInv, SlotsMatch, CountMatches, MaxMatches, KernelAgrees, Registered
  <2> QED
    BY <2>1, <2>2
<1>13. QueueInv'
  <2>1. \A a, b \in 1 .. Len(backlog') : backlog'[a] = backlog'[b] => a = b
    <3> SUFFICES ASSUME NEW a \in 1 .. Len(backlog'), NEW b \in 1 .. Len(backlog'),
                        backlog'[a] = backlog'[b]
                 PROVE  a = b
      OBVIOUS
    <3>1. a + 1 \in 1 .. Len(backlog) /\ b + 1 \in 1 .. Len(backlog)
      BY <1>2, <1>5
    <3>2. backlog[a + 1] = backlog[b + 1]
      BY <1>2, <1>5
    <3>3. a + 1 = b + 1
      BY <3>1, <3>2 DEF QueueInv
    <3> QED
      BY <1>5, <3>3
  <2>2. \A a \in 1 .. Len(backlog') : a + 1 \in 1 .. Len(backlog) /\ a + 1 # 1
                                      /\ backlog'[a] = backlog[a + 1]
    BY <1>2, <1>5
  <2>3. 1 \in 1 .. Len(backlog)
    BY <1>5
  <2>4. \A g \in Fds : sock'[g] = IF g = f THEN backlog[1] ELSE sock[g]
    BY <1>2, <1>4, <1>5, <1>7
  <2>5. \A a \in 1 .. Len(backlog'), g \in Fds : sock'[g] # backlog'[a]
    BY <2>2, <2>3, <2>4 DEF QueueInv
  <2>6. \A d \in Conns : peer'[d] = "idle" =>
          /\ \A g \in Fds : sock'[g] # d
          /\ \A a \in 1 .. Len(backlog') : backlog'[a] # d
    BY <2>2, <2>3, <2>4, <1>3 DEF QueueInv
  <2> QED
    BY <2>1, <2>5, <2>6 DEF QueueInv
<1>14. PlaceInv'
  BY <1>2, <1>8 DEF PlaceInv
<1>15. ReadyInv'
  <2> SUFFICES ASSUME exit' = "none" PROVE ReadyInv'
    BY DEF ReadyInv
  <2>1. Pending' = Pending /\ Pending \subseteq Registered
    BY <1>1, <1>2, <1>3 DEF Pending, ReadyInv
  <2>2. \A g \in Pending : sock'[g] = sock[g]
    BY <1>2, <1>4, <1>7, <2>1 DEF SlotInv
  <2>3. \A g \in Pending : Readable(sock[g]) /\ g \in Registered'
    BY <1>1, <1>8, <2>1 DEF ReadyInv
  <2>4. pc' = "welcome"
    BY <1>2
  <2> QED
    BY <2>1, <2>2, <2>3, <2>4, <1>3 DEF ReadyInv, Readable
<1>16. ExitsOnlyWhenFull'
  <2> SUFFICES ASSUME exit' \in {"assert", "overrun"}, NEW g \in Table, g > serversock
               PROVE  g \in Registered'
    BY <1>6 DEF ExitsOnlyWhenFull, TableFull
  <2>1. f \notin Table /\ Registered' = Registered
    BY <1>6, <1>9 DEF Registered
  <2>2. g \in Fds /\ g < f
    BY <2>1, <1>4, ServerAssumption DEF Table, Fds
  <2>3. g \notin FreeFds
    BY <2>2, <1>2, <1>4 DEF IsLowest, Fds
  <2> QED
    BY <1>1, <2>1, <2>2, <2>3 DEF FreeFds, TableInv, KernelAgrees
<1> QED
  BY <1>10, <1>12, <1>13, <1>14, <1>15, <1>16

(* accept() fails, and the process ends, only when every descriptor is in use. *)
LEMMA AcceptFailsStep == ASSUME IInv, AcceptFails PROVE IInv'
<1> USE DEF IInv
<1>1. /\ exit = "none" /\ exit' \in {"memory", "assert"} /\ FreeFds = {}
      /\ UNCHANGED <<pc, table, readfds, fd, j, k, msg, net, history>>
  BY DEF AcceptFails, At
<1>2. TypeOK'
  BY <1>1 DEF TypeOK, ServerTypes, NetTypes, HistoryTypes, table, net, history
<1>3. TableInv' /\ SlotInv'
  BY <1>1, TableFrame DEF net
<1>4. QueueInv'
  BY <1>1, QueueFrame DEF net
<1>5. PlaceInv' /\ ReadyInv'
  BY <1>1 DEF PlaceInv, ReadyInv
<1>6. ExitsOnlyWhenFull'
  BY <1>1 DEF ExitsOnlyWhenFull, NoDescriptor, FreeFds, net
<1> QED
  BY <1>2, <1>3, <1>4, <1>5, <1>6

(* What the three steps that write to a peer have in common. *)
LEMMA WriteFrame ==
  ASSUME IInv, NEW c \in Conns, NEW m \in Message, Write(c, m),
         UNCHANGED <<table, readfds, history>>,
         exit = "none", pc' # "accept", Pending' \subseteq Pending
  PROVE  /\ NetTypes' /\ HistoryTypes' /\ TableInv' /\ SlotInv' /\ QueueInv'
         /\ ReadyInv' /\ ExitsOnlyWhenFull'
         /\ exit' \in {"none", "sigpipe"} /\ Registered' = Registered
<1> USE DEF IInv
<1>1. /\ NetTypes'
      /\ exit' \in {exit, "sigpipe"}
      /\ \A d \in Conns : link'[d] = "up" <=> link[d] = "up"
      /\ UNCHANGED <<sock, backlog, up, peer>>
  BY WriteFacts DEF TypeOK
<1>2. TableInv' /\ SlotInv'
  BY <1>1, TableFrame
<1>3. QueueInv'
  BY <1>1, QueueFrame
<1>4. UNCHANGED clients
  BY DEF table
<1>5. \A f \in Pending' : sock[f] \in Conns => (Readable(sock[f]) => Readable(sock[f])')
  BY <1>1 DEF Readable
<1>6. ReadyInv'
  BY <1>1, <1>4, <1>5, ReadyFrame DEF TableInv
<1>7. HistoryTypes' /\ ExitsOnlyWhenFull' /\ Registered' = Registered
  BY <1>1, <1>4 DEF TypeOK, HistoryTypes, history, ExitsOnlyWhenFull, Registered
<1> QED
  BY <1>1, <1>2, <1>3, <1>6, <1>7

(* The notices are messages. *)
LEMMA NoticeType ==
  ASSUME NEW kind \in {"welcome", "unsupported"}
  PROVE  Notice(kind) \in Message
BY DEF Notice, Message, Chosen, Name

(* A registered descriptor carries a connection. *)
LEMMA RegisteredSock ==
  ASSUME IInv, exit = "none", NEW f \in Registered
  PROVE  sock[f] \in Conns /\ f \in Slots /\ f \in Fds /\ f + 1 \in 0 .. MAX_CLIENTS + SLACK
         /\ f \in 0 .. MAX_CLIENTS + SLACK
<1>1. f \in Slots /\ f \in Fds
  BY DEF IInv, SlotInv, Registered
<1>2. sock[f] \in Conns
  BY <1>1 DEF IInv, TypeOK, NetTypes, TableInv, KernelAgrees
<1>3. f + 1 \in 0 .. MAX_CLIENTS + SLACK /\ f \in 0 .. MAX_CLIENTS + SLACK
  BY <1>1, ServerAssumption DEF Slots
<1> QED
  BY <1>1, <1>2, <1>3

(* The welcome message changes neither the table nor what is pending. *)
LEMMA WelcomeStep == ASSUME IInv, Welcome PROVE IInv'
<1> USE DEF IInv
<1>1. /\ exit = "none" /\ pc = "welcome" /\ fd \in Registered
      /\ Write(sock[fd], Notice("welcome"))
      /\ pc' = "scan" /\ fd' = -1
      /\ UNCHANGED <<table, readfds, j, k, msg, history>>
  BY DEF Welcome, At, PlaceInv
<1>2. sock[fd] \in Conns /\ Notice("welcome") \in Message
  BY <1>1, RegisteredSock, NoticeType
<1>3. Pending' = Pending
  BY <1>1 DEF Pending
<1>4. /\ NetTypes' /\ HistoryTypes' /\ TableInv' /\ SlotInv' /\ QueueInv'
      /\ ReadyInv' /\ ExitsOnlyWhenFull'
      /\ exit' \in {"none", "sigpipe"}
  BY <1>1, <1>2, <1>3, WriteFrame
<1>5. ServerTypes'
  BY <1>1, <1>4 DEF TypeOK, ServerTypes, table
<1>6. PlaceInv'
  BY <1>1 DEF PlaceInv
<1> QED
  BY <1>4, <1>5, <1>6 DEF TypeOK

(* Nor does the answer to an unsupported command. *)
LEMMA ReplyStep == ASSUME IInv, Reply PROVE IInv'
<1> USE DEF IInv
<1>1. /\ exit = "none" /\ pc = "reply" /\ j \in Registered
      /\ Write(sock[j], Notice("unsupported"))
      /\ pc' = "scan" /\ j' = j + 1
      /\ UNCHANGED <<table, readfds, fd, k, msg, history>>
  BY DEF Reply, At, PlaceInv
<1>2. /\ sock[j] \in Conns /\ Notice("unsupported") \in Message
      /\ j \in 0 .. MAX_CLIENTS + SLACK /\ j + 1 \in 0 .. MAX_CLIENTS + SLACK
  BY <1>1, RegisteredSock, NoticeType
<1>3. Pending' \subseteq Pending
  <2>1. readfds \subseteq Int /\ j \in Int
    BY <1>2 DEF TypeOK, ServerTypes, Slots
  <2>2. ASSUME NEW f \in Int, f >= j + 1 PROVE f >= j /\ f # j
    BY <2>1, <2>2
  <2>3. Pending' = {f \in readfds : f # serversock /\ f >= j + 1}
    BY <1>1 DEF Pending
  <2> QED
    BY <1>1, <2>1, <2>2, <2>3 DEF Pending
<1>4. /\ NetTypes' /\ HistoryTypes' /\ TableInv' /\ SlotInv' /\ QueueInv'
      /\ ReadyInv' /\ ExitsOnlyWhenFull'
      /\ exit' \in {"none", "sigpipe"}
  BY <1>1, <1>2, <1>3, WriteFrame
<1>5. ServerTypes'
  BY <1>1, <1>2, <1>4 DEF TypeOK, ServerTypes, table
<1>6. PlaceInv'
  BY <1>1 DEF PlaceInv
<1> QED
  BY <1>4, <1>5, <1>6 DEF TypeOK

(* Nor does a write of a broadcast; the next slot is still within the table. *)
LEMMA BroadcastWriteStep == ASSUME IInv, BroadcastWrite PROVE IInv'
<1> USE DEF IInv
<1>1. PICK f \in Recipients : Write(sock[f], msg) /\ k' = f + 1
  BY DEF BroadcastWrite
<1>2. /\ exit = "none" /\ pc = "broadcast" /\ j \in Registered
      /\ msg \in Message
      /\ UNCHANGED <<pc, table, readfds, fd, j, msg, history>>
  BY DEF BroadcastWrite, At, PlaceInv
<1>3. f \in Registered
  <2>1. k .. maxclient \subseteq Slots
    BY ServerAssumption DEF TypeOK, ServerTypes, Slots
  <2> QED
    BY <2>1 DEF Recipients, Registered
<1>4. sock[f] \in Conns /\ f + 1 \in 0 .. MAX_CLIENTS + SLACK /\ msg \in Message
  BY <1>2, <1>3, RegisteredSock DEF TypeOK, ServerTypes
<1>5. Pending' = Pending
  BY <1>2 DEF Pending
<1>6. /\ NetTypes' /\ HistoryTypes' /\ TableInv' /\ SlotInv' /\ QueueInv'
      /\ ReadyInv' /\ ExitsOnlyWhenFull'
      /\ exit' \in {"none", "sigpipe"} /\ Registered' = Registered
  BY <1>1, <1>2, <1>4, <1>5, WriteFrame
<1>7. ServerTypes'
  BY <1>1, <1>2, <1>4, <1>6 DEF TypeOK, ServerTypes, table
<1>8. PlaceInv'
  BY <1>2, <1>6 DEF PlaceInv
<1> QED
  BY <1>6, <1>7, <1>8 DEF TypeOK

(* When a broadcast is over the scan goes on behind the sender. *)
LEMMA BroadcastDoneStep == ASSUME IInv, BroadcastDone PROVE IInv'
<1> USE DEF IInv
<1>1. /\ exit = "none" /\ pc = "broadcast" /\ j \in Registered
      /\ pc' = "scan" /\ j' = j + 1 /\ k' = 0 /\ msg' = NULL
      /\ UNCHANGED <<exit, table, readfds, fd, net, history>>
  BY DEF BroadcastDone, At, PlaceInv
<1>2. j \in 0 .. MAX_CLIENTS + SLACK /\ j + 1 \in 0 .. MAX_CLIENTS + SLACK /\ 0 \in 0 .. MAX_CLIENTS + SLACK
  BY <1>1, RegisteredSock, ServerAssumption
<1>3. TypeOK'
  BY <1>1, <1>2 DEF TypeOK, ServerTypes, NetTypes, HistoryTypes, table, net, history
<1>4. TableInv' /\ SlotInv'
  BY <1>1, TableFrame DEF net
<1>5. QueueInv'
  BY <1>1, QueueFrame DEF net
<1>6. PlaceInv' /\ ExitsOnlyWhenFull'
  BY <1>1 DEF PlaceInv, ExitsOnlyWhenFull
<1>7. Pending' \subseteq Pending
  <2>1. readfds \subseteq Int /\ j \in Int
    BY <1>2, ServerAssumption DEF TypeOK, ServerTypes, Slots
  <2>2. ASSUME NEW f \in Int, f >= j + 1 PROVE f >= j /\ f # j
    BY <2>1, <2>2
  <2>3. Pending' = {f \in readfds : f # serversock /\ f >= j + 1}
    BY <1>1 DEF Pending
  <2> QED
    BY <1>1, <2>1, <2>2, <2>3 DEF Pending
<1>8. ReadyInv'
  BY <1>1, <1>7, ReadyFrame DEF TableInv, Readable, net, table
<1> QED
  BY <1>3, <1>4, <1>5, <1>6, <1>8

(* When the scan is over nothing is pending. *)
LEMMA ScanDoneStep == ASSUME IInv, ScanDone PROVE IInv'
<1> USE DEF IInv
<1>1. /\ exit = "none" /\ pc' = "select" /\ readfds' = {} /\ j' = 0
      /\ UNCHANGED <<exit, table, fd, k, msg, net, history>>
  BY DEF ScanDone, At
<1>2. 0 \in 0 .. MAX_CLIENTS + SLACK
  BY ServerAssumption
<1>3. TypeOK'
  BY <1>1, <1>2 DEF TypeOK, ServerTypes, NetTypes, HistoryTypes, table, net, history
<1>4. TableInv' /\ SlotInv'
  BY <1>1, TableFrame DEF net
<1>5. QueueInv'
  BY <1>1, QueueFrame DEF net
<1>6. PlaceInv' /\ ExitsOnlyWhenFull' /\ ReadyInv'
  BY <1>1 DEF PlaceInv, ExitsOnlyWhenFull, ReadyInv, Pending
<1> QED
  BY <1>3, <1>4, <1>5, <1>6

(* The descriptor the scan stands at is registered, and pending. *)
LEMMA ScanSetRegistered ==
  ASSUME IInv, exit = "none", pc = "scan", NEW f \in ScanSet
  PROVE  f \in Registered /\ f \in Pending /\ f >= j
<1>1. j .. maxclient \subseteq Slots
  BY ServerAssumption DEF IInv, TypeOK, ServerTypes, Slots
<1>2. f \in Registered
  BY <1>1 DEF ScanSet, Registered
<1>3. f # serversock
  BY <1>2, ServerAssumption DEF IInv, SlotInv
<1>4. f >= j /\ f \in readfds
  BY ServerAssumption DEF ScanSet, IInv, TypeOK, ServerTypes, Slots
<1> QED
  BY <1>2, <1>3, <1>4 DEF Pending

(* Reading from a client may rename it, and takes from its stream only; the
   others stay as ready as they were. *)
LEMMA ReadTextStep == ASSUME IInv, ReadText PROVE IInv'
<1> USE DEF IInv
<1>0. PICK f \in ScanSet : \E n \in ReadSizes(sock[f]) :
        /\ up' = [up EXCEPT ![sock[f]] = SubSeq(@, n + 1, Len(@))]
        /\ \/ Rename(f, SubSeq(up[sock[f]], 1, n))
           \/ Unsupported(f, SubSeq(up[sock[f]], 1, n))
           \/ Say(f, SubSeq(up[sock[f]], 1, n))
  BY DEF ReadText
<1>1. PICK n \in ReadSizes(sock[f]) :
        /\ up' = [up EXCEPT ![sock[f]] = SubSeq(@, n + 1, Len(@))]
        /\ \/ Rename(f, SubSeq(up[sock[f]], 1, n))
           \/ Unsupported(f, SubSeq(up[sock[f]], 1, n))
           \/ Say(f, SubSeq(up[sock[f]], 1, n))
  BY <1>0
<1> DEFINE c == sock[f]
           chunk == SubSeq(up[c], 1, n)
<1>2. /\ exit = "none" /\ pc = "scan"
      /\ UNCHANGED <<numclients, maxclient, readfds, fd, sock, backlog,
                     down, rcvd, link, peer, joined, lines>>
  BY DEF ReadText, At
<1>3. f \in Registered /\ f \in Pending /\ f >= j
  BY <1>2, ScanSetRegistered
<1>4. c \in Conns /\ f \in Slots /\ f \in Fds /\ f \in 0 .. MAX_CLIENTS + SLACK /\ f + 1 \in 0 .. MAX_CLIENTS + SLACK
  BY <1>2, <1>3, RegisteredSock
<1>5. up \in [Conns -> Seq(Tokens)] /\ up[c] \in Seq(Tokens)
  BY <1>4 DEF TypeOK, NetTypes
<1>6. n \in 1 .. Len(up[c])
  BY <1>1 DEF ReadSizes
<1>7. chunk \in Seq(Tokens) /\ SubSeq(up[c], n + 1, Len(up[c])) \in Seq(Tokens)
  BY <1>5, <1>6
<1>8. /\ up' \in [Conns -> Seq(Tokens)]
      /\ \A d \in Conns : d # c => up'[d] = up[d]
  BY <1>1, <1>5, <1>7
<1>9. clients[f] \in Client /\ clients[f].fd = f /\ clients[f].name \in Name
  BY <1>3, <1>4 DEF TypeOK, ServerTypes, Registered, Client, TableInv, SlotsMatch
<1> HIDE DEF c, chunk
<1>10. Rename(f, chunk) \/ Unsupported(f, chunk) \/ Say(f, chunk)
  BY <1>1 DEF chunk, c
(* the table: the record of f keeps its descriptor *)
<1>11. /\ clients' \in [Slots -> Client \cup {NULL}]
       /\ Registered' = Registered
       /\ \A g \in Registered : clients'[g].fd = clients[g].fd
  <2>1. CASE clients' = clients
    BY <2>1 DEF TypeOK, ServerTypes, Registered
  <2>2. CASE clients' = [clients EXCEPT ![f].name = Chosen(NameArg(chunk))]
    <3>1. Chosen(NameArg(chunk)) \in Name
      BY <1>7, NameArgType DEF Chosen, Name
    <3>2. /\ [clients[f] EXCEPT !.name = Chosen(NameArg(chunk))] \in Client
          /\ [clients[f] EXCEPT !.name = Chosen(NameArg(chunk))].fd = clients[f].fd
      BY <3>1, <1>9 DEF Client
    <3>3. NULL \notin Client
      BY ServerAssumption DEF Client, Name
    <3>4. clients \in [Slots -> Client \cup {NULL}]
      BY DEF TypeOK, ServerTypes
    <3> HIDE DEF IInv
    <3>5. clients' \in [Slots -> Client \cup {NULL}]
      BY <2>2, <3>2, <3>4, <1>4
    <3>6. Registered' = Registered
      BY <2>2, <3>2, <3>3, <3>4, <1>3 DEF Registered
    <3>7. \A g \in Registered : clients'[g].fd = clients[g].fd
      BY <2>2, <3>2, <3>4 DEF Registered
    <3> QED
      BY <3>5, <3>6, <3>7
  <2>3. clients' = clients \/ clients' = [clients EXCEPT ![f].name = Chosen(NameArg(chunk))]
    BY <1>10 DEF Rename, Unsupported, Say
  <2> QED
    BY <2>1, <2>2, <2>3
<1>12. /\ exit' \in {"none", "memory"}
       /\ \/ pc' = "scan" /\ j' = f + 1 /\ UNCHANGED <<k, msg, room>>
          \/ pc' = "reply" /\ j' = f /\ UNCHANGED <<k, msg, room>>
          \/ /\ pc' = "broadcast" /\ j' = f /\ k' = 0
             /\ msg' = ChatMessage(c, clients[f].name, chunk)
             /\ room' = Append(room, msg')
  BY <1>2, <1>10 DEF Rename, Unsupported, Say, chatMalloc, c
<1>13. ChatMessage(c, clients[f].name, chunk) \in Message
  BY <1>4, <1>7, <1>9, ChatMessageType
<1>14. TypeOK'
  <2>1. room' \in Seq(Message)
    <3>1. room \in Seq(Message)
      BY DEF TypeOK, HistoryTypes
    <3> QED
      BY <3>1, <1>12, <1>13
  <2>2. ServerTypes'
    BY <1>2, <1>4, <1>11, <1>12, <1>13, ServerAssumption DEF TypeOK, ServerTypes
  <2>3. NetTypes' /\ HistoryTypes'
    BY <2>1, <1>2, <1>8 DEF TypeOK, NetTypes, HistoryTypes
  <2> QED
    BY <2>2, <2>3 DEF TypeOK
<1>15. TableInv' /\ SlotInv'
  BY <1>2, <1>11
  DEF TableInv, SlotInv, SlotsMatch, CountMatches, MaxMatches, KernelAgrees, OneFdEach
<1>16. QueueInv'
  BY <1>2, QueueFrame
<1>18. PlaceInv' /\ ExitsOnlyWhenFull'
  BY <1>3, <1>11, <1>12, <1>13 DEF PlaceInv, ExitsOnlyWhenFull
<1>19. ReadyInv'
  <2>1. \A g \in Pending' : g \in Pending /\ g # f
    BY <1>2, <1>3, <1>4, <1>12 DEF Pending, TypeOK, ServerTypes, Slots
  <2>2. \A g \in Pending' : g \in Registered /\ Readable(sock[g])
    BY <2>1, <1>2 DEF ReadyInv
  <2>3. \A g \in Pending' : sock[g] \in Conns /\ sock[g] # c
    <3> TAKE g \in Pending'
    <3>1. g \in Registered /\ g # f
      BY <2>1, <2>2
    <3>2. sock[g] \in Conns /\ g \in Fds
      BY <3>1, <1>2, RegisteredSock
    <3> QED
      BY <3>1, <3>2, <1>4, ServerAssumption DEF TableInv, OneFdEach, c
  <2>4. \A g \in Pending' : Readable(sock[g])'
    BY <2>2, <2>3, <1>2, <1>8 DEF Readable
  <2>5. pc' # "accept"
    BY <1>12
  <2> QED
    BY <2>2, <2>4, <2>5, <1>11 DEF ReadyInv
<1> QED
  BY <1>14, <1>15, <1>16, <1>18, <1>19

(* freeClient() takes one client out of the table. *)
LEMMA FreeRemoves ==
  ASSUME TypeOK, SlotsMatch, CountMatches, MaxMatches,
         NEW f \in Registered, freeClient(f)
  PROVE  /\ clients' \in [Slots -> Client \cup {NULL}]
         /\ Registered' = Registered \ {f}
         /\ SlotsMatch' /\ CountMatches' /\ MaxMatches'
<1>1. clients \in [Slots -> Client \cup {NULL}] /\ clients' = [clients EXCEPT ![f] = NULL]
  BY DEF TypeOK, ServerTypes, freeClient
<1>2. clients' \in [Slots -> Client \cup {NULL}] /\ Registered' = Registered \ {f}
  BY <1>1 DEF Registered
<1>3. Cardinality(Registered') = Cardinality(Registered) - 1
  BY <1>2, RegisteredFinite, FS_RemoveElement
<1>4. SlotsMatch'
  BY <1>1, <1>2 DEF SlotsMatch, Registered
<1>5. CountMatches'
  BY <1>3 DEF CountMatches, freeClient
<1>6. MaxMatches'
  <2>1. Registered \subseteq Slots
    BY RegisteredFinite
  <2>2. CASE maxclient = f
    <3>1. PICK m \in {-1} \cup Registered :
            /\ m < f /\ \A i \in Registered : i < f => i <= m
            /\ maxclient' = m
      BY <2>2 DEF freeClient
    <3>2. m # f
      BY <2>1, <3>1, ServerAssumption DEF Slots
    <3>3. \A i \in Registered' : i < f
      BY <1>2, <2>1, <2>2, ServerAssumption DEF MaxMatches, Slots
    <3> QED
      BY <1>2, <3>1, <3>2, <3>3 DEF MaxMatches
  <2>3. CASE maxclient # f
    <3>1. maxclient' = maxclient
      BY <2>3 DEF freeClient
    <3> QED
      BY <1>2, <2>3, <3>1 DEF MaxMatches
  <2> QED
    BY <2>2, <2>3
<1> QED
  BY <1>2, <1>4, <1>5, <1>6

(* Removing a client frees its slot and its descriptor together, and leaves the
   other ready clients registered. *)
LEMMA DisconnectStep == ASSUME IInv, Disconnect PROVE IInv'
<1> USE DEF IInv
<1>1. PICK f \in ScanSet :
        /\ freeClient(f)
        /\ down' = [down EXCEPT ![sock[f]] = <<>>]
        /\ rcvd' = [rcvd EXCEPT ![sock[f]] = 0]
        /\ j' = f + 1
  BY DEF Disconnect
<1>2. /\ exit = "none" /\ pc = "scan"
      /\ UNCHANGED <<pc, exit, readfds, fd, k, msg, backlog, up, link, peer, history>>
  BY DEF Disconnect, At
<1>3. f \in Registered /\ f \in Pending /\ f >= j
  BY <1>1, <1>2, ScanSetRegistered
<1>4. sock[f] \in Conns /\ f \in Slots /\ f \in Fds /\ f + 1 \in 0 .. MAX_CLIENTS + SLACK
  BY <1>2, <1>3, RegisteredSock
<1>5. /\ clients' \in [Slots -> Client \cup {NULL}]
      /\ Registered' = Registered \ {f}
      /\ SlotsMatch' /\ CountMatches' /\ MaxMatches'
  BY <1>1, <1>3, FreeRemoves DEF TableInv
<1>6. /\ sock \in [Fds -> Conns \cup {NULL}]
      /\ sock' = [sock EXCEPT ![f] = NULL]
      /\ numclients' = numclients - 1
  BY <1>1 DEF freeClient, TypeOK, NetTypes
<1>7. sock' \in [Fds -> Conns \cup {NULL}]
      /\ \A g \in Fds : sock'[g] = IF g = f THEN NULL ELSE sock[g]
  BY <1>6
<1>8. TypeOK'
  <2>1. maxclient' \in {-1} \cup Slots
    BY <1>5 DEF MaxMatches, Registered
  <2>2. ServerTypes'
    BY <2>1, <1>1, <1>2, <1>4, <1>5, <1>6 DEF TypeOK, ServerTypes
  <2>3. NetTypes'
    <3>1. down' \in [Conns -> Seq(Message)]
      <4>1. down \in [Conns -> Seq(Message)] /\ <<>> \in Seq(Message)
        BY DEF TypeOK, NetTypes
      <4> QED
        BY <4>1, <1>1
    <3>2. rcvd' \in [Conns -> Nat]
      BY <1>1 DEF TypeOK, NetTypes
    <3> QED
      BY <3>1, <3>2, <1>2, <1>7 DEF TypeOK, NetTypes
  <2> QED
    BY <2>2, <2>3, <1>2 DEF TypeOK, HistoryTypes, history
<1>9. TableInv' /\ SlotInv'
  <2>1. KernelAgrees'
    BY <1>2, <1>3, <1>5, <1>7 DEF TableInv, KernelAgrees
  <2>2. OneFdEach'
    BY <1>7 DEF TableInv, OneFdEach
  <2>3. SlotInv'
    BY <1>5 DEF SlotInv
  <2> QED
    BY <2>1, <2>2, <2>3, <1>5 DEF TableInv
<1>10. QueueInv'
  <2>1. \A a \in 1 .. Len(backlog) : backlog[a] \in Conns
    BY DEF TypeOK, NetTypes
  <2> QED
    BY <2>1, <1>2, <1>7, ServerAssumption DEF QueueInv
<1>11. PlaceInv' /\ ExitsOnlyWhenFull'
  BY <1>2 DEF PlaceInv, ExitsOnlyWhenFull
<1>12. ReadyInv'
  <2>1. \A g \in Pending' : g \in Pending /\ g # f
    BY <1>1, <1>2, <1>3, ServerAssumption DEF Pending, TypeOK, ServerTypes, Slots
  <2>2. \A g \in Pending' : g \in Registered /\ g \in Fds /\ Readable(sock[g])
    BY <2>1, <1>2 DEF ReadyInv, SlotInv
  <2> QED
    BY <2>1, <2>2, <1>2, <1>5, <1>7 DEF ReadyInv, Readable
<1> QED
  BY <1>8, <1>9, <1>10, <1>11, <1>12

(* A peer moves no variable of the server; it is enough that it keeps the
   types, the queue and the readiness of every connection. *)
LEMMA PeerFrame ==
  ASSUME IInv, UNCHANGED <<server, sock>>, NetTypes', HistoryTypes', QueueInv',
         backlog # <<>> => backlog' # <<>>,
         \A d \in Conns : Readable(d) => Readable(d)'
  PROVE  IInv'
<1> USE DEF IInv
<1>1. UNCHANGED <<pc, exit, clients, numclients, maxclient, readfds, fd, j, k, msg, sock>>
  BY DEF server
<1>2. TypeOK'
  BY <1>1 DEF TypeOK, ServerTypes
<1>3. TableInv' /\ SlotInv'
  BY <1>1, TableFrame DEF table
<1>4. Registered' = Registered /\ Pending' = Pending
  BY <1>1 DEF Registered, Pending
<1>5. PlaceInv' /\ ExitsOnlyWhenFull'
  BY <1>1, <1>4 DEF PlaceInv, ExitsOnlyWhenFull, NoDescriptor, TableFull
<1>6. exit' = "none" /\ pc' = "accept" => backlog' # <<>>
  BY <1>1 DEF ReadyInv
<1>7. ReadyInv'
  BY <1>1, <1>4, <1>6, ReadyFrame DEF TableInv
<1> QED
  BY <1>2, <1>3, <1>5, <1>7

(* A new connection waits in the accept queue, and has no descriptor. *)
LEMMA PeerConnectStep == ASSUME IInv, NEW c \in Conns, PeerConnect(c) PROVE IInv'
<1> USE DEF IInv
<1>1. /\ peer[c] = "idle"
      /\ peer' = [peer EXCEPT ![c] = "open"]
      /\ backlog' = Append(backlog, c)
      /\ UNCHANGED <<server, sock, up, down, rcvd, link, history>>
  BY DEF PeerConnect
<1>2. /\ backlog \in Seq(Conns) /\ backlog' \in Seq(Conns)
      /\ Len(backlog) \in Nat /\ Len(backlog') = Len(backlog) + 1
      /\ backlog'[Len(backlog')] = c
      /\ \A a \in 1 .. Len(backlog) : backlog'[a] = backlog[a]
  BY <1>1 DEF TypeOK, NetTypes
<1>3. NetTypes' /\ HistoryTypes'
  BY <1>1, <1>2 DEF TypeOK, NetTypes, HistoryTypes, history
<1>4. QueueInv'
  <2>1. \A a \in 1 .. Len(backlog') :
          a \in 1 .. Len(backlog) \/ a = Len(backlog')
    BY <1>2
  <2>2. \A a, b \in 1 .. Len(backlog') : backlog'[a] = backlog'[b] => a = b
    BY <1>1, <1>2, <2>1 DEF QueueInv
  <2>3. \A a \in 1 .. Len(backlog'), f \in Fds : sock'[f] # backlog'[a]
    BY <1>1, <1>2, <2>1 DEF QueueInv
  <2>4. \A d \in Conns : peer'[d] = "idle" => d # c /\ peer[d] = "idle"
    BY <1>1 DEF TypeOK, NetTypes
  <2>5. \A d \in Conns : peer'[d] = "idle" =>
          /\ \A f \in Fds : sock'[f] # d
          /\ \A a \in 1 .. Len(backlog') : backlog'[a] # d
    BY <1>1, <1>2, <2>1, <2>4 DEF QueueInv
  <2> QED
    BY <2>2, <2>3, <2>5 DEF QueueInv
<1>5. backlog' # <<>>
  BY <1>2
<1> QED
  BY <1>1, <1>3, <1>4, <1>5, PeerFrame DEF Readable

(* Sending makes a connection readable, if it was not already. *)
LEMMA PeerSendStep ==
  ASSUME IInv, NEW c \in Conns, NEW line \in Lines, PeerSend(c, line) PROVE IInv'
<1> USE DEF IInv
<1>1. /\ up' = [up EXCEPT ![c] = @ \o line]
      /\ lines' = [lines EXCEPT ![c] = Append(@, line)]
      /\ UNCHANGED <<server, sock, backlog, down, rcvd, link, peer, room, joined>>
  BY DEF PeerSend
<1>2. line \in Seq(Tokens) /\ line # <<>>
  BY ServerAssumption
<1>3. /\ up[c] \in Seq(Tokens) /\ up[c] \o line \in Seq(Tokens)
      /\ up[c] \o line # <<>>
  BY <1>2 DEF TypeOK, NetTypes
<1>4. up' \in [Conns -> Seq(Tokens)] /\ \A d \in Conns : d # c => up'[d] = up[d]
  BY <1>1, <1>3 DEF TypeOK, NetTypes
<1>5. lines' \in [Conns -> Seq(Lines)]
  <2>1. lines \in [Conns -> Seq(Lines)] /\ Append(lines[c], line) \in Seq(Lines)
    BY DEF TypeOK, HistoryTypes
  <2> QED
    BY <2>1, <1>1
<1>6. NetTypes' /\ HistoryTypes'
  BY <1>1, <1>4, <1>5 DEF TypeOK, NetTypes, HistoryTypes
<1>7. QueueInv'
  BY <1>1, QueueFrame
<1>8. up'[c] # <<>>
  BY <1>1, <1>3 DEF TypeOK, NetTypes
<1>9. \A d \in Conns : Readable(d) => Readable(d)'
  BY <1>1, <1>4, <1>8 DEF Readable
<1> QED
  BY <1>1, <1>6, <1>7, <1>9, PeerFrame

(* What a peer reads makes no difference to the table. *)
LEMMA PeerReadStep == ASSUME IInv, NEW c \in Conns, PeerRead(c) PROVE IInv'
<1> USE DEF IInv
<1>1. /\ rcvd' = [rcvd EXCEPT ![c] = Len(down[c])]
      /\ UNCHANGED <<server, sock, backlog, up, down, link, peer, history>>
  BY DEF PeerRead
<1>2. rcvd' \in [Conns -> Nat]
  <2>1. down[c] \in Seq(Message) /\ rcvd \in [Conns -> Nat]
    BY DEF TypeOK, NetTypes
  <2>2. Len(down[c]) \in Nat
    BY <2>1
  <2> QED
    BY <1>1, <2>1, <2>2
<1>3. NetTypes' /\ HistoryTypes'
  BY <1>1, <1>2 DEF TypeOK, NetTypes, HistoryTypes, history
<1>4. QueueInv'
  BY <1>1, QueueFrame
<1> QED
  BY <1>1, <1>3, <1>4, PeerFrame DEF Readable

(* Closing or resetting a connection leaves it readable: end of file and errors
   make read() return at once, even where unread text is lost. *)
LEMMA PeerGoneStep ==
  ASSUME IInv, NEW c \in Conns, PeerClose(c) \/ PeerAbort(c) PROVE IInv'
<1> USE DEF IInv
<1>1. /\ peer' = [peer EXCEPT ![c] = "closed"]
      /\ \E l \in {"fin", "rst"} : link' = [link EXCEPT ![c] = l]
      /\ UNCHANGED <<server, sock, backlog, down, rcvd, history>>
      /\ up' = up \/ \E n \in 0 .. Len(up[c]) : up' = [up EXCEPT ![c] = SubSeq(@, 1, n)]
  BY DEF PeerClose, PeerAbort
<1>2. up' \in [Conns -> Seq(Tokens)] /\ \A d \in Conns : d # c => up'[d] = up[d]
  <2>1. up \in [Conns -> Seq(Tokens)] /\ up[c] \in Seq(Tokens)
    BY DEF TypeOK, NetTypes
  <2>2. \A n \in 0 .. Len(up[c]) : SubSeq(up[c], 1, n) \in Seq(Tokens)
    BY <2>1
  <2> QED
    BY <1>1, <2>1, <2>2
<1>3. /\ link' \in [Conns -> {"up", "fin", "rst", "epipe"}]
      /\ peer' \in [Conns -> {"idle", "open", "closed"}]
      /\ link'[c] # "up" /\ \A d \in Conns : d # c => link'[d] = link[d]
      /\ \A d \in Conns : peer'[d] = "idle" => peer[d] = "idle"
  BY <1>1 DEF TypeOK, NetTypes
<1>4. NetTypes' /\ HistoryTypes'
  BY <1>1, <1>2, <1>3 DEF TypeOK, NetTypes, HistoryTypes, history
<1>5. QueueInv'
  BY <1>1, <1>3, QueueFrame
<1>6. \A d \in Conns : Readable(d) => Readable(d)'
  BY <1>2, <1>3 DEF Readable
<1> QED
  BY <1>1, <1>4, <1>5, <1>6, PeerFrame

(* Nothing changes when nothing happens. *)
LEMMA StutterStep == ASSUME IInv, UNCHANGED vars PROVE IInv'
<1> USE DEF IInv
<1>1. /\ UNCHANGED <<server, sock, backlog, up, link, peer>>
      /\ NetTypes' /\ HistoryTypes'
  BY DEF vars, net, history, TypeOK, NetTypes, HistoryTypes
<1>2. QueueInv'
  BY <1>1, QueueFrame
<1> QED
  BY <1>1, <1>2, PeerFrame DEF Readable

-----------------------------------------------------------------------------
(* The theorems. *)

(* The invariant is inductive. *)
LEMMA NextInv == IInv /\ [Next]_vars => IInv'
<1> SUFFICES ASSUME IInv, [Next]_vars PROVE IInv'
  OBVIOUS
<1>1. CASE Server
  BY <1>1, InitChatStep, SelectStep, AcceptStep, AcceptFailsStep, WelcomeStep,
     ReadTextStep, DisconnectStep, ReplyStep, BroadcastWriteStep,
     BroadcastDoneStep, ScanDoneStep
  DEF Server
<1>2. CASE Peers
  BY <1>2, PeerConnectStep, PeerSendStep, PeerReadStep, PeerGoneStep DEF Peers
<1>3. CASE Exited \/ UNCHANGED vars
  BY <1>3, StutterStep DEF Exited
<1> QED
  BY <1>1, <1>2, <1>3 DEF Next

(* The strengthening of the properties below is an invariant of the server. *)
THEOREM Invariance == Spec => []IInv
<1> QED
  BY InitInv, NextInv, PTL DEF Spec

(* Every variable keeps its type, whatever the peers do. *)
THEOREM Typing == Spec => []TypeOK
<1>1. IInv => TypeOK
  BY DEF IInv
<1> QED
  BY <1>1, Invariance, PTL

(* The client table always agrees with itself and with the kernel's descriptor
   table, for any number of connections, slots and descriptors. *)
THEOREM TableConsistent == Spec => []TableInv
<1>1. IInv => TableInv
  BY DEF IInv
<1> QED
  BY <1>1, Invariance, PTL

(* The loop never waits in accept() or read(): what select() reported still
   holds when it is used. *)
THEOREM ReadsNeverBlock == Spec => []NeverBlocks
<1>1. IInv => NeverBlocks
  <2> SUFFICES ASSUME IInv, At("accept") \/ At("scan") PROVE NeverBlocks
    BY DEF NeverBlocks, At
  <2>1. At("accept") => backlog # <<>>
    BY DEF At, IInv, ReadyInv
  <2>2. ASSUME At("scan"), NEW f \in ScanSet
        PROVE  sock[f] # NULL /\ Readable(sock[f])
    <3>1. f \in Registered /\ f \in Pending
      BY <2>2, ScanSetRegistered DEF At
    <3>2. sock[f] \in Conns
      BY <2>2, <3>1, RegisteredSock DEF At
    <3> QED
      BY <2>2, <3>1, <3>2, ServerAssumption DEF At, IInv, ReadyInv
  <2> QED
    BY <2>1, <2>2 DEF NeverBlocks
<1> QED
  BY <1>1, Invariance, PTL

(* The server stops for want of slots or descriptors only when none is left. *)
THEOREM FullOnExit == Spec => []ExitsOnlyWhenFull
<1>1. IInv => ExitsOnlyWhenFull
  BY DEF IInv
<1> QED
  BY <1>1, Invariance, PTL
=============================================================================
