-------------------------- MODULE ChatSystemProofs --------------------------
(***************************************************************************)
(* With its own clients the server is the server of ChatServer: whatever   *)
(* holds of it among arbitrary peers holds of it among them.               *)
(***************************************************************************)
EXTENDS ChatSystem, ChatHistoryProofs

(* Each step of the system is a step of the server specification, or leaves all of
   its variables as they are. *)
LEMMA SystemStep == [SystemNext]_systemVars => [Next]_vars
<1> SUFFICES ASSUME [SystemNext]_systemVars PROVE [Next]_vars
    OBVIOUS
<1>1. CASE UNCHANGED systemVars
  BY <1>1 DEF systemVars
<1>2. CASE (Server \/ Exited) /\ UNCHANGED typing
  BY <1>2 DEF Next
<1>3. ASSUME NEW c \in Conns, TCPConnect(c) \/ ReadStdin(c) \/ ClientLoop(c) \/ Quit(c)
      PROVE  [Next]_vars
  <2>1. CASE ReadStdin(c)
    BY <2>1 DEF ReadStdin
  <2>2. CASE TCPConnect(c)
    BY <2>2 DEF TCPConnect, Next, Peers
  <2>3. CASE ClientLoop(c)
    BY <2>3 DEF ClientLoop, WriteLine, ReadServer, Next, Peers
  <2>4. CASE Quit(c)
    BY <2>4 DEF Quit, Next, Peers
  <2>5. QED
    BY <1>3, <2>1, <2>2, <2>3, <2>4
<1>4. QED
  BY <1>1, <1>2, <1>3 DEF SystemNext

(* The system implements the server specification. *)
THEOREM SystemServes == SystemSpec => Spec
<1>1. SystemInit => Init
  BY DEF SystemInit
<1>2. QED
  BY <1>1, SystemStep, PTL DEF SystemSpec, Spec

(* Among the clients of smallchat-client.c the table agrees with the kernel too. *)
THEOREM SystemTable == SystemSpec => []TableInv
  BY SystemServes, TableConsistent, PTL

(* And no call of the server blocks that select() has reported ready. *)
THEOREM SystemReads == SystemSpec => []NeverBlocks
  BY SystemServes, ReadsNeverBlock, PTL

(* They see one conversation, and the system implements the abstract room. *)
THEOREM SystemAgreement == SystemSpec => []RoomAgreement
  BY SystemServes, Agreement, PTL

THEOREM SystemRefinement == SystemSpec => ImplementsRoomSafety
  BY SystemServes, Refinement, PTL

(* What a user of smallchat-client.c types in plain text is relayed in order and without
   gaps, but for the tail of a chunk that msg[] cannot hold behind the name, ... *)
THEOREM SystemStreams ==
  ASSUME Undisturbed
  PROVE  SystemSpec => []StreamFidelity
  BY SystemServes, Streams, PTL

(* ... and all of it before the server lets go of the connection. *)
THEOREM SystemRelayedFirst ==
  ASSUME Undisturbed
  PROVE  SystemSpec => RelayedBeforeFreed
  BY SystemServes, RelayedFirst, PTL

-----------------------------------------------------------------------------
(* Server and clients never wait for each other, if the buffers are large enough.  *)

(* The descriptors a client can have, and how many they are: as many clients are in
   the room at a time. *)
Seats == {f \in Fds \cap Slots : f > serversock}
Capacity == Cardinality(Seats)

(* The buffers suffice for lines of at most L tokens.  A client's own buffer takes all
   it writes between two looks at the server.  The server's takes what it writes to the
   client meanwhile: in every scan each of the others speaks once, and the client
   itself is heard. *)
BuffersTake(L) ==
  /\ \A line \in Lines : Len(line) <= L
  /\ BATCH * L <= RCVBUF
  /\ Capacity * (BATCH * L + 1) - 1 <= SNDBUF
BuffersSuffice == Lines # {} /\ \E L \in Nat : BuffersTake(L)

(* For a client c: the messages it has not read; the ready clients, other than c, that
   the scan has yet to come to; whether it has yet to come to c; and whether what the
   server is writing is for c. *)
Unread(c) == Len(down[c]) - rcvd[c]
Talkers(c) == {f \in Pending : sock[f] # c}
Awaited(c) == \E f \in Pending : sock[f] = c
Expecting(c) ==
  \/ At("welcome") /\ sock[fd] = c
  \/ At("reply") /\ sock[j] = c
  \/ c \in Owed
ToCome(c) == IF Expecting(c) THEN 1 ELSE 0
Load(c) == Unread(c) + Cardinality(Talkers(c)) + ToCome(c)

(* What c can still say before it looks at the server again, and how much less that
   is than it may have been at first. *)
Left(c, L) == Len(up[c]) + typing[c] * L
Progress(c, L) == RCVBUF + BATCH * L - Left(c, L)
Allowance(c, L) ==
  Capacity * (Progress(c, L) + 1) + (IF Awaited(c) THEN Capacity - 1 ELSE 0)

(* While a client has more to say than its buffer takes, what it is sent is bounded by
   the progress it has made: it is heard in each scan but the first, and a scan brings
   it at most a message of each client. *)
Burdened(c, L) == typing[c] > 0 /\ Left(c, L) > RCVBUF
LoadInv(L) ==
  exit = "none" => \A c \in Conns : Burdened(c, L) => Load(c) <= Allowance(c, L)

(* Only an open connection has a client behind it, and the server has not heard of its
   end; a connection without a descriptor was written nothing; and between two scans nothing is ready. *)
ClientsInv ==
  /\ typing \in [Conns -> 0 .. BATCH]
  /\ \A c \in Conns :
       /\ typing[c] > 0 => peer[c] = "open"
       /\ peer[c] # "closed" => link[c] = "up"
       /\ Len(up[c]) <= RCVBUF
       /\ (\A f \in Fds : sock[f] # c) => down[c] = <<>> /\ rcvd[c] = 0
  /\ exit = "none" /\ pc \in {"init", "select"} => readfds = {} /\ j = 0

LEMMA SeatsFinite == IsFiniteSet(Seats) /\ Capacity \in Nat
<1>1. IsFiniteSet(0 .. FD_LIMIT - 1)
  BY ServerAssumption, FS_Interval
<1>2. Seats \subseteq 0 .. FD_LIMIT - 1
  BY DEF Seats, Fds
<1>3. IsFiniteSet(Seats)
  BY <1>1, <1>2, FS_Subset
<1> QED
  BY <1>3, FS_CardinalityType DEF Capacity

(* Others are ready on as many descriptors as there are seats, less one if c has one. *)
LEMMA TalkersSeated ==
  ASSUME IInv, exit = "none", NEW c \in Conns
  PROVE  /\ IsFiniteSet(Talkers(c)) /\ Cardinality(Talkers(c)) \in 0 .. Capacity
         /\ \A f \in Registered : sock[f] = c => Cardinality(Talkers(c)) <= Capacity - 1
<1>1. Pending \subseteq Registered /\ Registered \subseteq Seats
  BY DEF IInv, ReadyInv, SlotInv, Registered, Seats
<1>2. Talkers(c) \subseteq Seats
  BY <1>1 DEF Talkers
<1>3. IsFiniteSet(Talkers(c)) /\ Cardinality(Talkers(c)) <= Capacity
  BY <1>2, SeatsFinite, FS_Subset DEF Capacity
<1>4. Cardinality(Talkers(c)) \in Nat
  BY <1>3, FS_CardinalityType
<1>5. ASSUME NEW f \in Registered, sock[f] = c
      PROVE  Cardinality(Talkers(c)) <= Capacity - 1
  <2>1. f \in Seats /\ Talkers(c) \subseteq Seats \ {f}
    BY <1>1, <1>2, <1>5 DEF Talkers
  <2>2. IsFiniteSet(Seats \ {f}) /\ Cardinality(Seats \ {f}) = Capacity - 1
    BY <2>1, SeatsFinite, FS_RemoveElement DEF Capacity
  <2> QED
    BY <2>1, <2>2, FS_Subset
<1> QED
  BY <1>3, <1>4, <1>5, SeatsFinite

(* Products that grow with a factor. *)
LEMMA ProductGrows ==
  ASSUME NEW r \in Nat, NEW a \in Int, NEW b \in Int
  PROVE  /\ a <= b => r * a <= r * b
         /\ a < b => r * a + r <= r * b
<1>1. r * b = r * a + r * (b - a)
  OBVIOUS
<1>2. a <= b => r * (b - a) >= 0
  OBVIOUS
<1>3. a < b => r * (b - a - 1) >= 0 /\ r * (b - a) = r * (b - a - 1) + r
  OBVIOUS
<1> QED
  BY <1>1, <1>2, <1>3

LEMMA LoadTypes ==
  ASSUME IInv, ClientsInv, exit = "none", NEW c \in Conns, NEW L \in Nat
  PROVE  /\ Unread(c) \in Int /\ ToCome(c) \in 0 .. 1 /\ Load(c) \in Int
         /\ Len(up[c]) \in Nat /\ typing[c] \in Nat /\ typing[c] * L \in Nat
         /\ Left(c, L) \in Nat /\ Progress(c, L) \in Nat
<1>1. Len(down[c]) \in Nat /\ rcvd[c] \in Nat /\ Len(up[c]) \in Nat
  BY DEF IInv, TypeOK, NetTypes
<1>2. ToCome(c) \in 0 .. 1
  BY DEF ToCome
<1>3. Cardinality(Talkers(c)) \in Int
  BY TalkersSeated, SeatsFinite
<1>4. typing[c] \in 0 .. BATCH /\ Len(up[c]) <= RCVBUF
  BY DEF ClientsInv
<1>5. L * typing[c] <= L * BATCH /\ L * typing[c] \in Nat /\ L * BATCH \in Nat
  BY <1>4, ProductGrows, SystemAssumption
<1>6. typing[c] * L = L * typing[c] /\ BATCH * L = L * BATCH
  BY <1>4, SystemAssumption
<1>7. Left(c, L) \in Nat /\ Progress(c, L) \in Nat
  <2>1. PICK p \in Nat, b \in Nat : p = typing[c] * L /\ b = BATCH * L
    BY <1>5, <1>6
  <2>2. p <= b /\ Len(up[c]) <= RCVBUF /\ RCVBUF \in Nat
    BY <1>4, <1>5, <1>6, <2>1, ServerAssumption
  <2>3. Left(c, L) = Len(up[c]) + p /\ Progress(c, L) = RCVBUF + b - (Len(up[c]) + p)
    BY <2>1 DEF Left, Progress
  <2> QED
    BY <1>1, <2>2, <2>3
<1>8. Unread(c) \in Int
  BY <1>1 DEF Unread
<1>9. Load(c) \in Int
  BY <1>2, <1>3, <1>8 DEF Load
<1> QED
  BY <1>1, <1>2, <1>4, <1>5, <1>6, <1>7, <1>8, <1>9

(* A step that leaves c its text and adds nothing to its load keeps the bound. *)
LEMMA LoadKept ==
  ASSUME NEW c \in Conns, NEW L \in Nat,
         Burdened(c, L) => Load(c) <= Allowance(c, L),
         Load(c) \in Int, Load(c)' \in Int, Load(c)' <= Load(c), Allowance(c, L) \in Int,
         typing'[c] = typing[c], up'[c] = up[c], Awaited(c)' <=> Awaited(c)
  PROVE  Burdened(c, L)' => Load(c)' <= Allowance(c, L)'
<1>1. Left(c, L)' = Left(c, L)
  BY DEF Left
<1>2. Allowance(c, L)' = Allowance(c, L)
  BY <1>1 DEF Allowance, Progress
<1> QED
  BY <1>1, <1>2 DEF Burdened

(* What these lemmas say of any client, for use in both states of a step. *)
LoadSane ==
  \A c \in Conns, L \in Nat :
    /\ Cardinality(Talkers(c)) \in 0 .. Capacity
    /\ \A f \in Registered : sock[f] = c => Cardinality(Talkers(c)) <= Capacity - 1
    /\ Unread(c) \in Int /\ ToCome(c) \in 0 .. 1 /\ Load(c) \in Int
    /\ Left(c, L) \in Nat /\ Progress(c, L) \in Nat
    /\ Capacity * (Progress(c, L) + 1) \in Nat
    /\ Capacity <= Capacity * (Progress(c, L) + 1)

LEMMA LoadFacts == IInv /\ ClientsInv /\ exit = "none" => LoadSane
<1> SUFFICES ASSUME IInv, ClientsInv, exit = "none" PROVE LoadSane
  OBVIOUS
<1> SUFFICES ASSUME NEW c \in Conns, NEW L \in Nat
             PROVE  /\ Cardinality(Talkers(c)) \in 0 .. Capacity
                    /\ \A f \in Registered : sock[f] = c => Cardinality(Talkers(c)) <= Capacity - 1
                    /\ Unread(c) \in Int /\ ToCome(c) \in 0 .. 1 /\ Load(c) \in Int
                    /\ Left(c, L) \in Nat /\ Progress(c, L) \in Nat
                    /\ Capacity * (Progress(c, L) + 1) \in Nat
                    /\ Capacity <= Capacity * (Progress(c, L) + 1)
  BY DEF LoadSane
<1>1. PICK p \in Nat, r \in Nat : p = Progress(c, L) /\ r = Capacity
  BY LoadTypes, SeatsFinite
<1>2. r * 1 <= r * (p + 1) /\ r * (p + 1) \in Nat
  BY ProductGrows
<1>3. Capacity <= Capacity * (Progress(c, L) + 1) /\ Capacity * (Progress(c, L) + 1) \in Nat
  BY <1>1, <1>2
<1> QED
  BY <1>3, TalkersSeated, LoadTypes

LEMMA LoadFactsNext == (IInv /\ ClientsInv /\ exit = "none")' => LoadSane'
  BY LoadFacts, PTL

(* A step that leaves c its text and adds nothing to its load keeps the bound, ... *)
LEMMA LoadStays ==
  ASSUME IInv, ClientsInv, IInv', ClientsInv', exit = "none", exit' = "none",
         NEW L \in Nat, LoadInv(L), NEW c \in Conns,
         typing'[c] = typing[c], up'[c] = up[c], Awaited(c)' <=> Awaited(c),
         Load(c)' <= Load(c)
  PROVE  Burdened(c, L)' => Load(c)' <= Allowance(c, L)'
<1>1. Load(c) \in Int /\ Load(c)' \in Int
  BY LoadFacts, LoadFactsNext DEF LoadSane
<1>2. Allowance(c, L) \in Int
  BY LoadFacts, SeatsFinite DEF Allowance, LoadSane
<1> QED
  BY <1>1, <1>2, LoadKept DEF LoadInv

(* ... in particular one that has nothing to do with it. *)
LEMMA LoadUntouched ==
  ASSUME IInv, ClientsInv, IInv', ClientsInv', exit = "none", exit' = "none",
         NEW L \in Nat, LoadInv(L), NEW c \in Conns,
         typing'[c] = typing[c], up'[c] = up[c], down'[c] = down[c], rcvd'[c] = rcvd[c],
         Pending' = Pending, \A f \in Pending : sock'[f] = sock[f],
         Expecting(c)' => Expecting(c)
  PROVE  Burdened(c, L)' => Load(c)' <= Allowance(c, L)'
<1>1. Talkers(c)' = Talkers(c) /\ Unread(c)' = Unread(c)
  BY DEF Talkers, Unread
<1>2. Awaited(c)' <=> Awaited(c)
  BY DEF Awaited
<1>3. ToCome(c)' <= ToCome(c)
  BY DEF ToCome
<1>4. Load(c)' <= Load(c)
  <2>1. PICK u \in Int, t \in Int : u = Unread(c) /\ t = Cardinality(Talkers(c))
    BY LoadFacts DEF LoadSane
  <2>2. ToCome(c) \in 0 .. 1 /\ ToCome(c)' \in 0 .. 1
    BY DEF ToCome
  <2> QED
    BY <1>1, <1>3, <2>1, <2>2 DEF Load
<1> QED
  BY <1>2, <1>4, LoadStays

-----------------------------------------------------------------------------
(* The server's steps. *)

(* write() to a client adds at most one message to what it has not read. *)
LEMMA WriteLoads ==
  ASSUME NetTypes, NEW c \in Conns, NEW m \in Message, Write(c, m)
  PROVE  /\ UNCHANGED <<sock, rcvd, up, peer>>
         /\ \A d \in Conns : d # c => down'[d] = down[d]
         /\ Len(down'[c]) \in {Len(down[c]), Len(down[c]) + 1}
         /\ \A d \in Conns : link'[d] = "up" <=> link[d] = "up"
<1>1. \A d \in Conns : link'[d] = "up" <=> link[d] = "up"
  BY WriteFacts
<1>2. down' = down \/ down' = [down EXCEPT ![c] = Append(@, m)]
  BY DEF Write
<1>3. down \in [Conns -> Seq(Message)] /\ down[c] \in Seq(Message)
  BY DEF NetTypes
<1>4. Len(Append(down[c], m)) = Len(down[c]) + 1
  BY <1>3
<1> QED
  BY <1>1, <1>2, <1>3, <1>4 DEF Write

(* A connection without a client is on no descriptor. *)
LEMMA NoSeat ==
  ASSUME IInv, exit = "none", NEW c \in Conns, \A f \in Registered : sock[f] # c
  PROVE  \A f \in Fds : sock[f] # c
BY ServerAssumption DEF IInv, TableInv, KernelAgrees

LEMMA WriteClients ==
  ASSUME IInv, ClientsInv, exit = "none", typing' = typing,
         NEW f \in Registered, NEW m \in Message, Write(sock[f], m),
         readfds' = readfds, pc' \notin {"init", "select"}
  PROVE  ClientsInv'
<1>1. PICK c \in Conns : c = sock[f]
  BY RegisteredSock
<1>2. f \in Fds /\ NetTypes
  BY RegisteredSock DEF IInv, TypeOK
<1>3. /\ UNCHANGED <<sock, rcvd, up, peer>>
      /\ \A d \in Conns : d # c => down'[d] = down[d]
      /\ \A d \in Conns : link'[d] = "up" <=> link[d] = "up"
  BY <1>1, <1>2, WriteLoads
<1> QED
  BY <1>1, <1>2, <1>3 DEF ClientsInv

(* What is written was to come. *)
LEMMA WriteLoad ==
  ASSUME IInv, ClientsInv, IInv', ClientsInv', exit = "none", exit' = "none",
         typing' = typing, NEW L \in Nat, LoadInv(L),
         NEW f \in Registered, NEW m \in Message, Write(sock[f], m),
         Pending' = Pending, Expecting(sock[f]), ~Expecting(sock[f])',
         \A d \in Conns : Expecting(d)' => Expecting(d)
  PROVE  LoadInv(L)'
<1>1. PICK c \in Conns : c = sock[f]
  BY RegisteredSock
<1>2. NetTypes
  BY DEF IInv, TypeOK
<1>3. /\ UNCHANGED <<sock, rcvd, up, peer>>
      /\ \A d \in Conns : d # c => down'[d] = down[d]
      /\ Len(down'[c]) \in {Len(down[c]), Len(down[c]) + 1}
  BY <1>1, <1>2, WriteLoads
<1>4. ASSUME NEW d \in Conns, d # c
      PROVE  Burdened(d, L)' => Load(d)' <= Allowance(d, L)'
  BY <1>3, <1>4, LoadUntouched
<1>5. Burdened(c, L)' => Load(c)' <= Allowance(c, L)'
  <2>1. Talkers(c)' = Talkers(c)
    BY <1>3 DEF Talkers
  <2>2. Awaited(c)' <=> Awaited(c)
    BY <1>3 DEF Awaited
  <2>3. Expecting(c) /\ ~Expecting(c)'
    <3>1. Expecting(c)
      BY <1>1
    <3>2. ~Expecting(c)'
      BY <1>1, <1>3
    <3> QED
      BY <3>1, <3>2
  <2>4. ToCome(c) = 1 /\ ToCome(c)' = 0
    BY <2>3 DEF ToCome
  <2>5. Unread(c)' <= Unread(c) + 1 /\ Unread(c)' \in Int /\ Unread(c) \in Int
    <3>1. Len(down[c]) \in Nat /\ rcvd[c] \in Nat
      BY <1>2 DEF NetTypes
    <3> QED
      BY <1>3, <3>1 DEF Unread
  <2>6. Cardinality(Talkers(c)) \in Int
    BY LoadFacts, SeatsFinite DEF LoadSane
  <2>7. Load(c)' <= Load(c)
    BY <2>1, <2>4, <2>5, <2>6 DEF Load
  <2> QED
    BY <1>3, <2>2, <2>7, LoadStays
<1> QED
  BY <1>4, <1>5 DEF LoadInv

(* The welcome, ... *)
LEMMA WelcomeLoads ==
  ASSUME IInv, IInv', ClientsInv, Welcome, typing' = typing
  PROVE  /\ ClientsInv'
         /\ \A L \in Nat : LoadInv(L) => LoadInv(L)'
<1>1. /\ exit = "none" /\ pc = "welcome" /\ fd \in Registered
      /\ Write(sock[fd], Notice("welcome"))
      /\ pc' = "scan" /\ UNCHANGED <<table, readfds, j, k, msg>>
  BY DEF Welcome, At, IInv, PlaceInv
<1>2. Notice("welcome") \in Message /\ sock' = sock
  BY <1>1, NoticeType DEF Write
<1>3. Pending' = Pending
  BY <1>1 DEF Pending
<1>4. ClientsInv'
  BY <1>1, <1>2, WriteClients
<1>5. Expecting(sock[fd]) /\ \A d : ~Expecting(d)'
  BY <1>1 DEF Expecting, At, Owed
<1>6. ASSUME NEW L \in Nat, LoadInv(L) PROVE LoadInv(L)'
  <2>1. CASE exit' = "none"
    <3>1. ~Expecting(sock[fd])'
      BY <1>5
    <3> QED
      BY <1>1, <1>2, <1>3, <1>4, <1>5, <1>6, <2>1, <3>1, WriteLoad
  <2> QED
    BY <2>1 DEF LoadInv
<1> QED
  BY <1>4, <1>6

(* ... an answer, ... *)
LEMMA ReplyLoads ==
  ASSUME IInv, IInv', ClientsInv, Reply, typing' = typing
  PROVE  /\ ClientsInv'
         /\ \A L \in Nat : LoadInv(L) => LoadInv(L)'
<1>1. /\ exit = "none" /\ pc = "reply" /\ j \in Registered
      /\ Write(sock[j], Notice("unsupported"))
      /\ pc' = "scan" /\ j' = j + 1 /\ UNCHANGED <<table, readfds, k, msg>>
  BY DEF Reply, At, IInv, PlaceInv
<1>2. Notice("unsupported") \in Message /\ sock' = sock /\ j \in 0 .. MAX_CLIENTS + SLACK
  BY <1>1, NoticeType, RegisteredSock DEF Write
<1>3. Pending' = Pending
  <2>1. readfds \subseteq Int /\ j \in Int
    BY <1>2 DEF IInv, TypeOK, ServerTypes, Slots
  <2>2. \A f \in Int : f >= j + 1 <=> f >= j /\ f # j
    BY <2>1
  <2> QED
    BY <1>1, <2>1, <2>2 DEF Pending
<1>4. ClientsInv'
  BY <1>1, <1>2, WriteClients
<1>5. Expecting(sock[j]) /\ \A d : ~Expecting(d)'
  BY <1>1 DEF Expecting, At, Owed
<1>6. ASSUME NEW L \in Nat, LoadInv(L) PROVE LoadInv(L)'
  <2>1. CASE exit' = "none"
    <3>1. ~Expecting(sock[j])'
      BY <1>5
    <3> QED
      BY <1>1, <1>2, <1>3, <1>4, <1>5, <1>6, <2>1, <3>1, WriteLoad
  <2> QED
    BY <2>1 DEF LoadInv
<1> QED
  BY <1>4, <1>6

(* ... and a message for the next of the others were to come to their readers. *)
LEMMA BroadcastLoads ==
  ASSUME IInv, IInv', ClientsInv, BroadcastWrite, typing' = typing
  PROVE  /\ ClientsInv'
         /\ \A L \in Nat : LoadInv(L) => LoadInv(L)'
<1>1. PICK f \in Recipients :
        IsLowest(f, Recipients) /\ Write(sock[f], msg) /\ k' = f + 1
  BY DEF BroadcastWrite
<1>2. /\ exit = "none" /\ pc = "broadcast" /\ msg \in Message /\ pc' = pc
      /\ UNCHANGED <<table, readfds, j, msg>> /\ sock' = sock
  BY <1>1 DEF BroadcastWrite, At, IInv, PlaceInv, Write
<1>3. f \in Registered /\ f \in Nat /\ k \in Nat /\ maxclient \in Int /\ k <= f
  <2>1. k \in 0 .. MAX_CLIENTS + SLACK /\ maxclient \in {-1} \cup Slots
    BY DEF IInv, TypeOK, ServerTypes
  <2>2. k .. maxclient \subseteq Slots
    BY <2>1, ServerAssumption DEF Slots
  <2> QED
    BY <2>1, <2>2, ServerAssumption DEF Recipients, Registered, Slots
<1>4. Pending' = Pending
  BY <1>2 DEF Pending
<1>5. ClientsInv'
  BY <1>1, <1>2, <1>3, WriteClients
<1>6. Recipients' \subseteq Recipients /\ f \notin Recipients'
  BY <1>1, <1>2, <1>3 DEF Recipients, table
<1>7. Expecting(sock[f])
  BY <1>2 DEF Expecting, At, Owed
<1>8. \A d \in Conns : Expecting(d)' => Expecting(d)
  BY <1>2, <1>6 DEF Expecting, At, Owed
<1>9. ~Expecting(sock[f])'
  <2>1. \A g \in Recipients' : g \in Fds /\ g # f
    <3>1. ASSUME NEW g \in Recipients PROVE g \in Fds
      <4>1. k .. maxclient \subseteq Slots
        BY ServerAssumption DEF IInv, TypeOK, ServerTypes, Slots
      <4>2. g \in Registered
        BY <4>1 DEF Recipients, Registered
      <4> QED
        BY <1>2, <4>2, RegisteredSock
    <3> QED
      BY <1>6, <3>1
  <2>2. f \in Fds /\ sock[f] \in Conns
    BY <1>2, <1>3, RegisteredSock
  <2>3. \A g \in Recipients' : sock[g] # sock[f]
    BY <2>1, <2>2, ServerAssumption DEF IInv, TableInv, OneFdEach
  <2> QED
    BY <1>2, <2>3 DEF Expecting, At, Owed
<1>10. ASSUME NEW L \in Nat, LoadInv(L) PROVE LoadInv(L)'
  <2>1. CASE exit' = "none"
    BY <1>1, <1>2, <1>3, <1>4, <1>5, <1>7, <1>8, <1>9, <1>10, <2>1, WriteLoad
  <2> QED
    BY <2>1 DEF LoadInv
<1> QED
  BY <1>5, <1>10

(* Steps that write nothing, read nothing and move no scan. *)
LEMMA IdleLoads ==
  ASSUME IInv, IInv', ClientsInv, ClientsInv', exit = "none", typing' = typing,
         UNCHANGED <<sock, up, down, rcvd>>, Pending' = Pending,
         \A d \in Conns : Expecting(d)' => Expecting(d)
  PROVE  \A L \in Nat : LoadInv(L) => LoadInv(L)'
<1> SUFFICES ASSUME NEW L \in Nat, LoadInv(L) PROVE LoadInv(L)'
  OBVIOUS
<1>1. ASSUME exit' = "none", NEW d \in Conns
      PROVE  Burdened(d, L)' => Load(d)' <= Allowance(d, L)'
  BY <1>1, LoadUntouched
<1> QED
  BY <1>1 DEF LoadInv

LEMMA BroadcastDoneLoads ==
  ASSUME IInv, IInv', ClientsInv, BroadcastDone, typing' = typing
  PROVE  /\ ClientsInv'
         /\ \A L \in Nat : LoadInv(L) => LoadInv(L)'
<1>1. /\ exit = "none" /\ pc = "broadcast" /\ j \in Registered
      /\ pc' = "scan" /\ j' = j + 1
      /\ UNCHANGED <<table, readfds, net>>
  BY DEF BroadcastDone, At, IInv, PlaceInv
<1>2. Pending' = Pending
  <2>1. readfds \subseteq Int /\ j \in Int
    BY <1>1, RegisteredSock DEF IInv, TypeOK, ServerTypes, Slots
  <2>2. \A f \in Int : f >= j + 1 <=> f >= j /\ f # j
    BY <2>1
  <2> QED
    BY <1>1, <2>1, <2>2 DEF Pending
<1>3. ClientsInv'
  BY <1>1 DEF ClientsInv, net
<1>4. \A d \in Conns : ~Expecting(d)'
  BY <1>1 DEF Expecting, At, Owed
<1> QED
  BY <1>1, <1>2, <1>3, <1>4, IdleLoads DEF net

(* Nothing is pending while the server starts, and when a scan is over. *)
LEMMA NothingPending ==
  ASSUME IInv, ClientsInv, InitChat \/ ScanDone \/ Select
  PROVE  exit = "none" /\ Pending = {} /\ \A d : ~Expecting(d)
<1>1. exit = "none" /\ pc \in {"init", "scan", "select"}
  BY DEF InitChat, ScanDone, Select, At
<1>2. \A d : ~Expecting(d)
  BY <1>1 DEF Expecting, At, Owed
<1>3. CASE pc \in {"init", "select"}
  BY <1>1, <1>2, <1>3 DEF ClientsInv, Pending
<1>4. CASE pc = "scan"
  <2>1. ScanSet = {}
    BY <1>4 DEF InitChat, ScanDone, Select, At
  <2>2. ASSUME NEW f \in Pending PROVE f \in ScanSet
    <3>1. f \in Registered /\ f \in readfds /\ f >= j /\ f <= maxclient
      BY <1>1 DEF IInv, ReadyInv, Pending, TableInv, MaxMatches
    <3>2. f \in Int /\ j \in Int /\ maxclient \in Int /\ clients[f] # NULL
      BY <3>1, ServerAssumption DEF IInv, TypeOK, ServerTypes, Slots, Registered
    <3> QED
      BY <3>1, <3>2 DEF ScanSet
  <2> QED
    BY <1>1, <1>2, <2>1, <2>2
<1> QED
  BY <1>1, <1>3, <1>4

LEMMA RestLoads ==
  ASSUME IInv, IInv', ClientsInv, InitChat \/ ScanDone, typing' = typing
  PROVE  /\ ClientsInv'
         /\ \A L \in Nat : LoadInv(L) => LoadInv(L)'
<1>1. exit = "none" /\ Pending = {} /\ UNCHANGED net
      /\ (readfds' = {} \/ readfds' = readfds)
  BY NothingPending DEF InitChat, ScanDone
<1>2. exit' = "none" => pc' = "select" /\ readfds' = {} /\ j' = 0
  BY DEF InitChat, ScanDone, At, ClientsInv
<1>3. ClientsInv'
  BY <1>1, <1>2 DEF ClientsInv, net
<1>4. CASE exit' = "none"
  <2>1. Pending' = Pending /\ \A d : ~Expecting(d)'
    BY <1>1, <1>2, <1>4 DEF Pending, Expecting, At, Owed
  <2> QED
    BY <1>1, <1>3, <1>4, <2>1, IdleLoads DEF net
<1> QED
  BY <1>3, <1>4 DEF LoadInv

(* select() starts a scan in which every client that has more to say than its buffer
   takes is heard. *)
LEMMA SelectLoads ==
  ASSUME IInv, IInv', ClientsInv, Select, typing' = typing
  PROVE  /\ ClientsInv'
         /\ \A L \in Nat : BATCH * L <= RCVBUF /\ LoadInv(L) => LoadInv(L)'
<1>1. exit = "none" /\ Pending = {} /\ \A d : ~Expecting(d)
  BY NothingPending
<1>2. /\ pc = "select" /\ UNCHANGED <<table, j, net>>
      /\ exit' = "none" => readfds' = Ready /\ pc' \in {"select", "accept", "scan"}
      /\ exit' = "none" /\ pc' = "select" => Ready = {}
      /\ exit' = "none" => \A f \in SelectSet : sock[f] # NULL
  BY DEF Select, At
<1>3. j = 0
  BY <1>1, <1>2 DEF ClientsInv
<1>4. ClientsInv'
  BY <1>2, <1>3 DEF ClientsInv, net
<1>5. ASSUME NEW L \in Nat, BATCH * L <= RCVBUF, LoadInv(L), exit' = "none", NEW c \in Conns,
             Burdened(c, L)'
      PROVE  Load(c)' <= Allowance(c, L)'
  <2>1. /\ Unread(c)' = Unread(c) /\ Left(c, L)' = Left(c, L) /\ Burdened(c, L)
        /\ Progress(c, L)' = Progress(c, L)
    BY <1>2, <1>5 DEF Unread, Left, Progress, Burdened, net
  <2>2. ToCome(c) = 0 /\ ToCome(c)' = 0 /\ Talkers(c) = {} /\ ~Awaited(c)
    BY <1>1, <1>2, <1>5 DEF ToCome, Expecting, At, Owed, Talkers, Awaited
  <2>3. /\ Cardinality(Talkers(c))' \in 0 .. Capacity
        /\ \A f \in Registered' : sock'[f] = c => Cardinality(Talkers(c))' <= Capacity - 1
        /\ Unread(c) \in Int
        /\ Capacity * (Progress(c, L) + 1) \in Nat
        /\ Capacity <= Capacity * (Progress(c, L) + 1)
    <3>1. LoadSane
      BY <1>1, LoadFacts
    <3>2. LoadSane'
      BY <1>4, <1>5, LoadFactsNext
    <3> QED
      BY <3>1, <3>2 DEF LoadSane
  <2>4. PICK u \in Int, t \in Int, p \in Int, r \in Nat :
          u = Unread(c) /\ t = Cardinality(Talkers(c))'
            /\ p = Capacity * (Progress(c, L) + 1) /\ r = Capacity
    BY <2>3, SeatsFinite
  <2>5. Load(c)' = u + t
    BY <2>1, <2>2, <2>4 DEF Load
  <2>6. CASE \E f \in Registered : sock[f] = c
    <3>1. PICK f \in Registered : sock[f] = c
      BY <2>6
    <3>2. f \in Registered' /\ sock'[f] = c
      BY <1>2, <3>1 DEF Registered, table, net
    <3>3. t <= r - 1
      BY <2>3, <2>4, <3>2
    <3>4. u <= p
      <4>1. Load(c) <= Allowance(c, L)
        BY <1>1, <1>5, <2>1 DEF LoadInv
      <4>2. Cardinality(Talkers(c)) = 0
        BY <2>2, FS_EmptySet
      <4> QED
        BY <2>2, <2>4, <4>1, <4>2 DEF Load, Allowance
    <3>5. up[c] # <<>>
      <4>1. typing[c] \in 0 .. BATCH
        BY DEF ClientsInv
      <4>2. L * typing[c] <= L * BATCH
        BY <4>1, ProductGrows, SystemAssumption
      <4>3. typing[c] * L <= RCVBUF /\ typing[c] * L \in Int
        <5>1. typing[c] * L = L * typing[c] /\ BATCH * L = L * BATCH
          BY <4>1, SystemAssumption
        <5>2. PICK p1 \in Int, b \in Int : p1 = typing[c] * L /\ b = BATCH * L
          BY <4>1, SystemAssumption
        <5>3. p1 <= b /\ b <= RCVBUF
          BY <1>5, <4>2, <5>1, <5>2
        <5> QED
          BY <5>2, <5>3, ServerAssumption
      <4>4. Len(up[c]) > 0
        <5>1. PICK q \in Int, n \in Nat : q = typing[c] * L /\ n = Len(up[c])
          BY <4>3 DEF IInv, TypeOK, NetTypes
        <5>2. n + q > RCVBUF
          BY <2>1, <5>1 DEF Burdened, Left
        <5> QED
          BY <4>3, <5>1, <5>2, ServerAssumption
      <4> QED
        BY <4>4
    <3>6. f \in Pending'
      <4>1. f \in SelectSet /\ f # serversock /\ f >= 0
        <5>1. f <= maxclient /\ f \in Slots /\ f > serversock /\ clients[f] # NULL
          BY DEF IInv, TableInv, MaxMatches, SlotInv, Registered
        <5>2. maxclient \in {-1} \cup Slots
          BY DEF IInv, TypeOK, ServerTypes
        <5> QED
          BY <5>1, <5>2, ServerAssumption DEF SelectSet, Slots
      <4>2. f \in Ready
        BY <3>1, <3>5, <4>1 DEF Ready, Readable
      <4> QED
        BY <1>2, <1>3, <1>5, <4>1, <4>2 DEF Pending
    <3>7. Awaited(c)'
      BY <3>2, <3>6 DEF Awaited
    <3>8. Allowance(c, L)' = p + (r - 1)
      BY <2>1, <2>4, <3>7 DEF Allowance
    <3> QED
      BY <2>4, <2>5, <3>3, <3>4, <3>8
  <2>7. CASE \A f \in Registered : sock[f] # c
    <3>1. Unread(c) = 0
      <4>1. \A f \in Fds : sock[f] # c
        BY <1>1, <2>7, NoSeat
      <4> QED
        BY <4>1 DEF ClientsInv, Unread
    <3>2. ~Awaited(c)'
      <4>1. Pending' \subseteq Registered' /\ Registered' = Registered /\ sock' = sock
        BY <1>2, <1>5 DEF IInv, ReadyInv, Registered, table, net
      <4> QED
        BY <2>7, <4>1 DEF Awaited
    <3>3. Allowance(c, L)' = p
      BY <2>1, <2>4, <3>2 DEF Allowance
    <3> QED
      BY <2>3, <2>4, <2>5, <3>1, <3>3
  <2> QED
    BY <2>6, <2>7
<1>6. \A L \in Nat : BATCH * L <= RCVBUF /\ LoadInv(L) => LoadInv(L)'
  <2> SUFFICES ASSUME NEW L \in Nat, BATCH * L <= RCVBUF, LoadInv(L), exit' = "none",
                      NEW c \in Conns, Burdened(c, L)'
               PROVE  Load(c)' <= Allowance(c, L)'
    BY DEF LoadInv
  <2> QED
    BY <1>5
<1> QED
  BY <1>4, <1>6

(* A client that has read everything is light: all there are, and it, cannot bring it
   more than the least allowance. *)
LightLoads ==
  \A c \in Conns, L \in Nat : Unread(c) = 0 => Load(c) <= Allowance(c, L)

LEMMA ExpectingSeated ==
  ASSUME IInv, exit = "none", NEW c, Expecting(c)
  PROVE  \E f \in Registered : sock[f] = c
<1>1. CASE At("welcome") /\ sock[fd] = c
  BY <1>1 DEF At, IInv, PlaceInv
<1>2. CASE At("reply") /\ sock[j] = c
  BY <1>2 DEF At, IInv, PlaceInv
<1>3. CASE c \in Owed
  <2>1. PICK f \in Recipients : sock[f] = c
    BY <1>3 DEF Owed
  <2>2. k .. maxclient \subseteq Slots
    BY ServerAssumption DEF IInv, TypeOK, ServerTypes, Slots
  <2> QED
    BY <2>1, <2>2 DEF Recipients, Registered
<1> QED
  BY <1>1, <1>2, <1>3 DEF Expecting

LEMMA LightFacts == IInv /\ ClientsInv /\ exit = "none" => LightLoads
<1> SUFFICES ASSUME IInv, ClientsInv, exit = "none", NEW c \in Conns, NEW L \in Nat,
                    Unread(c) = 0
             PROVE  Load(c) <= Allowance(c, L)
  BY DEF LightLoads
<1>1. /\ Cardinality(Talkers(c)) \in 0 .. Capacity
      /\ \A f \in Registered : sock[f] = c => Cardinality(Talkers(c)) <= Capacity - 1
      /\ ToCome(c) \in 0 .. 1
      /\ Capacity * (Progress(c, L) + 1) \in Nat
      /\ Capacity <= Capacity * (Progress(c, L) + 1)
  BY LoadFacts DEF LoadSane
<1>2. PICK t \in Int, p \in Int, r \in Nat, e \in 0 .. 1 :
        t = Cardinality(Talkers(c)) /\ p = Capacity * (Progress(c, L) + 1)
          /\ r = Capacity /\ e = ToCome(c)
  BY <1>1, SeatsFinite
<1>3. Load(c) = t + e
  BY <1>2 DEF Load
<1>4. Allowance(c, L) = p + (IF Awaited(c) THEN r - 1 ELSE 0)
  BY <1>2 DEF Allowance
<1>5. CASE \E f \in Registered : sock[f] = c
  <2>1. t <= r - 1 /\ 0 <= t /\ r <= p
    BY <1>1, <1>2, <1>5
  <2> QED
    BY <1>2, <1>3, <1>4, <2>1
<1>6. CASE \A f \in Registered : sock[f] # c
  <2>1. ~Awaited(c)
    BY <1>6 DEF Awaited, IInv, ReadyInv
  <2>2. ~Expecting(c)
    BY <1>6, ExpectingSeated
  <2>3. e = 0
    BY <1>2, <2>2 DEF ToCome
  <2> QED
    BY <1>1, <1>2, <1>3, <1>4, <2>1, <2>3
<1> QED
  BY <1>5, <1>6

LEMMA LightFactsNext == (IInv /\ ClientsInv /\ exit = "none")' => LightLoads'
  BY LightFacts, PTL

(* accept() and createClient() give a new client a descriptor. *)
LEMMA AcceptLoads ==
  ASSUME IInv, IInv', ClientsInv, Accept, typing' = typing
  PROVE  /\ ClientsInv'
         /\ \A L \in Nat : LoadInv(L) => LoadInv(L)'
<1>1. /\ exit = "none" /\ pc = "accept" /\ backlog # <<>>
      /\ UNCHANGED <<readfds, j, up, down, rcvd, link, peer>>
  BY DEF Accept, At, IInv, ReadyInv
<1>2. backlog \in Seq(Conns)
  BY DEF IInv, TypeOK, NetTypes
<1>3. Head(backlog) = backlog[1] /\ Head(backlog) \in Conns /\ 1 \in 1 .. Len(backlog)
  BY <1>1, <1>2
<1>4. PICK c \in Conns : c = Head(backlog)
  BY <1>3
<1>5. PICK f \in FreeFds :
        /\ sock' = [sock EXCEPT ![f] = c]
        /\ exit' = "none" => fd' = f /\ pc' = "welcome"
  BY <1>4 DEF Accept, acceptClient
<1>6. f \in Fds /\ sock[f] = NULL /\ sock \in [Fds -> Conns \cup {NULL}] /\ c # NULL
  BY <1>5, ServerAssumption DEF FreeFds, IInv, TypeOK, NetTypes
<1>7. sock'[f] = c /\ \A g \in Fds : g # f => sock'[g] = sock[g]
  BY <1>5, <1>6
<1>8. \A g \in Fds : sock[g] # c
  BY <1>3, <1>4 DEF IInv, QueueInv
<1>9. \A d \in Conns : d # c =>
        ((\A g \in Fds : sock'[g] # d) <=> (\A g \in Fds : sock[g] # d))
  BY <1>6, <1>7, ServerAssumption
<1>10. ClientsInv'
  BY <1>1, <1>5, <1>6, <1>7, <1>9 DEF ClientsInv
<1>11. ASSUME NEW L \in Nat, LoadInv(L), exit' = "none", NEW d \in Conns
       PROVE  Burdened(d, L)' => Load(d)' <= Allowance(d, L)'
  <2>1. CASE d = c
    <3>1. Unread(c)' = 0
      BY <1>1, <1>8 DEF Unread, ClientsInv
    <3>2. LightLoads'
      BY <1>10, <1>11, LightFactsNext
    <3>3. Load(c)' <= Allowance(c, L)'
      BY <3>1, <3>2 DEF LightLoads
    <3> QED
      BY <2>1, <3>3
  <2>2. CASE d # c
    <3>1. Pending' = Pending
      BY <1>1, <1>5, <1>11 DEF Pending
    <3>2. \A g \in Pending : g \in Fds /\ g # f
      BY <1>1, <1>6 DEF IInv, ReadyInv, SlotInv, TableInv, KernelAgrees
    <3>3. \A g \in Pending : sock'[g] = sock[g]
      BY <1>7, <3>2
    <3>4. ~Expecting(d)'
      BY <1>5, <1>7, <1>11, <2>2 DEF Expecting, At, Owed
    <3> QED
      BY <1>1, <1>10, <1>11, <3>1, <3>3, <3>4, LoadUntouched
  <2> QED
    BY <2>1, <2>2
<1> QED
  BY <1>10, <1>11 DEF LoadInv

LEMMA AcceptFailsLoads ==
  ASSUME IInv, ClientsInv, AcceptFails, typing' = typing
  PROVE  /\ ClientsInv'
         /\ \A L \in Nat : LoadInv(L) => LoadInv(L)'
<1>1. exit' # "none" /\ UNCHANGED net
  BY DEF AcceptFails
<1> QED
  BY <1>1 DEF ClientsInv, LoadInv, net

(* The scan comes to its next client. *)
LEMMA PendingScanned ==
  ASSUME IInv, exit = "none", pc = "scan", NEW f \in ScanSet, IsLowest(f, ScanSet),
         readfds' = readfds,
         \/ pc' = "scan" /\ j' = f + 1
         \/ pc' \in {"reply", "broadcast"} /\ j' = f
  PROVE  Pending' = Pending \ {f}
<1>1. f \in Registered /\ f \in Pending /\ f >= j
  BY ScanSetRegistered
<1>2. readfds \subseteq Nat /\ j \in Nat /\ f \in Nat /\ maxclient \in Int
  BY <1>1, ServerAssumption DEF IInv, TypeOK, ServerTypes, Slots, Registered
<1>3. \A g \in Pending : g \in Nat /\ g >= f
  <2> SUFFICES ASSUME NEW g \in Pending PROVE g \in Nat /\ g >= f
    OBVIOUS
  <2>1. g \in Registered /\ g \in readfds /\ g >= j /\ g <= maxclient /\ g \in Nat
    BY <1>2 DEF IInv, ReadyInv, Pending, TableInv, MaxMatches
  <2>2. g \in ScanSet
    BY <1>2, <2>1 DEF ScanSet, Registered
  <2> QED
    BY <2>1, <2>2 DEF IsLowest
<1>4. Pending' \subseteq Pending
  <2> SUFFICES ASSUME NEW g \in Pending' PROVE g \in Pending
    OBVIOUS
  <2>1. g \in readfds /\ g # serversock /\ g >= j' /\ g \in Nat /\ j' >= f /\ j' \in Nat
    BY <1>2 DEF Pending
  <2>2. g >= j
    BY <1>1, <1>2, <2>1
  <2> QED
    BY <2>1, <2>2 DEF Pending
<1>5. f \notin Pending'
  BY <1>2 DEF Pending
<1>6. \A g \in Pending : g # f => g \in Pending'
  <2> SUFFICES ASSUME NEW g \in Pending, g # f PROVE g \in Pending'
    OBVIOUS
  <2>1. g \in readfds /\ g # serversock /\ g >= f /\ g \in Nat
    BY <1>3 DEF Pending
  <2>2. g >= f + 1
    BY <1>2, <2>1
  <2> QED
    BY <2>1, <2>2 DEF Pending
<1> QED
  BY <1>4, <1>5, <1>6

(* Whoever it is, it was a talker for the others. *)
LEMMA ScanTalkers ==
  ASSUME IInv, exit = "none", NEW f \in Pending, Pending' = Pending \ {f},
         \A g \in Pending : g # f => sock'[g] = sock[g],
         NEW d \in Conns, sock[f] # d
  PROVE  /\ Cardinality(Talkers(d))' = Cardinality(Talkers(d)) - 1
         /\ Awaited(d)' <=> Awaited(d)
<1>1. Talkers(d)' = Talkers(d) \ {f} /\ f \in Talkers(d)
  BY DEF Talkers
<1>2. IsFiniteSet(Talkers(d))
  BY TalkersSeated
<1>3. Cardinality(Talkers(d)') = Cardinality(Talkers(d)) - 1
  BY <1>1, <1>2, FS_RemoveElement
<1>4. Awaited(d)' <=> Awaited(d)
  BY DEF Awaited
<1> QED
  BY <1>3, <1>4

(* A client is heard: it makes progress, and is owed an answer at most; each of the
   others may be owed what it said, and no longer awaits it. *)
LEMMA ReadTextLoads ==
  ASSUME IInv, IInv', ClientsInv, ReadText, typing' = typing
  PROVE  /\ ClientsInv'
         /\ \A L \in Nat : LoadInv(L) => LoadInv(L)'
<1>1. /\ exit = "none" /\ pc = "scan"
      /\ UNCHANGED <<readfds, sock, backlog, down, rcvd, link, peer>>
  BY DEF ReadText, At
<1>2. PICK f \in ScanSet, n \in Nat :
        /\ IsLowest(f, ScanSet) /\ n \in 1 .. Len(up[sock[f]])
        /\ up' = [up EXCEPT ![sock[f]] = SubSeq(@, n + 1, Len(@))]
        /\ \/ exit' \in chatMalloc /\ pc' = "scan" /\ j' = f + 1
           \/ pc' \in {"reply", "broadcast"} /\ j' = f
  <2>1. PICK f \in ScanSet : \E n \in ReadSizes(sock[f]) :
          /\ IsLowest(f, ScanSet)
          /\ up' = [up EXCEPT ![sock[f]] = SubSeq(@, n + 1, Len(@))]
          /\ LET chunk == SubSeq(up[sock[f]], 1, n)
             IN  Rename(f, chunk) \/ Unsupported(f, chunk) \/ Say(f, chunk)
    BY DEF ReadText
  <2>2. PICK n \in ReadSizes(sock[f]) :
          /\ IsLowest(f, ScanSet)
          /\ up' = [up EXCEPT ![sock[f]] = SubSeq(@, n + 1, Len(@))]
          /\ \/ Rename(f, SubSeq(up[sock[f]], 1, n))
             \/ Unsupported(f, SubSeq(up[sock[f]], 1, n))
             \/ Say(f, SubSeq(up[sock[f]], 1, n))
    BY <2>1
  <2>3. \/ exit' \in chatMalloc /\ pc' = "scan" /\ j' = f + 1
        \/ pc' \in {"reply", "broadcast"} /\ j' = f
    BY <1>1, <2>2 DEF Rename, Unsupported, Say
  <2>4. n \in Nat /\ n \in 1 .. Len(up[sock[f]])
    BY <2>2 DEF ReadSizes
  <2> QED
    BY <2>2, <2>3, <2>4
<1>3. f \in Registered /\ f \in Pending
  BY <1>1, ScanSetRegistered
<1>4. PICK c \in Conns : c = sock[f]
  BY <1>1, <1>3, RegisteredSock
<1>5. up[c] \in Seq(Tokens) /\ up \in [Conns -> Seq(Tokens)] /\ n \in 1 .. Len(up[c])
  BY <1>2, <1>4 DEF IInv, TypeOK, NetTypes
<1>6. /\ \A d \in Conns : d # c => up'[d] = up[d]
      /\ Len(up'[c]) = Len(up[c]) - n
  <2>1. up' = [up EXCEPT ![c] = SubSeq(up[c], n + 1, Len(up[c]))]
    BY <1>2, <1>4
  <2> QED
    BY <1>5, <2>1, ReadCuts
<1>7. ClientsInv'
  BY <1>1, <1>2, <1>5, <1>6, ServerAssumption DEF ClientsInv, chatMalloc
<1>8. Pending' = Pending \ {f}
  BY <1>1, <1>2, <1>3, PendingScanned
<1>9. \A d : ToCome(d) = 0 /\ ToCome(d)' \in 0 .. 1
  BY <1>1 DEF ToCome, Expecting, At, Owed
<1>10. ASSUME NEW L \in Nat, LoadInv(L), exit' = "none", NEW d \in Conns, d # c
       PROVE  Burdened(d, L)' => Load(d)' <= Allowance(d, L)'
  <2>1. /\ Cardinality(Talkers(d))' = Cardinality(Talkers(d)) - 1
        /\ Awaited(d)' <=> Awaited(d)
    BY <1>1, <1>3, <1>4, <1>8, <1>10, ScanTalkers
  <2>2. Unread(d)' = Unread(d)
    BY <1>1 DEF Unread
  <2>3. PICK u \in Int, t \in Int, e \in 0 .. 1 :
          u = Unread(d) /\ t = Cardinality(Talkers(d)) /\ e = ToCome(d)'
    BY <1>1, <1>9, LoadFacts, SeatsFinite DEF LoadSane
  <2>4. Load(d) = u + t /\ Load(d)' = u + (t - 1) + e
    BY <1>9, <2>1, <2>2, <2>3 DEF Load
  <2>5. Load(d)' <= Load(d)
    BY <2>3, <2>4
  <2> QED
    BY <1>1, <1>6, <1>7, <1>10, <2>1, <2>5, LoadStays
<1>11. ASSUME NEW L \in Nat, LoadInv(L), exit' = "none", Burdened(c, L)'
       PROVE  Load(c)' <= Allowance(c, L)'
  <2>1. Awaited(c) /\ ~Awaited(c)'
    <3>1. Awaited(c)
      BY <1>3, <1>4 DEF Awaited
    <3>2. \A g \in Pending' : g \in Fds /\ g # f
      BY <1>1, <1>8 DEF IInv, ReadyInv, SlotInv
    <3>3. f \in Fds /\ sock[f] # NULL
      BY <1>1, <1>3, <1>4, ServerAssumption DEF IInv, SlotInv
    <3>4. \A g \in Pending' : sock'[g] # c
      BY <1>1, <1>4, <3>2, <3>3 DEF IInv, TableInv, OneFdEach
    <3> QED
      BY <3>1, <3>4 DEF Awaited
  <2>2. Talkers(c)' = Talkers(c) /\ Unread(c)' = Unread(c)
    BY <1>1, <1>4, <1>8 DEF Talkers, Unread
  <2>3. PICK l \in Nat, q \in Nat, b \in Nat :
          l = Len(up[c]) /\ q = typing[c] * L /\ b = BATCH * L
    <3>1. BATCH * L \in Nat
      BY SystemAssumption
    <3> QED
      BY <1>1, <3>1, LoadTypes
  <2>4. /\ Left(c, L) = l + q /\ Left(c, L)' = (l - n) + q
        /\ Progress(c, L) = RCVBUF + b - (l + q)
        /\ Progress(c, L)' = RCVBUF + b - ((l - n) + q)
    BY <1>6, <2>3 DEF Left, Progress
  <2>5. Burdened(c, L)
    <3>1. typing[c] > 0 /\ (l - n) + q > RCVBUF
      BY <1>11, <2>4 DEF Burdened
    <3>2. l + q > RCVBUF
      BY <3>1, ServerAssumption
    <3> QED
      BY <2>4, <3>1, <3>2 DEF Burdened
  <2>6. Progress(c, L) + 1 < Progress(c, L)' + 1 /\ Progress(c, L) \in Nat
        /\ Progress(c, L)' \in Nat
    <3>1. Progress(c, L) \in Nat
      BY <1>1, LoadFacts DEF LoadSane
    <3>2. Progress(c, L)' = Progress(c, L) + n
      BY <2>4, ServerAssumption
    <3> QED
      BY <1>5, <3>1, <3>2
  <2>7. PICK r \in Nat, a \in Int, a1 \in Int :
          r = Capacity /\ a = Progress(c, L) + 1 /\ a1 = Progress(c, L)' + 1
    BY <2>6, SeatsFinite
  <2>8. r * a + r <= r * a1 /\ r * a \in Int /\ r * a1 \in Int
    BY <2>6, <2>7, ProductGrows
  <2>9. Allowance(c, L) = r * a + (r - 1) /\ Allowance(c, L)' = r * a1
    BY <2>1, <2>7 DEF Allowance
  <2>10. PICK u \in Int, t \in Int, e \in 0 .. 1 :
          u = Unread(c) /\ t = Cardinality(Talkers(c)) /\ e = ToCome(c)'
    BY <1>1, <1>9, LoadFacts, SeatsFinite DEF LoadSane
  <2>11. Load(c) = u + t /\ Load(c)' = u + t + e
    BY <1>9, <2>2, <2>10 DEF Load
  <2>12. u + t <= r * a + (r - 1)
    BY <1>1, <1>11, <2>5, <2>9, <2>11 DEF LoadInv
  <2>13. PICK p \in Int, p1 \in Int : p = r * a /\ p1 = r * a1
    BY <2>8
  <2>14. u + t + e <= p1
    <3>1. u + t <= p + (r - 1) /\ p + r <= p1
      BY <2>8, <2>12, <2>13
    <3> QED
      BY <2>7, <2>10, <2>13, <3>1
  <2> QED
    BY <2>9, <2>11, <2>13, <2>14
<1>12. \A L \in Nat : LoadInv(L) => LoadInv(L)'
  <2> SUFFICES ASSUME NEW L \in Nat, LoadInv(L), exit' = "none", NEW d \in Conns,
                      Burdened(d, L)'
               PROVE  Load(d)' <= Allowance(d, L)'
    BY DEF LoadInv
  <2>1. CASE d # c
    BY <1>10, <2>1
  <2>2. CASE d = c
    BY <1>11, <2>2
  <2> QED
    BY <2>1, <2>2
<1> QED
  BY <1>7, <1>12

(* A client is gone: the others no longer await it. *)
LEMMA DisconnectLoads ==
  ASSUME IInv, IInv', ClientsInv, Disconnect, typing' = typing
  PROVE  /\ ClientsInv'
         /\ \A L \in Nat : LoadInv(L) => LoadInv(L)'
<1>1. /\ exit = "none" /\ pc = "scan" /\ exit' = "none" /\ pc' = "scan"
      /\ UNCHANGED <<readfds, backlog, up, link, peer>>
  BY DEF Disconnect, At
<1>2. PICK f \in ScanSet :
        /\ IsLowest(f, ScanSet) /\ link[sock[f]] # "up"
        /\ sock' = [sock EXCEPT ![f] = NULL]
        /\ down' = [down EXCEPT ![sock[f]] = <<>>]
        /\ rcvd' = [rcvd EXCEPT ![sock[f]] = 0]
        /\ j' = f + 1
  BY DEF Disconnect, AtEof, freeClient
<1>3. f \in Registered /\ f \in Pending /\ f \in Fds
  BY <1>1, ScanSetRegistered, RegisteredSock
<1>4. PICK c \in Conns : c = sock[f]
  BY <1>1, <1>3, RegisteredSock
<1>5. /\ sock \in [Fds -> Conns \cup {NULL}]
      /\ down \in [Conns -> Seq(Message)] /\ rcvd \in [Conns -> Nat]
  BY DEF IInv, TypeOK, NetTypes
<1>6. /\ \A g \in Fds : g # f => sock'[g] = sock[g]
      /\ \A d \in Conns : d # c => down'[d] = down[d] /\ rcvd'[d] = rcvd[d]
      /\ down'[c] = <<>> /\ rcvd'[c] = 0
  BY <1>2, <1>4, <1>5
<1>7. typing[c] = 0
  BY <1>2, <1>4, SystemAssumption DEF ClientsInv
<1>8. ClientsInv'
  <2>1. ASSUME NEW d \in Conns, \A g \in Fds : sock'[g] # d
        PROVE  down'[d] = <<>> /\ rcvd'[d] = 0
    <3>1. CASE d = c
      BY <1>6, <3>1
    <3>2. CASE d # c
      <4>1. \A g \in Fds : sock[g] # d
        BY <1>4, <1>6, <2>1, <3>2
      <4> QED
        BY <1>6, <3>2, <4>1 DEF ClientsInv
    <3> QED
      BY <3>1, <3>2
  <2> QED
    BY <1>1, <2>1 DEF ClientsInv
<1>9. Pending' = Pending \ {f}
  BY <1>1, <1>2, <1>3, PendingScanned
<1>10. \A d : ToCome(d) = 0 /\ ToCome(d)' = 0
  BY <1>1 DEF ToCome, Expecting, At, Owed
<1>11. ASSUME NEW L \in Nat, LoadInv(L), NEW d \in Conns, d # c
       PROVE  Burdened(d, L)' => Load(d)' <= Allowance(d, L)'
  <2>1. \A g \in Pending : g # f => sock'[g] = sock[g]
    BY <1>1, <1>6 DEF IInv, ReadyInv, SlotInv
  <2>2. /\ Cardinality(Talkers(d))' = Cardinality(Talkers(d)) - 1
        /\ Awaited(d)' <=> Awaited(d)
    BY <1>1, <1>3, <1>4, <1>9, <1>11, <2>1, ScanTalkers
  <2>3. Unread(d)' = Unread(d)
    BY <1>6, <1>11 DEF Unread
  <2>4. PICK u \in Int, t \in Int : u = Unread(d) /\ t = Cardinality(Talkers(d))
    BY <1>1, LoadFacts, SeatsFinite DEF LoadSane
  <2>5. Load(d) = u + t /\ Load(d)' = u + (t - 1)
    BY <1>10, <2>2, <2>3, <2>4 DEF Load
  <2>6. Load(d)' <= Load(d)
    BY <2>4, <2>5
  <2> QED
    BY <1>1, <1>8, <1>11, <2>2, <2>6, LoadStays
<1>12. \A L \in Nat : ~Burdened(c, L)'
  BY <1>7 DEF Burdened
<1> QED
  BY <1>8, <1>11, <1>12 DEF LoadInv

-----------------------------------------------------------------------------
(* The clients' steps. *)

(* Whatever the clients do, the scan is where it was. *)
LEMMA ServerStill ==
  ASSUME UNCHANGED <<server, sock>>, NEW c
  PROVE  /\ exit' = exit /\ pc' = pc /\ readfds' = readfds /\ j' = j
         /\ Pending' = Pending /\ Talkers(c)' = Talkers(c)
         /\ (Awaited(c)' <=> Awaited(c)) /\ (Expecting(c)' <=> Expecting(c))
         /\ ToCome(c)' = ToCome(c)
<1>1. UNCHANGED <<pc, exit, clients, maxclient, readfds, fd, j, k, sock>>
  BY DEF server
<1>2. Pending' = Pending /\ Recipients' = Recipients
  BY <1>1 DEF Pending, Recipients
<1>3. Talkers(c)' = Talkers(c) /\ (Awaited(c)' <=> Awaited(c))
  BY <1>1, <1>2 DEF Talkers, Awaited
<1>4. Expecting(c)' <=> Expecting(c)
  BY <1>1, <1>2 DEF Expecting, At, Owed
<1> QED
  BY <1>1, <1>2, <1>3, <1>4 DEF ToCome

(* What one client does is nothing to the others. *)
LEMMA OthersLoads ==
  ASSUME IInv, IInv', ClientsInv, ClientsInv', NEW c \in Conns,
         UNCHANGED <<server, sock, down>>, exit = "none",
         \A d \in Conns : d # c =>
            typing'[d] = typing[d] /\ up'[d] = up[d] /\ rcvd'[d] = rcvd[d],
         NEW L \in Nat, LoadInv(L),
         Burdened(c, L)' => Load(c)' <= Allowance(c, L)'
  PROVE  LoadInv(L)'
<1>1. ASSUME NEW d \in Conns, d # c
      PROVE  Burdened(d, L)' => Load(d)' <= Allowance(d, L)'
  <2>1. exit' = "none" /\ Pending' = Pending /\ (Expecting(d)' => Expecting(d))
    BY ServerStill
  <2>2. \A f \in Pending : sock'[f] = sock[f]
    OBVIOUS
  <2> QED
    BY <1>1, <2>1, <2>2, LoadUntouched
<1> QED
  BY <1>1 DEF LoadInv

LEMMA ConnectLoads ==
  ASSUME IInv, IInv', ClientsInv, NEW c \in Conns, TCPConnect(c)
  PROVE  /\ ClientsInv'
         /\ \A L \in Nat : LoadInv(L) => LoadInv(L)'
<1>1. /\ exit = "none" /\ peer[c] = "idle" /\ peer' = [peer EXCEPT ![c] = "open"]
      /\ UNCHANGED <<server, sock, up, down, rcvd, link, typing>>
  BY DEF TCPConnect, PeerConnect
<1>2. exit' = exit /\ pc' = pc /\ readfds' = readfds /\ j' = j
  BY <1>1, ServerStill
<1>3. peer \in [Conns -> {"idle", "open", "closed"}]
  BY DEF IInv, TypeOK, NetTypes
<1>4. ClientsInv'
  BY <1>1, <1>2, <1>3 DEF ClientsInv
<1>5. ASSUME NEW L \in Nat, LoadInv(L), Burdened(c, L)'
      PROVE  Load(c)' <= Allowance(c, L)'
  <2>1. typing[c] = 0
    BY <1>1, SystemAssumption DEF ClientsInv
  <2> QED
    BY <1>1, <1>5, <2>1 DEF Burdened
<1>6. ASSUME NEW L \in Nat, LoadInv(L) PROVE LoadInv(L)'
  BY <1>1, <1>4, <1>5, <1>6, OthersLoads
<1> QED
  BY <1>4, <1>6

(* A client reads the keyboard only when it has read everything. *)
LEMMA KeyboardLoads ==
  ASSUME IInv, IInv', ClientsInv, NEW c \in Conns, ReadStdin(c)
  PROVE  /\ ClientsInv'
         /\ \A L \in Nat : LoadInv(L) => LoadInv(L)'
<1>1. /\ exit = "none" /\ peer[c] = "open" /\ rcvd[c] = Len(down[c])
      /\ UNCHANGED <<pc, exit, readfds, j, sock, up, down, rcvd, link, peer>>
      /\ UNCHANGED <<server, sock, down>>
  BY DEF ReadStdin, vars, server, net
<1>2. PICK n \in 1 .. BATCH : typing' = [typing EXCEPT ![c] = n]
  BY DEF ReadStdin
<1>3. typing \in [Conns -> 0 .. BATCH]
  BY DEF ClientsInv
<1>4. typing' \in [Conns -> 0 .. BATCH] /\ \A d \in Conns : d # c => typing'[d] = typing[d]
  BY <1>2, <1>3, SystemAssumption
<1>5. ClientsInv'
  BY <1>1, <1>4 DEF ClientsInv
<1>6. Unread(c)' = 0
  <2>1. Len(down[c]) \in Nat
    BY DEF IInv, TypeOK, NetTypes
  <2> QED
    BY <1>1, <2>1 DEF Unread
<1>7. LightLoads'
  BY <1>1, <1>5, LightFactsNext
<1>8. ASSUME NEW L \in Nat, LoadInv(L) PROVE LoadInv(L)'
  <2>1. Load(c)' <= Allowance(c, L)'
    BY <1>6, <1>7 DEF LightLoads
  <2> QED
    BY <1>1, <1>4, <1>5, <1>8, <2>1, OthersLoads
<1> QED
  BY <1>5, <1>8

(* Each line it writes may be shorter than the longest, so it makes progress. *)
LEMMA WriteLineLoads ==
  ASSUME IInv, IInv', ClientsInv, NEW c \in Conns, WriteLine(c),
         NEW L \in Nat, \A line \in Lines : Len(line) <= L
  PROVE  ClientsInv' /\ (LoadInv(L) => LoadInv(L)')
<1>1. PICK line \in Lines : PeerSend(c, line)
  BY DEF WriteLine
<1>2. /\ typing[c] > 0 /\ typing' = [typing EXCEPT ![c] = @ - 1]
      /\ exit = "none" /\ Len(up[c]) + Len(line) <= RCVBUF
      /\ up' = [up EXCEPT ![c] = @ \o line]
      /\ UNCHANGED <<server, sock, down, rcvd, link, peer>>
  BY <1>1 DEF WriteLine, PeerSend
<1>3. typing \in [Conns -> 0 .. BATCH] /\ up \in [Conns -> Seq(Tokens)]
      /\ line \in Seq(Tokens) /\ up[c] \in Seq(Tokens)
  BY ServerAssumption DEF ClientsInv, IInv, TypeOK, NetTypes
<1>4. /\ typing' \in [Conns -> 0 .. BATCH] /\ typing'[c] = typing[c] - 1
      /\ \A d \in Conns : d # c => typing'[d] = typing[d] /\ up'[d] = up[d]
  BY <1>2, <1>3, SystemAssumption
<1>5. Len(up'[c]) = Len(up[c]) + Len(line) /\ Len(line) \in Nat /\ Len(up[c]) \in Nat
  BY <1>2, <1>3
<1>6. exit' = exit /\ pc' = pc /\ readfds' = readfds /\ j' = j
  BY <1>2, ServerStill
<1>7. ClientsInv'
  <2>1. \A d \in Conns : typing'[d] > 0 => typing[d] > 0
    BY <1>2, <1>3, <1>4, SystemAssumption
  <2>2. \A d \in Conns : Len(up'[d]) <= RCVBUF
    BY <1>2, <1>4, <1>5 DEF ClientsInv
  <2> QED
    BY <1>2, <1>4, <1>6, <2>1, <2>2 DEF ClientsInv
<1>8. PICK l \in Nat, n \in Nat, q \in Nat, q1 \in Nat, b \in Nat :
        /\ l = Len(up[c]) /\ n = Len(line) /\ n <= L
        /\ q = typing[c] * L /\ q1 = typing'[c] * L /\ q1 = q - L /\ b = BATCH * L
  <2>1. typing[c] \in Nat \ {0} /\ BATCH \in Nat
    BY <1>2, <1>3, SystemAssumption
  <2>2. PICK m \in Nat \ {0} : m = typing[c]
    BY <2>1
  <2>3. m * L \in Nat /\ (m - 1) * L \in Nat /\ (m - 1) * L = m * L - L
    OBVIOUS
  <2>4. typing[c] * L \in Nat /\ typing'[c] * L \in Nat
        /\ typing'[c] * L = typing[c] * L - L
    BY <1>4, <2>2, <2>3
  <2>5. BATCH * L \in Nat
    BY <2>1
  <2> QED
    BY <1>5, <2>4, <2>5
<1>9. /\ Left(c, L) = l + q /\ Left(c, L)' = (l + n) + q1
      /\ Progress(c, L) = RCVBUF + b - (l + q)
      /\ Progress(c, L)' = RCVBUF + b - ((l + n) + q1)
  BY <1>5, <1>8 DEF Left, Progress
<1>10. Left(c, L)' <= Left(c, L) /\ Progress(c, L) <= Progress(c, L)'
       /\ Left(c, L) \in Int /\ Left(c, L)' \in Int
       /\ Progress(c, L) \in Int /\ Progress(c, L)' \in Int
  <2>1. q1 = q - L /\ n <= L
    BY <1>8
  <2> QED
    BY <1>9, <2>1, ServerAssumption
<1>11. ASSUME LoadInv(L), Burdened(c, L)' PROVE Load(c)' <= Allowance(c, L)'
  <2>1. Burdened(c, L)
    BY <1>2, <1>10, <1>11, ServerAssumption DEF Burdened
  <2>2. /\ Talkers(c)' = Talkers(c) /\ (Awaited(c)' <=> Awaited(c))
        /\ ToCome(c)' = ToCome(c) /\ Unread(c)' = Unread(c)
    BY <1>2, ServerStill DEF Unread
  <2>3. Load(c)' = Load(c) /\ Load(c) \in Int
    BY <1>2, <2>2, LoadFacts DEF Load, LoadSane
  <2>4. Load(c) <= Allowance(c, L)
    BY <1>2, <1>11, <2>1 DEF LoadInv
  <2>5. PICK r \in Nat, a \in Int, a1 \in Int :
          r = Capacity /\ a = Progress(c, L) + 1 /\ a1 = Progress(c, L)' + 1
    <3>1. PICK a \in Int : a = Progress(c, L) + 1
      BY <1>10
    <3>2. PICK a1 \in Int : a1 = Progress(c, L)' + 1
      BY <1>10
    <3> QED
      BY <3>1, <3>2, SeatsFinite
  <2>6. r * a <= r * a1 /\ r * a \in Int /\ r * a1 \in Int
    BY <1>10, <2>5, ProductGrows
  <2>7. PICK e \in Int : e = IF Awaited(c) THEN r - 1 ELSE 0
    BY <2>5
  <2>8. Allowance(c, L) = r * a + e /\ Allowance(c, L)' = r * a1 + e
    BY <2>2, <2>5, <2>7 DEF Allowance
  <2>9. PICK p \in Int, p1 \in Int, w \in Int : p = r * a /\ p1 = r * a1 /\ w = Load(c)
    BY <2>3, <2>6
  <2>10. w <= p + e /\ p <= p1
    BY <2>4, <2>6, <2>8, <2>9
  <2>11. w <= p1 + e
    BY <2>10
  <2> QED
    BY <2>3, <2>8, <2>9, <2>11
<1>12. ASSUME LoadInv(L) PROVE LoadInv(L)'
  BY <1>2, <1>4, <1>7, <1>11, <1>12, OthersLoads
<1> QED
  BY <1>7, <1>12

(* While it reads from the server it has nothing left to write, ... *)
LEMMA ReadServerLoads ==
  ASSUME IInv, IInv', ClientsInv, NEW c \in Conns, ReadServer(c)
  PROVE  /\ ClientsInv'
         /\ \A L \in Nat : LoadInv(L) => LoadInv(L)'
<1>1. /\ exit = "none" /\ typing[c] = 0 /\ rcvd[c] < Len(down[c])
      /\ rcvd' = [rcvd EXCEPT ![c] = Len(down[c])]
      /\ UNCHANGED <<server, sock, up, down, link, peer, typing>>
  BY DEF ReadServer, PeerRead
<1>2. exit' = exit /\ pc' = pc /\ readfds' = readfds /\ j' = j
  BY <1>1, ServerStill
<1>3. rcvd \in [Conns -> Nat]
  BY DEF IInv, TypeOK, NetTypes
<1>4. \A d \in Conns : d # c => rcvd'[d] = rcvd[d]
  BY <1>1, <1>3
<1>5. down[c] # <<>>
  BY <1>1, <1>3
<1>6. ClientsInv'
  BY <1>1, <1>2, <1>4, <1>5 DEF ClientsInv
<1>7. \A L \in Nat : ~Burdened(c, L)'
  BY <1>1 DEF Burdened
<1>8. ASSUME NEW L \in Nat, LoadInv(L) PROVE LoadInv(L)'
  BY <1>1, <1>4, <1>6, <1>7, <1>8, OthersLoads
<1> QED
  BY <1>6, <1>8

(* ... and so when its user ends it. *)
LEMMA QuitLoads ==
  ASSUME IInv, IInv', ClientsInv, NEW c \in Conns, Quit(c)
  PROVE  /\ ClientsInv'
         /\ \A L \in Nat : LoadInv(L) => LoadInv(L)'
<1>1. /\ exit = "none" /\ typing' = [typing EXCEPT ![c] = 0]
      /\ peer' = [peer EXCEPT ![c] = "closed"]
      /\ UNCHANGED <<server, sock, down, rcvd>>
  BY DEF Quit, PeerClose, PeerAbort
<1>2. /\ \E l : link' = [link EXCEPT ![c] = l]
      /\ up' = up \/ \E n \in 0 .. Len(up[c]) : up' = [up EXCEPT ![c] = SubSeq(@, 1, n)]
  BY DEF Quit, PeerClose, PeerAbort
<1>3. exit' = exit /\ pc' = pc /\ readfds' = readfds /\ j' = j
  BY <1>1, ServerStill
<1>4. /\ typing \in [Conns -> 0 .. BATCH] /\ up \in [Conns -> Seq(Tokens)]
      /\ peer \in [Conns -> {"idle", "open", "closed"}]
      /\ link \in [Conns -> {"up", "fin", "rst", "epipe"}]
      /\ up[c] \in Seq(Tokens)
  BY DEF ClientsInv, IInv, TypeOK, NetTypes
<1>5. /\ typing' \in [Conns -> 0 .. BATCH] /\ typing'[c] = 0 /\ peer'[c] = "closed"
      /\ \A d \in Conns : d # c =>
           typing'[d] = typing[d] /\ peer'[d] = peer[d] /\ link'[d] = link[d]
  BY <1>1, <1>2, <1>4, SystemAssumption
<1>6. /\ \A d \in Conns : d # c => up'[d] = up[d]
      /\ Len(up'[c]) <= Len(up[c]) /\ Len(up'[c]) \in Nat /\ Len(up[c]) \in Nat
  BY <1>2, <1>4
<1>7. ClientsInv'
  <2>1. \A d \in Conns : Len(up'[d]) <= RCVBUF
    BY <1>6, ServerAssumption DEF ClientsInv
  <2>2. \A d \in Conns : (typing'[d] > 0 => peer'[d] = "open")
                          /\ (peer'[d] # "closed" => link'[d] = "up")
    BY <1>5 DEF ClientsInv
  <2> QED
    BY <1>1, <1>3, <1>5, <2>1, <2>2 DEF ClientsInv
<1>8. \A L \in Nat : ~Burdened(c, L)'
  BY <1>5 DEF Burdened
<1>9. ASSUME NEW L \in Nat, LoadInv(L) PROVE LoadInv(L)'
  BY <1>1, <1>5, <1>6, <1>7, <1>8, <1>9, OthersLoads
<1> QED
  BY <1>7, <1>9

-----------------------------------------------------------------------------
(* The theorem. *)

LEMMA InitClients == SystemInit => ClientsInv /\ \A L \in Nat : LoadInv(L)
<1> SUFFICES ASSUME SystemInit PROVE ClientsInv /\ \A L \in Nat : LoadInv(L)
  OBVIOUS
<1>1. \A c \in Conns : /\ typing[c] = 0 /\ up[c] = <<>> /\ down[c] = <<>>
                       /\ rcvd[c] = 0 /\ link[c] = "up" /\ peer[c] = "idle"
  BY DEF SystemInit, Init, ClientInit
<1>2. typing \in [Conns -> 0 .. BATCH] /\ readfds = {} /\ j = 0
  BY SystemAssumption DEF SystemInit, Init, ClientInit
<1>3. ClientsInv
  BY <1>1, <1>2, ServerAssumption DEF ClientsInv
<1>4. \A c \in Conns, L \in Nat : ~Burdened(c, L)
  BY <1>1 DEF Burdened
<1> QED
  BY <1>3, <1>4 DEF LoadInv

LEMMA ServerLoads ==
  ASSUME IInv, IInv', ClientsInv, Server, typing' = typing,
         NEW L \in Nat, BATCH * L <= RCVBUF
  PROVE  ClientsInv' /\ (LoadInv(L) => LoadInv(L)')
<1>1. CASE InitChat \/ ScanDone
  BY <1>1, RestLoads
<1>2. CASE Select
  BY <1>2, SelectLoads
<1>3. CASE Accept
  BY <1>3, AcceptLoads
<1>4. CASE AcceptFails
  BY <1>4, AcceptFailsLoads
<1>5. CASE Welcome
  BY <1>5, WelcomeLoads
<1>6. CASE ReadText
  BY <1>6, ReadTextLoads
<1>7. CASE Disconnect
  BY <1>7, DisconnectLoads
<1>8. CASE Reply
  BY <1>8, ReplyLoads
<1>9. CASE BroadcastWrite
  BY <1>9, BroadcastLoads
<1>10. CASE BroadcastDone
  BY <1>10, BroadcastDoneLoads
<1> QED
  BY <1>1, <1>2, <1>3, <1>4, <1>5, <1>6, <1>7, <1>8, <1>9, <1>10 DEF Server

(* A step that changes nothing. *)
LEMMA StillLoads ==
  ASSUME IInv, IInv', ClientsInv, UNCHANGED systemVars
  PROVE  /\ ClientsInv'
         /\ \A L \in Nat : LoadInv(L) => LoadInv(L)'
<1>1. UNCHANGED <<server, net, typing>>
  BY DEF systemVars, vars
<1>2. UNCHANGED <<server, sock, up, down, rcvd, link, peer, typing, exit, pc, readfds, j>>
  BY <1>1 DEF server, net
<1>3. ClientsInv'
  BY <1>2 DEF ClientsInv
<1>4. Pending' = Pending /\ \A d \in Conns : Expecting(d)' => Expecting(d)
  BY <1>2, ServerStill
<1>5. CASE exit = "none"
  BY <1>2, <1>3, <1>4, <1>5, IdleLoads
<1>6. CASE exit # "none"
  BY <1>2, <1>3, <1>6 DEF LoadInv
<1> QED
  BY <1>5, <1>6

LEMMA ClientsStep ==
  ASSUME IInv, IInv', ClientsInv, [SystemNext]_systemVars,
         NEW L \in Nat, BuffersTake(L)
  PROVE  ClientsInv' /\ (LoadInv(L) => LoadInv(L)')
<1>1. CASE Server /\ UNCHANGED typing
  BY <1>1, ServerLoads DEF BuffersTake
<1>2. CASE UNCHANGED systemVars \/ (Exited /\ UNCHANGED typing)
  <2>1. UNCHANGED systemVars
    BY <1>2 DEF Exited, systemVars
  <2> QED
    BY <2>1, StillLoads
<1>3. ASSUME NEW c \in Conns, TCPConnect(c) \/ ReadStdin(c) \/ ClientLoop(c) \/ Quit(c)
      PROVE  ClientsInv' /\ (LoadInv(L) => LoadInv(L)')
  <2>1. CASE TCPConnect(c)
    BY <2>1, ConnectLoads
  <2>2. CASE ReadStdin(c)
    BY <2>2, KeyboardLoads
  <2>3. CASE WriteLine(c)
    BY <2>3, WriteLineLoads DEF BuffersTake
  <2>4. CASE ReadServer(c)
    BY <2>4, ReadServerLoads
  <2>5. CASE Quit(c)
    BY <2>5, QuitLoads
  <2> QED
    BY <1>3, <2>1, <2>2, <2>3, <2>4, <2>5 DEF ClientLoop
<1> QED
  BY <1>1, <1>2, <1>3 DEF SystemNext

(* A client the server waits for has been sent more than it can have been sent while
   it has more to say than its buffer takes. *)
LEMMA BuffersKeepApart ==
  ASSUME IInv, ClientsInv, Lines # {}, NEW L \in Nat, BuffersTake(L), LoadInv(L)
  PROVE  NeverBothWaiting
<1> SUFFICES ASSUME NEW c \in Conns, ServerWaitsFor(c), ClientWaits(c) PROVE FALSE
  BY DEF NeverBothWaiting
<1>1. exit = "none" /\ ~Writable(c) /\ Expecting(c)
  <2>1. exit = "none" /\ ~Writable(c)
    BY DEF ServerWaitsFor, At
  <2>2. CASE At("broadcast") /\ \E f \in Recipients : IsLowest(f, Recipients) /\ sock[f] = c
    BY <2>1, <2>2 DEF Expecting, Owed
  <2> QED
    BY <2>1, <2>2 DEF ServerWaitsFor, Expecting
<1>2. PICK line \in Lines : Len(up[c]) + Len(line) > RCVBUF /\ Len(line) <= L
  BY DEF ClientWaits, BuffersTake
<1>3. typing[c] > 0 /\ typing[c] \in 0 .. BATCH
  BY DEF ClientWaits, ClientsInv
<1>4. PICK l \in Nat, n \in Nat, q \in Nat, b \in Nat :
        /\ l = Len(up[c]) /\ n = Len(line) /\ q = typing[c] * L /\ b = BATCH * L
        /\ q >= L
  <2>1. line \in Seq(Tokens) /\ up[c] \in Seq(Tokens)
    BY ServerAssumption DEF IInv, TypeOK, NetTypes
  <2>2. PICK m \in Nat \ {0} : m = typing[c]
    BY <1>3, SystemAssumption
  <2>3. m * L \in Nat /\ (m - 1) * L >= 0 /\ m * L = L + (m - 1) * L
    OBVIOUS
  <2>4. typing[c] * L \in Nat /\ typing[c] * L >= L
    BY <2>2, <2>3
  <2>5. BATCH * L \in Nat
    BY SystemAssumption
  <2> QED
    BY <2>1, <2>4, <2>5
<1>5. Left(c, L) = l + q /\ Progress(c, L) = RCVBUF + b - (l + q) /\ l + q > RCVBUF
  <2>1. l + n > RCVBUF /\ n <= L /\ q >= L
    BY <1>2, <1>4
  <2>2. l + q > RCVBUF
    BY <2>1, ServerAssumption
  <2> QED
    BY <1>4, <2>2 DEF Left, Progress
<1>6. Load(c) <= Allowance(c, L)
  BY <1>1, <1>3, <1>5 DEF Burdened, LoadInv
<1>7. Load(c) >= SNDBUF + 1 /\ Load(c) \in Int
  <2>1. PICK u \in Int, t \in Nat : u = Unread(c) /\ t = Cardinality(Talkers(c))
    BY <1>1, LoadFacts, SeatsFinite DEF LoadSane
  <2>2. ~(u < SNDBUF)
    BY <1>1, <2>1 DEF Writable, Unread
  <2>3. Load(c) = u + t + 1
    BY <1>1, <2>1 DEF Load, ToCome
  <2> QED
    BY <2>2, <2>3, ServerAssumption
<1>8. PICK r \in Nat \ {0}, a \in Int : r = Capacity /\ a = Progress(c, L) + 1
  <2>1. PICK f \in Registered : sock[f] = c
    BY <1>1, ExpectingSeated
  <2>2. Cardinality(Talkers(c)) <= Capacity - 1 /\ Cardinality(Talkers(c)) \in 0 .. Capacity
    BY <1>1, <2>1, LoadFacts DEF LoadSane
  <2>3. Progress(c, L) \in Nat
    BY <1>1, LoadFacts DEF LoadSane
  <2> QED
    BY <2>2, <2>3, SeatsFinite
<1>9. a <= b
  BY <1>5, <1>8, ServerAssumption
<1>10. r * a <= r * b /\ r * a \in Int /\ r * b \in Int /\ r * (b + 1) = r * b + r
  BY <1>9, ProductGrows
<1>11. r * (b + 1) - 1 <= SNDBUF
  BY <1>4, <1>8 DEF BuffersTake
<1>12. PICK p \in Int, s \in Int, w \in Int : p = r * a /\ s = r * b /\ w = Load(c)
  BY <1>7, <1>10
<1>13. w <= p + (r - 1) /\ p <= s /\ s + r - 1 <= SNDBUF /\ w >= SNDBUF + 1
  <2>1. Allowance(c, L) = r * a + (IF Awaited(c) THEN r - 1 ELSE 0)
    BY <1>8 DEF Allowance
  <2>2. w <= p + (IF Awaited(c) THEN r - 1 ELSE 0)
    BY <1>6, <1>12, <2>1
  <2>3. w <= p + (r - 1)
    BY <2>2
  <2> QED
    BY <1>7, <1>10, <1>11, <1>12, <2>3
<1> QED
  BY <1>13, ServerAssumption

(* The server and a client never wait for each other to read, for any number of
   clients and lines: it is enough that a client's socket holds all it reads from the
   keyboard at once, and that the server's holds what it can write to one client while
   that client makes its way from a full socket back to select().  The program states
   no such condition; it rests on the buffers being large. *)
THEOREM Apart ==
  ASSUME BuffersSuffice
  PROVE  SystemSpec => []NeverBothWaiting
<1>1. PICK L \in Nat : BuffersTake(L)
  BY DEF BuffersSuffice
<1> DEFINE Inv == IInv /\ ClientsInv /\ LoadInv(L)
<1>2. SystemInit => ClientsInv /\ LoadInv(L)
  BY InitClients
<1>3. IInv /\ IInv' /\ ClientsInv /\ LoadInv(L) /\ [SystemNext]_systemVars
        => ClientsInv' /\ LoadInv(L)'
  BY <1>1, ClientsStep
<1>4. IInv /\ ClientsInv /\ LoadInv(L) => NeverBothWaiting
  BY <1>1, BuffersKeepApart DEF BuffersSuffice
<1>5. SystemSpec => []IInv
  BY SystemServes, Invariance, PTL
<1> QED
  BY <1>2, <1>3, <1>4, <1>5, PTL DEF SystemSpec
=============================================================================
