----------------------------- MODULE ChatServer -----------------------------
(***************************************************************************)
(* The smallchat server (smallchat-server.c): one thread that multiplexes  *)
(* every connection with select(), keeps the clients in a table indexed by *)
(* file descriptor, and copies each chunk it reads from one client to all  *)
(* the others.                                                             *)
(*                                                                         *)
(* Every system call of the main loop is one step, so peers may connect,   *)
(* send, read, close or be cut off between any two of them.  The kernel    *)
(* (descriptor table, accept queue, socket buffers, connection state) and  *)
(* the peers are modelled from how the server uses them.                   *)
(*                                                                         *)
(* Text is a sequence of tokens.  A token is the least unit at which a     *)
(* read can cut the byte stream: a word, "/name", a space, an end of line. *)
(* All lengths (READ_MAX, MSG_MAX, RCVBUF) count tokens.                   *)
(***************************************************************************)
EXTENDS Integers, Sequences, FiniteSets

CONSTANTS
  Conns,       \* connections, each established at most once
  NULL,        \* the null pointer; also "no object" in the kernel's tables
  Words,       \* tokens of plain text
  SlashWords,  \* tokens that begin with a slash; "/name" is one of them
  Lines,       \* the lines a peer may send, each a sequence of tokens
  MaxLines,    \* bound: lines sent on one connection
  Residues,    \* what may follow the unterminated default name in memory
  MAX_CLIENTS, \* size of the client table
  SLACK,       \* words past its end that may happen to be free
  serversock,  \* descriptor of the listening socket; 0..serversock are open
  FD_LIMIT,    \* the process may hold descriptors 0..FD_LIMIT-1
  BACKLOG,     \* length of the accept queue
  READ_MAX,    \* sizeof(readbuf) - 1
  MSG_MAX,     \* sizeof(msg) - 1
  RCVBUF,      \* tokens in flight from a peer to the server
  SNDBUF,      \* messages a peer may leave unread before write() blocks
  Segmented,   \* TRUE: a read may return any prefix of what was sent
  Pipelined,   \* TRUE: a peer may send before its last line was read
  Aborts       \* TRUE: connections may also be reset, not only closed

Eol == {"\r", "\n"}
Tokens == Words \cup SlashWords \cup Eol \cup {" "}

ASSUME ServerAssumption ==
  /\ MAX_CLIENTS \in Nat /\ SLACK \in Nat /\ serversock \in Nat /\ serversock < MAX_CLIENTS
  /\ FD_LIMIT \in Nat /\ serversock < FD_LIMIT
  /\ NULL \notin Conns
  /\ NULL \notin [fd : Nat, name : [user : Int, text : Seq(Tokens)]]
  /\ READ_MAX \in Nat \ {0} /\ MSG_MAX \in Nat \ {0}
  /\ RCVBUF \in Nat /\ SNDBUF \in Nat /\ BACKLOG \in Nat /\ MaxLines \in Nat
  /\ "/name" \in SlashWords
  /\ Lines \subseteq Seq(Tokens) \ {<<>>}
  /\ Residues \subseteq Seq(Tokens)
  /\ {Segmented, Pipelined, Aborts} \subseteq BOOLEAN

VARIABLES
  (* the server process *)
  pc,          \* where the main loop is
  exit,        \* "none" while the process runs, else why it ended
  clients,     \* Chat->clients
  numclients,  \* Chat->numclients
  maxclient,   \* Chat->maxclient
  readfds,     \* the descriptors select() left in the set
  fd,          \* the descriptor accept() returned, while it is welcomed
  j,           \* index of the scan over the ready clients
  k,           \* index of sendMsgToAllClientsBut()
  msg,         \* the message being sent to the others
  (* the kernel and the peers *)
  sock,        \* descriptor -> connection
  backlog,     \* accept queue
  up,          \* tokens sent by the peer and not yet read by the server
  down,        \* messages written to the peer
  rcvd,        \* how many of them the peer has read
  link,        \* what the server's side of the connection has learnt
  peer,        \* "idle", "open" or "closed"
  (* history, never read by the program *)
  room,        \* every message broadcast so far, in order
  joined,      \* Len(room) when the connection was accepted
  lines        \* the lines sent on each connection

server == <<pc, exit, clients, numclients, maxclient, readfds, fd, j, k, msg>>
table == <<clients, numclients, maxclient>>
net == <<sock, backlog, up, down, rcvd, link, peer>>
history == <<room, joined, lines>>
vars == <<server, net, history>>

-----------------------------------------------------------------------------
(* Data. *)

Fds == 0 .. FD_LIMIT - 1

(* The client table.  The code indexes it with any descriptor; the SLACK words
   behind it are those that may be null and in no other use, so that the program
   goes on with them as with the table (glibc leaves one). *)
Table == 0 .. MAX_CLIENTS - 1
Slots == 0 .. MAX_CLIENTS + SLACK - 1

(* A name is what c->name holds: the text chosen with /name (user = -1), or
   "user:<fd>" followed by whatever the byte after it happens to be, because
   createClient() copies namelen bytes and not the terminator.  *)
Name == [user : Int, text : Seq(Tokens)]
DefaultNames(f) == {[user |-> f, text |-> t] : t \in Residues}
Chosen(t) == [user |-> -1, text |-> t]
NameLen(n) == Len(n.text) + (IF n.user = -1 THEN 0 ELSE 1)

Client == [fd : Nat, name : Name]
Registered == {f \in Slots : clients[f] # NULL}

Message == [kind : {"chat", "welcome", "unsupported"},
            src : Conns \cup {NULL}, name : Name, body : Seq(Tokens)]
Notice(kind) ==
  [kind |-> kind, src |-> NULL, name |-> Chosen(<<>>), body |-> <<>>]

Truncate(s, n) == SubSeq(s, 1, IF n < Len(s) THEN n ELSE Len(s))

(* Mutation: the terminator of msg[] is counted twice. *)
ChatMessageShort(c, name, chunk) ==
  [kind |-> "chat", src |-> c, name |-> name,
   body |-> Truncate(chunk, MSG_MAX - NameLen(name) - 2)]

(* snprintf("%s>%s") into msg[]: the tail that does not fit is cut off. *)
ChatMessage(c, name, chunk) ==
  [kind |-> "chat", src |-> c, name |-> name,
   body |-> Truncate(chunk, MSG_MAX - NameLen(name) - 1)]

(* Mutations: the end of the line stays in the argument; only "/name" is taken
   for a command. *)
KeepEol(chunk) == chunk
OnlyNameIsCommand(chunk) == chunk[1] = "/name"

(* What strchr and strcmp make of a chunk that begins with a slash: it ends
   at the first '\r' or '\n', and the argument of "/name" at that end. *)
CutAtEol(chunk) ==
  SubSeq(chunk, 1, Cardinality({i \in 1 .. Len(chunk) :
                                  \A m \in 1 .. i : chunk[m] \notin Eol}))
IsCommand(chunk) == chunk[1] \in SlashWords
IsNameCommand(chunk) ==
  LET line == CutAtEol(chunk)
  IN  Len(line) >= 2 /\ line[1] = "/name" /\ line[2] = " "
NameArg(chunk) == SubSeq(CutAtEol(chunk), 3, Len(CutAtEol(chunk)))

-----------------------------------------------------------------------------
(* The kernel, as the server uses it. *)

FreeFds == {f \in Fds : f > serversock /\ sock[f] = NULL}
IsLowest(f, S) == f \in S /\ \A g \in S : f <= g

(* read() would return at once: data, end of file or an error. *)
Readable(c) == up[c] # <<>> \/ link[c] # "up"

(* write() would not block. *)
Writable(c) == link[c] # "up" \/ Len(down[c]) - rcvd[c] < SNDBUF

(* write(): to a live peer the data is delivered; to one that has closed it
   provokes a reset, which may or may not be back before the next call; a
   reset connection reports its error once; after that SIGPIPE, which the
   server neither handles nor ignores, ends the process.  *)
Write(c, m) ==
  /\ Writable(c)
  /\ \/ /\ link[c] = "up"
        /\ down' = [down EXCEPT ![c] = Append(@, m)]
        /\ UNCHANGED <<link, exit>>
     \/ /\ link[c] = "fin"
        /\ \E l \in {"fin", "epipe"} : link' = [link EXCEPT ![c] = l]
        /\ UNCHANGED <<down, exit>>
     \/ /\ link[c] = "rst"
        /\ link' = [link EXCEPT ![c] = "epipe"]
        /\ UNCHANGED <<down, exit>>
     \/ /\ link[c] = "epipe"
        /\ exit' = "sigpipe"
        /\ UNCHANGED <<down, link>>
  /\ UNCHANGED <<sock, backlog, up, rcvd, peer>>

-----------------------------------------------------------------------------
(* The process is running and its main loop is at label l. *)
At(l) == exit = "none" /\ pc = l

(* How the helpers of chatlib.c may end: chatMalloc() ends the process when there
   is no memory, createTCPServer() fails when socket, bind or listen does. *)
chatMalloc == {"none", "memory"}
createTCPServer == {"none", "listen"}

(* Start-up: initChat() allocates the state and creates the listening socket,
   or ends the process. *)
InitChat ==
  /\ At("init")
  /\ exit' \in chatMalloc \cup createTCPServer
  /\ pc' = IF exit' = "none" THEN "select" ELSE pc
  /\ UNCHANGED <<table, readfds, fd, j, k, msg, net, history>>

(* select() over the listening socket and every registered client.  It fails
   with EBADF on a descriptor that is not open; a time-out changes nothing. *)
SelectSet == {f \in 0 .. maxclient : clients[f] # NULL}
ReadyClients == {f \in SelectSet : Readable(sock[f])} \* mutation: no FD_SET(serversock)
Ready ==
  {f \in SelectSet : Readable(sock[f])}
    \cup (IF backlog # <<>> THEN {serversock} ELSE {})

Select ==
  /\ At("select")
  /\ IF \E f \in SelectSet : sock[f] = NULL
     THEN exit' = "select" /\ UNCHANGED <<pc, readfds>>
     ELSE /\ readfds' = Ready
          /\ pc' = CASE Ready = {} -> "select"
                     [] serversock \in Ready -> "accept"
                     [] OTHER -> "scan"
          /\ UNCHANGED exit
  /\ UNCHANGED <<table, fd, j, k, msg, net, history>>

(* Mutations: maxclient follows the last client, or counts one too many. *)
createClientLastIsMax(f) ==
  /\ \E name \in DefaultNames(f) :
       clients' = [clients EXCEPT ![f] = [fd |-> f, name |-> name]]
  /\ maxclient' = f
  /\ numclients' = numclients + 1
createClientMaxPlusOne(f) ==
  /\ \E name \in DefaultNames(f) :
       clients' = [clients EXCEPT ![f] = [fd |-> f, name |-> name]]
  /\ maxclient' = IF f > maxclient THEN f + 1 ELSE maxclient
  /\ numclients' = numclients + 1

(* createClient(f) stores the new client in slot f. *)
createClient(f) ==
  /\ \E name \in DefaultNames(f) :
       clients' = [clients EXCEPT ![f] = [fd |-> f, name |-> name]]
  /\ maxclient' = IF f > maxclient THEN f ELSE maxclient
  /\ numclients' = numclients + 1

(* How createClient(f) ends: it allocates, asserts that the slot is empty, and
   stores the client there.  Past the table that is undefined: the word may be
   empty and free, so that the program goes on; it may not be empty; or it is
   overwritten with whatever comes of that. *)
CreateOutcome(f) ==
  CASE f \notin Slots -> {"memory", "assert", "overrun"}
    [] f \in Slots /\ clients[f] # NULL -> {"memory", "assert"}
    [] f \in Slots \ Table /\ clients[f] = NULL -> {"none", "memory", "assert", "overrun"}
    [] OTHER -> chatMalloc

(* acceptClient() takes the oldest connection of the queue and returns the
   lowest free descriptor, f, for it. *)
acceptClient(f) ==
  /\ IsLowest(f, FreeFds)
  /\ sock' = [sock EXCEPT ![f] = Head(backlog)]
  /\ backlog' = Tail(backlog)

Accept ==
  /\ At("accept")
  /\ \E f \in FreeFds :
       /\ acceptClient(f)
       /\ exit' \in CreateOutcome(f)
       /\ IF exit' = "none"
          THEN /\ createClient(f)
               /\ fd' = f
               /\ pc' = "welcome"
               /\ joined' = [joined EXCEPT ![Head(backlog)] = Len(room)]
          ELSE UNCHANGED <<pc, fd, table, joined>>
  /\ UNCHANGED <<readfds, j, k, msg, up, down, rcvd, link, peer, room, lines>>

(* With no descriptor left accept() fails and the -1 that acceptClient()
   returns reaches createClient() unchecked: the assertion reads the word in
   front of the table, which holds maxclient and is not null.  *)
AcceptFails ==
  /\ At("accept")
  /\ FreeFds = {}
  /\ exit' \in {"memory", "assert"}
  /\ UNCHANGED <<pc, table, readfds, fd, j, k, msg, net, history>>

Welcome ==
  /\ At("welcome")
  /\ Write(sock[fd], Notice("welcome"))
  /\ pc' = "scan"
  /\ fd' = -1
  /\ UNCHANGED <<table, readfds, j, k, msg, history>>

-----------------------------------------------------------------------------
(* The scan over 0..maxclient for the clients select() reported. *)

ScanSetUnpolled == {f \in j .. maxclient : clients[f] # NULL} \* mutation: no FD_ISSET
ScanSet == {f \in j .. maxclient : clients[f] # NULL /\ f \in readfds}

ScanDone ==
  /\ At("scan")
  /\ ScanSet = {}
  /\ pc' = "select"
  /\ readfds' = {}
  /\ j' = 0
  /\ UNCHANGED <<exit, table, fd, k, msg, net, history>>

(* How many tokens read() may return for connection c. *)
ReadSizes(c) ==
  {n \in 1 .. Len(up[c]) :
     n <= READ_MAX /\ (Segmented \/ n = READ_MAX \/ n = Len(up[c]))}

(* "/name <arg>": the client is renamed. *)
Rename(f, chunk) ==
  /\ IsCommand(chunk) /\ IsNameCommand(chunk)
  /\ exit' \in chatMalloc
  /\ clients' = [clients EXCEPT ![f].name = Chosen(NameArg(chunk))]
  /\ j' = f + 1
  /\ UNCHANGED <<pc, k, msg, room>>

(* Any other command is answered with an error message. *)
Unsupported(f, chunk) ==
  /\ IsCommand(chunk) /\ ~IsNameCommand(chunk)
  /\ pc' = "reply"
  /\ j' = f
  /\ UNCHANGED <<exit, clients, k, msg, room>>

(* Text becomes a message for the others. *)
Say(f, chunk) ==
  /\ ~IsCommand(chunk)
  /\ msg' = ChatMessage(sock[f], clients[f].name, chunk)
  /\ room' = Append(room, msg')
  /\ pc' = "broadcast"
  /\ j' = f
  /\ k' = 0
  /\ UNCHANGED <<exit, clients>>

(* read() on the next ready descriptor returned a chunk. *)
ReadText ==
  /\ At("scan")
  /\ \E f \in ScanSet : \E n \in ReadSizes(sock[f]) :
       /\ IsLowest(f, ScanSet)
       /\ up' = [up EXCEPT ![sock[f]] = SubSeq(@, n + 1, Len(@))]
       /\ LET chunk == SubSeq(up[sock[f]], 1, n)
          IN  Rename(f, chunk) \/ Unsupported(f, chunk) \/ Say(f, chunk)
  /\ UNCHANGED <<numclients, maxclient, readfds, fd, sock, backlog,
                 down, rcvd, link, peer, joined, lines>>

(* Mutations of freeClient(): the scan for the new maxclient, the clearing of the
   slot, or close() is forgotten. *)
freeClientNoScan(f) ==
  /\ sock' = [sock EXCEPT ![f] = NULL]
  /\ clients' = [clients EXCEPT ![f] = NULL]
  /\ numclients' = numclients - 1
  /\ maxclient' = IF maxclient = f THEN f - 1 ELSE maxclient
freeClientKeepSlot(f) ==
  /\ sock' = [sock EXCEPT ![f] = NULL]
  /\ numclients' = numclients - 1
  /\ UNCHANGED <<clients, maxclient>>
freeClientNoClose(f) ==
  /\ clients' = [clients EXCEPT ![f] = NULL]
  /\ numclients' = numclients - 1
  /\ maxclient' \in {m \in {-1} \cup Registered :
                       m # f /\ \A i \in Registered : i # f => i <= m}
  /\ UNCHANGED sock

(* freeClient(): close, clear the slot, and look downwards for the new
   maxclient if the highest slot was the one freed. *)
freeClient(f) ==
  /\ sock' = [sock EXCEPT ![f] = NULL]
  /\ clients' = [clients EXCEPT ![f] = NULL]
  /\ numclients' = numclients - 1
  /\ IF maxclient = f
     THEN \E m \in {-1} \cup Registered :
            /\ m < f /\ \A i \in Registered : i < f => i <= m
            /\ maxclient' = m
     ELSE UNCHANGED maxclient

(* read() returns 0 or -1: what the peer sent was read, and the connection is
   closed or broken.  Mutation: without looking at what is still unread. *)
AtEofEarly(c) == link[c] # "up"
AtEof(c) == up[c] = <<>> /\ link[c] # "up"

(* read() returned 0 or -1: the client is gone.  Its socket buffers go with
   the descriptor. *)
Disconnect ==
  /\ At("scan")
  /\ \E f \in ScanSet :
       LET c == sock[f] IN
       /\ IsLowest(f, ScanSet)
       /\ AtEof(c)
       /\ freeClient(f)
       /\ down' = [down EXCEPT ![c] = <<>>]
       /\ rcvd' = [rcvd EXCEPT ![c] = 0]
       /\ j' = f + 1
  /\ UNCHANGED <<pc, exit, readfds, fd, k, msg, backlog, up, link, peer, history>>

Reply ==
  /\ At("reply")
  /\ Write(sock[j], Notice("unsupported"))
  /\ pc' = "scan"
  /\ j' = j + 1
  /\ UNCHANGED <<table, readfds, fd, k, msg, history>>

(* sendMsgToAllClientsBut(j, ...): one write per step, in slot order. *)
RecipientsBelowMax == {f \in k .. maxclient - 1 : clients[f] # NULL /\ clients[f].fd # j} \* mutation
RecipientsWithSender == {f \in k .. maxclient : clients[f] # NULL} \* mutation
Recipients == {f \in k .. maxclient : clients[f] # NULL /\ clients[f].fd # j}

BroadcastWrite ==
  /\ At("broadcast")
  /\ \E f \in Recipients :
       /\ IsLowest(f, Recipients)
       /\ Write(sock[f], msg)
       /\ k' = f + 1
  /\ UNCHANGED <<pc, table, readfds, fd, j, msg, history>>

(* Mutation: the loop polls again after each message instead of going on. *)
BroadcastDoneRestarts ==
  /\ At("broadcast")
  /\ Recipients = {}
  /\ pc' = "select"
  /\ j' = 0
  /\ k' = 0
  /\ readfds' = {}
  /\ msg' = NULL
  /\ UNCHANGED <<exit, table, fd, net, history>>

BroadcastDone ==
  /\ At("broadcast")
  /\ Recipients = {}
  /\ pc' = "scan"
  /\ j' = j + 1
  /\ k' = 0
  /\ msg' = NULL
  /\ UNCHANGED <<exit, table, readfds, fd, net, history>>

-----------------------------------------------------------------------------
(* The peers and the network. *)

PeerConnect(c) ==
  /\ exit = "none" /\ pc # "init"
  /\ peer[c] = "idle"
  /\ Len(backlog) < BACKLOG
  /\ peer' = [peer EXCEPT ![c] = "open"]
  /\ backlog' = Append(backlog, c)
  /\ UNCHANGED <<server, sock, up, down, rcvd, link, history>>

PeerSend(c, line) ==
  /\ exit = "none" /\ peer[c] = "open"
  /\ Len(lines[c]) < MaxLines
  /\ Pipelined \/ up[c] = <<>>
  /\ Len(up[c]) + Len(line) <= RCVBUF
  /\ up' = [up EXCEPT ![c] = @ \o line]
  /\ lines' = [lines EXCEPT ![c] = Append(@, line)]
  /\ UNCHANGED <<server, sock, backlog, down, rcvd, link, peer, room, joined>>

PeerRead(c) ==
  /\ exit = "none" /\ peer[c] = "open"
  /\ rcvd[c] < Len(down[c])
  /\ rcvd' = [rcvd EXCEPT ![c] = Len(down[c])]
  /\ UNCHANGED <<server, sock, backlog, up, down, link, peer, history>>

(* A peer that has read everything closes with FIN. *)
PeerClose(c) ==
  /\ exit = "none" /\ peer[c] = "open"
  /\ rcvd[c] = Len(down[c])
  /\ peer' = [peer EXCEPT ![c] = "closed"]
  /\ link' = [link EXCEPT ![c] = "fin"]
  /\ UNCHANGED <<server, sock, backlog, up, down, rcvd, history>>

(* A peer that leaves data unread, or whose network fails, resets; what was
   still on its way to the server may be lost. *)
PeerAbort(c) ==
  /\ Aborts
  /\ exit = "none" /\ peer[c] = "open"
  /\ peer' = [peer EXCEPT ![c] = "closed"]
  /\ link' = [link EXCEPT ![c] = "rst"]
  /\ \E n \in 0 .. Len(up[c]) : up' = [up EXCEPT ![c] = SubSeq(@, 1, n)]
  /\ UNCHANGED <<server, sock, backlog, down, rcvd, history>>

-----------------------------------------------------------------------------
Init ==
  /\ pc = "init" /\ exit = "none"
  /\ clients = [f \in Slots |-> NULL]
  /\ numclients = 0 /\ maxclient = -1
  /\ readfds = {} /\ fd = -1 /\ j = 0 /\ k = 0 /\ msg = NULL
  /\ sock = [f \in Fds |-> NULL]
  /\ backlog = <<>>
  /\ up = [c \in Conns |-> <<>>]
  /\ down = [c \in Conns |-> <<>>]
  /\ rcvd = [c \in Conns |-> 0]
  /\ link = [c \in Conns |-> "up"]
  /\ peer = [c \in Conns |-> "idle"]
  /\ room = <<>>
  /\ joined = [c \in Conns |-> 0]
  /\ lines = [c \in Conns |-> <<>>]

Server ==
  \/ InitChat \/ Select
  \/ Accept \/ AcceptFails \/ Welcome
  \/ ReadText \/ Disconnect \/ Reply
  \/ BroadcastWrite \/ BroadcastDone
  \/ ScanDone

Peers ==
  \E c \in Conns :
    \/ PeerConnect(c) \/ PeerRead(c) \/ PeerClose(c) \/ PeerAbort(c)
    \/ \E line \in Lines : PeerSend(c, line)

(* An exited process does nothing more. *)
Exited == exit # "none" /\ UNCHANGED vars

Next == Server \/ Peers \/ Exited

Spec == Init /\ [][Next]_vars

-----------------------------------------------------------------------------
(* Properties. *)

(* Every variable holds a value of its type. *)
ServerTypes ==
  /\ pc \in {"init", "select", "accept", "welcome", "scan", "reply", "broadcast"}
  /\ exit \in {"none", "memory", "listen", "select", "assert", "overrun", "sigpipe"}
  /\ clients \in [Slots -> Client \cup {NULL}]
  /\ numclients \in Int
  /\ maxclient \in {-1} \cup Slots
  /\ readfds \subseteq Slots
  /\ fd \in {-1} \cup Slots
  /\ j \in 0 .. MAX_CLIENTS + SLACK
  /\ k \in 0 .. MAX_CLIENTS + SLACK
  /\ msg \in Message \cup {NULL}
NetTypes ==
  /\ sock \in [Fds -> Conns \cup {NULL}]
  /\ backlog \in Seq(Conns)
  /\ up \in [Conns -> Seq(Tokens)]
  /\ down \in [Conns -> Seq(Message)]
  /\ rcvd \in [Conns -> Nat]
  /\ link \in [Conns -> {"up", "fin", "rst", "epipe"}]
  /\ peer \in [Conns -> {"idle", "open", "closed"}]
HistoryTypes ==
  /\ room \in Seq(Message)
  /\ joined \in [Conns -> Nat]
  /\ lines \in [Conns -> Seq(Lines)]
TypeOK == ServerTypes /\ NetTypes /\ HistoryTypes

(* The client table never disagrees with itself or with the kernel: the record
   in slot f is that of descriptor f, numclients counts the records, maxclient
   is the highest used slot or -1, and while the process runs the descriptors
   open for connections are exactly the registered ones, each connection on
   one of them.  createClient() and freeClient() maintain the three fields by
   hand, and the kernel reuses a descriptor as soon as it is closed. *)
SlotsMatch == \A f \in Registered : clients[f].fd = f
CountMatches == numclients = Cardinality(Registered)
MaxMatches == maxclient \in {-1} \cup Registered /\ \A f \in Registered : f <= maxclient
KernelAgrees ==
  exit = "none" => \A f \in Fds : sock[f] # NULL <=> f \in Registered
OneFdEach ==
  \A f, g \in Fds : sock[f] = sock[g] /\ sock[f] # NULL => f = g
TableInv ==
  SlotsMatch /\ CountMatches /\ MaxMatches /\ KernelAgrees /\ OneFdEach

(* What select() reported is still true when the loop acts on it: accept() finds
   a connection and no read() of the scan blocks, although connections come and
   go and descriptors are reused between select() and the last read().  *)
NeverBlocks ==
  /\ At("accept") => backlog # <<>>
  /\ At("scan") => \A f \in ScanSet : sock[f] # NULL /\ Readable(sock[f])

(* The assertion of createClient() fails only for want of descriptors or of slots,
   the table is overrun only when every slot of it the kernel can hand out is in
   use, and select() never meets a closed descriptor: no sequence of joins and
   departures makes the server run out earlier. *)
NoDescriptor == \A f \in Fds : f > serversock => sock[f] # NULL
TableFull == \A f \in Table : f > serversock => f \in Registered
ExitsOnlyWhenFull ==
  /\ exit # "select"
  /\ exit = "assert" => NoDescriptor \/ TableFull
  /\ exit = "overrun" => TableFull

-----------------------------------------------------------------------------
(* The inductive invariant. *)

(* A connection is in one place: it has not been made, or waits once in the
   accept queue, or has a descriptor, or is over. *)
QueueInv ==
  /\ \A a, b \in 1 .. Len(backlog) : backlog[a] = backlog[b] => a = b
  /\ \A a \in 1 .. Len(backlog), f \in Fds : sock[f] # backlog[a]
  /\ \A c \in Conns : peer[c] = "idle" =>
       /\ \A f \in Fds : sock[f] # c
       /\ \A a \in 1 .. Len(backlog) : backlog[a] # c

(* Registered descriptors are descriptors above the listening socket, and each
   label of the loop names a registered client where it uses one. *)
SlotInv == \A f \in Registered : f \in Fds /\ f > serversock
PlaceInv ==
  /\ exit = "none" =>
       /\ pc = "welcome" => fd \in Registered
       /\ pc \in {"reply", "broadcast"} => j \in Registered
       /\ pc = "broadcast" => msg \in Message

(* The ready clients the scan has not reached yet are registered, and their
   next read() returns at once. *)
Pending ==
  {f \in readfds : f # serversock /\ f >= j
                     /\ (pc \in {"reply", "broadcast"} => f # j)}
ReadyInv ==
  exit = "none" =>
    /\ Pending \subseteq Registered
    /\ \A f \in Pending : Readable(sock[f])
    /\ pc = "accept" => backlog # <<>>

(* Whatever the connections do between two system calls of the loop, the table,
   the kernel's descriptors, the accept queue and the set select() returned fit
   together. *)
IInv ==
  /\ TypeOK /\ TableInv /\ QueueInv /\ SlotInv /\ PlaceInv /\ ReadyInv
  /\ ExitsOnlyWhenFull
=============================================================================
