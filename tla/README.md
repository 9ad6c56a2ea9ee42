# TLA+ verification of tcp_learning

TLA+ models, TLC configurations and TLAPS proofs for the repository's own programs: the
`smallchat_learn` chat server and client, alone and together, the
`data_structure/executor_factory` script runner with its configuration, and the exercises of
`data_structure/408`, `00_testscript` and `09_SLAM`. `PROJECT.json` holds the same in machine-readable form: which lines each definition
models, which run checks which property, which mutation of the code each property detects.

## 1. The system

### Components

| Component | Source | State | Operations | Modelled |
|---|---|---|---|---|
| chat server | `smallchat_learn/smallchat-server.c` | `Chat`: client table indexed by descriptor, `numclients`, `maxclient`, listening socket; the `select()` set and loop indices | `initChat`, `select`, accept + `createClient`, welcome, `read`, `/name`, unsupported command, `sendMsgToAllClientsBut`, `freeClient` | `ChatServer` and its companions |
| socket library | `smallchat_learn/chatlib.c` | none | `createTCPServer`, `acceptClient`, `TCPConnect`, `chatMalloc` | by outcome, where they are called |
| chat client | `smallchat_learn/smallchat-client.c` | `InputBuffer`, the characters just read, terminal mode | connect, raw mode, `select`, show server text, feed a key, send a line | `ChatClient` (not the screen), `ChatSystem` |
| flow executor | `executor_factory/main.cpp`, `flow_executor.*` | nodes, `threads_` | `ExecuteFlow`, common and branch steps, `Wait` | `FlowExecutor` |
| script executors | `executor_factory/src/script_executor.cpp` | output file, pipe, locals | `Execute` of the shell and DAG executors | `FlowExecutor` |
| execution context | `executor_factory/src/exec_context.cpp` | error flag and message, status, exit code, output and its mutex | `SetError`, `AppendOutput`, `SetExecStatus`, ... | `FlowExecutor` |
| script factory | `executor_factory/src/script_factory.cpp` | id -> executor | `Init`, `GetScriptExecutor` | `ConfigParser` |
| configuration parser | `executor_factory/src/config_parser.cpp` | none | JSON fields to structs, with defaults | `ConfigParser`, `FlowExecutor` |
| 408 exercises | `data_structure/408/program.cpp` | none | array and greedy algorithms | `Program408` |
| camera projection | `data_structure/00_testscript` | camera, bone lists | `parseCamera`, `GetBoneDataByName`, the chain of frames, `pose3DTo2D` | `Calibration` |
| trajectory | `data_structure/09_SLAM/eigenMatrix.cpp` | stream, poses | `plot_trajectory`, `DrawTrajectory` | `Trajectory` (not the Eigen demonstrations) |
| linked list | `data_structure/01_List/linked_list.hpp` | `head` | `append` | no: see section 5 |
| camera script, protobuf, `main/` | `data_structure/camera`, `proto_msgs`, `main` | - | drawing with a library, message declarations, greetings | no: no control flow of their own |
| abseil | `data_structure/third_party` | - | - | no: third-party code |

### Interaction

The server is a single thread. It shares nothing with its peers but the kernel's socket state:
descriptors, the accept queue, one buffer per direction of each connection. The kernel hands
out the lowest free descriptor, and the descriptor is the table index, so a slot is reused as
soon as it was closed. The client has the same shape: one thread, `select()` over the server
and the keyboard. Both write to their sockets without looking whether these have room, and
neither reads while it writes: server and clients depend on each other's buffers. The script runner's `main()` parses a JSON
document, registers an executor for each script and walks the nodes of the flow; it starts a thread per asynchronous node, and a node is asynchronous unless it says otherwise;
all of them report into one `ExecContext` on `main()`'s stack, where the output string is under a
mutex and the flag, message and status are not.

### What is hard, and what makes each component correct

* **Server.** Peers act between any two system calls. The scan acts on a set that `select()`
  computed before `accept()` registered someone and before earlier clients of the scan were
  freed. The table, `numclients` and `maxclient` are maintained by hand in two functions. Correct
  means: the table agrees with the kernel; nothing blocks but `select()` and `write()` to a
  peer that does not read; everyone hears the same conversation; text is neither lost nor
  repeated; the loop starves nobody; it stops only when it must.
* **Client.** An editor over a fixed buffer whose length is not initialised, several keys
  and lines per `read()`, the server taking precedence over the keyboard. Correct means:
  each line goes out as it was edited; the loss of the server ends the program.
* **Server and clients.** A server that waits for a client that waits for the server stops the
  whole room. Correct means: the buffers and the order in which each side looks at its
  descriptors never let that happen, and so every client is served although no one has
  promised to read.
* **Script runner.** Threads interleave at each access to the context, start can fail,
  library calls can throw. Correct means: no output is lost, nobody touches the context after
  `main()` returns, an error stops the flow and is the error reported, the run ends.

* **Camera projection.** A list is erased from inside the loop over it, through a reference into
  itself; four changes of frame are chained. Correct means: the camera asked for is the one
  used, the right bones are taken, and the result depends on no one's frame of reference.
* **Trajectory.** The end of the file is asked for before reading instead of after.
  Correct means: every entry of the file is read, in order.

`PROJECT.json` lists each hazard at its line with the properties that cover it.

## 2. Modules

| Module | Contents |
|---|---|
| `ChatServer` | The server, one action per system call of `main()`; kernel and peers; type and table invariants; the inductive invariant `IInv` |
| `ChatServerHistory` | What clients may rely on, over the history variables `room`, `joined`, `lines`: agreement, fidelity and progress; the refinement mapping `Room`; the inductive invariant `AgreementInv` |
| `ChatRoom` | Abstract specification: a room where each message is handed to all the others |
| `Subsequences` | Parts of a sequence chosen by a set of indices, for the histories of server and client |
| `ChatTurns`, `MCChatTurns` | The steps of `ChatServer` with a count of who was read while who waited: `ReadInTurn`, and its inductive invariant `TurnInv` |
| `MCChatServer` | Constant values |
| `ChatServerProofs` | `IInv` is inductive; five theorems |
| `SequenceLemmas` | Induction over the natural numbers, subsequences, concatenation, folds, sums and products: lemmas for all the proofs below |
| `ChatHistoryProofs` | Agreement, and the refinement of `ChatRoom`; nothing is lost between a peer's `write()` and the broadcast: streams, lines and names; every connection has its turn; eight theorems |
| `ChatClient`, `MCChatClient` | The client |
| `ChatClientProofs` | Where the editor stores, what it may send, and that each line is sent as it was edited; three theorems |
| `ChatSystem`, `MCChatSystem` | The server of `ChatServerHistory` with the repository's own clients in place of arbitrary peers, over bounded buffers |
| `ChatSystemProofs` | The system implements the server's specification, and inherits its theorems; server and client never wait for each other; eight theorems |
| `ConfigParser` | What the parser and the factory make of a document |
| `FlowExecutor`, `MCFlowExecutor` | EXTENDS `ConfigParser`: flow, threads, executors and context; documents to check |
| `FlowExecutorProofs` | `FlowInv` is inductive, and flows without threads stop at the first failure and report it; seven theorems |
| `Program408` | The array exercises as functions, with reference definitions |
| `Program408Proofs` | What the functions return for arrays of any length; eight theorems |
| `Calibration`, `MCCalibration` | The camera projection; files and bones to check |
| `Trajectory` | The trajectory reader |
| `CalibrationProofs` | The camera projection and the trajectory for files, bone lists and frames of any number; four theorems |
| `MCExercises` | The three programs side by side: a behaviour is a run of one of them |

### ChatServer and the code

`pc` names the system call `main()` is about to make (or the loop it is in).

| Action | Code |
|---|---|
| `InitChat` | `initChat()` with `chatMalloc` and `createTCPServer`, either of which may end the process |
| `Select` | the `fd_set` from 0 to `maxclient`, `select()`; with nothing ready the loop goes round |
| `Accept`, `AcceptFails` | `acceptClient()` and `createClient()`: registration, the assertion, the write past the table |
| `Welcome` | the welcome message |
| `ScanDone`, `ReadText`, `Disconnect` | the loop over ready clients: `read()` and what follows from it, up to the next system call; `freeClient()` with its rescan for `maxclient` |
| `Reply` | "Unsupported command." |
| `BroadcastWrite`, `BroadcastDone` | one `write()` of `sendMsgToAllClientsBut()`, and its end |
| `PeerConnect/Send/Read/Close/Abort` | external: a peer opens, sends a line, reads, closes (FIN), is reset |

Text is a sequence of tokens: a token is the least unit at which a `read()` can cut the
stream (word, `/name`, space, end of line), and `READ_MAX`, `MSG_MAX`, `RCVBUF` count tokens.
`snprintf()`'s truncation, `strchr()` for the line end and the splitting of `/name` are the
operators `ChatMessage`, `CutAtEol`, `IsNameCommand`, `NameArg`. A default name lacks its terminator
(`createClient()` copies `namelen` bytes), so what follows it in memory is chosen from
`Residues`. Modelling assumptions about the kernel: the lowest free descriptor is handed
out; `accept()` fails only for want of descriptors; text that arrived before a reset may or may
not be readable; the first `write()` to a peer that has closed
provokes a reset, the first one after a reset fails with an error, and the next raises SIGPIPE, which ends
the process. A slow peer blocks `write()` when
`SNDBUF` messages are unread.

`ChatTurns` groups the same actions by whom they serve: `ReadPasses` (`ReadText`, `Disconnect`), `AcceptServes` (`Accept`) and
`ReadsNothing` (all others). `passed[c][d]` is history: how often `d` was read since `c` began to wait.

Out of the model: `atoi`/argument handling, `printf`, IPv6, `EINTR`.

### ChatClient and the code

`Connect` (`TCPConnect()`, over the lists of addresses `getaddrinfo` may return: the first one for
which a socket can be made decides), `SetRawMode` (flushes what was typed; fails when
standard input is not a terminal, and its result is ignored), `Select`, `ReadServer`, `ReadStdin`, `FeedChar`
(one call of `inputBufferFeedChar()`), `Send` (`IB_GOTLINE`: the line goes out and the buffer is cleared),
`FeedDone`. `len` starts with any of `InitialLens`, because `ib` is not initialised. At a negative length
`Store` puts the character in front of the buffer, over other memory: `outside` records it, and it either ends the client or goes
unnoticed. User and
server are external. Nothing is modelled of the screen.

### ChatSystem and the code

`ChatSystem` takes the server's actions as they are and replaces its peers by clients. `typing` is
the number of lines a client has read from the keyboard and not yet written.

| Action | Code |
|---|---|
| `TCPConnect` | `smallchat-client.c:119` |
| `ReadStdin` | line 151: the keyboard is read when the server has sent nothing; one `read()` brings up to `BATCH` lines |
| `WriteLine` | line 161, once per line: the loop over the characters does not look at the server, and `write()` waits while the socket is full |
| `ReadServer` | line 142, only back in `select()` |
| `Quit` | external: the user ends the client, with or without unread text |

The editing of a line is `ChatClient`'s subject and is left out here.

### FlowExecutor and the code

`ConfigParser` is the document: an object is a function of its field names, and each `contains()`
test with its default is `Field`. `Scripts` and `Flow` are the parsed structures, `GetScriptType` looks at
the suffix of a path, `Loaded` are the scripts before the first of unknown type, and `GetScriptExecutor`
finds the last of an id. `LoadConfigFromFile` is the start of `main()`, with the ways it can fail.

`CheckNode` (the error check at the top of `ExecuteFlow()`'s loop), `RejectNode`, `StartThread`, `CallSync`,
`ReturnSync`, `Join` (`Wait()`), `Exit` are `main()`. `Execute(i)` is the run of node `i`'s script, on its thread
or on `main()`'s: path, open, access, popen, then for each line of output `Lock`, `Store` (the append
read and written apart), then `Pclose`, and the report: flag, message (in two steps, so that two
threads may tear it), status. An exception in any of the library calls goes where
the code catches it: `Throw` is one inside the inner `try`, which its handler reports as an error; `Abandon` one before it (the name of
the output file) or inside that handler, which the outer handler turns into the returned status without touching the context; `Escape` one
that leaves the outer handler too, and with it `Execute()`: it ends the process. `Return` is the making of a status with a message, which is
still inside the `try`. A thread that cannot be started ends the run: by `std::terminate`, from the destruction of
`threads_`, if other threads were started before, and through the handlers of `main()` otherwise. What a script prints, and its parameters, are left out: a line of output is the
number of its node.

### Program408 and the code

Each member function of `Solution` is an operator of the same name; a loop is a fold over the indices it visits, with the
loop's variables as a record, where a `break` or a `return` inside it leaves the rest without effect; only the library's `sort()`
is said by what it yields (`Descending`). Functions that move elements inside one array (`merge` and
the removals; `rotate` has a second array) read the array as their earlier steps left it. Sums of ints (`IntSum`) are exact as long as an `int` holds them
and otherwise what the constant `Overflow` says, any `int` for the proofs and two's complement for TLC; as an index an `int` is taken modulo the range of
`size_t` (`Index`). In `productExceptSelf` a product that overflows is `NONE`. The properties exempt the arguments whose sums and products
overflow, with the least precondition that does: the product of the whole array, which nothing uses, may overflow. A behaviour is one call: `Init` chooses function and arguments, `Return` the
result. Arguments are sorted where the function only makes sense on sorted ones; `print()` is left out.

### Calibration, Trajectory and the code

`LoadFile`, `parseCamera` (one entry of the file per step), `LookUp` (the three calls of `GetBoneDataByName()`),
`Project` (one bone per step) and `PrintCamera` are `main()` of `parse_yaml.cpp`. Exceptions are caught by no
one and end the program. Geometry is exact: coordinates are the elements of a commutative ring, which the real numbers are, and a rotation is
a matrix whose transpose is its inverse (so that reflections are among them). TLC needs a finite ring and takes the integers modulo 29, where the
turn by the angle of cosine 3/5 and sine 4/5 is a matrix like any other. An entry of the file without a topic throws, whether it was asked for or not. `GetBoneDataByName()` is
modelled slot by slot: the loop runs to the end the list had at first, `std::remove()` compares with a reference to a slot
that it overwrites, and a moved bone has lost its name. A name occurs once in a list, as in a skeleton. A pixel is the ray to it:
the lens formula, which OpenCV applies last, does not change which point is projected. `isFisheye`, which is never
assigned, is either value.

In `Trajectory` a token of the file is a number or a word. `Extract` is one `>>` with the stream's two bits,
`ReadPose` one turn of `while(!fin.eof())`: the variables are not initialised, and the entry is kept without a look
at the stream. A word sets `failbit` and never `eofbit`, so the loop runs until memory (`MaxPoses`) is used up.

## 3. The runs

| Run | Configuration | Shows |
|---|---|---|
| `server_capacity` | `ChatServer.cfg` | three members join, speak, send commands that are refused, leave and take over slots: `NeverBlocks`, `RoomAgreement`, the server implements `ChatRoom` (safety) |
| `server_overload` | `ChatServerOverload.cfg` | three connections, two descriptors, one slot and one word behind the table, resets: `TableInv`, `ExitsOnlyWhenFull`, and `IInv`, the invariant of the proof |
| `system_stream` | `ChatSystem.cfg` | server and clients over small buffers, text cut and joined anywhere: `NeverBothWaiting`, `StreamFidelity`, and no client dropped with text unrelayed (`RelayedBeforeFreed`); some chunks are too long for `msg[]` |
| `server_lines` | `ChatServerLines.cfg` | peers that wait, lines that stay whole: `LineFidelity`, `NameHonoured`; no connection is passed over (`ReadInTurn`) |
| `system_live` | `ChatSystemLive.cfg` | server and clients, resets: `Served`, `GoneRemoved`, `ChatRoom` with its fairness |
| `client_editor` | `ChatClient.cfg` | keys cut into reads anywhere, every initial length: `StoresWithin`, `LinesAsTyped`, `LossNoticed`, `TypedRead` |
| `flow_threads` | `FlowThreads.cfg` | two threads, a script that is never registered, exceptions in the `try` and in both handlers: `FlowInv` (which has the types), `OutputComplete`, `ContextOutlivesThreads`, `StatusSettled`, `RunEnds` |
| `exercises` | `Exercises.cfg` | every array function against a definition of what it should return; the camera (`CameraRequested`), the bones (`BonesLookedUp`) and the frames (`FrameIndependent`) of the projection; the poses of the trajectory (`TrajectoryFaithful`) |
| `flow_sequential` | `FlowSequential.cfg` | every kind of node and script, without threads: `ErrorStopsFlow`, `ReportTruthful` |
| `server_names_split` | `ChatServerNames.cfg` | **violation** of `NameHonoured`: see below |
| `flow_error_lost` | `FlowErrorLost.cfg` | **violation** of `ErrorStopsFlow`, with the repository's own configuration |
| `projection` | `Projection.cfg` | **violation** of `ProjectsCameraFrame` |

### Disagreements with the repository's own statements

* *Names over a network that cuts lines.* The welcome message says "Use /name <name> to
  set your name."; each `read()` is taken for one whole line, so `/name bob` in two segments is refused or
  sets half of the name, and the rest is broadcast as text.
* *"If there is already an error, end the flow"* (`flow_executor.cpp:10`). A script that succeeds calls
  `SetError(false, ...)` and erases the flag another thread set; the flow goes on. The configuration that `main()` loads
  (`config/document_20251204_111812.json`) is enough: its last three steps do not say `"async"`, and so run side by side.
* *"The third step takes the data into the camera's frame, by the extrinsics"* (`parse_yaml.cpp:121`). `pose3DTo2D()`
  does, and then hands the same extrinsics to OpenCV, which applies them again the other way: they cancel, and the pixel
  is that of the point in the chest's frame wherever the camera stands.

One more is plain from the text and not modelled: the time stamp that "avoids file name conflicts"
(`script_executor.cpp:13`) is the same for two runs of a script in one millisecond.

Some defects are met on the way that contradict no statement and are part of the models. Out of descriptors,
`acceptClient()` returns -1, which is used as an index: `Chat->clients[-1]` is the word that holds `maxclient`, and the
assertion of `createClient()` fails (`AcceptFails`; `ExitsOnlyWhenFull` shows that nothing but a lack of descriptors or slots makes it fail). A descriptor past the table is used
as an index all the same (`CreateOutcome`): `SLACK` words behind it may be null and free, and the program goes on with them as if they were slots, as with glibc on
a 64-bit machine, which rounds the allocation up by one word; or the assertion fails; or something else is overwritten, which ends what the model says (`overrun`). And
`can_complete_circuit()` returns after one step of the inner loop, so that a station from which the
car gets to the next is returned whatever comes after it; nothing in the repository says what it must satisfy, and it is modelled without a property. The repository's `trajectory.txt` ends in a
space, so its last entry is followed by one of variables that were never written; and the last line of the drawn path
leads to what lies behind the vector. `TrajectoryFaithful` says exactly which files have such an entry, and that the others are read as they stand.

The same `NameHonoured` and `ErrorStopsFlow` hold in `server_lines` and `flow_sequential`, which shows exactly
which circumstance breaks them.

### Bounds, and why they are enough

* *Server.* The server treats members alike but for their slots, so what matters is the number of slots in play:
  with three connections there are a speaker and two others, a member that joins while another leaves, and a freed
  slot below, between or above the others. Two suffice where a property concerns one connection and
  a disturber (`system_stream`, `server_lines`, `system_live`; `server_overload` has three connections for two
  descriptors). One line per connection is enough for agreement on order; streams and names need two (the second
  line's name depends on the first). `ReadInTurn` allows
  a waiting connection to be passed twice, and in `server_lines` each is read three times, two lines and the end of file, so that a server
  that starves one breaks it; a count of turns stands where a liveness property would need senders that never stop. Resets multiply states, and are in `server_overload` and `system_live`;
  `server_capacity` has closes only. `SNDBUF` is small, so that writes do block.
  In `system_stream` the longest chunk (`READ_MAX`) is one token more than `msg[]` holds behind a default name, so that both cases
  of `snprintf()` occur. In `server_overload` the table has one slot less than the process has descriptors, and one word behind it that may be free
  (`SLACK`): the server goes on past the table, fails there, or runs out of descriptors; the theorem `FullOnExit` covers
  every size of the table (100 slots in the code against the usual 1024 descriptors). Connections are symmetric in the safety runs; no symmetry is used with liveness.
* *Buffers.* In the real system a socket buffer holds thousands of lines and one `read()` of the keyboard 128
  characters. In `system_stream` they are as small as `NeverBothWaiting` allows, and one less violates it. The condition found
  with TLC over several sizes: the client's socket must hold the lines of one `read()` of the keyboard
  (`BATCH`), because the client writes them all before it looks at the server again; and the server's must hold, besides the
  welcome, what all the others can say while the server empties a full socket of one client. A batch larger than the
  client's socket breaks it however large the server's is. The theorem `Apart` proves a condition that is enough for every
  size (`BuffersSuffice`, section 4); it asks for 5 messages where the run shows that 3 will do.
* *Client.* `IB_MAX` 2 and four keys reach an overfull line, a full line without its newline, two lines in one
  session, a deletion in the middle of a line and on an empty one, and reads that end anywhere. `InitialLens` has a
  negative length, 0, and one past the end.
* *Exercises.* Arrays of up to five elements between -1 and 3 (amounts from 0): all ways of ordering and repeating few values,
  jumps short of, to and past the end, and sums and products past `INT_MAX` = 5. These properties are proved for any length (section 4). Calibration files have up to two entries of eight kinds
  (two cameras asked for, a foreign one, and one fault each); the motions turn about one axis or two by an angle that is no part of a full turn, with an
  offset. Trajectories have up to seven tokens, any of them a word, for entries of three numbers
  instead of eight: two whole entries and every partial third.
* *Flow.* Two threads suffice for the races on flag, message, status and output; a third node that was never
  loaded makes `main()` return early. The flow that shows the lost error has three threads. Two lines per script make
  appends of the same script and of two scripts interleave.

### Fairness

The server is one thread that the operating system runs (`WF` of all its actions together, not of each); it
waits only in `select()` and in `write()`. Each client is a thread that is run (`WF` of `ClientLoop`). That a client reads what it is sent is
not assumed: it follows from its loop as long as its own writes go through, which is `NeverBothWaiting`. Nothing forces users
to connect, type or quit. In `ChatClient` the client is one thread and its server reads. `TypedRead` is conditional on the server
falling silent, as the client prefers the server. In the flow every thread is scheduled and every script ends.

## 4. The proofs

`ChatServerProofs`, for every number of connections, slots, descriptors, buffer sizes, lines and flags allowed by
`ServerAssumption` (the listening descriptor is inside the table and the descriptor limit; the sizes are naturals):

| Theorem | Statement |
|---|---|
| `Invariance` | `Spec => []IInv` |
| `Typing` | `Spec => []TypeOK` |
| `TableConsistent` | `Spec => []TableInv` |
| `ReadsNeverBlock` | `Spec => []NeverBlocks` |
| `FullOnExit` | `Spec => []ExitsOnlyWhenFull` |

`TableInv` is not inductive alone: `createClient()` is right only if the kernel's new descriptor has no record,
hence `KernelAgrees`; that is kept by `accept()` only if a connection is in the queue at most once and has no descriptor yet
(`QueueInv`); `freeClient()` and the broadcast need to name registered clients (`PlaceInv`); and the scan must not
touch a descriptor that was freed or reused since `select()`. `ReadyInv` is that last part: the ready clients the scan has yet to
reach (`Pending`) are registered and readable, which holds because only the scan itself frees clients, at the index it stands
at, and because a connection that is readable stays so until the server reads it. `IInv` is their conjunction; the proof has one lemma per action,
with lemmas on how `createClient()` and `freeClient()` change the table and frame lemmas for the steps that leave it alone.

`ChatHistoryProofs`, from the same assumptions:

| Theorem | Statement |
|---|---|
| `AgreementInvariance` | `Spec => []AgreementInv` |
| `Agreement` | `Spec => []RoomAgreement` |
| `Refinement` | `Spec => ImplementsRoomSafety` |

`RoomAgreement` relates what was written to a connection to the conversation since it joined, but says nothing of the write
under way. `AgreementInv` adds what the loops need: during a broadcast the message in `msg[]` is the last of the conversation and its sender is
the client at `j`; who is still owed it joined before it was said; a connection that is not in the room was written nothing. The refinement
maps each step: `Welcome` and `AcceptFails` change nothing the room knows, `Accept` is a join, `ReadText` says something or nothing,
`BroadcastWrite` delivers to the lowest of those owed, `Disconnect` is a leave, an exit closes the room. It needs `IInv` for the
broadcast (whoever is written to is registered) and `AgreementInv` for the message it delivers.

In the same module, from the same assumptions and, but for the last, one on the peers and sizes each:

| Theorem | Assumption | Statement |
|---|---|---|
| `Streams` | `Undisturbed` | `Spec => []StreamFidelity` |
| `RelayedFirst` | `Undisturbed` | `Spec => RelayedBeforeFreed` |
| `Names` | `LineByLine` | `Spec => []NameHonoured` |
| `LinesKept` | `LineByLine`, `LinesFit` | `Spec => []LineFidelity` |
| `Turns` | none | `TurnSpec => []ReadInTurn` |

The assumptions are what the statements themselves are about, and each is needed, because the code loses text without it. `Undisturbed`: no
resets (unread text goes with the connection) and no commands (they are not relayed). Nothing is assumed of the sizes: `readbuf[256]` takes in more than
`msg[256]` holds behind a name, and a client that writes a longer burst loses the end of each chunk of it. `StreamFidelity` says so: the stream is cut into
chunks (`CutsInto`), each as long as a read may be, and there is one message for each, with as much of it as fits; so that
no token is lost between two chunks, and none but the last of a chunk that overfills `msg[]`. `LineByLine`: no read ends inside a line or takes two, and there are no resets; `server_names_split` shows what
happens otherwise. `LinesFit`: no line is cut off behind a name that can be in use.
`ChatSystem.cfg` satisfies the first, `ChatServerLines.cfg` the others.

`StreamInv` adds that what is unread is plain text, so that each read becomes a message; the lemmas add a chunk to what was relayed (`RelaysChunk`)
and a line to what is unread (`RelaysLonger`). `LineInv` says for each
registered client that its name is that of the last naming line read and its messages are the text lines read (`Faithful`), from the
same default name, which the record took from memory when it was created; that a connection in the queue has said nothing; and that at most its last line is unread. Both are proved
by one lemma per action over lemmas on what one more message, line or chunk does to these histories.

`Turns` rests on `TurnInv`. In a round of the loop a client is still to be read (`Pending`) or not; the bound on how often another one
was read while it waited is one more if it is still to be read, and one less if the other is. So a `read()` adds one to the count and
one to the bound, and `select()`, which begins a round, takes back what it gives, since a client that waits is then among those to be read. In the accept
queue every round brings a connection one place nearer, before it reads anyone.

`SequenceLemmas` has what those lemmas rest on. The library's induction theorems take a predicate as a parameter, which the provers cannot
instantiate; `SetInduction` gets induction from the well-foundedness of `<` instead, for a set that holds 0 and is closed under successor. From it come the ranks of a
set of indices (`RankedExists`), subsequences with one more element (`SubsequenceAppend`), and the concatenation of a sequence with
one more element (`FlattenAppend`), whose definition in the community modules is recursive.

`ChatSystemProofs`, from the same assumptions: every step of the system is a step of `ChatServer` or leaves its variables alone
(`SystemServes`), so that `SystemTable`, `SystemReads`, `SystemAgreement`, `SystemRefinement`, `SystemStreams` and `SystemRelayedFirst` follow from the
theorems above. (The system cuts and joins lines, so that the theorems about lines do not apply to it.)

`Apart` (`SystemSpec => []NeverBothWaiting`) has the one assumption the program never states, `BuffersSuffice`: there is a length L
such that no line is longer, a client's socket holds `BATCH` lines of it (`BATCH * L <= RCVBUF`), and the server's socket for a client holds
`Capacity * (BATCH * L + 1) - 1` messages, where `Capacity` is the number of descriptors a client can have. The argument is about a client
that has more to say than its socket takes, since no other ever waits. It cannot read while it writes, so what the server has sent it piles up; but
every scan of the server reads some of its text, so that within `BATCH * L` scans it is back in `select()`, and in one scan every other client
speaks at most once. `LoadInv` says this as a bound that the steps keep: what is unread, plus one for each ready client that
the scan has yet to come to, plus the message being written to it, is at most `Capacity` times one more than the client's `Progress` (how much less it
has left to say than it may have had at first), and `Capacity - 1` more if the scan has yet to come to the client itself. The bound is not the least one: it counts every other client as
speaking in every scan. `LoadInv` was tried by TLC on `ChatSystem.cfg` with `SNDBUF` = 5 before it was proved.

`FlowExecutorProofs`, for every document whose fields have the types the parser expects, and every bound:

| Theorem | Statement |
|---|---|
| `FlowInvariance` | `Spec => []FlowInv` |
| `FlowTyping` | `Spec => []TypeOK` |
| `NoOutputLost` | `Spec => []OutputComplete` |
| `ContextSafe` | `Spec => []ContextOutlivesThreads` |
| `StatusSettles` | `Spec => []StatusSettled` |

`OutputComplete` needs `MutexInv` (who is between reading and writing the output holds the mutex, and its copy is still the output);
`ContextOutlivesThreads` needs `ThreadsInv` (an execution in progress is a thread yet to be joined or the call `main()` is in) and `AheadIdle`
(no node runs before `main()` comes to it, so that a thread started is a new one). `StatusSettles` needs `RunningInv`: as long as the status is
kRunning some execution is past its start and has not ended, or ended in the outer handler, which `StatusSettled` exempts.

For the documents none of whose nodes runs on a thread (`WithoutThreads`), in the same module: `ReportsTruly`
(`Spec => []ReportTruthful`) and `StopsAtError` (`Spec => ErrorStopsFlow`). `SequentialInv` says that the only execution in progress is the
call `main()` is in, how much of its report the context holds at each of its steps (`Progress`), and that between two
executions the flag is up exactly if the last one failed. With threads both are false, as `flow_error_lost` shows with the
repository's own configuration: threads are all that breaks them.

`ChatClientProofs`, for every size of the buffer and of one read, and any set of lengths the buffer may begin with:

| Theorem | Statement |
|---|---|
| `StoresConfined` | `Spec => [](TypeOK /\ StoresWithin)`: nothing is stored behind the buffer, and in front of it only by the first line, of a length that began negative |
| `MessagesBounded` | `Spec => []LinesBounded`, the first conjunct of `LinesAsTyped` |
| `EditsKept` | `Spec => []LinesAsTyped` |

`StoresInv` says that a negative length is never below the one it began with and is there only until the first Enter has been sent: no
key is fed between the two. `MessagesBounded` follows from `EditorInv`: once the buffer was cleared its length is between 0 and `IB_MAX`, and a line about to be sent ends
in a newline if there is room for one. For `EditsKept`, `BufferInv` says that the buffer holds the line being typed as it stands
edited, as long as what was typed of it would have fitted. `LinesAsTyped` defines what survives of a line without an editor: a character survives
unless what follows it has at some point more deletions than characters. That the deletions of the buffer come to the same rests on
`KeptBalanced`: behind a character that survives, the characters typed are as many as were deleted there and survive there together. So a
deletion takes exactly the last survivor (`KeptDelete`), and a key adds itself (`KeptCharacter`) or changes nothing (`KeptOther`).

`IInv` and `FlowInv` are also checked by TLC (`server_overload`, `flow_threads`); `AgreementInv`, `StreamInv`, `LineInv` and `BufferInv`
were tried on the runs of their properties before they were proved.

`Program408Proofs`, for arrays of any length:

| Theorem | Statement |
|---|---|
| `MajorityReturned` | `Spec => []MajorityFound` |
| `Rotated` | `Spec => []RotatedRight` |
| `ProfitsLargestPossible` | `Spec => []ProfitsBest` |
| `JumpsRight` | `Spec => []JumpsCorrect` |
| `HIndexRight` | `Spec => []HIndexCorrect` |
| `RemovalsRight` | `Spec => []RemovalsCorrect` |
| `MergeRight` | `Spec => []MergeCorrect` |
| `ProductsRight` | `Spec => []ProductsCorrect` |

A call of an array function is one step, so that the invariant (`CallInv`) says what was called and that the result is the function's; the
work is in the functions. Each loop is a fold, and the folds of the community modules are defined by recursion over sets of
indices, through a `CHOOSE` of a function that satisfies the recursion. `SequenceLemmas` shows once that such a function exists, given that
the step has a type (`FoldExists`), and that over 1, 2, ..., n it goes through the states of the loop one by one (`LeftScan`); from there
each proof is the loop invariant that one would write beside the code, by `SetInduction`. Where no sum overflows the loop over ints takes
the steps of the one over numbers (`TurnedExact`, `Tried1Exact`, `Tried2Exact`, `JumpedExact`); for `max_profit_2()` that no sum so far overflows is itself
part of the induction, as each is what some nights earn:

* `majority_element()`: the candidate's lead (`Ahead`): twice the occurrences of an element so far are at most the elements so far plus `count` if it is
  the candidate, less `count` if it is not.
* `max_profit_1()`: the least price so far (`Least`) and the best sale among the days so far (`Best`); `max_profit_2()`: the rises
  so far are earned by some set of nights and by none more (`Earned`), where adding a night to a set adds its gain (`SumsAdd`).
* `rotate()`: the places written are distinct (`PlaceRight`, arithmetic modulo the length), so that each keeps what was written there.
* `canJump1()`, `canJump2()`: `max` is the furthest place that a jump from those looked at leads to (`Furthest`), and every place before the one looked at has
  one before it that leads over it (`Covered`), so that the end is reached (`CoveredEnd`); false is returned at a place that nothing before it leads
  over (`Stuck`), which no chain of jumps leaves (`StuckBefore`). `jump()`: `reach` is how far
  `steps` jumps lead, and one fewer leads to no place that is still to be looked at (`Jumping`).
* `h_index()`: in the array sorted downwards the element at place i is at least x exactly if i elements are (`DescendingCounts`), so that the loop
  stops at the largest h.
* The removals: what is still to be looked at has not been overwritten (`Gathered`), so that each step reads what the caller
  passed; the front holds what is kept of the elements so far (`SiftedTo`). In a sorted array a new element is the flag or larger than all before it, the
  front has each of those so far as often as they occur but at most once or twice (`Thinned`), and `seen` is how often the flag occurred.
* `merge()`: the elements left are still where they were, since those placed fill the array from the end (`Remaining`); what is placed is sorted, no
  less than what is left (`Fits`), and together they are as many of each value as at the start.
* `productExceptSelf()`: after i steps of the first pass the places looked at hold the product in front of them (`FrontTo`), and the second
  pass completes each of them from behind (`BackTo`), as far as nothing overflowed (`Known`). That the product of two parts of the array is that of both together
  (`ProductsParts`), in whatever order the definition takes the elements (`ProductsAdd`), is an induction over their sizes.

`CalibrationProofs`, for calibration files, bone lists and trajectories of any length:

| Theorem | Statement |
|---|---|
| `CameraFromRequest` | `CalibrationSpec => []CameraRequested` |
| `BonesTaken` | `CalibrationSpec => []BonesLookedUp` |
| `FramesDoNotMatter` | `CalibrationSpec => []FrameIndependent` |
| `TrajectoryRead` | `TrajectorySpec => []TrajectoryFaithful` |

They assume of the data what `CalibrationAssumption` says: a name occurs once in a list of bones, and the matrices of poses and of the motions
compared with have their transpose as inverse. Of the coordinates they assume `RingAssumption`, the laws of a commutative ring with one. So the theorem on
frames holds for real coordinates and every rotation; it says nothing of rounding. The laws are axioms of an uninterpreted structure to the provers, which
have no theory for it: sums of products are rearranged by lemmas (`FourSums`, `DotScaled`, `NegativeSum`).

* `parseCamera()`: the camera holds the last matching entry among those looked at so far (`CameraInv`).
* `GetBoneDataByName()`: `std::remove()` finds the slot of its reference first, and no later bone equals what that slot holds by the time it is
  compared, so that the bones behind the slot move down by one and the last has lost its name (`RemovesOne`, `ShiftedTo`). The bone that moved into the slot is not looked at again, but by
  the assumption on names it is no bone that is looked for; so the rest of the loop finds nothing and changes nothing (`BoneTaken`), and what is left is the list
  `Without` that bone: one of no other name, in order (`TakenOthers`), from which the next bone is taken as from the list itself (`TakenAfter`).
* The chain of frames: a motion is undone by its inverse (`ApplyInverse`, `InverseTwice`), and one after another carries a point as both in turn do
  (`ApplyAfter`). So a motion of the glove's frame cancels between the wrist and the finger, and one of the trackers' frame between the hand and the
  chest (`ChainMoved`). `BonesInv` says of the pixels so far that each is that of its bone, and of the bones left that they are the others in order.
* `plot_trajectory()`: after i of the fields of an entry the stream stands i tokens further and the fields hold those tokens, or it stopped
  at the first word or the end of the file (`Reads`); the poses kept are the entries of the file before that point (`PosesInv`). The stream knows that
  the file has ended only if the last number was read and nothing follows it (`Spent`), which is what decides whether one more entry is read.

Each invariant of the passing runs is now a theorem. Only model-checked are the bounds on the buffers that `chat_system` runs at, which are sharper than
`BuffersSuffice`, and liveness: fairness and `ENABLED` are beyond the proof system.

## 5. Plan, and what is not modelled

Done: the server with its invariants, abstract room and proofs; the client; the two composed; the script runner from its
document on, and the proofs about each of these; the exercises.

Not modelled, and why:

* `linked_list.hpp`: `append()` keeps the first element and never links a later one, the other operations are only
  declared, and nothing instantiates the class.
* `camera.py`, the demonstrations of Eigen in `eigenMatrix.cpp`, `main/main.cpp`: calls of libraries on fixed numbers.
* `common_utils.hpp`: `executeShell()`, `convertCoordinate()`, the distortion formula and a second `parseCamera()` are called by
  nothing. The lens itself is OpenCV's.
* `HumanoidMotion.proto` and abseil: declarations and third-party code.
* The client's screen, `atoi` and argument handling, `EINTR`, IPv6; in the script runner the contents of messages, parameters, and the clock
  in the names of output files.
