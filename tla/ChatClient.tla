------------------------------ MODULE ChatClient ------------------------------
(***************************************************************************)
(* The smallchat client (smallchat-client.c): a line editor over a bounded *)
(* buffer, in a loop that waits for the server and for the keyboard and    *)
(* prefers the server.  The terminal, the user and the server are modelled *)
(* from how the client uses them.                                          *)
(***************************************************************************)
EXTENDS Integers, Sequences, FiniteSets, Subsequences, TLC

CONSTANTS
  Chars,       \* printable characters
  DEL, JUNK,   \* the delete key; whatever is in memory that was never written
  IB_MAX,      \* size of the input buffer
  BUF,         \* sizeof(buf): characters of one read
  InitialLens, \* what the length of the buffer, never initialised, may be
  SOCKBUF,     \* messages the server may leave unread before write() blocks
  MaxKeys,     \* bound: keys the user presses
  MaxWaiting,  \* bound: keys waiting to be read
  MaxText      \* bound: chunks of text from the server waiting to be read

Keys == Chars \cup {DEL, "\r", "\n"}
Indices == 0 .. IB_MAX - 1

ASSUME ClientAssumption ==
  /\ IB_MAX \in Nat \ {0} /\ BUF \in Nat \ {0}
  /\ InitialLens \subseteq Int /\ InitialLens # {}
  /\ SOCKBUF \in Nat /\ MaxKeys \in Nat /\ MaxWaiting \in Nat /\ MaxText \in Nat
  /\ {DEL, JUNK} \cap Chars = {} /\ {"\r", "\n"} \cap (Chars \cup {DEL, JUNK}) = {}
  /\ DEL # JUNK

VARIABLES
  pc, exit,    \* where main() is, and why it ended
  ibuf, len,   \* struct InputBuffer
  buf, j,      \* the characters read from the keyboard, and the next of them
  raw,         \* the terminal hands on every key, and Enter as "\r"
  keys, eof,   \* keys pressed and not read; the keyboard is closed
  incoming,    \* chunks of text from the server, not read
  lost,        \* the server closed the connection
  sent, taken, \* messages written to the server, and how many it has read
  typed,       \* history: the keys the editor was fed
  first,       \* history: the length the buffer began with
  outside      \* history: the stores outside the buffer, with the keys fed before each

ib == <<ibuf, len>>
editor == <<ib, buf, j, typed, first, outside>>
tty == <<raw, keys, eof>>
net == <<incoming, lost, sent, taken>>
vars == <<pc, exit, editor, tty, net>>

At(l) == exit = "none" /\ pc = l

(* The bytes write(fd, ib.buf, ib.len) takes, beyond the buffer if need be. *)
Contents == [i \in 1 .. len |-> IF i <= IB_MAX THEN ibuf[i - 1] ELSE JUNK]

-----------------------------------------------------------------------------
(* TCPConnect(): the first address a socket can be made for decides. *)
Addresses == UNION {[1 .. n -> {"nosocket", "refused", "reached"}] : n \in 0 .. 2}
TCPConnect(addrs) ==
  \E p \in DOMAIN addrs :
    addrs[p] = "reached" /\ \A q \in 1 .. p - 1 : addrs[q] = "nosocket"

Connect ==
  /\ At("connect")
  /\ \E addrs \in Addresses :
       IF TCPConnect(addrs) THEN pc' = "rawmode" /\ UNCHANGED exit
                            ELSE exit' = "connect" /\ UNCHANGED pc
  /\ UNCHANGED <<editor, tty, net>>

(* setRawMode(): what was typed before is flushed; where it fails, because the
   input is a pipe or a file, the client goes on without. *)
SetRawMode ==
  /\ At("rawmode")
  /\ raw' \in BOOLEAN
  /\ keys' = IF raw' THEN <<>> ELSE keys
  /\ pc' = "select"
  /\ UNCHANGED <<exit, editor, eof, net>>

SelectServerOnly == \* mutation: the keyboard is not in the set
  /\ At("select")
  /\ incoming > 0 \/ lost
  /\ pc' = "server"
  /\ UNCHANGED <<exit, editor, tty, net>>

(* select() without a time-out; the keyboard has its turn only when there is
   nothing from the server. *)
Select ==
  /\ At("select")
  /\ \/ incoming > 0 \/ lost
     \/ keys # <<>> \/ eof
  /\ pc' = IF incoming > 0 \/ lost THEN "server" ELSE "stdin"
  /\ UNCHANGED <<exit, editor, tty, net>>

ReadServerNoEof == \* mutation: end of file is not noticed
  /\ At("server")
  /\ incoming' = 0
  /\ pc' = "select"
  /\ UNCHANGED <<exit, editor, tty, lost, sent, taken>>

(* Text from the server is shown around the line being edited; end of file ends
   the client. *)
ReadServer ==
  /\ At("server")
  /\ IF incoming = 0
     THEN exit' = "lost" /\ UNCHANGED <<pc, incoming>>
     ELSE incoming' \in 0 .. incoming - 1 /\ pc' = "select" /\ UNCHANGED exit
  /\ UNCHANGED <<editor, tty, lost, sent, taken>>

(* At end of file read() returns 0, and the loop goes round at once. *)
ReadStdin ==
  /\ At("stdin")
  /\ \E n \in 0 .. Len(keys) :
       /\ IF keys = <<>> THEN n = 0 ELSE n \in 1 .. BUF
       /\ buf' = SubSeq(keys, 1, n)
       /\ keys' = SubSeq(keys, n + 1, Len(keys))
  /\ j' = 1
  /\ pc' = "feed"
  /\ UNCHANGED <<exit, ib, typed, first, outside, raw, eof, net>>

-----------------------------------------------------------------------------
(* The editor: inputBufferFeedChar() on the next character of buf. *)

(* ib->buf[ib->len] = c: outside the buffer it overwrites other memory, which may end
   the client or go unnoticed. *)
Store(c) ==
  IF len \in Indices
  THEN ibuf' = [ibuf EXCEPT ![len] = c] /\ UNCHANGED <<outside, exit>>
  ELSE /\ outside' = outside \cup {<<Len(typed), len>>}
       /\ exit' \in {exit, "corrupt"}
       /\ UNCHANGED ibuf

AppendPastEnd(c) == \* mutation: one character more than the buffer has room for
  \/ len > IB_MAX /\ UNCHANGED <<ib, outside, exit>>
  \/ len <= IB_MAX /\ Store(c) /\ len' = len + 1

(* inputBufferAppend(): a full buffer refuses; a negative length is not tested for. *)
Append1(c) ==
  \/ len >= IB_MAX /\ UNCHANGED <<ib, outside, exit>>
  \/ len < IB_MAX /\ Store(c) /\ len' = len + 1

DeleteAny == \* mutation: the length is not tested
  /\ len' = len - 1
  /\ UNCHANGED <<ibuf, outside, exit>>

Delete == \* the key 127
  /\ len' = IF len > 0 THEN len - 1 ELSE len
  /\ UNCHANGED <<ibuf, outside, exit>>

FeedChar ==
  /\ At("feed") /\ j <= Len(buf)
  /\ LET c == buf[j] IN
     /\ typed' = Append(typed, c)
     /\ \/ c = "\n" /\ UNCHANGED <<ib, outside, exit>>
        \/ c = DEL /\ Delete
        \/ c \in Chars /\ Append1(c)
        \/ c = "\r" /\ Append1("\n")
     /\ IF c = "\r" THEN pc' = "send" /\ UNCHANGED j
                    ELSE j' = j + 1 /\ UNCHANGED pc
  /\ UNCHANGED <<buf, first, tty, net>>

FeedDone ==
  /\ At("feed") /\ j > Len(buf)
  /\ pc' = "select"
  /\ buf' = <<>> /\ j' = 1
  /\ UNCHANGED <<exit, ib, typed, first, outside, tty, net>>

KeepLine == UNCHANGED len \* mutation: the line is not cleared
inputBufferClear == len' = 0

(* The line is written to the server, which blocks while the server does not
   read, and may end the client once the server is gone. *)
Send ==
  /\ At("send")
  /\ lost \/ Len(sent) - taken < SOCKBUF
  /\ \/ /\ ~lost
        /\ sent' = Append(sent, Contents)
        /\ UNCHANGED exit
     \/ /\ lost
        /\ exit' \in {"none", "sigpipe"}
        /\ UNCHANGED sent
  /\ inputBufferClear
  /\ j' = j + 1
  /\ pc' = "feed"
  /\ UNCHANGED <<ibuf, buf, typed, first, outside, tty, incoming, lost, taken>>

-----------------------------------------------------------------------------
(* The user and the server. *)

(* The keys pressed so far; the one being sent has been counted as typed. *)
Pressed ==
  Len(keys) + Len(typed) + Len(buf) - (j - 1) - (IF pc = "send" THEN 1 ELSE 0)

Press(c) ==
  /\ ~eof /\ pc # "connect" /\ exit = "none"
  /\ Len(keys) < MaxWaiting /\ Pressed < MaxKeys
  /\ keys' = Append(keys, IF c = "\r" /\ ~raw THEN "\n" ELSE c)
  /\ UNCHANGED <<pc, exit, editor, raw, eof, net>>

CloseInput ==
  /\ ~eof /\ pc # "connect" /\ exit = "none"
  /\ eof' = TRUE
  /\ UNCHANGED <<pc, exit, editor, raw, keys, net>>

ServerSends ==
  /\ ~lost /\ pc # "connect" /\ exit = "none"
  /\ incoming < MaxText
  /\ incoming' = incoming + 1
  /\ UNCHANGED <<pc, exit, editor, tty, lost, sent, taken>>

ServerReads ==
  /\ ~lost /\ exit = "none" /\ taken < Len(sent)
  /\ taken' = taken + 1
  /\ UNCHANGED <<pc, exit, editor, tty, incoming, lost, sent>>

ServerCloses ==
  /\ ~lost /\ pc # "connect" /\ exit = "none"
  /\ lost' = TRUE
  /\ UNCHANGED <<pc, exit, editor, tty, incoming, sent, taken>>

-----------------------------------------------------------------------------
Init ==
  /\ pc = "connect" /\ exit = "none"
  /\ ibuf = [i \in Indices |-> JUNK]
  /\ len \in InitialLens /\ first = len /\ outside = {}
  /\ buf = <<>> /\ j = 1 /\ typed = <<>>
  /\ raw = FALSE /\ keys = <<>> /\ eof = FALSE
  /\ incoming = 0 /\ lost = FALSE
  /\ sent = <<>> /\ taken = 0

Client ==
  \/ Connect \/ SetRawMode \/ Select \/ ReadServer \/ ReadStdin
  \/ FeedChar \/ FeedDone \/ Send

Environment ==
  \/ \E c \in Chars \cup {DEL, "\r"} : Press(c)
  \/ CloseInput \/ ServerSends \/ ServerReads \/ ServerCloses

Exited == exit # "none" /\ UNCHANGED vars

Next == Client \/ Environment \/ Exited

Spec == Init /\ [][Next]_vars

(* The client runs, and the server reads what it is sent. *)
FairSpec == Spec /\ WF_vars(Client) /\ WF_vars(ServerReads)

-----------------------------------------------------------------------------
(* Properties. *)

(* Every variable holds a value of its type, and the length never grows past the
   buffer. *)
TypeOK ==
  /\ pc \in {"connect", "rawmode", "select", "server", "stdin", "feed", "send"}
  /\ exit \in {"none", "connect", "lost", "sigpipe", "corrupt"}
  /\ ibuf \in [Indices -> Chars \cup {"\n", JUNK}]
  /\ len \in Int /\ first \in Int /\ (len <= first \/ len <= IB_MAX)
  /\ outside \in SUBSET (Nat \X Int)
  /\ buf \in Seq(Keys) /\ j \in Nat \ {0} /\ typed \in Seq(Keys) /\ keys \in Seq(Keys)
  /\ raw \in BOOLEAN /\ eof \in BOOLEAN /\ lost \in BOOLEAN
  /\ incoming \in Nat
  /\ sent \in Seq(Seq(Chars \cup {"\n", JUNK}))
  /\ taken \in Nat

(* No character is stored outside the buffer, but in front of it by the first line,
   and only if the length began negative: whatever is typed, deleted and refused
   afterwards, the line after the first Enter starts inside. *)
StoresWithin ==
  \A o \in outside :
    /\ first < 0 /\ o[2] \in first .. -1
    /\ \A p \in 1 .. o[1] : typed[p] # "\r"

(* The keys of the n-th line that ends with Enter. *)
Enters(s) == {p \in 1 .. Len(s) : s[p] = "\r"}
EndOf(s, n) == Nth(Enters(s), n)
StartOf(s, n) == IF n = 1 THEN 1 ELSE EndOf(s, n - 1) + 1

(* A character survives unless what follows it on the line has, at some point,
   more deletions than characters. *)
Count(s, S, from, to) == Cardinality({p \in from .. to : s[p] \in S})
Survives(s, p, to) ==
  \A q \in p .. to : Count(s, {DEL}, p + 1, q) <= Count(s, Chars, p + 1, q)
Kept(s, from, to) == {p \in from .. to : s[p] \in Chars /\ Survives(s, p, to)}
Edited(s, n) == Subsequence(s, Kept(s, StartOf(s, n), EndOf(s, n)))
Fits(s, n) == Count(s, Chars, StartOf(s, n), EndOf(s, n)) < IB_MAX

(* No more than the buffer goes to the server in one message, and a message ends the
   line unless the line did not fit.  Only the first line depends on what the buffer
   began with. *)
LinesBounded ==
  \A n \in 1 .. Len(sent) :
    n > 1 \/ first = 0 =>
      /\ Len(sent[n]) <= IB_MAX
      /\ Len(sent[n]) < IB_MAX => sent[n] # <<>> /\ sent[n][Len(sent[n])] = "\n"

(* Each line goes to the server as the user edited it, however the keys were cut
   into reads and whatever came from the server or was still in the way of write()
   meanwhile; of a line that does not fit no more than the buffer goes.  Lines typed
   after the server closed are not counted. *)
LinesAsTyped ==
  /\ LinesBounded
  /\ \A n \in 1 .. Len(sent) :
       (n > 1 \/ first = 0) /\ Fits(typed, n) => sent[n] = Append(Edited(typed, n), "\n")

(* A client whose server is gone ends, even if it is writing, or its own input is
   closed. *)
LossNoticed == lost ~> exit # "none"

(* What the user types is read once the server falls silent, although the server
   comes first; without its silence the client may never look at the keyboard. *)
TypedRead == <>[](incoming = 0) => (keys # <<>> ~> exit # "none" \/ keys = <<>>)
=============================================================================
