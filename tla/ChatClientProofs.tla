--------------------------- MODULE ChatClientProofs ---------------------------
(***************************************************************************)
(* Proofs, for every size of the buffer and of one read, that the line     *)
(* editor stays inside its buffer once it has cleared it, whatever length  *)
(* the buffer began with, and that each line that fits is sent as the user *)
(* edited it.                                                              *)
(***************************************************************************)
EXTENDS ChatClient, SequenceLemmas

(* The bytes a buffer holds, and what write() takes. *)
Bytes == Chars \cup {"\n", JUNK}

(* The buffer was cleared: by luck at the start, else by the first line sent. *)
Cleared == first = 0 \/ sent # <<>>

(* What LinesBounded follows from: in a buffer that was cleared the length is that
   of a line, and a line about to be sent ends in a newline if it could take one. *)
EditorInv ==
  /\ TypeOK
  /\ Cleared =>
       /\ len \in 0 .. IB_MAX
       /\ pc = "send" /\ len < IB_MAX => len > 0 /\ ibuf[len - 1] = "\n"
  /\ LinesBounded

LEMMA EditorInit == Init => EditorInv
<1> SUFFICES ASSUME Init PROVE EditorInv
  OBVIOUS
<1>1. first \in Int /\ len = first /\ outside \in SUBSET (Nat \X Int)
  BY ClientAssumption DEF Init
<1>2. sent = <<>> /\ Len(sent) = 0 /\ pc = "connect"
  BY DEF Init
<1>3. TypeOK
  <2>1. <<>> \in Seq(Keys) /\ <<>> \in Seq(Seq(Chars \cup {"\n", JUNK}))
    BY EmptySeq
  <2>2. ibuf \in [Indices -> Chars \cup {"\n", JUNK}]
    BY DEF Init
  <2>3. /\ pc = "connect" /\ exit = "none"
        /\ j \in Nat \ {0} /\ incoming \in Nat /\ taken \in Nat
    BY DEF Init
  <2>5. raw \in BOOLEAN /\ eof \in BOOLEAN /\ lost \in BOOLEAN
    BY Zenon DEF Init
  <2>4. /\ buf \in Seq(Keys) /\ typed \in Seq(Keys) /\ keys \in Seq(Keys)
        /\ sent \in Seq(Seq(Chars \cup {"\n", JUNK}))
    BY <2>1 DEF Init
  <2>6. len <= first \/ len <= IB_MAX
    BY <1>1
  <2> QED
    BY <1>1, <2>2, <2>3, <2>4, <2>5, <2>6, Zenon DEF TypeOK
<1>4. Cleared => len \in 0 .. IB_MAX
  BY <1>1, <1>2, ClientAssumption DEF Cleared
<1> QED
  BY <1>2, <1>3, <1>4 DEF EditorInv, LinesBounded

(* Where the buffer and what was sent stay the same, and no line is about to be sent
   that was not, the rest of the invariant stays. *)
LEMMA EditorFrame ==
  ASSUME EditorInv, TypeOK', UNCHANGED <<ibuf, len, first, sent>>,
         pc' = "send" => pc = "send"
  PROVE  EditorInv'
BY DEF EditorInv, Cleared, LinesBounded

(* What main() does besides editing and sending. *)
LEMMA LoopStep ==
  ASSUME EditorInv, Connect \/ SetRawMode \/ Select \/ ReadServer \/ ReadStdin \/ FeedDone
  PROVE  EditorInv'
<1>1. TypeOK
  BY DEF EditorInv
<1>2. UNCHANGED <<ibuf, len, first, outside, sent, taken, typed, eof, lost>>
  BY DEF Connect, SetRawMode, Select, ReadServer, ReadStdin, FeedDone, editor, ib, tty, net
<1>3. <<>> \in Seq(Keys)
  BY EmptySeq
<1>4. /\ pc' \in {"connect", "rawmode", "select", "server", "stdin", "feed"} \/ pc' = pc
      /\ exit' \in {"connect", "lost"} \/ exit' = exit
  BY DEF Connect, SetRawMode, Select, ReadServer, ReadStdin, FeedDone
<1>5. raw' \in BOOLEAN
  BY <1>1 DEF TypeOK, Connect, SetRawMode, Select, ReadServer, ReadStdin, FeedDone, tty
<1>6. incoming' \in Nat
  <2>1. CASE ReadServer
    BY <1>1, <2>1 DEF TypeOK, ReadServer
  <2>2. CASE Connect \/ SetRawMode \/ Select \/ ReadStdin \/ FeedDone
    BY <1>1, <2>2 DEF TypeOK, Connect, SetRawMode, Select, ReadStdin, FeedDone, net
  <2> QED
    BY <2>1, <2>2
<1>7. keys' \in Seq(Keys) /\ buf' \in Seq(Keys) /\ j' \in Nat \ {0}
  <2>1. CASE ReadStdin
    <3>1. PICK n \in 0 .. Len(keys) :
            buf' = SubSeq(keys, 1, n) /\ keys' = SubSeq(keys, n + 1, Len(keys))
      BY <2>1 DEF ReadStdin
    <3>2. Len(keys) \in Nat /\ keys \in Seq(Keys)
      BY <1>1 DEF TypeOK
    <3>3. SubSeq(keys, 1, n) \in Seq(Keys) /\ SubSeq(keys, n + 1, Len(keys)) \in Seq(Keys)
      BY <3>2
    <3> QED
      BY <2>1, <3>1, <3>3 DEF ReadStdin
  <2>2. CASE Connect \/ SetRawMode \/ Select \/ ReadServer \/ FeedDone
    <3>1. /\ keys' = keys \/ keys' = <<>>
          /\ (buf' = buf /\ j' = j) \/ (buf' = <<>> /\ j' = 1)
      BY <2>2 DEF Connect, SetRawMode, Select, ReadServer, FeedDone, editor, tty
    <3>2. keys \in Seq(Keys) /\ buf \in Seq(Keys) /\ j \in Nat \ {0}
      BY <1>1 DEF TypeOK
    <3>3. 1 \in Nat \ {0}
      OBVIOUS
    <3> QED
      BY <1>3, <3>1, <3>2, <3>3, Zenon
  <2> QED
    BY <2>1, <2>2
<1>8. TypeOK'
  BY <1>1, <1>2, <1>4, <1>5, <1>6, <1>7 DEF TypeOK
<1> QED
  BY <1>2, <1>4, <1>8, EditorFrame

(* A character goes into the buffer only where it belongs; elsewhere it is accounted for. *)
LEMMA AppendType ==
  ASSUME TypeOK, NEW c \in Chars \cup {"\n"}, Append1(c)
  PROVE  /\ ibuf' \in [Indices -> Bytes] /\ len' \in Int
         /\ len' <= first \/ len' <= IB_MAX
         /\ outside' \in SUBSET (Nat \X Int)
         /\ exit' \in {exit, "corrupt"}
         /\ len \in 0 .. IB_MAX => len' \in 0 .. IB_MAX
         /\ len \in 0 .. IB_MAX /\ len' < IB_MAX => len' > 0 /\ ibuf'[len' - 1] = c
<1> USE ClientAssumption
<1>0. /\ len \in Int /\ (len <= first \/ len <= IB_MAX) /\ ibuf \in [Indices -> Bytes]
      /\ outside \in SUBSET (Nat \X Int) /\ Len(typed) \in Nat
  BY DEF TypeOK, Bytes
<1>1. CASE len >= IB_MAX /\ UNCHANGED <<ib, outside, exit>>
  <2>1. ibuf' = ibuf /\ len' = len /\ outside' = outside /\ exit' = exit
    BY <1>1 DEF ib
  <2> QED
    BY <1>0, <1>1, <2>1
<1>2. CASE len < IB_MAX /\ Store(c) /\ len' = len + 1
  <2>1. exit' \in {exit, "corrupt"} /\ len' \in Int /\ len' <= IB_MAX
    BY <1>0, <1>2 DEF Store
  <2>2. CASE len \in Indices
    <3>1. ibuf' = [ibuf EXCEPT ![len] = c] /\ outside' = outside
      BY <1>2, <2>2 DEF Store
    <3>2. ibuf' \in [Indices -> Bytes] /\ ibuf'[len] = c
      BY <1>0, <2>2, <3>1 DEF Bytes
    <3> QED
      BY <1>0, <1>2, <2>1, <2>2, <3>1, <3>2 DEF Indices
  <2>3. CASE len \notin Indices
    <3>1. outside' = outside \cup {<<Len(typed), len>>} /\ ibuf' = ibuf
      BY <1>2, <2>3 DEF Store
    <3>2. len \notin 0 .. IB_MAX
      BY <1>0, <1>2, <2>3 DEF Indices
    <3> QED
      BY <1>0, <2>1, <3>1, <3>2
  <2> QED
    BY <2>2, <2>3
<1> QED
  BY <1>1, <1>2 DEF Append1

LEMMA FeedStep ==
  ASSUME EditorInv, FeedChar
  PROVE  EditorInv'
<1> DEFINE c == buf[j]
<1>1. TypeOK
  BY DEF EditorInv
<1>2. /\ pc = "feed" /\ j <= Len(buf) /\ typed' = Append(typed, c)
      /\ UNCHANGED <<buf, first, raw, keys, eof, incoming, lost, sent, taken>>
  BY DEF FeedChar, At, tty, net
<1>3. c \in Keys
  BY <1>1, <1>2 DEF TypeOK
<1>4. IF c = "\r" THEN pc' = "send" /\ j' = j ELSE j' = j + 1 /\ pc' = pc
  BY DEF FeedChar
<1>5. /\ ibuf' \in [Indices -> Bytes] /\ len' \in Int /\ exit' \in {exit, "corrupt"}
      /\ (len' <= first \/ len' <= IB_MAX) /\ outside' \in SUBSET (Nat \X Int)
      /\ len \in 0 .. IB_MAX =>
           /\ len' \in 0 .. IB_MAX
           /\ c = "\r" /\ len' < IB_MAX => len' > 0 /\ ibuf'[len' - 1] = "\n"
  <2>1. CASE c = "\n" /\ UNCHANGED <<ib, outside, exit>>
    BY <1>1, <2>1 DEF TypeOK, ib, Bytes
  <2>2. CASE c = DEL /\ Delete
    <3>1. c # "\r"
      BY <2>2, ClientAssumption
    <3> HIDE DEF c
    <3> QED
      BY <1>1, <2>2, <3>1, ClientAssumption DEF TypeOK, Delete, Bytes
  <2>3. CASE c \in Chars /\ Append1(c)
    <3>1. c # "\r"
      BY <2>3, ClientAssumption
    <3> HIDE DEF c
    <3> QED
      BY <1>1, <2>3, <3>1, AppendType
  <2>4. CASE c = "\r" /\ Append1("\n")
    BY <1>1, <2>4, AppendType
  <2> QED
    BY <2>1, <2>2, <2>3, <2>4 DEF FeedChar
<1>6. TypeOK'
  <2>1. typed' \in Seq(Keys)
    <3> HIDE DEF c
    <3> QED
      BY <1>1, <1>2, <1>3 DEF TypeOK
  <2>2. j' \in Nat \ {0}
    BY <1>1, <1>4 DEF TypeOK
  <2> QED
    BY <1>1, <1>2, <1>4, <1>5, <2>1, <2>2 DEF TypeOK, Bytes
<1>7. Cleared' = Cleared /\ LinesBounded'
  BY <1>2 DEF Cleared, EditorInv, LinesBounded
<1>8. pc' = "send" => c = "\r"
  BY <1>2, <1>4
<1> QED
  BY <1>5, <1>6, <1>7, <1>8 DEF EditorInv

(* write() takes the buffer's length in bytes of the buffer. *)
LEMMA ContentsType ==
  ASSUME TypeOK
  PROVE  /\ Contents \in Seq(Bytes)
         /\ len \in 0 .. IB_MAX => Len(Contents) = len
         /\ len \in 1 .. IB_MAX => Contents[len] = ibuf[len - 1]
<1>0. len \in Int /\ IB_MAX \in Nat
  BY ClientAssumption DEF TypeOK
<1>1. CASE len \in Nat
  <2>1. Contents \in [1 .. len -> Bytes]
    <3> SUFFICES ASSUME NEW i \in 1 .. len
                 PROVE  (IF i <= IB_MAX THEN ibuf[i - 1] ELSE JUNK) \in Bytes
      BY DEF Contents
    <3>1. CASE i <= IB_MAX
      BY <1>0, <3>1 DEF TypeOK, Indices, Bytes
    <3>2. CASE i > IB_MAX
      BY <1>0, <3>2 DEF Bytes
    <3> QED
      BY <1>0, <3>1, <3>2
  <2>2. Contents \in Seq(Bytes) /\ Len(Contents) = len
    BY <1>1, <2>1, IsASeq, LenProperties, SeqDef
  <2>3. len \in 1 .. IB_MAX => Contents[len] = ibuf[len - 1]
    BY <1>0 DEF Contents
  <2> QED
    BY <2>2, <2>3
<1>2. CASE len < 0
  <2>1. 1 .. len = 1 .. 0
    BY <1>0, <1>2
  <2>2. Contents \in [1 .. 0 -> Bytes]
    BY <2>1, <1>0, <1>2 DEF Contents
  <2>3. Contents \in Seq(Bytes)
    BY <2>2, SeqDef
  <2> QED
    BY <1>0, <1>2, <2>3
<1> QED
  BY <1>0, <1>1, <1>2

LEMMA SendStep ==
  ASSUME EditorInv, Send
  PROVE  EditorInv'
<1>1. TypeOK
  BY DEF EditorInv
<1>2. /\ pc = "send" /\ pc' = "feed" /\ len' = 0 /\ j' = j + 1
      /\ exit' \in {"none", "sigpipe"} \/ exit' = exit
      /\ sent' = sent \/ sent' = Append(sent, Contents)
      /\ UNCHANGED <<ibuf, buf, typed, first, outside, raw, keys, eof, incoming, lost, taken>>
  BY DEF Send, At, inputBufferClear, tty
<1>3. Contents \in Seq(Bytes)
  BY <1>1, ContentsType
<1>4. sent \in Seq(Seq(Bytes))
  BY <1>1 DEF TypeOK, Bytes
<1> HIDE DEF Contents
<1>5. TypeOK'
  <2>1. sent' \in Seq(Seq(Bytes))
    <3>1. PICK B, e : B = Seq(Bytes) /\ e = Contents /\ e \in B /\ sent \in Seq(B)
      BY <1>3, <1>4
    <3>2. Append(sent, e) \in Seq(B)
      BY <3>1
    <3> QED
      BY <1>2, <3>1, <3>2
  <2>2. /\ pc' \in {"connect", "rawmode", "select", "server", "stdin", "feed", "send"}
        /\ exit' \in {"none", "connect", "lost", "sigpipe", "corrupt"} /\ len' \in Int
        /\ len' <= IB_MAX
    BY <1>1, <1>2, ClientAssumption DEF TypeOK
  <2>3. j' \in Nat \ {0}
    BY <1>1, <1>2 DEF TypeOK
  <2> QED
    BY <1>1, <1>2, <2>1, <2>2, <2>3 DEF TypeOK, Bytes
<1>6. LinesBounded'
  <2>1. CASE sent' = sent
    BY <1>2, <2>1 DEF EditorInv, LinesBounded
  <2>2. CASE sent' = Append(sent, Contents)
    <3> SUFFICES ASSUME NEW n \in 1 .. Len(sent'), n > 1 \/ first' = 0
                 PROVE  /\ Len(sent'[n]) <= IB_MAX
                        /\ Len(sent'[n]) < IB_MAX =>
                             sent'[n] # <<>> /\ sent'[n][Len(sent'[n])] = "\n"
      BY DEF LinesBounded
    <3>1. /\ Len(sent) \in Nat /\ Len(sent') = Len(sent) + 1
          /\ sent'[Len(sent) + 1] = Contents
          /\ \A m \in 1 .. Len(sent) : sent'[m] = sent[m]
      BY <1>3, <1>4, <2>2
    <3>2. CASE n \in 1 .. Len(sent)
      BY <1>2, <3>1, <3>2 DEF EditorInv, LinesBounded
    <3>3. CASE n = Len(sent) + 1
      <4>1. Cleared
        BY <1>2, <3>1, <3>3 DEF Cleared
      <4>2. len \in 0 .. IB_MAX /\ (len < IB_MAX => len > 0 /\ ibuf[len - 1] = "\n")
        BY <1>2, <4>1 DEF EditorInv
      <4>3. Len(Contents) = len /\ (len \in 1 .. IB_MAX => Contents[len] = ibuf[len - 1])
        BY <1>1, <4>2, ContentsType
      <4>4. len > 0 => Contents # <<>>
        BY <4>3
      <4> QED
        BY <3>1, <3>3, <4>2, <4>3, <4>4, ClientAssumption
    <3> QED
      BY <3>1, <3>2, <3>3
  <2> QED
    BY <1>2, <2>1, <2>2
<1> QED
  BY <1>2, <1>5, <1>6, ClientAssumption DEF EditorInv

(* The user and the server leave the editor alone. *)
LEMMA EnvironmentStep ==
  ASSUME EditorInv, Environment
  PROVE  EditorInv'
<1>1. TypeOK
  BY DEF EditorInv
<1>2. UNCHANGED <<pc, exit, ibuf, len, buf, j, typed, first, outside, raw, sent>>
  BY DEF Environment, Press, CloseInput, ServerSends, ServerReads, ServerCloses, editor, ib,
         tty, net
<1>3. keys' \in Seq(Keys)
  <2>1. CASE \E c \in Chars \cup {DEL, "\r"} : Press(c)
    <3>1. \E k \in Keys : keys' = Append(keys, k)
      BY <2>1 DEF Press, Keys
    <3> QED
      BY <1>1, <3>1 DEF TypeOK
  <2>2. CASE CloseInput \/ ServerSends \/ ServerReads \/ ServerCloses
    BY <1>1, <2>2 DEF TypeOK, CloseInput, ServerSends, ServerReads, ServerCloses, tty
  <2> QED
    BY <2>1, <2>2 DEF Environment
<1>4. eof' \in BOOLEAN /\ lost' \in BOOLEAN /\ incoming' \in Nat /\ taken' \in Nat
  <2>1. /\ eof' = eof \/ eof' = TRUE
        /\ lost' = lost \/ lost' = TRUE
        /\ incoming' = incoming \/ incoming' = incoming + 1
        /\ taken' = taken \/ taken' = taken + 1
    BY DEF Environment, Press, CloseInput, ServerSends, ServerReads, ServerCloses, tty, net
  <2>2. incoming \in Nat /\ taken \in Nat
    BY <1>1 DEF TypeOK
  <2>3. incoming' \in Nat /\ taken' \in Nat
    BY <2>1, <2>2
  <2> QED
    BY <1>1, <2>1, <2>3 DEF TypeOK
<1>5. TypeOK'
  BY <1>1, <1>2, <1>3, <1>4 DEF TypeOK
<1> QED
  BY <1>2, <1>5, EditorFrame

LEMMA EditorStep == EditorInv /\ [Next]_vars => EditorInv'
<1> SUFFICES ASSUME EditorInv, [Next]_vars PROVE EditorInv'
  OBVIOUS
<1>1. CASE Client
  BY <1>1, LoopStep, FeedStep, SendStep DEF Client
<1>2. CASE Environment
  BY <1>2, EnvironmentStep
<1>3. CASE UNCHANGED vars
  <2>1. UNCHANGED <<pc, exit, ibuf, len, buf, j, typed, first, outside, raw, keys, eof,
                    incoming, lost, sent, taken>>
    BY <1>3 DEF vars, editor, ib, tty, net
  <2> QED
    BY <2>1 DEF EditorInv, TypeOK, Cleared, LinesBounded
<1> QED
  BY <1>1, <1>2, <1>3 DEF Next, Exited

(* Where the stores outside the buffer come from: a length that began negative grows
   until the first Enter, whose line is sent and cleared before another key. *)
NoEnter(s, n) == \A p \in 1 .. n : s[p] # "\r"
InFront(o, s) == first < 0 /\ o[2] \in first .. -1 /\ o[1] <= Len(s) /\ NoEnter(s, o[1])
StoresInv ==
  /\ \A o \in outside : InFront(o, typed)
  /\ len < 0 => first <= len /\ (pc # "send" => NoEnter(typed, Len(typed)))

LEMMA StoresInit == Init => StoresInv
<1> SUFFICES ASSUME Init PROVE StoresInv
  OBVIOUS
<1>1. len = first /\ first \in Int /\ outside = {} /\ Len(typed) = 0
  BY ClientAssumption DEF Init
<1> QED
  BY <1>1 DEF StoresInv, NoEnter

(* One key more. *)
LEMMA StoresFeed ==
  ASSUME TypeOK, StoresInv, FeedChar
  PROVE  StoresInv'
<1>1. /\ len \in Int /\ first \in Int /\ outside \in SUBSET (Nat \X Int)
      /\ typed \in Seq(Keys) /\ IB_MAX \in Nat
  BY ClientAssumption DEF TypeOK
<1>2. PICK c \in Keys :
         /\ typed' = Append(typed, c)
         /\ \/ c = "\n" /\ UNCHANGED <<ib, outside, exit>>
            \/ c = DEL /\ Delete
            \/ c \in Chars /\ Append1(c)
            \/ c = "\r" /\ Append1("\n")
         /\ c = "\r" => pc' = "send"
  <2>1. buf[j] \in Keys
    BY DEF TypeOK, FeedChar
  <2> QED
    BY <2>1 DEF FeedChar, At
<1>3. first' = first /\ pc = "feed"
  BY DEF FeedChar, At
<1>4. /\ Len(typed) \in Nat /\ Len(typed') = Len(typed) + 1 /\ typed'[Len(typed) + 1] = c
      /\ \A p \in 1 .. Len(typed) : typed'[p] = typed[p]
  BY <1>1, <1>2
<1>5. /\ outside' = outside \/ (len < 0 /\ outside' = outside \cup {<<Len(typed), len>>})
      /\ len' \in Int /\ (len' < 0 => len < 0 /\ len <= len')
  <2>1. CASE UNCHANGED <<ib, outside, exit>>
    BY <1>1, <2>1 DEF ib
  <2>2. CASE Delete
    BY <1>1, <2>2 DEF Delete
  <2>3. ASSUME NEW d, Append1(d)
        PROVE  /\ outside' = outside \/ (len < 0 /\ outside' = outside \cup {<<Len(typed), len>>})
               /\ len' \in Int /\ (len' < 0 => len < 0 /\ len <= len')
    <3>1. CASE len >= IB_MAX /\ UNCHANGED <<ib, outside, exit>>
      BY <1>1, <3>1 DEF ib
    <3>2. CASE len < IB_MAX /\ Store(d) /\ len' = len + 1
      <4>1. \/ outside' = outside
            \/ len \notin Indices /\ outside' = outside \cup {<<Len(typed), len>>}
        BY <3>2 DEF Store
      <4>2. len \notin Indices => len < 0
        BY <1>1, <3>2 DEF Indices
      <4>3. len' \in Int /\ (len' < 0 => len < 0 /\ len <= len')
        BY <1>1, <3>2
      <4> QED
        BY <4>1, <4>2, <4>3, Zenon
    <3> QED
      BY <2>3, <3>1, <3>2 DEF Append1
  <2> QED
    BY <1>2, <2>1, <2>2, <2>3, Zenon
<1>6. ASSUME NEW n \in Nat, n <= Len(typed), NoEnter(typed, n)
      PROVE  NoEnter(typed', n)
  BY <1>4, <1>6 DEF NoEnter
<1>7. len < 0 => first <= len /\ NoEnter(typed, Len(typed))
  BY <1>3 DEF StoresInv
<1>8. ASSUME len' < 0, pc' # "send"
      PROVE  NoEnter(typed', Len(typed'))
  BY <1>2, <1>4, <1>5, <1>7, <1>8 DEF NoEnter
<1>9. ASSUME NEW o \in outside'
      PROVE  InFront(o, typed)'
  <2>1. CASE o \in outside
    <3>1. InFront(o, typed) /\ o[1] \in Nat
      BY <1>1, <2>1 DEF StoresInv
    <3>2. NoEnter(typed', o[1])
      BY <1>6, <3>1 DEF InFront
    <3> QED
      BY <1>3, <1>4, <3>1, <3>2 DEF InFront
  <2>2. CASE o \notin outside
    <3>1. len < 0 /\ o = <<Len(typed), len>>
      BY <1>5, <1>9, <2>2
    <3>2. NoEnter(typed', Len(typed)) /\ first <= len
      BY <1>4, <1>6, <1>7, <3>1
    <3> QED
      BY <1>1, <1>3, <1>4, <3>1, <3>2 DEF InFront
  <2> QED
    BY <2>1, <2>2
<1>10. len' < 0 => first' <= len'
  BY <1>1, <1>3, <1>5, <1>7
<1> QED
  BY <1>8, <1>9, <1>10 DEF StoresInv

(* The rest stores nothing, and a line sent is cleared. *)
LEMMA StoresFrame ==
  ASSUME StoresInv, UNCHANGED <<first, outside, typed>>,
         len' = 0 \/ (len' = len /\ (pc' = "send" <=> pc = "send"))
  PROVE  StoresInv'
BY DEF StoresInv, InFront

LEMMA StoresStep == EditorInv /\ StoresInv /\ [Next]_vars => StoresInv'
<1> SUFFICES ASSUME EditorInv, StoresInv, [Next]_vars PROVE StoresInv'
  OBVIOUS
<1>1. CASE FeedChar
  BY <1>1, StoresFeed DEF EditorInv
<1>2. CASE Send
  BY <1>2, StoresFrame DEF Send, inputBufferClear
<1>3. CASE Connect \/ SetRawMode \/ Select \/ ReadServer \/ ReadStdin \/ FeedDone
  <2>1. UNCHANGED <<len, typed, first, outside>> /\ pc # "send" /\ pc' # "send"
    BY <1>3 DEF Connect, SetRawMode, Select, ReadServer, ReadStdin, FeedDone, At, editor, ib
  <2> QED
    BY <2>1, StoresFrame
<1>4. CASE Environment \/ UNCHANGED vars
  <2>1. UNCHANGED <<pc, len, typed, first, outside>>
    BY <1>4 DEF Environment, Press, CloseInput, ServerSends, ServerReads, ServerCloses, vars,
                editor, ib
  <2> QED
    BY <2>1, StoresFrame
<1> QED
  BY <1>1, <1>2, <1>3, <1>4 DEF Next, Client, Exited

-----------------------------------------------------------------------------
(* Lemmas about the keys of a line. *)

(* One more key counts if it is of the kind that is counted. *)
LEMMA CountNext ==
  ASSUME NEW s, NEW S, NEW a \in Nat, NEW m \in Nat, NEW n \in Nat, n - m = 1, a <= n, a > 0
  PROVE  /\ Count(s, S, a, m) \in Nat
         /\ s[n] \in S => Count(s, S, a, n) = Count(s, S, a, m) + 1
         /\ s[n] \notin S => Count(s, S, a, n) = Count(s, S, a, m)
<1> DEFINE C(to) == {p \in a .. to : s[p] \in S}
<1>1. C(m) \in SUBSET (1 .. m)
  OBVIOUS
<1>2. IsFiniteSet(C(m)) /\ Cardinality(C(m)) \in Nat /\ n \notin C(m)
  <2>1. n \notin C(m)
    OBVIOUS
  <2> HIDE DEF C
  <2> QED
    BY <1>1, <2>1, IndicesFinite
<1>3. s[n] \in S => C(n) = C(m) \cup {n}
  OBVIOUS
<1>4. s[n] \notin S => C(n) = C(m)
  OBVIOUS
<1>5. Count(s, S, a, m) = Cardinality(C(m)) /\ Count(s, S, a, n) = Cardinality(C(n))
  BY DEF Count
<1> HIDE DEF C
<1>6. Cardinality(C(m) \cup {n}) = Cardinality(C(m)) + 1
  BY <1>2, FS_AddElement
<1> QED
  BY <1>2, <1>3, <1>4, <1>5, <1>6

(* What is counted depends on the keys between the two places alone. *)
LEMMA CountSame ==
  ASSUME NEW s, NEW t, NEW S, NEW a \in Nat, NEW n \in Nat, \A p \in a .. n : s[p] = t[p]
  PROVE  Count(s, S, a, n) = Count(t, S, a, n)
<1>1. {p \in a .. n : s[p] \in S} = {p \in a .. n : t[p] \in S}
  OBVIOUS
<1> QED
  BY <1>1 DEF Count

(* So does what is kept. *)
LEMMA KeptSame ==
  ASSUME NEW s, NEW t, NEW a \in Nat, NEW n \in Nat, \A p \in a .. n : s[p] = t[p]
  PROVE  Kept(s, a, n) = Kept(t, a, n)
<1> SUFFICES ASSUME NEW p \in a .. n PROVE Survives(s, p, n) <=> Survives(t, p, n)
  BY DEF Kept
<1> SUFFICES ASSUME NEW q \in p .. n, NEW S
             PROVE  Count(s, S, p + 1, q) = Count(t, S, p + 1, q)
  BY DEF Survives
<1>1. PICK b \in Nat : b = p + 1
  OBVIOUS
<1>2. q \in Nat /\ \A h \in b .. q : s[h] = t[h]
  BY <1>1
<1>3. Count(s, S, b, q) = Count(t, S, b, q)
  BY <1>2, CountSame
<1> QED
  BY <1>1, <1>3

(* The characters typed, and those deleted, behind the place p. *)
Typed(s, p, n) == Count(s, Chars, p + 1, n)
Deleted(s, p, n) == Count(s, {DEL}, p + 1, n)

(* The places in K behind p.  Behind a character that is kept, as many were typed as
   were deleted and are kept there together. *)
Above(K, p) == {q \in K : q > p}
Balanced(s, a, n) ==
  \A p \in Kept(s, a, n) :
    Typed(s, p, n) = Deleted(s, p, n) + Cardinality(Above(Kept(s, a, n), p))

(* How one more key decides which characters survive, and counts. *)
LEMMA SurvivesNext ==
  ASSUME NEW s, NEW a \in Nat, NEW m \in Nat, NEW n \in Nat, n - m = 1, a <= n, a > 0
  PROVE  /\ \A p \in a .. m :
              Survives(s, p, n) <=> /\ Survives(s, p, m)
                                    /\ Deleted(s, p, n) <= Typed(s, p, n)
         /\ Survives(s, n, n)
         /\ a .. n = (a .. m) \cup {n}
<1>1. a .. n = (a .. m) \cup {n}
  OBVIOUS
<1>2. \A p \in a .. m : p .. n = (p .. m) \cup {n}
  OBVIOUS
<1>3. Survives(s, n, n)
  <2>1. n .. n = {n} /\ n + 1 .. n = {}
    OBVIOUS
  <2>2. \A S : Count(s, S, n + 1, n) = 0
    BY <2>1, FS_EmptySet DEF Count
  <2> QED
    BY <2>1, <2>2 DEF Survives
<1> QED
  BY <1>1, <1>2, <1>3 DEF Survives, Typed, Deleted

(* The same behind a place that comes before the key. *)
LEMMA CountsNext ==
  ASSUME NEW s, NEW a \in Nat, NEW m \in Nat, NEW n \in Nat, n - m = 1, a > 0,
         NEW p \in a .. m
  PROVE  /\ Typed(s, p, m) \in Nat /\ Deleted(s, p, m) \in Nat
         /\ s[n] \in Chars => /\ Typed(s, p, n) = Typed(s, p, m) + 1
                              /\ Deleted(s, p, n) = Deleted(s, p, m)
         /\ s[n] = DEL => /\ Typed(s, p, n) = Typed(s, p, m)
                          /\ Deleted(s, p, n) = Deleted(s, p, m) + 1
         /\ s[n] \notin Chars /\ s[n] # DEL =>
              /\ Typed(s, p, n) = Typed(s, p, m)
              /\ Deleted(s, p, n) = Deleted(s, p, m)
         /\ Survives(s, p, m) => Deleted(s, p, m) <= Typed(s, p, m)
<1>1. PICK b \in Nat : b = p + 1
  OBVIOUS
<1>2. b <= n /\ b > 0
  BY <1>1
<1>3. DEL \notin Chars
  BY ClientAssumption
<1>4. \A S : /\ Count(s, S, b, m) \in Nat
             /\ s[n] \in S => Count(s, S, b, n) = Count(s, S, b, m) + 1
             /\ s[n] \notin S => Count(s, S, b, n) = Count(s, S, b, m)
  BY <1>2, CountNext
<1>5. Survives(s, p, m) => Deleted(s, p, m) <= Typed(s, p, m)
  <2>1. m \in p .. m
    OBVIOUS
  <2> QED
    BY <2>1 DEF Survives, Typed, Deleted
<1> QED
  BY <1>1, <1>3, <1>4, <1>5 DEF Typed, Deleted

(* What is kept is a finite set of places, and so is what lies above one of them. *)
LEMMA KeptFinite ==
  ASSUME NEW s, NEW a \in Nat, a > 0, NEW n \in Nat
  PROVE  /\ Kept(s, a, n) \in SUBSET (1 .. n) /\ IsFiniteSet(Kept(s, a, n))
         /\ Cardinality(Kept(s, a, n)) \in Nat
         /\ \A p : /\ Above(Kept(s, a, n), p) \in SUBSET (1 .. n)
                   /\ IsFiniteSet(Above(Kept(s, a, n), p))
                   /\ Cardinality(Above(Kept(s, a, n), p)) \in Nat
<1>1. Kept(s, a, n) \in SUBSET (1 .. n)
  BY DEF Kept
<1>2. \A p : Above(Kept(s, a, n), p) \in SUBSET (1 .. n)
  BY <1>1 DEF Above
<1> QED
  BY <1>1, <1>2, IndicesFinite

(* Of the characters that are kept: a character is added, ... *)
LEMMA KeptCharacter ==
  ASSUME NEW s, NEW a \in Nat, NEW m \in Nat, NEW n \in Nat, n - m = 1, a <= n, a > 0,
         Balanced(s, a, m), s[n] \in Chars
  PROVE  Kept(s, a, n) = Kept(s, a, m) \cup {n} /\ Balanced(s, a, n)
<1>1. PICK K : K = Kept(s, a, m)
  OBVIOUS
<1>2. K \in SUBSET (a .. m)
  BY <1>1 DEF Kept
<1>3. Kept(s, a, n) = K \cup {n}
  <2>1. ASSUME NEW p \in a .. m PROVE Survives(s, p, n) <=> Survives(s, p, m)
    <3>1. Survives(s, p, n) <=> /\ Survives(s, p, m)
                                /\ Deleted(s, p, n) <= Typed(s, p, n)
      BY SurvivesNext
    <3>2. /\ Typed(s, p, m) \in Nat /\ Deleted(s, p, m) \in Nat
          /\ Typed(s, p, n) = Typed(s, p, m) + 1
          /\ Deleted(s, p, n) = Deleted(s, p, m)
          /\ Survives(s, p, m) => Deleted(s, p, m) <= Typed(s, p, m)
      BY CountsNext
    <3> QED
      BY <3>1, <3>2
  <2>2. a .. n = (a .. m) \cup {n} /\ Survives(s, n, n)
    BY SurvivesNext
  <2> QED
    BY <1>1, <2>1, <2>2 DEF Kept
<1>4. ASSUME NEW p \in K
      PROVE  Typed(s, p, n)
               = Deleted(s, p, n) + Cardinality(Above(K \cup {n}, p))
  <2>1. p \in a .. m
    BY <1>2
  <2>2. Above(K \cup {n}, p) = Above(K, p) \cup {n} /\ n \notin Above(K, p)
    <3>1. n > p /\ n \notin K
      BY <1>2, <2>1
    <3> QED
      BY <3>1 DEF Above
  <2>3. IsFiniteSet(Above(K, p)) /\ Cardinality(Above(K, p)) \in Nat
    BY <1>1, KeptFinite
  <2>4. Cardinality(Above(K \cup {n}, p)) = Cardinality(Above(K, p)) + 1
    BY <2>2, <2>3, FS_AddElement
  <2>5. Typed(s, p, m) = Deleted(s, p, m) + Cardinality(Above(K, p))
    BY <1>1 DEF Balanced
  <2>6. /\ Deleted(s, p, m) \in Nat
        /\ Typed(s, p, n) = Typed(s, p, m) + 1
        /\ Deleted(s, p, n) = Deleted(s, p, m)
    BY <2>1, CountsNext
  <2> QED
    BY <2>3, <2>4, <2>5, <2>6
<1>5. Typed(s, n, n) = Deleted(s, n, n) + Cardinality(Above(K \cup {n}, n))
  <2>1. n + 1 .. n = {}
    OBVIOUS
  <2>3. Above(K \cup {n}, n) = {}
    <3>1. \A q \in K \cup {n} : ~(q > n)
      BY <1>2
    <3> QED
      BY <3>1 DEF Above
  <2>2. Typed(s, n, n) = 0 /\ Deleted(s, n, n) = 0
    BY <2>1, FS_EmptySet DEF Count, Typed, Deleted
  <2>4. Cardinality(Above(K \cup {n}, n)) = 0
    BY <2>3, FS_EmptySet
  <2> QED
    BY <2>2, <2>4
<1> QED
  BY <1>1, <1>3, <1>4, <1>5 DEF Balanced

(* ... a deletion takes the last of them, ... *)
LEMMA KeptDelete ==
  ASSUME NEW s, NEW a \in Nat, NEW m \in Nat, NEW n \in Nat, n - m = 1, a <= n, a > 0,
         Balanced(s, a, m), s[n] = DEL
  PROVE  /\ Kept(s, a, n) = {p \in Kept(s, a, m) : Above(Kept(s, a, m), p) # {}}
         /\ Balanced(s, a, n)
<1>1. PICK K : K = Kept(s, a, m)
  OBVIOUS
<1>2. K \in SUBSET (a .. m) /\ K \in SUBSET (1 .. m)
  BY <1>1 DEF Kept
<1>3. \A p \in K : IsFiniteSet(Above(K, p)) /\ Cardinality(Above(K, p)) \in Nat
  BY <1>1, KeptFinite
<1>4. \A p \in K :
        Typed(s, p, m) = Deleted(s, p, m) + Cardinality(Above(K, p))
  BY <1>1 DEF Balanced
<1>5. PICK L : L = {p \in K : Above(K, p) # {}}
  OBVIOUS
<1>6. Kept(s, a, n) = L
  <2>1. ASSUME NEW p \in K PROVE Survives(s, p, n) <=> Above(K, p) # {}
    <3>1. p \in a .. m /\ Survives(s, p, m)
      BY <1>1, <1>2 DEF Kept
    <3>4. Survives(s, p, n) <=> Deleted(s, p, n) <= Typed(s, p, n)
      BY <3>1, SurvivesNext
    <3>5. /\ Deleted(s, p, m) \in Nat
          /\ Typed(s, p, n) = Typed(s, p, m)
          /\ Deleted(s, p, n) = Deleted(s, p, m) + 1
      BY <3>1, CountsNext
    <3>6. Typed(s, p, m) = Deleted(s, p, m) + Cardinality(Above(K, p))
      BY <1>4
    <3>2. Survives(s, p, n) <=> Cardinality(Above(K, p)) >= 1
      BY <1>3, <3>4, <3>5, <3>6
    <3>3. Cardinality(Above(K, p)) = 0 <=> Above(K, p) = {}
      BY <1>3, FS_EmptySet
    <3> QED
      BY <1>3, <3>2, <3>3
  <2>2. \A p \in a .. m : Survives(s, p, n) => Survives(s, p, m)
    BY SurvivesNext
  <2>3. s[n] \notin Chars
    BY ClientAssumption
  <2>5. a .. n = (a .. m) \cup {n}
    BY SurvivesNext
  <2>4. Kept(s, a, n) = {p \in K : Survives(s, p, n)}
    BY <1>1, <2>2, <2>3, <2>5 DEF Kept
  <2> QED
    BY <1>5, <2>1, <2>4
<1>7. ASSUME NEW p \in L
      PROVE  Typed(s, p, n) = Deleted(s, p, n) + Cardinality(Above(L, p))
  <2>1. p \in K /\ p \in a .. m /\ Above(K, p) # {}
    BY <1>2, <1>5
  <2>2. PICK top \in Above(K, p) : \A h \in Above(K, p) : h <= top
    <3>1. Above(K, p) \in SUBSET (1 .. m)
      BY <1>2 DEF Above
    <3> QED
      BY <2>1, <3>1, LargestExists
  <2>3. Above(L, p) = Above(K, p) \ {top}
    <3>1. top \in K /\ top > p /\ \A h \in K : h > p => h <= top
      BY <2>2 DEF Above
    <3>2. \A h \in K : h > top => h > p
      BY <1>2, <2>1, <3>1
    <3>3. Above(K, top) = {}
      <4>1. \A h \in K : ~(h > top)
        BY <1>2, <3>1, <3>2
      <4> QED
        BY <4>1 DEF Above
    <3>4. top \notin L
      BY <1>5, <3>3
    <3>5. ASSUME NEW h \in K, h > p, h # top PROVE h \in L
      <4>1. h <= top
        BY <3>1, <3>5
      <4>2. top > h
        BY <1>2, <3>1, <3>5, <4>1
      <4>3. top \in Above(K, h)
        BY <3>1, <4>2 DEF Above
      <4> QED
        BY <1>5, <4>3
    <3>6. L \subseteq K
      BY <1>5
    <3>7. \A h \in L : h > p => h \in K /\ h # top
      BY <3>4, <3>6
    <3>8. Above(L, p) = {h \in L : h > p} /\ Above(K, p) = {h \in K : h > p}
      BY DEF Above
    <3>9. \A h \in Above(L, p) : h \in Above(K, p) \ {top}
      BY <3>7, <3>8
    <3>10. \A h \in Above(K, p) \ {top} : h \in Above(L, p)
      BY <3>5, <3>8
    <3> QED
      BY <3>9, <3>10
  <2>4. Cardinality(Above(L, p)) = Cardinality(Above(K, p)) - 1
    <3>1. PICK A : A = Above(K, p) /\ IsFiniteSet(A) /\ top \in A
      BY <1>3, <2>1, <2>2
    <3>2. Cardinality(A \ {top}) = Cardinality(A) - 1
      BY <3>1, FS_RemoveElement
    <3> QED
      BY <2>3, <3>1, <3>2
  <2>5. /\ Deleted(s, p, m) \in Nat
        /\ Typed(s, p, n) = Typed(s, p, m)
        /\ Deleted(s, p, n) = Deleted(s, p, m) + 1
    BY <2>1, CountsNext
  <2>6. Typed(s, p, m) = Deleted(s, p, m) + Cardinality(Above(K, p))
    BY <1>4, <2>1
  <2>7. Cardinality(Above(K, p)) \in Nat
    BY <1>3, <2>1
  <2> QED
    BY <2>4, <2>5, <2>6, <2>7
<1> QED
  BY <1>1, <1>5, <1>6, <1>7 DEF Balanced

(* ... and any other key changes nothing. *)
LEMMA KeptOther ==
  ASSUME NEW s, NEW a \in Nat, NEW m \in Nat, NEW n \in Nat, n - m = 1, a <= n, a > 0,
         Balanced(s, a, m), s[n] \notin Chars, s[n] # DEL
  PROVE  Kept(s, a, n) = Kept(s, a, m) /\ Balanced(s, a, n)
<1>1. Kept(s, a, n) = Kept(s, a, m)
  <2>1. ASSUME NEW p \in a .. m PROVE Survives(s, p, n) <=> Survives(s, p, m)
    <3>1. Survives(s, p, n) <=> /\ Survives(s, p, m)
                                /\ Deleted(s, p, n) <= Typed(s, p, n)
      BY SurvivesNext
    <3>2. /\ Typed(s, p, n) = Typed(s, p, m)
          /\ Deleted(s, p, n) = Deleted(s, p, m)
          /\ Survives(s, p, m) => Deleted(s, p, m) <= Typed(s, p, m)
      BY CountsNext
    <3> QED
      BY <3>1, <3>2
  <2>2. a .. n = (a .. m) \cup {n}
    BY SurvivesNext
  <2> QED
    BY <2>1, <2>2 DEF Kept
<1>2. ASSUME NEW p \in Kept(s, a, m)
      PROVE  /\ Typed(s, p, n) = Typed(s, p, m)
             /\ Deleted(s, p, n) = Deleted(s, p, m)
  <2>1. p \in a .. m
    BY DEF Kept
  <2> QED
    BY <2>1, CountsNext
<1> QED
  BY <1>1, <1>2 DEF Balanced

(* So a line is balanced at any place of it. *)
LEMMA KeptBalanced ==
  ASSUME NEW s, NEW a \in Nat, a > 0, NEW n \in Nat, a <= n + 1
  PROVE  Balanced(s, a, n)
<1> DEFINE I == {d \in Nat : a <= d + 1 => Balanced(s, a, d)}
<1>1. \A d \in Nat : d < a => Balanced(s, a, d)
  <2> TAKE d \in Nat
  <2>1. d < a => Kept(s, a, d) = {}
    BY DEF Kept
  <2> QED
    BY <2>1 DEF Balanced
<1>2. 0 \in I
  BY <1>1
<1>3. \A d \in Nat : d \in I => d + 1 \in I
  <2> SUFFICES ASSUME NEW d \in Nat, d \in I, a <= d + 2 PROVE Balanced(s, a, d + 1)
    OBVIOUS
  <2>1. PICK e \in Nat : e = d + 1
    OBVIOUS
  <2>2. CASE e < a
    BY <1>1, <2>1, <2>2
  <2>3. CASE a <= e
    <3>1. Balanced(s, a, d)
      BY <2>1, <2>3
    <3>2. e - d = 1
      BY <2>1
    <3>3. Balanced(s, a, e)
      BY <2>3, <3>1, <3>2, KeptCharacter, KeptDelete, KeptOther
    <3> QED
      BY <2>1, <3>3
  <2> QED
    BY <2>1, <2>2, <2>3
<1> HIDE DEF I
<1>4. n \in I
  BY <1>2, <1>3, SetInduction
<1> QED
  BY <1>4 DEF I

-----------------------------------------------------------------------------
(* The lines that were ended. *)
Lines(s) == Cardinality(Enters(s))

(* Where lines end and begin. *)
LEMMA LinesOf ==
  ASSUME NEW s \in Seq(Keys)
  PROVE  /\ Enters(s) \in SUBSET (1 .. Len(s)) /\ Lines(s) \in Nat
         /\ \A n \in 1 .. Lines(s) : EndOf(s, n) \in 1 .. Len(s)
         /\ \A n \in 1 .. Lines(s) + 1 : StartOf(s, n) \in 1 .. Len(s) + 1
<1>1. Enters(s) \in SUBSET (1 .. Len(s)) /\ Len(s) \in Nat
  BY DEF Enters
<1>2. Lines(s) \in Nat
  BY <1>1, IndicesFinite DEF Lines
<1>3. ASSUME NEW n \in 1 .. Lines(s) PROVE EndOf(s, n) \in 1 .. Len(s)
  BY <1>1, NthIn DEF EndOf, Lines
<1>4. ASSUME NEW n \in 1 .. Lines(s) + 1 PROVE StartOf(s, n) \in 1 .. Len(s) + 1
  <2>1. CASE n = 1
    BY <1>1, <2>1 DEF StartOf
  <2>2. CASE n # 1
    <3>1. PICK m \in 1 .. Lines(s) : m = n - 1
      BY <1>2, <2>2
    <3>2. EndOf(s, m) \in 1 .. Len(s)
      BY <1>3
    <3>3. StartOf(s, n) = EndOf(s, m) + 1
      BY <2>2, <3>1 DEF StartOf
    <3> QED
      BY <1>1, <3>2, <3>3
  <2> QED
    BY <2>1, <2>2
<1> QED
  BY <1>1, <1>2, <1>3, <1>4

(* One more key leaves the lines that were ended alone; Enter ends one more. *)
LEMMA LinesAppend ==
  ASSUME NEW s \in Seq(Keys), NEW c \in Keys, NEW t, t = Append(s, c)
  PROVE  /\ c # "\r" => Lines(t) = Lines(s)
         /\ c = "\r" => /\ Lines(t) = Lines(s) + 1
                        /\ EndOf(t, Lines(t)) = Len(t)
         /\ \A n \in 1 .. Lines(s) : EndOf(t, n) = EndOf(s, n)
         /\ \A n \in 1 .. Lines(s) + 1 : StartOf(t, n) = StartOf(s, n)
<1>1. PICK m \in Nat : m = Len(s)
  OBVIOUS
<1>2. PICK x \in Nat : x = m + 1
  OBVIOUS
<1>3. /\ Len(t) = x /\ t[x] = c /\ \A p \in 1 .. m : t[p] = s[p]
      /\ 1 .. x = (1 .. m) \cup {x}
  BY <1>1, <1>2
<1>4. PICK S : S = Enters(s)
  OBVIOUS
<1>5. S \in SUBSET (1 .. m) /\ IsFiniteSet(S) /\ S \in SUBSET Nat /\ Cardinality(S) \in Nat
  <2>1. S \in SUBSET (1 .. m)
    BY <1>1, <1>4, LinesOf
  <2> QED
    BY <2>1, IndicesFinite
<1>6. \A i \in S : i < x
  BY <1>2, <1>5
<1>7. /\ c # "\r" => Enters(t) = S
      /\ c = "\r" => Enters(t) = S \cup {x}
  BY <1>1, <1>3, <1>4 DEF Enters
<1>8. /\ Cardinality(S \cup {x}) = Cardinality(S) + 1
      /\ \A n \in 1 .. Cardinality(S) : Nth(S \cup {x}, n) = Nth(S, n)
      /\ Nth(S \cup {x}, Cardinality(S) + 1) = x
  <2>1. /\ Cardinality(S \cup {x}) = Cardinality(S) + 1
        /\ \A n \in 1 .. Cardinality(S) : Ranked(S \cup {x}, n) = Ranked(S, n)
        /\ Ranked(S \cup {x}, Cardinality(S) + 1) = {x}
    BY <1>5, <1>6, RankedAdd
  <2> QED
    BY <2>1 DEF Nth
<1>9. Lines(s) = Cardinality(S) /\ Lines(t) = Cardinality(Enters(t))
  BY <1>4 DEF Lines
<1>10. \A n \in 1 .. Lines(s) : EndOf(t, n) = EndOf(s, n)
  BY <1>4, <1>7, <1>8, <1>9 DEF EndOf
<1>11. \A n \in 1 .. Lines(s) + 1 : StartOf(t, n) = StartOf(s, n)
  <2> SUFFICES ASSUME NEW n \in 1 .. Lines(s) + 1, n # 1 PROVE EndOf(t, n - 1) = EndOf(s, n - 1)
    BY DEF StartOf
  <2>1. PICK h \in 1 .. Lines(s) : h = n - 1
    BY <1>5, <1>9
  <2> QED
    BY <1>10, <2>1
<1>12. c = "\r" => Lines(t) = Lines(s) + 1 /\ EndOf(t, Lines(t)) = Len(t)
  BY <1>3, <1>7, <1>8, <1>9 DEF EndOf
<1> QED
  BY <1>7, <1>9, <1>10, <1>11, <1>12

(* So what a line that was ended says stays the same. *)
LEMMA LineEnded ==
  ASSUME NEW s \in Seq(Keys), NEW c \in Keys, NEW t, t = Append(s, c),
         NEW n \in 1 .. Lines(s)
  PROVE  Edited(t, n) = Edited(s, n) /\ (Fits(t, n) <=> Fits(s, n))
<1>1. Lines(s) \in Nat /\ n \in 1 .. Lines(s) + 1
  BY LinesOf
<1>2. PICK b \in 1 .. Len(s) : b = EndOf(s, n) /\ b = EndOf(t, n)
  <2>1. EndOf(t, n) = EndOf(s, n)
    BY LinesAppend
  <2>2. EndOf(s, n) \in 1 .. Len(s)
    BY LinesOf
  <2> QED
    BY <2>1, <2>2
<1>3. PICK a \in Nat : a = StartOf(s, n) /\ a = StartOf(t, n) /\ a > 0
  <2>1. StartOf(s, n) \in 1 .. Len(s) + 1
    BY <1>1, LinesOf
  <2>2. StartOf(t, n) = StartOf(s, n)
    BY <1>1, LinesAppend
  <2> QED
    BY <2>1, <2>2
<1>4. b \in Nat /\ \A p \in a .. b : s[p] = t[p]
  BY <1>2, <1>3
<1>5. Kept(s, a, b) = Kept(t, a, b) /\ Count(s, Chars, a, b) = Count(t, Chars, a, b)
  <2>1. Kept(s, a, b) = Kept(t, a, b)
    BY <1>4, KeptSame
  <2>2. Count(s, Chars, a, b) = Count(t, Chars, a, b)
    <3>1. {p \in a .. b : s[p] \in Chars} = {p \in a .. b : t[p] \in Chars}
      BY <1>4
    <3> QED
      BY <3>1 DEF Count
  <2> QED
    BY <2>1, <2>2
<1>6. Kept(s, a, b) \in SUBSET (1 .. b) /\ \A p \in Kept(s, a, b) : s[p] = t[p]
  BY <1>3, <1>4 DEF Kept
<1>7. Subsequence(s, Kept(s, a, b)) = Subsequence(t, Kept(s, a, b))
  BY <1>4, <1>6, SubsequenceSame
<1> QED
  BY <1>2, <1>3, <1>5, <1>7 DEF Edited, Fits

(* What is kept is no more than was typed. *)
LEMMA KeptCount ==
  ASSUME NEW s, NEW a \in Nat, a > 0, NEW n \in Nat
  PROVE  Cardinality(Kept(s, a, n)) <= Count(s, Chars, a, n) /\ Count(s, Chars, a, n) \in Nat
<1>1. PICK C : C = {p \in a .. n : s[p] \in Chars}
  OBVIOUS
<1>2. C \in SUBSET (1 .. n) /\ Kept(s, a, n) \subseteq C
  BY <1>1 DEF Kept
<1>3. IsFiniteSet(C) /\ Cardinality(C) \in Nat
  BY <1>2, IndicesFinite
<1>4. Cardinality(Kept(s, a, n)) <= Cardinality(C)
  BY <1>2, <1>3, FS_Subset
<1> QED
  BY <1>1, <1>3, <1>4 DEF Count

(* A subsequence is that of its indices without the last, and the last element. *)
LEMMA SubsequenceFront ==
  ASSUME NEW m \in Nat, NEW K \in SUBSET (1 .. m), K # {}, NEW s
  PROVE  \E top \in K : Subsequence(s, K)
                          = Append(Subsequence(s, {p \in K : Above(K, p) # {}}), s[top])
<1>1. PICK top \in K : \A h \in K : h <= top
  BY LargestExists
<1>2. PICK L : L = {p \in K : Above(K, p) # {}}
  OBVIOUS
<1>3. L = K \ {top}
  <2>1. Above(K, top) = {}
    <3>1. \A h \in K : ~(h > top)
      BY <1>1
    <3> QED
      BY <3>1 DEF Above
  <2>2. ASSUME NEW p \in K, p # top PROVE top \in Above(K, p)
    <3>1. top > p
      BY <1>1, <2>2
    <3> QED
      BY <3>1 DEF Above
  <2> QED
    BY <1>2, <2>1, <2>2
<1>4. L \in SUBSET Nat /\ IsFiniteSet(L) /\ top \in Nat
  <2>1. L \in SUBSET (1 .. m)
    BY <1>3
  <2> QED
    BY <2>1, IndicesFinite
<1>5. \A i \in L : i < top
  BY <1>1, <1>3
<1>6. K = L \cup {top}
  BY <1>3
<1>7. Subsequence(s, L \cup {top}) = Append(Subsequence(s, L), s[top])
  BY <1>4, <1>5, SubsequenceAppend
<1> QED
  BY <1>2, <1>6, <1>7

(* What was typed from a on, as edited, and how many characters it took. *)
Text(s, a) == Subsequence(s, Kept(s, a, Len(s)))
Effort(s, a) == Count(s, Chars, a, Len(s))

(* The text is no longer than what was typed. *)
LEMMA TextType ==
  ASSUME NEW s \in Seq(Keys), NEW a \in 1 .. Len(s) + 1
  PROVE  /\ Text(s, a) \in Seq(Chars) /\ Effort(s, a) \in Nat
         /\ Len(Text(s, a)) <= Effort(s, a)
         /\ a = Len(s) + 1 => Text(s, a) = <<>>
<1>1. PICK m \in Nat : m = Len(s)
  OBVIOUS
<1>2. a \in Nat /\ a > 0
  BY <1>1
<1>3. PICK K : K = Kept(s, a, m)
  OBVIOUS
<1>4. K \in SUBSET (1 .. m) /\ \A i \in K : s[i] \in Chars
  BY <1>2, <1>3 DEF Kept
<1>5. /\ Subsequence(s, K) \in Seq(Chars) /\ Len(Subsequence(s, K)) = Cardinality(K)
      /\ Cardinality(K) \in Nat
  BY <1>4, SubsequenceType
<1>6. Cardinality(K) <= Count(s, Chars, a, m) /\ Count(s, Chars, a, m) \in Nat
  BY <1>2, <1>3, KeptCount
<1>7. a = m + 1 => Subsequence(s, K) = <<>>
  <2> SUFFICES ASSUME a = m + 1 PROVE Subsequence(s, K) = <<>>
    OBVIOUS
  <2>1. a .. m = {}
    OBVIOUS
  <2>2. K = {}
    BY <1>3, <2>1 DEF Kept
  <2>3. Cardinality(K) = 0
    BY <2>2, FS_EmptySet
  <2> QED
    BY <1>5, <2>3, EmptySeq
<1> QED
  BY <1>1, <1>3, <1>5, <1>6, <1>7 DEF Text, Effort

(* What the key at n makes of the text that was typed from a on. *)
Effect(s, t, a, m, n) ==
  /\ t[n] \in Chars =>
       /\ Subsequence(t, Kept(t, a, n)) = Append(Subsequence(s, Kept(s, a, m)), t[n])
       /\ Count(t, Chars, a, n) = Count(s, Chars, a, m) + 1
  /\ t[n] = DEL =>
       /\ \/ /\ Subsequence(s, Kept(s, a, m)) = <<>>
             /\ Subsequence(t, Kept(t, a, n)) = <<>>
          \/ \E x \in Chars :
               Subsequence(s, Kept(s, a, m)) = Append(Subsequence(t, Kept(t, a, n)), x)
       /\ Count(t, Chars, a, n) = Count(s, Chars, a, m)
  /\ t[n] \notin Chars /\ t[n] # DEL =>
       /\ Subsequence(t, Kept(t, a, n)) = Subsequence(s, Kept(s, a, m))
       /\ Count(t, Chars, a, n) = Count(s, Chars, a, m)

LEMMA KeyEffect ==
  ASSUME NEW s, NEW t, NEW a \in Nat, NEW m \in Nat, NEW n \in Nat, n - m = 1, a <= n, a > 0,
         \A p \in a .. m : t[p] = s[p]
  PROVE  Effect(s, t, a, m, n)
<1>1. PICK K : K = Kept(t, a, m)
  OBVIOUS
<1>2. K \in SUBSET (a .. m) /\ \A i \in K : t[i] \in Chars
  BY <1>1 DEF Kept
<1>3. K \in SUBSET (1 .. m) /\ IsFiniteSet(K) /\ K \in SUBSET Nat /\ Cardinality(K) \in Nat
  <2>1. K \in SUBSET (1 .. m)
    BY <1>2
  <2> QED
    BY <2>1, IndicesFinite
<1>4. Kept(s, a, m) = K
  BY <1>1, KeptSame
<1>5. Subsequence(s, K) = Subsequence(t, K)
  <2>1. \A i \in K : s[i] = t[i]
    BY <1>2
  <2> QED
    BY <1>3, <2>1, SubsequenceSame
<1>6. Count(s, Chars, a, m) = Count(t, Chars, a, m)
  BY CountSame
<1>7. /\ t[n] \in Chars => Count(t, Chars, a, n) = Count(t, Chars, a, m) + 1
      /\ t[n] \notin Chars => Count(t, Chars, a, n) = Count(t, Chars, a, m)
  BY CountNext
<1>8. Balanced(t, a, m)
  <2>1. a <= m + 1
    OBVIOUS
  <2> QED
    BY <2>1, KeptBalanced
<1>9. CASE t[n] \in Chars
  <2>1. Kept(t, a, n) = K \cup {n}
    BY <1>1, <1>8, <1>9, KeptCharacter
  <2>2. \A i \in K : i < n
    BY <1>2
  <2>3. Subsequence(t, K \cup {n}) = Append(Subsequence(t, K), t[n])
    BY <1>3, <2>2, SubsequenceAppend
  <2> QED
    BY <1>4, <1>5, <1>6, <1>7, <1>9, <2>1, <2>3, ClientAssumption DEF Effect
<1>10. CASE t[n] = DEL
  <2>1. Kept(t, a, n) = {p \in K : Above(K, p) # {}}
    <3>1. Kept(t, a, n) = {p \in Kept(t, a, m) : Above(Kept(t, a, m), p) # {}}
      BY <1>8, <1>10, KeptDelete
    <3> QED
      BY <1>1, <3>1
  <2>2. CASE K = {}
    <3>1. Kept(t, a, n) = {}
      BY <2>1, <2>2
    <3>2. Subsequence(t, {}) = <<>>
      BY FS_EmptySet DEF Subsequence
    <3> QED
      BY <1>4, <1>5, <1>6, <1>7, <1>10, <2>2, <3>1, <3>2, ClientAssumption DEF Effect
  <2>3. CASE K # {}
    <3>1. PICK top \in K : Subsequence(t, K)
                             = Append(Subsequence(t, {p \in K : Above(K, p) # {}}), t[top])
      BY <1>3, <2>3, SubsequenceFront
    <3> QED
      BY <1>2, <1>4, <1>5, <1>6, <1>7, <1>10, <2>1, <3>1, ClientAssumption DEF Effect
  <2> QED
    BY <2>2, <2>3
<1>11. CASE t[n] \notin Chars /\ t[n] # DEL
  <2>1. Kept(t, a, n) = K
    BY <1>1, <1>8, <1>11, KeptOther
  <2> QED
    BY <1>4, <1>5, <1>6, <1>7, <1>11, <2>1 DEF Effect
<1> QED
  BY <1>9, <1>10, <1>11

(* What one more key, c, makes of it. *)
Fed(s, t, c, a) ==
  /\ c \in Chars => Text(t, a) = Append(Text(s, a), c) /\ Effort(t, a) = Effort(s, a) + 1
  /\ c = DEL => /\ \/ Text(s, a) = <<>> /\ Text(t, a) = <<>>
                   \/ \E x \in Chars : Text(s, a) = Append(Text(t, a), x)
                /\ Effort(t, a) = Effort(s, a)
  /\ c \notin Chars /\ c # DEL => Text(t, a) = Text(s, a) /\ Effort(t, a) = Effort(s, a)

LEMMA TextNext ==
  ASSUME NEW s \in Seq(Keys), NEW c \in Keys, NEW t, t = Append(s, c),
         NEW a \in 1 .. Len(s) + 1
  PROVE  Fed(s, t, c, a)
<1>1. PICK m \in Nat : m = Len(s)
  OBVIOUS
<1>2. PICK n \in Nat : n = m + 1
  OBVIOUS
<1>3. PICK b \in Nat : b = a /\ b <= n /\ b > 0
  BY <1>1, <1>2
<1>4. PICK r : r = t
  OBVIOUS
<1>5. Len(r) = n /\ r[n] = c /\ n - m = 1 /\ \A p \in b .. m : r[p] = s[p]
  BY <1>1, <1>2, <1>3, <1>4
<1>6. Effect(s, r, b, m, n)
  BY <1>3, <1>5, KeyEffect
<1>7. /\ Text(s, b) = Subsequence(s, Kept(s, b, m)) /\ Effort(s, b) = Count(s, Chars, b, m)
      /\ Text(r, b) = Subsequence(r, Kept(r, b, n)) /\ Effort(r, b) = Count(r, Chars, b, n)
  BY <1>1, <1>5 DEF Text, Effort
<1> QED
  BY <1>3, <1>4, <1>5, <1>6, <1>7 DEF Effect, Fed

(* The line being typed. *)
Open(s) == StartOf(s, Lines(s) + 1)

(* Enter ends it as it stands. *)
LEMMA EnterEnds ==
  ASSUME NEW s \in Seq(Keys), NEW c \in Keys, c = "\r", NEW t, t = Append(s, c)
  PROVE  /\ Edited(t, Lines(t)) = Text(s, Open(s))
         /\ Fits(t, Lines(t)) <=> Effort(s, Open(s)) < IB_MAX
<1>1. /\ Lines(t) = Lines(s) + 1 /\ EndOf(t, Lines(t)) = Len(t)
      /\ \A n \in 1 .. Lines(s) + 1 : StartOf(t, n) = StartOf(s, n)
  BY LinesAppend
<1>2. Lines(s) \in Nat /\ \A n \in 1 .. Lines(s) + 1 : StartOf(s, n) \in 1 .. Len(s) + 1
  BY LinesOf
<1>3. PICK a \in 1 .. Len(s) + 1 : a = Open(s) /\ a = StartOf(t, Lines(t))
  <2>1. Lines(s) + 1 \in 1 .. Lines(s) + 1
    BY <1>2
  <2> QED
    BY <1>1, <1>2, <2>1 DEF Open
<1>4. c \notin Chars /\ c # DEL
  BY ClientAssumption
<1>5. Text(t, a) = Text(s, a) /\ Effort(t, a) = Effort(s, a)
  <2>1. Fed(s, t, c, a)
    BY TextNext
  <2> QED
    BY <1>4, <2>1 DEF Fed
<1>6. Edited(t, Lines(t)) = Text(t, a) /\ (Fits(t, Lines(t)) <=> Effort(t, a) < IB_MAX)
  BY <1>1, <1>3 DEF Edited, Fits, Text, Effort
<1> QED
  BY <1>3, <1>5, <1>6

(* Any other key belongs to it. *)
LEMMA OpenSame ==
  ASSUME NEW s \in Seq(Keys), NEW c \in Keys, c # "\r", NEW t, t = Append(s, c)
  PROVE  Open(t) = Open(s) /\ Open(s) \in 1 .. Len(s) + 1
<1>1. Lines(s) \in Nat /\ \A n \in 1 .. Lines(s) + 1 : StartOf(s, n) \in 1 .. Len(s) + 1
  BY LinesOf
<1>2. Lines(s) + 1 \in 1 .. Lines(s) + 1
  BY <1>1
<1>3. Lines(t) = Lines(s) /\ \A n \in 1 .. Lines(s) + 1 : StartOf(t, n) = StartOf(s, n)
  BY LinesAppend
<1> QED
  BY <1>1, <1>2, <1>3 DEF Open

(* Behind the end of a line a new one begins. *)
LEMMA OpenNew ==
  ASSUME NEW s \in Seq(Keys), Lines(s) > 0, EndOf(s, Lines(s)) = Len(s)
  PROVE  Text(s, Open(s)) = <<>>
<1>1. Lines(s) \in Nat /\ Len(s) \in Nat
  BY LinesOf
<1>2. Open(s) = Len(s) + 1
  <2>1. PICK h \in Nat : h = Lines(s) + 1
    BY <1>1
  <2>2. h # 1 /\ h - 1 = Lines(s)
    BY <1>1, <2>1
  <2> QED
    BY <2>1, <2>2 DEF Open, StartOf
<1>3. PICK a \in 1 .. Len(s) + 1 : a = Open(s) /\ a = Len(s) + 1
  BY <1>1, <1>2
<1> QED
  BY <1>3, TextType

-----------------------------------------------------------------------------
(* Every message sent has a line that was ended, and while the server is there every
   such line has its message, except the one about to be sent. *)
SentInv ==
  /\ Len(sent) <= Lines(typed)
  /\ ~lost => Lines(typed) = IF pc = "send" THEN Len(sent) + 1 ELSE Len(sent)
  /\ pc = "send" => Lines(typed) > 0 /\ EndOf(typed, Lines(typed)) = Len(typed)

(* The buffer holds the line being typed, as edited, or the one about to be sent. *)
BufferInv ==
  Cleared =>
    /\ pc = "send" /\ Fits(typed, Lines(typed)) =>
         Contents = Append(Edited(typed, Lines(typed)), "\n")
    /\ pc # "send" /\ Effort(typed, Open(typed)) < IB_MAX =>
         Contents = Text(typed, Open(typed))

LinesInv == EditorInv /\ SentInv /\ BufferInv /\ LinesAsTyped

(* write() takes one character more after inputBufferAppend(), and one less after a
   deletion. *)
LEMMA ContentsNext ==
  ASSUME TypeOK, len \in 0 .. IB_MAX
  PROVE  /\ \A c \in Chars \cup {"\n"} :
              Append1(c) /\ len < IB_MAX => Contents' = Append(Contents, c)
         /\ Delete /\ len = 0 => Contents' = Contents
         /\ Delete /\ len > 0 => Contents' = [i \in 1 .. len - 1 |-> Contents[i]]
<1>0. IB_MAX \in Nat
  BY ClientAssumption
<1>1. ASSUME NEW c \in Chars \cup {"\n"}, Append1(c), len < IB_MAX
      PROVE  Contents' = Append(Contents, c)
  <2>1. len' = len + 1 /\ ibuf' = [ibuf EXCEPT ![len] = c]
    BY <1>0, <1>1 DEF Append1, Store, Indices
  <2>2. Contents' = [i \in 1 .. len + 1 |-> ibuf'[i - 1]]
    BY <1>0, <1>1, <2>1 DEF Contents
  <2>3. \A i \in 1 .. len + 1 : ibuf'[i - 1] = IF i = len + 1 THEN c ELSE ibuf[i - 1]
    BY <1>0, <1>1, <2>1 DEF TypeOK, Indices
  <2>4. Contents = [i \in 1 .. len |-> ibuf[i - 1]]
    BY <1>0, <1>1 DEF Contents
  <2>5. Append(Contents, c) = [i \in 1 .. len + 1 |-> IF i = len + 1 THEN c ELSE ibuf[i - 1]]
    BY <1>0, <2>4
  <2> QED
    BY <2>2, <2>3, <2>5
<1>2. ASSUME Delete, len = 0 PROVE Contents' = Contents
  BY <1>2 DEF Delete, Contents
<1>3. ASSUME Delete, len > 0 PROVE Contents' = [i \in 1 .. len - 1 |-> Contents[i]]
  <2>1. len' = len - 1 /\ ibuf' = ibuf
    BY <1>3 DEF Delete
  <2>2. Contents' = [i \in 1 .. len - 1 |-> ibuf[i - 1]]
    BY <1>0, <2>1 DEF Contents
  <2>3. Contents = [i \in 1 .. len |-> ibuf[i - 1]]
    BY <1>0 DEF Contents
  <2> QED
    BY <1>0, <2>2, <2>3
<1> QED
  BY <1>1, <1>2, <1>3

(* What was sent stays what was typed when more is typed. *)
LEMMA SentStays ==
  ASSUME TypeOK, LinesAsTyped, Len(sent) <= Lines(typed), LinesBounded',
         NEW c \in Keys, typed' = Append(typed, c), UNCHANGED <<sent, first>>
  PROVE  LinesAsTyped'
<1>1. typed \in Seq(Keys)
  BY DEF TypeOK
<1>2. PICK t : t = typed'
  OBVIOUS
<1>3. \A n \in 1 .. Lines(typed) :
        Edited(t, n) = Edited(typed, n) /\ (Fits(t, n) <=> Fits(typed, n))
  BY <1>1, <1>2, LineEnded
<1>4. Len(sent) \in Nat /\ Lines(typed) \in Nat
  BY <1>1, LinesOf DEF TypeOK
<1>5. \A n \in 1 .. Len(sent) :
        (n > 1 \/ first = 0) /\ Fits(t, n) => sent[n] = Append(Edited(t, n), "\n")
  BY <1>3, <1>4 DEF LinesAsTyped
<1> QED
  BY <1>2, <1>5 DEF LinesAsTyped

LEMMA LinesInit == Init => LinesInv
<1> SUFFICES ASSUME Init PROVE LinesInv
  OBVIOUS
<1>1. EditorInv
  BY EditorInit
<1>2. typed = <<>> /\ sent = <<>> /\ pc = "connect" /\ len = first
  BY DEF Init
<1>3. Enters(typed) = {} /\ Lines(typed) = 0
  <2>1. Enters(typed) = {}
    BY <1>2 DEF Enters
  <2> QED
    BY <2>1, FS_EmptySet DEF Lines
<1>4. typed \in Seq(Keys) /\ Len(typed) = 0 /\ Len(sent) = 0
  BY <1>2, EmptySeq
<1>5. SentInv /\ LinesAsTyped
  BY <1>1, <1>2, <1>3, <1>4 DEF SentInv, LinesAsTyped, EditorInv
<1>6. Cleared => Contents = Text(typed, Open(typed))
  <2> SUFFICES ASSUME Cleared PROVE Contents = Text(typed, Open(typed))
    OBVIOUS
  <2>1. Contents \in Seq(Bytes) /\ Len(Contents) = 0
    BY <1>1, <1>2, ContentsType, ClientAssumption DEF Cleared, EditorInv
  <2>2. PICK a \in 1 .. Len(typed) + 1 : a = Open(typed) /\ a = Len(typed) + 1
    <3>1. Open(typed) = 1
      BY <1>3 DEF Open, StartOf
    <3> QED
      BY <1>4, <3>1
  <2>3. Text(typed, a) = <<>>
    BY <1>4, <2>2, TextType
  <2> QED
    BY <2>1, <2>2, <2>3, EmptySeq
<1> QED
  BY <1>1, <1>2, <1>5, <1>6 DEF LinesInv, BufferInv

(* What one key does to the buffer. *)
LEMMA FeedBuffer ==
  ASSUME EditorInv, BufferInv, Cleared, pc = "feed", NEW c \in Keys, NEW t,
         t = Append(typed, c),
         \/ c = "\n" /\ UNCHANGED <<ib, outside, exit>>
         \/ c = DEL /\ Delete
         \/ c \in Chars /\ Append1(c)
         \/ c = "\r" /\ Append1("\n")
  PROVE  /\ c = "\r" /\ Fits(t, Lines(t)) => Contents' = Append(Edited(t, Lines(t)), "\n")
         /\ c # "\r" /\ Effort(t, Open(t)) < IB_MAX => Contents' = Text(t, Open(t))
<1>1. TypeOK /\ typed \in Seq(Keys) /\ len \in 0 .. IB_MAX
  BY DEF EditorInv, TypeOK
<1>2. Contents \in Seq(Bytes) /\ Len(Contents) = len
  BY <1>1, ContentsType
<1>3. PICK a \in 1 .. Len(typed) + 1 : a = Open(typed) /\ (c # "\r" => Open(t) = a)
  <2>1. Lines(typed) \in Nat /\ Open(typed) \in 1 .. Len(typed) + 1
    <3>1. /\ Lines(typed) \in Nat
          /\ \A n \in 1 .. Lines(typed) + 1 : StartOf(typed, n) \in 1 .. Len(typed) + 1
      BY <1>1, LinesOf
    <3>2. Lines(typed) + 1 \in 1 .. Lines(typed) + 1
      BY <3>1
    <3> QED
      BY <3>1, <3>2 DEF Open
  <2>2. c # "\r" => Open(t) = Open(typed)
    BY <1>1, OpenSame
  <2> QED
    BY <2>1, <2>2
<1>4. PICK e \in Nat : e = Effort(typed, a)
  BY <1>1, TextType
<1>5. PICK u \in Seq(Chars) : u = Text(typed, a) /\ Len(u) <= e
  BY <1>1, <1>4, TextType
<1>6. e < IB_MAX => Contents = u /\ len < IB_MAX
  <2>1. e < IB_MAX => Contents = u
    BY <1>3, <1>4, <1>5 DEF BufferInv
  <2> QED
    BY <1>1, <1>2, <1>4, <1>5, <2>1, ClientAssumption
<1>7. Fed(typed, t, c, a)
  BY <1>1, TextNext
<1> HIDE DEF Contents
<1>8. CASE c = "\n" /\ UNCHANGED <<ib, outside, exit>>
  <2>1. c \notin Chars /\ c # DEL /\ c # "\r"
    BY <1>8, ClientAssumption
  <2>2. Contents' = Contents
    BY <1>8 DEF ib, Contents
  <2>3. Text(t, a) = u /\ Effort(t, a) = e
    BY <1>4, <1>5, <1>7, <2>1 DEF Fed
  <2> QED
    BY <1>3, <1>6, <2>1, <2>2, <2>3
<1>9. CASE c = DEL /\ Delete
  <2>1. c # "\r"
    BY <1>9, ClientAssumption
  <2>2. /\ \/ u = <<>> /\ Text(t, a) = <<>>
           \/ \E x \in Chars : u = Append(Text(t, a), x)
        /\ Effort(t, a) = e
    BY <1>4, <1>5, <1>7, <1>9 DEF Fed
  <2> SUFFICES ASSUME e < IB_MAX PROVE Contents' = Text(t, a)
    BY <1>3, <2>1, <2>2
  <2>3. Contents = u /\ Len(u) = len
    BY <1>2, <1>6
  <2>4. CASE u = <<>> /\ Text(t, a) = <<>>
    <3>1. len = 0
      BY <2>3, <2>4
    <3>2. Contents' = Contents
      BY <1>1, <1>9, <3>1, ContentsNext
    <3> QED
      BY <2>3, <2>4, <3>2
  <2>5. ASSUME NEW x \in Chars, u = Append(Text(t, a), x)
        PROVE  Contents' = Text(t, a)
    <3>1. PICK v \in Seq(Chars) : v = Text(t, a)
      <4>1. t \in Seq(Keys) /\ a \in 1 .. Len(t) + 1
        BY <1>1
      <4> QED
        BY <4>1, TextType
    <3>2. Len(u) = Len(v) + 1 /\ \A i \in 1 .. Len(v) : u[i] = v[i]
      BY <2>5, <3>1
    <3>3. len > 0 /\ len - 1 = Len(v)
      BY <2>3, <3>2
    <3>4. Contents' = [i \in 1 .. len - 1 |-> Contents[i]]
      BY <1>1, <1>9, <3>3, ContentsNext
    <3>5. Contents' = [i \in 1 .. Len(v) |-> v[i]]
      BY <2>3, <3>2, <3>3, <3>4
    <3> QED
      BY <3>1, <3>5
  <2> QED
    BY <2>2, <2>4, <2>5
<1>10. CASE c \in Chars /\ Append1(c)
  <2>1. c # "\r" /\ c \in Chars \cup {"\n"}
    BY <1>10, ClientAssumption
  <2>2. Text(t, a) = Append(u, c) /\ Effort(t, a) = e + 1
    BY <1>4, <1>5, <1>7, <1>10 DEF Fed
  <2> SUFFICES ASSUME e + 1 < IB_MAX PROVE Contents' = Append(u, c)
    BY <1>3, <2>1, <2>2
  <2>3. e < IB_MAX
    BY ClientAssumption
  <2> QED
    BY <1>1, <1>6, <1>10, <2>1, <2>3, ContentsNext
<1>11. CASE c = "\r" /\ Append1("\n")
  <2>1. Edited(t, Lines(t)) = u /\ (Fits(t, Lines(t)) <=> e < IB_MAX)
    BY <1>1, <1>3, <1>4, <1>5, <1>11, EnterEnds
  <2> SUFFICES ASSUME e < IB_MAX PROVE Contents' = Append(u, "\n")
    BY <1>11, <2>1
  <2>2. PICK d \in Chars \cup {"\n"} : d = "\n"
    OBVIOUS
  <2>3. Contents' = Append(Contents, d)
    BY <1>1, <1>6, <1>11, <2>2, ContentsNext
  <2> QED
    BY <1>6, <2>2, <2>3
<1> QED
  BY <1>8, <1>9, <1>10, <1>11

LEMMA FeedLines ==
  ASSUME LinesInv, FeedChar
  PROVE  LinesInv'
<1>1. TypeOK /\ EditorInv /\ SentInv /\ BufferInv /\ LinesAsTyped
  BY DEF LinesInv, EditorInv
<1>2. EditorInv' /\ LinesBounded'
  <2>1. EditorInv'
    BY <1>1, FeedStep
  <2> QED
    BY <2>1 DEF EditorInv
<1>3. PICK c \in Keys :
         /\ typed' = Append(typed, c)
         /\ \/ c = "\n" /\ UNCHANGED <<ib, outside, exit>>
            \/ c = DEL /\ Delete
            \/ c \in Chars /\ Append1(c)
            \/ c = "\r" /\ Append1("\n")
         /\ pc' = IF c = "\r" THEN "send" ELSE "feed"
  <2>1. buf[j] \in Keys
    BY <1>1 DEF TypeOK, FeedChar
  <2> QED
    BY <2>1 DEF FeedChar, At
<1>4. pc = "feed" /\ UNCHANGED <<sent, first, lost>>
  BY DEF FeedChar, At, net
<1>5. PICK t : t = typed'
  OBVIOUS
<1>6. typed \in Seq(Keys) /\ t = Append(typed, c)
  BY <1>1, <1>3, <1>5 DEF TypeOK
<1>7. LinesAsTyped'
  BY <1>1, <1>2, <1>3, <1>4, SentStays DEF SentInv
<1>8. SentInv'
  <2>1. /\ c # "\r" => Lines(t) = Lines(typed)
        /\ c = "\r" => Lines(t) = Lines(typed) + 1 /\ EndOf(t, Lines(t)) = Len(t)
    BY <1>6, LinesAppend
  <2>2. Lines(typed) \in Nat /\ Len(sent) \in Nat
    BY <1>1, <1>6, LinesOf DEF TypeOK
  <2>3. Len(sent) <= Lines(typed) /\ (~lost => Lines(typed) = Len(sent))
    BY <1>1, <1>4 DEF SentInv
  <2>4. Len(sent) <= Lines(t)
    BY <2>1, <2>2, <2>3
  <2>5. CASE c = "\r"
    BY <1>3, <1>4, <1>5, <2>1, <2>2, <2>3, <2>4, <2>5 DEF SentInv
  <2>6. CASE c # "\r"
    BY <1>3, <1>4, <1>5, <2>1, <2>3, <2>4, <2>6 DEF SentInv
  <2> QED
    BY <2>5, <2>6
<1>9. BufferInv'
  <2> SUFFICES ASSUME Cleared PROVE BufferInv'
    BY <1>4 DEF BufferInv, Cleared
  <2>1. /\ c = "\r" /\ Fits(t, Lines(t)) => Contents' = Append(Edited(t, Lines(t)), "\n")
        /\ c # "\r" /\ Effort(t, Open(t)) < IB_MAX => Contents' = Text(t, Open(t))
    BY <1>1, <1>3, <1>4, <1>6, FeedBuffer
  <2> QED
    BY <1>3, <1>5, <2>1 DEF BufferInv
<1> QED
  BY <1>2, <1>7, <1>8, <1>9 DEF LinesInv

LEMMA SendLines ==
  ASSUME LinesInv, Send
  PROVE  LinesInv'
<1>1. TypeOK /\ EditorInv /\ SentInv /\ BufferInv /\ LinesAsTyped /\ typed \in Seq(Keys)
  BY DEF LinesInv, EditorInv, TypeOK
<1>2. EditorInv' /\ LinesBounded'
  <2>1. EditorInv'
    BY <1>1, SendStep
  <2> QED
    BY <2>1 DEF EditorInv
<1>3. /\ pc = "send" /\ pc' = "feed" /\ len' = 0 /\ UNCHANGED <<typed, first, lost>>
      /\ \/ ~lost /\ sent' = Append(sent, Contents)
         \/ lost /\ sent' = sent
  BY DEF Send, At, inputBufferClear
<1>4. Lines(typed) > 0 /\ EndOf(typed, Lines(typed)) = Len(typed)
  BY <1>1, <1>3 DEF SentInv
<1>5. Contents \in Seq(Bytes) /\ Lines(typed) \in Nat
  BY <1>1, ContentsType, LinesOf
<1> HIDE DEF Contents
<1>6. sent \in Seq(Seq(Bytes)) /\ Len(sent) \in Nat
  BY <1>1 DEF TypeOK, Bytes
<1>7. ~lost => /\ Len(sent') = Len(sent) + 1 /\ Lines(typed) = Len(sent) + 1
               /\ sent'[Len(sent) + 1] = Contents
               /\ \A n \in 1 .. Len(sent) : sent'[n] = sent[n]
  BY <1>1, <1>3, <1>5, <1>6 DEF SentInv
<1>8. SentInv'
  BY <1>1, <1>3, <1>6, <1>7 DEF SentInv
<1>9. BufferInv'
  <2>1. Contents' = <<>>
    BY <1>3 DEF Contents
  <2>2. Text(typed, Open(typed)) = <<>>
    BY <1>1, <1>4, OpenNew
  <2> QED
    BY <1>3, <2>1, <2>2 DEF BufferInv
<1>10. LinesAsTyped'
  <2>1. CASE lost
    BY <1>1, <1>2, <1>3, <2>1 DEF LinesAsTyped
  <2>2. CASE ~lost
    <3> SUFFICES ASSUME NEW n \in 1 .. Len(sent'), n > 1 \/ first = 0, Fits(typed, n)
                 PROVE  sent'[n] = Append(Edited(typed, n), "\n")
      BY <1>2, <1>3 DEF LinesAsTyped
    <3>1. CASE n \in 1 .. Len(sent)
      BY <1>1, <1>7, <2>2, <3>1 DEF LinesAsTyped
    <3>2. CASE n = Len(sent) + 1
      <4>1. Cleared /\ n = Lines(typed)
        BY <1>6, <1>7, <2>2, <3>2 DEF Cleared
      <4> QED
        BY <1>1, <1>3, <1>7, <2>2, <3>2, <4>1 DEF BufferInv
    <3> QED
      BY <1>6, <1>7, <2>2, <3>1, <3>2
  <2> QED
    BY <2>1, <2>2
<1> QED
  BY <1>2, <1>8, <1>9, <1>10 DEF LinesInv

(* The rest leaves the line being typed alone. *)
LEMMA LinesFrame ==
  ASSUME LinesInv, EditorInv', UNCHANGED <<ibuf, len, typed, first, sent>>,
         pc' = "send" <=> pc = "send", lost => lost'
  PROVE  LinesInv'
<1>1. Contents' = Contents /\ Cleared' = Cleared
  BY DEF Contents, Cleared
<1>2. LinesAsTyped'
  BY DEF LinesInv, LinesAsTyped, EditorInv
<1>3. SentInv'
  BY DEF LinesInv, SentInv
<1>4. BufferInv'
  BY <1>1 DEF LinesInv, BufferInv
<1> QED
  BY <1>2, <1>3, <1>4 DEF LinesInv

LEMMA LinesStep == LinesInv /\ [Next]_vars => LinesInv'
<1> SUFFICES ASSUME LinesInv, [Next]_vars PROVE LinesInv'
  OBVIOUS
<1>1. EditorInv'
  BY EditorStep DEF LinesInv
<1>2. CASE Connect \/ SetRawMode \/ Select \/ ReadServer \/ ReadStdin \/ FeedDone
  <2>1. /\ UNCHANGED <<ibuf, len, typed, first, sent, lost>>
        /\ pc # "send" /\ pc' # "send"
    BY <1>2 DEF Connect, SetRawMode, Select, ReadServer, ReadStdin, FeedDone, At, editor, ib,
                net
  <2> QED
    BY <1>1, <2>1, LinesFrame
<1>3. CASE FeedChar
  BY <1>3, FeedLines
<1>4. CASE Send
  BY <1>4, SendLines
<1>5. CASE Environment
  <2>1. /\ UNCHANGED <<pc, ibuf, len, typed, first, sent>>
        /\ lost => lost'
    BY <1>5 DEF Environment, Press, CloseInput, ServerSends, ServerReads, ServerCloses, editor,
                ib, net
  <2> QED
    BY <1>1, <2>1, LinesFrame
<1>6. CASE UNCHANGED vars
  <2>1. UNCHANGED <<pc, ibuf, len, typed, first, sent, lost>>
    BY <1>6 DEF vars, editor, ib, net
  <2> QED
    BY <1>1, <2>1, LinesFrame
<1> QED
  BY <1>2, <1>3, <1>4, <1>5, <1>6 DEF Next, Client, Exited

-----------------------------------------------------------------------------
(* For any size of the buffer and any length it may begin with, the length never passes
   the end of the buffer but where it began there, and nothing is stored outside but in
   front of the buffer, by the first line, of a length that began negative. *)
THEOREM StoresConfined == Spec => [](TypeOK /\ StoresWithin)
<1>1. EditorInv /\ StoresInv => TypeOK /\ StoresWithin
  BY DEF EditorInv, StoresInv, StoresWithin, InFront, NoEnter
<1>2. Init => EditorInv /\ StoresInv
  BY EditorInit, StoresInit
<1>3. EditorInv /\ StoresInv /\ [Next]_vars => (EditorInv /\ StoresInv)'
  BY EditorStep, StoresStep
<1> QED
  BY <1>1, <1>2, <1>3, PTL DEF Spec

(* No message but the first is longer than the buffer, and each ends its line unless
   the line did not fit. *)
THEOREM MessagesBounded == Spec => []LinesBounded
<1>1. EditorInv => LinesBounded
  BY DEF EditorInv
<1> QED
  BY <1>1, EditorInit, EditorStep, PTL DEF Spec

(* Every message is the line that was typed, as edited, wherever the reads cut it and
   whatever came from the server meanwhile, if the line fits; the first message only
   if the buffer began empty. *)
THEOREM EditsKept == Spec => []LinesAsTyped
<1>1. LinesInv => LinesAsTyped
  BY DEF LinesInv
<1> QED
  BY <1>1, LinesInit, LinesStep, PTL DEF Spec
=============================================================================
