----------------------------- MODULE Trajectory -----------------------------
(***************************************************************************)
(* The trajectory exercise (09_SLAM/eigenMatrix.cpp): plot_trajectory()    *)
(* reads poses from a text file until the stream is at its end, and        *)
(* DrawTrajectory() joins them by lines.  A file is a sequence of tokens,  *)
(* each a number (its place in the file) or a word, and may have white     *)
(* space after the last.                                                   *)
(***************************************************************************)
EXTENDS Integers, Sequences, SequencesExt

CONSTANTS
  FIELDS,    \* numbers of an entry: time, position, orientation
  WORD,      \* a token that is no number
  JUNK,      \* what memory that was never written holds
  MaxTokens, \* bound: tokens in a file
  MaxPoses   \* bound: poses that fit into memory

ASSUME TrajectoryAssumption ==
  /\ FIELDS \in Nat \ {0} /\ MaxTokens \in Nat /\ MaxPoses \in Nat
  /\ MaxPoses * FIELDS > MaxTokens + FIELDS
  /\ WORD \notin Int /\ JUNK \notin Int /\ JUNK # WORD

VARIABLES
  reading,  \* "open", "loop", "draw", "quit", "missing", "terminated"
  tokens,   \* the file's tokens
  blank,    \* whether white space follows the last
  taken,    \* how many tokens the stream has gone past
  eof,      \* eofbit
  fail,     \* failbit
  poses,
  lines     \* the path in the last frame drawn

trajectoryVars == <<reading, tokens, blank, taken, eof, fail, poses, lines>>

Files == UNION {{[i \in 1 .. n |-> IF i \in words THEN WORD ELSE i] : words \in SUBSET (1 .. n)}
                : n \in 0 .. MaxTokens}

TrajectoryInit ==
  /\ reading = "open" /\ tokens \in Files /\ blank \in BOOLEAN
  /\ taken = 0 /\ eof = FALSE /\ fail = FALSE /\ poses = <<>> /\ lines = <<>>

OpenTrajectory ==
  /\ reading = "open"
  /\ reading' \in {"loop", "missing"}
  /\ UNCHANGED <<tokens, blank, taken, eof, fail, poses, lines>>

(* One >> into field i.  A stream that has failed does nothing; white space is
   skipped, and at the end of the file the field is not written; a word leaves 0;
   and a number that ends the file takes the stream to its end. *)
Extract(st, i) ==
  CASE st.fail -> st
    [] ~st.fail /\ st.taken = Len(tokens) -> [st EXCEPT !.fail = TRUE, !.eof = TRUE]
    [] ~st.fail /\ st.taken < Len(tokens) ->
         IF tokens[st.taken + 1] = WORD
         THEN [st EXCEPT !.fail = TRUE, !.entry[i] = 0]
         ELSE [st EXCEPT !.entry[i] = tokens[st.taken + 1], !.taken = @ + 1,
                         !.eof = st.taken + 1 = Len(tokens) /\ ~blank]

(* The loop body: the fields are not initialised, and the entry is kept whatever
   became of the stream, which is asked only before the next. *)
DropAtEnd(end) == ~end \* mutation: leaves the loop if the stream has ended
KeepEntry(end) == TRUE
ReadPose ==
  /\ reading = "loop" /\ ~eof
  /\ LET st == FoldLeft(Extract,
                        [taken |-> taken, eof |-> eof, fail |-> fail,
                         entry |-> [i \in 1 .. FIELDS |-> JUNK]],
                        [i \in 1 .. FIELDS |-> i])
     IN  /\ taken' = st.taken /\ eof' = st.eof /\ fail' = st.fail
         /\ IF Len(poses) = MaxPoses THEN reading' = "terminated" /\ UNCHANGED poses
            ELSE /\ poses' = IF KeepEntry(st.eof) THEN Append(poses, st.entry) ELSE poses
                 /\ UNCHANGED reading
  /\ UNCHANGED <<tokens, blank, lines>>

LeaveLoop ==
  /\ reading = "loop" /\ eof
  /\ reading' = "draw"
  /\ UNCHANGED <<tokens, blank, taken, eof, fail, poses, lines>>

(* A frame: a line from each pose to the next, the last to what lies behind it. *)
Line(i) == <<poses[i], IF i = Len(poses) THEN [f \in 1 .. FIELDS |-> JUNK] ELSE poses[i + 1]>>
DrawTrajectory ==
  /\ reading = "draw"
  /\ \/ lines' = [i \in DOMAIN poses |-> Line(i)] /\ UNCHANGED reading
     \/ reading' = "quit" /\ UNCHANGED lines
  /\ UNCHANGED <<tokens, blank, taken, eof, fail, poses>>

TrajectoryEnded ==
  reading \in {"quit", "missing", "terminated"} /\ UNCHANGED trajectoryVars

TrajectoryNext ==
  OpenTrajectory \/ ReadPose \/ LeaveLoop \/ DrawTrajectory \/ TrajectoryEnded

TrajectorySpec == TrajectoryInit /\ [][TrajectoryNext]_trajectoryVars

-----------------------------------------------------------------------------
(* Properties. *)

Numbers == {n \in 0 .. Len(tokens) : \A i \in 1 .. n : tokens[i] # WORD}
Whole == {n \in 1 .. Len(tokens) : n * FIELDS \in Numbers}
Entry(n) == [f \in 1 .. FIELDS |-> (n - 1) * FIELDS + f]

(* The file's last token is the last number of an entry, and nothing follows it. *)
EndsWithEntry == ~blank /\ \E n \in Whole : n * FIELDS = Len(tokens)

(* Every whole entry of the file is read, in order and before anything else, and the
   path goes from each of them to the next.  No other entry is kept of a file that ends
   with the last number of an entry; of one that ends in any other way, by white space,
   in the middle of an entry, or before its first, exactly one more is, the last.
   Only a word in the file makes the loop run for ever. *)
TrajectoryFaithful ==
  /\ \A n \in Whole : n <= Len(poses) => poses[n] = Entry(n)
  /\ reading \in {"draw", "quit"} =>
       /\ Whole \subseteq DOMAIN poses
       /\ DOMAIN poses \ Whole = IF EndsWithEntry THEN {} ELSE {Len(poses)}
  /\ reading = "terminated" => \E i \in DOMAIN tokens : tokens[i] = WORD
  /\ \A n \in Whole : n + 1 \in Whole /\ lines # <<>> => lines[n] = <<Entry(n), Entry(n + 1)>>
=============================================================================
