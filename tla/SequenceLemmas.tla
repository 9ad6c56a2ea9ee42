--------------------------- MODULE SequenceLemmas ---------------------------
(***************************************************************************)
(* Lemmas about subsequences, concatenations, folds and products.          *)
(***************************************************************************)
EXTENDS Integers, Subsequences, SequencesExt, FiniteSetTheorems,
        SequenceTheorems, WellFoundedInduction, TLAPS

-----------------------------------------------------------------------------
(* Induction. *)

Less == {p \in Nat \X Nat : p[1] < p[2]}

(* The order of the natural numbers is well-founded. *)
LEMMA LessWellFounded == IsWellFoundedOn(Less, Nat)
<1>1. Less = OpToRel(<, Nat)
  BY DEF Less, OpToRel
<1> QED
  BY <1>1, NatLessThanWellFounded, Zenon

(* A set that holds 0 and the successor of each of its numbers holds them all. *)
LEMMA SetInduction ==
  ASSUME NEW S, 0 \in S, \A n \in Nat : n \in S => n + 1 \in S
  PROVE  Nat \subseteq S
<1> DEFINE T == Nat \ S
<1> SUFFICES ASSUME T # {} PROVE FALSE
  OBVIOUS
<1>1. PICK x \in T : \A y \in T : ~(<<y, x>> \in Less)
  BY WFMin, LessWellFounded
<1>2. x \in Nat /\ x # 0 /\ x - 1 \in Nat
  BY <1>1
<1>3. <<x - 1, x>> \in Less
  BY <1>2 DEF Less
<1>4. x - 1 \in S
  BY <1>1, <1>2, <1>3
<1> QED
  BY <1>2, <1>4, <1>1

(* A set of numbers with an upper bound has a largest one. *)
LEMMA LargestExists ==
  ASSUME NEW n \in Nat, NEW S \in SUBSET (1 .. n), S # {}
  PROVE  \E i \in S : \A h \in S : h <= i
<1> DEFINE I == {m \in Nat : \A R \in SUBSET (1 .. m) : R # {} => \E i \in R : \A h \in R : h <= i}
<1>1. 0 \in I
  <2>1. 1 .. 0 = {}
    OBVIOUS
  <2> QED
    BY <2>1
<1>2. ASSUME NEW m \in Nat, m \in I PROVE m + 1 \in I
  <2> SUFFICES ASSUME NEW R \in SUBSET (1 .. m + 1), R # {}
               PROVE  \E i \in R : \A h \in R : h <= i
    OBVIOUS
  <2>1. CASE m + 1 \in R
    BY <2>1
  <2>2. CASE m + 1 \notin R
    <3>1. R \in SUBSET (1 .. m)
      BY <2>2
    <3> QED
      BY <1>2, <3>1
  <2> QED
    BY <2>1, <2>2
<1> HIDE DEF I
<1>3. Nat \subseteq I
  BY <1>1, <1>2, SetInduction
<1> QED
  BY <1>3 DEF I

-----------------------------------------------------------------------------
(* Subsequences. *)

(* The ranks of the numbers of S do not change when a larger one is added, and the
   larger one comes last. *)
LEMMA RankedAdd ==
  ASSUME NEW S \in SUBSET Nat, IsFiniteSet(S), NEW x \in Nat, \A i \in S : i < x
  PROVE  /\ Cardinality(S \cup {x}) = Cardinality(S) + 1
         /\ \A n \in 1 .. Cardinality(S) : Ranked(S \cup {x}, n) = Ranked(S, n)
         /\ Ranked(S \cup {x}, Cardinality(S) + 1) = {x}
<1> DEFINE T == S \cup {x}
<1>1. x \notin S
  OBVIOUS
<1>2. Cardinality(T) = Cardinality(S) + 1 /\ Cardinality(S) \in Nat
  BY <1>1, FS_AddElement, FS_CardinalityType
<1>3. \A i \in S : {h \in T : h <= i} = {h \in S : h <= i}
  OBVIOUS
<1>4. {h \in T : h <= x} = T
  <2>1. \A h \in T : h <= x
    OBVIOUS
  <2> QED
    BY <2>1, Zenon
<1>5. \A i \in S : Cardinality({h \in S : h <= i}) <= Cardinality(S)
  <2> TAKE i \in S
  <2>1. {h \in S : h <= i} \subseteq S
    OBVIOUS
  <2> QED
    BY <2>1, FS_Subset
<1>6. \A i \in S : Cardinality({h \in S : h <= i}) \in Nat
  <2> TAKE i \in S
  <2>1. IsFiniteSet({h \in S : h <= i})
    BY FS_Subset
  <2> QED
    BY <2>1, FS_CardinalityType
<1>7. ASSUME NEW n \in 1 .. Cardinality(S) PROVE Ranked(T, n) = Ranked(S, n)
  <2>1. Cardinality({h \in T : h <= x}) # n
    BY <1>2, <1>4
  <2> QED
    BY <1>3, <2>1 DEF Ranked
<1>8. Ranked(T, Cardinality(S) + 1) = {x}
  <2>1. \A i \in S : Cardinality({h \in T : h <= i}) # Cardinality(S) + 1
    BY <1>2, <1>3, <1>5, <1>6
  <2>2. Cardinality({h \in T : h <= x}) = Cardinality(S) + 1
    BY <1>2, <1>4
  <2> QED
    BY <2>1, <2>2 DEF Ranked
<1> QED
  BY <1>2, <1>7, <1>8

(* A set of indices is finite. *)
LEMMA IndicesFinite ==
  ASSUME NEW m \in Nat, NEW S \in SUBSET (1 .. m)
  PROVE  S \in SUBSET Nat /\ IsFiniteSet(S) /\ Cardinality(S) \in Nat
<1>1. S \in SUBSET Nat
  OBVIOUS
<1>2. IsFiniteSet(1 .. m)
  BY FS_Interval
<1>3. IsFiniteSet(S)
  BY <1>2, FS_Subset
<1> QED
  BY <1>1, <1>3, FS_CardinalityType

(* A finite set of numbers has an n-th smallest element for each n up to its size. *)
LEMMA RankedExists ==
  ASSUME NEW m \in Nat, NEW S \in SUBSET (1 .. m)
  PROVE  \A n \in 1 .. Cardinality(S) : Ranked(S, n) # {}
<1> DEFINE I == {b \in Nat : \A R \in SUBSET (1 .. b) :
                   \A n \in 1 .. Cardinality(R) : Ranked(R, n) # {}}
<1>1. 0 \in I
  <2>1. ASSUME NEW R \in SUBSET (1 .. 0) PROVE Cardinality(R) = 0
    <3>1. R = {}
      OBVIOUS
    <3> QED
      BY <3>1, FS_EmptySet
  <2> QED
    BY <2>1
<1>2. ASSUME NEW b \in Nat, b \in I PROVE b + 1 \in I
  <2> SUFFICES ASSUME NEW R \in SUBSET (1 .. b + 1), NEW n \in 1 .. Cardinality(R)
               PROVE  Ranked(R, n) # {}
    OBVIOUS
  <2> DEFINE Q == R \ {b + 1}
  <2>1. Q \in SUBSET (1 .. b) /\ Q \in SUBSET Nat /\ \A i \in Q : i < b + 1
    OBVIOUS
  <2>2. IsFiniteSet(Q) /\ Cardinality(Q) \in Nat
    BY <2>1, IndicesFinite
  <2>3. \A i \in 1 .. Cardinality(Q) : Ranked(Q, i) # {}
    BY <1>2, <2>1
  <2> HIDE DEF Q
  <2>4. CASE b + 1 \in R
    <3>1. R = Q \cup {b + 1}
      BY <2>4 DEF Q
    <3>2. PICK x \in Nat : x = b + 1
      OBVIOUS
    <3>3. R = Q \cup {x} /\ \A i \in Q : i < x
      BY <2>1, <3>1, <3>2
    <3>4. /\ Cardinality(R) = Cardinality(Q) + 1
          /\ \A i \in 1 .. Cardinality(Q) : Ranked(R, i) = Ranked(Q, i)
          /\ Ranked(R, Cardinality(Q) + 1) = {x}
      BY <2>1, <2>2, <3>3, RankedAdd
    <3> QED
      BY <2>2, <2>3, <3>4
  <2>5. CASE b + 1 \notin R
    <3>1. R = Q
      BY <2>5 DEF Q
    <3> QED
      BY <2>3, <3>1
  <2> QED
    BY <2>4, <2>5
<1> HIDE DEF I
<1>3. Nat \subseteq I
  BY <1>1, <1>2, SetInduction
<1> QED
  BY <1>3 DEF I

(* It is one of the set's elements. *)
LEMMA NthIn ==
  ASSUME NEW m \in Nat, NEW S \in SUBSET (1 .. m), NEW n \in 1 .. Cardinality(S)
  PROVE  Nth(S, n) \in S /\ Cardinality({h \in S : h <= Nth(S, n)}) = n
<1>1. Ranked(S, n) # {}
  BY RankedExists
<1>2. Nth(S, n) \in Ranked(S, n)
  BY <1>1 DEF Nth
<1> QED
  BY <1>2 DEF Ranked

(* A subsequence depends on nothing but the elements it is made of. *)
LEMMA SubsequenceSame ==
  ASSUME NEW m \in Nat, NEW S \in SUBSET (1 .. m), NEW s, NEW t,
         \A i \in S : s[i] = t[i]
  PROVE  Subsequence(s, S) = Subsequence(t, S)
<1>1. \A n \in 1 .. Cardinality(S) : s[Nth(S, n)] = t[Nth(S, n)]
  BY NthIn
<1> QED
  BY <1>1 DEF Subsequence

(* So a subsequence that takes in one more, later, element has that element
   appended. *)
LEMMA SubsequenceAppend ==
  ASSUME NEW S \in SUBSET Nat, IsFiniteSet(S), NEW x \in Nat, \A i \in S : i < x,
         NEW s
  PROVE  Subsequence(s, S \cup {x}) = Append(Subsequence(s, S), s[x])
<1> DEFINE T == S \cup {x}
           N == Cardinality(S)
<1>1. N \in Nat /\ Cardinality(T) = N + 1
  BY RankedAdd, FS_CardinalityType
<1>2. \A n \in 1 .. N : Nth(T, n) = Nth(S, n)
  BY RankedAdd DEF Nth
<1>3. Nth(T, N + 1) = x
  <2>1. Ranked(T, N + 1) = {x}
    BY RankedAdd
  <2> QED
    BY <2>1 DEF Nth
<1> HIDE DEF T, N
<1>4. Subsequence(s, T) = [n \in 1 .. N + 1 |-> s[Nth(T, n)]]
  BY <1>1 DEF Subsequence
<1>5. Subsequence(s, S) = [n \in 1 .. N |-> s[Nth(S, n)]]
  BY DEF Subsequence, N
<1>6. Append(Subsequence(s, S), s[x]) =
        [n \in 1 .. N + 1 |-> IF n = N + 1 THEN s[x] ELSE s[Nth(S, n)]]
  BY <1>1, <1>5
<1>7. \A n \in 1 .. N + 1 :
        s[Nth(T, n)] = IF n = N + 1 THEN s[x] ELSE s[Nth(S, n)]
  BY <1>1, <1>2, <1>3
<1>8. Subsequence(s, T) = Append(Subsequence(s, S), s[x])
  BY <1>4, <1>6, <1>7
<1> QED
  BY <1>8 DEF T

(* The same for indices up to m and the next one. *)
LEMMA SubsequenceNext ==
  ASSUME NEW m \in Nat, NEW S \in SUBSET (1 .. m), NEW s
  PROVE  Subsequence(s, S \cup {m + 1}) = Append(Subsequence(s, S), s[m + 1])
<1>1. S \in SUBSET Nat /\ IsFiniteSet(S)
  BY IndicesFinite
<1>2. m + 1 \in Nat /\ \A i \in S : i < m + 1
  OBVIOUS
<1> QED
  BY <1>1, <1>2, SubsequenceAppend

(* Its length is the number of indices. *)
LEMMA SubsequenceType ==
  ASSUME NEW m \in Nat, NEW S \in SUBSET (1 .. m), NEW s, NEW X, \A i \in S : s[i] \in X
  PROVE  /\ Subsequence(s, S) \in Seq(X)
         /\ Len(Subsequence(s, S)) = Cardinality(S)
         /\ Cardinality(S) \in Nat
<1>1. IsFiniteSet(S) /\ Cardinality(S) \in Nat
  BY IndicesFinite
<1>2. \A n \in 1 .. Cardinality(S) : s[Nth(S, n)] \in X
  BY NthIn
<1> QED
  BY <1>1, <1>2 DEF Subsequence

(* The elements at the indices from a to n are the subsequence that SubSeq takes. *)
LEMMA SubsequenceInterval ==
  ASSUME NEW X, NEW s \in Seq(X), NEW a \in Nat \ {0}
  PROVE  \A n \in Nat : a - 1 <= n /\ n <= Len(s) => Subsequence(s, a .. n) = SubSeq(s, a, n)
<1> DEFINE I == {n \in Nat : a - 1 <= n /\ n <= Len(s) => Subsequence(s, a .. n) = SubSeq(s, a, n)}
<1>0. ASSUME NEW n \in Nat, n < a
      PROVE  Subsequence(s, a .. n) = SubSeq(s, a, n)
  <2>1. a .. n = {} /\ SubSeq(s, a, n) = <<>>
    BY <1>0
  <2> QED
    BY <2>1, FS_EmptySet DEF Subsequence
<1>1. 0 \in I
  BY <1>0
<1>2. ASSUME NEW n \in Nat, n \in I PROVE n + 1 \in I
  <2>1. PICK m \in Nat : m = n + 1
    OBVIOUS
  <2> SUFFICES ASSUME a <= m, m <= Len(s) PROVE Subsequence(s, a .. m) = SubSeq(s, a, m)
    BY <1>0, <2>1
  <2>2. a .. n \in SUBSET (1 .. n) /\ a .. m = (a .. n) \cup {n + 1}
    BY <2>1
  <2>3. Subsequence(s, a .. m) = Append(Subsequence(s, a .. n), s[m])
    BY <2>1, <2>2, SubsequenceNext
  <2>4. Subsequence(s, a .. n) = SubSeq(s, a, n)
    BY <1>2, <2>1
  <2>5. SubSeq(s, a, m) = Append(SubSeq(s, a, n), s[m])
    <3>1. a \in 1 .. Len(s) /\ m \in a .. Len(s) /\ m - 1 = n
      BY <2>1
    <3>2. SubSeq(s, a, m) = SubSeq(s, a, m - 1) \o <<s[m]>>
      BY <3>1, SubSeqRecursiveSecond
    <3>3. SubSeq(s, a, n) \in Seq(X) /\ s[m] \in X
      BY <2>1
    <3> QED
      BY <3>1, <3>2, <3>3, AppendIsConcat
  <2> QED
    BY <2>3, <2>4, <2>5
<1> HIDE DEF I
<1>3. Nat \subseteq I
  BY <1>1, <1>2, SetInduction
<1> QED
  BY <1>3 DEF I

-----------------------------------------------------------------------------
(* Concatenations. *)

(* A function defined on 1 .. N from its value at the number before exists. *)
LEMMA Concatenations ==
  ASSUME NEW s, NEW N \in Nat
  PROVE  \E g : g = [i \in 1 .. N |-> IF i = 1 THEN s[i] ELSE g[i - 1] \o s[i]]
<1> DEFINE Step(g, i) == IF i = 1 THEN s[i] ELSE g[i - 1] \o s[i]
           I == {n \in Nat : \E g : g = [i \in 1 .. n |-> Step(g, i)]}
<1>1. 0 \in I
  <2> DEFINE g == [i \in 1 .. 0 |-> s[i]]
             h == [i \in 1 .. 0 |-> Step(g, i)]
  <2>1. DOMAIN g = {} /\ DOMAIN h = {}
    OBVIOUS
  <2>2. g = h
    BY <2>1
  <2> QED
    BY <2>2
<1>2. ASSUME NEW n \in Nat, n \in I PROVE n + 1 \in I
  <2>1. PICK g : g = [i \in 1 .. n |-> Step(g, i)]
    BY <1>2
  <2>2. PICK m \in Nat : m = n + 1
    OBVIOUS
  <2>3. PICK h : h = [i \in 1 .. m |-> Step(g, i)]
    OBVIOUS
  <2>4. \A i \in 1 .. n : h[i] = g[i]
    <3> SUFFICES ASSUME NEW i \in 1 .. n PROVE h[i] = g[i]
      OBVIOUS
    <3>1. i \in 1 .. m
      BY <2>2
    <3> HIDE DEF Step
    <3>2. h[i] = Step(g, i) 
      BY <2>3, <3>1
    <3>3. g[i] = Step(g, i)
      BY <2>1
    <3> QED
      BY <3>2, <3>3
  <2>5. \A i \in 1 .. m : Step(h, i) = Step(g, i)
    <3> SUFFICES ASSUME NEW i \in 1 .. m, i # 1 PROVE h[i - 1] = g[i - 1]
      OBVIOUS
    <3>1. i - 1 \in 1 .. n
      BY <2>2
    <3> QED
      BY <2>4, <3>1
  <2> HIDE DEF Step
  <2>6. h = [i \in 1 .. m |-> Step(h, i)]
    BY <2>3, <2>5
  <2> QED
    BY <2>2, <2>6
<1> HIDE DEF I
<1>3. Nat \subseteq I
  BY <1>1, <1>2, SetInduction
<1> QED
  BY <1>3 DEF I

(* f maps every n to the concatenation of the first n elements of s. *)
Accumulates(f, s, X) ==
  /\ f \in [1 .. Len(s) -> Seq(X)]
  /\ f[1] = s[1]
  /\ \A i, h \in 1 .. Len(s) : i - h = 1 => f[i] = f[h] \o s[i]

(* FlattenSeq(s) is the last of the concatenations of the first elements of s. *)
LEMMA FlattenSteps ==
  ASSUME NEW X, NEW s \in Seq(Seq(X)), Len(s) # 0
  PROVE  \E f : Accumulates(f, s, X) /\ FlattenSeq(s) = f[Len(s)]
<1> DEFINE Step(g, i) == IF i = 1 THEN s[i] ELSE g[i - 1] \o s[i]
           f == CHOOSE g : g = [i \in 1 .. Len(s) |-> Step(g, i)]
<1>1. FlattenSeq(s) = f[Len(s)]
  BY DEF FlattenSeq
<1>2. PICK N \in Nat : N = Len(s) /\ N # 0
  OBVIOUS
<1>3. \E g : g = [i \in 1 .. Len(s) |-> Step(g, i)]
  BY <1>2, Concatenations
<1>4. f = [i \in 1 .. Len(s) |-> Step(f, i)]
  BY <1>3
<1> HIDE DEF f
<1>5. f[1] = s[1]
  BY <1>2, <1>4
<1>6. \A i, h \in 1 .. Len(s) : i - h = 1 => f[i] = f[h] \o s[i]
  <2> SUFFICES ASSUME NEW i \in 1 .. Len(s), NEW h \in 1 .. Len(s), i - h = 1
               PROVE  f[i] = f[h] \o s[i]
    OBVIOUS
  <2>1. i # 1 /\ i - 1 = h
    BY <1>2
  <2> QED
    BY <1>4, <2>1
<1>7. \A n \in 1 .. Len(s) : f[n] \in Seq(X)
  <2> DEFINE I == {n \in Nat : n \in 1 .. N => f[n] \in Seq(X)}
  <2>1. 0 \in I
    OBVIOUS
  <2>2. ASSUME NEW n \in Nat, n \in I PROVE n + 1 \in I
    <3>1. PICK m \in Nat : m = n + 1
      OBVIOUS
    <3> SUFFICES ASSUME m \in 1 .. N PROVE f[m] \in Seq(X)
      BY <3>1
    <3>2. s[m] \in Seq(X)
      BY <1>2
    <3>3. CASE m = 1
      BY <1>5, <3>2, <3>3
    <3>4. CASE m # 1
      <4>1. n \in 1 .. N /\ m - n = 1
        BY <3>1, <3>4
      <4>2. f[n] \in Seq(X)
        BY <2>2, <4>1
      <4>3. f[m] = f[n] \o s[m]
        BY <1>2, <1>6, <4>1
      <4> QED
        BY <3>2, <4>2, <4>3
    <3> QED
      BY <3>3, <3>4
  <2> HIDE DEF I
  <2>3. Nat \subseteq I
    BY <2>1, <2>2, SetInduction
  <2> QED
    BY <1>2, <2>3 DEF I
<1> HIDE DEF Step
<1>8. f \in [1 .. Len(s) -> Seq(X)]
  BY <1>4, <1>7
<1> QED
  BY <1>1, <1>5, <1>6, <1>8 DEF Accumulates

(* Appending a sequence appends its elements to the concatenation. *)
LEMMA FlattenAppend ==
  ASSUME NEW X, NEW s \in Seq(Seq(X)), NEW e \in Seq(X)
  PROVE  FlattenSeq(Append(s, e)) = FlattenSeq(s) \o e
<1>1. PICK t : t = Append(s, e)
  OBVIOUS
<1>2. PICK N \in Nat : N = Len(s)
  OBVIOUS
<1>3. PICK M \in Nat : M = N + 1
  OBVIOUS
<1>4. /\ t \in Seq(Seq(X)) /\ Len(t) = M /\ Len(t) # 0 /\ t[M] = e
      /\ \A i \in 1 .. N : t[i] = s[i]
  BY <1>1, <1>2, <1>3
<1>5. PICK g :
           /\ g \in [1 .. M -> Seq(X)]
           /\ FlattenSeq(t) = g[M]
           /\ g[1] = t[1]
           /\ \A i, h \in 1 .. M : i - h = 1 => g[i] = g[h] \o t[i]
  <2>1. PICK g : Accumulates(g, t, X) /\ FlattenSeq(t) = g[Len(t)]
    BY <1>4, FlattenSteps
  <2> QED
    BY <1>4, <2>1 DEF Accumulates
<1>6. CASE N = 0
  <2>1. FlattenSeq(t) = e
    BY <1>3, <1>4, <1>5, <1>6
  <2>2. s = <<>>
    BY <1>2, <1>6, EmptySeq
  <2>3. FlattenSeq(s) = <<>>
    BY <2>2 DEF FlattenSeq
  <2> QED
    BY <1>1, <2>1, <2>3
<1>7. CASE N # 0
  <2>1. PICK f :
           /\ f \in [1 .. N -> Seq(X)]
           /\ FlattenSeq(s) = f[N]
           /\ f[1] = s[1]
           /\ \A i, h \in 1 .. N : i - h = 1 => f[i] = f[h] \o s[i]
    <3>1. PICK f : Accumulates(f, s, X) /\ FlattenSeq(s) = f[Len(s)]
      BY <1>2, <1>7, FlattenSteps
    <3> QED
      BY <1>2, <3>1 DEF Accumulates
  <2> DEFINE I == {n \in Nat : n \in 1 .. N => f[n] = g[n]}
  <2>2. 0 \in I
    OBVIOUS
  <2>3. ASSUME NEW n \in Nat, n \in I PROVE n + 1 \in I
    <3>1. PICK m \in Nat : m = n + 1
      OBVIOUS
    <3> SUFFICES ASSUME m \in 1 .. N PROVE f[m] = g[m]
      BY <3>1
    <3>2. CASE m = 1
      BY <1>4, <1>5, <2>1, <3>2
    <3>3. CASE m # 1
      <4>1. n \in 1 .. N /\ m - n = 1 /\ m \in 1 .. M /\ n \in 1 .. M
        BY <1>3, <3>1, <3>3
      <4>2. f[m] = f[n] \o s[m]
        BY <2>1, <4>1
      <4>3. g[m] = g[n] \o t[m]
        BY <1>5, <4>1
      <4>4. f[n] = g[n] /\ t[m] = s[m]
        BY <1>4, <2>3, <4>1
      <4> QED
        BY <4>2, <4>3, <4>4
    <3> QED
      BY <3>2, <3>3
  <2> HIDE DEF I
  <2>4. Nat \subseteq I
    BY <2>2, <2>3, SetInduction
  <2>5. f[N] = g[N]
    BY <1>7, <2>4 DEF I
  <2>6. M \in 1 .. M /\ N \in 1 .. M /\ M - N = 1
    BY <1>3, <1>7
  <2>7. g[M] = g[N] \o e
    BY <1>4, <1>5, <2>6
  <2> QED
    BY <1>1, <1>5, <2>1, <2>5, <2>7
<1> QED
  BY <1>6, <1>7

(* The concatenation of no sequence is empty, and that of any is a sequence. *)
LEMMA FlattenType ==
  ASSUME NEW X
  PROVE  /\ FlattenSeq(<<>>) = <<>>
         /\ \A s \in Seq(Seq(X)) : FlattenSeq(s) \in Seq(X)
<1>1. FlattenSeq(<<>>) = <<>>
  BY DEF FlattenSeq
<1>2. ASSUME NEW s \in Seq(Seq(X)) PROVE FlattenSeq(s) \in Seq(X)
  <2>1. CASE Len(s) = 0
    <3>1. s = <<>>
      BY <2>1, EmptySeq
    <3> QED
      BY <1>1, <3>1, EmptySeq
  <2>2. CASE Len(s) # 0
    <3>1. PICK f : Accumulates(f, s, X) /\ FlattenSeq(s) = f[Len(s)]
      BY <2>2, FlattenSteps
    <3>2. Len(s) \in 1 .. Len(s)
      BY <2>2
    <3> QED
      BY <3>1, <3>2 DEF Accumulates
  <2> QED
    BY <2>1, <2>2
<1> QED
  BY <1>1, <1>2
-----------------------------------------------------------------------------
(* Folds. *)

(* it maps each part of S to the fold of G over it: C says which element comes last. *)
Folds(it, S, C, G, base) ==
  it = [s \in SUBSET S |-> IF s = {} THEN base ELSE G[C[s]][it[s \ {C[s]}]]]

Folding(S, C, G, base, D) == \E it \in [SUBSET S -> D] : Folds(it, S, C, G, base)

(* A fold over a finite set exists, and its values are those of the operation. *)
LEMMA FoldExists ==
  ASSUME NEW S, IsFiniteSet(S), NEW D, NEW base \in D, NEW G \in [S -> [D -> D]],
         NEW C, \A s \in SUBSET S : s # {} => C[s] \in s
  PROVE  Folding(S, C, G, base, D)
<1> DEFINE Layer(k) == {s \in SUBSET S : Cardinality(s) <= k}
           Val(it, s) == IF s = {} THEN base ELSE G[C[s]][it[s \ {C[s]}]]
           Good(it, k) == it \in [Layer(k) -> D] /\ \A s \in Layer(k) : it[s] = Val(it, s)
           I == {k \in Nat : \E it : Good(it, k)}
<1>1. \A s \in SUBSET S : IsFiniteSet(s) /\ Cardinality(s) \in Nat
  BY FS_Subset, FS_CardinalityType
<1>2. \A s \in SUBSET S : s # {} =>
        /\ C[s] \in S /\ s \ {C[s]} \in SUBSET S
        /\ Cardinality(s \ {C[s]}) = Cardinality(s) - 1
  BY <1>1, FS_RemoveElement
<1>3. 0 \in I
  <2>1. Layer(0) = {{}}
    <3>1. ASSUME NEW s \in Layer(0) PROVE s = {}
      <4>1. Cardinality(s) = 0 /\ IsFiniteSet(s)
        BY <1>1
      <4> QED
        BY <4>1, FS_EmptySet
    <3>2. {} \in Layer(0)
      BY FS_EmptySet
    <3> QED
      BY <3>1, <3>2
  <2> HIDE DEF Layer
  <2>2. PICK it : it = [s \in Layer(0) |-> base]
    OBVIOUS
  <2>3. Good(it, 0)
    BY <2>1, <2>2
  <2> QED
    BY <2>3
<1>4. ASSUME NEW k \in Nat, k \in I PROVE k + 1 \in I
  <2>1. PICK g : Good(g, k)
    BY <1>4
  <2>2. PICK m \in Nat : m = k + 1
    OBVIOUS
  <2>3. PICK h : h = [s \in Layer(m) |-> Val(g, s)]
    OBVIOUS
  <2>4. \A s \in Layer(m) : s # {} => s \ {C[s]} \in Layer(k)
    BY <1>1, <1>2, <2>2
  <2>5. \A s \in Layer(k) : s \in Layer(m)
    BY <1>1, <2>2
  <2> HIDE DEF Layer
  <2>6. \A s \in Layer(k) : h[s] = g[s]
    BY <2>1, <2>3, <2>5
  <2>7. \A s \in Layer(m) : Val(g, s) \in D
    <3> SUFFICES ASSUME NEW s \in Layer(m), s # {} PROVE G[C[s]][g[s \ {C[s]}]] \in D
      OBVIOUS
    <3>1. g[s \ {C[s]}] \in D
      BY <2>1, <2>4
    <3>2. C[s] \in S
      BY <1>2 DEF Layer
    <3> QED
      BY <3>1, <3>2
  <2>8. h \in [Layer(m) -> D]
    BY <2>3, <2>7
  <2>9. \A s \in Layer(m) : Val(h, s) = Val(g, s)
    BY <2>4, <2>6
  <2>10. \A s \in Layer(m) : h[s] = Val(h, s)
    <3> HIDE DEF Val
    <3> QED
      BY <2>3, <2>9
  <2>11. Good(h, m)
    BY <2>8, <2>10
  <2> QED
    BY <2>2, <2>11
<1>5. \E it : Good(it, Cardinality(S))
  <2> HIDE DEF I
  <2>1. Nat \subseteq I
    BY <1>3, <1>4, SetInduction
  <2>2. Cardinality(S) \in I
    BY <1>1, <2>1
  <2> QED
    BY <2>2 DEF I
<1>6. Layer(Cardinality(S)) = SUBSET S
  <2>1. \A s \in SUBSET S : Cardinality(s) <= Cardinality(S)
    BY FS_Subset
  <2> QED
    BY <2>1
<1>7. PICK it : it \in [SUBSET S -> D] /\ \A s \in SUBSET S : it[s] = Val(it, s)
  BY <1>5, <1>6
<1>8. it = [s \in SUBSET S |-> Val(it, s)]
  <2> HIDE DEF Val
  <2> QED
    BY <1>7
<1> QED
  BY <1>7, <1>8 DEF Folds, Folding

(* The largest of the first m numbers is m. *)
LEMMA MaxInterval ==
  /\ \A n \in Nat : \A s \in SUBSET (1 .. n) : s # {} => Max(s) \in s
  /\ \A m, h \in Nat : m - h = 1 => Max(1 .. m) = m /\ (1 .. m) \ {m} = 1 .. h
<1>1. ASSUME NEW n \in Nat, NEW s \in SUBSET (1 .. n), s # {} PROVE Max(s) \in s
  <2>1. PICK i \in s : \A h \in s : h <= i
    BY <1>1, LargestExists
  <2>2. \A y \in s : i >= y
    BY <2>1
  <2> QED
    BY <2>2 DEF Max
<1>2. ASSUME NEW m \in Nat, NEW h \in Nat, m - h = 1 PROVE Max(1 .. m) = m /\ (1 .. m) \ {m} = 1 .. h
  <2>1. m \in 1 .. m /\ \A y \in 1 .. m : m >= y
    BY <1>2
  <2>2. \A x \in 1 .. m : (\A y \in 1 .. m : x >= y) => x = m
    BY <2>1
  <2> QED
    BY <1>2, <2>1, <2>2 DEF Max
<1> QED
  BY <1>1, <1>2

(* The folds from the left of the first elements of a sequence of n elements, by the
   set of their indices. *)
LeftFolds(it, n, G, base) ==
  \A t \in SUBSET (1 .. n) : it[t] = IF t = {} THEN base ELSE G[Max(t)][it[t \ {Max(t)}]]

(* Such folds exist, ... *)
LEMMA LeftFoldExists ==
  ASSUME NEW n \in Nat, NEW D, NEW base \in D, NEW G \in [1 .. n -> [D -> D]]
  PROVE  \E g : g \in [SUBSET (1 .. n) -> D] /\ LeftFolds(g, n, G, base)
<1>1. PICK C : C = [t \in SUBSET (1 .. n) |-> Max(t)]
  OBVIOUS
<1>2. PICK S : S = 1 .. n
  OBVIOUS
<1>3. \A t \in SUBSET S : t # {} => C[t] \in t
  BY <1>1, <1>2, MaxInterval
<1>4. IsFiniteSet(S) /\ G \in [S -> [D -> D]]
  BY <1>2, FS_Interval
<1>5. Folding(S, C, G, base, D)
  BY <1>3, <1>4, FoldExists
<1>6. PICK g \in [SUBSET S -> D] : Folds(g, S, C, G, base)
  BY <1>5 DEF Folding
<1>7. LeftFolds(g, n, G, base)
  BY <1>1, <1>2, <1>6 DEF Folds, LeftFolds
<1> QED
  BY <1>2, <1>6, <1>7

(* ... and follow from each other: f maps i to the fold of the first i elements. *)
Scans(f, it, n) ==
  /\ f[0] = it[{}] /\ f[n] = it[1 .. n] /\ {} \in SUBSET (1 .. n)
  /\ \A i, h \in 0 .. n : i - h = 1 =>
       /\ i \in 1 .. n /\ (1 .. i) \in SUBSET (1 .. n) /\ 1 .. i # {} /\ Max(1 .. i) = i
       /\ f[i] = it[1 .. i] /\ f[h] = it[(1 .. i) \ {Max(1 .. i)}]

LEMMA LeftScan ==
  ASSUME NEW n \in Nat, NEW it
  PROVE  \E f : Scans(f, it, n)
<1>1. PICK f : f = [i \in 0 .. n |-> it[1 .. i]]
  OBVIOUS
<1>2. f[0] = it[{}] /\ {} \in SUBSET (1 .. n) /\ f[n] = it[1 .. n]
  <2>1. 1 .. 0 = {} /\ 0 \in 0 .. n /\ n \in 0 .. n
    OBVIOUS
  <2> QED
    BY <1>1, <2>1
<1>3. ASSUME NEW i \in 0 .. n, NEW h \in 0 .. n, i - h = 1
      PROVE  /\ i \in 1 .. n /\ (1 .. i) \in SUBSET (1 .. n) /\ 1 .. i # {} /\ Max(1 .. i) = i
             /\ f[i] = it[1 .. i] /\ f[h] = it[(1 .. i) \ {Max(1 .. i)}]
  <2>1. i \in Nat /\ h \in Nat /\ i \in 1 .. i /\ i \in 1 .. n
    BY <1>3
  <2>2. Max(1 .. i) = i /\ (1 .. i) \ {i} = 1 .. h
    BY <1>3, <2>1, MaxInterval
  <2>3. f[i] = it[1 .. i] /\ f[h] = it[1 .. h]
    BY <1>1
  <2>4. (1 .. i) \in SUBSET (1 .. n)
    BY <2>1
  <2> QED
    BY <2>1, <2>2, <2>3, <2>4
<1>4. Scans(f, it, n)
  BY <1>2, <1>3 DEF Scans
<1> QED
  BY <1>4

-----------------------------------------------------------------------------
(* Sums. *)

(* The sum of F over each part of S, an element of the part being taken first. *)
SumsOf(it, S, F) ==
  /\ it \in [SUBSET S -> Int]
  /\ \A s \in SUBSET S :
       it[s] = IF s = {} THEN 0
               ELSE F[CHOOSE x \in s : TRUE] + it[s \ {CHOOSE x \in s : TRUE}]

LEMMA SumsExist ==
  ASSUME NEW S, IsFiniteSet(S), NEW F \in [S -> Int]
  PROVE  \E it : SumsOf(it, S, F)
<1>1. PICK C : C = [s \in SUBSET S |-> CHOOSE x \in s : TRUE]
  OBVIOUS
<1>2. PICK G : G = [x \in S |-> [y \in Int |-> F[x] + y]]
  OBVIOUS
<1>3. G \in [S -> [Int -> Int]] /\ 0 \in Int
  BY <1>2
<1>4. \A s \in SUBSET S : s # {} => C[s] \in s
  BY <1>1
<1>5. Folding(S, C, G, 0, Int)
  BY <1>3, <1>4, FoldExists
<1>6. PICK it \in [SUBSET S -> Int] : Folds(it, S, C, G, 0)
  BY <1>5 DEF Folding
<1>7. ASSUME NEW s \in SUBSET S
      PROVE  it[s] = IF s = {} THEN 0
                     ELSE F[CHOOSE x \in s : TRUE] + it[s \ {CHOOSE x \in s : TRUE}]
  <2>1. it[s] = IF s = {} THEN 0 ELSE G[C[s]][it[s \ {C[s]}]]
    BY <1>6 DEF Folds
  <2>2. CASE s # {}
    <3>1. PICK c \in s : c = C[s] /\ c = CHOOSE x \in s : TRUE
      BY <1>1, <1>4, <2>2
    <3>2. G[c][it[s \ {c}]] = F[c] + it[s \ {c}]
      BY <1>2, <1>6
    <3> QED
      BY <2>1, <2>2, <3>1, <3>2
  <2> QED
    BY <2>1, <2>2
<1> QED
  BY <1>6, <1>7 DEF SumsOf

(* It does not matter in which order the numbers are added. *)
AddsUp(it, S, F) ==
  \A t \in SUBSET S, x \in S : x \notin t => it[t \cup {x}] = it[t] + F[x]

LEMMA SumsAdd ==
  ASSUME NEW S, IsFiniteSet(S), NEW F \in [S -> Int], NEW it, SumsOf(it, S, F)
  PROVE  AddsUp(it, S, F)
<1> DEFINE I == {k \in Nat : \A s \in SUBSET S : Cardinality(s) = k =>
                   \A y \in S \ s : it[s \cup {y}] = it[s] + F[y]}
<1>1. \A s \in SUBSET S : IsFiniteSet(s) /\ Cardinality(s) \in Nat
  BY FS_Subset, FS_CardinalityType
<1>2. ASSUME NEW k \in Nat, k = 0 \/ \E h \in I : k - h = 1
      PROVE  k \in I
  <2> SUFFICES ASSUME NEW s \in SUBSET S, Cardinality(s) = k, NEW y \in S \ s
               PROVE  it[s \cup {y}] = it[s] + F[y]
    OBVIOUS
  <2>1. PICK u \in SUBSET S : u = s \cup {y} /\ u # {}
    <3>1. s \cup {y} \in SUBSET S
      OBVIOUS
    <3>2. y \in s \cup {y}
      OBVIOUS
    <3>3. s \cup {y} # {}
      BY <3>2
    <3> QED
      BY <3>1, <3>3
  <2>2. PICK c \in u : c = CHOOSE z \in u : TRUE
    BY <2>1
  <2>3. it[u] = F[c] + it[u \ {c}]
    BY <2>1, <2>2 DEF SumsOf
  <2>4. it[s] \in Int /\ F[y] \in Int
    BY DEF SumsOf
  <2>5. CASE c = y
    <3>1. u \ {c} = s
      BY <2>1, <2>5
    <3>2. it[u] = F[y] + it[s]
      BY <2>3, <2>5, <3>1
    <3>3. it[u] = it[s] + F[y]
      BY <2>4, <3>2
    <3> QED
      BY <2>1, <3>3
  <2>6. CASE c # y
    <3>1. PICK r \in SUBSET S : r = s \ {c} /\ c \in s
      BY <2>1, <2>2, <2>6
    <3>2. Cardinality(r) = k - 1 /\ k # 0
      <4>1. s # {} /\ IsFiniteSet(s)
        BY <1>1, <3>1
      <4> QED
        BY <3>1, <4>1, FS_RemoveElement, FS_EmptySet
    <3>3. PICK h \in I : k - h = 1
      BY <1>2, <3>2
    <3>4. Cardinality(r) = h /\ h \in Nat
      BY <3>2, <3>3
    <3>5. it[r \cup {y}] = it[r] + F[y]
      BY <3>1, <3>3, <3>4
    <3>6. it[r \cup {c}] = it[r] + F[c]
      BY <3>1, <3>3, <3>4
    <3>7. u \ {c} = r \cup {y} /\ s = r \cup {c}
      BY <2>1, <2>6, <3>1
    <3>8. it[r] \in Int /\ F[c] \in Int
      BY <2>1, <2>2 DEF SumsOf
    <3>9. it[u] = F[c] + it[r \cup {y}] /\ it[s] = it[r \cup {c}]
      BY <2>3, <3>7
    <3>10. it[u] = it[s] + F[y]
      BY <2>4, <3>5, <3>6, <3>8, <3>9
    <3> QED
      BY <2>1, <3>10
  <2> QED
    BY <2>5, <2>6
<1> HIDE DEF I
<1>3. 0 \in I
  BY <1>2
<1>4. \A k \in Nat : k \in I => k + 1 \in I
  <2> SUFFICES ASSUME NEW k \in Nat, k \in I PROVE k + 1 \in I
    OBVIOUS
  <2>1. PICK m \in Nat : m = k + 1
    OBVIOUS
  <2>2. m \in I
    BY <1>2, <2>1
  <2> QED
    BY <2>1, <2>2
<1>5. Nat \subseteq I
  BY <1>3, <1>4, SetInduction
<1> SUFFICES ASSUME NEW t \in SUBSET S, NEW x \in S \ t PROVE it[t \cup {x}] = it[t] + F[x]
  BY DEF AddsUp
<1>6. Cardinality(t) \in I
  BY <1>1, <1>5
<1> QED
  BY <1>6 DEF I

(* Two sums over the parts of a set and of a larger one agree on the parts of both. *)
SumsWithin(sum, T, F) ==
  \A s \in SUBSET T :
    sum[s] = IF s = {} THEN 0
             ELSE F[CHOOSE x \in s : TRUE] + sum[s \ {CHOOSE x \in s : TRUE}]

SumsTo(it, S, F) == \A T \in SUBSET S : \A sum : SumsWithin(sum, T, F) => sum[T] = it[T]

LEMMA SumsAgree ==
  ASSUME NEW S, IsFiniteSet(S), NEW F \in [S -> Int], NEW it, SumsOf(it, S, F)
  PROVE  SumsTo(it, S, F)
<1> SUFFICES ASSUME NEW T \in SUBSET S, NEW sum, SumsWithin(sum, T, F) PROVE sum[T] = it[T]
  BY DEF SumsTo
<1> DEFINE I == {k \in Nat : \A s \in SUBSET T : Cardinality(s) = k => sum[s] = it[s]}
<1>1. \A s \in SUBSET T : IsFiniteSet(s) /\ Cardinality(s) \in Nat
  BY FS_Subset, FS_CardinalityType
<1>2. ASSUME NEW k \in Nat, k = 0 \/ \E h \in I : k - h = 1
      PROVE  k \in I
  <2> SUFFICES ASSUME NEW s \in SUBSET T, Cardinality(s) = k PROVE sum[s] = it[s]
    OBVIOUS
  <2>1. CASE s = {}
    BY <2>1 DEF SumsOf, SumsWithin
  <2>2. CASE s # {}
    <3>1. PICK c \in s : c = CHOOSE z \in s : TRUE
      BY <2>2
    <3>2. sum[s] = F[c] + sum[s \ {c}] /\ it[s] = F[c] + it[s \ {c}]
      BY <2>2, <3>1 DEF SumsOf, SumsWithin
    <3>3. Cardinality(s \ {c}) = k - 1 /\ k # 0
      <4>1. IsFiniteSet(s) /\ Cardinality(s) = k
        BY <1>1
      <4>2. Cardinality(s \ {c}) = Cardinality(s) - 1
        BY <3>1, <4>1, FS_RemoveElement
      <4>3. Cardinality(s) # 0
        BY <2>2, <4>1, FS_EmptySet
      <4> QED
        BY <4>1, <4>2, <4>3
    <3>4. PICK h \in I : k - h = 1
      BY <1>2, <3>3
    <3>5. Cardinality(s \ {c}) = h /\ h \in Nat
      BY <3>3, <3>4
    <3>6. sum[s \ {c}] = it[s \ {c}]
      BY <3>4, <3>5
    <3> QED
      BY <3>2, <3>6
  <2> QED
    BY <2>1, <2>2
<1> HIDE DEF I
<1>3. 0 \in I
  BY <1>2
<1>4. \A k \in Nat : k \in I => k + 1 \in I
  <2> SUFFICES ASSUME NEW k \in Nat, k \in I PROVE k + 1 \in I
    OBVIOUS
  <2>1. PICK m \in Nat : m = k + 1
    OBVIOUS
  <2>2. m \in I
    BY <1>2, <2>1
  <2> QED
    BY <2>1, <2>2
<1>5. Nat \subseteq I
  BY <1>3, <1>4, SetInduction
<1>6. Cardinality(T) \in I
  BY <1>1, <1>5
<1> QED
  BY <1>6 DEF I

-----------------------------------------------------------------------------
(* The recursion of an operation over the numbers: what it is after n steps. *)
Repeats(f, base, G) == f = [n \in Nat |-> IF n = 0 THEN base ELSE G[f[n - 1]]]

(* Such a function exists, for every operation on a set. *)
LEMMA RepeatsExist ==
  ASSUME NEW D, NEW base \in D, NEW G \in [D -> D]
  PROVE  \E f \in [Nat -> D] : Repeats(f, base, G)
<1> DEFINE Upto(g, n) == /\ g \in [0 .. n -> D] /\ g[0] = base
                         /\ \A i, h \in 0 .. n : i - h = 1 => g[i] = G[g[h]]
           I == {n \in Nat : \E g : Upto(g, n)}
<1>1. 0 \in I
  <2>1. Upto([i \in 0 .. 0 |-> base], 0)
    OBVIOUS
  <2> QED
    BY <2>1
<1>2. ASSUME NEW n \in Nat, n \in I
      PROVE  n + 1 \in I
  <2>1. PICK g : Upto(g, n)
    BY <1>2
  <2>2. PICK m \in Nat : m - n = 1 /\ m = n + 1
    OBVIOUS
  <2> DEFINE e == [i \in 0 .. m |-> IF i = m THEN G[g[n]] ELSE g[i]]
  <2>3. \A i \in 0 .. n : i \in 0 .. m /\ i # m /\ e[i] = g[i] /\ g[i] \in D
    BY <2>1, <2>2
  <2>4. n \in 0 .. n /\ m \in 0 .. m /\ 0 \in 0 .. n
    OBVIOUS
  <2>5. e[m] = G[g[n]] /\ G[g[n]] \in D
    BY <2>3, <2>4
  <2>6. e \in [0 .. m -> D]
    <3>1. \A i \in 0 .. m : i = m \/ i \in 0 .. n
      BY <2>2
    <3> QED
      BY <3>1, <2>3, <2>5
  <2>7. e[0] = base
    BY <2>1, <2>3, <2>4
  <2>8. ASSUME NEW i \in 0 .. m, NEW h \in 0 .. m, i - h = 1
        PROVE  e[i] = G[e[h]]
    <3>1. h \in 0 .. n
      BY <2>2, <2>8
    <3>2. CASE i = m
      <4>1. h = n
        BY <2>2, <2>8, <3>2
      <4> QED
        BY <4>1, <3>2, <2>3, <2>4, <2>5
    <3>3. CASE i # m
      <4>1. i \in 0 .. n
        BY <2>2, <3>3
      <4>2. g[i] = G[g[h]]
        BY <2>1, <2>8, <3>1, <4>1
      <4> QED
        BY <2>3, <3>1, <4>1, <4>2
    <3> QED
      BY <3>2, <3>3
  <2> HIDE DEF e
  <2>9. Upto(e, m)
    BY <2>6, <2>7, <2>8
  <2> QED
    BY <2>2, <2>9
<1>3. Nat \subseteq I
  <2> HIDE DEF I
  <2> QED
    BY <1>1, <1>2, SetInduction
<1>4. ASSUME NEW n \in Nat, NEW g, Upto(g, n), NEW m \in Nat, NEW e, Upto(e, m)
      PROVE  \A i \in Nat : i \in 0 .. n /\ i \in 0 .. m => g[i] = e[i]
  <2> DEFINE J == {i \in Nat : i \in 0 .. n /\ i \in 0 .. m => g[i] = e[i]}
  <2>1. 0 \in J
    BY <1>4
  <2>2. ASSUME NEW h \in Nat, h \in J PROVE h + 1 \in J
    <3>1. SUFFICES ASSUME h + 1 \in 0 .. n, h + 1 \in 0 .. m PROVE g[h + 1] = e[h + 1]
      OBVIOUS
    <3>2. PICK i \in Nat : i = h + 1 /\ i - h = 1
      OBVIOUS
    <3>3. h \in 0 .. n /\ h \in 0 .. m /\ i \in 0 .. n /\ i \in 0 .. m
      BY <3>1, <3>2
    <3>4. g[i] = G[g[h]] /\ e[i] = G[e[h]]
      BY <1>4, <3>2, <3>3
    <3> QED
      BY <2>2, <3>2, <3>3, <3>4
  <2>3. Nat \subseteq J
    <3> HIDE DEF J
    <3> QED
      BY <2>1, <2>2, SetInduction
  <2> QED
    BY <2>3
<1> DEFINE up == [n \in Nat |-> CHOOSE g : Upto(g, n)]
           f == [n \in Nat |-> up[n][n]]
<1>5. \A n \in Nat : Upto(up[n], n)
  BY <1>3
<1> HIDE DEF up
<1>6. f \in [Nat -> D]
  <2>1. \A n \in Nat : n \in 0 .. n
    OBVIOUS
  <2> QED
    BY <1>5, <2>1
<1>7. f[0] = base
  BY <1>5
<1>8. ASSUME NEW n \in Nat, n # 0
      PROVE  f[n] = G[f[n - 1]]
  <2>1. PICK h \in Nat : h = n - 1 /\ n - h = 1 /\ h \in 0 .. n /\ h \in 0 .. h /\ n \in 0 .. n
    BY <1>8
  <2>2. Upto(up[n], n) /\ Upto(up[h], h)
    BY <1>5
  <2>3. up[n][n] = G[up[n][h]]
    BY <2>1, <2>2
  <2> HIDE DEF Upto
  <2>4. up[n][h] = up[h][h]
    BY <2>1, <2>2, <1>4
  <2> QED
    BY <2>1, <2>3, <2>4
<1> HIDE DEF f
<1>9. f = [n \in Nat |-> IF n = 0 THEN base ELSE G[f[n - 1]]]
  <2>1. f = [n \in Nat |-> f[n]]
    BY <1>6
  <2> QED
    BY <2>1, <1>7, <1>8
<1> QED
  BY <1>6, <1>9 DEF Repeats

-----------------------------------------------------------------------------
(* Products. *)
Mul(a, b) == a * b

LEMMA MulType == ASSUME NEW a \in Int, NEW b \in Int PROVE Mul(a, b) \in Int
BY DEF Mul

LEMMA MulCommutes == ASSUME NEW a \in Int, NEW b \in Int PROVE Mul(a, b) = Mul(b, a)
BY DEF Mul

LEMMA MulAssociates ==
  ASSUME NEW a \in Int, NEW b \in Int, NEW c \in Int
  PROVE  Mul(a, Mul(b, c)) = Mul(Mul(a, b), c)
BY DEF Mul

LEMMA MulSwaps ==
  ASSUME NEW a \in Int, NEW b \in Int, NEW c \in Int
  PROVE  Mul(a, Mul(b, c)) = Mul(Mul(b, a), c)
<1>1. Mul(a, Mul(b, c)) = Mul(Mul(a, b), c)
  BY MulAssociates
<1> QED
  BY <1>1, MulCommutes

(* The product of F over each part of S, an element of the part being taken first. *)
ProductsOf(it, S, F) ==
  /\ it \in [SUBSET S -> Int]
  /\ \A s \in SUBSET S :
       it[s] = IF s = {} THEN 1
               ELSE Mul(F[CHOOSE x \in s : TRUE], it[s \ {CHOOSE x \in s : TRUE}])

LEMMA ProductsExist ==
  ASSUME NEW S, IsFiniteSet(S), NEW F \in [S -> Int]
  PROVE  \E it : ProductsOf(it, S, F)
<1>1. PICK C : C = [s \in SUBSET S |-> CHOOSE x \in s : TRUE]
  OBVIOUS
<1>2. PICK G : G = [x \in S |-> [y \in Int |-> Mul(F[x], y)]]
  OBVIOUS
<1>3. G \in [S -> [Int -> Int]] /\ 1 \in Int
  BY <1>2, MulType
<1>4. \A s \in SUBSET S : s # {} => C[s] \in s
  BY <1>1
<1>5. Folding(S, C, G, 1, Int)
  BY <1>3, <1>4, FoldExists
<1>6. PICK it \in [SUBSET S -> Int] : Folds(it, S, C, G, 1)
  BY <1>5 DEF Folding
<1>7. ASSUME NEW s \in SUBSET S
      PROVE  it[s] = IF s = {} THEN 1
                     ELSE Mul(F[CHOOSE x \in s : TRUE], it[s \ {CHOOSE x \in s : TRUE}])
  <2>1. it[s] = IF s = {} THEN 1 ELSE G[C[s]][it[s \ {C[s]}]]
    BY <1>6 DEF Folds
  <2>2. CASE s # {}
    <3>1. PICK c \in s : c = C[s] /\ c = CHOOSE x \in s : TRUE
      BY <1>1, <1>4, <2>2
    <3>2. G[c][it[s \ {c}]] = Mul(F[c], it[s \ {c}])
      BY <1>2, <1>6
    <3> QED
      BY <2>1, <2>2, <3>1, <3>2
  <2> QED
    BY <2>1, <2>2
<1> QED
  BY <1>6, <1>7 DEF ProductsOf

(* It does not matter in which order the numbers are multiplied. *)
MultipliesUp(it, S, F) ==
  \A t \in SUBSET S, x \in S : x \notin t => it[t \cup {x}] = Mul(it[t], F[x])

LEMMA ProductsAdd ==
  ASSUME NEW S, IsFiniteSet(S), NEW F \in [S -> Int], NEW it, ProductsOf(it, S, F)
  PROVE  MultipliesUp(it, S, F)
<1> DEFINE I == {k \in Nat : \A s \in SUBSET S : Cardinality(s) = k =>
                   \A y \in S \ s : it[s \cup {y}] = Mul(it[s], F[y])}
<1>1. \A s \in SUBSET S : IsFiniteSet(s) /\ Cardinality(s) \in Nat
  BY FS_Subset, FS_CardinalityType
<1>2. ASSUME NEW k \in Nat, k = 0 \/ \E h \in I : k - h = 1
      PROVE  k \in I
  <2> SUFFICES ASSUME NEW s \in SUBSET S, Cardinality(s) = k, NEW y \in S \ s
               PROVE  it[s \cup {y}] = Mul(it[s], F[y])
    OBVIOUS
  <2>1. PICK u \in SUBSET S : u = s \cup {y} /\ u # {}
    <3>1. s \cup {y} \in SUBSET S
      OBVIOUS
    <3>2. y \in s \cup {y}
      OBVIOUS
    <3>3. s \cup {y} # {}
      BY <3>2
    <3> QED
      BY <3>1, <3>3
  <2>2. PICK c \in u : c = CHOOSE z \in u : TRUE
    BY <2>1
  <2>3. it[u] = Mul(F[c], it[u \ {c}])
    BY <2>1, <2>2 DEF ProductsOf
  <2>4. it[s] \in Int /\ F[y] \in Int
    BY DEF ProductsOf
  <2>5. CASE c = y
    <3>1. u \ {c} = s
      BY <2>1, <2>5
    <3>2. it[u] = Mul(F[y], it[s])
      BY <2>3, <2>5, <3>1
    <3>3. it[u] = Mul(it[s], F[y])
      BY <2>4, <3>2, MulCommutes
    <3> QED
      BY <2>1, <3>3
  <2>6. CASE c # y
    <3>1. PICK r \in SUBSET S : r = s \ {c} /\ c \in s
      BY <2>1, <2>2, <2>6
    <3>2. Cardinality(r) = k - 1 /\ k # 0
      <4>1. s # {} /\ IsFiniteSet(s)
        BY <1>1, <3>1
      <4> QED
        BY <3>1, <4>1, FS_RemoveElement, FS_EmptySet
    <3>3. PICK h \in I : k - h = 1
      BY <1>2, <3>2
    <3>4. Cardinality(r) = h /\ h \in Nat
      BY <3>2, <3>3
    <3>5. it[r \cup {y}] = Mul(it[r], F[y])
      BY <3>1, <3>3, <3>4
    <3>6. it[r \cup {c}] = Mul(it[r], F[c])
      BY <3>1, <3>3, <3>4
    <3>7. u \ {c} = r \cup {y} /\ s = r \cup {c}
      BY <2>1, <2>6, <3>1
    <3>8. it[r] \in Int /\ F[c] \in Int
      BY <2>1, <2>2 DEF ProductsOf
    <3>9. it[u] = Mul(F[c], it[r \cup {y}]) /\ it[s] = it[r \cup {c}]
      BY <2>3, <3>7
    <3>10. it[u] = Mul(it[s], F[y])
      <4>1. Mul(F[c], Mul(it[r], F[y])) = Mul(Mul(it[r], F[c]), F[y])
        BY <2>4, <3>8, MulSwaps
      <4> QED
        BY <3>5, <3>6, <3>9, <4>1
    <3> QED
      BY <2>1, <3>10
  <2> QED
    BY <2>5, <2>6
<1> HIDE DEF I
<1>3. 0 \in I
  BY <1>2
<1>4. \A k \in Nat : k \in I => k + 1 \in I
  <2> SUFFICES ASSUME NEW k \in Nat, k \in I PROVE k + 1 \in I
    OBVIOUS
  <2>1. PICK m \in Nat : m = k + 1
    OBVIOUS
  <2>2. m \in I
    BY <1>2, <2>1
  <2> QED
    BY <2>1, <2>2
<1>5. Nat \subseteq I
  BY <1>3, <1>4, SetInduction
<1> SUFFICES ASSUME NEW t \in SUBSET S, NEW x \in S \ t PROVE it[t \cup {x}] = Mul(it[t], F[x])
  BY DEF MultipliesUp
<1>6. Cardinality(t) \in I
  BY <1>1, <1>5
<1> QED
  BY <1>6 DEF I

(* Two products over the parts of a set and of a larger one agree on the parts of both. *)
ProductsWithin(prod, T, F) ==
  \A s \in SUBSET T :
    prod[s] = IF s = {} THEN 1
             ELSE Mul(F[CHOOSE x \in s : TRUE], prod[s \ {CHOOSE x \in s : TRUE}])

ProductsTo(it, S, F) == \A T \in SUBSET S : \A prod : ProductsWithin(prod, T, F) => prod[T] = it[T]

LEMMA ProductsAgree ==
  ASSUME NEW S, IsFiniteSet(S), NEW F \in [S -> Int], NEW it, ProductsOf(it, S, F)
  PROVE  ProductsTo(it, S, F)
<1> SUFFICES ASSUME NEW T \in SUBSET S, NEW prod, ProductsWithin(prod, T, F) PROVE prod[T] = it[T]
  BY DEF ProductsTo
<1> DEFINE I == {k \in Nat : \A s \in SUBSET T : Cardinality(s) = k => prod[s] = it[s]}
<1>1. \A s \in SUBSET T : IsFiniteSet(s) /\ Cardinality(s) \in Nat
  BY FS_Subset, FS_CardinalityType
<1>2. ASSUME NEW k \in Nat, k = 0 \/ \E h \in I : k - h = 1
      PROVE  k \in I
  <2> SUFFICES ASSUME NEW s \in SUBSET T, Cardinality(s) = k PROVE prod[s] = it[s]
    OBVIOUS
  <2>1. CASE s = {}
    BY <2>1 DEF ProductsOf, ProductsWithin
  <2>2. CASE s # {}
    <3>1. PICK c \in s : c = CHOOSE z \in s : TRUE
      BY <2>2
    <3>2. prod[s] = Mul(F[c], prod[s \ {c}]) /\ it[s] = Mul(F[c], it[s \ {c}])
      BY <2>2, <3>1 DEF ProductsOf, ProductsWithin
    <3>3. Cardinality(s \ {c}) = k - 1 /\ k # 0
      <4>1. IsFiniteSet(s) /\ Cardinality(s) = k
        BY <1>1
      <4>2. Cardinality(s \ {c}) = Cardinality(s) - 1
        BY <3>1, <4>1, FS_RemoveElement
      <4>3. Cardinality(s) # 0
        BY <2>2, <4>1, FS_EmptySet
      <4> QED
        BY <4>1, <4>2, <4>3
    <3>4. PICK h \in I : k - h = 1
      BY <1>2, <3>3
    <3>5. Cardinality(s \ {c}) = h /\ h \in Nat
      BY <3>3, <3>4
    <3>6. prod[s \ {c}] = it[s \ {c}]
      BY <3>4, <3>5
    <3> QED
      BY <3>2, <3>6
  <2> QED
    BY <2>1, <2>2
<1> HIDE DEF I
<1>3. 0 \in I
  BY <1>2
<1>4. \A k \in Nat : k \in I => k + 1 \in I
  <2> SUFFICES ASSUME NEW k \in Nat, k \in I PROVE k + 1 \in I
    OBVIOUS
  <2>1. PICK m \in Nat : m = k + 1
    OBVIOUS
  <2>2. m \in I
    BY <1>2, <2>1
  <2> QED
    BY <2>1, <2>2
<1>5. Nat \subseteq I
  BY <1>3, <1>4, SetInduction
<1>6. Cardinality(T) \in I
  BY <1>1, <1>5
<1> QED
  BY <1>6 DEF I

(* The product of two parts. *)
LEMMA ProductsParts ==
  ASSUME NEW S, IsFiniteSet(S), NEW F \in [S -> Int], NEW it, ProductsOf(it, S, F),
         NEW P \in SUBSET S, NEW Q \in SUBSET S, P \cap Q = {}
  PROVE  it[P \cup Q] = Mul(it[P], it[Q])
<1> DEFINE I == {k \in Nat : \A q \in SUBSET Q : Cardinality(q) = k => it[P \cup q] = Mul(it[P], it[q])}
<1>1. \A s \in SUBSET S : IsFiniteSet(s) /\ Cardinality(s) \in Nat
  BY FS_Subset, FS_CardinalityType
<1>2. \A s \in SUBSET S : it[s] \in Int
  BY DEF ProductsOf
<1>3. MultipliesUp(it, S, F)
  BY ProductsAdd
<1>4. 0 \in I
  <2> SUFFICES ASSUME NEW q \in SUBSET Q, Cardinality(q) = 0 PROVE it[P \cup q] = Mul(it[P], it[q])
    OBVIOUS
  <2>1. q = {}
    BY <1>1, FS_EmptySet
  <2>2. {} \in SUBSET S /\ it[{}] = 1
    BY DEF ProductsOf
  <2>3. P \cup {} = P
    OBVIOUS
  <2>4. it[P] \in Int
    BY <1>2
  <2>5. Mul(it[P], 1) = it[P]
    BY <2>4 DEF Mul
  <2> QED
    BY <2>1, <2>2, <2>3, <2>5
<1>5. ASSUME NEW h \in Nat, h \in I PROVE h + 1 \in I
  <2>1. PICK k \in Nat : k = h + 1 /\ k # 0 /\ k - 1 = h
    OBVIOUS
  <2>2. ASSUME NEW q \in SUBSET Q, Cardinality(q) = k PROVE it[P \cup q] = Mul(it[P], it[q])
    <3>1. IsFiniteSet(q) /\ q # {}
      BY <1>1, <2>1, <2>2, FS_EmptySet
    <3>2. PICK x \in q : TRUE
      BY <3>1
    <3>3. PICK r \in SUBSET Q : r = q \ {x} /\ x \notin r /\ q = r \cup {x}
      <4>1. q \ {x} \in SUBSET Q /\ x \notin q \ {x} /\ q = (q \ {x}) \cup {x}
        OBVIOUS
      <4> QED
        BY <4>1
    <3>4. Cardinality(r) = h
      BY <2>1, <2>2, <3>1, <3>3, FS_RemoveElement
    <3>5. it[P \cup r] = Mul(it[P], it[r])
      BY <1>5, <3>4
    <3>6. PICK T \in SUBSET S : T = P \cup r /\ x \notin T /\ P \cup q = T \cup {x}
      <4>1. x \notin P /\ x \in S
        OBVIOUS
      <4>2. P \cup r \in SUBSET S /\ x \notin P \cup r /\ P \cup q = (P \cup r) \cup {x}
        BY <3>3, <4>1
      <4> QED
        BY <4>2
    <3>7. x \in S /\ r \in SUBSET S /\ F[x] \in Int /\ it[P] \in Int /\ it[r] \in Int
      BY <1>2
    <3>8. it[T \cup {x}] = Mul(it[T], F[x]) /\ it[r \cup {x}] = Mul(it[r], F[x])
      BY <1>3, <3>3, <3>6, <3>7 DEF MultipliesUp
    <3>9. Mul(Mul(it[P], it[r]), F[x]) = Mul(it[P], Mul(it[r], F[x]))
      BY <3>7, MulAssociates
    <3> QED
      BY <3>3, <3>5, <3>6, <3>8, <3>9
  <2> QED
    BY <2>1, <2>2
<1> HIDE DEF I
<1>6. Nat \subseteq I
  BY <1>4, <1>5, SetInduction
<1>7. Cardinality(Q) \in I
  BY <1>1, <1>6
<1> QED
  BY <1>7 DEF I
=============================================================================
