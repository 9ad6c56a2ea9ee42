-------------------------- MODULE Program408Proofs ---------------------------
(***************************************************************************)
(* Proofs, for arguments of any size, about what the functions of          *)
(* 408/program.cpp return.                                                 *)
(***************************************************************************)
EXTENDS Program408, SequenceLemmas

-----------------------------------------------------------------------------
(* Sums of ints. *)

LEMMA IntSumExact ==
  ASSUME NEW a, NEW b, InRange(a + b)
  PROVE  IntSum(a, b) = a + b
  BY DEF IntSum

LEMMA IntSumHeld ==
  ASSUME NEW a, NEW b, InRange(a), InRange(b)
  PROVE  InRange(IntSum(a, b))
<1>1. \A x, y \in -INT_MAX - 1 .. INT_MAX : Overflow(x, y) \in -INT_MAX - 1 .. INT_MAX
  BY ExerciseAssumption, Zenon
<1> QED
  BY <1>1 DEF IntSum, InRange

-----------------------------------------------------------------------------
(* The vote. *)

(* The votes after each element. *)
Vote(st, x) ==
  IF st.count = 0 THEN [candidate |-> x, count |-> 1]
  ELSE [st EXCEPT !.count = IF x = st.candidate THEN @ + 1 ELSE @ - 1]

LEMMA VotesCast ==
  ASSUME NEW s \in Seq(Int), s # <<>>
  PROVE  \E f : /\ f[0] = [candidate |-> s[1], count |-> 0]
                /\ \A i, h \in 0 .. Len(s) : i - h = 1 => f[i] = Vote(f[h], s[i])
                /\ majority_element(s) = f[Len(s)].candidate
<1> DEFINE base == [candidate |-> s[1], count |-> 0]
           D == [candidate : Int, count : Int]
           Step(it, t) == IF t = {} THEN base ELSE Vote(it[t \ {Max(t)}], s[Max(t)])
           it == CHOOSE it : it = [t \in SUBSET DOMAIN s |-> Step(it, t)]
<1>1. majority_element(s) = it[DOMAIN s].candidate
  BY DEF majority_element, FoldLeft, MapThenFoldSet, Vote
<1>2. PICK n \in Nat : n = Len(s) /\ DOMAIN s = 1 .. n /\ \A i \in 1 .. n : s[i] \in Int
  OBVIOUS
<1>3. base \in D
  BY <1>2, EmptySeq
<1>4. it = [t \in SUBSET DOMAIN s |-> Step(it, t)]
  <2>1. PICK G : G = [i \in 1 .. n |-> [st \in D |-> Vote(st, s[i])]]
    OBVIOUS
  <2>2. ASSUME NEW i \in 1 .. n, NEW st \in D PROVE Vote(st, s[i]) \in D
    <3>1. PICK v \in Int, k \in Int, x \in Int :
            st = [candidate |-> v, count |-> k] /\ x = s[i]
      BY <1>2
    <3>2. /\ st.candidate = v /\ st.count = k
          /\ \A c : [st EXCEPT !.count = c] = [candidate |-> v, count |-> c]
      BY <3>1
    <3>3. Vote(st, x) = IF k = 0 THEN [candidate |-> x, count |-> 1]
                        ELSE [candidate |-> v, count |-> IF x = v THEN k + 1 ELSE k - 1]
      BY <3>2 DEF Vote
    <3> QED
      BY <3>1, <3>3
  <2> HIDE DEF base, D
  <2>3. G \in [1 .. n -> [D -> D]]
    BY <2>1, <2>2
  <2>4. PICK g : g \in [SUBSET (1 .. n) -> D] /\ LeftFolds(g, n, G, base)
    BY <1>3, <2>3, LeftFoldExists
  <2>5. \A t \in SUBSET (1 .. n) : g[t] = Step(g, t)
    BY <2>1, <2>4, MaxInterval DEF LeftFolds
  <2> HIDE DEF Step
  <2>6. g = [t \in SUBSET DOMAIN s |-> Step(g, t)]
    BY <1>2, <2>4, <2>5
  <2> QED
    BY <2>6
<1> HIDE DEF it
<1>5. PICK f : Scans(f, it, n)
  BY LeftScan
<1>6. ASSUME NEW i \in 0 .. n, NEW h \in 0 .. n, i - h = 1
      PROVE  f[i] = Vote(f[h], s[i])
  <2>1. it[1 .. i] = Step(it, 1 .. i)
    BY <1>2, <1>4, <1>5, <1>6 DEF Scans
  <2> QED
    BY <1>5, <1>6, <2>1 DEF Scans
<1> QED
  BY <1>1, <1>2, <1>4, <1>5, <1>6 DEF Scans

(* How often v is among the first i elements. *)
Among(s, i, v) == {m \in 1 .. i : s[m] = v}

LEMMA AmongNext ==
  ASSUME NEW s, NEW v, NEW i \in Nat, NEW h \in Nat, i - h = 1
  PROVE  /\ Cardinality(Among(s, h, v)) \in Nat
         /\ Cardinality(Among(s, i, v)) =
              Cardinality(Among(s, h, v)) + (IF s[i] = v THEN 1 ELSE 0)
<1>1. Among(s, h, v) \in SUBSET (1 .. h)
  BY DEF Among
<1>2. IsFiniteSet(Among(s, h, v)) /\ Cardinality(Among(s, h, v)) \in Nat
  BY <1>1, IndicesFinite
<1>3. i \notin Among(s, h, v)
  BY DEF Among
<1>4. CASE s[i] = v
  <2>1. Among(s, i, v) = Among(s, h, v) \cup {i}
    BY <1>4 DEF Among
  <2> QED
    BY <1>2, <1>3, <1>4, <2>1, FS_AddElement
<1>5. CASE s[i] # v
  <2>1. Among(s, i, v) = Among(s, h, v)
    BY <1>5 DEF Among
  <2> QED
    BY <1>2, <1>5, <2>1
<1> QED
  BY <1>4, <1>5

(* No element but the candidate has more than half of the votes cast, less what the
   candidate is ahead by. *)
Ahead(s, st, i) ==
  /\ st = [candidate |-> st.candidate, count |-> st.count] /\ st.count \in Nat
  /\ \A v \in Int : 2 * Cardinality(Among(s, i, v)) - i
                     <= IF v = st.candidate THEN st.count ELSE -st.count

LEMMA VoteCounts ==
  ASSUME NEW s, NEW st, NEW i \in Nat, NEW h \in Nat, i - h = 1, Ahead(s, st, h)
  PROVE  Ahead(s, Vote(st, s[i]), i)
<1>0. PICK n \in Nat : n = st.count
  BY DEF Ahead
<1>1. PICK c : c = st.candidate /\ st = [candidate |-> c, count |-> n]
  BY <1>0 DEF Ahead
<1>2. st.candidate = c /\ st.count = n
  BY <1>0, <1>1
<1>3. ASSUME NEW v \in Int
      PROVE  2 * Cardinality(Among(s, i, v)) - i
               <= IF v = Vote(st, s[i]).candidate THEN Vote(st, s[i]).count
                  ELSE -Vote(st, s[i]).count
  <2>1. PICK o \in Nat : o = Cardinality(Among(s, h, v))
    BY AmongNext
  <2>2. Cardinality(Among(s, i, v)) = o + (IF s[i] = v THEN 1 ELSE 0)
    BY <2>1, AmongNext
  <2>3. 2 * o - h <= IF v = c THEN n ELSE -n
    BY <1>2, <2>1 DEF Ahead
  <2>4. CASE n = 0
    <3>1. Vote(st, s[i]).candidate = s[i] /\ Vote(st, s[i]).count = 1
      BY <1>2, <2>4 DEF Vote
    <3> QED
      BY <2>2, <2>3, <2>4, <3>1
  <2>5. CASE n # 0
    <3>1. /\ Vote(st, s[i]).candidate = c
          /\ Vote(st, s[i]).count = IF s[i] = c THEN n + 1 ELSE n - 1
      BY <1>1, <2>5 DEF Vote
    <3> QED
      BY <2>2, <2>3, <2>5, <3>1
  <2> QED
    BY <2>4, <2>5
<1>4. /\ Vote(st, s[i]) = [candidate |-> Vote(st, s[i]).candidate, count |-> Vote(st, s[i]).count]
      /\ Vote(st, s[i]).count \in Nat
  BY <1>1 DEF Vote
<1> QED
  BY <1>3, <1>4 DEF Ahead

(* The Boyer-Moore vote finds an element that more than half of the array agrees on. *)
LEMMA MajorityVote ==
  ASSUME NEW s \in Seq(Int), s # <<>>, NEW v \in Int, 2 * Occurrences(s, v) > Len(s)
  PROVE  majority_element(s) = v
<1>1. PICK n \in Nat : n = Len(s) /\ DOMAIN s = 1 .. n
  OBVIOUS
<1>2. PICK f : /\ f[0] = [candidate |-> s[1], count |-> 0]
               /\ \A i, h \in 0 .. n : i - h = 1 => f[i] = Vote(f[h], s[i])
               /\ majority_element(s) = f[n].candidate
  BY <1>1, VotesCast
<1> DEFINE I == {i \in Nat : i <= n => Ahead(s, f[i], i)}
<1>3. 0 \in I
  <2>1. \A w : Among(s, 0, w) = {}
    BY DEF Among
  <2>2. \A w \in Int : Cardinality(Among(s, 0, w)) = 0
    BY <2>1, FS_EmptySet
  <2> QED
    BY <1>2, <2>2 DEF Ahead
<1>4. ASSUME NEW i \in Nat, i \in I PROVE i + 1 \in I
  <2>1. PICK m \in Nat : m = i + 1
    OBVIOUS
  <2> SUFFICES ASSUME m <= n PROVE Ahead(s, f[m], m)
    BY <2>1
  <2>2. Ahead(s, f[i], i) /\ m - i = 1 /\ m \in 0 .. n /\ i \in 0 .. n
    BY <1>4, <2>1
  <2> QED
    BY <1>2, <2>2, VoteCounts
<1> HIDE DEF I
<1>5. Nat \subseteq I
  BY <1>3, <1>4, SetInduction
<1>6. Ahead(s, f[n], n)
  BY <1>5 DEF I
<1>7. Among(s, n, v) = {i \in DOMAIN s : s[i] = v}
  BY <1>1 DEF Among
<1>8. 2 * Cardinality(Among(s, n, v)) > n /\ Cardinality(Among(s, n, v)) \in Nat
  <2>1. Among(s, n, v) \in SUBSET (1 .. n)
    BY DEF Among
  <2> QED
    BY <1>1, <1>7, <2>1, IndicesFinite DEF Occurrences
<1>9. f[n].candidate = v
  <2>1. PICK o \in Nat : o = Cardinality(Among(s, n, v))
    BY <1>8
  <2>2. 2 * o > n
    BY <1>8, <2>1
  <2>3. 2 * o - n <= IF v = f[n].candidate THEN f[n].count ELSE -f[n].count
    BY <1>6, <2>1 DEF Ahead
  <2>4. f[n].count \in Nat
    BY <1>6 DEF Ahead
  <2> QED
    BY <2>2, <2>3, <2>4
<1> QED
  BY <1>2, <1>9

-----------------------------------------------------------------------------
(* One purchase and one sale. *)

(* What max_profit_1() keeps, after one more price. *)
Priced(st, p) == [best |-> Larger(st.best, p - st.min), min |-> Smaller(st.min, p)]

LEMMA PricesScanned ==
  ASSUME NEW s \in Seq(Int), s # <<>>
  PROVE  \E f : /\ f[0] = [best |-> 0, min |-> s[1]]
                /\ \A i, h \in 0 .. Len(s) - 1 : i - h = 1 => f[i] = Priced(f[h], s[i + 1])
                /\ max_profit_1(s) = f[Len(s) - 1].best
<1> DEFINE base == [best |-> 0, min |-> s[1]]
           D == [best : Int, min : Int]
           t == Tail(s)
           Step(it, r) == IF r = {} THEN base ELSE Priced(it[r \ {Max(r)}], t[Max(r)])
           it == CHOOSE it : it = [r \in SUBSET DOMAIN t |-> Step(it, r)]
<1>1. max_profit_1(s) = it[DOMAIN t].best
  BY DEF max_profit_1, FoldLeft, MapThenFoldSet, Priced
<1>2. PICK n \in Nat : /\ n = Len(s) - 1 /\ DOMAIN t = 1 .. n
                       /\ \A i \in 1 .. n : t[i] = s[i + 1] /\ t[i] \in Int
  <2>1. PICK l \in Nat : l = Len(s) /\ l # 0 /\ \A i \in 1 .. l : s[i] \in Int
    OBVIOUS
  <2>2. PICK n \in Nat : n = l - 1
    BY <2>1
  <2>3. \A i \in 1 .. n : i + 1 \in 1 .. l
    BY <2>2
  <2>4. DOMAIN t = 1 .. n /\ \A i \in 1 .. n : t[i] = s[i + 1]
    BY <2>1, <2>2
  <2> QED
    BY <2>1, <2>2, <2>3, <2>4
<1>3. base \in D
  OBVIOUS
<1>4. it = [r \in SUBSET DOMAIN t |-> Step(it, r)]
  <2> HIDE DEF t
  <2>1. PICK G : G = [i \in 1 .. n |-> [st \in D |-> Priced(st, t[i])]]
    OBVIOUS
  <2>2. \A i \in 1 .. n, st \in D : Priced(st, t[i]) \in D
    BY <1>2 DEF Priced, Larger, Smaller
  <2> HIDE DEF base, D
  <2>3. G \in [1 .. n -> [D -> D]]
    BY <2>1, <2>2
  <2>4. PICK g : g \in [SUBSET (1 .. n) -> D] /\ LeftFolds(g, n, G, base)
    BY <1>3, <2>3, LeftFoldExists
  <2>5. \A r \in SUBSET (1 .. n) : g[r] = Step(g, r)
    BY <2>1, <2>4, MaxInterval DEF LeftFolds
  <2> HIDE DEF Step
  <2>6. g = [r \in SUBSET DOMAIN t |-> Step(g, r)]
    BY <1>2, <2>4, <2>5
  <2> QED
    BY <2>6
<1> HIDE DEF it, t
<1>5. PICK f : Scans(f, it, n)
  BY LeftScan
<1>6. ASSUME NEW i \in 0 .. n, NEW h \in 0 .. n, i - h = 1
      PROVE  f[i] = Priced(f[h], s[i + 1])
  <2>1. it[1 .. i] = Step(it, 1 .. i)
    BY <1>2, <1>4, <1>5, <1>6 DEF Scans
  <2>2. t[i] = s[i + 1]
    BY <1>2, <1>5, <1>6 DEF Scans
  <2> QED
    BY <1>5, <1>6, <2>1, <2>2 DEF Scans
<1>7. f[0] = base
  BY <1>2, <1>4, <1>5 DEF Scans
<1>8. max_profit_1(s) = f[n].best
  BY <1>1, <1>2, <1>5 DEF Scans
<1> QED
  BY <1>2, <1>6, <1>7, <1>8

(* The least of the first m prices, and the most that two of them earn. *)
Best(s, best, m) ==
  /\ best = 0 \/ \E a, b \in 1 .. m : a < b /\ best = s[b] - s[a]
  /\ best >= 0 /\ \A a, b \in 1 .. m : a < b => s[b] - s[a] <= best
Least(s, min, m) ==
  /\ \E a \in 1 .. m : s[a] = min
  /\ \A a \in 1 .. m : min <= s[a]

LEMMA OnePrice ==
  ASSUME NEW s, NEW best \in Int, NEW min \in Int, NEW m \in Nat, NEW k \in Nat, k - m = 1,
         \A i \in 1 .. k : s[i] \in Int, Best(s, best, m), Least(s, min, m)
  PROVE  /\ Best(s, Larger(best, s[k] - min), k) /\ Least(s, Smaller(min, s[k]), k)
         /\ Larger(best, s[k] - min) \in Int /\ Smaller(min, s[k]) \in Int
<1>1. PICK p \in Int, gain \in Int : p = s[k] /\ gain = p - min
  <2>1. k \in 1 .. k
    OBVIOUS
  <2>2. PICK p \in Int : p = s[k]
    BY <2>1
  <2>3. p - min \in Int
    OBVIOUS
  <2> QED
    BY <2>2, <2>3
<1>2. PICK more \in Int : more = Larger(best, gain) /\ more >= best /\ more >= gain
  BY DEF Larger
<1>3. \A i \in 1 .. k : i \in 1 .. m \/ i = k
  OBVIOUS
<1>4. \A i \in 1 .. m : i \in 1 .. k /\ i < k
  OBVIOUS
<1>5. Best(s, more, k)
  <2>1. more = 0 \/ \E a, b \in 1 .. k : a < b /\ more = s[b] - s[a]
    <3>1. CASE more = best
      BY <1>4, <3>1 DEF Best
    <3>2. CASE more = gain
      <4>1. PICK a \in 1 .. m : s[a] = min
        BY DEF Least
      <4>2. k \in 1 .. k /\ a \in 1 .. k /\ a < k
        BY <1>4
      <4> QED
        BY <1>1, <3>2, <4>1, <4>2
    <3> QED
      BY <1>2, <3>1, <3>2 DEF Larger
  <2>2. ASSUME NEW a \in 1 .. k, NEW b \in 1 .. k, a < b
        PROVE  s[b] - s[a] <= more
    <3>1. a \in 1 .. m
      BY <2>2
    <3>2. PICK x \in Int, y \in Int : x = s[a] /\ y = s[b]
      OBVIOUS
    <3>3. CASE b \in 1 .. m
      <4>1. y - x <= best
        BY <2>2, <3>1, <3>2, <3>3 DEF Best
      <4> QED
        BY <1>2, <3>2, <4>1
    <3>4. CASE b = k
      <4>1. min <= x /\ y = p
        BY <1>1, <3>1, <3>2, <3>4 DEF Least
      <4> QED
        BY <1>1, <1>2, <3>2, <4>1
    <3> QED
      BY <1>3, <3>3, <3>4
  <2>3. more >= 0
    BY <1>2 DEF Best
  <2> QED
    BY <2>1, <2>2, <2>3 DEF Best
<1>6. Least(s, Smaller(min, p), k) /\ Smaller(min, p) \in Int
  <2>1. \E a \in 1 .. k : s[a] = Smaller(min, p)
    <3>1. k \in 1 .. k
      OBVIOUS
    <3> QED
      BY <1>1, <1>4, <3>1 DEF Smaller, Least
  <2>2. ASSUME NEW a \in 1 .. k PROVE Smaller(min, p) <= s[a]
    <3>1. PICK x \in Int : x = s[a]
      OBVIOUS
    <3>2. min <= x \/ x = p
      BY <1>1, <1>3, <3>1 DEF Least
    <3> QED
      BY <3>1, <3>2 DEF Smaller
  <2> QED
    BY <2>1, <2>2 DEF Least, Smaller
<1> QED
  BY <1>1, <1>2, <1>5, <1>6

LEMMA BestSale ==
  ASSUME NEW s \in Seq(Int)
  PROVE  max_profit_1(s) \in Int /\ Best(s, max_profit_1(s), Len(s))
<1>1. CASE s = <<>>
  <2>1. max_profit_1(s) = 0 /\ Len(s) = 0
    BY <1>1 DEF max_profit_1
  <2> QED
    BY <2>1 DEF Best
<1>2. CASE s # <<>>
  <2>1. PICK n \in Nat, l \in Nat : l = Len(s) /\ n = l - 1 /\ \A i \in 1 .. l : s[i] \in Int
    <3>1. PICK l \in Nat : l = Len(s) /\ l # 0 /\ \A i \in 1 .. l : s[i] \in Int
      BY <1>2
    <3>2. l - 1 \in Nat
      BY <3>1
    <3> QED
      BY <3>1, <3>2
  <2>2. PICK f : /\ f[0] = [best |-> 0, min |-> s[1]]
                 /\ \A i, h \in 0 .. n : i - h = 1 => f[i] = Priced(f[h], s[i + 1])
                 /\ max_profit_1(s) = f[n].best
    BY <1>2, <2>1, PricesScanned
  <2> DEFINE Right(i) == \E best, min \in Int : /\ f[i] = [best |-> best, min |-> min]
                                               /\ Best(s, best, i + 1) /\ Least(s, min, i + 1)
             I == {i \in Nat : i <= n => Right(i)}
  <2>3. 0 \in I
    <3>1. 1 .. 1 = {1} /\ 1 \in 1 .. l
      BY <2>1
    <3>2. PICK p \in Int : p = s[1]
      BY <2>1, <3>1
    <3>3. Best(s, 0, 1) /\ Least(s, p, 1)
      BY <3>1, <3>2 DEF Best, Least
    <3>4. 0 + 1 = 1 /\ 0 \in Nat /\ 0 \in Int
      OBVIOUS
    <3> QED
      BY <2>2, <3>2, <3>3, <3>4
  <2>4. ASSUME NEW h \in Nat, h \in I PROVE h + 1 \in I
    <3>1. PICK i \in Nat : i = h + 1
      OBVIOUS
    <3> SUFFICES ASSUME i <= n PROVE Right(i)
      BY <3>1
    <3>2. h <= n /\ i \in 0 .. n /\ h \in 0 .. n /\ i - h = 1
      BY <3>1
    <3>3. PICK best \in Int, min \in Int : /\ f[h] = [best |-> best, min |-> min]
                                          /\ Best(s, best, h + 1) /\ Least(s, min, h + 1)
      BY <2>4, <3>2
    <3>4. PICK k \in Nat : k = i + 1 /\ k - i = 1 /\ \A j \in 1 .. k : s[j] \in Int
      <4>1. PICK k \in Nat : k = i + 1 /\ k - i = 1 /\ k <= l
        <5>1. l - 1 = n /\ i <= n
          BY <2>1, <3>2
        <5> QED
          BY <5>1
      <4>2. \A j \in 1 .. k : j \in 1 .. l
        BY <4>1
      <4>3. \A j \in 1 .. k : s[j] \in Int
        BY <2>1, <4>2
      <4> QED
        BY <4>1, <4>3
    <3>5. f[i] = [best |-> Larger(best, s[k] - min), min |-> Smaller(min, s[k])]
      <4>1. f[i] = Priced(f[h], s[i + 1])
        BY <2>2, <3>2
      <4>2. f[h].best = best /\ f[h].min = min
        BY <3>3
      <4> QED
        BY <3>4, <4>1, <4>2 DEF Priced
    <3>6. Best(s, best, i) /\ Least(s, min, i)
      BY <3>1, <3>3
    <3>7. /\ Best(s, Larger(best, s[k] - min), k) /\ Least(s, Smaller(min, s[k]), k)
          /\ Larger(best, s[k] - min) \in Int /\ Smaller(min, s[k]) \in Int
      BY <3>4, <3>6, OnePrice
    <3> QED
      BY <3>4, <3>5, <3>7
  <2>5. Nat \subseteq I
    <3> HIDE DEF I
    <3> QED
      BY <2>3, <2>4, SetInduction
  <2>6. Right(n)
    <3> HIDE DEF Right
    <3> QED
      BY <2>5
  <2>7. n + 1 = l
    BY <2>1
  <2> QED
    BY <2>1, <2>2, <2>6, <2>7
<1> QED
  BY <1>1, <1>2

-----------------------------------------------------------------------------
(* Any number of nights. *)

(* The profit of max_profit_2(), after one more night. *)
Gained(s, profit, i) ==
  IF s[i] - s[i - 1] > 0 THEN IntSum(profit, s[i] - s[i - 1]) ELSE profit

(* Prices are ints and not negative. *)
Prices(s) == s \in Seq(Int) /\ \A i \in DOMAIN s : 0 <= s[i] /\ InRange(s[i])

LEMMA NightsScanned ==
  ASSUME NEW s \in Seq(Int), Prices(s), NEW n \in Nat, Len(s) - 1 = n \/ (Len(s) = 0 /\ n = 0)
  PROVE  \E f : /\ f[0] = 0
                /\ \A i, h \in 0 .. n : i - h = 1 => f[i] = Gained(s, f[h], i + 1)
                /\ max_profit_2(s) = f[n]
<1> DEFINE t == FromSecond(s)
           Step(it, r) == IF r = {} THEN 0 ELSE Gained(s, it[r \ {Max(r)}], t[Max(r)])
           it == CHOOSE it : it = [r \in SUBSET DOMAIN t |-> Step(it, r)]
<1>1. max_profit_2(s) = it[DOMAIN t]
  BY DEF max_profit_2, FoldLeft, MapThenFoldSet, Gained
<1>2. DOMAIN t = 1 .. n /\ \A i \in 1 .. n : t[i] = i + 1
  BY DEF FromSecond
<1> DEFINE D == {x \in Int : InRange(x)}
<1>3. \A i \in 1 .. n : /\ s[i + 1] \in Int /\ s[i + 1 - 1] \in Int
                        /\ s[i + 1] - s[i + 1 - 1] > 0 => InRange(s[i + 1] - s[i + 1 - 1])
  <2>1. PICK l \in Nat : l = Len(s) /\ \A i \in 1 .. l : s[i] \in Int /\ 0 <= s[i] /\ InRange(s[i])
    BY DEF Prices
  <2> SUFFICES ASSUME NEW i \in 1 .. n
               PROVE  /\ s[i + 1] \in Int /\ s[i + 1 - 1] \in Int
                      /\ s[i + 1] - s[i + 1 - 1] > 0 => InRange(s[i + 1] - s[i + 1 - 1])
    OBVIOUS
  <2>2. l - 1 = n
    BY <2>1
  <2>3. PICK m \in 1 .. l : m = i + 1
    BY <2>2
  <2>4. i \in 1 .. l
    BY <2>2
  <2>0. INT_MAX \in Nat
    BY ExerciseAssumption, Zenon
  <2>5. s[m] \in Int /\ s[i] \in Int /\ (s[m] - s[i] > 0 => InRange(s[m] - s[i]))
    BY <2>0, <2>1, <2>4 DEF InRange
  <2>6. i + 1 - 1 = i
    OBVIOUS
  <2> QED
    BY <2>3, <2>5, <2>6
<1>4. it = [r \in SUBSET DOMAIN t |-> Step(it, r)]
  <2> HIDE DEF t
  <2>1. PICK G : G = [i \in 1 .. n |-> [profit \in D |-> Gained(s, profit, i + 1)]]
    OBVIOUS
  <2>2. ASSUME NEW i \in 1 .. n, NEW profit \in D PROVE Gained(s, profit, i + 1) \in D
    <3>1. PICK x \in Int, y \in Int : x = s[i + 1] /\ y = s[i + 1 - 1] /\ (x - y > 0 => InRange(x - y))
      BY <1>3
    <3>2. PICK k : k = i + 1
      OBVIOUS
    <3>3. Gained(s, profit, k) = IF x - y > 0 THEN IntSum(profit, x - y) ELSE profit
      BY <3>1, <3>2 DEF Gained
    <3>4. x - y > 0 => InRange(IntSum(profit, x - y))
      BY <3>1, IntSumHeld
    <3>5. INT_MAX \in Nat
      BY ExerciseAssumption, Zenon
    <3>6. x - y > 0 => IntSum(profit, x - y) \in D
      BY <3>4, <3>5 DEF InRange
    <3> QED
      BY <3>2, <3>3, <3>6
  <2>0. 0 \in D
    <3>1. INT_MAX \in Nat
      BY ExerciseAssumption, Zenon
    <3> QED
      BY <3>1 DEF InRange
  <2> HIDE DEF D
  <2>3. G \in [1 .. n -> [D -> D]] /\ 0 \in D
    BY <2>0, <2>1, <2>2
  <2>4. PICK g : g \in [SUBSET (1 .. n) -> D] /\ LeftFolds(g, n, G, 0)
    BY <2>3, LeftFoldExists
  <2>5. ASSUME NEW r \in SUBSET (1 .. n) PROVE g[r] = Step(g, r)
    <3>1. CASE r # {}
      <4>1. PICK m \in 1 .. n : m = Max(r) /\ r \ {m} \in SUBSET (1 .. n)
        BY <3>1, MaxInterval
      <4>2. g[r \ {m}] \in D /\ t[m] = m + 1
        BY <1>2, <2>4, <4>1
      <4>3. g[r] = G[m][g[r \ {m}]]
        BY <2>4, <3>1, <4>1 DEF LeftFolds
      <4>4. g[r] = Gained(s, g[r \ {m}], m + 1)
        BY <2>1, <4>2, <4>3
      <4> QED
        BY <3>1, <4>1, <4>2, <4>4
    <3>2. CASE r = {}
      BY <2>4, <3>2 DEF LeftFolds
    <3> QED
      BY <3>1, <3>2
  <2> HIDE DEF Step
  <2>6. g = [r \in SUBSET DOMAIN t |-> Step(g, r)]
    BY <1>2, <2>4, <2>5
  <2> QED
    BY <2>6
<1> HIDE DEF it, t
<1>5. PICK f : Scans(f, it, n)
  BY LeftScan
<1>6. ASSUME NEW i \in 0 .. n, NEW h \in 0 .. n, i - h = 1
      PROVE  f[i] = Gained(s, f[h], i + 1)
  <2>1. it[1 .. i] = Step(it, 1 .. i)
    BY <1>2, <1>4, <1>5, <1>6 DEF Scans
  <2>2. t[i] = i + 1
    BY <1>2, <1>5, <1>6 DEF Scans
  <2> QED
    BY <1>5, <1>6, <2>1, <2>2 DEF Scans
<1>7. f[0] = 0
  BY <1>2, <1>4, <1>5 DEF Scans
<1>8. max_profit_2(s) = f[n]
  BY <1>1, <1>2, <1>5 DEF Scans
<1> QED
  BY <1>6, <1>7, <1>8

(* No nights up to day m earn more than profit, and some earn as much. *)
Earned(sum, profit, m) ==
  /\ profit \in Int
  /\ \E nights \in SUBSET (2 .. m) : sum[nights] = profit
  /\ \A nights \in SUBSET (2 .. m) : sum[nights] <= profit

LEMMA OneNight ==
  ASSUME NEW n \in Nat, NEW s, NEW F \in [2 .. n -> Int], NEW sum, SumsOf(sum, 2 .. n, F),
         NEW k \in 2 .. n, F[k] = s[k] - s[k - 1], s[k] \in Int, s[k - 1] \in Int,
         NEW m \in Nat, k - m = 1, NEW profit, Earned(sum, profit, m),
         \A nights \in SUBSET (2 .. n) : InRange(sum[nights])
  PROVE  Earned(sum, Gained(s, profit, k), k)
<1>0. IsFiniteSet(2 .. n)
  <2>1. ASSUME NEW b \in Int PROVE IsFiniteSet(2 .. b)
    BY <2>1, FS_Interval
  <2> QED
    BY <2>1
<1>1. PICK gain \in Int : gain = F[k] /\ gain = s[k] - s[k - 1]
  OBVIOUS
<1>2. profit \in Int
  BY DEF Earned
<1>4. ASSUME NEW nights \in SUBSET (2 .. m)
      PROVE  /\ nights \in SUBSET (2 .. k) /\ nights \cup {k} \in SUBSET (2 .. k)
             /\ sum[nights \cup {k}] = sum[nights] + gain /\ sum[nights] \in Int
  <2>1. IsFiniteSet(2 .. n)
    BY <1>0
  <2>2. nights \in SUBSET (2 .. n) /\ k \in (2 .. n) \ nights
    OBVIOUS
  <2>3. sum[nights \cup {k}] = sum[nights] + F[k]
    <3>1. PICK S : S = 2 .. n
      OBVIOUS
    <3>2. IsFiniteSet(S) /\ F \in [S -> Int] /\ SumsOf(sum, S, F)
      BY <2>1, <3>1
    <3>3. nights \in SUBSET S /\ k \in S \ nights
      BY <2>2, <3>1
    <3>4. AddsUp(sum, S, F)
      BY <3>2, SumsAdd
    <3> QED
      BY <3>3, <3>4 DEF AddsUp
  <2>4. sum[nights] \in Int
    BY <2>2 DEF SumsOf
  <2>5. nights \in SUBSET (2 .. k) /\ nights \cup {k} \in SUBSET (2 .. k)
    OBVIOUS
  <2>6. sum[nights \cup {k}] = sum[nights] + gain
    BY <1>1, <2>3
  <2> QED
    BY <2>4, <2>5, <2>6
<1>3. Gained(s, profit, k) = IF gain > 0 THEN profit + gain ELSE profit
  <2>1. PICK nights \in SUBSET (2 .. m) : sum[nights] = profit
    BY DEF Earned
  <2>2. nights \cup {k} \in SUBSET (2 .. n)
    OBVIOUS
  <2>3. InRange(profit + gain)
    BY <1>4, <2>1, <2>2
  <2>4. IntSum(profit, gain) = profit + gain
    BY <2>3, IntSumExact
  <2> QED
    BY <1>1, <2>4 DEF Gained
<1>5. ASSUME NEW nights \in SUBSET (2 .. k)
      PROVE  \E rest \in SUBSET (2 .. m) : nights = rest \/ nights = rest \cup {k}
  <2>1. nights \ {k} \in SUBSET (2 .. m)
    OBVIOUS
  <2>2. nights = nights \ {k} \/ nights = (nights \ {k}) \cup {k}
    OBVIOUS
  <2> QED
    BY <2>1, <2>2
<1>6. PICK total \in Int : /\ total = Gained(s, profit, k)
                           /\ total >= profit /\ total >= profit + gain
                           /\ total = profit \/ total = profit + gain
  BY <1>2, <1>3
<1>7. \E nights \in SUBSET (2 .. k) : sum[nights] = total
  <2>1. PICK nights \in SUBSET (2 .. m) : sum[nights] = profit
    BY DEF Earned
  <2> QED
    BY <1>4, <1>6, <2>1
<1>8. ASSUME NEW nights \in SUBSET (2 .. k) PROVE sum[nights] <= total
  <2>1. PICK rest \in SUBSET (2 .. m) : nights = rest \/ nights = rest \cup {k}
    BY <1>5
  <2>2. sum[rest] <= profit /\ sum[rest] \in Int /\ sum[rest \cup {k}] = sum[rest] + gain
    BY <1>4 DEF Earned
  <2>3. PICK x \in Int : x = sum[rest] /\ x <= profit
    BY <2>2
  <2>4. sum[nights] = x \/ sum[nights] = x + gain
    BY <2>1, <2>2, <2>3
  <2>5. x <= total /\ x + gain <= total
    BY <1>2, <1>6, <2>3
  <2> QED
    BY <2>4, <2>5
<1> QED
  BY <1>6, <1>7, <1>8 DEF Earned

LEMMA BestNights ==
  ASSUME NEW s \in Seq(Int), NEW sum, NEW F, F = [i \in 2 .. Len(s) |-> s[i] - s[i - 1]],
         SumsOf(sum, 2 .. Len(s), F), Prices(s),
         \A nights \in SUBSET (2 .. Len(s)) : InRange(sum[nights])
  PROVE  Earned(sum, max_profit_2(s), Len(s))
<1>1. PICK l \in Nat : l = Len(s) /\ \A i \in 1 .. l : s[i] \in Int
  OBVIOUS
<1>2. PICK n \in Nat : l - 1 = n \/ (l = 0 /\ n = 0)
  <2>1. CASE l = 0
    BY <2>1
  <2>2. CASE l # 0
    BY <2>2
  <2> QED
    BY <2>1, <2>2
<1>3. PICK f : /\ f[0] = 0
               /\ \A i, h \in 0 .. n : i - h = 1 => f[i] = Gained(s, f[h], i + 1)
               /\ max_profit_2(s) = f[n]
  BY <1>1, <1>2, NightsScanned
<1> DEFINE I == {i \in Nat : i <= n => Earned(sum, f[i], i + 1)}
<1>4. sum[{}] = 0
  BY DEF SumsOf
<1>5. 0 \in I
  <2>1. 2 .. 0 + 1 = {}
    OBVIOUS
  <2>2. \A nights \in SUBSET (2 .. 0 + 1) : nights = {}
    BY <2>1
  <2>3. {} \in SUBSET (2 .. 0 + 1)
    OBVIOUS
  <2>4. Earned(sum, 0, 0 + 1)
    <3>1. \A nights \in SUBSET (2 .. 0 + 1) : sum[nights] = 0
      BY <1>4, <2>2
    <3>2. \A nights \in SUBSET (2 .. 0 + 1) : sum[nights] <= 0
      BY <3>1
    <3>3. \E nights \in SUBSET (2 .. 0 + 1) : sum[nights] = 0
      BY <2>3, <3>1
    <3>4. 0 \in Int
      OBVIOUS
    <3> QED
      BY <3>2, <3>3, <3>4, Zenon DEF Earned
  <2> QED
    BY <1>3, <2>4
<1>6. ASSUME NEW h \in Nat, h \in I PROVE h + 1 \in I
  <2>1. PICK i \in Nat : i = h + 1
    OBVIOUS
  <2> SUFFICES ASSUME i <= n PROVE Earned(sum, f[i], i + 1)
    BY <2>1
  <2>2. h <= n /\ i \in 0 .. n /\ h \in 0 .. n /\ i - h = 1
    BY <2>1
  <2>3. PICK k \in 2 .. l : k = i + 1 /\ k - i = 1
    <3>1. i + 1 \in 2 .. l
      BY <1>2, <2>1
    <3> QED
      BY <3>1
  <2>4. s[k] \in Int /\ s[k - 1] \in Int
    <3>1. k \in 1 .. l /\ k - 1 \in 1 .. l
      OBVIOUS
    <3> QED
      BY <1>1, <3>1
  <2>5. F[k] = s[k] - s[k - 1] /\ F \in [2 .. l -> Int]
    <3>1. \A j \in 2 .. l : j \in 1 .. l /\ j - 1 \in 1 .. l
      OBVIOUS
    <3>2. \A j \in 2 .. l : s[j] - s[j - 1] \in Int
      BY <1>1, <3>1
    <3> QED
      BY <1>1, <3>2
  <2>6. Earned(sum, f[h], i) /\ SumsOf(sum, 2 .. l, F)
    BY <1>1, <1>6, <2>1, <2>2
  <2>9. \A nights \in SUBSET (2 .. l) : InRange(sum[nights])
    BY <1>1
  <2>7. Earned(sum, Gained(s, f[h], k), k)
    BY <2>3, <2>4, <2>5, <2>6, <2>9, OneNight
  <2>8. f[i] = Gained(s, f[h], k)
    BY <1>3, <2>2, <2>3
  <2> QED
    BY <2>3, <2>7, <2>8
<1>7. Nat \subseteq I
  <2> HIDE DEF I
  <2> QED
    BY <1>5, <1>6, SetInduction
<1>8. Earned(sum, f[n], n + 1)
  BY <1>7
<1>9. CASE l - 1 = n
  <2>1. n + 1 = l
    BY <1>9
  <2> QED
    BY <1>1, <1>3, <1>8, <2>1
<1>10. CASE l = 0 /\ n = 0
  <2>1. 2 .. 0 + 1 = {} /\ 2 .. 0 = {}
    OBVIOUS
  <2> QED
    BY <1>1, <1>3, <1>8, <1>10, <2>1 DEF Earned
<1> QED
  BY <1>2, <1>9, <1>10

(* The sums of the property are those. *)
LEMMA NightsSum ==
  ASSUME NEW s \in Seq(Int), NEW sum, NEW F, F = [i \in 2 .. Len(s) |-> s[i] - s[i - 1]],
         SumsOf(sum, 2 .. Len(s), F), NEW nights \in SUBSET (2 .. Len(s))
  PROVE  MapThenSumSet(LAMBDA i : s[i] - s[i - 1], nights) = sum[nights]
<1> DEFINE e(r) == CHOOSE y \in r : TRUE
           Step(it, r) == IF r = {} THEN 0 ELSE s[e(r)] - s[e(r) - 1] + it[r \ {e(r)}]
           it == CHOOSE it : it = [r \in SUBSET nights |-> Step(it, r)]
           Total == MapThenSumSet(LAMBDA i : s[i] - s[i - 1], nights)
<1>1. Total = it[nights]
  BY DEF MapThenSumSet, MapThenFoldSet
<1>2. \A r \in SUBSET nights : r # {} => e(r) \in r
  OBVIOUS
<1>3. \A r \in SUBSET nights :
        sum[r] = IF r = {} THEN 0 ELSE F[e(r)] + sum[r \ {e(r)}]
  BY DEF SumsOf
<1> HIDE DEF e
<1>4. \A r \in SUBSET nights : sum[r] = Step(sum, r)
  BY <1>2, <1>3
<1> HIDE DEF Total
<1>5. PICK g : g = [r \in SUBSET nights |-> sum[r]]
  OBVIOUS
<1>6. \A r \in SUBSET nights : g[r] = Step(g, r)
  <2>1. \A r \in SUBSET nights : r # {} => r \ {e(r)} \in SUBSET nights
    OBVIOUS
  <2>2. \A r \in SUBSET nights : r # {} => g[r \ {e(r)}] = sum[r \ {e(r)}]
    BY <1>5, <2>1
  <2> QED
    BY <1>4, <1>5, <2>2
<1>7. g = [r \in SUBSET nights |-> Step(g, r)]
  <2> HIDE DEF Step
  <2> QED
    BY <1>5, <1>6
<1>8. it = [r \in SUBSET nights |-> Step(it, r)]
  BY <1>7
<1> HIDE DEF it
<1>9. \A r \in SUBSET nights :
        it[r] = IF r = {} THEN 0 ELSE F[e(r)] + it[r \ {e(r)}]
  BY <1>2, <1>8
<1>10. it[nights] = sum[nights]
  <2>1. PICK S : S = 2 .. Len(s)
    OBVIOUS
  <2>2. IsFiniteSet(S) /\ nights \in SUBSET S /\ SumsOf(sum, S, F)
    BY <2>1, FS_Interval
  <2>3. F \in [S -> Int]
    <3>1. \A i \in 2 .. Len(s) : s[i] \in Int /\ s[i - 1] \in Int
      OBVIOUS
    <3> QED
      BY <2>1, <3>1
  <2>4. SumsWithin(it, nights, F)
    BY <1>9, Zenon DEF SumsWithin, e
  <2>5. SumsTo(sum, S, F)
    BY <2>2, <2>3, SumsAgree
  <2> QED
    BY <2>2, <2>4, <2>5 DEF SumsTo
<1> QED
  BY <1>1, <1>10 DEF Total

LEMMA ProfitsLargest ==
  ASSUME NEW s \in Seq(Int)
  PROVE  /\ IsLargest(max_profit_1(s), {0} \cup UNION {{s[j] - s[i] : j \in i + 1 .. Len(s)}
                                                       : i \in DOMAIN s})
         /\ Prices(s) /\ (\A x \in {MapThenSumSet(LAMBDA i : s[i] - s[i - 1], nights)
                                    : nights \in SUBSET (2 .. Len(s))} : InRange(x)) =>
              IsLargest(max_profit_2(s), {MapThenSumSet(LAMBDA i : s[i] - s[i - 1], nights)
                                          : nights \in SUBSET (2 .. Len(s))})
<1>1. PICK l \in Nat : l = Len(s) /\ DOMAIN s = 1 .. l /\ \A i \in 1 .. l : s[i] \in Int
  OBVIOUS
<1> DEFINE sales == UNION {{s[j] - s[i] : j \in i + 1 .. Len(s)} : i \in DOMAIN s}
<1>2. IsLargest(max_profit_1(s), {0} \cup sales)
  <2>1. PICK best \in Int : best = max_profit_1(s) /\ Best(s, best, l)
    BY <1>1, BestSale
  <2>2. best \in {0} \cup sales
    <3>1. CASE best = 0
      BY <3>1
    <3>2. CASE \E a, b \in 1 .. l : a < b /\ best = s[b] - s[a]
      <4>1. PICK a \in 1 .. l, b \in 1 .. l : a < b /\ best = s[b] - s[a]
        BY <3>2
      <4>2. a \in DOMAIN s /\ b \in a + 1 .. Len(s)
        BY <1>1, <4>1
      <4> QED
        BY <4>1, <4>2
    <3> QED
      BY <2>1, <3>1, <3>2 DEF Best
  <2>3. ASSUME NEW y \in sales PROVE y <= best
    <3>1. PICK i \in DOMAIN s : \E j \in i + 1 .. Len(s) : y = s[j] - s[i]
      BY <2>3
    <3>2. PICK j \in i + 1 .. Len(s) : y = s[j] - s[i]
      BY <3>1
    <3>3. i \in 1 .. l /\ j \in 1 .. l /\ i < j
      BY <1>1, <3>1, <3>2
    <3> QED
      BY <2>1, <3>2, <3>3 DEF Best
  <2>4. 0 <= best
    BY <2>1 DEF Best
  <2> HIDE DEF sales
  <2> QED
    BY <2>1, <2>2, <2>3, <2>4 DEF IsLargest
<1> DEFINE Total(nights) == MapThenSumSet(LAMBDA i : s[i] - s[i - 1], nights)
<1>3. ASSUME Prices(s), \A x \in {Total(nights) : nights \in SUBSET (2 .. Len(s))} : InRange(x)
      PROVE  IsLargest(max_profit_2(s), {Total(nights) : nights \in SUBSET (2 .. Len(s))})
  <2>1. PICK F : F = [i \in 2 .. Len(s) |-> s[i] - s[i - 1]]
    OBVIOUS
  <2>2. F \in [2 .. Len(s) -> Int] /\ IsFiniteSet(2 .. Len(s))
    <3>1. \A i \in 2 .. l : i \in 1 .. l /\ i - 1 \in 1 .. l
      OBVIOUS
    <3>2. \A i \in 2 .. l : s[i] - s[i - 1] \in Int
      BY <1>1, <3>1
    <3>3. \A i \in 2 .. Len(s) : s[i] - s[i - 1] \in Int
      BY <1>1, <3>2
    <3>4. F \in [2 .. Len(s) -> Int]
      BY <2>1, <3>3
    <3>5. 2 \in Int /\ Len(s) \in Int
      BY <1>1
    <3> QED
      BY <3>4, <3>5, FS_Interval
  <2>3. PICK sum : SumsOf(sum, 2 .. Len(s), F)
    BY <2>2, SumsExist
  <2>5. \A nights \in SUBSET (2 .. Len(s)) : Total(nights) = sum[nights]
    BY <2>1, <2>3, NightsSum
  <2> HIDE DEF Total
  <2>8. \A nights \in SUBSET (2 .. Len(s)) : InRange(sum[nights])
    BY <1>3, <2>5
  <2>4. Earned(sum, max_profit_2(s), Len(s))
    BY <1>3, <2>1, <2>3, <2>8, BestNights
  <2>6. max_profit_2(s) \in {Total(nights) : nights \in SUBSET (2 .. Len(s))}
    BY <2>4, <2>5 DEF Earned
  <2>7. \A y \in {Total(nights) : nights \in SUBSET (2 .. Len(s))} : y <= max_profit_2(s)
    BY <2>4, <2>5 DEF Earned
  <2> QED
    BY <2>6, <2>7 DEF IsLargest
<1> QED
  BY <1>2, <1>3

-----------------------------------------------------------------------------
(* The rotation. *)

(* Where rotate() writes element i of n. *)
Place(i, k, n) == ((i - 1 + k) % n) + 1

(* A multiple of n and a smaller number leave that number. *)
Leaves(m, n, c, r) == c \in Int /\ r \in Nat /\ r < n /\ m = n * c + r

LEMMA Remainder ==
  ASSUME NEW n \in Nat, NEW m \in Int, NEW c, NEW r, Leaves(m, n, c, r)
  PROVE  m % n = r
<1>1. PICK p \in Int : p = n * c
  BY DEF Leaves
<1>2. r \in Nat /\ c \in Int /\ r < n /\ m = p + r
  BY <1>1 DEF Leaves
<1> QED
  BY <1>1, <1>2

(* The places are those r to the right, which lie round the end for the last r. *)
LEMMA PlaceRight ==
  ASSUME NEW n \in Nat, NEW k \in Nat, NEW i \in 1 .. n, NEW r, r = k % n
  PROVE  r \in 0 .. n - 1 /\ Place(i, k, n) = IF i + r <= n THEN i + r ELSE i + r - n
<1>1. n > 0
  OBVIOUS
<1>2. r \in Nat /\ r < n /\ r \in 0 .. n - 1
  BY <1>1
<1>3. PICK c \in Int : k = n * c + r
  <2>1. k \div n \in Int /\ k = n * (k \div n) + (k % n)
    BY <1>1
  <2> QED
    BY <2>1
<1>4. PICK p \in Int : p = n * c /\ k = p + r
  BY <1>3
<1>5. CASE i + r <= n
  <2>1. PICK q \in Nat : q = i - 1 + r /\ q < n
    BY <1>2, <1>5
  <2>2. PICK m \in Int : m = i - 1 + k /\ m = p + q
    BY <1>2, <1>4, <2>1
  <2>3. m % n = q
    <3>1. Leaves(m, n, c, q)
      BY <1>4, <2>1, <2>2 DEF Leaves
    <3> QED
      BY <3>1, Remainder
  <2> QED
    BY <1>2, <1>5, <2>1, <2>2, <2>3 DEF Place
<1>6. CASE ~(i + r <= n)
  <2>1. PICK q \in Nat : q = i - 1 + r - n /\ q < n
    BY <1>2, <1>6
  <2>2. PICK d \in Int : d = c + 1
    OBVIOUS
  <2>3. PICK e \in Int : e = n * d /\ e = p + n
    <3>1. n * d = n * c + n
      BY <2>2
    <3> QED
      BY <1>4, <3>1
  <2>4. PICK m \in Int : m = i - 1 + k /\ m = e + q
    BY <1>2, <1>4, <2>1, <2>3
  <2>5. m % n = q
    <3>1. Leaves(m, n, d, q)
      BY <2>1, <2>3, <2>4 DEF Leaves
    <3> QED
      BY <3>1, Remainder
  <2> QED
    BY <1>2, <1>6, <2>1, <2>4, <2>5 DEF Place
<1> QED
  BY <1>2, <1>5, <1>6

(* The array after each write. *)
Turned(s, k, a, i) == [a EXCEPT ![Place(i, k, Len(s))] = s[i]]
IntTurned(s, k, a, i) == [a EXCEPT ![Index(IntSum(i - 1, k), Len(s)) + 1] = s[i]]

LEMMA TurnedExact ==
  ASSUME NEW s, NEW k \in Nat, NEW n \in Nat, n = Len(s), InRange(n - 1 + k), NEW i \in 1 .. n
  PROVE  \A a : IntTurned(s, k, a, i) = Turned(s, k, a, i)
<1>1. INT_MAX \in Nat
  BY ExerciseAssumption, Zenon
<1>2. PICK x \in Nat : x = i - 1 + k
  OBVIOUS
<1>3. InRange(x)
  BY <1>1, <1>2 DEF InRange
<1>4. IntSum(i - 1, k) = x
  BY <1>2, <1>3, IntSumExact
<1>5. Index(x, n) = x % n
  BY DEF Index
<1> QED
  BY <1>2, <1>4, <1>5 DEF IntTurned, Turned, Place

LEMMA RotationScanned ==
  ASSUME NEW s \in Seq(Int), s # <<>>, NEW k \in Nat, InRange(Len(s) - 1 + k)
  PROVE  \E f : /\ f[0] = s
                /\ \A i, h \in 0 .. Len(s) : i - h = 1 => f[i] = Turned(s, k, f[h], i)
                /\ rotate(s, k) = f[Len(s)]
<1> DEFINE t == [i \in DOMAIN s |-> i]
           Step(it, r) == IF r = {} THEN s ELSE IntTurned(s, k, it[r \ {Max(r)}], t[Max(r)])
           it == CHOOSE it : it = [r \in SUBSET DOMAIN t |-> Step(it, r)]
<1>1. rotate(s, k) = it[DOMAIN t]
  BY DEF rotate, FoldLeftDomain, FoldLeft, MapThenFoldSet, IntTurned
<1>2. PICK n \in Nat : n = Len(s) /\ DOMAIN t = 1 .. n /\ \A i \in 1 .. n : t[i] = i /\ s[i] \in Int
  OBVIOUS
<1>3. PICK D : D = [1 .. n -> Int] /\ s \in D
  <2>1. s \in [1 .. n -> Int]
    BY <1>2
  <2> QED
    BY <2>1
<1>4. it = [r \in SUBSET DOMAIN t |-> Step(it, r)]
  <2> HIDE DEF t
  <2>1. PICK G : G = [i \in 1 .. n |-> [a \in D |-> IntTurned(s, k, a, t[i])]]
    OBVIOUS
  <2>2. \A i \in 1 .. n, a \in D : IntTurned(s, k, a, t[i]) \in D
    BY <1>2, <1>3 DEF IntTurned
  <2>3. G \in [1 .. n -> [D -> D]]
    BY <2>1, <2>2
  <2>4. PICK g : g \in [SUBSET (1 .. n) -> D] /\ LeftFolds(g, n, G, s)
    BY <1>3, <2>3, LeftFoldExists
  <2>5. \A r \in SUBSET (1 .. n) : g[r] = Step(g, r)
    BY <2>1, <2>4, MaxInterval DEF LeftFolds
  <2> HIDE DEF Step
  <2>6. g = [r \in SUBSET DOMAIN t |-> Step(g, r)]
    BY <1>2, <2>4, <2>5
  <2> QED
    BY <2>6
<1> HIDE DEF it, t
<1>5. PICK f : Scans(f, it, n)
  BY LeftScan
<1>6. ASSUME NEW i \in 0 .. n, NEW h \in 0 .. n, i - h = 1
      PROVE  f[i] = Turned(s, k, f[h], i)
  <2>0. i \in 1 .. n
    BY <1>6
  <2>1. it[1 .. i] = Step(it, 1 .. i)
    <3>1. (1 .. i) \in SUBSET DOMAIN t
      BY <1>2, <1>5, <1>6 DEF Scans
    <3> HIDE DEF Step
    <3> QED
      BY <1>4, <3>1
  <2>2. t[i] = i
    BY <1>2, <1>5, <1>6 DEF Scans
  <2>3. f[i] = IntTurned(s, k, f[h], i)
    BY <1>5, <1>6, <2>1, <2>2 DEF Scans
  <2> QED
    BY <1>2, <2>0, <2>3, TurnedExact
<1>7. f[0] = s
  BY <1>2, <1>4, <1>5 DEF Scans
<1>8. rotate(s, k) = f[n]
  BY <1>1, <1>2, <1>5 DEF Scans
<1> QED
  BY <1>2, <1>6, <1>7, <1>8

LEMMA FunctionSequence ==
  ASSUME NEW S, NEW n \in Nat, NEW a \in [1 .. n -> S]
  PROVE  a \in Seq(S) /\ Len(a) = n
  OBVIOUS

(* Two parts of a sequence, the last first. *)
LEMMA PartsSwapped ==
  ASSUME NEW s \in Seq(Int), NEW n \in Nat, n = Len(s), NEW r \in 0 .. n, NEW m \in 0 .. n, m = n - r,
         NEW a \in [1 .. n -> Int],
         \A i \in 1 .. n : a[i] = IF i <= r THEN s[i + m] ELSE s[i - r]
  PROVE  a = SubSeq(s, m + 1, n) \o SubSeq(s, 1, m)
<1>0. \A i \in 1 .. n : s[i] \in Int
  OBVIOUS
<1>1. PICK back : back = SubSeq(s, m + 1, n)
  OBVIOUS
<1>2. /\ back \in Seq(Int) /\ Len(back) = r
      /\ \A i \in 1 .. r : back[i] = s[i + m]
  <2>1. \A i \in m + 1 .. n : s[i] \in Int
    BY <1>0
  <2>2. m + 1 \in Int /\ n \in Int
    OBVIOUS
  <2>3. /\ SubSeq(s, m + 1, n) \in Seq(Int)
        /\ Len(SubSeq(s, m + 1, n)) = IF m + 1 <= n THEN n - (m + 1) + 1 ELSE 0
        /\ \A i \in 1 .. n - (m + 1) + 1 : SubSeq(s, m + 1, n)[i] = s[m + 1 + i - 1]
    BY <2>1, <2>2, SubSeqProperties
  <2>4. n - (m + 1) + 1 = r /\ \A i \in 1 .. r : m + 1 + i - 1 = i + m
    OBVIOUS
  <2>5. Len(back) = r
    BY <1>1, <2>3, <2>4
  <2>6. \A i \in 1 .. r : back[i] = s[i + m]
    BY <1>1, <2>3, <2>4
  <2> QED
    BY <1>1, <2>3, <2>5, <2>6
<1>3. PICK front : front = SubSeq(s, 1, m)
  OBVIOUS
<1>4. front \in Seq(Int) /\ Len(front) = m /\ \A i \in 1 .. m : front[i] = s[i]
  <2>1. \A i \in 1 .. m : s[i] \in Int
    BY <1>0
  <2>3. /\ SubSeq(s, 1, m) \in Seq(Int)
        /\ Len(SubSeq(s, 1, m)) = IF 1 <= m THEN m - 1 + 1 ELSE 0
        /\ \A i \in 1 .. m - 1 + 1 : SubSeq(s, 1, m)[i] = s[1 + i - 1]
    BY <2>1, SubSeqProperties
  <2>4. m - 1 + 1 = m /\ \A i \in 1 .. m : 1 + i - 1 = i
    OBVIOUS
  <2>5. Len(front) = m
    BY <1>3, <2>3, <2>4
  <2>6. \A i \in 1 .. m : front[i] = s[i]
    BY <1>3, <2>3, <2>4
  <2> QED
    BY <1>3, <2>3, <2>5, <2>6
<1>5. /\ back \o front \in Seq(Int) /\ Len(back \o front) = r + m
      /\ \A i \in 1 .. r + m : (back \o front)[i] = IF i <= r THEN back[i] ELSE front[i - r]
  <2>1. back \in Seq(Int) /\ front \in Seq(Int) /\ Len(back) = r /\ Len(front) = m
    BY <1>2, <1>4
  <2>2. /\ back \o front \in Seq(Int) /\ Len(back \o front) = Len(back) + Len(front)
        /\ \A i \in 1 .. Len(back) + Len(front) :
             (back \o front)[i] = IF i <= Len(back) THEN back[i] ELSE front[i - Len(back)]
    BY <2>1, ConcatProperties
  <2> QED
    BY <2>1, <2>2
<1>6. r + m = n /\ \A i \in 1 .. n : IF i <= r THEN i \in 1 .. r ELSE i - r \in 1 .. m
  OBVIOUS
<1>7. \A i \in 1 .. n : (back \o front)[i] = a[i]
  BY <1>2, <1>4, <1>5, <1>6
<1>8. a \in Seq(Int) /\ Len(a) = n
  BY FunctionSequence
<1>9. a = back \o front
  BY <1>5, <1>6, <1>7, <1>8, SeqEqual
<1> QED
  BY <1>1, <1>3, <1>9

(* No later write undoes an earlier one, as no two go to the same place. *)
LEMMA RotatesRight ==
  ASSUME NEW s \in Seq(Int), s # <<>>, NEW k \in Nat, InRange(Len(s) - 1 + k)
  PROVE  rotate(s, k) = SubSeq(s, Len(s) - (k % Len(s)) + 1, Len(s)) \o SubSeq(s, 1, Len(s) - (k % Len(s)))
<1>1. PICK n \in Nat : n = Len(s) /\ n # 0 /\ s \in [1 .. n -> Int]
  OBVIOUS
<1>2. PICK r \in 0 .. n - 1 : r = k % n
  <2>1. 1 \in 1 .. n
    BY <1>1
  <2> QED
    BY <2>1, PlaceRight
<1>3. \A i \in 1 .. n : Place(i, k, n) = IF i + r <= n THEN i + r ELSE i + r - n
  BY <1>2, PlaceRight
<1>4. ASSUME NEW i \in 1 .. n, NEW h \in 1 .. n, Place(i, k, n) = Place(h, k, n)
      PROVE  i = h
  <2>1. (IF i + r <= n THEN i + r ELSE i + r - n) = (IF h + r <= n THEN h + r ELSE h + r - n)
    BY <1>3, <1>4
  <2> QED
    BY <2>1
<1>5. ASSUME NEW i \in 1 .. n PROVE Place(i, k, n) \in 1 .. n
  <2>1. (IF i + r <= n THEN i + r ELSE i + r - n) \in 1 .. n
    OBVIOUS
  <2> QED
    BY <1>3, <2>1
<1>6. PICK f : /\ f[0] = s
               /\ \A i, h \in 0 .. n : i - h = 1 => f[i] = Turned(s, k, f[h], i)
               /\ rotate(s, k) = f[n]
  BY <1>1, RotationScanned
<1> DEFINE Placed(i) == f[i] \in [1 .. n -> Int] /\ \A h \in 1 .. i : f[i][Place(h, k, n)] = s[h]
           I == {i \in Nat : i <= n => Placed(i)}
<1>7. 0 \in I
  BY <1>1, <1>6
<1>8. ASSUME NEW h \in Nat, h \in I PROVE h + 1 \in I
  <2>1. PICK i \in Nat : i = h + 1
    OBVIOUS
  <2> SUFFICES ASSUME i <= n PROVE Placed(i)
    BY <2>1
  <2>2. h <= n /\ i \in 0 .. n /\ h \in 0 .. n /\ i - h = 1 /\ i \in 1 .. n
    BY <2>1
  <2>3. PICK a \in [1 .. n -> Int] : a = f[h] /\ \A m \in 1 .. h : a[Place(m, k, n)] = s[m]
    BY <1>8, <2>2
  <2>4. f[i] = [a EXCEPT ![Place(i, k, n)] = s[i]]
    BY <1>1, <1>6, <2>2, <2>3 DEF Turned
  <2>5. f[i] \in [1 .. n -> Int]
    BY <1>1, <2>2, <2>4
  <2>6. ASSUME NEW m \in 1 .. i PROVE f[i][Place(m, k, n)] = s[m]
    <3>1. m \in 1 .. n /\ (m = i \/ (m \in 1 .. h /\ m # i))
      BY <2>1, <2>2
    <3>2. Place(m, k, n) \in 1 .. n /\ (Place(m, k, n) = Place(i, k, n) => m = i)
      BY <1>4, <1>5, <2>2, <3>1
    <3> HIDE DEF Placed, I
    <3> QED
      BY <2>3, <2>4, <3>1, <3>2
  <2> QED
    BY <2>5, <2>6
<1>9. Placed(n)
  <2>1. Nat \subseteq I
    <3> HIDE DEF I
    <3> QED
      BY <1>7, <1>8, SetInduction
  <2> QED
    BY <2>1
<1>10. PICK a \in [1 .. n -> Int] : a = rotate(s, k) /\ \A h \in 1 .. n : a[Place(h, k, n)] = s[h]
  BY <1>6, <1>9
<1>11. PICK m \in 0 .. n : m = n - r
  OBVIOUS
<1>12. \A i \in 1 .. n : a[i] = IF i <= r THEN s[i + m] ELSE s[i - r]
  <2> SUFFICES ASSUME NEW i \in 1 .. n PROVE a[i] = IF i <= r THEN s[i + m] ELSE s[i - r]
    OBVIOUS
  <2>1. CASE i <= r
    <3>1. PICK h \in 1 .. n : h = i + m
      BY <1>11, <2>1
    <3>2. Place(h, k, n) = i
      BY <1>3, <1>11, <2>1, <3>1
    <3> QED
      BY <1>10, <2>1, <3>1, <3>2
  <2>2. CASE ~(i <= r)
    <3>1. PICK h \in 1 .. n : h = i - r
      BY <2>2
    <3>2. Place(h, k, n) = i
      BY <1>3, <2>2, <3>1
    <3> QED
      BY <1>10, <2>2, <3>1, <3>2
  <2> QED
    BY <2>1, <2>2
<1>13. a = SubSeq(s, m + 1, n) \o SubSeq(s, 1, m)
  <2>1. r \in 0 .. n
    OBVIOUS
  <2> QED
    BY <1>1, <1>11, <1>12, <2>1, PartsSwapped
<1> QED
  BY <1>1, <1>2, <1>10, <1>11, <1>13

-----------------------------------------------------------------------------
(* The jumps. *)

(* The places that one more jump reaches. *)
NextReached(s, R) == R \cup {q \in DOMAIN s : \E p \in R : q \in p .. p + s[p]}

LEMMA ReachedSteps ==
  ASSUME NEW s \in Seq(Nat)
  PROVE  /\ ReachedIn(s, 0) = {1}
         /\ \A n, h \in Nat : n - h = 1 => ReachedIn(s, n) = NextReached(s, ReachedIn(s, h))
<1> DEFINE Step(f, n) == IF n = 0 THEN {1}
                         ELSE f[n - 1] \cup {q \in DOMAIN s : \E p \in f[n - 1] : q \in p .. p + s[p]}
           f == CHOOSE f : f = [n \in Nat |-> Step(f, n)]
<1>1. \A k \in Nat : ReachedIn(s, k) = f[k]
  BY DEF ReachedIn
<1>2. f = [n \in Nat |-> Step(f, n)]
  <2>1. PICK G : G = [R \in SUBSET Nat |-> NextReached(s, R)]
    OBVIOUS
  <2>2. \A R \in SUBSET Nat : NextReached(s, R) \in SUBSET Nat
    <3>1. DOMAIN s \subseteq Nat
      OBVIOUS
    <3> QED
      BY <3>1 DEF NextReached
  <2>3. G \in [SUBSET Nat -> SUBSET Nat] /\ {1} \in SUBSET Nat
    BY <2>1, <2>2
  <2>4. PICK g \in [Nat -> SUBSET Nat] : Repeats(g, {1}, G)
    BY <2>3, RepeatsExist
  <2>5. ASSUME NEW n \in Nat PROVE g[n] = Step(g, n)
    <3>1. CASE n # 0
      <4>1. n - 1 \in Nat
        BY <3>1
      <4>2. g[n - 1] \in SUBSET Nat
        BY <4>1
      <4>3. g[n] = G[g[n - 1]]
        BY <2>4, <3>1 DEF Repeats
      <4>4. g[n] = NextReached(s, g[n - 1])
        BY <2>1, <4>2, <4>3
      <4> QED
        BY <3>1, <4>4 DEF NextReached
    <3>2. CASE n = 0
      BY <2>4, <3>2 DEF Repeats
    <3> QED
      BY <3>1, <3>2
  <2> HIDE DEF Step
  <2>6. g = [n \in Nat |-> Step(g, n)]
    BY <2>5
  <2> QED
    BY <2>6
<1> HIDE DEF f
<1>3. f[0] = {1}
  BY <1>2
<1>4. ASSUME NEW n \in Nat, NEW h \in Nat, n - h = 1
      PROVE  f[n] = NextReached(s, f[h])
  <2>1. n - 1 = h /\ n # 0
    BY <1>4
  <2>2. f[n] = Step(f, n)
    BY <1>2
  <2> QED
    BY <2>1, <2>2 DEF NextReached
<1> QED
  BY <1>1, <1>3, <1>4

(* Places that no jump leads out of hold all that is ever reached ... *)
LEMMA NotReached ==
  ASSUME NEW s \in Seq(Nat), NEW C, 1 \in C,
         \A p \in C, q \in DOMAIN s : q \in p .. p + s[p] => q \in C
  PROVE  \A k \in Nat : ReachedIn(s, k) \subseteq C
<1> DEFINE I == {k \in Nat : ReachedIn(s, k) \subseteq C}
<1>1. 0 \in I
  BY ReachedSteps
<1>2. ASSUME NEW h \in Nat, h \in I PROVE h + 1 \in I
  <2>1. PICK n \in Nat : n = h + 1 /\ n - h = 1
    OBVIOUS
  <2>2. ReachedIn(s, n) = NextReached(s, ReachedIn(s, h))
    BY <2>1, ReachedSteps
  <2>3. ReachedIn(s, n) \subseteq C
    BY <1>2, <2>2 DEF NextReached
  <2> QED
    BY <2>1, <2>3
<1>3. Nat \subseteq I
  <2> HIDE DEF I
  <2> QED
    BY <1>1, <1>2, SetInduction
<1> QED
  BY <1>3

(* ... and if each place up to i is in reach of an earlier one, i is reached. *)
Covered(s, i) == \A q \in 2 .. i : \E p \in 1 .. q - 1 : q <= p + s[p]

LEMMA AllReached ==
  ASSUME NEW s \in Seq(Nat), s # <<>>, Covered(s, Len(s))
  PROVE  CanReachEnd(s)
<1>1. PICK l \in Nat : l = Len(s) /\ DOMAIN s = 1 .. l /\ l >= 1 /\ \A i \in 1 .. l : s[i] \in Nat
  OBVIOUS
<1> DEFINE I == {k \in Nat : \A q \in 1 .. l : q <= k + 1 => q \in ReachedIn(s, k)}
<1>2. 0 \in I
  BY <1>1, ReachedSteps
<1>3. ASSUME NEW h \in Nat, h \in I PROVE h + 1 \in I
  <2>1. PICK n \in Nat : n = h + 1 /\ n - h = 1
    OBVIOUS
  <2>2. ReachedIn(s, n) = NextReached(s, ReachedIn(s, h))
    BY <2>1, ReachedSteps
  <2>3. ASSUME NEW q \in 1 .. l, q <= n + 1 PROVE q \in ReachedIn(s, n)
    <3>1. CASE q <= h + 1
      BY <1>3, <2>2, <3>1 DEF NextReached
    <3>2. CASE ~(q <= h + 1)
      <4>1. q \in 2 .. l
        BY <3>2
      <4>2. PICK p \in 1 .. q - 1 : q <= p + s[p]
        BY <1>1, <4>1 DEF Covered
      <4>3. p \in 1 .. l /\ p <= h + 1
        BY <2>1, <2>3, <4>2
      <4>4. p \in ReachedIn(s, h)
        BY <1>3, <4>3
      <4>5. q \in p .. p + s[p]
        <5>1. s[p] \in Nat /\ p <= q
          BY <1>1, <4>2, <4>3
        <5> QED
          BY <4>2, <4>3, <5>1
      <4> QED
        BY <1>1, <2>2, <4>4, <4>5 DEF NextReached
    <3> QED
      BY <3>1, <3>2
  <2> QED
    BY <2>1, <2>3
<1>4. Nat \subseteq I
  <2> HIDE DEF I
  <2> QED
    BY <1>2, <1>3, SetInduction
<1>5. l \in I
  BY <1>4
<1>6. l \in 1 .. l /\ l <= l + 1
  BY <1>1
<1> QED
  BY <1>1, <1>5, <1>6 DEF CanReachEnd

(* What canJump1(), canJump2() and jump() keep, after place i. *)
Tried1(s, st, i) ==
  IF st.answer # NONE THEN st
  ELSE IF s[i + 1] > 0
  THEN IF i + s[i + 1] + 1 >= Len(s) THEN [st EXCEPT !.answer = TRUE]
                                     ELSE [st EXCEPT !.max = Larger(i + s[i + 1], @)]
  ELSE IF i >= st.max THEN [st EXCEPT !.answer = FALSE] ELSE st
Tried2(s, st, i) ==
  IF st.answer # NONE THEN st
  ELSE IF i > st.max THEN [st EXCEPT !.answer = FALSE]
  ELSE LET max == Larger(st.max, i + s[i + 1])
       IN  [max |-> max, answer |-> IF max >= Len(s) - 1 THEN TRUE ELSE NONE]
Jumped(s, st, i) ==
  LET max == Larger(st.max, i + s[i + 1])
  IN  IF i = st.reach THEN [max |-> max, reach |-> max, steps |-> st.steps + 1]
                      ELSE [st EXCEPT !.max = max]

(* The same in ints, which is no different if each place that a jump leads to is one. *)
Lands(s, d) == \A i \in DOMAIN s : InRange(i + s[i] - d)
IntTried1(s, st, i) ==
  IF st.answer # NONE THEN st
  ELSE IF s[i + 1] > 0
  THEN IF IntSum(IntSum(i, s[i + 1]), 1) >= Len(s)
       THEN [st EXCEPT !.answer = TRUE]
       ELSE [st EXCEPT !.max = Larger(IntSum(i, s[i + 1]), @)]
  ELSE IF i >= st.max THEN [st EXCEPT !.answer = FALSE] ELSE st
IntTried2(s, st, i) ==
  IF st.answer # NONE THEN st
  ELSE IF i > st.max THEN [st EXCEPT !.answer = FALSE]
  ELSE LET max == Larger(st.max, IntSum(i, s[i + 1]))
       IN  [max |-> max, answer |-> IF max >= Len(s) - 1 THEN TRUE ELSE NONE]
IntJumped(s, st, i) ==
  LET max == Larger(st.max, IntSum(i, s[i + 1]))
  IN  IF i = st.reach THEN [max |-> max, reach |-> max, steps |-> st.steps + 1]
                      ELSE [st EXCEPT !.max = max]

LEMMA Landing ==
  ASSUME NEW s \in Seq(Nat), NEW i \in 1 .. Len(s), NEW h \in Nat, i - h = 1
  PROVE  /\ Lands(s, 1) => IntSum(h, s[h + 1]) = h + s[h + 1]
         /\ Lands(s, 0) => /\ IntSum(h, s[h + 1]) = h + s[h + 1]
                           /\ IntSum(h + s[h + 1], 1) = h + s[h + 1] + 1
<1>0. INT_MAX \in Nat
  BY ExerciseAssumption, Zenon
<1>1. PICK x \in Nat : x = s[i] /\ i = h + 1 /\ i \in DOMAIN s
  OBVIOUS
<1>2. ASSUME Lands(s, 1) PROVE IntSum(h, x) = h + x
  <2>1. InRange(i + x - 1)
    BY <1>1, <1>2 DEF Lands
  <2>2. InRange(h + x)
    BY <1>0, <1>1, <2>1 DEF InRange
  <2> QED
    BY <2>2, IntSumExact
<1>3. ASSUME Lands(s, 0) PROVE IntSum(h, x) = h + x /\ IntSum(h + x, 1) = h + x + 1
  <2>1. InRange(i + x - 0)
    BY <1>1, <1>3 DEF Lands
  <2>2. InRange(h + x) /\ InRange(h + x + 1)
    BY <1>0, <1>1, <2>1 DEF InRange
  <2> QED
    BY <2>2, IntSumExact
<1> QED
  BY <1>1, <1>2, <1>3

LEMMA Tried1Exact ==
  ASSUME NEW s \in Seq(Nat), Lands(s, 0), NEW i \in 1 .. Len(s), NEW h \in Nat, i - h = 1
  PROVE  \A st : IntTried1(s, st, h) = Tried1(s, st, h)
  BY Landing DEF IntTried1, Tried1

LEMMA Tried2Exact ==
  ASSUME NEW s \in Seq(Nat), Lands(s, 1), NEW i \in 1 .. Len(s), NEW h \in Nat, i - h = 1
  PROVE  \A st : IntTried2(s, st, h) = Tried2(s, st, h)
  BY Landing DEF IntTried2, Tried2

LEMMA JumpedExact ==
  ASSUME NEW s \in Seq(Nat), Lands(s, 1), NEW i \in 1 .. Len(s), NEW h \in Nat, i - h = 1
  PROVE  \A st : IntJumped(s, st, h) = Jumped(s, st, h)
  BY Landing DEF IntJumped, Jumped

LEMMA Tried1Scanned ==
  ASSUME NEW s \in Seq(Nat), NEW n \in Nat, Len(s) = n, n # 0, Lands(s, 0)
  PROVE  \E f : /\ f[0] = [answer |-> NONE, max |-> 0]
                /\ \A i, h \in 0 .. n : i - h = 1 => f[i] = Tried1(s, f[h], h)
                /\ canJump1(s) <=> n = 1 \/ f[n].answer = TRUE
<1> DEFINE base == [answer |-> NONE, max |-> 0]
           D == [answer : {NONE, TRUE, FALSE}, max : Nat]
           t == [i \in 1 .. Len(s) |-> i - 1]
           Step(it, r) == IF r = {} THEN base ELSE IntTried1(s, it[r \ {Max(r)}], t[Max(r)])
           it == CHOOSE it : it = [r \in SUBSET DOMAIN t |-> Step(it, r)]
<1>1. canJump1(s) <=> n = 1 \/ it[DOMAIN t].answer = TRUE
  BY DEF canJump1, IntTried1, FoldLeft, FoldLeftDomain, MapThenFoldSet
<1>2. DOMAIN t = 1 .. n /\ \A i \in 1 .. n : t[i] = i - 1
  OBVIOUS
<1>3. it = [r \in SUBSET DOMAIN t |-> Step(it, r)]
  <2> HIDE DEF t
  <2>1. base \in D
    OBVIOUS
  <2>2. ASSUME NEW i \in 1 .. n, NEW st \in D PROVE IntTried1(s, st, i - 1) \in D
    <3>1. PICK x \in Nat : x = s[i - 1 + 1] /\ i - 1 \in Nat /\ i - 1 + x \in Nat
      <4>1. i - 1 + 1 = i /\ i \in 1 .. Len(s) /\ s[i] \in Nat
        OBVIOUS
      <4> QED
        BY <4>1
    <3>2. PICK a \in {NONE, TRUE, FALSE}, m \in Nat : st = [answer |-> a, max |-> m]
      OBVIOUS
    <3>3. i - 1 \in Nat /\ i - (i - 1) = 1
      OBVIOUS
    <3>4. IntTried1(s, st, i - 1) = Tried1(s, st, i - 1)
      BY <3>3, Tried1Exact
    <3> QED
      BY <3>1, <3>2, <3>4 DEF Tried1, Larger
  <2> HIDE DEF base, D
  <2>3. PICK G : G = [i \in 1 .. n |-> [st \in D |-> IntTried1(s, st, i - 1)]]
    OBVIOUS
  <2>4. G \in [1 .. n -> [D -> D]]
    BY <2>2, <2>3
  <2>5. PICK g : g \in [SUBSET (1 .. n) -> D] /\ LeftFolds(g, n, G, base)
    BY <2>1, <2>4, LeftFoldExists
  <2>6. ASSUME NEW r \in SUBSET (1 .. n) PROVE g[r] = Step(g, r)
    <3>1. CASE r # {}
      <4>1. PICK m \in 1 .. n : m = Max(r) /\ r \ {m} \in SUBSET (1 .. n)
        BY <3>1, MaxInterval
      <4>2. g[r \ {m}] \in D /\ t[m] = m - 1
        BY <1>2, <2>5, <4>1
      <4>3. g[r] = G[m][g[r \ {m}]]
        BY <2>5, <3>1, <4>1 DEF LeftFolds
      <4>4. g[r] = IntTried1(s, g[r \ {m}], m - 1)
        BY <2>3, <4>2, <4>3
      <4> QED
        BY <3>1, <4>1, <4>2, <4>4
    <3>2. CASE r = {}
      BY <2>5, <3>2 DEF LeftFolds
    <3> QED
      BY <3>1, <3>2
  <2> HIDE DEF Step
  <2>7. g = [r \in SUBSET DOMAIN t |-> Step(g, r)]
    BY <1>2, <2>5, <2>6
  <2> QED
    BY <2>7
<1> HIDE DEF it, t
<1>4. PICK f : Scans(f, it, n)
  BY LeftScan
<1>5. ASSUME NEW i \in 0 .. n, NEW h \in 0 .. n, i - h = 1
      PROVE  f[i] = Tried1(s, f[h], h)
  <2>1. it[1 .. i] = Step(it, 1 .. i)
    BY <1>2, <1>3, <1>4, <1>5 DEF Scans
  <2>2. t[i] = h
    BY <1>2, <1>4, <1>5 DEF Scans
  <2>3. f[i] = IntTried1(s, f[h], h) /\ i \in 1 .. n
    BY <1>4, <1>5, <2>1, <2>2 DEF Scans
  <2> QED
    BY <1>5, <2>3, Tried1Exact
<1>6. f[0] = [answer |-> NONE, max |-> 0]
  BY <1>2, <1>3, <1>4 DEF Scans
<1>7. canJump1(s) <=> n = 1 \/ f[n].answer = TRUE
  BY <1>1, <1>2, <1>4 DEF Scans
<1> QED
  BY <1>5, <1>6, <1>7

LEMMA Tried2Scanned ==
  ASSUME NEW s \in Seq(Nat), NEW n \in Nat, Len(s) = n, n # 0, Lands(s, 1)
  PROVE  \E f : /\ f[0] = [answer |-> NONE, max |-> 0]
                /\ \A i, h \in 0 .. n : i - h = 1 => f[i] = Tried2(s, f[h], h)
                /\ canJump2(s) <=> f[n].answer # FALSE
<1> DEFINE base == [answer |-> NONE, max |-> 0]
           D == [answer : {NONE, TRUE, FALSE}, max : Nat]
           t == [i \in 1 .. Len(s) |-> i - 1]
           Step(it, r) == IF r = {} THEN base ELSE IntTried2(s, it[r \ {Max(r)}], t[Max(r)])
           it == CHOOSE it : it = [r \in SUBSET DOMAIN t |-> Step(it, r)]
<1>1. canJump2(s) <=> it[DOMAIN t].answer # FALSE
  BY DEF canJump2, IntTried2, FoldLeft, FoldLeftDomain, MapThenFoldSet
<1>2. DOMAIN t = 1 .. n /\ \A i \in 1 .. n : t[i] = i - 1
  OBVIOUS
<1>3. it = [r \in SUBSET DOMAIN t |-> Step(it, r)]
  <2> HIDE DEF t
  <2>1. base \in D
    OBVIOUS
  <2>2. ASSUME NEW i \in 1 .. n, NEW st \in D PROVE IntTried2(s, st, i - 1) \in D
    <3>1. PICK x \in Nat : x = s[i - 1 + 1] /\ i - 1 \in Nat /\ i - 1 + x \in Nat
      <4>1. i - 1 + 1 = i /\ i \in 1 .. Len(s) /\ s[i] \in Nat
        OBVIOUS
      <4> QED
        BY <4>1
    <3>2. PICK a \in {NONE, TRUE, FALSE}, m \in Nat : st = [answer |-> a, max |-> m]
      OBVIOUS
    <3>3. i - 1 \in Nat /\ i - (i - 1) = 1
      OBVIOUS
    <3>4. IntTried2(s, st, i - 1) = Tried2(s, st, i - 1)
      BY <3>3, Tried2Exact
    <3>5. PICK t2 : t2 = Tried2(s, st, i - 1)
      OBVIOUS
    <3>6. t2 \in D
      BY <3>1, <3>2, <3>5 DEF Tried2, Larger
    <3> QED
      BY <3>4, <3>5, <3>6
  <2> HIDE DEF base, D
  <2>3. PICK G : G = [i \in 1 .. n |-> [st \in D |-> IntTried2(s, st, i - 1)]]
    OBVIOUS
  <2>4. G \in [1 .. n -> [D -> D]]
    BY <2>2, <2>3
  <2>5. PICK g : g \in [SUBSET (1 .. n) -> D] /\ LeftFolds(g, n, G, base)
    BY <2>1, <2>4, LeftFoldExists
  <2>6. ASSUME NEW r \in SUBSET (1 .. n) PROVE g[r] = Step(g, r)
    <3>1. CASE r # {}
      <4>1. PICK m \in 1 .. n : m = Max(r) /\ r \ {m} \in SUBSET (1 .. n)
        BY <3>1, MaxInterval
      <4>2. g[r \ {m}] \in D /\ t[m] = m - 1
        BY <1>2, <2>5, <4>1
      <4>3. g[r] = G[m][g[r \ {m}]]
        BY <2>5, <3>1, <4>1 DEF LeftFolds
      <4>4. g[r] = IntTried2(s, g[r \ {m}], m - 1)
        BY <2>3, <4>2, <4>3
      <4> QED
        BY <3>1, <4>1, <4>2, <4>4
    <3>2. CASE r = {}
      BY <2>5, <3>2 DEF LeftFolds
    <3> QED
      BY <3>1, <3>2
  <2> HIDE DEF Step
  <2>7. g = [r \in SUBSET DOMAIN t |-> Step(g, r)]
    BY <1>2, <2>5, <2>6
  <2> QED
    BY <2>7
<1> HIDE DEF it, t
<1>4. PICK f : Scans(f, it, n)
  BY LeftScan
<1>5. ASSUME NEW i \in 0 .. n, NEW h \in 0 .. n, i - h = 1
      PROVE  f[i] = Tried2(s, f[h], h)
  <2>1. it[1 .. i] = Step(it, 1 .. i)
    BY <1>2, <1>3, <1>4, <1>5 DEF Scans
  <2>2. t[i] = h
    BY <1>2, <1>4, <1>5 DEF Scans
  <2>3. f[i] = IntTried2(s, f[h], h) /\ i \in 1 .. n
    BY <1>4, <1>5, <2>1, <2>2 DEF Scans
  <2> QED
    BY <1>5, <2>3, Tried2Exact
<1>6. f[0] = [answer |-> NONE, max |-> 0]
  BY <1>2, <1>3, <1>4 DEF Scans
<1>7. canJump2(s) <=> f[n].answer # FALSE
  BY <1>1, <1>2, <1>4 DEF Scans
<1> QED
  BY <1>5, <1>6, <1>7

LEMMA JumpScanned ==
  ASSUME NEW s \in Seq(Nat), NEW n \in Nat, Len(s) - n = 1, Lands(s, 1)
  PROVE  \E f : /\ f[0] = [max |-> 0, reach |-> 0, steps |-> 0]
                /\ \A i, h \in 0 .. n : i - h = 1 => f[i] = Jumped(s, f[h], h)
                /\ jump(s) = f[n].steps
<1> DEFINE base == [max |-> 0, reach |-> 0, steps |-> 0]
           D == [max : Nat, reach : Nat, steps : Nat]
           t == [i \in 1 .. Len(s) - 1 |-> i - 1]
           Step(it, r) == IF r = {} THEN base ELSE IntJumped(s, it[r \ {Max(r)}], t[Max(r)])
           it == CHOOSE it : it = [r \in SUBSET DOMAIN t |-> Step(it, r)]
<1>1. jump(s) = it[DOMAIN t].steps
  BY DEF jump, IntJumped, FoldLeft, FoldLeftDomain, MapThenFoldSet
<1>2. DOMAIN t = 1 .. n /\ \A i \in 1 .. n : t[i] = i - 1
  OBVIOUS
<1>3. it = [r \in SUBSET DOMAIN t |-> Step(it, r)]
  <2> HIDE DEF t
  <2>1. base \in D
    OBVIOUS
  <2>2. ASSUME NEW i \in 1 .. n, NEW st \in D PROVE IntJumped(s, st, i - 1) \in D
    <3>1. PICK x \in Nat : x = s[i - 1 + 1] /\ i - 1 \in Nat /\ i - 1 + x \in Nat
      <4>1. i - 1 + 1 = i /\ i \in 1 .. Len(s) /\ s[i] \in Nat
        OBVIOUS
      <4> QED
        BY <4>1
    <3>2. PICK m \in Nat, r \in Nat, k \in Nat : st = [max |-> m, reach |-> r, steps |-> k]
      OBVIOUS
    <3>3. PICK y \in Nat : y = Larger(m, i - 1 + s[i - 1 + 1])
      BY <3>1 DEF Larger
    <3>4. /\ st.max = m /\ st.reach = r /\ st.steps = k /\ k + 1 \in Nat
          /\ [st EXCEPT !.max = y] = [max |-> y, reach |-> r, steps |-> k]
      BY <3>2
    <3>6. i - 1 \in Nat /\ i - (i - 1) = 1 /\ i \in 1 .. Len(s)
      OBVIOUS
    <3>7. IntJumped(s, st, i - 1) = Jumped(s, st, i - 1)
      BY <3>6, JumpedExact
    <3>5. IntJumped(s, st, i - 1) = IF i - 1 = r THEN [max |-> y, reach |-> y, steps |-> k + 1]
                                 ELSE [max |-> y, reach |-> r, steps |-> k]
      BY <3>3, <3>4, <3>7 DEF Jumped
    <3> QED
      BY <3>4, <3>5
  <2> HIDE DEF base, D
  <2>3. PICK G : G = [i \in 1 .. n |-> [st \in D |-> IntJumped(s, st, i - 1)]]
    OBVIOUS
  <2>4. G \in [1 .. n -> [D -> D]]
    BY <2>2, <2>3
  <2>5. PICK g : g \in [SUBSET (1 .. n) -> D] /\ LeftFolds(g, n, G, base)
    BY <2>1, <2>4, LeftFoldExists
  <2>6. ASSUME NEW r \in SUBSET (1 .. n) PROVE g[r] = Step(g, r)
    <3>1. CASE r # {}
      <4>1. PICK m \in 1 .. n : m = Max(r) /\ r \ {m} \in SUBSET (1 .. n)
        BY <3>1, MaxInterval
      <4>2. g[r \ {m}] \in D /\ t[m] = m - 1
        BY <1>2, <2>5, <4>1
      <4>3. g[r] = G[m][g[r \ {m}]]
        BY <2>5, <3>1, <4>1 DEF LeftFolds
      <4>4. g[r] = IntJumped(s, g[r \ {m}], m - 1)
        BY <2>3, <4>2, <4>3
      <4> QED
        BY <3>1, <4>1, <4>2, <4>4
    <3>2. CASE r = {}
      BY <2>5, <3>2 DEF LeftFolds
    <3> QED
      BY <3>1, <3>2
  <2> HIDE DEF Step
  <2>7. g = [r \in SUBSET DOMAIN t |-> Step(g, r)]
    BY <1>2, <2>5, <2>6
  <2> QED
    BY <2>7
<1> HIDE DEF it, t
<1>4. PICK f : Scans(f, it, n)
  BY LeftScan
<1>5. ASSUME NEW i \in 0 .. n, NEW h \in 0 .. n, i - h = 1
      PROVE  f[i] = Jumped(s, f[h], h)
  <2>1. it[1 .. i] = Step(it, 1 .. i)
    BY <1>2, <1>3, <1>4, <1>5 DEF Scans
  <2>2. t[i] = h
    BY <1>2, <1>4, <1>5 DEF Scans
  <2>4. f[i] = IntJumped(s, f[h], h) /\ i \in 1 .. n
    BY <1>4, <1>5, <2>1, <2>2 DEF Scans
  <2>3. f[i] = IntJumped(s, f[h], h) /\ i \in 1 .. Len(s)
    BY <2>4
  <2> QED
    BY <1>5, <2>3, JumpedExact
<1>6. f[0] = [max |-> 0, reach |-> 0, steps |-> 0]
  BY <1>2, <1>3, <1>4 DEF Scans
<1>7. jump(s) = f[n].steps
  BY <1>1, <1>2, <1>4 DEF Scans
<1> QED
  BY <1>5, <1>6, <1>7

(* A part of the array that no jump leads out of. *)
Stuck(s) == \E m \in 1 .. Len(s) - 1 : \A p \in 1 .. m : p + s[p] <= m

LEMMA StuckBefore ==
  ASSUME NEW s \in Seq(Nat), s # <<>>, Stuck(s)
  PROVE  ~CanReachEnd(s)
<1>1. PICK l \in Nat : l = Len(s) /\ DOMAIN s = 1 .. l /\ \A i \in 1 .. l : s[i] \in Nat
  OBVIOUS
<1>2. PICK m \in 1 .. l - 1 : \A p \in 1 .. m : p + s[p] <= m
  BY <1>1 DEF Stuck
<1>3. ASSUME NEW p \in 1 .. m, NEW q \in DOMAIN s, q \in p .. p + s[p]
      PROVE  q \in 1 .. m
  <2>1. p \in 1 .. l
    BY <1>2
  <2>2. s[p] \in Nat /\ p + s[p] <= m /\ q \in 1 .. l
    BY <1>1, <1>2, <2>1
  <2> QED
    BY <1>3, <2>2
<1>4. 1 \in 1 .. m
  BY <1>2
<1>5. ReachedIn(s, Len(s)) \subseteq 1 .. m
  <2>1. Len(s) \in Nat
    OBVIOUS
  <2> QED
    BY <1>3, <1>4, <2>1, NotReached
<1>6. l \notin 1 .. m
  BY <1>1, <1>2
<1> QED
  BY <1>1, <1>5, <1>6 DEF CanReachEnd

(* max is the furthest place, counted from 0, that a jump from the first i places leads
   to. *)
Furthest(s, max, i) ==
  /\ max \in Nat
  /\ \A p \in 1 .. i : p - 1 + s[p] <= max
  /\ max = 0 \/ \E p \in 1 .. i : max = p - 1 + s[p]

LEMMA FurthestNext ==
  ASSUME NEW s \in Seq(Nat), NEW max \in Nat, NEW h \in Nat, NEW i \in 1 .. Len(s), i - h = 1,
         Furthest(s, max, h)
  PROVE  Furthest(s, Larger(max, h + s[i]), i)
<1>1. PICK x \in Nat : x = s[i]
  OBVIOUS
<1>2. PICK y \in Nat : y = Larger(max, h + s[i]) /\ y = (IF max > h + x THEN max ELSE h + x)
  BY <1>1 DEF Larger
<1>3. \A p \in 1 .. i : p \in 1 .. h \/ p = i
  OBVIOUS
<1>4. i \in 1 .. i /\ i - 1 + s[i] = h + x /\ \A p \in 1 .. h : p \in 1 .. i
  BY <1>1
<1>5. \A p \in 1 .. h : s[p] \in Nat
  OBVIOUS
<1>6. ASSUME NEW p \in 1 .. i PROVE p - 1 + s[p] <= y
  <2>1. CASE p = i
    BY <1>2, <1>4, <2>1
  <2>2. CASE p \in 1 .. h
    <3>1. p - 1 + s[p] <= max /\ s[p] \in Nat
      BY <2>2, <1>5 DEF Furthest
    <3>2. PICK v \in Nat : v = s[p] /\ p - 1 + v <= max
      BY <3>1
    <3>3. p \in Nat /\ max <= y
      BY <1>2, <2>2
    <3>4. p - 1 + v <= y
      BY <3>2, <3>3
    <3> QED
      BY <3>2, <3>4
  <2> QED
    BY <1>3, <2>1, <2>2
<1>7. y = 0 \/ \E p \in 1 .. i : y = p - 1 + s[p]
  <2>1. CASE y = max
    BY <1>4, <2>1 DEF Furthest
  <2>2. CASE y = h + x
    BY <1>4, <2>2
  <2> QED
    BY <1>2, <2>1, <2>2
<1> QED
  BY <1>2, <1>6, <1>7 DEF Furthest

(* Places are covered one by one. *)
LEMMA CoveredNext ==
  ASSUME NEW s, NEW i \in Nat, NEW m \in Nat, m - i = 1, Covered(s, i),
         m = 1 \/ \E p \in 1 .. i : m <= p + s[p]
  PROVE  Covered(s, m)
<1> SUFFICES ASSUME NEW q \in 2 .. m PROVE \E p \in 1 .. q - 1 : q <= p + s[p]
  BY DEF Covered
<1>1. CASE q = m
  <2>1. q - 1 = i /\ m # 1
    BY <1>1
  <2> QED
    BY <1>1, <2>1
<1>2. CASE q # m
  <2>1. q \in 2 .. i
    BY <1>2
  <2> QED
    BY <2>1 DEF Covered
<1> QED
  BY <1>1, <1>2

(* A jump past the end from a place that is covered covers the rest. *)
LEMMA CoveredEnd ==
  ASSUME NEW s, NEW l \in Nat, NEW i \in Nat, Covered(s, i), NEW p \in 1 .. i, s[p] \in Nat, l <= p + s[p]
  PROVE  Covered(s, l)
<1> SUFFICES ASSUME NEW q \in 2 .. l PROVE \E o \in 1 .. q - 1 : q <= o + s[o]
  BY DEF Covered
<1>1. CASE q <= i
  <2>1. q \in 2 .. i
    BY <1>1
  <2> QED
    BY <2>1 DEF Covered
<1>2. CASE ~(q <= i)
  <2>1. p \in 1 .. q - 1
    BY <1>2
  <2>2. q <= p + s[p]
    OBVIOUS
  <2> QED
    BY <2>1, <2>2
<1> QED
  BY <1>1, <1>2

-----------------------------------------------------------------------------
(* canJump1(): as long as it has no answer, each place so far is covered, and none
   reaches the end. *)
Verdict(s, answer) ==
  /\ answer \in {NONE, TRUE, FALSE}
  /\ answer = TRUE => Covered(s, Len(s))
  /\ answer = FALSE => Len(s) = 1 \/ Stuck(s)
Trying1(s, st, i) ==
  /\ st \in [answer : {NONE, TRUE, FALSE}, max : Nat] /\ Verdict(s, st.answer)
  /\ st.answer = NONE =>
       /\ Furthest(s, st.max, i) /\ Covered(s, i + 1)
       /\ \A p \in 1 .. i : p + s[p] < Len(s)

LEMMA Try1 ==
  ASSUME NEW s \in Seq(Nat), NEW h \in Nat, NEW i \in 1 .. Len(s), i - h = 1, NEW st, Trying1(s, st, h)
  PROVE  Trying1(s, Tried1(s, st, h), i)
<1>0. NONE \notin BOOLEAN /\ NONE # TRUE /\ NONE # FALSE
  <2>1. NONE \notin BOOLEAN
    BY ExerciseAssumption, Zenon
  <2> QED
    BY <2>1
<1>1. PICK a \in {NONE, TRUE, FALSE}, m \in Nat : st = [answer |-> a, max |-> m]
  BY DEF Trying1
<1>2. st.answer = a /\ st.max = m
  BY <1>1
<1>3. CASE a # NONE
  BY <1>2, <1>3 DEF Trying1, Tried1
<1>4. CASE a = NONE
  <2>1. PICK l \in Nat : l = Len(s) /\ h + 1 = i /\ i \in 1 .. l
    OBVIOUS
  <2>2. PICK x \in Nat : x = s[i] /\ s[h + 1] = x
    BY <2>1
  <2>3. /\ Furthest(s, m, h) /\ Covered(s, i)
        /\ \A p \in 1 .. h : p + s[p] < l
    BY <1>2, <1>4, <2>1 DEF Trying1
  <2>4. \A p \in 1 .. h : s[p] \in Nat
    OBVIOUS
  <2>5. CASE x > 0 /\ h + x + 1 >= l
    <3>1. Tried1(s, st, h) = [answer |-> TRUE, max |-> m]
      <4>1. Tried1(s, st, h) = [st EXCEPT !.answer = TRUE]
        BY <1>2, <1>4, <2>1, <2>2, <2>5 DEF Tried1
      <4> QED
        BY <1>1, <4>1
    <3>2. Covered(s, Len(s))
      <4>1. i \in 1 .. i /\ l <= i + s[i] /\ s[i] \in Nat
        BY <2>1, <2>2, <2>5
      <4> QED
        BY <2>1, <2>3, <4>1, CoveredEnd
    <3>3. Verdict(s, TRUE)
      BY <3>2 DEF Verdict
    <3>4. PICK t : t = Tried1(s, st, h) /\ t = [answer |-> TRUE, max |-> m]
      BY <3>1
    <3>5. t.answer = TRUE /\ t.max = m /\ t \in [answer : {NONE, TRUE, FALSE}, max : Nat]
      BY <3>4
    <3>6. t.answer # NONE
      BY <1>0, <3>5
    <3>7. Verdict(s, t.answer)
      BY <3>3, <3>5
    <3>8. Trying1(s, t, i)
      BY <3>5, <3>6, <3>7 DEF Trying1
    <3> QED
      BY <3>4, <3>8
  <2>6. CASE x > 0 /\ ~(h + x + 1 >= l)
    <3>1. PICK y \in Nat : y = Larger(h + x, m) /\ y = Larger(m, h + s[i])
      BY <2>2 DEF Larger
    <3>2. Tried1(s, st, h) = [answer |-> NONE, max |-> y]
      <4>1. Tried1(s, st, h) = [st EXCEPT !.max = y]
        <5>1. [st EXCEPT !.max = Larger(h + s[h + 1], @)] = [st EXCEPT !.max = Larger(h + x, m)]
          BY <1>2, <2>2
        <5> QED
          BY <1>2, <1>4, <2>1, <2>2, <2>6, <3>1, <5>1 DEF Tried1
      <4> QED
        BY <1>1, <1>4, <4>1
    <3>3. Furthest(s, y, i)
      BY <2>3, <3>1, FurthestNext
    <3>4. \A p \in 1 .. i : p + s[p] < Len(s)
      <4>1. i + s[i] < l
        BY <2>1, <2>2, <2>6
      <4>2. \A p \in 1 .. i : p \in 1 .. h \/ p = i
        OBVIOUS
      <4> QED
        BY <2>1, <2>3, <4>1, <4>2
    <3>5. Covered(s, i + 1)
      <4>1. i \in 1 .. i /\ i + 1 <= i + s[i] /\ i + 1 \in Nat /\ (i + 1) - i = 1
        BY <2>2, <2>6
      <4> QED
        BY <2>3, <4>1, CoveredNext
    <3>6. Verdict(s, NONE)
      BY <1>0 DEF Verdict
    <3> QED
      BY <3>1, <3>2, <3>3, <3>4, <3>5, <3>6 DEF Trying1
  <2>7. CASE ~(x > 0) /\ h >= m
    <3>1. Tried1(s, st, h) = [answer |-> FALSE, max |-> m]
      <4>1. Tried1(s, st, h) = [st EXCEPT !.answer = FALSE]
        BY <1>2, <1>4, <2>1, <2>2, <2>7 DEF Tried1
      <4> QED
        BY <1>1, <4>1
    <3>2. Len(s) = 1 \/ Stuck(s)
      <4> SUFFICES ASSUME l # 1 PROVE Stuck(s)
        BY <2>1
      <4>1. \A p \in 1 .. i : p + s[p] <= i
        <5>1. i + s[i] <= i
          BY <2>1, <2>2, <2>7
        <5>2. ASSUME NEW p \in 1 .. h PROVE p + s[p] <= i
          <6>1. p - 1 + s[p] <= m /\ s[p] \in Nat
            BY <2>3, <2>4 DEF Furthest
          <6> QED
            BY <2>1, <2>7, <6>1
        <5>3. \A p \in 1 .. i : p \in 1 .. h \/ p = i
          OBVIOUS
        <5> QED
          BY <5>1, <5>2, <5>3
      <4>2. i # l
        <5> SUFFICES ASSUME i = l PROVE FALSE
          OBVIOUS
        <5>1. l \in 2 .. i
          BY <2>1
        <5>2. PICK p \in 1 .. l - 1 : l <= p + s[p]
          BY <2>3, <5>1 DEF Covered
        <5>3. p \in 1 .. h
          BY <5>2
        <5>4. p + s[p] < l /\ s[p] \in Nat
          BY <2>3, <2>4, <5>3
        <5> QED
          BY <5>2, <5>4
      <4>3. i \in 1 .. Len(s) - 1
        BY <2>1, <4>2
      <4> QED
        BY <4>1, <4>3 DEF Stuck
    <3>3. Verdict(s, FALSE)
      BY <1>0, <3>2 DEF Verdict
    <3>4. PICK t : t = Tried1(s, st, h) /\ t = [answer |-> FALSE, max |-> m]
      BY <3>1
    <3>5. t.answer = FALSE /\ t.max = m /\ t \in [answer : {NONE, TRUE, FALSE}, max : Nat]
      BY <3>4
    <3>6. t.answer # NONE
      BY <1>0, <3>5
    <3>7. Verdict(s, t.answer)
      BY <3>3, <3>5
    <3>8. Trying1(s, t, i)
      BY <3>5, <3>6, <3>7 DEF Trying1
    <3> QED
      BY <3>4, <3>8
  <2>8. CASE ~(x > 0) /\ ~(h >= m)
    <3>1. Tried1(s, st, h) = st
      BY <1>2, <1>4, <2>1, <2>2, <2>8 DEF Tried1
    <3>2. PICK o \in 1 .. h : m = o - 1 + s[o]
      BY <2>3, <2>8 DEF Furthest
    <3>3. o + s[o] < l /\ s[o] \in Nat
      BY <2>3, <2>4, <3>2
    <3>4. Furthest(s, m, i)
      <4>1. m = Larger(m, h + s[i])
        BY <2>2, <2>8 DEF Larger
      <4> QED
        BY <2>3, <4>1, FurthestNext
    <3>5. \A p \in 1 .. i : p + s[p] < Len(s)
      <4>1. i + s[i] < l
        <5>1. PICK z \in Nat : z = s[o] /\ m = o - 1 + z /\ o + z < l
          BY <3>2, <3>3
        <5>2. x = 0 /\ h < m /\ o \in Nat
          BY <2>8
        <5>3. i < l
          BY <2>1, <5>1, <5>2
        <5> QED
          BY <2>1, <2>2, <5>2, <5>3
      <4>2. \A p \in 1 .. i : p \in 1 .. h \/ p = i
        OBVIOUS
      <4>3. \A p \in 1 .. h : p + s[p] < Len(s)
        BY <2>1, <2>3
      <4>4. i + s[i] < Len(s)
        BY <2>1, <4>1
      <4> QED
        BY <4>2, <4>3, <4>4
    <3>6. Covered(s, i + 1)
      <4>1. PICK z \in Nat : z = s[o] /\ m = o - 1 + z
        BY <3>2, <3>3
      <4>2. i + 1 <= o + z
        BY <2>1, <2>8, <4>1
      <4>3. o \in 1 .. i /\ i + 1 \in Nat /\ (i + 1) - i = 1
        OBVIOUS
      <4> QED
        BY <2>3, <4>1, <4>2, <4>3, CoveredNext
    <3> QED
      BY <1>1, <1>2, <1>4, <3>1, <3>4, <3>5, <3>6 DEF Trying1
  <2> QED
    BY <2>5, <2>6, <2>7, <2>8
<1> QED
  BY <1>3, <1>4

LEMMA CanJump1Right ==
  ASSUME NEW s \in Seq(Nat), s # <<>>, Lands(s, 0)
  PROVE  canJump1(s) <=> CanReachEnd(s)
<1>0. NONE \notin BOOLEAN /\ NONE # TRUE /\ NONE # FALSE
  <2>1. NONE \notin BOOLEAN
    BY ExerciseAssumption, Zenon
  <2> QED
    BY <2>1
<1>1. PICK n \in Nat : Len(s) = n /\ n # 0
  OBVIOUS
<1>2. PICK f : /\ f[0] = [answer |-> NONE, max |-> 0]
               /\ \A i, h \in 0 .. n : i - h = 1 => f[i] = Tried1(s, f[h], h)
               /\ canJump1(s) <=> n = 1 \/ f[n].answer = TRUE
  BY <1>1, Tried1Scanned
<1> DEFINE I == {i \in Nat : i <= n => Trying1(s, f[i], i)}
<1>3. 0 \in I
  <2>1. Furthest(s, 0, 0) /\ Covered(s, 0 + 1)
    BY DEF Furthest, Covered
  <2>2. f[0].answer = NONE /\ f[0].max = 0 /\ f[0] \in [answer : {NONE, TRUE, FALSE}, max : Nat]
    BY <1>2
  <2>3. Verdict(s, NONE)
    BY <1>0 DEF Verdict
  <2>4. Verdict(s, f[0].answer) /\ \A p \in 1 .. 0 : p + s[p] < Len(s)
    BY <2>2, <2>3
  <2>5. Trying1(s, f[0], 0)
    BY <2>1, <2>2, <2>4 DEF Trying1
  <2> QED
    BY <2>5
<1>4. ASSUME NEW h \in Nat, h \in I PROVE h + 1 \in I
  <2>1. PICK i \in Nat : i = h + 1 /\ i - h = 1
    OBVIOUS
  <2>2. ASSUME i <= n PROVE Trying1(s, f[i], i)
    <3>1. h \in 0 .. n /\ i \in 0 .. n /\ i \in 1 .. Len(s) /\ h <= n
      BY <1>1, <2>1, <2>2
    <3>2. Trying1(s, f[h], h)
      BY <1>4, <3>1
    <3>3. Trying1(s, Tried1(s, f[h], h), i)
      BY <2>1, <3>1, <3>2, Try1
    <3> QED
      BY <1>2, <2>1, <3>1, <3>3
  <2> QED
    BY <2>1, <2>2
<1>5. n \in I
  <2> HIDE DEF I
  <2> QED
    BY <1>3, <1>4, SetInduction
<1>6. Trying1(s, f[n], n)
  BY <1>5
<1>7. n # 1 => f[n].answer # NONE
  <2> SUFFICES ASSUME n # 1, f[n].answer = NONE PROVE FALSE
    OBVIOUS
  <2>1. n \in 2 .. n + 1
    BY <1>1
  <2>2. PICK p \in 1 .. n - 1 : n <= p + s[p]
    BY <1>6, <2>1 DEF Trying1, Covered
  <2>3. p \in 1 .. n /\ s[p] \in Nat
    BY <1>1, <2>2
  <2>4. p + s[p] < n
    BY <1>1, <1>6, <2>3 DEF Trying1
  <2> QED
    BY <2>2, <2>3, <2>4
<1>8. CASE n = 1
  <2>1. Covered(s, Len(s))
    BY <1>1, <1>8 DEF Covered
  <2> QED
    BY <1>2, <1>8, <2>1, AllReached
<1>9. CASE n # 1
  <2>1. CASE f[n].answer = TRUE
    BY <1>2, <1>6, <2>1, AllReached DEF Trying1, Verdict
  <2>2. CASE f[n].answer = FALSE
    <3>1. Stuck(s)
      BY <1>1, <1>6, <1>9, <2>2 DEF Trying1, Verdict
    <3>2. ~CanReachEnd(s)
      BY <3>1, StuckBefore
    <3> QED
      BY <1>2, <1>9, <2>2, <3>2
  <2> QED
    BY <1>6, <1>7, <1>9, <2>1, <2>2 DEF Trying1
<1> QED
  BY <1>8, <1>9

(* canJump2(): as long as it has no answer, each place so far was covered when it was
   come to. *)
Trying2(s, st, i) ==
  /\ st \in [answer : {NONE, TRUE, FALSE}, max : Nat]
  /\ st.answer = TRUE => Covered(s, Len(s))
  /\ st.answer = FALSE => Stuck(s)
  /\ st.answer = NONE =>
       /\ Furthest(s, st.max, i) /\ Covered(s, i)
       /\ i = 0 \/ (st.max < Len(s) - 1 /\ i <= st.max + 1)

LEMMA Try2 ==
  ASSUME NEW s \in Seq(Nat), NEW h \in Nat, NEW i \in 1 .. Len(s), i - h = 1, NEW st, Trying2(s, st, h)
  PROVE  Trying2(s, Tried2(s, st, h), i)
<1>0. NONE # TRUE /\ NONE # FALSE
  <2>1. NONE \notin BOOLEAN
    BY ExerciseAssumption, Zenon
  <2> QED
    BY <2>1
<1>1. PICK a \in {NONE, TRUE, FALSE}, m \in Nat : st = [answer |-> a, max |-> m]
  BY DEF Trying2
<1>2. st.answer = a /\ st.max = m
  BY <1>1
<1>3. CASE a # NONE
  BY <1>2, <1>3 DEF Trying2, Tried2
<1>4. CASE a = NONE
  <2>1. PICK l \in Nat : l = Len(s) /\ h + 1 = i /\ i \in 1 .. l
    OBVIOUS
  <2>2. PICK x \in Nat : x = s[i] /\ s[h + 1] = x
    BY <2>1
  <2>3. Furthest(s, m, h) /\ Covered(s, h)
    BY <1>2, <1>4 DEF Trying2
  <2>4. \A p \in 1 .. i : s[p] \in Nat
    OBVIOUS
  <2>5. CASE h > m
    <3>1. PICK t : t = Tried2(s, st, h) /\ t = [answer |-> FALSE, max |-> m]
      <4>1. Tried2(s, st, h) = [st EXCEPT !.answer = FALSE]
        BY <1>2, <1>4, <2>5 DEF Tried2
      <4> QED
        BY <1>1, <4>1
    <3>2. t.answer = FALSE /\ t \in [answer : {NONE, TRUE, FALSE}, max : Nat]
      BY <3>1
    <3>3. \A p \in 1 .. h : p + s[p] <= h
      <4> SUFFICES ASSUME NEW p \in 1 .. h PROVE p + s[p] <= h
        OBVIOUS
      <4>1. p - 1 + s[p] <= m /\ s[p] \in Nat
        BY <2>3, <2>4 DEF Furthest
      <4> QED
        BY <2>5, <4>1
    <3>4. Stuck(s)
      <4>1. h \in 1 .. Len(s) - 1
        BY <2>1, <2>5
      <4> QED
        BY <3>3, <4>1 DEF Stuck
    <3>5. t.answer # NONE /\ t.answer # TRUE
      BY <1>0, <3>2
    <3>6. Trying2(s, t, i)
      BY <3>2, <3>4, <3>5 DEF Trying2
    <3> QED
      BY <3>1, <3>6
  <2>6. CASE ~(h > m)
    <3>1. PICK y \in Nat : y = Larger(m, h + x) /\ y = Larger(m, h + s[i]) /\ y >= m
      BY <2>2 DEF Larger
    <3>2. Furthest(s, y, i)
      BY <2>3, <3>1, FurthestNext
    <3>3. Covered(s, i)
      <4>1. i = 1 \/ \E p \in 1 .. h : i <= p + s[p]
        <5> SUFFICES ASSUME i # 1 PROVE \E p \in 1 .. h : i <= p + s[p]
          OBVIOUS
        <5>1. m # 0
          BY <2>1, <2>6
        <5>2. PICK p \in 1 .. h : m = p - 1 + s[p]
          BY <2>3, <5>1 DEF Furthest
        <5>3. PICK z \in Nat : z = s[p] /\ m = p - 1 + z
          BY <2>4, <5>2
        <5>4. i <= p + z
          BY <2>1, <2>6, <5>3
        <5> QED
          BY <5>3, <5>4
      <4>2. i \in Nat
        OBVIOUS
      <4> QED
        BY <2>3, <4>1, <4>2, CoveredNext
    <3>4. Tried2(s, st, h) = [max |-> y, answer |-> IF y >= l - 1 THEN TRUE ELSE NONE]
      BY <1>2, <1>4, <2>1, <2>2, <2>6, <3>1 DEF Tried2
    <3>5. CASE y >= l - 1
      <4>1. PICK t : t = Tried2(s, st, h) /\ t = [max |-> y, answer |-> TRUE]
        BY <3>4, <3>5
      <4>2. t.answer = TRUE /\ t \in [answer : {NONE, TRUE, FALSE}, max : Nat]
        BY <4>1
      <4>3. t.answer # NONE /\ t.answer # FALSE
        BY <1>0, <4>2
      <4>4. Covered(s, Len(s))
        <5>1. CASE y = 0
          BY <2>1, <3>5, <5>1 DEF Covered
        <5>2. CASE y # 0
          <6>1. PICK p \in 1 .. i : y = p - 1 + s[p]
            BY <3>2, <5>2 DEF Furthest
          <6>2. s[p] \in Nat /\ l <= p + s[p] /\ i \in Nat
            BY <2>1, <2>4, <3>5, <6>1
          <6> QED
            BY <2>1, <3>3, <6>1, <6>2, CoveredEnd
        <5> QED
          BY <5>1, <5>2
      <4>5. Trying2(s, t, i)
        BY <4>2, <4>3, <4>4 DEF Trying2
      <4> QED
        BY <4>1, <4>5
    <3>6. CASE ~(y >= l - 1)
      <4>1. PICK t : t = Tried2(s, st, h) /\ t = [max |-> y, answer |-> NONE]
        BY <3>4, <3>6
      <4>2. t.answer = NONE /\ t.max = y /\ t \in [answer : {NONE, TRUE, FALSE}, max : Nat]
        BY <4>1
      <4>3. t.answer # TRUE /\ t.answer # FALSE
        BY <1>0, <4>2
      <4>4. t.max < Len(s) - 1 /\ i <= t.max + 1
        BY <2>1, <2>6, <3>1, <3>6, <4>2
      <4>5. Furthest(s, t.max, i)
        BY <3>2, <4>2
      <4>6. Trying2(s, t, i)
        BY <3>3, <4>2, <4>3, <4>4, <4>5 DEF Trying2
      <4> QED
        BY <4>1, <4>6
    <3> QED
      BY <3>5, <3>6
  <2> QED
    BY <2>5, <2>6
<1> QED
  BY <1>3, <1>4

LEMMA CanJump2Right ==
  ASSUME NEW s \in Seq(Nat), s # <<>>, Lands(s, 1)
  PROVE  canJump2(s) <=> CanReachEnd(s)
<1>0. NONE # TRUE /\ NONE # FALSE
  <2>1. NONE \notin BOOLEAN
    BY ExerciseAssumption, Zenon
  <2> QED
    BY <2>1
<1>1. PICK n \in Nat : Len(s) = n /\ n # 0
  OBVIOUS
<1>2. PICK f : /\ f[0] = [answer |-> NONE, max |-> 0]
               /\ \A i, h \in 0 .. n : i - h = 1 => f[i] = Tried2(s, f[h], h)
               /\ canJump2(s) <=> f[n].answer # FALSE
  BY <1>1, Tried2Scanned
<1> DEFINE I == {i \in Nat : i <= n => Trying2(s, f[i], i)}
<1>3. 0 \in I
  <2>1. Furthest(s, 0, 0) /\ Covered(s, 0)
    BY DEF Furthest, Covered
  <2>2. f[0].answer = NONE /\ f[0].max = 0 /\ f[0] \in [answer : {NONE, TRUE, FALSE}, max : Nat]
    BY <1>2
  <2>3. f[0].answer # TRUE /\ f[0].answer # FALSE /\ Furthest(s, f[0].max, 0)
    BY <1>0, <2>1, <2>2
  <2>4. Trying2(s, f[0], 0)
    BY <2>1, <2>2, <2>3 DEF Trying2
  <2> QED
    BY <2>4
<1>4. ASSUME NEW h \in Nat, h \in I PROVE h + 1 \in I
  <2>1. PICK i \in Nat : i = h + 1 /\ i - h = 1
    OBVIOUS
  <2>2. ASSUME i <= n PROVE Trying2(s, f[i], i)
    <3>1. h \in 0 .. n /\ i \in 0 .. n /\ i \in 1 .. Len(s) /\ h <= n
      BY <1>1, <2>1, <2>2
    <3>2. Trying2(s, f[h], h)
      BY <1>4, <3>1
    <3>3. Trying2(s, Tried2(s, f[h], h), i)
      BY <2>1, <3>1, <3>2, Try2
    <3> QED
      BY <1>2, <2>1, <3>1, <3>3
  <2> QED
    BY <2>1, <2>2
<1>5. n \in I
  <2> HIDE DEF I
  <2> QED
    BY <1>3, <1>4, SetInduction
<1>6. Trying2(s, f[n], n)
  BY <1>5
<1>7. f[n].answer # NONE
  <2> SUFFICES ASSUME f[n].answer = NONE PROVE FALSE
    OBVIOUS
  <2>1. f[n].max < n - 1 /\ n <= f[n].max + 1 /\ f[n].max \in Nat
    BY <1>1, <1>6 DEF Trying2
  <2> QED
    BY <2>1
<1>8. CASE f[n].answer = TRUE
  <2>1. CanReachEnd(s)
    BY <1>6, <1>8, AllReached DEF Trying2
  <2>2. f[n].answer # FALSE
    BY <1>8
  <2> QED
    BY <1>2, <2>1, <2>2
<1>9. CASE f[n].answer = FALSE
  <2>1. ~CanReachEnd(s)
    BY <1>6, <1>9, StuckBefore DEF Trying2
  <2> QED
    BY <1>2, <1>9, <2>1
<1> QED
  BY <1>6, <1>7, <1>8, <1>9 DEF Trying2

-----------------------------------------------------------------------------
(* jump(): k jumps reach the places up to r, counted from 0. *)
Frontier(s, k, r) == \A q \in 1 .. Len(s) : q \in ReachedIn(s, k) <=> q <= r + 1

LEMMA FrontierNext ==
  ASSUME NEW s \in Seq(Nat), s # <<>>, NEW k \in Nat, NEW n \in Nat, n - k = 1,
         NEW h \in Nat, NEW i \in 1 .. Len(s), i - h = 1, NEW y,
         Frontier(s, k, h), Furthest(s, y, i)
  PROVE  Frontier(s, n, y)
<1>1. PICK l \in Nat : l = Len(s) /\ DOMAIN s = 1 .. l /\ l >= 1 /\ \A q \in 1 .. l : s[q] \in Nat
  OBVIOUS
<1>2. ReachedIn(s, n) = NextReached(s, ReachedIn(s, k))
  BY ReachedSteps
<1>3. ReachedIn(s, k) \subseteq 1 .. l
  <2>1. 1 \in 1 .. l
    BY <1>1
  <2> QED
    BY <1>1, <2>1, NotReached
<1>4. \A q \in 1 .. l : q \in ReachedIn(s, k) <=> q <= i
  BY <1>1 DEF Frontier
<1>5. y \in Nat /\ h <= y
  <2>1. i - 1 + s[i] <= y /\ s[i] \in Nat /\ i \in 1 .. i /\ y \in Nat
    BY <1>1 DEF Furthest
  <2> QED
    BY <2>1
<1> SUFFICES ASSUME NEW q \in 1 .. l
             PROVE  q \in ReachedIn(s, n) <=> q <= y + 1
  BY <1>1 DEF Frontier
<1>6. ASSUME q \in ReachedIn(s, n) PROVE q <= y + 1
  <2>1. CASE q \in ReachedIn(s, k)
    BY <1>4, <1>5, <2>1
  <2>2. CASE \E p \in ReachedIn(s, k) : q \in p .. p + s[p]
    <3>1. PICK p \in 1 .. l : p \in ReachedIn(s, k) /\ q \in p .. p + s[p]
      BY <1>3, <2>2
    <3>2. p \in 1 .. i /\ s[p] \in Nat
      BY <1>1, <1>4, <3>1
    <3>3. p - 1 + s[p] <= y
      BY <3>2 DEF Furthest
    <3>4. PICK x \in Nat, z \in Nat : x = s[p] /\ z = y /\ p - 1 + x <= z
      BY <1>5, <3>2, <3>3
    <3>5. PICK o \in Int : o = p /\ q <= o + x /\ o - 1 + x <= z
      BY <3>1, <3>4
    <3>6. q <= z + 1
      <4>1. o + x <= z + 1
        BY <3>5
      <4>2. q \in Int
        OBVIOUS
      <4> QED
        BY <3>5, <4>1, <4>2
    <3> QED
      BY <3>4, <3>6
  <2> QED
    BY <1>2, <1>6, <2>1, <2>2 DEF NextReached
<1>7. ASSUME q <= y + 1 PROVE q \in ReachedIn(s, n)
  <2>1. CASE q <= i
    BY <1>2, <1>4, <2>1 DEF NextReached
  <2>2. CASE ~(q <= i)
    <3>1. y # 0
      BY <1>7, <2>2
    <3>2. PICK p \in 1 .. i : y = p - 1 + s[p]
      BY <3>1 DEF Furthest
    <3>3. p \in 1 .. l /\ s[p] \in Nat
      BY <1>1, <3>2
    <3>4. p \in ReachedIn(s, k)
      BY <1>4, <3>2, <3>3
    <3>5. q \in p .. p + s[p]
      <4>1. PICK x \in Nat : x = s[p] /\ y = p - 1 + x
        BY <3>2, <3>3
      <4>2. q \in Nat /\ p \in Nat /\ p <= q
        BY <2>2
      <4>3. q <= p + x
        <5>1. y + 1 = p + x
          BY <1>5, <4>1, <4>2
        <5> QED
          BY <1>7, <5>1
      <4>4. q \in p .. p + x
        BY <4>2, <4>3
      <4> QED
        BY <4>1, <4>4
    <3> QED
      BY <1>1, <1>2, <3>4, <3>5 DEF NextReached
  <2> QED
    BY <2>1, <2>2
<1> QED
  BY <1>6, <1>7

(* steps jumps are needed for the places past those looked at. *)
Jumping(s, st, i) ==
  /\ st \in [max : Nat, reach : Nat, steps : Nat]
  /\ Furthest(s, st.max, i) /\ Frontier(s, st.steps, st.reach)
  /\ \/ st.steps = 0 /\ st.reach = 0 /\ i = 0
     \/ /\ st.steps > 0 /\ i <= st.reach
        /\ \E r \in Nat : Frontier(s, st.steps - 1, r) /\ r < i

LEMMA OneJump ==
  ASSUME NEW s \in Seq(Nat), s # <<>>, CanReachEnd(s),
         NEW h \in Nat, NEW i \in 1 .. Len(s) - 1, i - h = 1, NEW st, Jumping(s, st, h)
  PROVE  Jumping(s, Jumped(s, st, h), i)
<1>1. PICK m \in Nat, r \in Nat, k \in Nat : st = [max |-> m, reach |-> r, steps |-> k]
  BY DEF Jumping
<1>2. st.max = m /\ st.reach = r /\ st.steps = k
  BY <1>1
<1>3. PICK l \in Nat : l = Len(s) /\ h + 1 = i /\ i \in 1 .. l - 1 /\ i \in 1 .. Len(s)
  OBVIOUS
<1>4. PICK x \in Nat : x = s[i] /\ s[h + 1] = x
  BY <1>3
<1>5. \A p \in 1 .. i : s[p] \in Nat
  BY <1>3
<1>6. PICK y \in Nat : y = Larger(m, h + s[h + 1]) /\ y = Larger(m, h + s[i])
  BY <1>4 DEF Larger
<1>7. Furthest(s, y, i)
  BY <1>2, <1>3, <1>6, FurthestNext DEF Jumping
<1>8. CASE h = r
  <2>1. PICK t : t = Jumped(s, st, h) /\ t = [max |-> y, reach |-> y, steps |-> k + 1]
    BY <1>2, <1>6, <1>8 DEF Jumped
  <2>2. PICK n \in Nat : n = k + 1 /\ n - k = 1 /\ n - 1 = k /\ n > 0
    OBVIOUS
  <2>3. t.max = y /\ t.reach = y /\ t.steps = n /\ t \in [max : Nat, reach : Nat, steps : Nat]
    BY <2>1, <2>2
  <2>4. Frontier(s, k, h)
    BY <1>2, <1>8 DEF Jumping
  <2>5. Frontier(s, n, y)
    BY <1>3, <1>7, <2>2, <2>4, FrontierNext
  <2>6. i <= y
    <3> SUFFICES ASSUME ~(i <= y) PROVE FALSE
      OBVIOUS
    <3>1. ASSUME NEW p \in 1 .. i PROVE p + s[p] <= i
      <4>1. p - 1 + s[p] <= y /\ s[p] \in Nat
        BY <1>5, <1>7 DEF Furthest
      <4>2. PICK v \in Nat : v = s[p] /\ p - 1 + v <= y
        BY <4>1
      <4>3. p + v <= i
        BY <4>2
      <4> QED
        BY <4>2, <4>3
    <3>2. Stuck(s)
      BY <3>1 DEF Stuck
    <3> QED
      BY <3>2, StuckBefore
  <2>7. Frontier(s, t.steps - 1, h) /\ h < i
    BY <2>2, <2>3, <2>4
  <2>8. Jumping(s, t, i)
    BY <1>7, <2>2, <2>3, <2>5, <2>6, <2>7 DEF Jumping
  <2> QED
    BY <2>1, <2>8
<1>9. CASE h # r
  <2>1. PICK t : t = Jumped(s, st, h) /\ t = [max |-> y, reach |-> r, steps |-> k]
    <3>1. Jumped(s, st, h) = [st EXCEPT !.max = y]
      BY <1>2, <1>6, <1>9 DEF Jumped
    <3> QED
      BY <1>1, <3>1
  <2>2. t.max = y /\ t.reach = r /\ t.steps = k /\ t \in [max : Nat, reach : Nat, steps : Nat]
    BY <2>1
  <2>3. k > 0 /\ h <= r /\ \E o \in Nat : Frontier(s, k - 1, o) /\ o < h
    BY <1>2, <1>9 DEF Jumping
  <2>4. i <= r /\ \E o \in Nat : Frontier(s, k - 1, o) /\ o < i
    BY <1>9, <2>3
  <2>5. Frontier(s, k, r)
    BY <1>2 DEF Jumping
  <2>6. Jumping(s, t, i)
    BY <1>7, <2>2, <2>3, <2>4, <2>5 DEF Jumping
  <2> QED
    BY <2>1, <2>6
<1> QED
  BY <1>8, <1>9

LEMMA FewestJumps ==
  ASSUME NEW s \in Seq(Nat), s # <<>>, CanReachEnd(s), Lands(s, 1)
  PROVE  /\ jump(s) \in Nat
         /\ Len(s) \in ReachedIn(s, jump(s))
         /\ jump(s) > 0 => Len(s) \notin ReachedIn(s, jump(s) - 1)
<1>1. PICK n \in Nat : Len(s) - n = 1 /\ Len(s) - 1 = n /\ Len(s) = n + 1
  <2>1. PICK l \in Nat : l = Len(s) /\ l # 0
    OBVIOUS
  <2> QED
    BY <2>1
<1>2. PICK f : /\ f[0] = [max |-> 0, reach |-> 0, steps |-> 0]
               /\ \A i, h \in 0 .. n : i - h = 1 => f[i] = Jumped(s, f[h], h)
               /\ jump(s) = f[n].steps
  BY <1>1, JumpScanned
<1> DEFINE I == {i \in Nat : i <= n => Jumping(s, f[i], i)}
<1>3. 0 \in I
  <2>1. Furthest(s, 0, 0)
    BY DEF Furthest
  <2>2. Frontier(s, 0, 0)
    <3>1. ReachedIn(s, 0) = {1}
      BY ReachedSteps
    <3> QED
      BY <3>1 DEF Frontier
  <2>3. f[0].max = 0 /\ f[0].reach = 0 /\ f[0].steps = 0 /\ f[0] \in [max : Nat, reach : Nat, steps : Nat]
    BY <1>2
  <2>4. Jumping(s, f[0], 0)
    BY <2>1, <2>2, <2>3 DEF Jumping
  <2> QED
    BY <2>4
<1>4. ASSUME NEW h \in Nat, h \in I PROVE h + 1 \in I
  <2>1. PICK i \in Nat : i = h + 1 /\ i - h = 1
    OBVIOUS
  <2>2. ASSUME i <= n PROVE Jumping(s, f[i], i)
    <3>1. h \in 0 .. n /\ i \in 0 .. n /\ i \in 1 .. Len(s) - 1 /\ h <= n
      BY <1>1, <2>1, <2>2
    <3>2. Jumping(s, f[h], h)
      BY <1>4, <3>1
    <3>3. Jumping(s, Jumped(s, f[h], h), i)
      BY <2>1, <3>1, <3>2, OneJump
    <3> QED
      BY <1>2, <2>1, <3>1, <3>3
  <2> QED
    BY <2>1, <2>2
<1>5. n \in I
  <2> HIDE DEF I
  <2> QED
    BY <1>3, <1>4, SetInduction
<1>6. Jumping(s, f[n], n)
  BY <1>5
<1>7. PICK k \in Nat, r \in Nat : k = f[n].steps /\ r = f[n].reach /\ jump(s) = k
  BY <1>2, <1>6 DEF Jumping
<1>8. Len(s) \in 1 .. Len(s)
  BY <1>1
<1>9. Len(s) \in ReachedIn(s, k)
  <2>1. Frontier(s, k, r) /\ n <= r
    BY <1>6, <1>7 DEF Jumping
  <2>2. Len(s) <= r + 1
    BY <1>1, <2>1
  <2> QED
    BY <1>8, <2>1, <2>2 DEF Frontier
<1>10. k > 0 => Len(s) \notin ReachedIn(s, k - 1)
  <2> SUFFICES ASSUME k > 0 PROVE Len(s) \notin ReachedIn(s, k - 1)
    OBVIOUS
  <2>1. PICK o \in Nat : Frontier(s, k - 1, o) /\ o < n
    BY <1>6, <1>7 DEF Jumping
  <2>2. ~(Len(s) <= o + 1)
    BY <1>1, <2>1
  <2> QED
    BY <1>8, <2>1, <2>2 DEF Frontier
<1> QED
  BY <1>7, <1>9, <1>10

-----------------------------------------------------------------------------
(* The h-index. *)

(* How many elements are at least x. *)
NoLess(s, x) == Cardinality({m \in DOMAIN s : s[m] >= x})
Above(s, x) == Cardinality({m \in DOMAIN s : s[m] > x})

LEMMA LeastExists ==
  ASSUME NEW S \in SUBSET Nat, S # {}
  PROVE  \E x \in S : \A y \in S : x <= y
<1>1. PICK x \in S : \A y \in S : ~(<<y, x>> \in Less)
  BY LessWellFounded, WFMin
<1>2. \A y \in S : x <= y
  <2> SUFFICES ASSUME NEW y \in S PROVE x <= y
    OBVIOUS
  <2>1. x \in Nat /\ y \in Nat /\ ~(<<y, x>> \in Less)
    BY <1>1
  <2> QED
    BY <2>1 DEF Less
<1> QED
  BY <1>2

LEMMA CountsOrdered ==
  ASSUME NEW s \in Seq(Nat)
  PROVE  /\ \A x : NoLess(s, x) \in Nat /\ Above(s, x) \in Nat
         /\ \A x, y \in Int : x <= y => NoLess(s, y) <= NoLess(s, x)
         /\ \A x, y \in Int : x < y => NoLess(s, y) <= Above(s, x)
<1>1. PICK n \in Nat : DOMAIN s = 1 .. n
  OBVIOUS
<1>2. \A i \in DOMAIN s : s[i] \in Nat
  OBVIOUS
<1>3. \A R \in SUBSET DOMAIN s : IsFiniteSet(R) /\ Cardinality(R) \in Nat
  BY <1>1, IndicesFinite
<1>4. \A R, T \in SUBSET DOMAIN s : R \subseteq T => Cardinality(R) <= Cardinality(T)
  BY <1>3, FS_Subset
<1>5. \A x : NoLess(s, x) \in Nat /\ Above(s, x) \in Nat
  BY <1>3 DEF NoLess, Above
<1>6. ASSUME NEW x \in Int, NEW y \in Int, x <= y
      PROVE  NoLess(s, y) <= NoLess(s, x)
  <2>1. {m \in DOMAIN s : s[m] >= y} \subseteq {m \in DOMAIN s : s[m] >= x}
    BY <1>2, <1>6
  <2> QED
    BY <2>1, <1>4 DEF NoLess
<1>7. ASSUME NEW x \in Int, NEW y \in Int, x < y
      PROVE  NoLess(s, y) <= Above(s, x)
  <2>1. {m \in DOMAIN s : s[m] >= y} \subseteq {m \in DOMAIN s : s[m] > x}
    BY <1>2, <1>7
  <2> QED
    BY <2>1, <1>4 DEF NoLess, Above
<1> QED
  BY <1>5, <1>6, <1>7

(* The element that goes to place i when the array is sorted. *)
LEMMA PlacedExists ==
  ASSUME NEW s \in Seq(Nat), NEW i \in DOMAIN s
  PROVE  \E v \in Range(s) : Above(s, v) < i /\ NoLess(s, v) >= i
<1>1. PICK n \in Nat : DOMAIN s = 1 .. n /\ i \in 1 .. n
  OBVIOUS
<1>2. \A m \in DOMAIN s : s[m] \in Nat
  OBVIOUS
<1>3. \A R \in SUBSET DOMAIN s : IsFiniteSet(R)
  BY <1>1, IndicesFinite
<1>4. PICK C : C = {Above(s, v) : v \in {w \in Range(s) : NoLess(s, w) >= i}}
  OBVIOUS
<1>5. C \in SUBSET Nat
  BY <1>4, CountsOrdered
<1>6. \A v \in Range(s) : v \in Nat /\ \E m \in DOMAIN s : v = s[m]
  BY <1>2 DEF Range
<1>7. C # {}
  <2>1. Range(s) # {} /\ Range(s) \in SUBSET Nat
    BY <1>1, <1>6 DEF Range
  <2>2. PICK v \in Range(s) : \A w \in Range(s) : v <= w
    BY <2>1, LeastExists
  <2>3. \A m \in DOMAIN s : s[m] \in Range(s)
    BY DEF Range
  <2>4. {m \in DOMAIN s : s[m] >= v} = 1 .. n
    BY <1>1, <1>2, <1>6, <2>2, <2>3
  <2>5. NoLess(s, v) = n
    <3>1. 1 \in Int /\ n \in Int /\ n >= 1
      BY <1>1
    <3>2. Cardinality(1 .. n) = n
      BY <3>1, FS_Interval
    <3> QED
      BY <2>4, <3>2 DEF NoLess
  <2> QED
    BY <1>1, <1>4, <2>5
<1>8. PICK v \in Range(s) : /\ NoLess(s, v) >= i
                            /\ \A w \in Range(s) : NoLess(s, w) >= i => Above(s, v) <= Above(s, w)
  <2>1. PICK c \in C : \A d \in C : c <= d
    BY <1>5, <1>7, LeastExists
  <2> QED
    BY <1>4, <2>1
<1>9. Above(s, v) < i
  <2> SUFFICES ASSUME ~(Above(s, v) < i) PROVE FALSE
    OBVIOUS
  <2>1. PICK B : B = {m \in DOMAIN s : s[m] > v}
    OBVIOUS
  <2>2. B # {}
    <3>1. Above(s, v) # 0
      BY <1>1, CountsOrdered
    <3> QED
      BY <2>1, <3>1, FS_EmptySet DEF Above
  <2>3. PICK w \in {s[m] : m \in B} : \A x \in {s[m] : m \in B} : w <= x
    <3>1. {s[m] : m \in B} \in SUBSET Nat /\ {s[m] : m \in B} # {}
      BY <1>2, <2>1, <2>2
    <3> QED
      BY <3>1, LeastExists
  <2>4. PICK j \in B : w = s[j]
    BY <2>3
  <2>5. w \in Range(s) /\ w \in Nat /\ v \in Nat /\ j \in DOMAIN s /\ w > v
    BY <1>2, <1>6, <2>1, <2>4 DEF Range
  <2>6. {m \in DOMAIN s : s[m] >= w} = B
    <3>1. \A m \in B : s[m] >= w
      BY <1>2, <2>1, <2>3
    <3>2. \A m \in DOMAIN s : s[m] >= w => s[m] > v
      BY <1>2, <2>5
    <3> QED
      BY <2>1, <3>1, <3>2
  <2>7. NoLess(s, w) = Above(s, v)
    BY <2>1, <2>6 DEF NoLess, Above
  <2>8. Above(s, w) < NoLess(s, w)
    <3>1. PICK T : T = {m \in DOMAIN s : s[m] > w}
      OBVIOUS
    <3>2. T \in SUBSET B /\ j \notin T
      BY <1>2, <2>1, <2>4, <2>5, <3>1
    <3>3. IsFiniteSet(B) /\ B \in SUBSET DOMAIN s
      BY <1>3, <2>1
    <3>4. Cardinality(T) <= Cardinality(B) /\ Cardinality(T) # Cardinality(B)
      BY <2>4, <3>2, <3>3, FS_Subset
    <3>5. Cardinality(T) = Above(s, w) /\ Cardinality(B) = NoLess(s, w)
      BY <2>6, <3>1 DEF Above, NoLess
    <3>6. Above(s, w) \in Nat /\ NoLess(s, w) \in Nat
      BY CountsOrdered
    <3> QED
      BY <3>4, <3>5, <3>6
  <2>9. NoLess(s, w) >= i
    BY <2>7, <1>1, CountsOrdered
  <2>10. Above(s, v) <= Above(s, w)
    BY <1>8, <2>5, <2>9
  <2>11. Above(s, v) \in Nat /\ Above(s, w) \in Nat
    BY CountsOrdered
  <2> QED
    BY <2>7, <2>8, <2>10, <2>11
<1> QED
  BY <1>8, <1>9

(* In the sorted array i elements are at least x exactly if the i-th is. *)
LEMMA DescendingCounts ==
  ASSUME NEW s \in Seq(Nat), NEW i \in DOMAIN s, NEW x \in Nat
  PROVE  /\ Descending(s)[i] \in Nat
         /\ Descending(s)[i] >= x <=> NoLess(s, x) >= i
<1>1. PICK v \in Range(s) : /\ v = Descending(s)[i]
                            /\ Above(s, v) < i /\ NoLess(s, v) >= i
  BY PlacedExists DEF Descending, Above, NoLess
<1>2. i \in Nat /\ v \in Nat
  BY DEF Range
<1>3. Above(s, v) \in Nat /\ NoLess(s, v) \in Nat /\ NoLess(s, x) \in Nat
  BY CountsOrdered
<1>4. CASE v >= x
  <2>1. NoLess(s, v) <= NoLess(s, x)
    BY <1>2, <1>4, CountsOrdered
  <2> QED
    BY <1>1, <1>2, <1>3, <1>4, <2>1
<1>5. CASE ~(v >= x)
  <2>1. NoLess(s, x) <= Above(s, v)
    BY <1>2, <1>5, CountsOrdered
  <2> QED
    BY <1>1, <1>2, <1>3, <1>5, <2>1
<1> QED
  BY <1>4, <1>5

(* h_index() after element i of the sorted array d. *)
Cited(d, h, i) == IF h = i - 1 /\ d[i] >= h + 1 THEN i ELSE h

LEMMA CitationsScanned ==
  ASSUME NEW s \in Seq(Nat), NEW n \in Nat, n = Len(s), NEW d, d = Descending(s)
  PROVE  \E f : /\ f[0] = 0
                /\ \A i, h \in 0 .. n : i - h = 1 => f[i] = Cited(d, f[h], i)
                /\ h_index(s) = f[n]
<1> DEFINE t == [i \in DOMAIN s |-> i]
           Step(it, r) == IF r = {} THEN 0 ELSE Cited(d, it[r \ {Max(r)}], t[Max(r)])
           it == CHOOSE it : it = [r \in SUBSET DOMAIN t |-> Step(it, r)]
<1>1. h_index(s) = it[DOMAIN t]
  BY DEF h_index, FoldLeftDomain, FoldLeft, MapThenFoldSet, Cited
<1>2. DOMAIN t = 1 .. n /\ \A i \in 1 .. n : t[i] = i
  OBVIOUS
<1>4. it = [r \in SUBSET DOMAIN t |-> Step(it, r)]
  <2> HIDE DEF t
  <2>1. PICK G : G = [i \in 1 .. n |-> [h \in 0 .. n |-> Cited(d, h, t[i])]]
    OBVIOUS
  <2>2. \A i \in 1 .. n, h \in 0 .. n : Cited(d, h, t[i]) \in 0 .. n
    BY <1>2 DEF Cited
  <2>3. G \in [1 .. n -> [0 .. n -> 0 .. n]] /\ 0 \in 0 .. n
    BY <2>1, <2>2
  <2>4. PICK g : g \in [SUBSET (1 .. n) -> 0 .. n] /\ LeftFolds(g, n, G, 0)
    BY <2>3, LeftFoldExists
  <2>5. \A r \in SUBSET (1 .. n) : g[r] = Step(g, r)
    BY <2>1, <2>4, MaxInterval DEF LeftFolds
  <2> HIDE DEF Step
  <2>6. g = [r \in SUBSET DOMAIN t |-> Step(g, r)]
    BY <1>2, <2>4, <2>5
  <2> QED
    BY <2>6
<1> HIDE DEF it, t
<1>5. PICK f : Scans(f, it, n)
  BY LeftScan
<1>6. ASSUME NEW i \in 0 .. n, NEW h \in 0 .. n, i - h = 1
      PROVE  f[i] = Cited(d, f[h], i)
  <2>1. it[1 .. i] = Step(it, 1 .. i)
    BY <1>2, <1>4, <1>5, <1>6 DEF Scans
  <2>2. t[i] = i
    BY <1>2, <1>5, <1>6 DEF Scans
  <2> QED
    BY <1>5, <1>6, <2>1, <2>2 DEF Scans
<1>7. f[0] = 0
  BY <1>2, <1>4, <1>5 DEF Scans
<1>8. h_index(s) = f[n]
  BY <1>1, <1>2, <1>5 DEF Scans
<1> QED
  BY <1>6, <1>7, <1>8

(* h is past all elements up to i, or the next one was too small for it. *)
Grown(d, h, i) ==
  /\ h \in 0 .. i /\ \A m \in 1 .. h : d[m] >= m
  /\ h < i => d[h + 1] < h + 1

LEMMA CitationsGrow ==
  ASSUME NEW n \in Nat, NEW d, NEW k \in Nat, NEW i \in 1 .. n, i - k = 1,
         \A m \in 1 .. n : d[m] \in Nat, NEW h, Grown(d, h, k)
  PROVE  Grown(d, Cited(d, h, i), i)
<1>1. h \in Nat /\ h <= k /\ k + 1 = i /\ d[i] \in Nat
  BY DEF Grown
<1>2. CASE h = i - 1 /\ d[i] >= h + 1
  <2>1. Cited(d, h, i) = i /\ d[i] >= i /\ h = k
    BY <1>1, <1>2 DEF Cited
  <2>2. \A m \in 1 .. i : m = i \/ m \in 1 .. h
    BY <1>1, <2>1
  <2> QED
    BY <2>1, <2>2 DEF Grown
<1>3. CASE h = i - 1 /\ ~(d[i] >= h + 1)
  <2>1. Cited(d, h, i) = h /\ h + 1 = i /\ d[h + 1] < h + 1
    BY <1>1, <1>3 DEF Cited
  <2> QED
    BY <1>1, <2>1 DEF Grown
<1>4. CASE h # i - 1
  <2>1. Cited(d, h, i) = h /\ h < k
    BY <1>1, <1>4 DEF Cited
  <2> QED
    BY <1>1, <2>1 DEF Grown
<1> QED
  BY <1>2, <1>3, <1>4

LEMMA HIndexLargest ==
  ASSUME NEW s \in Seq(Nat)
  PROVE  IsLargest(h_index(s),
                   {h \in 0 .. Len(s) : Cardinality({i \in DOMAIN s : s[i] >= h}) >= h})
<1>1. PICK n \in Nat : n = Len(s) /\ DOMAIN s = 1 .. n
  OBVIOUS
<1>2. PICK d : d = Descending(s)
  OBVIOUS
<1>3. \A i \in 1 .. n : /\ d[i] \in Nat
                        /\ d[i] >= i <=> NoLess(s, i) >= i
  BY <1>1, <1>2, DescendingCounts
<1>4. PICK f : /\ f[0] = 0
               /\ \A i, h \in 0 .. n : i - h = 1 => f[i] = Cited(d, f[h], i)
               /\ h_index(s) = f[n]
  BY <1>1, <1>2, CitationsScanned
<1>5. PICK h \in 0 .. n : h = h_index(s) /\ Grown(d, h, n)
  <2> DEFINE I == {i \in Nat : i <= n => Grown(d, f[i], i)}
  <2>1. 0 \in I
    BY <1>4 DEF Grown
  <2>2. ASSUME NEW k \in Nat, k \in I PROVE k + 1 \in I
    <3>1. PICK i \in Nat : i = k + 1
      OBVIOUS
    <3> SUFFICES ASSUME i <= n PROVE Grown(d, f[i], i)
      BY <3>1
    <3>2. k <= n /\ i \in 1 .. n /\ i \in 0 .. n /\ k \in 0 .. n /\ i - k = 1
      BY <3>1
    <3>3. Grown(d, Cited(d, f[k], i), i)
      BY <1>3, <2>2, <3>2, CitationsGrow
    <3> QED
      BY <1>4, <3>2, <3>3
  <2>3. Nat \subseteq I
    <3> HIDE DEF I
    <3> QED
      BY <2>1, <2>2, SetInduction
  <2>4. Grown(d, f[n], n)
    BY <2>3
  <2> QED
    BY <1>4, <2>4 DEF Grown
<1>6. NoLess(s, h) >= h
  <2>1. CASE h = 0
    BY <2>1, CountsOrdered
  <2>2. CASE h # 0
    BY <1>3, <1>5, <2>2 DEF Grown
  <2> QED
    BY <2>1, <2>2
<1>7. ASSUME NEW y \in 0 .. n, NoLess(s, y) >= y
      PROVE  y <= h
  <2> SUFFICES ASSUME ~(y <= h) PROVE FALSE
    OBVIOUS
  <2>1. PICK m \in 1 .. n : m = h + 1 /\ m <= y /\ h < n
    OBVIOUS
  <2>2. d[m] < m
    BY <1>1, <1>5, <2>1 DEF Grown
  <2>3. ~(NoLess(s, m) >= m)
    BY <1>3, <2>2
  <2>4. NoLess(s, y) <= NoLess(s, m)
    BY <2>1, CountsOrdered
  <2>5. NoLess(s, y) \in Nat /\ NoLess(s, m) \in Nat
    BY CountsOrdered
  <2> QED
    BY <1>7, <2>1, <2>3, <2>4, <2>5
<1> QED
  BY <1>1, <1>5, <1>6, <1>7 DEF IsLargest, NoLess

-----------------------------------------------------------------------------
(* The removals. *)

(* What remove_element(), remove_duplicates() and remove_duplicates_2() keep of the
   element at place i. *)
Other(st, val, i) == IF st.array[i] # val THEN Keep(st, st.array[i]) ELSE st
Single(st, i) ==
  IF st.array[i] # st.flag
  THEN [Keep(st, st.array[i]) EXCEPT !.flag = st.array[i]]
  ELSE st
Double(st, i) ==
  IF st.array[i] # st.flag
  THEN [Keep(st, st.array[i]) EXCEPT !.flag = st.array[i], !.seen = 1]
  ELSE [(IF Twice(st.seen) THEN Keep(st, st.array[i]) ELSE st) EXCEPT !.seen = @ + 1]

(* Their states, and the array with x at place m. *)
Sieve(a, k) == [array |-> a, num |-> k]
Flagged(a, k, x) == [array |-> a, num |-> k, flag |-> x]
Counted(a, k, x, c) == [array |-> a, num |-> k, flag |-> x, seen |-> c]
Written(a, m, x) == [a EXCEPT ![m] = x]

LEMMA WrittenType ==
  ASSUME NEW n \in Nat, NEW a \in [1 .. n -> Int], NEW m \in Nat, NEW x \in Int
  PROVE  Written(a, m, x) \in [1 .. n -> Int]
BY DEF Written

LEMMA SieveKeeps ==
  ASSUME NEW a, NEW k \in Nat, NEW m \in Nat, m - k = 1, NEW y
  PROVE  Keep(Sieve(a, k), y) = Sieve(Written(a, m, y), m)
<1>1. PICK st : st = Sieve(a, k)
  OBVIOUS
<1>2. st.array = a /\ st.num = k
  BY <1>1 DEF Sieve
<1>3. PICK w : w = Written(a, m, y) /\ m = k + 1
  OBVIOUS
<1>4. Keep(st, y) = [st EXCEPT !.array[m] = y, !.num = m]
  BY <1>2, <1>3 DEF Keep
<1>5. [st EXCEPT !.array[m] = y, !.num = m] = [st EXCEPT !.array = w, !.num = m]
  BY <1>2, <1>3 DEF Written
<1>6. [st EXCEPT !.array = w, !.num = m] = [[st EXCEPT !.array = w] EXCEPT !.num = m]
  OBVIOUS
<1>7. [st EXCEPT !.array = w] = Sieve(w, k)
  BY <1>1 DEF Sieve
<1>8. [Sieve(w, k) EXCEPT !.num = m] = Sieve(w, m)
  BY DEF Sieve
<1> QED
  BY <1>1, <1>3, <1>4, <1>5, <1>6, <1>7, <1>8

LEMMA FlaggedKeeps ==
  ASSUME NEW a, NEW k \in Nat, NEW m \in Nat, m - k = 1, NEW x, NEW y
  PROVE  Keep(Flagged(a, k, x), y) = Flagged(Written(a, m, y), m, x)
<1>1. PICK st : st = Flagged(a, k, x)
  OBVIOUS
<1>2. st.array = a /\ st.num = k
  BY <1>1 DEF Flagged
<1>3. PICK w : w = Written(a, m, y) /\ m = k + 1
  OBVIOUS
<1>4. Keep(st, y) = [st EXCEPT !.array[m] = y, !.num = m]
  BY <1>2, <1>3 DEF Keep
<1>5. [st EXCEPT !.array[m] = y, !.num = m] = [st EXCEPT !.array = w, !.num = m]
  BY <1>2, <1>3 DEF Written
<1>6. [st EXCEPT !.array = w, !.num = m] = [[st EXCEPT !.array = w] EXCEPT !.num = m]
  OBVIOUS
<1>7. [st EXCEPT !.array = w] = Flagged(w, k, x)
  BY <1>1 DEF Flagged
<1>8. [Flagged(w, k, x) EXCEPT !.num = m] = Flagged(w, m, x)
  BY DEF Flagged
<1> QED
  BY <1>1, <1>3, <1>4, <1>5, <1>6, <1>7, <1>8

LEMMA CountedKeeps ==
  ASSUME NEW a, NEW k \in Nat, NEW m \in Nat, m - k = 1, NEW x, NEW c, NEW y
  PROVE  Keep(Counted(a, k, x, c), y) = Counted(Written(a, m, y), m, x, c)
<1>1. PICK st : st = Counted(a, k, x, c)
  OBVIOUS
<1>2. st.array = a /\ st.num = k
  BY <1>1 DEF Counted
<1>3. PICK w : w = Written(a, m, y) /\ m = k + 1
  OBVIOUS
<1>4. Keep(st, y) = [st EXCEPT !.array[m] = y, !.num = m]
  BY <1>2, <1>3 DEF Keep
<1>5. [st EXCEPT !.array[m] = y, !.num = m] = [st EXCEPT !.array = w, !.num = m]
  BY <1>2, <1>3 DEF Written
<1>6. [st EXCEPT !.array = w, !.num = m] = [[st EXCEPT !.array = w] EXCEPT !.num = m]
  OBVIOUS
<1>7. [st EXCEPT !.array = w] = Counted(w, k, x, c)
  BY <1>1 DEF Counted
<1>8. [Counted(w, k, x, c) EXCEPT !.num = m] = Counted(w, m, x, c)
  BY DEF Counted
<1> QED
  BY <1>1, <1>3, <1>4, <1>5, <1>6, <1>7, <1>8

OtherAdds(a, k, m, i, y, val) ==
  /\ y # val => Other(Sieve(a, k), val, i) = Sieve(Written(a, m, y), m)
  /\ y = val => Other(Sieve(a, k), val, i) = Sieve(a, k)

LEMMA OtherCases ==
  ASSUME NEW n \in Nat, NEW a \in [1 .. n -> Int], NEW k \in Nat, NEW m \in Nat, m - k = 1,
         NEW i \in 1 .. n, NEW y \in Int, a[i] = y, NEW val \in Int
  PROVE  OtherAdds(a, k, m, i, y, val)
<1>1. Sieve(a, k).array = a
  BY DEF Sieve
<1>2. Keep(Sieve(a, k), y) = Sieve(Written(a, m, y), m)
  BY SieveKeeps
<1> QED
  BY <1>1, <1>2 DEF Other, OtherAdds

SingleAdds(a, k, m, x, i, y) ==
  /\ y # x => Single(Flagged(a, k, x), i) = Flagged(Written(a, m, y), m, y)
  /\ y = x => Single(Flagged(a, k, x), i) = Flagged(a, k, x)

LEMMA SingleCases ==
  ASSUME NEW n \in Nat, NEW a \in [1 .. n -> Int], NEW k \in Nat, NEW m \in Nat, m - k = 1,
         NEW x \in Int, NEW i \in 1 .. n, NEW y \in Int, a[i] = y
  PROVE  SingleAdds(a, k, m, x, i, y)
<1>1. Flagged(a, k, x).array = a /\ Flagged(a, k, x).flag = x
  BY DEF Flagged
<1>2. PICK w : w = Written(a, m, y)
  OBVIOUS
<1>3. Keep(Flagged(a, k, x), y) = Flagged(w, m, x)
  BY <1>2, FlaggedKeeps
<1>4. [Flagged(w, m, x) EXCEPT !.flag = y] = Flagged(w, m, y)
  BY DEF Flagged
<1>5. /\ y # x => Single(Flagged(a, k, x), i) = [Keep(Flagged(a, k, x), y) EXCEPT !.flag = y]
      /\ y = x => Single(Flagged(a, k, x), i) = Flagged(a, k, x)
  BY <1>1 DEF Single
<1> QED
  BY <1>2, <1>3, <1>4, <1>5 DEF SingleAdds

DoubleAdds(a, k, m, x, c, d, i, y) ==
  /\ y # x => Double(Counted(a, k, x, c), i) = Counted(Written(a, m, y), m, y, 1)
  /\ y = x /\ c < 2 => Double(Counted(a, k, x, c), i) = Counted(Written(a, m, y), m, x, d)
  /\ y = x /\ ~(c < 2) => Double(Counted(a, k, x, c), i) = Counted(a, k, x, d)

LEMMA DoubleCases ==
  ASSUME NEW n \in Nat, NEW a \in [1 .. n -> Int], NEW k \in Nat, NEW m \in Nat, m - k = 1,
         NEW x \in Int, NEW c \in Nat, NEW d \in Nat, d - c = 1,
         NEW i \in 1 .. n, NEW y \in Int, a[i] = y
  PROVE  DoubleAdds(a, k, m, x, c, d, i, y)
<1>1. PICK st : st = Counted(a, k, x, c)
  OBVIOUS
<1>2. st.array = a /\ st.flag = x /\ st.seen = c
  BY <1>1 DEF Counted
<1>3. PICK w : w = Written(a, m, y)
  OBVIOUS
<1>4. PICK e : e = Keep(st, y)
  OBVIOUS
<1>5. e = Counted(w, m, x, c)
  BY <1>1, <1>3, <1>4, CountedKeeps
<1>6. d = c + 1
  OBVIOUS
<1>7. [e EXCEPT !.flag = y, !.seen = 1] = [[e EXCEPT !.flag = y] EXCEPT !.seen = 1]
  OBVIOUS
<1>8. [e EXCEPT !.flag = y] = Counted(w, m, y, c)
  BY <1>5 DEF Counted
<1>9. [Counted(w, m, y, c) EXCEPT !.seen = 1] = Counted(w, m, y, 1)
  BY DEF Counted
<1>10. e.seen = c /\ [e EXCEPT !.seen = d] = Counted(w, m, x, d)
  BY <1>5 DEF Counted
<1>11. [st EXCEPT !.seen = d] = Counted(a, k, x, d)
  BY <1>1 DEF Counted
<1>12. y # x => Double(st, i) = [e EXCEPT !.flag = y, !.seen = 1]
  BY <1>2, <1>4 DEF Double
<1>13. y = x /\ c < 2 => Double(st, i) = [e EXCEPT !.seen = d]
  BY <1>2, <1>4, <1>6, <1>10 DEF Double, Twice
<1>14. y = x /\ ~(c < 2) => Double(st, i) = [st EXCEPT !.seen = d]
  BY <1>2, <1>6 DEF Double, Twice
<1>15. y # x => Double(st, i) = Counted(w, m, y, 1)
  BY <1>7, <1>8, <1>9, <1>12
<1>16. y = x /\ c < 2 => Double(st, i) = Counted(w, m, x, d)
  BY <1>10, <1>13
<1>17. y = x /\ ~(c < 2) => Double(st, i) = Counted(a, k, x, d)
  BY <1>11, <1>14
<1> QED
  BY <1>1, <1>3, <1>15, <1>16, <1>17 DEF DoubleAdds

LEMMA OtherType ==
  ASSUME NEW n \in Nat, NEW st \in [array : [1 .. n -> Int], num : Nat], NEW i \in 1 .. n, NEW val \in Int
  PROVE  Other(st, val, i) \in [array : [1 .. n -> Int], num : Nat]
<1>1. PICK a \in [1 .. n -> Int], k \in Nat : st = Sieve(a, k)
  <2>1. PICK a \in [1 .. n -> Int], k \in Nat : st = [array |-> a, num |-> k]
    OBVIOUS
  <2> QED
    BY <2>1 DEF Sieve
<1>2. PICK S : S = [array : [1 .. n -> Int], num : Nat]
  OBVIOUS
<1>3. \A b \in [1 .. n -> Int], h \in Nat, z \in Int, e \in Nat : Sieve(b, h) \in S
  BY <1>2 DEF Sieve
<1>4. PICK y \in Int, m \in Nat : y = a[i] /\ m - k = 1
  <2>1. a[i] \in Int /\ k + 1 \in Nat /\ k + 1 - k = 1
    OBVIOUS
  <2> QED
    BY <2>1
<1>5. PICK w \in [1 .. n -> Int] : w = Written(a, m, y)
  BY WrittenType
<1>6. Sieve(w, m) \in S /\ Sieve(a, k) \in S
  BY <1>3
<1>7. Other(Sieve(a, k), val, i) = Sieve(w, m) \/ Other(Sieve(a, k), val, i) = Sieve(a, k)
  <2>1. OtherAdds(a, k, m, i, y, val)
    BY <1>4, OtherCases
  <2> QED
    BY <1>5, <2>1 DEF OtherAdds
<1>8. Other(st, val, i) \in S
  BY <1>1, <1>6, <1>7
<1> QED
  BY <1>2, <1>8

LEMMA SingleType ==
  ASSUME NEW n \in Nat, NEW st \in [array : [1 .. n -> Int], num : Nat, flag : Int], NEW i \in 1 .. n
  PROVE  Single(st, i) \in [array : [1 .. n -> Int], num : Nat, flag : Int]
<1>1. PICK a \in [1 .. n -> Int], k \in Nat, x \in Int : st = Flagged(a, k, x)
  <2>1. PICK a \in [1 .. n -> Int], k \in Nat, x \in Int : st = [array |-> a, num |-> k, flag |-> x]
    OBVIOUS
  <2> QED
    BY <2>1 DEF Flagged
<1>2. PICK S : S = [array : [1 .. n -> Int], num : Nat, flag : Int]
  OBVIOUS
<1>3. \A b \in [1 .. n -> Int], h \in Nat, z \in Int, e \in Nat : Flagged(b, h, z) \in S
  BY <1>2 DEF Flagged
<1>4. PICK y \in Int, m \in Nat : y = a[i] /\ m - k = 1
  <2>1. a[i] \in Int /\ k + 1 \in Nat /\ k + 1 - k = 1
    OBVIOUS
  <2> QED
    BY <2>1
<1>5. PICK w \in [1 .. n -> Int] : w = Written(a, m, y)
  BY WrittenType
<1>6. Flagged(w, m, y) \in S /\ Flagged(a, k, x) \in S
  BY <1>3
<1>7. Single(Flagged(a, k, x), i) = Flagged(w, m, y) \/ Single(Flagged(a, k, x), i) = Flagged(a, k, x)
  <2>1. SingleAdds(a, k, m, x, i, y)
    BY <1>4, SingleCases
  <2> QED
    BY <1>5, <2>1 DEF SingleAdds
<1>8. Single(st, i) \in S
  BY <1>1, <1>6, <1>7
<1> QED
  BY <1>2, <1>8

LEMMA DoubleType ==
  ASSUME NEW n \in Nat, NEW st \in [array : [1 .. n -> Int], num : Nat, flag : Int, seen : Nat], NEW i \in 1 .. n
  PROVE  Double(st, i) \in [array : [1 .. n -> Int], num : Nat, flag : Int, seen : Nat]
<1>1. PICK a \in [1 .. n -> Int], k \in Nat, x \in Int, c \in Nat : st = Counted(a, k, x, c)
  <2>1. PICK a \in [1 .. n -> Int], k \in Nat, x \in Int, c \in Nat : st = [array |-> a, num |-> k, flag |-> x, seen |-> c]
    OBVIOUS
  <2> QED
    BY <2>1 DEF Counted
<1>2. PICK S : S = [array : [1 .. n -> Int], num : Nat, flag : Int, seen : Nat]
  OBVIOUS
<1>3. \A b \in [1 .. n -> Int], h \in Nat, z \in Int, e \in Nat : Counted(b, h, z, e) \in S
  BY <1>2 DEF Counted
<1>4. PICK y \in Int, m \in Nat, d \in Nat : y = a[i] /\ m - k = 1 /\ d - c = 1
  <2>1. a[i] \in Int /\ k + 1 \in Nat /\ k + 1 - k = 1 /\ 1 \in Nat /\ c + 1 \in Nat /\ c + 1 - c = 1
    OBVIOUS
  <2> QED
    BY <2>1
<1>5. PICK w \in [1 .. n -> Int] : w = Written(a, m, y)
  BY WrittenType
<1>6. Counted(w, m, y, 1) \in S /\ Counted(w, m, x, d) \in S /\ Counted(a, k, x, d) \in S
  BY <1>3
<1>7. Double(Counted(a, k, x, c), i) = Counted(w, m, y, 1) \/ Double(Counted(a, k, x, c), i) = Counted(w, m, x, d) \/ Double(Counted(a, k, x, c), i) = Counted(a, k, x, d)
  <2>1. DoubleAdds(a, k, m, x, c, d, i, y)
    BY <1>4, DoubleCases
  <2> QED
    BY <1>5, <2>1 DEF DoubleAdds
<1>8. Double(st, i) \in S
  BY <1>1, <1>6, <1>7
<1> QED
  BY <1>2, <1>8

LEMMA OtherScanned ==
  ASSUME NEW s \in Seq(Int), NEW n \in Nat, Len(s) = n, NEW val \in Int
  PROVE  \E f : /\ f[0] = [array |-> s, num |-> 0]
                /\ \A i, h \in 0 .. n : i - h = 1 => f[i] = Other(f[h], val, i)
                /\ remove_element(s, val) = f[n]
<1> DEFINE base == [array |-> s, num |-> 0]
           D == [array : [1 .. n -> Int], num : Nat]
           t == [i \in DOMAIN s |-> i]
           Step(it, r) == IF r = {} THEN base ELSE Other(it[r \ {Max(r)}], val, t[Max(r)])
           it == CHOOSE it : it = [r \in SUBSET DOMAIN t |-> Step(it, r)]
<1>1. remove_element(s, val) = it[DOMAIN t]
  BY DEF remove_element, Other, FoldLeft, FoldLeftDomain, MapThenFoldSet
<1>2. DOMAIN t = 1 .. n /\ \A i \in 1 .. n : t[i] = i
  OBVIOUS
<1>3. it = [r \in SUBSET DOMAIN t |-> Step(it, r)]
  <2> HIDE DEF t
  <2>1. base \in D
    OBVIOUS
  <2>2. ASSUME NEW i \in 1 .. n, NEW st \in D PROVE Other(st, val, i) \in D
    BY OtherType
  <2> HIDE DEF base, D
  <2>3. PICK G : G = [i \in 1 .. n |-> [st \in D |-> Other(st, val, i)]]
    OBVIOUS
  <2>4. G \in [1 .. n -> [D -> D]]
    BY <2>2, <2>3
  <2>5. PICK g : g \in [SUBSET (1 .. n) -> D] /\ LeftFolds(g, n, G, base)
    BY <2>1, <2>4, LeftFoldExists
  <2>6. ASSUME NEW r \in SUBSET (1 .. n) PROVE g[r] = Step(g, r)
    <3>1. CASE r # {}
      <4>1. PICK m \in 1 .. n : m = Max(r) /\ r \ {m} \in SUBSET (1 .. n)
        BY <3>1, MaxInterval
      <4>2. g[r \ {m}] \in D /\ t[m] = m
        BY <1>2, <2>5, <4>1
      <4>3. g[r] = G[m][g[r \ {m}]]
        BY <2>5, <3>1, <4>1 DEF LeftFolds
      <4>4. g[r] = Other(g[r \ {m}], val, m)
        BY <2>3, <4>2, <4>3
      <4> QED
        BY <3>1, <4>1, <4>2, <4>4
    <3>2. CASE r = {}
      BY <2>5, <3>2 DEF LeftFolds
    <3> QED
      BY <3>1, <3>2
  <2> HIDE DEF Step
  <2>7. g = [r \in SUBSET DOMAIN t |-> Step(g, r)]
    BY <1>2, <2>5, <2>6
  <2> QED
    BY <2>7
<1> HIDE DEF it, t
<1>4. PICK f : Scans(f, it, n)
  BY LeftScan
<1>5. ASSUME NEW i \in 0 .. n, NEW h \in 0 .. n, i - h = 1
      PROVE  f[i] = Other(f[h], val, i)
  <2>1. it[1 .. i] = Step(it, 1 .. i)
    BY <1>2, <1>3, <1>4, <1>5 DEF Scans
  <2>2. t[i] = i
    BY <1>2, <1>4, <1>5 DEF Scans
  <2> QED
    BY <1>4, <1>5, <2>1, <2>2 DEF Scans
<1>6. f[0] = [array |-> s, num |-> 0]
  BY <1>2, <1>3, <1>4 DEF Scans
<1>7. remove_element(s, val) = f[n]
  BY <1>1, <1>2, <1>4 DEF Scans
<1> QED
  BY <1>5, <1>6, <1>7

LEMMA SingleScanned ==
  ASSUME NEW s \in Seq(Int), NEW n \in Nat, NEW b \in Nat, Len(s) = b, b - n = 1
  PROVE  \E f : /\ f[0] = [array |-> s, num |-> 1, flag |-> s[1]]
                /\ \A i, h \in 0 .. n : i - h = 1 => f[i] = Single(f[h], i + 1)
                /\ remove_duplicates(s) = f[n]
<1> DEFINE base == [array |-> s, num |-> 1, flag |-> s[1]]
           D == [array : [1 .. b -> Int], num : Nat, flag : Int]
           t == [i \in 1 .. Len(s) - 1 |-> i + 1]
           Step(it, r) == IF r = {} THEN base ELSE Single(it[r \ {Max(r)}], t[Max(r)])
           it == CHOOSE it : it = [r \in SUBSET DOMAIN t |-> Step(it, r)]
<1>1. remove_duplicates(s) = it[DOMAIN t]
  BY DEF remove_duplicates, FromSecond, Single, FoldLeft, FoldLeftDomain, MapThenFoldSet
<1>2. DOMAIN t = 1 .. n /\ \A i \in 1 .. n : t[i] = i + 1
  OBVIOUS
<1>3. it = [r \in SUBSET DOMAIN t |-> Step(it, r)]
  <2> HIDE DEF t
  <2>1. base \in D
    OBVIOUS
  <2>2. ASSUME NEW i \in 1 .. n, NEW st \in D PROVE Single(st, i + 1) \in D
    <3>1. i + 1 \in 1 .. b
      OBVIOUS
    <3> QED
      BY <3>1, SingleType
  <2> HIDE DEF base, D
  <2>3. PICK G : G = [i \in 1 .. n |-> [st \in D |-> Single(st, i + 1)]]
    OBVIOUS
  <2>4. G \in [1 .. n -> [D -> D]]
    BY <2>2, <2>3
  <2>5. PICK g : g \in [SUBSET (1 .. n) -> D] /\ LeftFolds(g, n, G, base)
    BY <2>1, <2>4, LeftFoldExists
  <2>6. ASSUME NEW r \in SUBSET (1 .. n) PROVE g[r] = Step(g, r)
    <3>1. CASE r # {}
      <4>1. PICK m \in 1 .. n : m = Max(r) /\ r \ {m} \in SUBSET (1 .. n)
        BY <3>1, MaxInterval
      <4>2. g[r \ {m}] \in D /\ t[m] = m + 1
        BY <1>2, <2>5, <4>1
      <4>3. g[r] = G[m][g[r \ {m}]]
        BY <2>5, <3>1, <4>1 DEF LeftFolds
      <4>4. g[r] = Single(g[r \ {m}], m + 1)
        BY <2>3, <4>2, <4>3
      <4> QED
        BY <3>1, <4>1, <4>2, <4>4
    <3>2. CASE r = {}
      BY <2>5, <3>2 DEF LeftFolds
    <3> QED
      BY <3>1, <3>2
  <2> HIDE DEF Step
  <2>7. g = [r \in SUBSET DOMAIN t |-> Step(g, r)]
    BY <1>2, <2>5, <2>6
  <2> QED
    BY <2>7
<1> HIDE DEF it, t
<1>4. PICK f : Scans(f, it, n)
  BY LeftScan
<1>5. ASSUME NEW i \in 0 .. n, NEW h \in 0 .. n, i - h = 1
      PROVE  f[i] = Single(f[h], i + 1)
  <2>1. it[1 .. i] = Step(it, 1 .. i)
    BY <1>2, <1>3, <1>4, <1>5 DEF Scans
  <2>2. t[i] = i + 1
    BY <1>2, <1>4, <1>5 DEF Scans
  <2> QED
    BY <1>4, <1>5, <2>1, <2>2 DEF Scans
<1>6. f[0] = [array |-> s, num |-> 1, flag |-> s[1]]
  BY <1>2, <1>3, <1>4 DEF Scans
<1>7. remove_duplicates(s) = f[n]
  BY <1>1, <1>2, <1>4 DEF Scans
<1> QED
  BY <1>5, <1>6, <1>7

LEMMA DoubleScanned ==
  ASSUME NEW s \in Seq(Int), NEW n \in Nat, NEW b \in Nat, Len(s) = b, b - n = 1
  PROVE  \E f : /\ f[0] = [array |-> s, num |-> 1, flag |-> s[1], seen |-> 1]
                /\ \A i, h \in 0 .. n : i - h = 1 => f[i] = Double(f[h], i + 1)
                /\ remove_duplicates_2(s) = f[n]
<1> DEFINE base == [array |-> s, num |-> 1, flag |-> s[1], seen |-> 1]
           D == [array : [1 .. b -> Int], num : Nat, flag : Int, seen : Nat]
           t == [i \in 1 .. Len(s) - 1 |-> i + 1]
           Step(it, r) == IF r = {} THEN base ELSE Double(it[r \ {Max(r)}], t[Max(r)])
           it == CHOOSE it : it = [r \in SUBSET DOMAIN t |-> Step(it, r)]
<1>1. remove_duplicates_2(s) = it[DOMAIN t]
  BY DEF remove_duplicates_2, FromSecond, Double, FoldLeft, FoldLeftDomain, MapThenFoldSet
<1>2. DOMAIN t = 1 .. n /\ \A i \in 1 .. n : t[i] = i + 1
  OBVIOUS
<1>3. it = [r \in SUBSET DOMAIN t |-> Step(it, r)]
  <2> HIDE DEF t
  <2>1. base \in D
    OBVIOUS
  <2>2. ASSUME NEW i \in 1 .. n, NEW st \in D PROVE Double(st, i + 1) \in D
    <3>1. i + 1 \in 1 .. b
      OBVIOUS
    <3> QED
      BY <3>1, DoubleType
  <2> HIDE DEF base, D
  <2>3. PICK G : G = [i \in 1 .. n |-> [st \in D |-> Double(st, i + 1)]]
    OBVIOUS
  <2>4. G \in [1 .. n -> [D -> D]]
    BY <2>2, <2>3
  <2>5. PICK g : g \in [SUBSET (1 .. n) -> D] /\ LeftFolds(g, n, G, base)
    BY <2>1, <2>4, LeftFoldExists
  <2>6. ASSUME NEW r \in SUBSET (1 .. n) PROVE g[r] = Step(g, r)
    <3>1. CASE r # {}
      <4>1. PICK m \in 1 .. n : m = Max(r) /\ r \ {m} \in SUBSET (1 .. n)
        BY <3>1, MaxInterval
      <4>2. g[r \ {m}] \in D /\ t[m] = m + 1
        BY <1>2, <2>5, <4>1
      <4>3. g[r] = G[m][g[r \ {m}]]
        BY <2>5, <3>1, <4>1 DEF LeftFolds
      <4>4. g[r] = Double(g[r \ {m}], m + 1)
        BY <2>3, <4>2, <4>3
      <4> QED
        BY <3>1, <4>1, <4>2, <4>4
    <3>2. CASE r = {}
      BY <2>5, <3>2 DEF LeftFolds
    <3> QED
      BY <3>1, <3>2
  <2> HIDE DEF Step
  <2>7. g = [r \in SUBSET DOMAIN t |-> Step(g, r)]
    BY <1>2, <2>5, <2>6
  <2> QED
    BY <2>7
<1> HIDE DEF it, t
<1>4. PICK f : Scans(f, it, n)
  BY LeftScan
<1>5. ASSUME NEW i \in 0 .. n, NEW h \in 0 .. n, i - h = 1
      PROVE  f[i] = Double(f[h], i + 1)
  <2>1. it[1 .. i] = Step(it, 1 .. i)
    BY <1>2, <1>3, <1>4, <1>5 DEF Scans
  <2>2. t[i] = i + 1
    BY <1>2, <1>4, <1>5 DEF Scans
  <2> QED
    BY <1>4, <1>5, <2>1, <2>2 DEF Scans
<1>6. f[0] = [array |-> s, num |-> 1, flag |-> s[1], seen |-> 1]
  BY <1>2, <1>3, <1>4 DEF Scans
<1>7. remove_duplicates_2(s) = f[n]
  BY <1>1, <1>2, <1>4 DEF Scans
<1> QED
  BY <1>5, <1>6, <1>7

LEMMA NextNumber ==
  ASSUME NEW k \in Nat
  PROVE  \E m \in Nat : m - k = 1
<1>1. k + 1 \in Nat /\ k + 1 - k = 1
  OBVIOUS
<1> QED
  BY <1>1

(* One more element. *)
OneMore(t, x, v) ==
  /\ Occurrences(t, v) \in Nat
  /\ x = v => Occurrences(Append(t, x), v) = Occurrences(t, v) + 1
  /\ x # v => Occurrences(Append(t, x), v) = Occurrences(t, v)

LEMMA OccurrencesAppend ==
  ASSUME NEW t \in Seq(Int), NEW x \in Int, NEW v \in Int
  PROVE  OneMore(t, x, v)
<1>1. PICK n \in Nat : n = Len(t) /\ DOMAIN t = 1 .. n
  OBVIOUS
<1>2. PICK m \in Nat : m = n + 1 /\ m \notin 1 .. n
  OBVIOUS
<1>3. PICK u : u = Append(t, x)
  OBVIOUS
<1>4. DOMAIN u = (1 .. n) \cup {m} /\ u[m] = x /\ \A i \in 1 .. n : u[i] = t[i]
  <2>1. Len(u) = m /\ u \in Seq(Int) /\ u[m] = x /\ \A i \in 1 .. n : u[i] = t[i]
    BY <1>1, <1>2, <1>3
  <2>2. 1 .. m = (1 .. n) \cup {m}
    BY <1>2
  <2> QED
    BY <2>1, <2>2
<1>5. PICK S : S = {i \in DOMAIN t : t[i] = v}
  OBVIOUS
<1>6. IsFiniteSet(S) /\ Cardinality(S) \in Nat /\ m \notin S
  <2>1. S \in SUBSET (1 .. n)
    BY <1>1, <1>5
  <2>2. m \notin S
    BY <1>2, <2>1
  <2>3. IsFiniteSet(S) /\ Cardinality(S) \in Nat
    <3>1. IsFiniteSet(1 .. n)
      BY FS_Interval
    <3>2. IsFiniteSet(S)
      BY <2>1, <3>1, FS_Subset
    <3> QED
      BY <3>2, FS_CardinalityType
  <2> QED
    BY <2>2, <2>3
<1>7. x = v => {i \in DOMAIN u : u[i] = v} = S \cup {m}
  BY <1>1, <1>4, <1>5
<1>8. x # v => {i \in DOMAIN u : u[i] = v} = S
  BY <1>1, <1>4, <1>5
<1>9. Cardinality(S \cup {m}) = Cardinality(S) + 1
  BY <1>6, FS_AddElement
<1> QED
  BY <1>3, <1>5, <1>6, <1>7, <1>8, <1>9 DEF OneMore, Occurrences

(* Of the array, k elements were moved to the front, and those behind place i are still
   where they were. *)
Gathered(a, k, s, i) ==
  /\ a \in [1 .. Len(s) -> Int] /\ k \in 0 .. i
  /\ \A p \in 1 .. Len(s) : p > i => a[p] = s[p]

GatheredOn(a, k, m, s, i) ==
  /\ a[i] = s[i] /\ SubSeq(a, 1, k) \in Seq(Int)
  /\ Gathered(a, k, s, i)
  /\ Gathered(Written(a, m, s[i]), m, s, i)
  /\ SubSeq(Written(a, m, s[i]), 1, m) = Append(SubSeq(a, 1, k), s[i])

PartIs(a, k, t) == t \in Seq(Int) /\ Len(t) = k /\ \A p \in 1 .. k : t[p] = a[p]

LEMMA PartOf ==
  ASSUME NEW n \in Nat, NEW a \in [1 .. n -> Int], NEW k \in 0 .. n
  PROVE  PartIs(a, k, SubSeq(a, 1, k))
<1>1. \A p \in 1 .. k : a[p] \in Int /\ 1 + p - 1 = p
  OBVIOUS
<1>2. k - 1 + 1 = k /\ k \in Nat /\ (1 <= k \/ k = 0)
  OBVIOUS
<1>3. PICK t : t = SubSeq(a, 1, k)
  OBVIOUS
<1>4. /\ t \in Seq(Int)
      /\ Len(t) = IF 1 <= k THEN k - 1 + 1 ELSE 0
      /\ \A p \in 1 .. k - 1 + 1 : t[p] = a[1 + p - 1]
  BY <1>1, <1>3, SubSeqProperties
<1> QED
  BY <1>1, <1>2, <1>3, <1>4 DEF PartIs

LEMMA GatheredNext ==
  ASSUME NEW s \in Seq(Int), NEW i \in 1 .. Len(s), NEW h \in Nat, i - h = 1,
         NEW a \in [1 .. Len(s) -> Int], NEW k \in Nat, NEW m \in Nat, m - k = 1, Gathered(a, k, s, h)
  PROVE  GatheredOn(a, k, m, s, i)
<1>1. PICK n \in Nat : n = Len(s)
  OBVIOUS
<1>2. PICK x \in Int : x = s[i]
  OBVIOUS
<1>3. k \in 0 .. h /\ i \in 1 .. n /\ k <= n /\ m <= i /\ m \in 1 .. n
  BY <1>1 DEF Gathered
<1>4. a[i] = s[i] /\ Gathered(a, k, s, i)
  <2>1. i > h /\ k \in 0 .. i /\ \A p \in 1 .. Len(s) : p > i => p > h
    BY <1>1, <1>3
  <2> QED
    BY <2>1 DEF Gathered
<1>5. PICK w \in [1 .. n -> Int] : /\ w = Written(a, m, x) /\ w[m] = x
                                   /\ \A p \in 1 .. n : p # m => w[p] = a[p]
  <2>1. Written(a, m, x) \in [1 .. n -> Int]
    BY <1>1, WrittenType
  <2> QED
    BY <2>1, <1>1, <1>3 DEF Written
<1>6. Gathered(w, m, s, i)
  <2>1. m \in 0 .. i
    BY <1>3
  <2>2. \A p \in 1 .. n : p > i => p # m /\ p > h
    BY <1>3
  <2> QED
    BY <1>1, <1>5, <2>1, <2>2 DEF Gathered
<1>7. PICK t \in Seq(Int) : t = SubSeq(a, 1, k) /\ Len(t) = k /\ \A p \in 1 .. k : t[p] = a[p]
  <2>1. k \in 0 .. n
    BY <1>3
  <2>2. PartIs(a, k, SubSeq(a, 1, k))
    BY <1>1, <2>1, PartOf
  <2> QED
    BY <2>2 DEF PartIs
<1>8. PICK u \in Seq(Int) : u = SubSeq(w, 1, m) /\ Len(u) = m /\ \A p \in 1 .. m : u[p] = w[p]
  <2>1. m \in 0 .. n
    BY <1>3
  <2> QED
    BY <2>1, PartOf DEF PartIs
<1>9. u = Append(t, x)
  <2>1. PICK e \in Seq(Int) : e = Append(t, x) /\ Len(e) = m /\ e[m] = x /\ \A p \in 1 .. k : e[p] = t[p]
    <3>1. k + 1 = m
      OBVIOUS
    <3>2. PICK e : e = Append(t, x)
      OBVIOUS
    <3>3. /\ e \in Seq(Int) /\ Len(e) = Len(t) + 1 /\ e[Len(t) + 1] = x
          /\ \A p \in 1 .. Len(t) : e[p] = t[p]
      BY <3>2, AppendProperties
    <3> QED
      BY <1>7, <3>1, <3>2, <3>3
  <2>2. \A p \in 1 .. m : p = m \/ (p \in 1 .. k /\ p # m /\ p \in 1 .. n)
    BY <1>3
  <2>3. ASSUME NEW p \in 1 .. m PROVE u[p] = e[p]
    <3>1. CASE p = m
      BY <1>5, <1>8, <2>1, <3>1
    <3>2. CASE p \in 1 .. k /\ p # m /\ p \in 1 .. n
      <4>1. u[p] = w[p]
        BY <1>8
      <4>2. w[p] = a[p]
        BY <1>5, <3>2
      <4>3. a[p] = t[p] /\ t[p] = e[p]
        BY <1>7, <2>1, <3>2
      <4> QED
        BY <4>1, <4>2, <4>3
    <3> QED
      BY <2>2, <3>1, <3>2
  <2> QED
    BY <1>8, <2>1, <2>3, SeqEqual
<1> QED
  BY <1>2, <1>4, <1>5, <1>6, <1>7, <1>8, <1>9 DEF GatheredOn

-----------------------------------------------------------------------------
(* remove_element(): the elements kept of the first i. *)
Sifted(s, val, i) == Subsequence(s, {p \in 1 .. i : s[p] # val})

SiftedOn(s, val, h, i) ==
  /\ s[i] # val => Sifted(s, val, i) = Append(Sifted(s, val, h), s[i])
  /\ s[i] = val => Sifted(s, val, i) = Sifted(s, val, h)

LEMMA SiftedNext ==
  ASSUME NEW s \in Seq(Int), NEW val \in Int, NEW h \in Nat, NEW i \in 1 .. Len(s), i - h = 1
  PROVE  SiftedOn(s, val, h, i)
<1>1. PICK S : S = {p \in 1 .. h : s[p] # val}
  OBVIOUS
<1>2. S \in SUBSET (1 .. h) /\ h + 1 = i
  BY <1>1
<1>3. Subsequence(s, S \cup {i}) = Append(Subsequence(s, S), s[i])
  BY <1>2, SubsequenceNext
<1>4. \A p \in 1 .. i : p \in 1 .. h \/ p = i
  BY <1>2
<1>5. i \in 1 .. i /\ \A p \in 1 .. h : p \in 1 .. i
  BY <1>2
<1>6. s[i] # val => {p \in 1 .. i : s[p] # val} = S \cup {i}
  BY <1>1, <1>4, <1>5
<1>7. s[i] = val => {p \in 1 .. i : s[p] # val} = S
  BY <1>1, <1>4, <1>5
<1> QED
  BY <1>1, <1>3, <1>6, <1>7 DEF Sifted, SiftedOn

SiftedTo(s, val, st, i) ==
  \E a \in [1 .. Len(s) -> Int], k \in Nat :
    st = Sieve(a, k) /\ Gathered(a, k, s, i) /\ SubSeq(a, 1, k) = Sifted(s, val, i)

LEMMA SiftedStep ==
  ASSUME NEW s \in Seq(Int), NEW val \in Int, NEW h \in Nat, NEW i \in 1 .. Len(s), i - h = 1,
         NEW st, SiftedTo(s, val, st, h)
  PROVE  SiftedTo(s, val, Other(st, val, i), i)
<1>1. PICK a \in [1 .. Len(s) -> Int], k \in Nat :
        st = Sieve(a, k) /\ Gathered(a, k, s, h) /\ SubSeq(a, 1, k) = Sifted(s, val, h)
  BY DEF SiftedTo
<1>2. PICK m \in Nat : m - k = 1
  BY NextNumber
<1>3. GatheredOn(a, k, m, s, i)
  BY <1>1, <1>2, GatheredNext
<1>4. PICK x \in Int : x = s[i] /\ a[i] = x
  <2>1. s[i] \in Int
    OBVIOUS
  <2> QED
    BY <1>3, <2>1 DEF GatheredOn
<1>5. PICK n \in Nat : n = Len(s)
  OBVIOUS
<1>6. OtherAdds(a, k, m, i, x, val)
  BY <1>2, <1>4, <1>5, OtherCases
<1>7. SiftedOn(s, val, h, i)
  BY SiftedNext
<1>8. CASE x # val
  <2>1. Other(st, val, i) = Sieve(Written(a, m, x), m)
    BY <1>1, <1>6, <1>8 DEF OtherAdds
  <2>2. SubSeq(Written(a, m, x), 1, m) = Sifted(s, val, i)
    <3>1. SubSeq(Written(a, m, x), 1, m) = Append(SubSeq(a, 1, k), x)
      BY <1>3, <1>4 DEF GatheredOn
    <3>2. Sifted(s, val, i) = Append(Sifted(s, val, h), x)
      BY <1>4, <1>7, <1>8 DEF SiftedOn
    <3> QED
      BY <3>1, <3>2, <1>1
  <2>3. Gathered(Written(a, m, x), m, s, i)
    BY <1>3, <1>4 DEF GatheredOn
  <2>4. Written(a, m, x) \in [1 .. Len(s) -> Int]
    BY <2>3 DEF Gathered
  <2> QED
    BY <2>1, <2>2, <2>3, <2>4 DEF SiftedTo
<1>9. CASE x = val
  <2>1. Other(st, val, i) = Sieve(a, k)
    BY <1>1, <1>6, <1>9 DEF OtherAdds
  <2>2. Sifted(s, val, i) = Sifted(s, val, h)
    BY <1>4, <1>7, <1>9 DEF SiftedOn
  <2>3. Gathered(a, k, s, i)
    BY <1>3 DEF GatheredOn
  <2> QED
    BY <1>1, <2>1, <2>2, <2>3 DEF SiftedTo
<1> QED
  BY <1>8, <1>9

LEMMA ElementRemoved ==
  ASSUME NEW s \in Seq(Int), NEW val \in Int, NEW r, r = remove_element(s, val)
  PROVE  SubSeq(r.array, 1, r.num) = Subsequence(s, {i \in DOMAIN s : s[i] # val})
<1>1. PICK n \in Nat : Len(s) = n /\ DOMAIN s = 1 .. n
  OBVIOUS
<1>2. PICK f : /\ f[0] = [array |-> s, num |-> 0]
               /\ \A i, h \in 0 .. n : i - h = 1 => f[i] = Other(f[h], val, i)
               /\ remove_element(s, val) = f[n]
  BY <1>1, OtherScanned
<1> DEFINE I == {i \in Nat : i <= n => SiftedTo(s, val, f[i], i)}
<1>3. 0 \in I
  <2>1. f[0] = Sieve(s, 0) /\ s \in [1 .. Len(s) -> Int]
    BY <1>2 DEF Sieve
  <2>2. Gathered(s, 0, s, 0)
    BY <2>1 DEF Gathered
  <2>3. SubSeq(s, 1, 0) = <<>>
    OBVIOUS
  <2>4. Sifted(s, val, 0) = <<>>
    <3>1. {p \in 1 .. 0 : s[p] # val} = {}
      OBVIOUS
    <3>2. Cardinality({}) = 0
      BY FS_EmptySet
    <3> QED
      BY <3>1, <3>2 DEF Sifted, Subsequence
  <2>5. SiftedTo(s, val, f[0], 0)
    BY <2>1, <2>2, <2>3, <2>4 DEF SiftedTo
  <2> QED
    BY <2>5
<1>4. ASSUME NEW h \in Nat, h \in I PROVE h + 1 \in I
  <2>1. PICK i \in Nat : i = h + 1 /\ i - h = 1
    OBVIOUS
  <2>2. ASSUME i <= n PROVE SiftedTo(s, val, f[i], i)
    <3>1. i \in 1 .. Len(s) /\ i \in 0 .. n /\ h \in 0 .. n /\ h <= n
      BY <1>1, <2>1, <2>2
    <3>2. SiftedTo(s, val, f[h], h)
      BY <1>4, <3>1
    <3>3. f[i] = Other(f[h], val, i)
      BY <1>2, <2>1, <3>1
    <3> QED
      BY <2>1, <3>1, <3>2, <3>3, SiftedStep
  <2> QED
    BY <2>1, <2>2
<1>5. Nat \subseteq I
  <2> HIDE DEF I
  <2> QED
    BY <1>3, <1>4, SetInduction
<1>6. SiftedTo(s, val, f[n], n)
  BY <1>5
<1>7. PICK a \in [1 .. Len(s) -> Int], k \in Nat :
        r = Sieve(a, k) /\ SubSeq(a, 1, k) = Sifted(s, val, n)
  BY <1>2, <1>6 DEF SiftedTo
<1>8. r.array = a /\ r.num = k
  BY <1>7 DEF Sieve
<1> QED
  BY <1>1, <1>7, <1>8 DEF Sifted

(* Of the elements t was chosen from, u, it has each at most c times; x is the last and
   the largest of both. *)
Thinned(c, t, u, x) ==
  /\ t \in Seq(Int) /\ u \in Seq(Int) /\ Len(t) # 0
  /\ Ascending(t) /\ t[Len(t)] = x
  /\ Occurrences(u, x) # 0
  /\ \A v \in Int : v > x => Occurrences(u, v) = 0
  /\ \A v \in Int : Occurrences(t, v) = Smaller(c, Occurrences(u, v))

ThinnedOn(c, t, u, y) ==
  /\ Occurrences(u, y) < c => Thinned(c, Append(t, y), Append(u, y), y)
  /\ ~(Occurrences(u, y) < c) => Thinned(c, t, Append(u, y), y)

LEMMA AscendingAppend ==
  ASSUME NEW t \in Seq(Int), Len(t) # 0, Ascending(t), NEW y \in Int, t[Len(t)] <= y
  PROVE  Ascending(Append(t, y))
<1>1. PICK n \in Nat : n = Len(t) /\ n # 0
  OBVIOUS
<1>2. PICK e \in Seq(Int) : e = Append(t, y)
  <2>1. Append(t, y) \in Seq(Int)
    BY AppendProperties
  <2> QED
    BY <2>1
<1>3. Len(e) = n + 1 /\ e[n + 1] = y /\ \A i \in 1 .. n : e[i] = t[i]
  BY <1>1, <1>2, AppendProperties
<1>4. ASSUME NEW i \in 2 .. Len(e) PROVE e[i - 1] <= e[i]
  <2>1. i = n + 1 \/ i \in 2 .. n
    BY <1>3
  <2>2. CASE i = n + 1
    <3>1. i - 1 = n /\ n \in 1 .. n
      BY <1>1, <2>2
    <3> QED
      BY <1>1, <1>3, <2>2, <3>1
  <2>3. CASE i \in 2 .. n
    <3>1. i \in 1 .. n /\ i - 1 \in 1 .. n
      BY <2>3
    <3>2. t[i - 1] <= t[i]
      BY <1>1, <2>3 DEF Ascending
    <3> QED
      BY <1>3, <3>1, <3>2
  <2> QED
    BY <2>1, <2>2, <2>3
<1> QED
  BY <1>2, <1>4 DEF Ascending

LEMMA ThinnedAdds ==
  ASSUME NEW c \in Nat, NEW t, NEW u, NEW x \in Int, Thinned(c, t, u, x),
         NEW y \in Int, x <= y, Occurrences(u, y) < c
  PROVE  Thinned(c, Append(t, y), Append(u, y), y)
<1>1. t \in Seq(Int) /\ u \in Seq(Int) /\ Len(t) # 0 /\ Ascending(t) /\ t[Len(t)] = x
  BY DEF Thinned
<1>2. PICK e \in Seq(Int) : e = Append(t, y)
  <2>1. Append(t, y) \in Seq(Int)
    BY <1>1, AppendProperties
  <2> QED
    BY <2>1
<1>3. PICK w \in Seq(Int) : w = Append(u, y)
  <2>1. Append(u, y) \in Seq(Int)
    BY <1>1, AppendProperties
  <2> QED
    BY <2>1
<1>4. Len(e) # 0 /\ e[Len(e)] = y
  <2>1. Len(e) = Len(t) + 1 /\ e[Len(t) + 1] = y
    BY <1>1, <1>2, AppendProperties
  <2> QED
    BY <1>1, <2>1
<1>5. Ascending(e)
  BY <1>1, <1>2, AscendingAppend
<1>6. OneMore(u, y, y)
  BY <1>1, OccurrencesAppend
<1>7. Occurrences(w, y) # 0
  BY <1>3, <1>6 DEF OneMore
<1>8. ASSUME NEW v \in Int, v > y PROVE Occurrences(w, v) = 0
  <2>1. OneMore(u, y, v)
    BY <1>1, OccurrencesAppend
  <2>2. v > x /\ y # v
    BY <1>8
  <2>3. Occurrences(u, v) = 0
    BY <2>2 DEF Thinned
  <2> QED
    BY <1>3, <2>1, <2>2, <2>3 DEF OneMore
<1>9. ASSUME NEW v \in Int PROVE Occurrences(e, v) = Smaller(c, Occurrences(w, v))
  <2>1. OneMore(u, y, v)
    BY <1>1, OccurrencesAppend
  <2>2. OneMore(t, y, v)
    BY <1>1, OccurrencesAppend
  <2>3. Occurrences(t, v) = Smaller(c, Occurrences(u, v))
    BY DEF Thinned
  <2>4. CASE v = y
    <3>1. PICK q \in Nat : q = Occurrences(u, v) /\ q < c
      BY <2>1, <2>4 DEF OneMore
    <3>2. Occurrences(e, v) = q + 1 /\ Occurrences(w, v) = q + 1
      BY <1>2, <1>3, <2>1, <2>2, <2>3, <2>4, <3>1 DEF OneMore, Smaller
    <3> QED
      BY <3>1, <3>2 DEF Smaller
  <2>5. CASE v # y
    BY <1>2, <1>3, <2>1, <2>2, <2>3, <2>5 DEF OneMore
  <2> QED
    BY <2>4, <2>5
<1>10. Thinned(c, e, w, y)
  BY <1>4, <1>5, <1>7, <1>8, <1>9 DEF Thinned
<1> QED
  BY <1>2, <1>3, <1>10

LEMMA ThinnedPasses ==
  ASSUME NEW c \in Nat, c # 0, NEW t, NEW u, NEW x \in Int, Thinned(c, t, u, x),
         NEW y \in Int, x <= y, ~(Occurrences(u, y) < c)
  PROVE  Thinned(c, t, Append(u, y), y)
<1>1. t \in Seq(Int) /\ u \in Seq(Int)
  BY DEF Thinned
<1>2. x = y
  <2>1. y > x => Occurrences(u, y) = 0
    BY DEF Thinned
  <2> QED
    BY <2>1
<1>3. PICK w \in Seq(Int) : w = Append(u, y)
  <2>1. Append(u, y) \in Seq(Int)
    BY <1>1, AppendProperties
  <2> QED
    BY <2>1
<1>4. OneMore(u, y, y)
  BY <1>1, OccurrencesAppend
<1>5. Occurrences(w, y) # 0
  BY <1>3, <1>4 DEF OneMore
<1>6. ASSUME NEW v \in Int, v > y PROVE Occurrences(w, v) = 0
  <2>1. OneMore(u, y, v)
    BY <1>1, OccurrencesAppend
  <2>2. v > x /\ y # v
    BY <1>6
  <2>3. Occurrences(u, v) = 0
    BY <2>2 DEF Thinned
  <2> QED
    BY <1>3, <2>1, <2>2, <2>3 DEF OneMore
<1>7. ASSUME NEW v \in Int PROVE Occurrences(t, v) = Smaller(c, Occurrences(w, v))
  <2>1. OneMore(u, y, v)
    BY <1>1, OccurrencesAppend
  <2>2. Occurrences(t, v) = Smaller(c, Occurrences(u, v))
    BY DEF Thinned
  <2>3. CASE v = y
    <3>1. PICK q \in Nat : q = Occurrences(u, v) /\ ~(q < c)
      BY <2>1, <2>3 DEF OneMore
    <3>2. Occurrences(w, v) = q + 1
      BY <1>3, <2>1, <2>3, <3>1 DEF OneMore
    <3> QED
      BY <2>2, <3>1, <3>2 DEF Smaller
  <2>4. CASE v # y
    BY <1>3, <2>1, <2>2, <2>4 DEF OneMore
  <2> QED
    BY <2>3, <2>4
<1>8. Thinned(c, t, w, y)
  BY <1>1, <1>2, <1>5, <1>6, <1>7 DEF Thinned
<1> QED
  BY <1>3, <1>8

(* What holds when p elements have been looked at. *)
Begun(c, s, a, k, p) ==
  /\ Gathered(a, k, s, p)
  /\ Thinned(c, SubSeq(a, 1, k), SubSeq(s, 1, p), s[p])

BegunOn(c, s, a, k, m, p, i) ==
  /\ Occurrences(SubSeq(s, 1, p), s[i]) < c => Begun(c, s, Written(a, m, s[i]), m, i)
  /\ ~(Occurrences(SubSeq(s, 1, p), s[i]) < c) => Begun(c, s, a, k, i)
  /\ a[i] = s[i] /\ s[i] \in Int /\ s[p] \in Int /\ Occurrences(SubSeq(s, 1, p), s[i]) \in Nat
  /\ Occurrences(SubSeq(s, 1, i), s[i]) = Occurrences(SubSeq(s, 1, p), s[i]) + 1
  /\ Occurrences(SubSeq(s, 1, p), s[p]) # 0
  /\ s[i] # s[p] => Occurrences(SubSeq(s, 1, p), s[i]) = 0

LEMMA BegunNext ==
  ASSUME NEW c \in Nat, c # 0, NEW s \in Seq(Int), Ascending(s), NEW p \in 1 .. Len(s), NEW i \in 1 .. Len(s),
         i - p = 1, NEW a \in [1 .. Len(s) -> Int], NEW k \in Nat, NEW m \in Nat, m - k = 1, Begun(c, s, a, k, p)
  PROVE  BegunOn(c, s, a, k, m, p, i)
<1>1. PICK x \in Int, y \in Int : x = s[p] /\ y = s[i]
  <2>1. s[p] \in Int /\ s[i] \in Int
    OBVIOUS
  <2> QED
    BY <2>1
<1>2. x <= y
  <2>1. i \in 2 .. Len(s) /\ i - 1 = p
    OBVIOUS
  <2> QED
    BY <1>1, <2>1 DEF Ascending
<1>3. PICK t, u : t = SubSeq(a, 1, k) /\ u = SubSeq(s, 1, p)
  OBVIOUS
<1>4. Gathered(a, k, s, p) /\ Thinned(c, t, u, x)
  BY <1>1, <1>3 DEF Begun
<1>5. GatheredOn(a, k, m, s, i)
  <2>1. p \in Nat
    OBVIOUS
  <2> QED
    BY <1>4, <2>1, GatheredNext
<1>6. SubSeq(s, 1, i) = Append(u, y)
  <2>1. 1 \in 1 .. Len(s) /\ i \in 1 .. Len(s) /\ i - 1 = p
    OBVIOUS
  <2>2. SubSeq(s, 1, i) = SubSeq(s, 1, i - 1) \o <<s[i]>>
    BY <2>1, SubSeqRecursiveSecond
  <2>3. u \in Seq(Int)
    BY <1>4 DEF Thinned
  <2>4. Append(u, y) = u \o <<y>>
    BY <2>3, AppendIsConcat
  <2> QED
    BY <1>1, <1>3, <2>1, <2>2, <2>4
<1>7. OneMore(u, y, y)
  <2>1. u \in Seq(Int)
    BY <1>4 DEF Thinned
  <2> QED
    BY <2>1, OccurrencesAppend
<1>8. Occurrences(u, y) < c => Begun(c, s, Written(a, m, y), m, i)
  <2> SUFFICES ASSUME Occurrences(u, y) < c PROVE Begun(c, s, Written(a, m, y), m, i)
    OBVIOUS
  <2>1. Thinned(c, Append(t, y), Append(u, y), y)
    BY <1>2, <1>4, ThinnedAdds
  <2>2. Gathered(Written(a, m, y), m, s, i) /\ SubSeq(Written(a, m, y), 1, m) = Append(t, y)
    BY <1>1, <1>3, <1>5 DEF GatheredOn
  <2> QED
    BY <1>1, <1>6, <2>1, <2>2 DEF Begun
<1>9. ~(Occurrences(u, y) < c) => Begun(c, s, a, k, i)
  <2> SUFFICES ASSUME ~(Occurrences(u, y) < c) PROVE Begun(c, s, a, k, i)
    OBVIOUS
  <2>1. Thinned(c, t, Append(u, y), y)
    BY <1>2, <1>4, ThinnedPasses
  <2>2. Gathered(a, k, s, i)
    BY <1>5 DEF GatheredOn
  <2> QED
    BY <1>1, <1>3, <1>6, <2>1, <2>2 DEF Begun
<1>10. Occurrences(u, y) \in Nat /\ Occurrences(Append(u, y), y) = Occurrences(u, y) + 1
  BY <1>7 DEF OneMore
<1>11. Occurrences(u, x) # 0
  BY <1>4 DEF Thinned
<1>12. y # x => Occurrences(u, y) = 0
  <2>1. y > x => Occurrences(u, y) = 0
    BY <1>4 DEF Thinned
  <2> QED
    BY <1>2, <2>1
<1>13. a[i] = y
  BY <1>1, <1>5 DEF GatheredOn
<1> QED
  BY <1>1, <1>3, <1>6, <1>8, <1>9, <1>10, <1>11, <1>12, <1>13 DEF BegunOn

LEMMA BegunFirst ==
  ASSUME NEW c \in Nat, c # 0, NEW s \in Seq(Int), Len(s) # 0
  PROVE  Begun(c, s, s, 1, 1) /\ Occurrences(SubSeq(s, 1, 1), s[1]) = 1
<1>1. PICK n \in Nat : n = Len(s) /\ n # 0 /\ s \in [1 .. n -> Int]
  OBVIOUS
<1>2. PICK x \in Int : x = s[1] /\ 1 \in 0 .. n
  <2>1. s[1] \in Int /\ 1 \in 0 .. n
    BY <1>1
  <2> QED
    BY <2>1
<1>3. Gathered(s, 1, s, 1)
  BY <1>1, <1>2 DEF Gathered
<1>4. PICK t \in Seq(Int) : t = SubSeq(s, 1, 1) /\ Len(t) = 1 /\ t[1] = x
  <2>1. PartIs(s, 1, SubSeq(s, 1, 1))
    BY <1>1, <1>2, PartOf
  <2>2. 1 \in 1 .. 1
    OBVIOUS
  <2>3. SubSeq(s, 1, 1) \in Seq(Int) /\ Len(SubSeq(s, 1, 1)) = 1 /\ SubSeq(s, 1, 1)[1] = x
    BY <1>2, <2>1, <2>2 DEF PartIs
  <2> QED
    BY <2>3
<1>5. Ascending(t)
  BY <1>4 DEF Ascending
<1>6. DOMAIN t = {1}
  BY <1>4
<1>7. {i \in DOMAIN t : t[i] = x} = {1}
  BY <1>4, <1>6
<1>8. Occurrences(t, x) = 1
  BY <1>7, FS_Singleton DEF Occurrences
<1>9. ASSUME NEW v \in Int, v # x PROVE Occurrences(t, v) = 0
  <2>1. {i \in DOMAIN t : t[i] = v} = {}
    BY <1>4, <1>6, <1>9
  <2> QED
    BY <2>1, FS_EmptySet DEF Occurrences
<1>10. ASSUME NEW v \in Int PROVE Occurrences(t, v) = Smaller(c, Occurrences(t, v))
  <2>1. Occurrences(t, v) = 0 \/ Occurrences(t, v) = 1
    BY <1>8, <1>9
  <2> QED
    BY <2>1 DEF Smaller
<1>11. ASSUME NEW v \in Int, v > x PROVE Occurrences(t, v) = 0
  BY <1>9, <1>11
<1>12. Thinned(c, t, t, x)
  BY <1>4, <1>5, <1>8, <1>10, <1>11 DEF Thinned
<1> QED
  BY <1>2, <1>3, <1>4, <1>8, <1>12 DEF Begun

(* remove_duplicates(): once each. *)
SingleTo(s, st, p) ==
  \E a \in [1 .. Len(s) -> Int], k \in Nat : st = Flagged(a, k, s[p]) /\ Begun(1, s, a, k, p)

LEMMA SingleStep ==
  ASSUME NEW s \in Seq(Int), Ascending(s), NEW p \in 1 .. Len(s), NEW i \in 1 .. Len(s), i - p = 1,
         NEW st, SingleTo(s, st, p)
  PROVE  SingleTo(s, Single(st, i), i)
<1>1. PICK a \in [1 .. Len(s) -> Int], k \in Nat : st = Flagged(a, k, s[p]) /\ Begun(1, s, a, k, p)
  BY DEF SingleTo
<1>2. PICK m \in Nat : m - k = 1
  BY NextNumber
<1>3. BegunOn(1, s, a, k, m, p, i)
  <2>1. 1 \in Nat /\ 1 # 0 /\ Begun(1, s, a, k, p)
    BY <1>1
  <2> QED
    BY <1>2, <2>1, BegunNext
<1>4. PICK x \in Int, y \in Int, q \in Nat :
        x = s[p] /\ y = s[i] /\ a[i] = y /\ q = Occurrences(SubSeq(s, 1, p), y)
  BY <1>3 DEF BegunOn
<1>5. PICK n \in Nat : n = Len(s)
  OBVIOUS
<1>6. SingleAdds(a, k, m, x, i, y)
  BY <1>2, <1>4, <1>5, SingleCases
<1>7. q < 1 => Begun(1, s, Written(a, m, y), m, i)
  BY <1>3, <1>4 DEF BegunOn
<1>8. ~(q < 1) => Begun(1, s, a, k, i)
  BY <1>3, <1>4 DEF BegunOn
<1>9. (y # x => q = 0) /\ (y = x => q # 0)
  BY <1>3, <1>4 DEF BegunOn
<1>10. CASE y # x
  <2>1. q < 1
    BY <1>9, <1>10
  <2>2. Single(st, i) = Flagged(Written(a, m, y), m, y)
    BY <1>1, <1>4, <1>6, <1>10 DEF SingleAdds
  <2>3. Written(a, m, y) \in [1 .. Len(s) -> Int]
    BY <1>5, WrittenType
  <2> QED
    BY <1>4, <1>7, <2>1, <2>2, <2>3 DEF SingleTo
<1>11. CASE y = x
  <2>1. ~(q < 1)
    BY <1>9, <1>11
  <2>2. Single(st, i) = Flagged(a, k, y)
    BY <1>1, <1>4, <1>6, <1>11 DEF SingleAdds
  <2> QED
    BY <1>4, <1>8, <2>1, <2>2 DEF SingleTo
<1> QED
  BY <1>10, <1>11

Limited(c, t, s) ==
  /\ Ascending(t)
  /\ \A v \in Int : Occurrences(t, v) = Smaller(c, Occurrences(s, v))

LEMMA AllLookedAt ==
  ASSUME NEW c \in Nat, NEW s \in Seq(Int), NEW a, NEW k \in Nat, Begun(c, s, a, k, Len(s))
  PROVE  Limited(c, SubSeq(a, 1, k), s)
<1>1. SubSeq(s, 1, Len(s)) = s
  BY SubSeqFull
<1> QED
  BY <1>1 DEF Begun, Thinned, Limited

LEMMA DuplicatesRemoved ==
  ASSUME NEW s \in Seq(Int), Len(s) # 0, Ascending(s), NEW r, r = remove_duplicates(s)
  PROVE  Limited(1, SubSeq(r.array, 1, r.num), s)
<1>1. PICK b \in Nat, n \in Nat : b = Len(s) /\ b - n = 1
  <2>1. Len(s) \in Nat /\ Len(s) - 1 \in Nat /\ Len(s) - (Len(s) - 1) = 1
    OBVIOUS
  <2> QED
    BY <2>1
<1>2. PICK f : /\ f[0] = [array |-> s, num |-> 1, flag |-> s[1]]
               /\ \A i, h \in 0 .. n : i - h = 1 => f[i] = Single(f[h], i + 1)
               /\ remove_duplicates(s) = f[n]
  BY <1>1, SingleScanned
<1> DEFINE I == {h \in Nat : h <= n => \A p \in Nat : p - h = 1 => SingleTo(s, f[h], p)}
<1>3. 0 \in I
  <2>1. f[0] = Flagged(s, 1, s[1]) /\ s \in [1 .. Len(s) -> Int]
    BY <1>2 DEF Flagged
  <2>2. Begun(1, s, s, 1, 1)
    BY BegunFirst
  <2>3. SingleTo(s, f[0], 1)
    BY <2>1, <2>2 DEF SingleTo
  <2>4. \A p \in Nat : p - 0 = 1 => p = 1
    OBVIOUS
  <2> QED
    BY <2>3, <2>4
<1>4. ASSUME NEW h \in Nat, h \in I PROVE h + 1 \in I
  <2>1. PICK i \in Nat : i = h + 1 /\ i - h = 1
    OBVIOUS
  <2>2. ASSUME i <= n, NEW p \in Nat, p - i = 1 PROVE SingleTo(s, f[i], p)
    <3>1. i \in 1 .. Len(s) /\ p \in 1 .. Len(s) /\ i \in 0 .. n /\ h \in 0 .. n /\ h <= n /\ p = i + 1
      BY <1>1, <2>1, <2>2
    <3>2. SingleTo(s, f[h], i)
      BY <1>4, <2>1, <3>1
    <3>3. f[i] = Single(f[h], p)
      BY <1>2, <2>1, <3>1
    <3>4. SingleTo(s, Single(f[h], p), p)
      BY <2>2, <3>1, <3>2, SingleStep
    <3> QED
      BY <3>3, <3>4
  <2> QED
    BY <2>1, <2>2
<1>5. Nat \subseteq I
  <2> HIDE DEF I
  <2> QED
    BY <1>3, <1>4, SetInduction
<1>6. SingleTo(s, f[n], b)
  BY <1>1, <1>5
<1>7. PICK a \in [1 .. Len(s) -> Int], k \in Nat : r = Flagged(a, k, s[b]) /\ Begun(1, s, a, k, b)
  BY <1>2, <1>6 DEF SingleTo
<1>8. r.array = a /\ r.num = k
  BY <1>7 DEF Flagged
<1>9. Limited(1, SubSeq(a, 1, k), s)
  BY <1>1, <1>7, AllLookedAt
<1> QED
  BY <1>8, <1>9

(* remove_duplicates_2(): twice at most; seen is how often the flag occurred so far. *)
DoubleTo(s, st, p) ==
  \E a \in [1 .. Len(s) -> Int], k \in Nat :
    st = Counted(a, k, s[p], Occurrences(SubSeq(s, 1, p), s[p])) /\ Begun(2, s, a, k, p)

LEMMA DoubleStep ==
  ASSUME NEW s \in Seq(Int), Ascending(s), NEW p \in 1 .. Len(s), NEW i \in 1 .. Len(s), i - p = 1,
         NEW st, DoubleTo(s, st, p)
  PROVE  DoubleTo(s, Double(st, i), i)
<1>1. PICK a \in [1 .. Len(s) -> Int], k \in Nat :
        st = Counted(a, k, s[p], Occurrences(SubSeq(s, 1, p), s[p])) /\ Begun(2, s, a, k, p)
  BY DEF DoubleTo
<1>2. PICK m \in Nat : m - k = 1
  BY NextNumber
<1>3. BegunOn(2, s, a, k, m, p, i)
  <2>1. 2 \in Nat /\ 2 # 0 /\ Begun(2, s, a, k, p)
    BY <1>1
  <2> QED
    BY <1>2, <2>1, BegunNext
<1>4. PICK x \in Int, y \in Int, q \in Nat :
        x = s[p] /\ y = s[i] /\ a[i] = y /\ q = Occurrences(SubSeq(s, 1, p), y)
  BY <1>3 DEF BegunOn
<1>5. PICK n \in Nat : n = Len(s)
  OBVIOUS
<1>6. PICK c \in Nat, d \in Nat : c = Occurrences(SubSeq(s, 1, p), x) /\ d - c = 1
  <2>1. SubSeq(s, 1, p) \in Seq(Int)
    BY <1>1 DEF Begun, Thinned
  <2>2. OneMore(SubSeq(s, 1, p), x, x)
    BY <2>1, OccurrencesAppend
  <2>3. PICK c \in Nat : c = Occurrences(SubSeq(s, 1, p), x)
    BY <2>2 DEF OneMore
  <2>4. c + 1 \in Nat /\ c + 1 - c = 1
    OBVIOUS
  <2> QED
    BY <2>3, <2>4
<1>7. DoubleAdds(a, k, m, x, c, d, i, y)
  BY <1>2, <1>4, <1>5, <1>6, DoubleCases
<1>8. q < 2 => Begun(2, s, Written(a, m, y), m, i)
  BY <1>3, <1>4 DEF BegunOn
<1>9. ~(q < 2) => Begun(2, s, a, k, i)
  BY <1>3, <1>4 DEF BegunOn
<1>10. (y # x => q = 0) /\ Occurrences(SubSeq(s, 1, i), y) = q + 1
  BY <1>3, <1>4 DEF BegunOn
<1>11. Written(a, m, y) \in [1 .. Len(s) -> Int]
  BY <1>5, WrittenType
<1>12. st = Counted(a, k, x, c)
  BY <1>1, <1>4, <1>6
<1>13. CASE y # x
  <2>1. q < 2 /\ q + 1 = 1
    BY <1>10, <1>13
  <2>2. Double(st, i) = Counted(Written(a, m, y), m, y, 1)
    BY <1>7, <1>12, <1>13 DEF DoubleAdds
  <2>3. Double(st, i) = Counted(Written(a, m, y), m, s[i], Occurrences(SubSeq(s, 1, i), s[i]))
    BY <1>4, <1>10, <2>1, <2>2
  <2> QED
    BY <1>8, <1>11, <2>1, <2>3 DEF DoubleTo
<1>14. CASE y = x /\ c < 2
  <2>1. q < 2 /\ q + 1 = d
    BY <1>4, <1>6, <1>14
  <2>2. Double(st, i) = Counted(Written(a, m, y), m, x, d)
    BY <1>7, <1>12, <1>14 DEF DoubleAdds
  <2>3. Double(st, i) = Counted(Written(a, m, y), m, s[i], Occurrences(SubSeq(s, 1, i), s[i]))
    BY <1>4, <1>10, <1>14, <2>1, <2>2
  <2> QED
    BY <1>8, <1>11, <2>1, <2>3 DEF DoubleTo
<1>15. CASE y = x /\ ~(c < 2)
  <2>1. ~(q < 2) /\ q + 1 = d
    BY <1>4, <1>6, <1>15
  <2>2. Double(st, i) = Counted(a, k, x, d)
    BY <1>7, <1>12, <1>15 DEF DoubleAdds
  <2>3. Double(st, i) = Counted(a, k, s[i], Occurrences(SubSeq(s, 1, i), s[i]))
    BY <1>4, <1>10, <1>15, <2>1, <2>2
  <2> QED
    BY <1>9, <2>1, <2>3 DEF DoubleTo
<1> QED
  BY <1>13, <1>14, <1>15

LEMMA TriplesRemoved ==
  ASSUME NEW s \in Seq(Int), Len(s) # 0, Ascending(s), NEW r, r = remove_duplicates_2(s)
  PROVE  Limited(2, SubSeq(r.array, 1, r.num), s)
<1>1. PICK b \in Nat, n \in Nat : b = Len(s) /\ b - n = 1
  <2>1. Len(s) \in Nat /\ Len(s) - 1 \in Nat /\ Len(s) - (Len(s) - 1) = 1
    OBVIOUS
  <2> QED
    BY <2>1
<1>2. PICK f : /\ f[0] = [array |-> s, num |-> 1, flag |-> s[1], seen |-> 1]
               /\ \A i, h \in 0 .. n : i - h = 1 => f[i] = Double(f[h], i + 1)
               /\ remove_duplicates_2(s) = f[n]
  BY <1>1, DoubleScanned
<1> DEFINE I == {h \in Nat : h <= n => \A p \in Nat : p - h = 1 => DoubleTo(s, f[h], p)}
<1>3. 0 \in I
  <2>1. f[0] = Counted(s, 1, s[1], 1) /\ s \in [1 .. Len(s) -> Int]
    BY <1>2 DEF Counted
  <2>2. Begun(2, s, s, 1, 1) /\ Occurrences(SubSeq(s, 1, 1), s[1]) = 1
    BY BegunFirst
  <2>3. DoubleTo(s, f[0], 1)
    BY <2>1, <2>2 DEF DoubleTo
  <2>4. \A p \in Nat : p - 0 = 1 => p = 1
    OBVIOUS
  <2> QED
    BY <2>3, <2>4
<1>4. ASSUME NEW h \in Nat, h \in I PROVE h + 1 \in I
  <2>1. PICK i \in Nat : i = h + 1 /\ i - h = 1
    OBVIOUS
  <2>2. ASSUME i <= n, NEW p \in Nat, p - i = 1 PROVE DoubleTo(s, f[i], p)
    <3>1. i \in 1 .. Len(s) /\ p \in 1 .. Len(s) /\ i \in 0 .. n /\ h \in 0 .. n /\ h <= n /\ p = i + 1
      BY <1>1, <2>1, <2>2
    <3>2. DoubleTo(s, f[h], i)
      BY <1>4, <2>1, <3>1
    <3>3. f[i] = Double(f[h], p)
      BY <1>2, <2>1, <3>1
    <3>4. DoubleTo(s, Double(f[h], p), p)
      BY <2>2, <3>1, <3>2, DoubleStep
    <3> QED
      BY <3>3, <3>4
  <2> QED
    BY <2>1, <2>2
<1>5. Nat \subseteq I
  <2> HIDE DEF I
  <2> QED
    BY <1>3, <1>4, SetInduction
<1>6. DoubleTo(s, f[n], b)
  BY <1>1, <1>5
<1>7. PICK a \in [1 .. Len(s) -> Int], k \in Nat :
        r = Counted(a, k, s[b], Occurrences(SubSeq(s, 1, b), s[b])) /\ Begun(2, s, a, k, b)
  BY <1>2, <1>6 DEF DoubleTo
<1>8. r.array = a /\ r.num = k
  BY <1>7 DEF Counted
<1>9. Limited(2, SubSeq(a, 1, k), s)
  BY <1>1, <1>7, AllLookedAt
<1> QED
  BY <1>8, <1>9

-----------------------------------------------------------------------------
(* Merging. *)

(* The step of merge(), its states, and the three ways it goes. *)
Merging(st, u, k) ==
  IF st.j = 0 THEN st
  ELSE IF st.i > 0 /\ st.array[st.i] >= u[st.j]
  THEN [st EXCEPT !.array[k] = st.array[st.i], !.i = @ - 1]
  ELSE [st EXCEPT !.array[k] = u[st.j], !.j = @ - 1]
Merged(a, i, j) == [array |-> a, i |-> i, j |-> j]
Takes(a, i, u, j) == i > 0 /\ a[i] >= u[j]
MergesFirst(a, i, h, u, j, k) == Merging(Merged(a, i, j), u, k) = Merged(Written(a, k, a[i]), h, j)
MergesSecond(a, i, u, j, h, k) == Merging(Merged(a, i, j), u, k) = Merged(Written(a, k, u[j]), i, h)
MergeStates(e, c) == [array : [1 .. e -> Int], i : 0 .. e, j : 0 .. c]

LEMMA MergingStops ==
  ASSUME NEW a, NEW i, NEW u, NEW k
  PROVE  Merging(Merged(a, i, 0), u, k) = Merged(a, i, 0)
BY DEF Merging, Merged

LEMMA MergingFirst ==
  ASSUME NEW e \in Nat, NEW a \in [1 .. e -> Int], NEW i \in 1 .. e, NEW h \in Nat, i - h = 1, NEW u \in Seq(Int),
         NEW j \in 1 .. Len(u), NEW k \in Nat, Takes(a, i, u, j)
  PROVE  MergesFirst(a, i, h, u, j, k)
<1>1. PICK st : st = Merged(a, i, j)
  OBVIOUS
<1>2. st.array = a /\ st.i = i /\ st.j = j /\ i > 0 /\ j # 0 /\ h = i - 1
  BY <1>1 DEF Merged
<1>3. PICK x : x = a[i]
  OBVIOUS
<1>4. Merging(st, u, k) = [st EXCEPT !.array[k] = x, !.i = h]
  BY <1>2, <1>3 DEF Merging, Takes
<1>5. [st EXCEPT !.array[k] = x, !.i = h] = [[st EXCEPT !.array[k] = x] EXCEPT !.i = h]
  OBVIOUS
<1>6. [st EXCEPT !.array[k] = x] = Merged(Written(a, k, x), i, j)
  <2>1. PICK w : w = Written(a, k, x)
    OBVIOUS
  <2>2. [st EXCEPT !.array[k] = x] = [st EXCEPT !.array = w]
    BY <1>2, <2>1 DEF Written
  <2>3. [st EXCEPT !.array = w] = Merged(w, i, j)
    BY <1>1 DEF Merged
  <2> QED
    BY <2>1, <2>2, <2>3
<1>7. [Merged(Written(a, k, x), i, j) EXCEPT !.i = h] = Merged(Written(a, k, x), h, j)
  BY DEF Merged
<1> QED
  BY <1>1, <1>3, <1>4, <1>5, <1>6, <1>7 DEF MergesFirst

LEMMA MergingSecond ==
  ASSUME NEW e \in Nat, NEW a \in [1 .. e -> Int], NEW i \in 0 .. e, NEW u \in Seq(Int),
         NEW j \in 1 .. Len(u), NEW h \in Nat, j - h = 1, NEW k \in Nat, ~Takes(a, i, u, j)
  PROVE  MergesSecond(a, i, u, j, h, k)
<1>1. PICK st : st = Merged(a, i, j)
  OBVIOUS
<1>2. st.array = a /\ st.i = i /\ st.j = j /\ j # 0 /\ h = j - 1
  BY <1>1 DEF Merged
<1>3. PICK x : x = u[j]
  OBVIOUS
<1>4. Merging(st, u, k) = [st EXCEPT !.array[k] = x, !.j = h]
  BY <1>2, <1>3 DEF Merging, Takes
<1>5. [st EXCEPT !.array[k] = x, !.j = h] = [[st EXCEPT !.array[k] = x] EXCEPT !.j = h]
  OBVIOUS
<1>6. [st EXCEPT !.array[k] = x] = Merged(Written(a, k, x), i, j)
  <2>1. PICK w : w = Written(a, k, x)
    OBVIOUS
  <2>2. [st EXCEPT !.array[k] = x] = [st EXCEPT !.array = w]
    BY <1>2, <2>1 DEF Written
  <2>3. [st EXCEPT !.array = w] = Merged(w, i, j)
    BY <1>1 DEF Merged
  <2> QED
    BY <2>1, <2>2, <2>3
<1>7. [Merged(Written(a, k, x), i, j) EXCEPT !.j = h] = Merged(Written(a, k, x), i, h)
  BY DEF Merged
<1> QED
  BY <1>1, <1>3, <1>4, <1>5, <1>6, <1>7 DEF MergesSecond

LEMMA MergingType ==
  ASSUME NEW e \in Nat, NEW u \in Seq(Int), NEW c \in Nat, Len(u) = c,
         NEW st \in MergeStates(e, c), NEW k \in Nat
  PROVE  Merging(st, u, k) \in MergeStates(e, c)
<1>1. PICK a \in [1 .. e -> Int], i \in 0 .. e, j \in 0 .. c : st = Merged(a, i, j)
  <2>1. PICK a \in [1 .. e -> Int], i \in 0 .. e, j \in 0 .. c : st = [array |-> a, i |-> i, j |-> j]
    BY DEF MergeStates
  <2> QED
    BY <2>1 DEF Merged
<1>2. \A w \in [1 .. e -> Int], g \in 0 .. e, h \in 0 .. c : Merged(w, g, h) \in MergeStates(e, c)
  BY DEF Merged, MergeStates
<1>3. CASE j = 0
  BY <1>1, <1>3, MergingStops
<1>4. CASE j # 0 /\ Takes(a, i, u, j)
  <2>1. PICK h \in 0 .. e : i - h = 1
    <3>1. i - 1 \in 0 .. e /\ i - (i - 1) = 1
      BY <1>4 DEF Takes
    <3> QED
      BY <3>1
  <2>2. i \in 1 .. e /\ j \in 1 .. Len(u) /\ h \in Nat /\ a[i] \in Int
    BY <1>4 DEF Takes
  <2>3. Merging(Merged(a, i, j), u, k) = Merged(Written(a, k, a[i]), h, j)
    <3>1. MergesFirst(a, i, h, u, j, k)
      BY <1>4, <2>1, <2>2, MergingFirst
    <3> QED
      BY <3>1 DEF MergesFirst
  <2>4. Written(a, k, a[i]) \in [1 .. e -> Int]
    BY <2>2, WrittenType
  <2> QED
    BY <1>1, <1>2, <2>1, <2>3, <2>4
<1>5. CASE j # 0 /\ ~Takes(a, i, u, j)
  <2>1. PICK h \in 0 .. c : j - h = 1
    <3>1. j - 1 \in 0 .. c /\ j - (j - 1) = 1
      BY <1>5
    <3> QED
      BY <3>1
  <2>2. j \in 1 .. Len(u) /\ h \in Nat /\ u[j] \in Int
    BY <1>5
  <2>3. Merging(Merged(a, i, j), u, k) = Merged(Written(a, k, u[j]), i, h)
    <3>1. MergesSecond(a, i, u, j, h, k)
      BY <1>5, <2>1, <2>2, MergingSecond
    <3> QED
      BY <3>1 DEF MergesSecond
  <2>4. Written(a, k, u[j]) \in [1 .. e -> Int]
    BY <2>2, WrittenType
  <2> QED
    BY <1>1, <1>2, <2>1, <2>3, <2>4
<1> QED
  BY <1>3, <1>4, <1>5

MergeScan(f, s, u, b, c, e) ==
  /\ f[0] = [array |-> s, i |-> b, j |-> c]
  /\ \A i, h \in 0 .. e : i - h = 1 => f[i] = Merging(f[h], u, e + 1 - i)
  /\ Merge(s, b, u, c) = f[e].array

LEMMA MergeScanned ==
  ASSUME NEW s \in Seq(Int), NEW u \in Seq(Int), NEW b \in Nat, NEW c \in Nat, Len(u) = c,
         NEW e \in Nat, Len(s) = e, b + c = e
  PROVE  \E f : MergeScan(f, s, u, b, c, e)
<1> DEFINE base == [array |-> s, i |-> b, j |-> c]
           D == MergeStates(e, c)
           t == [d \in 1 .. b + c |-> b + c + 1 - d]
           Step(it, r) == IF r = {} THEN base ELSE Merging(it[r \ {Max(r)}], u, t[Max(r)])
           it == CHOOSE it : it = [r \in SUBSET DOMAIN t |-> Step(it, r)]
<1>1. Merge(s, b, u, c) = it[DOMAIN t].array
  BY DEF Merge, Backwards, Merging, FoldLeft, FoldLeftDomain, MapThenFoldSet
<1>2. DOMAIN t = 1 .. e /\ \A i \in 1 .. e : t[i] = e + 1 - i
  OBVIOUS
<1>3. it = [r \in SUBSET DOMAIN t |-> Step(it, r)]
  <2> HIDE DEF t
  <2>1. base \in D
    BY DEF MergeStates
  <2>2. ASSUME NEW i \in 1 .. e, NEW st \in D PROVE Merging(st, u, e + 1 - i) \in D
    <3>1. e + 1 - i \in Nat
      OBVIOUS
    <3> QED
      BY <3>1, MergingType
  <2> HIDE DEF base, D
  <2>3. PICK G : G = [i \in 1 .. e |-> [st \in D |-> Merging(st, u, e + 1 - i)]]
    OBVIOUS
  <2>4. G \in [1 .. e -> [D -> D]]
    BY <2>2, <2>3
  <2>5. PICK g : g \in [SUBSET (1 .. e) -> D] /\ LeftFolds(g, e, G, base)
    BY <2>1, <2>4, LeftFoldExists
  <2>6. ASSUME NEW r \in SUBSET (1 .. e) PROVE g[r] = Step(g, r)
    <3>1. CASE r # {}
      <4>1. PICK m \in 1 .. e : m = Max(r) /\ r \ {m} \in SUBSET (1 .. e)
        BY <3>1, MaxInterval
      <4>2. g[r \ {m}] \in D /\ t[m] = e + 1 - m
        BY <1>2, <2>5, <4>1
      <4>3. g[r] = G[m][g[r \ {m}]]
        BY <2>5, <3>1, <4>1 DEF LeftFolds
      <4>4. g[r] = Merging(g[r \ {m}], u, e + 1 - m)
        BY <2>3, <4>2, <4>3
      <4> QED
        BY <3>1, <4>1, <4>2, <4>4
    <3>2. CASE r = {}
      BY <2>5, <3>2 DEF LeftFolds
    <3> QED
      BY <3>1, <3>2
  <2> HIDE DEF Step
  <2>7. g = [r \in SUBSET DOMAIN t |-> Step(g, r)]
    BY <1>2, <2>5, <2>6
  <2> QED
    BY <2>7
<1> HIDE DEF it, t
<1>4. PICK f : Scans(f, it, e)
  BY LeftScan
<1>5. ASSUME NEW i \in 0 .. e, NEW h \in 0 .. e, i - h = 1
      PROVE  f[i] = Merging(f[h], u, e + 1 - i)
  <2>1. it[1 .. i] = Step(it, 1 .. i)
    <3> HIDE DEF Step
    <3>1. (1 .. i) \in SUBSET DOMAIN t
      BY <1>2, <1>4, <1>5 DEF Scans
    <3> QED
      BY <1>3, <3>1
  <2>2. t[i] = e + 1 - i
    BY <1>2, <1>4, <1>5 DEF Scans
  <2> QED
    BY <1>4, <1>5, <2>1, <2>2 DEF Scans
<1>6. f[0] = [array |-> s, i |-> b, j |-> c]
  BY <1>2, <1>3, <1>4 DEF Scans
<1>7. Merge(s, b, u, c) = f[e].array
  BY <1>1, <1>2, <1>4 DEF Scans
<1> QED
  BY <1>5, <1>6, <1>7 DEF MergeScan

(* How often v is at a place in S. *)
CountOf(S, s, v) == Cardinality({p \in S : s[p] = v})

LEMMA CountType ==
  ASSUME NEW S, IsFiniteSet(S), NEW s, NEW v
  PROVE  CountOf(S, s, v) \in Nat
<1>1. IsFiniteSet({p \in S : s[p] = v})
  BY FS_Subset
<1> QED
  BY <1>1, FS_CardinalityType DEF CountOf

(* One place more. *)
CountAdds(S, T, s, x, v) ==
  /\ CountOf(S, s, v) \in Nat /\ CountOf(T, s, v) \in Nat
  /\ x = v => CountOf(T, s, v) = CountOf(S, s, v) + 1
  /\ x # v => CountOf(T, s, v) = CountOf(S, s, v)

LEMMA CountAdd ==
  ASSUME NEW S, IsFiniteSet(S), NEW k, k \notin S, NEW T, T = S \cup {k}, NEW s, NEW x, s[k] = x, NEW v
  PROVE  CountAdds(S, T, s, x, v)
<1>1. PICK P : P = {p \in S : s[p] = v}
  OBVIOUS
<1>2. IsFiniteSet(P) /\ k \notin P
  BY <1>1, FS_Subset
<1>3. x = v => {p \in T : s[p] = v} = P \cup {k}
  BY <1>1
<1>4. x # v => {p \in T : s[p] = v} = P
  BY <1>1
<1>5. Cardinality(P \cup {k}) = Cardinality(P) + 1 /\ Cardinality(P) \in Nat
  BY <1>2, FS_AddElement, FS_CardinalityType
<1>6. PICK m \in Nat : m = Cardinality(P) /\ Cardinality(P \cup {k}) = m + 1
  BY <1>5
<1>7. CountOf(S, s, v) = m
  BY <1>1, <1>6 DEF CountOf
<1>8. x = v => CountOf(T, s, v) = m + 1
  BY <1>3, <1>6 DEF CountOf
<1>9. x # v => CountOf(T, s, v) = m
  BY <1>4, <1>6 DEF CountOf
<1> QED
  BY <1>7, <1>8, <1>9 DEF CountAdds

LEMMA CountSame ==
  ASSUME NEW S, NEW s, NEW w, \A p \in S : s[p] = w[p], NEW v
  PROVE  CountOf(S, s, v) = CountOf(S, w, v)
<1>1. {p \in S : s[p] = v} = {p \in S : w[p] = v}
  OBVIOUS
<1> QED
  BY <1>1 DEF CountOf

LEMMA CountParts ==
  ASSUME NEW S, IsFiniteSet(S), NEW T, IsFiniteSet(T), S \cap T = {}, NEW s, NEW v
  PROVE  CountOf(S \cup T, s, v) = CountOf(S, s, v) + CountOf(T, s, v)
<1>1. PICK P, Q : P = {p \in S : s[p] = v} /\ Q = {p \in T : s[p] = v}
  OBVIOUS
<1>2. IsFiniteSet(P) /\ IsFiniteSet(Q) /\ P \cap Q = {}
  <2>1. IsFiniteSet(P)
    BY <1>1, FS_Subset
  <2>2. IsFiniteSet(Q)
    BY <1>1, FS_Subset
  <2> QED
    BY <1>1, <2>1, <2>2
<1>3. {p \in S \cup T : s[p] = v} = P \cup Q
  BY <1>1
<1>4. Cardinality(P \cup Q) = Cardinality(P) + Cardinality(Q)
  <2>1. Cardinality(P \cup Q) = Cardinality(P) + Cardinality(Q) - Cardinality(P \cap Q)
    BY <1>2, FS_Union
  <2>2. Cardinality(P \cap Q) = 0
    BY <1>2, FS_EmptySet
  <2>3. Cardinality(P) \in Nat /\ Cardinality(Q) \in Nat
    BY <1>2, FS_CardinalityType
  <2> QED
    BY <2>1, <2>2, <2>3
<1> QED
  BY <1>1, <1>3, <1>4 DEF CountOf

(* Neighbours in order are all in order. *)
InOrder(s, n) == \A p, q \in 1 .. n : p <= q => s[p] <= s[q]

LEMMA AscendingAll ==
  ASSUME NEW s \in Seq(Int), Ascending(s), NEW n \in Nat, n = Len(s)
  PROVE  InOrder(s, n)
<1> DEFINE I == {q \in Nat : q <= n => \A p \in 1 .. n : p <= q => s[p] <= s[q]}
<1>1. 0 \in I
  OBVIOUS
<1>2. ASSUME NEW h \in Nat, h \in I PROVE h + 1 \in I
  <2>1. PICK q \in Nat : q = h + 1 /\ q - 1 = h
    OBVIOUS
  <2>2. ASSUME q <= n, NEW p \in 1 .. n, p <= q PROVE s[p] <= s[q]
    <3>1. s[q] \in Int /\ s[p] \in Int /\ q \in 1 .. n
      BY <2>1, <2>2
    <3>2. CASE p = q
      BY <3>1, <3>2
    <3>3. CASE p <= h
      <4>1. h \in 1 .. n /\ q \in 2 .. n /\ s[h] \in Int
        BY <2>1, <2>2, <3>3
      <4>2. s[h] <= s[q]
        BY <2>1, <4>1 DEF Ascending
      <4>3. s[p] <= s[h]
        BY <1>2, <3>3, <4>1
      <4> QED
        BY <3>1, <4>1, <4>2, <4>3
    <3> QED
      BY <2>1, <2>2, <3>2, <3>3
  <2> QED
    BY <2>1, <2>2
<1>3. Nat \subseteq I
  <2> HIDE DEF I
  <2> QED
    BY <1>1, <1>2, SetInduction
<1> QED
  BY <1>3 DEF InOrder

LEMMA AllAscending ==
  ASSUME NEW s, NEW n \in Nat, Len(s) = n, InOrder(s, n)
  PROVE  Ascending(s)
<1>1. ASSUME NEW i \in 2 .. n PROVE s[i - 1] <= s[i]
  <2>1. i - 1 \in 1 .. n /\ i \in 1 .. n /\ i - 1 <= i
    OBVIOUS
  <2> QED
    BY <2>1 DEF InOrder
<1> QED
  BY <1>1 DEF Ascending

(* What is left: of s, the first i, which stand where they stood; of u, the first j.
   All others are behind place i + j, in order and no less than those that are left. *)
Behind(k, e) == {p \in 1 .. e : p > k}
Remaining(s, b, u, c, e, a, i, j, k) ==
  /\ a \in [1 .. e -> Int] /\ i \in 0 .. b /\ j \in 0 .. c /\ k = i + j /\ k <= e
  /\ \A p \in 1 .. k : a[p] = s[p]
  /\ \A p, q \in Behind(k, e) : p <= q => a[p] <= a[q]
  /\ \A q \in Behind(k, e) : (\A p \in 1 .. i : s[p] <= a[q]) /\ (\A p \in 1 .. j : u[p] <= a[q])
  /\ \A v \in Int : CountOf(1 .. i, s, v) + CountOf(1 .. j, u, v) + CountOf(Behind(k, e), a, v)
                      = CountOf(1 .. b, s, v) + CountOf(1 .. c, u, v)

(* y counts v as z does, and x too. *)
TotalAdds(y, z, x, v) == y \in Nat /\ z \in Nat /\ (x = v => y = z + 1) /\ (x # v => y = z)

(* x is no less than what is left without it, and no more than what is behind. *)
Fits(s, u, e, a, i, j, k, g, h, x) ==
  /\ (\A p \in 1 .. g : s[p] <= x) /\ (\A p \in 1 .. h : u[p] <= x)
  /\ \A q \in Behind(k, e) : x <= a[q]
  /\ \A v \in Int : TotalAdds(CountOf(1 .. i, s, v) + CountOf(1 .. j, u, v),
                               CountOf(1 .. g, s, v) + CountOf(1 .. h, u, v), x, v)

LEMMA RemainingNext ==
  ASSUME NEW s, NEW b \in Nat, NEW u, NEW c \in Nat, NEW e \in Nat, NEW a, NEW i, NEW j, NEW k \in Nat,
         Remaining(s, b, u, c, e, a, i, j, k), NEW l \in Nat, k - l = 1,
         NEW g \in 0 .. b, NEW h \in 0 .. c, l = g + h, g <= i, h <= j,
         NEW x \in Int, Fits(s, u, e, a, i, j, k, g, h, x)
  PROVE  Remaining(s, b, u, c, e, Written(a, k, x), g, h, l)
<1>1. /\ a \in [1 .. e -> Int] /\ i \in 0 .. b /\ j \in 0 .. c /\ k = i + j /\ k <= e
      /\ \A p \in 1 .. k : a[p] = s[p]
  BY DEF Remaining
<1>2. PICK w \in [1 .. e -> Int] : /\ w = Written(a, k, x) /\ w[k] = x
                                   /\ \A p \in 1 .. e : p # k => w[p] = a[p]
  <2>1. Written(a, k, x) \in [1 .. e -> Int]
    BY <1>1, WrittenType
  <2>2. k \in 1 .. e
    BY <1>1
  <2> QED
    BY <1>1, <2>1, <2>2 DEF Written
<1>3. PICK S, T : S = Behind(k, e) /\ T = Behind(l, e)
  OBVIOUS
<1>4. T = S \cup {k} /\ k \notin S /\ IsFiniteSet(S) /\ \A p \in S : p \in 1 .. e /\ p # k /\ p > k
  <2>1. k \in 1 .. e /\ \A p \in 1 .. e : p > l <=> p > k \/ p = k
    BY <1>1
  <2>2. S \in SUBSET (1 .. e) /\ T = S \cup {k}
    BY <1>3, <2>1 DEF Behind
  <2>3. IsFiniteSet(S)
    <3>1. IsFiniteSet(1 .. e)
      BY FS_Interval
    <3> QED
      BY <2>2, <3>1, FS_Subset
  <2>4. \A p \in S : p \in 1 .. e /\ p > k
    BY <1>3 DEF Behind
  <2>5. k \notin S
    BY <2>4
  <2> QED
    BY <2>2, <2>3, <2>4, <2>5
<1>5. \A p \in 1 .. l : w[p] = s[p]
  <2>1. \A p \in 1 .. l : p \in 1 .. k /\ p \in 1 .. e /\ p # k
    BY <1>1
  <2> QED
    BY <1>1, <1>2, <2>1
<1>6. ASSUME NEW p \in T, NEW q \in T, p <= q PROVE w[p] <= w[q]
  <2>1. \A r \in S : x <= a[r]
    BY <1>3 DEF Fits
  <2>2. \A r \in S : w[r] = a[r] /\ a[r] \in Int
    BY <1>1, <1>2, <1>4
  <2>3. CASE p = k /\ q = k
    BY <1>2, <2>3
  <2>4. CASE p = k /\ q \in S
    BY <1>2, <2>1, <2>2, <2>4
  <2>5. CASE p \in S /\ q = k
    BY <1>1, <1>4, <1>6, <2>5
  <2>6. CASE p \in S /\ q \in S
    <3>1. a[p] <= a[q]
      BY <1>3, <1>6, <2>6 DEF Remaining
    <3> QED
      BY <2>2, <2>6, <3>1
  <2> QED
    BY <1>4, <2>3, <2>4, <2>5, <2>6
<1>7. ASSUME NEW q \in T PROVE (\A p \in 1 .. g : s[p] <= w[q]) /\ (\A p \in 1 .. h : u[p] <= w[q])
  <2>1. CASE q = k
    BY <1>2, <2>1 DEF Fits
  <2>2. CASE q \in S
    <3>1. (\A p \in 1 .. i : s[p] <= a[q]) /\ (\A p \in 1 .. j : u[p] <= a[q])
      BY <1>3, <2>2 DEF Remaining
    <3>2. w[q] = a[q]
      BY <1>2, <1>4, <2>2
    <3>3. (\A p \in 1 .. g : p \in 1 .. i) /\ (\A p \in 1 .. h : p \in 1 .. j)
      BY <1>1
    <3> QED
      BY <3>1, <3>2, <3>3
  <2> QED
    BY <1>4, <2>1, <2>2
<1>8. ASSUME NEW v \in Int
      PROVE  CountOf(1 .. g, s, v) + CountOf(1 .. h, u, v) + CountOf(T, w, v)
               = CountOf(1 .. b, s, v) + CountOf(1 .. c, u, v)
  <2>1. CountAdds(S, T, w, x, v)
    BY <1>2, <1>4, CountAdd
  <2>2. CountOf(S, w, v) = CountOf(S, a, v)
    <3>1. \A p \in S : w[p] = a[p]
      BY <1>2, <1>4
    <3> QED
      BY <3>1, CountSame
  <2>3. CountOf(1 .. i, s, v) + CountOf(1 .. j, u, v) + CountOf(S, a, v)
          = CountOf(1 .. b, s, v) + CountOf(1 .. c, u, v)
    BY <1>3 DEF Remaining
  <2>4. TotalAdds(CountOf(1 .. i, s, v) + CountOf(1 .. j, u, v), CountOf(1 .. g, s, v) + CountOf(1 .. h, u, v), x, v)
    BY DEF Fits
  <2>5. PICK y \in Nat, z \in Nat : y = CountOf(1 .. i, s, v) + CountOf(1 .. j, u, v)
                                    /\ z = CountOf(1 .. g, s, v) + CountOf(1 .. h, u, v)
    BY <2>4 DEF TotalAdds
  <2>6. (x = v => y = z + 1) /\ (x # v => y = z)
    BY <2>4, <2>5 DEF TotalAdds
  <2>7. PICK y2 \in Nat, z2 \in Nat : y2 = CountOf(S, w, v) /\ z2 = CountOf(T, w, v)
    BY <2>1 DEF CountAdds
  <2>8. (x = v => z2 = y2 + 1) /\ (x # v => z2 = y2)
    BY <2>1, <2>7 DEF CountAdds
  <2>9. z + z2 = y + y2
    BY <2>6, <2>8
  <2> QED
    BY <2>2, <2>3, <2>5, <2>7, <2>9
<1>9. Remaining(s, b, u, c, e, w, g, h, l)
  <2>1. l <= e
    BY <1>1
  <2> QED
    BY <1>3, <1>5, <1>6, <1>7, <1>8, <2>1 DEF Remaining
<1> QED
  BY <1>2, <1>9

LEMMA IntervalNext ==
  ASSUME NEW i \in Nat, NEW g \in Nat, i - g = 1
  PROVE  1 .. i = (1 .. g) \cup {i} /\ i \notin 1 .. g /\ IsFiniteSet(1 .. g)
<1>1. IsFiniteSet(1 .. g)
  BY FS_Interval
<1>2. 1 .. i = (1 .. g) \cup {i} /\ i \notin 1 .. g
  OBVIOUS
<1> QED
  BY <1>1, <1>2

LEMMA FitsFirst ==
  ASSUME NEW s \in Seq(Int), NEW b \in Nat, InOrder(s, b), NEW u \in Seq(Int), NEW c \in Nat, InOrder(u, c),
         Len(u) = c, NEW e \in Nat, Len(s) = e, b <= e, NEW a, NEW i \in 1 .. b, NEW j \in 1 .. c, NEW k \in Nat,
         Remaining(s, b, u, c, e, a, i, j, k), NEW g \in Nat, i - g = 1, u[j] <= s[i]
  PROVE  Fits(s, u, e, a, i, j, k, g, j, s[i])
<1>1. PICK x \in Int, y \in Int : x = s[i] /\ y = u[j] /\ y <= x
  <2>1. s[i] \in Int /\ u[j] \in Int
    OBVIOUS
  <2> QED
    BY <2>1
<1>2. ASSUME NEW p \in 1 .. g PROVE s[p] <= x
  <2>1. p \in 1 .. b /\ p <= i
    OBVIOUS
  <2> QED
    BY <1>1, <2>1 DEF InOrder
<1>3. ASSUME NEW p \in 1 .. j PROVE u[p] <= x
  <2>1. p \in 1 .. c /\ p <= j /\ u[p] \in Int
    OBVIOUS
  <2>2. u[p] <= y
    BY <1>1, <2>1 DEF InOrder
  <2> QED
    BY <1>1, <2>1, <2>2
<1>4. ASSUME NEW q \in Behind(k, e) PROVE x <= a[q]
  <2>1. i \in 1 .. i
    OBVIOUS
  <2>2. \A p \in 1 .. i, r \in Behind(k, e) : s[p] <= a[r]
    BY DEF Remaining
  <2>3. s[i] <= a[q]
    BY <1>4, <2>1, <2>2
  <2> QED
    BY <1>1, <2>3
<1>5. ASSUME NEW v \in Int
      PROVE  TotalAdds(CountOf(1 .. i, s, v) + CountOf(1 .. j, u, v), CountOf(1 .. g, s, v) + CountOf(1 .. j, u, v), x, v)
  <2>1. 1 .. i = (1 .. g) \cup {i} /\ i \notin 1 .. g /\ IsFiniteSet(1 .. g)
    BY IntervalNext
  <2>2. CountAdds(1 .. g, 1 .. i, s, x, v)
    BY <1>1, <2>1, CountAdd
  <2>3. CountOf(1 .. j, u, v) \in Nat
    <3>1. IsFiniteSet(1 .. j)
      BY FS_Interval
    <3> QED
      BY <3>1, CountType
  <2>4. PICK y1 \in Nat, y2 \in Nat, y3 \in Nat :
          y1 = CountOf(1 .. g, s, v) /\ y2 = CountOf(1 .. i, s, v) /\ y3 = CountOf(1 .. j, u, v)
    BY <2>2, <2>3 DEF CountAdds
  <2>5. (x = v => y2 = y1 + 1) /\ (x # v => y2 = y1)
    BY <2>2, <2>4 DEF CountAdds
  <2>6. TotalAdds(y2 + y3, y1 + y3, x, v)
    BY <2>5 DEF TotalAdds
  <2> QED
    BY <2>4, <2>6
<1>6. Fits(s, u, e, a, i, j, k, g, j, x)
  BY <1>2, <1>3, <1>4, <1>5 DEF Fits
<1> QED
  BY <1>1, <1>6

LEMMA FitsSecond ==
  ASSUME NEW s \in Seq(Int), NEW b \in Nat, InOrder(s, b), NEW u \in Seq(Int), NEW c \in Nat, InOrder(u, c),
         Len(u) = c, NEW e \in Nat, Len(s) = e, b <= e, NEW a, NEW i \in 0 .. b, NEW j \in 1 .. c, NEW k \in Nat,
         Remaining(s, b, u, c, e, a, i, j, k), NEW h \in Nat, j - h = 1, i = 0 \/ s[i] <= u[j]
  PROVE  Fits(s, u, e, a, i, j, k, i, h, u[j])
<1>1. PICK x \in Int : x = u[j]
  <2>1. u[j] \in Int
    OBVIOUS
  <2> QED
    BY <2>1
<1>2. ASSUME NEW p \in 1 .. h PROVE u[p] <= x
  <2>1. p \in 1 .. c /\ p <= j
    OBVIOUS
  <2> QED
    BY <1>1, <2>1 DEF InOrder
<1>3. ASSUME NEW p \in 1 .. i PROVE s[p] <= x
  <2>1. p \in 1 .. b /\ i \in 1 .. b /\ p <= i /\ i # 0 /\ s[p] \in Int /\ s[i] \in Int
    OBVIOUS
  <2>2. s[p] <= s[i]
    BY <2>1 DEF InOrder
  <2>3. s[i] <= x
    BY <1>1, <2>1
  <2> QED
    BY <1>1, <2>1, <2>2, <2>3
<1>4. ASSUME NEW q \in Behind(k, e) PROVE x <= a[q]
  <2>1. j \in 1 .. j
    OBVIOUS
  <2> QED
    BY <1>1, <2>1 DEF Remaining
<1>5. ASSUME NEW v \in Int
      PROVE  TotalAdds(CountOf(1 .. i, s, v) + CountOf(1 .. j, u, v), CountOf(1 .. i, s, v) + CountOf(1 .. h, u, v), x, v)
  <2>1. 1 .. j = (1 .. h) \cup {j} /\ j \notin 1 .. h /\ IsFiniteSet(1 .. h)
    BY IntervalNext
  <2>2. CountAdds(1 .. h, 1 .. j, u, x, v)
    BY <1>1, <2>1, CountAdd
  <2>3. CountOf(1 .. i, s, v) \in Nat
    <3>1. IsFiniteSet(1 .. i)
      BY FS_Interval
    <3> QED
      BY <3>1, CountType
  <2>4. PICK y1 \in Nat, y2 \in Nat, y3 \in Nat :
          y1 = CountOf(1 .. h, u, v) /\ y2 = CountOf(1 .. j, u, v) /\ y3 = CountOf(1 .. i, s, v)
    BY <2>2, <2>3 DEF CountAdds
  <2>5. (x = v => y2 = y1 + 1) /\ (x # v => y2 = y1)
    BY <2>2, <2>4 DEF CountAdds
  <2>6. TotalAdds(y3 + y2, y3 + y1, x, v)
    BY <2>5 DEF TotalAdds
  <2> QED
    BY <2>4, <2>6
<1>6. Fits(s, u, e, a, i, j, k, i, h, x)
  BY <1>2, <1>3, <1>4, <1>5 DEF Fits
<1> QED
  BY <1>1, <1>6

(* The state of the loop when its next place is l: it is done, or that is where the next
   element goes. *)
MergedTo(s, b, u, c, e, st, l) ==
  \E a \in [1 .. e -> Int], i \in 0 .. b, j \in 0 .. c, k \in Nat :
    st = Merged(a, i, j) /\ Remaining(s, b, u, c, e, a, i, j, k) /\ (j = 0 \/ k = l)

LEMMA MergeStep ==
  ASSUME NEW s \in Seq(Int), NEW b \in Nat, InOrder(s, b), NEW u \in Seq(Int), NEW c \in Nat, InOrder(u, c),
         Len(u) = c, NEW e \in Nat, Len(s) = e, b <= e, NEW l \in Nat, NEW d \in Nat, d - l = 1,
         NEW st, MergedTo(s, b, u, c, e, st, d)
  PROVE  MergedTo(s, b, u, c, e, Merging(st, u, d), l)
<1>1. PICK a \in [1 .. e -> Int], i \in 0 .. b, j \in 0 .. c, k \in Nat :
        st = Merged(a, i, j) /\ Remaining(s, b, u, c, e, a, i, j, k) /\ (j = 0 \/ k = d)
  BY DEF MergedTo
<1>2. CASE j = 0
  <2>1. Merging(st, u, d) = Merged(a, i, j)
    BY <1>1, <1>2, MergingStops
  <2> QED
    BY <1>1, <1>2, <2>1 DEF MergedTo
<1>3. CASE j # 0
  <2>1. j \in 1 .. c /\ k = d /\ k - l = 1
    BY <1>1, <1>3
  <2>2. k = i + j /\ k <= e /\ \A p \in 1 .. k : a[p] = s[p]
    BY <1>1 DEF Remaining
  <2>3. u[j] \in Int /\ (i # 0 => i \in 1 .. b /\ i \in 1 .. e /\ a[i] = s[i] /\ s[i] \in Int)
    BY <1>1, <2>1, <2>2
  <2>4. CASE i # 0 /\ u[j] <= s[i]
    <3>1. PICK g \in Nat : i - g = 1 /\ g \in 0 .. b /\ g <= i /\ l = g + j
      <4>1. i - 1 \in Nat /\ i - (i - 1) = 1 /\ i - 1 \in 0 .. b /\ i - 1 <= i /\ l = i - 1 + j
        BY <2>1, <2>2, <2>4
      <4> QED
        BY <4>1
    <3>2. PICK x \in Int : x = s[i] /\ a[i] = x /\ a[i] >= u[j]
      BY <2>3, <2>4
    <3>3. Fits(s, u, e, a, i, j, k, g, j, x)
      <4>1. i \in 1 .. b /\ j \in 1 .. c /\ i - g = 1 /\ u[j] <= s[i]
        BY <2>1, <2>3, <2>4, <3>1
      <4>2. Fits(s, u, e, a, i, j, k, g, j, s[i])
        BY <1>1, <4>1, FitsFirst
      <4> QED
        BY <3>2, <4>2
    <3>4. Remaining(s, b, u, c, e, Written(a, k, x), g, j, l)
      <4>1. j <= j /\ g <= i /\ l = g + j /\ k - l = 1 /\ g \in 0 .. b
        BY <2>1, <3>1
      <4> QED
        BY <1>1, <3>3, <4>1, RemainingNext
    <3>5. Merging(st, u, d) = Merged(Written(a, k, x), g, j)
      <4>1. i \in 1 .. e /\ j \in 1 .. Len(u)
        BY <2>1, <2>3, <2>4
      <4>2. Takes(a, i, u, j)
        BY <2>3, <2>4, <3>2 DEF Takes
      <4>3. Merging(Merged(a, i, j), u, k) = Merged(Written(a, k, a[i]), g, j)
        <5>1. MergesFirst(a, i, g, u, j, k)
          BY <3>1, <4>1, <4>2, MergingFirst
        <5> QED
          BY <5>1 DEF MergesFirst
      <4> QED
        BY <1>1, <2>1, <3>2, <4>3
    <3>6. Written(a, k, x) \in [1 .. e -> Int]
      BY WrittenType
    <3> QED
      BY <3>1, <3>4, <3>5, <3>6 DEF MergedTo
  <2>5. CASE i = 0 \/ ~(u[j] <= s[i])
    <3>1. PICK h \in Nat : j - h = 1 /\ h \in 0 .. c /\ h <= j /\ l = i + h
      <4>1. j - 1 \in Nat /\ j - (j - 1) = 1 /\ j - 1 \in 0 .. c /\ j - 1 <= j /\ l = i + (j - 1)
        BY <2>1, <2>2
      <4> QED
        BY <4>1
    <3>2. PICK x \in Int : x = u[j]
      BY <2>3
    <3>3. Fits(s, u, e, a, i, j, k, i, h, x)
      <4>1. i = 0 \/ s[i] <= u[j]
        BY <2>3, <2>5
      <4>2. Fits(s, u, e, a, i, j, k, i, h, u[j])
        BY <1>1, <2>1, <3>1, <4>1, FitsSecond
      <4> QED
        BY <3>2, <4>2
    <3>4. Remaining(s, b, u, c, e, Written(a, k, x), i, h, l)
      <4>1. i <= i /\ h <= j /\ l = i + h /\ k - l = 1 /\ h \in 0 .. c
        BY <2>1, <3>1
      <4> QED
        BY <1>1, <3>3, <4>1, RemainingNext
    <3>5. Merging(st, u, d) = Merged(Written(a, k, x), i, h)
      <4>1. i \in 0 .. e /\ j \in 1 .. Len(u) /\ ~Takes(a, i, u, j)
        BY <2>1, <2>3, <2>5 DEF Takes
      <4>2. Merging(Merged(a, i, j), u, k) = Merged(Written(a, k, u[j]), i, h)
        <5>1. MergesSecond(a, i, u, j, h, k)
          BY <3>1, <4>1, MergingSecond
        <5> QED
          BY <5>1 DEF MergesSecond
      <4> QED
        BY <1>1, <2>1, <3>2, <4>2
    <3>6. Written(a, k, x) \in [1 .. e -> Int]
      BY WrittenType
    <3> QED
      BY <3>1, <3>4, <3>5, <3>6 DEF MergedTo
  <2> QED
    BY <2>4, <2>5
<1> QED
  BY <1>2, <1>3

LEMMA MergedFirst ==
  ASSUME NEW s \in Seq(Int), NEW b \in Nat, NEW u \in Seq(Int), NEW c \in Nat,
         NEW e \in Nat, Len(s) = e, b + c = e
  PROVE  MergedTo(s, b, u, c, e, Merged(s, b, c), e)
<1>1. Behind(e, e) = {}
  BY DEF Behind
<1>2. s \in [1 .. e -> Int] /\ b \in 0 .. b /\ c \in 0 .. c
  OBVIOUS
<1>3. ASSUME NEW v \in Int
      PROVE  CountOf(1 .. b, s, v) + CountOf(1 .. c, u, v) + CountOf({}, s, v) = CountOf(1 .. b, s, v) + CountOf(1 .. c, u, v)
  <2>1. CountOf({}, s, v) = 0
    <3>1. {p \in {} : s[p] = v} = {}
      OBVIOUS
    <3> QED
      BY <3>1, FS_EmptySet DEF CountOf
  <2>2. IsFiniteSet(1 .. b) /\ IsFiniteSet(1 .. c)
    BY FS_Interval
  <2>3. CountOf(1 .. b, s, v) \in Nat
    BY <2>2, CountType
  <2>4. CountOf(1 .. c, u, v) \in Nat
    BY <2>2, CountType
  <2> QED
    BY <2>1, <2>3, <2>4
<1>4. Remaining(s, b, u, c, e, s, b, c, e)
  BY <1>1, <1>2, <1>3 DEF Remaining
<1> QED
  BY <1>2, <1>4 DEF MergedTo

(* Once nothing is left of u. *)
LEMMA MergedLast ==
  ASSUME NEW s \in Seq(Int), NEW b \in Nat, InOrder(s, b), NEW u, NEW c \in Nat, NEW e \in Nat, Len(s) = e, b <= e,
         NEW a \in [1 .. e -> Int], NEW i \in 0 .. b, NEW k \in Nat, Remaining(s, b, u, c, e, a, i, 0, k)
  PROVE  /\ InOrder(a, e)
         /\ \A v \in Int : CountOf(1 .. e, a, v) = CountOf(1 .. b, s, v) + CountOf(1 .. c, u, v)
<1>1. k = i /\ i <= e /\ \A p \in 1 .. i : a[p] = s[p]
  BY DEF Remaining
<1>2. PICK S : S = Behind(i, e)
  OBVIOUS
<1>3. /\ \A p \in 1 .. e : p \in 1 .. i \/ p \in S
      /\ \A p \in S : p \in 1 .. e /\ p > i
      /\ 1 .. e = (1 .. i) \cup S /\ (1 .. i) \cap S = {} /\ S \in SUBSET (1 .. e)
  BY <1>1, <1>2 DEF Behind
<1>4. ASSUME NEW p \in 1 .. e, NEW q \in 1 .. e, p <= q PROVE a[p] <= a[q]
  <2>1. CASE p \in 1 .. i /\ q \in 1 .. i
    <3>1. p \in 1 .. b /\ q \in 1 .. b
      BY <2>1
    <3> QED
      BY <1>1, <1>4, <2>1, <3>1 DEF InOrder
  <2>2. CASE p \in 1 .. i /\ q \in S
    <3>1. s[p] <= a[q]
      BY <1>1, <1>2, <2>2 DEF Remaining
    <3> QED
      BY <1>1, <2>2, <3>1
  <2>3. CASE p \in S /\ q \in S
    BY <1>1, <1>2, <1>4, <2>3 DEF Remaining
  <2>4. ~(p \in S /\ q \in 1 .. i)
    BY <1>3, <1>4
  <2> QED
    BY <1>3, <2>1, <2>2, <2>3, <2>4
<1>5. ASSUME NEW v \in Int PROVE CountOf(1 .. e, a, v) = CountOf(1 .. b, s, v) + CountOf(1 .. c, u, v)
  <2>1. IsFiniteSet(1 .. i) /\ IsFiniteSet(1 .. e)
    BY FS_Interval
  <2>2. IsFiniteSet(S)
    BY <1>3, <2>1, FS_Subset
  <2>3. CountOf(1 .. e, a, v) = CountOf(1 .. i, a, v) + CountOf(S, a, v)
    <3>1. PICK R : R = 1 .. i
      OBVIOUS
    <3>2. CountOf(R \cup S, a, v) = CountOf(R, a, v) + CountOf(S, a, v)
      BY <1>3, <2>1, <2>2, <3>1, CountParts
    <3> QED
      BY <1>3, <3>1, <3>2
  <2>4. CountOf(1 .. i, a, v) = CountOf(1 .. i, s, v)
    BY <1>1, CountSame
  <2>5. CountOf(1 .. 0, u, v) = 0
    <3>1. {p \in 1 .. 0 : u[p] = v} = {}
      OBVIOUS
    <3> QED
      BY <3>1, FS_EmptySet DEF CountOf
  <2>6. CountOf(1 .. i, s, v) + CountOf(1 .. 0, u, v) + CountOf(S, a, v)
          = CountOf(1 .. b, s, v) + CountOf(1 .. c, u, v)
    BY <1>1, <1>2 DEF Remaining
  <2>7. CountOf(1 .. i, s, v) \in Nat
    BY <2>1, CountType
  <2>8. CountOf(S, a, v) \in Nat
    BY <2>2, CountType
  <2> QED
    BY <2>3, <2>4, <2>5, <2>6, <2>7, <2>8
<1> QED
  BY <1>4, <1>5 DEF InOrder

MergeResult(r, s, b, u, e) ==
  /\ r \in Seq(Int) /\ Len(r) = e /\ Ascending(r)
  /\ \A v \in Int : Occurrences(r, v) = Occurrences(SubSeq(s, 1, b), v) + Occurrences(u, v)

LEMMA MergeSorts ==
  ASSUME NEW s \in Seq(Int), NEW b \in Nat, NEW u \in Seq(Int), NEW c \in Nat, Len(u) = c,
         NEW e \in Nat, Len(s) = e, b + c = e, Ascending(SubSeq(s, 1, b)), Ascending(u)
  PROVE  MergeResult(Merge(s, b, u, c), s, b, u, e)
<1>1. PICK f : /\ f[0] = [array |-> s, i |-> b, j |-> c]
               /\ \A i, h \in 0 .. e : i - h = 1 => f[i] = Merging(f[h], u, e + 1 - i)
               /\ Merge(s, b, u, c) = f[e].array
  <2>1. PICK f : MergeScan(f, s, u, b, c, e)
    BY MergeScanned
  <2> QED
    BY <2>1 DEF MergeScan
<1>2. InOrder(u, c)
  BY AscendingAll
<1>3. s \in [1 .. e -> Int] /\ b \in 0 .. e /\ b <= e
  OBVIOUS
<1>4. PICK t \in Seq(Int) : t = SubSeq(s, 1, b) /\ Len(t) = b /\ \A p \in 1 .. b : t[p] = s[p]
  <2>1. PartIs(s, b, SubSeq(s, 1, b))
    BY <1>3, PartOf
  <2> QED
    BY <2>1 DEF PartIs
<1>5. InOrder(s, b)
  <2>1. InOrder(t, b)
    BY <1>4, AscendingAll
  <2> QED
    BY <1>4, <2>1 DEF InOrder
<1> DEFINE I == {h \in Nat : h <= e => \A l \in Nat : l = e - h => MergedTo(s, b, u, c, e, f[h], l)}
<1>6. 0 \in I
  <2>1. MergedTo(s, b, u, c, e, Merged(s, b, c), e)
    BY MergedFirst
  <2>2. f[0] = Merged(s, b, c)
    BY <1>1 DEF Merged
  <2>3. \A l \in Nat : l = e - 0 => l = e
    OBVIOUS
  <2> QED
    BY <2>1, <2>2, <2>3
<1>7. ASSUME NEW h \in Nat, h \in I PROVE h + 1 \in I
  <2>1. PICK i \in Nat : i = h + 1 /\ i - h = 1
    OBVIOUS
  <2>2. ASSUME i <= e, NEW l \in Nat, l = e - i PROVE MergedTo(s, b, u, c, e, f[i], l)
    <3>1. PICK d \in Nat : d = e - h /\ d - l = 1 /\ d = e + 1 - i
      <4>1. e - h \in Nat /\ e - h - l = 1 /\ e - h = e + 1 - i
        BY <2>1, <2>2
      <4> QED
        BY <4>1
    <3>2. i \in 0 .. e /\ h \in 0 .. e /\ h <= e
      BY <2>1, <2>2
    <3>3. MergedTo(s, b, u, c, e, f[h], d)
      BY <1>7, <3>1, <3>2
    <3>4. f[i] = Merging(f[h], u, d)
      BY <1>1, <2>1, <3>1, <3>2
    <3>5. MergedTo(s, b, u, c, e, Merging(f[h], u, d), l)
      BY <1>2, <1>3, <1>5, <3>1, <3>3, MergeStep
    <3> QED
      BY <3>4, <3>5
  <2> QED
    BY <2>1, <2>2
<1>8. Nat \subseteq I
  <2> HIDE DEF I
  <2> QED
    BY <1>6, <1>7, SetInduction
<1>9. MergedTo(s, b, u, c, e, f[e], 0)
  <2>1. e \in I /\ 0 = e - e /\ e <= e
    BY <1>8
  <2> QED
    BY <2>1
<1>10. PICK a \in [1 .. e -> Int], i \in 0 .. b, j \in 0 .. c, k \in Nat :
         f[e] = Merged(a, i, j) /\ Remaining(s, b, u, c, e, a, i, j, k) /\ (j = 0 \/ k = 0)
  BY <1>9 DEF MergedTo
<1>11. j = 0
  <2>1. k = i + j
    BY <1>10 DEF Remaining
  <2> QED
    BY <1>10, <2>1
<1>12. /\ InOrder(a, e)
       /\ \A v \in Int : CountOf(1 .. e, a, v) = CountOf(1 .. b, s, v) + CountOf(1 .. c, u, v)
  <2>1. Remaining(s, b, u, c, e, a, i, 0, k)
    BY <1>10, <1>11
  <2> QED
    BY <1>3, <1>5, <2>1, MergedLast
<1>13. a \in Seq(Int) /\ Len(a) = e /\ DOMAIN a = 1 .. e
  OBVIOUS
<1>14. Ascending(a)
  BY <1>12, <1>13, AllAscending
<1>15. ASSUME NEW v \in Int PROVE Occurrences(a, v) = Occurrences(t, v) + Occurrences(u, v)
  <2>1. CountOf(1 .. b, t, v) = CountOf(1 .. b, s, v)
    BY <1>4, CountSame
  <2>2. DOMAIN t = 1 .. b /\ DOMAIN u = 1 .. c
    BY <1>4
  <2>3. CountOf(1 .. e, a, v) = CountOf(1 .. b, s, v) + CountOf(1 .. c, u, v)
    BY <1>12
  <2> QED
    BY <1>13, <2>1, <2>2, <2>3 DEF CountOf, Occurrences
<1>16. Merge(s, b, u, c) = a
  BY <1>1, <1>10 DEF Merged
<1> QED
  BY <1>4, <1>13, <1>14, <1>15, <1>16 DEF MergeResult

MergeArgs(s, b, u) ==
  /\ s \in Seq(Int) /\ b \in Nat /\ u \in Seq(Int) /\ Len(s) = b + Len(u)
  /\ Ascending(SubSeq(s, 1, b)) /\ Ascending(u)

-----------------------------------------------------------------------------
(* Products. *)

(* The passes of productExceptSelf(), their steps and their states. *)
ToFront(s, st, i) ==
  [result |-> [st.result EXCEPT ![i] = st.product], product |-> Times(st.product, s[i])]
ToBack(s, st, i) ==
  [result |-> [st.result EXCEPT ![i] = Times(st.product, @)], product |-> Times(st.product, s[i])]
Ones(s) == [result |-> [i \in DOMAIN s |-> 1], product |-> 1]
FrontPass(s) == FoldLeftDomain(LAMBDA st, i : ToFront(s, st, i), Ones(s), s)
BackPass(s, st0) == FoldLeft(LAMBDA st, i : ToBack(s, st, i), st0, Backwards(Len(s)))

LEMMA ProductPasses ==
  ASSUME NEW s
  PROVE  productExceptSelf(s) = BackPass(s, [FrontPass(s) EXCEPT !.product = 1])
BY DEF productExceptSelf, FrontPass, BackPass, ToFront, ToBack, Ones

(* A place of the result, or the product so far. *)
Held == Int \cup {NONE}
Row(a, x) == [result |-> a, product |-> x]
Rows(n) == [result : [1 .. n -> Held], product : Held]
Placed(a, i, x) == [a EXCEPT ![i] = x]

LEMMA TimesType ==
  ASSUME NEW x \in Held, NEW y \in Held
  PROVE  Times(x, y) \in Held
<1>1. CASE x = NONE \/ y = NONE
  BY <1>1 DEF Times, Held
<1>2. CASE x \in Int /\ y \in Int
  <2>1. x * y \in Int
    BY <1>2
  <2> QED
    BY <2>1 DEF Times, Held
<1> QED
  BY <1>1, <1>2 DEF Held

LEMMA PlacedType ==
  ASSUME NEW n \in Nat, NEW a \in [1 .. n -> Held], NEW i, NEW x \in Held
  PROVE  Placed(a, i, x) \in [1 .. n -> Held]
BY DEF Placed

LEMMA RowsHold ==
  ASSUME NEW n \in Nat
  PROVE  /\ \A a \in [1 .. n -> Held], x \in Held : Row(a, x) \in Rows(n)
         /\ \A st \in Rows(n) : \E a \in [1 .. n -> Held], x \in Held : st = Row(a, x)
BY DEF Row, Rows

PassesFront(s, a, x, i) == ToFront(s, Row(a, x), i) = Row(Placed(a, i, x), Times(x, s[i]))
PassesBack(s, a, x, i) == ToBack(s, Row(a, x), i) = Row(Placed(a, i, Times(x, a[i])), Times(x, s[i]))

LEMMA PassesRow ==
  ASSUME NEW s, NEW n \in Nat, NEW a \in [1 .. n -> Held], NEW x, NEW i \in 1 .. n
  PROVE  PassesFront(s, a, x, i) /\ PassesBack(s, a, x, i)
<1>1. PICK st : st = Row(a, x)
  OBVIOUS
<1>2. st.result = a /\ st.product = x
  BY <1>1 DEF Row
<1>3. ToFront(s, st, i) = Row(Placed(a, i, x), Times(x, s[i]))
  BY <1>2 DEF ToFront, Row, Placed
<1>4. ToBack(s, st, i) = Row(Placed(a, i, Times(x, a[i])), Times(x, s[i]))
  BY <1>2 DEF ToBack, Row, Placed
<1> QED
  BY <1>1, <1>3, <1>4 DEF PassesFront, PassesBack

LEMMA PassesType ==
  ASSUME NEW s \in Seq(Int), NEW n \in Nat, Len(s) = n, NEW st \in Rows(n), NEW i \in 1 .. n
  PROVE  ToFront(s, st, i) \in Rows(n) /\ ToBack(s, st, i) \in Rows(n)
<1>1. PICK a \in [1 .. n -> Held], x \in Held : st = Row(a, x)
  BY RowsHold
<1>2. PassesFront(s, a, x, i) /\ PassesBack(s, a, x, i)
  BY PassesRow
<1>3. s[i] \in Held /\ a[i] \in Held
  <2>1. s[i] \in Int
    OBVIOUS
  <2> QED
    BY <2>1 DEF Held
<1>4. Times(x, s[i]) \in Held
  BY <1>3, TimesType
<1>5. Times(x, a[i]) \in Held
  BY <1>3, TimesType
<1>6. Row(Placed(a, i, x), Times(x, s[i])) \in Rows(n)
  <2>1. Placed(a, i, x) \in [1 .. n -> Held]
    BY PlacedType
  <2> QED
    BY <1>4, <2>1, RowsHold
<1>7. Row(Placed(a, i, Times(x, a[i])), Times(x, s[i])) \in Rows(n)
  <2>1. Placed(a, i, Times(x, a[i])) \in [1 .. n -> Held]
    BY <1>5, PlacedType
  <2> QED
    BY <1>4, <2>1, RowsHold
<1> QED
  BY <1>1, <1>2, <1>6, <1>7 DEF PassesFront, PassesBack

FrontScan(f, s, n) ==
  /\ f[0] = Ones(s)
  /\ \A i, h \in 0 .. n : i - h = 1 => f[i] = ToFront(s, f[h], i)
  /\ FrontPass(s) = f[n]
BackScan(f, s, st0, n) ==
  /\ f[0] = st0
  /\ \A i, h \in 0 .. n : i - h = 1 => f[i] = ToBack(s, f[h], n + 1 - i)
  /\ BackPass(s, st0) = f[n]

LEMMA FrontScanned ==
  ASSUME NEW s \in Seq(Int), NEW n \in Nat, Len(s) = n
  PROVE  \E f : FrontScan(f, s, n)
<1> DEFINE base == Ones(s)
           D == Rows(n)
           t == [i \in DOMAIN s |-> i]
           Step(it, r) == IF r = {} THEN base ELSE ToFront(s, it[r \ {Max(r)}], t[Max(r)])
           it == CHOOSE it : it = [r \in SUBSET DOMAIN t |-> Step(it, r)]
<1>1. FrontPass(s) = it[DOMAIN t]
  BY DEF FrontPass, FoldLeft, FoldLeftDomain, MapThenFoldSet
<1>2. DOMAIN t = 1 .. n /\ \A i \in 1 .. n : t[i] = i
  OBVIOUS
<1>3. it = [r \in SUBSET DOMAIN t |-> Step(it, r)]
  <2> HIDE DEF t
  <2>1. base \in D
    <3>1. PICK a : a = [i \in DOMAIN s |-> 1]
      OBVIOUS
    <3>2. a \in [1 .. n -> Held] /\ 1 \in Held
      BY <3>1 DEF Held
    <3> QED
      BY <3>1, <3>2 DEF Ones, Rows
  <2>2. ASSUME NEW i \in 1 .. n, NEW st \in D PROVE ToFront(s, st, i) \in D
    BY PassesType
  <2> HIDE DEF base, D
  <2>3. PICK G : G = [i \in 1 .. n |-> [st \in D |-> ToFront(s, st, i)]]
    OBVIOUS
  <2>4. G \in [1 .. n -> [D -> D]]
    BY <2>2, <2>3
  <2>5. PICK g : g \in [SUBSET (1 .. n) -> D] /\ LeftFolds(g, n, G, base)
    BY <2>1, <2>4, LeftFoldExists
  <2>6. ASSUME NEW r \in SUBSET (1 .. n) PROVE g[r] = Step(g, r)
    <3>1. CASE r # {}
      <4>1. PICK m \in 1 .. n : m = Max(r) /\ r \ {m} \in SUBSET (1 .. n)
        BY <3>1, MaxInterval
      <4>2. g[r \ {m}] \in D /\ t[m] = m
        BY <1>2, <2>5, <4>1
      <4>3. g[r] = G[m][g[r \ {m}]]
        BY <2>5, <3>1, <4>1 DEF LeftFolds
      <4>4. g[r] = ToFront(s, g[r \ {m}], m)
        BY <2>3, <4>2, <4>3
      <4> QED
        BY <3>1, <4>1, <4>2, <4>4
    <3>2. CASE r = {}
      BY <2>5, <3>2 DEF LeftFolds
    <3> QED
      BY <3>1, <3>2
  <2> HIDE DEF Step
  <2>7. g = [r \in SUBSET DOMAIN t |-> Step(g, r)]
    BY <1>2, <2>5, <2>6
  <2> QED
    BY <2>7
<1> HIDE DEF it, t
<1>4. PICK f : Scans(f, it, n)
  BY LeftScan
<1>5. ASSUME NEW i \in 0 .. n, NEW h \in 0 .. n, i - h = 1
      PROVE  f[i] = ToFront(s, f[h], i)
  <2>1. it[1 .. i] = Step(it, 1 .. i)
    <3> HIDE DEF Step
    <3>1. (1 .. i) \in SUBSET DOMAIN t
      BY <1>2, <1>4, <1>5 DEF Scans
    <3> QED
      BY <1>3, <3>1
  <2>2. t[i] = i
    BY <1>2, <1>4, <1>5 DEF Scans
  <2> QED
    BY <1>4, <1>5, <2>1, <2>2 DEF Scans
<1>6. f[0] = Ones(s)
  BY <1>2, <1>3, <1>4 DEF Scans
<1>7. FrontPass(s) = f[n]
  BY <1>1, <1>2, <1>4 DEF Scans
<1> QED
  BY <1>5, <1>6, <1>7 DEF FrontScan

LEMMA BackScanned ==
  ASSUME NEW s \in Seq(Int), NEW n \in Nat, Len(s) = n, NEW st0 \in Rows(n)
  PROVE  \E f : BackScan(f, s, st0, n)
<1> DEFINE base == st0
           D == Rows(n)
           t == [d \in 1 .. Len(s) |-> Len(s) + 1 - d]
           Step(it, r) == IF r = {} THEN base ELSE ToBack(s, it[r \ {Max(r)}], t[Max(r)])
           it == CHOOSE it : it = [r \in SUBSET DOMAIN t |-> Step(it, r)]
<1>1. BackPass(s, st0) = it[DOMAIN t]
  BY DEF BackPass, Backwards, FoldLeft, FoldLeftDomain, MapThenFoldSet
<1>2. DOMAIN t = 1 .. n /\ \A i \in 1 .. n : t[i] = n + 1 - i
  OBVIOUS
<1>3. it = [r \in SUBSET DOMAIN t |-> Step(it, r)]
  <2> HIDE DEF t
  <2>1. base \in D
    OBVIOUS
  <2>2. ASSUME NEW i \in 1 .. n, NEW st \in D PROVE ToBack(s, st, n + 1 - i) \in D
    <3>1. n + 1 - i \in 1 .. n
      OBVIOUS
    <3> QED
      BY <3>1, PassesType
  <2> HIDE DEF base, D
  <2>3. PICK G : G = [i \in 1 .. n |-> [st \in D |-> ToBack(s, st, n + 1 - i)]]
    OBVIOUS
  <2>4. G \in [1 .. n -> [D -> D]]
    BY <2>2, <2>3
  <2>5. PICK g : g \in [SUBSET (1 .. n) -> D] /\ LeftFolds(g, n, G, base)
    BY <2>1, <2>4, LeftFoldExists
  <2>6. ASSUME NEW r \in SUBSET (1 .. n) PROVE g[r] = Step(g, r)
    <3>1. CASE r # {}
      <4>1. PICK m \in 1 .. n : m = Max(r) /\ r \ {m} \in SUBSET (1 .. n)
        BY <3>1, MaxInterval
      <4>2. g[r \ {m}] \in D /\ t[m] = n + 1 - m
        BY <1>2, <2>5, <4>1
      <4>3. g[r] = G[m][g[r \ {m}]]
        BY <2>5, <3>1, <4>1 DEF LeftFolds
      <4>4. g[r] = ToBack(s, g[r \ {m}], n + 1 - m)
        BY <2>3, <4>2, <4>3
      <4> QED
        BY <3>1, <4>1, <4>2, <4>4
    <3>2. CASE r = {}
      BY <2>5, <3>2 DEF LeftFolds
    <3> QED
      BY <3>1, <3>2
  <2> HIDE DEF Step
  <2>7. g = [r \in SUBSET DOMAIN t |-> Step(g, r)]
    BY <1>2, <2>5, <2>6
  <2> QED
    BY <2>7
<1> HIDE DEF it, t
<1>4. PICK f : Scans(f, it, n)
  BY LeftScan
<1>5. ASSUME NEW i \in 0 .. n, NEW h \in 0 .. n, i - h = 1
      PROVE  f[i] = ToBack(s, f[h], n + 1 - i)
  <2>1. it[1 .. i] = Step(it, 1 .. i)
    <3> HIDE DEF Step
    <3>1. (1 .. i) \in SUBSET DOMAIN t
      BY <1>2, <1>4, <1>5 DEF Scans
    <3> QED
      BY <1>3, <3>1
  <2>2. t[i] = n + 1 - i
    BY <1>2, <1>4, <1>5 DEF Scans
  <2> QED
    BY <1>4, <1>5, <2>1, <2>2 DEF Scans
<1>6. f[0] = st0
  BY <1>2, <1>3, <1>4 DEF Scans
<1>7. BackPass(s, st0) = f[n]
  BY <1>1, <1>2, <1>4 DEF Scans
<1> QED
  BY <1>5, <1>6, <1>7 DEF BackScan

(* x is the number y or unknown after an overflow, which there is not if ok; and the
   same if y is in range. *)
Known(x, y, ok) == x \in {NONE, y} /\ (ok = TRUE => x = y)
KnownInRange(x, y, ok) == x \in {NONE, y} /\ (ok = TRUE /\ InRange(y) => x = y)

LEMMA TimesCases ==
  ASSUME NEW x \in Int, NEW y \in Int
  PROVE  Times(x, y) \in {NONE, Mul(x, y)} /\ (InRange(Mul(x, y)) => Times(x, y) = Mul(x, y))
<1>1. x # NONE /\ y # NONE /\ INT_MAX \in Nat
  <2>1. NONE \notin Int /\ INT_MAX \in Nat
    BY ExerciseAssumption, Zenon
  <2> QED
    BY <2>1
<1>2. PICK z \in Int : z = x * y
  OBVIOUS
<1>3. Times(x, y) = IF z > INT_MAX \/ z < -INT_MAX - 1 THEN NONE ELSE z
  BY <1>1, <1>2 DEF Times
<1>4. InRange(z) => ~(z > INT_MAX \/ z < -INT_MAX - 1)
  BY <1>1 DEF InRange
<1> QED
  BY <1>2, <1>3, <1>4 DEF Mul

TimesKnown(x1, x2, z, ok) ==
  /\ KnownInRange(Times(x1, x2), z, ok)
  /\ (ok = TRUE => InRange(z)) => Known(Times(x1, x2), z, ok)

LEMMA KnownTimes ==
  ASSUME NEW x1, NEW y1 \in Int, NEW x2, NEW y2 \in Int, NEW ok \in BOOLEAN, Known(x1, y1, ok), Known(x2, y2, ok)
  PROVE  TimesKnown(x1, x2, Mul(y1, y2), ok)
<1>1. CASE x1 = NONE \/ x2 = NONE
  <2>1. Times(x1, x2) = NONE
    BY <1>1 DEF Times
  <2>2. NONE \notin Int
    BY ExerciseAssumption, Zenon
  <2>3. ok # TRUE
    BY <1>1, <2>2 DEF Known
  <2> QED
    BY <2>1, <2>3 DEF TimesKnown, Known, KnownInRange
<1>2. CASE x1 = y1 /\ x2 = y2
  <2>1. Times(y1, y2) \in {NONE, Mul(y1, y2)} /\ (InRange(Mul(y1, y2)) => Times(y1, y2) = Mul(y1, y2))
    BY TimesCases
  <2> QED
    BY <1>2, <2>1 DEF TimesKnown, Known, KnownInRange
<1> QED
  BY <1>1, <1>2 DEF Known

(* The products of the elements in front and behind. *)
InFront(i, n) == {p \in 1 .. n : p < i}
PartsInRange(it, n) ==
  \A m \in 1 .. n : (m # n => InRange(it[1 .. m])) /\ (m # 1 => InRange(it[m .. n]))
ProductsHold(it, s, n, ok) ==
  /\ s \in Seq(Int) /\ Len(s) = n /\ ProductsOf(it, 1 .. n, s)
  /\ ok = TRUE => PartsInRange(it, n)

FrontTo(s, n, it, ok, st, i) ==
  \E a \in [1 .. n -> Held], x \in Held :
    /\ st = Row(a, x) /\ (i < n => Known(x, it[1 .. i], ok))
    /\ \A p \in 1 .. i : Known(a[p], it[InFront(p, n)], ok)
BackTo(s, n, it, ok, st, k) ==
  \E a \in [1 .. n -> Held], x \in Held :
    /\ st = Row(a, x) /\ (k > 0 => Known(x, it[Behind(k, n)], ok))
    /\ \A p \in 1 .. k : Known(a[p], it[InFront(p, n)], ok)
    /\ \A p \in Behind(k, n) : KnownInRange(a[p], it[(1 .. n) \ {p}], ok)

ProductRules(it, s, D) ==
  /\ it[{}] = 1 /\ \A S \in SUBSET D : it[S] \in Int
  /\ \A S \in SUBSET D, x \in D : x \notin S => it[S \cup {x}] = Mul(it[S], s[x])
  /\ \A S, T \in SUBSET D : S \cap T = {} => it[S \cup T] = Mul(it[S], it[T])

LEMMA ProductFacts ==
  ASSUME NEW s, NEW n \in Nat, NEW it, NEW ok, ProductsHold(it, s, n, ok)
  PROVE  ProductRules(it, s, 1 .. n)
<1>1. PICK D : D = 1 .. n
  OBVIOUS
<1>2. IsFiniteSet(D) /\ ProductsOf(it, D, s) /\ s \in [D -> Int]
  <2>1. IsFiniteSet(1 .. n)
    BY FS_Interval
  <2> QED
    BY <1>1, <2>1 DEF ProductsHold
<1>3. \A S \in SUBSET D : it[S] \in Int
  BY <1>2 DEF ProductsOf
<1>4. MultipliesUp(it, D, s)
  BY <1>2, ProductsAdd
<1>5. \A S, T \in SUBSET D : S \cap T = {} => it[S \cup T] = Mul(it[S], it[T])
  BY <1>2, ProductsParts
<1>6. it[{}] = 1
  <2>1. {} \in SUBSET D
    OBVIOUS
  <2> QED
    BY <1>2, <2>1 DEF ProductsOf
<1> QED
  BY <1>1, <1>3, <1>4, <1>5, <1>6 DEF MultipliesUp, ProductRules

LEMMA FrontStep ==
  ASSUME NEW s, NEW n \in Nat, NEW it, NEW ok \in BOOLEAN, ProductsHold(it, s, n, ok),
         NEW i \in 1 .. n, NEW h \in Nat, i - h = 1, NEW st, FrontTo(s, n, it, ok, st, h)
  PROVE  FrontTo(s, n, it, ok, ToFront(s, st, i), i)
<1>1. PICK a \in [1 .. n -> Held], x \in Held :
        /\ st = Row(a, x) /\ Known(x, it[1 .. h], ok)
        /\ \A p \in 1 .. h : Known(a[p], it[InFront(p, n)], ok)
  <2>1. h < n
    OBVIOUS
  <2> QED
    BY <2>1 DEF FrontTo
<1>2. s \in Seq(Int) /\ Len(s) = n
  BY DEF ProductsHold
<1>3. PICK v \in Int : v = s[i] /\ v \in Held
  <2>1. s[i] \in Int
    BY <1>2
  <2> QED
    BY <2>1 DEF Held
<1>4. PICK w \in [1 .. n -> Held] : w = Placed(a, i, x) /\ w[i] = x /\ \A p \in 1 .. n : p # i => w[p] = a[p]
  <2>1. Placed(a, i, x) \in [1 .. n -> Held]
    BY PlacedType
  <2> QED
    BY <2>1 DEF Placed
<1>5. ToFront(s, st, i) = Row(w, Times(x, v))
  <2>1. PassesFront(s, a, x, i)
    BY PassesRow
  <2> QED
    BY <1>1, <1>3, <1>4, <2>1 DEF PassesFront
<1>6. PICK S \in SUBSET (1 .. n) : S = 1 .. h /\ i \notin S /\ 1 .. i = S \cup {i} /\ InFront(i, n) = S
  <2>1. 1 .. h \in SUBSET (1 .. n) /\ i \notin 1 .. h
    OBVIOUS
  <2>2. 1 .. i = (1 .. h) \cup {i}
    OBVIOUS
  <2>3. InFront(i, n) = 1 .. h
    BY DEF InFront
  <2> QED
    BY <2>1, <2>2, <2>3
<1>7. it[S] \in Int /\ it[1 .. i] = Mul(it[S], v)
  <2>1. PICK D : D = 1 .. n
    OBVIOUS
  <2>2. ProductRules(it, s, D)
    BY <2>1, ProductFacts
  <2>3. it[S] \in Int /\ it[S \cup {i}] = Mul(it[S], s[i])
    BY <1>6, <2>1, <2>2 DEF ProductRules
  <2> QED
    BY <1>3, <1>6, <2>3
<1>8. Known(v, v, ok)
  BY DEF Known
<1>9. TimesKnown(x, v, Mul(it[S], v), ok)
  BY <1>1, <1>6, <1>7, <1>8, KnownTimes
<1>10. ASSUME i < n PROVE Known(Times(x, v), it[1 .. i], ok)
  <2>1. ok = TRUE => PartsInRange(it, n)
    BY DEF ProductsHold
  <2>2. PartsInRange(it, n) => InRange(it[1 .. i])
    <3>1. i # n
      BY <1>10
    <3> QED
      BY <3>1 DEF PartsInRange
  <2> QED
    BY <1>7, <1>9, <2>1, <2>2 DEF TimesKnown
<1>11. ASSUME NEW p \in 1 .. i PROVE Known(w[p], it[InFront(p, n)], ok)
  <2>1. p = i \/ (p \in 1 .. h /\ p # i /\ p \in 1 .. n)
    OBVIOUS
  <2>2. CASE p = i
    BY <1>1, <1>4, <1>6, <2>2
  <2>3. CASE p \in 1 .. h /\ p # i /\ p \in 1 .. n
    BY <1>1, <1>4, <2>3
  <2> QED
    BY <2>1, <2>2, <2>3
<1>12. Times(x, v) \in Held
  BY <1>3, TimesType
<1> QED
  BY <1>5, <1>10, <1>11, <1>12 DEF FrontTo

LEMMA BackStep ==
  ASSUME NEW s, NEW n \in Nat, NEW it, NEW ok \in BOOLEAN, ProductsHold(it, s, n, ok),
         NEW k \in 1 .. n, NEW l \in Nat, k - l = 1, NEW st, BackTo(s, n, it, ok, st, k)
  PROVE  BackTo(s, n, it, ok, ToBack(s, st, k), l)
<1>1. PICK a \in [1 .. n -> Held], x \in Held :
        /\ st = Row(a, x) /\ Known(x, it[Behind(k, n)], ok)
        /\ \A p \in 1 .. k : Known(a[p], it[InFront(p, n)], ok)
        /\ \A p \in Behind(k, n) : KnownInRange(a[p], it[(1 .. n) \ {p}], ok)
  <2>1. k > 0
    OBVIOUS
  <2> QED
    BY <2>1 DEF BackTo
<1>2. s \in Seq(Int) /\ Len(s) = n
  BY DEF ProductsHold
<1>3. PICK v \in Int : v = s[k] /\ v \in Held
  <2>1. s[k] \in Int
    BY <1>2
  <2> QED
    BY <2>1 DEF Held
<1>4. PICK y \in Held : y = Times(x, a[k])
  <2>1. a[k] \in Held
    OBVIOUS
  <2>2. Times(x, a[k]) \in Held
    BY <2>1, TimesType
  <2> QED
    BY <2>2
<1>5. PICK w \in [1 .. n -> Held] : w = Placed(a, k, y) /\ w[k] = y /\ \A p \in 1 .. n : p # k => w[p] = a[p]
  <2>1. Placed(a, k, y) \in [1 .. n -> Held]
    BY PlacedType
  <2> QED
    BY <2>1 DEF Placed
<1>6. ToBack(s, st, k) = Row(w, Times(x, v))
  <2>1. PassesBack(s, a, x, k)
    BY PassesRow
  <2> QED
    BY <1>1, <1>3, <1>4, <1>5, <2>1 DEF PassesBack
<1>7. PICK S \in SUBSET (1 .. n), T \in SUBSET (1 .. n) :
        /\ S = Behind(k, n) /\ T = InFront(k, n) /\ S \cap T = {} /\ S \cup T = (1 .. n) \ {k}
        /\ k \notin S /\ Behind(l, n) = S \cup {k} /\ S \cup {k} = k .. n
  <2>1. Behind(k, n) \in SUBSET (1 .. n) /\ InFront(k, n) \in SUBSET (1 .. n)
    BY DEF Behind, InFront
  <2>2. Behind(k, n) \cap InFront(k, n) = {} /\ k \notin Behind(k, n)
    BY DEF Behind, InFront
  <2>3. Behind(k, n) \cup InFront(k, n) = (1 .. n) \ {k}
    BY DEF Behind, InFront
  <2>4. Behind(l, n) = Behind(k, n) \cup {k}
    BY DEF Behind
  <2>5. Behind(k, n) \cup {k} = k .. n
    BY DEF Behind
  <2> QED
    BY <2>1, <2>2, <2>3, <2>4, <2>5
<1>8. /\ it[S] \in Int /\ it[T] \in Int /\ it[Behind(l, n)] = Mul(it[S], v)
      /\ it[(1 .. n) \ {k}] = Mul(it[S], it[T])
  <2>1. PICK D : D = 1 .. n
    OBVIOUS
  <2>2. ProductRules(it, s, D)
    BY <2>1, ProductFacts
  <2>3. it[S] \in Int /\ it[T] \in Int
    BY <1>7, <2>1, <2>2 DEF ProductRules
  <2>4. it[S \cup {k}] = Mul(it[S], s[k])
    BY <1>7, <2>1, <2>2 DEF ProductRules
  <2>5. it[S \cup T] = Mul(it[S], it[T])
    BY <1>7, <2>1, <2>2 DEF ProductRules
  <2> QED
    BY <1>3, <1>7, <2>3, <2>4, <2>5
<1>9. ASSUME l > 0 PROVE Known(Times(x, v), it[Behind(l, n)], ok)
  <2>1. Known(v, v, ok)
    BY DEF Known
  <2>2. TimesKnown(x, v, Mul(it[S], v), ok)
    BY <1>1, <1>7, <1>8, <2>1, KnownTimes
  <2>3. ok = TRUE => InRange(it[Behind(l, n)])
    <3>1. k # 1 /\ Behind(l, n) = k .. n
      BY <1>7, <1>9
    <3>2. ok = TRUE => InRange(it[k .. n])
      BY <3>1 DEF ProductsHold, PartsInRange
    <3> QED
      BY <3>1, <3>2
  <2> QED
    BY <1>8, <2>2, <2>3 DEF TimesKnown
<1>10. KnownInRange(y, it[(1 .. n) \ {k}], ok)
  <2>1. k \in 1 .. k
    OBVIOUS
  <2>2. Known(a[k], it[T], ok)
    BY <1>1, <1>7, <2>1
  <2>3. TimesKnown(x, a[k], Mul(it[S], it[T]), ok)
    BY <1>1, <1>7, <1>8, <2>2, KnownTimes
  <2> QED
    BY <1>4, <1>8, <2>3 DEF TimesKnown
<1>11. ASSUME NEW p \in 1 .. l PROVE Known(w[p], it[InFront(p, n)], ok)
  <2>1. p \in 1 .. k /\ p # k /\ p \in 1 .. n
    OBVIOUS
  <2> QED
    BY <1>1, <1>5, <2>1
<1>12. ASSUME NEW p \in Behind(l, n) PROVE KnownInRange(w[p], it[(1 .. n) \ {p}], ok)
  <2>1. CASE p = k
    BY <1>5, <1>10, <2>1
  <2>2. CASE p \in S
    <3>1. p # k /\ p \in 1 .. n
      BY <1>7, <2>2
    <3> QED
      BY <1>1, <1>5, <1>7, <2>2, <3>1
  <2> QED
    BY <1>7, <2>1, <2>2
<1>13. Times(x, v) \in Held
  BY <1>3, TimesType
<1> QED
  BY <1>6, <1>9, <1>11, <1>12, <1>13 DEF BackTo

LEMMA FrontFirst ==
  ASSUME NEW s, NEW n \in Nat, NEW it, NEW ok \in BOOLEAN, ProductsHold(it, s, n, ok)
  PROVE  FrontTo(s, n, it, ok, Ones(s), 0)
<1>1. PICK D : D = 1 .. n
  OBVIOUS
<1>2. ProductRules(it, s, D)
  BY <1>1, ProductFacts
<1>3. it[{}] = 1
  BY <1>2 DEF ProductRules
<1>4. PICK a : a = [i \in DOMAIN s |-> 1] /\ a \in [1 .. n -> Held]
  <2>1. DOMAIN s = 1 .. n
    BY DEF ProductsHold
  <2>2. 1 \in Held
    BY DEF Held
  <2>3. [i \in 1 .. n |-> 1] \in [1 .. n -> Held]
    BY <2>2
  <2> QED
    BY <2>1, <2>3
<1>5. Ones(s) = Row(a, 1)
  BY <1>4 DEF Ones, Row
<1>6. Known(1, it[1 .. 0], ok)
  <2>1. 1 .. 0 = {}
    OBVIOUS
  <2> QED
    BY <1>3, <2>1 DEF Known
<1>7. 1 \in Held
  BY DEF Held
<1>8. \A p \in 1 .. 0 : Known(a[p], it[InFront(p, n)], ok)
  OBVIOUS
<1> QED
  BY <1>4, <1>5, <1>6, <1>7, <1>8 DEF FrontTo

LEMMA BackFirst ==
  ASSUME NEW s, NEW n \in Nat, NEW it, NEW ok \in BOOLEAN, ProductsHold(it, s, n, ok),
         NEW st, FrontTo(s, n, it, ok, st, n)
  PROVE  /\ BackTo(s, n, it, ok, [st EXCEPT !.product = 1], n)
         /\ [st EXCEPT !.product = 1] \in Rows(n)
<1>1. PICK a \in [1 .. n -> Held], x \in Held :
        st = Row(a, x) /\ \A p \in 1 .. n : Known(a[p], it[InFront(p, n)], ok)
  BY DEF FrontTo
<1>2. [st EXCEPT !.product = 1] = Row(a, 1)
  BY <1>1 DEF Row
<1>3. Known(1, it[Behind(n, n)], ok)
  <2>1. PICK D : D = 1 .. n
    OBVIOUS
  <2>2. ProductRules(it, s, D)
    BY <2>1, ProductFacts
  <2>3. it[{}] = 1
    BY <2>2 DEF ProductRules
  <2>4. Behind(n, n) = {}
    BY DEF Behind
  <2> QED
    BY <2>3, <2>4 DEF Known
<1>4. \A p \in Behind(n, n) : KnownInRange(a[p], it[(1 .. n) \ {p}], ok)
  BY DEF Behind
<1>5. 1 \in Held
  BY DEF Held
<1>6. Row(a, 1) \in Rows(n)
  BY <1>5, RowsHold
<1> QED
  BY <1>1, <1>2, <1>3, <1>4, <1>5, <1>6 DEF BackTo

AllKnown(r, it, n, ok) == \A i \in 1 .. n : KnownInRange(r[i], it[(1 .. n) \ {i}], ok)

LEMMA ProductsKnown ==
  ASSUME NEW s, NEW n \in Nat, NEW it, NEW ok \in BOOLEAN, ProductsHold(it, s, n, ok)
  PROVE  AllKnown(productExceptSelf(s).result, it, n, ok)
<1>1. s \in Seq(Int) /\ Len(s) = n
  BY DEF ProductsHold
<1>2. PICK f : /\ f[0] = Ones(s)
               /\ \A i, h \in 0 .. n : i - h = 1 => f[i] = ToFront(s, f[h], i)
               /\ FrontPass(s) = f[n]
  <2>1. PICK f : FrontScan(f, s, n)
    BY <1>1, FrontScanned
  <2> QED
    BY <2>1 DEF FrontScan
<1> DEFINE I == {h \in Nat : h <= n => FrontTo(s, n, it, ok, f[h], h)}
<1>3. 0 \in I
  <2>1. FrontTo(s, n, it, ok, f[0], 0)
    BY <1>2, FrontFirst
  <2> QED
    BY <2>1
<1>4. ASSUME NEW h \in Nat, h \in I PROVE h + 1 \in I
  <2>1. PICK i \in Nat : i = h + 1 /\ i - h = 1
    OBVIOUS
  <2>2. ASSUME i <= n PROVE FrontTo(s, n, it, ok, f[i], i)
    <3>1. i \in 0 .. n /\ h \in 0 .. n /\ i \in 1 .. n /\ h <= n
      BY <2>1, <2>2
    <3>2. f[i] = ToFront(s, f[h], i)
      BY <1>2, <2>1, <3>1
    <3>3. FrontTo(s, n, it, ok, f[h], h)
      BY <1>4, <3>1
    <3>4. FrontTo(s, n, it, ok, ToFront(s, f[h], i), i)
      BY <2>1, <3>1, <3>3, FrontStep
    <3> QED
      BY <3>2, <3>4
  <2> QED
    BY <2>1, <2>2
<1>5. Nat \subseteq I
  <2> HIDE DEF I
  <2> QED
    BY <1>3, <1>4, SetInduction
<1>6. FrontTo(s, n, it, ok, FrontPass(s), n)
  <2>1. n \in I /\ n <= n
    BY <1>5
  <2> QED
    BY <1>2, <2>1
<1> HIDE DEF I
<1>7. PICK st0 \in Rows(n) :
        st0 = [FrontPass(s) EXCEPT !.product = 1] /\ BackTo(s, n, it, ok, st0, n)
  BY <1>6, BackFirst
<1>8. PICK g : /\ g[0] = st0
               /\ \A i, h \in 0 .. n : i - h = 1 => g[i] = ToBack(s, g[h], n + 1 - i)
               /\ BackPass(s, st0) = g[n]
  <2>1. PICK g : BackScan(g, s, st0, n)
    BY <1>1, BackScanned
  <2> QED
    BY <2>1 DEF BackScan
<1> DEFINE J == {h \in Nat : h <= n => \A l \in Nat : l = n - h => BackTo(s, n, it, ok, g[h], l)}
<1>9. 0 \in J
  <2>1. \A l \in Nat : l = n - 0 => l = n
    OBVIOUS
  <2> QED
    BY <1>7, <1>8, <2>1
<1>10. ASSUME NEW h \in Nat, h \in J PROVE h + 1 \in J
  <2>1. PICK i \in Nat : i = h + 1 /\ i - h = 1
    OBVIOUS
  <2>2. ASSUME i <= n, NEW l \in Nat, l = n - i PROVE BackTo(s, n, it, ok, g[i], l)
    <3>1. PICK k \in 1 .. n : k = n - h /\ k - l = 1 /\ k = n + 1 - i
      <4>1. n - h \in 1 .. n /\ n - h - l = 1 /\ n - h = n + 1 - i
        BY <2>1, <2>2
      <4> QED
        BY <4>1
    <3>2. i \in 0 .. n /\ h \in 0 .. n /\ h <= n
      BY <2>1, <2>2
    <3>3. BackTo(s, n, it, ok, g[h], k)
      BY <1>10, <3>1, <3>2
    <3>4. g[i] = ToBack(s, g[h], k)
      BY <1>8, <2>1, <3>1, <3>2
    <3>5. BackTo(s, n, it, ok, ToBack(s, g[h], k), l)
      BY <3>1, <3>3, BackStep
    <3> QED
      BY <3>4, <3>5
  <2> QED
    BY <2>1, <2>2
<1>11. Nat \subseteq J
  <2> HIDE DEF J
  <2> QED
    BY <1>9, <1>10, SetInduction
<1>12. BackTo(s, n, it, ok, g[n], 0)
  <2>1. n \in J /\ 0 = n - n /\ n <= n
    BY <1>11
  <2> QED
    BY <2>1
<1>13. PICK a \in [1 .. n -> Held], x \in Held :
         g[n] = Row(a, x) /\ \A p \in Behind(0, n) : KnownInRange(a[p], it[(1 .. n) \ {p}], ok)
  BY <1>12 DEF BackTo
<1>14. productExceptSelf(s).result = a
  <2>1. productExceptSelf(s) = Row(a, x)
    BY <1>7, <1>8, <1>13, ProductPasses
  <2> QED
    BY <2>1 DEF Row
<1>15. \A p \in 1 .. n : p \in Behind(0, n)
  BY DEF Behind
<1> QED
  BY <1>13, <1>14, <1>15 DEF AllKnown

(* The products of the property are those. *)
LEMMA ProductIs ==
  ASSUME NEW it, NEW D, IsFiniteSet(D), args \in [D -> Int], ProductsOf(it, D, args), NEW S \in SUBSET D
  PROVE  Product(S) = it[S]
<1> DEFINE e(r) == CHOOSE y \in r : TRUE
           Step(p, r) == IF r = {} THEN 1 ELSE args[e(r)] * p[r \ {e(r)}]
           p == CHOOSE p : p = [r \in SUBSET S |-> Step(p, r)]
<1>1. Product(S) = p[S]
  BY DEF Product, MapThenFoldSet
<1>2. \A r \in SUBSET S : it[r] = Step(it, r)
  BY DEF ProductsOf, Mul
<1> HIDE DEF e
<1>3. PICK g : g = [r \in SUBSET S |-> it[r]]
  OBVIOUS
<1>4. \A r \in SUBSET S : g[r] = Step(g, r)
  <2>1. \A r \in SUBSET S : r \ {e(r)} \in SUBSET S
    OBVIOUS
  <2>2. \A r \in SUBSET S : g[r \ {e(r)}] = it[r \ {e(r)}]
    BY <1>3, <2>1
  <2> QED
    BY <1>2, <1>3, <2>2
<1>5. g = [r \in SUBSET S |-> Step(g, r)]
  <2> HIDE DEF Step
  <2> QED
    BY <1>3, <1>4
<1>6. p = [r \in SUBSET S |-> Step(p, r)]
  BY <1>5
<1> HIDE DEF p
<1>7. \A r \in SUBSET S : p[r] = IF r = {} THEN 1 ELSE Mul(args[e(r)], p[r \ {e(r)}])
  BY <1>6 DEF Mul
<1>8. ProductsWithin(p, S, args)
  BY <1>7, Zenon DEF ProductsWithin, e
<1>9. ProductsTo(it, D, args)
  BY ProductsAgree
<1>10. p[S] = it[S]
  BY <1>8, <1>9 DEF ProductsTo
<1> QED
  BY <1>1, <1>10

-----------------------------------------------------------------------------
(* Each call is one of arguments that its function takes, and returns what the
   function says. *)
CallInv ==
  /\ fn = "majority_element" => args \in Seq(Int) \ {<<>>}
  /\ fn = "rotate" => args.s \in Seq(Int) /\ args.k \in Nat
  /\ fn \in {"max_profit_1", "max_profit_2"} => args \in Seq(Int)
  /\ fn = "max_profit_2" => Prices(args)
  /\ fn \in {"canJump1", "canJump2"} => args \in Seq(Nat) \ {<<>>}
  /\ fn = "jump" => args \in Seq(Nat) \ {<<>>} /\ CanReachEnd(args)
  /\ fn = "h_index" => args \in Seq(Nat)
  /\ fn = "remove_element" => args.s \in Seq(Int) /\ args.val \in Int
  /\ fn \in {"remove_duplicates", "remove_duplicates_2"} =>
       args \in Seq(Int) /\ Len(args) # 0 /\ Ascending(args)
  /\ fn = "merge" => MergeArgs(args.nums1, args.m, args.nums2)
  /\ fn = "productExceptSelf" => args \in Seq(Int)
  /\ result # NONE =>
       /\ fn = "majority_element" => result = majority_element(args)
       /\ fn = "rotate" => result = rotate(args.s, args.k)
       /\ fn = "max_profit_1" => result = max_profit_1(args)
       /\ fn = "max_profit_2" => result = max_profit_2(args)
       /\ fn = "canJump1" => result = canJump1(args)
       /\ fn = "canJump2" => result = canJump2(args)
       /\ fn = "h_index" => result = h_index(args)
       /\ fn = "remove_element" => result = remove_element(args.s, args.val)
       /\ fn = "remove_duplicates" => result = remove_duplicates(args)
       /\ fn = "remove_duplicates_2" => result = remove_duplicates_2(args)
       /\ fn = "merge" => result = Merge(args.nums1, args.m, args.nums2, Len(args.nums2))
       /\ fn = "productExceptSelf" => result = productExceptSelf(args).result
       /\ fn = "jump" => result = jump(args)

LEMMA ValuesType == Values \subseteq Int
<1>1. Values \subseteq -INT_MAX - 1 .. INT_MAX /\ INT_MAX \in Nat
  BY ExerciseAssumption, Zenon
<1> QED
  BY <1>1

LEMMA ArraysType == Arrays \subseteq Seq(Int)
<1> SUFFICES ASSUME NEW s \in Arrays PROVE s \in Seq(Int)
  OBVIOUS
<1>1. PICK n \in 0 .. MaxLen : s \in [1 .. n -> Values]
  BY DEF Arrays
<1>2. Values \subseteq Int /\ MaxLen \in Nat
  <2>1. Values \subseteq -INT_MAX - 1 .. INT_MAX /\ INT_MAX \in Nat /\ MaxLen \in 0 .. INT_MAX
    BY ExerciseAssumption, Zenon
  <2> QED
    BY <2>1
<1>3. n \in Nat /\ s \in [1 .. n -> Int]
  <2>1. n \in Nat
    BY <1>2
  <2>2. \A i \in 1 .. n : s[i] \in Int
    BY <1>1, <1>2
  <2>3. s = [i \in 1 .. n |-> s[i]]
    BY <1>1
  <2> QED
    BY <2>1, <2>2, <2>3
<1> QED
  BY <1>3

LEMMA AmountsType == Amounts \subseteq Seq(Nat)
<1> SUFFICES ASSUME NEW s \in Amounts PROVE s \in Seq(Nat)
  OBVIOUS
<1>1. s \in Seq(Int) /\ \A i \in DOMAIN s : s[i] >= 0
  BY ArraysType DEF Amounts
<1>2. PICK n \in Nat : n = Len(s) /\ DOMAIN s = 1 .. n
  BY <1>1
<1>3. \A i \in 1 .. n : s[i] \in Nat
  BY <1>1, <1>2
<1>4. s = [i \in 1 .. n |-> s[i]]
  BY <1>1, <1>2
<1>5. s \in [1 .. n -> Nat]
  BY <1>3, <1>4
<1> QED
  BY <1>5

(* What an array holds is an int. *)
LEMMA AmountsHeld == \A s \in Amounts : \A i \in DOMAIN s : 0 <= s[i] /\ InRange(s[i])
<1> SUFFICES ASSUME NEW s \in Amounts, NEW i \in DOMAIN s PROVE 0 <= s[i] /\ InRange(s[i])
  OBVIOUS
<1>1. Values \subseteq -INT_MAX - 1 .. INT_MAX /\ INT_MAX \in Nat
  BY ExerciseAssumption, Zenon
<1>2. PICK n : s \in [1 .. n -> Values]
  BY DEF Amounts, Arrays
<1>3. s[i] \in Values /\ s[i] >= 0
  BY <1>2 DEF Amounts
<1>4. PICK x \in -INT_MAX - 1 .. INT_MAX : x = s[i]
  BY <1>1, <1>3
<1> QED
  BY <1>1, <1>3, <1>4 DEF InRange

LEMMA CallInit == Init => CallInv
<1> SUFFICES ASSUME Init PROVE CallInv
  OBVIOUS
<1>1. Amounts \subseteq Seq(Int) /\ Amounts \subseteq Seq(Nat)
  BY ArraysType, AmountsType DEF Amounts
<1>2. fn = "max_profit_2" => Prices(args)
  <2> SUFFICES ASSUME fn = "max_profit_2" PROVE Prices(args)
    OBVIOUS
  <2>1. args \in Amounts
    BY DEF Init
  <2> QED
    BY <2>1, AmountsType, ArraysType, AmountsHeld DEF Amounts, Prices
<1>3. fn = "majority_element" => args \in Seq(Int) \ {<<>>}
  BY ArraysType DEF Init
<1>4. fn \in {"max_profit_1", "max_profit_2"} => args \in Seq(Int)
  BY <1>1 DEF Init
<1>5. fn = "rotate" => args.s \in Seq(Int) /\ args.k \in Nat
  <2> SUFFICES ASSUME fn = "rotate" PROVE args.s \in Seq(Int) /\ args.k \in Nat
    OBVIOUS
  <2>1. args \in [s : Arrays, k : 0 .. INT_MAX]
    BY DEF Init
  <2>2. INT_MAX \in Nat
    BY ExerciseAssumption, Zenon
  <2>3. args.k \in 0 .. INT_MAX /\ args.s \in Arrays
    BY <2>1
  <2> QED
    BY <2>2, <2>3, ArraysType
<1>6. fn \in {"canJump1", "canJump2"} => args \in Seq(Nat) \ {<<>>}
  BY <1>1 DEF Init
<1>7. fn = "jump" => args \in Seq(Nat) \ {<<>>} /\ CanReachEnd(args)
  BY <1>1 DEF Init
<1>8. fn = "h_index" => args \in Seq(Nat)
  BY <1>1 DEF Init
<1>9. fn = "remove_element" => args.s \in Seq(Int) /\ args.val \in Int
  <2> SUFFICES ASSUME fn = "remove_element" PROVE args.s \in Seq(Int) /\ args.val \in Int
    OBVIOUS
  <2>1. args \in [s : Arrays, val : Values]
    BY DEF Init
  <2>2. args.s \in Arrays /\ args.val \in Values
    BY <2>1
  <2> QED
    BY <2>2, ArraysType, ValuesType
<1>10. fn \in {"remove_duplicates", "remove_duplicates_2"} =>
         args \in Seq(Int) /\ Len(args) # 0 /\ Ascending(args)
  <2> SUFFICES ASSUME fn \in {"remove_duplicates", "remove_duplicates_2"}
               PROVE  args \in Seq(Int) /\ Len(args) # 0 /\ Ascending(args)
    OBVIOUS
  <2>1. args \in Arrays /\ args # <<>> /\ Ascending(args)
    BY DEF Init, Sorted
  <2>2. args \in Seq(Int)
    BY <2>1, ArraysType
  <2> QED
    BY <2>1, <2>2, EmptySeq
<1>11. fn = "merge" => MergeArgs(args.nums1, args.m, args.nums2)
  <2> SUFFICES ASSUME fn = "merge" PROVE MergeArgs(args.nums1, args.m, args.nums2)
    OBVIOUS
  <2>1. PICK a \in Sorted, b \in Sorted :
          args = [nums1 |-> a \o [i \in DOMAIN b |-> 0], m |-> Len(a), nums2 |-> b]
    BY DEF Init
  <2>2. a \in Seq(Int) /\ Ascending(a) /\ b \in Seq(Int) /\ Ascending(b)
    BY ArraysType DEF Sorted
  <2>3. PICK z \in Seq(Int) : z = [i \in DOMAIN b |-> 0] /\ Len(z) = Len(b)
    <3>1. PICK n \in Nat : n = Len(b) /\ DOMAIN b = 1 .. n
      BY <2>2
    <3>2. [i \in 1 .. n |-> 0] \in [1 .. n -> Int]
      OBVIOUS
    <3>3. [i \in 1 .. n |-> 0] \in Seq(Int) /\ Len([i \in 1 .. n |-> 0]) = n
      BY <3>2, FunctionSequence
    <3> QED
      BY <3>1, <3>3
  <2>4. PICK s \in Seq(Int) : s = a \o z /\ Len(s) = Len(a) + Len(b) /\ SubSeq(s, 1, Len(a)) = a
    <3>1. a \o z \in Seq(Int) /\ Len(a \o z) = Len(a) + Len(z)
      BY <2>2, <2>3, ConcatProperties
    <3>2. SubSeq(a \o z, 1, Len(a)) = SubSeq(a, 1, Len(a))
      <4>1. CASE Len(a) = 0
        <5>1. SubSeq(a \o z, 1, 0) = <<>>
          BY SubSeqEmpty
        <5>2. SubSeq(a, 1, 0) = <<>>
          BY SubSeqEmpty
        <5> QED
          BY <4>1, <5>1, <5>2
      <4>2. CASE Len(a) # 0
        <5>1. Len(a) \in 1 .. Len(a) /\ 1 \in 1 .. Len(a)
          BY <2>2, <4>2
        <5> QED
          BY <2>2, <2>3, <5>1, SubSeqOfConcat1
      <4> QED
        BY <4>1, <4>2
    <3>3. SubSeq(a, 1, Len(a)) = a
      BY <2>2, SubSeqFull
    <3> QED
      BY <2>3, <3>1, <3>2, <3>3
  <2>5. args.nums1 = s /\ args.m = Len(a) /\ args.nums2 = b
    BY <2>1, <2>3, <2>4
  <2>6. Len(a) \in Nat
    BY <2>2
  <2> QED
    BY <2>2, <2>4, <2>5, <2>6 DEF MergeArgs
<1>12. fn = "productExceptSelf" => args \in Seq(Int)
  BY ArraysType DEF Init
<1> QED
  BY <1>2, <1>3, <1>4, <1>5, <1>6, <1>7, <1>8, <1>9, <1>10, <1>11, <1>12 DEF CallInv, Init

LEMMA CallStep == CallInv /\ [Next]_vars => CallInv'
<1> SUFFICES ASSUME CallInv, [Next]_vars PROVE CallInv'
  OBVIOUS
<1>1. CASE Return
  <2>1. UNCHANGED <<fn, args>>
    BY <1>1 DEF Return
  <2>2. /\ fn = "majority_element" => result' = majority_element(args)
        /\ fn = "rotate" => result' = rotate(args.s, args.k)
        /\ fn = "max_profit_1" => result' = max_profit_1(args)
        /\ fn = "max_profit_2" => result' = max_profit_2(args)
        /\ fn = "canJump1" => result' = canJump1(args)
        /\ fn = "canJump2" => result' = canJump2(args)
        /\ fn = "h_index" => result' = h_index(args)
        /\ fn = "remove_element" => result' = remove_element(args.s, args.val)
        /\ fn = "remove_duplicates" => result' = remove_duplicates(args)
        /\ fn = "remove_duplicates_2" => result' = remove_duplicates_2(args)
        /\ fn = "merge" => result' = Merge(args.nums1, args.m, args.nums2, Len(args.nums2))
        /\ fn = "productExceptSelf" => result' = productExceptSelf(args).result
        /\ fn = "jump" => result' = jump(args)
    BY <1>1 DEF Return
  <2> QED
    BY <2>1, <2>2 DEF CallInv
<1>2. CASE UNCHANGED vars
  BY <1>2 DEF vars, CallInv
<1> QED
  BY <1>1, <1>2 DEF Next, Ended

LEMMA CallImpliesMajority == CallInv => MajorityFound
<1> SUFFICES ASSUME CallInv, fn = "majority_element", result # NONE, NEW v \in Values,
                    2 * Occurrences(args, v) > Len(args)
             PROVE  result = v
  BY DEF MajorityFound, Returned
<1>1. args \in Seq(Int) /\ args # <<>> /\ v \in Int /\ result = majority_element(args)
  BY ValuesType DEF CallInv
<1> QED
  BY <1>1, MajorityVote

(* Of every array of any length, an element that more than half of it agrees on is the
   one majority_element() returns. *)
THEOREM MajorityReturned == Spec => []MajorityFound
<1> QED
  BY CallInit, CallStep, CallImpliesMajority, PTL DEF Spec

LEMMA CallImpliesRotated == CallInv => RotatedRight
<1> SUFFICES ASSUME CallInv, fn = "rotate", result # NONE, args.s # <<>>,
                    InRange(Len(args.s) - 1 + args.k)
             PROVE  result = SubSeq(args.s, Len(args.s) - (args.k % Len(args.s)) + 1, Len(args.s))
                              \o SubSeq(args.s, 1, Len(args.s) - (args.k % Len(args.s)))
  BY DEF RotatedRight, Returned
<1>1. args.s \in Seq(Int) /\ args.k \in Nat /\ result = rotate(args.s, args.k)
  BY DEF CallInv
<1> QED
  BY <1>1, RotatesRight

(* rotate() turns an array of any length to the right by any number of places that no
   int overflows for, also by more than its length. *)
THEOREM Rotated == Spec => []RotatedRight
<1> QED
  BY CallInit, CallStep, CallImpliesRotated, PTL DEF Spec

LEMMA CallImpliesProfits == CallInv => ProfitsBest
<1> SUFFICES ASSUME CallInv, result # NONE, fn \in {"max_profit_1", "max_profit_2"}
             PROVE  ProfitsBest
  BY DEF ProfitsBest, Returned
<1>1. args \in Seq(Int)
  BY DEF CallInv
<1>2. fn = "max_profit_1" => IsLargest(result, {0} \cup Sales)
  BY <1>1, ProfitsLargest DEF CallInv, Sales
<1>3. fn = "max_profit_2" /\ (\A h \in Holdings : InRange(h)) => IsLargest(result, Holdings)
  BY <1>1, ProfitsLargest DEF CallInv, Holdings
<1> QED
  BY <1>2, <1>3 DEF ProfitsBest, Returned

(* For prices over any number of days, no one sale earns more than max_profit_1() says,
   and no choice of nights more than max_profit_2(), as long as all of them earn an int. *)
THEOREM ProfitsLargestPossible == Spec => []ProfitsBest
<1> QED
  BY CallInit, CallStep, CallImpliesProfits, PTL DEF Spec

LEMMA CallImpliesJumps == CallInv => JumpsCorrect
<1>1. ASSUME CallInv, result # NONE, fn = "canJump1", Landings(0)
      PROVE  result = CanReachEnd(args)
  <2>1. args \in Seq(Nat) /\ args # <<>> /\ result = canJump1(args)
    BY <1>1 DEF CallInv
  <2>2. canJump1(args) <=> CanReachEnd(args)
    BY <1>1, <2>1, CanJump1Right DEF Lands, Landings
  <2>3. canJump1(args) \in BOOLEAN
    BY Zenon DEF canJump1
  <2>4. CanReachEnd(args) \in BOOLEAN
    BY DEF CanReachEnd
  <2>5. canJump1(args) = CanReachEnd(args)
    <3>1. PICK a \in BOOLEAN : a = canJump1(args)
      BY <2>3
    <3>2. PICK b \in BOOLEAN : b = CanReachEnd(args)
      BY <2>4
    <3>3. a <=> b
      BY <2>2, <3>1, <3>2
    <3> QED
      BY <3>1, <3>2, <3>3
  <2> QED
    BY <2>1, <2>5
<1>2. ASSUME CallInv, result # NONE, fn = "canJump2", Landings(1)
      PROVE  result = CanReachEnd(args)
  <2>1. args \in Seq(Nat) /\ args # <<>> /\ result = canJump2(args)
    BY <1>2 DEF CallInv
  <2>2. canJump2(args) <=> CanReachEnd(args)
    BY <1>2, <2>1, CanJump2Right DEF Lands, Landings
  <2>3. canJump2(args) \in BOOLEAN
    BY Zenon DEF canJump2
  <2>4. CanReachEnd(args) \in BOOLEAN
    BY DEF CanReachEnd
  <2>5. canJump2(args) = CanReachEnd(args)
    <3>1. PICK a \in BOOLEAN : a = canJump2(args)
      BY <2>3
    <3>2. PICK b \in BOOLEAN : b = CanReachEnd(args)
      BY <2>4
    <3>3. a <=> b
      BY <2>2, <3>1, <3>2
    <3> QED
      BY <3>1, <3>2, <3>3
  <2> QED
    BY <2>1, <2>5
<1>3. ASSUME CallInv, result # NONE, fn = "jump", Landings(1)
      PROVE  /\ Len(args) \in ReachedIn(args, result)
             /\ result > 0 => Len(args) \notin ReachedIn(args, result - 1)
  <2>1. args \in Seq(Nat) /\ args # <<>> /\ CanReachEnd(args) /\ result = jump(args)
    BY <1>3 DEF CallInv
  <2> QED
    BY <1>3, <2>1, FewestJumps DEF Lands, Landings
<1> QED
  BY <1>1, <1>2, <1>3 DEF JumpsCorrect, Returned

(* For arrays of any length, both jump games answer true just where a chain of jumps
   leads to the last place, and jump() takes as few as any such chain, if the places
   that the jumps lead to are ints. *)
THEOREM JumpsRight == Spec => []JumpsCorrect
<1> QED
  BY CallInit, CallStep, CallImpliesJumps, PTL DEF Spec

LEMMA CallImpliesHIndex == CallInv => HIndexCorrect
<1> SUFFICES ASSUME CallInv, fn = "h_index", result # NONE
             PROVE  IsLargest(result, {h \in 0 .. Len(args) :
                                         Cardinality({i \in DOMAIN args : args[i] >= h}) >= h})
  BY DEF HIndexCorrect, Returned
<1>1. args \in Seq(Nat) /\ result = h_index(args)
  BY DEF CallInv
<1> QED
  BY <1>1, HIndexLargest

(* For any number of papers, h_index() returns the largest h such that h of them have h
   citations. *)
THEOREM HIndexRight == Spec => []HIndexCorrect
<1> QED
  BY CallInit, CallStep, CallImpliesHIndex, PTL DEF Spec

LEMMA CallImpliesMerge == CallInv => MergeCorrect
<1> SUFFICES ASSUME CallInv, Returned("merge")
             PROVE  /\ Ascending(result) /\ Len(result) = Len(args.nums1)
                    /\ \A v \in Values :
                         Occurrences(result, v) =
                           Occurrences(SubSeq(args.nums1, 1, args.m), v) + Occurrences(args.nums2, v)
  BY DEF MergeCorrect
<1>1. PICK s, b, u : s = args.nums1 /\ b = args.m /\ u = args.nums2
  OBVIOUS
<1>2. MergeArgs(s, b, u) /\ result = Merge(s, b, u, Len(u))
  BY <1>1 DEF CallInv, Returned
<1>3. s \in Seq(Int) /\ b \in Nat /\ u \in Seq(Int) /\ Ascending(SubSeq(s, 1, b)) /\ Ascending(u)
  BY <1>2 DEF MergeArgs
<1>4. PICK c \in Nat, e \in Nat : c = Len(u) /\ e = Len(s) /\ b + c = e
  BY <1>2, <1>3 DEF MergeArgs
<1>5. MergeResult(Merge(s, b, u, c), s, b, u, e)
  BY <1>3, <1>4, MergeSorts
<1>6. Values \subseteq Int
  BY ValuesType
<1> QED
  BY <1>1, <1>2, <1>4, <1>5, <1>6 DEF MergeResult

(* For arrays of any length, merging inside nums1 gives a sorted array with every element
   of both as often as they had it. *)
THEOREM MergeRight == Spec => []MergeCorrect
<1> QED
  BY CallInit, CallStep, CallImpliesMerge, PTL DEF Spec

LEMMA CallImpliesProducts == CallInv => ProductsCorrect
<1> SUFFICES ASSUME CallInv, Returned("productExceptSelf"), NEW i \in DOMAIN args
             PROVE  LET others == Product(DOMAIN args \ {i})
                    IN  /\ result[i] \in {NONE, others}
                        /\ InRange(others) /\ (\A m \in DOMAIN args :
                                                  /\ m # Len(args) => InRange(Product(1 .. m))
                                                  /\ m # 1 => InRange(Product(m .. Len(args))))
                             => result[i] = others
  BY DEF ProductsCorrect
<1>1. args \in Seq(Int) /\ result = productExceptSelf(args).result
  BY DEF CallInv, Returned
<1>2. PICK n \in Nat : n = Len(args) /\ DOMAIN args = 1 .. n
  BY <1>1
<1>3. PICK D : D = 1 .. n /\ IsFiniteSet(D) /\ args \in [D -> Int]
  <2>1. IsFiniteSet(1 .. n)
    BY FS_Interval
  <2> QED
    BY <1>1, <1>2, <2>1
<1>4. PICK it : ProductsOf(it, D, args)
  BY <1>3, ProductsExist
<1>5. \A S \in SUBSET D : Product(S) = it[S]
  BY <1>3, <1>4, ProductIs
<1>6. \A m \in 1 .. n : Product(1 .. m) = it[1 .. m] /\ Product(m .. n) = it[m .. n]
  <2> SUFFICES ASSUME NEW m \in 1 .. n
               PROVE  Product(1 .. m) = it[1 .. m] /\ Product(m .. n) = it[m .. n]
    OBVIOUS
  <2>1. 1 .. m \in SUBSET D /\ m .. n \in SUBSET D
    BY <1>3
  <2> QED
    BY <1>5, <2>1
<1>7. PICK ok \in BOOLEAN : ok = PartsInRange(it, n)
  BY DEF PartsInRange
<1>8. ProductsHold(it, args, n, ok)
  <2>1. args \in Seq(Int) /\ Len(args) = n /\ ProductsOf(it, 1 .. n, args)
    BY <1>1, <1>2, <1>3, <1>4
  <2>2. ok = TRUE => PartsInRange(it, n)
    BY <1>7
  <2> QED
    BY <2>1, <2>2, Zenon DEF ProductsHold
<1>9. KnownInRange(result[i], it[D \ {i}], ok)
  <2>1. AllKnown(result, it, n, ok)
    BY <1>1, <1>8, ProductsKnown
  <2> QED
    BY <1>2, <1>3, <2>1 DEF AllKnown
<1>10. PICK others : others = Product(DOMAIN args \ {i}) /\ others = it[D \ {i}]
  BY <1>2, <1>3, <1>5
<1>11. (\A m \in DOMAIN args : /\ m # Len(args) => InRange(Product(1 .. m))
                               /\ m # 1 => InRange(Product(m .. Len(args)))) => ok = TRUE
  BY <1>2, <1>6, <1>7 DEF PartsInRange
<1> QED
  BY <1>9, <1>10, <1>11 DEF KnownInRange

(* For arrays of any length, every product productExceptSelf() returns is that of all the
   other elements, and it returns each of them unless a product overflows on the way. *)
THEOREM ProductsRight == Spec => []ProductsCorrect
<1> QED
  BY CallInit, CallStep, CallImpliesProducts, PTL DEF Spec

LEMMA CallImpliesRemovals == CallInv => RemovalsCorrect
<1> SUFFICES ASSUME CallInv PROVE RemovalsCorrect
  OBVIOUS
<1>1. ASSUME Returned("remove_element")
      PROVE  Kept = Subsequence(args.s, {i \in DOMAIN args.s : args.s[i] # args.val})
  <2>1. args.s \in Seq(Int) /\ args.val \in Int /\ result = remove_element(args.s, args.val)
    BY <1>1 DEF CallInv, Returned
  <2> QED
    BY <2>1, ElementRemoved DEF Kept
<1>2. Values \subseteq Int
  BY ValuesType
<1>3. ASSUME Returned("remove_duplicates") PROVE AtMost(1)
  <2>1. args \in Seq(Int) /\ Len(args) # 0 /\ Ascending(args) /\ result = remove_duplicates(args)
    BY <1>3 DEF CallInv, Returned
  <2>2. Limited(1, Kept, args)
    BY <2>1, DuplicatesRemoved DEF Kept
  <2> QED
    BY <1>2, <2>2 DEF Limited, AtMost
<1>4. ASSUME Returned("remove_duplicates_2") PROVE AtMost(2)
  <2>1. args \in Seq(Int) /\ Len(args) # 0 /\ Ascending(args) /\ result = remove_duplicates_2(args)
    BY <1>4 DEF CallInv, Returned
  <2>2. Limited(2, Kept, args)
    BY <2>1, TriplesRemoved DEF Kept
  <2> QED
    BY <1>2, <2>2 DEF Limited, AtMost
<1> QED
  BY <1>1, <1>3, <1>4 DEF RemovalsCorrect

(* For arrays of any length: of what remove_element() was given, everything but val is
   at the front, in order; of a sorted array, remove_duplicates() leaves each element
   once, and remove_duplicates_2() at most twice. *)
THEOREM RemovalsRight == Spec => []RemovalsCorrect
<1> QED
  BY CallInit, CallStep, CallImpliesRemovals, PTL DEF Spec
=============================================================================
