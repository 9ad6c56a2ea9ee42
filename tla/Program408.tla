------------------------------ MODULE Program408 ------------------------------
(***************************************************************************)
(* The array exercises (408/program.cpp).  Each member function of         *)
(* Solution is a function of its arguments; a vector is a sequence, and    *)
(* s[i] of the code is s[i + 1] here.  A behaviour is one call of one of   *)
(* them.                                                                   *)
(***************************************************************************)
EXTENDS Integers, Sequences, FiniteSets, SequencesExt, Subsequences

CONSTANTS
  Values,   \* bound: what an array may hold
  MaxLen,   \* bound: how long an array may be
  INT_MAX,  \* the largest int; the least is -INT_MAX - 1
  SIZE_MAX, \* the largest size_t
  Overflow(_, _), \* the int that a build makes of a sum that no int holds
  NONE      \* no result yet

ASSUME ExerciseAssumption ==
  /\ INT_MAX \in Nat /\ SIZE_MAX \in Nat /\ MaxLen \in 0 .. INT_MAX
  /\ Values \subseteq -INT_MAX - 1 .. INT_MAX /\ 0 \in Values
  /\ \A a, b \in -INT_MAX - 1 .. INT_MAX : Overflow(a, b) \in -INT_MAX - 1 .. INT_MAX
  /\ NONE \notin Int /\ NONE \notin BOOLEAN

(* The larger and the smaller of two numbers. *)
Larger(a, b) == IF a > b THEN a ELSE b
Smaller(a, b) == IF a < b THEN a ELSE b

(* Arithmetic of ints: what an overflow yields is up to the build.  As the index of a
   vector an int is taken modulo the range of size_t. *)
InRange(x) == x \in -INT_MAX - 1 .. INT_MAX
IntSum(a, b) == IF InRange(a + b) THEN a + b ELSE Overflow(a, b)
Index(x, n) == (IF x < 0 THEN x + SIZE_MAX + 1 ELSE x) % n

-----------------------------------------------------------------------------
(* The functions. *)

Backwards(n) == [d \in 1 .. n |-> n + 1 - d]

MergeStrict(nums1, m, nums2, n) == \* mutation: what is left of nums2 is forgotten
  LET Step(st, k) ==
        IF st.i = 0 \/ st.j = 0 THEN st
        ELSE IF st.array[st.i] >= nums2[st.j]
        THEN [st EXCEPT !.array[k] = st.array[st.i], !.i = @ - 1]
        ELSE [st EXCEPT !.array[k] = nums2[st.j], !.j = @ - 1]
  IN  FoldLeft(Step, [array |-> nums1, i |-> m, j |-> n], Backwards(m + n)).array

(* Merging from the end, inside nums1: place k gets the larger of the last of the i and
   j elements that are left, until none of nums2 is. *)
Merge(nums1, m, nums2, n) ==
  LET Step(st, k) ==
        IF st.j = 0 THEN st
        ELSE IF st.i > 0 /\ st.array[st.i] >= nums2[st.j]
        THEN [st EXCEPT !.array[k] = st.array[st.i], !.i = @ - 1]
        ELSE [st EXCEPT !.array[k] = nums2[st.j], !.j = @ - 1]
  IN  FoldLeft(Step, [array |-> nums1, i |-> m, j |-> n], Backwards(m + n)).array

(* The removals move what is kept to the front of the same array, where later
   steps read; num counts it. *)
Keep(st, x) == [st EXCEPT !.array[st.num + 1] = x, !.num = @ + 1]
FromSecond(s) == [i \in 1 .. Len(s) - 1 |-> i + 1]

remove_element(s, val) ==
  FoldLeftDomain(LAMBDA st, i :
                   IF st.array[i] # val THEN Keep(st, st.array[i]) ELSE st,
                 [array |-> s, num |-> 0], s)

remove_duplicates(s) ==
  LET Step(st, i) ==
        IF st.array[i] # st.flag
        THEN [Keep(st, st.array[i]) EXCEPT !.flag = st.array[i]]
        ELSE st
  IN  FoldLeft(Step, [array |-> s, num |-> 1, flag |-> s[1]], FromSecond(s))

Thrice(seen) == seen < 3 \* mutation: an element may occur three times
Twice(seen) == seen < 2
remove_duplicates_2(s) ==
  LET Step(st, i) ==
        IF st.array[i] # st.flag
        THEN [Keep(st, st.array[i]) EXCEPT !.flag = st.array[i], !.seen = 1]
        ELSE [(IF Twice(st.seen) THEN Keep(st, st.array[i]) ELSE st) EXCEPT !.seen = @ + 1]
  IN  FoldLeft(Step, [array |-> s, num |-> 1, flag |-> s[1], seen |-> 1], FromSecond(s))

MajorityNoVote(s) == \* mutation: other elements do not vote against the candidate
  FoldLeft(LAMBDA st, x :
             IF st.count = 0 THEN [candidate |-> x, count |-> 1]
             ELSE [st EXCEPT !.count = IF x = st.candidate THEN @ + 1 ELSE @],
           [candidate |-> s[1], count |-> 0], s).candidate
majority_element(s) ==
  FoldLeft(LAMBDA st, x :
             IF st.count = 0 THEN [candidate |-> x, count |-> 1]
             ELSE [st EXCEPT !.count = IF x = st.candidate THEN @ + 1 ELSE @ - 1],
           [candidate |-> s[1], count |-> 0], s).candidate

RotateLeft(s, k) == \* mutation: the wrong way round
  FoldLeftDomain(LAMBDA a, i : [a EXCEPT ![i] = s[((i - 1 + k) % Len(s)) + 1]], s, s)
rotate(s, k) ==
  FoldLeftDomain(LAMBDA a, i : [a EXCEPT ![Index(IntSum(i - 1, k), Len(s)) + 1] = s[i]], s, s)

max_profit_1(prices) ==
  IF prices = <<>> THEN 0
  ELSE FoldLeft(LAMBDA st, p : [best |-> Larger(st.best, p - st.min),
                                min |-> Smaller(st.min, p)],
                [best |-> 0, min |-> prices[1]], Tail(prices)).best

ProfitOnce(s) == max_profit_1(s) \* mutation: one transaction only
max_profit_2(s) ==
  FoldLeft(LAMBDA profit, i :
             IF s[i] - s[i - 1] > 0 THEN IntSum(profit, s[i] - s[i - 1]) ELSE profit,
           0, FromSecond(s))

canJump1(s) ==
  LET n == Len(s)
      Step(st, i) ==
        IF st.answer # NONE THEN st
        ELSE IF s[i + 1] > 0
        THEN IF IntSum(IntSum(i, s[i + 1]), 1) >= n
             THEN [st EXCEPT !.answer = TRUE]
             ELSE [st EXCEPT !.max = Larger(IntSum(i, s[i + 1]), @)]
        ELSE IF i >= st.max THEN [st EXCEPT !.answer = FALSE] ELSE st
      last == FoldLeft(Step, [answer |-> NONE, max |-> 0], [i \in 1 .. n |-> i - 1])
  IN  n = 1 \/ last.answer = TRUE

canJump2(s) ==
  LET n == Len(s)
      Step(st, i) ==
        IF st.answer # NONE THEN st
        ELSE IF i > st.max THEN [st EXCEPT !.answer = FALSE]
        ELSE LET max == Larger(st.max, IntSum(i, s[i + 1]))
             IN  [max |-> max, answer |-> IF max >= n - 1 THEN TRUE ELSE NONE]
      last == FoldLeft(Step, [answer |-> NONE, max |-> 0], [i \in 1 .. n |-> i - 1])
  IN  last.answer # FALSE

JumpEager(s) == \* mutation: the number of steps grows whenever the reach does
  FoldLeft(LAMBDA st, i :
             LET max == Larger(st.max, i + s[i + 1])
             IN  [max |-> max, steps |-> IF max > st.max THEN st.steps + 1 ELSE st.steps],
           [max |-> 0, steps |-> 0], [i \in 1 .. Len(s) - 1 |-> i - 1]).steps
jump(s) ==
  FoldLeft(LAMBDA st, i :
             LET max == Larger(st.max, IntSum(i, s[i + 1]))
             IN  IF i = st.reach THEN [max |-> max, reach |-> max, steps |-> st.steps + 1]
                                 ELSE [st EXCEPT !.max = max],
           [max |-> 0, reach |-> 0, steps |-> 0], [i \in 1 .. Len(s) - 1 |-> i - 1]).steps

(* Sorted downwards: fewer than i elements are larger than the one at place i, and at
   least i are no smaller. *)
Descending(s) ==
  [i \in DOMAIN s |-> CHOOSE v \in Range(s) :
                        /\ Cardinality({m \in DOMAIN s : s[m] > v}) < i
                        /\ Cardinality({m \in DOMAIN s : s[m] >= v}) >= i]

(* The array is sorted; once an element is too small, no later one is looked at. *)
HIndexNext(s) == \* mutation: an element equal to h is enough
  LET d == Descending(s)
  IN  FoldLeftDomain(LAMBDA h, i : IF h = i - 1 /\ d[i] >= h THEN i ELSE h, 0, s)
h_index(s) ==
  LET d == Descending(s)
  IN  FoldLeftDomain(LAMBDA h, i : IF h = i - 1 /\ d[i] >= h + 1 THEN i ELSE h, 0, s)

(* Products from the front, then from the back; NONE stands for an overflow. *)
Times(a, b) ==
  IF a = NONE \/ b = NONE \/ a * b > INT_MAX \/ a * b < -INT_MAX - 1 THEN NONE ELSE a * b
ProductsTail(s) == \* mutation: only the products from the back
  LET Back(st, i) == [result |-> [st.result EXCEPT ![i] = st.product],
                      product |-> Times(st.product, s[i])]
  IN  FoldLeft(Back, [result |-> s, product |-> 1], Backwards(Len(s)))
productExceptSelf(s) ==
  LET ToFront(st, i) == [result |-> [st.result EXCEPT ![i] = st.product],
                         product |-> Times(st.product, s[i])]
      ToBack(st, i) == [result |-> [st.result EXCEPT ![i] = Times(st.product, @)],
                        product |-> Times(st.product, s[i])]
      front == FoldLeftDomain(ToFront, [result |-> [i \in DOMAIN s |-> 1], product |-> 1], s)
  IN  FoldLeft(ToBack, [front EXCEPT !.product = 1], Backwards(Len(s)))

(* The inner loop ends after one turn: if the gas of station i does not take the car to
   the next, the next i is tried, and otherwise i is returned. *)
can_complete_circuit(gas, cost) ==
  FoldLeftDomain(LAMBDA answer, i :
                   IF answer = -1 /\ gas[i] >= cost[i] THEN i - 1 ELSE answer,
                 -1, gas)

-----------------------------------------------------------------------------
(* A call: the function, its arguments and what it returns. *)

VARIABLES fn, args, result
vars == <<fn, args, result>>

Arrays == UNION {[1 .. n -> Values] : n \in 0 .. MaxLen}
Amounts == {s \in Arrays : \A i \in DOMAIN s : s[i] >= 0}
Ascending(s) == \A i \in 2 .. Len(s) : s[i - 1] <= s[i]
Sorted == {s \in Arrays : Ascending(s)}

(* The least number of jumps, each of at most s[i] places, to any place. *)
ReachedIn(s, jumps) ==
  LET f[n \in Nat] ==
        IF n = 0 THEN {1}
        ELSE f[n - 1] \cup {q \in DOMAIN s : \E p \in f[n - 1] : q \in p .. p + s[p]}
  IN  f[jumps]
CanReachEnd(s) == Len(s) \in ReachedIn(s, Len(s))

Init ==
  /\ result = NONE
  /\ \/ /\ fn = "merge"
        /\ \E a, b \in Sorted :
             /\ Len(a) + Len(b) <= MaxLen
             /\ args = [nums1 |-> a \o [i \in DOMAIN b |-> 0], m |-> Len(a), nums2 |-> b]
     \/ fn = "remove_element" /\ args \in [s : Arrays, val : Values]
     \/ fn \in {"remove_duplicates", "remove_duplicates_2"} /\ args \in Sorted \ {<<>>}
     \/ fn = "majority_element" /\ args \in Arrays \ {<<>>}
     \/ fn = "rotate" /\ args \in [s : Arrays, k : 0 .. INT_MAX]
     \/ fn \in {"max_profit_1", "max_profit_2", "h_index"} /\ args \in Amounts
     \/ fn \in {"canJump1", "canJump2"} /\ args \in Amounts \ {<<>>}
     \/ fn = "jump" /\ args \in {s \in Amounts \ {<<>>} : CanReachEnd(s)}
     \/ fn = "productExceptSelf" /\ args \in Arrays
     \/ /\ fn = "can_complete_circuit"
        /\ \E g, c \in Amounts : /\ Len(g) = Len(c) /\ Len(g) + Len(c) <= MaxLen + 1
                                 /\ args = [gas |-> g, cost |-> c]

Return ==
  /\ result = NONE
  /\ \/ fn = "merge" /\ result' = Merge(args.nums1, args.m, args.nums2, Len(args.nums2))
     \/ fn = "remove_element" /\ result' = remove_element(args.s, args.val)
     \/ fn = "remove_duplicates" /\ result' = remove_duplicates(args)
     \/ fn = "remove_duplicates_2" /\ result' = remove_duplicates_2(args)
     \/ fn = "majority_element" /\ result' = majority_element(args)
     \/ fn = "rotate" /\ result' = rotate(args.s, args.k)
     \/ fn = "max_profit_1" /\ result' = max_profit_1(args)
     \/ fn = "max_profit_2" /\ result' = max_profit_2(args)
     \/ fn = "canJump1" /\ result' = canJump1(args)
     \/ fn = "canJump2" /\ result' = canJump2(args)
     \/ fn = "jump" /\ result' = jump(args)
     \/ fn = "h_index" /\ result' = h_index(args)
     \/ fn = "productExceptSelf" /\ result' = productExceptSelf(args).result
     \/ fn = "can_complete_circuit" /\ result' = can_complete_circuit(args.gas, args.cost)
  /\ UNCHANGED <<fn, args>>

Ended == result # NONE /\ UNCHANGED vars

Next == Return \/ Ended

Spec == Init /\ [][Next]_vars

-----------------------------------------------------------------------------
(* Properties. *)

Returned(f) == fn = f /\ result # NONE
Occurrences(s, v) == Cardinality({i \in DOMAIN s : s[i] = v})
IsLargest(x, S) == x \in S /\ \A y \in S : y <= x

(* Merging inside nums1 overwrites no element that is still to be merged: the
   result is sorted and holds every element of both as often as they did. *)
MergeCorrect ==
  Returned("merge") =>
    /\ Ascending(result) /\ Len(result) = Len(args.nums1)
    /\ \A v \in Values :
         Occurrences(result, v) =
           Occurrences(SubSeq(args.nums1, 1, args.m), v) + Occurrences(args.nums2, v)

(* The front of the array holds, in order, every element that is not removed: all
   but val, or each element of a sorted array once or at most twice. *)
Kept == SubSeq(result.array, 1, result.num)
AtMost(n) ==
  /\ Ascending(Kept)
  /\ \A v \in Values : Occurrences(Kept, v) = Smaller(n, Occurrences(args, v))
RemovalsCorrect ==
  /\ Returned("remove_element") => Kept = Subsequence(args.s, {i \in DOMAIN args.s : args.s[i] # args.val})
  /\ Returned("remove_duplicates") => AtMost(1)
  /\ Returned("remove_duplicates_2") => AtMost(2)

(* An element that more than half of the array agrees on is the one returned,
   wherever it stands. *)
MajorityFound ==
  Returned("majority_element") =>
    \A v \in Values : 2 * Occurrences(args, v) > Len(args) => result = v

(* The last k elements, counted round the array, come to the front, unless the sum of
   k and an index overflows. *)
RotatedRight ==
  Returned("rotate") /\ args.s # <<>> /\ InRange(Len(args.s) - 1 + args.k) =>
    LET n == Len(args.s)
        k == args.k % n
    IN  result = SubSeq(args.s, n - k + 1, n) \o SubSeq(args.s, 1, n - k)

(* No choice of days earns more: of one purchase and one sale, or, if the best fits into
   an int, of the nights over which to hold. *)
Sales == UNION {{args[j] - args[i] : j \in i + 1 .. Len(args)} : i \in DOMAIN args}
Holdings ==
  {MapThenSumSet(LAMBDA i : args[i] - args[i - 1], nights) : nights \in SUBSET (2 .. Len(args))}
ProfitsBest ==
  /\ Returned("max_profit_1") => IsLargest(result, {0} \cup Sales)
  /\ Returned("max_profit_2") /\ (\A h \in Holdings : InRange(h)) => IsLargest(result, Holdings)

(* Both answers to the jump game are right, and where the end can be reached no
   fewer jumps reach it: as long as the place behind each landing is an int, or, for
   canJump2() and jump(), the landing itself. *)
Landings(d) == \A i \in DOMAIN args : InRange(i + args[i] - d)
JumpsCorrect ==
  /\ Returned("canJump1") /\ Landings(0) => result = CanReachEnd(args)
  /\ Returned("canJump2") /\ Landings(1) => result = CanReachEnd(args)
  /\ Returned("jump") /\ Landings(1) =>
       /\ Len(args) \in ReachedIn(args, result)
       /\ result > 0 => Len(args) \notin ReachedIn(args, result - 1)

(* The h-index is the largest h such that h papers have h citations. *)
HIndexCorrect ==
  Returned("h_index") =>
    IsLargest(result, {h \in 0 .. Len(args) : Cardinality({i \in DOMAIN args : args[i] >= h}) >= h})

(* Each place holds the product of all the others, unless a product overflows on the
   way to it; and none does unless the product of a front or of a back of the
   array, or the result, is out of range.  The last product of each pass, that of the
   whole array, may overflow: nothing uses it. *)
Product(S) == MapThenFoldSet(LAMBDA a, b : a * b, 1, LAMBDA i : args[i],
                             LAMBDA T : CHOOSE i \in T : TRUE, S)
ProductsCorrect ==
  Returned("productExceptSelf") =>
    \A i \in DOMAIN args :
      LET others == Product(DOMAIN args \ {i})
      IN  /\ result[i] \in {NONE, others}
          /\ InRange(others) /\ (\A m \in DOMAIN args :
                                    /\ m # Len(args) => InRange(Product(1 .. m))
                                    /\ m # 1 => InRange(Product(m .. Len(args)))) => result[i] = others
=============================================================================
