---------------------------- MODULE Subsequences ----------------------------
(***************************************************************************)
(* Parts of a sequence, chosen by a set of indices.                        *)
(***************************************************************************)
EXTENDS Naturals, Sequences, FiniteSets

(* The n-th smallest number of S, for 1 <= n <= Cardinality(S). *)
Ranked(S, n) == {i \in S : Cardinality({h \in S : h <= i}) = n}
Nth(S, n) == CHOOSE i \in Ranked(S, n) : TRUE

(* The elements of s at the indices in S, in order. *)
Subsequence(s, S) == [n \in 1 .. Cardinality(S) |-> s[Nth(S, n)]]
=============================================================================
