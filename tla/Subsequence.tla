---------------------------- MODULE Subsequence -----------------------------
(* What a sequence keeps when some of its elements are left out.            *)
EXTENDS Integers, Sequences, FiniteSets, Functions

(* The elements of s at the positions I, in their order. *)
Selected(s, I) ==
  [k \in 1..Cardinality(I) |-> s[CHOOSE i \in I : Cardinality({j \in I : j <= i}) = k]]

(* s without its elements that are in gone. *)
Without(s, gone) == Selected(s, {i \in DOMAIN s : s[i] \notin gone})

=============================================================================
