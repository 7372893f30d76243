---------------------------- MODULE Subsequences ----------------------------
(***************************************************************************)
(* What is left of a sequence, in its order: SelectSeq by the positions of *)
(* the entries.  It is not recursive, so that theorems can be proved about *)
(* the modules that use it.                                                *)
(***************************************************************************)
EXTENDS Integers, Sequences, FiniteSets

\* The place of i among the numbers I.
Rank(I, i) == Cardinality({j \in I : j <= i})

\* The entries of s at the positions I.
Kept(s, I) == [k \in 1..Cardinality(I) |-> s[CHOOSE i \in I : Rank(I, i) = k]]
=============================================================================
