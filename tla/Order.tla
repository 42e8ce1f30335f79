------------------------------- MODULE Order -------------------------------
(* The order of a LevelDB iterator: the keys of a range, the least first.    *)
(* It is defined by counting, so that it can be reasoned about.              *)
EXTENDS Integers, Sequences, FiniteSets

(* The place of x among the numbers of S.                                    *)
Rank(S, x) == Cardinality({y \in S : y < x}) + 1

(* The numbers of S in ascending order.                                      *)
Sorted(S) == [i \in 1..Cardinality(S) |-> CHOOSE x \in S : Rank(S, x) = i]

(* What a sequence has at the given places, in the order of the sequence.    *)
Extract(seq, places) == [i \in 1..Cardinality(places) |-> seq[Sorted(places)[i]]]
=============================================================================
