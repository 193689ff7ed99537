----------------------------- MODULE MCNameIndex ----------------------------
(* Names for the run of NameIndex: two short ones, which share a block, and a  *)
(* long one, all in one chain; the other chain is empty.                       *)
EXTENDS NameIndex, TLC

CONSTANTS p1, p2, p3, ann, bob, christopher

Symmetry == Permutations(Writers)

AllInFirst == [n \in Names |-> 1]
ByLength == [n \in Names |-> IF n = christopher THEN 2 ELSE 1]
=============================================================================
