---------------------------- MODULE MCContinual ----------------------------
(* A small instance of Continual for TLC.                                   *)
EXTENDS Continual, TLC

FourToOne == [replay |-> 4, mathlib_sft |-> 1]
SmallCatalogs == {<<2, 1>>}
SmallAdditions == {<<1, 2>>}

Symmetry == Permutations(Processes)
=============================================================================
