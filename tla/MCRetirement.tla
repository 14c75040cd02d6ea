---------------------------- MODULE MCRetirement ----------------------------
(* A small instance of Retirement for TLC.                                  *)
EXTENDS Retirement, TLC

Symmetry == Permutations(Readers)
=============================================================================
