----------------------------- MODULE MCLearner -----------------------------
(* A small instance of Learner for TLC.                                     *)
EXTENDS Learner, TLC

Symmetry == Permutations(Processes)
=============================================================================
