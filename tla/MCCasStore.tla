----------------------------- MODULE MCCasStore -----------------------------
(* A small instance of CasStore for TLC.                                    *)
EXTENDS CasStore, TLC

Symmetry == Permutations(Writers) \cup Permutations(Files)
=============================================================================
