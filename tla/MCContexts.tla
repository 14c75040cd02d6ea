------------------------------ MODULE MCContexts ------------------------------
(* A small instance of Contexts for TLC.                                     *)
EXTENDS Contexts

CONSTANTS p1, p2, p3

Symmetry == Permutations({p1, p2, p3})
=============================================================================
