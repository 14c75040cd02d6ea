------------------------------ MODULE MCDriver ------------------------------
(* Small instances of Driver for TLC.                                       *)
EXTENDS Driver

CONSTANTS p1, p2

TwoProblems == <<p1, p2>>

=============================================================================
