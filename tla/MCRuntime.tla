------------------------------ MODULE MCRuntime ------------------------------
(* Small instances of Runtime for TLC.                                      *)
EXTENDS Runtime, TLC

CONSTANTS s1, s2, r1

\* The one release was made from session s1.
NoLearner  == <<>>
LearnerIs1 == [r \in {r1} |-> s1]

=============================================================================
