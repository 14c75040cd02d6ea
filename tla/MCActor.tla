------------------------------- MODULE MCActor -------------------------------
(* A small instance of Actor for TLC.                                       *)
EXTENDS Actor, TLC

=============================================================================
