------------------------------- MODULE MCMcts -------------------------------
(* Small instances of Mcts for TLC: every proof system on two goals and two *)
(* tactics in which one tactic may split, repeat or close the first goal.   *)
EXTENDS Mcts

CONSTANTS a, b, s, t

SmallSystems ==
    {r \in [{a, b} \X {s, t} -> {Fails, << >>, <<b>>, <<a, b>>, <<b, a>>, <<b, b>>}] :
        /\ r[a, s] \in {<<a, b>>, <<b, b>>, <<b>>}
        /\ r[a, t] \in {Fails, << >>, <<b>>, <<b, a>>}
        /\ r[b, s] \in {Fails, << >>}
        /\ r[b, t] \in {<< >>, <<a, b>>}}

OneGoal == {<<a>>}
=============================================================================
