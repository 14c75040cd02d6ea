-------------------------------- MODULE Slots --------------------------------
(***************************************************************************)
(* What GpuRuntime promises whoever opens sessions (abstract): at most     *)
(* MaxResident sessions hold a slot, a session holds one until it is freed *)
(* by name, and an identity that was retired is never admitted again,      *)
(* whether its retirement released its slot or is unknown.                 *)
(***************************************************************************)
EXTENDS Naturals, FiniteSets

CONSTANTS Sessions, MaxResident

VARIABLES held,   \* sessions that hold a slot
          gone    \* identities that were retired

Init == held = {} /\ gone = {}

Admissible(s) == s \notin held \cup gone /\ Cardinality(held) < MaxResident

Admit(s) ==
    /\ Admissible(s)
    /\ held' = held \cup {s}
    /\ UNCHANGED gone

Free(s) ==
    /\ s \in held
    /\ held' = held \ {s}
    /\ UNCHANGED gone

Bury(s) ==
    /\ s \in held \ gone
    /\ gone' = gone \cup {s}
    /\ held' \in {held, held \ {s}}

Next == \E s \in Sessions : Admit(s) \/ Free(s) \/ Bury(s)

Spec == Init /\ [][Next]_<<held, gone>>
=============================================================================
