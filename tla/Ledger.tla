------------------------------- MODULE Ledger -------------------------------
(***************************************************************************)
(* What a learner run promises, whatever crashes: a history of updates     *)
(* that only grows, one update at a time, and, once the run tracks its     *)
(* releases, a published prefix that follows at most one update behind     *)
(* (gpu/gpu_runtime/learner.py:1-6, release_head.py:1-6, 72-75).           *)
(***************************************************************************)
EXTENDS Naturals, Sequences

CONSTANT Updates    \* identifiers of updates

VARIABLES
    trained,        \* the committed updates, in order
    tracked,        \* releases are tracked: one per committed step
    published       \* how many of the committed updates are published

vars == <<trained, tracked, published>>

Init == trained = << >> /\ tracked = FALSE /\ published = 0

\* "release head must be explicitly enabled before first training commit"
Track ==
    /\ ~tracked /\ trained = << >>
    /\ tracked' = TRUE
    /\ UNCHANGED <<trained, published>>

\* "unpublished/unknown commit blocks new training"
Train ==
    /\ tracked => published = Len(trained)
    /\ \E u \in Updates : trained' = Append(trained, u)
    /\ UNCHANGED <<tracked, published>>

Publish ==
    /\ tracked /\ published < Len(trained)
    /\ published' = published + 1
    /\ UNCHANGED <<trained, tracked>>

Next == Track \/ Train \/ Publish

Spec == Init /\ [][Next]_vars
=============================================================================
