-------------------------------- MODULE Mcts --------------------------------
(***************************************************************************)
(* The AND/OR tree search of the Lean tactic                               *)
(* (cpulean/Reap/TreeSearch/MCTS.lean, Tactic/TreeSearch.lean).            *)
(*                                                                         *)
(* A proof state is a sequence of goals, and its key is the state itself.  *)
(* A proof system says what each tactic makes of a goal; the policy offers *)
(* any tactics in any order, and any of them may fail all the same,        *)
(* because an evaluation has a wall-clock timeout.  Priors, values and     *)
(* visit counts steer which child is taken next; here any child may be,    *)
(* except where the code's score rules it out.                             *)
(*                                                                         *)
(* reapMCTSStep recurses into one child and updates every node on the way  *)
(* back.  The recursion is the variable path: Descend goes down a level,   *)
(* Visit, Try and Refresh expand the node at its end, BackUp returns.      *)
(***************************************************************************)
EXTENDS Naturals, Sequences, FiniteSets

CONSTANTS
    Goals, Tactics,
    OpenGoals,    \* goals that may contain metavariables
    Systems,      \* the proof systems considered: [Goals \X Tactics -> outcome]
    Starts,       \* proof states a search may start from
    Fails,        \* the outcome of a tactic that does not apply
    MaxNodes,     \* reap.max_goals
    MaxSteps,     \* reap.max_steps
    MaxOffered    \* bound on the tactics of one policy answer

ASSUME MctsAssumption ==
    /\ MaxNodes \in Nat /\ MaxSteps \in Nat \ {0} /\ MaxOffered \in Nat
    /\ Starts \subseteq Seq(Goals) \ {<< >>}
    /\ \A r \in Systems : \A g \in Goals, t \in Tactics : r[<<g, t>>] \in {Fails} \cup Seq(Goals)

VARIABLES
    rules,        \* the proof system of this search
    open,         \* its goals with metavariables
    nodes,        \* the array of nodes; the root comes first
    path,         \* nodes from the root to the one being worked on
    phase,        \* what happens to the last node of path
    offered,      \* tactics of the policy still to be tried
    step,         \* completed search steps
    verdict       \* "none", "solved" or "exhausted"

vars == <<rules, open, nodes, path, phase, offered, step, verdict>>

\* NodeData.fromState.
Leaf(state, kind) ==
    [state |-> state, kind |-> kind, solved |-> state = << >>, children |-> << >>]

Init ==
    /\ rules \in Systems /\ open \in SUBSET OpenGoals
    /\ \E state \in Starts : nodes = <<Leaf(state, "or")>>
    /\ path = <<1>> /\ phase = "select" /\ offered = << >>
    /\ step = 0 /\ verdict = "none"

Here == path[Len(path)]
Children(ns, i) == {ns[i].children[k].child : k \in DOMAIN ns[i].children}

NodeSolvedByAny(ns, i) ==
    ns[i].solved \/ \E c \in Children(ns, i) : ns[c].solved

\* nodeSolved: an OR node by one child, an AND node by all of them.
NodeSolved(ns, i) ==
    \/ ns[i].solved
    \/ ns[i].kind = "or" /\ \E c \in Children(ns, i) : ns[c].solved
    \/ ns[i].kind = "and" /\ ns[i].children # << >> /\ \A c \in Children(ns, i) : ns[c].solved

\* refreshNodeSolved, and the flag that updateNode computes.
Refreshed(ns, i) == [ns EXCEPT ![i].solved = NodeSolved(ns, i)]

-----------------------------------------------------------------------------
(* Selection                                                               *)

\* selectChild: an OR node may take any child; the score of a solved child of
\* an AND node is never above the initial one.
Selectable(i, k) ==
    nodes[i].kind = "and" => ~nodes[nodes[i].children[k].child].solved

Descend ==
    /\ phase = "select"
    /\ \E k \in DOMAIN nodes[Here].children :
          /\ Selectable(Here, k)
          /\ path' = Append(path, nodes[Here].children[k].child)
    /\ UNCHANGED <<rules, open, nodes, phase, offered, step, verdict>>

\* visitNode on an OR node: a leaf, or one that progressive sampling expands
\* again.  An AND node is expanded when it is made, and all its children being
\* solved, which would stop the descent there, solves its ancestors first.
Visit ==
    /\ phase = "select" /\ nodes[Here].kind = "or"
    /\ \E n \in 0..MaxOffered : offered' \in [1..n -> Tactics]
    /\ nodes[Here].state = << >> => offered' = << >>
    /\ phase' = "expand"
    /\ UNCHANGED <<rules, open, nodes, path, step, verdict>>

-----------------------------------------------------------------------------
(* Expansion                                                               *)

\* A tactic works on the first goal.
Apply(state, t) ==
    LET subgoals == rules[<<state[1], t>>] IN
    IF subgoals = Fails THEN Fails ELSE subgoals \o Tail(state)

\* childKindAfterTactic: independent goals become an AND node.
ChildKind(state) ==
    IF Len(state) > 1 /\ \A k \in DOMAIN state : state[k] \notin open THEN "and" ELSE "or"

AncestorKeys == {nodes[path[k]].state : k \in DOMAIN path}

\* Children the new one would repeat.
Duplicates(i, t, state) ==
    {k \in DOMAIN nodes[i].children :
        nodes[i].children[k].by = t \/ nodes[nodes[i].children[k].child].state = state}

\* updateDuplicateChild, and the flag of the node itself.
Merged(i, k, state) ==
    LET c == nodes[i].children[k].child IN
    [nodes EXCEPT ![c].solved = @ \/ state = << >>,
                  ![i].solved = @ \/ nodes[c].solved \/ state = << >>]

\* pushChildT; an AND child gets one child per goal at once (pushFocusChildren).
Pushed(i, t, state) ==
    LET c      == Len(nodes) + 1
        goals  == IF ChildKind(state) = "and" THEN state ELSE << >>
        child  == [Leaf(state, ChildKind(state)) EXCEPT
                      !.children = [k \in DOMAIN goals |-> [by |-> "focus", child |-> c + k]]]
        parent == [nodes EXCEPT ![i].children = Append(@, [by |-> t, child |-> c])]
    IN Append(parent, child) \o [k \in DOMAIN goals |-> Leaf(<<goals[k]>>, "or")]

\* One tactic of the policy: it fails, leads back to an ancestor, repeats a
\* child, or makes a new one.
TryFails == UNCHANGED nodes

TrySucceeds(t) ==
    LET state == Apply(nodes[Here].state, t)
        dups  == Duplicates(Here, t, state)
    IN  /\ state # Fails
        /\ state \notin AncestorKeys
        /\ IF dups = {}
           THEN nodes' = Pushed(Here, t, state)
           ELSE nodes' = Merged(Here, CHOOSE k \in dups : \A j \in dups : k <= j, state)

Try ==
    /\ phase = "expand" /\ offered # << >>
    /\ TryFails \/ TrySucceeds(offered[1])
    /\ offered' = Tail(offered)
    /\ UNCHANGED <<rules, open, path, phase, step, verdict>>

\* visitNode ends by recomputing the node's own flag.
Refresh ==
    /\ phase = "expand" /\ offered = << >>
    /\ nodes' = Refreshed(nodes, Here)
    /\ phase' = "back"
    /\ UNCHANGED <<rules, open, path, offered, step, verdict>>

-----------------------------------------------------------------------------
(* The way back, and the loop of monteCarloTreeSearch                      *)

BackUpWithoutFlag ==
    /\ phase = "back" /\ Len(path) > 1
    /\ path' = SubSeq(path, 1, Len(path) - 1)
    /\ UNCHANGED <<rules, open, nodes, phase, offered, step, verdict>>

\* updateEdge and updateNode in the caller of the recursion.
BackUp ==
    /\ phase = "back" /\ Len(path) > 1
    /\ path' = SubSeq(path, 1, Len(path) - 1)
    /\ nodes' = Refreshed(nodes, path[Len(path) - 1])
    /\ UNCHANGED <<rules, open, phase, offered, step, verdict>>

WithinBudget(n, s) == n <= MaxNodes /\ s < MaxSteps

EndStepUncounted ==
    /\ phase = "back" /\ Len(path) = 1
    /\ IF nodes[1].solved
       THEN verdict' = "solved" /\ phase' = "ended" /\ UNCHANGED step
       ELSE /\ step' = IF nodes[1].children = << >> THEN step ELSE step + 1
            /\ IF WithinBudget(Len(nodes), step')
               THEN phase' = "select" /\ UNCHANGED verdict
               ELSE phase' = "ended" /\ verdict' = "exhausted"
    /\ UNCHANGED <<rules, open, nodes, path, offered>>

EndStep ==
    /\ phase = "back" /\ Len(path) = 1
    /\ IF nodes[1].solved
       THEN verdict' = "solved" /\ phase' = "ended" /\ UNCHANGED step
       ELSE /\ step' = step + 1
            /\ IF WithinBudget(Len(nodes), step + 1)
               THEN phase' = "select" /\ UNCHANGED verdict
               ELSE phase' = "ended" /\ verdict' = "exhausted"
    /\ UNCHANGED <<rules, open, nodes, path, offered>>

Next == Descend \/ Visit \/ Try \/ Refresh \/ BackUp \/ EndStep

Ended == phase = "ended" /\ UNCHANGED vars

\* The tactic is one thread that runs until it returns.
Spec == Init /\ [][Next \/ Ended]_vars /\ WF_vars(Next)

-----------------------------------------------------------------------------
(* What the solution is used for                                           *)

\* solvedOrChild?: the first solved child, if there is one.
SolvedChildren(i) ==
    {k \in DOMAIN nodes[i].children : nodes[nodes[i].children[k].child].solved}
FirstSolved(i) == CHOOSE k \in SolvedChildren(i) : \A j \in SolvedChildren(i) : k <= j

\* replaySolvedNode, of a node whose goals are the state it was made for: it
\* follows tactics through OR nodes and takes the goals of an AND node in turn.
\* A child comes after its parent in the array.
Replays[i \in 1..Len(nodes)] ==
    IF nodes[i].kind = "or"
    THEN \/ nodes[i].state = << >>
         \/ /\ SolvedChildren(i) # {}
            /\ LET edge == nodes[i].children[FirstSolved(i)] IN
               /\ Apply(nodes[i].state, edge.by) = nodes[edge.child].state
               /\ Replays[edge.child]
    ELSE \A k \in DOMAIN nodes[i].children :
            LET c == nodes[i].children[k].child IN
            /\ nodes[c].solved
            /\ nodes[c].state = <<nodes[i].state[k]>>
            /\ Replays[c]

-----------------------------------------------------------------------------
(* Properties                                                              *)

\* A solved node has a proof the replay finds: every flag, on whatever path it was
\* set, merged or recomputed, is backed by tactics (TreeSearch.lean:560-582).
SolvedReplays == \A i \in DOMAIN nodes : nodes[i].solved => Replays[i]

\* Between search steps no flag lags behind: a node is flagged as soon as its
\* children solve it, all the way to the root (TreeSearch.lean:202-205, 410-416).
FlagsAgree ==
    phase \in {"select", "ended"} => \A i \in DOMAIN nodes : nodes[i].solved = NodeSolved(nodes, i)

\* Every search ends, with a proof or out of budget.
SearchEnds == <>(verdict # "none")
=============================================================================
