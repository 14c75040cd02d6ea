------------------------------- MODULE Contexts -------------------------------
(***************************************************************************)
(* Frozen thought contexts and recorded actions of the Qwen backend        *)
(* (gpu/gpu_runtime/qwen35_backend.py, with search_objective.py and        *)
(* success_finalize_objective.py for what an event must say).              *)
(*                                                                         *)
(* The backend thinks once about a prompt and keeps the thought for every  *)
(* later policy, value and training call on it.  With strict actions it    *)
(* also keeps what each policy call returned and trains on nothing else.   *)
(* Policy versions count optimizer steps, so they do not tell weights      *)
(* apart once a restore has rewound them: weights are modelled as the      *)
(* sequence of events they were trained on, and the logprob of an action   *)
(* as the weights that gave it.                                            *)
(*                                                                         *)
(* An operation is one work item.  Whatever raises inside a learn or a     *)
(* restore is undone by importing the session's own export.                *)
(***************************************************************************)
EXTENDS Naturals, FiniteSets, SequencesExt

CONSTANTS
    Sessions, Prompts, Tactics,
    Events,        \* search_visit_backup events, by identifier and content
    FinalEvent,    \* the verified_success_discounted_v1 event
    None,          \* absent
    MaxContexts,   \* max_contexts
    MaxBatches,    \* MAX_ACTION_TRACE_BATCHES
    MaxDraws,      \* bound on random transactions of a session
    MaxSaved       \* bound on the exports of a session on disk

\* The values of a session's weights, of a recorded batch and of a context.
Weights == Seq(Events \cup {FinalEvent})
Traces == [made : Weights, actions : SUBSET Tactics]
ContextStates == [made : Weights, traces : Seq(Traces)]

ASSUME ContextsAssumption ==
    /\ FinalEvent \notin Events
    /\ None \notin Weights /\ None \notin ContextStates
    /\ MaxContexts \in Nat \ {0} /\ MaxBatches \in Nat /\ MaxDraws \in Nat /\ MaxSaved \in Nat

VARIABLES
    strict,        \* action_format is strict-single-wrapper-v1
    live,          \* weights, _contexts and committed random transactions
    saved,         \* exported sessions
    lesson         \* what the last step trained on, None when it did not

vars == <<strict, live, saved, lesson>>

\* Weights, one event after the other; each is trained at most once.
Lineages == {w \in SeqOf(Events \cup {FinalEvent}, Cardinality(Events) + 1) :
                \A i, j \in DOMAIN w : w[i] = w[j] => i = j}
Version(w) == Len(w)

Fresh == [weights |-> << >>, contexts |-> [p \in Prompts |-> None], draws |-> 0]

Init ==
    /\ strict \in BOOLEAN
    /\ live = [s \in Sessions |-> None]
    /\ saved = [s \in Sessions |-> {}]
    /\ lesson = None

-----------------------------------------------------------------------------

Known(x) == {p \in Prompts : x.contexts[p] # None}
Recordings(x) == UNION {{p} \X DOMAIN x.contexts[p].traces : p \in Known(x)}
Batches(x) == Cardinality(Recordings(x))

\* The end of an operation that leaves session s as x and trains nothing.
Becomes(s, x) ==
    /\ live' = [live EXCEPT ![s] = x]
    /\ lesson' = None
    /\ UNCHANGED <<strict, saved>>

Create(s) == live[s] = None /\ Becomes(s, Fresh)
Delete(s) == live[s] # None /\ Becomes(s, None)

-----------------------------------------------------------------------------
(* Policy and value.                                                       *)

BelowLimitOffByOne(x) == Cardinality(Known(x)) <= MaxContexts
BelowLimit(x) == Cardinality(Known(x)) < MaxContexts

\* _ensure_context: the sessions it may leave when it returns a context.  A
\* thought that fails, inside its random transaction or after it, leaves none.
Thought(x, p) ==
    [x EXCEPT !.contexts[p] = [made |-> x.weights, traces |-> << >>], !.draws = @ + 1]
Ensured(x, p) ==
    IF p \in Known(x) THEN {x}
    ELSE {y \in {Thought(x, p)} : BelowLimit(x) /\ x.draws < MaxDraws}

Value(s, p) ==
    /\ live[s] # None
    /\ \E x \in Ensured(live[s], p) : Becomes(s, x)

\* A failing thought, or one refused at the limit, where the stream is put back.
ThoughtFailsDrawing(x) == [x EXCEPT !.draws = @ + 1]
ThoughtFails(x) == x

\* The batch commits one transaction, and its trace when actions are strict;
\* an action that cannot be scored is returned empty and not recorded.
Batch(x, p, actions) ==
    IF strict
    THEN [x EXCEPT !.draws = @ + 1, !.contexts[p].traces =
            Append(@, [made |-> x.weights, actions |-> actions])]
    ELSE [x EXCEPT !.draws = @ + 1]

HasRoom(x) == strict => Batches(x) < MaxBatches

Policy(s, p) ==
    /\ live[s] # None
    /\ \E x \in Ensured(live[s], p), actions \in SUBSET Tactics :
        /\ HasRoom(x) /\ x.draws < MaxDraws
        /\ Becomes(s, Batch(x, p, actions))

\* The thought was kept, the batch refused at its limit or failed.
PolicyFails(s, p) ==
    /\ live[s] # None
    /\ \E x \in Ensured(live[s], p) \cup {ThoughtFails(live[s])} : Becomes(s, x)

-----------------------------------------------------------------------------
(* Learn.                                                                  *)

\* _require_recorded_action; a logprob of None is not compared.
RecordedByVersion(context, tactic, version, logprob) ==
    strict => \E i \in DOMAIN context.traces :
        LET trace == context.traces[i]
        IN  Version(trace.made) = version /\ tactic \in trace.actions
Recorded(context, tactic, version, logprob) ==
    strict => \E i \in DOMAIN context.traces :
        LET trace == context.traces[i]
        IN  /\ Version(trace.made) = version /\ tactic \in trace.actions
            /\ logprob # None => trace.made = logprob

Trains(s, e) ==
    live' = [live EXCEPT ![s].weights = Append(@, e), ![s].draws = @ + 1]

\* A search event: one prompt, and for each tactic the weights it was sampled
\* with; versions are what the event says of them.
Candidates == UNION {[T -> Lineages] : T \in SUBSET Tactics \ {{}}}

MayLearn(x, p, e, rows) ==
    /\ e \notin Range(x.weights) /\ x.draws < MaxDraws
    /\ p \in Known(x)
    /\ \A t \in DOMAIN rows :
        /\ Version(rows[t]) >= Version(x.contexts[p].made)
        /\ Version(rows[t]) <= Version(x.weights)
        /\ Recorded(x.contexts[p], t, Version(rows[t]), rows[t])

Learn(s, p, e, rows) ==
    /\ live[s] # None /\ MayLearn(live[s], p, e, rows)
    /\ Trains(s, e)
    /\ lesson' = [at |-> live[s].weights, rows |-> rows]
    /\ UNCHANGED <<strict, saved>>

\* The final event: rows of a finished proof, by prompt, tactic and version.
MayFinish(x, rows) ==
    /\ FinalEvent \notin Range(x.weights) /\ x.draws < MaxDraws
    /\ \A r \in rows :
        /\ r.version <= Version(x.weights)
        /\ r.prompt \in Known(x)
        /\ r.version >= Version(x.contexts[r.prompt].made)
        /\ Recorded(x.contexts[r.prompt], r.tactic, r.version, None)

LearnSuccess(s, rows) ==
    /\ live[s] # None /\ MayFinish(live[s], rows)
    /\ Trains(s, FinalEvent)
    /\ lesson' = None
    /\ UNCHANGED <<strict, saved>>

-----------------------------------------------------------------------------
(* Export and import.                                                      *)

\* _validate_contexts and _validate_action_traces.
Importable(x) ==
    /\ Cardinality(Known(x)) <= MaxContexts /\ Batches(x) <= MaxBatches
    /\ \A p \in Known(x) :
        LET context == x.contexts[p]
        IN  /\ Version(context.made) <= Version(x.weights)
            /\ ~strict => context.traces = << >>
            /\ \A i \in DOMAIN context.traces :
                Version(context.made) <= Version(context.traces[i].made)
                /\ Version(context.traces[i].made) <= Version(x.weights)

Save(s) ==
    /\ live[s] # None /\ Cardinality(saved[s]) < MaxSaved
    /\ saved' = [saved EXCEPT ![s] = @ \cup {live[s]}]
    /\ lesson' = None
    /\ UNCHANGED <<strict, live>>

ImportedWeightsOnly(x, image) == [image EXCEPT !.contexts = x.contexts]
Imported(x, image) == image

Restore(s) ==
    /\ live[s] # None
    /\ \E image \in saved[s] : Importable(image) /\ Becomes(s, Imported(live[s], image))

-----------------------------------------------------------------------------

FinalRows == {R \in SUBSET [prompt : Prompts, tactic : Tactics, version : 0..Cardinality(Events)] :
                Cardinality(R) = 1}

Next == \E s \in Sessions :
    \/ Create(s) \/ Delete(s) \/ Save(s) \/ Restore(s)
    \/ \E p \in Prompts : Value(s, p) \/ Policy(s, p) \/ PolicyFails(s, p)
    \/ \E p \in Prompts, e \in Events, rows \in Candidates : Learn(s, p, e, rows)
    \/ \E rows \in FinalRows : LearnSuccess(s, rows)

Spec == Init /\ [][Next]_vars

-----------------------------------------------------------------------------
(* Properties.                                                             *)

\* Every context was thought, and every recorded action returned, by weights the
\* session's weights descend from, in this order (qwen35_backend.py:228-268,
\* 568-571): also after restores, and in every export.
DescendsFrom(x) ==
    \A p \in Known(x) :
        LET context == x.contexts[p]
        IN  /\ IsPrefix(context.made, x.weights)
            /\ \A i \in DOMAIN context.traces :
                /\ IsPrefix(context.made, context.traces[i].made)
                /\ IsPrefix(context.traces[i].made, x.weights)
ContextsAreLineage == \A s \in Sessions :
    /\ live[s] # None => DescendsFrom(live[s])
    /\ \A image \in saved[s] : DescendsFrom(image)

\* With strict actions an accepted search event holds only actions that weights
\* the trained ones descend from gave that very logprob, whatever other session
\* states had the same version numbers before a restore (qwen35_backend.py:450-476).
TrainedOnRecorded ==
    strict /\ lesson # None => \A t \in DOMAIN lesson.rows : IsPrefix(lesson.rows[t], lesson.at)

\* A session can always be imported from its own export, so that no rollback is
\* refused for its contexts (qwen35_backend.py:500-571, runtime.py:128-136).
ExportedIsImportable == \A s \in Sessions : live[s] # None => Importable(live[s])

\* With strict actions the stream of a session has moved exactly once for every
\* context, batch and update it holds: a failed call consumes nothing and a
\* restore takes the stream back with the rest (qwen35_backend.py:241-268, 418-447).
StreamIsAccounted == strict => \A s \in Sessions : live[s] # None =>
    live[s].draws = Cardinality(Known(live[s])) + Batches(live[s]) + Version(live[s].weights)

=============================================================================
