------------------------------ MODULE Continual ------------------------------
(***************************************************************************)
(* What the coordinators of a continual mixed run train on                 *)
(* (gpu/gpu_runtime/continual_mixed_learner.py, continual_mixed_store.py,  *)
(* on learner.py).                                                         *)
(*                                                                         *)
(* Module Learner says which updates a run makes, module Sampler which     *)
(* rows a step draws.  Between them stand the catalog and the sampler      *)
(* state: a coordinator has them in memory, a checkpoint has them in its   *)
(* data receipt, and a restore takes them from there.  Here every action   *)
(* of Learner also does to them what the code does, and the run on disk is *)
(* one behaviour of Sampler, whatever crashes and whoever restores it.     *)
(*                                                                         *)
(* A receipt is the catalog and the sampler state after a step, and the    *)
(* rows of its batch.                                                      *)
(***************************************************************************)
EXTENDS Learner

CONSTANTS Sources, Growing, Count, Hashes, Catalogs, Additions, MaxInteger, MaxRows

VARIABLES
    run,         \* the run record: seed catalog, hashes of the sampler seed
    sampler,     \* what each coordinator remembers of the last step
    prepared,    \* what its train_next has prepared, a local variable
    receipts     \* the receipt in each checkpoint

samplerVars   == <<run, sampler, prepared, receipts>>
continualVars == <<vars, samplerVars>>

\* The receipt of a checkpoint; before the first step, what the run record says.
Seed == [catalog |-> run.catalog,
         state   |-> [step |-> 0, cursor |-> [s \in Sources |-> 0]],
         batch   |-> [s \in Sources |-> << >>]]

Latest(k) == IF k = << >> THEN Seed ELSE receipts[k]

\* The run on disk as a sampler: the receipt of its last whole commit.
Schedule == INSTANCE Sampler WITH
    catalog <- Latest(History).catalog, hash <- run.hash,
    state <- Latest(History).state, batch <- Latest(History).batch

ASSUME ContinualAssumption == Schedule!SamplerConstants

RunRecords == [catalog : [Sources -> Catalogs], hash : [Sources -> Hashes]]

ContinualInit ==
    /\ Init
    /\ run \in RunRecords
    /\ sampler = [c \in Processes |-> Seed]
    /\ prepared = [c \in Processes |-> Seed]
    /\ receipts = << >>

-----------------------------------------------------------------------------
(* sampling_transition                                                     *)

SamplingTransitionOfOld(before, added) ==
    [catalog |-> Schedule!Enlarged(before.catalog, added),
     state   |-> Schedule!Advanced(before.state),
     batch   |-> Schedule!Drawn(before.catalog, run.hash, before.state)]

SamplingTransition(before, added) ==
    LET rows == Schedule!Enlarged(before.catalog, added)
    IN  [catalog |-> rows,
         state   |-> Schedule!Advanced(before.state),
         batch   |-> Schedule!Drawn(rows, run.hash, before.state)]

\* receipt is that of a step of the sampler after the step of before.
Follows(before, receipt) ==
    \E added \in Additions \cup {<< >>} :
        /\ Schedule!Admissible(before.catalog, added, before.state)
        /\ receipt = SamplingTransition(before, added)

-----------------------------------------------------------------------------
(* The operations of Learner, with what they do to the sampler             *)

\* The local variables of train_next are gone when it returns or raises.
Working(p) == p \in {"intended", "trained", "saved"}
Returns(c) ==
    prepared' = IF Working(phase'[c]) THEN prepared ELSE [prepared EXCEPT ![c] = Seed]

BeginsWithSeed(c) ==
    /\ StartRun(c) \/ Restore(c)
    /\ sampler' = IF phase'[c] = "idle"
                  THEN [sampler EXCEPT ![c] = [Latest(parent'[c]) EXCEPT !.catalog = run.catalog]]
                  ELSE sampler
    /\ UNCHANGED <<run, prepared, receipts>>

\* A start takes the run record, a restore the receipt of its checkpoint.
Begins(c) ==
    /\ StartRun(c) \/ Restore(c)
    /\ sampler' = IF phase'[c] = "idle" THEN [sampler EXCEPT ![c] = Latest(parent'[c])] ELSE sampler
    /\ UNCHANGED <<run, prepared, receipts>>

Ends(c) ==
    /\ Close(c) \/ Crash(c)
    /\ sampler' = [sampler EXCEPT ![c] = Seed]
    /\ Returns(c)
    /\ UNCHANGED <<run, receipts>>

\* _prepare_next comes before the intent; when it refuses, nothing has happened.
Prepares(c) ==
    /\ TrainIntent(c)
    /\ \E added \in Additions \cup {<< >>} :
          /\ Schedule!Admissible(sampler[c].catalog, added, sampler[c].state)
          /\ prepared' = IF phase'[c] = "intended"
                         THEN [prepared EXCEPT ![c] = SamplingTransition(sampler[c], added)]
                         ELSE prepared
    /\ UNCHANGED <<run, sampler, receipts>>

Learns(c) == TrainLearn(c) /\ Returns(c) /\ UNCHANGED <<run, sampler, receipts>>

\* _validate_training_batch computes the step again from the parent's receipt and
\* stores nothing else.
Saves(c) ==
    /\ TrainSave(c)
    /\ session[c] \in checkpoints' => Follows(Latest(parent[c]), prepared[c])
    /\ receipts' = [k \in checkpoints' |-> IF k \in checkpoints THEN receipts[k] ELSE prepared[c]]
    /\ Returns(c)
    /\ UNCHANGED <<run, sampler>>

Commits(c) ==
    /\ TrainCommit(c)
    /\ sampler' = IF phase'[c] = "idle" THEN [sampler EXCEPT ![c] = prepared[c]] ELSE sampler
    /\ Returns(c)
    /\ UNCHANGED <<run, receipts>>

\* Publishing and the other clients of the runtime know nothing of the sampler.
Others ==
    \/ \E c \in Processes :
          \/ Meddle(c)
          \/ EnableHead(c) \/ Announce(c) \/ Release(c) \/ Confirm(c) \/ PublishPlain(c)
    \/ PublishHistorical
    \/ Reconcile

ContinualNext ==
    \/ \E c \in Processes :
          Begins(c) \/ Ends(c) \/ Prepares(c) \/ Learns(c) \/ Saves(c) \/ Commits(c)
    \/ Others /\ UNCHANGED samplerVars

ContinualSpec == ContinualInit /\ [][ContinualNext]_continualVars

-----------------------------------------------------------------------------
(* Properties                                                              *)

\* The batch of a step under way is the one its checkpoint will be checked
\* against: a step whose intent is durable is never refused for its rows, which
\* would leave the run without a successor for ever (continual_mixed_store.py:100-112,
\* learner.py:217-228).
NoStepIsRefused ==
    \A c \in Processes :
        phase[c] \in {"intended", "trained"} => Follows(Latest(parent[c]), prepared[c])

\* The commits of a run, in order, are steps of the sampler from its seed catalog:
\* no crash, restore or takeover skips a row, draws one twice or loses what was
\* appended to the catalog (continual_mixed_learner.py:44-65, learner.py:366-369).
ImplementsSampler == Schedule!Spec

\* The rows the last commit says it trained on are the next rows of each source
\* from its committed cursors, in the catalog as it was appended to by then
\* (mixed_objective.py:235-246).
DrawsNextRows == Schedule!BatchIsNextRows
=============================================================================
