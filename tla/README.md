# Verification of v1-1-agentic-tool

Formal models of the program in this repository: a Lean tactic that searches for
proofs with a neural policy, a GPU runtime that serves and trains one adapter per
proof session, a learner that trains across proofs and publishes releases, and a
small driver. The models are written in TLA+, checked on small instances by TLC
and, where a theorem is listed below, proved for every instance by TLAPS.

    tlc -config RuntimeCapacity.cfg MCRuntime     # one run of the table below
    tlapm RuntimeProofs.tla                       # one module of proofs

`PROJECT.json` lists the runs, the properties each one checks, the mutation of a
mapped definition that breaks each property, the source lines every definition
stands for, the hazards and the findings.

## 1. Inventory

Paths are relative to `src/`; `gpu/` stands for `gpu/gpu_runtime/`.

| component | state it keeps | operations | hard behaviour |
|---|---|---|---|
| **GpuActor** (`gpu/actor.py`) | FIFO queue, closed flag, metrics | `submit`, `_run`, `close`, `metrics` | concurrent submits and closes, the shutdown sentinel, recursion |
| **GpuRuntime** (`gpu/runtime.py`, `session_store.py`) | logical sessions, resident and quarantined sets, tombstones, reuse revisions and witnesses | create, delete, retire, policy, value, learn, snapshot, publish, restore, inspect | every backend or disk call may fail half way; rollback; capacity |
| **retirement protocol** (`gpu/runtime.py`) | snapshot, `prepared.json`, `released.json` | `retire_session`, `retirement_receipt` | power loss, readers that bypass the queue |
| **SnapshotStore, ExperienceStore** | immutable directories | create, load, verify_for_reuse, publish | atomic publication, what is synced when |
| **tensor backends** (`gpu/real_backend.py`, `search_`, `verified_`, `categorical_search_`, `success_finalize_`, `mixed_backend.py`; `toy_backend.py`) | adapters, value heads, optimizers, private RNG streams; one model with its mode, cache, active adapter, gradients and the process-wide RNG | create, delete, policy, value, learn, export, import | an optimizer step that fails after some tensors; allocation left behind; shared state a failed call must put back; chunked scoring |
| **Qwen backend** (`gpu/qwen35_backend.py`, with `search_objective.py`, `success_finalize_objective.py`) | frozen thoughts per prompt, recorded strict actions | the same, on frozen thoughts | versions that a restore makes ambiguous; limits without eviction; a stream put back on failure |
| **HTTP server** (`gpu/server.py`, `schemas.py`) | none | routes requests to the runtime from one thread each | GET of a receipt does not queue |
| **LearnerCoordinator** (`gpu/learner.py`, `mixed_learner.py`, `continual_mixed_learner.py`) | current run, checkpoint, intents, writer lease; catalog and sampler state in memory | configure, train_next, publish, restore, close | crash between update, checkpoint, release and head; two writers |
| **release head** (`gpu/release_head.py`) | chain of publication records | enable, publish, reconcile, available_head | an uncertain publication, reconciled later |
| **learner release stores** (`gpu/learner_release_store.py`, `mixed_learner_store.py`, `continual_mixed_store.py`) | content-addressed packages | create_run, create_checkpoint, publish, load | commit by copy, sync and rename; a second writer |
| **objectives and samplers** (`gpu/mixed_objective.py`, `verified_objective.py`, ...) | sampler cursor | `next_mixed_batch`, losses | cyclic cursor, pool that grows |
| **Lean tree search** (`cpulean/Reap/TreeSearch`, `Tactic/TreeSearch.lean`) | search tree with duplicate edges, visit counts, solved flags | select, expand, merge, backpropagate, replay | solved flags through shared nodes, budgets |
| **Lean front end** (`Tactic/Step.lean`, `Generator.lean`, `Syntax.lean`, ...) | proof state of one step | parse, elaborate, call the server | failed calls |
| **driver and smoke** (`driver/`, `smoke/`) | last session id | session, policy, value, retire | what it leaves behind on the server; names made of seconds |

How they interact: HTTP threads call GpuRuntime; every operation except
`retirement_receipt` and `metrics` becomes one item of the GpuActor, whose only
thread is the only one to touch the backend and the logical sessions. GpuRuntime
calls the backend and the two disk stores inside an item. The learner runs in a
process of its own against a runtime of its own and hands releases over through
the release store; a runtime initialises `learner` and `actor` sessions from
them. The Lean tactic and the driver are HTTP clients.

What makes each component correct:

- GpuActor: every accepted request is answered, in order, one at a time; every
  close returns, and only after the work accepted before it.
- GpuRuntime: what the GPU holds never exceeds the capacity; a session that is
  served has parameters, optimizer and receipts that describe the same training;
  a session that cannot be put back is never served again; a reused snapshot is
  the live state; a released session is gone; identity and certification last as
  long as the session.
- Backends: a call returns the shared model as it found it; the parts of a session
  tell one history; a failed call changes nothing; a score belongs to its token.
- Qwen contexts: thoughts and recorded actions come from the history of the weights
  that are trained, and whatever was exported can be imported.
- Retirement: live parameters are deleted only when a crash cannot take their
  saved copy; what a receipt reader reports is true, and an acknowledged release
  stays readable.
- Learner, head and stores: an update is trained once and published at most
  once, whatever the crash; the head only moves along certified releases; a
  package is there whole or not at all; rows are drawn in order, none skipped or
  repeated, by whichever coordinator runs.
- Search: a solved flag has a proof script behind it, every ancestor that can be
  solved is, and the search ends.
- Driver: what it has retired holds nothing on the server any more.

## 2. Plan

| order | module | what it covers | state |
|---|---|---|---|
| 1 | `Runtime` | session operations with all their failures | done |
| 2 | `Actor`, refining `Service` | the queue, its shutdown and its liveness | done |
| 3 | `Retirement` | the inside of one retirement: crash, receipt readers | done |
| 4 | `RuntimeProofs` | types, capacity; agreement, witness, quarantine, identity; the refinement of `Slots` | done |
| 5 | `ActorProofs`, `RetirementProofs` | metrics, sentinel, drain, the steps of the refinement; crash safety | done |
| 6 | `Learner`, refining `Ledger` | coordinator, head, lease, crash, restore, offline tools | done |
| 7 | `CasStore`, `CasStoreProofs` | commit of one package, concurrent writers, power loss | done |
| 8 | `Mcts` | solved propagation, duplicate merging, budgets, replay | done |
| 9 | `Sampler` | cursors and catalogs of the continual mixed sampler | done |
| 10 | `Device`, on `Scoring` | the inside of every backend call, on one shared model | done |
| 11 | `Contexts` | frozen thoughts, recorded actions, what may be trained on | done |
| 12 | `Slots`, refined by `Runtime`; `Driver` | the promise to clients, and two clients on top of it | done |
| 13 | `DeviceProofs` | the shared model at rest, parts agree, nothing leaks, failed calls change nothing; every scoring mode is causal | done |
| 14 | `LearnerProofs` | a step trained once, log, head and live writers; the refinement of `Ledger` | done |
| 15 | `ContextsProofs` | lineage of contexts and recorded actions, exports, the stream | done |
| 16 | `MctsProofs` | solved flags are backed and agree | done |
| 17 | `Continual`, refining `Learner` and `Sampler` | catalog and sampler state in memory and in checkpoints, through crash and restore | done |
| 18 | proofs about `Continual` and `Sampler`, in `LearnerProofs` | no step refused for its rows, the run implements the sampler, the cursor arithmetic | done |

Which module composes which: `Device` extends `Scoring` and is what `Runtime` takes
for one call. `Driver` runs its clients against `Slots`, the abstract server that
`Runtime` is shown to implement. `Learner` uses the abstractions of the modules
below it: one learn of the runtime, one package of `CasStore`; `Ledger` is what it
promises. `Continual` extends `Learner` by what a coordinator trains on and is shown to
implement `Sampler`.

## 3. Modules

**`Runtime`** takes one operation as one action, which is what the single-worker
queue makes of it. The calls inside an operation may each raise: the disjuncts of
an action are the ways it can end. `CreateSession` ends created, cleaned up or
quarantined; `Learn` and `Restore` end applied, rolled back or quarantined;
`DeleteSession` may lose the backend session and keep the adapter;
`RetireSession` may stop before the tombstone, at the prepared record, in the
backend or after the release. A refusal that changes nothing is a stuttering
step. Variables and the code's fields:

| variable | code |
|---|---|
| `engine`, `adapters` | `RealProverBackend.sessions`, the adapters of the PEFT model |
| `logical` | `SessionStore._states` |
| `resident`, `unusable`, `retired` | `_resident_session_ids`, `_unusable_sessions`, `_retired_session_ids` |
| `reuseRevision`, `revision`, `witness` | `_reuse_revision`, `_session_revisions`, `_snapshot_witnesses` |
| `snapshot`, `prepared`, `released`, `experience` | the files of the stores |

Parameters are abstracted to the set of updates they absorbed, whether a failed
step left them half-written (`torn`), the position of the private RNG stream and
the release they started from; a hash is the content it is computed from. The
event of a learn call is an identifier and one of a few payloads.

`Slots` is what this promises whoever opens sessions: a bounded set of held slots, a
set of retired identities that are never admitted again. `ImplementsSlots` maps the
slots to the residents together with the quarantined, and the retired to the
tombstones.

**`Device`** opens up the calls `Runtime` takes in one step. All sessions share one
model, and the record `shared` is what a call may leave behind in it: active adapter,
cache switch, training mode, disabled adapters, the stream installed in the process,
parameters that hold a gradient. A work item (`call`) changes these one after the
other and may raise after every step; its cleanup is a step too, and may raise. A
configuration is a profile, `real`, `search`, `verified` or `categorical`, and a
scoring mode. The profiles differ in whether a value draws from the private stream,
in whether learn checks the scope of the optimizer and measures the divergence after
the step, and in the second transaction that replaces head and optimizer. A tensor is
where it came from and how many updates it absorbed. `adapter`, `session` are the
adapters of the model and the backend's sessions; `withheld` is the runtime's
`_unusable_sessions`; `saved` the exports on disk.

**`Scoring`** is the arithmetic of the scores a policy call returns: what enters the
KV cache in which order, which position's logits are read for which token, how rows
are cut at their EOS, batched, chunked, flattened and cut up again, and how the Qwen
backend strips and encodes an action again before it scores it. A score names the
token whose logit was read and the tokens it depends on; `CausalRow` is the reference.
Masked positions (`Pad`) are tokens of an input like any other, and the prompt may have
some; `Without` drops them from what a logit depends on. `Tokens` is the vocabulary.
In `Device` the prompts of that backend have their thoughts already; making them is in
`Contexts`.

**`Contexts`** is the Qwen backend's memory. Its checks compare policy versions,
which count optimizer steps and so repeat after a restore; the model keeps the weights
themselves, as the sequence of events they were trained on, and asks of the checks
that they never confuse two histories. A learn event is a prompt and, for each tactic,
the weights it claims to have been sampled with.

**`Driver`** is the two sequential programs that use a server: the smoke test and the
evidence loop. A session is a problem and a second. The server is an instance of
`Slots`. Answers are left out: `chat_response` puts the text into
`message.content`, where the driver's policy reads `text`, so its candidates are empty
strings whatever the server says.

**`Actor`** has one step per block held under `_metrics_guard` and per call of
the queue, so a metrics reader and a closer can come between any two. `Service`
is the abstract contract: a FIFO service that answers everything it accepted and
then stops. `ImplementsService` maps the item being run and the queue without the
sentinel to the pending requests.

**`Retirement`** opens up the action `RetireSession`, because two things see its
middle: a power loss, and `retirement_receipt`, which does not queue. A file is
absent, visible or durable; a crash keeps any subset of what is not durable.

**`Learner`** is one training run on disk, its coordinators and its release head.
On disk are the intents, the commits, the checkpoints and releases of the stores,
and the directory of the head with its records and staged bodies. Each process has
a phase, the checkpoint it stands on, and what it has noted of the step under way.
A checkpoint is the sequence of updates its parameters absorbed: a step's update
is the number of the attempt that made it, an update of someone else is `Foreign`.
`learned` is a history variable, the updates the backend really made for the run.
The four parts of a step are four actions, `TrainIntent`, `TrainLearn`,
`TrainSave` and `TrainCommit`, between which a process may crash, another may take
over, a client of the runtime may `Meddle` with the session, and the offline tools
`PublishHistorical` and `Reconcile` may run. An exclusive write may fail and leave
nothing, a torn file or the whole file. The publication is `EnableHead`,
`Announce`, `Release` and `Confirm`, or `PublishPlain` without a head. `Ledger`
is the abstract promise: steps are trained one after the other, a run is tracked
or not, and a tracked run publishes its last step before it trains the next.

**`CasStore`** is the commit of one content-addressed package, one file-system
call per action, by writers that rename or, where the mount cannot, create the
target and link file by file. A power loss keeps any subset of what was not
synced. In `Learner` a package is there or not there; `CasStore` says why that is
allowed. Files that a writer stages are synced as they are written, as
`release_head.py:46` and the use of `safe_directory` imply; that package is not part
of the repository.

**`Mcts`** is the AND/OR search of the tactic. The path from the root to the node
under expansion is the recursion of `reapMCTSStep`; the tree is the array of nodes
with its edges. A proof system gives each tactic the list of goals it leaves. Values
and priors are abstracted: any child may be selected except a solved child of an
AND node, and the policy may offer any tactics up to a number. Any tactic may fail,
because the wall clock may cut it off. Exceptions of the policy end the search and
are left out. An AND node is never evaluated: its children exist from the start.

**`Sampler`** is what a continual mixed learner trains on: catalogs of datasets,
of which only the row counts matter, cumulative cursors, a seed hash, and replay
that may be appended before a step. `Drawn` and `Advanced` are `next_mixed_batch`,
`Enlarged` and `Admissible` the rest of `sampling_transition`; `Train` is one step of
a sampler that is never interrupted.

**`Continual`** says where these values live in a run that is. `sampler` is what each
coordinator has in memory (`self.catalog`, `self.sampler_state`), `prepared` what its
`train_next` has computed before it writes the intent, `receipts` what each checkpoint
records, `run` the run record. Every action is one of `Learner` with what the code does
to these: a start takes the run record and a restore the receipt of its checkpoint
(`Begins`), `Prepares` is `_prepare_next`, `Saves` stores a receipt if
`_validate_training_batch`, which computes the step again from the receipt of the parent
(`Follows`), agrees with it, and `Commits` moves memory to the new step. A crash forgets
memory and local variables. `ImplementsSampler` maps the run to the receipt of its last
whole commit: every commit is a `Train` of `Sampler`, everything else a stutter. A mixed
learner with a fixed catalog is the case in which `Additions` is empty.

`MCRuntime`, `MCActor`, `MCRetirement`, `MCLearner`, `MCCasStore`, `MCMcts`,
`MCContinual`, `MCDevice`, `MCContexts` and `MCDriver` give the constants their values. `RuntimeProofs`, `ActorProofs`, `RetirementProofs`, `CasStoreProofs`,
`DeviceProofs`, `LearnerProofs`, `ContextsProofs` and `MctsProofs` hold the theorems.

## 4. Runs

| run | instance | shows |
|---|---|---|
| `runtime_capacity` | 2 sessions, 1 slot, 2 theorems, 1 experience, 1 release, 1 event, 1 name, 9 revisions | capacity, released sessions, sealed quarantine, identity under reused names, refinement of `Slots` |
| `runtime_learning` | 1 session, 2 events with 2 payloads, 2 names, 8 revisions | agreement of the halves, one payload per event, live witness, frozen certified sessions |
| `device_calls` | 2 sessions, 5 pairs of profile and scoring mode, 10 generated batches, 1 update, 1 draw after creation, 1 export | the shared model comes back as it was, the parts of a session agree, nothing leaks, failed calls change nothing, scores are those of their tokens |
| `contexts_strict` | 3 prompts, 2 contexts, 2 recorded batches, 2 search events and the final one, 1 export, 5 draws | contexts and recorded actions belong to the weights' own history, strict training uses what those weights returned, exports can be imported, the stream is accounted for |
| `actor_queue` | 3 requests, 2 closers | metrics, drain, answers, refinement of `Service`, deadlock freedom |
| `retirement_crash` | 2 readers, 2 crashes | durability order, truth of the receipts |
| `learner_run` | 2 processes, 3 steps, 2 attempts | every step trained once, log and head certified, one live writer, refinement of `Ledger` |
| `cas_writers` | 3 writers, 3 files | what reads was compared whole, what is published stays, nothing is repaired |
| `mcts_search` | 48 proof systems, a goal that may hold a metavariable, 6 nodes, 4 steps, 2 tactics offered | replayable solved flags, propagation, the search ends |
| `continual_run` | 2 processes, 3 steps, 1 attempt, 4 rows of replay and 1 of human data a step, replay appended or not before each | a durable intent has the batch its checkpoint is checked against, refinement of `Sampler`, whole batches of the next rows in order |
| `refused_create` | as `runtime_capacity` | finding 1 |
| `driver_release` | 2 problems, 2 slots | finding 2 |

Bounds. `MaxRevision` caps the reuse revision, which every operation on a
resident session advances: 8 or 9 operations per behaviour. One slot for two
sessions is the smallest instance in which a quarantined session starves another;
two events and two payloads are the smallest in which a retry, a conflict and a
second update meet; `MaxDraws` is 1 where a moved RNG position is what the witness
must notice and 0 elsewhere. Three requests and two closers let an item be queued
behind one that runs while a second close races a submit. Two crashes let the
second hit the restart of the first. In `Learner` two processes are a writer and
its successor, three steps are a step before, at and after the one that fails, and
two attempts bound the updates the backend makes of one step. `CasStore` bounds
neither failures nor power losses; three writers are a winner, a loser and one that
comes after both. `Mcts` has 6 nodes before the last expansion, enough for an AND
node with two children under each of two siblings, and a duplicate to merge. In `Continual`
three steps let a coordinator restored at the first append before the second and another
take over at the third; a batch of four exceeds the catalog of two and one rows it starts
with, and `MaxInteger` 12 and `MaxRows` 9 allow just these steps, with replay growing
before any two; one attempt is enough, since `LearnerProofs` shows that a second is never
made.

In `Device` two sessions are one that calls and one that must not notice; one update
and one draw after creation are enough, because every call starts from a session that
has or has not been trained and may fail after each of its steps. The generated batches
have rows of up to four tokens, so that chunks of two and three are full, cut short and
skipped by a row that ended; three rows fill a candidate batch of two and start another.
In `Contexts` three prompts against two contexts and policy calls against two batches
reach both limits; an export and two events are the least in which a restore makes two
histories of the same version, and five draws let one of them be taught again.

The runs of `Runtime`, `Device` and `Contexts` switch deadlock checking off because a
behaviour may end when their bounds are used up, that of `Driver` because its programs
end; `learner_run` and `continual_run` do because a run whose last step is
unknown stops for good, and because of the bound on steps.

Fairness is used in `Actor` and `Mcts`. In `Actor`, weak fairness of the worker
thread, which the operating system schedules and whose backend calls end, and of
threads waiting for an event or a join that has happened; nobody is obliged to
submit or to close. The search of `Mcts` is a single loop in one thread, so weak
fairness of its next step says that the program keeps running; tactics and policy
calls end because both carry a time limit.

## 5. Findings

1. `refused_create`: a create the backend refuses before it allocates anything
   is quarantined and its slot is never freed.
2. `driver_release`: the driver "retires" a session with a GET that only reads a
   retirement record, so no session it opened is ever released; its docstring says
   that this recycles the session (`runtime_transport.py:7-9`).

Seen while modelling, and allowed by the models:

- `delete_session` deletes a session whose retirement is unknown, which the comment
  at `runtime.py:308-309` seems to exclude (`DeleteSession` of `Runtime`).
- A receipt reader overtaken by the retirement between its two reads reports a
  missing prepared record that is there (`Conclude` of `Retirement`).
- `reap.max_goals` is compared before an expansion and with `<=`
  (`TreeSearch.lean:481`), so the tree may end with more nodes (`EndStep` of `Mcts`).
- The evidence loop reads `phi` after an exception that may have come before it was
  computed (`evidence_loop.py:46-55`), and stops (`AskRaises` of `Driver`).
- Two sessions of one problem within a second have one name; the second creation
  raises and no caller catches it (`OpenRaises` of `Driver`).

## 6. Proofs

Each proof module finds an inductive invariant, proves one lemma per operation and
combines them at the end. The theorems hold for every value of the constants that
the named assumption allows.

**`RuntimeProofs`**, for every set of sessions, theorems, names, events, payloads,
experiences and releases and every capacity (`RuntimeAssumption`, and
`NoneAssumption`, that `None` is none of them):

- `TypeCorrect`. `TypeOK` is inductive as it stands. It includes that every logical
  state, live or saved, has an identity `from_snapshot` accepts, which needs the
  guards of `CreateSession` and of the certification in `Snapshot`.
- `CapacitySafe`. Not inductive alone: a session could lose its slot while the store
  still serves it, and quarantining it later would take a second slot.
  `CapacityInv` adds that every session in the store is resident. Only
  `CreateSession` takes a slot (`SlotsGrow`); every other operation keeps or
  shrinks the set (`SlotsShrink`).

- The other properties the passing runs of `Runtime` check. A frame lemma says that
  an operation changes what belongs to its own session only, so every invariant is
  proved for the session an operation touches. Agreement and receipts hold of the
  live session only if they hold of every image on disk, since a restore brings one
  back: the invariants include the saved states. `ReleasedInv` adds that a released
  session has its tombstone, without which it could be created again. `IdentitySafe`
  and `CertifiedSafe` use `CapacityInv`: a session that exists is resident, so no
  create can replace it.
- `SlotsImplemented`: `Runtime` implements `Slots`. Every step takes a slot, frees one,
  buries an identity or leaves the slots alone (`SessionSlots`). That the session a
  delete, a failed rollback or a retirement names already holds a slot is
  `CapacityInv`; without it a quarantine could take a slot past the capacity, which
  `Slots` does not allow.

**`ActorProofs`**: `IInv` adds to the types where the sentinel can be (`SentinelInv`),
that every accepted request is in exactly one place (`PlaceInv`) and what the counters
count (`CounterInv`). From it follow the metrics, the sentinel and the drain, and
`ServiceSafe`: the initial state is one of `Service` and every step maps to a step of
it or to a stutter.

**`RetirementProofs`** (`RetirementAssumption`): `IInv` relates the position of the
retirement to what is visible and durable (`Progress`) and what a reader has seen to
what must still be there (`ReaderKnows`). A reader's knowledge survives because the
files of a retirement only become more durable, crashes included (`Monotone`).

**`CasStoreProofs`** (`CasAssumption`): `IInv` says what can be in a package of each
layout (`Absent`, `Order`), what the writer that owns it has achieved at each place
(`Owned`), that a staged copy is whole (`Staged`), and that a package without an owner
never changes again (`Settled`). Lemmas split the steps into those outside the package,
those inside it and those that leave it.

**`DeviceProofs`** (`DeviceAssumption`: `None` and `Torn` are not states of a session
or a parameter): `IInv` says, for every place of every call, what the shared model may
be left like (`SharedInv`), what the call knows of its own session (`AskInv`,
`LearnInv`, `RestoreInv`, `CreateInv`, `ServingInv`) and that every other session is
whole (`SessionInv`). `ModelAtRest` needs that the gradients of a learn are those the
optimizer owns, which holds only because `owns` and `made` agree; `PartsAgree` needs it
too, for the step to move adapter and head together. Agreement must hold of every image
on disk, as a restore brings one back. `OthersKeep` is the frame: a call touches its own
session only. `FailedEnds` shows that only three steps end a failed call.

`AnswersSafe` rests on two more assumptions: `ScoringAssumption` (the prompt is made of
tokens, the masked one included) and `RequestAssumption` (the four modes, a chunk of at
least one token, which is what `PolicyScoringConfig` checks, and rows of tokens from
`generate`). Nothing is assumed of a row's length, of where its EOS or padding is, of how
many rows there are or of the candidate batch. `RowsAreCausal` says that every mode
computes `CausalRow` of every row:

- `TokenwiseIsCausal`: the cache after n tokens is the prompt and those tokens.
- `DeferredIsCausal`: `FlattenPlaces` puts every score where the cursor looks for it.
- `ChunkedIsCausal`: `FedResumes` says what a chunk feeds, off by one as it is against
  what it scores; `CacheHolds` that the chunks before it have fed exactly the prompt and
  the tokens up to its first target, masked positions of a row that ended earlier
  included; `RetainedIsSlice` that the retained logits are the row's own; and
  `FlattenPieces` that the chunks joined make the whole row. It holds for every longest
  row not shorter than this one, which is what `LongestBounds` shows of a batch.
- `FullPrefixIsCausal`: the logits are read one position back from the end.

`TrimmedIsUpto` and `KeptType` say what of a generated row is scored. The caches, the
cursor and `FlattenSeq` are recursive functions, and TLAPS has no induction over them
here. Each lemma takes the least index at which the function is undefined or wrong
(`LeastNat`, from the library's `WFMin`) and refutes it from the index before.
`AnswerInv` then follows a call: the adapter it asked for stays active until it answers,
and the rows it answers with are those `generate` returned, scored.

**`LearnerProofs`** (`LearnerAssumption`: steps and attempts exist, and `None` and `Torn`
are neither processes nor checkpoints), for any number of processes, steps and
attempts. `IInv` has three layers. `DiskInv` is what the disk is like at any moment: a
whole commit is a stored checkpoint that extends the commits before it, an intent
comes after whole commits and a learn call after its intent (`LogInv`), a
confirmation needs its announcement, its release, its commit and the confirmations
below it (`HeadInv`). `LeaseInv` says that a coordinator that is up owns the lease.
`PhaseInv` is what each phase of an operation may rely on. Only the owner of the lease
adds to the log and confirms, so what it read before a step still holds after it
(`OthersRest`, `PhaseKept`); a crash forgets the phase and leaves the disk as `DiskInv`
describes it. `LedgerImplemented` maps the log to its last whole commit, whatever was
left torn behind it: `CommitTrains`, `EnableTracks` and `ConfirmationPublishes` are the
three steps of `Ledger`, `LedgerKept` is the stutter.

`ContinualAssumption` (`SamplerConstants`: batches take at least one row of each source,
datasets have rows, one source takes the most) is what the theorems about what a run
trains on add. `ContinualImplementsRun` carries everything above over to `Continual`. Its
invariant is `DInv`: an idle coordinator, or one under way, remembers the receipt of its
parent checkpoint; a prepared step follows that receipt; and a checkpoint waiting for its
commit holds the prepared step (`DataInv`). Not inductive alone: that a saved checkpoint
is new, so that its receipt is the prepared one and not an older one, needs that the step
has been learned at most once, and that the parent is still the last commit when the new
one is written needs the lease, so `DInv` stands on `IInv`. From it follow `NoStepRefused`
and, with `CommitsSample` for the one step that is not a stutter, `SamplerImplemented`.

`NextRowsDrawn` is about the arithmetic of `Sampler`, for any number of datasets of any
size. `Total`, `Walk` and `FlattenSeq` are folds of the community modules, each the value
of a function chosen by a recursion over sets of positions; that such a function exists
is shown first, for one more position at a time, by the least number of positions for
which it would not. `Borders` then gives the sums at the ends of the datasets, `WalkFinds`
that the inner loop of `next_mixed_batch` stops in the dataset whose borders enclose the
index, `ConcatenatedIs` that this names the rows of the concatenation one by one, and
`TakenIs`, with `ModAdd` for the two remainders, that a batch is whole and in order.
`RunDrawsNextRows` combines it with `SamplerImplemented`: `Sampler` is run only as what
`Continual` implements, and `DrawsNextRows` is its `BatchIsNextRows` there.

**`ContextsProofs`** (`ContextsAssumption`: `None` is neither weights nor a context).
A restore brings back any export, so what is to hold of the live state must hold of
every export: `Sound` is one predicate of a state, and `IInv` says it of all of them,
together with `TrainedOnRecorded`. It holds that contexts and recorded actions descend
from the weights (`LineageSafe`), that limits are kept, which is what an import checks
(`ImportableSafe`), and that the stream has moved once for every context, batch and
update (`StreamSafe`). That a matching version means the same weights, on which
`RecordedSafe` rests, holds among ancestors of one state only, and that is what
`Sound` provides.

**`MctsProofs`** (`MctsAssumption`), for every proof system and whatever the policy
offers: a child comes after its parent in the array and has no other (`Tree`), an edge
is what its tactic made (`Shape`), a flag is set only when the flags below it say so
(`Backed`), and a flag lags behind only on the path (`AgreeInv`, `MayLag`). A node's
flag is recomputed after everything below it on the path has been, and its parent is
the node before it on the path (`ParentOnPath`), so the one flag a step sets can leave
behind only the next one to be recomputed. `MergedStep` shows that merging a duplicate
sets no flag of the child: it was made for the same state. `ReplaysSafe` takes the
last node on which the replay would fail; that `Replays` has the value its definition
says, for an array of any length, follows from the least set closed under the replay's
step (`ReplaysUnfold`), without induction over data.

## 7. What is only model-checked, and what is left out

Checked by TLC only: the liveness properties of `Actor` and the fairness part of
`ImplementsService`; `SearchEnds` of `Mcts`; everything about `Driver`; the two
violations. Liveness under fairness and ENABLED are beyond the prover. Induction over
data is too, and where a value computed by recursion is needed (`Device`, `Mcts`,
`Sampler`) the least counterexample stands in for it. The type invariants of
`Runtime`, `Actor`, `Retirement` and `CasStore` are proved and not run on their own, as
are `DiskWriteOnce`, `RetiredStateIsFinal` and `NothingBehindSentinel`.

`CasStore` promises durability to a writer that published a package. One that found
it there (`learner_release_store.py:209`) is promised nothing, and no document of the
repository says otherwise.

Not modelled: the components marked `not_modelled` in `PROJECT.json`, each with its
reason; `bestFirstSearch`, which only its own test calls; the validation of schemas,
hashes and configurations, in the server's command line, in the release stores and in
the categorical value artifact; the numerical content of parameters, losses and
RNG streams; corruption of files by someone other than the program; JSON, HTTP and
chat formatting; the `_states` of a `SessionStore` supplied from outside, which the
server never does.
