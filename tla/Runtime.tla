------------------------------- MODULE Runtime -------------------------------
(***************************************************************************)
(* GpuRuntime with its SessionStore, its backend and its two disk stores   *)
(* (gpu/gpu_runtime/runtime.py, session_store.py, real_backend.py,         *)
(* snapshot_store.py, experience_store.py).                                *)
(*                                                                         *)
(* Every operation runs as one work item of the single-worker GpuActor, so *)
(* an operation is one action here; module Actor models the queue itself.  *)
(* Inside an item each call to the backend or to the disk may raise, and   *)
(* the disjuncts of an action are the ways its item can end.  A call that  *)
(* is refused before anything changes is a stuttering step.                *)
(*                                                                         *)
(* Parameters are abstracted to what the runtime's contract tells apart:   *)
(* the updates an adapter has absorbed, whether a failed call left it      *)
(* half-written, how far its private RNG has moved, and the release its    *)
(* weights started from.  A SHA256 is the content it is computed from.     *)
(***************************************************************************)
EXTENDS Integers, FiniteSets

CONSTANTS
    Sessions,        \* session identifiers a client may use
    Theorems,        \* theorem identifiers
    Names,           \* snapshot names
    EventIds,        \* learn event identifiers
    Payloads,        \* contents an event identifier may be sent with
    FinalEvents,     \* events of kind verified_success_discounted_v1
    Experiences,     \* experience identifiers
    Releases,        \* learner model releases
    ReleaseLearner,  \* the learner session each release was made from
    None,            \* absent
    MaxResident,     \* max_resident_sessions
    MaxRevision,     \* bound on the reuse revision counter
    MaxDraws         \* bound on RNG positions told apart

Origins == Experiences \cup Releases \cup {None}
Updates == EventIds \X Payloads

ASSUME RuntimeAssumption ==
    /\ IsFiniteSet(Sessions) /\ IsFiniteSet(EventIds) /\ IsFiniteSet(Payloads)
    /\ FinalEvents \subseteq EventIds
    /\ ReleaseLearner \in [Releases -> Sessions]
    /\ None \notin Theorems \cup Experiences \cup Releases
    /\ Experiences \cap Releases = {}
    /\ MaxResident \in Nat \ {0} /\ MaxRevision \in Nat /\ MaxDraws \in Nat

VARIABLES
    engine,          \* backend.sessions: parameters, optimizer and RNG
    adapters,        \* adapters allocated in the model
    logical,         \* SessionStore._states
    resident,        \* _resident_session_ids
    unusable,        \* _unusable_sessions, the quarantine
    retired,         \* _retired_session_ids, the tombstones
    reuseRevision,   \* _reuse_revision
    revision,        \* _session_revisions, 0 when absent
    witness,         \* _snapshot_witnesses
    snapshot,        \* SnapshotStore: session -> name -> contents
    prepared,        \* prepared.json of a session
    released,        \* released.json of a session
    experience       \* ExperienceStore

backendVars == <<engine, adapters>>
ownerVars   == <<resident, unusable, retired>>
reuseVars   == <<reuseRevision, revision, witness>>
diskVars    == <<snapshot, prepared, released, experience>>
vars        == <<backendVars, logical, ownerVars, reuseVars, diskVars>>

-----------------------------------------------------------------------------
(* State.                                                                  *)

EngineStates == [steps : Nat, trained : SUBSET Updates, torn : BOOLEAN,
                 draws : 0..MaxDraws, base : Origins]

LogicalStates == [role : {"theorem", "learner", "actor"},
                  theorem : Theorems \cup {None}, lineage : Origins,
                  completed : BOOLEAN, version : Nat,
                  receipts : SUBSET Updates, pending : SUBSET EventIds]

Images    == [logical : LogicalStates, engine : EngineStates, contract : BOOLEAN]
Witnesses == [name : Names, revision : Nat, image : Images]
Receipts  == [name : Names, version : Nat, image : Images, reuse : BOOLEAN]
Releasable == [session : Sessions, theorem : Theorems, name : Names]

\* Python's None is no state.
ASSUME NoneAssumption == None \notin LogicalStates \cup EngineStates

\* What SessionState.from_snapshot demands of a role.
RoleConsistent(l) ==
    /\ l.role = "learner" => l.theorem = None /\ ~l.completed
    /\ l.role = "actor" => l.theorem # None /\ l.lineage \in Releases

FreshEngine(o) == [steps |-> 0, trained |-> {}, torn |-> FALSE, draws |-> 0, base |-> o]

FreshLogical(r, t, o) ==
    [role |-> r, theorem |-> t, lineage |-> o, completed |-> FALSE,
     version |-> 0, receipts |-> {}, pending |-> {}]

Image(l, g, c) == [logical |-> l, engine |-> g, contract |-> c]

Init ==
    /\ engine = [s \in Sessions |-> None]
    /\ adapters = {}
    /\ logical = [s \in Sessions |-> None]
    /\ resident = {} /\ unusable = {} /\ retired = {}
    /\ reuseRevision = 0
    /\ revision = [s \in Sessions |-> 0]
    /\ witness = [s \in Sessions |-> None]
    /\ snapshot = [s \in Sessions |-> [n \in Names |-> None]]
    /\ prepared = [s \in Sessions |-> None]
    /\ released = [s \in Sessions |-> None]
    /\ experience = [x \in Experiences |-> None]

-----------------------------------------------------------------------------
(* Snapshot-reuse bookkeeping.                                             *)

\* The revision a session resident in R gets from _invalidate_snapshot_reuse.
Bump(s, R) ==
    /\ s \in R => reuseRevision < MaxRevision
    /\ reuseRevision' = IF s \in R THEN reuseRevision + 1 ELSE reuseRevision

Bumped(s, R) == IF s \in R THEN [revision EXCEPT ![s] = reuseRevision + 1] ELSE revision

Invalidate(s) ==
    /\ Bump(s, resident)
    /\ revision' = Bumped(s, resident)
    /\ witness' = [witness EXCEPT ![s] = None]

\* Invalidation followed by _session_revisions.pop, when the slot is freed.
InvalidateAndForget(s, R) ==
    /\ Bump(s, R)
    /\ revision' = [revision EXCEPT ![s] = 0]
    /\ witness' = [witness EXCEPT ![s] = None]

\* The session is known to the store and not quarantined.
UsableEvenQuarantined(s) == logical[s] # None
Usable(s) == logical[s] # None /\ s \notin unusable

\* The call ends with an error, or answers without changing session state,
\* after it has given up the snapshot witness.
OnlyInvalidates(s) ==
    /\ Invalidate(s)
    /\ UNCHANGED <<backendVars, logical, ownerVars, diskVars>>

-----------------------------------------------------------------------------
(* create_session                                                          *)

Identity(r, t, o) ==
    \/ r = "theorem" /\ o \in Experiences \cup {None} /\ (o \in Experiences => t # None)
    \/ r = "learner" /\ t = None /\ o \in Releases \cup {None}
    \/ r = "actor" /\ t # None /\ o \in Releases

OriginLoads(s, t, o) ==
    /\ o \in Releases => ReleaseLearner[o] # s
    /\ o \in Experiences => /\ experience[o] # None
                            /\ experience[o].session # s
                            /\ experience[o].theorem # t

AllocatedResident == resident
Allocated == resident \cup unusable

MayAllocateRetired(s) ==
    /\ s \notin unusable
    /\ Cardinality(Allocated) < MaxResident
    /\ s \notin resident
MayAllocate(s) ==
    /\ s \notin retired
    /\ s \notin unusable
    /\ Cardinality(Allocated) < MaxResident
    /\ s \notin resident

Created(s, r, t, o) ==
    /\ Bump(s, resident \cup {s})
    /\ revision' = Bumped(s, resident \cup {s})
    /\ witness' = [witness EXCEPT ![s] = None]
    /\ engine' = [engine EXCEPT ![s] = FreshEngine(o)]
    /\ adapters' = adapters \cup {s}
    /\ logical' = [logical EXCEPT ![s] = FreshLogical(r, t, o)]
    /\ resident' = resident \cup {s}
    /\ UNCHANGED <<unusable, retired, diskVars>>

\* The backend refused the identifier, or undid its own work, or could not
\* delete the adapter again: in each case delete_session has no backend
\* session to delete, the cleanup raises and the session is quarantined.
CreateQuarantined(s) ==
    /\ Bump(s, resident \cup {s})
    /\ revision' = Bumped(s, resident \cup {s})
    /\ witness' = [witness EXCEPT ![s] = None]
    /\ adapters' \in {adapters, adapters \cup {s}}
    /\ resident' = resident \cup {s}
    /\ unusable' = unusable \cup {s}
    /\ UNCHANGED <<engine, logical, retired, diskVars>>

\* A later step of the initialisation failed and the cleanup succeeded.
CreateCleanedUp(s) ==
    /\ InvalidateAndForget(s, resident \cup {s})
    /\ UNCHANGED <<backendVars, logical, ownerVars, diskVars>>

CreateSession(s, r, t, o) ==
    /\ Identity(r, t, o)
    /\ MayAllocate(s)
    /\ OriginLoads(s, t, o)
    /\ Created(s, r, t, o) \/ CreateQuarantined(s) \/ CreateCleanedUp(s)

-----------------------------------------------------------------------------
(* delete_session: neither the tombstone nor the quarantine is consulted.  *)

Deleted(s) ==
    /\ engine[s] # None
    /\ InvalidateAndForget(s, resident)
    /\ engine' = [engine EXCEPT ![s] = None]
    /\ adapters' = adapters \ {s}
    /\ logical' = [logical EXCEPT ![s] = None]
    /\ unusable' = unusable \ {s}
    /\ resident' = resident \ {s}
    /\ UNCHANGED <<retired, diskVars>>

\* model.delete_adapter raises after the backend has forgotten the session.
DeleteLosesEngine(s) ==
    /\ engine[s] # None
    /\ Invalidate(s)
    /\ engine' = [engine EXCEPT ![s] = None]
    /\ UNCHANGED <<adapters, logical, ownerVars, diskVars>>

DeleteSession(s) ==
    /\ logical[s] # None
    /\ \/ Deleted(s)
       \/ DeleteLosesEngine(s)
       \/ engine[s] = None /\ OnlyInvalidates(s)

-----------------------------------------------------------------------------
(* policy, value, inspect_backend                                          *)

\* Generation moves the session's private stream (and, in the Qwen backend,
\* its contexts); a failed call may or may not have moved it.
Sampled(s) ==
    \E d \in {engine[s].draws, engine[s].draws + 1} \cap 0..MaxDraws :
        engine' = [engine EXCEPT ![s].draws = d]

PolicyKeepsWitness(s) ==
    /\ Usable(s) /\ engine[s] # None
    /\ Sampled(s)
    /\ UNCHANGED <<adapters, logical, ownerVars, reuseVars, diskVars>>
Policy(s) ==
    /\ Usable(s)
    /\ Invalidate(s)
    /\ IF engine[s] = None THEN UNCHANGED engine ELSE Sampled(s)
    /\ UNCHANGED <<adapters, logical, ownerVars, diskVars>>

Value(s) == Policy(s)

\* inspect_backend does not look the session up in the SessionStore.
InspectBackend(s) == s \notin unusable /\ OnlyInvalidates(s)

-----------------------------------------------------------------------------
(* learn                                                                   *)

Torn(g) == [g EXCEPT !.torn = TRUE]

Train(g, e, p) == [g EXCEPT !.steps = @ + 1, !.trained = @ \cup {<<e, p>>}]

Consume(l, e, p) == [l EXCEPT !.version = @ + 1, !.receipts = @ \cup {<<e, p>>}]

\* _rollback: both halves are put back, or the session is quarantined with
\* one of the engines in left and the logical state l.
RollbackKeepsEngine(s, oldEngine, oldLogical, left, l) ==
    /\ \E g \in left : engine' = [engine EXCEPT ![s] = g]
    /\ logical' = [logical EXCEPT ![s] = oldLogical]
    /\ UNCHANGED unusable
Rollback(s, oldEngine, oldLogical, left, l) ==
    \/ /\ engine' = [engine EXCEPT ![s] = oldEngine]
       /\ logical' = [logical EXCEPT ![s] = oldLogical]
       /\ UNCHANGED unusable
    \/ /\ \E g \in left : engine' = [engine EXCEPT ![s] = g]
       /\ logical' = [logical EXCEPT ![s] = l]
       /\ unusable' = unusable \cup {s}

ReceiptedSame(s, e, p) == <<e, p>> \in logical[s].receipts
Receipted(s, e, p) == \E q \in Payloads : <<e, q>> \in logical[s].receipts

MayLearnCompleted(s, e, p, v) ==
    /\ engine[s] # None
    /\ logical[s].role # "actor"
    /\ ~Receipted(s, e, p)
    /\ v = logical[s].version
MayLearn(s, e, p, v) ==
    /\ engine[s] # None
    /\ ~logical[s].completed
    /\ logical[s].role # "actor"
    /\ e \in FinalEvents => logical[s].role = "theorem" /\ logical[s].theorem # None
    /\ ~Receipted(s, e, p)
    /\ v = logical[s].version

LearnApplied(s, e, p) ==
    /\ engine' = [engine EXCEPT ![s] = Train(@, e, p)]
    /\ logical' = [logical EXCEPT ![s] = Consume(@, e, p)]
    /\ UNCHANGED unusable

\* backend.learn raised before, in the middle of or after its optimizer step,
\* or returned diagnostics that are not finite.
LearnFailed(s, e, p) ==
    Rollback(s, engine[s], logical[s],
             {engine[s], Torn(engine[s]), Train(engine[s], e, p)},
             [logical[s] EXCEPT !.pending = @ \cup {e}])

\* A refusal, an idempotent answer and a failed export only invalidate.
Learn(s, e, p, v) ==
    /\ Usable(s)
    /\ \/ OnlyInvalidates(s)
       \/ /\ MayLearn(s, e, p, v)
          /\ Invalidate(s)
          /\ LearnApplied(s, e, p) \/ LearnFailed(s, e, p)
          /\ UNCHANGED <<adapters, resident, retired, diskVars>>

-----------------------------------------------------------------------------
(* snapshot, publish_experience, restore                                   *)

FreeName(s, n) == snapshot[s][n] = None

MayCertify(l) ==
    l.role = "theorem" /\ l.theorem # None /\ l.version >= 1 /\ l.pending = {}

Certified(l, f) == [l EXCEPT !.completed = @ \/ f]

\* forExperience marks the session completed, in the file and then in memory.
\* If the manifest cannot be read back no witness is recorded.
SnapshotTaken(s, n, forExperience) ==
    LET l  == Certified(logical[s], forExperience)
        im == Image(l, engine[s], forExperience)
    IN  /\ engine[s] # None
        /\ forExperience => MayCertify(logical[s])
        /\ FreeName(s, n)
        /\ Bump(s, resident)
        /\ revision' = Bumped(s, resident)
        /\ witness' \in {[witness EXCEPT ![s] = w] :
               w \in {None, [name |-> n, revision |-> Bumped(s, resident)[s], image |-> im]}}
        /\ snapshot' = [snapshot EXCEPT ![s][n] = im]
        /\ logical' = [logical EXCEPT ![s] = l]
        /\ UNCHANGED <<backendVars, ownerVars, prepared, released, experience>>

Snapshot(s, n, forExperience) ==
    /\ Usable(s)
    /\ OnlyInvalidates(s) \/ SnapshotTaken(s, n, forExperience)

Publishable(im) ==
    /\ im.logical.completed /\ im.logical.theorem # None
    /\ im.logical.version >= 1 /\ im.logical.pending = {}
    /\ im.contract

PublishExperience(s, n, x) ==
    \/ OnlyInvalidates(s)
    \/ /\ Invalidate(s)
       /\ snapshot[s][n] # None /\ Publishable(snapshot[s][n])
       /\ experience[x] = None
       /\ experience' = [experience EXCEPT ![x] =
              [session |-> s, theorem |-> snapshot[s][n].logical.theorem, name |-> n]]
       /\ UNCHANGED <<backendVars, logical, ownerVars, snapshot, prepared, released>>

RestoreCompatibleRole(s, im) == ~logical[s].completed
RestoreCompatible(s, im) ==
    /\ ~logical[s].completed
    /\ logical[s].theorem = im.logical.theorem
    /\ logical[s].lineage = im.logical.lineage

Restored(s, im) ==
    /\ engine' = [engine EXCEPT ![s] = im.engine]
    /\ logical' = [logical EXCEPT ![s] = im.logical]
    /\ UNCHANGED unusable

\* The image is read before the item is queued; DiskWriteOnce is why reading
\* it inside the item is the same.
Restore(s, n) ==
    /\ Usable(s)
    /\ snapshot[s][n] # None
    /\ logical[s].role = snapshot[s][n].logical.role
    /\ \/ OnlyInvalidates(s)
       \/ /\ engine[s] # None
          /\ RestoreCompatible(s, snapshot[s][n])
          /\ Invalidate(s)
          /\ \/ Restored(s, snapshot[s][n])
             \/ Rollback(s, engine[s], logical[s], {engine[s], Torn(engine[s])}, logical[s])
          /\ UNCHANGED <<adapters, resident, retired, diskVars>>

-----------------------------------------------------------------------------
(* retire_session                                                          *)

MayRetire(s, v) ==
    /\ s \notin retired
    /\ Usable(s)
    /\ logical[s].version = v
    /\ logical[s].pending = {}

\* The witness names this snapshot and revision, the files still hash to it,
\* and its logical half is the live one.
WitnessMatches(s, n) ==
    /\ witness[s] # None
    /\ witness[s].name = n
    /\ witness[s].revision = revision[s]
    /\ snapshot[s][n] = witness[s].image
    /\ witness[s].image.logical = logical[s]

FinalImage(s, reuse) == IF reuse THEN witness[s].image ELSE Image(logical[s], engine[s], FALSE)

Receipt(s, n, reuse) ==
    [name |-> n, version |-> logical[s].version, image |-> FinalImage(s, reuse), reuse |-> reuse]

\* A failure before the tombstone leaves a live session.
RetireAborted(s, n, reuse) ==
    /\ Invalidate(s)
    /\ snapshot' \in {snapshot, [snapshot EXCEPT ![s][n] = FinalImage(s, reuse)]}
    /\ UNCHANGED <<backendVars, logical, ownerVars, prepared, released, experience>>

\* prepared.json is on disk or not, and nothing was deleted.
RetirePrepareFailed(s, n, reuse) ==
    /\ Invalidate(s)
    /\ prepared' \in {prepared, [prepared EXCEPT ![s] = Receipt(s, n, reuse)]}
    /\ unusable' = unusable \cup {s}
    /\ UNCHANGED <<backendVars, logical, resident, released>>

\* backend.delete_session raised after forgetting the session.
RetireDeleteFailed(s, n, reuse) ==
    /\ Invalidate(s)
    /\ prepared' = [prepared EXCEPT ![s] = Receipt(s, n, reuse)]
    /\ engine' = [engine EXCEPT ![s] = None]
    /\ unusable' = unusable \cup {s}
    /\ UNCHANGED <<adapters, logical, resident, released>>

\* Everything is freed; writing released.json succeeds, or fails before or
\* after its link is made, and then the session is quarantined.
RetireReleased(s, n, reuse) ==
    /\ engine[s] # None
    /\ InvalidateAndForget(s, resident)
    /\ prepared' = [prepared EXCEPT ![s] = Receipt(s, n, reuse)]
    /\ engine' = [engine EXCEPT ![s] = None]
    /\ adapters' = adapters \ {s}
    /\ logical' = [logical EXCEPT ![s] = None]
    /\ resident' = resident \ {s}
    /\ \/ /\ released' = [released EXCEPT ![s] = Receipt(s, n, reuse)]
          /\ unusable' \in {unusable, unusable \cup {s}}
       \/ /\ UNCHANGED released
          /\ unusable' = unusable \cup {s}

RetireSession(s, n, v, reuse) ==
    /\ MayRetire(s, v)
    /\ IF reuse THEN WitnessMatches(s, n) ELSE engine[s] # None /\ FreeName(s, n)
    /\ \/ RetireAborted(s, n, reuse)
       \/ /\ snapshot' = [snapshot EXCEPT ![s][n] = FinalImage(s, reuse)]
          /\ retired' = retired \cup {s}
          /\ \/ RetirePrepareFailed(s, n, reuse)
             \/ RetireDeleteFailed(s, n, reuse)
             \/ RetireReleased(s, n, reuse)
          /\ UNCHANGED experience

-----------------------------------------------------------------------------
SessionStep(s) ==
    \/ \E r \in {"theorem", "learner", "actor"}, t \in Theorems \cup {None}, o \in Origins :
           CreateSession(s, r, t, o)
    \/ DeleteSession(s)
    \/ Policy(s)
    \/ Value(s)
    \/ InspectBackend(s)
    \/ \E e \in EventIds, p \in Payloads, v \in 0..Cardinality(EventIds) : Learn(s, e, p, v)
    \/ \E n \in Names, f \in BOOLEAN : Snapshot(s, n, f)
    \/ \E n \in Names, x \in Experiences : PublishExperience(s, n, x)
    \/ \E n \in Names : Restore(s, n)
    \/ \E n \in Names, v \in 0..Cardinality(EventIds), reuse \in BOOLEAN :
           RetireSession(s, n, v, reuse)

Next == \E s \in Sessions : SessionStep(s)

Spec == Init /\ [][Next]_vars
-----------------------------------------------------------------------------
(* Properties.                                                             *)

\* Every variable has its type, and every logical state, live or saved, has
\* an identity SessionState.from_snapshot would accept.
TypeOK ==
    /\ engine \in [Sessions -> EngineStates \cup {None}]
    /\ adapters \subseteq Sessions
    /\ logical \in [Sessions -> LogicalStates \cup {None}]
    /\ resident \subseteq Sessions /\ unusable \subseteq Sessions /\ retired \subseteq Sessions
    /\ reuseRevision \in 0..MaxRevision
    /\ revision \in [Sessions -> 0..MaxRevision]
    /\ witness \in [Sessions -> Witnesses \cup {None}]
    /\ snapshot \in [Sessions -> [Names -> Images \cup {None}]]
    /\ prepared \in [Sessions -> Receipts \cup {None}]
    /\ released \in [Sessions -> Receipts \cup {None}]
    /\ experience \in [Experiences -> Releasable \cup {None}]
    /\ \A s \in Sessions : logical[s] # None => RoleConsistent(logical[s])
    /\ \A s \in Sessions, n \in Names :
           snapshot[s][n] # None => RoleConsistent(snapshot[s][n].logical)

\* The capacity bound is a bound on what the GPU holds: whatever fails, every
\* adapter left in the model belongs to a session that still holds a slot, and
\* no more than max_resident_sessions slots are ever held (runtime.py:99-103).
CapacityHeld ==
    /\ adapters \subseteq resident \cup unusable
    /\ Cardinality(resident \cup unusable) <= MaxResident

\* The two halves of a state describe the same training: the parameters have
\* absorbed exactly the consumed events, once each, the optimizer step, the
\* policy version and the receipts count the same updates, and the weights
\* started from the recorded lineage.
Agree(l, g) ==
    /\ ~g.torn
    /\ l.pending = {}
    /\ g.trained = l.receipts
    /\ g.steps = l.version
    /\ l.version = Cardinality(l.receipts)
    /\ g.base = l.lineage

\* A session that is served, and every image on disk, has two agreeing halves,
\* through failed updates, failed rollbacks and restores (runtime.py:128-136).
ServedStateAgrees ==
    \A s \in Sessions :
        /\ Usable(s) /\ engine[s] # None => Agree(logical[s], engine[s])
        /\ \A n \in Names :
               snapshot[s][n] # None => Agree(snapshot[s][n].logical, snapshot[s][n].engine)

\* An event identifier is consumed with one payload only, in whatever order
\* learning, restoring and retrying are mixed (runtime.py:448-450).
OncePerEvent ==
    \A s \in Sessions : Usable(s) =>
        \A e \in EventIds, p, q \in Payloads :
            <<e, p>> \in logical[s].receipts /\ <<e, q>> \in logical[s].receipts => p = q

\* A reuse witness that is still held names a file that equals the live state,
\* parameters and RNG included, of a usable session (runtime.py:111-120).
WitnessIsLive ==
    \A s \in Sessions : witness[s] # None =>
        /\ Usable(s) /\ engine[s] # None
        /\ witness[s].revision = revision[s]
        /\ snapshot[s][witness[s].name] = witness[s].image
        /\ witness[s].image.logical = logical[s]
        /\ witness[s].image.engine = engine[s]

\* A released record confirms release: nothing of the session is left, and
\* nothing of that name ever comes back (runtime.py:328-332).
ReleasedIsGone ==
    \A s \in Sessions : released[s] # None =>
        /\ prepared[s] = released[s] /\ s \in retired
        /\ engine[s] = None /\ logical[s] = None
        /\ s \notin resident /\ s \notin adapters

\* The saved state a retirement record names is the state the session had when
\* it was retired, whether it was exported then or reused (runtime.py:270-298).
RetiredStateIsFinal ==
    [][\A s \in Sessions : prepared'[s] # prepared[s] =>
           /\ snapshot'[s][prepared'[s].name] = prepared'[s].image
           /\ prepared'[s].image.logical = logical[s]
           /\ prepared'[s].image.engine = engine[s]]_vars

\* While a session exists its role, theorem and lineage never change, although
\* a deleted session's snapshots stay restorable under a reused identifier.
IdentityIsFixed ==
    [][\A s \in Sessions : logical[s] # None /\ logical'[s] # None =>
           /\ logical'[s].role = logical[s].role
           /\ logical'[s].theorem = logical[s].theorem
           /\ logical'[s].lineage = logical[s].lineage]_vars

\* A session certified as a completed experience source keeps the parameters it
\* was certified with until it is deleted (runtime.py:441, 563).
CompletedIsFrozen ==
    [][\A s \in Sessions :
           logical[s] # None /\ logical[s].completed /\ logical'[s] # None =>
               /\ logical'[s] = logical[s]
               /\ engine'[s] # None => engine'[s].trained = engine[s].trained]_vars

\* A quarantined session is never served again: its state stays as it is, and
\* it leaves the quarantine only when all of it is deleted (runtime.py:132-135).
QuarantineIsSealed ==
    [][\A s \in unusable :
           IF s \in unusable'
           THEN logical'[s] = logical[s] /\ engine'[s] \in {engine[s], None}
           ELSE logical'[s] = None /\ engine'[s] = None /\ s \notin adapters']_vars

\* Snapshots, receipts and experiences are never rewritten, so one that is read
\* before an operation is queued is the one that operation finds.
DiskWriteOnce ==
    [][/\ \A s \in Sessions, n \in Names :
              snapshot[s][n] # None => snapshot'[s][n] = snapshot[s][n]
       /\ \A s \in Sessions : prepared[s] # None => prepared'[s] = prepared[s]
       /\ \A s \in Sessions : released[s] # None => released'[s] = released[s]
       /\ \A x \in Experiences : experience[x] # None => experience'[x] = experience[x]]_vars

\* The runtime keeps the promise of Slots: a slot is taken only within the
\* capacity and only by an identity that was never retired, is given back only
\* by a deletion or a confirmed release, and an identity is retired only while
\* it holds one (runtime.py:171-177, 241-248, 308-316).
Contract == INSTANCE Slots WITH held <- resident \cup unusable, gone <- retired

ImplementsSlots == Contract!Spec

\* "reject before touching model state" (real_backend.py:231), and the slot of
\* a failed creation is held for what it left allocated (runtime.py:100-101):
\* a slot is held only for a session that has state or a retirement.
SlotsAreOwned ==
    \A s \in resident \cup unusable :
        s \in adapters \/ engine[s] # None \/ logical[s] # None \/ s \in retired

=============================================================================
