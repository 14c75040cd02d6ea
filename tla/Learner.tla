------------------------------ MODULE Learner ------------------------------
(***************************************************************************)
(* One learner run: its coordinators, its control log, its release head    *)
(* and its lease (gpu/gpu_runtime/learner.py, release_head.py).            *)
(*                                                                         *)
(* A run lives on disk; the processes that advance it come and go.  Each   *)
(* process has a GPU runtime with at most one session of the run and at    *)
(* most one coordinator.  Every durable write may fail with an exception,  *)
(* after which the file is absent, torn or whole, and every process may    *)
(* die between two writes.  An operation holds the coordinator's lock, so  *)
(* what interleaves with its steps is the rest of the world: other         *)
(* processes, offline tools, and clients of the runtime that touch the     *)
(* learner's session behind the coordinator's back.                        *)
(*                                                                         *)
(* A checkpoint is content addressed, so it is the sequence of the updates *)
(* its parameters absorbed; its step is the length and its parent chain    *)
(* the prefixes.  An update of the run is the number of the learn call     *)
(* that made it, counted per step; any other update is Foreign.  A release *)
(* is the checkpoint it is extracted from.  The sampler and the catalog    *)
(* are functions of the step here.                                         *)
(***************************************************************************)
EXTENDS Naturals, Sequences, FiniteSets

CONSTANTS
    Processes,
    MaxSteps,      \* bound on training steps
    MaxAttempts,   \* bound on learn calls for one step
    None, Torn     \* an absent and a half-written file or checkpoint

ASSUME LearnerAssumption ==
    /\ MaxSteps \in Nat \ {0} /\ MaxAttempts \in Nat \ {0}
    /\ None \notin Processes /\ None # Torn
    /\ None \notin Seq(Nat) /\ Torn \notin Seq(Nat)

VARIABLES
    control,       \* the control directory of the run, and its created.json
    intents,       \* intent-N.json: the parent checkpoint each step began from
    commits,       \* commit-N.json: the checkpoint each step produced
    headDir,       \* the release-head directory exists
    records,       \* bodies of the records linked into it
    stages,        \* bodies of the .staged- files in it, which nobody removes
    checkpoints,   \* packages of the release store
    releases,
    lease,         \* owner of the writer lock file
    phase,         \* where each process's coordinator stands
    parent,        \* its parent_checkpoint; its sampler step is the length
    cache,         \* its _publication_head_cache
    pin,           \* the checkpoint the operation under way works on
    journal,       \* checkpoints that have a publish- journal directory
    session,       \* the updates in the learner session of its runtime
    learned        \* history: learn calls applied for each step

log     == <<control, intents, commits>>
head    == <<headDir, records, stages>>
store   == <<checkpoints, releases>>
memory  == <<parent, cache, pin, journal>>
vars    == <<log, head, store, lease, phase, memory, session, learned>>

Steps   == 1..MaxSteps
Foreign == 0
Updates == 0..MaxAttempts

Mode         == <<"mode">>
Announced(k) == <<"intent", k>>
Confirmed(k) == <<"published", k>>

Init ==
    /\ control = "absent"
    /\ intents = [n \in Steps |-> None] /\ commits = [n \in Steps |-> None]
    /\ headDir = FALSE /\ records = {} /\ stages = {}
    /\ checkpoints = {} /\ releases = {}
    /\ lease = None
    /\ phase = [c \in Processes |-> "none"]
    /\ parent = [c \in Processes |-> << >>]
    /\ cache = [c \in Processes |-> << >>]
    /\ pin = [c \in Processes |-> << >>]
    /\ journal = [c \in Processes |-> {}]
    /\ session = [c \in Processes |-> None]
    /\ learned = [n \in Steps |-> 0]

-----------------------------------------------------------------------------
(* What the disk says                                                      *)

\* read_training_commits: n steps, each with its intent and its commit, chained
\* by their checkpoints, and nothing after them.
Committed(n) == IF n = 0 THEN << >> ELSE commits[n]

LogEndsBeforeUnknown(n) ==
    /\ control = "created"
    /\ \A i \in Steps : i <= n => commits[i] \notin {None, Torn} /\ intents[i] = Committed(i - 1)
    /\ \A i \in Steps : i > n => commits[i] = None

LogEndsAt(n) ==
    /\ control = "created"
    /\ \A i \in Steps : i <= n => commits[i] \notin {None, Torn} /\ intents[i] = Committed(i - 1)
    /\ \A i \in Steps : i > n => intents[i] = None /\ commits[i] = None

\* publication_state, for a log of n steps.  Every staged body must have been
\* linked, or be one the caller is about to link.
Unpublished(n) == headDir /\ n > 0 /\ Confirmed(Committed(n)) \notin records
Unknown(n)     == Unpublished(n) /\ Announced(Committed(n)) \in records
PublishedHead(n) ==
    IF ~headDir THEN << >> ELSE IF Unpublished(n) THEN Committed(n - 1) ELSE Committed(n)

PublicationReads(n, permitted) ==
    headDir =>
        /\ Mode \in records
        /\ stages \subseteq records \cup permitted
        /\ \A i \in 1..n : Confirmed(Committed(i)) \in records \/ i = n
        /\ \A i \in 1..n : Confirmed(Committed(i)) \in records => Announced(Committed(i)) \in records
        /\ \A b \in records \ {Mode} : \E i \in 1..n : b[2] = Committed(i)

CheckLiveAllowing(c, n, allowUnpublished) ==
    /\ phase[c] = "idle"
    /\ session[c] # None /\ Len(session[c]) = Len(parent[c])
    /\ LogEndsAt(n) /\ parent[c] = Committed(n)
    /\ PublicationReads(n, {}) /\ ~Unknown(n)
    /\ cache[c] = PublishedHead(n)

\* _check_live: memory, session, log and head agree.
CheckLive(c, n, allowUnpublished) ==
    /\ phase[c] = "idle"
    /\ session[c] # None /\ Len(session[c]) = Len(parent[c])
    /\ LogEndsAt(n) /\ parent[c] = Committed(n)
    /\ PublicationReads(n, {}) /\ ~Unknown(n)
    /\ cache[c] = PublishedHead(n)
    /\ Unpublished(n) => allowUnpublished

\* _write: an exclusive create that raised left nothing, a torn or a whole file.
LeftBy(value) == {None, Torn, value}

\* _write_record: stage, then link without replacing.
Recorded(b) == stages' = stages \cup {b} /\ records' = records \cup {b}
RecordingFailed(b) ==
    \/ stages' \in {stages, stages \cup {Torn}, stages \cup {b}} /\ UNCHANGED records
    \/ Recorded(b)

To(c, p)  == phase' = [phase EXCEPT ![c] = p]
Block(c)  == To(c, "blocked") /\ UNCHANGED memory

-----------------------------------------------------------------------------
(* Starting and ending a coordinator                                       *)

LeaseFreeAlways == TRUE
LeaseFree == lease = None

\* A coordinator that is live owns the lease.
Begin(c, k, h) ==
    /\ LeaseFree /\ lease' = c
    /\ To(c, "idle")
    /\ parent' = [parent EXCEPT ![c] = k]
    /\ cache' = [cache EXCEPT ![c] = h]
    /\ journal' = [journal EXCEPT ![c] = {}]
    /\ session' = [session EXCEPT ![c] = k]
    /\ UNCHANGED pin

\* A failure closes the lease and deletes the session it created, if it can.
BeginFails(c) ==
    /\ LeaseFree
    /\ session' \in {session, [session EXCEPT ![c] = IF @ = None THEN << >> ELSE @]}
    /\ UNCHANGED <<lease, phase, memory>>

\* _start_run.  The control directory is created exclusively and stays, so a
\* start that failed leaves a run that nobody can start again.
StartRun(c) ==
    /\ phase[c] = "none" /\ control = "absent"
    /\ \/ session[c] = None /\ control' = "created" /\ Begin(c, << >>, << >>)
       \/ control' \in {"broken", "created"} /\ BeginFails(c)
    /\ UNCHANGED <<intents, commits, head, store, learned>>

RestoreRollingBack(c) ==
    /\ phase[c] = "none" /\ session[c] = None
    /\ \E n \in Steps :
          /\ LogEndsBeforeUnknown(n) /\ PublicationReads(n, {}) /\ ~Unknown(n)
          /\ Committed(n) \in checkpoints
          /\ PublishedHead(n) \in releases \cup {<< >>}
          /\ Begin(c, Committed(n), PublishedHead(n))
          /\ intents' = [i \in Steps |-> IF i <= n THEN intents[i] ELSE None]
    /\ UNCHANGED <<control, commits, head, store, learned>>

\* restore: only from the durable head of a log without unknowns.
Restore(c) ==
    /\ phase[c] = "none" /\ session[c] = None
    /\ \E n \in Steps :
          /\ LogEndsAt(n) /\ PublicationReads(n, {}) /\ ~Unknown(n)
          /\ Committed(n) \in checkpoints
          /\ PublishedHead(n) \in releases \cup {<< >>}
          /\ Begin(c, Committed(n), PublishedHead(n)) \/ BeginFails(c)
    /\ UNCHANGED <<log, head, store, learned>>

Forget(c) ==
    /\ To(c, "none")
    /\ lease' = IF lease = c THEN None ELSE lease
    /\ parent' = [parent EXCEPT ![c] = << >>]
    /\ cache' = [cache EXCEPT ![c] = << >>]
    /\ pin' = [pin EXCEPT ![c] = << >>]
    /\ journal' = [journal EXCEPT ![c] = {}]
    /\ UNCHANGED <<log, head, store, learned>>

\* close gives up the lease; the session stays with the runtime.
Close(c) == phase[c] \in {"idle", "blocked"} /\ Forget(c) /\ UNCHANGED session

\* The process dies: the system drops the lock, the runtime its sessions.
Crash(c) ==
    /\ phase[c] # "none" \/ session[c] # None
    /\ Forget(c)
    /\ session' = [session EXCEPT ![c] = None]

\* Another client of the runtime deletes the session, trains it, or restores
\* an older snapshot of it and trains that.
Meddle(c) ==
    /\ session[c] # None
    /\ \/ session' = [session EXCEPT ![c] = None]
       \/ /\ Len(session[c]) < MaxSteps
          /\ session' = [session EXCEPT ![c] = Append(@, Foreign)]
       \/ /\ session[c] # << >>
          /\ session' = [session EXCEPT ![c] = Append(SubSeq(@, 1, Len(@) - 1), Foreign)]
    /\ UNCHANGED <<log, head, store, lease, phase, memory, learned>>

-----------------------------------------------------------------------------
(* train_next                                                              *)

\* The durable intent comes before the update.
TrainIntent(c) ==
    /\ \E n \in 0..MaxSteps - 1 :
          /\ CheckLive(c, n, FALSE)
          /\ intents[n + 1] = None
          /\ \/ intents' = [intents EXCEPT ![n + 1] = parent[c]] /\ To(c, "intended")
                /\ UNCHANGED memory
             \/ \E left \in LeftBy(parent[c]) :
                   intents' = [intents EXCEPT ![n + 1] = left] /\ Block(c)
    /\ UNCHANGED <<control, commits, head, store, lease, session, learned>>

\* runtime.learn checks the version; an exception may come after the update.
TrainLearn(c) ==
    /\ phase[c] = "intended"
    /\ \/ LET n == Len(parent[c]) + 1 IN
          /\ session[c] # None /\ Len(session[c]) = n - 1
          /\ learned[n] < MaxAttempts
          /\ learned' = [learned EXCEPT ![n] = @ + 1]
          /\ session' = [session EXCEPT ![c] = Append(@, learned[n] + 1)]
          /\ To(c, "trained") \/ To(c, "blocked")
       \/ To(c, "blocked") /\ UNCHANGED <<session, learned>>
    /\ UNCHANGED <<log, head, store, lease, memory>>

ExtendsByVersion(s, k) == s # None /\ Len(s) = Len(k) + 1

\* _validate_checkpoint: the parent's receipts, then exactly this step's event.
Extends(s, k) ==
    /\ s # None
    /\ Len(s) = Len(k) + 1
    /\ SubSeq(s, 1, Len(k)) = k
    /\ s[Len(s)] # Foreign

\* snapshot and create_checkpoint.
TrainSave(c) ==
    /\ phase[c] = "trained"
    /\ \/ /\ Extends(session[c], parent[c])
          /\ parent[c] \in checkpoints \cup {<< >>}
          /\ checkpoints' = checkpoints \cup {session[c]}
          /\ \/ To(c, "saved") /\ pin' = [pin EXCEPT ![c] = session[c]]
             \/ To(c, "blocked") /\ UNCHANGED pin
       \/ To(c, "blocked") /\ UNCHANGED <<checkpoints, pin>>
    /\ UNCHANGED <<log, head, releases, lease, parent, cache, journal, session, learned>>

TrainCommit(c) ==
    /\ phase[c] = "saved"
    /\ LET n == Len(pin[c]) IN
       /\ commits[n] = None
       /\ \/ /\ commits' = [commits EXCEPT ![n] = pin[c]]
             /\ To(c, "idle")
             /\ parent' = [parent EXCEPT ![c] = pin[c]]
             /\ UNCHANGED <<cache, pin, journal>>
          \/ \E left \in LeftBy(pin[c]) :
                commits' = [commits EXCEPT ![n] = left] /\ Block(c)
    /\ UNCHANGED <<control, intents, head, store, lease, session, learned>>

-----------------------------------------------------------------------------
(* Publishing                                                              *)

\* enable_release_head: before the first step, once.
EnableHead(c) ==
    /\ CheckLive(c, 0, FALSE)
    /\ \/ ~headDir /\ headDir' = TRUE /\ Recorded(Mode) /\ UNCHANGED <<phase, memory>>
       \/ ~headDir /\ headDir' = TRUE /\ RecordingFailed(Mode) /\ Block(c)
       \/ UNCHANGED head /\ Block(c)
    /\ UNCHANGED <<log, store, lease, session, learned>>

\* publish with a release head: announce, release, confirm.  With nothing to
\* publish, or a checkpoint other than the last, it raises and blocks.
Announce(c) ==
    /\ headDir
    /\ \E n \in 0..MaxSteps :
          /\ CheckLive(c, n, TRUE)
          /\ \/ /\ Unpublished(n)
                /\ Recorded(Announced(Committed(n)))
                /\ To(c, "announced")
                /\ pin' = [pin EXCEPT ![c] = Committed(n)]
                /\ UNCHANGED <<parent, cache, journal>>
             \/ Unpublished(n) /\ RecordingFailed(Announced(Committed(n))) /\ Block(c)
             \/ UNCHANGED <<records, stages>> /\ Block(c)
    /\ UNCHANGED <<log, headDir, store, lease, session, learned>>

ReleaseUnchecked(c) ==
    /\ phase[c] = "announced"
    /\ releases' \in {releases, releases \cup {pin[c]}}
    /\ To(c, "released")
    /\ UNCHANGED <<log, head, checkpoints, lease, memory, session, learned>>

\* publish_checkpoint, in a new journal directory; it may raise after the
\* release is in the store.
Release(c) ==
    /\ phase[c] = "announced"
    /\ \/ /\ pin[c] \in checkpoints /\ pin[c] \notin journal[c]
          /\ releases' = releases \cup {pin[c]}
          /\ journal' = [journal EXCEPT ![c] = @ \cup {pin[c]}]
          /\ To(c, "released") \/ To(c, "blocked")
       \/ To(c, "blocked") /\ UNCHANGED <<releases, journal>>
    /\ UNCHANGED <<log, head, checkpoints, lease, parent, cache, pin, session, learned>>

Confirm(c) ==
    /\ phase[c] = "released"
    /\ \/ /\ Recorded(Confirmed(pin[c]))
          /\ To(c, "idle")
          /\ cache' = [cache EXCEPT ![c] = pin[c]]
          /\ UNCHANGED <<parent, pin, journal>>
       \/ RecordingFailed(Confirmed(pin[c])) /\ Block(c)
    /\ UNCHANGED <<log, headDir, store, lease, session, learned>>

\* publish without a release head: any checkpoint of the run, once per journal;
\* a second time raises and blocks.
PublishPlain(c) ==
    /\ ~headDir
    /\ \E n \in 0..MaxSteps : CheckLive(c, n, TRUE)
    /\ \/ \E k \in checkpoints \ journal[c] :
             /\ releases' = releases \cup {k}
             /\ journal' = [journal EXCEPT ![c] = @ \cup {k}]
             /\ UNCHANGED phase \/ To(c, "blocked")
       \/ parent[c] # << >> /\ To(c, "blocked") /\ UNCHANGED <<releases, journal>>
    /\ UNCHANGED <<log, head, checkpoints, lease, parent, cache, pin, session, learned>>

\* publish_checkpoint called without a coordinator, on any checkpoint.
PublishHistorical ==
    /\ \E k \in checkpoints : releases' = releases \cup {k}
    /\ UNCHANGED <<log, head, checkpoints, lease, phase, memory, session, learned>>

\* reconcile_published: confirm the announced release the caller names.
Reconcile ==
    /\ LeaseFree
    /\ \E n \in Steps : \E k \in releases :
          /\ LogEndsAt(n) /\ PublicationReads(n, {Confirmed(k)})
          /\ Unknown(n) /\ k = Committed(n)
          /\ Recorded(Confirmed(k)) \/ RecordingFailed(Confirmed(k))
    /\ UNCHANGED <<log, headDir, store, lease, phase, memory, session, learned>>

Next ==
    \/ \E c \in Processes :
          \/ StartRun(c) \/ Restore(c) \/ Close(c) \/ Crash(c) \/ Meddle(c)
          \/ TrainIntent(c) \/ TrainLearn(c) \/ TrainSave(c) \/ TrainCommit(c)
          \/ EnableHead(c) \/ Announce(c) \/ Release(c) \/ Confirm(c) \/ PublishPlain(c)
    \/ PublishHistorical
    \/ Reconcile

Spec == Init /\ [][Next]_vars

-----------------------------------------------------------------------------
(* Properties                                                              *)

\* No step of the run is trained twice, by the same or by another process,
\* before or after any crash (learner.py:1-6, never retries an uncertain
\* training operation).
TrainedOnce == \A n \in Steps : learned[n] <= 1

\* What the log commits is in the store, extends the commit before it by one
\* update, and holds updates of the run only, whatever others did to the session
\* in the meantime (learner_release_store.py:354-426).
LogIsTrained ==
    /\ \A k \in checkpoints : \A i \in 1..Len(k) : k[i] # Foreign
    /\ releases \subseteq checkpoints
    /\ \A n \in Steps : commits[n] \notin {None, Torn} =>
          /\ commits[n] \in checkpoints
          /\ Len(commits[n]) = n
          /\ n > 1 => commits[n - 1] = SubSeq(commits[n], 1, n - 1)

\* A confirmed step was announced and committed, its release is in the store, and
\* so is every step before it: the head never skips (release_head.py:72-106).
HeadIsCertified ==
    \A k \in checkpoints : Confirmed(k) \in records =>
        /\ Announced(k) \in records
        /\ k \in releases
        /\ commits[Len(k)] = k
        /\ \A i \in 1..Len(k) : Confirmed(SubSeq(k, 1, i)) \in records

\* A coordinator between operations remembers the run as the disk has it, up to
\* and excluding anything unresolved: nobody else moved it (learner.py:201-228).
LiveIsCurrent ==
    \A c \in Processes : phase[c] = "idle" =>
        /\ lease = c
        /\ \A n \in Steps :
              IF n <= Len(parent[c]) THEN commits[n] = SubSeq(parent[c], 1, n)
                                     ELSE intents[n] = None /\ commits[n] = None
        /\ cache[c] # << >> => Confirmed(cache[c]) \in records

\* The run on disk implements the ledger: its history is the last whole commit,
\* its published prefix the confirmed records.
Whole == {n \in Steps : commits[n] \notin {None, Torn}}
History ==
    IF Whole = {} THEN << >> ELSE commits[CHOOSE n \in Whole : \A i \in Whole : i <= n]
Published == Cardinality({n \in Whole : Confirmed(commits[n]) \in records})

Promise == INSTANCE Ledger WITH
    trained <- History, tracked <- Mode \in records, published <- Published

\* Every step of the run is a step of the ledger or leaves it alone.
ImplementsLedger == Promise!Spec
=============================================================================
