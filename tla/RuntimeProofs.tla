---------------------------- MODULE RuntimeProofs ----------------------------
(***************************************************************************)
(* Theorems about Runtime, for every set of sessions, events, names and    *)
(* releases and every capacity.                                            *)
(***************************************************************************)
EXTENDS Runtime, FiniteSetTheorems, TLAPS

-----------------------------------------------------------------------------
(* The values the actions build have their types.                          *)

\* A new adapter's state.
LEMMA FreshEngineType == \A o \in Origins : FreshEngine(o) \in EngineStates
  BY RuntimeAssumption DEF FreshEngine, EngineStates

\* A new logical state, whose identity the create checks have accepted.
LEMMA FreshLogicalType ==
  ASSUME NEW r \in {"theorem", "learner", "actor"}, NEW t \in Theorems \cup {None},
         NEW o \in Origins, Identity(r, t, o)
  PROVE  FreshLogical(r, t, o) \in LogicalStates /\ RoleConsistent(FreshLogical(r, t, o))
<1>1. FreshLogical(r, t, o) \in LogicalStates
  BY DEF FreshLogical, LogicalStates
<1>2. /\ FreshLogical(r, t, o).role = r /\ FreshLogical(r, t, o).theorem = t
      /\ FreshLogical(r, t, o).lineage = o /\ FreshLogical(r, t, o).completed = FALSE
  BY DEF FreshLogical
<1>3. RoleConsistent(FreshLogical(r, t, o))
  BY <1>2 DEF RoleConsistent, Identity
<1>4. QED
  BY <1>1, <1>3

\* What a learn call may leave in the backend.
LEMMA LearnedEngineType ==
  ASSUME NEW g \in EngineStates, NEW e \in EventIds, NEW p \in Payloads
  PROVE  Train(g, e, p) \in EngineStates /\ Torn(g) \in EngineStates
<1>1. g.steps + 1 \in Nat /\ g.trained \cup {<<e, p>>} \in SUBSET Updates
  BY DEF EngineStates, Updates
<1>2. Train(g, e, p) \in EngineStates
  BY <1>1 DEF Train, EngineStates
<1>3. Torn(g) \in EngineStates
  BY DEF Torn, EngineStates
<1>4. QED
  BY <1>2, <1>3

\* What a learn call may leave in the session store.
LEMMA LearnedLogicalType ==
  ASSUME NEW l \in LogicalStates, RoleConsistent(l), NEW e \in EventIds, NEW p \in Payloads
  PROVE  /\ Consume(l, e, p) \in LogicalStates /\ RoleConsistent(Consume(l, e, p))
         /\ [l EXCEPT !.pending = @ \cup {e}] \in LogicalStates
         /\ RoleConsistent([l EXCEPT !.pending = @ \cup {e}])
<1>1. l.version + 1 \in Nat /\ l.receipts \cup {<<e, p>>} \in SUBSET Updates
  BY DEF LogicalStates, Updates
<1>2. Consume(l, e, p) \in LogicalStates
  BY <1>1 DEF Consume, LogicalStates
<1>3. RoleConsistent(Consume(l, e, p))
  BY DEF Consume, LogicalStates, RoleConsistent
<1>4. [l EXCEPT !.pending = @ \cup {e}] \in LogicalStates
  BY DEF LogicalStates
<1>5. RoleConsistent([l EXCEPT !.pending = @ \cup {e}])
  BY DEF LogicalStates, RoleConsistent
<1>6. QED
  BY <1>2, <1>3, <1>4, <1>5

\* The state a snapshot records, marked completed or not.
LEMMA CertifiedLogicalType ==
  ASSUME NEW l \in LogicalStates, RoleConsistent(l), NEW f \in BOOLEAN, f => MayCertify(l)
  PROVE  Certified(l, f) \in LogicalStates /\ RoleConsistent(Certified(l, f))
  BY DEF Certified, LogicalStates, RoleConsistent, MayCertify

\* Images are built from typed halves.
LEMMA ImageType ==
  ASSUME NEW l \in LogicalStates, NEW g \in EngineStates, NEW c \in BOOLEAN
  PROVE  /\ Image(l, g, c) \in Images
         /\ Image(l, g, c).logical = l /\ Image(l, g, c).engine = g
  BY DEF Image, Images

\* A sampled engine differs in its RNG position only.
LEMMA SampledType ==
  ASSUME NEW s \in Sessions, engine \in [Sessions -> EngineStates \cup {None}],
         engine[s] # None, Sampled(s)
  PROVE  /\ engine' \in [Sessions -> EngineStates \cup {None}]
         /\ engine'[s] \in EngineStates
         /\ engine'[s].steps = engine[s].steps /\ engine'[s].trained = engine[s].trained
         /\ engine'[s].torn = engine[s].torn /\ engine'[s].base = engine[s].base
         /\ \A t \in Sessions : t # s => engine'[t] = engine[t]
  <1>1. engine[s] \in EngineStates
    OBVIOUS
  <1>2. PICK d \in 0..MaxDraws : engine' = [engine EXCEPT ![s].draws = d]
    BY DEF Sampled
  <1>3. [engine[s] EXCEPT !.draws = d] \in EngineStates
    BY <1>1, <1>2 DEF EngineStates
  <1>4. engine'[s] = [engine[s] EXCEPT !.draws = d]
    BY <1>2
  <1>5. QED
    BY <1>1, <1>2, <1>3, <1>4 DEF EngineStates

-----------------------------------------------------------------------------
(* Type correctness.                                                       *)

CacheType ==
    /\ reuseRevision \in 0..MaxRevision
    /\ revision \in [Sessions -> 0..MaxRevision]
    /\ witness \in [Sessions -> Witnesses \cup {None}]

\* Giving up a witness keeps the bookkeeping typed, and drops the witness.
LEMMA InvalidateFacts ==
  ASSUME CacheType, NEW s \in Sessions,
         Invalidate(s) \/ \E R \in SUBSET Sessions : InvalidateAndForget(s, R)
  PROVE  CacheType' /\ witness' = [witness EXCEPT ![s] = None] /\ witness'[s] = None
<1> USE RuntimeAssumption DEF CacheType, Bump, Bumped
<1>1. CASE Invalidate(s)
  <2>1. reuseRevision' \in 0..MaxRevision
    BY <1>1 DEF Invalidate
  <2>2. revision' \in [Sessions -> 0..MaxRevision]
    BY <1>1 DEF Invalidate
  <2>3. QED
    BY <1>1, <2>1, <2>2 DEF Invalidate
<1>2. ASSUME NEW R \in SUBSET Sessions, InvalidateAndForget(s, R)
      PROVE  CacheType' /\ witness' = [witness EXCEPT ![s] = None] /\ witness'[s] = None
  <2>1. reuseRevision' \in 0..MaxRevision
    BY <1>2 DEF InvalidateAndForget
  <2>2. revision' \in [Sessions -> 0..MaxRevision]
    BY <1>2 DEF InvalidateAndForget
  <2>3. QED
    BY <1>2, <2>1, <2>2 DEF InvalidateAndForget
<1>3. QED
  BY <1>1, <1>2

\* Giving the slot of a new session its revision keeps the bookkeeping typed.
LEMMA AllocateFacts ==
  ASSUME CacheType, NEW s \in Sessions, Bump(s, resident \cup {s}),
         revision' = Bumped(s, resident \cup {s}), witness' = [witness EXCEPT ![s] = None]
  PROVE  CacheType' /\ witness'[s] = None
  BY RuntimeAssumption DEF CacheType, Bump, Bumped

StateType ==
    /\ engine \in [Sessions -> EngineStates \cup {None}]
    /\ adapters \subseteq Sessions
    /\ logical \in [Sessions -> LogicalStates \cup {None}]
    /\ resident \subseteq Sessions /\ unusable \subseteq Sessions /\ retired \subseteq Sessions
    /\ \A s \in Sessions : logical[s] # None => RoleConsistent(logical[s])

DiskType ==
    /\ snapshot \in [Sessions -> [Names -> Images \cup {None}]]
    /\ prepared \in [Sessions -> Receipts \cup {None}]
    /\ released \in [Sessions -> Receipts \cup {None}]
    /\ experience \in [Experiences -> Releasable \cup {None}]
    /\ \A s \in Sessions, n \in Names :
           snapshot[s][n] # None => RoleConsistent(snapshot[s][n].logical)

\* The three groups of variables make up the type invariant.
LEMMA TypeParts ==
  /\ TypeOK <=> StateType /\ DiskType /\ CacheType
  /\ TypeOK' <=> StateType' /\ DiskType' /\ CacheType'
  BY DEF TypeOK, StateType, DiskType, CacheType

\* Replacing the two halves of one session by typed ones keeps the state typed.
LEMMA StateStep ==
  ASSUME StateType, NEW s \in Sessions,
         NEW g \in EngineStates \cup {None}, NEW l \in LogicalStates \cup {None},
         l # None => RoleConsistent(l),
         engine' = [engine EXCEPT ![s] = g], logical' = [logical EXCEPT ![s] = l],
         adapters' \subseteq adapters \cup {s}, resident' \subseteq resident \cup {s},
         unusable' \subseteq unusable \cup {s}, retired' \subseteq retired \cup {s}
  PROVE  StateType'
  BY DEF StateType

\* Saving an image of one session keeps the disk typed.
LEMMA DiskStep ==
  ASSUME DiskType, NEW s \in Sessions, NEW n \in Names, NEW im \in Images,
         RoleConsistent(im.logical),
         snapshot' = [snapshot EXCEPT ![s][n] = im],
         prepared' \in [Sessions -> Receipts \cup {None}],
         released' \in [Sessions -> Receipts \cup {None}],
         experience' = experience
  PROVE  DiskType'
<1>1. snapshot' \in [Sessions -> [Names -> Images \cup {None}]]
  BY DEF DiskType
<1>2. \A t \in Sessions, m \in Names :
         snapshot'[t][m] = IF t = s /\ m = n THEN im ELSE snapshot[t][m]
  BY DEF DiskType
<1>3. QED
  BY <1>1, <1>2 DEF DiskType

\* No create disturbs a type.
LEMMA CreateType ==
  ASSUME TypeOK, NEW s \in Sessions, NEW r \in {"theorem", "learner", "actor"},
         NEW t \in Theorems \cup {None}, NEW o \in Origins, CreateSession(s, r, t, o)
  PROVE  TypeOK'
<1> StateType /\ DiskType /\ CacheType
  BY TypeParts
<1>1. CASE Created(s, r, t, o)
  <2>1. FreshEngine(o) \in EngineStates /\ FreshLogical(r, t, o) \in LogicalStates
        /\ RoleConsistent(FreshLogical(r, t, o))
    BY FreshEngineType, FreshLogicalType DEF CreateSession
  <2>2. CacheType'
    BY <1>1, AllocateFacts DEF Created
  <2>3. StateType'
    BY <1>1, <2>1, StateStep DEF Created
  <2>4. DiskType'
    BY <1>1 DEF Created, diskVars, DiskType
  <2>5. QED
    BY <2>2, <2>3, <2>4, TypeParts
<1>2. CASE CreateQuarantined(s)
  <2>1. CacheType'
    BY <1>2, AllocateFacts DEF CreateQuarantined
  <2>2. StateType' /\ DiskType'
    BY <1>2 DEF CreateQuarantined, StateType, DiskType, diskVars
  <2>3. QED
    BY <2>1, <2>2, TypeParts
<1>3. CASE CreateCleanedUp(s)
  <2>1. CacheType'
    BY <1>3, InvalidateFacts DEF CreateCleanedUp, StateType
  <2>2. StateType' /\ DiskType'
    BY <1>3 DEF CreateCleanedUp, StateType, DiskType, diskVars, backendVars, ownerVars
  <2>3. QED
    BY <2>1, <2>2, TypeParts
<1>4. QED
  BY <1>1, <1>2, <1>3 DEF CreateSession

\* No delete disturbs a type.
LEMMA DeleteType ==
  ASSUME TypeOK, NEW s \in Sessions, DeleteSession(s)
  PROVE  TypeOK'
<1> StateType /\ DiskType /\ CacheType
  BY TypeParts
<1>1. CacheType'
  BY InvalidateFacts DEF DeleteSession, Deleted, DeleteLosesEngine, OnlyInvalidates, StateType
<1>2. StateType'
  BY DEF DeleteSession, Deleted, DeleteLosesEngine, OnlyInvalidates, StateType,
         backendVars, ownerVars
<1>3. DiskType'
  BY DEF DeleteSession, Deleted, DeleteLosesEngine, OnlyInvalidates, DiskType, diskVars
<1>4. QED
  BY <1>1, <1>2, <1>3, TypeParts

\* Giving up the witness disturbs no type.
LEMMA OnlyInvalidatesType ==
  ASSUME TypeOK, NEW s \in Sessions, OnlyInvalidates(s)
  PROVE  TypeOK'
  BY TypeParts, InvalidateFacts
  DEF OnlyInvalidates, StateType, DiskType, backendVars, ownerVars, diskVars

\* No generation or scoring disturbs a type.
LEMMA PolicyType ==
  ASSUME TypeOK, NEW s \in Sessions, Policy(s)
  PROVE  TypeOK'
<1> StateType /\ DiskType /\ CacheType
  BY TypeParts
<1>1. CacheType' /\ DiskType'
  BY InvalidateFacts DEF Policy, DiskType, diskVars
<1>2. engine' \in [Sessions -> EngineStates \cup {None}]
  BY SampledType DEF Policy, StateType
<1>3. StateType'
  BY <1>2 DEF Policy, StateType, ownerVars
<1>4. QED
  BY <1>1, <1>3, TypeParts

\* No learn call, applied, rolled back or quarantined, disturbs a type.
LEMMA LearnType ==
  ASSUME TypeOK, NEW s \in Sessions, NEW e \in EventIds, NEW p \in Payloads,
         NEW v \in 0..Cardinality(EventIds), Learn(s, e, p, v)
  PROVE  TypeOK'
<1> StateType /\ DiskType /\ CacheType
  BY TypeParts
<1>1. CASE OnlyInvalidates(s)
  BY <1>1, OnlyInvalidatesType
<1>2. CASE /\ MayLearn(s, e, p, v) /\ Invalidate(s)
           /\ LearnApplied(s, e, p) \/ LearnFailed(s, e, p)
           /\ UNCHANGED <<adapters, resident, retired, diskVars>>
  <2>1. /\ logical[s] \in LogicalStates /\ RoleConsistent(logical[s])
        /\ engine[s] \in EngineStates
    BY <1>2 DEF Learn, Usable, MayLearn, StateType
  <2> DEFINE marked == [logical[s] EXCEPT !.pending = @ \cup {e}]
  <2>2. /\ Train(engine[s], e, p) \in EngineStates /\ Torn(engine[s]) \in EngineStates
        /\ Consume(logical[s], e, p) \in LogicalStates
        /\ RoleConsistent(Consume(logical[s], e, p))
        /\ marked \in LogicalStates /\ RoleConsistent(marked)
    BY <2>1, LearnedEngineType, LearnedLogicalType
  <2> HIDE DEF marked
  <2>3. ASSUME LearnApplied(s, e, p) PROVE StateType'
    BY <1>2, <2>1, <2>2, <2>3, StateStep DEF LearnApplied, StateType
  <2>4. ASSUME LearnFailed(s, e, p) PROVE StateType'
    <3>1. Rollback(s, engine[s], logical[s],
             {engine[s], Torn(engine[s]), Train(engine[s], e, p)}, marked)
      BY <2>4 DEF LearnFailed, marked
    <3>2. \E g \in EngineStates, l \in {logical[s], marked} :
             /\ engine' = [engine EXCEPT ![s] = g]
             /\ logical' = [logical EXCEPT ![s] = l]
             /\ unusable' \subseteq unusable \cup {s}
      BY <2>1, <2>2, <3>1 DEF Rollback
    <3>3. QED
      BY <1>2, <2>1, <2>2, <3>2, StateStep
  <2>5. StateType'
    BY <1>2, <2>3, <2>4
  <2>6. CacheType' /\ DiskType'
    BY <1>2, InvalidateFacts DEF DiskType, diskVars
  <2>7. QED
    BY <2>5, <2>6, TypeParts
<1>3. QED
  BY <1>1, <1>2 DEF Learn

\* No snapshot disturbs a type.
LEMMA SnapshotType ==
  ASSUME TypeOK, NEW s \in Sessions, NEW n \in Names, NEW f \in BOOLEAN, Snapshot(s, n, f)
  PROVE  TypeOK'
<1> StateType /\ DiskType /\ CacheType
  BY TypeParts
<1>1. CASE OnlyInvalidates(s)
  BY <1>1, OnlyInvalidatesType
<1>2. CASE SnapshotTaken(s, n, f)
  <2> DEFINE l == Certified(logical[s], f)
             im == Image(l, engine[s], f)
             rev == Bumped(s, resident)[s]
  <2>1. /\ logical[s] \in LogicalStates /\ RoleConsistent(logical[s])
        /\ engine[s] \in EngineStates
        /\ f => MayCertify(logical[s])
    BY <1>2 DEF Snapshot, Usable, SnapshotTaken, StateType
  <2>2. l \in LogicalStates /\ RoleConsistent(l)
    BY <2>1, CertifiedLogicalType
  <2>3. im \in Images /\ im.logical = l
    BY <2>1, <2>2, ImageType
  <2>4. /\ engine' = [engine EXCEPT ![s] = engine[s]]
        /\ logical' = [logical EXCEPT ![s] = l]
        /\ UNCHANGED <<adapters, ownerVars, prepared, released, experience>>
        /\ snapshot' = [snapshot EXCEPT ![s][n] = im]
    BY <1>2 DEF SnapshotTaken, backendVars, StateType
  <2>5. /\ Bump(s, resident) /\ revision' = Bumped(s, resident)
        /\ \E w \in {None, [name |-> n, revision |-> rev, image |-> im]} :
               witness' = [witness EXCEPT ![s] = w]
    BY <1>2 DEF SnapshotTaken
  <2> HIDE DEF l, im
  <2>6. StateType'
    BY <2>1, <2>2, <2>4, StateStep DEF ownerVars
  <2>7. DiskType'
    BY <2>2, <2>3, <2>4, DiskStep DEF DiskType
  <2>8. reuseRevision' \in 0..MaxRevision /\ revision' \in [Sessions -> 0..MaxRevision]
    BY <2>5, RuntimeAssumption DEF Bump, Bumped, CacheType
  <2>9. rev = revision'[s] /\ rev \in Nat
    BY <2>5, <2>8, RuntimeAssumption
  <2> HIDE DEF rev
  <2>10. [name |-> n, revision |-> rev, image |-> im] \in Witnesses
    BY <2>3, <2>9 DEF Witnesses
  <2>11. CacheType'
    BY <2>5, <2>8, <2>10 DEF CacheType
  <2>12. QED
    BY <2>6, <2>7, <2>11, TypeParts
<1>3. QED
  BY <1>1, <1>2 DEF Snapshot

\* No publication disturbs a type.
LEMMA PublishType ==
  ASSUME TypeOK, NEW s \in Sessions, NEW n \in Names, NEW x \in Experiences,
         PublishExperience(s, n, x)
  PROVE  TypeOK'
<1> StateType /\ DiskType /\ CacheType
  BY TypeParts
<1>1. CASE OnlyInvalidates(s)
  BY <1>1, OnlyInvalidatesType
<1>2. CASE ~OnlyInvalidates(s)
  <2>1. /\ Invalidate(s) /\ UNCHANGED <<backendVars, logical, ownerVars, snapshot, prepared, released>>
        /\ snapshot[s][n] # None /\ Publishable(snapshot[s][n])
        /\ experience' = [experience EXCEPT ![x] =
              [session |-> s, theorem |-> snapshot[s][n].logical.theorem, name |-> n]]
    BY <1>2 DEF PublishExperience
  <2>2. snapshot[s][n].logical.theorem \in Theorems
    BY <2>1 DEF DiskType, Publishable, Images, LogicalStates
  <2>3. [session |-> s, theorem |-> snapshot[s][n].logical.theorem, name |-> n] \in Releasable
    BY <2>2 DEF Releasable
  <2>4. DiskType'
    BY <2>1, <2>3 DEF DiskType
  <2>5. StateType' /\ CacheType'
    BY <2>1, InvalidateFacts DEF StateType, backendVars, ownerVars
  <2>6. QED
    BY <2>4, <2>5, TypeParts
<1>3. QED
  BY <1>1, <1>2

\* No restore, done, rolled back or quarantined, disturbs a type.
LEMMA RestoreType ==
  ASSUME TypeOK, NEW s \in Sessions, NEW n \in Names, Restore(s, n)
  PROVE  TypeOK'
<1> StateType /\ DiskType /\ CacheType
  BY TypeParts
<1>1. CASE OnlyInvalidates(s)
  BY <1>1, OnlyInvalidatesType
<1>2. CASE ~OnlyInvalidates(s)
  <2> DEFINE im == snapshot[s][n]
  <2>1. /\ logical[s] \in LogicalStates /\ RoleConsistent(logical[s])
        /\ engine[s] \in EngineStates
        /\ im \in Images /\ RoleConsistent(im.logical)
    BY <1>2 DEF Restore, Usable, StateType, DiskType
  <2>2. im.logical \in LogicalStates /\ im.engine \in EngineStates
    BY <2>1 DEF Images
  <2>3. /\ Invalidate(s) /\ UNCHANGED <<adapters, resident, retired, diskVars>>
        /\ \/ Restored(s, im)
           \/ Rollback(s, engine[s], logical[s], {engine[s], Torn(engine[s])}, logical[s])
    BY <1>2 DEF Restore
  <2> HIDE DEF im
  <2>4. Torn(engine[s]) \in EngineStates
    BY <2>1 DEF Torn, EngineStates
  <2>5. ASSUME Restored(s, im) PROVE StateType'
    BY <2>1, <2>2, <2>3, <2>5, StateStep DEF Restored
  <2>6. ASSUME Rollback(s, engine[s], logical[s], {engine[s], Torn(engine[s])}, logical[s])
        PROVE  StateType'
    <3>1. \E g \in EngineStates :
             /\ engine' = [engine EXCEPT ![s] = g]
             /\ logical' = [logical EXCEPT ![s] = logical[s]]
             /\ unusable' \subseteq unusable \cup {s}
      BY <2>1, <2>4, <2>6 DEF Rollback
    <3>2. QED
      BY <2>1, <2>3, <3>1, StateStep
  <2>7. StateType'
    BY <2>3, <2>5, <2>6
  <2>8. CacheType' /\ DiskType'
    BY <2>3, InvalidateFacts DEF DiskType, diskVars
  <2>9. QED
    BY <2>7, <2>8, TypeParts
<1>3. QED
  BY <1>1, <1>2

\* What a retirement saves is the live state of a usable session.
LEMMA FinalImageFacts ==
  ASSUME TypeOK, NEW s \in Sessions, NEW n \in Names, NEW v \in 0..Cardinality(EventIds),
         NEW reuse \in BOOLEAN, RetireSession(s, n, v, reuse)
  PROVE  /\ logical[s] \in LogicalStates /\ RoleConsistent(logical[s])
         /\ logical[s] # None /\ s \notin retired /\ s \notin unusable
         /\ FinalImage(s, reuse) \in Images
         /\ FinalImage(s, reuse).logical = logical[s]
         /\ Receipt(s, n, reuse) \in Receipts
         /\ Receipt(s, n, reuse).name = n
         /\ Receipt(s, n, reuse).image = FinalImage(s, reuse)
         /\ reuse => WitnessMatches(s, n)
         /\ ~reuse => engine[s] # None /\ FreeName(s, n)
         /\ ~reuse => FinalImage(s, reuse).engine = engine[s]
<1> StateType /\ DiskType /\ CacheType
  BY TypeParts
<1>1. /\ logical[s] \in LogicalStates /\ RoleConsistent(logical[s])
      /\ logical[s] # None /\ s \notin retired /\ s \notin unusable
  BY DEF RetireSession, MayRetire, Usable, StateType
<1>2. /\ reuse => WitnessMatches(s, n)
      /\ ~reuse => engine[s] # None /\ FreeName(s, n)
  BY DEF RetireSession
<1>3. /\ FinalImage(s, reuse) \in Images
      /\ FinalImage(s, reuse).logical = logical[s]
      /\ ~reuse => FinalImage(s, reuse).engine = engine[s]
  <2>1. CASE reuse
    BY <1>2, <2>1 DEF WitnessMatches, FinalImage, CacheType, Witnesses
  <2>2. CASE ~reuse
    <3>1. engine[s] \in EngineStates
      BY <1>2, <2>2 DEF StateType
    <3>2. FinalImage(s, reuse) = Image(logical[s], engine[s], FALSE)
      BY <2>2 DEF FinalImage
    <3>3. /\ Image(logical[s], engine[s], FALSE) \in Images
          /\ Image(logical[s], engine[s], FALSE).logical = logical[s]
          /\ Image(logical[s], engine[s], FALSE).engine = engine[s]
      BY <1>1, <3>1, ImageType
    <3>4. QED
      BY <3>2, <3>3
  <2>3. QED
    BY <2>1, <2>2
<1>4. /\ Receipt(s, n, reuse) \in Receipts
      /\ Receipt(s, n, reuse).name = n
      /\ Receipt(s, n, reuse).image = FinalImage(s, reuse)
  BY <1>1, <1>3 DEF Receipt, Receipts, LogicalStates
<1>5. QED
  BY <1>1, <1>2, <1>3, <1>4

\* No retirement, complete or not, disturbs a type.
LEMMA RetireType ==
  ASSUME TypeOK, NEW s \in Sessions, NEW n \in Names, NEW v \in 0..Cardinality(EventIds),
         NEW reuse \in BOOLEAN, RetireSession(s, n, v, reuse)
  PROVE  TypeOK'
<1> DEFINE im == FinalImage(s, reuse)
           rc == Receipt(s, n, reuse)
<1>0. StateType /\ DiskType /\ CacheType
  BY TypeParts
<1>1. im \in Images /\ RoleConsistent(im.logical) /\ rc \in Receipts /\ logical[s] # None
  BY FinalImageFacts
<1> HIDE DEF im, rc
<1>2. CASE RetireAborted(s, n, reuse)
  <2>1. snapshot' = snapshot \/ snapshot' = [snapshot EXCEPT ![s][n] = im]
    BY <1>2 DEF RetireAborted, im
  <2>2. prepared' = prepared /\ released' = released /\ experience' = experience
    BY <1>2 DEF RetireAborted
  <2>3. DiskType'
    BY <1>0, <1>1, <2>1, <2>2, DiskStep DEF DiskType
  <2>4. StateType' /\ CacheType'
    BY <1>0, <1>2, InvalidateFacts DEF RetireAborted, StateType, backendVars, ownerVars
  <2>5. QED
    BY <2>3, <2>4, TypeParts
<1>3. CASE ~RetireAborted(s, n, reuse)
  <2>1. /\ snapshot' = [snapshot EXCEPT ![s][n] = im]
        /\ retired' = retired \cup {s} /\ experience' = experience
        /\ \/ RetirePrepareFailed(s, n, reuse)
           \/ RetireDeleteFailed(s, n, reuse)
           \/ RetireReleased(s, n, reuse)
    BY <1>3 DEF RetireSession, im
  <2>2. /\ prepared' \in {prepared, [prepared EXCEPT ![s] = rc]}
        /\ released' \in {released, [released EXCEPT ![s] = rc]}
    BY <2>1 DEF RetirePrepareFailed, RetireDeleteFailed, RetireReleased, rc
  <2>3. DiskType'
    <3>1. /\ prepared' \in [Sessions -> Receipts \cup {None}]
          /\ released' \in [Sessions -> Receipts \cup {None}]
      BY <1>0, <1>1, <2>2 DEF DiskType
    <3>2. QED
      BY <1>0, <1>1, <2>1, <3>1, DiskStep
  <2>4. StateType'
    BY <1>0, <2>1 DEF RetirePrepareFailed, RetireDeleteFailed, RetireReleased, StateType, backendVars
  <2>5. CacheType'
    BY <1>0, <2>1, InvalidateFacts
    DEF RetirePrepareFailed, RetireDeleteFailed, RetireReleased, StateType
  <2>6. QED
    BY <2>3, <2>4, <2>5, TypeParts
<1>4. QED
  BY <1>2, <1>3

\* Type correctness is inductive.
LEMMA TypeStep == TypeOK /\ [Next]_vars => TypeOK'
<1> SUFFICES ASSUME TypeOK, [Next]_vars PROVE TypeOK'
  OBVIOUS
<1>1. ASSUME NEW s \in Sessions, SessionStep(s) PROVE TypeOK'
  <2>1. CASE \E r \in {"theorem", "learner", "actor"}, t \in Theorems \cup {None}, o \in Origins :
               CreateSession(s, r, t, o)
    BY <2>1, CreateType
  <2>2. CASE DeleteSession(s)
    BY <2>2, DeleteType
  <2>3. CASE Policy(s) \/ Value(s)
    BY <2>3, PolicyType DEF Value
  <2>4. CASE InspectBackend(s)
    BY <2>4, OnlyInvalidatesType DEF InspectBackend
  <2>5. CASE \E e \in EventIds, p \in Payloads, v \in 0..Cardinality(EventIds) : Learn(s, e, p, v)
    BY <2>5, LearnType
  <2>6. CASE \E n \in Names, f \in BOOLEAN : Snapshot(s, n, f)
    BY <2>6, SnapshotType
  <2>7. CASE \E n \in Names, x \in Experiences : PublishExperience(s, n, x)
    BY <2>7, PublishType
  <2>8. CASE \E n \in Names : Restore(s, n)
    BY <2>8, RestoreType
  <2>9. CASE \E n \in Names, v \in 0..Cardinality(EventIds), reuse \in BOOLEAN :
               RetireSession(s, n, v, reuse)
    BY <2>9, RetireType
  <2>10. QED
    BY <1>1, <2>1, <2>2, <2>3, <2>4, <2>5, <2>6, <2>7, <2>8, <2>9 DEF SessionStep
<1>2. CASE UNCHANGED vars
  BY <1>2 DEF vars, backendVars, ownerVars, reuseVars, diskVars, TypeOK
<1>3. QED
  BY <1>1, <1>2 DEF Next

\* Every reachable state is typed, and every state the runtime holds or has
\* written has an identity it would accept again on restore.
THEOREM TypeCorrect == Spec => []TypeOK
<1>1. Init => TypeOK
  BY RuntimeAssumption DEF Init, TypeOK
<1>2. QED
  BY <1>1, TypeStep, PTL DEF Spec

-----------------------------------------------------------------------------
(* Capacity.                                                               *)

\* CapacityHeld is not inductive alone: a session could lose its slot while the
\* store still serves it, and quarantining it later would take a second one.
CapacityInv ==
    /\ CapacityHeld
    /\ \A s \in Sessions : logical[s] # None => s \in resident

\* A step that hands out no slot keeps the capacity.
LEMMA SlotsShrink ==
  ASSUME TypeOK, CapacityInv,
         resident' \cup unusable' \subseteq resident \cup unusable,
         adapters' \subseteq resident' \cup unusable',
         \A s \in Sessions : logical'[s] # None => s \in resident'
  PROVE  CapacityInv'
<1>1. IsFiniteSet(resident \cup unusable)
  BY FS_Subset, RuntimeAssumption DEF TypeOK
<1>2. /\ Cardinality(resident' \cup unusable') \in Nat
      /\ Cardinality(resident \cup unusable) \in Nat
      /\ Cardinality(resident' \cup unusable') <= Cardinality(resident \cup unusable)
  BY <1>1, FS_Subset, FS_CardinalityType
<1>3. QED
  BY <1>2, RuntimeAssumption DEF CapacityInv, CapacityHeld

\* A new slot is handed out only below the bound.
LEMMA SlotsGrow ==
  ASSUME TypeOK, CapacityInv, NEW s \in Sessions, MayAllocate(s),
         resident' \cup unusable' = resident \cup unusable \cup {s},
         adapters' \subseteq resident' \cup unusable',
         \A t \in Sessions : logical'[t] # None => t \in resident'
  PROVE  CapacityInv'
<1>1. IsFiniteSet(resident \cup unusable) /\ s \notin resident \cup unusable
  BY FS_Subset, RuntimeAssumption DEF TypeOK, MayAllocate
<1>2. Cardinality(resident' \cup unusable') = Cardinality(resident \cup unusable) + 1
  BY <1>1, FS_AddElement
<1>3. Cardinality(resident \cup unusable) < MaxResident
  BY DEF MayAllocate, Allocated
<1>4. Cardinality(resident \cup unusable) \in Nat
  BY <1>1, FS_CardinalityType
<1>5. QED
  BY <1>2, <1>3, <1>4, RuntimeAssumption DEF CapacityInv, CapacityHeld

\* Capacity is inductive: only create_session takes a slot, and every other
\* operation quarantines sessions that already hold one.
LEMMA CapacityStep == TypeOK /\ CapacityInv /\ [Next]_vars => CapacityInv'
<1> SUFFICES ASSUME TypeOK, CapacityInv, [Next]_vars PROVE CapacityInv'
  OBVIOUS
<1> USE DEF CapacityInv
<1>0. /\ adapters \subseteq resident \cup unusable
      /\ logical \in [Sessions -> LogicalStates \cup {None}]
  BY DEF CapacityHeld, TypeOK
<1>1. ASSUME NEW s \in Sessions, SessionStep(s) PROVE CapacityInv'
  <2>0. ASSUME OnlyInvalidates(s) PROVE CapacityInv'
    BY <1>0, <2>0, SlotsShrink DEF OnlyInvalidates, backendVars, ownerVars
  <2>1. ASSUME NEW r \in {"theorem", "learner", "actor"}, NEW t \in Theorems \cup {None},
               NEW o \in Origins, CreateSession(s, r, t, o)
        PROVE  CapacityInv'
    <3>1. MayAllocate(s)
      BY <2>1 DEF CreateSession
    <3>2. CASE Created(s, r, t, o)
      BY <1>0, <3>1, <3>2, SlotsGrow DEF Created
    <3>3. CASE CreateQuarantined(s)
      BY <1>0, <3>1, <3>3, SlotsGrow DEF CreateQuarantined
    <3>4. CASE CreateCleanedUp(s)
      BY <1>0, <3>4, SlotsShrink DEF CreateCleanedUp, backendVars, ownerVars
    <3>5. QED
      BY <2>1, <3>2, <3>3, <3>4 DEF CreateSession
  <2>2. CASE DeleteSession(s)
    <3>1. CASE Deleted(s)
      BY <1>0, <3>1, SlotsShrink DEF Deleted
    <3>2. CASE DeleteLosesEngine(s)
      BY <1>0, <3>2, SlotsShrink DEF DeleteLosesEngine, ownerVars
    <3>3. QED
      BY <2>0, <2>2, <3>1, <3>2 DEF DeleteSession
  <2>3. CASE Policy(s) \/ Value(s)
    BY <1>0, <2>3, SlotsShrink DEF Policy, Value, ownerVars
  <2>4. CASE InspectBackend(s)
    BY <2>0, <2>4 DEF InspectBackend
  <2>5. ASSUME NEW e \in EventIds, NEW p \in Payloads, NEW v \in 0..Cardinality(EventIds),
               Learn(s, e, p, v), ~OnlyInvalidates(s)
        PROVE  CapacityInv'
    <3>1. s \in resident
      BY <2>5 DEF Learn, Usable
    <3>2. /\ adapters' = adapters /\ resident' = resident
          /\ unusable' \subseteq unusable \cup {s}
      BY <2>5 DEF Learn, LearnApplied, LearnFailed, Rollback
    <3>3. \A t \in Sessions : t # s => logical'[t] = logical[t]
      BY <1>0, <2>5 DEF Learn, LearnApplied, LearnFailed, Rollback
    <3>4. unusable \subseteq unusable'
      BY <2>5 DEF Learn, LearnApplied, LearnFailed, Rollback
    <3>5. QED
      BY <1>0, <3>1, <3>2, <3>3, <3>4, SlotsShrink
  <2>6. ASSUME NEW n \in Names, NEW f \in BOOLEAN, Snapshot(s, n, f), ~OnlyInvalidates(s)
        PROVE  CapacityInv'
    <3>1. s \in resident
      BY <2>6 DEF Snapshot, Usable
    <3>2. /\ UNCHANGED <<adapters, resident, unusable>>
          /\ \A t \in Sessions : t # s => logical'[t] = logical[t]
      BY <1>0, <2>6 DEF Snapshot, SnapshotTaken, backendVars, ownerVars
    <3>3. QED
      BY <1>0, <3>1, <3>2, SlotsShrink
  <2>7. ASSUME NEW n \in Names, NEW x \in Experiences, PublishExperience(s, n, x)
        PROVE  CapacityInv'
    BY <1>0, <2>0, <2>7, SlotsShrink DEF PublishExperience, backendVars, ownerVars
  <2>8. ASSUME NEW n \in Names, Restore(s, n), ~OnlyInvalidates(s)
        PROVE  CapacityInv'
    <3>1. s \in resident
      BY <2>8 DEF Restore, Usable
    <3>2. /\ adapters' = adapters /\ resident' = resident
          /\ unusable' \subseteq unusable \cup {s} /\ unusable \subseteq unusable'
          /\ \A t \in Sessions : t # s => logical'[t] = logical[t]
      BY <1>0, <2>8 DEF Restore, Restored, Rollback
    <3>3. QED
      BY <1>0, <3>1, <3>2, SlotsShrink
  <2>9. ASSUME NEW n \in Names, NEW v \in 0..Cardinality(EventIds), NEW reuse \in BOOLEAN,
               RetireSession(s, n, v, reuse)
        PROVE  CapacityInv'
    <3>1. s \in resident
      BY <2>9, FinalImageFacts
    <3>2. CASE RetireAborted(s, n, reuse)
      BY <1>0, <3>2, SlotsShrink DEF RetireAborted, backendVars, ownerVars
    <3>3. CASE RetirePrepareFailed(s, n, reuse)
      BY <1>0, <3>1, <3>3, SlotsShrink DEF RetirePrepareFailed, backendVars
    <3>4. CASE RetireDeleteFailed(s, n, reuse)
      BY <1>0, <3>1, <3>4, SlotsShrink DEF RetireDeleteFailed
    <3>5. CASE RetireReleased(s, n, reuse)
      <4>1. /\ adapters' = adapters \ {s} /\ resident' = resident \ {s}
            /\ unusable' \subseteq unusable \cup {s} /\ unusable \subseteq unusable'
            /\ logical' = [logical EXCEPT ![s] = None]
        BY <3>5 DEF RetireReleased
      <4>2. QED
        BY <1>0, <3>1, <4>1, SlotsShrink
    <3>6. QED
      BY <2>9, <3>2, <3>3, <3>4, <3>5 DEF RetireSession
  <2>10. QED
    BY <1>1, <2>0, <2>1, <2>2, <2>3, <2>4, <2>5, <2>6, <2>7, <2>8, <2>9 DEF SessionStep
<1>2. CASE UNCHANGED vars
  BY <1>0, <1>2, SlotsShrink DEF vars, backendVars, ownerVars
<1>3. QED
  BY <1>1, <1>2 DEF Next

\* The strengthened invariant.
LEMMA CapacityInductive == Spec => []CapacityInv
<1>1. Init => CapacityInv
  <2>1. ASSUME Init PROVE resident \cup unusable = {} /\ adapters = {} /\ logical = [s \in Sessions |-> None]
    BY <2>1 DEF Init
  <2>2. QED
    BY <2>1, FS_EmptySet, RuntimeAssumption DEF CapacityInv, CapacityHeld
<1>2. QED
  BY <1>1, TypeCorrect, CapacityStep, PTL DEF Spec

\* However calls fail, the sessions that may hold GPU memory never outnumber
\* the configured capacity.
THEOREM CapacitySafe == Spec => []CapacityHeld
<1>1. CapacityInv => CapacityHeld
  BY DEF CapacityInv
<1>2. QED
  BY <1>1, CapacityInductive, PTL

-----------------------------------------------------------------------------
(* What a session is served with, what is left of it when it is released,  *)
(* and what a step may never do to it.                                     *)
(*                                                                         *)
(* An operation touches one session.  Frame says so once for all of them,  *)
(* and every argument below is then about the session that is touched.     *)

\* Everything of session t is as before.
Same(t) ==
    /\ engine'[t] = engine[t] /\ logical'[t] = logical[t]
    /\ revision'[t] = revision[t] /\ witness'[t] = witness[t]
    /\ snapshot'[t] = snapshot[t]
    /\ prepared'[t] = prepared[t] /\ released'[t] = released[t]
    /\ t \in adapters' <=> t \in adapters
    /\ t \in resident' <=> t \in resident
    /\ t \in unusable' <=> t \in unusable
    /\ t \in retired' <=> t \in retired

\* Giving up the witness of one session keeps those of the others.
LEMMA InvalidateFrame ==
  ASSUME TypeOK, NEW s \in Sessions, NEW t \in Sessions, t # s,
         Invalidate(s) \/ \E R \in SUBSET Sessions : InvalidateAndForget(s, R)
  PROVE  revision'[t] = revision[t] /\ witness'[t] = witness[t]
  BY DEF TypeOK, Invalidate, InvalidateAndForget, Bumped

\* A rollback touches its own session only.
LEMMA RollbackFrame ==
  ASSUME TypeOK, NEW s \in Sessions, NEW t \in Sessions, t # s,
         NEW og, NEW ol, NEW left, NEW l, Rollback(s, og, ol, left, l)
  PROVE  /\ engine'[t] = engine[t] /\ logical'[t] = logical[t]
         /\ t \in unusable' <=> t \in unusable
  BY DEF TypeOK, Rollback

\* An operation on one session leaves every other one alone.
LEMMA Frame ==
  ASSUME TypeOK, NEW s \in Sessions, NEW t \in Sessions, t # s, SessionStep(s)
  PROVE  Same(t)
<1> USE DEF TypeOK
<1>0. ASSUME OnlyInvalidates(s) PROVE Same(t)
  BY <1>0, InvalidateFrame DEF Same, OnlyInvalidates, backendVars, ownerVars, diskVars
<1>1. ASSUME NEW r \in {"theorem", "learner", "actor"}, NEW h \in Theorems \cup {None},
             NEW o \in Origins, CreateSession(s, r, h, o)
      PROVE  Same(t)
  <2>1. CASE Created(s, r, h, o)
    BY <2>1 DEF Same, Created, Bumped, diskVars
  <2>2. CASE CreateQuarantined(s)
    BY <2>2 DEF Same, CreateQuarantined, Bumped, diskVars
  <2>3. CASE CreateCleanedUp(s)
    BY <2>3, InvalidateFrame DEF Same, CreateCleanedUp, backendVars, ownerVars, diskVars
  <2>4. QED
    BY <1>1, <2>1, <2>2, <2>3 DEF CreateSession
<1>2. CASE DeleteSession(s)
  <2>1. CASE Deleted(s)
    BY <2>1, InvalidateFrame DEF Same, Deleted, diskVars
  <2>2. CASE DeleteLosesEngine(s)
    BY <2>2, InvalidateFrame DEF Same, DeleteLosesEngine, ownerVars, diskVars
  <2>3. QED
    BY <1>0, <1>2, <2>1, <2>2 DEF DeleteSession
<1>3. CASE Policy(s) \/ Value(s)
  <2>1. engine'[t] = engine[t]
    BY <1>3, SampledType DEF Policy, Value
  <2>2. revision'[t] = revision[t] /\ witness'[t] = witness[t]
    BY <1>3, InvalidateFrame DEF Policy, Value
  <2>3. UNCHANGED <<adapters, logical, ownerVars, diskVars>>
    BY <1>3 DEF Policy, Value
  <2>4. QED
    BY <2>1, <2>2, <2>3 DEF Same, ownerVars, diskVars
<1>4. CASE InspectBackend(s)
  BY <1>0, <1>4 DEF InspectBackend
<1>5. ASSUME NEW e \in EventIds, NEW p \in Payloads, NEW v \in 0..Cardinality(EventIds),
             Learn(s, e, p, v), ~OnlyInvalidates(s)
      PROVE  Same(t)
  <2>1. /\ Invalidate(s)
        /\ LearnApplied(s, e, p) \/ LearnFailed(s, e, p)
        /\ UNCHANGED <<adapters, resident, retired, diskVars>>
    BY <1>5 DEF Learn
  <2>2. revision'[t] = revision[t] /\ witness'[t] = witness[t]
    BY <1>5, InvalidateFrame DEF Learn
  <2>3. /\ engine'[t] = engine[t] /\ logical'[t] = logical[t]
        /\ t \in unusable' <=> t \in unusable
    BY <2>1, RollbackFrame DEF LearnApplied, LearnFailed
  <2>4. QED
    BY <1>5, <2>2, <2>3 DEF Same, Learn, diskVars
<1>6. ASSUME NEW n \in Names, NEW f \in BOOLEAN, Snapshot(s, n, f), ~OnlyInvalidates(s)
      PROVE  Same(t)
  BY <1>6 DEF Same, Snapshot, SnapshotTaken, Bumped, backendVars, ownerVars
<1>7. ASSUME NEW n \in Names, NEW x \in Experiences, PublishExperience(s, n, x)
      PROVE  Same(t)
  BY <1>0, <1>7, InvalidateFrame DEF Same, PublishExperience, backendVars, ownerVars
<1>8. ASSUME NEW n \in Names, Restore(s, n), ~OnlyInvalidates(s)
      PROVE  Same(t)
  <2>1. revision'[t] = revision[t] /\ witness'[t] = witness[t]
    BY <1>8, InvalidateFrame DEF Restore
  <2>2. /\ engine'[t] = engine[t] /\ logical'[t] = logical[t]
        /\ t \in unusable' <=> t \in unusable
    BY <1>8, RollbackFrame DEF Restore, Restored
  <2>3. QED
    BY <1>8, <2>1, <2>2 DEF Same, Restore, diskVars
<1>9. ASSUME NEW n \in Names, NEW v \in 0..Cardinality(EventIds), NEW reuse \in BOOLEAN,
             RetireSession(s, n, v, reuse)
      PROVE  Same(t)
  <2>1. revision'[t] = revision[t] /\ witness'[t] = witness[t]
    BY <1>9, InvalidateFrame
    DEF RetireSession, RetireAborted, RetirePrepareFailed, RetireDeleteFailed, RetireReleased
  <2> HIDE DEF TypeOK
  <2>2. /\ engine \in [Sessions -> EngineStates \cup {None}]
        /\ logical \in [Sessions -> LogicalStates \cup {None}]
        /\ snapshot \in [Sessions -> [Names -> Images \cup {None}]]
        /\ prepared \in [Sessions -> Receipts \cup {None}]
        /\ released \in [Sessions -> Receipts \cup {None}]
    BY DEF TypeOK
  <2>3. CASE RetireAborted(s, n, reuse)
    BY <2>1, <2>2, <2>3 DEF Same, RetireAborted, backendVars, ownerVars
  <2>4. CASE ~RetireAborted(s, n, reuse)
    <3>1. /\ snapshot' = [snapshot EXCEPT ![s][n] = FinalImage(s, reuse)]
          /\ retired' = retired \cup {s}
          /\ \/ RetirePrepareFailed(s, n, reuse)
             \/ RetireDeleteFailed(s, n, reuse)
             \/ RetireReleased(s, n, reuse)
      BY <1>9, <2>4 DEF RetireSession
    <3>2. QED
      BY <2>1, <2>2, <3>1
      DEF Same, RetirePrepareFailed, RetireDeleteFailed, RetireReleased, backendVars
  <2>5. QED
    BY <2>3, <2>4
<1>10. QED
  BY <1>0, <1>1, <1>2, <1>3, <1>4, <1>5, <1>6, <1>7, <1>8, <1>9 DEF SessionStep

-----------------------------------------------------------------------------
(* The reuse witness.                                                      *)

\* Every operation gives up the witness of its session; only a snapshot puts
\* a new one in its place.
LEMMA WitnessGivenUp ==
  ASSUME TypeOK, NEW s \in Sessions, SessionStep(s)
  PROVE  \/ witness'[s] = None
         \/ \E n \in Names, f \in BOOLEAN : Usable(s) /\ SnapshotTaken(s, n, f)
<1>0. ASSUME Invalidate(s) \/ \E R \in SUBSET Sessions : InvalidateAndForget(s, R)
      PROVE  witness'[s] = None
  BY <1>0, InvalidateFacts, TypeParts
<1>0a. resident \subseteq Sessions
  BY DEF TypeOK
<1>1. ASSUME NEW r \in {"theorem", "learner", "actor"}, NEW h \in Theorems \cup {None},
             NEW o \in Origins, CreateSession(s, r, h, o)
      PROVE  witness'[s] = None
  BY <1>0, <1>0a, <1>1 DEF TypeOK, CreateSession, Created, CreateQuarantined, CreateCleanedUp
<1>2. ASSUME DeleteSession(s) PROVE witness'[s] = None
  BY <1>0, <1>0a, <1>2 DEF DeleteSession, Deleted, DeleteLosesEngine, OnlyInvalidates
<1>3. ASSUME Policy(s) \/ Value(s) \/ InspectBackend(s) PROVE witness'[s] = None
  BY <1>0, <1>3 DEF Policy, Value, InspectBackend, OnlyInvalidates
<1>4. ASSUME NEW e \in EventIds, NEW p \in Payloads, NEW v \in 0..Cardinality(EventIds),
             Learn(s, e, p, v)
      PROVE  witness'[s] = None
  BY <1>0, <1>4 DEF Learn, OnlyInvalidates
<1>5. ASSUME NEW n \in Names, NEW f \in BOOLEAN, Snapshot(s, n, f)
      PROVE  witness'[s] = None \/ (Usable(s) /\ SnapshotTaken(s, n, f))
  BY <1>0, <1>5 DEF Snapshot, OnlyInvalidates
<1>6. ASSUME NEW n \in Names, NEW x \in Experiences, PublishExperience(s, n, x)
      PROVE  witness'[s] = None
  BY <1>0, <1>6 DEF PublishExperience, OnlyInvalidates
<1>7. ASSUME NEW n \in Names, Restore(s, n) PROVE witness'[s] = None
  BY <1>0, <1>7 DEF Restore, OnlyInvalidates
<1>8. ASSUME NEW n \in Names, NEW v \in 0..Cardinality(EventIds), NEW reuse \in BOOLEAN,
             RetireSession(s, n, v, reuse)
      PROVE  witness'[s] = None
  BY <1>0, <1>0a, <1>8
  DEF RetireSession, RetireAborted, RetirePrepareFailed, RetireDeleteFailed, RetireReleased
<1>9. QED
  BY <1>1, <1>2, <1>3, <1>4, <1>5, <1>6, <1>7, <1>8 DEF SessionStep

\* The witness a snapshot records describes the file and the live state.
LEMMA WitnessRecorded ==
  ASSUME TypeOK, NEW s \in Sessions, NEW n \in Names, NEW f \in BOOLEAN,
         Usable(s), SnapshotTaken(s, n, f), witness'[s] # None
  PROVE  /\ Usable(s)' /\ engine'[s] # None
         /\ witness'[s].revision = revision'[s]
         /\ snapshot'[s][witness'[s].name] = witness'[s].image
         /\ witness'[s].image.logical = logical'[s]
         /\ witness'[s].image.engine = engine'[s]
<1> DEFINE l  == Certified(logical[s], f)
           im == Image(l, engine[s], f)
           w  == [name |-> n, revision |-> Bumped(s, resident)[s], image |-> im]
<1>1. witness'[s] = w /\ revision' = Bumped(s, resident)
  BY DEF SnapshotTaken, TypeOK
<1>2. snapshot'[s][n] = im
  BY DEF SnapshotTaken, TypeOK
<1>3. logical'[s] = l /\ engine'[s] = engine[s] /\ engine[s] # None /\ unusable' = unusable
  BY DEF SnapshotTaken, TypeOK, backendVars, ownerVars
<1>4. im.logical = l /\ im.engine = engine[s]
  BY DEF Image
<1>5. logical'[s] # None
  <2>1. logical[s] \in LogicalStates /\ RoleConsistent(logical[s]) /\ (f => MayCertify(logical[s]))
    BY DEF Usable, TypeOK, SnapshotTaken
  <2>2. l \in LogicalStates
    BY <2>1, CertifiedLogicalType
  <2>3. QED
    BY <1>3, <2>2, NoneAssumption
<1>6. QED
  BY <1>1, <1>2, <1>3, <1>4, <1>5 DEF Usable

\* A witness that survives a step is one the step recorded or left alone.
LEMMA WitnessStep == TypeOK /\ WitnessIsLive /\ [Next]_vars => WitnessIsLive'
<1> SUFFICES ASSUME TypeOK, WitnessIsLive, [Next]_vars PROVE WitnessIsLive'
  OBVIOUS
<1>1. ASSUME NEW s \in Sessions, SessionStep(s), NEW t \in Sessions, witness'[t] # None
      PROVE  /\ Usable(t)' /\ engine'[t] # None
             /\ witness'[t].revision = revision'[t]
             /\ snapshot'[t][witness'[t].name] = witness'[t].image
             /\ witness'[t].image.logical = logical'[t]
             /\ witness'[t].image.engine = engine'[t]
  <2>1. CASE t = s
    BY <1>1, <2>1, WitnessGivenUp, WitnessRecorded
  <2>2. CASE t # s
    BY <1>1, <2>2, Frame DEF Same, WitnessIsLive, Usable
  <2>3. QED
    BY <2>1, <2>2
<1>2. CASE UNCHANGED vars
  BY <1>2 DEF vars, backendVars, ownerVars, reuseVars, diskVars, WitnessIsLive, Usable
<1>3. QED
  BY <1>1, <1>2 DEF Next, WitnessIsLive

\* Whatever operations run in between, a witness still held names a file that
\* equals the live state of a session that is served.
THEOREM WitnessSound == Spec => []WitnessIsLive
<1>1. Init => WitnessIsLive
  BY DEF Init, WitnessIsLive
<1>2. QED
  BY <1>1, TypeCorrect, WitnessStep, PTL DEF Spec

-----------------------------------------------------------------------------
(* Retirement.                                                             *)

\* A released record is written only by a retirement, with everything freed.
LEMMA ReleasedByRetirement ==
  ASSUME TypeOK, NEW s \in Sessions, SessionStep(s)
  PROVE  \/ /\ released' = released /\ prepared' = prepared
         \/ \E n \in Names, v \in 0..Cardinality(EventIds), reuse \in BOOLEAN :
                RetireSession(s, n, v, reuse)
<1> USE DEF diskVars, OnlyInvalidates
<1>1. ASSUME NEW r \in {"theorem", "learner", "actor"}, NEW h \in Theorems \cup {None},
             NEW o \in Origins, CreateSession(s, r, h, o)
      PROVE  released' = released /\ prepared' = prepared
  BY <1>1 DEF CreateSession, Created, CreateQuarantined, CreateCleanedUp
<1>2. ASSUME DeleteSession(s) PROVE released' = released /\ prepared' = prepared
  BY <1>2 DEF DeleteSession, Deleted, DeleteLosesEngine
<1>3. ASSUME Policy(s) \/ Value(s) \/ InspectBackend(s)
      PROVE  released' = released /\ prepared' = prepared
  BY <1>3 DEF Policy, Value, InspectBackend
<1>4. ASSUME NEW e \in EventIds, NEW p \in Payloads, NEW v \in 0..Cardinality(EventIds),
             Learn(s, e, p, v)
      PROVE  released' = released /\ prepared' = prepared
  BY <1>4 DEF Learn
<1>5. ASSUME NEW n \in Names, NEW f \in BOOLEAN, Snapshot(s, n, f)
      PROVE  released' = released /\ prepared' = prepared
  BY <1>5 DEF Snapshot, SnapshotTaken
<1>6. ASSUME NEW n \in Names, NEW x \in Experiences, PublishExperience(s, n, x)
      PROVE  released' = released /\ prepared' = prepared
  BY <1>6 DEF PublishExperience
<1>7. ASSUME NEW n \in Names, Restore(s, n) PROVE released' = released /\ prepared' = prepared
  BY <1>7 DEF Restore
<1>8. QED
  BY <1>1, <1>2, <1>3, <1>4, <1>5, <1>6, <1>7 DEF SessionStep

\* A session that is unknown to the store and tombstoned stays both.
LEMMA TombstoneStep ==
  ASSUME TypeOK, NEW s \in Sessions, SessionStep(s), s \in retired, logical[s] = None
  PROVE  \/ /\ engine'[s] = engine[s] /\ logical'[s] = None
            /\ resident' = resident /\ adapters' = adapters /\ retired' = retired
<1> USE DEF backendVars, ownerVars
<1>1. ~Usable(s)
  BY DEF Usable
<1>2. OnlyInvalidates(s) \/ \E n \in Names, x \in Experiences : PublishExperience(s, n, x)
  BY <1>1
  DEF SessionStep, CreateSession, MayAllocate, DeleteSession, Policy, Value, InspectBackend,
      Learn, Snapshot, Restore, RetireSession, MayRetire
<1>3. QED
  BY <1>2 DEF OnlyInvalidates, PublishExperience

\* The records imply the tombstone; only then can nothing be recreated.
ReleasedInv ==
    /\ ReleasedIsGone
    /\ \A s \in Sessions : prepared[s] # None => s \in retired

\* What a retirement leaves behind when it writes a record.
LEMMA RetirementLeaves ==
  ASSUME TypeOK, ReleasedInv, NEW s \in Sessions, NEW n \in Names,
         NEW v \in 0..Cardinality(EventIds), NEW reuse \in BOOLEAN,
         RetireSession(s, n, v, reuse)
  PROVE  /\ prepared[s] = None /\ released[s] = None
         /\ prepared'[s] # None => s \in retired'
         /\ prepared'[s] # prepared[s] =>
                /\ prepared'[s] = Receipt(s, n, reuse)
                /\ snapshot'[s][n] = FinalImage(s, reuse)
         /\ released'[s] # None =>
                /\ prepared'[s] = released'[s]
                /\ engine'[s] = None /\ logical'[s] = None
                /\ s \notin resident' /\ s \notin adapters'
<1>1. s \notin retired
  BY FinalImageFacts
<1>2. prepared[s] = None /\ released[s] = None
  BY <1>1 DEF ReleasedInv, ReleasedIsGone
<1>3. /\ prepared \in [Sessions -> Receipts \cup {None}]
      /\ released \in [Sessions -> Receipts \cup {None}]
      /\ snapshot \in [Sessions -> [Names -> Images \cup {None}]]
      /\ engine \in [Sessions -> EngineStates \cup {None}]
      /\ logical \in [Sessions -> LogicalStates \cup {None}]
  BY DEF TypeOK
<1>4. CASE RetireAborted(s, n, reuse)
  BY <1>2, <1>4 DEF RetireAborted
<1>5. CASE ~RetireAborted(s, n, reuse)
  <2>1. /\ snapshot' = [snapshot EXCEPT ![s][n] = FinalImage(s, reuse)]
        /\ retired' = retired \cup {s}
        /\ \/ RetirePrepareFailed(s, n, reuse)
           \/ RetireDeleteFailed(s, n, reuse)
           \/ RetireReleased(s, n, reuse)
    BY <1>5 DEF RetireSession
  <2>2. snapshot'[s][n] = FinalImage(s, reuse) /\ s \in retired'
    BY <1>3, <2>1
  <2>3. prepared'[s] \in {prepared[s], Receipt(s, n, reuse)}
    BY <1>3, <2>1 DEF RetirePrepareFailed, RetireDeleteFailed, RetireReleased
  <2>4. ASSUME released'[s] # None
        PROVE  /\ prepared'[s] = released'[s]
               /\ engine'[s] = None /\ logical'[s] = None
               /\ s \notin resident' /\ s \notin adapters'
    <3>1. RetireReleased(s, n, reuse) /\ released' = [released EXCEPT ![s] = Receipt(s, n, reuse)]
      BY <1>2, <2>1, <2>4 DEF RetirePrepareFailed, RetireDeleteFailed, RetireReleased
    <3>2. QED
      BY <1>3, <3>1 DEF RetireReleased
  <2>5. QED
    BY <1>2, <2>2, <2>3, <2>4
<1>6. QED
  BY <1>4, <1>5

\* The tombstone keeps a released session from coming back.
LEMMA ReleasedStep == TypeOK /\ ReleasedInv /\ [Next]_vars => ReleasedInv'
<1> SUFFICES ASSUME TypeOK, ReleasedInv, [Next]_vars PROVE ReleasedInv'
  OBVIOUS
<1> DEFINE Gone(t) == released[t] # None =>
                        /\ prepared[t] = released[t] /\ t \in retired
                        /\ engine[t] = None /\ logical[t] = None
                        /\ t \notin resident /\ t \notin adapters
           Marked(t) == prepared[t] # None => t \in retired
<1>1. ASSUME NEW s \in Sessions, SessionStep(s), NEW t \in Sessions
      PROVE  Gone(t)' /\ Marked(t)'
  <2>0. Gone(t) /\ Marked(t)
    BY DEF ReleasedInv, ReleasedIsGone
  <2>1. CASE t # s
    BY <1>1, <2>0, <2>1, Frame DEF Same
  <2>2. ASSUME t = s, NEW n \in Names, NEW v \in 0..Cardinality(EventIds),
               NEW reuse \in BOOLEAN, RetireSession(s, n, v, reuse)
        PROVE  Gone(t)' /\ Marked(t)'
    BY <2>2, RetirementLeaves
  <2>3. CASE t = s /\ released' = released /\ prepared' = prepared
    <3>1. retired \subseteq retired'
      BY <1>1
      DEF SessionStep, CreateSession, Created, CreateQuarantined, CreateCleanedUp, DeleteSession,
          Deleted, DeleteLosesEngine, Policy, Value, InspectBackend, Learn, Snapshot,
          SnapshotTaken, PublishExperience, Restore, RetireSession, RetireAborted,
          OnlyInvalidates, ownerVars
    <3>2. CASE released[t] = None
      BY <2>0, <2>3, <3>1, <3>2
    <3>3. CASE released[t] # None
      BY <1>1, <2>0, <2>3, <3>1, <3>3, TombstoneStep
    <3>4. QED
      BY <3>2, <3>3
  <2>4. QED
    BY <1>1, <2>1, <2>2, <2>3, ReleasedByRetirement
<1>2. CASE UNCHANGED vars
  BY <1>2 DEF vars, backendVars, ownerVars, reuseVars, diskVars, ReleasedInv, ReleasedIsGone
<1>3. QED
  BY <1>1, <1>2 DEF Next, ReleasedInv, ReleasedIsGone

\* Nothing is left of a released session, and it never comes back.
THEOREM ReleasedSafe == Spec => []ReleasedIsGone
<1>1. Init => ReleasedInv
  BY DEF Init, ReleasedInv, ReleasedIsGone
<1>2. ReleasedInv => ReleasedIsGone
  BY DEF ReleasedInv
<1>3. QED
  BY <1>1, <1>2, TypeCorrect, ReleasedStep, PTL DEF Spec

\* The saved state a retirement record names is the state of the session at
\* the moment it was retired.
THEOREM RetirementFinal == Spec => RetiredStateIsFinal
<1>1. ASSUME TypeOK, WitnessIsLive, ReleasedInv, NEW s \in Sessions, SessionStep(s),
             NEW t \in Sessions, prepared'[t] # prepared[t]
      PROVE  /\ snapshot'[t][prepared'[t].name] = prepared'[t].image
             /\ prepared'[t].image.logical = logical[t]
             /\ prepared'[t].image.engine = engine[t]
  <2>1. t = s
    BY <1>1, Frame DEF Same
  <2>2. PICK n \in Names, v \in 0..Cardinality(EventIds), reuse \in BOOLEAN :
            RetireSession(s, n, v, reuse)
    BY <1>1, <2>1, ReleasedByRetirement
  <2>3. prepared'[s] = Receipt(s, n, reuse) /\ snapshot'[s][n] = FinalImage(s, reuse)
    BY <1>1, <2>1, <2>2, RetirementLeaves
  <2>4. /\ Receipt(s, n, reuse).name = n
        /\ Receipt(s, n, reuse).image = FinalImage(s, reuse)
        /\ FinalImage(s, reuse).logical = logical[s]
        /\ reuse => WitnessMatches(s, n)
        /\ ~reuse => FinalImage(s, reuse).engine = engine[s]
    BY <1>1, <2>2, FinalImageFacts
  <2>5. reuse => FinalImage(s, reuse).engine = engine[s]
    BY <1>1, <2>4 DEF WitnessMatches, WitnessIsLive, FinalImage
  <2>6. QED
    BY <2>1, <2>3, <2>4, <2>5
<1>2. ASSUME UNCHANGED vars, NEW t \in Sessions PROVE prepared'[t] = prepared[t]
  BY <1>2 DEF vars, diskVars
<1>3. TypeOK /\ WitnessIsLive /\ ReleasedInv /\ [Next]_vars =>
        [\A s \in Sessions : prepared'[s] # prepared[s] =>
           /\ snapshot'[s][prepared'[s].name] = prepared'[s].image
           /\ prepared'[s].image.logical = logical[s]
           /\ prepared'[s].image.engine = engine[s]]_vars
  BY <1>1, <1>2 DEF Next
<1>4. Init => ReleasedInv
  BY DEF Init, ReleasedInv, ReleasedIsGone
<1>5. QED
  BY <1>3, <1>4, TypeCorrect, WitnessSound, ReleasedStep, PTL DEF Spec, RetiredStateIsFinal

-----------------------------------------------------------------------------
(* What a session is served with.                                          *)

\* An update that was not consumed before keeps the two halves in agreement.
LEMMA LearnKeepsAgreement ==
  ASSUME NEW l \in LogicalStates, NEW g \in EngineStates, NEW e \in EventIds, NEW p \in Payloads,
         Agree(l, g), <<e, p>> \notin l.receipts
  PROVE  Agree(Consume(l, e, p), Train(g, e, p))
<1>1. /\ Consume(l, e, p).version = l.version + 1
      /\ Consume(l, e, p).receipts = l.receipts \cup {<<e, p>>}
      /\ Consume(l, e, p).pending = l.pending /\ Consume(l, e, p).lineage = l.lineage
  BY DEF Consume, LogicalStates
<1>2. /\ Train(g, e, p).steps = g.steps + 1
      /\ Train(g, e, p).trained = g.trained \cup {<<e, p>>}
      /\ Train(g, e, p).torn = g.torn /\ Train(g, e, p).base = g.base
  BY DEF Train, EngineStates
<1>3. IsFiniteSet(l.receipts)
  <2>1. IsFiniteSet(EventIds \X Payloads)
    BY FS_Product, RuntimeAssumption
  <2>2. l.receipts \subseteq EventIds \X Payloads
    BY DEF LogicalStates, Updates
  <2>3. QED
    BY <2>1, <2>2, FS_Subset
<1>4. Cardinality(l.receipts \cup {<<e, p>>}) = Cardinality(l.receipts) + 1
  BY <1>3, FS_AddElement
<1>5. QED
  BY <1>1, <1>2, <1>4 DEF Agree

\* A new session's halves agree.
LEMMA FreshAgree ==
  \A r, t, o : Agree(FreshLogical(r, t, o), FreshEngine(o))
  BY FS_EmptySet DEF Agree, FreshLogical, FreshEngine

\* Marking a state as certified does not touch what the halves agree on.
LEMMA CertifiedAgree ==
  ASSUME NEW l \in LogicalStates, NEW f \in BOOLEAN, NEW g
  PROVE  /\ Agree(Certified(l, f), g) <=> Agree(l, g)
         /\ Certified(l, f).receipts = l.receipts
  BY DEF Agree, Certified, LogicalStates

\* The state of one session that is served, or saved, agrees.
SessionAgrees(s) ==
    /\ Usable(s) /\ engine[s] # None => Agree(logical[s], engine[s])
    /\ \A n \in Names :
           snapshot[s][n] # None => Agree(snapshot[s][n].logical, snapshot[s][n].engine)

\* The invariant is about one session at a time.
LEMMA AgreementParts ==
  /\ ServedStateAgrees <=> \A s \in Sessions : SessionAgrees(s)
  /\ ServedStateAgrees' <=> \A s \in Sessions : SessionAgrees(s)'
  BY DEF ServedStateAgrees, SessionAgrees, Usable

\* A step that serves no state it did not serve before.
LEMMA AgreementKept ==
  ASSUME NEW s \in Sessions, SessionAgrees(s),
         Usable(s)' => Usable(s) /\ logical'[s] = logical[s] /\ engine'[s] \in {engine[s], None},
         snapshot'[s] = snapshot[s]
  PROVE  SessionAgrees(s)'
  BY DEF SessionAgrees, Usable

\* Failing, an update or a restore puts both halves back or quarantines.
LEMMA RollbackAgrees ==
  ASSUME TypeOK, NEW s \in Sessions, SessionAgrees(s), Usable(s), snapshot' = snapshot,
         NEW left, NEW l, Rollback(s, engine[s], logical[s], left, l)
  PROVE  SessionAgrees(s)'
<1>1. CASE s \in unusable'
  BY <1>1 DEF SessionAgrees, Usable
<1>2. CASE s \notin unusable'
  BY <1>2 DEF TypeOK, Rollback, SessionAgrees, Usable
<1>3. QED
  BY <1>1, <1>2

\* Learning keeps the agreement.
LEMMA LearnAgrees ==
  ASSUME TypeOK, NEW s \in Sessions, SessionAgrees(s), NEW e \in EventIds, NEW p \in Payloads,
         NEW v \in 0..Cardinality(EventIds), Learn(s, e, p, v), ~OnlyInvalidates(s)
  PROVE  SessionAgrees(s)'
<1>1. /\ Usable(s) /\ MayLearn(s, e, p, v)
      /\ LearnApplied(s, e, p) \/ LearnFailed(s, e, p)
      /\ snapshot' = snapshot
  BY DEF Learn, diskVars
<1>2. CASE LearnFailed(s, e, p)
  BY <1>1, <1>2, RollbackAgrees DEF LearnFailed
<1>3. CASE LearnApplied(s, e, p)
  <2>1. /\ logical[s] \in LogicalStates /\ engine[s] \in EngineStates
        /\ engine[s] # None /\ <<e, p>> \notin logical[s].receipts
    BY <1>1 DEF TypeOK, Usable, MayLearn, Receipted
  <2>2. /\ engine'[s] = Train(engine[s], e, p)
        /\ logical'[s] = Consume(logical[s], e, p)
    BY <1>3 DEF LearnApplied, TypeOK
  <2>3. Agree(logical[s], engine[s])
    BY <1>1, <2>1 DEF SessionAgrees
  <2>4. QED
    BY <1>1, <2>1, <2>2, <2>3, LearnKeepsAgreement DEF SessionAgrees
<1>4. QED
  BY <1>1, <1>2, <1>3

\* Saving a state that agrees, or marking it certified, keeps the agreement.
LEMMA SnapshotAgrees ==
  ASSUME TypeOK, NEW s \in Sessions, SessionAgrees(s), NEW n \in Names, NEW f \in BOOLEAN,
         Usable(s), SnapshotTaken(s, n, f)
  PROVE  SessionAgrees(s)'
<1> DEFINE l  == Certified(logical[s], f)
           im == Image(l, engine[s], f)
<1>1. /\ logical[s] \in LogicalStates /\ Agree(logical[s], engine[s])
  BY DEF TypeOK, Usable, SessionAgrees, SnapshotTaken
<1>2. Agree(l, engine[s]) /\ im.logical = l /\ im.engine = engine[s]
  BY <1>1, CertifiedAgree DEF Image
<1>3. /\ logical'[s] = l /\ engine' = engine
      /\ \A m \in Names : snapshot'[s][m] = IF m = n THEN im ELSE snapshot[s][m]
  BY DEF SnapshotTaken, TypeOK, backendVars
<1> HIDE DEF l, im
<1>4. QED
  BY <1>2, <1>3 DEF SessionAgrees

\* Retiring saves the live state, or leaves the session as it was.
LEMMA RetireAgrees ==
  ASSUME TypeOK, NEW s \in Sessions, SessionAgrees(s), NEW n \in Names,
         NEW v \in 0..Cardinality(EventIds), NEW reuse \in BOOLEAN, RetireSession(s, n, v, reuse)
  PROVE  SessionAgrees(s)'
<1> DEFINE im == FinalImage(s, reuse)
<1>1. im = snapshot[s][n] \/ Agree(im.logical, im.engine)
  <2>1. CASE reuse
    BY <2>1, FinalImageFacts DEF WitnessMatches, FinalImage
  <2>2. CASE ~reuse
    BY <2>2, FinalImageFacts DEF SessionAgrees, Usable
  <2>3. QED
    BY <2>1, <2>2
<1>2. snapshot \in [Sessions -> [Names -> Images \cup {None}]]
  BY DEF TypeOK
<1>3. \/ snapshot'[s] = snapshot[s]
      \/ \A m \in Names : snapshot'[s][m] = IF m = n THEN im ELSE snapshot[s][m]
  BY <1>2 DEF RetireSession, RetireAborted
<1> HIDE DEF im
<1>4. \A m \in Names : snapshot'[s][m] # None =>
          Agree(snapshot'[s][m].logical, snapshot'[s][m].engine)
  BY <1>1, <1>3 DEF SessionAgrees
<1>5. Usable(s)' => Usable(s) /\ logical'[s] = logical[s] /\ engine'[s] = engine[s]
  <2>1. CASE RetireAborted(s, n, reuse)
    BY <2>1 DEF RetireAborted, Usable, backendVars, ownerVars
  <2>2. CASE RetirePrepareFailed(s, n, reuse) \/ RetireDeleteFailed(s, n, reuse)
    BY <2>2 DEF RetirePrepareFailed, RetireDeleteFailed, Usable
  <2>3. CASE RetireReleased(s, n, reuse)
    BY <2>3 DEF RetireReleased, Usable, TypeOK
  <2>4. QED
    BY <2>1, <2>2, <2>3 DEF RetireSession
<1>6. QED
  BY <1>4, <1>5 DEF SessionAgrees

\* Agreement is preserved by every operation on the session.
LEMMA AgreementStep ==
  ASSUME TypeOK, NEW s \in Sessions, SessionAgrees(s), SessionStep(s)
  PROVE  SessionAgrees(s)'
<1> USE DEF backendVars, ownerVars, diskVars
<1>0. ASSUME OnlyInvalidates(s) PROVE SessionAgrees(s)'
  BY <1>0, AgreementKept DEF OnlyInvalidates, Usable
<1>1. ASSUME NEW r \in {"theorem", "learner", "actor"}, NEW h \in Theorems \cup {None},
             NEW o \in Origins, CreateSession(s, r, h, o)
      PROVE  SessionAgrees(s)'
  <2>1. CASE Created(s, r, h, o)
    BY <2>1, FreshAgree DEF Created, SessionAgrees, TypeOK
  <2>2. CASE CreateQuarantined(s) \/ CreateCleanedUp(s)
    BY <2>2, AgreementKept DEF CreateQuarantined, CreateCleanedUp, Usable
  <2>3. QED
    BY <1>1, <2>1, <2>2 DEF CreateSession
<1>2. CASE DeleteSession(s)
  <2>1. CASE Deleted(s)
    BY <2>1, AgreementKept DEF Deleted, Usable, TypeOK
  <2>2. CASE DeleteLosesEngine(s)
    BY <2>2, AgreementKept DEF DeleteLosesEngine, Usable, TypeOK
  <2>3. QED
    BY <1>0, <1>2, <2>1, <2>2 DEF DeleteSession
<1>3. CASE Policy(s) \/ Value(s)
  <2>1. /\ snapshot' = snapshot /\ logical' = logical /\ unusable' = unusable
        /\ engine[s] = None => engine' = engine
        /\ engine[s] # None => Sampled(s)
    BY <1>3 DEF Policy, Value
  <2>2. CASE engine[s] = None
    BY <2>1, <2>2, AgreementKept DEF Usable
  <2>3. CASE engine[s] # None
    <3>1. /\ engine'[s].steps = engine[s].steps /\ engine'[s].trained = engine[s].trained
          /\ engine'[s].torn = engine[s].torn /\ engine'[s].base = engine[s].base
      BY <2>1, <2>3, SampledType DEF TypeOK
    <3>2. QED
      BY <2>1, <2>3, <3>1 DEF SessionAgrees, Usable, Agree
  <2>4. QED
    BY <2>2, <2>3
<1>4. CASE InspectBackend(s)
  BY <1>0, <1>4 DEF InspectBackend
<1>5. CASE \E e \in EventIds, p \in Payloads, v \in 0..Cardinality(EventIds) : Learn(s, e, p, v)
  BY <1>0, <1>5, LearnAgrees
<1>6. CASE \E n \in Names, f \in BOOLEAN : Snapshot(s, n, f)
  BY <1>0, <1>6, SnapshotAgrees DEF Snapshot
<1>7. CASE \E n \in Names, x \in Experiences : PublishExperience(s, n, x)
  BY <1>0, <1>7, AgreementKept DEF PublishExperience, Usable
<1>8. ASSUME NEW n \in Names, Restore(s, n), ~OnlyInvalidates(s) PROVE SessionAgrees(s)'
  <2>1. CASE Restored(s, snapshot[s][n])
    BY <1>8, <2>1 DEF Restore, Restored, SessionAgrees, TypeOK
  <2>2. CASE Rollback(s, engine[s], logical[s], {engine[s], Torn(engine[s])}, logical[s])
    BY <1>8, <2>2, RollbackAgrees DEF Restore
  <2>3. QED
    BY <1>8, <2>1, <2>2 DEF Restore
<1>9. CASE \E n \in Names, v \in 0..Cardinality(EventIds), reuse \in BOOLEAN :
              RetireSession(s, n, v, reuse)
  BY <1>9, RetireAgrees
<1>10. QED
  BY <1>0, <1>1, <1>2, <1>3, <1>4, <1>5, <1>6, <1>7, <1>8, <1>9 DEF SessionStep

\* Through failed updates, failed rollbacks and restores, a served session's
\* parameters have absorbed exactly the events its receipts say, once each.
THEOREM AgreementSafe == Spec => []ServedStateAgrees
<1>1. Init => ServedStateAgrees
  BY DEF Init, ServedStateAgrees, Usable
<1>2. TypeOK /\ ServedStateAgrees /\ [Next]_vars => ServedStateAgrees'
  <2>1. ASSUME TypeOK, ServedStateAgrees, NEW s \in Sessions, SessionStep(s), NEW t \in Sessions
        PROVE  SessionAgrees(t)'
    <3>1. SessionAgrees(t)
      BY <2>1, AgreementParts
    <3>2. CASE t = s
      BY <2>1, <3>1, <3>2, AgreementStep
    <3>3. CASE t # s
      BY <2>1, <3>1, <3>3, Frame DEF Same, SessionAgrees, Usable
    <3>4. QED
      BY <3>2, <3>3
  <2>2. ASSUME ServedStateAgrees, UNCHANGED vars PROVE ServedStateAgrees'
    BY <2>2 DEF vars, backendVars, ownerVars, diskVars, ServedStateAgrees, Usable
  <2>3. QED
    BY <2>1, <2>2, AgreementParts DEF Next
<1>3. QED
  BY <1>1, <1>2, TypeCorrect, PTL DEF Spec

-----------------------------------------------------------------------------
(* One payload per event.                                                  *)

\* The receipts of l name each event once.
OnePayload(l) ==
    \A e \in EventIds, p, q \in Payloads :
        <<e, p>> \in l.receipts /\ <<e, q>> \in l.receipts => p = q

\* A restore brings back the receipts of a saved state, so those count too.
ReceiptsInv(s) ==
    /\ logical[s] # None => OnePayload(logical[s])
    /\ \A n \in Names : snapshot[s][n] # None => OnePayload(snapshot[s][n].logical)

\* The receipts of one session's states change in four ways only: they are
\* those of the live state, of a saved one, of no update, or one event more.
LEMMA ReceiptsSources ==
  ASSUME TypeOK, NEW s \in Sessions, SessionStep(s), logical'[s] # None
  PROVE  \/ logical[s] # None /\ logical'[s].receipts = logical[s].receipts
         \/ \E n \in Names : snapshot[s][n] # None /\ logical'[s] = snapshot[s][n].logical
         \/ logical'[s].receipts = {}
         \/ \E e \in EventIds, p \in Payloads :
                /\ logical[s] # None /\ ~Receipted(s, e, p)
                /\ logical'[s].receipts = logical[s].receipts \cup {<<e, p>>}
<1> DEFINE Kept == logical[s] # None /\ logical'[s].receipts = logical[s].receipts
<1>0. ASSUME logical' = logical PROVE Kept
  BY <1>0
<1>1. ASSUME NEW r \in {"theorem", "learner", "actor"}, NEW h \in Theorems \cup {None},
             NEW o \in Origins, CreateSession(s, r, h, o)
      PROVE  Kept \/ logical'[s].receipts = {}
  <2>1. ASSUME Created(s, r, h, o) PROVE logical'[s].receipts = {}
    BY <2>1 DEF Created, FreshLogical, TypeOK
  <2>2. QED
    BY <1>0, <1>1, <2>1 DEF CreateSession, CreateQuarantined, CreateCleanedUp
<1>2. ASSUME DeleteSession(s) PROVE Kept
  BY <1>0, <1>2 DEF DeleteSession, Deleted, DeleteLosesEngine, OnlyInvalidates, TypeOK
<1>3. ASSUME Policy(s) \/ Value(s) \/ InspectBackend(s) PROVE Kept
  BY <1>0, <1>3 DEF Policy, Value, InspectBackend, OnlyInvalidates
<1>4. ASSUME NEW e \in EventIds, NEW p \in Payloads, NEW v \in 0..Cardinality(EventIds),
             Learn(s, e, p, v)
      PROVE  \/ Kept
             \/ /\ logical[s] # None /\ ~Receipted(s, e, p)
                /\ logical'[s].receipts = logical[s].receipts \cup {<<e, p>>}
  <2>0. logical[s] \in LogicalStates /\ logical[s] # None
    BY <1>4 DEF Learn, Usable, TypeOK
  <2>1. CASE OnlyInvalidates(s)
    BY <1>0, <2>1 DEF OnlyInvalidates
  <2>2. CASE MayLearn(s, e, p, v) /\ LearnApplied(s, e, p)
    BY <2>0, <2>2 DEF LearnApplied, MayLearn, Consume, TypeOK, LogicalStates
  <2>3. CASE LearnFailed(s, e, p)
    <3> DEFINE marked == [logical[s] EXCEPT !.pending = @ \cup {e}]
    <3>1. marked.receipts = logical[s].receipts
      BY <2>0 DEF LogicalStates
    <3>2. Rollback(s, engine[s], logical[s],
             {engine[s], Torn(engine[s]), Train(engine[s], e, p)}, marked)
      BY <2>3 DEF LearnFailed
    <3> HIDE DEF marked
    <3>3. QED
      BY <2>0, <3>1, <3>2 DEF Rollback, TypeOK
  <2>4. QED
    BY <1>4, <2>1, <2>2, <2>3 DEF Learn
<1>5. ASSUME NEW n \in Names, NEW f \in BOOLEAN, Snapshot(s, n, f) PROVE Kept
  <2>1. logical[s] \in LogicalStates /\ logical[s] # None
    BY <1>5 DEF Snapshot, Usable, TypeOK
  <2>2. CASE OnlyInvalidates(s)
    BY <1>0, <2>2 DEF OnlyInvalidates
  <2>3. CASE SnapshotTaken(s, n, f)
    <3>1. logical'[s] = Certified(logical[s], f)
      BY <2>3 DEF SnapshotTaken, TypeOK
    <3>2. QED
      BY <2>1, <3>1, CertifiedAgree
  <2>4. QED
    BY <1>5, <2>2, <2>3 DEF Snapshot
<1>6. ASSUME NEW n \in Names, NEW x \in Experiences, PublishExperience(s, n, x) PROVE Kept
  BY <1>0, <1>6 DEF PublishExperience, OnlyInvalidates
<1>7. ASSUME NEW n \in Names, Restore(s, n)
      PROVE  Kept \/ (snapshot[s][n] # None /\ logical'[s] = snapshot[s][n].logical)
  <2>1. CASE OnlyInvalidates(s)
    BY <1>0, <2>1 DEF OnlyInvalidates
  <2>2. CASE Restored(s, snapshot[s][n])
    BY <1>7, <2>2 DEF Restore, Restored, TypeOK
  <2>3. CASE Rollback(s, engine[s], logical[s], {engine[s], Torn(engine[s])}, logical[s])
    BY <1>7, <2>3 DEF Restore, Rollback, TypeOK, Usable
  <2>4. QED
    BY <1>7, <2>1, <2>2, <2>3 DEF Restore
<1>8. ASSUME NEW n \in Names, NEW v \in 0..Cardinality(EventIds), NEW reuse \in BOOLEAN,
             RetireSession(s, n, v, reuse)
      PROVE  Kept
  <2>1. logical' = logical \/ logical'[s] = None
    BY <1>8
    DEF RetireSession, RetireAborted, RetirePrepareFailed, RetireDeleteFailed, RetireReleased,
        TypeOK
  <2>2. QED
    BY <1>0, <2>1
<1>9. QED
  BY <1>1, <1>2, <1>3, <1>4, <1>5, <1>6, <1>7, <1>8 DEF SessionStep

\* A snapshot is an older one, or saves receipts of the live state.
LEMMA SavedSources ==
  ASSUME TypeOK, NEW s \in Sessions, SessionStep(s), NEW m \in Names
  PROVE  \/ snapshot'[s][m] = snapshot[s][m]
         \/ /\ snapshot[s][m] = None /\ logical[s] # None
            /\ snapshot'[s][m].logical.receipts = logical[s].receipts
<1>0. ASSUME snapshot' = snapshot PROVE snapshot'[s][m] = snapshot[s][m]
  BY <1>0
<1>1. ASSUME NEW n \in Names, NEW f \in BOOLEAN, Snapshot(s, n, f)
      PROVE  \/ snapshot'[s][m] = snapshot[s][m]
             \/ /\ snapshot[s][m] = None /\ logical[s] # None
                /\ snapshot'[s][m].logical.receipts = logical[s].receipts
  <2>1. logical[s] \in LogicalStates /\ logical[s] # None
    BY <1>1 DEF Snapshot, Usable, TypeOK
  <2>2. CASE OnlyInvalidates(s)
    BY <1>0, <2>2 DEF OnlyInvalidates, diskVars
  <2>3. CASE SnapshotTaken(s, n, f)
    <3>1. snapshot[s][n] = None
      BY <2>3 DEF SnapshotTaken, FreeName
    <3>2. m = n => snapshot'[s][m] = Image(Certified(logical[s], f), engine[s], f)
      BY <2>3 DEF SnapshotTaken, TypeOK
    <3>3. m # n => snapshot'[s][m] = snapshot[s][m]
      BY <2>3 DEF SnapshotTaken, TypeOK
    <3>4. Certified(logical[s], f).receipts = logical[s].receipts
      BY <2>1, CertifiedAgree
    <3>5. QED
      BY <2>1, <3>1, <3>2, <3>3, <3>4 DEF Image
  <2>4. QED
    BY <1>1, <2>2, <2>3 DEF Snapshot
<1>2. ASSUME NEW n \in Names, NEW v \in 0..Cardinality(EventIds), NEW reuse \in BOOLEAN,
             RetireSession(s, n, v, reuse)
      PROVE  \/ snapshot'[s][m] = snapshot[s][m]
             \/ /\ snapshot[s][m] = None /\ logical[s] # None
                /\ snapshot'[s][m].logical.receipts = logical[s].receipts
  <2>1. snapshot \in [Sessions -> [Names -> Images \cup {None}]]
    BY DEF TypeOK
  <2>2. snapshot' = snapshot \/ snapshot' = [snapshot EXCEPT ![s][n] = FinalImage(s, reuse)]
    BY <1>2 DEF RetireSession, RetireAborted
  <2>3. CASE reuse
    <3>1. FinalImage(s, reuse) = snapshot[s][n]
      BY <1>2, <2>3 DEF RetireSession, WitnessMatches, FinalImage
    <3>2. QED
      BY <2>1, <2>2, <3>1
  <2>4. CASE ~reuse
    <3>1. /\ snapshot[s][n] = None /\ logical[s] # None
          /\ FinalImage(s, reuse).logical = logical[s]
      BY <1>2, <2>4, FinalImageFacts DEF FreeName
    <3>2. QED
      BY <2>1, <2>2, <3>1
  <2>5. QED
    BY <2>3, <2>4
<1>3. QED
  BY <1>0, <1>1, <1>2
  DEF SessionStep, CreateSession, Created, CreateQuarantined, CreateCleanedUp, DeleteSession,
      Deleted, DeleteLosesEngine, Policy, Value, InspectBackend, Learn, PublishExperience,
      Restore, OnlyInvalidates, diskVars

\* In whatever order learning, restoring and retrying are mixed, an event
\* identifier stands for one payload.
THEOREM EventsSafe == Spec => []OncePerEvent
<1> DEFINE IInv == \A s \in Sessions : ReceiptsInv(s)
<1>1. Init => IInv
  BY DEF Init, ReceiptsInv
<1>2. TypeOK /\ IInv /\ [Next]_vars => IInv'
  <2>1. ASSUME TypeOK, IInv, NEW s \in Sessions, SessionStep(s), NEW t \in Sessions
        PROVE  ReceiptsInv(t)'
    <3>1. ReceiptsInv(t)
      BY <2>1
    <3>2. CASE t # s
      BY <2>1, <3>1, <3>2, Frame DEF Same, ReceiptsInv, OnePayload
    <3>3. CASE t = s
      <4>1. \A l, k : OnePayload(l) /\ k.receipts = l.receipts => OnePayload(k)
        BY DEF OnePayload
      <4>2. ASSUME logical'[s] # None PROVE OnePayload(logical'[s])
        <5>1. CASE \E e \in EventIds, p \in Payloads :
                     /\ logical[s] # None /\ ~Receipted(s, e, p)
                     /\ logical'[s].receipts = logical[s].receipts \cup {<<e, p>>}
          BY <3>1, <3>3, <5>1 DEF ReceiptsInv, OnePayload, Receipted
        <5>2. CASE logical'[s].receipts = {}
          BY <5>2 DEF OnePayload
        <5>3. QED
          BY <2>1, <3>1, <3>3, <4>1, <4>2, <5>1, <5>2, ReceiptsSources DEF ReceiptsInv
      <4>3. ASSUME NEW m \in Names, snapshot'[s][m] # None
            PROVE  OnePayload(snapshot'[s][m].logical)
        BY <2>1, <3>1, <3>3, <4>1, <4>3, SavedSources DEF ReceiptsInv
      <4>4. QED
        BY <3>3, <4>2, <4>3 DEF ReceiptsInv, OnePayload
    <3>4. QED
      BY <3>2, <3>3
  <2>2. ASSUME IInv, UNCHANGED vars PROVE IInv'
    BY <2>2 DEF vars, diskVars, ReceiptsInv, OnePayload
  <2>3. QED
    BY <2>1, <2>2 DEF Next
<1>3. IInv => OncePerEvent
  BY DEF OncePerEvent, ReceiptsInv, OnePayload, Usable
<1> HIDE DEF IInv
<1>4. QED
  BY <1>1, <1>2, <1>3, TypeCorrect, PTL DEF Spec

-----------------------------------------------------------------------------
(* What a step may never do.                                               *)

\* A quarantined session is only ever deleted as a whole.
THEOREM QuarantineSafe == Spec => QuarantineIsSealed
<1> DEFINE Sealed(s) ==
             IF s \in unusable'
             THEN logical'[s] = logical[s] /\ engine'[s] \in {engine[s], None}
             ELSE logical'[s] = None /\ engine'[s] = None /\ s \notin adapters'
<1>1. ASSUME TypeOK, NEW s \in Sessions, SessionStep(s), NEW t \in unusable
      PROVE  Sealed(t)
  <2>1. CASE t # s
    BY <1>1, <2>1, Frame DEF Same, TypeOK
  <2>2. CASE t = s
    <3>1. \/ OnlyInvalidates(s) \/ Deleted(s) \/ DeleteLosesEngine(s)
          \/ \E n \in Names, x \in Experiences : PublishExperience(s, n, x)
      BY <1>1, <2>2
      DEF SessionStep, CreateSession, MayAllocate, DeleteSession, Policy, Value, InspectBackend,
          Learn, Snapshot, Restore, RetireSession, MayRetire, Usable
    <3>2. CASE Deleted(s)
      BY <1>1, <2>2, <3>2 DEF Deleted, TypeOK
    <3>3. CASE DeleteLosesEngine(s)
      BY <1>1, <2>2, <3>3 DEF DeleteLosesEngine, ownerVars, TypeOK
    <3>4. CASE OnlyInvalidates(s) \/ \E n \in Names, x \in Experiences : PublishExperience(s, n, x)
      BY <1>1, <2>2, <3>4 DEF OnlyInvalidates, PublishExperience, backendVars, ownerVars
    <3>5. QED
      BY <3>1, <3>2, <3>3, <3>4
  <2>3. QED
    BY <2>1, <2>2
<1>2. ASSUME UNCHANGED vars, NEW t \in unusable PROVE Sealed(t)
  BY <1>2 DEF vars, backendVars, ownerVars
<1>3. TypeOK /\ [Next]_vars => [\A s \in unusable : Sealed(s)]_vars
  BY <1>1, <1>2 DEF Next
<1>4. QED
  BY <1>3, TypeCorrect, PTL DEF Spec, QuarantineIsSealed

\* A certified session keeps the state it was certified with.
THEOREM CertifiedSafe == Spec => CompletedIsFrozen
<1> DEFINE Frozen(s) ==
             logical[s] # None /\ logical[s].completed /\ logical'[s] # None =>
                 /\ logical'[s] = logical[s]
                 /\ engine'[s] # None => engine'[s].trained = engine[s].trained
<1>1. ASSUME TypeOK, CapacityInv, NEW s \in Sessions, SessionStep(s), NEW t \in Sessions
      PROVE  Frozen(t)
  <2>1. CASE t # s
    BY <1>1, <2>1, Frame DEF Same
  <2>2. ASSUME t = s, logical[s] # None, logical[s].completed, logical'[s] # None
        PROVE  /\ logical'[s] = logical[s]
               /\ engine'[s] # None => engine'[s].trained = engine[s].trained
    <3>0. ASSUME logical' = logical, engine'[s] \in {engine[s], None}
          PROVE  /\ logical'[s] = logical[s]
                 /\ engine'[s] # None => engine'[s].trained = engine[s].trained
      BY <3>0
    <3>1. s \in resident
      BY <1>1, <2>2 DEF CapacityInv
    <3>2. \A e \in EventIds, p \in Payloads, v \in 0..Cardinality(EventIds) : ~MayLearn(s, e, p, v)
      BY <2>2 DEF MayLearn
    <3>3. \A n \in Names : ~RestoreCompatible(s, snapshot[s][n])
      BY <2>2 DEF RestoreCompatible
    <3>4. CASE OnlyInvalidates(s) \/ \E n \in Names, x \in Experiences : PublishExperience(s, n, x)
      BY <3>0, <3>4 DEF OnlyInvalidates, PublishExperience, backendVars
    <3>5. CASE DeleteSession(s)
      <4>1. logical \in [Sessions -> LogicalStates \cup {None}]
            /\ engine \in [Sessions -> EngineStates \cup {None}]
        BY <1>1 DEF TypeOK
      <4>2. ~Deleted(s)
        BY <2>2, <4>1 DEF Deleted
      <4>3. CASE DeleteLosesEngine(s)
        BY <3>0, <4>1, <4>3 DEF DeleteLosesEngine
      <4>4. QED
        BY <3>4, <3>5, <4>2, <4>3 DEF DeleteSession
    <3>6. CASE Policy(s)
      <4>1. CASE engine[s] = None
        BY <3>0, <3>6, <4>1 DEF Policy
      <4>2. CASE engine[s] # None
        BY <1>1, <3>6, <4>2, SampledType DEF Policy, TypeOK
      <4>3. QED
        BY <4>1, <4>2
    <3>7. ASSUME NEW n \in Names, NEW f \in BOOLEAN, Usable(s), SnapshotTaken(s, n, f)
          PROVE  /\ logical'[s] = logical[s]
                 /\ engine'[s] # None => engine'[s].trained = engine[s].trained
      <4>1. logical[s] \in LogicalStates
        BY <1>1, <2>2 DEF TypeOK
      <4>2. logical'[s] = Certified(logical[s], f) /\ engine' = engine
        BY <1>1, <3>7 DEF SnapshotTaken, TypeOK, backendVars
      <4>3. (logical[s].completed \/ f) = TRUE /\ logical[s].completed = TRUE
        BY <2>2, <4>1 DEF LogicalStates
      <4>4. Certified(logical[s], f) = logical[s]
        BY <4>1, <4>3 DEF Certified, LogicalStates
      <4>5. QED
        BY <4>2, <4>4
    <3>8. ASSUME NEW n \in Names, NEW v \in 0..Cardinality(EventIds), NEW reuse \in BOOLEAN,
                 RetireSession(s, n, v, reuse)
          PROVE  /\ logical'[s] = logical[s]
                 /\ engine'[s] # None => engine'[s].trained = engine[s].trained
      <4>1. logical' = logical \/ logical'[s] = None
        BY <1>1, <3>8
        DEF RetireSession, RetireAborted, RetirePrepareFailed, RetireDeleteFailed,
            RetireReleased, TypeOK
      <4>2. engine'[s] \in {engine[s], None}
        BY <1>1, <3>8
        DEF RetireSession, RetireAborted, RetirePrepareFailed, RetireDeleteFailed,
            RetireReleased, TypeOK, backendVars
      <4>3. QED
        BY <2>2, <3>0, <4>1, <4>2
    <3>9. QED
      BY <1>1, <3>1, <3>2, <3>3, <3>4, <3>5, <3>6, <3>7, <3>8
      DEF SessionStep, CreateSession, MayAllocate, Value, InspectBackend, Learn, Snapshot, Restore
  <2>3. QED
    BY <2>1, <2>2
<1>2. ASSUME UNCHANGED vars, NEW t \in Sessions PROVE Frozen(t)
  BY <1>2 DEF vars, backendVars
<1>3. TypeOK /\ CapacityInv /\ [Next]_vars => [\A s \in Sessions : Frozen(s)]_vars
  BY <1>1, <1>2 DEF Next
<1>4. QED
  BY <1>3, TypeCorrect, CapacityInductive, PTL DEF Spec, CompletedIsFrozen

\* What is on disk is never rewritten.
THEOREM DiskSafe == Spec => DiskWriteOnce
<1> DEFINE Kept ==
             /\ \A s \in Sessions, n \in Names :
                    snapshot[s][n] # None => snapshot'[s][n] = snapshot[s][n]
             /\ \A s \in Sessions : prepared[s] # None => prepared'[s] = prepared[s]
             /\ \A s \in Sessions : released[s] # None => released'[s] = released[s]
             /\ \A x \in Experiences : experience[x] # None => experience'[x] = experience[x]
<1>1. ASSUME TypeOK, ReleasedInv, NEW s \in Sessions, SessionStep(s) PROVE Kept
  <2>1. \A t \in Sessions, n \in Names :
            snapshot[t][n] # None => snapshot'[t][n] = snapshot[t][n]
    BY <1>1, Frame, SavedSources DEF Same
  <2>2. ASSUME NEW t \in Sessions
        PROVE  /\ prepared[t] # None => prepared'[t] = prepared[t]
               /\ released[t] # None => released'[t] = released[t]
    <3>1. CASE t # s
      BY <1>1, <3>1, Frame DEF Same
    <3>2. CASE t = s
      BY <1>1, <3>2, ReleasedByRetirement, RetirementLeaves
    <3>3. QED
      BY <3>1, <3>2
  <2>3. \/ experience' = experience
        \/ \E n \in Names, x \in Experiences :
               ~OnlyInvalidates(s) /\ PublishExperience(s, n, x)
    BY <1>1
    DEF SessionStep, CreateSession, Created, CreateQuarantined, CreateCleanedUp, DeleteSession,
        Deleted, DeleteLosesEngine, Policy, Value, InspectBackend, Learn, Snapshot, SnapshotTaken,
        Restore, RetireSession, RetireAborted, OnlyInvalidates, diskVars
  <2>4. \A x \in Experiences : experience[x] # None => experience'[x] = experience[x]
    BY <1>1, <2>3 DEF PublishExperience, TypeOK
  <2>5. QED
    BY <2>1, <2>2, <2>4
<1>2. ASSUME UNCHANGED vars PROVE Kept
  BY <1>2 DEF vars, diskVars
<1>3. TypeOK /\ ReleasedInv /\ [Next]_vars => [Kept]_vars
  BY <1>1, <1>2 DEF Next
<1>4. Init => ReleasedInv
  BY DEF Init, ReleasedInv, ReleasedIsGone
<1>5. QED
  BY <1>3, <1>4, TypeCorrect, ReleasedStep, PTL DEF Spec, DiskWriteOnce

\* While a session exists it keeps its role, its theorem and its lineage.
THEOREM IdentitySafe == Spec => IdentityIsFixed
<1> DEFINE Fixed(t) ==
             logical[t] # None /\ logical'[t] # None =>
                 /\ logical'[t].role = logical[t].role
                 /\ logical'[t].theorem = logical[t].theorem
                 /\ logical'[t].lineage = logical[t].lineage
<1>1. ASSUME TypeOK, CapacityInv, NEW s \in Sessions, SessionStep(s), NEW t \in Sessions
      PROVE  Fixed(t)
  <2>1. CASE t # s
    BY <1>1, <2>1, Frame DEF Same
  <2>2. ASSUME t = s, logical[s] # None, logical'[s] # None
        PROVE  /\ logical'[s].role = logical[s].role
               /\ logical'[s].theorem = logical[s].theorem
               /\ logical'[s].lineage = logical[s].lineage
    <3> DEFINE Goal == /\ logical'[s].role = logical[s].role
                       /\ logical'[s].theorem = logical[s].theorem
                       /\ logical'[s].lineage = logical[s].lineage
    <3>0. ASSUME logical'[s] = logical[s] PROVE Goal
      BY <3>0
    <3>1. /\ logical \in [Sessions -> LogicalStates \cup {None}]
          /\ logical[s] \in LogicalStates /\ s \in resident
      BY <1>1, <2>2 DEF TypeOK, CapacityInv
    <3>2. ASSUME NEW e \in EventIds, NEW p \in Payloads, NEW v \in 0..Cardinality(EventIds),
                 Learn(s, e, p, v)
          PROVE  Goal
      <4>1. \/ logical'[s] = logical[s] \/ logical'[s] = Consume(logical[s], e, p)
            \/ logical'[s] = [logical[s] EXCEPT !.pending = @ \cup {e}]
        BY <3>1, <3>2
        DEF Learn, LearnApplied, LearnFailed, Rollback, OnlyInvalidates
      <4>2. QED
        BY <3>1, <4>1 DEF Consume, LogicalStates
    <3>3. ASSUME NEW n \in Names, NEW f \in BOOLEAN, Snapshot(s, n, f) PROVE Goal
      <4>1. logical'[s] = logical[s] \/ logical'[s] = Certified(logical[s], f)
        BY <3>1, <3>3 DEF Snapshot, SnapshotTaken, OnlyInvalidates
      <4>2. QED
        BY <3>1, <4>1 DEF Certified, LogicalStates
    <3>4. ASSUME NEW n \in Names, Restore(s, n) PROVE Goal
      <4>1. \/ logical'[s] = logical[s]
            \/ /\ RestoreCompatible(s, snapshot[s][n])
               /\ logical'[s] = snapshot[s][n].logical
        BY <3>1, <3>4 DEF Restore, Restored, Rollback, OnlyInvalidates
      <4>2. QED
        BY <3>4, <4>1 DEF Restore, RestoreCompatible
    <3>5. ASSUME NEW n \in Names, NEW v \in 0..Cardinality(EventIds), NEW reuse \in BOOLEAN,
                 RetireSession(s, n, v, reuse)
          PROVE  Goal
      <4>1. logical' = logical
        BY <2>2, <3>1, <3>5
        DEF RetireSession, RetireAborted, RetirePrepareFailed, RetireDeleteFailed, RetireReleased
      <4>2. QED
        BY <4>1
    <3>6. CASE DeleteSession(s)
      BY <2>2, <3>0, <3>1, <3>6
      DEF DeleteSession, Deleted, DeleteLosesEngine, OnlyInvalidates
    <3>7. QED
      BY <1>1, <3>0, <3>1, <3>2, <3>3, <3>4, <3>5, <3>6
      DEF SessionStep, CreateSession, MayAllocate, Policy, Value, InspectBackend,
          PublishExperience, OnlyInvalidates
  <2>3. QED
    BY <2>1, <2>2
<1>2. ASSUME UNCHANGED vars, NEW t \in Sessions PROVE Fixed(t)
  BY <1>2 DEF vars
<1>3. TypeOK /\ CapacityInv /\ [Next]_vars => [\A s \in Sessions : Fixed(s)]_vars
  BY <1>1, <1>2 DEF Next
<1>4. QED
  BY <1>3, TypeCorrect, CapacityInductive, PTL DEF Spec, IdentityIsFixed

-----------------------------------------------------------------------------
(* Runtime implements Slots, for any number of sessions and any capacity,  *)
(* under the refinement mapping of Runtime: the slots held are those of    *)
(* the resident and of the quarantined sessions.                           *)

Held == resident \cup unusable

\* Only a session in the store is resident for its owner's sake, so a session
\* that can be deleted or retired holds a slot.
LEMMA InStoreHolds ==
  ASSUME CapacityInv, NEW s \in Sessions, logical[s] # None
  PROVE  s \in resident
BY DEF CapacityInv

\* The slots a step may take and give back.
Taken(s) == MayAllocate(s) /\ Held' = Held \cup {s} /\ retired' = retired
Freed(s) == s \in Held /\ Held' = Held \ {s} /\ retired' = retired
Buried(s) == /\ s \in Held \ retired /\ retired' = retired \cup {s}
             /\ Held' \in {Held, Held \ {s}}
Idles == Held' = Held /\ retired' = retired

LEMMA CreateSlots ==
  ASSUME NEW s \in Sessions, NEW r, NEW t, NEW o, CreateSession(s, r, t, o)
  PROVE  Taken(s) \/ Idles
<1>1. MayAllocate(s)
  BY DEF CreateSession
<1>2. CASE Created(s, r, t, o)
  BY <1>1, <1>2 DEF Created, Taken, Held
<1>3. CASE CreateQuarantined(s)
  BY <1>1, <1>3 DEF CreateQuarantined, Taken, Held
<1>4. CASE CreateCleanedUp(s)
  BY <1>4 DEF CreateCleanedUp, ownerVars, Idles, Held
<1>5. QED
  BY <1>2, <1>3, <1>4 DEF CreateSession

LEMMA DeleteSlots ==
  ASSUME CapacityInv, NEW s \in Sessions, DeleteSession(s)
  PROVE  Freed(s) \/ Idles
<1>1. s \in Held
  BY InStoreHolds DEF DeleteSession, Held
<1>2. CASE Deleted(s)
  BY <1>1, <1>2 DEF Deleted, Freed, Held
<1>3. CASE DeleteLosesEngine(s) \/ OnlyInvalidates(s)
  BY <1>3 DEF DeleteLosesEngine, OnlyInvalidates, ownerVars, Idles, Held
<1>4. QED
  BY <1>2, <1>3 DEF DeleteSession

\* A failed rollback quarantines a session that is resident already.
LEMMA ServeSlots ==
  ASSUME CapacityInv, NEW s \in Sessions, logical[s] # None,
         resident' = resident, unusable' \in {unusable, unusable \cup {s}}, retired' = retired
  PROVE  Idles
BY InStoreHolds DEF Idles, Held

LEMMA LearnSlots ==
  ASSUME CapacityInv, NEW s \in Sessions, NEW e, NEW p, NEW v, Learn(s, e, p, v)
  PROVE  Idles
<1>1. logical[s] # None
  BY DEF Learn, Usable
<1>2. resident' = resident /\ retired' = retired
  BY DEF Learn, OnlyInvalidates, ownerVars
<1>3. unusable' \in {unusable, unusable \cup {s}}
  BY DEF Learn, OnlyInvalidates, ownerVars, LearnApplied, LearnFailed, Rollback
<1>4. QED
  BY <1>1, <1>2, <1>3, ServeSlots

LEMMA RestoreSlots ==
  ASSUME CapacityInv, NEW s \in Sessions, NEW n, Restore(s, n)
  PROVE  Idles
<1>1. logical[s] # None
  BY DEF Restore, Usable
<1>2. resident' = resident /\ retired' = retired
  BY DEF Restore, OnlyInvalidates, ownerVars
<1>3. unusable' \in {unusable, unusable \cup {s}}
  BY DEF Restore, OnlyInvalidates, ownerVars, Restored, Rollback
<1>4. QED
  BY <1>1, <1>2, <1>3, ServeSlots

LEMMA RetireSlots ==
  ASSUME CapacityInv, NEW s \in Sessions, NEW n, NEW v, NEW reuse,
         RetireSession(s, n, v, reuse)
  PROVE  Buried(s) \/ Idles
<1>1. s \in resident /\ s \notin unusable /\ s \notin retired
  BY InStoreHolds DEF RetireSession, MayRetire, Usable
<1>2. CASE RetireAborted(s, n, reuse)
  BY <1>2 DEF RetireAborted, ownerVars, Idles, Held
<1>3. CASE retired' = retired \cup {s} /\ RetirePrepareFailed(s, n, reuse)
  BY <1>1, <1>3 DEF RetirePrepareFailed, Buried, Held
<1>4. CASE retired' = retired \cup {s} /\ RetireDeleteFailed(s, n, reuse)
  BY <1>1, <1>4 DEF RetireDeleteFailed, Buried, Held
<1>5. CASE retired' = retired \cup {s} /\ RetireReleased(s, n, reuse)
  <2>1. resident' = resident \ {s} /\ unusable' \in {unusable, unusable \cup {s}}
    BY <1>5 DEF RetireReleased
  <2>2. Held' \in {Held, Held \ {s}}
    BY <1>1, <2>1 DEF Held
  <2>3. QED
    BY <1>1, <1>5, <2>2 DEF Buried, Held
<1>6. QED
  BY <1>2, <1>3, <1>4, <1>5 DEF RetireSession

\* Every step of a session is one of the four.
LEMMA SessionSlots ==
  ASSUME CapacityInv, NEW s \in Sessions, SessionStep(s)
  PROVE  Taken(s) \/ Freed(s) \/ Buried(s) \/ Idles
<1>1. CASE Policy(s) \/ Value(s) \/ InspectBackend(s)
  BY <1>1 DEF Policy, Value, InspectBackend, OnlyInvalidates, ownerVars, Idles, Held
<1>2. ASSUME NEW n \in Names, NEW f \in BOOLEAN, Snapshot(s, n, f) PROVE Idles
  BY <1>2 DEF Snapshot, SnapshotTaken, OnlyInvalidates, ownerVars, Idles, Held
<1>3. ASSUME NEW n \in Names, NEW x \in Experiences, PublishExperience(s, n, x) PROVE Idles
  BY <1>3 DEF PublishExperience, OnlyInvalidates, ownerVars, Idles, Held
<1>4. QED
  BY <1>1, <1>2, <1>3, CreateSlots, DeleteSlots, LearnSlots, RestoreSlots, RetireSlots
     DEF SessionStep

\* Slots counts as the runtime does: the instance has its own name for it.
LEMMA SameCount == \A S : Contract!Cardinality(S) = Cardinality(S)
BY Zenon DEF Cardinality, Contract!Cardinality

\* Every step of the runtime is a step of Slots or leaves its state alone.
LEMMA SlotsStep ==
  CapacityInv /\ [Next]_vars => [Contract!Next]_<<resident \cup unusable, retired>>
<1> SUFFICES ASSUME CapacityInv, [Next]_vars
             PROVE  [Contract!Next]_<<resident \cup unusable, retired>>
  OBVIOUS
<1>1. ASSUME NEW s \in Sessions, SessionStep(s)
      PROVE  [Contract!Next]_<<resident \cup unusable, retired>>
  <2>1. CASE Taken(s)
    <3>1. Contract!Admit(s)
      BY <2>1, SameCount DEF Taken, Held, MayAllocate, Allocated, Contract!Admit, Contract!Admissible
    <3>2. QED
      BY <3>1 DEF Contract!Next
  <2>2. CASE Freed(s)
    BY <2>2 DEF Freed, Held, Contract!Free, Contract!Next
  <2>3. CASE Buried(s)
    BY <2>3 DEF Buried, Held, Contract!Bury, Contract!Next
  <2>4. CASE Idles
    BY <2>4 DEF Idles, Held
  <2>5. QED
    BY <1>1, <2>1, <2>2, <2>3, <2>4, SessionSlots
<1>2. CASE UNCHANGED vars
  BY <1>2 DEF vars, ownerVars
<1>3. QED
  BY <1>1, <1>2 DEF Next

\* The runtime implements Slots: whatever its calls do and however they fail, a
\* slot is taken only within the capacity by an identity never retired, and only
\* the operations that name a session give it back (runtime.py:171-324).
THEOREM SlotsImplemented == Spec => ImplementsSlots
<1>1. Init => Contract!Init
  BY DEF Init, Contract!Init
<1>2. QED
  BY <1>1, CapacityInductive, SlotsStep, PTL DEF Spec, ImplementsSlots, Contract!Spec

=============================================================================
