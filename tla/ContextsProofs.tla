---------------------------- MODULE ContextsProofs ----------------------------
(***************************************************************************)
(* Theorems about Contexts, for every set of sessions, prompts, tactics    *)
(* and events and every limit.                                             *)
(*                                                                         *)
(* A restore brings back any export, so whatever is to hold of the live    *)
(* state of a session must hold of its exports as well.  The invariant is  *)
(* therefore one predicate of a session's state, Sound, which every        *)
(* operation keeps; that it holds of all states, live and exported, is     *)
(* then the same argument for every action.                                *)
(***************************************************************************)
EXTENDS Contexts, FiniteSetTheorems, TLAPS

SessionStates == [weights : Weights, contexts : [Prompts -> ContextStates \cup {None}], draws : Nat]

\* Only finitely many contexts and batches are kept, below the limits.
WithinLimits(x) ==
    /\ IsFiniteSet(Known(x)) /\ Cardinality(Known(x)) <= MaxContexts
    /\ IsFiniteSet(Recordings(x)) /\ Batches(x) <= MaxBatches
    /\ ~strict => \A p \in Known(x) : x.contexts[p].traces = << >>

\* The random stream has moved once for everything the state holds.
Accounted(x) ==
    strict => x.draws = Cardinality(Known(x)) + Batches(x) + Version(x.weights)

Sound(x) == x \in SessionStates /\ DescendsFrom(x) /\ WithinLimits(x) /\ Accounted(x)

StatesSound ==
    /\ strict \in BOOLEAN
    /\ live \in [Sessions -> SessionStates \cup {None}]
    /\ saved \in [Sessions -> SUBSET SessionStates]
    /\ \A s \in Sessions : live[s] # None => Sound(live[s])
    /\ \A s \in Sessions : \A image \in saved[s] : Sound(image)

IInv == StatesSound /\ TrainedOnRecorded

-----------------------------------------------------------------------------
(* Weights and their prefixes.                                             *)

LEMMA PrefixOfItself == \A w \in Weights : IsPrefix(w, w)
BY DEF IsPrefix, Weights

\* Training keeps the weights a state descends from.
LEMMA PrefixTrained ==
  ASSUME NEW v \in Weights, NEW w \in Weights, NEW e \in Events \cup {FinalEvent}, IsPrefix(v, w)
  PROVE  IsPrefix(v, Append(w, e)) /\ Append(w, e) \in Weights
<1> USE DEF Weights
<1>1. Len(v) \in Nat /\ Len(w) \in Nat /\ Len(v) <= Len(w) /\ Len(Append(w, e)) = Len(w) + 1
  BY DEF IsPrefix
<1>2. SubSeq(v, 1, Len(v)) = SubSeq(w, 1, Len(v))
  BY DEF IsPrefix
<1>3. SubSeq(w, 1, Len(v)) = SubSeq(Append(w, e), 1, Len(v))
  BY <1>1
<1>4. QED
  BY <1>1, <1>2, <1>3 DEF IsPrefix

\* A version never decreases along a lineage.
LEMMA PrefixVersion ==
  ASSUME NEW v \in Weights, NEW w \in Weights, IsPrefix(v, w)
  PROVE  Version(v) \in Nat /\ Version(w) \in Nat /\ Version(v) <= Version(w)
BY DEF IsPrefix, Weights, Version

LEMMA LineageIsWeights == Lineages \subseteq Weights
BY DEF Lineages, SeqOf, Weights

-----------------------------------------------------------------------------
(* What a session keeps.                                                   *)

\* An element of a sequence has the type of its elements.
LEMMA ElementType == \A S : \A s \in Seq(S) : \A i \in DOMAIN s : s[i] \in S
OBVIOUS

\* The state x after one transaction that left c as the context of p.
Keeping(x, p, c) ==
    [x EXCEPT !.contexts = [x.contexts EXCEPT ![p] = c], !.draws = x.draws + 1]

LEMMA ContextUpdated ==
  ASSUME NEW x \in SessionStates, NEW p \in Prompts, NEW c \in ContextStates, NEW y,
         y = Keeping(x, p, c)
  PROVE  /\ y \in SessionStates /\ y.weights = x.weights /\ y.draws = x.draws + 1
         /\ y.contexts[p] = c /\ \A q \in Prompts \ {p} : y.contexts[q] = x.contexts[q]
<1>1. PICK f \in [Prompts -> ContextStates \cup {None}] :
        /\ f = [x.contexts EXCEPT ![p] = c]
        /\ f[p] = c /\ \A q \in Prompts \ {p} : f[q] = x.contexts[q]
  <2>1. x.contexts \in [Prompts -> ContextStates \cup {None}]
    BY DEF SessionStates
  <2>2. PICK g \in [Prompts -> ContextStates \cup {None}] : g = x.contexts
    BY <2>1
  <2>3. /\ [g EXCEPT ![p] = c] \in [Prompts -> ContextStates \cup {None}]
        /\ [g EXCEPT ![p] = c][p] = c
        /\ \A q \in Prompts \ {p} : [g EXCEPT ![p] = c][q] = g[q]
    OBVIOUS
  <2>4. QED
    BY <2>2, <2>3
<1>2. PICK d \in Nat : d = x.draws + 1
  BY DEF SessionStates
<1>3. y = [x EXCEPT !.contexts = f, !.draws = d]
  BY <1>1, <1>2 DEF Keeping
<1>4. y = [weights |-> x.weights, contexts |-> f, draws |-> d] /\ x.weights \in Weights
  BY <1>3 DEF SessionStates
<1>5. QED
  BY <1>1, <1>2, <1>4 DEF SessionStates

\* The state x after one transaction that left w as its weights.
Trained(x, w) == [x EXCEPT !.weights = w, !.draws = x.draws + 1]

LEMMA WeightsUpdated ==
  ASSUME NEW x \in SessionStates, NEW w \in Weights, NEW y, y = Trained(x, w)
  PROVE  /\ y \in SessionStates /\ y.weights = w /\ y.draws = x.draws + 1
         /\ y.contexts = x.contexts
<1>1. PICK d \in Nat : d = x.draws + 1
  BY DEF SessionStates
<1>2. y = [x EXCEPT !.weights = w, !.draws = d]
  BY <1>1 DEF Trained
<1>3. y = [weights |-> w, contexts |-> x.contexts, draws |-> d]
  BY <1>2 DEF SessionStates
<1>4. QED
  BY <1>1, <1>3 DEF SessionStates

\* A context that is kept has the values of one.
LEMMA ContextType ==
  ASSUME NEW x \in SessionStates, NEW p \in Known(x)
  PROVE  /\ p \in Prompts /\ x.contexts[p] \in ContextStates
         /\ x.contexts[p].made \in Weights /\ x.contexts[p].traces \in Seq(Traces)
         /\ \A i \in DOMAIN x.contexts[p].traces :
              /\ x.contexts[p].traces[i] \in Traces
              /\ x.contexts[p].traces[i].made \in Weights
<1>1. p \in Prompts /\ x.contexts[p] \in ContextStates
  BY DEF Known, SessionStates
<1>2. x.contexts[p].made \in Weights /\ x.contexts[p].traces \in Seq(Traces)
  BY <1>1 DEF ContextStates
<1>3. ASSUME NEW i \in DOMAIN x.contexts[p].traces
      PROVE  x.contexts[p].traces[i] \in Traces /\ x.contexts[p].traces[i].made \in Weights
  <2>1. x.contexts[p].traces[i] \in Traces
    BY <1>2, <1>3, ElementType
  <2>2. QED
    BY <2>1 DEF Traces
<1>4. QED
  BY <1>1, <1>2, <1>3

\* The counts of a sound state are numbers.
LEMMA CountTypes ==
  ASSUME NEW x, Sound(x)
  PROVE  /\ Cardinality(Known(x)) \in Nat /\ Batches(x) \in Nat
         /\ x.draws \in Nat /\ Version(x.weights) \in Nat /\ x.weights \in Weights
BY FS_CardinalityType DEF Sound, WithinLimits, Batches, SessionStates, Version, Weights

\* A session starts with nothing kept and nothing drawn.
LEMMA FreshSound == Sound(Fresh)
<1>1. Fresh \in SessionStates
  BY DEF Fresh, SessionStates, Weights
<1>2. Known(Fresh) = {}
  BY DEF Fresh, Known
<1>3. Recordings(Fresh) = {}
  BY <1>2 DEF Recordings
<1>4. Cardinality(Known(Fresh)) = 0 /\ Batches(Fresh) = 0 /\ IsFiniteSet({})
  BY <1>2, <1>3, FS_EmptySet DEF Batches
<1>5. Version(Fresh.weights) = 0 /\ Fresh.draws = 0
  BY DEF Version, Fresh
<1>6. WithinLimits(Fresh)
  BY <1>2, <1>3, <1>4, ContextsAssumption DEF WithinLimits
<1>7. QED
  BY <1>1, <1>2, <1>4, <1>5, <1>6 DEF Sound, DescendsFrom, Accounted

\* A thought adds one context, and takes one transaction of the stream.
LEMMA ThoughtSound ==
  ASSUME NEW x, Sound(x), NEW p \in Prompts, p \notin Known(x), BelowLimit(x)
  PROVE  Sound(Thought(x, p)) /\ p \in Known(Thought(x, p))
<1> DEFINE c == [made |-> x.weights, traces |-> << >>]
           y == Thought(x, p)
<1>1. x \in SessionStates /\ x.weights \in Weights /\ c \in ContextStates /\ c # None
  <2>1. x \in SessionStates /\ x.weights \in Weights /\ << >> \in Seq(Traces)
    BY DEF Sound, SessionStates
  <2>2. c \in ContextStates
    BY <2>1 DEF ContextStates
  <2>3. QED
    BY <2>1, <2>2, ContextsAssumption
<1>2. /\ y.weights = x.weights /\ y.draws = x.draws + 1 /\ y.contexts[p] = c
      /\ \A q \in Prompts \ {p} : y.contexts[q] = x.contexts[q]
      /\ y \in SessionStates
  <2> SUFFICES ASSUME x \in SessionStates, c \in ContextStates,
                      y = Keeping(x, p, c)
               PROVE  /\ y \in SessionStates /\ y.weights = x.weights /\ y.draws = x.draws + 1
                      /\ y.contexts[p] = c
                      /\ \A q \in Prompts \ {p} : y.contexts[q] = x.contexts[q]
    BY <1>1 DEF Thought, Keeping
  <2> HIDE DEF y, c
  <2>1. QED
    BY ContextUpdated
<1> HIDE DEF y
<1>3. Known(y) = Known(x) \cup {p} /\ \A q \in Known(x) : y.contexts[q] = x.contexts[q]
  BY <1>1, <1>2 DEF Known
<1>4. Recordings(y) = Recordings(x)
  <2>1. {p} \X DOMAIN y.contexts[p].traces = {}
    BY <1>2
  <2>2. \A q \in Known(x) :
          {q} \X DOMAIN y.contexts[q].traces = {q} \X DOMAIN x.contexts[q].traces
    BY <1>3
  <2>3. QED
    BY <1>3, <2>1, <2>2 DEF Recordings
<1>5. IsFiniteSet(Known(y)) /\ Cardinality(Known(y)) = Cardinality(Known(x)) + 1
  BY <1>3, FS_AddElement DEF Sound, WithinLimits
<1>6. DescendsFrom(y)
  <2>1. SUFFICES ASSUME NEW q \in Known(y)
                 PROVE  /\ IsPrefix(y.contexts[q].made, y.weights)
                        /\ \A i \in DOMAIN y.contexts[q].traces :
                            /\ IsPrefix(y.contexts[q].made, y.contexts[q].traces[i].made)
                            /\ IsPrefix(y.contexts[q].traces[i].made, y.weights)
    BY DEF DescendsFrom
  <2>2. CASE q = p
    BY <2>2, <1>1, <1>2, PrefixOfItself
  <2>3. CASE q # p
    BY <2>3, <1>2, <1>3 DEF Sound, DescendsFrom
  <2>4. QED
    BY <2>2, <2>3
<1>7. WithinLimits(y)
  <2>1. Cardinality(Known(y)) <= MaxContexts
    BY <1>5, CountTypes, ContextsAssumption DEF BelowLimit
  <2>2. ~strict => \A q \in Known(y) : y.contexts[q].traces = << >>
    BY <1>2, <1>3 DEF Sound, WithinLimits
  <2>3. QED
    BY <1>4, <1>5, <2>1, <2>2 DEF WithinLimits, Sound, Batches
<1>8. Accounted(y)
  BY <1>2, <1>4, <1>5, CountTypes DEF Sound, Accounted, Batches
<1>9. QED
  BY <1>2, <1>3, <1>6, <1>7, <1>8 DEF Sound, y

\* So every state in which the context is there is a sound one.
LEMMA EnsuredSound ==
  ASSUME NEW x, Sound(x), NEW p \in Prompts, NEW y \in Ensured(x, p)
  PROVE  Sound(y) /\ p \in Known(y)
BY ThoughtSound DEF Ensured

\* With raw actions the batch only takes its transaction of the stream.
LEMMA RawBatchSound ==
  ASSUME NEW x, Sound(x), NEW p \in Known(x), NEW actions \in SUBSET Tactics, ~strict
  PROVE  Sound(Batch(x, p, actions))
<1> DEFINE y == Batch(x, p, actions)
<1>1. /\ y \in SessionStates /\ y.weights = x.weights /\ y.contexts = x.contexts
  BY DEF Batch, Sound, SessionStates
<1>2. Known(y) = Known(x) /\ Recordings(y) = Recordings(x)
  BY <1>1 DEF Known, Recordings
<1>3. QED
  BY <1>1, <1>2 DEF Sound, DescendsFrom, WithinLimits, Accounted, Batches

\* With strict actions it records one trace, made by the current weights.
LEMMA StrictBatchSound ==
  ASSUME NEW x, Sound(x), NEW p \in Known(x), NEW actions \in SUBSET Tactics,
         strict, HasRoom(x)
  PROVE  Sound(Batch(x, p, actions))
<1> DEFINE t == [made |-> x.weights, actions |-> actions]
           old == x.contexts[p]
           n == Len(old.traces)
           c == [old EXCEPT !.traces = Append(old.traces, t)]
           y == Batch(x, p, actions)
<1>1. /\ x \in SessionStates /\ x.weights \in Weights /\ t \in Traces
      /\ p \in Prompts /\ old \in ContextStates /\ old.traces \in Seq(Traces)
  BY ContextType DEF Sound, SessionStates, Traces
<1>2. /\ c \in ContextStates /\ c # None /\ c.made = old.made /\ n \in Nat
      /\ c.traces = Append(old.traces, t)
      /\ DOMAIN c.traces = 1..(n + 1) /\ DOMAIN old.traces = 1..n
      /\ c.traces[n + 1] = t /\ \A i \in 1..n : c.traces[i] = old.traces[i]
  <2>1. /\ old.traces \in Seq(Traces) /\ old.made \in Weights
        /\ Append(old.traces, t) \in Seq(Traces)
    BY <1>1 DEF ContextStates
  <2>2. c = [made |-> old.made, traces |-> Append(old.traces, t)]
    <3>1. PICK more \in Seq(Traces) : more = Append(old.traces, t)
      BY <2>1
    <3>2. c = [old EXCEPT !.traces = more]
      BY <3>1
    <3> HIDE DEF old
    <3>3. c = [made |-> old.made, traces |-> more]
      BY <1>1, <3>2 DEF ContextStates
    <3>4. QED
      BY <3>1, <3>3
  <2>3. c \in ContextStates
    BY <2>1, <2>2 DEF ContextStates
  <2>4. \A s \in Seq(Traces) :
          /\ Len(s) \in Nat /\ DOMAIN Append(s, t) = 1..(Len(s) + 1) /\ DOMAIN s = 1..Len(s)
          /\ Append(s, t)[Len(s) + 1] = t /\ \A i \in 1..Len(s) : Append(s, t)[i] = s[i]
    BY <1>1
  <2>5. QED
    BY <1>1, <2>1, <2>2, <2>3, <2>4, ContextsAssumption
<1>3. /\ y.weights = x.weights /\ y.draws = x.draws + 1 /\ y.contexts[p] = c
      /\ \A q \in Prompts \ {p} : y.contexts[q] = x.contexts[q]
      /\ y \in SessionStates
  <2> SUFFICES ASSUME x \in SessionStates, c \in ContextStates,
                      y = Keeping(x, p, c)
               PROVE  /\ y \in SessionStates /\ y.weights = x.weights /\ y.draws = x.draws + 1
                      /\ y.contexts[p] = c
                      /\ \A q \in Prompts \ {p} : y.contexts[q] = x.contexts[q]
    BY <1>1, <1>2 DEF Batch, Keeping
  <2> HIDE DEF y, c
  <2>1. QED
    BY <1>1, ContextUpdated
<1> HIDE DEF y, c
<1>4. Known(y) = Known(x)
  BY <1>1, <1>2, <1>3 DEF Known
<1>5. Recordings(y) = Recordings(x) \cup {<<p, n + 1>>} /\ <<p, n + 1>> \notin Recordings(x)
  <2>1. {p} \X DOMAIN y.contexts[p].traces
            = ({p} \X DOMAIN x.contexts[p].traces) \cup {<<p, n + 1>>}
    <3>1. 1..(n + 1) = (1..n) \cup {n + 1}
      BY <1>2
    <3>2. DOMAIN y.contexts[p].traces = DOMAIN x.contexts[p].traces \cup {n + 1}
      BY <1>2, <1>3, <3>1
    <3>3. QED
      BY <3>2
  <2>2. \A q \in Known(x) : q # p =>
          {q} \X DOMAIN y.contexts[q].traces = {q} \X DOMAIN x.contexts[q].traces
    BY <1>3 DEF Known
  <2>3. Recordings(y) = Recordings(x) \cup {<<p, n + 1>>}
    BY <1>4, <2>1, <2>2 DEF Recordings
  <2>4. ASSUME <<p, n + 1>> \in Recordings(x)
        PROVE  FALSE
    <3>1. PICK q \in Known(x) : <<p, n + 1>> \in {q} \X DOMAIN x.contexts[q].traces
      BY <2>4 DEF Recordings
    <3>2. n + 1 \in 1..n
      BY <3>1, <1>2
    <3>3. QED
      BY <3>2, <1>2
  <2>5. QED
    BY <2>3, <2>4
<1>6. IsFiniteSet(Recordings(y)) /\ Batches(y) = Batches(x) + 1
  <2>1. IsFiniteSet(Recordings(x))
    BY DEF Sound, WithinLimits
  <2>2. /\ IsFiniteSet(Recordings(x) \cup {<<p, n + 1>>})
        /\ Cardinality(Recordings(x) \cup {<<p, n + 1>>}) = Cardinality(Recordings(x)) + 1
    BY <1>5, <2>1, FS_AddElement
  <2>3. QED
    BY <1>5, <2>2 DEF Batches
<1>7. DescendsFrom(y)
  <2>1. SUFFICES ASSUME NEW q \in Known(y)
                 PROVE  /\ IsPrefix(y.contexts[q].made, y.weights)
                        /\ \A i \in DOMAIN y.contexts[q].traces :
                            /\ IsPrefix(y.contexts[q].made, y.contexts[q].traces[i].made)
                            /\ IsPrefix(y.contexts[q].traces[i].made, y.weights)
    BY DEF DescendsFrom
  <2>2. CASE q = p
    <3>1. /\ IsPrefix(old.made, x.weights)
          /\ \A i \in 1..n : /\ IsPrefix(old.made, old.traces[i].made)
                             /\ IsPrefix(old.traces[i].made, x.weights)
      BY <1>2 DEF Sound, DescendsFrom
    <3>2. t.made = x.weights /\ IsPrefix(t.made, x.weights)
      BY <1>1, PrefixOfItself
    <3>3. \A i \in 1..(n + 1) : i = n + 1 \/ i \in 1..n
      BY <1>2
    <3>4. \A i \in DOMAIN c.traces : /\ IsPrefix(c.made, c.traces[i].made)
                                     /\ IsPrefix(c.traces[i].made, x.weights)
      BY <1>2, <3>1, <3>2, <3>3
    <3>5. QED
      BY <2>2, <1>2, <1>3, <3>1, <3>4
  <2>3. CASE q # p
    BY <2>3, <1>3, <1>4 DEF Sound, DescendsFrom, Known
  <2>4. QED
    BY <2>2, <2>3
<1>8. WithinLimits(y)
  <2>1. Batches(y) <= MaxBatches
    BY <1>6, CountTypes, ContextsAssumption DEF HasRoom
  <2>2. QED
    BY <1>4, <1>6, <2>1 DEF WithinLimits, Sound
<1>9. Accounted(y)
  BY <1>3, <1>4, <1>6, CountTypes DEF Sound, Accounted
<1>10. QED
  BY <1>3, <1>7, <1>8, <1>9 DEF Sound, y

\* Training moves the weights of a state on, with one transaction.
LEMMA TrainedSound ==
  ASSUME NEW x, Sound(x), NEW e \in Events \cup {FinalEvent}
  PROVE  Sound([x EXCEPT !.weights = Append(@, e), !.draws = @ + 1])
<1> DEFINE y == [x EXCEPT !.weights = Append(@, e), !.draws = @ + 1]
<1>1. /\ x \in SessionStates /\ x.weights \in Weights /\ Append(x.weights, e) \in Weights
      /\ Version(Append(x.weights, e)) = Version(x.weights) + 1
  BY DEF Sound, SessionStates, Weights, Version
<1>2. /\ y.weights = Append(x.weights, e) /\ y.draws = x.draws + 1 /\ y.contexts = x.contexts
      /\ y \in SessionStates
  <2>1. y = Trained(x, Append(x.weights, e))
    BY DEF Trained
  <2>2. PICK w \in Weights : w = Append(x.weights, e)
    BY <1>1
  <2> HIDE DEF y
  <2>3. y \in SessionStates /\ y.weights = w /\ y.draws = x.draws + 1 /\ y.contexts = x.contexts
    <3>1. x \in SessionStates /\ y = Trained(x, w)
      BY <1>1, <2>1, <2>2
    <3>2. QED
      BY <3>1, WeightsUpdated
  <2>4. QED
    BY <2>2, <2>3
<1> HIDE DEF y
<1>3. Known(y) = Known(x) /\ Recordings(y) = Recordings(x)
  BY <1>2 DEF Known, Recordings
<1>4. DescendsFrom(y)
  <2>1. SUFFICES ASSUME NEW q \in Known(x)
                 PROVE  /\ IsPrefix(x.contexts[q].made, y.weights)
                        /\ \A i \in DOMAIN x.contexts[q].traces :
                            /\ IsPrefix(x.contexts[q].made, x.contexts[q].traces[i].made)
                            /\ IsPrefix(x.contexts[q].traces[i].made, y.weights)
    BY <1>2, <1>3 DEF DescendsFrom
  <2>2. /\ IsPrefix(x.contexts[q].made, x.weights)
        /\ \A i \in DOMAIN x.contexts[q].traces :
            /\ IsPrefix(x.contexts[q].made, x.contexts[q].traces[i].made)
            /\ IsPrefix(x.contexts[q].traces[i].made, x.weights)
    BY DEF Sound, DescendsFrom
  <2>3. QED
    BY <2>2, <1>1, <1>2, ContextType, PrefixTrained
<1>5. QED
  BY <1>1, <1>2, <1>3, <1>4, CountTypes DEF Sound, WithinLimits, Accounted, Batches, y

-----------------------------------------------------------------------------
(* The invariant, one step per action.                                     *)

\* An operation that leaves its session in a sound state, or without one, and
\* trains nothing keeps every state sound.
LEMMA BecomesSound ==
  ASSUME IInv, NEW s \in Sessions, NEW x, x = None \/ Sound(x), Becomes(s, x)
  PROVE  IInv'
<1>1. x \in SessionStates \cup {None}
  BY DEF Sound
<1>2. /\ live' \in [Sessions -> SessionStates \cup {None}] /\ live'[s] = x
      /\ \A t \in Sessions \ {s} : live'[t] = live[t]
      /\ strict' = strict /\ saved' = saved /\ lesson' = None
  BY <1>1 DEF IInv, StatesSound, Becomes
<1>3. \A t \in Sessions : live'[t] # None => Sound(live'[t])
  BY <1>2 DEF IInv, StatesSound
<1>4. \A z : Sound(z)' <=> Sound(z)
  BY <1>2 DEF Sound, WithinLimits, Accounted
<1>5. StatesSound'
  BY <1>2, <1>3 DEF IInv, StatesSound, Sound, WithinLimits, Accounted
<1>6. TrainedOnRecorded'
  BY <1>2 DEF TrainedOnRecorded
<1>7. QED
  BY <1>5, <1>6 DEF IInv

\* Policy and value calls, whether they return or fail.
LEMMA ServeSound ==
  ASSUME IInv, NEW s \in Sessions, NEW p \in Prompts,
         Value(s, p) \/ Policy(s, p) \/ PolicyFails(s, p)
  PROVE  IInv'
<1>1. Sound(live[s])
  BY DEF IInv, StatesSound, Value, Policy, PolicyFails
<1>2. CASE Value(s, p)
  BY <1>1, <1>2, EnsuredSound, BecomesSound DEF Value
<1>3. CASE Policy(s, p)
  <2>1. PICK x \in Ensured(live[s], p), actions \in SUBSET Tactics :
          HasRoom(x) /\ Becomes(s, Batch(x, p, actions))
    BY <1>3 DEF Policy
  <2>2. Sound(x) /\ p \in Known(x)
    BY <1>1, EnsuredSound
  <2>3. Sound(Batch(x, p, actions))
    BY <2>1, <2>2, RawBatchSound, StrictBatchSound
  <2>4. QED
    BY <2>1, <2>3, BecomesSound
<1>4. CASE PolicyFails(s, p)
  BY <1>1, <1>4, EnsuredSound, BecomesSound DEF PolicyFails, ThoughtFails
<1>5. QED
  BY <1>2, <1>3, <1>4

\* Training keeps every state sound; the exports and the other sessions are
\* left alone.
LEMMA TrainsSound ==
  ASSUME IInv, NEW s \in Sessions, live[s] # None, NEW e \in Events \cup {FinalEvent},
         Trains(s, e), UNCHANGED <<strict, saved>>
  PROVE  StatesSound'
<1>1. Sound(live[s])
  BY DEF IInv, StatesSound
<1>2. PICK x : x = [live[s] EXCEPT !.weights = Append(@, e), !.draws = @ + 1]
  OBVIOUS
<1>3. Sound(x)
  BY <1>1, <1>2, TrainedSound
<1>4. live' = [live EXCEPT ![s] = x]
  BY <1>2 DEF Trains, IInv, StatesSound
<1>5. /\ live' \in [Sessions -> SessionStates \cup {None}] /\ live'[s] = x
      /\ \A t \in Sessions \ {s} : live'[t] = live[t]
  BY <1>3, <1>4 DEF IInv, StatesSound, Sound
<1>6. \A t \in Sessions : live'[t] # None => Sound(live'[t])
  BY <1>3, <1>5 DEF IInv, StatesSound
<1>7. QED
  BY <1>5, <1>6 DEF IInv, StatesSound, Sound, WithinLimits, Accounted

\* An accepted event holds only what the session's context has recorded.
LEMMA AcceptedIsRecorded ==
  ASSUME NEW x, Sound(x), NEW p \in Prompts, NEW e \in Events, NEW rows \in Candidates,
         MayLearn(x, p, e, rows), strict, NEW t \in DOMAIN rows
  PROVE  IsPrefix(rows[t], x.weights)
<1>1. rows[t] \in Weights /\ rows[t] # None
  <2>1. PICK T \in SUBSET Tactics : rows \in [T -> Lineages]
    BY DEF Candidates
  <2>2. QED
    BY <2>1, LineageIsWeights, ContextsAssumption
<1>2. p \in Known(x) /\ Recorded(x.contexts[p], t, Version(rows[t]), rows[t])
  BY DEF MayLearn
<1>3. PICK i \in DOMAIN x.contexts[p].traces : x.contexts[p].traces[i].made = rows[t]
  BY <1>1, <1>2 DEF Recorded
<1>4. QED
  BY <1>2, <1>3 DEF Sound, DescendsFrom

LEMMA LearnSound ==
  ASSUME IInv, NEW s \in Sessions, NEW p \in Prompts, NEW e \in Events,
         NEW rows \in Candidates, Learn(s, p, e, rows)
  PROVE  IInv'
<1>1. Sound(live[s])
  BY DEF IInv, StatesSound, Learn
<1>2. StatesSound'
  BY TrainsSound DEF Learn
<1>3. TrainedOnRecorded'
  <2>1. SUFFICES ASSUME strict, NEW t \in DOMAIN rows
                 PROVE  IsPrefix(rows[t], live[s].weights)
    <3>1. /\ lesson' = [at |-> live[s].weights, rows |-> rows] /\ strict' = strict
      BY DEF Learn
    <3>2. lesson'.at = live[s].weights /\ lesson'.rows = rows
      BY <3>1
    <3>3. QED
      BY <3>1, <3>2 DEF TrainedOnRecorded
  <2>2. MayLearn(live[s], p, e, rows)
    BY DEF Learn
  <2>3. QED
    BY <1>1, <2>1, <2>2, AcceptedIsRecorded
<1>4. QED
  BY <1>2, <1>3 DEF IInv

LEMMA LearnSuccessSound ==
  ASSUME IInv, NEW s \in Sessions, NEW rows \in FinalRows, LearnSuccess(s, rows)
  PROVE  IInv'
<1>1. StatesSound'
  BY TrainsSound DEF LearnSuccess
<1>2. TrainedOnRecorded'
  BY DEF LearnSuccess, TrainedOnRecorded
<1>3. QED
  BY <1>1, <1>2 DEF IInv

\* An export is the session's own state, and a restore puts an export in its place.
LEMMA SaveSound ==
  ASSUME IInv, NEW s \in Sessions, Save(s)
  PROVE  IInv'
<1>1. Sound(live[s]) /\ live[s] \in SessionStates
  BY DEF IInv, StatesSound, Save, Sound
<1>2. /\ saved' \in [Sessions -> SUBSET SessionStates] /\ saved'[s] = saved[s] \cup {live[s]}
      /\ \A t \in Sessions \ {s} : saved'[t] = saved[t]
      /\ live' = live /\ strict' = strict /\ lesson' = None
  BY <1>1 DEF IInv, StatesSound, Save
<1>3. \A t \in Sessions : \A image \in saved'[t] : Sound(image)
  BY <1>1, <1>2 DEF IInv, StatesSound
<1>4. StatesSound'
  BY <1>2, <1>3 DEF IInv, StatesSound, Sound, WithinLimits, Accounted
<1>5. TrainedOnRecorded'
  BY <1>2 DEF TrainedOnRecorded
<1>6. QED
  BY <1>4, <1>5 DEF IInv

LEMMA RestoreSound ==
  ASSUME IInv, NEW s \in Sessions, Restore(s)
  PROVE  IInv'
<1>1. PICK image \in saved[s] : Becomes(s, image)
  BY DEF Restore, Imported
<1>2. Sound(image)
  BY DEF IInv, StatesSound
<1>3. QED
  BY <1>1, <1>2, BecomesSound

LEMMA InitInv == Init => IInv
BY DEF Init, IInv, StatesSound, TrainedOnRecorded

LEMMA NextInv == IInv /\ [Next]_vars => IInv'
<1> SUFFICES ASSUME IInv, [Next]_vars PROVE IInv'
  OBVIOUS
<1>1. CASE UNCHANGED vars
  BY <1>1 DEF vars, IInv, StatesSound, TrainedOnRecorded, Sound, WithinLimits, Accounted
<1>2. ASSUME NEW s \in Sessions, Create(s) PROVE IInv'
  BY <1>2, FreshSound, BecomesSound DEF Create
<1>3. ASSUME NEW s \in Sessions, Delete(s) PROVE IInv'
  BY <1>3, BecomesSound DEF Delete
<1>4. QED
  BY <1>1, <1>2, <1>3, SaveSound, RestoreSound, ServeSound, LearnSound, LearnSuccessSound
  DEF Next

\* The states every run goes through are sound, live and exported alike.
THEOREM StatesAreSound == Spec => []IInv
<1>1. QED
  BY InitInv, NextInv, PTL DEF Spec

-----------------------------------------------------------------------------
(* The properties that TLC checks on a small instance.                     *)

\* Contexts were thought, and actions returned, by weights that the session's
\* weights descend from, in this order, also in every export and after every
\* restore: the context and the trace a batch records come from one state, and
\* training only appends to it (ContextsAreLineage).
THEOREM LineageSafe == Spec => []ContextsAreLineage
<1>1. IInv => ContextsAreLineage
  BY DEF IInv, StatesSound, Sound, ContextsAreLineage
<1>2. QED
  BY <1>1, StatesAreSound, PTL

\* With strict actions an accepted event holds only actions that ancestors of
\* the trained weights gave that very logprob, although versions repeat after a
\* restore (TrainedOnRecorded).
THEOREM RecordedSafe == Spec => []TrainedOnRecorded
<1>1. IInv => TrainedOnRecorded
  BY DEF IInv
<1>2. QED
  BY <1>1, StatesAreSound, PTL

\* Every live session passes the validation of its own export, so that neither
\* a rollback nor a restore of a fresh export is refused (ExportedIsImportable).
THEOREM ImportableSafe == Spec => []ExportedIsImportable
<1>1. ASSUME NEW x, Sound(x) PROVE Importable(x)
  <2>1. SUFFICES ASSUME NEW p \in Known(x)
                 PROVE  /\ Version(x.contexts[p].made) <= Version(x.weights)
                        /\ ~strict => x.contexts[p].traces = << >>
                        /\ \A i \in DOMAIN x.contexts[p].traces :
                            /\ Version(x.contexts[p].made) <= Version(x.contexts[p].traces[i].made)
                            /\ Version(x.contexts[p].traces[i].made) <= Version(x.weights)
    BY <1>1 DEF Importable, Sound, WithinLimits
  <2>2. x \in SessionStates /\ x.weights \in Weights
    BY <1>1 DEF Sound, SessionStates
  <2>3. /\ IsPrefix(x.contexts[p].made, x.weights)
        /\ \A i \in DOMAIN x.contexts[p].traces :
            /\ IsPrefix(x.contexts[p].made, x.contexts[p].traces[i].made)
            /\ IsPrefix(x.contexts[p].traces[i].made, x.weights)
    BY <1>1 DEF Sound, DescendsFrom
  <2>4. QED
    BY <1>1, <2>2, <2>3, ContextType, PrefixVersion DEF Sound, WithinLimits
<1>2. IInv => ExportedIsImportable
  BY <1>1 DEF IInv, StatesSound, ExportedIsImportable
<1>3. QED
  BY <1>2, StatesAreSound, PTL

\* The stream of a session with strict actions has moved exactly once for each
\* context, batch and update it holds (StreamIsAccounted).
THEOREM StreamSafe == Spec => []StreamIsAccounted
<1>1. IInv => StreamIsAccounted
  BY DEF IInv, StatesSound, Sound, Accounted, StreamIsAccounted
<1>2. QED
  BY <1>1, StatesAreSound, PTL

=============================================================================
