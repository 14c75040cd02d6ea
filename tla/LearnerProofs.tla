---------------------------- MODULE LearnerProofs ----------------------------
(***************************************************************************)
(* Theorems about Learner, Continual and Sampler, for any number of        *)
(* processes, steps and learn calls, any catalogs, seeds and batch: no     *)
(* step is trained twice, the log and the head tell one history, a live    *)
(* coordinator has it, the run implements Ledger, and what it trains on    *)
(* are the next rows of each source, step after step.                      *)
(*                                                                         *)
(* Only the owner of the lease acts on the run (LeaseInv), so what the     *)
(* disk is like while an operation is under way is known from the phase of *)
(* that one coordinator (PhaseInv).  Everybody else, crashed coordinators  *)
(* and clients of the runtime included, can only leave the disk behind as  *)
(* LogInv and HeadInv describe it.  The same phases say what a coordinator *)
(* has in memory of the sampler (DataInv).                                 *)
(***************************************************************************)
EXTENDS Continual, FiniteSetTheorems, SequenceTheorems, WellFoundedInduction, TLAPS

-----------------------------------------------------------------------------
(* The inductive invariant                                                 *)

Sequence == Seq(Updates)
File     == Sequence \cup {None, Torn}
Phases   ==
    {"none", "idle", "intended", "trained", "saved", "announced", "released", "blocked"}

TypeOK ==
    /\ control \in {"absent", "created", "broken"}
    /\ intents \in [Steps -> File] /\ commits \in [Steps -> File]
    /\ headDir \in BOOLEAN
    /\ checkpoints \subseteq Sequence /\ releases \subseteq Sequence
    /\ lease \in Processes \cup {None}
    /\ phase \in [Processes -> Phases]
    /\ parent \in [Processes -> Sequence] /\ cache \in [Processes -> Sequence]
    /\ pin \in [Processes -> Sequence] /\ journal \in [Processes -> SUBSET Sequence]
    /\ session \in [Processes -> Sequence \cup {None}]
    /\ learned \in [Steps -> 0..MaxAttempts]

\* A coordinator that has started and not ended owns the lease.
LeaseInv == \A c \in Processes : phase[c] # "none" <=> lease = c

StoreInv ==
    /\ \A k \in checkpoints : \A i \in 1..Len(k) : k[i] # Foreign
    /\ releases \subseteq checkpoints

\* An intent comes after whole commits, a commit after the intent it follows
\* from, and a learn call after its intent.
IsWhole(n) == commits[n] \notin {None, Torn}

LogInv ==
    /\ \A n \in Steps : intents[n] # None =>
          control = "created" /\ \A m \in Steps : m < n => IsWhole(m)
    /\ \A n \in Steps : commits[n] # None => intents[n] # None /\ intents[n] = Committed(n - 1)
    /\ \A n \in Steps : IsWhole(n) =>
          /\ commits[n] \in checkpoints /\ Len(commits[n]) = n
          /\ \A m \in Steps : m < n => commits[m] = SubSeq(commits[n], 1, m)
    /\ \A n \in Steps : learned[n] # 0 => learned[n] = 1 /\ intents[n] # None

\* Records speak of checkpoints only, and a confirmation needs its announcement,
\* its release, its commit and the confirmations of the steps before it.
ConfirmedBelow(n) == \A i \in Steps : i < n => Confirmed(commits[i]) \in records

HeadInv ==
    /\ \A b \in records : b = Mode \/ \E k \in checkpoints : b = Announced(k) \/ b = Confirmed(k)
    /\ records # {} => headDir
    /\ \A k \in checkpoints : Confirmed(k) \in records =>
          /\ Mode \in records /\ Announced(k) \in records /\ k \in releases
          /\ Len(k) \in Steps /\ commits[Len(k)] = k
          /\ ConfirmedBelow(Len(k))

\* What a coordinator may rely on between two steps of an operation.
AtHead(c) ==
    /\ Len(parent[c]) \in 0..MaxSteps
    /\ LogEndsAt(Len(parent[c])) /\ parent[c] = Committed(Len(parent[c]))

Training(c) ==
    LET n == Len(parent[c]) + 1 IN
    /\ n \in Steps
    /\ parent[c] = Committed(n - 1) /\ intents[n] = parent[c] /\ commits[n] = None
    /\ headDir => ConfirmedBelow(n)

Publishing(c) ==
    /\ pin[c] = parent[c] /\ parent[c] # << >>
    /\ Mode \in records /\ Announced(pin[c]) \in records
    /\ ConfirmedBelow(Len(pin[c]))

PhaseInv(c) ==
    /\ cache[c] # << >> => Confirmed(cache[c]) \in records
    /\ phase[c] \in {"idle", "announced", "released"} => AtHead(c)
    /\ phase[c] \in {"intended", "trained", "saved"} => Training(c)
    /\ phase[c] = "intended" => learned[Len(parent[c]) + 1] = 0
    /\ phase[c] = "saved" => pin[c] \in checkpoints /\ Extends(pin[c], parent[c])
    /\ phase[c] \in {"announced", "released"} => Publishing(c)
    /\ phase[c] = "released" => pin[c] \in releases

DiskInv == TypeOK /\ StoreInv /\ LogInv /\ HeadInv

IInv == DiskInv /\ LeaseInv /\ \A c \in Processes : PhaseInv(c)

-----------------------------------------------------------------------------
(* Sequences and record bodies                                             *)

\* What the run is made of: finite runs of updates.
LEMMA Runs ==
  ASSUME NEW s \in Sequence
  PROVE  /\ Len(s) \in Nat /\ (s = << >> <=> Len(s) = 0)
         /\ SubSeq(s, 1, Len(s)) = s
         /\ \A n \in 0..Len(s) :
               /\ SubSeq(s, 1, n) \in Sequence /\ Len(SubSeq(s, 1, n)) = n
               /\ \A i \in 1..n : SubSeq(s, 1, n)[i] = s[i]
         /\ \A n \in 1..Len(s) : s[n] \in Updates
<1>1. Len(s) \in Nat /\ \A n \in 1..Len(s) : s[n] \in Updates
  BY ElementOfSeq, LenProperties DEF Sequence
<1>2. s = << >> <=> Len(s) = 0
  BY EmptySeq, LenProperties DEF Sequence
<1>3. SubSeq(s, 1, Len(s)) = s
  BY SubSeqFull DEF Sequence
<1>4. ASSUME NEW n \in 0..Len(s)
      PROVE  /\ SubSeq(s, 1, n) \in Sequence /\ Len(SubSeq(s, 1, n)) = n
             /\ \A i \in 1..n : SubSeq(s, 1, n)[i] = s[i]
  <2>1. \A i \in 1..n : s[i] \in Updates
    BY <1>1
  <2>2. n \in Int /\ 1 \in Int
    BY <1>1
  <2>3. /\ SubSeq(s, 1, n) \in Seq(Updates)
        /\ Len(SubSeq(s, 1, n)) = IF 1 <= n THEN n - 1 + 1 ELSE 0
        /\ \A i \in 1..n - 1 + 1 : SubSeq(s, 1, n)[i] = s[1 + i - 1]
    BY <2>1, <2>2, SubSeqProperties
  <2>4. QED
    BY <1>1, <2>3 DEF Sequence
<1>5. QED
  BY <1>1, <1>2, <1>3, <1>4

\* None, Torn and the empty run are told apart from whole files.
LEMMA Files ==
  /\ None \notin Sequence /\ Torn \notin Sequence /\ None # Torn
  /\ << >> \in Sequence /\ << >> # None /\ << >> # Torn
<1>1. Updates \subseteq Nat
  BY LearnerAssumption DEF Updates
<1>2. Sequence \subseteq Seq(Nat) /\ << >> \in Sequence
  BY <1>1, SeqMonotonic, EmptySeq DEF Sequence
<1>3. QED
  BY <1>2, LearnerAssumption

\* The three kinds of records are different, and a record names its checkpoint.
LEMMA Bodies ==
  /\ \A k : Mode # Announced(k) /\ Mode # Confirmed(k)
  /\ \A j, k : Announced(j) # Confirmed(k)
  /\ \A j, k : Announced(j) = Announced(k) => j = k
  /\ \A j, k : Confirmed(j) = Confirmed(k) => j = k
<1>1. ASSUME NEW k PROVE Mode # Announced(k) /\ Mode # Confirmed(k)
  <2>1. Len(Mode) = 1 /\ Len(Announced(k)) = 2 /\ Len(Confirmed(k)) = 2
    BY DEF Mode, Announced, Confirmed
  <2>2. QED
    BY <2>1
<1>2. QED
  BY <1>1 DEF Announced, Confirmed

\* A prefix of a prefix is a prefix.
LEMMA PrefixOfPrefix ==
  ASSUME NEW s \in Sequence, NEW n \in 0..Len(s), NEW m \in 0..n
  PROVE  SubSeq(SubSeq(s, 1, n), 1, m) = SubSeq(s, 1, m)
<1> DEFINE t == SubSeq(s, 1, n)
<1>1. t \in Sequence /\ Len(t) = n /\ Len(s) \in Nat
  BY Runs
<1>2. /\ SubSeq(t, 1, m) \in Sequence /\ Len(SubSeq(t, 1, m)) = m
      /\ SubSeq(s, 1, m) \in Sequence /\ Len(SubSeq(s, 1, m)) = m
  <2>1. m \in 0..Len(t) /\ m \in 0..Len(s)
    BY <1>1
  <2>2. QED
    BY <1>1, <2>1, Runs
<1>3. \A i \in 1..n : t[i] = s[i]
  BY Runs
<1>4. ASSUME NEW i \in 1..m PROVE SubSeq(t, 1, m)[i] = SubSeq(s, 1, m)[i]
  <2>1. i \in 1..n /\ m \in 0..Len(t) /\ m \in 0..Len(s)
    BY <1>1
  <2>2. SubSeq(t, 1, m)[i] = t[i] /\ SubSeq(s, 1, m)[i] = s[i]
    BY <1>1, <2>1, Runs
  <2>3. QED
    BY <1>3, <2>1, <2>2
<1>5. QED
  BY <1>2, <1>4, SeqEqual DEF Sequence

\* A run continued by one update.
LEMMA Continued ==
  ASSUME NEW s \in Sequence, NEW u \in Updates
  PROVE  /\ Append(s, u) \in Sequence /\ Len(Append(s, u)) = Len(s) + 1
         /\ Append(s, u)[Len(s) + 1] = u
         /\ SubSeq(Append(s, u), 1, Len(s)) = s
<1>1. /\ Append(s, u) \in Sequence /\ Len(Append(s, u)) = Len(s) + 1
      /\ \A i \in 1..Len(s) : Append(s, u)[i] = s[i]
      /\ Append(s, u)[Len(s) + 1] = u
  BY AppendProperties DEF Sequence
<1> DEFINE t == SubSeq(Append(s, u), 1, Len(s))
<1>2. Len(s) \in Nat /\ Len(s) \in 0..Len(Append(s, u))
  BY <1>1, Runs
<1>3. t \in Sequence /\ Len(t) = Len(s) /\ \A i \in 1..Len(s) : t[i] = Append(s, u)[i]
  BY <1>1, <1>2, Runs
<1>4. QED
  BY <1>1, <1>3, SeqEqual DEF Sequence

\* A whole run is its beginning and its last update.
LEMMA Extending ==
  ASSUME NEW s \in Sequence, NEW k \in Sequence, Extends(s, k)
  PROVE  s # << >> /\ s[Len(s)] \in Updates /\ s = Append(k, s[Len(s)])
<1>1. Len(s) = Len(k) + 1 /\ SubSeq(s, 1, Len(k)) = k
  BY DEF Extends
<1>2. s # << >> /\ s[Len(s)] \in Updates
  <2>1. Len(k) \in Nat
    BY Runs
  <2>2. Len(s) # 0 /\ Len(s) \in 1..Len(s)
    BY <1>1, <2>1
  <2>3. QED
    BY <2>2, Runs
<1>3. Append(k, s[Len(s)]) \in Sequence /\ Len(Append(k, s[Len(s)])) = Len(s)
  BY <1>1, <1>2, Continued
<1>4. ASSUME NEW i \in 1..Len(s) PROVE s[i] = Append(k, s[Len(s)])[i]
  <2>1. CASE i <= Len(k)
    <3>1. i \in 1..Len(k) /\ Append(k, s[Len(s)])[i] = k[i]
      BY <1>2, <2>1, AppendProperties, Runs DEF Sequence
    <3>2. SubSeq(s, 1, Len(k))[i] = s[i]
      BY <1>1, <3>1, Runs
    <3>3. QED
      BY <1>1, <3>1, <3>2
  <2>2. CASE i = Len(s)
    BY <1>1, <1>2, <2>2, Continued
  <2>3. QED
    BY <1>1, <2>1, <2>2, Runs
<1>5. QED
  BY <1>2, <1>3, <1>4, SeqEqual DEF Sequence

-----------------------------------------------------------------------------
(* What the log and the head say                                           *)

\* A log of n steps names the n checkpoints its last commit went through.
LEMMA LogReads ==
  ASSUME DiskInv, NEW n \in 0..MaxSteps, LogEndsAt(n)
  PROVE  /\ Committed(n) \in Sequence /\ Len(Committed(n)) = n
         /\ n # 0 => n \in Steps /\ IsWhole(n) /\ Committed(n) = commits[n]
                     /\ Committed(n) \in checkpoints /\ Committed(n) # << >>
         /\ \A i \in Steps : i <= n =>
               IsWhole(i) /\ commits[i] \in Sequence
               /\ commits[i] = SubSeq(Committed(n), 1, i)
<1>0. MaxSteps \in Nat
  BY LearnerAssumption
<1>1. \A i \in Steps : i <= n => IsWhole(i)
  BY DEF LogEndsAt, IsWhole
<1>2. \A i \in Steps : i <= n => commits[i] \in Sequence /\ Len(commits[i]) = i
                                /\ commits[i] \in checkpoints
  BY <1>1 DEF DiskInv, LogInv, TypeOK
<1>3. CASE n = 0
  BY <1>0, <1>3, Files, Runs DEF Committed, Steps
<1>4. CASE n # 0
  <2>1. n \in Steps /\ Committed(n) = commits[n]
    BY <1>0, <1>4 DEF Committed, Steps
  <2>2. commits[n] # << >>
    BY <1>2, <1>4, <2>1, Runs
  <2>3. ASSUME NEW i \in Steps, i <= n PROVE commits[i] = SubSeq(commits[n], 1, i)
    <3>1. CASE i < n
      <4>1. \A m \in Steps : IsWhole(m) =>
              \A l \in Steps : l < m => commits[l] = SubSeq(commits[m], 1, l)
        BY DEF DiskInv, LogInv
      <4>2. IsWhole(n)
        BY <1>1, <2>1
      <4>3. QED
        BY <2>1, <3>1, <4>1, <4>2
    <3>2. CASE i = n
      BY <1>2, <2>1, <3>2, Runs
    <3>3. QED
      BY <1>0, <2>3, <3>1, <3>2 DEF Steps
  <2>4. Len(commits[n]) = n /\ IsWhole(n) /\ commits[n] \in Sequence \cap checkpoints
    BY <1>1, <1>2, <2>1
  <2>5. QED
    BY <1>1, <1>2, <2>1, <2>2, <2>3, <2>4
<1>5. QED
  BY <1>3, <1>4

\* The published head that the records give is confirmed, as is every step below
\* the last, and in tracked runs the mode record is there.
LEMMA HeadReads ==
  ASSUME DiskInv, NEW n \in 0..MaxSteps, LogEndsAt(n), NEW allowed, PublicationReads(n, allowed)
  PROVE  /\ PublishedHead(n) \in Sequence
         /\ PublishedHead(n) # << >> => Confirmed(PublishedHead(n)) \in records
         /\ headDir => Mode \in records /\ ConfirmedBelow(n)
         /\ headDir /\ ~Unpublished(n) => ConfirmedBelow(n + 1)
<1>0. MaxSteps \in Nat
  BY LearnerAssumption
<1>1. headDir => Mode \in records /\ \A i \in 1..n : Confirmed(Committed(i)) \in records \/ i = n
  BY DEF PublicationReads
<1>2. \A i \in Steps : Committed(i) = commits[i]
  BY <1>0 DEF Committed, Steps
<1>3. headDir => ConfirmedBelow(n)
  BY <1>0, <1>1, <1>2 DEF ConfirmedBelow, Steps
<1>4. headDir /\ ~Unpublished(n) => ConfirmedBelow(n + 1)
  BY <1>0, <1>2, <1>3 DEF ConfirmedBelow, Unpublished, Steps
<1>5. /\ PublishedHead(n) \in Sequence
      /\ PublishedHead(n) # << >> => Confirmed(PublishedHead(n)) \in records
  <2>1. CASE ~headDir
    BY <2>1, Files DEF PublishedHead
  <2>2. CASE headDir /\ Unpublished(n)
    <3>1. n > 0 /\ PublishedHead(n) = Committed(n - 1)
      BY <2>2 DEF PublishedHead, Unpublished
    <3>2. CASE n = 1
      BY <3>1, <3>2, Files DEF Committed
    <3>3. CASE n # 1
      <4>1. n - 1 \in Steps /\ n - 1 <= n
        BY <1>0, <3>1, <3>3 DEF Steps
      <4>2. commits[n - 1] \in Sequence /\ Committed(n - 1) = commits[n - 1]
        BY <1>2, <4>1, LogReads
      <4>3. QED
        BY <1>3, <2>2, <3>1, <4>1, <4>2 DEF ConfirmedBelow
    <3>4. QED
      BY <3>2, <3>3
  <2>3. CASE headDir /\ ~Unpublished(n)
    <3>1. PublishedHead(n) = Committed(n) /\ Committed(n) \in Sequence
      BY <2>3, LogReads DEF PublishedHead
    <3>2. n = 0 => Committed(n) = << >>
      BY DEF Committed
    <3>3. QED
      BY <2>3, <3>1, <3>2 DEF Unpublished
  <2>4. QED
    BY <2>1, <2>2, <2>3
<1>6. QED
  BY <1>1, <1>3, <1>4, <1>5

\* An operation that starts finds its coordinator at the end of the log.
LEMMA LiveReads ==
  ASSUME DiskInv, NEW c \in Processes, NEW n \in 0..MaxSteps, NEW allow \in BOOLEAN,
         CheckLive(c, n, allow)
  PROVE  /\ phase[c] = "idle" /\ n = Len(parent[c]) /\ AtHead(c)
         /\ headDir => Mode \in records /\ ConfirmedBelow(n)
         /\ headDir /\ ~allow => ConfirmedBelow(n + 1)
<1>1. /\ LogEndsAt(n) /\ PublicationReads(n, {})
      /\ parent[c] = Committed(n) /\ (Unpublished(n) => allow)
      /\ phase[c] = "idle"
  BY DEF CheckLive
<1>2. n = Len(parent[c])
  BY <1>1, LogReads
<1>3. QED
  BY <1>1, <1>2, HeadReads DEF AtHead

-----------------------------------------------------------------------------
(* What an operation leaves alone                                          *)

\* The log of a run whose files did not change, in a store that may have grown.
LEMMA LogKept ==
  ASSUME LogInv, UNCHANGED <<log, learned>>, checkpoints \subseteq checkpoints'
  PROVE  LogInv'
BY DEF LogInv, log, Committed, IsWhole

\* The head does not depend on anything that can disappear.
LEMMA HeadKept ==
  ASSUME DiskInv, UNCHANGED <<records, headDir>>,
         checkpoints \subseteq checkpoints', releases \subseteq releases',
         \A n \in Steps : IsWhole(n) => commits'[n] = commits[n]
  PROVE  HeadInv'
<1>1. \A b \in records' : b = Mode \/ \E k \in checkpoints' : b = Announced(k) \/ b = Confirmed(k)
  BY DEF DiskInv, HeadInv
<1>2. ASSUME NEW k \in checkpoints', Confirmed(k) \in records'
      PROVE  /\ Mode \in records' /\ Announced(k) \in records' /\ k \in releases'
             /\ Len(k) \in Steps /\ commits'[Len(k)] = k
             /\ ConfirmedBelow(Len(k))'
  <2>1. k \in checkpoints
    BY <1>2, Bodies DEF DiskInv, HeadInv
  <2>2. /\ Mode \in records /\ Announced(k) \in records /\ k \in releases
        /\ Len(k) \in Steps /\ commits[Len(k)] = k /\ ConfirmedBelow(Len(k))
    BY <1>2, <2>1 DEF DiskInv, HeadInv
  <2>3. IsWhole(Len(k))
    BY <2>1, <2>2, Files DEF DiskInv, TypeOK, IsWhole
  <2>4. \A i \in Steps : i < Len(k) => commits'[i] = commits[i]
    <3>1. intents[Len(k)] # None
      BY <2>2, <2>3 DEF DiskInv, LogInv, IsWhole
    <3>2. QED
      BY <2>2, <3>1 DEF DiskInv, LogInv
  <2>5. QED
    BY <2>2, <2>3, <2>4 DEF ConfirmedBelow
<1>3. QED
  BY <1>1, <1>2 DEF HeadInv, DiskInv

\* A record that is linked or was left staged.
LEMMA HeadGrown ==
  ASSUME DiskInv, NEW b, records' \in {records, records \cup {b}}, headDir',
         UNCHANGED <<checkpoints, releases, commits>>,
         \/ b = Mode
         \/ \E k \in checkpoints : b = Announced(k)
         \/ \E k \in checkpoints :
               /\ b = Confirmed(k)
               /\ Mode \in records /\ Announced(k) \in records /\ k \in releases
               /\ Len(k) \in Steps /\ commits[Len(k)] = k /\ ConfirmedBelow(Len(k))
  PROVE  HeadInv'
<1>1. \A a \in records' : a = Mode \/ \E k \in checkpoints' : a = Announced(k) \/ a = Confirmed(k)
  BY DEF DiskInv, HeadInv
<1>2. ASSUME NEW k \in checkpoints', Confirmed(k) \in records'
      PROVE  /\ Mode \in records' /\ Announced(k) \in records' /\ k \in releases'
             /\ Len(k) \in Steps /\ commits'[Len(k)] = k
             /\ ConfirmedBelow(Len(k))'
  <2>1. \/ Confirmed(k) \in records
        \/ b = Confirmed(k)
    BY <1>2
  <2>2. /\ Mode \in records /\ Announced(k) \in records /\ k \in releases
        /\ Len(k) \in Steps /\ commits[Len(k)] = k /\ ConfirmedBelow(Len(k))
    BY <1>2, <2>1, Bodies DEF DiskInv, HeadInv
  <2>3. QED
    BY <2>2 DEF ConfirmedBelow
<1>3. QED
  BY <1>1, <1>2 DEF HeadInv

\* A coordinator that is not at work relies on its cached head only.
LEMMA AtRest ==
  ASSUME NEW d \in Processes, PhaseInv(d), phase'[d] \in {"none", "blocked"},
         cache'[d] = cache[d], records \subseteq records'
  PROVE  PhaseInv(d)'
BY DEF PhaseInv

\* Whoever owns the lease is alone.
LEMMA OthersRest ==
  ASSUME LeaseInv, NEW c \in Processes, phase[c] # "none" \/ lease = None,
         \A d \in Processes : PhaseInv(d),
         \A d \in Processes \ {c} : phase'[d] = phase[d] /\ cache'[d] = cache[d],
         records \subseteq records'
  PROVE  \A d \in Processes \ {c} : PhaseInv(d)'
<1>1. TAKE d \in Processes \ {c}
<1>2. phase[d] = "none"
  BY <1>1, LearnerAssumption DEF LeaseInv
<1>3. QED
  BY <1>2, AtRest

\* What a coordinator relies on is not touched by a larger store or session.
LEMMA PhaseKept ==
  ASSUME NEW d \in Processes, PhaseInv(d),
         UNCHANGED <<log, headDir, phase, parent, cache, pin, learned>>,
         records \subseteq records',
         checkpoints \subseteq checkpoints', releases \subseteq releases'
  PROVE  PhaseInv(d)'
<1>1. UNCHANGED <<control, intents, commits, headDir, phase, parent, cache, pin, learned>>
  BY DEF log
<1>2. AtHead(d) => AtHead(d)'
  BY <1>1 DEF AtHead, LogEndsAt, Committed
<1>3. Training(d) => Training(d)'
  BY <1>1 DEF Training, Committed, ConfirmedBelow
<1>4. Publishing(d) => Publishing(d)'
  BY <1>1 DEF Publishing, ConfirmedBelow
<1>5. QED
  BY <1>1, <1>2, <1>3, <1>4 DEF PhaseInv, Extends

\* An operation that only moves its own phase leaves the lease as it is.
LEMMA LeaseKept ==
  ASSUME TypeOK, LeaseInv, NEW c \in Processes, phase[c] # "none",
         NEW p, p # "none", phase' \in {phase, [phase EXCEPT ![c] = p]}, lease' = lease
  PROVE  LeaseInv'
BY DEF TypeOK, LeaseInv

-----------------------------------------------------------------------------
(* Starting and ending a coordinator                                       *)

\* A coordinator begins at the end of the log.
LEMMA BeginStep ==
  ASSUME IInv, NEW c \in Processes, NEW n \in 0..MaxSteps, NEW h \in Sequence,
         h # << >> => Confirmed(h) \in records,
         LogEndsAt(n)', control' \in {"absent", "created", "broken"},
         UNCHANGED <<intents, commits, head, store, learned>>,
         Begin(c, Committed(n), h), LogInv', Committed(n) \in Sequence, Len(Committed(n)) = n
  PROVE  IInv'
<1>1. /\ lease = None /\ lease' = c /\ phase' = [phase EXCEPT ![c] = "idle"]
      /\ parent' = [parent EXCEPT ![c] = Committed(n)]
      /\ cache' = [cache EXCEPT ![c] = h] /\ journal' = [journal EXCEPT ![c] = {}]
      /\ session' = [session EXCEPT ![c] = Committed(n)] /\ pin' = pin
      /\ UNCHANGED <<intents, commits, headDir, records, checkpoints, releases, learned>>
  BY DEF Begin, LeaseFree, To, head, store
<1>2. TypeOK'
  BY <1>1 DEF IInv, DiskInv, TypeOK, Phases
<1>3. LeaseInv'
  BY <1>1, LearnerAssumption DEF IInv, DiskInv, TypeOK, LeaseInv
<1>4. StoreInv' /\ HeadInv'
  BY <1>1, HeadKept DEF IInv, DiskInv, StoreInv
<1>5. \A d \in Processes \ {c} : PhaseInv(d)'
  <2>1. \A d \in Processes \ {c} : phase'[d] = phase[d] /\ cache'[d] = cache[d]
    BY <1>1 DEF IInv, DiskInv, TypeOK
  <2>2. QED
    BY <1>1, <2>1, OthersRest DEF IInv
<1>6. PhaseInv(c)'
  <2>1. phase'[c] = "idle" /\ parent'[c] = Committed(n) /\ cache'[c] = h
    BY <1>1 DEF IInv, DiskInv, TypeOK
  <2>2. Committed(n)' = Committed(n)
    BY <1>1 DEF Committed
  <2>3. AtHead(c)'
    BY <2>1, <2>2 DEF AtHead
  <2>4. QED
    BY <1>1, <2>1, <2>3 DEF PhaseInv
<1>7. QED
  BY <1>2, <1>3, <1>4, <1>5, <1>6 DEF IInv, DiskInv

\* A failed start or restore changes sessions only.
LEMMA BeginFailsStep ==
  ASSUME IInv, NEW c \in Processes, BeginFails(c),
         control' = control \/ (control = "absent" /\ control' \in {"created", "broken"}),
         UNCHANGED <<intents, commits, head, store, learned>>
  PROVE  IInv'
<1>1. /\ UNCHANGED <<intents, commits, headDir, records, checkpoints, releases, learned,
                     lease, phase, parent, cache, pin, journal>>
      /\ session' \in {session, [session EXCEPT ![c] = IF @ = None THEN << >> ELSE @]}
  BY DEF BeginFails, head, store, memory
<1>2. lease = None
  BY DEF BeginFails, LeaseFree
<1>3. TypeOK'
  BY <1>1, Files DEF IInv, DiskInv, TypeOK
<1>4. LogInv'
  BY <1>1 DEF IInv, DiskInv, LogInv, Committed, IsWhole
<1>5. StoreInv' /\ HeadInv' /\ LeaseInv'
  BY <1>1, HeadKept DEF IInv, DiskInv, StoreInv, LeaseInv
<1>6. \A d \in Processes : PhaseInv(d)'
  BY <1>1, <1>2, AtRest, LearnerAssumption DEF IInv, LeaseInv
<1>7. QED
  BY <1>3, <1>4, <1>5, <1>6 DEF IInv, DiskInv

LEMMA StartRunStep ==
  ASSUME IInv, NEW c \in Processes, StartRun(c)
  PROVE  IInv'
<1>1. control = "absent" /\ UNCHANGED <<intents, commits, head, store, learned>>
  BY DEF StartRun
<1>2. CASE control' = "created" /\ Begin(c, << >>, << >>)
  <2>1. 0 \in 0..MaxSteps /\ Committed(0) = << >>
    BY LearnerAssumption DEF Committed
  <2>2. \A i \in Steps : intents[i] = None /\ commits[i] = None
    BY <1>1 DEF IInv, DiskInv, LogInv
  <2>3. LogEndsAt(0)'
    BY <1>1, <1>2, <2>2, LearnerAssumption DEF LogEndsAt, Steps
  <2>4. LogInv'
    BY <1>1, <1>2 DEF IInv, DiskInv, LogInv, store, Committed, IsWhole
  <2>5. QED
    BY <1>1, <1>2, <2>1, <2>3, <2>4, BeginStep, Files, Runs
<1>3. CASE control' \in {"broken", "created"} /\ BeginFails(c)
  BY <1>1, <1>3, BeginFailsStep
<1>4. QED
  BY <1>2, <1>3 DEF StartRun

LEMMA RestoreStep ==
  ASSUME IInv, NEW c \in Processes, Restore(c)
  PROVE  IInv'
<1>1. UNCHANGED <<control, intents, commits, head, store, learned>>
  BY DEF Restore, log
<1>2. PICK n \in Steps :
        /\ LogEndsAt(n) /\ PublicationReads(n, {})
        /\ Begin(c, Committed(n), PublishedHead(n)) \/ BeginFails(c)
  BY DEF Restore
<1>3. n \in 0..MaxSteps
  BY LearnerAssumption DEF Steps
<1>4. CASE Begin(c, Committed(n), PublishedHead(n))
  <2>1. /\ PublishedHead(n) \in Sequence
        /\ PublishedHead(n) # << >> => Confirmed(PublishedHead(n)) \in records
    BY <1>2, <1>3, HeadReads DEF IInv
  <2>2. Committed(n) \in Sequence /\ Len(Committed(n)) = n
    BY <1>2, <1>3, LogReads DEF IInv
  <2>3. LogEndsAt(n)'
    BY <1>1, <1>2 DEF LogEndsAt, Committed
  <2>4. LogInv' /\ control' \in {"absent", "created", "broken"}
    BY <1>1, LogKept DEF IInv, DiskInv, log, store, TypeOK
  <2>5. QED
    BY <1>1, <1>3, <1>4, <2>1, <2>2, <2>3, <2>4, BeginStep
<1>5. CASE BeginFails(c)
  BY <1>1, <1>5, BeginFailsStep
<1>6. QED
  BY <1>2, <1>4, <1>5

\* Whoever closes or dies takes nothing of the run with it.
LEMMA ForgetStep ==
  ASSUME IInv, NEW c \in Processes, Forget(c),
         session' = session \/ session' = [session EXCEPT ![c] = None]
  PROVE  IInv'
<1>1. /\ phase' = [phase EXCEPT ![c] = "none"]
      /\ lease' = IF lease = c THEN None ELSE lease
      /\ parent' = [parent EXCEPT ![c] = << >>] /\ cache' = [cache EXCEPT ![c] = << >>]
      /\ pin' = [pin EXCEPT ![c] = << >>] /\ journal' = [journal EXCEPT ![c] = {}]
      /\ UNCHANGED <<control, intents, commits, headDir, records, checkpoints, releases, learned>>
  BY DEF Forget, To, log, head, store
<1>2. TypeOK'
  BY <1>1, Files DEF IInv, DiskInv, TypeOK, Phases
<1>3. LeaseInv'
  BY <1>1, LearnerAssumption DEF IInv, DiskInv, TypeOK, LeaseInv
<1>4. StoreInv' /\ LogInv' /\ HeadInv'
  BY <1>1, LogKept, HeadKept DEF IInv, DiskInv, StoreInv, log
<1>5. ASSUME NEW d \in Processes PROVE PhaseInv(d)'
  <2>1. CASE d = c
    BY <1>1, <2>1 DEF IInv, DiskInv, TypeOK, PhaseInv
  <2>2. CASE d # c
    <3>1. /\ phase'[d] = phase[d] /\ parent'[d] = parent[d]
          /\ cache'[d] = cache[d] /\ pin'[d] = pin[d]
      BY <1>1, <2>2 DEF IInv, DiskInv, TypeOK
    <3>2. PhaseInv(d)
      BY DEF IInv
    <3>3. AtHead(d) => AtHead(d)'
      BY <1>1, <3>1 DEF AtHead, LogEndsAt, Committed
    <3>4. Training(d) => Training(d)'
      BY <1>1, <3>1 DEF Training, Committed, ConfirmedBelow
    <3>5. Publishing(d) => Publishing(d)'
      BY <1>1, <3>1 DEF Publishing, ConfirmedBelow
    <3>6. QED
      BY <1>1, <3>1, <3>2, <3>3, <3>4, <3>5 DEF PhaseInv, Extends
  <2>3. QED
    BY <2>1, <2>2
<1>6. QED
  BY <1>2, <1>3, <1>4, <1>5 DEF IInv, DiskInv

\* A session is not part of what the run relies on: others may do to it what they want.
LEMMA MeddleStep ==
  ASSUME IInv, NEW c \in Processes, Meddle(c)
  PROVE  IInv'
<1>1. UNCHANGED <<control, intents, commits, headDir, records, checkpoints, releases, lease,
                  phase, parent, cache, pin, journal, learned>>
  BY DEF Meddle, log, head, store, memory
<1>2. session[c] # None
  BY DEF Meddle
<1>3. session[c] \in Sequence /\ Foreign \in Updates
  BY <1>2, LearnerAssumption DEF IInv, DiskInv, TypeOK, Foreign, Updates
<1>4. session' \in [Processes -> Sequence \cup {None}]
  <2>1. Append(session[c], Foreign) \in Sequence
    BY <1>3, Continued
  <2>2. ASSUME session[c] # << >>
        PROVE  Append(SubSeq(session[c], 1, Len(session[c]) - 1), Foreign) \in Sequence
    <3>1. Len(session[c]) - 1 \in 0..Len(session[c])
      BY <1>3, <2>2, Runs
    <3>2. SubSeq(session[c], 1, Len(session[c]) - 1) \in Sequence
      BY <1>3, <3>1, Runs
    <3>3. QED
      BY <1>3, <3>2, Continued
  <2>3. QED
    BY <2>1, <2>2 DEF Meddle, IInv, DiskInv, TypeOK
<1>5. TypeOK'
  BY <1>1, <1>4 DEF IInv, DiskInv, TypeOK
<1>6. StoreInv' /\ LogInv' /\ HeadInv' /\ LeaseInv'
  BY <1>1, LogKept, HeadKept DEF IInv, DiskInv, StoreInv, log, LeaseInv
<1>7. \A d \in Processes : PhaseInv(d)'
  BY <1>1, PhaseKept DEF IInv, log
<1>8. QED
  BY <1>5, <1>6, <1>7 DEF IInv, DiskInv

-----------------------------------------------------------------------------
(* Training                                                                *)

\* An intent, whole or not, after the last commit.
LEMMA IntentWritten ==
  ASSUME DiskInv, NEW n \in Steps, LogEndsAt(n - 1), NEW value,
         intents' = [intents EXCEPT ![n] = value],
         UNCHANGED <<control, commits, checkpoints, learned>>
  PROVE  LogInv'
<1>0. MaxSteps \in Nat /\ n \in Nat
  BY LearnerAssumption DEF Steps
<1>1. \A i \in Steps : i # n => intents'[i] = intents[i]
  BY DEF DiskInv, TypeOK
<1>2. \A i \in Steps : i < n => IsWhole(i)
  BY <1>0 DEF LogEndsAt, IsWhole, Steps
<1>3. control = "created" /\ commits[n] = None /\ intents[n] = None
  BY <1>0 DEF LogEndsAt
<1>4. \A i \in Steps : intents'[i] # None =>
         control' = "created" /\ \A m \in Steps : m < i => IsWhole(m)'
  BY <1>1, <1>2, <1>3 DEF DiskInv, LogInv, IsWhole
<1>5. \A i \in Steps : commits'[i] # None => intents'[i] # None /\ intents'[i] = Committed(i - 1)'
  BY <1>1, <1>3 DEF DiskInv, LogInv, Committed
<1>6. \A i \in Steps : IsWhole(i)' =>
         /\ commits'[i] \in checkpoints' /\ Len(commits'[i]) = i
         /\ \A m \in Steps : m < i => commits'[m] = SubSeq(commits'[i], 1, m)
  BY DEF DiskInv, LogInv, IsWhole
<1>7. \A i \in Steps : learned'[i] # 0 => learned'[i] = 1 /\ intents'[i] # None
  BY <1>1, <1>3 DEF DiskInv, LogInv
<1>8. QED
  BY <1>4, <1>5, <1>6, <1>7 DEF LogInv

LEMMA TrainIntentStep ==
  ASSUME IInv, NEW c \in Processes, TrainIntent(c)
  PROVE  IInv'
<1>0. MaxSteps \in Nat
  BY LearnerAssumption
<1>1. PICK m \in 0..MaxSteps - 1 :
        /\ CheckLive(c, m, FALSE) /\ intents[m + 1] = None
        /\ \/ /\ intents' = [intents EXCEPT ![m + 1] = parent[c]]
              /\ To(c, "intended") /\ UNCHANGED memory
           \/ \E left \in LeftBy(parent[c]) :
                 intents' = [intents EXCEPT ![m + 1] = left] /\ Block(c)
  BY DEF TrainIntent
<1> DEFINE n == m + 1
<1>2. n \in Steps /\ m \in 0..MaxSteps /\ m = n - 1
  BY <1>0 DEF Steps
<1>3. /\ phase[c] = "idle" /\ m = Len(parent[c]) /\ AtHead(c)
      /\ headDir => ConfirmedBelow(n)
  BY <1>1, <1>2, LiveReads DEF IInv
<1>4. LogEndsAt(m) /\ parent[c] = Committed(m)
  BY <1>3 DEF AtHead
<1>5. PICK value \in File : intents' = [intents EXCEPT ![n] = value]
  BY <1>1, Files DEF LeftBy, File, IInv, DiskInv, TypeOK
<1>6. UNCHANGED <<control, commits, headDir, records, checkpoints, releases, lease, session,
                  parent, cache, pin, journal, learned>>
  BY <1>1 DEF TrainIntent, head, store, memory, Block
<1>7. PICK p \in {"intended", "blocked"} : phase' = [phase EXCEPT ![c] = p]
  BY <1>1 DEF To, Block
<1>8. TypeOK'
  BY <1>2, <1>5, <1>6, <1>7 DEF IInv, DiskInv, TypeOK, Phases
<1>9. LogInv'
  BY <1>2, <1>4, <1>5, <1>6, IntentWritten DEF IInv
<1>10. StoreInv' /\ HeadInv' /\ LeaseInv'
  BY <1>3, <1>6, <1>7, HeadKept, LeaseKept DEF IInv, DiskInv, StoreInv
<1>11. \A d \in Processes \ {c} : PhaseInv(d)'
  <2>1. \A d \in Processes \ {c} : phase'[d] = phase[d] /\ cache'[d] = cache[d]
    BY <1>3, <1>6, <1>7 DEF IInv, DiskInv, TypeOK
  <2>2. QED
    BY <1>3, <1>6, <1>7, <2>1, OthersRest DEF IInv
<1>12. PhaseInv(c)'
  <2>1. CASE phase'[c] = "blocked"
    BY <1>6, <2>1, AtRest DEF IInv
  <2>2. CASE phase'[c] = "intended"
    <3>1. intents' = [intents EXCEPT ![n] = parent[c]]
      BY <1>1, <2>2 DEF Block, To, IInv, DiskInv, TypeOK
    <3>2. intents'[n] = parent[c] /\ commits[n] = None /\ learned[n] = 0
      BY <1>0, <1>1, <1>2, <1>4, <3>1 DEF LogEndsAt, IInv, DiskInv, LogInv, TypeOK
    <3>3. Training(c)'
      BY <1>2, <1>3, <1>4, <1>6, <3>2 DEF Training, Committed, ConfirmedBelow
    <3>4. QED
      BY <1>2, <1>3, <1>6, <2>2, <3>2, <3>3 DEF PhaseInv, IInv
  <2>3. QED
    BY <1>7, <2>1, <2>2 DEF IInv, DiskInv, TypeOK
<1>13. QED
  BY <1>8, <1>9, <1>10, <1>11, <1>12 DEF IInv, DiskInv

LEMMA TrainLearnStep ==
  ASSUME IInv, NEW c \in Processes, TrainLearn(c)
  PROVE  IInv'
<1> DEFINE n == Len(parent[c]) + 1
<1>1. phase[c] = "intended" /\ Training(c) /\ learned[n] = 0
  BY DEF TrainLearn, IInv, PhaseInv
<1>2. n \in Steps /\ intents[n] = parent[c] /\ intents[n] # None
  BY <1>1, Files DEF Training, IInv, DiskInv, TypeOK
<1>3. UNCHANGED <<control, intents, commits, headDir, records, checkpoints, releases, lease,
                  parent, cache, pin, journal>>
  BY DEF TrainLearn, log, head, store, memory
<1>4. PICK p \in {"trained", "blocked"} : phase' = [phase EXCEPT ![c] = p]
  BY DEF TrainLearn, To
<1>5. /\ learned' \in {learned, [learned EXCEPT ![n] = 1]}
      /\ session' \in [Processes -> Sequence \cup {None}]
  <2>1. CASE UNCHANGED <<session, learned>>
    BY <2>1 DEF IInv, DiskInv, TypeOK
  <2>2. CASE /\ session[c] # None
             /\ learned' = [learned EXCEPT ![n] = @ + 1]
             /\ session' = [session EXCEPT ![c] = Append(@, learned[n] + 1)]
    <3>1. learned[n] + 1 = 1 /\ 1 \in Updates
      BY <1>1, LearnerAssumption DEF Updates
    <3>2. Append(session[c], 1) \in Sequence
      BY <2>2, <3>1, Continued DEF IInv, DiskInv, TypeOK
    <3>3. QED
      BY <2>2, <3>1, <3>2 DEF IInv, DiskInv, TypeOK
  <2>3. QED
    BY <2>1, <2>2 DEF TrainLearn
<1>6. TypeOK'
  <2>1. learned' \in [Steps -> 0..MaxAttempts]
    BY <1>5, LearnerAssumption DEF IInv, DiskInv, TypeOK
  <2>2. QED
    BY <1>3, <1>4, <1>5, <2>1 DEF IInv, DiskInv, TypeOK, Phases
<1>7. LogInv'
  BY <1>2, <1>3, <1>5 DEF IInv, DiskInv, TypeOK, LogInv, IsWhole, Committed
<1>8. StoreInv' /\ HeadInv' /\ LeaseInv'
  BY <1>1, <1>3, <1>4, HeadKept, LeaseKept DEF IInv, DiskInv, StoreInv
<1>9. \A d \in Processes \ {c} : PhaseInv(d)'
  <2>1. \A d \in Processes \ {c} : phase'[d] = phase[d] /\ cache'[d] = cache[d]
    BY <1>1, <1>3, <1>4 DEF IInv, DiskInv, TypeOK
  <2>2. QED
    BY <1>1, <1>3, <1>4, <2>1, OthersRest DEF IInv
<1>10. PhaseInv(c)'
  <2>1. phase'[c] \in {"trained", "blocked"}
    BY <1>4 DEF IInv, DiskInv, TypeOK
  <2>2. Training(c)'
    BY <1>1, <1>3 DEF Training, Committed, ConfirmedBelow
  <2>3. QED
    BY <1>3, <2>1, <2>2 DEF PhaseInv, IInv
<1>11. QED
  BY <1>6, <1>7, <1>8, <1>9, <1>10 DEF IInv, DiskInv

LEMMA TrainSaveStep ==
  ASSUME IInv, NEW c \in Processes, TrainSave(c)
  PROVE  IInv'
<1>1. phase[c] = "trained" /\ Training(c)
  BY DEF TrainSave, IInv, PhaseInv
<1>2. UNCHANGED <<control, intents, commits, headDir, records, releases, lease,
                  parent, cache, journal, session, learned>>
  BY DEF TrainSave, log, head
<1>3. PICK p \in {"saved", "blocked"} : phase' = [phase EXCEPT ![c] = p]
  BY DEF TrainSave, To
<1>4. \/ UNCHANGED <<checkpoints, pin>> /\ p = "blocked"
      \/ /\ Extends(session[c], parent[c]) /\ parent[c] \in checkpoints \cup {<< >>}
         /\ checkpoints' = checkpoints \cup {session[c]}
         /\ \/ pin' = [pin EXCEPT ![c] = session[c]]
            \/ pin' = pin /\ p = "blocked"
  BY <1>1, <1>3 DEF TrainSave, To, IInv, DiskInv, TypeOK
<1>5. ASSUME Extends(session[c], parent[c]), parent[c] \in checkpoints \cup {<< >>}
      PROVE  /\ session[c] \in Sequence
             /\ \A i \in 1..Len(session[c]) : session[c][i] # Foreign
  <2>1. session[c] \in Sequence /\ parent[c] \in Sequence
    BY <1>5 DEF Extends, IInv, DiskInv, TypeOK
  <2>2. /\ Len(session[c]) = Len(parent[c]) + 1 /\ SubSeq(session[c], 1, Len(parent[c])) = parent[c]
        /\ session[c][Len(session[c])] # Foreign /\ Len(parent[c]) \in Nat
    BY <1>5, <2>1, Runs DEF Extends
  <2>3. Len(parent[c]) \in 0..Len(session[c])
    BY <2>2
  <2>4. ASSUME NEW i \in 1..Len(parent[c])
        PROVE  session[c][i] = parent[c][i] /\ parent[c][i] # Foreign
    <3>1. SubSeq(session[c], 1, Len(parent[c]))[i] = session[c][i]
      BY <2>1, <2>3, Runs
    <3>2. parent[c] \in checkpoints
      BY <1>5, <2>1, <2>2, <2>4, Runs
    <3>3. QED
      BY <2>2, <3>1, <3>2 DEF IInv, DiskInv, StoreInv
  <2>5. QED
    BY <2>1, <2>2, <2>4
<1>6. TypeOK' /\ StoreInv'
  BY <1>2, <1>3, <1>4, <1>5 DEF IInv, DiskInv, TypeOK, StoreInv, Phases
<1>7. checkpoints \subseteq checkpoints'
  BY <1>4
<1>8. LogInv' /\ HeadInv' /\ LeaseInv'
  BY <1>1, <1>2, <1>3, <1>7, LogKept, HeadKept, LeaseKept DEF IInv, DiskInv, log
<1>9. \A d \in Processes \ {c} : PhaseInv(d)'
  <2>1. \A d \in Processes \ {c} : phase'[d] = phase[d] /\ cache'[d] = cache[d]
    BY <1>1, <1>2, <1>3 DEF IInv, DiskInv, TypeOK
  <2>2. QED
    BY <1>1, <1>2, <1>3, <2>1, OthersRest DEF IInv
<1>10. PhaseInv(c)'
  <2>1. phase'[c] = p
    BY <1>3 DEF IInv, DiskInv, TypeOK
  <2>2. Training(c)'
    BY <1>1, <1>2 DEF Training, Committed, ConfirmedBelow
  <2>3. p = "saved" => pin'[c] \in checkpoints' /\ Extends(pin'[c], parent'[c])
    BY <1>2, <1>4 DEF IInv, DiskInv, TypeOK
  <2>4. QED
    BY <1>2, <2>1, <2>2, <2>3 DEF PhaseInv, IInv, Extends
<1>11. QED
  BY <1>6, <1>8, <1>9, <1>10 DEF IInv, DiskInv

\* A commit, whole or not, after its intent.
LEMMA CommitWritten ==
  ASSUME DiskInv, NEW n \in Steps, intents[n] \in Sequence, intents[n] = Committed(n - 1),
         commits[n] = None,
         NEW k \in checkpoints, Extends(k, Committed(n - 1)), Len(k) = n,
         NEW value \in {None, Torn, k}, commits' = [commits EXCEPT ![n] = value],
         UNCHANGED <<control, intents, checkpoints, learned>>
  PROVE  LogInv'
<1>0. MaxSteps \in Nat /\ n \in Nat /\ n \in 1..MaxSteps
  BY LearnerAssumption DEF Steps
<1>1. /\ \A i \in Steps : i # n => commits'[i] = commits[i]
      /\ commits'[n] = value
  BY DEF DiskInv, TypeOK
<1>2. intents[n] # None /\ k \in Sequence
  BY Files DEF DiskInv, TypeOK
<1>3. \A i \in Steps : i < n => IsWhole(i) /\ commits[i] \in Sequence /\ Len(commits[i]) = i
  BY <1>2 DEF DiskInv, LogInv, TypeOK, IsWhole, File
<1>4. \A i \in Steps : i > n => intents[i] = None /\ commits[i] = None
  BY <1>0 DEF DiskInv, LogInv, IsWhole
<1>5. \A i \in Steps : i <= n => Committed(i - 1)' = Committed(i - 1)
  BY <1>0, <1>1 DEF Committed, Steps
<1>6. ASSUME NEW m \in Steps, m < n PROVE commits[m] = SubSeq(k, 1, m)
  <2>1. Committed(n - 1) = commits[n - 1] /\ n - 1 \in Steps
    BY <1>0, <1>6 DEF Committed, Steps
  <2>2. SubSeq(k, 1, n - 1) = commits[n - 1] /\ Len(commits[n - 1]) = n - 1
    BY <1>0, <1>3, <2>1 DEF Extends
  <2>3. commits[m] = SubSeq(commits[n - 1], 1, m)
    <3>1. CASE m < n - 1
      BY <1>0, <1>3, <2>1, <3>1 DEF DiskInv, LogInv
    <3>2. CASE m = n - 1
      BY <1>0, <1>3, <2>1, <2>2, <3>2, Runs
    <3>3. QED
      BY <1>0, <1>6, <3>1, <3>2 DEF Steps
  <2>4. n - 1 \in 0..Len(k) /\ m \in 0..(n - 1)
    BY <1>0, <1>6 DEF Steps
  <2>5. QED
    BY <1>2, <2>2, <2>3, <2>4, PrefixOfPrefix
<1>7. \A i \in Steps : intents'[i] # None =>
         control' = "created" /\ \A m \in Steps : m < i => IsWhole(m)'
  <2>1. ASSUME NEW i \in Steps, intents'[i] # None, NEW m \in Steps, m < i
        PROVE  IsWhole(m)'
    <3>1. i <= n /\ m # n
      BY <1>0, <1>4, <2>1 DEF Steps
    <3>2. IsWhole(m)
      BY <2>1 DEF DiskInv, LogInv
    <3>3. QED
      BY <1>1, <3>1, <3>2 DEF IsWhole
  <2>2. QED
    BY <2>1 DEF DiskInv, LogInv
<1>8. \A i \in Steps : commits'[i] # None => intents'[i] # None /\ intents'[i] = Committed(i - 1)'
  <2>1. ASSUME NEW i \in Steps, commits'[i] # None
        PROVE  intents'[i] # None /\ intents'[i] = Committed(i - 1)'
    <3>1. i <= n
      BY <1>0, <1>1, <1>4, <2>1 DEF Steps
    <3>2. CASE i = n
      BY <1>2, <1>5, <3>1, <3>2
    <3>3. CASE i # n
      BY <1>1, <1>5, <2>1, <3>1, <3>3 DEF DiskInv, LogInv
    <3>4. QED
      BY <3>2, <3>3
  <2>2. QED
    BY <2>1
<1>9. \A i \in Steps : IsWhole(i)' =>
         /\ commits'[i] \in checkpoints' /\ Len(commits'[i]) = i
         /\ \A m \in Steps : m < i => commits'[m] = SubSeq(commits'[i], 1, m)
  <2>1. ASSUME NEW i \in Steps, IsWhole(i)'
        PROVE  /\ commits'[i] \in checkpoints' /\ Len(commits'[i]) = i
               /\ \A m \in Steps : m < i => commits'[m] = SubSeq(commits'[i], 1, m)
    <3>1. i <= n
      BY <1>0, <1>1, <1>4, <2>1 DEF Steps, IsWhole
    <3>2. CASE i = n
      BY <1>0, <1>1, <1>6, <2>1, <3>2 DEF IsWhole
    <3>3. CASE i # n
      <4>1. i < n /\ IsWhole(i) /\ commits'[i] = commits[i]
        BY <1>0, <1>1, <2>1, <3>1, <3>3 DEF Steps, IsWhole
      <4>2. \A m \in Steps : m < i => m # n
        BY <1>0, <4>1 DEF Steps
      <4>3. QED
        BY <1>1, <4>1, <4>2 DEF DiskInv, LogInv
    <3>4. QED
      BY <3>2, <3>3
  <2>2. QED
    BY <2>1
<1>10. \A i \in Steps : learned'[i] # 0 => learned'[i] = 1 /\ intents'[i] # None
  BY DEF DiskInv, LogInv
<1>11. QED
  BY <1>7, <1>8, <1>9, <1>10 DEF LogInv

\* What TrainCommit knows, and what it writes.
LEMMA CommitReads ==
  ASSUME IInv, NEW c \in Processes, TrainCommit(c)
  PROVE  LET n == Len(pin[c]) IN
         /\ phase[c] = "saved" /\ Training(c) /\ n \in Steps /\ n = Len(parent[c]) + 1
         /\ pin[c] \in checkpoints /\ pin[c] \in Sequence /\ Extends(pin[c], Committed(n - 1))
         /\ commits[n] = None /\ intents[n] = Committed(n - 1) /\ intents[n] \in Sequence
         /\ headDir => ConfirmedBelow(n)
         /\ \E value \in {None, Torn, pin[c]} : commits' = [commits EXCEPT ![n] = value]
<1>1. /\ phase[c] = "saved" /\ Training(c)
      /\ pin[c] \in checkpoints /\ Extends(pin[c], parent[c])
  BY DEF TrainCommit, IInv, PhaseInv
<1>2. /\ Len(pin[c]) = Len(parent[c]) + 1 /\ Len(parent[c]) \in Nat
      /\ pin[c] \in Sequence /\ parent[c] \in Sequence
  BY <1>1, Runs DEF Extends, IInv, DiskInv, TypeOK
<1>3. \E value \in {None, Torn, pin[c]} : commits' = [commits EXCEPT ![Len(pin[c])] = value]
  BY DEF TrainCommit, LeftBy
<1>4. QED
  BY <1>1, <1>2, <1>3 DEF Training

LEMMA TrainCommitStep ==
  ASSUME IInv, NEW c \in Processes, TrainCommit(c)
  PROVE  IInv'
<1>0. PICK n \in Steps : n = Len(pin[c])
  BY CommitReads
<1>1. /\ phase[c] = "saved" /\ Training(c) /\ n \in Steps /\ n = Len(parent[c]) + 1
      /\ pin[c] \in checkpoints /\ pin[c] \in Sequence /\ Extends(pin[c], Committed(n - 1))
      /\ commits[n] = None /\ intents[n] = Committed(n - 1) /\ intents[n] \in Sequence
  BY <1>0, CommitReads
<1>2. PICK value \in {None, Torn, pin[c]} : commits' = [commits EXCEPT ![n] = value]
  BY <1>0, CommitReads
<1>3. UNCHANGED <<control, intents, headDir, records, checkpoints, releases, lease, session,
                  cache, pin, journal, learned>>
  BY DEF TrainCommit, head, store, memory, Block
<1>4. PICK p \in {"idle", "blocked"} : phase' = [phase EXCEPT ![c] = p]
  BY DEF TrainCommit, To, Block
<1>5. parent' \in {parent, [parent EXCEPT ![c] = pin[c]]}
  BY DEF TrainCommit, Block, memory
<1>6. TypeOK'
  BY <1>1, <1>2, <1>3, <1>4, <1>5 DEF IInv, DiskInv, TypeOK, Phases, File
<1>7. LogInv'
  BY <1>0, <1>1, <1>2, <1>3, CommitWritten DEF IInv
<1>8. \A i \in Steps : IsWhole(i) => commits'[i] = commits[i]
  BY <1>1, <1>2 DEF IsWhole, IInv, DiskInv, TypeOK
<1>9. StoreInv' /\ HeadInv' /\ LeaseInv'
  BY <1>1, <1>3, <1>4, <1>8, HeadKept, LeaseKept DEF IInv, DiskInv, StoreInv
<1>10. \A d \in Processes \ {c} : PhaseInv(d)'
  <2>1. \A d \in Processes \ {c} : phase'[d] = phase[d] /\ cache'[d] = cache[d]
    BY <1>1, <1>3, <1>4 DEF IInv, DiskInv, TypeOK
  <2>2. QED
    BY <1>1, <1>3, <1>4, <2>1, OthersRest DEF IInv
<1>11. PhaseInv(c)'
  <2>1. CASE phase'[c] = "blocked"
    BY <1>3, <2>1, AtRest DEF IInv
  <2>2. CASE phase'[c] = "idle"
    <3>1. commits' = [commits EXCEPT ![n] = pin[c]] /\ parent' = [parent EXCEPT ![c] = pin[c]]
      BY <1>0, <2>2 DEF TrainCommit, Block, To, IInv, DiskInv, TypeOK
    <3>2. parent'[c] = pin[c] /\ commits'[n] = pin[c]
      BY <1>1, <3>1 DEF IInv, DiskInv, TypeOK
    <3>3. MaxSteps \in Nat /\ n \in 0..MaxSteps /\ n > 0 /\ Committed(n)' = pin[c]
      BY <1>1, <3>2, LearnerAssumption DEF Steps, Committed
    <3>4. control' = "created" /\ intents'[n] # None
      BY <1>1, <1>3, Files DEF IInv, DiskInv, LogInv
    <3>5. IsWhole(n)'
      BY <1>1, <3>2, Files DEF IsWhole
    <3>6. \A i \in Steps : i <= n => IsWhole(i)' /\ intents'[i] = Committed(i - 1)'
      <4>1. \A i \in Steps : i < n => IsWhole(i)'
        BY <1>7, <3>4, <1>1 DEF LogInv
      <4>2. \A i \in Steps : i <= n => IsWhole(i)'
        BY <3>3, <3>5, <4>1 DEF Steps
      <4>3. QED
        BY <1>7, <4>2 DEF LogInv, IsWhole
    <3>7. \A i \in Steps : i > n => intents'[i] = None /\ commits'[i] = None
      <4>1. \A i \in Steps : i > n => intents[i] = None
        BY <1>1 DEF IInv, DiskInv, LogInv, IsWhole
      <4>2. QED
        BY <1>3, <1>7, <4>1 DEF LogInv
    <3>8. AtHead(c)'
      BY <1>0, <3>2, <3>3, <3>4, <3>6, <3>7 DEF AtHead, LogEndsAt, IsWhole
    <3>9. QED
      BY <1>3, <2>2, <3>8 DEF PhaseInv, IInv
  <2>3. QED
    BY <1>4, <2>1, <2>2 DEF IInv, DiskInv, TypeOK
<1>12. QED
  BY <1>6, <1>7, <1>9, <1>10, <1>11 DEF IInv, DiskInv

-----------------------------------------------------------------------------
(* Publishing                                                              *)

\* A write of a record that raised may have linked it all the same.
LEMMA RecordLeft ==
  ASSUME NEW b, Recorded(b) \/ RecordingFailed(b)
  PROVE  records' \in {records, records \cup {b}}
BY DEF Recorded, RecordingFailed

LEMMA EnableHeadStep ==
  ASSUME IInv, NEW c \in Processes, EnableHead(c)
  PROVE  IInv'
<1>1. phase[c] = "idle" /\ AtHead(c)
  <2>1. 0 \in 0..MaxSteps
    BY LearnerAssumption
  <2>2. CheckLive(c, 0, FALSE)
    BY Zenon DEF EnableHead
  <2>3. QED
    BY <2>1, <2>2, LiveReads DEF IInv
<1>2. UNCHANGED <<control, intents, commits, checkpoints, releases, lease, session,
                  parent, cache, pin, journal, learned>>
  BY DEF EnableHead, log, store, memory, Block
<1>3. phase' \in {phase, [phase EXCEPT ![c] = "blocked"]}
  BY DEF EnableHead, Block, To
<1>4. HeadInv' /\ records \subseteq records' /\ headDir' \in BOOLEAN
  <2>1. CASE UNCHANGED head
    BY <1>2, <2>1, HeadKept DEF IInv, DiskInv, TypeOK, head
  <2>2. CASE headDir' = TRUE /\ (Recorded(Mode) \/ RecordingFailed(Mode))
    <3>1. records' \in {records, records \cup {Mode}}
      BY <2>2, RecordLeft
    <3>2. QED
      BY <1>2, <2>2, <3>1, HeadGrown DEF IInv
  <2>3. QED
    BY <2>1, <2>2 DEF EnableHead
<1>5. TypeOK'
  BY <1>2, <1>3, <1>4 DEF IInv, DiskInv, TypeOK, Phases
<1>6. StoreInv' /\ LogInv' /\ LeaseInv'
  BY <1>1, <1>2, <1>3, LogKept, LeaseKept DEF IInv, DiskInv, StoreInv, log
<1>7. \A d \in Processes \ {c} : PhaseInv(d)'
  <2>1. \A d \in Processes \ {c} : phase'[d] = phase[d] /\ cache'[d] = cache[d]
    BY <1>2, <1>3 DEF IInv, DiskInv, TypeOK
  <2>2. QED
    BY <1>1, <1>4, <2>1, OthersRest DEF IInv
<1>8. PhaseInv(c)'
  <2>1. phase'[c] \in {"idle", "blocked"}
    BY <1>1, <1>3 DEF IInv, DiskInv, TypeOK
  <2>2. AtHead(c)'
    BY <1>1, <1>2 DEF AtHead, LogEndsAt, Committed
  <2>3. QED
    BY <1>2, <1>4, <2>1, <2>2 DEF PhaseInv, IInv
<1>9. QED
  BY <1>4, <1>5, <1>6, <1>7, <1>8 DEF IInv, DiskInv

LEMMA AnnounceStep ==
  ASSUME IInv, NEW c \in Processes, Announce(c)
  PROVE  IInv'
<1>1. headDir /\ UNCHANGED <<control, intents, commits, headDir, checkpoints, releases, lease,
                             session, parent, cache, journal, learned>>
  BY DEF Announce, log, store, memory, Block
<1>2. PICK n \in 0..MaxSteps :
        /\ CheckLive(c, n, TRUE)
        /\ \/ /\ Unpublished(n) /\ Recorded(Announced(Committed(n))) /\ To(c, "announced")
              /\ pin' = [pin EXCEPT ![c] = Committed(n)]
           \/ Unpublished(n) /\ RecordingFailed(Announced(Committed(n))) /\ Block(c)
           \/ UNCHANGED <<records, stages>> /\ Block(c)
  BY DEF Announce
<1>3. /\ phase[c] = "idle" /\ n = Len(parent[c]) /\ AtHead(c) /\ parent[c] = Committed(n)
      /\ Mode \in records /\ ConfirmedBelow(n)
  BY <1>1, <1>2, LiveReads DEF IInv, AtHead
<1>4. /\ Committed(n) \in Sequence /\ Len(Committed(n)) = n
      /\ n # 0 => Committed(n) \in checkpoints /\ Committed(n) # << >>
  BY <1>3, LogReads DEF IInv, AtHead
<1>5. PICK p \in {"announced", "blocked"} : phase' = [phase EXCEPT ![c] = p]
  BY <1>2 DEF To, Block
<1>6. HeadInv' /\ records \subseteq records'
  <2>1. CASE Unpublished(n) /\ records' \in {records, records \cup {Announced(Committed(n))}}
    <3>1. n # 0
      BY <2>1 DEF Unpublished
    <3>2. \E k \in checkpoints : Announced(Committed(n)) = Announced(k)
      BY <1>4, <3>1
    <3>3. QED
      BY <1>1, <2>1, <3>2, HeadGrown DEF IInv
  <2>2. CASE records' = records
    BY <1>1, <2>2, HeadKept DEF IInv
  <2>3. QED
    BY <1>2, <2>1, <2>2, RecordLeft
<1>7. TypeOK'
  <2>1. pin' \in {pin, [pin EXCEPT ![c] = Committed(n)]}
    BY <1>2 DEF Block, memory
  <2>2. QED
    BY <1>1, <1>4, <1>5, <2>1 DEF IInv, DiskInv, TypeOK, Phases
<1>8. StoreInv' /\ LogInv' /\ LeaseInv'
  BY <1>1, <1>3, <1>5, LogKept, LeaseKept DEF IInv, DiskInv, StoreInv, log
<1>9. \A d \in Processes \ {c} : PhaseInv(d)'
  <2>1. \A d \in Processes \ {c} : phase'[d] = phase[d] /\ cache'[d] = cache[d]
    BY <1>1, <1>5 DEF IInv, DiskInv, TypeOK
  <2>2. QED
    BY <1>3, <1>6, <2>1, OthersRest DEF IInv
<1>10. PhaseInv(c)'
  <2>1. CASE phase'[c] = "blocked"
    BY <1>1, <1>6, <2>1, AtRest DEF IInv
  <2>2. CASE phase'[c] = "announced"
    <3>1. /\ Unpublished(n) /\ records' = records \cup {Announced(Committed(n))}
          /\ pin' = [pin EXCEPT ![c] = Committed(n)]
      BY <1>2, <2>2 DEF Recorded, Block, To, IInv, DiskInv, TypeOK
    <3>2. pin'[c] = parent'[c] /\ pin'[c] = Committed(n) /\ Len(pin'[c]) = n /\ n # 0
      BY <1>1, <1>3, <1>4, <3>1 DEF IInv, DiskInv, TypeOK, Unpublished
    <3>3. ConfirmedBelow(Len(pin[c]))'
      BY <1>1, <1>3, <1>6, <3>2 DEF ConfirmedBelow
    <3>4. Publishing(c)'
      BY <1>3, <1>4, <3>1, <3>2, <3>3 DEF Publishing
    <3>5. AtHead(c)'
      BY <1>1, <1>3 DEF AtHead, LogEndsAt, Committed
    <3>6. QED
      BY <1>1, <1>6, <2>2, <3>4, <3>5 DEF PhaseInv, IInv
  <2>3. QED
    BY <1>5, <2>1, <2>2 DEF IInv, DiskInv, TypeOK
<1>11. QED
  BY <1>6, <1>7, <1>8, <1>9, <1>10 DEF IInv, DiskInv

\* Between the announcement and the confirmation the checkpoint is the last commit.
LEMMA PublishingReads ==
  ASSUME IInv, NEW c \in Processes, phase[c] \in {"announced", "released"}
  PROVE  /\ AtHead(c) /\ Publishing(c)
         /\ Len(pin[c]) \in Steps /\ commits[Len(pin[c])] = pin[c]
         /\ pin[c] \in checkpoints /\ Len(pin[c]) = Len(parent[c])
<1>1. AtHead(c) /\ Publishing(c)
  BY DEF IInv, PhaseInv
<1>2. parent[c] = pin[c] /\ Len(parent[c]) # 0 /\ parent[c] \in Sequence
  BY <1>1, Runs DEF Publishing, IInv, DiskInv, TypeOK
<1>3. QED
  BY <1>1, <1>2, LogReads DEF AtHead, IInv

LEMMA ReleaseStep ==
  ASSUME IInv, NEW c \in Processes, Release(c)
  PROVE  IInv'
<1>1. /\ phase[c] = "announced" /\ AtHead(c) /\ Publishing(c) /\ pin[c] \in checkpoints
      /\ pin[c] \in Sequence
  BY PublishingReads DEF Release, IInv, DiskInv, TypeOK
<1>2. UNCHANGED <<control, intents, commits, headDir, records, checkpoints, lease, session,
                  parent, cache, pin, learned>>
  BY DEF Release, log, head
<1>3. PICK p \in {"released", "blocked"} : phase' = [phase EXCEPT ![c] = p]
  BY DEF Release, To
<1>4. /\ releases' \in {releases, releases \cup {pin[c]}}
      /\ journal' \in [Processes -> SUBSET Sequence]
      /\ p = "released" => pin[c] \in releases'
  <2>1. CASE /\ releases' = releases \cup {pin[c]}
             /\ journal' = [journal EXCEPT ![c] = @ \cup {pin[c]}]
    BY <1>1, <2>1 DEF IInv, DiskInv, TypeOK
  <2>2. CASE To(c, "blocked") /\ UNCHANGED <<releases, journal>>
    BY <1>3, <2>2 DEF To, IInv, DiskInv, TypeOK
  <2>3. QED
    BY <2>1, <2>2 DEF Release
<1>5. TypeOK'
  BY <1>1, <1>2, <1>3, <1>4 DEF IInv, DiskInv, TypeOK, Phases
<1>6. StoreInv' /\ LogInv' /\ HeadInv' /\ LeaseInv'
  BY <1>1, <1>2, <1>3, <1>4, LogKept, HeadKept, LeaseKept DEF IInv, DiskInv, StoreInv, log
<1>7. \A d \in Processes \ {c} : PhaseInv(d)'
  <2>1. \A d \in Processes \ {c} : phase'[d] = phase[d] /\ cache'[d] = cache[d]
    BY <1>2, <1>3 DEF IInv, DiskInv, TypeOK
  <2>2. QED
    BY <1>1, <1>2, <2>1, OthersRest DEF IInv
<1>8. PhaseInv(c)'
  <2>1. phase'[c] = p
    BY <1>3 DEF IInv, DiskInv, TypeOK
  <2>2. AtHead(c)'
    BY <1>1, <1>2 DEF AtHead, LogEndsAt, Committed
  <2>3. Publishing(c)'
    BY <1>1, <1>2 DEF Publishing, ConfirmedBelow
  <2>4. QED
    BY <1>2, <1>4, <2>1, <2>2, <2>3 DEF PhaseInv, IInv
<1>9. QED
  BY <1>5, <1>6, <1>7, <1>8 DEF IInv, DiskInv

LEMMA ConfirmStep ==
  ASSUME IInv, NEW c \in Processes, Confirm(c)
  PROVE  IInv'
<1>1. /\ phase[c] = "released" /\ AtHead(c) /\ Publishing(c)
      /\ Len(pin[c]) \in Steps /\ commits[Len(pin[c])] = pin[c]
      /\ pin[c] \in checkpoints /\ pin[c] \in releases /\ pin[c] \in Sequence
  BY PublishingReads DEF Confirm, IInv, PhaseInv, DiskInv, TypeOK
<1>2. UNCHANGED <<control, intents, commits, headDir, checkpoints, releases, lease, session,
                  parent, pin, journal, learned>>
  BY DEF Confirm, log, store, memory, Block
<1>3. PICK p \in {"idle", "blocked"} : phase' = [phase EXCEPT ![c] = p]
  BY DEF Confirm, To, Block
<1>4. /\ records' \in {records, records \cup {Confirmed(pin[c])}}
      /\ \/ cache' = cache
         \/ cache' = [cache EXCEPT ![c] = pin[c]] /\ Confirmed(pin[c]) \in records'
  BY RecordLeft DEF Confirm, Block, memory, Recorded
<1>5. HeadInv'
  <2>1. headDir'
    BY <1>1, <1>2 DEF Publishing, IInv, DiskInv, HeadInv
  <2>2. \E k \in checkpoints :
           /\ Confirmed(pin[c]) = Confirmed(k)
           /\ Mode \in records /\ Announced(k) \in records /\ k \in releases
           /\ Len(k) \in Steps /\ commits[Len(k)] = k /\ ConfirmedBelow(Len(k))
    BY <1>1 DEF Publishing
  <2>3. QED
    BY <1>2, <1>4, <2>1, <2>2, HeadGrown DEF IInv
<1>6. TypeOK'
  BY <1>1, <1>2, <1>3, <1>4 DEF IInv, DiskInv, TypeOK, Phases
<1>7. StoreInv' /\ LogInv' /\ LeaseInv'
  BY <1>1, <1>2, <1>3, LogKept, LeaseKept DEF IInv, DiskInv, StoreInv, log
<1>8. \A d \in Processes \ {c} : PhaseInv(d)'
  <2>1. \A d \in Processes \ {c} : phase'[d] = phase[d] /\ cache'[d] = cache[d]
    BY <1>3, <1>4 DEF IInv, DiskInv, TypeOK
  <2>2. QED
    BY <1>1, <1>4, <2>1, OthersRest DEF IInv
<1>9. PhaseInv(c)'
  <2>1. phase'[c] \in {"idle", "blocked"}
    BY <1>3 DEF IInv, DiskInv, TypeOK
  <2>2. AtHead(c)'
    BY <1>1, <1>2 DEF AtHead, LogEndsAt, Committed
  <2>3. cache'[c] # << >> => Confirmed(cache'[c]) \in records'
    BY <1>4 DEF IInv, DiskInv, TypeOK, PhaseInv
  <2>4. QED
    BY <2>1, <2>2, <2>3 DEF PhaseInv
<1>10. QED
  BY <1>5, <1>6, <1>7, <1>8, <1>9 DEF IInv, DiskInv

\* A release made outside the head changes nothing the run relies on.
LEMMA StoreGrown ==
  ASSUME IInv, NEW k \in checkpoints, releases' \in {releases, releases \cup {k}},
         UNCHANGED <<log, headDir, records, checkpoints, lease, phase, parent, cache, pin,
                     session, learned>>,
         journal' \in [Processes -> SUBSET Sequence]
  PROVE  IInv'
<1>1. UNCHANGED <<control, intents, commits>>
  BY DEF log
<1>2. TypeOK'
  BY <1>1 DEF IInv, DiskInv, TypeOK
<1>3. StoreInv' /\ LogInv' /\ HeadInv' /\ LeaseInv'
  BY <1>1, LogKept, HeadKept DEF IInv, DiskInv, StoreInv, LeaseInv
<1>4. \A d \in Processes : PhaseInv(d)'
  BY PhaseKept DEF IInv
<1>5. QED
  BY <1>2, <1>3, <1>4 DEF IInv, DiskInv

LEMMA PublishPlainStep ==
  ASSUME IInv, NEW c \in Processes, PublishPlain(c)
  PROVE  IInv'
<1>1. phase[c] = "idle"
  BY LiveReads DEF PublishPlain, IInv
<1>2. UNCHANGED <<log, headDir, records, checkpoints, lease, parent, cache, pin, session, learned>>
  BY DEF PublishPlain, head
<1>3. CASE UNCHANGED phase /\ \E k \in checkpoints :
              /\ releases' = releases \cup {k}
              /\ journal' = [journal EXCEPT ![c] = @ \cup {k}]
  <2>1. PICK k \in checkpoints : /\ releases' = releases \cup {k}
                                 /\ journal' = [journal EXCEPT ![c] = @ \cup {k}]
    BY <1>3
  <2>2. journal' \in [Processes -> SUBSET Sequence]
    BY <2>1 DEF IInv, DiskInv, TypeOK
  <2>3. QED
    BY <1>2, <1>3, <2>1, <2>2, StoreGrown
<1>4. CASE To(c, "blocked") /\ \E k \in checkpoints :
              /\ releases' \in {releases, releases \cup {k}}
              /\ journal' \in {journal, [journal EXCEPT ![c] = @ \cup {k}]}
  <2>1. PICK k \in checkpoints : /\ releases' \in {releases, releases \cup {k}}
                                 /\ journal' \in {journal, [journal EXCEPT ![c] = @ \cup {k}]}
    BY <1>4
  <2>2. UNCHANGED <<control, intents, commits>> /\ phase' = [phase EXCEPT ![c] = "blocked"]
    BY <1>2, <1>4 DEF log, To
  <2>3. TypeOK'
    BY <1>2, <2>1, <2>2 DEF IInv, DiskInv, TypeOK, Phases
  <2>4. StoreInv' /\ LogInv' /\ HeadInv' /\ LeaseInv'
    BY <1>1, <1>2, <2>1, <2>2, LogKept, HeadKept, LeaseKept DEF IInv, DiskInv, StoreInv
  <2>5. \A d \in Processes \ {c} : PhaseInv(d)'
    <3>1. \A d \in Processes \ {c} : phase'[d] = phase[d] /\ cache'[d] = cache[d]
      BY <1>2, <2>2 DEF IInv, DiskInv, TypeOK
    <3>2. QED
      BY <1>1, <1>2, <3>1, OthersRest DEF IInv
  <2>6. PhaseInv(c)'
    BY <1>2, <2>2, AtRest DEF IInv, DiskInv, TypeOK
  <2>7. QED
    BY <2>3, <2>4, <2>5, <2>6 DEF IInv, DiskInv
<1>5. ASSUME parent[c] # << >>, UNCHANGED <<releases, journal>>
      PROVE  \E k \in checkpoints : /\ releases' \in {releases, releases \cup {k}}
                                    /\ journal' \in {journal, [journal EXCEPT ![c] = @ \cup {k}]}
  <2>1. AtHead(c) /\ parent[c] \in Sequence /\ Len(parent[c]) # 0
    BY <1>1, <1>5, Runs DEF IInv, PhaseInv, DiskInv, TypeOK
  <2>2. parent[c] \in checkpoints
    BY <2>1, LogReads DEF AtHead, IInv
  <2>3. QED
    BY <1>5, <2>2
<1>6. QED
  BY <1>3, <1>4, <1>5 DEF PublishPlain

LEMMA PublishHistoricalStep ==
  ASSUME IInv, PublishHistorical
  PROVE  IInv'
<1>1. PICK k \in checkpoints : releases' = releases \cup {k}
  BY DEF PublishHistorical
<1>2. UNCHANGED <<log, headDir, records, checkpoints, lease, phase, parent, cache, pin,
                  journal, session, learned>>
  BY DEF PublishHistorical, head, memory
<1>3. QED
  BY <1>1, <1>2, StoreGrown DEF IInv, DiskInv, TypeOK

\* What Reconcile has read when it writes, with no coordinator at work.
LEMMA ReconcileReads ==
  ASSUME IInv, Reconcile
  PROVE  \E n \in Steps :
            /\ lease = None /\ LogEndsAt(n) /\ headDir
            /\ commits[n] \in checkpoints /\ commits[n] \in releases /\ Len(commits[n]) = n
            /\ Mode \in records /\ Announced(commits[n]) \in records /\ ConfirmedBelow(n)
            /\ Confirmed(commits[n]) \notin records
            /\ records' \in {records, records \cup {Confirmed(commits[n])}}
<1>1. PICK n \in Steps, k \in releases :
        /\ LogEndsAt(n) /\ PublicationReads(n, {Confirmed(k)})
        /\ Unknown(n) /\ k = Committed(n)
        /\ Recorded(Confirmed(k)) \/ RecordingFailed(Confirmed(k))
  BY DEF Reconcile
<1>2. n \in 0..MaxSteps /\ n # 0
  BY LearnerAssumption DEF Steps
<1>3. Committed(n) = commits[n] /\ commits[n] \in checkpoints /\ Len(commits[n]) = n
  BY <1>1, <1>2, LogReads DEF IInv
<1>4. headDir /\ Confirmed(commits[n]) \notin records /\ Announced(commits[n]) \in records
  BY <1>1, <1>3 DEF Unknown, Unpublished
<1>5. Mode \in records /\ ConfirmedBelow(n)
  BY <1>1, <1>2, <1>4, HeadReads DEF IInv
<1>6. records' \in {records, records \cup {Confirmed(commits[n])}}
  BY <1>1, <1>3, RecordLeft
<1>7. QED
  BY <1>1, <1>3, <1>4, <1>5, <1>6 DEF Reconcile, LeaseFree

LEMMA ReconcileStep ==
  ASSUME IInv, Reconcile
  PROVE  IInv'
<1>1. UNCHANGED <<control, intents, commits, headDir, checkpoints, releases, lease, phase,
                  parent, cache, pin, journal, session, learned>>
  BY DEF Reconcile, log, store, memory
<1>2. PICK n \in Steps :
        /\ lease = None /\ headDir
        /\ commits[n] \in checkpoints /\ commits[n] \in releases /\ Len(commits[n]) = n
        /\ Mode \in records /\ Announced(commits[n]) \in records /\ ConfirmedBelow(n)
        /\ records' \in {records, records \cup {Confirmed(commits[n])}}
  BY ReconcileReads
<1>3. HeadInv'
  <2>1. \E k \in checkpoints :
           /\ Confirmed(commits[n]) = Confirmed(k)
           /\ Mode \in records /\ Announced(k) \in records /\ k \in releases
           /\ Len(k) \in Steps /\ commits[Len(k)] = k /\ ConfirmedBelow(Len(k))
    BY <1>2
  <2>2. QED
    BY <1>1, <1>2, <2>1, HeadGrown DEF IInv
<1>4. TypeOK' /\ StoreInv' /\ LogInv' /\ LeaseInv'
  BY <1>1, LogKept DEF IInv, DiskInv, TypeOK, StoreInv, LeaseInv, log
<1>5. \A d \in Processes : PhaseInv(d)'
  BY <1>1, <1>2, PhaseKept DEF IInv, log
<1>6. QED
  BY <1>3, <1>4, <1>5 DEF IInv, DiskInv

-----------------------------------------------------------------------------
(* The invariant                                                           *)

LEMMA InitInv == Init => IInv
<1> SUFFICES ASSUME Init PROVE IInv
  OBVIOUS
<1>1. TypeOK
  <2>1. 0 \in 0..MaxAttempts /\ << >> \in Sequence
    BY Files, LearnerAssumption
  <2>2. /\ intents \in [Steps -> File] /\ commits \in [Steps -> File]
        /\ learned \in [Steps -> 0..MaxAttempts]
    BY <2>1 DEF Init, File
  <2>3. /\ phase \in [Processes -> Phases]
        /\ parent \in [Processes -> Sequence] /\ cache \in [Processes -> Sequence]
        /\ pin \in [Processes -> Sequence] /\ journal \in [Processes -> SUBSET Sequence]
        /\ session \in [Processes -> Sequence \cup {None}]
    BY <2>1 DEF Init, Phases
  <2>4. QED
    BY <2>2, <2>3 DEF Init, TypeOK
<1>2. StoreInv /\ HeadInv
  BY DEF Init, StoreInv, HeadInv
<1>3. LogInv
  BY DEF Init, LogInv, IsWhole
<1>4. LeaseInv /\ \A c \in Processes : PhaseInv(c)
  BY LearnerAssumption DEF Init, LeaseInv, PhaseInv
<1>5. QED
  BY <1>1, <1>2, <1>3, <1>4 DEF IInv, DiskInv

LEMMA StepInv == IInv /\ [Next]_vars => IInv'
<1> SUFFICES ASSUME IInv, [Next]_vars PROVE IInv'
  OBVIOUS
<1>1. CASE UNCHANGED vars
  <2>1. UNCHANGED <<log, headDir, records, releases, checkpoints, lease, phase, parent, cache,
                    pin, session, journal, learned, control, intents, commits>>
    BY <1>1 DEF vars, log, head, store, memory
  <2>2. TypeOK' /\ StoreInv' /\ LogInv' /\ HeadInv' /\ LeaseInv'
    BY <2>1, LogKept, HeadKept DEF IInv, DiskInv, TypeOK, StoreInv, LeaseInv
  <2>3. \A d \in Processes : PhaseInv(d)'
    BY <2>1, PhaseKept DEF IInv
  <2>4. QED
    BY <2>2, <2>3 DEF IInv, DiskInv
<1>2. ASSUME NEW c \in Processes,
             \/ StartRun(c) \/ Restore(c) \/ Close(c) \/ Crash(c) \/ Meddle(c)
             \/ TrainIntent(c) \/ TrainLearn(c) \/ TrainSave(c) \/ TrainCommit(c)
             \/ EnableHead(c) \/ Announce(c) \/ Release(c) \/ Confirm(c) \/ PublishPlain(c)
      PROVE  IInv'
  <2>1. ASSUME Close(c) \/ Crash(c) PROVE IInv'
    BY <2>1, ForgetStep DEF Close, Crash
  <2>2. QED
    BY <1>2, <2>1, StartRunStep, RestoreStep, MeddleStep, TrainIntentStep, TrainLearnStep,
       TrainSaveStep, TrainCommitStep, EnableHeadStep, AnnounceStep, ReleaseStep, ConfirmStep,
       PublishPlainStep
<1>3. QED
  BY <1>1, <1>2, PublishHistoricalStep, ReconcileStep DEF Next

LEMMA Invariance == Spec => []IInv
BY InitInv, StepInv, PTL DEF Spec

-----------------------------------------------------------------------------
(* The properties of the run                                               *)

\* No step is trained twice, whoever crashes or takes over: an intent is on disk
\* before the learn call, and nobody writes a second one.
THEOREM TrainedOnceSafe == Spec => []TrainedOnce
<1>1. IInv => TrainedOnce
  BY DEF IInv, DiskInv, TypeOK, LogInv, TrainedOnce
<1>2. QED
  BY <1>1, Invariance, PTL

\* The log commits updates of the run only, one more with every step, and what it
\* commits is in the store.
THEOREM LogSafe == Spec => []LogIsTrained
<1>1. ASSUME IInv PROVE LogIsTrained
  <2>1. ASSUME NEW n \in Steps, commits[n] \notin {None, Torn}
        PROVE  /\ commits[n] \in checkpoints /\ Len(commits[n]) = n
               /\ n > 1 => commits[n - 1] = SubSeq(commits[n], 1, n - 1)
    <3>1. n > 1 => n - 1 \in Steps /\ n - 1 < n
      BY LearnerAssumption DEF Steps
    <3>2. QED
      BY <1>1, <2>1, <3>1 DEF IInv, DiskInv, LogInv, IsWhole
  <2>2. QED
    BY <1>1, <2>1 DEF IInv, DiskInv, StoreInv, LogIsTrained
<1>2. QED
  BY <1>1, Invariance, PTL

\* Confirmed steps are announced, committed, released and without a gap.
THEOREM HeadSafe == Spec => []HeadIsCertified
<1>1. ASSUME IInv PROVE HeadIsCertified
  <2>1. ASSUME NEW k \in checkpoints, Confirmed(k) \in records
        PROVE  /\ Announced(k) \in records /\ k \in releases /\ commits[Len(k)] = k
               /\ \A i \in 1..Len(k) : Confirmed(SubSeq(k, 1, i)) \in records
    <3>1. /\ Announced(k) \in records /\ k \in releases /\ k \in Sequence
          /\ Len(k) \in Steps /\ commits[Len(k)] = k /\ ConfirmedBelow(Len(k))
      BY <1>1, <2>1 DEF IInv, DiskInv, TypeOK, HeadInv
    <3>2. IsWhole(Len(k))
      BY <3>1, Files DEF IsWhole
    <3>3. ASSUME NEW i \in 1..Len(k) PROVE Confirmed(SubSeq(k, 1, i)) \in records
      <4>1. CASE i = Len(k)
        BY <2>1, <3>1, <4>1, Runs
      <4>2. CASE i # Len(k)
        <5>1. i \in Steps /\ i < Len(k)
          BY <3>1, <4>2, LearnerAssumption DEF Steps
        <5>2. commits[i] = SubSeq(k, 1, i)
          BY <1>1, <3>1, <3>2, <5>1 DEF IInv, DiskInv, LogInv
        <5>3. QED
          BY <3>1, <5>1, <5>2 DEF ConfirmedBelow
      <4>3. QED
        BY <4>1, <4>2
    <3>4. QED
      BY <3>1, <3>3
  <2>2. QED
    BY <2>1 DEF HeadIsCertified
<1>2. QED
  BY <1>1, Invariance, PTL

\* A coordinator between operations knows the run as it is on disk.
THEOREM LiveSafe == Spec => []LiveIsCurrent
<1>1. ASSUME IInv PROVE LiveIsCurrent
  <2>1. ASSUME NEW c \in Processes, phase[c] = "idle"
        PROVE  /\ lease = c
               /\ \A n \in Steps :
                     IF n <= Len(parent[c]) THEN commits[n] = SubSeq(parent[c], 1, n)
                                            ELSE intents[n] = None /\ commits[n] = None
               /\ cache[c] # << >> => Confirmed(cache[c]) \in records
    <3>1. lease = c /\ AtHead(c) /\ (cache[c] # << >> => Confirmed(cache[c]) \in records)
      BY <1>1, <2>1 DEF IInv, LeaseInv, PhaseInv
    <3>2. /\ Len(parent[c]) \in 0..MaxSteps /\ LogEndsAt(Len(parent[c]))
          /\ parent[c] = Committed(Len(parent[c]))
      BY <3>1 DEF AtHead
    <3>3. \A n \in Steps : n <= Len(parent[c]) => commits[n] = SubSeq(parent[c], 1, n)
      BY <1>1, <3>2, LogReads DEF IInv
    <3>4. \A n \in Steps : ~(n <= Len(parent[c])) => intents[n] = None /\ commits[n] = None
      BY <3>2, LearnerAssumption DEF LogEndsAt, Steps
    <3>5. QED
      BY <3>1, <3>3, <3>4
  <2>2. QED
    BY <2>1 DEF LiveIsCurrent
<1>2. QED
  BY <1>1, Invariance, PTL

-----------------------------------------------------------------------------
(* The ledger                                                              *)

\* The refinement mapping, of any log and any records.
Wholes(f)         == {n \in Steps : f[n] \notin {None, Torn}}
HistoryOf(f)      ==
    IF Wholes(f) = {} THEN << >> ELSE f[CHOOSE n \in Wholes(f) : \A i \in Wholes(f) : i <= n]
PublishedOf(f, r) == Cardinality({n \in Wholes(f) : Confirmed(f[n]) \in r})

UpTo(f, n)   == \A i \in Steps : f[i] \notin {None, Torn} <=> i <= n
LastOf(f, n) == IF n = 0 THEN << >> ELSE f[n]

LEMMA Mapping ==
  /\ History = HistoryOf(commits) /\ Published = PublishedOf(commits, records)
  /\ History' = HistoryOf(commits') /\ Published' = PublishedOf(commits', records')
BY DEF History, HistoryOf, Whole, Wholes, Published, PublishedOf

\* The history of n whole commits is the last of them.
LEMMA HistoryUpTo ==
  ASSUME NEW f, NEW n \in 0..MaxSteps, UpTo(f, n)
  PROVE  Wholes(f) = 1..n /\ HistoryOf(f) = LastOf(f, n)
<1>1. MaxSteps \in Nat
  BY LearnerAssumption
<1>2. Wholes(f) = 1..n
  BY <1>1 DEF Wholes, UpTo, Steps
<1>3. CASE n = 0
  BY <1>2, <1>3 DEF HistoryOf, LastOf
<1>4. CASE n # 0
  <2>1. n \in Wholes(f) /\ \A i \in Wholes(f) : i <= n
    BY <1>1, <1>2, <1>4
  <2> DEFINE last == CHOOSE m \in Wholes(f) : \A i \in Wholes(f) : i <= m
  <2>2. last \in Wholes(f) /\ \A i \in Wholes(f) : i <= last
    BY <2>1
  <2>3. last = n
    <3>1. last <= n /\ n <= last /\ last \in Int
      BY <1>2, <2>1, <2>2
    <3>2. QED
      BY <3>1
  <2>4. Wholes(f) # {}
    BY <2>1
  <2>5. HistoryOf(f) = f[last]
    BY <2>4, Zenon DEF HistoryOf
  <2>6. QED
    BY <1>2, <1>4, <2>3, <2>5 DEF LastOf
<1>5. QED
  BY <1>2, <1>3, <1>4

\* Of n commits, of which the first m are confirmed, m are published.
LEMMA PublishedUpTo ==
  ASSUME NEW f, NEW r, NEW n \in 0..MaxSteps, UpTo(f, n), NEW m \in 0..n,
         \A i \in 1..n : Confirmed(f[i]) \in r <=> i <= m
  PROVE  PublishedOf(f, r) = m
<1>1. {i \in Wholes(f) : Confirmed(f[i]) \in r} = 1..m
  BY HistoryUpTo
<1>2. Cardinality(1..m) = m
  BY FS_Interval
<1>3. QED
  BY <1>1, <1>2 DEF PublishedOf

\* A log that ends after n steps has n whole commits, and so has one whose next
\* step is under way.
LEMMA LogIsUpTo ==
  ASSUME DiskInv, NEW n \in 0..MaxSteps,
         LogEndsAt(n) \/ (/\ n + 1 \in Steps /\ intents[n + 1] # None
                          /\ commits[n + 1] = None)
  PROVE  UpTo(commits, n)
<1>1. MaxSteps \in Nat
  BY LearnerAssumption
<1>2. CASE LogEndsAt(n)
  BY <1>1, <1>2 DEF LogEndsAt, UpTo, Steps
<1>3. CASE /\ n + 1 \in Steps /\ intents[n + 1] # None
           /\ commits[n + 1] = None
  <2>1. \A i \in Steps : i <= n => IsWhole(i)
    BY <1>1, <1>3 DEF DiskInv, LogInv, Steps
  <2>2. \A i \in Steps : i > n => ~IsWhole(i)
    <3>1. \A i \in Steps : i > n + 1 => commits[i] = None
      BY <1>3 DEF DiskInv, LogInv, IsWhole
    <3>2. QED
      BY <1>1, <1>3, <3>1 DEF IsWhole, Steps
  <2>3. QED
    BY <1>1, <2>1, <2>2 DEF UpTo, IsWhole, Steps
<1>4. QED
  BY <1>2, <1>3

\* In a run without a mode record nothing is confirmed.
LEMMA UntrackedIsUnpublished ==
  ASSUME DiskInv, Mode \notin records, NEW n \in Steps, IsWhole(n)
  PROVE  Confirmed(commits[n]) \notin records
BY DEF DiskInv, LogInv, HeadInv

\* How many of n commits are published, when those below m are all confirmed.
LEMMA PublishedIs ==
  ASSUME DiskInv, NEW n \in 0..MaxSteps, UpTo(commits, n)
  PROVE  /\ ConfirmedBelow(n + 1) => Published = n
         /\ Mode \notin records => Published = 0
         /\ ConfirmedBelow(n) /\ n # 0 /\ Confirmed(commits[n]) \notin records
               => Published = n - 1
<1>0. MaxSteps \in Nat /\ \A i \in 1..n : i \in Steps /\ IsWhole(i)
  BY LearnerAssumption DEF Steps, UpTo, IsWhole
<1>1. ASSUME ConfirmedBelow(n + 1) PROVE Published = n
  <2>1. \A i \in 1..n : Confirmed(commits[i]) \in records <=> i <= n
    BY <1>0, <1>1 DEF ConfirmedBelow
  <2>2. QED
    BY <2>1, PublishedUpTo, Mapping
<1>2. ASSUME Mode \notin records PROVE Published = 0
  <2>1. \A i \in 1..n : Confirmed(commits[i]) \in records <=> i <= 0
    BY <1>0, <1>2, UntrackedIsUnpublished
  <2>2. QED
    BY <2>1, PublishedUpTo, Mapping
<1>3. ASSUME ConfirmedBelow(n), n # 0, Confirmed(commits[n]) \notin records
      PROVE  Published = n - 1
  <2>1. \A i \in 1..n : Confirmed(commits[i]) \in records <=> i <= n - 1
    BY <1>0, <1>3 DEF ConfirmedBelow
  <2>2. n - 1 \in 0..n
    BY <1>3
  <2>3. QED
    BY <2>1, <2>2, PublishedUpTo, Mapping
<1>4. QED
  BY <1>1, <1>2, <1>3

LedgerStep == [Promise!Next]_<<History, Mode \in records, Published>>

\* A step that touches neither a commit nor a confirmation is none of the ledger.
LEMMA LedgerKept ==
  ASSUME commits' = commits,
         \A k : Confirmed(k) \in records' <=> Confirmed(k) \in records
  PROVE  History' = History /\ Published' = Published
<1>1. History' = History
  BY DEF History, Whole
<1>2. {n \in Whole' : Confirmed(commits'[n]) \in records'}
         = {n \in Whole : Confirmed(commits[n]) \in records}
  BY DEF Whole
<1>3. QED
  BY <1>1, <1>2 DEF Published

\* The last of n commits is confirmed.
LEMMA ConfirmationPublishes ==
  ASSUME IInv, NEW n \in Steps, LogEndsAt(n), Mode \in records, ConfirmedBelow(n),
         commits' = commits, records' \in {records, records \cup {Confirmed(commits[n])}}
  PROVE  LedgerStep
<1>1. MaxSteps \in Nat /\ n \in 0..MaxSteps /\ n # 0
  BY LearnerAssumption DEF Steps
<1>2. UpTo(commits, n) /\ Mode \in records'
  BY <1>1, LogIsUpTo DEF IInv
<1>3. CASE records' = records
  BY <1>3, LedgerKept DEF LedgerStep
<1>4. CASE Confirmed(commits[n]) \in records
  BY <1>3, <1>4
<1>5. CASE Confirmed(commits[n]) \notin records /\ records' = records \cup {Confirmed(commits[n])}
  <2>1. Published = n - 1
    BY <1>1, <1>2, <1>5, PublishedIs DEF IInv
  <2>2. Published' = n
    <3>1. \A i \in 1..n : Confirmed(commits'[i]) \in records' <=> i <= n
      BY <1>1, <1>5 DEF ConfirmedBelow, Steps
    <3>2. UpTo(commits', n)
      BY <1>2
    <3>3. PublishedOf(commits', records') = n
      BY <1>1, <3>1, <3>2, PublishedUpTo
    <3>4. QED
      BY <3>3, Mapping
  <2>3. Len(History) = n /\ History' = History
    <3>1. History = commits[n]
      BY <1>1, <1>2, HistoryUpTo, Mapping DEF LastOf
    <3>2. Len(commits[n]) = n
      BY <1>1, LogReads DEF IInv
    <3>3. QED
      BY <3>1, <3>2, Mapping DEF HistoryOf
  <2>4. Promise!Publish
    BY <1>1, <1>2, <2>1, <2>2, <2>3 DEF Promise!Publish
  <2>5. QED
    BY <2>4 DEF Promise!Next, LedgerStep
<1>6. QED
  BY <1>3, <1>4, <1>5

\* The commit of a step is the next update of the ledger.
LEMMA CommitTrains ==
  ASSUME IInv, NEW c \in Processes, TrainCommit(c)
  PROVE  LedgerStep
<1>1. PICK n \in Steps : n = Len(pin[c])
  BY CommitReads
<1>2. /\ pin[c] \in checkpoints /\ pin[c] \in Sequence /\ Extends(pin[c], Committed(n - 1))
      /\ commits[n] = None /\ intents[n] = Committed(n - 1) /\ intents[n] \in Sequence
      /\ headDir => ConfirmedBelow(n)
  BY <1>1, CommitReads
<1>3. PICK value \in {None, Torn, pin[c]} : commits' = [commits EXCEPT ![n] = value]
  BY <1>1, CommitReads
<1>4. UNCHANGED records
  BY DEF TrainCommit, head
<1> DEFINE m == n - 1
<1>5. /\ MaxSteps \in Nat /\ n \in 1..MaxSteps /\ m \in 0..MaxSteps /\ n = m + 1
      /\ intents[n] # None
  BY <1>2, LearnerAssumption, Files DEF Steps
<1>6. UpTo(commits, m)
  BY <1>2, <1>5, LogIsUpTo DEF IInv
<1>7. /\ commits'[n] = value
      /\ \A i \in Steps : i # n => commits'[i] = commits[i]
  BY <1>3 DEF IInv, DiskInv, TypeOK
<1>8. History = Committed(m) /\ LastOf(commits', m) = LastOf(commits, m)
  BY <1>5, <1>6, <1>7, HistoryUpTo, Mapping DEF LastOf, Committed, Steps
<1>9. /\ Mode \in records => ConfirmedBelow(n)
      /\ Published \in 0..m
      /\ \A i \in 1..m : Confirmed(commits[i]) \in records <=> i <= Published
      /\ Mode \in records => Published = m
  <2>1. Mode \in records => ConfirmedBelow(n)
    BY <1>2 DEF IInv, DiskInv, HeadInv
  <2>2. CASE Mode \in records
    BY <1>5, <1>6, <2>1, <2>2, PublishedIs DEF ConfirmedBelow, IInv, Steps
  <2>3. CASE Mode \notin records
    <3>1. Published = 0
      BY <1>5, <1>6, <2>3, PublishedIs DEF IInv
    <3>2. \A i \in 1..m : Confirmed(commits[i]) \notin records
      BY <1>5, <1>6, <2>3, UntrackedIsUnpublished DEF UpTo, IsWhole, IInv, Steps
    <3>3. QED
      BY <1>5, <2>3, <3>1, <3>2
  <2>4. QED
    BY <2>1, <2>2, <2>3
<1>10. CASE value \in {None, Torn}
  <2>1. UpTo(commits', m)
    BY <1>5, <1>6, <1>7, <1>10 DEF UpTo
  <2>2. History' = History
    BY <1>5, <1>6, <1>8, <2>1, HistoryUpTo, Mapping
  <2>3. \A i \in 1..m : Confirmed(commits'[i]) \in records' <=> i <= Published
    BY <1>4, <1>5, <1>7, <1>9 DEF Steps
  <2>4. Published' = Published
    BY <1>5, <1>9, <2>1, <2>3, PublishedUpTo, Mapping
  <2>5. QED
    BY <1>4, <2>2, <2>4 DEF LedgerStep
<1>11. CASE value = pin[c]
  <2>1. UpTo(commits', n)
    BY <1>2, <1>5, <1>6, <1>7, <1>11, Files DEF UpTo, Steps
  <2>2. History' = pin[c]
    BY <1>5, <1>7, <1>11, <2>1, HistoryUpTo, Mapping DEF LastOf
  <2>3. \E u \in Updates : History' = Append(History, u)
    <3>1. Committed(m) \in Sequence
      BY <1>2
    <3>2. QED
      BY <1>2, <1>8, <2>2, <3>1, Extending
  <2>4. Confirmed(pin[c]) \notin records
    BY <1>1, <1>2, Files DEF IInv, DiskInv, HeadInv
  <2>5. \A i \in 1..n : Confirmed(commits'[i]) \in records' <=> i <= Published
    BY <1>4, <1>5, <1>7, <1>9, <1>11, <2>4 DEF Steps
  <2>6. Published' = Published
    BY <1>5, <1>9, <2>1, <2>5, PublishedUpTo, Mapping
  <2>7. Len(History) = m
    BY <1>1, <1>2, <1>5, <1>8, Runs DEF Extends
  <2>8. Promise!Train
    BY <1>4, <1>9, <2>3, <2>6, <2>7 DEF Promise!Train
  <2>9. QED
    BY <2>8 DEF Promise!Next, LedgerStep
<1>12. QED
  BY <1>10, <1>11

\* Enabling the head tracks a run that has no commit yet.
LEMMA EnableTracks ==
  ASSUME IInv, NEW c \in Processes, EnableHead(c)
  PROVE  LedgerStep
<1>1. 0 \in 0..MaxSteps
  BY LearnerAssumption
<1>2. CheckLive(c, 0, FALSE)
  BY Zenon DEF EnableHead
<1>3. LogEndsAt(0)
  BY <1>2 DEF CheckLive
<1>4. UNCHANGED commits /\ records' \in {records, records \cup {Mode}}
  BY RecordLeft DEF EnableHead, log, head
<1>5. History' = History /\ Published' = Published
  BY <1>4, LedgerKept, Bodies
<1>6. CASE Mode \notin records /\ Mode \in records'
  <2>1. History = << >>
    BY <1>1, <1>3, LogIsUpTo, HistoryUpTo, Mapping DEF IInv, LastOf
  <2>2. Promise!Track
    BY <1>5, <1>6, <2>1 DEF Promise!Track
  <2>3. QED
    BY <2>2 DEF Promise!Next, LedgerStep
<1>7. QED
  BY <1>4, <1>5, <1>6 DEF LedgerStep

LEMMA LedgerSteps == IInv /\ [Next]_vars => LedgerStep
<1> SUFFICES ASSUME IInv, [Next]_vars PROVE LedgerStep
  OBVIOUS
<1>1. ASSUME UNCHANGED <<commits, records>> PROVE LedgerStep
  BY <1>1, LedgerKept DEF LedgerStep
<1>2. CASE UNCHANGED vars
  BY <1>1, <1>2 DEF vars, log, head
<1>3. ASSUME NEW c \in Processes,
             \/ StartRun(c) \/ Restore(c) \/ Close(c) \/ Crash(c) \/ Meddle(c)
             \/ TrainIntent(c) \/ TrainLearn(c) \/ TrainSave(c)
             \/ Release(c) \/ PublishPlain(c)
      PROVE  UNCHANGED <<commits, records>>
  BY <1>3 DEF StartRun, Restore, Close, Crash, Meddle, TrainIntent, TrainLearn, TrainSave,
     Release, PublishPlain, Forget, log, head
<1>4. ASSUME NEW c \in Processes, Announce(c) PROVE LedgerStep
  <2>1. UNCHANGED commits /\ \E n : records' \in {records, records \cup {Announced(Committed(n))}}
    BY <1>4, RecordLeft DEF Announce, log
  <2>2. \A k : Confirmed(k) \in records' <=> Confirmed(k) \in records
    BY <2>1, Bodies
  <2>3. Mode \in records' <=> Mode \in records
    BY <2>1, Bodies
  <2>4. QED
    BY <2>1, <2>2, <2>3, LedgerKept DEF LedgerStep
<1>5. ASSUME NEW c \in Processes, Confirm(c) PROVE LedgerStep
  <2>1. phase[c] = "released"
    BY <1>5 DEF Confirm
  <2>2. /\ AtHead(c) /\ Publishing(c) /\ Len(pin[c]) \in Steps
        /\ commits[Len(pin[c])] = pin[c] /\ Len(pin[c]) = Len(parent[c])
    BY <2>1, PublishingReads
  <2>3. UNCHANGED commits /\ records' \in {records, records \cup {Confirmed(pin[c])}}
    BY <1>5, RecordLeft DEF Confirm, log
  <2>4. QED
    BY <2>2, <2>3, ConfirmationPublishes DEF AtHead, Publishing
<1>6. CASE Reconcile
  <2>1. UNCHANGED commits
    BY <1>6 DEF Reconcile, log
  <2>2. QED
    BY <1>6, <2>1, ReconcileReads, ConfirmationPublishes
<1>7. CASE PublishHistorical
  BY <1>1, <1>7 DEF PublishHistorical, log, head
<1>8. QED
  BY <1>1, <1>2, <1>3, <1>4, <1>5, <1>6, <1>7, CommitTrains, EnableTracks DEF Next

\* The run implements the ledger: whatever fails, crashes or takes over, its history
\* grows by one update at a time, a tracked run publishes its last step before it
\* commits the next, and nothing is taken back.
THEOREM LedgerImplemented == Spec => ImplementsLedger
<1>1. Init => Promise!Init
  <2> SUFFICES ASSUME Init PROVE Promise!Init
    OBVIOUS
  <2>1. 0 \in 0..MaxSteps /\ UpTo(commits, 0)
    BY LearnerAssumption DEF Init, UpTo, Steps
  <2>2. History = << >>
    BY <2>1, HistoryUpTo, Mapping DEF LastOf
  <2>3. Published = 0
    BY <2>1, PublishedUpTo, Mapping
  <2>4. QED
    BY <2>2, <2>3 DEF Init, Promise!Init
<1>2. LedgerStep => [Promise!Next]_(Promise!vars)
  BY DEF LedgerStep, Promise!vars
<1>3. QED
  BY <1>1, <1>2, Invariance, LedgerSteps, PTL DEF Spec, ImplementsLedger, Promise!Spec

-----------------------------------------------------------------------------
(* Folds, as the definitions of Sampler use them                           *)

(* Total and Walk are folds of the community modules: the value, at the set  *)
(* of all positions, of the function that satisfies a recursion on the      *)
(* greatest position of a set.  That there is such a function has to be     *)
(* shown before anything can be said of its value.                          *)

Greatest(s) == Schedule!Max(s)

IsTotal(g, rows) ==
    g = [s \in SUBSET (DOMAIN rows) |->
            IF s = {} THEN 0 ELSE g[s \ {Greatest(s)}] + rows[Greatest(s)]]

\* Total at the set of all positions of a catalog.
LEMMA TotalIs ==
  ASSUME NEW rows
  PROVE  Schedule!Total(rows) = (CHOOSE g : IsTotal(g, rows))[DOMAIN rows]
BY DEF Schedule!Total, Schedule!FoldLeft, Schedule!MapThenFoldSet, IsTotal, Greatest

Domain(rows) == [i \in DOMAIN rows |-> i]

WalkStep(rows, at, k) ==
    IF at.dataset # 0 THEN at
    ELSE IF at.row < rows[k] THEN [at EXCEPT !.dataset = k]
    ELSE [at EXCEPT !.row = @ - rows[k]]

IsWalk(g, rows, index) ==
    g = [s \in SUBSET (DOMAIN Domain(rows)) |->
            IF s = {} THEN [dataset |-> 0, row |-> index]
            ELSE WalkStep(rows, g[s \ {Greatest(s)}], Domain(rows)[Greatest(s)])]

\* Walk, which folds the positions themselves.
LEMMA WalkIs ==
  ASSUME NEW rows, NEW index
  PROVE  Schedule!Walk(rows, index) = (CHOOSE g : IsWalk(g, rows, index))[DOMAIN Domain(rows)]
BY DEF Schedule!Walk, Schedule!FoldLeftDomain, Schedule!FoldLeft, Schedule!MapThenFoldSet, IsWalk, Greatest, WalkStep, Domain
Joined(g, ss, n) ==
    g = [i \in 1..n |-> IF i = 1 THEN ss[i] ELSE g[i - 1] \o ss[i]]
LEMMA FlattenIs ==
  ASSUME NEW ss, Len(ss) # 0
  PROVE  Schedule!FlattenSeq(ss) = (CHOOSE g : Joined(g, ss, Len(ss)))[Len(ss)]
BY DEF Schedule!FlattenSeq, Joined

\* A nonempty set of naturals has a least one; what follows on sequences of steps
\* is shown by the least step it would fail at.
LEMMA LeastNat ==
  ASSUME NEW S \in SUBSET Nat, S # {}
  PROVE  \E k \in S : \A j \in S : k <= j
<1>1. PICK k \in S : \A j \in S : ~(<<j, k>> \in OpToRel(<, Nat))
  BY NatLessThanWellFounded, WFMin, Zenon
<1>2. \A j \in S : ~(j < k)
  BY <1>1 DEF OpToRel
<1>3. QED
  BY <1>2

\* The greatest of some numbers up to n.
LEMMA GreatestIs ==
  ASSUME NEW n \in Nat, NEW s \in SUBSET (1..n), s # {}
  PROVE  Greatest(s) \in s /\ \A i \in s : i <= Greatest(s)
<1> DEFINE T == {m \in 0..n : \A i \in s : i <= m}
<1>1. n \in T /\ T \in SUBSET Nat
  OBVIOUS
<1>2. PICK k \in T : \A m \in T : k <= m
  BY <1>1, LeastNat
<1>3. k \in s
  <2>1. SUFFICES ASSUME k \notin s PROVE FALSE
    OBVIOUS
  <2>2. PICK i \in s : TRUE
    OBVIOUS
  <2>3. k \in 0..n /\ \A j \in s : j <= k
    OBVIOUS
  <2>4. k - 1 \in 0..n /\ \A j \in s : j <= k - 1
    BY <2>1, <2>2, <2>3
  <2>5. k - 1 \in T
    BY <2>4
  <2>6. k <= k - 1
    BY <1>2, <2>5
  <2>7. QED
    BY <2>3, <2>6
<1>4. k \in s /\ \A i \in s : k >= i
  BY <1>3
<1>5. Greatest(s) \in s /\ \A i \in s : Greatest(s) >= i
  BY <1>4, Zenon DEF Greatest, Schedule!Max
<1>6. \A i \in s : i \in Nat
  OBVIOUS
<1> HIDE DEF T
<1>7. PICK j \in s : j = Greatest(s)
  BY <1>5
<1>8. \A i \in s : i <= j
  BY <1>5, <1>6, <1>7
<1>9. QED
  BY <1>7, <1>8

\* Folding n steps over sets of positions, the greatest position last.
FoldLaw(g, base, step, n) ==
    \A s \in SUBSET (1..n) :
        g[s] = IF s = {} THEN base ELSE step[Greatest(s)][g[s \ {Greatest(s)}]]

\* Such a fold exists: of one more step, from the fold of the steps before it.
LEMMA FoldExists ==
  ASSUME NEW X, NEW base \in X, NEW n \in Nat, NEW step \in [1..n -> [X -> X]],
         NEW m \in 0..n
  PROVE  \E g \in [SUBSET (1..m) -> X] : FoldLaw(g, base, step, m)
<1> DEFINE B == {k \in 0..n : ~ \E g \in [SUBSET (1..k) -> X] : FoldLaw(g, base, step, k)}
<1>1. SUFFICES ASSUME B # {} PROVE FALSE
  OBVIOUS
<1>2. PICK k \in B : \A j \in B : k <= j
  <2>1. B \in SUBSET Nat
    OBVIOUS
  <2>2. QED
    BY <1>1, <2>1, LeastNat
<1>3. k # 0
  <2>1. [s \in SUBSET (1..0) |-> base] \in [SUBSET (1..0) -> X]
    OBVIOUS
  <2>2. FoldLaw([s \in SUBSET (1..0) |-> base], base, step, 0)
    BY DEF FoldLaw
  <2>3. QED
    BY <2>1, <2>2
<1>4. k \in 1..n /\ k - 1 \in 0..n /\ k - 1 \notin B
  <2>1. B \subseteq 0..n
    OBVIOUS
  <2> HIDE DEF B
  <2>2. k \in 1..n /\ k - 1 \in 0..n /\ ~(k <= k - 1)
    BY <1>3, <2>1
  <2>3. QED
    BY <1>2, <2>2
<1>5. PICK g \in [SUBSET (1..(k - 1)) -> X] : FoldLaw(g, base, step, k - 1)
  BY <1>4
<1>6. ~ \E h \in [SUBSET (1..k) -> X] : FoldLaw(h, base, step, k)
  OBVIOUS
<1> HIDE DEF B
<1> DEFINE h == [s \in SUBSET (1..k) |-> IF k \in s THEN step[k][g[s \ {k}]] ELSE g[s]]
<1>7. \A s \in SUBSET (1..k) : s \ {k} \in SUBSET (1..(k - 1)) /\ (k \notin s => s \in SUBSET (1..(k - 1)))
  BY <1>4
<1>8. h \in [SUBSET (1..k) -> X]
  <2>1. \A s \in SUBSET (1..k) : g[s \ {k}] \in X /\ (k \notin s => g[s] \in X)
    BY <1>7
  <2>2. \A x \in X : step[k][x] \in X
    BY <1>4
  <2>3. QED
    BY <2>1, <2>2
<1>9. ASSUME NEW s \in SUBSET (1..k)
      PROVE  h[s] = IF s = {} THEN base ELSE step[Greatest(s)][h[s \ {Greatest(s)}]]
  <2>1. CASE s = {}
    <3>1. s \in SUBSET (1..(k - 1)) /\ h[s] = g[s]
      BY <2>1
    <3>2. QED
      BY <1>5, <2>1, <3>1 DEF FoldLaw
  <2>2. CASE k \in s
    <3>1. Greatest(s) = k
      <4>1. k \in Nat /\ s \in SUBSET (1..k) /\ s # {}
        BY <1>4, <2>2
      <4>2. Greatest(s) \in s /\ \A i \in s : i <= Greatest(s)
        BY <4>1, GreatestIs
      <4>3. PICK j \in 1..k : j = Greatest(s)
        BY <4>2
      <4>4. QED
        BY <1>4, <2>2, <4>2, <4>3
    <3>2. h[s] = step[k][g[s \ {k}]] /\ h[s \ {k}] = g[s \ {k}]
      BY <2>2
    <3>3. QED
      BY <2>2, <3>1, <3>2
  <2>3. CASE s # {} /\ k \notin s
    <3>1. s \in SUBSET (1..(k - 1)) /\ h[s] = g[s]
      BY <1>7, <2>3
    <3>2. PICK t \in SUBSET (1..(k - 1)) : t = s \ {Greatest(s)}
      BY <3>1
    <3>3. t \in SUBSET (1..k) /\ k \notin t /\ h[t] = g[t]
      BY <1>4, <2>3, <3>2
    <3>4. g[s] = step[Greatest(s)][g[t]]
      BY <1>5, <2>3, <3>1, <3>2 DEF FoldLaw
    <3>5. QED
      BY <2>3, <3>1, <3>2, <3>3, <3>4
  <2>4. QED
    BY <2>1, <2>2, <2>3
<1>10. FoldLaw(h, base, step, k)
  BY <1>9 DEF FoldLaw
<1>11. QED
  BY <1>6, <1>8, <1>10

\* Of the sets 1..k the greatest position is the last.
LEMMA GreatestOfFirst ==
  ASSUME NEW n \in Nat, NEW k \in 1..n
  PROVE  1..k # {} /\ Greatest(1..k) = k /\ (1..k) \ {Greatest(1..k)} = 1..(k - 1)
<1>1. 1..k # {} /\ k \in 1..k /\ k \in Nat /\ 1..k \in SUBSET (1..k)
  OBVIOUS
<1>2. Greatest(1..k) \in 1..k /\ \A i \in 1..k : i <= Greatest(1..k)
  BY <1>1, GreatestIs
<1>3. PICK j \in 1..k : j = Greatest(1..k)
  BY <1>2
<1>4. Greatest(1..k) = k
  BY <1>1, <1>2, <1>3
<1>5. (1..k) \ {k} = 1..(k - 1)
  OBVIOUS
<1>6. QED
  BY <1>1, <1>4, <1>5

-----------------------------------------------------------------------------
(* The rows of a source                                                    *)

\* ends[k] is the number of rows of the first k datasets.
Borders(ends, rows) ==
    /\ ends \in [0..Len(rows) -> Nat] /\ ends[0] = 0
    /\ \A k \in 1..Len(rows) : ends[k] = ends[k - 1] + rows[k]

\* Total adds the datasets in order.
LEMMA TotalBorders ==
  ASSUME NEW rows \in Seq(Nat)
  PROVE  \E ends : Borders(ends, rows) /\ Schedule!Total(rows) = ends[Len(rows)]
<1>1. PICK n \in Nat : n = Len(rows) /\ DOMAIN rows = 1..n
  OBVIOUS
<1>2. \A k \in 1..n : rows[k] \in Nat
  BY <1>1
<1> DEFINE step == [k \in 1..n |-> [x \in Nat |-> x + rows[k]]]
<1>3. step \in [1..n -> [Nat -> Nat]]
  BY <1>2
<1>4. PICK g \in [SUBSET (1..n) -> Nat] : FoldLaw(g, 0, step, n)
  <2>1. n \in 0..n /\ 0 \in Nat
    OBVIOUS
  <2> HIDE DEF step
  <2>2. QED
    BY <1>3, <2>1, FoldExists
<1>5. IsTotal(g, rows)
  <2>1. ASSUME NEW s \in SUBSET (1..n), s # {}
        PROVE  g[s] = g[s \ {Greatest(s)}] + rows[Greatest(s)]
    <3>1. PICK k \in 1..n : k = Greatest(s)
      BY <2>1, GreatestIs
    <3>2. PICK t \in SUBSET (1..n) : t = s \ {k}
      OBVIOUS
    <3>3. g[s] = step[k][g[t]] /\ g[t] \in Nat
      BY <1>4, <2>1, <3>1, <3>2 DEF FoldLaw
    <3>4. QED
      BY <3>1, <3>2, <3>3
  <2>2. \A s \in SUBSET (1..n) :
           g[s] = IF s = {} THEN 0 ELSE g[s \ {Greatest(s)}] + rows[Greatest(s)]
    <3>1. g[{}] = 0
      BY <1>4 DEF FoldLaw
    <3>2. QED
      BY <2>1, <3>1
  <2>3. g = [s \in SUBSET (1..n) |->
               IF s = {} THEN 0 ELSE g[s \ {Greatest(s)}] + rows[Greatest(s)]]
    BY <1>4, <2>2
  <2>4. QED
    BY <1>1, <2>3 DEF IsTotal
<1>6. PICK f : f = CHOOSE h : IsTotal(h, rows)
  OBVIOUS
<1>7. IsTotal(f, rows) /\ Schedule!Total(rows) = f[1..n]
  BY <1>1, <1>5, <1>6, TotalIs, Zenon
<1>8. \A s \in SUBSET (1..n) :
         f[s] = IF s = {} THEN 0 ELSE f[s \ {Greatest(s)}] + rows[Greatest(s)]
  BY <1>1, <1>7 DEF IsTotal
<1>9. f[1..0] = 0 /\ \A k \in 1..n : f[1..k] = f[1..(k - 1)] + rows[k]
  <2>1. f[1..0] = 0
    <3>1. 1..0 = {} /\ {} \in SUBSET (1..n)
      OBVIOUS
    <3>2. QED
      BY <1>8, <3>1
  <2>2. ASSUME NEW k \in 1..n PROVE f[1..k] = f[1..(k - 1)] + rows[k]
    <3>1. 1..k \in SUBSET (1..n)
      OBVIOUS
    <3>2. QED
      BY <1>8, <3>1, GreatestOfFirst
  <2>3. QED
    BY <2>1, <2>2
<1> DEFINE ends == [k \in 0..n |-> f[1..k]]
<1>10. ends[0] = 0 /\ ends[n] = f[1..n] /\ \A k \in 1..n : ends[k] = ends[k - 1] + rows[k]
  BY <1>9
<1>11. \A k \in 0..n : ends[k] \in Nat
  <2> HIDE DEF ends
  <2> DEFINE B == {k \in 0..n : ends[k] \notin Nat}
  <2>1. SUFFICES ASSUME B # {} PROVE FALSE
    OBVIOUS
  <2>2. B \in SUBSET Nat
    OBVIOUS
  <2>3. PICK k \in B : \A j \in B : k <= j
    BY <2>1, <2>2, LeastNat
  <2>4. k \in 0..n /\ ends[k] \notin Nat
    OBVIOUS
  <2>5. k \in 1..n /\ k - 1 \in 0..n /\ ~(k <= k - 1)
    BY <1>10, <2>4
  <2>6. PICK p \in Nat : p = ends[k - 1]
    BY <2>3, <2>5
  <2>7. PICK r \in Nat : r = rows[k]
    BY <1>1, <2>5
  <2>8. ends[k] = p + r
    BY <1>10, <2>5, <2>6, <2>7
  <2>9. QED
    BY <2>4, <2>8
<1>12. Borders(ends, rows)
  BY <1>1, <1>10, <1>11 DEF Borders
<1>13. QED
  BY <1>1, <1>7, <1>10, <1>12

\* After k datasets, Walk has found the one the index falls into, or has the
\* rows that are left.
Stands(at, ends, index, k) ==
    IF index < ends[k]
    THEN \E d \in 1..k : /\ ends[d - 1] <= index /\ index < ends[d]
                         /\ at = [dataset |-> d, row |-> index - ends[d - 1]]
    ELSE at = [dataset |-> 0, row |-> index - ends[k]]

Places == [dataset : Nat, row : Nat]

\* A step of Walk stays among places.
LEMMA WalkStepType ==
  ASSUME NEW rows \in Seq(Nat), NEW k \in 1..Len(rows), NEW at \in Places
  PROVE  WalkStep(rows, at, k) \in Places
<1>1. rows[k] \in Nat /\ at.row \in Nat /\ at.dataset \in Nat /\ k \in Nat
  BY DEF Places
<1>2. CASE at.dataset # 0
  BY <1>2 DEF WalkStep
<1>3. CASE at.dataset = 0 /\ at.row < rows[k]
  BY <1>1, <1>3 DEF WalkStep, Places
<1>4. CASE at.dataset = 0 /\ ~(at.row < rows[k])
  <2>1. at.row - rows[k] \in Nat
    BY <1>1, <1>4
  <2>2. QED
    BY <1>1, <1>4, <2>1 DEF WalkStep, Places
<1>5. QED
  BY <1>2, <1>3, <1>4

\* A step of Walk goes on from where Walk stands.
LEMMA WalkStepStands ==
  ASSUME NEW rows \in Seq(Nat), NEW ends, Borders(ends, rows), NEW index \in Nat,
         NEW k \in 1..Len(rows), NEW at, Stands(at, ends, index, k - 1)
  PROVE  Stands(WalkStep(rows, at, k), ends, index, k)
<1>1. PICK r \in Nat : r = rows[k]
  OBVIOUS
<1>2. PICK e \in Nat : e = ends[k - 1]
  <2>1. k - 1 \in 0..Len(rows)
    OBVIOUS
  <2>2. ends[k - 1] \in Nat
    BY <2>1 DEF Borders
  <2>3. QED
    BY <2>2
<1>3. ends[k] = e + r
  BY <1>1, <1>2 DEF Borders
<1>4. CASE index < e
  <2>1. PICK d \in 1..(k - 1) : /\ ends[d - 1] <= index /\ index < ends[d]
                                /\ at = [dataset |-> d, row |-> index - ends[d - 1]]
    BY <1>2, <1>4 DEF Stands
  <2>2. WalkStep(rows, at, k) = at
    BY <2>1 DEF WalkStep
  <2>3. d \in 1..k /\ index < ends[k]
    BY <1>1, <1>2, <1>3, <1>4
  <2>4. QED
    BY <2>1, <2>2, <2>3 DEF Stands
<1>5. CASE ~(index < e)
  <2>1. at = [dataset |-> 0, row |-> index - e]
    BY <1>2, <1>5 DEF Stands
  <2>2. PICK left \in Nat : left = index - e
    BY <1>5
  <2>3. CASE left < r
    <3>1. WalkStep(rows, at, k) = [dataset |-> k, row |-> left]
      BY <1>1, <2>1, <2>2, <2>3 DEF WalkStep
    <3>2. index < ends[k] /\ ends[k - 1] <= index /\ k \in 1..k
      <4>1. e <= index /\ index < e + r
        BY <1>5, <2>2, <2>3
      <4>2. QED
        BY <1>2, <1>3, <4>1
    <3>3. QED
      BY <1>2, <2>2, <3>1, <3>2 DEF Stands
  <2>4. CASE ~(left < r)
    <3>1. WalkStep(rows, at, k) = [dataset |-> 0, row |-> left - r]
      BY <1>1, <2>1, <2>2, <2>4 DEF WalkStep
    <3>2. ~(index < ends[k]) /\ left - r = index - ends[k]
      BY <1>3, <2>2, <2>4
    <3>3. QED
      BY <3>1, <3>2 DEF Stands
  <2>5. QED
    BY <2>3, <2>4
<1>6. QED
  BY <1>4, <1>5

\* Walk finds the dataset an index falls into.
LEMMA WalkFinds ==
  ASSUME NEW rows \in Seq(Nat), NEW ends, Borders(ends, rows),
         NEW index \in Nat, index < ends[Len(rows)]
  PROVE  \E d \in 1..Len(rows) :
            /\ ends[d - 1] <= index /\ index < ends[d]
            /\ Schedule!Walk(rows, index) = [dataset |-> d, row |-> index - ends[d - 1]]
<1>1. PICK n \in Nat : n = Len(rows) /\ DOMAIN rows = 1..n
  OBVIOUS
<1>2. DOMAIN Domain(rows) = 1..n /\ \A k \in 1..n : Domain(rows)[k] = k
  BY <1>1 DEF Domain
<1> DEFINE base == [dataset |-> 0, row |-> index]
           step == [k \in 1..n |-> [at \in Places |-> WalkStep(rows, at, k)]]
<1>3. step \in [1..n -> [Places -> Places]] /\ base \in Places
  <2>1. \A k \in 1..n : \A at \in Places : WalkStep(rows, at, k) \in Places
    BY <1>1, WalkStepType
  <2>2. base \in Places
    BY DEF Places
  <2>3. QED
    BY <2>1, <2>2
<1>4. PICK g \in [SUBSET (1..n) -> Places] : FoldLaw(g, base, step, n)
  <2>1. n \in 0..n
    OBVIOUS
  <2> HIDE DEF step, base
  <2>2. QED
    BY <1>3, <2>1, FoldExists
<1>5. IsWalk(g, rows, index)
  <2>1. ASSUME NEW s \in SUBSET (1..n), s # {}
        PROVE  g[s] = WalkStep(rows, g[s \ {Greatest(s)}], Domain(rows)[Greatest(s)])
    <3>1. PICK k \in 1..n : k = Greatest(s)
      BY <2>1, GreatestIs
    <3>2. PICK t \in SUBSET (1..n) : t = s \ {k}
      OBVIOUS
    <3>3. g[s] = step[k][g[t]] /\ g[t] \in Places
      BY <1>4, <2>1, <3>1, <3>2 DEF FoldLaw
    <3>4. g[s] = WalkStep(rows, g[t], k)
      BY <3>3
    <3>5. QED
      BY <1>2, <3>1, <3>2, <3>4
  <2>2. g[{}] = base
    BY <1>4 DEF FoldLaw
  <2>3. \A s \in SUBSET (1..n) :
           g[s] = IF s = {} THEN base
                  ELSE WalkStep(rows, g[s \ {Greatest(s)}], Domain(rows)[Greatest(s)])
    BY <2>1, <2>2
  <2>4. g = [s \in SUBSET (1..n) |->
               IF s = {} THEN base
               ELSE WalkStep(rows, g[s \ {Greatest(s)}], Domain(rows)[Greatest(s)])]
    BY <1>4, <2>3
  <2>5. QED
    BY <1>2, <2>4 DEF IsWalk
<1> HIDE DEF step
<1>6. PICK f : f = CHOOSE h : IsWalk(h, rows, index)
  OBVIOUS
<1>7. IsWalk(f, rows, index) /\ Schedule!Walk(rows, index) = f[1..n]
  BY <1>2, <1>5, <1>6, WalkIs, Zenon
<1>8. \A s \in SUBSET (1..n) :
         f[s] = IF s = {} THEN base
                ELSE WalkStep(rows, f[s \ {Greatest(s)}], Domain(rows)[Greatest(s)])
  BY <1>2, <1>7 DEF IsWalk
<1>9. f[1..0] = base
  <2>1. 1..0 = {} /\ {} \in SUBSET (1..n)
    OBVIOUS
  <2>2. QED
    BY <1>8, <2>1
<1>10. ASSUME NEW k \in 1..n PROVE f[1..k] = WalkStep(rows, f[1..(k - 1)], k)
  <2>1. 1..k \in SUBSET (1..n)
    OBVIOUS
  <2>2. 1..k # {} /\ Greatest(1..k) = k /\ (1..k) \ {Greatest(1..k)} = 1..(k - 1)
    BY GreatestOfFirst
  <2>3. f[1..k] = WalkStep(rows, f[(1..k) \ {Greatest(1..k)}], Domain(rows)[Greatest(1..k)])
    BY <1>8, <2>1, <2>2
  <2>4. QED
    BY <1>2, <2>2, <2>3
<1>11. \A k \in 0..n : Stands(f[1..k], ends, index, k)
  <2> DEFINE B == {k \in 0..n : ~Stands(f[1..k], ends, index, k)}
  <2>1. SUFFICES ASSUME B # {} PROVE FALSE
    OBVIOUS
  <2>2. B \in SUBSET Nat
    OBVIOUS
  <2>3. PICK k \in B : \A j \in B : k <= j
    BY <2>1, <2>2, LeastNat
  <2>4. k \in 0..n /\ ~Stands(f[1..k], ends, index, k)
    OBVIOUS
  <2>5. k # 0
    <3>1. Stands(base, ends, index, 0)
      BY DEF Stands, Borders
    <3>2. QED
      BY <1>9, <2>4, <3>1
  <2>6. k \in 1..n /\ k - 1 \in 0..n /\ ~(k <= k - 1)
    BY <2>4, <2>5
  <2>7. Stands(f[1..(k - 1)], ends, index, k - 1)
    BY <2>3, <2>6
  <2> HIDE DEF B
  <2>8. Stands(WalkStep(rows, f[1..(k - 1)], k), ends, index, k)
    BY <1>1, <2>6, <2>7, WalkStepStands
  <2>9. QED
    BY <1>10, <2>4, <2>6, <2>8
<1>12. Stands(f[1..n], ends, index, n)
  BY <1>11
<1>13. QED
  BY <1>1, <1>7, <1>12 DEF Stands

\* The datasets follow each other.
LEMMA BordersGrow ==
  ASSUME NEW rows \in Seq(Nat), NEW ends, Borders(ends, rows),
         NEW b \in 0..Len(rows), NEW a \in 0..b
  PROVE  ends[a] <= ends[b]
<1> DEFINE B == {k \in 0..Len(rows) : k >= a /\ ~(ends[a] <= ends[k])}
<1>1. SUFFICES ASSUME B # {} PROVE FALSE
  OBVIOUS
<1>2. B \in SUBSET Nat
  OBVIOUS
<1>3. PICK k \in B : \A j \in B : k <= j
  BY <1>1, <1>2, LeastNat
<1>4. k \in 0..Len(rows) /\ k >= a /\ ~(ends[a] <= ends[k])
  OBVIOUS
<1>5. k # a
  <2>1. ends[a] \in Nat
    BY DEF Borders
  <2>2. QED
    BY <1>4, <2>1
<1>6. k \in 1..Len(rows) /\ k - 1 \in 0..Len(rows) /\ k - 1 >= a /\ ~(k <= k - 1)
  BY <1>4, <1>5
<1>7. ends[a] <= ends[k - 1]
  BY <1>3, <1>6
<1>8. ends[k] = ends[k - 1] + rows[k] /\ rows[k] \in Nat
  BY <1>6 DEF Borders
<1>9. ends[k - 1] \in Nat /\ ends[a] \in Nat
  <2>1. a \in 0..Len(rows) /\ k - 1 \in 0..Len(rows)
    BY <1>6
  <2>2. ends \in [0..Len(rows) -> Nat]
    BY DEF Borders
  <2>3. QED
    BY <2>1, <2>2
<1> HIDE DEF B
<1>10. PICK x \in Nat, y \in Nat, z \in Nat : x = ends[a] /\ y = ends[k - 1] /\ z = rows[k]
  BY <1>8, <1>9
<1>11. ends[k] = y + z /\ x <= y /\ ~(x <= y + z)
  BY <1>4, <1>7, <1>8, <1>10
<1>12. QED
  BY <1>10, <1>11

-----------------------------------------------------------------------------
(* Joining sequences, and counting modulo a total                          *)

\* Remainders: what they are, that they are unique, and of a sum.
LEMMA ModIs ==
  ASSUME NEW a \in Nat, NEW t \in Nat \ {0}
  PROVE  a % t \in 0..(t - 1) /\ a = t * (a \div t) + (a % t) /\ a \div t \in Nat
OBVIOUS
LEMMA ModUnique ==
  ASSUME NEW t \in Nat \ {0}, NEW q \in Nat, NEW r \in 0..(t - 1), NEW a \in Nat, a = t * q + r
  PROVE  a % t = r
OBVIOUS
LEMMA ModAdd ==
  ASSUME NEW h \in Nat, NEW x \in Nat, NEW t \in Nat \ {0}
  PROVE  ((h % t) + x) % t = (h + x) % t
<1>1. PICK q \in Nat, r \in 0..(t - 1) : q = h \div t /\ r = h % t /\ h = t * q + r
  BY ModIs
<1>2. PICK p \in Nat, s \in 0..(t - 1) : p = (r + x) \div t /\ s = (r + x) % t /\ r + x = t * p + s
  BY ModIs
<1>3. PICK u \in Nat : u = q + p
  OBVIOUS
<1>4. t * u = t * q + t * p
  BY <1>3
<1>5. PICK a \in Nat, b \in Nat, c \in Nat : a = t * q /\ b = t * p /\ c = t * u
  BY <1>3
<1>6. h + x = c + s
  BY <1>1, <1>2, <1>4, <1>5
<1>7. PICK y \in Nat : y = h + x
  OBVIOUS
<1>8. y % t = s
  <2>1. y = t * u + s
    BY <1>5, <1>6, <1>7
  <2>2. QED
    BY <2>1, ModUnique
<1>9. QED
  BY <1>1, <1>2, <1>7, <1>8, Zenon

\* A sequence that begins with a and goes on with b joins them.
LEMMA Joins ==
  ASSUME NEW S, NEW a \in Seq(S), NEW b \in Seq(S), NEW c \in Seq(S),
         Len(c) = Len(a) + Len(b),
         \A i \in 1..Len(a) : c[i] = a[i], \A i \in 1..Len(b) : c[Len(a) + i] = b[i]
  PROVE  a \o b = c
<1>1. PICK l \in Nat, m \in Nat : l = Len(a) /\ m = Len(b)
  OBVIOUS
<1>2. PICK z \in Seq(S) : z = a \o b
  BY ConcatProperties
<1>3. Len(z) = l + m /\ \A i \in 1..(l + m) : z[i] = IF i <= l THEN a[i] ELSE b[i - l]
  BY <1>1, <1>2, ConcatProperties
<1>4. ASSUME NEW i \in 1..(l + m) PROVE z[i] = c[i]
  <2>1. CASE i <= l
    <3>1. i \in 1..l
      BY <2>1
    <3>2. QED
      BY <1>1, <1>3, <2>1, <3>1
  <2>2. CASE ~(i <= l)
    <3>1. PICK j \in 1..m : j = i - l /\ l + j = i
      <4>1. i - l \in 1..m
        BY <2>2
      <4>2. l + (i - l) = i
        OBVIOUS
      <4>3. QED
        BY <4>1, <4>2, Zenon
    <3>2. \A x \in 1..m : c[l + x] = b[x]
      BY <1>1
    <3>3. c[l + j] = b[j]
      BY <3>2
    <3>4. z[i] = b[i - l]
      BY <1>3, <2>2
    <3>5. QED
      BY <3>1, <3>3, <3>4
  <2>3. QED
    BY <2>1, <2>2
<1>5. Len(z) = Len(c) /\ \A i \in 1..Len(z) : z[i] = c[i]
  BY <1>1, <1>3, <1>4
<1>6. z = c
  BY <1>5, SeqEqual
<1>7. QED
  BY <1>2, <1>6

\* Its first e elements.
LEMMA FirstOf ==
  ASSUME NEW S, NEW s \in Seq(S), NEW e \in 0..Len(s)
  PROVE  /\ SubSeq(s, 1, e) \in Seq(S) /\ Len(SubSeq(s, 1, e)) = e
         /\ \A i \in 1..e : SubSeq(s, 1, e)[i] = s[i]
<1>1. \A i \in 1..e : s[i] \in S
  BY ElementOfSeq
<1>2. e \in Int /\ 1 \in Int
  OBVIOUS
<1>3. /\ SubSeq(s, 1, e) \in Seq(S)
      /\ Len(SubSeq(s, 1, e)) = IF 1 <= e THEN e - 1 + 1 ELSE 0
      /\ \A i \in 1..e - 1 + 1 : SubSeq(s, 1, e)[i] = s[1 + i - 1]
  BY <1>1, <1>2, SubSeqProperties
<1>4. QED
  BY <1>3

\* Joining ss one after the other.
LEMMA Flat ==
  ASSUME NEW S, NEW ss \in Seq(Seq(S)), NEW ends \in [0..Len(ss) -> Nat], ends[0] = 0,
         \A k \in 1..Len(ss) : ends[k] = ends[k - 1] + Len(ss[k]),
         NEW flat \in Seq(S), Len(flat) = ends[Len(ss)],
         \A k \in 1..Len(ss) : ends[k] <= Len(flat),
         \A k \in 1..Len(ss) : \A i \in 1..Len(ss[k]) : flat[ends[k - 1] + i] = ss[k][i]
  PROVE  Schedule!FlattenSeq(ss) = flat
<1>1. PICK n \in Nat : n = Len(ss)
  OBVIOUS
<1>2. CASE n = 0
  <2>1. ss = << >>
    BY <1>1, <1>2, EmptySeq
  <2>2. flat = << >>
    <3>1. Len(flat) = 0
      BY <1>1, <1>2
    <3>2. QED
      BY <3>1
  <2>3. QED
    BY <1>1, <1>2, <2>1, <2>2 DEF Schedule!FlattenSeq
<1>3. CASE n # 0
  <2> DEFINE w == [k \in 1..n |-> SubSeq(flat, 1, ends[k])]
  <2>0. /\ \A k \in 1..n : ss[k] \in Seq(S) /\ Len(ss[k]) \in Nat
        /\ \A k \in 0..n : ends[k] \in Nat
        /\ Len(flat) \in Nat
    <3>1. \A k \in 1..n : ss[k] \in Seq(S)
      BY <1>1
    <3>2. ASSUME NEW k \in 1..n PROVE Len(ss[k]) \in Nat
      <4>1. PICK b \in Seq(S) : b = ss[k]
        BY <3>1
      <4>2. QED
        BY <4>1
    <3>3. \A k \in 0..n : ends[k] \in Nat
      BY <1>1
    <3>4. Len(flat) \in Nat
      OBVIOUS
    <3>5. QED
      BY <3>1, <3>2, <3>3, <3>4
  <2>1. \A k \in 1..n : /\ w[k] \in Seq(S) /\ Len(w[k]) = ends[k]
                        /\ \A i \in 1..ends[k] : w[k][i] = flat[i]
    <3>1. SUFFICES ASSUME NEW k \in 1..n
                   PROVE  /\ SubSeq(flat, 1, ends[k]) \in Seq(S)
                          /\ Len(SubSeq(flat, 1, ends[k])) = ends[k]
                          /\ \A i \in 1..ends[k] : SubSeq(flat, 1, ends[k])[i] = flat[i]
      OBVIOUS
    <3>2. ends[k] \in 0..Len(flat)
      BY <1>1, <2>0
    <3>3. QED
      BY <3>2, FirstOf
  <2>2. ASSUME NEW k \in 1..n
        PROVE  w[k] = IF k = 1 THEN ss[k] ELSE w[k - 1] \o ss[k]
    <3>1. PICK b \in Seq(S) : b = ss[k]
      BY <2>0
    <3>2. PICK e \in Nat, d \in Nat, l \in Nat : e = ends[k] /\ d = ends[k - 1] /\ l = Len(b)
      BY <2>0, <3>1
    <3>3. e = d + l
      BY <1>1, <3>1, <3>2
    <3>4. PICK c \in Seq(S) : c = w[k]
      BY <2>1
    <3>5. Len(c) = e /\ \A i \in 1..e : c[i] = flat[i]
      BY <2>1, <3>2, <3>4
    <3>6. \A i \in 1..l : flat[d + i] = b[i]
      BY <1>1, <3>1, <3>2
    <3> HIDE DEF w
    <3>7. CASE k = 1
      <4>1. d = 0 /\ e = l
        BY <3>2, <3>3, <3>7
      <4>2. \A i \in 1..l : d + i = i
        BY <4>1
      <4>3. Len(c) = Len(b) /\ \A i \in 1..Len(c) : c[i] = b[i]
        BY <3>2, <3>5, <3>6, <4>1, <4>2
      <4>4. c = b
        BY <4>3, SeqEqual
      <4>5. QED
        BY <3>1, <3>4, <3>7, <4>4
    <3>8. CASE k # 1
      <4>1. PICK j \in 1..n : j = k - 1
        BY <3>8
      <4>2. PICK a \in Seq(S) : a = w[j]
        BY <2>1
      <4>3. Len(a) = d /\ \A i \in 1..d : a[i] = flat[i]
        BY <2>1, <3>2, <4>1, <4>2
      <4>4. Len(c) = Len(a) + Len(b)
        BY <3>2, <3>3, <3>5, <4>3
      <4>5. \A i \in 1..Len(a) : c[i] = a[i]
        <5>1. \A i \in 1..d : i \in 1..e
          BY <3>3
        <5>2. QED
          BY <3>5, <4>3, <5>1
      <4>6. \A i \in 1..Len(b) : c[Len(a) + i] = b[i]
        <5>1. \A i \in 1..l : d + i \in 1..e
          BY <3>3
        <5>2. QED
          BY <3>2, <3>5, <3>6, <4>3, <5>1
      <4>7. a \o b = c
        BY <4>4, <4>5, <4>6, Joins
      <4>8. QED
        BY <3>1, <3>4, <3>8, <4>1, <4>2, <4>7
    <3>9. QED
      BY <3>7, <3>8
  <2>3. Joined(w, ss, n)
    <3>1. w = [k \in 1..n |-> w[k]]
      OBVIOUS
    <3> HIDE DEF w
    <3>2. w = [k \in 1..n |-> IF k = 1 THEN ss[k] ELSE w[k - 1] \o ss[k]]
      BY <2>2, <3>1
    <3>3. QED
      BY <3>2 DEF Joined
  <2>4. w[n] = flat
    <3>1. ends[n] = Len(flat) /\ n \in 1..n
      BY <1>1, <1>3
    <3>2. w[n] = SubSeq(flat, 1, Len(flat))
      BY <3>1
    <3>3. QED
      BY <3>2, SubSeqFull
  <2> HIDE DEF w
  <2>5. PICK f : f = CHOOSE g : Joined(g, ss, n)
    OBVIOUS
  <2>6. Joined(f, ss, n)
    BY <2>3, <2>5, Zenon
  <2>7. Schedule!FlattenSeq(ss) = f[n]
    <3>1. Len(ss) # 0
      BY <1>1, <1>3
    <3>2. Schedule!FlattenSeq(ss) = (CHOOSE g : Joined(g, ss, Len(ss)))[Len(ss)]
      BY <3>1, FlattenIs
    <3>3. QED
      BY <1>1, <2>5, <3>2, Zenon
  <2>8. \A k \in 1..n : f[k] = w[k]
    <3> DEFINE B == {k \in 1..n : f[k] # w[k]}
    <3>1. SUFFICES ASSUME B # {} PROVE FALSE
      OBVIOUS
    <3>2. B \in SUBSET Nat
      OBVIOUS
    <3>3. PICK k \in B : \A j \in B : k <= j
      BY <3>1, <3>2, LeastNat
    <3>4. k \in 1..n /\ f[k] # w[k]
      OBVIOUS
    <3>5. f[k] = IF k = 1 THEN ss[k] ELSE f[k - 1] \o ss[k]
      BY <2>6, <3>4 DEF Joined
    <3>6. CASE k = 1
      BY <2>2, <3>4, <3>5, <3>6
    <3>7. CASE k # 1
      <4>1. k - 1 \in 1..n /\ ~(k <= k - 1)
        BY <3>4, <3>7
      <4>2. f[k - 1] = w[k - 1]
        BY <3>3, <4>1
      <4>3. QED
        BY <2>2, <3>4, <3>5, <3>7, <4>2
    <3>8. QED
      BY <3>6, <3>7
  <2>9. QED
    BY <1>3, <2>4, <2>7, <2>8
<1>4. QED
  BY <1>2, <1>3

-----------------------------------------------------------------------------
(* A batch                                                                 *)

Refs == Nat \X Nat

\* The ref of a row, counted from the first of all datasets.
Found(rows, j) == <<Schedule!Walk(rows, j).dataset, Schedule!Walk(rows, j).row>>

\* The i-th row of the k-th dataset is found where the datasets before it end.
LEMMA FoundIn ==
  ASSUME NEW rows \in Seq(Nat), NEW ends, Borders(ends, rows), NEW k \in 1..Len(rows),
         NEW i \in 1..rows[k]
  PROVE  /\ ends[k - 1] + i - 1 \in Nat /\ ends[k - 1] + i - 1 < ends[Len(rows)]
         /\ Found(rows, ends[k - 1] + i - 1) = <<k, i - 1>>
<1>1. PICK n \in Nat : n = Len(rows)
  OBVIOUS
<1>2. \A m \in 0..n : ends[m] \in Nat
  BY <1>1 DEF Borders
<1>3. PICK e \in Nat, r \in Nat : e = ends[k - 1] /\ r = rows[k] /\ ends[k] = e + r
  <2>1. k - 1 \in 0..n
    BY <1>1
  <2>2. rows[k] \in Nat /\ ends[k] = ends[k - 1] + rows[k]
    BY DEF Borders
  <2>3. QED
    BY <1>2, <2>1, <2>2
<1>4. PICK index \in Nat : index = e + i - 1
  BY <1>3
<1>5. e <= index /\ index < e + r /\ index - e = i - 1
  <2>1. i \in 1..r
    BY <1>3
  <2>2. QED
    BY <1>4, <2>1
<1>6. index < ends[n]
  <2>1. n \in 0..Len(rows) /\ k \in 0..n
    BY <1>1
  <2>2. ends[k] <= ends[n]
    BY <2>1, BordersGrow
  <2>3. PICK f \in Nat : f = ends[n]
    BY <1>2
  <2>4. e + r <= f
    BY <1>3, <2>2, <2>3
  <2>5. QED
    BY <1>5, <2>3, <2>4
<1>7. PICK d \in 1..n : /\ ends[d - 1] <= index /\ index < ends[d]
                        /\ Schedule!Walk(rows, index) = [dataset |-> d, row |-> index - ends[d - 1]]
  BY <1>1, <1>6, WalkFinds
<1>8. d = k
  <2>1. ~(d < k)
    <3>1. SUFFICES ASSUME d < k PROVE FALSE
      OBVIOUS
    <3>2. k - 1 \in 0..Len(rows) /\ d \in 0..(k - 1)
      BY <1>1, <3>1
    <3>3. ends[d] <= ends[k - 1]
      BY <3>2, BordersGrow
    <3>4. PICK f \in Nat : f = ends[d]
      BY <1>2
    <3>5. QED
      BY <1>3, <1>5, <1>7, <3>3, <3>4
  <2>2. ~(k < d)
    <3>1. SUFFICES ASSUME k < d PROVE FALSE
      OBVIOUS
    <3>2. d - 1 \in 0..Len(rows) /\ k \in 0..(d - 1)
      BY <1>1, <3>1
    <3>3. ends[k] <= ends[d - 1]
      BY <3>2, BordersGrow
    <3>4. PICK f \in Nat : f = ends[d - 1]
      BY <1>1, <1>2, <3>2
    <3>5. e + r <= f
      BY <1>3, <3>3, <3>4
    <3>6. f <= index
      BY <1>7, <3>4
    <3>7. QED
      BY <1>5, <3>5, <3>6
  <2>3. QED
    BY <1>1, <2>1, <2>2
<1>9. Found(rows, index) = <<k, i - 1>>
  BY <1>3, <1>5, <1>7, <1>8 DEF Found
<1>10. QED
  BY <1>1, <1>3, <1>4, <1>6, <1>9

\* Walk gives the rows of the concatenated datasets one by one.
LEMMA ConcatenatedIs ==
  ASSUME NEW rows \in Seq(Nat)
  PROVE  /\ Schedule!Total(rows) \in Nat
         /\ Len(Schedule!Concatenated(rows)) = Schedule!Total(rows)
         /\ \A j \in 0..(Schedule!Total(rows) - 1) :
               /\ Schedule!Walk(rows, j).dataset # 0
               /\ Found(rows, j) \in Refs
               /\ Schedule!Concatenated(rows)[j + 1] = Found(rows, j)
<1>1. PICK n \in Nat : n = Len(rows) /\ DOMAIN rows = 1..n
  OBVIOUS
<1>2. PICK ends : Borders(ends, rows) /\ Schedule!Total(rows) = ends[n]
  BY <1>1, TotalBorders
<1>3. PICK T \in Nat : T = Schedule!Total(rows)
  BY <1>1, <1>2 DEF Borders
<1>4. ASSUME NEW j \in 0..(T - 1)
      PROVE  Schedule!Walk(rows, j).dataset # 0 /\ Found(rows, j) \in Refs
  <2>1. j \in Nat /\ j < ends[Len(rows)]
    BY <1>1, <1>2, <1>3
  <2>2. PICK d \in 1..n : /\ ends[d - 1] <= j
                          /\ Schedule!Walk(rows, j) = [dataset |-> d, row |-> j - ends[d - 1]]
    BY <1>1, <1>2, <2>1, WalkFinds
  <2>3. ends[d - 1] \in Nat
    <3>1. d - 1 \in 0..Len(rows)
      BY <1>1
    <3>2. QED
      BY <1>2, <3>1 DEF Borders
  <2>4. j - ends[d - 1] \in Nat
    BY <2>1, <2>2, <2>3
  <2>5. QED
    BY <2>2, <2>4 DEF Found, Refs
<1> DEFINE ss == [k \in 1..n |-> [i \in 1..rows[k] |-> <<k, i - 1>>]]
           flat == [j \in 1..T |-> Found(rows, j - 1)]
<1>5. flat \in Seq(Refs) /\ Len(flat) = T
  <2>1. \A j \in 1..T : Found(rows, j - 1) \in Refs
    BY <1>4
  <2>2. QED
    BY <2>1
<1>6. \A k \in 1..n : /\ rows[k] \in Nat /\ ss[k] \in Seq(Refs) /\ Len(ss[k]) = rows[k]
                      /\ \A i \in 1..rows[k] : ss[k][i] = <<k, i - 1>>
  <2>1. SUFFICES ASSUME NEW k \in 1..n
                 PROVE  /\ rows[k] \in Nat
                        /\ [i \in 1..rows[k] |-> <<k, i - 1>>] \in Seq(Refs)
                        /\ Len([i \in 1..rows[k] |-> <<k, i - 1>>]) = rows[k]
    OBVIOUS
  <2>2. PICK r \in Nat : r = rows[k]
    BY <1>1
  <2>3. \A i \in 1..r : <<k, i - 1>> \in Refs
    BY DEF Refs
  <2>4. [i \in 1..r |-> <<k, i - 1>>] \in Seq(Refs) /\ Len([i \in 1..r |-> <<k, i - 1>>]) = r
    BY <2>3
  <2>5. QED
    BY <2>2, <2>4
<1>7. ss \in Seq(Seq(Refs)) /\ Len(ss) = n
  BY <1>6
<1>8. Schedule!Concatenated(rows) = Schedule!FlattenSeq(ss)
  BY <1>1 DEF Schedule!Concatenated
<1>9. Schedule!FlattenSeq(ss) = flat
  <2>1. ends \in [0..Len(ss) -> Nat] /\ ends[0] = 0
    BY <1>1, <1>2, <1>7 DEF Borders
  <2>2. \A k \in 1..Len(ss) : ends[k] = ends[k - 1] + Len(ss[k])
    BY <1>1, <1>2, <1>6, <1>7 DEF Borders
  <2>3. Len(flat) = ends[Len(ss)]
    BY <1>1, <1>2, <1>3, <1>5, <1>7
  <2>4. \A k \in 1..Len(ss) : ends[k] <= Len(flat)
    <3>1. SUFFICES ASSUME NEW k \in 1..n PROVE ends[k] <= ends[n]
      BY <1>2, <1>3, <1>5, <1>7
    <3>2. n \in 0..Len(rows) /\ k \in 0..n
      BY <1>1
    <3>3. QED
      BY <1>2, <3>2, BordersGrow
  <2>5. ASSUME NEW k \in 1..Len(ss), NEW i \in 1..Len(ss[k])
        PROVE  flat[ends[k - 1] + i] = ss[k][i]
    <3>1. k \in 1..Len(rows) /\ k \in 1..n /\ i \in 1..rows[k]
      BY <1>1, <1>6, <1>7
    <3>2. PICK j \in Nat : j = ends[k - 1] + i - 1 /\ j < T /\ Found(rows, j) = <<k, i - 1>>
      BY <1>1, <1>2, <1>3, <3>1, FoundIn
    <3>3. PICK e \in Nat : e = ends[k - 1]
      <4>1. k - 1 \in 0..Len(rows)
        BY <3>1
      <4>2. QED
        BY <1>2, <4>1 DEF Borders
    <3>4. j + 1 \in 1..T /\ (j + 1) - 1 = j /\ ends[k - 1] + i = j + 1
      <4>1. PICK m \in Nat : m = i
        BY <3>1
      <4>2. j = e + m - 1 /\ j < T
        BY <3>2, <3>3, <4>1
      <4>3. j + 1 \in 1..T /\ (j + 1) - 1 = j
        BY <4>2
      <4>4. e + m = j + 1
        BY <4>2
      <4>5. QED
        BY <3>3, <4>1, <4>3, <4>4
    <3>5. flat[j + 1] = Found(rows, j)
      BY <3>4
    <3>6. QED
      BY <1>6, <3>1, <3>2, <3>4, <3>5
  <2> HIDE DEF ss, flat
  <2>6. QED
    BY <1>5, <1>7, <2>1, <2>2, <2>3, <2>4, <2>5, Flat
<1>10. ASSUME NEW j \in 0..(T - 1) PROVE flat[j + 1] = Found(rows, j)
  <2>1. j + 1 \in 1..T /\ (j + 1) - 1 = j
    OBVIOUS
  <2>2. QED
    BY <2>1
<1> HIDE DEF ss, flat
<1>11. QED
  BY <1>3, <1>4, <1>5, <1>8, <1>9, <1>10

\* A batch is made of sequences of one ref.
LEMMA OneElement ==
  ASSUME NEW S, NEW x \in S
  PROVE  << x >> \in Seq(S) /\ Len(<< x >>) = 1 /\ << x >>[1] = x
OBVIOUS

\* n rows of the cyclic concatenation all.
CyclicRows(all, n, shift, from) ==
    [i \in 1..n |-> all[((shift + from + i - 1) % Len(all)) + 1]]

\* Taken gives the next n rows of the cyclic concatenation.
LEMMA TakenIs ==
  ASSUME NEW rows \in Seq(Nat), Schedule!Total(rows) # 0,
         NEW n \in Nat, NEW shift \in Nat, NEW from \in Nat
  PROVE  Schedule!Taken(rows, n, shift, from) =
            CyclicRows(Schedule!Concatenated(rows), n, shift, from)
<1>1. PICK T \in Nat \ {0} : T = Schedule!Total(rows) /\ T = Len(Schedule!Concatenated(rows))
  BY ConcatenatedIs
<1>2. ASSUME NEW i \in 1..n
      PROVE  /\ ((shift % T) + from + i - 1) % T \in 0..(T - 1)
             /\ ((shift % T) + from + i - 1) % T = (shift + from + i - 1) % T
  <2>1. PICK x \in Nat : x = from + i - 1
    OBVIOUS
  <2>2. (shift % T) + from + i - 1 = (shift % T) + x /\ shift + from + i - 1 = shift + x
    <3>1. shift % T \in Nat
      BY ModIs
    <3>2. QED
      BY <2>1, <3>1
  <2>3. ((shift % T) + x) % T = (shift + x) % T
    BY ModAdd
  <2>4. PICK y \in Nat : y = shift + x
    OBVIOUS
  <2>5. y % T \in 0..(T - 1)
    BY ModIs
  <2>6. QED
    BY <2>2, <2>3, <2>4, <2>5
<1> DEFINE at(i) == Schedule!Walk(rows, ((shift % T) + from + i - 1) % T)
           ss == [i \in 1..n |-> IF at(i).dataset = 0 THEN << >>
                                 ELSE << <<at(i).dataset, at(i).row>> >>]
           flat == [i \in 1..n |-> Found(rows, (shift + from + i - 1) % T)]
           ends == [k \in 0..n |-> k]
<1>3. Schedule!Taken(rows, n, shift, from) = Schedule!FlattenSeq(ss)
  BY <1>1 DEF Schedule!Taken
<1>4. ASSUME NEW i \in 1..n
      PROVE  flat[i] \in Refs /\ at(i).dataset # 0 /\ <<at(i).dataset, at(i).row>> = flat[i]
  <2>1. PICK j \in 0..(T - 1) : /\ j = ((shift % T) + from + i - 1) % T
                                /\ j = (shift + from + i - 1) % T
    BY <1>2
  <2>2. Schedule!Walk(rows, j).dataset # 0 /\ Found(rows, j) \in Refs
    BY <1>1, ConcatenatedIs
  <2>3. flat[i] = Found(rows, j)
    BY <2>1
  <2>4. at(i) = Schedule!Walk(rows, j)
    BY <2>1
  <2>5. QED
    BY <2>2, <2>3, <2>4 DEF Found
<1> HIDE DEF at
<1>5. \A i \in 1..n : ss[i] = <<flat[i]>>
  <2>1. \A i \in 1..n : ss[i] = IF at(i).dataset = 0 THEN << >>
                                 ELSE << <<at(i).dataset, at(i).row>> >>
    OBVIOUS
  <2> HIDE DEF ss, flat
  <2>2. QED
    BY <1>4, <2>1
<1>6. flat \in Seq(Refs) /\ Len(flat) = n
  <2>1. flat \in [1..n -> Refs]
    BY <1>4
  <2> HIDE DEF flat
  <2>2. QED
    BY <2>1
<1>7. ss \in Seq(Seq(Refs)) /\ Len(ss) = n
  <2>1. \A i \in 1..n : ss[i] \in Seq(Refs)
    <3> HIDE DEF ss, flat
    <3>1. SUFFICES ASSUME NEW i \in 1..n PROVE ss[i] \in Seq(Refs)
      OBVIOUS
    <3>2. flat[i] \in Refs /\ ss[i] = <<flat[i]>>
      BY <1>4, <1>5
    <3>3. QED
      BY <3>2, OneElement
  <2>2. ss \in [1..n -> Seq(Refs)]
    BY <2>1
  <2> HIDE DEF ss
  <2>3. QED
    BY <2>2
<1>8. Schedule!FlattenSeq(ss) = flat
  <2>1. \A k \in 1..n : Len(ss[k]) = 1 /\ ss[k][1] = flat[k]
    <3> HIDE DEF ss, flat
    <3>1. QED
      BY <1>4, <1>5, OneElement
  <2>2. ends \in [0..Len(ss) -> Nat] /\ ends[0] = 0 /\ ends[n] = n
    BY <1>7
  <2>3. \A k \in 1..n : ends[k] = k /\ ends[k - 1] = k - 1
    OBVIOUS
  <2> HIDE DEF ss, flat, ends
  <2>4. \A k \in 1..Len(ss) : ends[k] = ends[k - 1] + Len(ss[k])
    <3>1. SUFFICES ASSUME NEW k \in 1..n PROVE ends[k] = ends[k - 1] + Len(ss[k])
      BY <1>7
    <3>2. Len(ss[k]) = 1 /\ ends[k] = k /\ ends[k - 1] = k - 1
      BY <2>1, <2>3
    <3>3. QED
      BY <3>2
  <2>5. Len(flat) = ends[Len(ss)] /\ \A k \in 1..Len(ss) : ends[k] <= Len(flat)
    BY <1>6, <1>7, <2>2, <2>3
  <2>6. \A k \in 1..Len(ss) : \A i \in 1..Len(ss[k]) : flat[ends[k - 1] + i] = ss[k][i]
    <3>1. SUFFICES ASSUME NEW k \in 1..n, NEW i \in 1..Len(ss[k])
                   PROVE  flat[ends[k - 1] + i] = ss[k][i]
      BY <1>7
    <3>2. Len(ss[k]) = 1 /\ ends[k - 1] = k - 1
      BY <2>1, <2>3
    <3>3. i = 1
      BY <3>1, <3>2
    <3>4. ends[k - 1] + i = k
      BY <3>2, <3>3
    <3>5. QED
      BY <2>1, <3>3, <3>4
  <2>7. QED
    BY <1>6, <1>7, <2>2, <2>4, <2>5, <2>6, Flat
<1>9. ASSUME NEW i \in 1..n
      PROVE  flat[i] = Schedule!Concatenated(rows)[((shift + from + i - 1) % T) + 1]
  <2>1. PICK j \in 0..(T - 1) : j = (shift + from + i - 1) % T
    BY <1>2
  <2>2. Schedule!Concatenated(rows)[j + 1] = Found(rows, j)
    BY <1>1, ConcatenatedIs
  <2>3. QED
    BY <2>1, <2>2
<1>10. flat = [i \in 1..n |-> Schedule!Concatenated(rows)[((shift + from + i - 1) % T) + 1]]
  BY <1>9
<1>11. QED
  BY <1>1, <1>3, <1>8, <1>10 DEF CyclicRows

-----------------------------------------------------------------------------
(* What a coordinator has in memory, and what a checkpoint says            *)

\* What a coordinator of the run has in memory is what its checkpoint says.
DataInv(c) ==
    /\ phase[c] \notin {"none", "blocked"} => sampler[c] = Latest(parent[c])
    /\ Working(phase[c]) => Follows(Latest(parent[c]), prepared[c])
    /\ phase[c] = "trained" =>
          /\ learned[Len(parent[c]) + 1] # 0
          /\ \A k \in checkpoints : Len(k) # Len(parent[c]) + 1
    /\ phase[c] = "saved" => receipts[pin[c]] = prepared[c]

DInv ==
    /\ run \in RunRecords
    /\ DOMAIN sampler = Processes /\ DOMAIN prepared = Processes
    /\ \A k \in checkpoints : Len(k) \in Steps /\ learned[Len(k)] # 0
    /\ \A c \in Processes : DataInv(c)

\* Each operation of a continual run is one of the run.
LEMMA ContinualSteps == [ContinualNext]_continualVars => [Next]_vars
<1>1. ASSUME NEW c \in Processes,
             Begins(c) \/ Ends(c) \/ Prepares(c) \/ Learns(c) \/ Saves(c) \/ Commits(c)
      PROVE  Next
  <2>1. \/ StartRun(c) \/ Restore(c) \/ Close(c) \/ Crash(c)
        \/ TrainIntent(c) \/ TrainLearn(c) \/ TrainSave(c) \/ TrainCommit(c)
    BY <1>1 DEF Begins, Ends, Prepares, Learns, Saves, Commits
  <2>2. QED
    BY <2>1 DEF Next
<1>2. CASE Others
  BY <1>2 DEF Others, Next
<1>3. CASE UNCHANGED continualVars
  BY <1>3 DEF continualVars
<1>4. QED
  BY <1>1, <1>2, <1>3 DEF ContinualNext

\* The receipt of a step depends on the hashes of the run only.
FollowsIn(hashes, before, receipt) ==
    \E added \in Additions \cup {<< >>} :
        /\ Schedule!Admissible(before.catalog, added, before.state)
        /\ receipt = [catalog |-> Schedule!Enlarged(before.catalog, added),
                      state   |-> Schedule!Advanced(before.state),
                      batch   |-> Schedule!Drawn(Schedule!Enlarged(before.catalog, added),
                                                 hashes, before.state)]

\* Follows is that relation, for the hashes of the run record.
LEMMA FollowsIs ==
  ASSUME NEW before, NEW receipt
  PROVE  Follows(before, receipt) <=> FollowsIn(run.hash, before, receipt)
BY DEF Follows, FollowsIn, SamplingTransition

\* A prepared step stays one while its parent and the run record do.
LEMMA FollowsKept ==
  ASSUME NEW c, run' = run, Follows(Latest(parent[c]), prepared[c]),
         Latest(parent[c])' = Latest(parent[c]), prepared'[c] = prepared[c]
  PROVE  Follows(Latest(parent[c]), prepared[c])'
<1>1. FollowsIn(run.hash, Latest(parent[c]), prepared[c])
  BY FollowsIs
<1>2. Follows(Latest(parent[c]), prepared[c])'
         <=> FollowsIn(run'.hash, Latest(parent[c])', prepared'[c])
  BY DEF Follows, FollowsIn, SamplingTransition
<1>3. QED
  BY <1>1, <1>2

\* Without a new checkpoint the receipts stay.
LEMMA LatestKept ==
  ASSUME UNCHANGED <<run, receipts>>, NEW k
  PROVE  Latest(k)' = Latest(k)
BY DEF Latest, Seed

\* What a step does not touch.
LEMMA DataKept ==
  ASSUME NEW d, DataInv(d),
         phase'[d] = phase[d], parent'[d] = parent[d], pin'[d] = pin[d],
         sampler'[d] = sampler[d], prepared'[d] = prepared[d],
         UNCHANGED <<run, receipts, checkpoints, learned>>
  PROVE  DataInv(d)'
<1>1. Latest(parent[d])' = Latest(parent[d])
  BY DEF Latest, Seed
<1>2. Working(phase[d])' <=> Working(phase[d])
  BY DEF Working
<1>3. Working(phase[d]) => Follows(Latest(parent[d]), prepared[d])'
  BY <1>1, FollowsKept DEF DataInv
<1>4. QED
  BY <1>1, <1>2, <1>3 DEF DataInv

\* Nobody else works while one works or begins.
LEMMA OthersHaveNone ==
  ASSUME LeaseInv, NEW c \in Processes, phase[c] # "none" \/ lease = None,
         \A d \in Processes \ {c} : phase'[d] = phase[d]
  PROVE  \A d \in Processes \ {c} : DataInv(d)'
<1>1. TAKE d \in Processes \ {c}
<1>2. phase'[d] = "none"
  BY <1>1, LearnerAssumption DEF LeaseInv
<1>3. QED
  BY <1>2 DEF DataInv, Working

\* Starting and restoring take the state of the checkpoint they begin at.
LEMMA BeginsData ==
  ASSUME IInv, DInv, NEW c \in Processes, Begins(c)
  PROVE  DInv'
<1>1. /\ phase[c] = "none" /\ lease = None
      /\ UNCHANGED <<run, prepared, receipts, checkpoints, learned>>
      /\ phase' = phase \/ phase' = [phase EXCEPT ![c] = "idle"]
  BY DEF Begins, StartRun, Restore, Begin, BeginFails, LeaseFree, To, store
<1>2. \A d \in Processes \ {c} : phase'[d] = phase[d]
  BY <1>1 DEF IInv, DiskInv, TypeOK
<1>3. phase'[c] \in {"none", "idle"}
  BY <1>1 DEF IInv, DiskInv, TypeOK
<1>4. sampler' = IF phase'[c] = "idle" THEN [sampler EXCEPT ![c] = Latest(parent'[c])] ELSE sampler
  BY DEF Begins
<1>5. DOMAIN sampler' = Processes /\ (phase'[c] = "idle" => sampler'[c] = Latest(parent'[c]))
  BY <1>4 DEF DInv
<1>6. Latest(parent[c])' = Latest(parent'[c])
  BY <1>1 DEF Latest, Seed
<1>7. DataInv(c)'
  BY <1>3, <1>5, <1>6 DEF DataInv, Working
<1>8. \A d \in Processes : DataInv(d)'
  BY <1>1, <1>2, <1>7, OthersHaveNone DEF IInv
<1>9. QED
  BY <1>1, <1>5, <1>8 DEF DInv

\* Returns leaves what the others have prepared.
LEMMA Returned ==
  ASSUME DInv, NEW c \in Processes, Returns(c)
  PROVE  /\ DOMAIN prepared' = Processes
         /\ Working(phase'[c]) => prepared' = prepared
         /\ \A d \in Processes \ {c} : prepared'[d] = prepared[d]
BY DEF Returns, DInv

\* Closing and crashing leave nothing behind.
LEMMA EndsData ==
  ASSUME IInv, DInv, NEW c \in Processes, Ends(c)
  PROVE  DInv'
<1>1. Forget(c) /\ sampler' = [sampler EXCEPT ![c] = Seed] /\ Returns(c) /\ UNCHANGED <<run, receipts>>
  BY DEF Ends, Close, Crash
<1>2. /\ phase' = [phase EXCEPT ![c] = "none"]
      /\ parent' = [parent EXCEPT ![c] = << >>] /\ pin' = [pin EXCEPT ![c] = << >>]
      /\ UNCHANGED <<checkpoints, learned>>
  BY <1>1 DEF Forget, To, store
<1>3. \A d \in Processes \ {c} : DataInv(d)'
  <2>1. TAKE d \in Processes \ {c}
  <2>2. phase'[d] = phase[d] /\ parent'[d] = parent[d] /\ pin'[d] = pin[d]
    BY <1>2, <2>1 DEF IInv, DiskInv, TypeOK
  <2>3. sampler'[d] = sampler[d] /\ prepared'[d] = prepared[d]
    BY <1>1, <2>1, Returned DEF DInv
  <2>4. QED
    BY <1>1, <1>2, <2>2, <2>3, DataKept DEF DInv
<1>4. phase'[c] = "none"
  BY <1>2 DEF IInv, DiskInv, TypeOK
<1>5. DataInv(c)'
  BY <1>4 DEF DataInv, Working
<1>6. DOMAIN sampler' = Processes /\ DOMAIN prepared' = Processes
  BY <1>1, Returned DEF DInv
<1>7. QED
  BY <1>1, <1>2, <1>3, <1>5, <1>6 DEF DInv

\* What train_next prepares follows the parent checkpoint, because what the
\* coordinator remembers is what that checkpoint says.
LEMMA PreparesData ==
  ASSUME IInv, DInv, NEW c \in Processes, Prepares(c)
  PROVE  DInv'
<1>1. TrainIntent(c) /\ UNCHANGED <<run, sampler, receipts>>
  BY DEF Prepares
<1>2. PICK added \in Additions \cup {<< >>} :
        /\ Schedule!Admissible(sampler[c].catalog, added, sampler[c].state)
        /\ prepared' = IF phase'[c] = "intended"
                       THEN [prepared EXCEPT ![c] = SamplingTransition(sampler[c], added)]
                       ELSE prepared
  BY DEF Prepares
<1>3. /\ phase[c] = "idle"
      /\ phase' = [phase EXCEPT ![c] = "intended"] \/ phase' = [phase EXCEPT ![c] = "blocked"]
      /\ UNCHANGED <<parent, pin, checkpoints, learned>>
  BY <1>1 DEF TrainIntent, CheckLive, To, Block, memory, store
<1>4. phase'[c] \in {"intended", "blocked"} /\ \A d \in Processes \ {c} : phase'[d] = phase[d]
  BY <1>3 DEF IInv, DiskInv, TypeOK
<1>5. sampler[c] = Latest(parent[c]) /\ Latest(parent[c])' = Latest(parent[c])
  BY <1>1, <1>3 DEF DInv, DataInv, Latest, Seed
<1>6. ASSUME phase'[c] = "intended" PROVE DataInv(c)'
  <2>1. prepared'[c] = SamplingTransition(Latest(parent[c]), added)
    BY <1>2, <1>5, <1>6 DEF DInv
  <2>2. Follows(Latest(parent[c]), prepared'[c])
    BY <1>2, <1>5, <2>1, Zenon DEF Follows
  <2>3. FollowsIn(run.hash, Latest(parent[c]), prepared'[c])
    BY <2>2, FollowsIs
  <2>4. Follows(Latest(parent[c]), prepared[c])'
           <=> FollowsIn(run'.hash, Latest(parent[c])', prepared'[c])
    BY DEF Follows, FollowsIn, SamplingTransition
  <2>5. Follows(Latest(parent[c]), prepared[c])'
    BY <1>1, <1>5, <2>3, <2>4
  <2>6. sampler'[c] = Latest(parent[c])'
    BY <1>1, <1>5
  <2>7. QED
    BY <1>6, <2>5, <2>6 DEF DataInv
<1>7. ASSUME phase'[c] = "blocked" PROVE DataInv(c)'
  BY <1>7 DEF DataInv, Working
<1>8. \A d \in Processes : DataInv(d)'
  BY <1>3, <1>4, <1>6, <1>7, OthersHaveNone DEF IInv
<1>9. DOMAIN sampler' = Processes /\ DOMAIN prepared' = Processes
  BY <1>1, <1>2 DEF DInv
<1>10. QED
  BY <1>1, <1>3, <1>8, <1>9 DEF DInv

\* The learn call is the first of its step, so no checkpoint of the step is stored
\* yet.
LEMMA LearnsData ==
  ASSUME IInv, DInv, NEW c \in Processes, Learns(c)
  PROVE  DInv'
<1>1. TrainLearn(c) /\ Returns(c) /\ UNCHANGED <<run, sampler, receipts>>
  BY DEF Learns
<1> DEFINE n == Len(parent[c]) + 1
<1>2. phase[c] = "intended" /\ n \in Steps /\ learned[n] = 0
  BY <1>1 DEF TrainLearn, IInv, PhaseInv, Training
<1>3. /\ UNCHANGED <<parent, pin, checkpoints>>
      /\ phase' = [phase EXCEPT ![c] = "trained"] \/ phase' = [phase EXCEPT ![c] = "blocked"]
      /\ learned' = learned \/ learned' = [learned EXCEPT ![n] = @ + 1]
      /\ phase' = [phase EXCEPT ![c] = "trained"] => learned' = [learned EXCEPT ![n] = @ + 1]
  <2>1. "trained" # "blocked"
    OBVIOUS
  <2>2. phase' = [phase EXCEPT ![c] = "blocked"] => phase' # [phase EXCEPT ![c] = "trained"]
    BY <2>1 DEF IInv, DiskInv, TypeOK
  <2>3. QED
    BY <1>1, <2>2 DEF TrainLearn, To, memory, store
<1>4. phase'[c] \in {"trained", "blocked"} /\ \A d \in Processes \ {c} : phase'[d] = phase[d]
  BY <1>3 DEF IInv, DiskInv, TypeOK
<1>5. \A m \in Steps : learned[m] # 0 => learned'[m] # 0
  BY <1>2, <1>3 DEF IInv, DiskInv, TypeOK
<1>6. \A k \in checkpoints' : Len(k) \in Steps /\ learned'[Len(k)] # 0
  BY <1>3, <1>5 DEF DInv
<1>7. Latest(parent[c])' = Latest(parent[c]) /\ sampler'[c] = Latest(parent[c])
  BY <1>1, <1>2, <1>3 DEF DInv, DataInv, Latest, Seed
<1>8. ASSUME phase'[c] = "trained" PROVE DataInv(c)'
  <2>1. prepared' = prepared
    BY <1>1, <1>8, Returned DEF Working
  <2>2. Follows(Latest(parent[c]), prepared[c])
    BY <1>2 DEF DInv, DataInv, Working
  <2>3. Follows(Latest(parent[c]), prepared[c])'
    BY <1>1, <1>7, <2>1, <2>2, FollowsKept
  <2>4. learned' = [learned EXCEPT ![n] = @ + 1]
    BY <1>3, <1>4, <1>8 DEF IInv, DiskInv, TypeOK
  <2>5. learned'[n] # 0
    BY <1>2, <2>4 DEF IInv, DiskInv, TypeOK
  <2>6. \A k \in checkpoints' : Len(k) # n
    BY <1>2, <1>3 DEF DInv
  <2>7. QED
    BY <1>3, <1>7, <1>8, <2>3, <2>5, <2>6 DEF DataInv
<1>9. ASSUME phase'[c] = "blocked" PROVE DataInv(c)'
  BY <1>9 DEF DataInv, Working
<1>10. \A d \in Processes : DataInv(d)'
  BY <1>2, <1>4, <1>8, <1>9, OthersHaveNone DEF IInv
<1>11. DOMAIN sampler' = Processes /\ DOMAIN prepared' = Processes
  BY <1>1, Returned DEF DInv
<1>12. QED
  BY <1>1, <1>6, <1>10, <1>11 DEF DInv

\* The checkpoint of the step is new: its receipt is the one just prepared.
LEMMA SavesData ==
  ASSUME IInv, DInv, NEW c \in Processes, Saves(c)
  PROVE  DInv'
<1>1. /\ TrainSave(c) /\ Returns(c) /\ UNCHANGED <<run, sampler>>
      /\ receipts' = [k \in checkpoints' |-> IF k \in checkpoints THEN receipts[k] ELSE prepared[c]]
  BY DEF Saves
<1> DEFINE n == Len(parent[c]) + 1
<1>2. phase[c] = "trained" /\ n \in Steps /\ learned[n] # 0 /\ \A k \in checkpoints : Len(k) # n
  BY <1>1 DEF TrainSave, IInv, PhaseInv, Training, DInv, DataInv
<1>3. /\ UNCHANGED <<parent, learned>>
      /\ phase' = [phase EXCEPT ![c] = "saved"] \/ phase' = [phase EXCEPT ![c] = "blocked"]
  BY <1>1 DEF TrainSave, To
<1>4. phase'[c] \in {"saved", "blocked"} /\ \A d \in Processes \ {c} : phase'[d] = phase[d]
  BY <1>3 DEF IInv, DiskInv, TypeOK
<1>5. \/ checkpoints' = checkpoints /\ phase'[c] = "blocked"
      \/ /\ Len(session[c]) = n /\ parent[c] \in checkpoints \cup {<< >>}
         /\ checkpoints' = checkpoints \cup {session[c]}
         /\ phase'[c] = "saved" => pin'[c] = session[c]
  BY <1>1 DEF TrainSave, Extends, To, IInv, DiskInv, TypeOK
<1>6. \A k \in checkpoints' : Len(k) \in Steps /\ learned'[Len(k)] # 0
  BY <1>2, <1>3, <1>5 DEF DInv
<1>7. ASSUME phase'[c] = "saved" PROVE DataInv(c)'
  <2>1. prepared' = prepared
    BY <1>1, <1>7, Returned DEF Working
  <2>2. Follows(Latest(parent[c]), prepared[c]) /\ sampler[c] = Latest(parent[c])
    BY <1>2 DEF DInv, DataInv, Working
  <2>3. /\ parent[c] \in checkpoints \cup {<< >>} /\ pin'[c] = session[c] /\ Len(session[c]) = n
        /\ checkpoints' = checkpoints \cup {session[c]}
    BY <1>5, <1>7
  <2>4. receipts'[session[c]] = prepared[c]
    BY <1>1, <1>2, <2>3
  <2>5. parent[c] # << >> => receipts'[parent[c]] = receipts[parent[c]]
    BY <1>1, <2>3
  <2>6. Latest(parent[c])' = Latest(parent[c])
    BY <1>1, <1>3, <2>5 DEF Latest, Seed
  <2>7. Follows(Latest(parent[c]), prepared[c])'
    BY <1>1, <2>1, <2>2, <2>6, FollowsKept
  <2>8. QED
    BY <1>1, <1>7, <2>1, <2>2, <2>3, <2>4, <2>6, <2>7 DEF DataInv
<1>8. ASSUME phase'[c] = "blocked" PROVE DataInv(c)'
  BY <1>8 DEF DataInv, Working
<1>9. \A d \in Processes : DataInv(d)'
  BY <1>2, <1>4, <1>7, <1>8, OthersHaveNone DEF IInv
<1>10. DOMAIN sampler' = Processes /\ DOMAIN prepared' = Processes
  BY <1>1, Returned DEF DInv
<1>11. QED
  BY <1>1, <1>6, <1>9, <1>10 DEF DInv

\* After a commit the coordinator remembers the receipt of the committed checkpoint.
LEMMA CommitsData ==
  ASSUME IInv, DInv, NEW c \in Processes, Commits(c)
  PROVE  DInv'
<1>1. /\ TrainCommit(c) /\ Returns(c) /\ UNCHANGED <<run, receipts>>
      /\ sampler' = IF phase'[c] = "idle" THEN [sampler EXCEPT ![c] = prepared[c]] ELSE sampler
  BY DEF Commits
<1>2. /\ phase[c] = "saved" /\ UNCHANGED <<checkpoints, learned>>
      /\ \/ phase' = [phase EXCEPT ![c] = "idle"] /\ parent' = [parent EXCEPT ![c] = pin[c]]
         \/ phase' = [phase EXCEPT ![c] = "blocked"]
  BY <1>1 DEF TrainCommit, To, Block, store
<1>3. /\ phase'[c] \in {"idle", "blocked"} /\ \A d \in Processes \ {c} : phase'[d] = phase[d]
      /\ phase'[c] = "idle" => parent'[c] = pin[c]
  BY <1>2 DEF IInv, DiskInv, TypeOK
<1>4. ASSUME phase'[c] = "idle" PROVE DataInv(c)'
  <2>1. parent'[c] = pin[c] /\ sampler'[c] = prepared[c] /\ receipts'[pin[c]] = prepared[c]
    BY <1>1, <1>2, <1>3, <1>4 DEF DInv, DataInv
  <2>2. pin[c] # << >>
    <3>1. pin[c] \in Sequence /\ Len(pin[c]) \in Steps
      BY <1>1, CommitReads
    <3>2. Len(pin[c]) # 0
      BY <3>1 DEF Steps
    <3>3. QED
      BY <3>1, <3>2, Runs
  <2>3. Latest(parent[c])' = receipts'[pin[c]]
    BY <2>1, <2>2 DEF Latest
  <2>4. QED
    BY <1>4, <2>1, <2>3 DEF DataInv, Working
<1>5. ASSUME phase'[c] = "blocked" PROVE DataInv(c)'
  BY <1>5 DEF DataInv, Working
<1>6. \A d \in Processes : DataInv(d)'
  BY <1>2, <1>3, <1>4, <1>5, OthersHaveNone DEF IInv
<1>7. DOMAIN sampler' = Processes /\ DOMAIN prepared' = Processes
  BY <1>1, Returned DEF DInv
<1>8. QED
  BY <1>1, <1>2, <1>6, <1>7 DEF DInv

\* Publishing moves a coordinator that is not at a step of training.
LEMMA OthersData ==
  ASSUME IInv, DInv, Others, UNCHANGED samplerVars
  PROVE  DInv'
<1>1. UNCHANGED <<run, sampler, prepared, receipts>>
  BY DEF samplerVars
<1>2. ASSUME UNCHANGED <<checkpoints, learned, parent, pin, phase>> PROVE DInv'
  <2>1. \A d \in Processes : DataInv(d)'
    BY <1>1, <1>2, DataKept DEF DInv
  <2>2. QED
    BY <1>1, <1>2, <2>1 DEF DInv
<1>3. ASSUME NEW c \in Processes, UNCHANGED <<checkpoints, learned, parent>>,
             phase[c] \in {"idle", "announced", "released"},
             NEW p \in {"idle", "announced", "released", "blocked"},
             phase' = [phase EXCEPT ![c] = p]
      PROVE  DInv'
  <2>1. phase'[c] = p /\ \A d \in Processes \ {c} : phase'[d] = phase[d]
    BY <1>3 DEF IInv, DiskInv, TypeOK
  <2>2. Latest(parent[c])' = Latest(parent[c]) /\ sampler[c] = Latest(parent[c])
    BY <1>1, <1>3 DEF DInv, DataInv, Latest, Seed
  <2>3. DataInv(c)'
    BY <1>1, <2>1, <2>2 DEF DataInv, Working
  <2>4. \A d \in Processes : DataInv(d)'
    BY <1>3, <2>1, <2>3, OthersHaveNone DEF IInv
  <2>5. QED
    BY <1>1, <1>3, <2>4 DEF DInv
<1>4. ASSUME NEW c \in Processes, Meddle(c) PROVE DInv'
  BY <1>2, <1>4 DEF Meddle, store, memory
<1>5. ASSUME NEW c \in Processes, EnableHead(c) PROVE DInv'
  <2>1. /\ phase[c] = "idle" /\ UNCHANGED <<checkpoints, learned, parent, pin>>
        /\ phase' = phase \/ phase' = [phase EXCEPT ![c] = "blocked"]
    BY <1>5 DEF EnableHead, CheckLive, To, Block, store, memory
  <2>2. QED
    BY <1>2, <1>3, <2>1
<1>6. ASSUME NEW c \in Processes, Announce(c) PROVE DInv'
  <2>1. /\ phase[c] = "idle" /\ UNCHANGED <<checkpoints, learned, parent>>
        /\ phase' = [phase EXCEPT ![c] = "announced"] \/ phase' = [phase EXCEPT ![c] = "blocked"]
    BY <1>6 DEF Announce, CheckLive, To, Block, store, memory
  <2>2. QED
    BY <1>3, <2>1
<1>7. ASSUME NEW c \in Processes, Release(c) PROVE DInv'
  <2>1. /\ phase[c] = "announced" /\ UNCHANGED <<checkpoints, learned, parent>>
        /\ phase' = [phase EXCEPT ![c] = "released"] \/ phase' = [phase EXCEPT ![c] = "blocked"]
    BY <1>7 DEF Release, To
  <2>2. QED
    BY <1>3, <2>1
<1>8. ASSUME NEW c \in Processes, Confirm(c) PROVE DInv'
  <2>1. /\ phase[c] = "released" /\ UNCHANGED <<checkpoints, learned, parent>>
        /\ phase' = [phase EXCEPT ![c] = "idle"] \/ phase' = [phase EXCEPT ![c] = "blocked"]
    BY <1>8 DEF Confirm, To, Block, store, memory
  <2>2. QED
    BY <1>3, <2>1
<1>9. ASSUME NEW c \in Processes, PublishPlain(c) PROVE DInv'
  <2>1. /\ phase[c] = "idle" /\ UNCHANGED <<checkpoints, learned, parent, pin>>
        /\ phase' = phase \/ phase' = [phase EXCEPT ![c] = "blocked"]
    BY <1>9 DEF PublishPlain, CheckLive, To
  <2>2. QED
    BY <1>2, <1>3, <2>1
<1>10. CASE PublishHistorical \/ Reconcile
  BY <1>2, <1>10 DEF PublishHistorical, Reconcile, store, memory
<1>11. QED
  BY <1>4, <1>5, <1>6, <1>7, <1>8, <1>9, <1>10 DEF Others

-----------------------------------------------------------------------------
(* The run as a sampler                                                    *)

\* Nobody remembers anything at first.
LEMMA InitData == ContinualInit => DInv
BY DEF ContinualInit, Init, DInv, DataInv, Working

\* No operation, failure or crash disturbs it.
LEMMA StepData == IInv /\ DInv /\ [ContinualNext]_continualVars => DInv'
<1> SUFFICES ASSUME IInv, DInv, [ContinualNext]_continualVars PROVE DInv'
  OBVIOUS
<1>1. CASE UNCHANGED continualVars
  <2>1. UNCHANGED <<phase, parent, pin, learned, checkpoints, run, sampler, prepared, receipts>>
    BY <1>1 DEF continualVars, samplerVars, vars, memory, store
  <2>2. \A d \in Processes : DataInv(d)'
    BY <2>1, DataKept DEF DInv
  <2>3. QED
    BY <2>1, <2>2 DEF DInv
<1>2. QED
  BY <1>1, BeginsData, EndsData, PreparesData, LearnsData, SavesData, CommitsData, OthersData
     DEF ContinualNext

\* A continual run is a run of Learner, so everything proved of Learner holds of it:
\* no step is trained twice, the log and the head tell one history, and so on
\* (continual_mixed_learner.py:17, ContinualMixedLearner is a
\* LearnerCoordinator).
THEOREM ContinualImplementsRun == ContinualSpec => Spec
<1>1. ContinualInit => Init
  BY DEF ContinualInit
<1>2. QED
  BY <1>1, ContinualSteps, PTL DEF ContinualSpec, Spec

\* The inductive invariant of a continual run: that of Learner, and DInv.
LEMMA ContinualInvariance == ContinualSpec => [](IInv /\ DInv)
<1>1. IInv /\ DInv /\ [ContinualNext]_continualVars => (IInv /\ DInv)'
  BY ContinualSteps, StepInv, StepData
<1>2. ContinualInit => IInv /\ DInv
  BY InitInv, InitData DEF ContinualInit
<1>3. QED
  BY <1>1, <1>2, PTL DEF ContinualSpec

\* For every schedule of processes, failures and crashes, and whatever is appended
\* to the catalog: the batch of a step whose intent is durable is the one its
\* checkpoint is checked against (continual_mixed_store.py:100-112), so a durable
\* intent is never left without a successor because of its rows.
THEOREM NoStepRefused == ContinualSpec => []NoStepIsRefused
<1>1. DInv => NoStepIsRefused
  BY DEF DInv, DataInv, Working, NoStepIsRefused
<1>2. QED
  BY <1>1, ContinualInvariance, PTL

\* What the run has committed last is in the store.
LEMMA HistoryStored ==
  ASSUME DiskInv
  PROVE  History \in checkpoints \cup {<< >>}
<1>1. CASE Whole = {}
  BY <1>1 DEF History
<1>2. CASE Whole # {}
  <2>1. MaxSteps \in Nat /\ Whole \in SUBSET (1..MaxSteps)
    BY LearnerAssumption DEF Whole, Steps
  <2>2. Greatest(Whole) \in Whole /\ \A i \in Whole : i <= Greatest(Whole)
    BY <1>2, <2>1, GreatestIs
  <2> DEFINE last == CHOOSE n \in Whole : \A i \in Whole : i <= n
  <2>3. last \in Whole
    BY <2>2
  <2>4. History = commits[last]
    BY <1>2, Zenon DEF History
  <2>5. last \in Steps /\ IsWhole(last)
    BY <2>3 DEF Whole, IsWhole
  <2> HIDE DEF last
  <2>6. QED
    BY <2>4, <2>5 DEF DiskInv, LogInv
<1>3. QED
  BY <1>1, <1>2

\* A commit goes on from the history of the run, or leaves it alone.
LEMMA CommitContinues ==
  ASSUME IInv, NEW c \in Processes, TrainCommit(c)
  PROVE  History = parent[c] /\ History' \in {History, pin[c]}
<1>1. PICK n \in Steps : n = Len(pin[c])
  BY CommitReads
<1>2. /\ Training(c) /\ n = Len(parent[c]) + 1 /\ pin[c] \in Sequence
      /\ commits[n] = None /\ intents[n] = Committed(n - 1) /\ intents[n] \in Sequence
  BY <1>1, CommitReads
<1>3. PICK value \in {None, Torn, pin[c]} : commits' = [commits EXCEPT ![n] = value]
  BY <1>1, CommitReads
<1> DEFINE m == n - 1
<1>4. /\ MaxSteps \in Nat /\ n \in 1..MaxSteps /\ m \in 0..MaxSteps /\ n = m + 1
      /\ intents[n] # None
  BY <1>2, LearnerAssumption, Files DEF Steps
<1>5. UpTo(commits, m)
  BY <1>2, <1>4, LogIsUpTo DEF IInv
<1>6. /\ commits'[n] = value
      /\ \A i \in Steps : i # n => commits'[i] = commits[i]
  BY <1>3 DEF IInv, DiskInv, TypeOK
<1>7. History = Committed(m) /\ LastOf(commits', m) = LastOf(commits, m)
  BY <1>4, <1>5, <1>6, HistoryUpTo, Mapping DEF LastOf, Committed, Steps
<1>8. parent[c] = Committed(m)
  <2>1. Len(parent[c]) + 1 = n
    BY <1>2
  <2>2. parent[c] = Committed(Len(parent[c]) + 1 - 1)
    BY <1>2 DEF Training
  <2>3. QED
    BY <2>1, <2>2
<1>9. CASE value \in {None, Torn}
  <2>1. UpTo(commits', m)
    <3>1. n \in Steps /\ ~(n <= m) /\ commits'[n] \in {None, Torn}
      BY <1>4, <1>6, <1>9
    <3>2. \A i \in Steps : commits'[i] \notin {None, Torn} <=> i <= m
      BY <1>5, <1>6, <3>1 DEF UpTo
    <3>3. QED
      BY <3>2 DEF UpTo
  <2>2. HistoryOf(commits') = LastOf(commits', m) /\ HistoryOf(commits) = LastOf(commits, m)
    BY <1>4, <1>5, <2>1, HistoryUpTo
  <2>3. History' = History
    BY <1>7, <2>2, Mapping
  <2>4. QED
    BY <1>7, <1>8, <2>3
<1>10. CASE value = pin[c]
  <2>1. UpTo(commits', n)
    BY <1>2, <1>4, <1>5, <1>6, <1>10, Files DEF UpTo, Steps
  <2>2. History' = pin[c]
    BY <1>4, <1>6, <1>10, <2>1, HistoryUpTo, Mapping DEF LastOf
  <2>3. QED
    BY <1>7, <1>8, <2>2
<1>11. QED
  BY <1>9, <1>10

SamplerStep == [Schedule!Next]_(Schedule!vars)

\* A step that changes neither the history nor its receipt is none of the sampler.
LEMMA SamplerKept ==
  ASSUME run' = run, Latest(History)' = Latest(History)
  PROVE  SamplerStep
BY DEF SamplerStep, Schedule!vars

\* The commit of a step is a step of the sampler.
LEMMA CommitsSample ==
  ASSUME IInv, DInv, NEW c \in Processes, Commits(c)
  PROVE  SamplerStep
<1>1. /\ TrainCommit(c) /\ run' = run /\ receipts' = receipts
  BY DEF Commits
<1>2. History = parent[c] /\ History' \in {History, pin[c]}
  BY <1>1, CommitContinues
<1>3. CASE History' = History
  BY <1>1, <1>3, SamplerKept DEF Latest, Seed
<1>4. CASE History' = pin[c]
  <2>1. pin[c] # << >> /\ phase[c] = "saved"
    <3>1. phase[c] = "saved" /\ pin[c] \in Sequence /\ Len(pin[c]) \in Steps
      BY <1>1, CommitReads
    <3>2. Len(pin[c]) # 0
      BY <3>1 DEF Steps
    <3>3. QED
      BY <3>1, <3>2, Runs
  <2>2. receipts[pin[c]] = prepared[c] /\ Follows(Latest(parent[c]), prepared[c])
    BY <2>1 DEF DInv, DataInv, Working
  <2>3. Latest(History)' = prepared[c] /\ Latest(History) = Latest(parent[c])
    BY <1>1, <1>2, <1>4, <2>1, <2>2 DEF Latest
  <2>4. PICK added \in Additions \cup {<< >>} :
          /\ Schedule!Admissible(Latest(History).catalog, added, Latest(History).state)
          /\ prepared[c] = SamplingTransition(Latest(History), added)
    BY <2>2, <2>3 DEF Follows
  <2> DEFINE B == Latest(History)
             rows == Schedule!Enlarged(B.catalog, added)
  <2>5. /\ prepared[c].catalog = rows /\ prepared[c].state = Schedule!Advanced(B.state)
        /\ prepared[c].batch = Schedule!Drawn(rows, run.hash, B.state)
    BY <2>4 DEF SamplingTransition
  <2>6. /\ Latest(History)'.catalog = rows /\ Latest(History)'.state = Schedule!Advanced(B.state)
        /\ Latest(History)'.batch = Schedule!Drawn(Latest(History)'.catalog, run.hash, B.state)
    BY <2>3, <2>5
  <2>7. Schedule!Train(added)
    BY <1>1, <2>4, <2>6 DEF Schedule!Train
  <2>8. QED
    BY <2>7 DEF SamplerStep, Schedule!Next
<1>5. QED
  BY <1>2, <1>3, <1>4

\* Only a commit changes the history or the receipt of its last checkpoint.
LEMMA SamplerSteps == IInv /\ DInv /\ [ContinualNext]_continualVars => SamplerStep
<1> SUFFICES ASSUME IInv, DInv, [ContinualNext]_continualVars PROVE SamplerStep
  OBVIOUS
<1>1. ASSUME UNCHANGED <<commits, run>>,
             History \in checkpoints => receipts'[History] = receipts[History]
      PROVE  SamplerStep
  <2>1. History' = History
    BY <1>1 DEF History, Whole
  <2>2. History \in checkpoints \/ History = << >>
    BY HistoryStored DEF IInv
  <2>3. Latest(History)' = Latest(History)
    BY <1>1, <2>1, <2>2 DEF Latest, Seed
  <2>4. QED
    BY <1>1, <2>3, SamplerKept
<1>2. CASE UNCHANGED continualVars
  BY <1>1, <1>2 DEF continualVars, samplerVars, vars, log
<1>3. ASSUME NEW c \in Processes, Begins(c) \/ Ends(c) \/ Prepares(c) \/ Learns(c)
      PROVE  SamplerStep
  BY <1>1, <1>3 DEF Begins, Ends, Prepares, Learns, StartRun, Restore, Close, Crash, Forget,
     TrainIntent, TrainLearn, log
<1>4. ASSUME NEW c \in Processes, Saves(c) PROVE SamplerStep
  <2>1. /\ UNCHANGED <<commits, run>> /\ checkpoints \subseteq checkpoints'
        /\ receipts' = [k \in checkpoints' |->
                          IF k \in checkpoints THEN receipts[k] ELSE prepared[c]]
    BY <1>4 DEF Saves, TrainSave, log
  <2>2. QED
    BY <1>1, <2>1
<1>5. CASE Others /\ UNCHANGED samplerVars
  <2>1. UNCHANGED commits
    BY <1>5 DEF Others, Meddle, EnableHead, Announce, Release, Confirm, PublishPlain,
       PublishHistorical, Reconcile, log
  <2>2. QED
    BY <1>1, <1>5, <2>1 DEF samplerVars
<1>6. QED
  BY <1>2, <1>3, <1>4, <1>5, CommitsSample DEF ContinualNext

\* The run on disk is a run of the sampler: its commits draw batch after batch from
\* the seed catalog and what was appended to it, and a crash, a restore or another
\* process taking over skips no row and repeats none (continual_mixed_learner.py:44-65).
THEOREM SamplerImplemented == ContinualSpec => ImplementsSampler
<1>1. ContinualInit => Schedule!Init
  <2> SUFFICES ASSUME ContinualInit PROVE Schedule!Init
    OBVIOUS
  <2>1. 0 \in 0..MaxSteps /\ UpTo(commits, 0)
    BY LearnerAssumption DEF ContinualInit, Init, UpTo, Steps
  <2>2. History = << >>
    BY <2>1, HistoryUpTo, Mapping DEF LastOf
  <2>3. Latest(History) = Seed
    BY <2>2 DEF Latest
  <2>4. QED
    BY <2>3 DEF ContinualInit, RunRecords, Seed, Schedule!Init, Schedule!Zero, Schedule!NoBatch
<1>2. SamplerStep => [Schedule!Next]_(Schedule!vars)
  BY DEF SamplerStep
<1>3. QED
  BY <1>1, <1>2, ContinualInvariance, SamplerSteps, PTL
     DEF ContinualSpec, ImplementsSampler, Schedule!Spec

-----------------------------------------------------------------------------
(* The rows of a step                                                      *)

RowCounts == Seq(Nat \ {0}) \ {<< >>}

\* A catalog of nonempty datasets has rows to draw.
LEMMA Rows ==
  ASSUME NEW rows \in RowCounts
  PROVE  rows \in Seq(Nat) /\ Schedule!Total(rows) # 0
<1>1. rows \in Seq(Nat \ {0}) /\ rows # << >>
  BY DEF RowCounts
<1>2. rows \in Seq(Nat)
  <2>1. Nat \ {0} \subseteq Nat
    OBVIOUS
  <2>2. QED
    BY <1>1, <2>1, SeqMonotonic
<1>3. PICK n \in Nat : n = Len(rows) /\ n # 0
  BY <1>1, EmptySeq
<1>4. PICK ends : Borders(ends, rows) /\ Schedule!Total(rows) = ends[n]
  BY <1>2, <1>3, TotalBorders
<1>5. n \in 1..Len(rows) /\ n - 1 \in 0..Len(rows)
  BY <1>3
<1>6. rows[n] \in Nat \ {0}
  BY <1>1, <1>5, ElementOfSeq
<1>7. ends[n - 1] \in Nat /\ ends[n] = ends[n - 1] + rows[n]
  BY <1>4, <1>5 DEF Borders
<1>8. QED
  BY <1>2, <1>4, <1>6, <1>7

\* Appending datasets keeps it one.
LEMMA EnlargedRows ==
  ASSUME NEW rows \in [Sources -> RowCounts], NEW added \in Additions \cup {<< >>}
  PROVE  Schedule!Enlarged(rows, added) \in [Sources -> RowCounts]
<1>1. added \in Seq(Nat \ {0})
  <2>1. Additions \subseteq Seq(Nat \ {0}) /\ << >> \in Seq(Nat \ {0})
    BY ContinualAssumption, EmptySeq DEF Schedule!SamplerConstants
  <2>2. QED
    BY <2>1
<1>2. ASSUME NEW old \in RowCounts PROVE old \o added \in RowCounts
  <2>1. PICK a \in Seq(Nat \ {0}), b \in Seq(Nat \ {0}) : a = old /\ b = added /\ a # << >>
    BY <1>1 DEF RowCounts
  <2>2. Len(a) \in Nat \ {0} /\ Len(b) \in Nat
    BY <2>1, EmptySeq
  <2>3. a \o b \in Seq(Nat \ {0}) /\ Len(a \o b) = Len(a) + Len(b)
    BY ConcatProperties
  <2>4. a \o b # << >>
    BY <2>2, <2>3, EmptySeq
  <2>5. QED
    BY <2>1, <2>3, <2>4 DEF RowCounts
<1>3. Schedule!Enlarged(rows, added) = [rows EXCEPT ![Growing] = @ \o added]
  BY DEF Schedule!Enlarged
<1>4. QED
  BY <1>2, <1>3

Cursors == [Sources -> Nat]

\* A step moves each cursor by the rows it took.
LEMMA AdvancedCursors ==
  ASSUME NEW before, before.cursor \in Cursors
  PROVE  /\ Schedule!Advanced(before).cursor \in Cursors
         /\ \A s \in Sources : Schedule!Advanced(before).cursor[s] = before.cursor[s] + Count[s]
<1>1. \A s \in Sources : Count[s] \in Nat /\ before.cursor[s] \in Nat
  BY ContinualAssumption DEF Schedule!SamplerConstants, Cursors
<1>2. \A s \in Sources : before.cursor[s] + Count[s] \in Nat
  BY <1>1
<1>3. QED
  BY <1>2 DEF Schedule!Advanced, Cursors

\* Seen from the cursor after a batch, its rows lie where they did before it.
LEMMA ShiftedBack ==
  ASSUME NEW h \in Nat, NEW from \in Nat, NEW n \in Nat, NEW i \in 1..n
  PROVE  h + (from + n) - n + i - 1 = h + from + i - 1
OBVIOUS

\* The rows of one source.
LEMMA DrawnIs ==
  ASSUME NEW rows \in [Sources -> RowCounts], NEW shift \in Cursors,
         NEW before, before.cursor \in Cursors, NEW after, after = Schedule!Advanced(before),
         NEW s \in Sources
  PROVE  LET all == Schedule!Concatenated(rows[s]) IN
         Schedule!Drawn(rows, shift, before)[s] =
            [i \in 1..Count[s] |->
               all[((shift[s] + after.cursor[s] - Count[s] + i - 1) % Len(all)) + 1]]
<1>1. PICK n \in Nat, h \in Nat, from \in Nat :
         n = Count[s] /\ h = shift[s] /\ from = before.cursor[s]
  BY ContinualAssumption DEF Schedule!SamplerConstants, Cursors
<1>2. rows[s] \in Seq(Nat) /\ Schedule!Total(rows[s]) # 0
  BY Rows
<1>3. after.cursor[s] = from + n
  BY <1>1, AdvancedCursors
<1> DEFINE all == Schedule!Concatenated(rows[s])
<1>4. Schedule!Drawn(rows, shift, before)[s] = Schedule!Taken(rows[s], n, h, from)
  BY <1>1 DEF Schedule!Drawn
<1>5. Schedule!Taken(rows[s], n, h, from) = CyclicRows(all, n, h, from)
  BY <1>2, TakenIs
<1> HIDE DEF all
<1>6. \A i \in 1..n : h + (from + n) - n + i - 1 = h + from + i - 1
  BY ShiftedBack
<1>7. [i \in 1..n |-> all[((h + from + i - 1) % Len(all)) + 1]]
         = [i \in 1..n |-> all[((h + (from + n) - n + i - 1) % Len(all)) + 1]]
  BY <1>6
<1>8. Schedule!Drawn(rows, shift, before)[s] =
         [i \in 1..n |-> all[((h + (from + n) - n + i - 1) % Len(all)) + 1]]
  BY <1>4, <1>5, <1>7 DEF CyclicRows
<1>9. Schedule!Drawn(rows, shift, before)[s] =
         [i \in 1..Count[s] |->
            all[((shift[s] + after.cursor[s] - Count[s] + i - 1) % Len(all)) + 1]]
  BY <1>1, <1>3, <1>8
<1>10. QED
  BY <1>9 DEF all

\* The inductive invariant of the sampler.
SamplerInv ==
    /\ Latest(History).catalog \in [Sources -> RowCounts]
    /\ Latest(History).state.cursor \in Cursors
    /\ run.hash \in Cursors
    /\ Schedule!BatchIsNextRows

\* The first step draws from the seed catalog.
LEMMA SamplerInit == Schedule!Init => SamplerInv
<1> SUFFICES ASSUME Schedule!Init PROVE SamplerInv
  OBVIOUS
<1>1. Catalogs \subseteq RowCounts /\ Hashes \subseteq Nat
  BY ContinualAssumption DEF Schedule!SamplerConstants, RowCounts
<1>2. Latest(History).catalog \in [Sources -> RowCounts] /\ run.hash \in Cursors
  BY <1>1 DEF Schedule!Init, Cursors
<1>3. Latest(History).state.step = 0 /\ Latest(History).state.cursor = [s \in Sources |-> 0]
  BY DEF Schedule!Init, Schedule!Zero
<1>4. Schedule!BatchIsNextRows
  BY <1>3 DEF Schedule!BatchIsNextRows
<1>5. QED
  BY <1>2, <1>3, <1>4 DEF SamplerInv, Cursors

\* A step of the sampler draws the rows from the old cursors, of the new catalog.
LEMMA SamplerTrains ==
  ASSUME SamplerInv, NEW added \in Additions \cup {<< >>}, Schedule!Train(added)
  PROVE  SamplerInv'
<1> DEFINE B == Latest(History)
           R == Latest(History)'
<1>1. /\ R.catalog = Schedule!Enlarged(B.catalog, added)
      /\ R.state = Schedule!Advanced(B.state)
      /\ R.batch = Schedule!Drawn(R.catalog, run.hash, B.state)
      /\ run'.hash = run.hash
  BY DEF Schedule!Train
<1>2. B.catalog \in [Sources -> RowCounts] /\ B.state.cursor \in Cursors /\ run.hash \in Cursors
  BY DEF SamplerInv
<1>3. R.catalog \in [Sources -> RowCounts] /\ R.state.cursor \in Cursors /\ run'.hash \in Cursors
  BY <1>1, <1>2, EnlargedRows, AdvancedCursors
<1>4. ASSUME NEW s \in Sources
      PROVE  LET all == Schedule!Concatenated(R.catalog[s]) IN
             R.batch[s] =
                [i \in 1..Count[s] |->
                   all[((run'.hash[s] + R.state.cursor[s] - Count[s] + i - 1) % Len(all)) + 1]]
  <2>1. PICK rows \in [Sources -> RowCounts] : rows = R.catalog
    BY <1>3
  <2>2. PICK shift \in Cursors : shift = run.hash /\ shift = run'.hash
    BY <1>1, <1>2
  <2>3. PICK before, after : before = B.state /\ after = R.state /\ after = Schedule!Advanced(before)
    BY <1>1
  <2>4. before.cursor \in Cursors /\ R.batch = Schedule!Drawn(rows, shift, before)
    BY <1>1, <1>2, <2>1, <2>2, <2>3
  <2> DEFINE all == Schedule!Concatenated(rows[s])
  <2>5. Schedule!Drawn(rows, shift, before)[s] =
           [i \in 1..Count[s] |->
              all[((shift[s] + after.cursor[s] - Count[s] + i - 1) % Len(all)) + 1]]
    BY <2>3, <2>4, DrawnIs
  <2>6. QED
    BY <2>1, <2>2, <2>3, <2>4, <2>5
<1>5. Schedule!BatchIsNextRows'
  BY <1>4 DEF Schedule!BatchIsNextRows
<1>6. QED
  BY <1>3, <1>5 DEF SamplerInv

\* The invariant of the sampler is inductive.
LEMMA SamplerInvariant ==
  SamplerInv /\ [Schedule!Next]_(Schedule!vars) => SamplerInv'
<1> SUFFICES ASSUME SamplerInv, [Schedule!Next]_(Schedule!vars) PROVE SamplerInv'
  OBVIOUS
<1>1. CASE UNCHANGED Schedule!vars
  BY <1>1 DEF Schedule!vars, SamplerInv, Schedule!BatchIsNextRows
<1>2. QED
  BY <1>1, SamplerTrains DEF Schedule!Next, Schedule!Exhausted

\* For every catalog, seed and batch: the sampler draws the next rows of the cyclic
\* concatenation of each source, across the borders of its datasets and its end
\* (mixed_objective.py:235-246).
THEOREM NextRowsDrawn == Schedule!Spec => []Schedule!BatchIsNextRows
<1>1. SamplerInv => Schedule!BatchIsNextRows
  BY DEF SamplerInv
<1>2. QED
  BY <1>1, SamplerInit, SamplerInvariant, PTL DEF Schedule!Spec

\* So does the run on disk: the batch in the receipt of its last commit is the next
\* rows, through every crash and restore.
THEOREM RunDrawsNextRows == ContinualSpec => []DrawsNextRows
BY NextRowsDrawn, SamplerImplemented, PTL DEF ImplementsSampler, DrawsNextRows
=============================================================================
