------------------------------ MODULE Sampler ------------------------------
(***************************************************************************)
(* What a continual mixed learner trains on                                *)
(* (gpu/gpu_runtime/mixed_objective.py, continual_mixed_store.py).         *)
(*                                                                         *)
(* Each source of rows has a catalog: datasets in order, of which only the *)
(* number of rows matters here.  A batch takes a fixed number of rows from *)
(* every source, cyclically from a cursor that counts all rows ever taken, *)
(* shifted by a hash of the seed.  The replay catalog may grow before a    *)
(* step; the cursors stay, the row they point at changes.                  *)
(*                                                                         *)
(* The sampler is pure and its state is stored with the checkpoint, so a   *)
(* step that is not committed leaves it as it was.                         *)
(***************************************************************************)
EXTENDS Integers, Sequences, SequencesExt

CONSTANTS
    Sources, Growing,   \* all sources, and the one whose catalog may grow
    Count,              \* SOURCE_COUNTS: rows of each source in a batch
    Hashes,             \* hashes of seeds considered
    Catalogs,           \* catalogs a run may start with
    Additions,          \* datasets that may be appended before a step
    MaxInteger,         \* 2^53 - 1 in the code
    MaxRows             \* bound on the rows of a catalog

LargestCount == CHOOSE n \in {Count[s] : s \in Sources} : \A s \in Sources : Count[s] <= n

\* What the theorems about it assume.
SamplerConstants ==
    /\ Growing \in Sources
    /\ Count \in [Sources -> Nat \ {0}]
    /\ \E s \in Sources : \A r \in Sources : Count[r] <= Count[s]
    /\ Hashes \subseteq Nat
    /\ Catalogs \subseteq Seq(Nat \ {0}) \ {<< >>} /\ Additions \subseteq Seq(Nat \ {0})
    /\ MaxInteger \in Nat /\ MaxRows \in Nat

VARIABLES
    catalog,    \* rows of each dataset, per source
    hash,       \* _sha of the seed and the source
    state,      \* the sampler state: its step and the cursor of each source
    batch       \* the refs of the last step, per source

vars == <<catalog, hash, state, batch>>

Zero    == [step |-> 0, cursor |-> [s \in Sources |-> 0]]
NoBatch == [s \in Sources |-> << >>]

Init ==
    /\ catalog \in [Sources -> Catalogs]
    /\ hash \in [Sources -> Hashes]
    /\ state = Zero /\ batch = NoBatch

-----------------------------------------------------------------------------
(* next_mixed_batch                                                        *)

Total(rows) == FoldLeft(LAMBDA sum, n : sum + n, 0, rows)

WalkPastEnd(rows, index) ==
    FoldLeftDomain(LAMBDA at, k : IF at.dataset # 0 THEN at
                                  ELSE IF at.row <= rows[k] THEN [at EXCEPT !.dataset = k]
                                  ELSE [at EXCEPT !.row = @ - rows[k]],
                   [dataset |-> 0, row |-> index], rows)

\* The inner loop: datasets in order, until the index falls into one.
Walk(rows, index) ==
    FoldLeftDomain(LAMBDA at, k : IF at.dataset # 0 THEN at
                                  ELSE IF at.row < rows[k] THEN [at EXCEPT !.dataset = k]
                                  ELSE [at EXCEPT !.row = @ - rows[k]],
                   [dataset |-> 0, row |-> index], rows)

\* Refs of n rows from a cursor on.  An index that falls into no dataset adds none.
Taken(rows, n, shift, from) ==
    LET at(i) == Walk(rows, ((shift % Total(rows)) + from + i - 1) % Total(rows))
    IN  FlattenSeq([i \in 1..n |-> IF at(i).dataset = 0 THEN << >>
                                   ELSE << <<at(i).dataset, at(i).row>> >>])

Drawn(rows, shift, before) ==
    [s \in Sources |-> Taken(rows[s], Count[s], shift[s], before.cursor[s])]

\* The state is one the sampler has produced, and leaves room for a whole batch.
Admits(before) ==
    /\ before.step <= MaxInteger \div LargestCount - 1
    /\ \A s \in Sources : before.cursor[s] = before.step * Count[s]

Advanced(before) ==
    [step |-> before.step + 1, cursor |-> [s \in Sources |-> before.cursor[s] + Count[s]]]

-----------------------------------------------------------------------------
(* sampling_transition                                                     *)

\* Replay may be appended; the human catalog is fixed.
Enlarged(rows, added) == [rows EXCEPT ![Growing] = @ \o added]

Admissible(rows, added, before) ==
    /\ Admits(before)
    /\ \A s \in Sources : Total(Enlarged(rows, added)[s]) <= MaxRows

Train(added) ==
    /\ Admissible(catalog, added, state)
    /\ catalog' = Enlarged(catalog, added)
    /\ state' = Advanced(state)
    /\ batch' = Drawn(catalog', hash, state)
    /\ UNCHANGED hash

\* The counters are used up: every further step is refused.
Exhausted == ~Admits(state) /\ UNCHANGED vars

Next == (\E added \in Additions \cup {<< >>} : Train(added)) \/ Exhausted

Spec == Init /\ [][Next]_vars

-----------------------------------------------------------------------------
(* Properties                                                              *)

\* Every batch is whole, and holds the next rows of the cyclic concatenation of
\* the source's datasets, across their borders and its end
\* (mixed_objective.py:235-246).
Concatenated(rows) ==
    FlattenSeq([k \in DOMAIN rows |-> [i \in 1..rows[k] |-> <<k, i - 1>>]])

BatchIsNextRows ==
    state.step > 0 => \A s \in Sources :
        LET all == Concatenated(catalog[s]) IN
        batch[s] = [i \in 1..Count[s] |->
                       all[((hash[s] + state.cursor[s] - Count[s] + i - 1) % Len(all)) + 1]]

=============================================================================
