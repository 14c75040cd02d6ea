------------------------------- MODULE Scoring -------------------------------
(***************************************************************************)
(* What a policy call reports as the raw score of a token                  *)
(* (gpu/gpu_runtime/real_backend.py:279-471, qwen35_backend.py:308-328).   *)
(*                                                                         *)
(* A forward pass over input tokens, on top of the KV cache of the passes  *)
(* before it, gives one vector of logits per position.  A score is then a  *)
(* record of the token it is reported for, the token whose logit was read  *)
(* and the unmasked tokens the logits depend on; the numbers follow from   *)
(* these.  Pad stands for a masked position.                               *)
(***************************************************************************)
EXTENDS Naturals, SequencesExt

CONSTANTS
    Tokens,       \* what a sequence is made of, Pad included
    Prompt, Pad, Eos, Space

\* A masked position is a token of the input like any other, and the prompt may
\* have some.
ASSUME ScoringAssumption == Pad \in Tokens /\ Prompt \in Seq(Tokens)

\* Masked positions take no part in a forward pass; the text of a row has no EOS.
Without(seq, token) ==
    FlattenSeq([i \in DOMAIN seq |-> IF seq[i] = token THEN << >> ELSE <<seq[i]>>])

Score(reported, read, input) ==
    [token |-> reported, of |-> read, given |-> Without(input, Pad)]

\* What every mode has to report: log P(token i | prompt and tokens before i).
CausalRow(tokens) ==
    [i \in DOMAIN tokens |-> Score(tokens[i], tokens[i], Prompt \o SubSeq(tokens, 1, i - 1))]

\* The decisions of a generated row: everything no EOS comes before.
Upto(row) == SubSeq(row, 1, Max({k \in 0..Len(row) : \A i \in 1..(k - 1) : row[i] # Eos}))

\* A generated row counts up to its first EOS, that decision included; only
\* padding may follow it.
FirstEos(row) == Min({i \in DOMAIN row : row[i] = Eos} \cup {Len(row)})
Trimmed(row)  == SubSeq(row, 1, FirstEos(row))
WellEnded(row) == \A i \in DOMAIN row : i > FirstEos(row) => row[i] = Pad

-----------------------------------------------------------------------------
(* tokenwise and tokenwise_deferred: one forward pass per token.           *)

TokenwiseRow(tokens) ==
    LET cached[i \in DOMAIN tokens] ==
            IF i = 1 THEN Prompt ELSE Append(cached[i - 1], tokens[i - 1])
    IN  [i \in DOMAIN tokens |-> Score(tokens[i], tokens[i], cached[i])]

\* The scores of all rows in one vector, cut up again by a cursor.
DeferredRows(rows) ==
    LET scores == FlattenSeq([c \in DOMAIN rows |-> TokenwiseRow(rows[c])])
        cursor[c \in DOMAIN rows] ==
            IF c = 1 THEN 0 ELSE cursor[c - 1] + Len(rows[c - 1])
    IN  [c \in DOMAIN rows |->
            [i \in DOMAIN rows[c] |-> [scores[cursor[c] + i] EXCEPT !.token = rows[c][i]]]]

-----------------------------------------------------------------------------
(* candidate_chunks: nonempty rows in batches, tokens in chunks.           *)

\* The longest row of the batch row c is scored in.
Longest(rows, batch, c) ==
    LET place(d) == Cardinality({e \in 1..(d - 1) : rows[e] # << >>})
        mates == {d \in DOMAIN rows : rows[d] # << >> /\ place(d) \div batch = place(c) \div batch}
    IN  Max({Len(rows[d]) : d \in mates})

\* What the chunk at start feeds for one row: the last target never enters the
\* cache, a row that ends early feeds masked positions.
FedFromStart(tokens, start, width) ==
    LET count == IF start = 0 THEN width - 1 ELSE width
        actual == SubSeq(tokens, start + 1, Min({start + count, Len(tokens) - 1}))
    IN  [i \in 1..count |-> IF i <= Len(actual) THEN actual[i] ELSE Pad]
Fed(tokens, start, width) ==
    LET first  == IF start = 0 THEN 0 ELSE start - 1
        count  == IF start = 0 THEN width - 1 ELSE width
        actual == SubSeq(tokens, first + 1, Min({first + count, Len(tokens) - 1}))
    IN  [i \in 1..count |-> IF i <= Len(actual) THEN actual[i] ELSE Pad]

\* The retained logits of chunk k are those of its last positions.
ChunkedRow(tokens, longest, chunk) ==
    LET chunks == (longest + chunk - 1) \div chunk
        width(k) == Min({chunk, longest - (k - 1) * chunk})
        input(k) == (IF k = 1 THEN Prompt ELSE << >>) \o Fed(tokens, (k - 1) * chunk, width(k))
        cache[k \in 1..chunks] == IF k = 1 THEN << >> ELSE cache[k - 1] \o input(k - 1)
        target(k) == SubSeq(tokens, (k - 1) * chunk + 1,
                            Min({(k - 1) * chunk + width(k), Len(tokens)}))
        scored(k) == [j \in DOMAIN target(k) |->
            Score(target(k)[j], target(k)[j],
                  cache[k] \o SubSeq(input(k), 1, Len(input(k)) - width(k) + j))]
    IN  FlattenSeq([k \in 1..chunks |-> scored(k)])

ChunkedRows(rows, batch, chunk) ==
    [c \in DOMAIN rows |->
        IF rows[c] = << >> THEN << >>
        ELSE ChunkedRow(rows[c], Longest(rows, batch, c), chunk)]

-----------------------------------------------------------------------------
(* full_prefix, the Qwen backend: the text of the action, its EOS and outer *)
(* whitespace dropped, is encoded again and scored in one pass.             *)

Stripped(row) ==
    LET text == {i \in DOMAIN row : row[i] # Space}
    IN  IF text = {} THEN << >> ELSE SubSeq(row, Min(text), Max(text))

Kept(config, row) ==
    IF config.mode = "full_prefix"
    THEN Stripped(Without(Trimmed(row), Eos)) ELSE Trimmed(row)

FullPrefixRow(tokens) ==
    LET input == Prompt \o tokens
    IN  [i \in DOMAIN tokens |->
            Score(tokens[i], tokens[i], SubSeq(input, 1, Len(input) - Len(tokens) - 1 + i))]

Rows(config, rows) ==
    CASE config.mode = "tokenwise" -> [c \in DOMAIN rows |-> TokenwiseRow(rows[c])]
      [] config.mode = "tokenwise_deferred" -> DeferredRows(rows)
      [] config.mode = "candidate_chunks" -> ChunkedRows(rows, config.batch, config.chunk)
      [] config.mode = "full_prefix" -> [c \in DOMAIN rows |-> FullPrefixRow(rows[c])]
=============================================================================
