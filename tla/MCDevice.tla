------------------------------- MODULE MCDevice -------------------------------
(* A small instance of Device for TLC.                                       *)
EXTENDS Device

CONSTANTS s1, s2, pad, eos, space, p1

Symmetry == Permutations({s1, s2})

Vocabulary == {pad, eos, space, p1} \cup (1..3) \X (1..3)

\* A left-padded prompt.
PaddedPrompt == <<pad, p1>>

\* The rows of one generate call: lengths up to MaxTokens, each row its own
\* tokens and an EOS, padded to the longest; one row has a token after its EOS, one outer whitespace.
Lengths == {<<0>>, <<2>>, <<3>>, <<0, 3>>, <<3, 1>>, <<1, 2, 0>>, <<3, 0, 2>>, <<2, 3, 1>>}
Row(c, n, width) == [i \in 1..width |-> IF i <= n THEN <<c, i>> ELSE IF i = n + 1 THEN eos ELSE pad]
Padded(ls) == [c \in DOMAIN ls |-> Row(c, ls[c], 1 + Max(Range(ls)))]
GeneratedRows == {Padded(ls) : ls \in Lengths} \cup {<< <<eos, <<1, 1>> >> >>, << <<space, <<1, 1>>, space, <<1, 2>>, space, eos>> >>}

Config(p, m, b, k) == [profile |-> p, mode |-> m, batch |-> b, chunk |-> k]
SmallConfigs == {Config("real", "tokenwise", 1, 1), Config("search", "candidate_chunks", 2, 2),
                 Config("verified", "tokenwise_deferred", 1, 1),
                 Config("categorical", "candidate_chunks", 2, 3),
                 Config("search", "full_prefix", 1, 1)}
=============================================================================
