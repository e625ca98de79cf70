--------------------------- MODULE MCBatchExecutor ---------------------------
(* Instances of BatchExecutor for TLC.                                     *)
EXTENDS BatchExecutor, TLC

CONSTANTS a, b, c, d, w1, w2

PerModel == {[cred |-> "none", model |-> m, ready |-> TRUE] : m \in Models}
UnreadyToo == {[cred |-> "none", model |-> "pinned", ready |-> r] : r \in BOOLEAN}

\* a, b and d share a question, c asks another.
MCQuestion == [k \in Keys |-> IF k = c THEN "other" ELSE "same"]
EvenSize == [k \in Keys |-> 2]
HeavySize == [k \in Keys |-> IF k = c THEN 5 ELSE 2]

\* Two judgments in both orders, and one too large after another; two
\* questions mixed, with a NULL and a duplicate; a judgment with and without
\* another after it.
CrossedChunks == {<<a, b>>, <<b, a>>, <<b, c>>}
MixedChunks == {<<a, c, NullRow, b, a, d>>, <<b, a>>, <<BadRow>>}
NestedChunks == {<<a, c>>, <<a>>}

Threads == Permutations(Workers)
=============================================================================
