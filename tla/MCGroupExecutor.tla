--------------------------- MODULE MCGroupExecutor ---------------------------
(* Instances of GroupExecutor for TLC.                                     *)
EXTENDS GroupExecutor, TLC

CONSTANTS a, b, c, d, w1, w2

\* Frozen contexts: one per model; one that differs in the model and
\* one in the credential; one whose provider
\* could not be built.
PerModel == {[cred |-> "none", model |-> m, ready |-> TRUE] : m \in Models}
EachOther == {[cred |-> "none", model |-> "pinned", ready |-> TRUE],
              [cred |-> "key", model |-> "pinned", ready |-> TRUE],
              [cred |-> "none", model |-> "alias", ready |-> TRUE]}
UnreadyToo == {[cred |-> "none", model |-> "pinned", ready |-> r] : r \in BOOLEAN}

\* One judgment, and its duplicate around a NULL; two judgments in both
\* orders; every sort of row.
SharedChunks == {<<a>>, <<a, NullRow, a>>}
CrossedChunks == {<<a, b>>, <<b, a>>}
OneJudgment == {<<a>>}
EverySort == {<<a, NullRow, b>>, <<b, a>>, <<c>>, <<d>>, <<BadRow, a>>, <<NullRow>>}

Threads == Permutations(Workers)
=============================================================================
