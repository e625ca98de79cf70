---------------------------- MODULE MCRowExecutor ----------------------------
(* Instances of RowExecutor for TLC.                                       *)
EXTENDS RowExecutor, TLC

CONSTANTS a, b, w1, w2

UnreadyToo == {[cred |-> "none", model |-> "pinned", ready |-> r] : r \in BOOLEAN}

\* A judgment after a NULL; one the provider does not take; a bad row.
MixedChunks == {<<NullRow, a>>, <<b>>, <<BadRow>>}

Threads == Permutations(Workers)
=============================================================================
