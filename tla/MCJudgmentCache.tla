--------------------------- MODULE MCJudgmentCache ---------------------------
(* Instances of JudgmentCache for TLC.                                     *)
EXTENDS JudgmentCache

CONSTANTS i1, i2, i3, r1, r2

\* One identity weighs twice the others.
MCWeight == [i \in Ids |-> IF i = i3 THEN 2 ELSE 1]

\* Settings that differ in every limit, one that no entry outlives, one of
\* the heaviest entry's size, one whose expiry the clock cannot represent,
\* and an invalid one.
MCPolicies == {[max_entries |-> 2, max_bytes |-> 3, ttl |-> 2],
               [max_entries |-> 3, max_bytes |-> 4, ttl |-> 1],
               [max_entries |-> 2, max_bytes |-> 1, ttl |-> 9],
               [max_entries |-> 0, max_bytes |-> 4, ttl |-> 2]}

\* The two light identities are alike, and so are the results.
Alike == {p @@ q : p \in Permutations({i1, i2}), q \in Permutations({r1, r2})}
=============================================================================
