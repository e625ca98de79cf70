----------------------------- MODULE LossyCache -----------------------------
(***************************************************************************)
(* What the executors rely on in a connection's result cache: a store that *)
(* may forget any entry at any call but never makes one up.  A hit returns *)
(* the result last inserted under that identity and not cleared since.     *)
(* ConnectionRuntime models the cache this way; JudgmentCache implements   *)
(* it.                                                                     *)
(***************************************************************************)
EXTENDS Naturals, FiniteSets

CONSTANTS Ids, Results, NoId

VARIABLES
  store,   \* identity -> result
  reply    \* what the last call returned

Keep(D) == [i \in D |-> store[i]]

Init ==
  /\ store = [i \in {} |-> i]
  /\ reply = [op |-> "none"]

Hit(id) ==
  \E D \in SUBSET DOMAIN store :
    /\ id \in D
    /\ store' = Keep(D)
    /\ reply' = [op |-> "hit", id |-> id, result |-> store[id]]

\* NoId stands for a judgment without a cache identity.
Miss(id) ==
  \E D \in SUBSET (DOMAIN store) :
    /\ store' = Keep(D)
    /\ reply' = [op |-> "miss", id |-> id]

Accept(id, result) ==
  \E D \in SUBSET (DOMAIN store \ {id}) :
    /\ store' = [i \in D \cup {id} |-> IF i = id THEN result ELSE store[i]]
    /\ reply' = [op |-> "accept", id |-> id, result |-> result]

Refuse(id) ==
  \E D \in SUBSET DOMAIN store :
    /\ store' = Keep(D)
    /\ reply' = [op |-> "refuse", id |-> id]

\* Clearing empties the store and reports no more than was in it.
Clear ==
  \E n \in 0..Cardinality(DOMAIN store) :
    /\ store' = Keep({})
    /\ reply' = [op |-> "clear", count |-> n]

Count ==
  \E D \in SUBSET DOMAIN store :
    /\ store' = Keep(D)
    /\ reply' = [op |-> "len", count |-> Cardinality(D)]

Next ==
  \/ \E id \in Ids : Hit(id) \/ Refuse(id)
  \/ \E id \in Ids \cup {NoId} : Miss(id)
  \/ \E id \in Ids, r \in Results : Accept(id, r)
  \/ Clear
  \/ Count

Spec == Init /\ [][Next]_<<store, reply>>
=============================================================================
