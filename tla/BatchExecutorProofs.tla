------------------------- MODULE BatchExecutorProofs -------------------------
(***************************************************************************)
(* Proofs about BatchExecutor, for any number of threads, chunks, queries  *)
(* and questions, any sizes and limits, and any order and loss of answers  *)
(* in a response.                                                          *)
(*                                                                         *)
(* The first invariant says what a thread's locals hold where: which       *)
(* groups are led, followed, unsent and under way, and which entry is      *)
(* whose (TypeInv).  On it rest the permit pool, the ownership of entries  *)
(* (FlightInv), the limits of a request, the answers (AnswerInv), and the  *)
(* counts: what is counted and what is still in some thread's hands make   *)
(* up what was read, as long as no thread is bound to fail (BalanceInv).   *)
(***************************************************************************)
EXTENDS BatchExecutor, RuntimeLemmas, CountingLemmas

-----------------------------------------------------------------------------
(* What a thread's locals hold.                                            *)

\* In the claiming loop; there with an entry of its own to settle; with a
\* batch under way; with answers in hand.
ClaimLabels == {"claim", "flag", "join_flag", "lookup", "hit", "hit_complete"}
OwningLabels == {"flag", "lookup", "hit", "hit_complete"}
SendLabels == {"acquire", "attempt", "call", "response", "release", "insert",
               "settle_stored", "settle", "failed_request",
               "provider_failure", "fail_leaders"}
SettleLabels == {"insert", "settle_stored", "settle"}
HitLabels == {"hit", "hit_complete"}
BeforeClaims == {"input", "rows"}

LocalTypes ==
  /\ pc \in [Workers -> Labels]
  /\ pos \in [Workers -> Nat] /\ entry \in [Workers -> Nat]
  /\ DOMAIN leaders = Workers /\ DOMAIN followers = Workers
  /\ DOMAIN todo = Workers /\ DOMAIN batch = Workers
  /\ DOMAIN reply = Workers /\ DOMAIN answers = Workers
  /\ DOMAIN out = Workers

\* Groups are claimed in order, and led or followed once they are.
ClaimShape(w) ==
  /\ DOMAIN leaders[w] \subseteq Leads(chunk[w])
  /\ DOMAIN followers[w] \subseteq Leads(chunk[w])
  /\ pc[w] \in BeforeClaims => DOMAIN leaders[w] \cup DOMAIN followers[w] = {}
  /\ pc[w] \in ClaimLabels =>
       /\ pos[w] \in Leads(chunk[w])
       /\ \A i \in DOMAIN leaders[w] \cup DOMAIN followers[w] : i < pos[w]

\* What is unsent or under way is led, and nothing is both.
SendShape(w) ==
  /\ todo[w] \cup batch[w] \subseteq DOMAIN leaders[w]
  /\ todo[w] \cap batch[w] = {}
  /\ batch[w] # {} <=> pc[w] \in SendLabels
  /\ pc[w] \in ClaimLabels \cup {"plan"} \cup SendLabels \/ todo[w] = {}

\* Answers are there where they are used, and nowhere else.
AnswerShape(w) ==
  /\ pc[w] \in HitLabels => answers[w][pos[w]] \in Answer
  /\ pc[w] \in SettleLabels \/ (pc[w] = "release" /\ answers[w] # EmptyMap) =>
       \A i \in batch[w] : answers[w][i] \in Answer
  /\ pc[w] \notin HitLabels \cup SettleLabels \cup {"release"} =>
       answers[w] = EmptyMap
  /\ pc[w] = "response" => reply[w].labels \in Seq(Nat) /\ reply[w].val \in Values

\* The entries a thread holds are entries of its groups' identities.
Linked(w) ==
  /\ pc[w] \in ClaimLabels \ {"claim"} =>
       entry[w] \in DOMAIN slots /\ slots[entry[w]].id = IdentityOf(w, pos[w])
  /\ \A i \in DOMAIN leaders[w] :
       /\ leaders[w][i] \in DOMAIN slots
       /\ slots[leaders[w][i]].id = IdentityOf(w, i)
  /\ \A i \in DOMAIN followers[w] :
       /\ followers[w][i] \in DOMAIN slots
       /\ slots[followers[w][i]].id = IdentityOf(w, i)

Shaped(w) == ClaimShape(w) /\ SendShape(w) /\ AnswerShape(w) /\ Linked(w)

MapMatches == \A i \in DOMAIN entries : slots[entries[i]].id = i

TypeInv ==
  /\ RuntimeTypeOK /\ TaskTypeOK /\ LocalTypes /\ MapMatches
  /\ \A w \in Workers : Shaped(w)

\* The data of another thread.
Untouched(v) ==
  /\ pc'[v] = pc[v] /\ scope'[v] = scope[v] /\ ctx'[v] = ctx[v]
  /\ cscope'[v] = cscope[v] /\ chunk'[v] = chunk[v]
  /\ pos'[v] = pos[v] /\ entry'[v] = entry[v]
  /\ leaders'[v] = leaders[v] /\ followers'[v] = followers[v]
  /\ todo'[v] = todo[v] /\ batch'[v] = batch[v]
  /\ reply'[v] = reply[v] /\ answers'[v] = answers[v] /\ out'[v] = out[v]

\* The variables that hold the locals are functions of the threads.
Domains ==
  /\ pc = [w \in Workers |-> pc[w]] /\ pos = [w \in Workers |-> pos[w]]
  /\ entry = [w \in Workers |-> entry[w]]
  /\ DOMAIN leaders = Workers /\ DOMAIN followers = Workers
  /\ DOMAIN todo = Workers /\ DOMAIN batch = Workers
  /\ DOMAIN reply = Workers /\ DOMAIN answers = Workers
  /\ DOMAIN out = Workers


-----------------------------------------------------------------------------
(* Groups and identities.                                                  *)

\* The types of a thread's task.
LEMMA TaskTypes ==
  ASSUME TaskTypeOK, NEW w \in Workers
  PROVE  /\ chunk[w] \in Chunks \cup {<< >>}
         /\ ctx[w].model \in Models /\ ctx[w].cred \in Creds
         /\ cscope[w] \in Nat /\ scope[w] \in Nat
  <1>1. ctx[w] \in [cred : Creds, model : Models, ready : BOOLEAN]
    BY ThreadAssumption DEF TaskTypeOK
  <1>2. QED
    BY <1>1 DEF TaskTypeOK

\* The groups of a chunk are numbers of rows with something to judge, each
\* with a content of its own.
LEMMA LeadsAreApart ==
  ASSUME TaskTypeOK, NEW w \in Workers
  PROVE  /\ Leads(chunk[w]) \subseteq Nat
         /\ Leads(chunk[w]) \subseteq JudgedRows(chunk[w])
         /\ IsFiniteSet(Leads(chunk[w]))
         /\ \A i \in Leads(chunk[w]) : chunk[w][i] \in Keys
         /\ \A i, j \in Leads(chunk[w]) : chunk[w][i] = chunk[w][j] => i = j
  <1>1. chunk[w] \in Chunks \cup {<< >>}
    BY DEF TaskTypeOK
  <1>2. /\ JudgedRows(chunk[w]) \subseteq Nat
        /\ Leads(chunk[w]) \subseteq JudgedRows(chunk[w])
        /\ \A i \in JudgedRows(chunk[w]) : chunk[w][i] \in Keys
    BY <1>1, RowNumbers
  <1>3. IsFiniteSet(Leads(chunk[w]))
    BY <1>1, RowPartition
  <1>4. ASSUME NEW i \in Leads(chunk[w]), NEW j \in Leads(chunk[w]),
               chunk[w][i] = chunk[w][j]
        PROVE  i = j
    <2>1. ~(i < j) /\ ~(j < i)
      BY <1>4 DEF Leads, JudgedRows
    <2>2. i \in Nat /\ j \in Nat
      BY <1>2
    <2>3. QED
      BY <2>1, <2>2
  <1>5. QED
    BY <1>2, <1>3, <1>4

\* The identities of a thread's groups are well formed and apart.
LEMMA IdentityTypes ==
  ASSUME TaskTypeOK, NEW w \in Workers, NEW i \in Leads(chunk[w])
  PROVE  /\ IdentityOf(w, i) \in Identity
         /\ CacheIdentityOf(w, i) \in CacheIdentity
         /\ \A j \in Leads(chunk[w]) :
              IdentityOf(w, i) = IdentityOf(w, j) => i = j
  <1>1. chunk[w][i] \in Keys
    BY LeadsAreApart
  <1>2. /\ IdentityOf(w, i) \in Identity
        /\ CacheIdentityOf(w, i) \in CacheIdentity
    BY <1>1, TaskTypes DEF IdentityOf, CacheIdentityOf, Identity, CacheIdentity
  <1>3. ASSUME NEW j \in Leads(chunk[w]), IdentityOf(w, i) = IdentityOf(w, j)
        PROVE  i = j
    <2>1. IdentityOf(w, i).key = IdentityOf(w, j).key
      BY <1>3
    <2>2. chunk[w][i] = chunk[w][j]
      BY <2>1 DEF IdentityOf
    <2>3. QED
      BY <2>2, LeadsAreApart
  <1>4. QED
    BY <1>2, <1>3

\* The first of some groups is one of them, and none comes before it.
LEMMA FirstGroup ==
  ASSUME TaskTypeOK, NEW w \in Workers, NEW S \in SUBSET Leads(chunk[w]), S # {}
  PROVE  Min(S) \in S /\ \A i \in S : Min(S) <= i
  <1>1. S \in SUBSET Nat
    BY LeadsAreApart
  <1>2. QED
    BY <1>1, SmallestNumber

-----------------------------------------------------------------------------
(* Responses.                                                              *)

\* requests_for_groups gives the judgments of a batch keys of their own,
\* below their number.
LEMMA RequestKeys ==
  ASSUME NEW w \in Workers, batch[w] \in SUBSET Nat, IsFiniteSet(batch[w])
  PROVE  /\ Cardinality(batch[w]) \in Nat
         /\ \A i \in batch[w] :
              /\ RequestKey(w, i) \in Nat
              /\ RequestKey(w, i) < Cardinality(batch[w])
         /\ \A i, j \in batch[w] : RequestKey(w, i) = RequestKey(w, j) => i = j
  <1> DEFINE B == batch[w]
             before(i) == {j \in B : j < i}
  <1>1. /\ Cardinality(B) \in Nat
        /\ \A i \in B : RankIn(B, i) \in 1..Cardinality(B)
        /\ \A i, j \in B : i < j => RankIn(B, i) < RankIn(B, j)
    BY EveryRank
  <1>2. ASSUME NEW i \in B
        PROVE  /\ RequestKey(w, i) \in Nat
               /\ RankIn(B, i) = RequestKey(w, i) + 1
    <2>1. IsFiniteSet(before(i)) /\ Cardinality(before(i)) \in Nat
      BY FS_Subset, FS_CardinalityType
    <2>2. i \notin before(i) /\ {j \in B : j <= i} = before(i) \cup {i}
      <3>1. i \in Nat /\ \A j \in B : j \in Nat
        BY <1>2
      <3>2. QED
        BY <3>1
    <2> HIDE DEF before
    <2>3. Cardinality(before(i) \cup {i}) = Cardinality(before(i)) + 1
      BY <2>1, <2>2, FS_AddElement
    <2>4. RequestKey(w, i) = Cardinality(before(i))
      BY DEF RequestKey, before
    <2>5. QED
      BY <2>1, <2>2, <2>3, <2>4 DEF RankIn
  <1>3. ASSUME NEW i \in B
        PROVE  RequestKey(w, i) < Cardinality(B)
    <2>1. RankIn(B, i) <= Cardinality(B)
      BY <1>1
    <2>2. QED
      BY <1>1, <1>2, <2>1
  <1>4. ASSUME NEW i \in B, NEW j \in B, RequestKey(w, i) = RequestKey(w, j)
        PROVE  i = j
    <2>1. RankIn(B, i) = RankIn(B, j) /\ RankIn(B, i) \in Nat
      BY <1>2, <1>4
    <2>2. ~(i < j) /\ ~(j < i)
      BY <1>1, <2>1
    <2>3. i \in Nat /\ j \in Nat
      OBVIOUS
    <2>4. QED
      BY <2>2, <2>3
  <1>5. QED
    BY <1>1, <1>2, <1>3, <1>4

\* As many different labels below n as there are: each of them is used.
LEMMA EveryLabelUsed ==
  ASSUME NEW labels \in Seq(Nat), NEW n \in Nat, Len(labels) = n,
         \A i, j \in DOMAIN labels : labels[i] = labels[j] => i = j,
         \A i \in DOMAIN labels : labels[i] < n,
         NEW k \in Nat, k < n
  PROVE  \E p \in DOMAIN labels : labels[p] = k
  <1> DEFINE D == 1..n
             N == 0..(n - 1)
             R == {labels[p] : p \in D}
             f == [p \in D |-> labels[p]]
  <1>1. DOMAIN labels = D /\ \A p \in D : labels[p] \in Nat
    OBVIOUS
  <1>2. R \subseteq N
    BY <1>1
  <1>3. /\ IsFiniteSet(D) /\ Cardinality(D) = n
        /\ IsFiniteSet(N) /\ Cardinality(N) = n
    <2>1. 1 \in Int /\ n \in Int /\ 0 \in Int /\ n - 1 \in Int
      OBVIOUS
    <2>2. /\ IsFiniteSet(D) /\ Cardinality(D) = IF 1 > n THEN 0 ELSE n - 1 + 1
          /\ IsFiniteSet(N)
          /\ Cardinality(N) = IF 0 > n - 1 THEN 0 ELSE n - 1 - 0 + 1
      BY <2>1, FS_Interval
    <2>3. QED
      BY <2>2
  <1>4. Cardinality(R) = n
    <2>1. f \in [D -> R] /\ \A y \in R : \E p \in D : f[p] = y
      OBVIOUS
    <2>2. \A p, q \in D : f[p] = f[q] => p = q
      BY <1>1
    <2> HIDE DEF D, R, f
    <2>3. f \in Bijection(D, R)
      BY <2>1, <2>2 DEF Bijection, Injection, Surjection, IsInjective
    <2>4. ExistsBijection(D, R)
      BY <2>3 DEF ExistsBijection
    <2>5. QED
      BY <1>3, <2>4, FS_Bijection
  <1>5. R = N
    <2> HIDE DEF D, N, R, f
    <2>1. QED
      BY <1>2, <1>3, <1>4, FS_Subset
  <1>6. k \in N
    OBVIOUS
  <1>7. QED
    BY <1>1, <1>5, <1>6

\* In a response that validate_batch_result accepts, a group's answer is the
\* service's answer to that group, whatever order the answers came in.
LEMMA AnswerIsOwn ==
  ASSUME NEW w \in Workers, batch[w] \in SUBSET Nat, IsFiniteSet(batch[w]),
         reply[w].labels \in Seq(Nat),
         Valid(reply[w], Cardinality(batch[w])), NEW i \in batch[w]
  PROVE  AnswerFor(w, i) =
           [key |-> chunk[w][i], model |-> ctx[w].model, cred |-> ctx[w].cred,
            query |-> scope[w], val |-> reply[w].val]
  <1> DEFINE labels == reply[w].labels
             k == RequestKey(w, i)
             place == CHOOSE p \in DOMAIN labels : labels[p] = k
             own == CHOOSE j \in batch[w] : RequestKey(w, j) = k
  <1>1. \E p \in DOMAIN labels : labels[p] = k
    <2>1. /\ Cardinality(batch[w]) \in Nat /\ k \in Nat
          /\ k < Cardinality(batch[w])
      BY RequestKeys
    <2>2. /\ Len(labels) = Cardinality(batch[w])
          /\ \A p, q \in DOMAIN labels : labels[p] = labels[q] => p = q
          /\ \A p \in DOMAIN labels : labels[p] < Cardinality(batch[w])
      BY DEF Valid
    <2> HIDE DEF k, labels
    <2>3. labels \in Seq(Nat)
      BY DEF labels
    <2>4. QED
      BY <2>1, <2>2, <2>3, EveryLabelUsed
  <1>2. place \in DOMAIN labels /\ labels[place] = k
    BY <1>1
  <1>3. own = i
    <2>1. own \in batch[w] /\ RequestKey(w, own) = k
      OBVIOUS
    <2> HIDE DEF own
    <2>2. QED
      BY <2>1, RequestKeys
  <1>4. AnswerFor(w, i) = ServiceAnswer(w, labels[place])
    BY DEF AnswerFor
  <1>5. ServiceAnswer(w, k) =
          [key |-> chunk[w][own], model |-> ctx[w].model, cred |-> ctx[w].cred,
           query |-> scope[w], val |-> reply[w].val]
    BY DEF ServiceAnswer
  <1> HIDE DEF own, place, k, labels
  <1>6. QED
    BY <1>2, <1>3, <1>4, <1>5

-----------------------------------------------------------------------------
(* What a step does to the locals.                                         *)

\* An early return unsets everything.
LEMMA FailMoves ==
  ASSUME Domains, NEW w \in Workers, Fail(w)
  PROVE  /\ Domains'
         /\ pc'[w] = "failed" /\ pos'[w] = 0 /\ entry'[w] = 0
         /\ leaders'[w] = EmptyMap /\ followers'[w] = EmptyMap
         /\ todo'[w] = {} /\ batch'[w] = {}
         /\ answers'[w] = EmptyMap /\ out'[w] = EmptyMap
         /\ \A v \in Workers : v # w =>
              /\ pc'[v] = pc[v] /\ pos'[v] = pos[v] /\ entry'[v] = entry[v]
              /\ leaders'[v] = leaders[v] /\ followers'[v] = followers[v]
              /\ todo'[v] = todo[v] /\ batch'[v] = batch[v]
              /\ reply'[v] = reply[v] /\ answers'[v] = answers[v]
              /\ out'[v] = out[v]
  BY DEF Fail, Reset, Goto, Domains

\* The claiming loop goes on with the next group, or ends.
LEMMA NextClaimMoves ==
  ASSUME TaskTypeOK, Domains, NEW w \in Workers, NextClaim(w)
  PROVE  /\ pc' = [v \in Workers |-> pc'[v]]
         /\ pos' = [v \in Workers |-> pos'[v]]
         /\ \A v \in Workers : v # w => pc'[v] = pc[v] /\ pos'[v] = pos[v]
         /\ \/ /\ pc'[w] = "plan" /\ pos'[w] = pos[w]
               /\ \A i \in Leads(chunk[w]) : ~(i > pos[w])
            \/ /\ pc'[w] = "claim" /\ pos'[w] \in Leads(chunk[w])
               /\ pos'[w] > pos[w]
               /\ \A i \in Leads(chunk[w]) : i > pos[w] => pos'[w] <= i
  <1> DEFINE later == {i \in Leads(chunk[w]) : i > pos[w]}
  <1>1. CASE later = {}
    <2>1. Goto(w, "plan") /\ UNCHANGED pos
      BY <1>1 DEF NextClaim
    <2>2. QED
      BY <1>1, <2>1 DEF Goto, Domains
  <1>2. CASE later # {}
    <2>1. Goto(w, "claim") /\ pos' = [pos EXCEPT ![w] = Min(later)]
      BY <1>2 DEF NextClaim
    <2>2. Min(later) \in later /\ \A i \in later : Min(later) <= i
      <3>1. later \in SUBSET Leads(chunk[w])
        OBVIOUS
      <3> HIDE DEF later
      <3>2. QED
        BY <1>2, <3>1, FirstGroup
    <2>3. /\ Min(later) \in Leads(chunk[w]) /\ Min(later) > pos[w]
          /\ \A i \in Leads(chunk[w]) : i > pos[w] => Min(later) <= i
      BY <2>2
    <2> DEFINE next == Min(later)
    <2> HIDE DEF next
    <2>4. pos' = [pos EXCEPT ![w] = next] /\ pc' = [pc EXCEPT ![w] = "claim"]
      BY <2>1 DEF next, Goto
    <2>5. /\ next \in Leads(chunk[w]) /\ next > pos[w]
          /\ \A i \in Leads(chunk[w]) : i > pos[w] => next <= i
      BY <2>3 DEF next
    <2> HIDE DEF later
    <2>6. QED
      BY <2>4, <2>5 DEF Domains
  <1>3. QED
    BY <1>1, <1>2

\* A led group is added to those led and those to send.
LEMMA LeadMoves ==
  ASSUME TaskTypeOK, Domains, NEW w \in Workers, Lead(w)
  PROVE  /\ DOMAIN leaders' = Workers /\ DOMAIN todo' = Workers
         /\ leaders'[w] = With(leaders[w], pos[w], entry[w])
         /\ todo'[w] = todo[w] \cup {pos[w]}
         /\ \A v \in Workers : v # w =>
              leaders'[v] = leaders[v] /\ todo'[v] = todo[v]
         /\ NextClaim(w)
  BY DEF Lead, Domains

\* Threads write their own data only.
LEMMA OthersUntouched ==
  ASSUME TaskTypeOK, Domains, NEW w \in Workers, Start(w) \/ Step(w)
  PROVE  Domains' /\ \A v \in Workers : v # w => Untouched(v)
  <1>1. \A v \in Workers : v # w =>
          /\ chunk'[v] = chunk[v] /\ ctx'[v] = ctx[v]
          /\ cscope'[v] = cscope[v] /\ scope'[v] = scope[v]
    <2>1. CASE Start(w)
      BY <2>1, SMTT(30) DEF Start, TaskTypeOK
    <2>2. CASE Step(w)
      BY <2>2
         DEF Step, RecordInput, RecordRows, Claim, FetchFlag, Lookup, Hit,
             HitComplete, Plan, Acquire, Attempt, Call, Response, Release,
             Insert, Settle, FailedRequest, ProviderFailure, FailBatch, Wait,
             taskVars
    <2>3. QED
      BY <2>1, <2>2
  <1> DEFINE Rest(v) == /\ pc'[v] = pc[v] /\ pos'[v] = pos[v]
                        /\ entry'[v] = entry[v]
                        /\ leaders'[v] = leaders[v]
                        /\ followers'[v] = followers[v]
                        /\ todo'[v] = todo[v] /\ batch'[v] = batch[v]
                        /\ reply'[v] = reply[v] /\ answers'[v] = answers[v]
                        /\ out'[v] = out[v]
             Goal == Domains' /\ \A v \in Workers : v # w => Rest(v)
  <1> SUFFICES Goal
    BY <1>1 DEF Untouched
  <1>2. ASSUME Fail(w) PROVE Goal
    BY <1>2, FailMoves
  <1>3. CASE Start(w)
    BY <1>3 DEF Start, Reset, Goto, Domains
  <1>4. CASE RecordInput(w) \/ Hit(w) \/ Acquire(w) \/ Attempt(w)
               \/ Release(w) \/ Insert(w) \/ FailedRequest(w)
               \/ ProviderFailure(w)
    <2>1. UNCHANGED batchVars /\ \E label : Goto(w, label)
      BY <1>4 DEF RecordInput, Hit, Acquire, Attempt, Release, Insert,
                  FailedRequest, ProviderFailure
    <2>2. QED
      BY <2>1 DEF Goto, Domains, batchVars, claimVars, sendVars
  <1>5. CASE RecordRows(w)
    BY <1>5 DEF RecordRows, Goto, Domains, sendVars
  <1>6. CASE Claim(w)
    <2>1. CASE Fail(w)
      BY <1>2, <2>1
    <2>2. CASE ~Fail(w)
      BY <1>6, <2>2 DEF Claim, Goto, Domains, sendVars
    <2>3. QED
      BY <2>1, <2>2
  <1>7. CASE FetchFlag(w)
    <2>1. CASE Fail(w)
      BY <1>2, <2>1
    <2>2. CASE /\ followers' =
                       [followers EXCEPT ![w] = With(@, pos[w], entry[w])]
               /\ NextClaim(w)
               /\ UNCHANGED <<leaders, todo>>
               /\ UNCHANGED <<entry, batch, reply, answers, out>>
      BY <2>2, NextClaimMoves DEF Domains
    <2>3. CASE Lead(w) /\ UNCHANGED <<followers, entry, batch, reply, answers, out>>
      BY <2>3, NextClaimMoves, LeadMoves DEF Domains
    <2>4. CASE Goto(w, "lookup") /\ UNCHANGED batchVars
      BY <2>4 DEF Goto, Domains, batchVars, claimVars, sendVars
    <2>5. QED
      BY <1>7, <2>1, <2>2, <2>3, <2>4
         DEF FetchFlag, batchVars, claimVars, sendVars
  <1>8. CASE Lookup(w)
    <2>1. CASE Lead(w) /\ UNCHANGED <<followers, entry, batch, reply, answers, out>>
      BY <2>1, NextClaimMoves, LeadMoves DEF Domains
    <2>2. CASE ~(Lead(w) /\ UNCHANGED answers)
      BY <1>8, <2>2 DEF Lookup, Goto, Domains
    <2>3. QED
      BY <1>8, <2>1, <2>2 DEF Lookup
  <1>9. CASE HitComplete(w)
    <2>1. DOMAIN out' = Workers /\ \A v \in Workers : v # w => out'[v] = out[v]
      BY <1>9 DEF HitComplete, Expand, Domains
    <2>2. QED
      BY <1>9, <2>1, NextClaimMoves DEF HitComplete, Domains
  <1>10. CASE Plan(w)
    <2>1. CASE Fail(w)
      BY <1>2, <2>1
    <2>2. CASE Follow(w)
      BY <2>2 DEF Follow, Goto, Domains, batchVars, claimVars, sendVars
    <2>3. CASE Send(w)
      BY <2>3 DEF Send, Goto, Domains, claimVars
    <2>4. QED
      BY <1>10, <2>1, <2>2, <2>3 DEF Plan, TooLarge
  <1>11. CASE Call(w) \/ Response(w)
    <2>1. /\ UNCHANGED <<claimVars, todo, batch, out>>
          /\ \E label : Goto(w, label)
          /\ \/ UNCHANGED answers
             \/ \E a : answers' = [answers EXCEPT ![w] = a]
          /\ UNCHANGED reply \/ \E r : reply' = [reply EXCEPT ![w] = r]
      BY <1>11 DEF Call, Response
    <2>2. QED
      BY <2>1 DEF Goto, Domains, claimVars
  <1>12. CASE Settle(w)
    <2>1. DOMAIN out' = Workers /\ \A v \in Workers : v # w => out'[v] = out[v]
      BY <1>12 DEF Settle, Expand, Domains
    <2>2. QED
      BY <1>12, <2>1 DEF Settle, Goto, Domains, claimVars
  <1>13. CASE FailBatch(w)
    BY <1>2, <1>13 DEF FailBatch
  <1>14. CASE Wait(w)
    <2>1. CASE Fail(w)
      BY <1>2, <2>1
    <2>2. CASE ~Fail(w)
      <3>1. DOMAIN out' = Workers /\ \A v \in Workers : v # w => out'[v] = out[v]
        BY <1>14, <2>2 DEF Wait, Expand, Domains
      <3>2. QED
        BY <1>14, <2>2, <3>1 DEF Wait, Goto, Domains, sendVars
    <2>3. QED
      BY <2>1, <2>2
  <1>15. QED
    BY <1>3, <1>4, <1>5, <1>6, <1>7, <1>8, <1>9, <1>10, <1>11, <1>12, <1>13,
       <1>14 DEF Step

-----------------------------------------------------------------------------
(* Types of the connection's state.                                        *)

\* A batch is a finite set of the thread's groups; if there is one, so is
\* its first.
LEMMA BatchGroups ==
  ASSUME TypeInv, NEW w \in Workers
  PROVE  /\ batch[w] \in SUBSET Leads(chunk[w]) /\ batch[w] \in SUBSET Nat
         /\ IsFiniteSet(batch[w]) /\ Cardinality(batch[w]) \in Nat
         /\ pc[w] \in SendLabels =>
              Min(batch[w]) \in batch[w] /\ \A i \in batch[w] : Min(batch[w]) <= i
  <1>1. TaskTypeOK /\ Shaped(w)
    BY DEF TypeInv
  <1>2. batch[w] \in SUBSET Leads(chunk[w])
    BY <1>1 DEF Shaped, ClaimShape, SendShape
  <1>3. /\ batch[w] \in SUBSET Nat
        /\ IsFiniteSet(batch[w]) /\ Cardinality(batch[w]) \in Nat
    BY <1>1, <1>2, LeadsAreApart, FS_Subset, FS_CardinalityType
  <1>4. ASSUME pc[w] \in SendLabels
        PROVE  Min(batch[w]) \in batch[w] /\ \A i \in batch[w] : Min(batch[w]) <= i
    <2>1. batch[w] # {}
      BY <1>1, <1>4 DEF Shaped, SendShape
    <2>2. QED
      BY <1>1, <1>2, <2>1, FirstGroup
  <1>5. QED
    BY <1>2, <1>3, <1>4

\* Entries keep their identities, and the map leads to its identities.
EntriesKept ==
  /\ RuntimeTypeOK' /\ MapMatches'
  /\ DOMAIN slots \subseteq DOMAIN slots'
  /\ \A e \in DOMAIN slots : slots'[e].id = slots[e].id

\* Where entries stay as they are.
LEMMA EntriesUnchanged ==
  ASSUME TypeInv, RuntimeTypeOK',
         UNCHANGED entries \/ entries' = EmptyMap, UNCHANGED slots
  PROVE  EntriesKept
  BY DEF TypeInv, MapMatches, EntriesKept, EmptyMap

\* Where entries are settled.
LEMMA EntriesSettled ==
  ASSUME TypeInv, NEW E, NEW r \in Outcome, CompleteEntries(E, r),
         UNCHANGED <<queryVars, entries, permits, credVars, cache, counts>>
  PROVE  EntriesKept
  <1>1. /\ slots' \in Seq(QueryEntry)
        /\ DOMAIN slots' = DOMAIN slots
        /\ \A e \in DOMAIN slots : slots'[e].id = slots[e].id
    BY CompleteKeeps DEF TypeInv, RuntimeTypeOK
  <1>2. RuntimeTypeOK'
    BY <1>1 DEF TypeInv, RuntimeTypeOK, queryVars, credVars
  <1>3. MapMatches'
    BY <1>1 DEF TypeInv, RuntimeTypeOK, MapMatches
  <1>4. QED
    BY <1>1, <1>2, <1>3 DEF EntriesKept

\* Where an entry is made.
LEMMA EntryMade ==
  ASSUME TypeInv, NEW id \in Identity, NewEntry(id),
         UNCHANGED <<queryVars, permits, credVars, cache>>
  PROVE  EntriesKept
  <1>1. RuntimeTypeOK
    BY DEF TypeInv
  <1>2. /\ slots' \in Seq(QueryEntry)
        /\ Len(slots) + 1 \in DOMAIN slots'
        /\ DOMAIN slots' = DOMAIN slots \cup {Len(slots) + 1}
        /\ \A e \in DOMAIN slots : slots'[e] = slots[e]
        /\ slots'[Len(slots) + 1].id = id
        /\ DOMAIN entries' = DOMAIN entries \cup {id}
        /\ entries' = [i \in DOMAIN entries' |-> entries'[i]]
        /\ entries'[id] = Len(slots) + 1
        /\ \A i \in DOMAIN entries : i # id => entries'[i] = entries[i]
    BY <1>1, NewEntryKeeps
  <1>3. counts' \in QueryCounts
    BY ClaimCountsType DEF TypeInv, RuntimeTypeOK
  <1>4. /\ DOMAIN entries' \subseteq Identity
        /\ \A i \in DOMAIN entries' :
             entries'[i] \in DOMAIN slots' /\ slots'[entries'[i]].id = i
    BY <1>1, <1>2 DEF TypeInv, MapMatches, RuntimeTypeOK
  <1>5. RuntimeTypeOK'
    BY <1>1, <1>2, <1>3, <1>4 DEF RuntimeTypeOK, queryVars, credVars
  <1>6. QED
    BY <1>2, <1>4, <1>5 DEF EntriesKept, MapMatches

\* Every step of a thread keeps the connection's state well formed.
LEMMA RuntimeStep ==
  ASSUME TypeInv, NEW w \in Workers, Start(w) \/ Step(w)
  PROVE  EntriesKept /\ TaskTypeOK'
  <1>0. RuntimeTypeOK /\ TaskTypeOK /\ Shaped(w)
    BY DEF TypeInv
  <1>1. CASE Start(w)
    <2>1. PICK c \in Chunks, x \in Contexts :
            /\ chunk' = [chunk EXCEPT ![w] = c]
            /\ ctx' = [ctx EXCEPT ![w] = x]
            /\ cscope' = [cscope EXCEPT ![w] = CredentialScope(x.cred)]
            /\ UseCredential(x.cred)
      BY <1>1 DEF Start
    <2>2. x.cred \in Creds
      <3>1. x \in [cred : Creds, model : Models, ready : BOOLEAN]
        BY ThreadAssumption
      <3>2. QED
        BY <3>1
    <2>3. CredentialScope(x.cred) \in Nat
      BY <1>0 DEF CredentialScope, RuntimeTypeOK
    <2>4. RuntimeTypeOK'
      BY <1>0, <1>1, <2>1, <2>2, <2>3
         DEF Start, UseCredential, RuntimeTypeOK, queryVars, entryVars, EmptyMap
    <2>5. QueryScope \in Nat
      BY <1>0 DEF QueryScope, RuntimeTypeOK
    <2>6. TaskTypeOK'
      BY <1>0, <1>1, <2>1, <2>3, <2>5 DEF Start, TaskTypeOK
    <2>7. UNCHANGED <<entries, slots>>
      BY <1>1 DEF Start, entryVars
    <2>8. QED
      BY <2>4, <2>6, <2>7, EntriesUnchanged
  <1>2. CASE RecordInput(w) \/ RecordRows(w)
    <2>1. /\ Len(chunk[w]) \in Nat
          /\ Cardinality(NullRows(chunk[w])) \in Nat
          /\ Cardinality(JudgedRows(chunk[w])) \in Nat
          /\ Cardinality(Leads(chunk[w])) \in Nat
      BY <1>0, RowCardinalities DEF TaskTypeOK
    <2>2. counts' \in QueryCounts
      BY <1>0, <1>2, <2>1, OptimizedRowsType
         DEF RecordInput, RecordRows, RuntimeTypeOK
    <2>3. UNCHANGED <<queryVars, entryVars, permits, credVars, cache, taskVars,
                      ledger>>
      BY <1>2 DEF RecordInput, RecordRows
    <2>4. RuntimeTypeOK'
      BY <1>0, <2>2, <2>3, RuntimeFrame DEF RuntimeTypeOK
    <2>5. QED
      BY <1>0, <2>3, <2>4, EntriesUnchanged DEF TaskTypeOK, taskVars, entryVars
  <1>3. CASE Claim(w)
    <2>1. IdentityOf(w, pos[w]) \in Identity
      BY <1>0, <1>3, IdentityTypes DEF Claim, Shaped, ClaimShape, ClaimLabels
    <2>2. UNCHANGED <<queryVars, permits, credVars, cache, taskVars, ledger>>
      BY <1>3 DEF Claim
    <2>3. CASE UNCHANGED <<entryVars, counts>>
      <3>1. RuntimeTypeOK'
        BY <1>0, <2>2, <2>3, RuntimeFrame DEF RuntimeTypeOK
      <3>2. QED
        BY <1>0, <2>2, <2>3, <3>1, EntriesUnchanged
           DEF TaskTypeOK, taskVars, entryVars
    <2>4. CASE JoinEntry
      <3>1. counts' \in QueryCounts
        BY <1>0, <2>4, ClaimCountsType DEF RuntimeTypeOK
      <3>2. UNCHANGED entryVars
        BY <2>4 DEF JoinEntry, entryVars
      <3>3. RuntimeTypeOK'
        BY <1>0, <2>2, <3>1, <3>2, RuntimeFrame DEF RuntimeTypeOK
      <3>4. QED
        BY <1>0, <2>2, <3>2, <3>3, EntriesUnchanged
           DEF TaskTypeOK, taskVars, entryVars
    <2>5. CASE NewEntry(IdentityOf(w, pos[w]))
      <3>1. EntriesKept
        BY <2>1, <2>2, <2>5, EntryMade
      <3>2. QED
        BY <1>0, <2>2, <3>1 DEF TaskTypeOK, taskVars
    <2>6. QED
      BY <1>3, <2>3, <2>4, <2>5 DEF Claim
  <1>4. CASE FetchFlag(w) \/ Wait(w) \/ Call(w)
    <2>1. UNCHANGED <<runtimeVars, taskVars>>
      BY <1>4 DEF FetchFlag, Wait, Call
    <2>2. ledger' \in [0..MaxQueries -> [sent : Nat, billed : Nat]]
      <3>1. CASE FetchFlag(w) \/ Wait(w)
        BY <1>0, <3>1 DEF FetchFlag, Wait, TaskTypeOK
      <3>2. CASE Call(w)
        BY <1>0, <3>2, ServeType DEF Call
      <3>3. QED
        BY <1>4, <3>1, <3>2
    <2>3. RuntimeTypeOK'
      BY <1>0, <2>1, RuntimeFrame DEF RuntimeTypeOK, runtimeVars
    <2>4. QED
      BY <1>0, <2>1, <2>2, <2>3, EntriesUnchanged
         DEF TaskTypeOK, taskVars, runtimeVars, entryVars
  <1>5. CASE Lookup(w) \/ Insert(w)
    <2>1. /\ cache' = [i \in DOMAIN cache' |-> cache'[i]]
          /\ DOMAIN cache' \subseteq CacheIdentity
          /\ \A i \in DOMAIN cache' : cache'[i] \in Answer
      <3>1. CASE Lookup(w)
        BY <1>0, <3>1, CacheTypes DEF Lookup, RuntimeTypeOK
      <3>2. CASE Insert(w)
        <4>1. pc[w] = "insert" /\ pc[w] \in SendLabels
          BY <3>2 DEF Insert, SendLabels
        <4>2. /\ Min(batch[w]) \in Leads(chunk[w])
              /\ answers[w][Min(batch[w])] \in Answer
          BY <1>0, <4>1, BatchGroups DEF Shaped, AnswerShape, SettleLabels
        <4>3. /\ CacheIdentityOf(w, Min(batch[w])) \in CacheIdentity
              /\ CacheInsert(CacheIdentityOf(w, Min(batch[w])),
                             answers[w][Min(batch[w])])
          BY <1>0, <3>2, <4>2, IdentityTypes DEF Insert
        <4>4. QED
          BY <1>0, <4>2, <4>3, CacheTypes
      <3>3. QED
        BY <1>5, <3>1, <3>2
    <2>2. UNCHANGED <<queryVars, entryVars, permits, credVars, counts, taskVars,
                      ledger>>
      BY <1>5 DEF Lookup, Insert
    <2>3. RuntimeTypeOK'
      BY <1>0, <2>1, <2>2 DEF RuntimeTypeOK, queryVars, entryVars, credVars
    <2>4. QED
      BY <1>0, <2>2, <2>3, EntriesUnchanged DEF TaskTypeOK, taskVars, entryVars
  <1>6. CASE Hit(w) \/ Acquire(w) \/ Attempt(w) \/ Response(w) \/ Release(w)
               \/ FailedRequest(w) \/ ProviderFailure(w)
    <2>1. counts' \in QueryCounts
      <3>1. CASE Acquire(w) \/ Release(w)
        BY <1>0, <3>1 DEF Acquire, Release, RuntimeTypeOK
      <3>2. CASE Hit(w) \/ FailedRequest(w) \/ ProviderFailure(w)
        BY <1>0, <3>2, OneCountType
           DEF Hit, FailedRequest, ProviderFailure, RuntimeTypeOK
      <3>3. CASE Attempt(w)
        BY <1>0, <3>3, BatchGroups, AttemptType DEF Attempt, RuntimeTypeOK
      <3>4. CASE Response(w)
        BY <1>0, <3>4, ResponseType DEF Response, RuntimeTypeOK
      <3>5. QED
        BY <1>6, <3>1, <3>2, <3>3, <3>4
    <2>2. permits' \in Nat
      BY <1>0, <1>6, RuntimeAssumption
         DEF Hit, Acquire, Attempt, Response, Release, FailedRequest,
             ProviderFailure, TakePermit, DropPermit, RuntimeTypeOK
    <2>3. UNCHANGED <<queryVars, entryVars, credVars, cache, taskVars, ledger>>
      BY <1>6 DEF Hit, Acquire, Attempt, Response, Release, FailedRequest,
                  ProviderFailure
    <2>4. RuntimeTypeOK'
      BY <1>0, <2>1, <2>2, <2>3, RuntimeFrame
    <2>5. QED
      BY <1>0, <2>3, <2>4, EntriesUnchanged DEF TaskTypeOK, taskVars, entryVars
  <1>7. CASE HitComplete(w) \/ Settle(w) \/ Plan(w) \/ FailBatch(w)
    <2>1. UNCHANGED <<queryVars, entries, permits, credVars, cache, counts,
                      taskVars, ledger>>
      BY <1>7 DEF HitComplete, Settle, Plan, FailBatch
    <2>2. EntriesKept
      <3>1. CASE \E E, r : r \in Outcome /\ CompleteEntries(E, r)
        BY <2>1, <3>1, EntriesSettled
      <3>2. CASE HitComplete(w)
        BY <1>0, <3>1, <3>2
           DEF HitComplete, Shaped, AnswerShape, HitLabels, Outcome
      <3>3. CASE Settle(w)
        <4>1. pc[w] \in SettleLabels /\ pc[w] \in SendLabels
          BY <3>3 DEF Settle, SettleLabels, SendLabels
        <4>2. answers[w][Min(batch[w])] \in Answer
          BY <1>0, <4>1, BatchGroups DEF Shaped, AnswerShape
        <4>3. QED
          BY <3>1, <3>3, <4>2 DEF Settle, Outcome
      <3>4. CASE FailLeaders(w)
        BY <3>1, <3>4 DEF FailLeaders, Outcome
      <3>5. CASE UNCHANGED slots
        <4>1. RuntimeTypeOK'
          BY <1>0, <2>1, <3>5, RuntimeFrame DEF RuntimeTypeOK, entryVars
        <4>2. QED
          BY <2>1, <3>5, <4>1, EntriesUnchanged
      <3>6. QED
        BY <1>7, <3>2, <3>3, <3>4, <3>5
           DEF Plan, Follow, TooLarge, Send, FailBatch
    <2>3. QED
      BY <1>0, <2>1, <2>2 DEF TaskTypeOK, taskVars
  <1>8. QED
    BY <1>1, <1>2, <1>3, <1>4, <1>5, <1>6, <1>7 DEF Step

-----------------------------------------------------------------------------
(* A step keeps the locals in shape.                                       *)

\* What another thread holds stays what it was.
LEMMA OthersShaped ==
  ASSUME TypeInv, EntriesKept, NEW v \in Workers, Untouched(v)
  PROVE  Shaped(v)'
  <1>1. ClaimShape(v) /\ SendShape(v) /\ AnswerShape(v) /\ Linked(v)
    BY DEF TypeInv, Shaped
  <1>2. ClaimShape(v)' /\ SendShape(v)' /\ AnswerShape(v)'
    BY <1>1 DEF ClaimShape, SendShape, AnswerShape, Untouched
  <1>3. \A i : IdentityOf(v, i)' = IdentityOf(v, i)
    BY DEF IdentityOf, Untouched
  <1>4. Linked(v)'
    BY <1>1, <1>3 DEF Linked, Untouched, EntriesKept
  <1>5. QED
    BY <1>2, <1>4 DEF Shaped

\* Types of the locals, by those of the thread that moves.
LEMMA OwnTypes ==
  ASSUME TypeInv, Domains', NEW w \in Workers,
         \A v \in Workers : v # w => Untouched(v),
         pc'[w] \in Labels, pos'[w] \in Nat, entry'[w] \in Nat
  PROVE  LocalTypes'
  <1>1. \A v \in Workers :
          pc'[v] \in Labels /\ pos'[v] \in Nat /\ entry'[v] \in Nat
    BY DEF TypeInv, LocalTypes, Untouched
  <1>2. QED
    BY <1>1 DEF Domains, LocalTypes

\* A thread that only moves to another label.
LEMMA MoveShape ==
  ASSUME TypeInv, EntriesKept, NEW w \in Workers, NEW label,
         Goto(w, label), UNCHANGED <<taskVars, batchVars>>,
         label \in BeforeClaims => pc[w] \in BeforeClaims,
         label \in ClaimLabels => pc[w] \in ClaimLabels,
         label \in ClaimLabels \ {"claim"} => pc[w] \in ClaimLabels \ {"claim"},
         label \in SendLabels <=> pc[w] \in SendLabels,
         label \in ClaimLabels \cup {"plan"} \cup SendLabels \/ todo[w] = {},
         label \in HitLabels => pc[w] \in HitLabels,
         label \in SettleLabels =>
           pc[w] \in SettleLabels \/ (pc[w] = "release" /\ answers[w] # EmptyMap),
         label \in SettleLabels \cup HitLabels \/ answers[w] = EmptyMap,
         label # "response"
  PROVE  Shaped(w)'
  <1>1. ClaimShape(w) /\ SendShape(w) /\ AnswerShape(w) /\ Linked(w)
    BY DEF TypeInv, Shaped
  <1>2. pc'[w] = label
    BY DEF Goto, TypeInv, LocalTypes
  <1>3. UNCHANGED <<chunk, ctx, cscope, scope, pos, entry, leaders, followers,
                    todo, batch, reply, answers>>
    BY DEF taskVars, batchVars, claimVars, sendVars
  <1>4. \A i : IdentityOf(w, i)' = IdentityOf(w, i)
    BY <1>3 DEF IdentityOf
  <1>5. ClaimShape(w)'
    BY <1>1, <1>2, <1>3 DEF ClaimShape
  <1>6. SendShape(w)'
    BY <1>1, <1>2, <1>3 DEF SendShape
  <1>7. AnswerShape(w)'
    BY <1>1, <1>2, <1>3 DEF AnswerShape, HitLabels
  <1>8. Linked(w)'
    BY <1>1, <1>2, <1>3, <1>4 DEF Linked, EntriesKept
  <1>9. QED
    BY <1>5, <1>6, <1>7, <1>8 DEF Shaped

\* An early return leaves nothing behind.
LEMMA FailShape ==
  ASSUME TypeInv, NEW w \in Workers, Fail(w)
  PROVE  /\ Shaped(w)'
         /\ pc'[w] \in Labels /\ pos'[w] \in Nat /\ entry'[w] \in Nat
  <1>1. Domains
    BY DEF TypeInv, LocalTypes, Domains
  <1>2. /\ pc'[w] = "failed" /\ pos'[w] = 0 /\ entry'[w] = 0
        /\ leaders'[w] = EmptyMap /\ followers'[w] = EmptyMap
        /\ todo'[w] = {} /\ batch'[w] = {} /\ answers'[w] = EmptyMap
    BY <1>1, FailMoves
  <1>3. DOMAIN leaders'[w] = {} /\ DOMAIN followers'[w] = {}
    BY <1>2 DEF EmptyMap
  <1>4. ClaimShape(w)' /\ SendShape(w)'
    BY <1>2, <1>3 DEF ClaimShape, SendShape, ClaimLabels, SendLabels,
                           BeforeClaims
  <1>5. AnswerShape(w)'
    BY <1>2 DEF AnswerShape, HitLabels, SettleLabels
  <1>6. Linked(w)'
    BY <1>2, <1>3 DEF Linked, ClaimLabels
  <1>7. QED
    BY <1>2, <1>4, <1>5, <1>6 DEF Shaped, Labels, Resting

\* A thread's steps up to its first group.
LEMMA StartShape ==
  ASSUME TypeInv, EntriesKept, NEW w \in Workers,
         Start(w) \/ RecordInput(w) \/ RecordRows(w)
  PROVE  /\ Shaped(w)'
         /\ pc'[w] \in Labels /\ pos'[w] \in Nat /\ entry'[w] \in Nat
  <1>0. /\ Domains /\ TaskTypeOK /\ Shaped(w)
        /\ ClaimShape(w) /\ SendShape(w) /\ AnswerShape(w) /\ Linked(w)
        /\ pos[w] \in Nat /\ entry[w] \in Nat
    BY DEF TypeInv, LocalTypes, Domains, Shaped
  <1>1. CASE Start(w)
    <2>1. /\ pc'[w] = "input" /\ pos'[w] = 0 /\ entry'[w] = 0
          /\ leaders'[w] = EmptyMap /\ followers'[w] = EmptyMap
          /\ todo'[w] = {} /\ batch'[w] = {} /\ answers'[w] = EmptyMap
      BY <1>0, <1>1 DEF Start, Reset, Goto, Domains
    <2>2. DOMAIN leaders'[w] = {} /\ DOMAIN followers'[w] = {}
      BY <2>1 DEF EmptyMap
    <2>3. ClaimShape(w)' /\ SendShape(w)'
      BY <2>1, <2>2 DEF ClaimShape, SendShape, ClaimLabels, SendLabels,
                           BeforeClaims
    <2>4. AnswerShape(w)'
      BY <2>1 DEF AnswerShape, HitLabels, SettleLabels
    <2>5. Linked(w)'
      BY <2>1, <2>2 DEF Linked, ClaimLabels
    <2>6. QED
      BY <2>1, <2>3, <2>4, <2>5 DEF Shaped, Labels
  <1>2. CASE RecordInput(w)
    <2>1. /\ pc[w] = "input" /\ UNCHANGED <<taskVars, batchVars>>
          /\ Goto(w, "failed") \/ Goto(w, "rows")
      BY <1>2 DEF RecordInput
    <2>2. answers[w] = EmptyMap /\ todo[w] = {}
      BY <1>0, <2>1 DEF AnswerShape, SendShape, ClaimLabels, SendLabels,
                        HitLabels, SettleLabels
    <2>3. Shaped(w)'
      BY <2>1, <2>2, MoveShape
         DEF ClaimLabels, SendLabels, HitLabels, SettleLabels, BeforeClaims
    <2>4. pc'[w] \in Labels
      BY <1>0, <2>1 DEF Goto, Domains, Labels, Resting
    <2>5. QED
      BY <1>0, <2>1, <2>3, <2>4 DEF batchVars, claimVars
  <1>3. CASE RecordRows(w)
    <2>1. /\ pc[w] = "rows"
          /\ UNCHANGED <<taskVars, entry, leaders, followers, sendVars, out>>
      BY <1>3 DEF RecordRows
    <2>2. answers[w] = EmptyMap /\ todo[w] = {} /\ batch[w] = {}
      BY <1>0, <2>1 DEF AnswerShape, SendShape, ClaimLabels, SendLabels,
                        HitLabels, SettleLabels
    <2>3. CASE (Goto(w, "done") \/ Goto(w, "failed")) /\ UNCHANGED pos
      <3>1. UNCHANGED <<taskVars, batchVars>>
        BY <2>1, <2>3 DEF batchVars, claimVars
      <3>2. Shaped(w)'
        BY <2>1, <2>2, <2>3, <3>1, MoveShape
           DEF ClaimLabels, SendLabels, HitLabels, SettleLabels, BeforeClaims
      <3>3. pc'[w] \in Labels
        BY <1>0, <2>3 DEF Goto, Domains, Labels, Resting
      <3>4. QED
        BY <1>0, <2>1, <2>3, <3>2, <3>3
    <2>4. CASE /\ Leads(chunk[w]) # {} /\ Goto(w, "claim")
               /\ pos' = [pos EXCEPT ![w] = Min(Leads(chunk[w]))]
      <3> DEFINE first == Min(Leads(chunk[w]))
      <3>1. first \in Leads(chunk[w]) /\ first \in Nat
        <4>1. Leads(chunk[w]) \in SUBSET Leads(chunk[w])
          OBVIOUS
        <4>2. first \in Leads(chunk[w])
          BY <1>0, <2>4, <4>1, FirstGroup
        <4>3. QED
          BY <1>0, <4>2, LeadsAreApart
      <3> HIDE DEF first
      <3>2. pc'[w] = "claim" /\ pos'[w] = first
        BY <1>0, <2>4 DEF Goto, Domains, first
      <3>3. UNCHANGED <<chunk, ctx, cscope, scope, leaders, followers, todo,
                        batch, reply, answers>>
        BY <2>1 DEF taskVars, sendVars
      <3>4. DOMAIN leaders[w] = {} /\ DOMAIN followers[w] = {}
        BY <1>0, <2>1 DEF ClaimShape, BeforeClaims
      <3>5. ClaimShape(w)' /\ SendShape(w)'
        BY <1>0, <2>2, <3>1, <3>2, <3>3, <3>4
           DEF ClaimShape, SendShape, ClaimLabels, SendLabels, BeforeClaims
      <3>6. AnswerShape(w)'
        <4>1. pc'[w] = "claim" /\ answers'[w] = EmptyMap
          BY <2>2, <3>2, <3>3
        <4>2. QED
          BY <4>1 DEF AnswerShape, HitLabels, SettleLabels
      <3>7. Linked(w)'
        BY <3>2, <3>3, <3>4 DEF Linked
      <3>8. QED
        BY <1>0, <2>1, <3>1, <3>2, <3>5, <3>6, <3>7 DEF Shaped, Labels
    <2>5. QED
      BY <1>3, <2>3, <2>4 DEF RecordRows
  <1>4. QED
    BY <1>1, <1>2, <1>3

\* Where the claiming loop goes on: a group that was claimed is led, is
\* followed or was answered, and the next is behind all of them.
LEMMA NextShape ==
  ASSUME TypeInv, EntriesKept, NEW w \in Workers,
         pc[w] \in ClaimLabels \ {"claim"}, UNCHANGED taskVars,
         NextClaim(w), entry' = entry, batch'[w] = batch[w],
         answers'[w] = EmptyMap,
         \/ leaders'[w] = leaders[w] /\ todo'[w] = todo[w]
         \/ /\ leaders'[w] = With(leaders[w], pos[w], entry[w])
            /\ todo'[w] = todo[w] \cup {pos[w]},
         \/ followers'[w] = followers[w]
         \/ followers'[w] = With(followers[w], pos[w], entry[w])
  PROVE  /\ Shaped(w)'
         /\ pc'[w] \in Labels /\ pos'[w] \in Nat /\ entry'[w] \in Nat
  <1>0. /\ Domains /\ TaskTypeOK
        /\ ClaimShape(w) /\ SendShape(w) /\ AnswerShape(w) /\ Linked(w)
        /\ pos[w] \in Nat /\ entry[w] \in Nat
    BY DEF TypeInv, LocalTypes, Domains, Shaped
  <1>1. /\ chunk' = chunk /\ \A i : IdentityOf(w, i)' = IdentityOf(w, i)
        /\ pos[w] \in Leads(chunk[w]) /\ Leads(chunk[w]) \subseteq Nat
        /\ \A i \in DOMAIN leaders[w] \cup DOMAIN followers[w] : i < pos[w]
        /\ batch[w] = {}
    BY <1>0, LeadsAreApart
       DEF taskVars, IdentityOf, ClaimShape, SendShape, ClaimLabels, SendLabels
  <1>2. \/ pc'[w] = "plan" /\ pos'[w] = pos[w]
        \/ /\ pc'[w] = "claim" /\ pos'[w] \in Leads(chunk[w])
           /\ pos'[w] > pos[w]
    BY <1>0, NextClaimMoves
  <1>3. \/ /\ DOMAIN leaders'[w] = DOMAIN leaders[w]
           /\ leaders'[w] = leaders[w] /\ todo'[w] = todo[w]
        \/ /\ DOMAIN leaders'[w] = DOMAIN leaders[w] \cup {pos[w]}
           /\ todo'[w] = todo[w] \cup {pos[w]}
           /\ \A i \in DOMAIN leaders'[w] :
                leaders'[w][i] = IF i = pos[w] THEN entry[w] ELSE leaders[w][i]
    <2>1. CASE leaders'[w] = leaders[w] /\ todo'[w] = todo[w]
      BY <2>1
    <2>2. CASE /\ leaders'[w] = With(leaders[w], pos[w], entry[w])
               /\ todo'[w] = todo[w] \cup {pos[w]}
      BY <2>2 DEF With
    <2>3. QED
      BY <2>1, <2>2
  <1>4. \/ /\ DOMAIN followers'[w] = DOMAIN followers[w]
           /\ followers'[w] = followers[w]
        \/ /\ DOMAIN followers'[w] = DOMAIN followers[w] \cup {pos[w]}
           /\ \A i \in DOMAIN followers'[w] :
                followers'[w][i]
                  = IF i = pos[w] THEN entry[w] ELSE followers[w][i]
    <2>1. CASE followers'[w] = followers[w]
      BY <2>1
    <2>2. CASE followers'[w] = With(followers[w], pos[w], entry[w])
      BY <2>2 DEF With
    <2>3. QED
      BY <2>1, <2>2
  <1>5. ClaimShape(w)'
    <2>1. /\ DOMAIN leaders'[w] \subseteq DOMAIN leaders[w] \cup {pos[w]}
          /\ DOMAIN followers'[w] \subseteq DOMAIN followers[w] \cup {pos[w]}
      BY <1>3, <1>4
    <2>2. pc'[w] \notin BeforeClaims
      BY <1>2 DEF BeforeClaims
    <2>3. ASSUME pc'[w] \in ClaimLabels
          PROVE  /\ pos'[w] \in Leads(chunk[w])
                 /\ \A i \in DOMAIN leaders'[w] \cup DOMAIN followers'[w] :
                      i < pos'[w]
      <3>1. pos'[w] \in Leads(chunk[w]) /\ pos'[w] > pos[w]
        BY <1>2, <2>3 DEF ClaimLabels
      <3>2. \A i \in DOMAIN leaders[w] \cup DOMAIN followers[w] : i \in Nat
        BY <1>0, <1>1 DEF ClaimShape
      <3>3. \A i \in DOMAIN leaders[w] \cup DOMAIN followers[w] : i < pos'[w]
        BY <1>0, <1>1, <3>1, <3>2
      <3>4. QED
        BY <1>0, <1>1, <2>1, <3>1, <3>3
    <2>4. QED
      BY <1>0, <1>1, <2>1, <2>2, <2>3 DEF ClaimShape
  <1>6. SendShape(w)'
    <2>1. batch'[w] = {} /\ pc'[w] \notin SendLabels
      BY <1>1, <1>2 DEF SendLabels
    <2>2. pc'[w] \in ClaimLabels \cup {"plan"}
      BY <1>2 DEF ClaimLabels
    <2>3. todo'[w] \subseteq DOMAIN leaders'[w]
      BY <1>0, <1>3 DEF SendShape
    <2>4. QED
      BY <2>1, <2>2, <2>3 DEF SendShape
  <1>7. AnswerShape(w)'
    <2>1. pc'[w] \in {"claim", "plan"} /\ answers'[w] = EmptyMap
      BY <1>2
    <2>2. QED
      BY <2>1 DEF AnswerShape, HitLabels, SettleLabels
  <1>8. Linked(w)'
    <2>1. entry[w] \in DOMAIN slots /\ slots[entry[w]].id = IdentityOf(w, pos[w])
      BY <1>0 DEF Linked
    <2>2. \A i \in DOMAIN leaders'[w] :
            /\ leaders'[w][i] \in DOMAIN slots
            /\ slots[leaders'[w][i]].id = IdentityOf(w, i)
      BY <1>0, <1>3, <2>1 DEF Linked
    <2>3. \A i \in DOMAIN followers'[w] :
            /\ followers'[w][i] \in DOMAIN slots
            /\ slots[followers'[w][i]].id = IdentityOf(w, i)
      BY <1>0, <1>4, <2>1 DEF Linked
    <2>4. pc'[w] \notin ClaimLabels \ {"claim"}
      BY <1>2 DEF ClaimLabels
    <2>5. QED
      BY <1>1, <2>2, <2>3, <2>4 DEF Linked, EntriesKept
  <1>9. QED
    BY <1>0, <1>1, <1>2, <1>5, <1>6, <1>7, <1>8 DEF Shaped, Labels

\* The claiming loop.
LEMMA LoopShape ==
  ASSUME TypeInv, EntriesKept, NEW w \in Workers,
         Claim(w) \/ FetchFlag(w) \/ Lookup(w) \/ Hit(w) \/ HitComplete(w)
  PROVE  /\ Shaped(w)'
         /\ pc'[w] \in Labels /\ pos'[w] \in Nat /\ entry'[w] \in Nat
  <1>0. /\ Domains /\ TaskTypeOK /\ RuntimeTypeOK
        /\ ClaimShape(w) /\ SendShape(w) /\ AnswerShape(w) /\ Linked(w)
        /\ pos[w] \in Nat /\ entry[w] \in Nat
    BY DEF TypeInv, LocalTypes, Domains, Shaped
  <1>1. CASE Fail(w)
    BY <1>1, FailShape
  <1>2. CASE Claim(w) /\ ~Fail(w)
    <2>1. /\ pc[w] = "claim" /\ UNCHANGED taskVars
          /\ UNCHANGED <<pos, leaders, followers, sendVars, out>>
          /\ \/ /\ IdentityOf(w, pos[w]) \in DOMAIN entries
                /\ UNCHANGED slots
                /\ entry' = [entry EXCEPT ![w] = entries[IdentityOf(w, pos[w])]]
                /\ Goto(w, "join_flag")
             \/ /\ NewEntry(IdentityOf(w, pos[w]))
                /\ entry' = [entry EXCEPT ![w] = Len(slots) + 1]
                /\ Goto(w, "flag")
      BY <1>2 DEF Claim, JoinEntry
    <2>2. IdentityOf(w, pos[w]) \in Identity
      BY <1>0, <2>1, IdentityTypes DEF ClaimShape, ClaimLabels
    <2>3. /\ entry'[w] \in DOMAIN slots' /\ entry'[w] \in Nat
          /\ slots'[entry'[w]].id = IdentityOf(w, pos[w])
      <3>1. CASE /\ IdentityOf(w, pos[w]) \in DOMAIN entries
                 /\ UNCHANGED slots
                 /\ entry' = [entry EXCEPT ![w] = entries[IdentityOf(w, pos[w])]]
        <4>1. entries[IdentityOf(w, pos[w])] \in DOMAIN slots
          BY <1>0, <3>1 DEF RuntimeTypeOK
        <4>2. DOMAIN slots \subseteq Nat
          BY <1>0 DEF RuntimeTypeOK
        <4>3. slots[entries[IdentityOf(w, pos[w])]].id = IdentityOf(w, pos[w])
          BY <3>1 DEF TypeInv, MapMatches
        <4>4. QED
          BY <1>0, <3>1, <4>1, <4>2, <4>3 DEF Domains
      <3>2. CASE /\ NewEntry(IdentityOf(w, pos[w]))
                 /\ entry' = [entry EXCEPT ![w] = Len(slots) + 1]
        <4> DEFINE new == Len(slots) + 1
        <4>1. new \in DOMAIN slots' /\ slots'[new].id = IdentityOf(w, pos[w])
          BY <1>0, <2>2, <3>2, NewEntryKeeps
        <4>2. new \in Nat
          BY <1>0 DEF RuntimeTypeOK
        <4> HIDE DEF new
        <4>3. entry'[w] = new
          BY <1>0, <3>2 DEF Domains, new
        <4>4. QED
          BY <4>1, <4>2, <4>3
      <3>3. QED
        BY <2>1, <3>1, <3>2
    <2>4. pc'[w] \in {"flag", "join_flag"}
      BY <1>0, <2>1 DEF Goto, Domains
    <2>5. UNCHANGED <<chunk, ctx, cscope, scope, pos, leaders, followers, todo,
                      batch, reply, answers>>
      BY <2>1 DEF taskVars, sendVars
    <2>6. \A i : IdentityOf(w, i)' = IdentityOf(w, i)
      BY <2>5 DEF IdentityOf
    <2>7. ClaimShape(w)' /\ SendShape(w)'
      BY <1>0, <2>1, <2>4, <2>5
         DEF ClaimShape, SendShape, ClaimLabels, SendLabels, BeforeClaims
    <2>8. AnswerShape(w)'
      <3>1. answers'[w] = EmptyMap
        BY <1>0, <2>1, <2>5 DEF AnswerShape, HitLabels, SettleLabels
      <3>2. QED
        BY <2>4, <3>1 DEF AnswerShape, HitLabels, SettleLabels
    <2>9. Linked(w)'
      BY <1>0, <2>3, <2>4, <2>5, <2>6 DEF Linked, EntriesKept
    <2>10. QED
      BY <1>0, <2>3, <2>4, <2>5, <2>7, <2>8, <2>9 DEF Shaped, Labels
  <1>3. CASE FetchFlag(w) /\ ~Fail(w)
    <2>1. /\ pc[w] \in {"flag", "join_flag"} /\ UNCHANGED taskVars
          /\ \/ /\ followers' =
                     [followers EXCEPT ![w] = With(@, pos[w], entry[w])]
                /\ NextClaim(w)
                /\ UNCHANGED <<leaders, todo, entry, batch, answers>>
             \/ pc[w] = "flag" /\ Goto(w, "lookup") /\ UNCHANGED batchVars
             \/ Lead(w) /\ UNCHANGED <<followers, entry, batch, answers>>
      BY <1>3 DEF FetchFlag, batchVars, claimVars, sendVars
    <2>2. answers[w] = EmptyMap /\ pc[w] \in ClaimLabels \ {"claim"}
      BY <1>0, <2>1 DEF AnswerShape, HitLabels, SettleLabels, ClaimLabels
    <2>3. CASE /\ followers' =
                     [followers EXCEPT ![w] = With(@, pos[w], entry[w])]
               /\ NextClaim(w)
               /\ UNCHANGED <<leaders, todo, entry, batch, answers>>
      <3>1. followers'[w] = With(followers[w], pos[w], entry[w])
        BY <1>0, <2>3 DEF Domains
      <3>2. QED
        BY <2>1, <2>2, <2>3, <3>1, NextShape
    <2>4. CASE Lead(w) /\ UNCHANGED <<followers, entry, batch, answers>>
      BY <1>0, <2>1, <2>2, <2>4, LeadMoves, NextShape
    <2>5. CASE pc[w] = "flag" /\ Goto(w, "lookup") /\ UNCHANGED batchVars
      <3>1. Shaped(w)'
        BY <2>1, <2>2, <2>5, MoveShape
           DEF ClaimLabels, SendLabels, HitLabels, SettleLabels, BeforeClaims
      <3>2. pc'[w] \in Labels
        BY <1>0, <2>5 DEF Goto, Domains, Labels
      <3>3. QED
        BY <1>0, <2>5, <3>1, <3>2 DEF batchVars, claimVars
    <2>6. QED
      BY <2>1, <2>3, <2>4, <2>5
  <1>4. CASE Lookup(w)
    <2>1. /\ pc[w] = "lookup" /\ UNCHANGED <<taskVars, followers, entry, batch>>
          /\ \/ /\ CacheIdentityOf(w, pos[w]) \in DOMAIN cache
                /\ answers' = [answers EXCEPT ![w] =
                      With(@, pos[w], cache[CacheIdentityOf(w, pos[w])])]
                /\ Goto(w, "hit") /\ UNCHANGED <<pos, leaders, todo>>
             \/ Lead(w) /\ UNCHANGED answers
      <3>1. DOMAIN cache' \subseteq DOMAIN cache
        BY <1>0, <1>4, CacheTypes DEF Lookup
      <3>2. QED
        BY <1>4, <3>1 DEF Lookup
    <2>2. answers[w] = EmptyMap /\ pc[w] \in ClaimLabels \ {"claim"}
      BY <1>0, <2>1 DEF AnswerShape, HitLabels, SettleLabels, ClaimLabels
    <2>3. CASE Lead(w) /\ UNCHANGED answers
      BY <1>0, <2>1, <2>2, <2>3, LeadMoves, NextShape
    <2>4. CASE /\ CacheIdentityOf(w, pos[w]) \in DOMAIN cache
               /\ answers' = [answers EXCEPT ![w] =
                     With(@, pos[w], cache[CacheIdentityOf(w, pos[w])])]
               /\ Goto(w, "hit") /\ UNCHANGED <<pos, leaders, todo>>
      <3>1. cache[CacheIdentityOf(w, pos[w])] \in Answer
        BY <1>0, <2>4 DEF RuntimeTypeOK
      <3>2. answers'[w][pos[w]] \in Answer
        BY <1>0, <2>4, <3>1 DEF Domains, With
      <3>3. pc'[w] = "hit"
        BY <1>0, <2>4 DEF Goto, Domains
      <3>4. UNCHANGED <<chunk, ctx, cscope, scope, pos, entry, leaders,
                        followers, todo, batch>>
        BY <2>1, <2>4 DEF taskVars
      <3>5. \A i : IdentityOf(w, i)' = IdentityOf(w, i)
        BY <3>4 DEF IdentityOf
      <3>6. ClaimShape(w)' /\ SendShape(w)'
        BY <1>0, <2>1, <3>3, <3>4
           DEF ClaimShape, SendShape, ClaimLabels, SendLabels, BeforeClaims
      <3>7. AnswerShape(w)'
        BY <3>2, <3>3, <3>4 DEF AnswerShape, HitLabels, SettleLabels
      <3>8. Linked(w)'
        BY <1>0, <2>2, <3>4, <3>5 DEF Linked, EntriesKept
      <3>9. QED
        BY <1>0, <3>3, <3>4, <3>6, <3>7, <3>8 DEF Shaped, Labels
    <2>5. QED
      BY <2>1, <2>3, <2>4
  <1>5. CASE Hit(w)
    <2>1. /\ pc[w] = "hit" /\ Goto(w, "hit_complete")
          /\ UNCHANGED <<taskVars, batchVars>>
      BY <1>5 DEF Hit
    <2>2. Shaped(w)'
      BY <2>1, MoveShape
         DEF ClaimLabels, SendLabels, HitLabels, SettleLabels, BeforeClaims
    <2>3. pc'[w] \in Labels
      BY <1>0, <2>1 DEF Goto, Domains, Labels
    <2>4. QED
      BY <1>0, <2>1, <2>2, <2>3 DEF batchVars, claimVars
  <1>6. CASE HitComplete(w)
    <2>1. /\ pc[w] = "hit_complete" /\ NextClaim(w)
          /\ UNCHANGED <<taskVars, entry, leaders, followers, todo, batch>>
          /\ answers'[w] = EmptyMap
      BY <1>0, <1>6 DEF HitComplete, Domains
    <2>2. QED
      BY <2>1, NextShape DEF ClaimLabels
  <1>7. QED
    BY <1>1, <1>2, <1>3, <1>4, <1>5, <1>6

\* What is left to send of a partition, and the next batch of it.
LEMMA NextBatchGroups ==
  ASSUME NEW w \in Workers
  PROVE  Remaining(w) \subseteq todo[w] /\ NextBatch(w) \subseteq Remaining(w)
  BY DEF Remaining, NextBatch

\* Sending, up to the response.
LEMMA SendingShape ==
  ASSUME TypeInv, EntriesKept, NEW w \in Workers,
         \/ Plan(w) \/ Acquire(w) \/ Attempt(w) \/ Call(w)
         \/ FailedRequest(w) \/ ProviderFailure(w) \/ FailBatch(w)
  PROVE  /\ Shaped(w)'
         /\ pc'[w] \in Labels /\ pos'[w] \in Nat /\ entry'[w] \in Nat
  <1>0. /\ Domains /\ TaskTypeOK
        /\ ClaimShape(w) /\ SendShape(w) /\ AnswerShape(w) /\ Linked(w)
        /\ pos[w] \in Nat /\ entry[w] \in Nat
    BY DEF TypeInv, LocalTypes, Domains, Shaped
  <1>1. CASE Fail(w)
    BY <1>1, FailShape
  <1>2. CASE Plan(w) /\ Follow(w)
    <2>1. /\ pc[w] = "plan" /\ UNCHANGED <<taskVars, batchVars>>
          /\ todo[w] = {} /\ (Goto(w, "done") \/ Goto(w, "wait"))
      BY <1>2 DEF Plan, Follow
    <2>2. answers[w] = EmptyMap
      BY <1>0, <2>1 DEF AnswerShape, HitLabels, SettleLabels
    <2>3. Shaped(w)'
      BY <2>1, <2>2, MoveShape
         DEF ClaimLabels, SendLabels, HitLabels, SettleLabels, BeforeClaims
    <2>4. pc'[w] \in Labels
      BY <1>0, <2>1 DEF Goto, Domains, Labels, Resting
    <2>5. QED
      BY <1>0, <2>1, <2>3, <2>4 DEF batchVars, claimVars
  <1>3. CASE Plan(w) /\ Send(w)
    <2>1. /\ pc[w] = "plan" /\ NextBatch(w) # {}
          /\ batch' = [batch EXCEPT ![w] = NextBatch(w)]
          /\ todo' = [todo EXCEPT ![w] = @ \ NextBatch(w)]
          /\ UNCHANGED <<taskVars, claimVars, reply, answers>>
          /\ Goto(w, "acquire") \/ Goto(w, "fail_leaders")
      BY <1>3 DEF Plan, Send
    <2>2. /\ pc'[w] \in {"acquire", "fail_leaders"}
          /\ batch'[w] = NextBatch(w) /\ todo'[w] = todo[w] \ NextBatch(w)
      BY <1>0, <2>1 DEF Goto, Domains
    <2>3. answers[w] = EmptyMap /\ NextBatch(w) \subseteq todo[w]
      BY <1>0, <2>1, NextBatchGroups DEF AnswerShape, HitLabels, SettleLabels
    <2>4. UNCHANGED <<chunk, ctx, cscope, scope, pos, entry, leaders, followers,
                      answers>>
      BY <2>1 DEF taskVars, claimVars
    <2>5. \A i : IdentityOf(w, i)' = IdentityOf(w, i)
      BY <2>4 DEF IdentityOf
    <2>6. ClaimShape(w)' /\ SendShape(w)'
      BY <1>0, <2>1, <2>2, <2>3, <2>4
         DEF ClaimShape, SendShape, ClaimLabels, SendLabels, BeforeClaims
    <2>7. AnswerShape(w)'
      BY <2>2, <2>3, <2>4 DEF AnswerShape, HitLabels, SettleLabels
    <2>8. Linked(w)'
      BY <1>0, <2>2, <2>4, <2>5 DEF Linked, EntriesKept, ClaimLabels
    <2>9. QED
      BY <1>0, <2>2, <2>4, <2>6, <2>7, <2>8 DEF Shaped, Labels
  <1>4. CASE Acquire(w) \/ Attempt(w) \/ FailedRequest(w) \/ ProviderFailure(w)
    <2>1. /\ pc[w] \in {"acquire", "attempt", "failed_request",
                        "provider_failure"}
          /\ UNCHANGED <<taskVars, batchVars>>
          /\ \E label \in {"attempt", "call", "provider_failure",
                           "fail_leaders"} : Goto(w, label)
      BY <1>4 DEF Acquire, Attempt, FailedRequest, ProviderFailure
    <2>2. answers[w] = EmptyMap
      BY <1>0, <2>1 DEF AnswerShape, HitLabels, SettleLabels
    <2>3. PICK label \in {"attempt", "call", "provider_failure",
                          "fail_leaders"} : Goto(w, label)
      BY <2>1
    <2>4. Shaped(w)'
      BY <2>1, <2>2, <2>3, MoveShape
         DEF ClaimLabels, SendLabels, HitLabels, SettleLabels, BeforeClaims
    <2>5. pc'[w] \in Labels
      BY <1>0, <2>3 DEF Goto, Domains, Labels, PermitLabels
    <2>6. QED
      BY <1>0, <2>1, <2>4, <2>5 DEF batchVars, claimVars
  <1>5. CASE Call(w) /\ Goto(w, "release") /\ UNCHANGED reply
    <2>1. /\ pc[w] = "call" /\ UNCHANGED <<taskVars, batchVars>>
      BY <1>5 DEF Call, batchVars, sendVars
    <2>2. answers[w] = EmptyMap
      BY <1>0, <2>1 DEF AnswerShape, HitLabels, SettleLabels
    <2>3. Shaped(w)'
      BY <1>5, <2>1, <2>2, MoveShape
         DEF ClaimLabels, SendLabels, HitLabels, SettleLabels, BeforeClaims
    <2>4. pc'[w] \in Labels
      BY <1>0, <1>5 DEF Goto, Domains, Labels, PermitLabels
    <2>5. QED
      BY <1>0, <2>1, <2>3, <2>4 DEF batchVars, claimVars
  <1>6. CASE Call(w) /\ Goto(w, "response")
    <2> DEFINE n == Cardinality(batch[w])
    <2>1. PICK m \in {n - 1, n} : \E labels \in [1..m -> 0..n],
                  v \in Values, sound \in BOOLEAN, u \in UsageReplies :
                 reply' = [reply EXCEPT ![w] =
                   [labels |-> labels, val |-> v, sound |-> sound, usage |-> u]]
      <3>1. ~Goto(w, "release")
        BY <1>0, <1>6 DEF Goto, Domains
      <3>2. QED
        BY <1>6, <3>1 DEF Call
    <2>2. /\ pc[w] = "call" /\ UNCHANGED <<taskVars, claimVars, todo, batch,
                                           answers>>
      BY <1>6 DEF Call
    <2>3. n \in Nat /\ n # 0
      <3>1. IsFiniteSet(batch[w]) /\ n \in Nat
        BY BatchGroups
      <3>2. batch[w] # {}
        BY <1>0, <2>2 DEF SendShape, SendLabels
      <3>3. QED
        BY <3>1, <3>2, FS_EmptySet
    <2>4. reply'[w].labels \in Seq(Nat) /\ reply'[w].val \in Values
      <3>1. PICK labels \in [1..m -> 0..n], v \in Values, sound \in BOOLEAN,
                 u \in UsageReplies :
              reply' = [reply EXCEPT ![w] =
                   [labels |-> labels, val |-> v, sound |-> sound, usage |-> u]]
        BY <2>1
      <3> HIDE DEF n
      <3>2. m \in Nat
        BY <2>1, <2>3
      <3>3. labels \in [1..m -> Nat]
        <4>1. 0..n \subseteq Nat
          BY <2>3
        <4>2. QED
          BY <4>1
      <3>4. labels \in Seq(Nat)
        BY <3>2, <3>3
      <3>5. QED
        BY <1>0, <3>1, <3>4 DEF Domains
    <2>5. pc'[w] = "response"
      BY <1>0, <1>6 DEF Goto, Domains
    <2>6. UNCHANGED <<chunk, ctx, cscope, scope, pos, entry, leaders, followers,
                      todo, batch, answers>>
      BY <2>2 DEF taskVars, claimVars
    <2>7. \A i : IdentityOf(w, i)' = IdentityOf(w, i)
      BY <2>6 DEF IdentityOf
    <2>8. ClaimShape(w)' /\ SendShape(w)'
      BY <1>0, <2>2, <2>5, <2>6
         DEF ClaimShape, SendShape, ClaimLabels, SendLabels, BeforeClaims
    <2>9. AnswerShape(w)'
      <3>1. answers[w] = EmptyMap
        BY <1>0, <2>2 DEF AnswerShape, HitLabels, SettleLabels
      <3>2. QED
        BY <2>4, <2>5, <2>6, <3>1 DEF AnswerShape, HitLabels, SettleLabels
    <2>10. Linked(w)'
      BY <1>0, <2>5, <2>6, <2>7 DEF Linked, EntriesKept, ClaimLabels
    <2>11. QED
      BY <1>0, <2>5, <2>6, <2>8, <2>9, <2>10 DEF Shaped, Labels, PermitLabels
  <1>7. QED
    BY <1>1, <1>2, <1>3, <1>4, <1>5, <1>6 DEF Plan, TooLarge, FailBatch, Call

\* The answers of an accepted response are answers to the groups sent.
LEMMA ResponseAnswers ==
  ASSUME TypeInv, NEW w \in Workers, Response(w),
         Valid(reply[w], Cardinality(batch[w])), NEW i \in batch[w]
  PROVE  /\ answers'[w][i] = [key |-> chunk[w][i], model |-> ctx[w].model,
                              cred |-> ctx[w].cred, query |-> scope[w],
                              val |-> reply[w].val]
         /\ answers'[w][i] \in Answer
  <1>1. DOMAIN answers = Workers /\ AnswerShape(w) /\ TaskTypeOK
    BY DEF TypeInv, LocalTypes, Shaped
  <1>2. reply[w].labels \in Seq(Nat) /\ reply[w].val \in Values
    BY <1>1 DEF Response, AnswerShape
  <1>3. answers'[w] = [j \in batch[w] |-> AnswerFor(w, j)]
    BY <1>1 DEF Response
  <1>4. /\ batch[w] \in SUBSET Nat /\ IsFiniteSet(batch[w])
        /\ batch[w] \subseteq Leads(chunk[w])
    BY BatchGroups
  <1>5. AnswerFor(w, i) = [key |-> chunk[w][i], model |-> ctx[w].model,
                           cred |-> ctx[w].cred, query |-> scope[w],
                           val |-> reply[w].val]
    BY <1>2, <1>4, AnswerIsOwn
  <1>6. /\ chunk[w][i] \in Keys /\ ctx[w].model \in Models
        /\ ctx[w].cred \in Creds /\ scope[w] \in Nat
    BY <1>1, <1>4, TaskTypes, LeadsAreApart
  <1>7. QED
    BY <1>2, <1>3, <1>5, <1>6 DEF Answer

\* From the response to the last follower.
LEMMA SettlingShape ==
  ASSUME TypeInv, EntriesKept, NEW w \in Workers,
         Response(w) \/ Release(w) \/ Insert(w) \/ Settle(w) \/ Wait(w)
  PROVE  /\ Shaped(w)'
         /\ pc'[w] \in Labels /\ pos'[w] \in Nat /\ entry'[w] \in Nat
  <1>0. /\ Domains /\ TaskTypeOK
        /\ ClaimShape(w) /\ SendShape(w) /\ AnswerShape(w) /\ Linked(w)
        /\ pos[w] \in Nat /\ entry[w] \in Nat
    BY DEF TypeInv, LocalTypes, Domains, Shaped
  <1>1. CASE Fail(w)
    BY <1>1, FailShape
  <1>2. CASE Response(w)
    <2>1. /\ pc[w] = "response" /\ Goto(w, "release")
          /\ UNCHANGED <<taskVars, claimVars, todo, batch>>
          /\ answers' = [answers EXCEPT ![w] =
                           IF Valid(reply[w], Cardinality(batch[w]))
                           THEN [i \in batch[w] |-> AnswerFor(w, i)]
                           ELSE EmptyMap]
      BY <1>2 DEF Response
    <2>2. pc'[w] = "release"
      BY <1>0, <2>1 DEF Goto, Domains
    <2>3. UNCHANGED <<chunk, ctx, cscope, scope, pos, entry, leaders, followers,
                      todo, batch>>
      BY <2>1 DEF taskVars, claimVars
    <2>4. \A i : IdentityOf(w, i)' = IdentityOf(w, i)
      BY <2>3 DEF IdentityOf
    <2>5. ClaimShape(w)' /\ SendShape(w)'
      BY <1>0, <2>1, <2>2, <2>3
         DEF ClaimShape, SendShape, ClaimLabels, SendLabels, BeforeClaims
    <2>6. AnswerShape(w)'
      <3>1. answers'[w] # EmptyMap => Valid(reply[w], Cardinality(batch[w]))
        BY <1>0, <2>1 DEF Domains
      <3>2. answers'[w] # EmptyMap => \A i \in batch[w] : answers'[w][i] \in Answer
        BY <1>2, <3>1, ResponseAnswers
      <3>3. QED
        BY <2>2, <2>3, <3>2 DEF AnswerShape, HitLabels, SettleLabels
    <2>7. Linked(w)'
      BY <1>0, <2>2, <2>3, <2>4 DEF Linked, EntriesKept, ClaimLabels
    <2>8. QED
      BY <1>0, <2>2, <2>3, <2>5, <2>6, <2>7 DEF Shaped, Labels, PermitLabels
  <1>3. CASE Release(w) \/ Insert(w)
    <2>1. /\ UNCHANGED <<taskVars, batchVars>>
          /\ \/ /\ pc[w] = "release" /\ answers[w] = EmptyMap
                /\ \E label \in {"failed_request", "fail_leaders"} :
                     Goto(w, label)
             \/ /\ pc[w] = "release" /\ answers[w] # EmptyMap
                /\ \E label \in {"insert", "settle"} : Goto(w, label)
             \/ pc[w] = "insert" /\ Goto(w, "settle_stored")
      BY <1>3 DEF Release, Insert
    <2>2. PICK label \in {"failed_request", "fail_leaders", "insert", "settle",
                          "settle_stored"} :
            /\ Goto(w, label)
            /\ pc[w] \in {"release", "insert"}
            /\ label \in SettleLabels => pc[w] \in SettleLabels
                          \/ (pc[w] = "release" /\ answers[w] # EmptyMap)
            /\ label \in SettleLabels \/ answers[w] = EmptyMap
      <3>1. CASE pc[w] = "insert" /\ Goto(w, "settle_stored")
        BY <3>1 DEF SettleLabels
      <3>2. CASE /\ pc[w] = "release" /\ answers[w] # EmptyMap
                 /\ \E label \in {"insert", "settle"} : Goto(w, label)
        BY <3>2 DEF SettleLabels
      <3>3. CASE /\ pc[w] = "release" /\ answers[w] = EmptyMap
                 /\ \E label \in {"failed_request", "fail_leaders"} :
                      Goto(w, label)
        BY <3>3 DEF SettleLabels
      <3>4. QED
        BY <2>1, <3>1, <3>2, <3>3
    <2>3. Shaped(w)'
      BY <2>1, <2>2, MoveShape
         DEF ClaimLabels, SendLabels, HitLabels, BeforeClaims
    <2>4. pc'[w] \in Labels
      BY <1>0, <2>2 DEF Goto, Domains, Labels
    <2>5. QED
      BY <1>0, <2>1, <2>3, <2>4 DEF batchVars, claimVars
  <1>4. CASE Settle(w)
    <2> DEFINE first == Min(batch[w])
    <2>1. /\ pc[w] \in SettleLabels /\ pc[w] \in SendLabels
          /\ UNCHANGED <<taskVars, claimVars, todo>>
          /\ batch' = [batch EXCEPT ![w] = @ \ {first}]
          /\ \/ /\ batch[w] = {first} /\ Goto(w, "plan")
                /\ answers' = [answers EXCEPT ![w] = EmptyMap]
             \/ /\ batch[w] # {first} /\ UNCHANGED answers
                /\ Goto(w, "settle") \/ Goto(w, "insert")
      BY <1>4 DEF Settle, SettleLabels, SendLabels
    <2>2. first \in batch[w]
      BY <2>1, BatchGroups
    <2> HIDE DEF first
    <2>3. /\ batch'[w] = batch[w] \ {first}
          /\ \/ /\ batch'[w] = {} /\ pc'[w] = "plan" /\ answers'[w] = EmptyMap
             \/ /\ batch'[w] # {} /\ pc'[w] \in {"settle", "insert"}
                /\ answers'[w] = answers[w]
      BY <1>0, <2>1, <2>2 DEF Goto, Domains
    <2>4. UNCHANGED <<chunk, ctx, cscope, scope, pos, entry, leaders, followers,
                      todo>>
      BY <2>1 DEF taskVars, claimVars
    <2>5. \A i : IdentityOf(w, i)' = IdentityOf(w, i)
      BY <2>4 DEF IdentityOf
    <2>6. ClaimShape(w)' /\ SendShape(w)'
      BY <1>0, <2>1, <2>3, <2>4
         DEF ClaimShape, SendShape, ClaimLabels, SendLabels, BeforeClaims
    <2>7. AnswerShape(w)'
      BY <1>0, <2>1, <2>3 DEF AnswerShape, HitLabels, SettleLabels
    <2>8. Linked(w)'
      BY <1>0, <2>3, <2>4, <2>5 DEF Linked, EntriesKept, ClaimLabels
    <2>9. QED
      BY <1>0, <2>3, <2>4, <2>6, <2>7, <2>8 DEF Shaped, Labels
  <1>5. CASE Wait(w) /\ ~Fail(w)
    <2> DEFINE first == Min(DOMAIN followers[w])
    <2>1. /\ pc[w] = "wait" /\ UNCHANGED <<taskVars, pos, entry, leaders, sendVars>>
          /\ followers' = [followers EXCEPT ![w] = Keep(@, DOMAIN @ \ {first})]
          /\ Goto(w, "done") \/ Goto(w, "wait")
      BY <1>5 DEF Wait
    <2> HIDE DEF first
    <2>2. /\ DOMAIN followers'[w] = DOMAIN followers[w] \ {first}
          /\ \A i \in DOMAIN followers'[w] : followers'[w][i] = followers[w][i]
      BY <1>0, <2>1 DEF Domains, Keep
    <2>3. pc'[w] \in {"done", "wait"}
      BY <1>0, <2>1 DEF Goto, Domains
    <2>4. UNCHANGED <<chunk, ctx, cscope, scope, pos, entry, leaders, todo, batch,
                      reply, answers>>
      BY <2>1 DEF taskVars, sendVars
    <2>5. \A i : IdentityOf(w, i)' = IdentityOf(w, i)
      BY <2>4 DEF IdentityOf
    <2>6. ClaimShape(w)' /\ SendShape(w)'
      BY <1>0, <2>1, <2>2, <2>3, <2>4
         DEF ClaimShape, SendShape, ClaimLabels, SendLabels, BeforeClaims
    <2>7. AnswerShape(w)'
      BY <1>0, <2>1, <2>3, <2>4 DEF AnswerShape, HitLabels, SettleLabels
    <2>8. Linked(w)'
      BY <1>0, <2>2, <2>3, <2>4, <2>5 DEF Linked, EntriesKept, ClaimLabels
    <2>9. QED
      BY <1>0, <2>3, <2>4, <2>6, <2>7, <2>8 DEF Shaped, Labels, Resting
  <1>6. QED
    BY <1>1, <1>2, <1>3, <1>4, <1>5

-----------------------------------------------------------------------------
(* Types in every reachable state.                                         *)

\* What Init establishes.
LEMMA InitTypes == Init => TypeInv
  <1> SUFFICES ASSUME Init PROVE TypeInv
    OBVIOUS
  <1> USE DEF Init, ThreadsInit
  <1>1. RuntimeTypeOK
    BY ZeroCountsType, RuntimeAssumption DEF RuntimeInit, RuntimeTypeOK, EmptyMap
  <1>2. TaskTypeOK
    BY ThreadAssumption DEF TaskTypeOK
  <1>3. LocalTypes
    BY DEF LocalTypes, Labels, Resting
  <1>4. MapMatches
    BY DEF MapMatches, RuntimeInit, EmptyMap
  <1>5. ASSUME NEW w \in Workers
        PROVE  Shaped(w)
    <2>1. /\ pc[w] = "idle" /\ DOMAIN leaders[w] = {} /\ DOMAIN followers[w] = {}
          /\ todo[w] = {} /\ batch[w] = {} /\ answers[w] = EmptyMap
      BY DEF EmptyMap
    <2>2. ClaimShape(w) /\ SendShape(w)
      BY <2>1 DEF ClaimShape, SendShape, ClaimLabels, SendLabels, BeforeClaims
    <2>3. AnswerShape(w)
      BY <2>1 DEF AnswerShape, HitLabels, SettleLabels
    <2>4. Linked(w)
      BY <2>1 DEF Linked, ClaimLabels
    <2>5. QED
      BY <2>2, <2>3, <2>4 DEF Shaped
  <1>6. QED
    BY <1>1, <1>2, <1>3, <1>4, <1>5 DEF TypeInv

\* The host's callbacks and duckjeu_cache_clear() leave threads alone.
LEMMA HostFrame ==
  ASSUME TypeInv, Begin \/ End \/ CacheClear \/ Closed \/ UNCHANGED vars
  PROVE  EntriesKept /\ UNCHANGED <<slots, permits, threadVars, batchVars>>
  <1>0. RuntimeTypeOK
    BY DEF TypeInv
  <1>1. CASE Begin
    <2>1. RuntimeTypeOK'
      BY <1>0, <1>1, ZeroCountsType
         DEF Begin, HostBegin, BeginQuery, RuntimeTypeOK, EmptyMap, credVars
    <2>2. QED
      BY <1>1, <2>1, EntriesUnchanged DEF Begin, HostBegin, BeginQuery
  <1>2. CASE End
    <2>1. PICK o \in QueryOutcomes : HostEnd(o) /\ UNCHANGED batchVars
      BY <1>2 DEF End
    <2>2. lastQuery' \subseteq QuerySnapshot
      <3>1. [query |-> active, outcome |-> o, counts |-> counts] \in QuerySnapshot
        BY <1>0, <2>1 DEF HostEnd, EndQuery, RuntimeTypeOK, QuerySnapshot
      <3>2. QED
        BY <1>0, <2>1, <3>1 DEF HostEnd, EndQuery, RuntimeTypeOK
    <2>3. RuntimeTypeOK'
      BY <1>0, <2>1, <2>2, ZeroCountsType
         DEF HostEnd, EndQuery, RuntimeTypeOK, EmptyMap, credVars
    <2>4. QED
      BY <2>1, <2>3, EntriesUnchanged DEF HostEnd, EndQuery
  <1>3. CASE CacheClear
    <2>1. RuntimeTypeOK'
      BY <1>0, <1>3 DEF CacheClear, ClearCache, EmptyMap, RuntimeTypeOK,
                        queryVars, entryVars, credVars
    <2>2. QED
      BY <1>3, <2>1, EntriesUnchanged DEF CacheClear, entryVars
  <1>4. CASE Closed \/ UNCHANGED vars
    <2>1. UNCHANGED <<runtimeVars, threadVars, batchVars>>
      BY <1>4 DEF Closed, vars
    <2>2. RuntimeTypeOK'
      BY <1>0, <2>1 DEF runtimeVars, RuntimeTypeOK, queryVars, entryVars, credVars
    <2>3. QED
      BY <2>1, <2>2, EntriesUnchanged DEF runtimeVars, entryVars
  <1>5. QED
    BY <1>1, <1>2, <1>3, <1>4

\* The host's steps keep the types.
LEMMA HostTypes ==
  ASSUME TypeInv, Begin \/ End \/ CacheClear \/ Closed \/ UNCHANGED vars
  PROVE  TypeInv'
  <1>1. EntriesKept /\ UNCHANGED <<threadVars, batchVars>>
    BY HostFrame
  <1>2. TaskTypeOK' /\ LocalTypes'
    BY <1>1 DEF TypeInv, TaskTypeOK, LocalTypes, threadVars, taskVars,
                batchVars, claimVars, sendVars
  <1>3. \A v \in Workers : Untouched(v)
    BY <1>1 DEF Untouched, threadVars, taskVars, batchVars, claimVars, sendVars
  <1>4. \A v \in Workers : Shaped(v)'
    BY <1>1, <1>3, OthersShaped
  <1>5. QED
    BY <1>1, <1>2, <1>4 DEF TypeInv, EntriesKept

\* So do the threads'.
LEMMA ThreadTypes ==
  ASSUME TypeInv, NEW w \in Workers, Start(w) \/ Step(w)
  PROVE  /\ TypeInv' /\ EntriesKept /\ Domains'
         /\ \A v \in Workers : v # w => Untouched(v)
  <1>1. EntriesKept /\ TaskTypeOK'
    BY RuntimeStep
  <1>2. Domains' /\ \A v \in Workers : v # w => Untouched(v)
    <2>1. TaskTypeOK /\ Domains
      BY DEF TypeInv, LocalTypes, Domains
    <2>2. QED
      BY <2>1, OthersUntouched
  <1>3. /\ Shaped(w)'
        /\ pc'[w] \in Labels /\ pos'[w] \in Nat /\ entry'[w] \in Nat
    BY <1>1, StartShape, LoopShape, SendingShape, SettlingShape DEF Step
  <1>4. LocalTypes'
    BY <1>2, <1>3, OwnTypes
  <1>5. \A v \in Workers : Shaped(v)'
    BY <1>1, <1>2, <1>3, OthersShaped
  <1>6. QED
    BY <1>1, <1>2, <1>4, <1>5 DEF TypeInv, EntriesKept

\* Every step keeps the types.
LEMMA TypeStep == TypeInv /\ [Next]_vars => TypeInv'
  <1> SUFFICES ASSUME TypeInv, [Next]_vars PROVE TypeInv'
    OBVIOUS
  <1>1. CASE Begin \/ End \/ CacheClear \/ Closed \/ UNCHANGED vars
    BY <1>1, HostTypes
  <1>2. CASE \E w \in Workers : Start(w) \/ Step(w)
    BY <1>2, ThreadTypes
  <1>3. QED
    BY <1>1, <1>2 DEF Next

\* Every variable keeps its type in every reachable state of
\* execute_batch_groups: what is unsent or under way is led, and what is led
\* or followed has an entry.
THEOREM BatchTypesCorrect == Spec => []TypeOK
  <1>1. TypeInv => TypeOK
    BY DEF TypeInv, TypeOK, LocalTypes, Shaped, SendShape, Linked
  <1>2. QED
    BY InitTypes, TypeStep, <1>1, PTL DEF Spec

\* QueryEntry::wait is only entered by a thread that has settled all it leads
\* (nothing is unsent or under way), so threads that lead and follow each
\* other's judgments never wait for each other in a circle.
THEOREM FollowersOweNothing == Spec => []WaitsOwingNothing
  <1>1. TypeInv => WaitsOwingNothing
    <2> SUFFICES ASSUME TypeInv, NEW w \in Workers, pc[w] = "wait"
                 PROVE  Owed(w) = {}
      BY DEF WaitsOwingNothing
    <2>1. SendShape(w)
      BY DEF TypeInv, Shaped
    <2>2. todo[w] = {} /\ batch[w] = {}
      BY <2>1 DEF SendShape, ClaimLabels, SendLabels
    <2>3. QED
      BY <2>2 DEF Owed
  <1>2. QED
    BY InitTypes, TypeStep, <1>1, PTL DEF Spec

-----------------------------------------------------------------------------
(* The permit pool.                                                        *)

\* Where each step goes, in or out of a permit's scope.
LEMMA HolderMoves ==
  ASSUME TypeInv, NEW w \in Workers, Start(w) \/ Step(w)
  PROVE  \/ /\ UNCHANGED permits
            /\ pc'[w] \in PermitLabels <=> pc[w] \in PermitLabels
         \/ /\ TakePermit
            /\ pc[w] \notin PermitLabels /\ pc'[w] \in PermitLabels
         \/ /\ DropPermit
            /\ pc[w] \in PermitLabels /\ pc'[w] \notin PermitLabels
  <1> DEFINE Goal ==
         \/ /\ UNCHANGED permits
            /\ pc'[w] \in PermitLabels <=> pc[w] \in PermitLabels
         \/ /\ TakePermit
            /\ pc[w] \notin PermitLabels /\ pc'[w] \in PermitLabels
         \/ /\ DropPermit
            /\ pc[w] \in PermitLabels /\ pc'[w] \notin PermitLabels
  <1> SUFFICES Goal
    OBVIOUS
  <1>0. Domains /\ TaskTypeOK
    BY DEF TypeInv, LocalTypes, Domains
  <1>1. ASSUME Fail(w) \/ NextClaim(w) PROVE pc'[w] \notin PermitLabels
    <2>1. pc'[w] \in {"failed", "plan", "claim"}
      BY <1>0, <1>1, FailMoves, NextClaimMoves
    <2>2. QED
      BY <2>1 DEF PermitLabels
  <1>2. CASE Start(w)
    BY <1>0, <1>2 DEF Start, CanStart, Running, Resting, Goto, Domains,
                      PermitLabels, TypeInv, RuntimeTypeOK
  <1>3. CASE RecordInput(w) \/ RecordRows(w) \/ Hit(w)
               \/ FailedRequest(w) \/ ProviderFailure(w)
    BY <1>0, <1>3 DEF RecordInput, RecordRows, Hit, FailedRequest,
                      ProviderFailure, Goto, Domains, PermitLabels
  <1>4. CASE Claim(w) \/ FetchFlag(w) \/ Lookup(w) \/ HitComplete(w)
    <2>1. UNCHANGED permits /\ pc[w] \notin PermitLabels
      BY <1>4 DEF Claim, FetchFlag, Lookup, HitComplete, runtimeVars,
                  PermitLabels
    <2>2. \/ Fail(w) \/ NextClaim(w)
          \/ Goto(w, "join_flag") \/ Goto(w, "flag") \/ Goto(w, "lookup")
          \/ Goto(w, "hit")
      BY <1>4 DEF Claim, FetchFlag, Lookup, HitComplete, Lead
    <2>3. pc'[w] \notin PermitLabels
      BY <1>0, <1>1, <2>2 DEF Goto, Domains, PermitLabels
    <2>4. QED
      BY <2>1, <2>3
  <1>5. CASE Plan(w) \/ FailBatch(w) \/ Wait(w) \/ Settle(w) \/ Insert(w)
    <2>1. UNCHANGED permits /\ pc[w] \notin PermitLabels
      BY <1>5 DEF Plan, FailBatch, Wait, Settle, Insert, runtimeVars,
                  PermitLabels
    <2>2. Fail(w) \/ \E label \in {"done", "wait", "acquire", "fail_leaders",
                                   "plan", "settle", "insert", "settle_stored"} :
                       Goto(w, label)
      BY <1>5 DEF Plan, Follow, TooLarge, Send, FailBatch, Wait, Settle, Insert
    <2>3. pc'[w] \notin PermitLabels
      BY <1>0, <1>1, <2>2 DEF Goto, Domains, PermitLabels
    <2>4. QED
      BY <2>1, <2>3
  <1>6. CASE Acquire(w) \/ Release(w)
    BY <1>0, <1>6 DEF Acquire, Release, Goto, Domains, PermitLabels
  <1>7. CASE Attempt(w) \/ Call(w) \/ Response(w)
    BY <1>0, <1>7 DEF Attempt, Call, Response, Goto, Domains, PermitLabels,
                      runtimeVars
  <1>8. QED
    BY <1>2, <1>3, <1>4, <1>5, <1>6, <1>7 DEF Step

\* Every step keeps the pool's count: a thread moves in or out of a permit's
\* scope exactly where it takes or drops a permit.
LEMMA PermitStep ==
  TypeInv /\ PermitAccounting /\ [Next]_vars => PermitAccounting'
  <1> SUFFICES ASSUME TypeInv, PermitAccounting, [Next]_vars
               PROVE  PermitAccounting'
    OBVIOUS
  <1>1. CASE Begin \/ End \/ CacheClear \/ Closed \/ UNCHANGED vars
    <2>1. UNCHANGED <<permits, threadVars>>
      BY <1>1, HostFrame
    <2>2. QED
      BY <2>1 DEF threadVars, Holders, PermitAccounting
  <1>2. ASSUME NEW w \in Workers, Start(w) \/ Step(w)
        PROVE  PermitAccounting'
    <2>1. \A v \in Workers : v # w => pc'[v] = pc[v]
      BY <1>2, ThreadTypes DEF Untouched
    <2>2. /\ Holders \in SUBSET Workers /\ Holders' \in SUBSET Workers
          /\ \A v \in Workers : v # w => (v \in Holders <=> v \in Holders')
          /\ w \in Holders <=> pc[w] \in PermitLabels
          /\ w \in Holders' <=> pc'[w] \in PermitLabels
      BY <2>1 DEF Holders
    <2>3. /\ Cardinality(Holders) \in Nat /\ Cardinality(Holders') \in Nat
          /\ (w \in Holders <=> w \in Holders')
               => Cardinality(Holders) = Cardinality(Holders')
          /\ w \notin Holders /\ w \in Holders'
               => Cardinality(Holders') = Cardinality(Holders) + 1
          /\ w \in Holders /\ w \notin Holders'
               => Cardinality(Holders) = Cardinality(Holders') + 1
      BY <2>2, OneMoves
    <2>4. QED
      BY <1>2, <2>2, <2>3, HolderMoves, RuntimeAssumption
         DEF PermitAccounting, TakePermit, DropPermit
  <1>3. QED
    BY <1>1, <1>2 DEF Next

\* However threads, failures, cancellation and the end of queries
\* interleave, the pool counts exactly the threads inside a permit's scope,
\* and they are at most duckjeu_max_inflight: one permit for a whole batch.
THEOREM BatchPermitsAccounted == Spec => []PermitAccounting
  <1>1. Init => PermitAccounting
    <2> SUFFICES ASSUME Init PROVE PermitAccounting
      OBVIOUS
    <2>1. Holders = {}
      BY DEF Init, ThreadsInit, Holders, PermitLabels
    <2>2. QED
      BY <2>1, NoneCounted, RuntimeAssumption
         DEF Init, ThreadsInit, RuntimeInit, PermitAccounting
  <1>2. QED
    BY <1>1, InitTypes, TypeStep, PermitStep, PTL DEF Spec
-----------------------------------------------------------------------------
(* The invariants that rest on it.                                         *)

\* As for the group executor: query ids are handed out in order, and every
\* query but the active one is cancelled.
QueriesInOrder ==
  /\ active # NoQuery => active < nextQuery
  /\ \A w \in Workers : scope[w] < nextQuery
  /\ \A q \in 0..(nextQuery - 1) : q = active \/ q \in cancelled

\* An identity has one entry, and in the active query the map leads to it.
EntriesOnce ==
  /\ \A e, f \in DOMAIN slots : slots[e].id = slots[f].id => e = f
  /\ \A e \in DOMAIN slots :
       /\ slots[e].id.query < nextQuery
       /\ slots[e].id.query = active => slots[e].id \in DOMAIN entries

\* What a thread leads and has neither to send nor under way is settled.
LedIsSettled ==
  \A w \in Workers : \A i \in DOMAIN leaders[w] :
    i \notin todo[w] \cup batch[w] => slots[leaders[w][i]].result # Pending

FlightInv == QueriesInOrder /\ EntriesOnce /\ LedIsSettled /\ SingleFlight

\* The sizes of a chunk's judgments.
SizeAt(c) == [i \in DOMAIN c |-> Size[c[i]]]

\* The limits hold from the moment a batch asks for its permit.
LimitsInv ==
  \A w \in Workers : pc[w] \in PermitLabels \cup {"acquire"} =>
    /\ Cardinality(batch[w]) <= MaxJudgments
    /\ Total(SizeAt(chunk[w]), batch[w]) <= MaxRequestBytes
    /\ \A i, j \in batch[w] : Question[chunk[w][i]] = Question[chunk[w][j]]

\* A group that has yet to be answered: it is unsent, under way or followed,
\* or the claiming loop has yet to come to it.
Waits(w, i) ==
  \/ i \in todo[w] \cup batch[w] \cup DOMAIN followers[w]
  \/ pc[w] \in ClaimLabels /\ i >= pos[w]

\* Every group of a chunk is answered or waits for its answer, and a thread is
\* done only when none does.
Covered(w) ==
  /\ DOMAIN out[w] \subseteq JudgedRows(chunk[w])
  /\ pc[w] \notin {"idle", "failed"} \cup BeforeClaims =>
       \A i \in Leads(chunk[w]) :
         Waits(w, i) \/ Targets(chunk[w], i) \subseteq DOMAIN out[w]
  /\ pc[w] = "done" => DOMAIN followers[w] = {}

\* The followed groups are a map, and a thread that waits has one to wait for.
FollowedMap(w) ==
  /\ followers[w] = [i \in DOMAIN followers[w] |-> followers[w][i]]
  /\ pc[w] = "wait" => DOMAIN followers[w] # {}

CoverInv == \A w \in Workers : Covered(w) /\ FollowedMap(w)

\* The answers a thread has in hand are to its groups.
InHand(w) ==
  /\ pc[w] \in HitLabels => IsAnswerTo(answers[w][pos[w]], IdentityOf(w, pos[w]))
  /\ pc[w] \in SettleLabels \/ (pc[w] = "release" /\ answers[w] # EmptyMap) =>
       \A i \in batch[w] : IsAnswerTo(answers[w][i], IdentityOf(w, i))
  /\ pc[w] \in {"insert", "settle_stored"} => Cacheable(w)

AnswersKept ==
  /\ \A e \in DOMAIN slots :
       slots[e].result \in Answer => IsAnswerTo(slots[e].result, slots[e].id)
  /\ \A i \in DOMAIN cache :
       i.model \in PinnedModels /\ IsAnswerTo(cache[i], i)
  /\ \A w \in Workers : InHand(w)

AnswerInv == ScopesApart /\ AnswersKept /\ RightAnswer

-----------------------------------------------------------------------------
(* Who owes which entry.                                                   *)

\* What a thread owes has the identities of its groups, one each.
LEMMA OwedLinks ==
  ASSUME TypeInv, NEW w \in Workers
  PROVE  /\ \A i \in todo[w] \cup batch[w] :
              leaders[w][i] \in Owed(w)
         /\ pc[w] \in OwningLabels => entry[w] \in Owed(w)
         /\ \A e \in Owed(w) :
              /\ e \in DOMAIN slots /\ slots[e].id.query = scope[w]
              /\ \/ \E i \in todo[w] \cup batch[w] : e = leaders[w][i]
                 \/ pc[w] \in OwningLabels /\ e = entry[w]
         /\ \A i, j \in DOMAIN leaders[w] :
              leaders[w][i] = leaders[w][j] => i = j
         /\ pc[w] \in OwningLabels => \A i \in DOMAIN leaders[w] :
              leaders[w][i] # entry[w]
  <1>0. TaskTypeOK /\ ClaimShape(w) /\ SendShape(w) /\ Linked(w)
    BY DEF TypeInv, Shaped
  <1>1. /\ todo[w] \cup batch[w] \subseteq DOMAIN leaders[w]
        /\ DOMAIN leaders[w] \subseteq Leads(chunk[w])
        /\ Leads(chunk[w]) \subseteq Nat
    BY <1>0, LeadsAreApart DEF ClaimShape, SendShape
  <1>2. \A i : IdentityOf(w, i).query = scope[w]
    BY DEF IdentityOf
  <1>3. /\ \A i \in DOMAIN leaders[w] :
             /\ leaders[w][i] \in DOMAIN slots
             /\ slots[leaders[w][i]].id = IdentityOf(w, i)
        /\ pc[w] \in OwningLabels =>
             /\ entry[w] \in DOMAIN slots
             /\ slots[entry[w]].id = IdentityOf(w, pos[w])
    BY <1>0 DEF Linked, ClaimLabels, OwningLabels
  <1>4. \A i, j \in DOMAIN leaders[w] : leaders[w][i] = leaders[w][j] => i = j
    <2>1. ASSUME NEW i \in DOMAIN leaders[w], NEW j \in DOMAIN leaders[w],
                 leaders[w][i] = leaders[w][j]
          PROVE  i = j
      <3>1. IdentityOf(w, i) = IdentityOf(w, j)
        BY <1>3, <2>1
      <3>2. QED
        BY <1>0, <1>1, <3>1, IdentityTypes
    <2>2. QED
      BY <2>1
  <1>5. ASSUME pc[w] \in OwningLabels, NEW i \in DOMAIN leaders[w]
        PROVE  leaders[w][i] # entry[w]
    <2>1. pos[w] \in Leads(chunk[w]) /\ i < pos[w]
      BY <1>0, <1>5 DEF ClaimShape, ClaimLabels, OwningLabels
    <2>2. IdentityOf(w, i) # IdentityOf(w, pos[w])
      <3>1. i # pos[w]
        BY <1>1, <1>5, <2>1
      <3>2. QED
        BY <1>0, <1>1, <1>5, <2>1, <3>1, IdentityTypes
    <2>3. QED
      BY <1>3, <1>5, <2>2
  <1>6. QED
    BY <1>1, <1>2, <1>3, <1>4, <1>5 DEF Owed, OwningLabels

\* What a step of w does to what it owes, when it settles the entries of D.
OwedMoves(w, D) ==
  /\ \A e \in DOMAIN slots :
       slots'[e].result = Pending <=> slots[e].result = Pending /\ e \notin D
  /\ \A e \in D : e \in Owed(w) \/ slots[e].result # Pending
  /\ \A e \in Owed(w)' :
       \/ e \in Owed(w) \ D
       \/ e \notin DOMAIN slots /\ e \in DOMAIN slots' /\ slots'[e].result = Pending
  /\ \A e \in DOMAIN slots' : e \in DOMAIN slots \/ e \in Owed(w)'
  /\ \A i \in DOMAIN leaders'[w] :
       i \notin todo'[w] \cup batch'[w] => slots'[leaders'[w][i]].result # Pending
  /\ \/ \A e \in Owed(w) : e \in D \/ e \in Owed(w)'
     \/ ~StillActive(w)
     \/ pc[w] = "claim" /\ chunk[w][pos[w]] \in WideKeys

\* A thread that goes on with what it owes.
LEMMA StaysOwing ==
  ASSUME TypeInv, LedIsSettled, NEW w \in Workers, UNCHANGED slots,
         leaders'[w] = leaders[w],
         todo'[w] \cup batch'[w] = todo[w] \cup batch[w],
         entry'[w] = entry[w],
         pc'[w] \in OwningLabels <=> pc[w] \in OwningLabels
  PROVE  OwedMoves(w, {})
  <1>1. Owed(w)' = Owed(w)
    BY DEF Owed, OwningLabels
  <1>2. \A i \in DOMAIN leaders'[w] :
          i \notin todo'[w] \cup batch'[w] => slots'[leaders'[w][i]].result # Pending
    BY DEF LedIsSettled
  <1>3. QED
    BY <1>1, <1>2 DEF OwedMoves

\* A thread that leaves, its query gone or nothing owed.
LEMMA LeavesOwing ==
  ASSUME TypeInv, NEW w \in Workers, UNCHANGED slots,
         DOMAIN leaders'[w] = {}, todo'[w] = {}, batch'[w] = {},
         pc'[w] \notin OwningLabels,
         \/ Owed(w) = {} \/ ~StillActive(w)
         \/ pc[w] = "claim" /\ chunk[w][pos[w]] \in WideKeys
  PROVE  OwedMoves(w, {})
  <1>1. Owed(w)' = {}
    BY DEF Owed, OwningLabels
  <1>2. QED
    BY <1>1 DEF OwedMoves

\* One error settles everything led.
LEMMA FailsOwing ==
  ASSUME TypeInv, LedIsSettled, NEW w \in Workers, FailLeaders(w), Fail(w),
         pc[w] \notin OwningLabels
  PROVE  \E D : OwedMoves(w, D)
  <1> DEFINE D == {leaders[w][i] : i \in DOMAIN leaders[w]}
  <1>0. Domains
    BY DEF TypeInv, LocalTypes, Domains
  <1>1. /\ DOMAIN slots' = DOMAIN slots
        /\ \A e \in DOMAIN slots : /\ e \in D => slots'[e].result # Pending
                                   /\ e \notin D => slots'[e] = slots[e]
    BY CompleteKeeps DEF TypeInv, RuntimeTypeOK, FailLeaders, Outcome
  <1>2. \A e \in DOMAIN slots :
          slots'[e].result = Pending <=> slots[e].result = Pending /\ e \notin D
    BY <1>1
  <1>3. /\ DOMAIN leaders'[w] = {} /\ todo'[w] = {} /\ batch'[w] = {}
        /\ pc'[w] = "failed"
    BY <1>0, FailMoves DEF EmptyMap
  <1>4. Owed(w)' = {}
    BY <1>3 DEF Owed
  <1>5. \A e \in D : e \in Owed(w) \/ slots[e].result # Pending
    BY OwedLinks DEF LedIsSettled
  <1>6. \A e \in Owed(w) : e \in D
    <2>1. todo[w] \cup batch[w] \subseteq DOMAIN leaders[w]
      BY DEF TypeInv, Shaped, SendShape
    <2>2. QED
      BY <2>1, OwedLinks
  <1> HIDE DEF D
  <1>7. OwedMoves(w, D)
    BY <1>1, <1>2, <1>3, <1>4, <1>5, <1>6 DEF OwedMoves
  <1>8. QED
    BY <1>7

\* The entry in hand becomes one of those led.
LEMMA LeadsOwing ==
  ASSUME TypeInv, LedIsSettled, NEW w \in Workers, UNCHANGED slots,
         pc[w] \in OwningLabels, Lead(w), UNCHANGED <<entry, batch>>
  PROVE  OwedMoves(w, {})
  <1>0. TaskTypeOK /\ Domains /\ ClaimShape(w) /\ SendShape(w) /\ Linked(w)
    BY DEF TypeInv, LocalTypes, Domains, Shaped
  <1>1. /\ leaders'[w] = With(leaders[w], pos[w], entry[w])
        /\ todo'[w] = todo[w] \cup {pos[w]} /\ batch'[w] = batch[w]
        /\ pc'[w] \notin OwningLabels
    BY <1>0, LeadMoves, NextClaimMoves DEF OwningLabels
  <1>2. pos[w] \notin DOMAIN leaders[w]
    <2>1. pos[w] \in Nat /\ \A i \in DOMAIN leaders[w] : i < pos[w]
      BY <1>0 DEF ClaimShape, ClaimLabels, OwningLabels, TypeInv, LocalTypes
    <2>2. QED
      BY <2>1
  <1>3. /\ DOMAIN leaders'[w] = DOMAIN leaders[w] \cup {pos[w]}
        /\ leaders'[w][pos[w]] = entry[w]
        /\ \A i \in DOMAIN leaders[w] : leaders'[w][i] = leaders[w][i]
    BY <1>1, <1>2 DEF With
  <1>4. todo[w] \cup batch[w] \subseteq DOMAIN leaders[w]
    BY <1>0 DEF SendShape
  <1>5. Owed(w)' = Owed(w)
    <2>1. Owed(w) = {leaders[w][i] : i \in todo[w] \cup batch[w]} \cup {entry[w]}
      BY DEF Owed, OwningLabels
    <2>2. Owed(w)' = {leaders'[w][i] : i \in todo'[w] \cup batch'[w]}
      BY <1>1 DEF Owed, OwningLabels
    <2>3. {leaders'[w][i] : i \in todo'[w] \cup batch'[w]}
            = {leaders[w][i] : i \in todo[w] \cup batch[w]} \cup {entry[w]}
      <3> DEFINE old == todo[w] \cup batch[w]
                 L == leaders[w]
                 M == leaders'[w]
                 p == pos[w]
                 e == entry[w]
      <3>1. /\ todo'[w] \cup batch'[w] = old \cup {p} /\ M[p] = e
            /\ \A i \in old : M[i] = L[i]
        BY <1>1, <1>3, <1>4
      <3> HIDE DEF old, L, M, p, e
      <3>2. {M[i] : i \in old \cup {p}} = {L[i] : i \in old} \cup {e}
        BY <3>1
      <3>3. QED
        BY <3>1, <3>2 DEF old, L, M, p, e
    <2>4. QED
      BY <2>1, <2>2, <2>3
  <1>6. \A i \in DOMAIN leaders'[w] :
          i \notin todo'[w] \cup batch'[w] => slots'[leaders'[w][i]].result # Pending
    BY <1>1, <1>3 DEF LedIsSettled
  <1>7. QED
    BY <1>5, <1>6 DEF OwedMoves

\* A cached answer settles the entry in hand.
LEMMA HitsOwing ==
  ASSUME TypeInv, LedIsSettled, NEW w \in Workers, HitComplete(w)
  PROVE  OwedMoves(w, {entry[w]})
  <1>0. /\ TaskTypeOK /\ RuntimeTypeOK /\ Domains
        /\ ClaimShape(w) /\ SendShape(w) /\ AnswerShape(w) /\ Linked(w)
    BY DEF TypeInv, LocalTypes, Domains, Shaped
  <1>1. pc[w] \in OwningLabels /\ answers[w][pos[w]] \in Outcome
    BY <1>0 DEF HitComplete, OwningLabels, AnswerShape, HitLabels, Outcome
  <1>2. CompleteEntries({entry[w]}, answers[w][pos[w]])
    BY DEF HitComplete
  <1>3. /\ DOMAIN slots' = DOMAIN slots
        /\ \A e \in DOMAIN slots :
             /\ e = entry[w] => slots'[e].result # Pending
             /\ e # entry[w] => slots'[e] = slots[e]
    BY <1>0, <1>1, <1>2, CompleteKeeps DEF RuntimeTypeOK
  <1>4. /\ leaders'[w] = leaders[w] /\ todo'[w] = todo[w]
        /\ batch'[w] = batch[w] /\ pc'[w] \notin OwningLabels
    BY <1>0, NextClaimMoves DEF HitComplete, OwningLabels
  <1>5. /\ Owed(w)' = {leaders[w][i] : i \in todo[w] \cup batch[w]}
        /\ Owed(w) = {leaders[w][i] : i \in todo[w] \cup batch[w]} \cup {entry[w]}
    BY <1>1, <1>4 DEF Owed, OwningLabels
  <1>6. \A i \in DOMAIN leaders[w] : leaders[w][i] # entry[w]
    BY <1>1, OwedLinks
  <1>7. todo[w] \cup batch[w] \subseteq DOMAIN leaders[w]
    BY <1>0 DEF SendShape
  <1>8. \A i \in DOMAIN leaders'[w] :
          i \notin todo'[w] \cup batch'[w] => slots'[leaders'[w][i]].result # Pending
    BY <1>0, <1>3, <1>4, <1>6 DEF LedIsSettled, Linked
  <1>9. \A e \in Owed(w)' : e \in Owed(w) \ {entry[w]}
    BY <1>5, <1>6, <1>7
  <1>10. \A e \in Owed(w) : e \in {entry[w]} \/ e \in Owed(w)'
    BY <1>5
  <1>11. entry[w] \in Owed(w)
    BY <1>5
  <1>12. QED
    BY <1>3, <1>8, <1>9, <1>10, <1>11 DEF OwedMoves

\* An answer settles its group.
LEMMA SettlesOwing ==
  ASSUME TypeInv, LedIsSettled, NEW w \in Workers, Settle(w)
  PROVE  OwedMoves(w, {leaders[w][Min(batch[w])]})
  <1> DEFINE i == Min(batch[w])
             e == leaders[w][i]
  <1>0. /\ TaskTypeOK /\ RuntimeTypeOK /\ Domains
        /\ ClaimShape(w) /\ SendShape(w) /\ AnswerShape(w) /\ Linked(w)
    BY DEF TypeInv, LocalTypes, Domains, Shaped
  <1>1. /\ pc[w] \in SettleLabels /\ pc[w] \in SendLabels
        /\ pc[w] \notin OwningLabels
    BY DEF Settle, SettleLabels, SendLabels, OwningLabels
  <1>2. i \in batch[w] /\ answers[w][i] \in Outcome
    BY <1>0, <1>1, BatchGroups DEF AnswerShape, Outcome
  <1>3. CompleteEntries({e}, answers[w][i]) /\ i \in DOMAIN leaders[w]
    BY <1>0, <1>2 DEF Settle, SendShape
  <1>4. batch' = [batch EXCEPT ![w] = @ \ {i}]
    BY DEF Settle
  <1>5. /\ DOMAIN slots' = DOMAIN slots
        /\ \A f \in DOMAIN slots : /\ f = e => slots'[f].result # Pending
                                   /\ f # e => slots'[f] = slots[f]
    BY <1>0, <1>2, <1>3, CompleteKeeps DEF RuntimeTypeOK
  <1>6. /\ leaders'[w] = leaders[w] /\ todo'[w] = todo[w]
        /\ batch'[w] = batch[w] \ {i} /\ pc'[w] \notin OwningLabels
    BY <1>0, <1>4 DEF Settle, claimVars, Goto, Domains, OwningLabels
  <1>7. i \notin todo[w] /\ todo[w] \cup batch[w] \subseteq DOMAIN leaders[w]
    BY <1>0, <1>2 DEF SendShape
  <1>8. \A j \in DOMAIN leaders[w] : leaders[w][j] = e => j = i
    BY <1>3, OwedLinks
  <1>9. /\ Owed(w)' = {leaders[w][j] : j \in todo[w] \cup (batch[w] \ {i})}
        /\ Owed(w) = {leaders[w][j] : j \in todo[w] \cup batch[w]}
    BY <1>1, <1>6 DEF Owed, OwningLabels
  <1>10. e \in Owed(w) /\ e \in DOMAIN slots
    BY <1>2, OwedLinks
  <1> HIDE DEF e, i
  <1>11. \A f \in Owed(w)' : f \in Owed(w) \ {e}
    BY <1>2, <1>7, <1>8, <1>9
  <1>12. \A f \in Owed(w) : f \in {e} \/ f \in Owed(w)'
    <2>1. ASSUME NEW f \in Owed(w), f # e PROVE f \in Owed(w)'
      <3>1. PICK j \in todo[w] \cup batch[w] : f = leaders[w][j]
        BY <1>9, <2>1
      <3>2. j # i
        BY <2>1, <3>1 DEF e
      <3>3. QED
        BY <1>9, <3>1, <3>2
    <2>2. QED
      BY <2>1
  <1>13. \A j \in DOMAIN leaders'[w] :
           j \notin todo'[w] \cup batch'[w] => slots'[leaders'[w][j]].result # Pending
    <2>1. ASSUME NEW j \in DOMAIN leaders[w], j \notin todo'[w] \cup batch'[w]
          PROVE  slots'[leaders[w][j]].result # Pending
      <3>1. leaders[w][j] \in DOMAIN slots
        BY <1>0, <2>1 DEF Linked
      <3>2. CASE j = i
        BY <1>5, <3>1, <3>2 DEF e
      <3>3. CASE j # i
        <4>1. slots[leaders[w][j]].result # Pending
          BY <1>6, <2>1, <3>3 DEF LedIsSettled
        <4>2. leaders[w][j] # e
          BY <1>8, <2>1, <3>3
        <4>3. QED
          BY <1>5, <3>1, <4>1, <4>2
      <3>4. QED
        BY <3>2, <3>3
    <2>2. QED
      BY <1>6, <2>1
  <1>14. OwedMoves(w, {e})
    BY <1>5, <1>10, <1>11, <1>12, <1>13 DEF OwedMoves
  <1>15. QED
    BY <1>14 DEF e, i

\* A new entry, or one joined.
LEMMA ClaimsOwing ==
  ASSUME TypeInv, FlightInv, NEW w \in Workers, Claim(w)
  PROVE  \E D : OwedMoves(w, D)
  <1>0. /\ TaskTypeOK /\ RuntimeTypeOK /\ Domains /\ LedIsSettled
        /\ ClaimShape(w) /\ SendShape(w) /\ Linked(w)
    BY DEF TypeInv, LocalTypes, Domains, Shaped, FlightInv
  <1> DEFINE id == IdentityOf(w, pos[w])
             new == Len(slots) + 1
  <1>1. CASE Fail(w)
    <2>1. /\ DOMAIN leaders'[w] = {} /\ todo'[w] = {} /\ batch'[w] = {}
          /\ pc'[w] \notin OwningLabels
      BY <1>0, <1>1, FailMoves DEF EmptyMap, OwningLabels
    <2>2. /\ UNCHANGED slots
          /\ chunk[w][pos[w]] \in WideKeys \/ ~StillActive(w)
      <3>1. ~Goto(w, "join_flag") /\ ~Goto(w, "flag")
        BY <1>0, <1>1 DEF Fail, Goto, Domains
      <3>2. QED
        BY <3>1 DEF Claim, entryVars
    <2>3. QED
      BY <2>1, <2>2, LeavesOwing DEF Claim
  <1>2. CASE JoinEntry /\ Goto(w, "join_flag") /\ ~Fail(w)
    <2>1. /\ pc'[w] = "join_flag" /\ pc[w] = "claim"
          /\ UNCHANGED <<slots, leaders, todo, batch>>
      BY <1>0, <1>2 DEF Claim, JoinEntry, Goto, Domains, sendVars
    <2>2. Owed(w)' = Owed(w)
      BY <2>1 DEF Owed, OwningLabels
    <2>3. \A i \in DOMAIN leaders'[w] : i \notin todo'[w] \cup batch'[w]
            => slots'[leaders'[w][i]].result # Pending
      BY <1>0, <2>1 DEF LedIsSettled
    <2>4. OwedMoves(w, {})
      BY <2>1, <2>2, <2>3 DEF OwedMoves
    <2>5. QED
      BY <2>4
  <1>3. CASE NewEntry(id) /\ Goto(w, "flag") /\ ~Fail(w)
    <2>1. /\ pc'[w] = "flag" /\ pc[w] = "claim"
          /\ UNCHANGED <<leaders, todo, batch>>
          /\ entry' = [entry EXCEPT ![w] = new]
      <3>1. pc'[w] = "flag"
        BY <1>0, <1>3 DEF Goto, Domains
      <3>2. ~Goto(w, "join_flag")
        BY <1>0, <3>1 DEF Goto, Domains
      <3>3. QED
        BY <1>3, <3>1, <3>2 DEF Claim, sendVars
    <2>2. id \in Identity
      BY <1>0, <2>1, IdentityTypes DEF ClaimShape, ClaimLabels
    <2>3. /\ DOMAIN slots' = DOMAIN slots \cup {new} /\ new \notin DOMAIN slots
          /\ \A e \in DOMAIN slots : slots'[e] = slots[e]
      BY <1>0, <1>3, <2>2, NewEntryKeeps
    <2>4. slots'[new].result = Pending
      <3>1. slots' = Append(slots, [id |-> id, result |-> Pending])
        BY <1>3 DEF NewEntry
      <3>2. slots \in Seq(QueryEntry)
        BY <1>0 DEF RuntimeTypeOK
      <3> HIDE DEF id
      <3>3. QED
        BY <3>1, <3>2
    <2> HIDE DEF new, id
    <2>5. entry'[w] = new
      BY <1>0, <2>1 DEF Domains
    <2>6. Owed(w)' = Owed(w) \cup {new}
      BY <2>1, <2>5 DEF Owed, OwningLabels
    <2>7. \A i \in DOMAIN leaders'[w] : i \notin todo'[w] \cup batch'[w]
            => slots'[leaders'[w][i]].result # Pending
      BY <1>0, <2>1, <2>3 DEF LedIsSettled, Linked
    <2>8. OwedMoves(w, {})
      BY <2>3, <2>4, <2>6, <2>7 DEF OwedMoves
    <2>9. QED
      BY <2>8
  <1>4. QED
    BY <1>1, <1>2, <1>3 DEF Claim

\* Every step of a thread settles, keeps or takes on what it should.
LEMMA StepOwing ==
  ASSUME TypeInv, FlightInv, NEW w \in Workers, Start(w) \/ Step(w)
  PROVE  \E D : OwedMoves(w, D)
  <1>0. /\ TaskTypeOK /\ RuntimeTypeOK /\ Domains /\ LedIsSettled
        /\ ClaimShape(w) /\ SendShape(w) /\ Linked(w)
    BY DEF TypeInv, LocalTypes, Domains, Shaped, FlightInv
  <1>1. CASE Start(w)
    <2>1. pc[w] \in Resting
      BY <1>1 DEF Start, CanStart, Running
    <2>2. todo[w] = {} /\ batch[w] = {} /\ Owed(w) = {}
      BY <1>0, <2>1 DEF SendShape, ClaimLabels, SendLabels, Resting, Owed
    <2>3. /\ DOMAIN leaders'[w] = {} /\ todo'[w] = {} /\ batch'[w] = {}
          /\ pc'[w] \notin OwningLabels /\ UNCHANGED slots
      BY <1>0, <1>1 DEF Start, Reset, Goto, Domains, EmptyMap, OwningLabels,
                        entryVars
    <2>4. QED
      BY <2>2, <2>3, LeavesOwing
  <1>2. CASE \/ RecordInput(w) \/ RecordRows(w) \/ Hit(w) \/ Acquire(w)
             \/ Attempt(w) \/ Call(w) \/ Response(w) \/ Release(w) \/ Insert(w)
             \/ FailedRequest(w) \/ ProviderFailure(w)
    <2>1. UNCHANGED <<slots, entry, leaders, todo, batch>>
      BY <1>2 DEF RecordInput, RecordRows, Hit, Acquire, Attempt, Call, Response,
                  Release, Insert, FailedRequest, ProviderFailure, runtimeVars,
                  entryVars, batchVars, claimVars, sendVars
    <2>2. pc'[w] \in OwningLabels <=> pc[w] \in OwningLabels
      <3>1. CASE Hit(w)
        BY <1>0, <3>1 DEF Hit, Goto, Domains, OwningLabels
      <3>2. CASE ~Hit(w)
        BY <1>0, <1>2, <3>2
           DEF RecordInput, RecordRows, Acquire, Attempt, Call, Response,
               Release, Insert, FailedRequest, ProviderFailure, Goto, Domains,
               OwningLabels
      <3>3. QED
        BY <3>1, <3>2
    <2>3. QED
      BY <1>0, <2>1, <2>2, StaysOwing
  <1>3. CASE FetchFlag(w)
    <2>1. CASE ~StillActive(w)
      <3>1. Fail(w) /\ UNCHANGED slots
        BY <1>3, <2>1 DEF FetchFlag, runtimeVars, entryVars
      <3>2. /\ DOMAIN leaders'[w] = {} /\ todo'[w] = {} /\ batch'[w] = {}
            /\ pc'[w] \notin OwningLabels
        BY <1>0, <3>1, FailMoves DEF EmptyMap, OwningLabels
      <3>3. QED
        BY <2>1, <3>1, <3>2, LeavesOwing
    <2>2. CASE StillActive(w)
      <3>1. /\ UNCHANGED <<slots, entry, batch>>
            /\ \/ pc[w] = "join_flag" /\ NextClaim(w) /\ UNCHANGED <<leaders, todo>>
               \/ pc[w] = "flag" /\ Goto(w, "lookup") /\ UNCHANGED <<leaders, todo>>
               \/ pc[w] = "flag" /\ Lead(w)
        BY <1>3, <2>2 DEF FetchFlag, runtimeVars, entryVars
      <3>2. CASE pc[w] = "flag" /\ Lead(w)
        BY <1>0, <3>1, <3>2, LeadsOwing DEF OwningLabels
      <3>3. CASE pc[w] = "join_flag" /\ NextClaim(w) /\ UNCHANGED <<leaders, todo>>
        <4>1. pc'[w] \notin OwningLabels /\ pc[w] \notin OwningLabels
          BY <1>0, <3>3, NextClaimMoves DEF OwningLabels
        <4>2. QED
          BY <1>0, <3>1, <3>3, <4>1, StaysOwing
      <3>4. CASE pc[w] = "flag" /\ Goto(w, "lookup") /\ UNCHANGED <<leaders, todo>>
        <4>1. pc'[w] \in OwningLabels /\ pc[w] \in OwningLabels
          BY <1>0, <3>4 DEF OwningLabels, Goto, Domains
        <4>2. QED
          BY <1>0, <3>1, <3>4, <4>1, StaysOwing
      <3>5. QED
        BY <3>1, <3>2, <3>3, <3>4
    <2>3. QED
      BY <2>1, <2>2
  <1>4. CASE Lookup(w)
    <2>1. /\ UNCHANGED <<slots, entry, batch>> /\ pc[w] = "lookup"
          /\ Lead(w) \/ (Goto(w, "hit") /\ UNCHANGED <<leaders, todo>>)
      BY <1>4 DEF Lookup, entryVars
    <2>2. CASE Lead(w)
      BY <1>0, <2>1, <2>2, LeadsOwing DEF OwningLabels
    <2>3. CASE Goto(w, "hit") /\ UNCHANGED <<leaders, todo>>
      <3>1. pc'[w] \in OwningLabels /\ pc[w] \in OwningLabels
        BY <1>0, <2>1, <2>3 DEF OwningLabels, Goto, Domains
      <3>2. QED
        BY <1>0, <2>1, <2>3, <3>1, StaysOwing
    <2>4. QED
      BY <2>1, <2>2, <2>3
  <1>5. CASE Plan(w)
    <2>1. pc[w] = "plan" /\ pc[w] \notin OwningLabels
      BY <1>5 DEF Plan, OwningLabels
    <2>2. CASE Follow(w)
      <3>1. /\ UNCHANGED <<slots, entry, leaders, todo, batch>>
            /\ pc'[w] \notin OwningLabels
        BY <1>0, <2>2 DEF Follow, Goto, Domains, OwningLabels, batchVars,
                          claimVars, sendVars
      <3>2. QED
        BY <1>0, <2>1, <3>1, StaysOwing
    <2>3. CASE TooLarge(w)
      BY <1>0, <2>1, <2>3, FailsOwing DEF TooLarge
    <2>4. CASE Send(w)
      <3>1. batch[w] = {}
        BY <1>0, <2>1 DEF SendShape, SendLabels
      <3>2. /\ UNCHANGED <<slots, entry, leaders>>
            /\ batch'[w] = NextBatch(w) /\ todo'[w] = todo[w] \ NextBatch(w)
            /\ pc'[w] \notin OwningLabels
        BY <1>0, <2>4 DEF Send, Goto, Domains, OwningLabels, claimVars
      <3>3. NextBatch(w) \subseteq todo[w]
        BY NextBatchGroups
      <3>4. todo'[w] \cup batch'[w] = todo[w] \cup batch[w]
        BY <3>1, <3>2, <3>3
      <3>5. QED
        BY <1>0, <2>1, <3>2, <3>4, StaysOwing
    <2>5. QED
      BY <1>5, <2>2, <2>3, <2>4 DEF Plan
  <1>6. CASE FailBatch(w)
    BY <1>0, <1>6, FailsOwing DEF FailBatch, OwningLabels
  <1>7. CASE Wait(w)
    <2>1. pc[w] = "wait" /\ UNCHANGED slots /\ todo[w] = {} /\ batch[w] = {}
      BY <1>0, <1>7 DEF Wait, runtimeVars, entryVars, SendShape, ClaimLabels,
                        SendLabels
    <2>2. CASE Fail(w)
      <3>1. /\ DOMAIN leaders'[w] = {} /\ todo'[w] = {} /\ batch'[w] = {}
            /\ pc'[w] \notin OwningLabels
        BY <1>0, <2>2, FailMoves DEF EmptyMap, OwningLabels
      <3>2. Owed(w) = {}
        BY <2>1 DEF Owed
      <3>3. QED
        BY <2>1, <3>1, <3>2, LeavesOwing
    <2>3. CASE ~Fail(w)
      <3>1. /\ UNCHANGED <<entry, leaders, todo, batch>>
            /\ pc'[w] \notin OwningLabels /\ pc[w] \notin OwningLabels
        BY <1>0, <1>7, <2>3 DEF Wait, Goto, Domains, OwningLabels, sendVars
      <3>2. QED
        BY <1>0, <2>1, <3>1, StaysOwing
    <2>4. QED
      BY <2>2, <2>3
  <1>8. QED
    BY <1>0, <1>1, <1>2, <1>3, <1>4, <1>5, <1>6, <1>7, ClaimsOwing, HitsOwing,
       SettlesOwing DEF Step

-----------------------------------------------------------------------------
(* Single flight.                                                          *)

\* Threads leave the queries as they are; one that starts joins the active.
LEMMA QueriesStay ==
  ASSUME TypeInv, QueriesInOrder, NEW w \in Workers, Start(w) \/ Step(w)
  PROVE  /\ QueriesInOrder'
         /\ UNCHANGED <<active, nextQuery, cancelled>>
  <1>1. UNCHANGED queryVars
    BY DEF Start, Step, RecordInput, RecordRows, Claim, FetchFlag, Lookup, Hit,
           HitComplete, Plan, Acquire, Attempt, Call, Response, Release, Insert,
           Settle, FailedRequest, ProviderFailure, FailBatch, Wait, runtimeVars
  <1>2. UNCHANGED <<active, nextQuery, cancelled>>
    BY <1>1 DEF queryVars
  <1>3. \A v \in Workers : v # w => scope'[v] = scope[v]
    BY ThreadTypes DEF Untouched
  <1>4. scope'[w] < nextQuery
    <2>1. CASE Start(w)
      <3>1. scope'[w] = active /\ active # NoQuery
        BY <2>1 DEF Start, CanStart, QueryScope, TypeInv, TaskTypeOK
      <3>2. QED
        BY <3>1 DEF QueriesInOrder
    <2>2. CASE Step(w)
      <3>1. UNCHANGED scope
        BY <2>2 DEF Step, RecordInput, RecordRows, Claim, FetchFlag, Lookup, Hit,
             HitComplete, Plan, Acquire, Attempt, Call, Response, Release, Insert,
             Settle, FailedRequest, ProviderFailure, FailBatch, Wait, taskVars
      <3>2. QED
        BY <3>1, SMTT(30) DEF QueriesInOrder
    <2>3. QED
      BY <2>1, <2>2
  <1>5. \A v \in Workers : scope'[v] < nextQuery'
    BY <1>2, <1>3, <1>4 DEF QueriesInOrder
  <1>6. QED
    BY <1>2, <1>5 DEF QueriesInOrder

\* Entries are made for the active query, and only where the map has none.
LEMMA EntriesStayOne ==
  ASSUME TypeInv, QueriesInOrder, EntriesOnce, NEW w \in Workers,
         Start(w) \/ Step(w)
  PROVE  EntriesOnce'
  <1>0. RuntimeTypeOK /\ RuntimeTypeOK'
    BY ThreadTypes DEF TypeInv
  <1>1. UNCHANGED <<active, nextQuery>> /\ EntriesKept
    BY QueriesStay, ThreadTypes
  <1>2. CASE DOMAIN slots' = DOMAIN slots /\ UNCHANGED entries
    BY <1>1, <1>2 DEF EntriesOnce, EntriesKept
  <1>3. CASE Claim(w) /\ NewEntry(IdentityOf(w, pos[w]))
                /\ IdentityOf(w, pos[w]) \notin DOMAIN entries /\ StillActive(w)
    <2>1. /\ IdentityOf(w, pos[w]) \in Identity
          /\ IdentityOf(w, pos[w]).query = active
          /\ active # NoQuery /\ active < nextQuery
      <3>1. IdentityOf(w, pos[w]) \in Identity
        BY <1>3, IdentityTypes
           DEF Claim, TypeInv, Shaped, ClaimShape, ClaimLabels
      <3>2. IdentityOf(w, pos[w]).query = active
        BY <1>3 DEF StillActive, IdentityOf
      <3>3. active \in Nat
        BY <3>1, <3>2 DEF Identity
      <3>4. QED
        BY <3>1, <3>2, <3>3, RuntimeAssumption DEF QueriesInOrder
    <2>2. PICK id : id = IdentityOf(w, pos[w])
      OBVIOUS
    <2>3. /\ id \in Identity /\ NewEntry(id) /\ id \notin DOMAIN entries
          /\ id.query = active
      BY <1>3, <2>1, <2>2
    <2>4. /\ DOMAIN slots' = DOMAIN slots \cup {Len(slots) + 1}
          /\ \A e \in DOMAIN slots : slots'[e] = slots[e]
          /\ slots'[Len(slots) + 1].id = id
          /\ DOMAIN entries' = DOMAIN entries \cup {id}
      BY <1>0, <2>3, NewEntryKeeps
    <2>5. \A e \in DOMAIN slots : slots[e].id # id
      BY <2>3 DEF EntriesOnce
    <2> DEFINE new == Len(slots) + 1
    <2> HIDE DEF new
    <2>6. /\ DOMAIN slots' = DOMAIN slots \cup {new} /\ slots'[new].id = id
      BY <2>4 DEF new
    <2>7. \A e, f \in DOMAIN slots' : slots'[e].id = slots'[f].id => e = f
      BY <2>4, <2>5, <2>6 DEF EntriesOnce
    <2>8. \A e \in DOMAIN slots' :
            /\ slots'[e].id.query < nextQuery'
            /\ slots'[e].id.query = active' => slots'[e].id \in DOMAIN entries'
      BY <1>1, <2>1, <2>3, <2>4, <2>6 DEF EntriesOnce
    <2>9. QED
      BY <2>7, <2>8 DEF EntriesOnce
  <1>4. \/ UNCHANGED entryVars
        \/ UNCHANGED entries /\ \E E, r : r \in Outcome /\ CompleteEntries(E, r)
        \/ Claim(w)
    <2>1. CASE Start(w) \/ RecordInput(w) \/ RecordRows(w) \/ FetchFlag(w)
                 \/ Lookup(w) \/ Hit(w) \/ Acquire(w) \/ Attempt(w) \/ Call(w)
                 \/ Response(w) \/ Release(w) \/ Insert(w) \/ FailedRequest(w)
                 \/ ProviderFailure(w) \/ Wait(w)
      BY <2>1 DEF Start, RecordInput, RecordRows, FetchFlag, Lookup, Hit, Acquire,
           Attempt, Call, Response, Release, Insert, FailedRequest,
           ProviderFailure, Wait, runtimeVars
    <2>2. CASE HitComplete(w)
      BY <2>2 DEF HitComplete, TypeInv, Shaped, AnswerShape, HitLabels, Outcome
    <2>3. CASE Settle(w)
      <3>1. pc[w] \in SettleLabels /\ pc[w] \in SendLabels
        BY <2>3 DEF Settle, SettleLabels, SendLabels
      <3>2. answers[w][Min(batch[w])] \in Answer
        BY <3>1, BatchGroups DEF TypeInv, Shaped, AnswerShape
      <3>3. QED
        BY <2>3, <3>2 DEF Settle, Outcome
    <2>4. CASE Plan(w) \/ FailBatch(w)
      BY <2>4 DEF Plan, Follow, TooLarge, Send, FailBatch, FailLeaders, Outcome,
                  entryVars
    <2>5. QED
      BY <2>1, <2>2, <2>3, <2>4 DEF Step
  <1>5. CASE Claim(w)
    BY <1>2, <1>3, <1>5 DEF Claim, JoinEntry, entryVars
  <1>6. QED
    BY <1>0, <1>2, <1>4, <1>5, CompleteKeeps DEF RuntimeTypeOK, entryVars

\* What other threads owe, and what is in their hands, stays.
LEMMA OthersOwing ==
  ASSUME NEW v \in Workers, Untouched(v)
  PROVE  Owed(v)' = Owed(v)
  BY DEF Untouched, Owed

\* A step of a thread keeps the invariant.
LEMMA FlightThreadStep ==
  ASSUME TypeInv, FlightInv, NEW w \in Workers, Start(w) \/ Step(w)
  PROVE  FlightInv'
  <1>1. PICK D : OwedMoves(w, D)
    BY StepOwing
  <1>2. QueriesInOrder' /\ EntriesOnce'
    BY QueriesStay, EntriesStayOne DEF FlightInv
  <1>3. TypeInv' /\ EntriesKept /\ \A v \in Workers : v # w => Untouched(v)
    BY ThreadTypes
  <1>4. \A v \in Workers : v # w => Owed(v)' = Owed(v)
    BY <1>3, OthersOwing
  <1>5. ASSUME NEW v \in Workers, NEW e \in Owed(v), v # w
        PROVE  e \in DOMAIN slots /\ e \notin D /\ slots[e].result = Pending
    <2>1. e \in DOMAIN slots /\ slots[e].result = Pending
      BY OwedLinks DEF FlightInv, SingleFlight
    <2>2. e \notin Owed(w)
      BY <1>5 DEF FlightInv, SingleFlight
    <2>3. QED
      BY <1>1, <2>1, <2>2 DEF OwedMoves
  <1>6. \A v \in Workers : \A e \in Owed(v)' :
          e \in DOMAIN slots' /\ slots'[e].result = Pending
    <2>1. ASSUME NEW v \in Workers, NEW e \in Owed(v)', v # w
          PROVE  e \in DOMAIN slots' /\ slots'[e].result = Pending
      <3>1. e \in DOMAIN slots /\ e \notin D /\ slots[e].result = Pending
        BY <1>4, <1>5, <2>1
      <3>2. QED
        BY <1>1, <1>3, <3>1 DEF OwedMoves, EntriesKept
    <2>2. ASSUME NEW e \in Owed(w)'
          PROVE  e \in DOMAIN slots' /\ slots'[e].result = Pending
      <3>1. CASE e \in Owed(w) \ D
        <4>1. e \in DOMAIN slots /\ slots[e].result = Pending
          BY <3>1, OwedLinks DEF FlightInv, SingleFlight
        <4>2. QED
          BY <1>1, <1>3, <3>1, <4>1 DEF OwedMoves, EntriesKept
      <3>2. CASE e \notin Owed(w) \ D
        BY <1>1, <2>2, <3>2 DEF OwedMoves
      <3>3. QED
        BY <3>1, <3>2
    <2>3. QED
      BY <2>1, <2>2
  <1>7. \A v, x \in Workers : \A e : e \in Owed(v)' /\ e \in Owed(x)' => v = x
    <2>1. ASSUME NEW v \in Workers, v # w, NEW e, e \in Owed(v)', e \in Owed(w)'
          PROVE  FALSE
      <3>1. e \in Owed(v) /\ e \in DOMAIN slots
        BY <1>4, <1>5, <2>1
      <3>2. e \in Owed(w)
        BY <1>1, <2>1, <3>1 DEF OwedMoves
      <3>3. QED
        BY <2>1, <3>1, <3>2 DEF FlightInv, SingleFlight
    <2>2. ASSUME NEW v \in Workers, NEW x \in Workers, v # w, x # w,
                 NEW e, e \in Owed(v)', e \in Owed(x)'
          PROVE  v = x
      <3>1. e \in Owed(v) /\ e \in Owed(x)
        BY <1>4, <2>2
      <3>2. QED
        BY <3>1 DEF FlightInv, SingleFlight
    <2>3. QED
      BY <2>1, <2>2
  <1>8. SingleFlight'
    <2> SUFFICES ASSUME NEW v \in Workers, NEW e \in Owed(v)',
                        NEW x \in Workers, NEW f \in Owed(x)',
                        slots'[f].id = slots'[e].id
                 PROVE  x = v /\ f = e
      BY <1>6 DEF SingleFlight
    <2>1. e \in DOMAIN slots' /\ f \in DOMAIN slots'
      BY <1>6
    <2>2. e = f
      BY <1>2, <2>1 DEF EntriesOnce
    <2>3. QED
      BY <1>7, <2>2
  <1>9. LedIsSettled'
    <2>1. ASSUME NEW v \in Workers, NEW i \in DOMAIN leaders'[v], v # w,
                 i \notin todo'[v] \cup batch'[v]
          PROVE  slots'[leaders'[v][i]].result # Pending
      <3>1. leaders'[v] = leaders[v] /\ todo'[v] = todo[v] /\ batch'[v] = batch[v]
        BY <1>3, <2>1 DEF Untouched
      <3>2. slots[leaders[v][i]].result # Pending /\ leaders[v][i] \in DOMAIN slots
        BY <2>1, <3>1 DEF FlightInv, LedIsSettled, TypeInv, Shaped, Linked
      <3>3. QED
        BY <1>1, <3>1, <3>2 DEF OwedMoves
    <2>2. QED
      BY <1>1, <2>1 DEF LedIsSettled, OwedMoves
  <1>10. QED
    BY <1>2, <1>8, <1>9 DEF FlightInv

\* So do the host's steps: an ended query's entries are dropped, its flag is
\* up, and a new one has none.
LEMMA FlightHostStep ==
  ASSUME TypeInv, FlightInv,
         Begin \/ End \/ CacheClear \/ Closed \/ UNCHANGED vars
  PROVE  FlightInv'
  <1>0. /\ RuntimeTypeOK /\ TaskTypeOK
        /\ QueriesInOrder /\ EntriesOnce /\ LedIsSettled /\ SingleFlight
    BY DEF TypeInv, FlightInv
  <1>1. UNCHANGED <<slots, threadVars, batchVars>>
    BY HostFrame
  <1>2. LedIsSettled'
    BY <1>0, <1>1 DEF LedIsSettled, batchVars, claimVars, sendVars
  <1>3. SingleFlight'
    <2>1. \A v \in Workers : Owed(v)' = Owed(v)
      BY <1>1 DEF Owed, threadVars, batchVars, claimVars, sendVars
    <2>2. QED
      BY <1>0, <1>1, <2>1 DEF SingleFlight
  <1>4. scope' = scope /\ slots' = slots
    BY <1>1 DEF threadVars, taskVars
  <1>5. \A e \in DOMAIN slots : slots[e].id.query \in Nat
    <2>1. \A e \in DOMAIN slots : slots[e] \in QueryEntry
      BY <1>0 DEF RuntimeTypeOK
    <2>2. \A e \in DOMAIN slots : slots[e].id \in Identity
      BY <2>1 DEF QueryEntry
    <2>3. QED
      BY <2>2 DEF Identity
  <1>6. CASE Begin
    <2>1. /\ cancelled' = cancelled \cup ({active} \ {NoQuery})
          /\ active' = nextQuery /\ nextQuery' = nextQuery + 1
          /\ nextQuery \in Nat
      BY <1>0, <1>6 DEF Begin, HostBegin, BeginQuery, RuntimeTypeOK
    <2>2. \A w \in Workers : scope[w] \in Nat
      BY <1>0 DEF TaskTypeOK
    <2>3. \A w \in Workers : scope'[w] < nextQuery'
      BY <1>0, <1>4, <2>1, <2>2 DEF QueriesInOrder
    <2>4. \A q \in 0..(nextQuery' - 1) : q = active' \/ q \in cancelled'
      <3>1. ASSUME NEW q \in 0..nextQuery, q # nextQuery PROVE q \in cancelled'
        <4>1. q \in 0..(nextQuery - 1) /\ q \in Nat
          BY <2>1, <3>1
        <4>2. QED
          BY <1>0, <2>1, <4>1, RuntimeAssumption DEF QueriesInOrder
      <3>2. QED
        BY <2>1, <3>1
    <2>5. QueriesInOrder'
      BY <2>1, <2>3, <2>4 DEF QueriesInOrder
    <2>6. EntriesOnce'
      <3>1. \A e \in DOMAIN slots :
              slots[e].id.query < nextQuery + 1 /\ slots[e].id.query # nextQuery
        BY <1>0, <1>5, <2>1 DEF EntriesOnce
      <3>2. QED
        BY <1>0, <1>4, <2>1, <3>1 DEF EntriesOnce
    <2>7. QED
      BY <1>2, <1>3, <2>5, <2>6 DEF FlightInv
  <1>7. CASE End
    <2>1. /\ cancelled' = cancelled \cup {active} /\ active' = NoQuery
          /\ nextQuery' = nextQuery
      BY <1>7 DEF End, HostEnd, EndQuery
    <2>2. QueriesInOrder'
      BY <1>0, <1>4, <2>1 DEF QueriesInOrder
    <2>3. EntriesOnce'
      BY <1>0, <1>4, <1>5, <2>1, RuntimeAssumption DEF EntriesOnce
    <2>4. QED
      BY <1>2, <1>3, <2>2, <2>3 DEF FlightInv
  <1>8. CASE CacheClear \/ Closed \/ UNCHANGED vars
    <2>1. UNCHANGED <<queryVars, entries>>
      BY <1>8 DEF CacheClear, Closed, vars, runtimeVars, entryVars
    <2>2. QueriesInOrder' /\ EntriesOnce'
      BY <1>0, <1>4, <2>1 DEF QueriesInOrder, EntriesOnce, queryVars
    <2>3. QED
      BY <1>2, <1>3, <2>2 DEF FlightInv
  <1>9. QED
    BY <1>6, <1>7, <1>8

\* What Init establishes.
LEMMA FlightInit == Init => FlightInv
  <1> SUFFICES ASSUME Init PROVE FlightInv
    OBVIOUS
  <1>1. /\ slots = << >> /\ active = 0 /\ nextQuery = 1
        /\ \A w \in Workers : /\ scope[w] = 0 /\ pc[w] = "idle"
                              /\ leaders[w] = EmptyMap
                              /\ todo[w] = {} /\ batch[w] = {}
    BY DEF Init, ThreadsInit, RuntimeInit
  <1>2. QueriesInOrder
    BY <1>1, RuntimeAssumption DEF QueriesInOrder
  <1>3. EntriesOnce
    BY <1>1 DEF EntriesOnce
  <1>4. LedIsSettled
    BY <1>1 DEF LedIsSettled, EmptyMap
  <1>5. SingleFlight
    BY <1>1 DEF SingleFlight, Owed
  <1>6. QED
    BY <1>2, <1>3, <1>4, <1>5 DEF FlightInv

\* Every step keeps it.
LEMMA FlightStep == TypeInv /\ FlightInv /\ [Next]_vars => FlightInv'
  BY FlightThreadStep, FlightHostStep DEF Next

\* Each judgment of a query is asked for by one thread at a time and in one
\* batch, however threads lead and follow each other's groups: what a thread
\* has claimed and not yet settled is unsettled, and no other claim, of its
\* own or of another thread, is for the same identity.
THEOREM BatchFlightsAreSingle == Spec => []SingleFlight
  <1>1. FlightInv => SingleFlight
    BY DEF FlightInv
  <1>2. QED
    BY InitTypes, TypeStep, FlightInit, FlightStep, <1>1, PTL DEF Spec

\* Where no judgment has more choices than the adapter sends (the claiming
\* loop returns in the middle for one that has, and what it had claimed stays
\* behind), an unsettled entry always has a thread that owes it, or belongs to
\* a query whose flag is up: no follower waits for a leader that left.
THEOREM BatchEntriesAreOwned ==
  ASSUME WideKeys = {}
  PROVE  Spec => []NoOrphanedEntry
  <1>1. Init => NoOrphanedEntry
    BY DEF Init, ThreadsInit, RuntimeInit, NoOrphanedEntry
  <1>2. ASSUME TypeInv, FlightInv, NoOrphanedEntry,
               Begin \/ End \/ CacheClear \/ Closed \/ UNCHANGED vars
        PROVE  NoOrphanedEntry'
    <2>1. UNCHANGED <<slots, threadVars, batchVars>>
      BY <1>2, HostFrame
    <2>2. cancelled \subseteq cancelled'
      BY <1>2 DEF Begin, HostBegin, BeginQuery, End, HostEnd, EndQuery, CacheClear,
                  Closed, vars, runtimeVars, queryVars
    <2>3. \A v \in Workers : Owed(v)' = Owed(v)
      BY <2>1 DEF Owed, threadVars, batchVars, claimVars, sendVars
    <2>4. QED
      BY <1>2, <2>1, <2>2, <2>3 DEF NoOrphanedEntry
  <1>3. ASSUME TypeInv, FlightInv, NoOrphanedEntry, NEW w \in Workers,
               Start(w) \/ Step(w)
        PROVE  NoOrphanedEntry'
    <2>1. PICK D : OwedMoves(w, D)
      BY <1>3, StepOwing
    <2>2. UNCHANGED <<active, nextQuery, cancelled>>
      BY <1>3, QueriesStay DEF FlightInv
    <2>3. EntriesKept /\ \A v \in Workers : v # w => Owed(v)' = Owed(v)
      BY <1>3, ThreadTypes, OthersOwing
    <2>4. ASSUME ~StillActive(w)
          PROVE  scope[w] \in cancelled
      BY <1>3, <2>4 DEF FlightInv, QueriesInOrder, StillActive, TypeInv,
                        RuntimeTypeOK, TaskTypeOK
    <2>5. ASSUME NEW e \in DOMAIN slots', slots'[e].result = Pending
          PROVE  \/ \E v \in Workers : e \in Owed(v)'
                 \/ slots'[e].id.query \in cancelled'
      <3>1. CASE e \notin DOMAIN slots
        BY <2>1, <2>5, <3>1 DEF OwedMoves
      <3>2. CASE e \in DOMAIN slots
        <4>1. /\ slots[e].result = Pending /\ e \notin D
              /\ slots'[e].id = slots[e].id
          BY <2>1, <2>3, <2>5, <3>2 DEF OwedMoves, EntriesKept
        <4>2. CASE slots[e].id.query \in cancelled
          BY <2>2, <4>1, <4>2
        <4>3. CASE \E v \in Workers : e \in Owed(v)
          <5>1. PICK v \in Workers : e \in Owed(v)
            BY <4>3
          <5>2. CASE v # w
            BY <2>3, <5>1, <5>2
          <5>3. CASE v = w
            <6>1. slots[e].id.query = scope[w]
              BY <1>3, <5>1, <5>3, OwedLinks
            <6>2. e \in Owed(w)' \/ ~StillActive(w)
              BY <2>1, <4>1, <5>1, <5>3 DEF OwedMoves
            <6>3. QED
              BY <2>2, <2>4, <4>1, <6>1, <6>2
          <5>4. QED
            BY <5>2, <5>3
        <4>4. QED
          BY <1>3, <3>2, <4>1, <4>2, <4>3 DEF NoOrphanedEntry
      <3>3. QED
        BY <3>1, <3>2
    <2>6. QED
      BY <2>5 DEF NoOrphanedEntry
  <1>4. TypeInv /\ FlightInv /\ NoOrphanedEntry /\ [Next]_vars
          => NoOrphanedEntry'
    BY <1>2, <1>3 DEF Next
  <1>5. QED
    BY InitTypes, TypeStep, FlightInit, FlightStep, <1>1, <1>4, PTL DEF Spec

-----------------------------------------------------------------------------
(* The limits of a request.                                                *)

\* estimate_request_bytes is the sum of the sizes.
LEMMA EstimateIsTotal ==
  ASSUME NEW w \in Workers, NEW B \in SUBSET DOMAIN chunk[w], IsFiniteSet(B)
  PROVE  Estimate(w, B) = Total(SizeAt(chunk[w]), B)
  <1> DEFINE f == SizeAt(chunk[w])
             Counts(t) ==
               t = [s \in SUBSET B |->
                      IF s = {} THEN 0
                      ELSE Size[chunk[w][Next1(s)]] + t[s \ {Next1(s)}]]
  <1>1. Estimate(w, B) = (CHOOSE t : Counts(t))[B]
    BY DEF Estimate, MapThenSumSet, MapThenFoldSet, Next1
  <1>2. ASSUME NEW t
        PROVE  Counts(t) <=> Adds(f, B, t)
    <2>1. \A s \in SUBSET B : s # {} =>
            Size[chunk[w][Next1(s)]] = f[Next1(s)]
      BY TakeOne DEF SizeAt
    <2>2. [s \in SUBSET B |->
             IF s = {} THEN 0
             ELSE Size[chunk[w][Next1(s)]] + t[s \ {Next1(s)}]]
          = [s \in SUBSET B |->
               IF s = {} THEN 0 ELSE f[Next1(s)] + t[s \ {Next1(s)}]]
      BY <2>1
    <2>3. QED
      BY <2>2 DEF Adds
  <1>3. \E t : Counts(t)
    BY <1>2, SumsExist
  <1> DEFINE u == CHOOSE t : Counts(t)
  <1>4. Counts(u)
    BY <1>3
  <1> HIDE DEF u, Counts, f
  <1>5. Adds(f, B, u)
    BY <1>2, <1>4
  <1>6. B \in SUBSET B
    OBVIOUS
  <1>7. u[B] = Total(f, B)
    BY <1>5, <1>6, TotalOf, ZenonT(60)
  <1>8. QED
    BY <1>1, <1>7 DEF u, f

\* The next batch is part of a run of one partition that fits.
LEMMA NextBatchFits ==
  ASSUME TypeInv, NEW w \in Workers, NextBatch(w) # {}
  PROVE  /\ Cardinality(NextBatch(w)) <= MaxJudgments
         /\ Total(SizeAt(chunk[w]), NextBatch(w)) <= MaxRequestBytes
         /\ \A i, j \in NextBatch(w) :
              Question[chunk[w][i]] = Question[chunk[w][j]]
  <1> DEFINE N == NextBatch(w)
             R == Remaining(w)
             run(m) == {j \in R : j <= m}
             f == SizeAt(chunk[w])
  <1>0. TaskTypeOK /\ ClaimShape(w) /\ SendShape(w)
    BY DEF TypeInv, Shaped
  <1>1. R \subseteq Leads(chunk[w]) /\ N \subseteq R
    BY <1>0, NextBatchGroups DEF ClaimShape, SendShape
  <1>2. IsFiniteSet(R) /\ R \in SUBSET Nat /\ R \subseteq DOMAIN chunk[w]
    BY <1>0, <1>1, LeadsAreApart, FS_Subset DEF Leads, JudgedRows
  <1>3. IsFiniteSet(N) /\ N \in SUBSET Nat
    BY <1>1, <1>2, FS_Subset
  <1>4. PICK m \in N : \A n \in N : n <= m
    BY <1>3, GreatestNumber
  <1>5. Fits(w, run(m))
    BY <1>4 DEF NextBatch
  <1>6. /\ N \in SUBSET run(m) /\ run(m) \in SUBSET R
        /\ IsFiniteSet(run(m))
    <2>1. N \in SUBSET run(m) /\ run(m) \in SUBSET R
      BY <1>1, <1>4
    <2>2. QED
      BY <1>2, <2>1, FS_Subset
  <1>7. \A i \in R : f[i] \in Nat
    <2>1. \A i \in R : i \in DOMAIN chunk[w] /\ chunk[w][i] \in Keys
      BY <1>0, <1>1, <1>2, LeadsAreApart
    <2>2. QED
      BY <2>1, BatchAssumption DEF SizeAt
  <1>8. \A i, j \in R : Question[chunk[w][i]] = Question[chunk[w][j]]
    BY DEF Remaining, Partition
  <1>9. Estimate(w, run(m)) = Total(f, run(m))
    <2>1. run(m) \in SUBSET DOMAIN chunk[w]
      BY <1>2, <1>6
    <2> HIDE DEF run
    <2>2. QED
      BY <1>6, <2>1, EstimateIsTotal
  <1> HIDE DEF N, R, run, f
  <1>10. /\ Cardinality(run(m)) <= MaxJudgments
         /\ Total(f, run(m)) <= MaxRequestBytes
    BY <1>5, <1>9 DEF Fits
  <1>11. /\ Cardinality(N) <= Cardinality(run(m))
         /\ Cardinality(N) \in Nat /\ Cardinality(run(m)) \in Nat
    BY <1>3, <1>6, FS_Subset, FS_CardinalityType
  <1>12. /\ Total(f, run(m)) = Total(f, N) + Total(f, run(m) \ N)
         /\ Total(f, N) \in Nat /\ Total(f, run(m) \ N) \in Nat
    <2>1. \A i \in run(m) : f[i] \in Nat
      BY <1>6, <1>7
    <2>2. QED
      BY <1>6, <2>1, TotalSplit
  <1>13. MaxJudgments \in Nat /\ MaxRequestBytes \in Nat
    BY BatchAssumption
  <1>14. Cardinality(N) <= MaxJudgments
    BY <1>10, <1>11, <1>13
  <1>15. Total(f, N) <= MaxRequestBytes
    <2> DEFINE whole == Total(f, run(m))
               part == Total(f, N)
               rest == Total(f, run(m) \ N)
    <2>1. /\ whole = part + rest /\ part \in Nat /\ rest \in Nat
          /\ whole <= MaxRequestBytes
      BY <1>10, <1>12
    <2> HIDE DEF whole, part, rest
    <2>2. part <= MaxRequestBytes
      BY <1>13, <2>1
    <2>3. QED
      BY <2>2 DEF part
  <1>16. QED
    BY <1>1, <1>8, <1>14, <1>15 DEF N, R, f

\* A batch keeps within the limits while it is sent.
LEMMA LimitsThreadStep ==
  ASSUME TypeInv, LimitsInv, NEW w \in Workers, Start(w) \/ Step(w)
  PROVE  LimitsInv'
  <1> DEFINE Goal(v) == pc'[v] \in PermitLabels \cup {"acquire"} =>
        /\ Cardinality(batch'[v]) <= MaxJudgments
        /\ Total(SizeAt(chunk'[v]), batch'[v]) <= MaxRequestBytes
        /\ \A i, j \in batch'[v] : Question[chunk'[v][i]] = Question[chunk'[v][j]]
  <1>0. Domains /\ TaskTypeOK
    BY DEF TypeInv, LocalTypes, Domains
  <1>1. ASSUME NEW v \in Workers,
               chunk'[v] = chunk[v], batch'[v] = batch[v],
               pc'[v] \in PermitLabels \cup {"acquire"}
                 => pc[v] \in PermitLabels \cup {"acquire"}
        PROVE  Goal(v)
    BY <1>1 DEF LimitsInv
  <1>2. \A v \in Workers : v # w => Goal(v)
    BY <1>1, ThreadTypes DEF Untouched
  <1> SUFFICES Goal(w)
    BY <1>2 DEF LimitsInv
  <1>3. ASSUME pc'[w] \notin PermitLabels \cup {"acquire"}
        PROVE  Goal(w)
    BY <1>3
  <1>4. ASSUME Fail(w) \/ NextClaim(w) PROVE Goal(w)
    <2>1. pc'[w] \in {"failed", "plan", "claim"}
      BY <1>0, <1>4, FailMoves, NextClaimMoves
    <2>2. QED
      BY <1>3, <2>1 DEF PermitLabels
  <1>5. CASE Start(w) \/ RecordInput(w) \/ RecordRows(w) \/ Hit(w)
               \/ FailedRequest(w) \/ ProviderFailure(w) \/ Release(w)
               \/ Insert(w) \/ Settle(w)
    <2>1. \E label \in {"input", "rows", "failed", "done", "claim",
                        "hit_complete", "provider_failure", "fail_leaders",
                        "failed_request", "settle", "insert", "settle_stored",
                        "plan"} : Goto(w, label)
      BY <1>5 DEF Start, RecordInput, RecordRows, Hit, FailedRequest,
                  ProviderFailure, Release, Insert, Settle
    <2>2. QED
      BY <1>0, <1>3, <2>1 DEF Goto, Domains, PermitLabels
  <1>6. CASE Claim(w) \/ FetchFlag(w) \/ Lookup(w) \/ HitComplete(w)
               \/ FailBatch(w) \/ Wait(w)
    <2>1. \/ Fail(w) \/ NextClaim(w)
          \/ \E label \in {"join_flag", "flag", "lookup", "hit", "done", "wait"} :
               Goto(w, label)
      BY <1>6 DEF Claim, FetchFlag, Lookup, HitComplete, Lead, FailBatch, Wait
    <2>2. QED
      BY <1>0, <1>3, <1>4, <2>1 DEF Goto, Domains, PermitLabels
  <1>7. CASE Acquire(w) \/ Attempt(w) \/ Call(w) \/ Response(w)
    <2>1. /\ chunk'[w] = chunk[w] /\ batch'[w] = batch[w]
          /\ pc[w] \in PermitLabels \cup {"acquire"}
      BY <1>7 DEF Acquire, Attempt, Call, Response, taskVars, batchVars,
                  sendVars, PermitLabels
    <2>2. QED
      BY <1>1, <2>1
  <1>8. CASE Plan(w)
    <2>1. CASE Follow(w)
      BY <1>0, <1>3, <2>1 DEF Follow, Goto, Domains, PermitLabels
    <2>2. CASE TooLarge(w)
      BY <1>4, <2>2 DEF TooLarge
    <2>3. CASE Send(w)
      <3>1. /\ NextBatch(w) # {} /\ batch'[w] = NextBatch(w)
            /\ chunk'[w] = chunk[w]
        BY <1>0, <1>8, <2>3 DEF Plan, Send, Domains, taskVars
      <3>2. QED
        BY <3>1, NextBatchFits
    <2>4. QED
      BY <1>8, <2>1, <2>2, <2>3 DEF Plan
  <1>9. QED
    BY <1>5, <1>6, <1>7, <1>8 DEF Step

\* However groups are partitioned and cut, every request of
\* BatchDispatch::dispatch holds judgments of one question only, at most as
\* many as the service takes and within duckjeu_max_request_bytes.
THEOREM BatchesAreWithinLimits == Spec => []BatchWithinLimits
  <1>1. Init => LimitsInv
    BY DEF Init, ThreadsInit, LimitsInv, PermitLabels
  <1>2. TypeInv /\ LimitsInv /\ [Next]_vars => LimitsInv'
    <2> SUFFICES ASSUME TypeInv, LimitsInv, [Next]_vars PROVE LimitsInv'
      OBVIOUS
    <2>1. CASE Begin \/ End \/ CacheClear \/ Closed \/ UNCHANGED vars
      <3>1. UNCHANGED <<pc, chunk, batch>>
        BY <2>1, HostFrame DEF threadVars, taskVars, batchVars, sendVars
      <3>2. QED
        BY <3>1 DEF LimitsInv
    <2>2. CASE \E w \in Workers : Start(w) \/ Step(w)
      BY <2>2, LimitsThreadStep
    <2>3. QED
      BY <2>1, <2>2 DEF Next
  <1>3. TypeInv /\ LimitsInv => BatchWithinLimits
    <2> SUFFICES ASSUME TypeInv, LimitsInv, NEW w \in Workers,
                        pc[w] \in PermitLabels
                 PROVE  /\ batch[w] # {}
                        /\ Cardinality(batch[w]) <= MaxJudgments
                        /\ Estimate(w, batch[w]) <= MaxRequestBytes
                        /\ \A i, j \in batch[w] :
                             Question[chunk[w][i]] = Question[chunk[w][j]]
      BY DEF BatchWithinLimits
    <2>1. batch[w] # {}
      BY DEF TypeInv, Shaped, SendShape, SendLabels, PermitLabels
    <2>2. batch[w] \in SUBSET DOMAIN chunk[w] /\ IsFiniteSet(batch[w])
      BY BatchGroups DEF Leads, JudgedRows
    <2>3. Estimate(w, batch[w]) = Total(SizeAt(chunk[w]), batch[w])
      BY <2>2, EstimateIsTotal
    <2>4. QED
      BY <2>1, <2>3 DEF LimitsInv
  <1>4. QED
    BY InitTypes, TypeStep, <1>1, <1>2, <1>3, PTL DEF Spec

-----------------------------------------------------------------------------
(* A chunk is answered whole.                                              *)

\* What Expand does to a thread's rows.
LEMMA Expanded ==
  ASSUME Domains, NEW w \in Workers, NEW i, NEW a, Expand(w, i, a)
  PROVE  /\ DOMAIN out'[w] = DOMAIN out[w] \cup Targets(chunk[w], i)
         /\ \A j \in DOMAIN out[w] : out'[w][j] = out[w][j]
         /\ \A j \in DOMAIN out'[w] : j \notin DOMAIN out[w] => out'[w][j] = a
  BY DEF Expand, Domains

\* The rows of a group, and the group of a row.
LEMMA RowsOfGroups ==
  ASSUME TaskTypeOK, NEW w \in Workers
  PROVE  /\ \A i \in Leads(chunk[w]) :
              Targets(chunk[w], i) \subseteq JudgedRows(chunk[w])
         /\ \A j \in JudgedRows(chunk[w]) :
              \E i \in Leads(chunk[w]) : j \in Targets(chunk[w], i)
  <1>1. ASSUME NEW j \in JudgedRows(chunk[w])
        PROVE  \E i \in Leads(chunk[w]) : j \in Targets(chunk[w], i)
    <2> DEFINE same == {k \in JudgedRows(chunk[w]) : chunk[w][k] = chunk[w][j]}
    <2>1. JudgedRows(chunk[w]) \subseteq Nat
      BY RowNumbers DEF TaskTypeOK
    <2>2. Min(same) \in same /\ \A n \in same : Min(same) <= n
      <3>1. same \in SUBSET Nat /\ same # {}
        BY <2>1
      <3> HIDE DEF same
      <3>2. QED
        BY <3>1, SmallestNumber
    <2> DEFINE first == Min(same)
    <2> HIDE DEF first
    <2>3. /\ first \in JudgedRows(chunk[w]) /\ first \in Nat
          /\ chunk[w][first] = chunk[w][j]
          /\ \A k \in JudgedRows(chunk[w]) :
               chunk[w][k] = chunk[w][j] => first <= k /\ k \in Nat
      BY <2>1, <2>2 DEF first
    <2>4. ASSUME NEW k \in DOMAIN chunk[w], k < first,
                 chunk[w][k] = chunk[w][first]
          PROVE  FALSE
      <3>1. k \in JudgedRows(chunk[w])
        BY <1>1, <2>3, <2>4 DEF JudgedRows
      <3>2. chunk[w][k] = chunk[w][j]
        BY <2>3, <2>4
      <3>3. first <= k /\ k \in Nat /\ first \in Nat
        BY <2>3, <3>1, <3>2
      <3>4. QED
        BY <2>4, <3>3
    <2>5. first \in Leads(chunk[w])
      BY <2>3, <2>4 DEF Leads
    <2>6. j \in Targets(chunk[w], first)
      BY <1>1, <2>3 DEF Targets, JudgedRows
    <2>7. QED
      BY <2>5, <2>6
  <1>2. ASSUME NEW i \in Leads(chunk[w])
        PROVE  Targets(chunk[w], i) \subseteq JudgedRows(chunk[w])
    BY <1>2 DEF Targets, Leads, JudgedRows
  <1>3. QED
    BY <1>1, <1>2

\* A step that leaves every group answered or waiting.
LEMMA StaysCovered ==
  ASSUME NEW w \in Workers, Covered(w), chunk'[w] = chunk[w],
         pc[w] \notin {"idle", "failed"} \cup BeforeClaims, pc'[w] # "done",
         DOMAIN out[w] \subseteq DOMAIN out'[w],
         DOMAIN out'[w] \subseteq JudgedRows(chunk[w]),
         \A i \in Leads(chunk[w]) :
           Waits(w, i) => Waits(w, i)' \/ Targets(chunk[w], i) \subseteq DOMAIN out'[w]
  PROVE  Covered(w)'
  BY DEF Covered

\* The claiming loop goes on with the groups behind.
LEMMA NextWaits ==
  ASSUME TypeInv, NEW w \in Workers, NextClaim(w), chunk'[w] = chunk[w],
         todo[w] \cup batch[w] \subseteq todo'[w] \cup batch'[w],
         DOMAIN followers[w] \subseteq DOMAIN followers'[w],
         NEW i \in Leads(chunk[w]), Waits(w, i), i # pos[w]
  PROVE  Waits(w, i)' /\ pc'[w] # "done"
  <1>1. Domains /\ TaskTypeOK /\ pos[w] \in Nat
    BY DEF TypeInv, LocalTypes, Domains
  <1>2. i \in Nat
    BY <1>1, LeadsAreApart
  <1>3. /\ pc'[w] \in {"plan", "claim"}
        /\ i > pos[w] => pc'[w] = "claim" /\ pos'[w] <= i /\ pos'[w] \in Nat
    BY <1>1, NextClaimMoves, LeadsAreApart
  <1>4. CASE i \in todo[w] \cup batch[w] \cup DOMAIN followers[w]
    BY <1>3, <1>4 DEF Waits
  <1>5. CASE pc[w] \in ClaimLabels /\ i >= pos[w]
    <2>1. i > pos[w]
      BY <1>1, <1>2, <1>5
    <2>2. QED
      BY <1>2, <1>3, <2>1 DEF Waits, ClaimLabels
  <1>6. QED
    BY <1>4, <1>5 DEF Waits

\* Steps that leave the rows and the groups that wait alone.
LEMMA SameCovered ==
  ASSUME NEW w \in Workers, Covered(w), chunk'[w] = chunk[w],
         pc[w] \notin {"idle", "failed"} \cup BeforeClaims, pc'[w] # "done",
         out'[w] = out[w], pos'[w] = pos[w], followers'[w] = followers[w],
         todo[w] \cup batch[w] \subseteq todo'[w] \cup batch'[w],
         pc[w] \in ClaimLabels => pc'[w] \in ClaimLabels
  PROVE  Covered(w)'
  BY DEF Covered, Waits

\* A step of a thread keeps its chunk covered.
LEMMA CoverOwnStep ==
  ASSUME TypeInv, CoverInv, NEW w \in Workers, Start(w) \/ Step(w)
  PROVE  Covered(w)'
  <1>0. /\ Domains /\ TaskTypeOK /\ Covered(w) /\ FollowedMap(w)
        /\ ClaimShape(w) /\ SendShape(w) /\ pos[w] \in Nat
    BY DEF TypeInv, LocalTypes, Domains, Shaped, CoverInv
  <1>1. ASSUME Fail(w) PROVE Covered(w)'
    BY <1>0, <1>1, FailMoves DEF Covered, EmptyMap
  <1>2. CASE Start(w)
    <2>1. pc'[w] = "input" /\ out'[w] = EmptyMap
      BY <1>0, <1>2 DEF Start, Goto, Domains
    <2>2. QED
      BY <2>1 DEF Covered, EmptyMap, BeforeClaims
  <1>3. CASE RecordInput(w)
    <2>1. /\ pc'[w] \in {"failed", "rows"}
          /\ chunk'[w] = chunk[w] /\ out'[w] = out[w]
      BY <1>0, <1>3 DEF RecordInput, Goto, Domains, taskVars, batchVars
    <2>2. QED
      BY <1>0, <2>1 DEF Covered, BeforeClaims
  <1>4. CASE RecordRows(w)
    <2>1. /\ pc[w] = "rows" /\ UNCHANGED <<chunk, followers, out>>
          /\ \/ pc'[w] = "failed"
             \/ pc'[w] = "done" /\ Leads(chunk[w]) = {}
             \/ /\ pc'[w] = "claim" /\ Leads(chunk[w]) # {}
                /\ pos'[w] = Min(Leads(chunk[w]))
      BY <1>0, <1>4 DEF RecordRows, Goto, Domains, taskVars
    <2>2. DOMAIN followers'[w] = {}
      BY <1>0, <2>1 DEF ClaimShape, BeforeClaims
    <2>3. CASE pc'[w] # "claim"
      BY <1>0, <2>1, <2>2, <2>3 DEF Covered
    <2>4. CASE pc'[w] = "claim"
      <3>1. Leads(chunk[w]) \in SUBSET Leads(chunk[w])
        OBVIOUS
      <3>2. \A i \in Leads(chunk[w]) : pos'[w] <= i
        BY <1>0, <2>1, <2>4, <3>1, FirstGroup
      <3>3. \A i \in Leads(chunk[w]) : i \in Nat /\ pos'[w] \in Nat
        BY <2>1, <2>4, <1>0, <3>1, FirstGroup, LeadsAreApart
      <3>4. \A i \in Leads(chunk[w]) : Waits(w, i)'
        BY <2>4, <3>2, <3>3 DEF Waits, ClaimLabels
      <3>5. QED
        BY <1>0, <2>1, <2>4, <3>4 DEF Covered
    <2>5. QED
      BY <2>3, <2>4
  <1>5. CASE Claim(w) /\ ~Fail(w)
    <2>1. /\ UNCHANGED <<chunk, out, pos, followers, todo, batch>>
          /\ pc[w] = "claim" /\ pc'[w] \in {"flag", "join_flag"}
      BY <1>0, <1>5 DEF Claim, Goto, Domains, taskVars, sendVars
    <2>2. QED
      BY <1>0, <2>1, SameCovered DEF ClaimLabels, BeforeClaims
  <1>6. ASSUME NextClaim(w), UNCHANGED <<chunk, out, batch>>,
               pc[w] \in ClaimLabels,
               \/ /\ leaders'[w] = With(leaders[w], pos[w], entry[w])
                  /\ todo'[w] = todo[w] \cup {pos[w]}
                  /\ followers'[w] = followers[w]
               \/ /\ todo'[w] = todo[w]
                  /\ followers'[w] = With(followers[w], pos[w], entry[w])
        PROVE  Covered(w)'
    <2>1. /\ todo[w] \cup batch[w] \subseteq todo'[w] \cup batch'[w]
          /\ DOMAIN followers[w] \subseteq DOMAIN followers'[w]
          /\ pos[w] \in todo'[w] \cup DOMAIN followers'[w]
      BY <1>6 DEF With
    <2>2. pc'[w] \in {"plan", "claim"}
      BY <1>0, <1>6, NextClaimMoves
    <2>3. ASSUME NEW i \in Leads(chunk[w]), Waits(w, i) PROVE Waits(w, i)'
      <3>1. CASE i = pos[w]
        BY <2>1, <3>1 DEF Waits
      <3>2. CASE i # pos[w]
        BY <1>6, <2>1, <2>3, <3>2, NextWaits
      <3>3. QED
        BY <3>1, <3>2
    <2>4. DOMAIN out[w] \subseteq JudgedRows(chunk[w])
      BY <1>0 DEF Covered
    <2>5. QED
      BY <1>0, <1>6, <2>2, <2>3, <2>4, StaysCovered DEF ClaimLabels, BeforeClaims
  <1>7. CASE FetchFlag(w) /\ ~Fail(w)
    <2>1. /\ pc[w] \in ClaimLabels /\ UNCHANGED <<chunk, out, batch>>
          /\ \/ /\ followers' =
                     [followers EXCEPT ![w] = With(@, pos[w], entry[w])]
                /\ NextClaim(w) /\ UNCHANGED todo
             \/ Goto(w, "lookup") /\ UNCHANGED <<pos, followers, todo>>
             \/ Lead(w) /\ UNCHANGED followers
      BY <1>7 DEF FetchFlag, taskVars, ClaimLabels
    <2>2. CASE Lead(w) /\ UNCHANGED followers
      BY <1>0, <1>6, <2>1, <2>2, LeadMoves
    <2>3. CASE Goto(w, "lookup") /\ UNCHANGED <<pos, followers, todo>>
      <3>1. pc'[w] = "lookup"
        BY <1>0, <2>3 DEF Goto, Domains
      <3>2. QED
        BY <1>0, <2>1, <2>3, <3>1, SameCovered DEF ClaimLabels, BeforeClaims
    <2>4. CASE /\ followers' =
                     [followers EXCEPT ![w] = With(@, pos[w], entry[w])]
               /\ NextClaim(w) /\ UNCHANGED todo
      <3>1. followers'[w] = With(followers[w], pos[w], entry[w])
        BY <1>0, <2>4 DEF Domains
      <3>2. QED
        BY <1>6, <2>1, <2>4, <3>1
    <2>5. QED
      BY <2>1, <2>2, <2>3, <2>4
  <1>8. CASE Lookup(w)
    <2>1. /\ pc[w] = "lookup" /\ UNCHANGED <<chunk, out, batch, followers>>
          /\ \/ Goto(w, "hit") /\ UNCHANGED <<pos, todo>>
             \/ Lead(w)
      BY <1>8 DEF Lookup, taskVars
    <2>2. CASE Lead(w)
      BY <1>0, <1>6, <2>1, <2>2, LeadMoves DEF ClaimLabels
    <2>3. CASE Goto(w, "hit") /\ UNCHANGED <<pos, todo>>
      <3>1. pc'[w] = "hit"
        BY <1>0, <2>3 DEF Goto, Domains
      <3>2. QED
        BY <1>0, <2>1, <2>3, <3>1, SameCovered DEF ClaimLabels, BeforeClaims
    <2>4. QED
      BY <2>1, <2>2, <2>3
  <1>9. CASE Hit(w)
    <2>1. /\ pc[w] = "hit" /\ UNCHANGED <<chunk, out, batch, followers, pos, todo>>
          /\ pc'[w] = "hit_complete"
      BY <1>0, <1>9 DEF Hit, Goto, Domains, taskVars, batchVars, claimVars, sendVars
    <2>2. QED
      BY <1>0, <2>1, SameCovered DEF ClaimLabels, BeforeClaims
  <1>10. CASE HitComplete(w)
    <2>1. /\ pc[w] = "hit_complete" /\ NextClaim(w)
          /\ UNCHANGED <<chunk, followers, todo, batch>>
          /\ Expand(w, pos[w], answers[w][pos[w]])
      BY <1>10 DEF HitComplete, taskVars
    <2>2. DOMAIN out'[w] = DOMAIN out[w] \cup Targets(chunk[w], pos[w])
      BY <1>0, <2>1, Expanded
    <2>3. pos[w] \in Leads(chunk[w])
      BY <1>0, <2>1 DEF ClaimShape, ClaimLabels
    <2>4. /\ DOMAIN out[w] \subseteq DOMAIN out'[w]
          /\ DOMAIN out'[w] \subseteq JudgedRows(chunk[w])
      BY <1>0, <2>2, <2>3, RowsOfGroups DEF Covered
    <2>5. pc'[w] \in {"plan", "claim"}
      BY <1>0, <2>1, NextClaimMoves
    <2>6. ASSUME NEW i \in Leads(chunk[w]), Waits(w, i)
          PROVE  Waits(w, i)' \/ Targets(chunk[w], i) \subseteq DOMAIN out'[w]
      <3>1. CASE i = pos[w]
        BY <2>2, <3>1
      <3>2. CASE i # pos[w]
        BY <2>1, <2>6, <3>2, NextWaits
      <3>3. QED
        BY <3>1, <3>2
    <2>7. QED
      BY <1>0, <2>1, <2>4, <2>5, <2>6, StaysCovered DEF BeforeClaims
  <1>11. CASE Plan(w) /\ Follow(w)
    <2>1. /\ pc[w] = "plan" /\ UNCHANGED <<chunk, batchVars>>
          /\ todo[w] = {}
          /\ \/ pc'[w] = "done" /\ followers[w] = EmptyMap
             \/ pc'[w] = "wait"
      BY <1>0, <1>11 DEF Plan, Follow, Goto, Domains, taskVars
    <2>2. UNCHANGED <<out, pos, followers, todo, batch>>
      BY <2>1 DEF batchVars, claimVars, sendVars
    <2>3. CASE pc'[w] = "wait"
      BY <1>0, <2>1, <2>2, <2>3, SameCovered DEF ClaimLabels, BeforeClaims
    <2>4. CASE pc'[w] = "done" /\ followers[w] = EmptyMap
      <3>1. batch[w] = {} /\ DOMAIN followers[w] = {}
        BY <1>0, <2>1, <2>4 DEF SendShape, SendLabels, EmptyMap
      <3>2. \A i \in Leads(chunk[w]) : ~Waits(w, i)
        BY <2>1, <3>1 DEF Waits, ClaimLabels
      <3>3. QED
        BY <1>0, <2>1, <2>2, <2>4, <3>1, <3>2 DEF Covered, BeforeClaims
    <2>5. QED
      BY <2>1, <2>3, <2>4
  <1>12. CASE Plan(w) /\ Send(w)
    <2>1. /\ pc[w] = "plan" /\ UNCHANGED <<chunk, out, pos, followers>>
          /\ pc'[w] \in {"acquire", "fail_leaders"}
          /\ batch'[w] = NextBatch(w) /\ todo'[w] = todo[w] \ NextBatch(w)
      BY <1>0, <1>12 DEF Plan, Send, Goto, Domains, taskVars, claimVars
    <2>2. batch[w] = {}
      BY <1>0, <2>1 DEF SendShape, SendLabels
    <2>3. todo[w] \cup batch[w] \subseteq todo'[w] \cup batch'[w]
      BY <2>1, <2>2
    <2>4. QED
      BY <1>0, <2>1, <2>3, SameCovered DEF ClaimLabels, BeforeClaims
  <1>13. CASE Acquire(w) \/ Attempt(w) \/ Call(w) \/ Response(w) \/ Release(w)
                \/ Insert(w) \/ FailedRequest(w) \/ ProviderFailure(w)
    <2>1. /\ UNCHANGED <<chunk, out, pos, followers, todo, batch>>
          /\ pc[w] \in {"acquire", "attempt", "call", "response", "release",
                        "insert", "failed_request", "provider_failure"}
          /\ pc'[w] # "done"
      BY <1>0, <1>13
         DEF Acquire, Attempt, Call, Response, Release, Insert, FailedRequest,
             ProviderFailure, Goto, Domains, taskVars, batchVars, claimVars,
             sendVars
    <2>2. QED
      BY <1>0, <2>1, SameCovered DEF ClaimLabels, BeforeClaims
  <1>14. CASE Settle(w)
    <2> DEFINE first == Min(batch[w])
    <2>1. /\ pc[w] \in {"settle", "settle_stored"} /\ pc[w] \in SendLabels
          /\ UNCHANGED <<chunk, pos, followers, todo>>
          /\ Expand(w, first, answers[w][first])
          /\ batch'[w] = batch[w] \ {first} /\ pc'[w] # "done"
      BY <1>0, <1>14 DEF Settle, Goto, Domains, taskVars, claimVars, SendLabels
    <2>2. first \in Leads(chunk[w])
      BY <2>1, BatchGroups
    <2> HIDE DEF first
    <2>3. DOMAIN out'[w] = DOMAIN out[w] \cup Targets(chunk[w], first)
      BY <1>0, <2>1, Expanded
    <2>4. /\ DOMAIN out[w] \subseteq DOMAIN out'[w]
          /\ DOMAIN out'[w] \subseteq JudgedRows(chunk[w])
      BY <1>0, <2>2, <2>3, RowsOfGroups DEF Covered
    <2>5. ASSUME NEW i \in Leads(chunk[w]), Waits(w, i)
          PROVE  Waits(w, i)' \/ Targets(chunk[w], i) \subseteq DOMAIN out'[w]
      <3>1. CASE i = first
        BY <2>3, <3>1
      <3>2. CASE i # first
        BY <2>1, <2>5, <3>2 DEF Waits, ClaimLabels
      <3>3. QED
        BY <3>1, <3>2
    <2>6. QED
      BY <1>0, <2>1, <2>4, <2>5, StaysCovered DEF BeforeClaims
  <1>15. CASE Wait(w) /\ ~Fail(w)
    <2> DEFINE first == Min(DOMAIN followers[w])
               result == slots[followers[w][first]].result
    <2>1. /\ pc[w] = "wait" /\ UNCHANGED <<chunk, pos, todo, batch>>
          /\ Expand(w, first, result)
          /\ followers' = [followers EXCEPT ![w] = Keep(@, DOMAIN @ \ {first})]
          /\ \/ pc'[w] = "done" /\ DOMAIN followers[w] = {first}
             \/ pc'[w] = "wait"
      BY <1>0, <1>15 DEF Wait, Goto, Domains, taskVars, sendVars
    <2> HIDE DEF result
    <2>2. DOMAIN followers[w] \in SUBSET Leads(chunk[w])
          /\ DOMAIN followers[w] # {}
      BY <1>0, <2>1 DEF ClaimShape, FollowedMap
    <2>3. first \in DOMAIN followers[w] /\ first \in Leads(chunk[w])
      BY <1>0, <2>2, FirstGroup
    <2> HIDE DEF first
    <2>4. DOMAIN followers'[w] = DOMAIN followers[w] \ {first}
      BY <1>0, <2>1 DEF Domains, Keep
    <2>5. DOMAIN out'[w] = DOMAIN out[w] \cup Targets(chunk[w], first)
      BY <1>0, <2>1, Expanded
    <2>6. /\ DOMAIN out[w] \subseteq DOMAIN out'[w]
          /\ DOMAIN out'[w] \subseteq JudgedRows(chunk[w])
      BY <1>0, <2>3, <2>5, RowsOfGroups DEF Covered
    <2>7. ASSUME NEW i \in Leads(chunk[w])
          PROVE  Waits(w, i)' \/ Targets(chunk[w], i) \subseteq DOMAIN out'[w]
      <3>1. Waits(w, i) \/ Targets(chunk[w], i) \subseteq DOMAIN out[w]
        BY <1>0, <2>1 DEF Covered, BeforeClaims
      <3>2. CASE i = first
        BY <2>5, <3>2
      <3>3. CASE i # first
        BY <2>1, <2>4, <2>6, <3>1, <3>3 DEF Waits, ClaimLabels
      <3>4. QED
        BY <3>2, <3>3
    <2>8. pc'[w] = "done" => DOMAIN followers'[w] = {}
      BY <2>1, <2>4
    <2>9. QED
      BY <2>1, <2>6, <2>7, <2>8 DEF Covered
  <1>16. QED
    BY <1>1, <1>2, <1>3, <1>4, <1>5, <1>7, <1>8, <1>9, <1>10, <1>11, <1>12,
       <1>13, <1>14, <1>15 DEF Step, Plan, TooLarge, FailBatch

\* Nor does it lose the map of the groups it follows.
LEMMA FollowedOwnStep ==
  ASSUME TypeInv, CoverInv, NEW w \in Workers, Start(w) \/ Step(w)
  PROVE  FollowedMap(w)'
  <1>0. Domains /\ TaskTypeOK /\ FollowedMap(w)
    BY DEF TypeInv, LocalTypes, Domains, CoverInv
  <1>1. ASSUME followers'[w] = followers[w], pc'[w] # "wait"
        PROVE  FollowedMap(w)'
    BY <1>0, <1>1 DEF FollowedMap
  <1>2. ASSUME followers'[w] = EmptyMap, pc'[w] # "wait"
        PROVE  FollowedMap(w)'
    BY <1>2 DEF FollowedMap, EmptyMap
  <1>3. CASE Fail(w)
    BY <1>0, <1>2, <1>3, FailMoves
  <1>4. CASE Start(w)
    <2>1. followers'[w] = EmptyMap /\ pc'[w] = "input"
      BY <1>0, <1>4 DEF Start, Reset, Goto, Domains
    <2>2. QED
      BY <1>2, <2>1
  <1>5. CASE \/ RecordInput(w) \/ RecordRows(w) \/ Acquire(w) \/ Attempt(w)
             \/ Call(w) \/ Response(w) \/ Release(w) \/ Insert(w)
             \/ Settle(w) \/ FailedRequest(w) \/ ProviderFailure(w)
             \/ Hit(w) \/ (Plan(w) /\ Send(w)) \/ (Claim(w) /\ ~Fail(w))
    <2>1. followers' = followers
      BY <1>5
         DEF RecordInput, RecordRows, Acquire, Attempt, Call, Response, Release,
             Insert, Settle, FailedRequest, ProviderFailure, Hit, Plan, Send,
             Claim, batchVars, claimVars
    <2>2. \E l : Goto(w, l) /\ l # "wait"
      BY <1>5
         DEF RecordInput, RecordRows, Acquire, Attempt, Call, Response, Release,
             Insert, Settle, FailedRequest, ProviderFailure, Hit, Plan, Send,
             Claim
    <2>3. pc'[w] # "wait"
      BY <1>0, <2>2 DEF Goto, Domains
    <2>4. QED
      BY <1>1, <2>1, <2>3
  <1>6. CASE Lookup(w) \/ HitComplete(w)
    <2>1. /\ followers' = followers
          /\ NextClaim(w) \/ Goto(w, "hit")
      BY <1>6 DEF Lookup, HitComplete, Lead
    <2>2. pc'[w] # "wait"
      BY <1>0, <2>1, NextClaimMoves DEF Goto, Domains
    <2>3. QED
      BY <1>1, <2>1, <2>2
  <1>7. CASE FetchFlag(w) /\ ~Fail(w)
    <2>1. /\ \/ followers' = [followers EXCEPT ![w] = With(@, pos[w], entry[w])]
             \/ followers' = followers
          /\ NextClaim(w) \/ Goto(w, "lookup")
      BY <1>7 DEF FetchFlag, Lead
    <2>2. pc'[w] # "wait"
      BY <1>0, <2>1, NextClaimMoves DEF Goto, Domains
    <2>3. CASE followers' = followers
      BY <1>1, <2>2, <2>3
    <2>4. CASE followers' = [followers EXCEPT ![w] = With(@, pos[w], entry[w])]
      <3>1. followers'[w] = With(followers[w], pos[w], entry[w])
        BY <1>0, <2>4 DEF Domains
      <3>2. QED
        BY <2>2, <3>1 DEF FollowedMap, With
    <2>5. QED
      BY <2>1, <2>3, <2>4
  <1>8. CASE Plan(w) /\ Follow(w)
    <2>1. /\ followers' = followers
          /\ Goto(w, IF followers[w] = EmptyMap THEN "done" ELSE "wait")
      BY <1>8 DEF Plan, Follow, batchVars, claimVars
    <2>2. CASE followers[w] = EmptyMap
      <3>1. pc'[w] = "done"
        BY <1>0, <2>1, <2>2 DEF Goto, Domains
      <3>2. QED
        BY <1>1, <2>1, <3>1
    <2>3. CASE followers[w] # EmptyMap
      <3>1. DOMAIN followers[w] # {}
        BY <1>0, <2>3 DEF FollowedMap, EmptyMap
      <3>2. QED
        BY <1>0, <2>1, <3>1 DEF FollowedMap
    <2>4. QED
      BY <2>2, <2>3
  <1>9. CASE Wait(w) /\ ~Fail(w)
    <2> DEFINE first == Min(DOMAIN followers[w])
    <2>1. /\ pc[w] = "wait"
          /\ followers' = [followers EXCEPT ![w] = Keep(@, DOMAIN @ \ {first})]
          /\ Goto(w, IF DOMAIN followers[w] = {first} THEN "done" ELSE "wait")
      BY <1>9 DEF Wait
    <2> HIDE DEF first
    <2>2. /\ followers'[w] = Keep(followers[w], DOMAIN followers[w] \ {first})
          /\ pc'[w] = "wait" => DOMAIN followers[w] # {first}
      BY <1>0, <2>1 DEF Goto, Domains
    <2>3. DOMAIN followers[w] # {}
      BY <1>0, <2>1 DEF FollowedMap
    <2>4. QED
      BY <2>2, <2>3 DEF FollowedMap, Keep
  <1>10. QED
    BY <1>3, <1>4, <1>5, <1>6, <1>7, <1>8, <1>9
       DEF Step, Plan, TooLarge, FailBatch

\* What Init establishes.
LEMMA CoverInit == Init => CoverInv
  <1> SUFFICES ASSUME Init, NEW w \in Workers
               PROVE  Covered(w) /\ FollowedMap(w)
    BY DEF CoverInv
  <1>1. pc[w] = "idle" /\ out[w] = EmptyMap /\ followers[w] = EmptyMap
    BY DEF Init, ThreadsInit
  <1>2. QED
    BY <1>1 DEF Covered, FollowedMap, EmptyMap

\* Every step keeps every chunk covered.
LEMMA CoverStep == TypeInv /\ CoverInv /\ [Next]_vars => CoverInv'
  <1> SUFFICES ASSUME TypeInv, CoverInv, [Next]_vars, NEW v \in Workers
               PROVE  Covered(v)' /\ FollowedMap(v)'
    BY DEF CoverInv
  <1>1. ASSUME Untouched(v) PROVE Covered(v)' /\ FollowedMap(v)'
    BY <1>1 DEF CoverInv, Untouched, Covered, FollowedMap, Waits
  <1>2. CASE Begin \/ End \/ CacheClear \/ Closed \/ UNCHANGED vars
    <2>1. UNCHANGED <<threadVars, batchVars>>
      BY <1>2, HostFrame
    <2>2. QED
      BY <1>1, <2>1 DEF Untouched, threadVars, taskVars, batchVars, claimVars,
                        sendVars
  <1>3. ASSUME NEW w \in Workers, Start(w) \/ Step(w)
        PROVE  Covered(v)' /\ FollowedMap(v)'
    BY <1>1, <1>3, ThreadTypes, CoverOwnStep, FollowedOwnStep
  <1>4. QED
    BY <1>2, <1>3 DEF Next

\* A chunk is published whole or not at all: when a thread is done, every row
\* with something to judge has an answer, whichever groups were cache hits,
\* were led or were followed, and however they were cut into batches.
THEOREM ChunksAreWhole == Spec => []AllOrNothing
  <1>1. TypeInv /\ CoverInv => AllOrNothing
    <2> SUFFICES ASSUME TypeInv, CoverInv, NEW w \in Workers, pc[w] = "done"
                 PROVE  DOMAIN out[w] = JudgedRows(chunk[w])
      BY DEF AllOrNothing
    <2>1. TaskTypeOK /\ SendShape(w) /\ Covered(w)
      BY DEF TypeInv, Shaped, CoverInv
    <2>2. todo[w] = {} /\ batch[w] = {} /\ DOMAIN followers[w] = {}
      BY <2>1 DEF SendShape, SendLabels, ClaimLabels, Covered
    <2>3. \A i \in Leads(chunk[w]) : Targets(chunk[w], i) \subseteq DOMAIN out[w]
      BY <2>1, <2>2 DEF Covered, Waits, ClaimLabels, BeforeClaims
    <2>4. JudgedRows(chunk[w]) \subseteq DOMAIN out[w]
      BY <2>1, <2>3, RowsOfGroups
    <2>5. QED
      BY <2>1, <2>4 DEF Covered
  <1>2. QED
    BY <1>1, InitTypes, TypeStep, CoverInit, CoverStep, PTL DEF Spec

-----------------------------------------------------------------------------
(* Every row gets an answer to its own content.                            *)

\* A thread's steps inside its chunk leave what identities are made of alone.
LEMMA SameTask ==
  ASSUME NEW w \in Workers, Step(w)
  PROVE  /\ UNCHANGED <<taskVars, credVars>>
         /\ \A i : IdentityOf(w, i)' = IdentityOf(w, i)
         /\ Cacheable(w)' = Cacheable(w)
  <1>1. UNCHANGED <<taskVars, credVars>>
    BY DEF Step, RecordInput, RecordRows, Claim, FetchFlag, Lookup, Hit,
           HitComplete, Plan, Acquire, Attempt, Call, Response, Release,
           Insert, Settle, FailedRequest, ProviderFailure, FailBatch, Wait,
           runtimeVars
  <1>2. QED
    BY <1>1 DEF IdentityOf, Cacheable, taskVars

\* Only the start of a chunk touches credentials, and identity_scopes gives
\* it a scope that stands for its own credential.
LEMMA ScopesStep ==
  ASSUME TypeInv, ScopesApart, [Next]_vars
  PROVE  /\ ScopesApart'
         /\ \A s, c : ScopeOf(s, c) => ScopeOf(s, c)'
  <1>0. TaskTypeOK /\ RuntimeTypeOK
    BY DEF TypeInv
  <1>1. CASE UNCHANGED <<credVars, ctx, cscope>>
    BY <1>1 DEF ScopesApart, ScopeOf, credVars
  <1>2. ASSUME NEW w \in Workers, Start(w)
        PROVE  /\ ScopesApart'
               /\ \A s, c : ScopeOf(s, c) => ScopeOf(s, c)'
    BY <1>0, <1>2, ScopeGiven DEF Start
  <1>3. CASE Begin \/ End \/ CacheClear \/ Closed \/ UNCHANGED vars
    <2>1. UNCHANGED <<credVars, ctx, cscope>>
      BY <1>3 DEF Begin, HostBegin, BeginQuery, End, HostEnd, EndQuery,
                  CacheClear, Closed, vars, runtimeVars, threadVars, taskVars
    <2>2. QED
      BY <1>1, <2>1
  <1>4. ASSUME NEW w \in Workers, Step(w)
        PROVE  UNCHANGED <<credVars, ctx, cscope>>
    BY <1>4, SameTask DEF taskVars
  <1>5. QED
    BY <1>1, <1>2, <1>3, <1>4 DEF Next

\* What answered an identity goes on answering it.
LEMMA AnswerStays ==
  ASSUME TypeInv, ScopesApart, [Next]_vars
  PROVE  \A a, id : IsAnswerTo(a, id) => IsAnswerTo(a, id)'
  BY ScopesStep DEF IsAnswerTo

\* What was accepted from a response answers the groups sent.
LEMMA ResponseIsAnswer ==
  ASSUME TypeInv, ScopesApart, NEW w \in Workers, Response(w),
         Valid(reply[w], Cardinality(batch[w])), NEW i \in batch[w]
  PROVE  IsAnswerTo(answers'[w][i], IdentityOf(w, i))
  <1>1. answers'[w][i] = [key |-> chunk[w][i], model |-> ctx[w].model,
                          cred |-> ctx[w].cred, query |-> scope[w],
                          val |-> reply[w].val]
    BY ResponseAnswers
  <1> DEFINE a == answers'[w][i]
  <1>2. /\ a.key = chunk[w][i] /\ a.model = ctx[w].model
        /\ a.cred = ctx[w].cred /\ a.query = scope[w]
    BY <1>1
  <1> HIDE DEF a
  <1>3. IsAnswerTo(a, IdentityOf(w, i))
    BY <1>2 DEF IsAnswerTo, IdentityOf, ScopesApart
  <1>4. QED
    BY <1>3 DEF a

\* A hit is an answer to the group that was looked up: an entry of the cache
\* was stored under the same content, model and credential scope, and never
\* for a model whose answers may differ from one query to the next.
LEMMA HitIsAnswer ==
  ASSUME AnswersKept, NEW w \in Workers, Cacheable(w), NEW i,
         CacheIdentityOf(w, i) \in DOMAIN cache
  PROVE  IsAnswerTo(cache[CacheIdentityOf(w, i)], IdentityOf(w, i))
  <1> DEFINE a == cache[CacheIdentityOf(w, i)]
  <1>1. IsAnswerTo(a, CacheIdentityOf(w, i)) /\ ctx[w].model \in PinnedModels
    BY DEF AnswersKept, Cacheable
  <1> HIDE DEF a
  <1>2. IsAnswerTo(a, IdentityOf(w, i))
    BY <1>1 DEF IsAnswerTo, CacheIdentityOf, IdentityOf
  <1>3. QED
    BY <1>2 DEF a

\* The answers in a thread's hand answer its groups after its step, too.
LEMMA InHandStep ==
  ASSUME TypeInv, ScopesApart, AnswersKept, NEW w \in Workers,
         Start(w) \/ Step(w)
  PROVE  InHand(w)'
  <1>0. /\ Domains /\ TaskTypeOK /\ RuntimeTypeOK /\ InHand(w)
        /\ AnswerShape(w) /\ [Next]_vars
    BY DEF TypeInv, LocalTypes, Domains, Shaped, AnswersKept, Next
  <1>a. \A a, id : IsAnswerTo(a, id) => IsAnswerTo(a, id)'
    BY <1>0, AnswerStays
  <1>1. ASSUME pc'[w] \notin HitLabels \cup SettleLabels \cup {"release"}
        PROVE  InHand(w)'
    BY <1>1 DEF InHand, HitLabels, SettleLabels
  <1>2. CASE Start(w)
    <2>1. pc'[w] = "input"
      BY <1>0, <1>2 DEF Start, Goto, Domains
    <2>2. QED
      BY <1>1, <2>1 DEF HitLabels, SettleLabels
  <1>3. CASE Fail(w)
    BY <1>0, <1>1, <1>3, FailMoves DEF HitLabels, SettleLabels
  <1>4. ASSUME NextClaim(w) PROVE InHand(w)'
    BY <1>0, <1>1, <1>4, NextClaimMoves DEF HitLabels, SettleLabels
  <1>5. CASE \/ RecordInput(w) \/ RecordRows(w) \/ Acquire(w) \/ Attempt(w)
             \/ FailedRequest(w) \/ ProviderFailure(w)
             \/ (Plan(w) /\ (Follow(w) \/ Send(w))) \/ (Claim(w) /\ ~Fail(w))
    <2>1. \E l \in {"failed", "rows", "done", "claim", "fail_leaders",
                    "attempt", "call", "provider_failure", "wait", "acquire",
                    "flag", "join_flag"} : Goto(w, l)
      BY <1>5 DEF RecordInput, RecordRows, Acquire, Attempt, FailedRequest,
                  ProviderFailure, Plan, Follow, Send, Claim
    <2>2. QED
      BY <1>0, <1>1, <2>1 DEF Goto, Domains, HitLabels, SettleLabels
  <1>6. CASE FetchFlag(w) /\ ~Fail(w)
    <2>1. NextClaim(w) \/ Goto(w, "lookup")
      BY <1>6 DEF FetchFlag, Lead
    <2>2. QED
      BY <1>0, <1>1, <1>4, <2>1 DEF Goto, Domains, HitLabels, SettleLabels
  <1>7. CASE HitComplete(w)
    BY <1>4, <1>7 DEF HitComplete
  <1>8. CASE Wait(w) /\ ~Fail(w)
    <2>1. Goto(w, "done") \/ Goto(w, "wait")
      BY <1>8 DEF Wait
    <2>2. QED
      BY <1>0, <1>1, <2>1 DEF Goto, Domains, HitLabels, SettleLabels
  <1>9. CASE Lookup(w)
    <2> DEFINE a == cache[CacheIdentityOf(w, pos[w])]
    <2>1. \/ NextClaim(w)
          \/ /\ Cacheable(w) /\ CacheIdentityOf(w, pos[w]) \in DOMAIN cache'
             /\ answers' = [answers EXCEPT ![w] = With(@, pos[w], a)]
             /\ Goto(w, "hit") /\ UNCHANGED pos
      BY <1>9 DEF Lookup, Lead
    <2>2. CASE /\ Cacheable(w) /\ CacheIdentityOf(w, pos[w]) \in DOMAIN cache'
               /\ answers' = [answers EXCEPT ![w] = With(@, pos[w], a)]
               /\ Goto(w, "hit") /\ UNCHANGED pos
      <3>1. CacheIdentityOf(w, pos[w]) \in DOMAIN cache
        BY <1>0, <1>9, <2>2, CacheTypes DEF Lookup
      <3>2. IsAnswerTo(a, IdentityOf(w, pos[w]))
        BY <2>2, <3>1, HitIsAnswer
      <3>3. answers'[w][pos[w]] = a /\ pc'[w] = "hit" /\ pos' = pos
        BY <1>0, <2>2 DEF Goto, Domains, With
      <3>4. PICK b, id : /\ b = a /\ id = IdentityOf(w, pos[w])
                         /\ IsAnswerTo(b, id)
        BY <3>2
      <3>5. IdentityOf(w, pos[w])' = id
        BY <1>9, <3>3, <3>4, SameTask DEF Step, IdentityOf
      <3> HIDE DEF a
      <3>6. IsAnswerTo(answers[w][pos[w]], IdentityOf(w, pos[w]))'
        BY <1>a, <3>3, <3>4, <3>5 DEF IsAnswerTo, ScopeOf, IdentityOf
      <3>7. QED
        BY <3>3, <3>6 DEF InHand, HitLabels, SettleLabels
    <2>3. QED
      BY <1>4, <2>1, <2>2
  <1>b. ASSUME Step(w), NEW i, IsAnswerTo(answers[w][i], IdentityOf(w, i)),
               answers'[w][i] = answers[w][i]
        PROVE  IsAnswerTo(answers[w][i], IdentityOf(w, i))'
    <2>1. PICK b, id : /\ b = answers[w][i] /\ id = IdentityOf(w, i)
                       /\ IsAnswerTo(b, id)
      BY <1>b
    <2>2. IdentityOf(w, i)' = id
      BY <1>b, <2>1, SameTask
    <2>3. QED
      BY <1>a, <1>b, <2>1, <2>2 DEF IsAnswerTo, ScopeOf, IdentityOf
  <1>10. CASE Hit(w)
    <2>1. /\ pc[w] = "hit" /\ UNCHANGED batchVars /\ Goto(w, "hit_complete")
      BY <1>10 DEF Hit
    <2>2. /\ pc'[w] = "hit_complete" /\ answers' = answers /\ pos' = pos
      BY <1>0, <2>1 DEF Goto, Domains, batchVars, claimVars, sendVars
    <2>3. IsAnswerTo(answers[w][pos[w]], IdentityOf(w, pos[w]))
      BY <1>0, <2>1 DEF InHand, HitLabels
    <2>4. PICK i : i = pos[w]
      OBVIOUS
    <2>5. IsAnswerTo(answers[w][i], IdentityOf(w, i))'
      BY <1>10, <1>b, <2>2, <2>3, <2>4 DEF Step
    <2>6. QED
      BY <2>2, <2>4, <2>5 DEF InHand, HitLabels, SettleLabels
  <1>11. CASE Call(w)
    <2>1. /\ pc[w] = "call" /\ answers' = answers
          /\ Goto(w, "release") \/ Goto(w, "response")
      BY <1>11 DEF Call
    <2>2. answers'[w] = EmptyMap
      BY <1>0, <2>1 DEF AnswerShape, HitLabels, SettleLabels
    <2>3. pc'[w] \in {"release", "response"}
      BY <1>0, <2>1 DEF Goto, Domains
    <2>4. QED
      BY <2>2, <2>3 DEF InHand, HitLabels, SettleLabels
  <1>12. CASE Response(w)
    <2>1. /\ pc'[w] = "release" /\ batch' = batch
          /\ answers'[w] # EmptyMap => Valid(reply[w], Cardinality(batch[w]))
      BY <1>0, <1>12 DEF Response, Goto, Domains
    <2>2. ASSUME answers'[w] # EmptyMap, NEW i \in batch[w]
          PROVE  IsAnswerTo(answers[w][i], IdentityOf(w, i))'
      <3>1. IsAnswerTo(answers'[w][i], IdentityOf(w, i))
        BY <1>12, <2>1, <2>2, ResponseIsAnswer
      <3>2. PICK b, id : /\ b = answers'[w][i] /\ id = IdentityOf(w, i)
                         /\ IsAnswerTo(b, id)
        BY <3>1
      <3>3. IdentityOf(w, i)' = id
        BY <1>12, <3>2, SameTask DEF Step
      <3>4. QED
        BY <1>a, <3>2, <3>3, SMTT(30) DEF IsAnswerTo, ScopeOf, IdentityOf
    <2>3. QED
      BY <2>1, <2>2 DEF InHand, HitLabels, SettleLabels
  <1>13. CASE Release(w) \/ Insert(w)
    <2>1. /\ UNCHANGED batchVars
          /\ \/ /\ pc[w] = "release" /\ answers[w] = EmptyMap
                /\ Goto(w, "failed_request") \/ Goto(w, "fail_leaders")
             \/ /\ pc[w] = "release" /\ answers[w] # EmptyMap
                /\ Goto(w, "settle") \/ (Cacheable(w) /\ Goto(w, "insert"))
             \/ pc[w] = "insert" /\ Goto(w, "settle_stored")
      BY <1>13 DEF Release, Insert
    <2>2. CASE pc'[w] \notin SettleLabels
      <3>1. pc'[w] \in {"failed_request", "fail_leaders"}
        BY <1>0, <2>1, <2>2 DEF Goto, Domains, SettleLabels
      <3>2. QED
        BY <1>1, <3>1 DEF HitLabels, SettleLabels
    <2>3. CASE pc'[w] \in SettleLabels
      <3>1. /\ pc'[w] \notin HitLabels /\ batch' = batch /\ answers' = answers
            /\ pc[w] \in SettleLabels \/ (pc[w] = "release" /\ answers[w] # EmptyMap)
            /\ pc'[w] \in {"insert", "settle_stored"} => Cacheable(w)
        BY <1>0, <2>1, <2>3
           DEF Goto, Domains, SettleLabels, HitLabels, batchVars, sendVars, InHand
      <3>2. \A i \in batch[w] : IsAnswerTo(answers[w][i], IdentityOf(w, i))
        BY <1>0, <3>1 DEF InHand
      <3>3. \A i \in batch[w] : IsAnswerTo(answers[w][i], IdentityOf(w, i))'
        BY <1>13, <1>b, <3>1, <3>2 DEF Step
      <3>4. Cacheable(w)' = Cacheable(w)
        BY <1>13, SameTask DEF Step
      <3>5. QED
        BY <2>3, <3>1, <3>3, <3>4 DEF InHand, SettleLabels
    <2>4. QED
      BY <2>2, <2>3
  <1>14. CASE Settle(w)
    <2> DEFINE first == Min(batch[w])
    <2>1. /\ pc[w] \in {"settle", "settle_stored"}
          /\ batch' = [batch EXCEPT ![w] = @ \ {first}]
          /\ \/ Goto(w, "plan")
             \/ /\ UNCHANGED answers
                /\ Goto(w, IF pc[w] = "settle" THEN "settle" ELSE "insert")
      BY <1>14 DEF Settle
    <2> HIDE DEF first
    <2>2. batch'[w] \subseteq batch[w]
      BY <1>0, <2>1 DEF Domains
    <2>3. CASE Goto(w, "plan")
      BY <1>0, <1>1, <2>3 DEF Goto, Domains, HitLabels, SettleLabels
    <2>4. CASE /\ UNCHANGED answers
               /\ Goto(w, IF pc[w] = "settle" THEN "settle" ELSE "insert")
      <3>1. /\ pc'[w] \in {"settle", "insert"}
            /\ pc'[w] = "insert" => Cacheable(w)
        BY <1>0, <2>1, <2>4 DEF Goto, Domains, InHand
      <3>2. \A i \in batch[w] : IsAnswerTo(answers[w][i], IdentityOf(w, i))
        BY <1>0, <2>1 DEF InHand, SettleLabels
      <3>3. \A i \in batch'[w] : IsAnswerTo(answers[w][i], IdentityOf(w, i))'
        BY <1>14, <1>b, <2>2, <2>4, <3>2 DEF Step
      <3>4. Cacheable(w)' = Cacheable(w)
        BY <1>14, SameTask DEF Step
      <3>5. QED
        BY <3>1, <3>3, <3>4 DEF InHand, HitLabels, SettleLabels
    <2>5. QED
      BY <2>1, <2>3, <2>4
  <1>15. QED
    BY <1>2, <1>3, <1>5, <1>6, <1>7, <1>8, <1>9, <1>10, <1>11, <1>12, <1>13,
       <1>14 DEF Step, Plan, TooLarge, FailBatch

\* What settles entries: an error, or an answer to the entries it settles.
LEMMA SettledWithAnswers ==
  ASSUME NEW E, NEW r, CompleteEntries(E, r), Failed \notin Answer,
         slots \in Seq(QueryEntry),
         r = Failed \/ \A e \in E : IsAnswerTo(r, slots[e].id)
  PROVE  \A e \in DOMAIN slots' : slots'[e].result \in Answer =>
           /\ e \in DOMAIN slots
           /\ \/ slots'[e].result = slots[e].result
              \/ IsAnswerTo(slots'[e].result, slots[e].id)
  <1> SUFFICES ASSUME NEW e \in DOMAIN slots', slots'[e].result \in Answer
               PROVE  /\ e \in DOMAIN slots
                      /\ \/ slots'[e].result = slots[e].result
                         \/ IsAnswerTo(slots'[e].result, slots[e].id)
    OBVIOUS
  <1>1. /\ e \in DOMAIN slots
        /\ slots'[e] = IF e \in E /\ slots[e].result = Pending
                       THEN [slots[e] EXCEPT !.result = r] ELSE slots[e]
    BY DEF CompleteEntries
  <1>2. slots[e] \in QueryEntry
    BY <1>1
  <1>3. CASE e \in E /\ slots[e].result = Pending
    <2>1. slots'[e].result = r
      BY <1>1, <1>2, <1>3 DEF QueryEntry
    <2>2. QED
      BY <1>1, <1>3, <2>1
  <1>4. CASE ~(e \in E /\ slots[e].result = Pending)
    BY <1>1, <1>4
  <1>5. QED
    BY <1>3, <1>4

\* An entry that has an answer after a thread's step had it before, or the
\* thread settled it with an answer to the entry's identity.
LEMMA SettledStep ==
  ASSUME TypeInv, AnswersKept, NEW w \in Workers, Start(w) \/ Step(w)
  PROVE  \A e \in DOMAIN slots' : slots'[e].result \in Answer =>
           /\ e \in DOMAIN slots
           /\ \/ slots'[e].result = slots[e].result
              \/ IsAnswerTo(slots'[e].result, slots[e].id)
  <1>0. /\ slots \in Seq(QueryEntry) /\ Failed \notin Answer
        /\ Pending \notin Answer
        /\ Linked(w) /\ SendShape(w) /\ ClaimShape(w) /\ InHand(w)
    BY RuntimeAssumption
       DEF TypeInv, Shaped, RuntimeTypeOK, AnswersKept, Outcome
  <1> DEFINE Goal == \A e \in DOMAIN slots' : slots'[e].result \in Answer =>
                       /\ e \in DOMAIN slots
                       /\ \/ slots'[e].result = slots[e].result
                          \/ IsAnswerTo(slots'[e].result, slots[e].id)
  <1> SUFFICES Goal
    OBVIOUS
  <1>1. CASE UNCHANGED slots
    BY <1>1
  <1>2. CASE Start(w)
    BY <1>1, <1>2 DEF Start, entryVars
  <1>3. CASE Claim(w)
    <2>1. CASE NewEntry(IdentityOf(w, pos[w]))
      <3>1. slots' = Append(slots, [id |-> IdentityOf(w, pos[w]),
                                    result |-> Pending])
        BY <2>1 DEF NewEntry
      <3>2. QED
        BY <1>0, <3>1
    <2>2. CASE UNCHANGED slots
      BY <1>1, <2>2
    <2>3. QED
      BY <1>3, <2>1, <2>2 DEF Claim, JoinEntry, entryVars
  <1>4. CASE FailLeaders(w)
    BY <1>0, <1>4, SettledWithAnswers DEF FailLeaders
  <1>5. CASE HitComplete(w)
    <2>1. /\ pc[w] = "hit_complete"
          /\ CompleteEntries({entry[w]}, answers[w][pos[w]])
      BY <1>5 DEF HitComplete
    <2>2. IsAnswerTo(answers[w][pos[w]], IdentityOf(w, pos[w]))
      BY <1>0, <2>1 DEF InHand, HitLabels
    <2>3. slots[entry[w]].id = IdentityOf(w, pos[w])
      BY <1>0, <2>1 DEF Linked, ClaimLabels
    <2>4. \A e \in {entry[w]} : IsAnswerTo(answers[w][pos[w]], slots[e].id)
      BY <2>2, <2>3
    <2>5. QED
      BY <1>0, <2>1, <2>4, SettledWithAnswers
  <1>6. CASE Settle(w)
    <2> DEFINE i == Min(batch[w])
    <2>1. /\ pc[w] \in SettleLabels /\ pc[w] \in SendLabels
          /\ CompleteEntries({leaders[w][i]}, answers[w][i])
      BY <1>6 DEF Settle, SettleLabels, SendLabels
    <2>2. i \in batch[w]
      BY <2>1, BatchGroups
    <2> HIDE DEF i
    <2>3. IsAnswerTo(answers[w][i], IdentityOf(w, i))
      BY <1>0, <2>1, <2>2 DEF InHand
    <2>4. slots[leaders[w][i]].id = IdentityOf(w, i)
      BY <1>0, <2>2 DEF Linked, SendShape
    <2>5. \A e \in {leaders[w][i]} : IsAnswerTo(answers[w][i], slots[e].id)
      BY <2>3, <2>4
    <2>6. QED
      BY <1>0, <2>1, <2>5, SettledWithAnswers
  <1>7. CASE RecordInput(w) \/ RecordRows(w) \/ FetchFlag(w) \/ Lookup(w)
               \/ Hit(w) \/ (Plan(w) /\ (Follow(w) \/ Send(w))) \/ Acquire(w)
               \/ Attempt(w) \/ Call(w) \/ Response(w) \/ Release(w)
               \/ Insert(w) \/ FailedRequest(w) \/ ProviderFailure(w) \/ Wait(w)
    <2>1. UNCHANGED slots
      BY <1>7
         DEF RecordInput, RecordRows, FetchFlag, Lookup, Hit, Plan, Follow,
             Send, Acquire, Attempt, Call, Response, Release, Insert,
             FailedRequest, ProviderFailure, Wait, entryVars, runtimeVars
    <2>2. QED
      BY <1>1, <2>1
  <1>8. QED
    BY <1>2, <1>3, <1>4, <1>5, <1>6, <1>7
       DEF Step, Plan, TooLarge, FailBatch

\* What is in the cache after a step was there before, or was just inserted.
LEMMA CacheSteps ==
  ASSUME TypeInv, NEW w \in Workers, Start(w) \/ Step(w)
  PROVE  \A i \in DOMAIN cache' :
           \/ i \in DOMAIN cache /\ cache'[i] = cache[i]
           \/ /\ Insert(w) /\ i = CacheIdentityOf(w, Min(batch[w]))
              /\ cache'[i] = answers[w][Min(batch[w])]
  <1>0. RuntimeTypeOK
    BY DEF TypeInv
  <1>1. CASE Start(w)
    BY <1>1 DEF Start, UseCredential, EmptyMap
  <1>2. CASE Lookup(w)
    BY <1>0, <1>2, CacheTypes DEF Lookup
  <1>3. CASE Insert(w)
    <2> DEFINE i == CacheIdentityOf(w, Min(batch[w]))
               a == answers[w][Min(batch[w])]
    <2>1. CASE CacheReconcile
      BY <1>0, <2>1, CacheTypes
    <2>2. CASE \E D \in SUBSET (DOMAIN cache \ {i}) :
                 cache' = [j \in D \cup {i} |-> IF j = i THEN a ELSE cache[j]]
      <3> HIDE DEF i, a
      <3>1. \A j \in DOMAIN cache' :
              \/ j \in DOMAIN cache /\ cache'[j] = cache[j]
              \/ j = i /\ cache'[j] = a
        BY <2>2
      <3>2. QED
        BY <1>3, <3>1 DEF i, a
    <2>3. CacheInsert(i, a)
      BY <1>3 DEF Insert
    <2>4. QED
      BY <2>1, <2>2, <2>3 DEF CacheInsert
  <1>4. CASE RecordInput(w) \/ RecordRows(w) \/ Claim(w) \/ FetchFlag(w)
               \/ Hit(w) \/ HitComplete(w) \/ Plan(w) \/ Acquire(w)
               \/ Attempt(w) \/ Call(w) \/ Response(w) \/ Release(w)
               \/ Settle(w) \/ FailedRequest(w) \/ ProviderFailure(w)
               \/ FailBatch(w) \/ Wait(w)
    <2>1. UNCHANGED cache
      BY <1>4
         DEF RecordInput, RecordRows, Claim, FetchFlag, Hit, HitComplete, Plan,
             Acquire, Attempt, Call, Response, Release, Settle, FailedRequest,
             ProviderFailure, FailBatch, Wait, runtimeVars
    <2>2. QED
      BY <2>1
  <1>5. QED
    BY <1>1, <1>2, <1>3, <1>4 DEF Step

\* The answers of another thread stay what they were.
LEMMA OthersInHand ==
  ASSUME TypeInv, ScopesApart, [Next]_vars, NEW v \in Workers, Untouched(v),
         InHand(v)
  PROVE  InHand(v)'
  <1>0. \A a, id : IsAnswerTo(a, id) => IsAnswerTo(a, id)'
    BY AnswerStays
  <1>1. /\ \A i : IdentityOf(v, i)' = IdentityOf(v, i)
        /\ Cacheable(v)' = Cacheable(v)
    BY DEF Untouched, IdentityOf, Cacheable
  <1>2. ASSUME NEW i, IsAnswerTo(answers[v][i], IdentityOf(v, i))
        PROVE  IsAnswerTo(answers[v][i], IdentityOf(v, i))'
    <2>1. PICK b, id : /\ b = answers[v][i] /\ id = IdentityOf(v, i)
                       /\ IsAnswerTo(b, id)
      BY <1>2
    <2>2. IdentityOf(v, i)' = id /\ answers'[v][i] = b
      BY <1>1, <2>1 DEF Untouched
    <2>3. QED
      BY <1>0, <2>1, <2>2 DEF IsAnswerTo, ScopeOf, IdentityOf
  <1>3. PICK p : p = pos[v]
    OBVIOUS
  <1>4. IsAnswerTo(answers[v][p], IdentityOf(v, p)) =>
          IsAnswerTo(answers[v][p], IdentityOf(v, p))'
    BY <1>2
  <1>5. QED
    BY <1>1, <1>2, <1>3, <1>4 DEF InHand, Untouched

\* Everything kept under an identity goes on answering it.
LEMMA AnswersStep ==
  ASSUME TypeInv, ScopesApart, AnswersKept, [Next]_vars
  PROVE  AnswersKept'
  <1>0. /\ RuntimeTypeOK
        /\ \A a, id : IsAnswerTo(a, id) => IsAnswerTo(a, id)'
    BY AnswerStays DEF TypeInv
  <1>1. CASE Begin \/ End \/ CacheClear \/ Closed \/ UNCHANGED vars
    <2>1. /\ slots' = slots /\ (cache' = cache \/ cache' = EmptyMap)
          /\ UNCHANGED <<threadVars, batchVars>>
      BY <1>1 DEF Begin, HostBegin, BeginQuery, End, HostEnd, EndQuery,
                  CacheClear, ClearCache, Closed, vars, runtimeVars, entryVars
    <2>2. \A v \in Workers : InHand(v)'
      <3>1. \A v \in Workers : Untouched(v)
        BY <2>1 DEF Untouched, threadVars, taskVars, batchVars, claimVars,
                    sendVars
      <3>2. QED
        BY <3>1, OthersInHand DEF AnswersKept
    <2>3. \A e \in DOMAIN slots' : slots'[e].result \in Answer =>
            IsAnswerTo(slots[e].result, slots[e].id)'
      BY <1>0, <2>1 DEF AnswersKept, IsAnswerTo, ScopeOf
    <2>4. \A i \in DOMAIN cache' :
            i.model \in PinnedModels /\ IsAnswerTo(cache[i], i)'
      BY <1>0, <2>1 DEF AnswersKept, IsAnswerTo, ScopeOf, EmptyMap
    <2>5. QED
      BY <2>2, <2>3, <2>4 DEF AnswersKept
  <1>2. ASSUME NEW w \in Workers, Start(w) \/ Step(w)
        PROVE  AnswersKept'
    <2>1. ASSUME NEW v \in Workers PROVE InHand(v)'
      <3>1. CASE v = w
        BY <1>2, <3>1, InHandStep
      <3>2. CASE v # w
        BY <1>2, <3>2, ThreadTypes, OthersInHand DEF AnswersKept
      <3>3. QED
        BY <3>1, <3>2
    <2>2. ASSUME NEW e \in DOMAIN slots', slots'[e].result \in Answer
          PROVE  IsAnswerTo(slots[e].result, slots[e].id)'
      <3>1. /\ e \in DOMAIN slots
            /\ \/ slots'[e].result = slots[e].result
               \/ IsAnswerTo(slots'[e].result, slots[e].id)
        BY <1>2, <2>2, SettledStep
      <3>2. slots'[e].id = slots[e].id
        BY <1>2, <3>1, ThreadTypes DEF EntriesKept
      <3>3. IsAnswerTo(slots'[e].result, slots[e].id)
        BY <2>2, <3>1 DEF AnswersKept
      <3>4. PICK b, id : /\ b = slots'[e].result /\ id = slots[e].id
                         /\ IsAnswerTo(b, id)
        BY <3>3
      <3>5. QED
        BY <1>0, <3>2, <3>4 DEF IsAnswerTo, ScopeOf
    <2>3. ASSUME NEW i \in DOMAIN cache'
          PROVE  i.model \in PinnedModels /\ IsAnswerTo(cache[i], i)'
      <3>1. CASE i \in DOMAIN cache /\ cache'[i] = cache[i]
        <4>1. i.model \in PinnedModels /\ IsAnswerTo(cache[i], i)
          BY <3>1 DEF AnswersKept
        <4>2. PICK b : b = cache[i] /\ IsAnswerTo(b, i)
          BY <4>1
        <4>3. QED
          BY <1>0, <3>1, <4>1, <4>2 DEF IsAnswerTo, ScopeOf
      <3>2. CASE /\ Insert(w) /\ i = CacheIdentityOf(w, Min(batch[w]))
                 /\ cache'[i] = answers[w][Min(batch[w])]
        <4> DEFINE first == Min(batch[w])
        <4>1. /\ pc[w] = "insert" /\ pc[w] \in SettleLabels
              /\ pc[w] \in SendLabels
          BY <3>2 DEF Insert, SettleLabels, SendLabels
        <4>2. first \in batch[w]
          BY <4>1, BatchGroups
        <4>3. i = CacheIdentityOf(w, first) /\ cache'[i] = answers[w][first]
          BY <3>2
        <4> HIDE DEF first
        <4>4. /\ IsAnswerTo(answers[w][first], IdentityOf(w, first))
              /\ Cacheable(w)
          BY <4>1, <4>2 DEF AnswersKept, InHand
        <4>5. PICK b : b = answers[w][first] /\ IsAnswerTo(b, IdentityOf(w, first))
          BY <4>4
        <4>6. i.model \in PinnedModels /\ IsAnswerTo(b, i)
          BY <4>3, <4>4, <4>5
             DEF IsAnswerTo, IdentityOf, CacheIdentityOf, Cacheable
        <4>7. IsAnswerTo(b, i)'
          BY <1>0, <4>6
        <4>8. QED
          BY <4>3, <4>5, <4>6, <4>7 DEF IsAnswerTo, ScopeOf
      <3>3. QED
        BY <1>2, <3>1, <3>2, CacheSteps
    <2>4. QED
      BY <2>1, <2>2, <2>3 DEF AnswersKept
  <1>3. QED
    BY <1>1, <1>2 DEF Next

\* RightAnswer, of one thread.
RowsRight(w) ==
  \A i \in DOMAIN out[w] :
    /\ out[w][i].key = chunk[w][i]
    /\ out[w][i].model = ctx[w].model
    /\ out[w][i].cred = ctx[w].cred

\* Giving the rows of a group an answer to the group leaves every row right.
LEMMA ExpandIsRight ==
  ASSUME TypeInv, NEW w \in Workers, RowsRight(w), Step(w), NEW i, NEW a,
         Expand(w, i, a), IsAnswerTo(a, IdentityOf(w, i))
  PROVE  RowsRight(w)'
  <1>1. Domains /\ UNCHANGED taskVars
    BY SameTask DEF TypeInv, LocalTypes, Domains
  <1>2. a.key = chunk[w][i] /\ a.model = ctx[w].model /\ a.cred = ctx[w].cred
    BY DEF IsAnswerTo, IdentityOf, ScopeOf
  <1>3. ASSUME NEW j \in DOMAIN out'[w]
        PROVE  /\ out'[w][j].key = chunk[w][j]
               /\ out'[w][j].model = ctx[w].model
               /\ out'[w][j].cred = ctx[w].cred
    <2>1. CASE j \in DOMAIN out[w]
      BY <1>1, <2>1, Expanded DEF RowsRight
    <2>2. CASE j \notin DOMAIN out[w]
      <3>1. j \in Targets(chunk[w], i) /\ out'[w][j] = a
        BY <1>1, <2>2, Expanded
      <3>2. QED
        BY <1>2, <3>1 DEF Targets
    <2>3. QED
      BY <2>1, <2>2
  <1>4. QED
    BY <1>1, <1>3 DEF RowsRight, taskVars

\* A thread's step leaves its rows right.
LEMMA RowsStep ==
  ASSUME TypeInv, AnswersKept, CoverInv, NEW w \in Workers, RowsRight(w),
         Start(w) \/ Step(w)
  PROVE  RowsRight(w)'
  <1>0. /\ Domains /\ Linked(w) /\ SendShape(w) /\ ClaimShape(w) /\ InHand(w)
        /\ FollowedMap(w) /\ slots \in Seq(QueryEntry) /\ TaskTypeOK
    BY DEF TypeInv, LocalTypes, Domains, Shaped, AnswersKept, CoverInv,
           RuntimeTypeOK
  <1>1. ASSUME out'[w] = EmptyMap PROVE RowsRight(w)'
    BY <1>1 DEF RowsRight, EmptyMap
  <1>2. ASSUME Step(w), out' = out PROVE RowsRight(w)'
    <2>1. UNCHANGED taskVars
      BY <1>2, SameTask
    <2>2. QED
      BY <1>2, <2>1 DEF RowsRight, taskVars
  <1>3. CASE Fail(w)
    BY <1>0, <1>1, <1>3, FailMoves
  <1>4. CASE Start(w)
    <2>1. out'[w] = EmptyMap
      BY <1>0, <1>4 DEF Start, Domains
    <2>2. QED
      BY <1>1, <2>1
  <1>5. CASE HitComplete(w)
    <2>1. /\ pc[w] = "hit_complete" /\ Expand(w, pos[w], answers[w][pos[w]])
      BY <1>5 DEF HitComplete
    <2>2. IsAnswerTo(answers[w][pos[w]], IdentityOf(w, pos[w]))
      BY <1>0, <2>1 DEF InHand, HitLabels
    <2>3. QED
      BY <1>5, <2>1, <2>2, ExpandIsRight DEF Step
  <1>6. CASE Settle(w)
    <2> DEFINE i == Min(batch[w])
    <2>1. /\ pc[w] \in SettleLabels /\ pc[w] \in SendLabels
          /\ Expand(w, i, answers[w][i])
      BY <1>6 DEF Settle, SettleLabels, SendLabels
    <2>2. i \in batch[w]
      BY <2>1, BatchGroups
    <2> HIDE DEF i
    <2>3. IsAnswerTo(answers[w][i], IdentityOf(w, i))
      BY <1>0, <2>1, <2>2 DEF InHand
    <2>4. QED
      BY <1>6, <2>1, <2>3, ExpandIsRight DEF Step
  <1>7. CASE Wait(w) /\ ~Fail(w)
    <2> DEFINE i == Min(DOMAIN followers[w])
               a == slots[followers[w][i]].result
    <2>1. /\ pc[w] = "wait" /\ Expand(w, i, a) /\ a \notin {Pending, Failed}
      BY <1>7 DEF Wait
    <2>2. DOMAIN followers[w] \in SUBSET Leads(chunk[w])
          /\ DOMAIN followers[w] # {}
      BY <1>0, <2>1 DEF ClaimShape, FollowedMap
    <2>3. i \in DOMAIN followers[w]
      BY <1>0, <2>2, FirstGroup
    <2> HIDE DEF i
    <2>4. /\ followers[w][i] \in DOMAIN slots
          /\ slots[followers[w][i]].id = IdentityOf(w, i)
      BY <1>0, <2>3 DEF Linked
    <2>5. slots[followers[w][i]] \in QueryEntry
      BY <1>0, <2>4
    <2>6. a \in Answer
      BY <2>1, <2>5 DEF QueryEntry, Outcome
    <2>7. IsAnswerTo(a, IdentityOf(w, i))
      BY <2>4, <2>6 DEF AnswersKept
    <2> HIDE DEF a
    <2>8. QED
      BY <1>7, <2>1, <2>7, ExpandIsRight DEF Step
  <1>8. CASE \/ RecordInput(w) \/ RecordRows(w) \/ (Claim(w) /\ ~Fail(w))
             \/ (FetchFlag(w) /\ ~Fail(w)) \/ Lookup(w) \/ Hit(w)
             \/ (Plan(w) /\ (Follow(w) \/ Send(w))) \/ Acquire(w) \/ Attempt(w)
             \/ Call(w) \/ Response(w) \/ Release(w) \/ Insert(w)
             \/ FailedRequest(w) \/ ProviderFailure(w)
    <2>1. out' = out
      BY <1>8
         DEF RecordInput, RecordRows, Claim, FetchFlag, Lookup, Hit, Plan,
             Follow, Send, Acquire, Attempt, Call, Response, Release, Insert,
             FailedRequest, ProviderFailure, batchVars
    <2>2. QED
      BY <1>2, <1>8, <2>1 DEF Step
  <1>9. QED
    BY <1>3, <1>4, <1>5, <1>6, <1>7, <1>8 DEF Step, Plan, TooLarge, FailBatch

\* What Init establishes.
LEMMA AnswerInit == Init => AnswerInv
  <1> SUFFICES ASSUME Init PROVE AnswerInv
    OBVIOUS
  <1> USE DEF Init, ThreadsInit, RuntimeInit
  <1>1. ScopesApart
    BY DEF ScopesApart, ScopeOf
  <1>2. \A w \in Workers : InHand(w)
    BY DEF InHand, HitLabels, SettleLabels
  <1>3. AnswersKept
    BY <1>2 DEF AnswersKept, EmptyMap
  <1>4. \A w \in Workers : out[w] = EmptyMap
    OBVIOUS
  <1>5. RightAnswer
    BY <1>4 DEF RightAnswer, EmptyMap
  <1>6. QED
    BY <1>1, <1>3, <1>5 DEF AnswerInv

\* Every step keeps it.
LEMMA AnswerStep ==
  TypeInv /\ CoverInv /\ AnswerInv /\ [Next]_vars => AnswerInv'
  <1> SUFFICES ASSUME TypeInv, CoverInv, AnswerInv, [Next]_vars
               PROVE  AnswerInv'
    OBVIOUS
  <1>1. ScopesApart' /\ AnswersKept'
    BY ScopesStep, AnswersStep DEF AnswerInv
  <1>2. ASSUME NEW v \in Workers PROVE RowsRight(v)'
    <2>1. RowsRight(v)
      BY DEF AnswerInv, RightAnswer, RowsRight
    <2>2. ASSUME Untouched(v) PROVE RowsRight(v)'
      BY <2>1, <2>2 DEF RowsRight, Untouched
    <2>3. CASE Begin \/ End \/ CacheClear \/ Closed \/ UNCHANGED vars
      <3>1. UNCHANGED <<threadVars, batchVars>>
        BY <2>3, HostFrame
      <3>2. QED
        BY <2>2, <3>1 DEF Untouched, threadVars, taskVars, batchVars,
                          claimVars, sendVars
    <2>4. ASSUME NEW w \in Workers, Start(w) \/ Step(w) PROVE RowsRight(v)'
      BY <2>1, <2>2, <2>4, ThreadTypes, RowsStep DEF AnswerInv
    <2>5. QED
      BY <2>3, <2>4 DEF Next
  <1>3. RightAnswer'
    BY <1>2 DEF RightAnswer, RowsRight
  <1>4. QED
    BY <1>1, <1>3 DEF AnswerInv

\* A row only ever gets an answer to its own content, from its own model and
\* credential, although a request carries many judgments and its answers come
\* in any order, through the map of entries, another thread or the cache.
THEOREM BatchRowsGetRightAnswers == Spec => []RightAnswer
  <1>1. AnswerInv => RightAnswer
    BY DEF AnswerInv
  <1>2. QED
    BY <1>1, InitTypes, TypeStep, CoverInit, CoverStep, AnswerInit, AnswerStep,
       PTL DEF Spec

-----------------------------------------------------------------------------
(* What is counted, and what is still in some thread's hands.              *)

\* A thread of the active query is bound to fail its statement.
Doomed == Ours({"failed", "fail_leaders", "provider_failure"}) # {}

\* What a thread of the active query has yet to count: the rows it has read
\* and not classified, the groups it has not claimed, and the judgments it
\* has claimed and neither found in the cache nor sent.
Rows(w) == IF scope[w] = active /\ pc[w] = "rows" THEN DOMAIN chunk[w] ELSE {}

Groups(w) ==
  IF scope[w] = active /\ pc[w] \in ClaimLabels
  THEN {i \in Leads(chunk[w]) : i > pos[w] \/ (i = pos[w] /\ pc[w] = "claim")}
  ELSE {}

Unasked(w) ==
  IF scope[w] = active
  THEN todo[w]
         \cup (IF pc[w] \in {"acquire", "attempt"} THEN batch[w] ELSE {})
         \cup (IF pc[w] \in {"flag", "lookup", "hit"} THEN {pos[w]} ELSE {})
  ELSE {}

\* How many of them there are, by thread.
RowsAhead == [w \in Workers |-> Cardinality(Rows(w))]
GroupsAhead == [w \in Workers |-> Cardinality(Groups(w))]
AskedAhead == [w \in Workers |-> Cardinality(Unasked(w))]

RowsCounted ==
  counts.input_rows = counts.null_rows + counts.valid_rows
                      + Total(RowsAhead, Workers)

GroupsCounted ==
  counts.valid_rows = counts.unique_judgments + counts.deduplicated_rows
                      + Total(GroupsAhead, Workers)

JudgmentsCounted ==
  External =>
    counts.unique_judgments = counts.cache_hit_judgments
                              + counts.batch_size_sum
                              + Total(AskedAhead, Workers)

\* A request weighs one judgment, and a batched one at least two.
RequestsWeigh ==
  counts.batch_size_sum >= counts.external_requests + counts.batched_requests

FailuresDoom == counts.failed_requests > 0 => Doomed

\* What RecordRows reads has been found to have no bad row.
RowsAreGood == \A w \in Workers : pc[w] = "rows" => ~HasBadRow(chunk[w])

Balanced == RowsCounted /\ GroupsCounted /\ JudgmentsCounted

BalanceInv ==
  /\ RowsAreGood /\ RequestsWeigh /\ FailuresDoom /\ SnapshotBalanced
  /\ ~Doomed => Balanced

-----------------------------------------------------------------------------
(* What a step counts, and what it does to what is still ahead.            *)

\* A thread's step leaves the query lifecycle alone, and its chunk.
LEMMA QueryFrame ==
  ASSUME NEW w \in Workers, Step(w)
  PROVE  UNCHANGED <<active, nextQuery, lastQuery, scope, chunk>>
  BY DEF Step, RecordInput, RecordRows, Claim, FetchFlag, Lookup, Hit,
         HitComplete, Plan, Acquire, Attempt, Call, Response, Release, Insert,
         Settle, FailedRequest, ProviderFailure, FailBatch, Wait, runtimeVars,
         queryVars, taskVars

\* The counts a balance is made of, and those it leaves as they are.
Weighed == {"input_rows", "null_rows", "valid_rows", "deduplicated_rows",
            "unique_judgments", "cache_hit_judgments", "external_requests",
            "batched_requests", "batch_size_sum", "failed_requests"}

KeepsAllBut(S) == \A f \in Weighed \ S : counts'[f] = counts[f]

\* What each observation adds.
CountsMove(w) ==
  \/ /\ KeepsAllBut({})
     /\ pc[w] \notin {"input", "rows", "hit", "attempt", "failed_request"}
     /\ pc[w] = "claim" => pc'[w] = "failed"
  \/ /\ pc[w] = "input" /\ KeepsAllBut({"input_rows"})
     /\ counts'.input_rows = counts.input_rows + Len(chunk[w])
  \/ /\ pc[w] = "rows"
     /\ KeepsAllBut({"null_rows", "valid_rows", "deduplicated_rows"})
     /\ counts'.null_rows = counts.null_rows + Cardinality(NullRows(chunk[w]))
     /\ counts'.valid_rows
          = counts.valid_rows + Cardinality(JudgedRows(chunk[w]))
     /\ counts'.deduplicated_rows
          = counts.deduplicated_rows + (Cardinality(JudgedRows(chunk[w]))
                                        - Cardinality(Leads(chunk[w])))
  \/ /\ pc[w] = "claim" /\ pc'[w] = "flag"
     /\ KeepsAllBut({"unique_judgments"})
     /\ counts'.unique_judgments = counts.unique_judgments + 1
  \/ /\ pc[w] = "claim" /\ pc'[w] = "join_flag"
     /\ KeepsAllBut({"deduplicated_rows"})
     /\ counts'.deduplicated_rows = counts.deduplicated_rows + 1
  \/ /\ pc[w] = "hit" /\ KeepsAllBut({"cache_hit_judgments"})
     /\ counts'.cache_hit_judgments = counts.cache_hit_judgments + 1
  \/ /\ pc[w] = "attempt"
     /\ KeepsAllBut({"external_requests", "batch_size_sum", "batched_requests"})
     /\ counts'.external_requests
          = counts.external_requests + (IF External THEN 1 ELSE 0)
     /\ counts'.batch_size_sum
          = counts.batch_size_sum
            + (IF External THEN Cardinality(batch[w]) ELSE 0)
     /\ counts'.batched_requests
          = counts.batched_requests
            + (IF External /\ Cardinality(batch[w]) > 1 THEN 1 ELSE 0)
  \/ /\ pc[w] = "failed_request" /\ KeepsAllBut({"failed_requests"})
     /\ pc'[w] \in {"provider_failure", "fail_leaders"}

\* The groups of a thread can be counted, and a batch is not empty.
LEMMA BatchCounted ==
  ASSUME TypeInv, NEW w \in Workers
  PROVE  /\ chunk[w] \in Chunks \cup {<< >>}
         /\ IsFiniteSet(Leads(chunk[w])) /\ Leads(chunk[w]) \subseteq Nat
         /\ todo[w] \subseteq Leads(chunk[w])
         /\ batch[w] \subseteq Leads(chunk[w])
         /\ IsFiniteSet(batch[w]) /\ Cardinality(batch[w]) \in Nat
         /\ pc[w] \in SendLabels => Cardinality(batch[w]) > 0
  <1>0. TaskTypeOK /\ SendShape(w) /\ ClaimShape(w)
    BY DEF TypeInv, Shaped
  <1>1. /\ chunk[w] \in Chunks \cup {<< >>}
        /\ IsFiniteSet(Leads(chunk[w])) /\ Leads(chunk[w]) \subseteq Nat
    BY <1>0, TaskTypes, LeadsAreApart
  <1>2. todo[w] \subseteq Leads(chunk[w]) /\ batch[w] \subseteq Leads(chunk[w])
    BY <1>0 DEF SendShape, ClaimShape
  <1>3. IsFiniteSet(batch[w]) /\ Cardinality(batch[w]) \in Nat
    BY <1>1, <1>2, FS_Subset, FS_CardinalityType
  <1>4. pc[w] \in SendLabels => batch[w] # {}
    BY <1>0 DEF SendShape
  <1>5. pc[w] \in SendLabels => Cardinality(batch[w]) # 0
    BY <1>3, <1>4, FS_EmptySet
  <1>6. QED
    BY <1>1, <1>2, <1>3, <1>5

\* A step counts for the active query only, and as its label says.
LEMMA StepCounts ==
  ASSUME TypeInv, NEW w \in Workers, Step(w)
  PROVE  IF scope[w] = active THEN CountsMove(w) ELSE counts' = counts
  <1>0. /\ counts \in QueryCounts /\ TaskTypeOK /\ Domains
        /\ chunk[w] \in Chunks \cup {<< >>}
        /\ Weighed \subseteq CountFields
    BY BatchCounted
       DEF TypeInv, RuntimeTypeOK, LocalTypes, Domains, Weighed, CountFields
  <1>1. CASE RecordInput(w) \/ RecordRows(w)
    <2> DEFINE c == chunk[w]
               l == Cardinality(Leads(c))
               j == Cardinality(JudgedRows(c))
               n == Cardinality(NullRows(c))
               k == Len(c)
    <2>1. /\ k \in Nat /\ n \in Nat /\ j \in Nat /\ l \in Nat /\ l <= j
      BY <1>0, RowCardinalities, RowPartition
    <2>2. CASE RecordInput(w)
      <3>1. pc[w] = "input" /\ RecordOptimizedRows(scope[w], k, 0, 0, 0)
        BY <2>2 DEF RecordInput
      <3> HIDE DEF k
      <3>2. /\ active # scope[w] => counts' = counts
            /\ active = scope[w] =>
                 /\ counts'.input_rows = counts.input_rows + k
                 /\ counts'.null_rows = counts.null_rows + 0
                 /\ counts'.valid_rows = counts.valid_rows + 0
                 /\ counts'.deduplicated_rows = counts.deduplicated_rows
                      + (IF 0 > 0 THEN 0 - 0 ELSE 0)
                 /\ \A f \in CountFields \ {"input_rows", "null_rows",
                                            "valid_rows", "deduplicated_rows"} :
                      counts'[f] = counts[f]
        BY <1>0, <2>1, <3>1, OptimizedCounts
      <3>3. /\ counts.null_rows \in Nat /\ counts.valid_rows \in Nat
            /\ counts.deduplicated_rows \in Nat
        BY <1>0 DEF QueryCounts, CountFields
      <3>4. active = scope[w] => KeepsAllBut({"input_rows"})
        BY <3>2, <3>3 DEF KeepsAllBut, Weighed, CountFields
      <3>5. QED
        BY <3>1, <3>2, <3>4 DEF CountsMove, k
    <2>3. CASE RecordRows(w)
      <3>1. pc[w] = "rows" /\ RecordOptimizedRows(scope[w], 0, n, j, l)
        BY <2>3 DEF RecordRows
      <3> HIDE DEF l, j, n
      <3>2. /\ active # scope[w] => counts' = counts
            /\ active = scope[w] =>
                 /\ counts'.input_rows = counts.input_rows + 0
                 /\ counts'.null_rows = counts.null_rows + n
                 /\ counts'.valid_rows = counts.valid_rows + j
                 /\ counts'.deduplicated_rows = counts.deduplicated_rows
                      + (IF j > l THEN j - l ELSE 0)
                 /\ \A f \in CountFields \ {"input_rows", "null_rows",
                                            "valid_rows", "deduplicated_rows"} :
                      counts'[f] = counts[f]
        BY <1>0, <2>1, <3>1, OptimizedCounts
      <3>3. (IF j > l THEN j - l ELSE 0) = j - l
        BY <2>1
      <3>4. counts.input_rows \in Nat
        BY <1>0 DEF QueryCounts, CountFields
      <3>5. active = scope[w] =>
              KeepsAllBut({"null_rows", "valid_rows", "deduplicated_rows"})
        BY <3>2, <3>4 DEF KeepsAllBut, Weighed, CountFields
      <3>6. QED
        BY <3>1, <3>2, <3>3, <3>5 DEF CountsMove, l, j, n
    <2>4. QED
      BY <1>1, <2>2, <2>3
  <1>2. CASE Claim(w)
    <2>1. CASE Fail(w) /\ UNCHANGED counts
      <3>1. pc[w] = "claim" /\ pc'[w] = "failed"
        BY <1>0, <1>2, <2>1, FailMoves DEF Claim
      <3>2. QED
        BY <2>1, <3>1 DEF CountsMove, KeepsAllBut
    <2>2. CASE ~(Fail(w) /\ UNCHANGED counts)
      <3>1. /\ pc[w] = "claim" /\ scope[w] = active
            /\ \/ JoinEntry /\ pc'[w] = "join_flag"
               \/ (\E id : NewEntry(id)) /\ pc'[w] = "flag"
        BY <1>0, <1>2, <2>2 DEF Claim, StillActive, Goto, Domains
      <3>2. \/ /\ pc'[w] = "join_flag"
               /\ counts' = [counts EXCEPT !.deduplicated_rows = @ + 1]
            \/ /\ pc'[w] = "flag"
               /\ counts' = [counts EXCEPT !.unique_judgments = @ + 1]
        BY <1>0, <3>1, ClaimCounts
      <3>3. QED
        BY <1>0, <3>1, <3>2
           DEF CountsMove, KeepsAllBut, Weighed, QueryCounts, CountFields
    <2>3. QED
      BY <2>1, <2>2
  <1>3. CASE Hit(w)
    <2>1. pc[w] = "hit" /\ RecordCacheHit(scope[w])
      BY <1>3 DEF Hit
    <2>2. counts' = IF active = scope[w]
                    THEN [counts EXCEPT !.cache_hit_judgments = @ + 1]
                    ELSE counts
      BY <1>0, <2>1, OneCounts
    <2>3. QED
      BY <1>0, <2>1, <2>2
         DEF CountsMove, KeepsAllBut, Weighed, QueryCounts, CountFields
  <1>4. CASE Attempt(w)
    <2> DEFINE n == Cardinality(batch[w])
    <2>1. /\ pc[w] = "attempt" /\ RecordProviderAttempt(scope[w], n)
          /\ n \in Nat
      BY <1>4, BatchCounted DEF Attempt
    <2> HIDE DEF n
    <2>2. /\ active # scope[w] => counts' = counts
          /\ active = scope[w] =>
               /\ counts'.external_requests = counts.external_requests
                                              + (IF External THEN 1 ELSE 0)
               /\ counts'.batch_size_sum = counts.batch_size_sum
                                           + (IF External THEN n ELSE 0)
               /\ counts'.batched_requests
                    = counts.batched_requests
                      + (IF External /\ n > 1 THEN 1 ELSE 0)
               /\ \A f \in CountFields \ {"provider_invocations",
                                          "external_requests", "batch_size_sum",
                                          "batched_requests"} :
                    counts'[f] = counts[f]
      BY <1>0, <2>1, AttemptCounts
    <2>3. active = scope[w] =>
            KeepsAllBut({"external_requests", "batch_size_sum",
                         "batched_requests"})
      BY <2>2 DEF KeepsAllBut, Weighed, CountFields
    <2>4. QED
      BY <2>1, <2>2, <2>3 DEF CountsMove, n
  <1>5. CASE Response(w) \/ ProviderFailure(w)
    <2>1. pc[w] \in {"response", "provider_failure"}
      BY <1>5 DEF Response, ProviderFailure
    <2>2. CASE Response(w)
      <3>1. RecordProviderResponse(scope[w], reply[w].usage = "usage")
        BY <2>2 DEF Response
      <3> DEFINE u == reply[w].usage = "usage"
      <3>2. u \in BOOLEAN /\ RecordProviderResponse(scope[w], u)
        BY <3>1
      <3> HIDE DEF u
      <3>3. /\ active # scope[w] \/ ~External => counts' = counts
            /\ active = scope[w] /\ External =>
                 \A f \in CountFields \ {"usage_response_count", "tokens",
                                         "usage_missing_count"} :
                   counts'[f] = counts[f]
        BY <1>0, <3>2, ResponseCounts
      <3>4. QED
        BY <2>1, <3>3 DEF CountsMove, KeepsAllBut, Weighed, CountFields
    <2>3. CASE ProviderFailure(w)
      <3>1. counts' = IF active = scope[w] /\ External
                      THEN [counts EXCEPT !.usage_missing_count = @ + 1]
                      ELSE counts
        BY <1>0, <2>3, OneCounts DEF ProviderFailure
      <3>2. QED
        BY <1>0, <2>1, <3>1
           DEF CountsMove, KeepsAllBut, Weighed, QueryCounts, CountFields
    <2>4. QED
      BY <1>5, <2>2, <2>3
  <1>6. CASE FailedRequest(w)
    <2>1. /\ pc[w] = "failed_request" /\ RecordFailedRequest(scope[w])
          /\ pc'[w] \in {"provider_failure", "fail_leaders"}
      BY <1>0, <1>6 DEF FailedRequest, Goto, Domains
    <2>2. counts' = IF active = scope[w]
                    THEN [counts EXCEPT !.failed_requests = @ + 1]
                    ELSE counts
      BY <1>0, <2>1, OneCounts
    <2>3. QED
      BY <1>0, <2>1, <2>2
         DEF CountsMove, KeepsAllBut, Weighed, QueryCounts, CountFields
  <1>7. CASE FetchFlag(w) \/ Lookup(w) \/ HitComplete(w) \/ Plan(w)
               \/ Acquire(w) \/ Call(w) \/ Release(w) \/ Insert(w)
               \/ Settle(w) \/ FailBatch(w) \/ Wait(w)
    <2>1. /\ counts' = counts
          /\ pc[w] \notin {"input", "rows", "claim", "hit", "attempt",
                           "failed_request"}
      BY <1>7 DEF FetchFlag, Lookup, HitComplete, Plan, Acquire, Call, Release,
                  Insert, Settle, FailBatch, Wait, runtimeVars
    <2>2. QED
      BY <2>1 DEF CountsMove, KeepsAllBut
  <1>8. QED
    BY <1>1, <1>2, <1>3, <1>4, <1>5, <1>6, <1>7 DEF Step

\* What a thread has ahead of it is finite, also after a step.
LEMMA AheadFinite ==
  ASSUME TypeInv, TypeInv', NEW w \in Workers, chunk' = chunk
  PROVE  /\ IsFiniteSet(Rows(w)) /\ IsFiniteSet(Rows(w)')
         /\ IsFiniteSet(Groups(w)) /\ IsFiniteSet(Groups(w)')
         /\ IsFiniteSet(Unasked(w)) /\ IsFiniteSet(Unasked(w)')
  <1>1. /\ chunk[w] \in Chunks \cup {<< >>}
        /\ IsFiniteSet(Leads(chunk[w]))
        /\ todo[w] \subseteq Leads(chunk[w]) /\ batch[w] \subseteq Leads(chunk[w])
    BY BatchCounted
  <1>2. todo'[w] \subseteq Leads(chunk[w]) /\ batch'[w] \subseteq Leads(chunk[w])
    <2>1. SendShape(w)' /\ ClaimShape(w)'
      BY DEF TypeInv, Shaped
    <2>2. QED
      BY <2>1 DEF SendShape, ClaimShape
  <1>3. IsFiniteSet(DOMAIN chunk[w])
    BY <1>1, RowPartition
  <1>4. /\ Rows(w) \in SUBSET DOMAIN chunk[w]
        /\ Rows(w)' \in SUBSET DOMAIN chunk[w]
        /\ Groups(w) \in SUBSET Leads(chunk[w])
        /\ Groups(w)' \in SUBSET Leads(chunk[w])
    BY DEF Rows, Groups
  <1>5. \A p : IsFiniteSet(Leads(chunk[w]) \cup {p})
    BY <1>1, FS_AddElement
  <1>6. /\ Unasked(w) \in SUBSET (Leads(chunk[w]) \cup {pos[w]})
        /\ Unasked(w)' \in SUBSET (Leads(chunk[w]) \cup {pos'[w]})
    BY <1>1, <1>2 DEF Unasked
  <1>7. IsFiniteSet(Unasked(w)) /\ IsFiniteSet(Unasked(w)')
    BY <1>5, <1>6, FS_Subset
  <1>8. QED
    BY <1>1, <1>3, <1>4, <1>7, FS_Subset

\* What a step counts is what it takes off the thread's hands.
KeepsBalance(w) ==
  /\ counts'.input_rows + counts.null_rows + counts.valid_rows
       + Cardinality(Rows(w))
     = counts.input_rows + counts'.null_rows + counts'.valid_rows
       + Cardinality(Rows(w)')
  /\ counts'.valid_rows + counts.unique_judgments
       + counts.deduplicated_rows + Cardinality(Groups(w))
     = counts.valid_rows + counts'.unique_judgments
       + counts'.deduplicated_rows + Cardinality(Groups(w)')
  /\ External =>
       counts'.unique_judgments + counts.cache_hit_judgments
         + counts.batch_size_sum + Cardinality(Unasked(w))
       = counts.unique_judgments + counts'.cache_hit_judgments
         + counts'.batch_size_sum + Cardinality(Unasked(w)')

\* So it is where a step counts nothing and moves nothing.
LEMMA QuietBalance ==
  ASSUME TypeInv, NEW w \in Workers, KeepsAllBut({}),
         Rows(w)' = Rows(w), Groups(w)' = Groups(w), Unasked(w)' = Unasked(w)
  PROVE  KeepsBalance(w)
  BY DEF KeepsAllBut, Weighed, KeepsBalance

\* The claiming loop moves on: the groups ahead stay the same.
LEMMA LoopGoesOn ==
  ASSUME TypeInv, NEW w \in Workers, NextClaim(w), scope[w] = active,
         pc[w] \in ClaimLabels \ {"claim"},
         UNCHANGED <<active, scope, chunk>>
  PROVE  /\ Groups(w)' = Groups(w) /\ pc'[w] \in {"plan", "claim"}
         /\ Rows(w)' = Rows(w)
  <1>0. TaskTypeOK /\ Domains /\ pos[w] \in Nat
        /\ Leads(chunk[w]) \subseteq Nat
    BY BatchCounted DEF TypeInv, LocalTypes, Domains
  <1>1. \/ /\ pc'[w] = "plan"
           /\ \A i \in Leads(chunk[w]) : ~(i > pos[w])
        \/ /\ pc'[w] = "claim" /\ pos'[w] \in Leads(chunk[w])
           /\ pos'[w] > pos[w]
           /\ \A i \in Leads(chunk[w]) : i > pos[w] => pos'[w] <= i
    BY <1>0, NextClaimMoves
  <1>2. Groups(w) = {i \in Leads(chunk[w]) : i > pos[w]}
    BY DEF Groups
  <1>3. CASE pc'[w] = "plan"
    <2>1. Groups(w)' = {}
      BY <1>3 DEF Groups, ClaimLabels
    <2>2. \A i \in Leads(chunk[w]) : ~(i > pos[w])
      BY <1>1, <1>3
    <2>3. QED
      BY <1>2, <1>3, <2>1, <2>2 DEF Rows, ClaimLabels
  <1>4. CASE pc'[w] = "claim"
    <2>1. Groups(w)' = {i \in Leads(chunk[w]) : i > pos'[w] \/ i = pos'[w]}
      BY <1>4 DEF Groups, ClaimLabels
    <2>2. /\ pos'[w] \in Leads(chunk[w]) /\ pos'[w] > pos[w]
          /\ \A i \in Leads(chunk[w]) : i > pos[w] => pos'[w] <= i
      BY <1>1, <1>4
    <2>3. \A i \in Leads(chunk[w]) :
            i > pos[w] <=> (i > pos'[w] \/ i = pos'[w])
      BY <1>0, <2>2
    <2>4. QED
      BY <1>2, <1>4, <2>1, <2>3 DEF Rows, ClaimLabels
  <1>5. QED
    BY <1>1, <1>3, <1>4

\* A group that is led has yet to be sent.
LEMMA LeadStaysUnasked ==
  ASSUME TypeInv, NEW w \in Workers, Lead(w), scope[w] = active,
         pc[w] \in {"flag", "lookup"}, UNCHANGED <<active, scope, chunk>>
  PROVE  /\ Groups(w)' = Groups(w) /\ Rows(w)' = Rows(w)
         /\ Unasked(w)' = Unasked(w)
  <1>0. TaskTypeOK /\ Domains
    BY DEF TypeInv, LocalTypes, Domains
  <1>1. NextClaim(w) /\ todo'[w] = todo[w] \cup {pos[w]}
    BY <1>0, LeadMoves
  <1>2. /\ Groups(w)' = Groups(w) /\ pc'[w] \in {"plan", "claim"}
        /\ Rows(w)' = Rows(w)
    BY <1>1, LoopGoesOn DEF ClaimLabels
  <1>3. Unasked(w)' = Unasked(w)
    BY <1>1, <1>2 DEF Unasked
  <1>4. QED
    BY <1>2, <1>3

\* The steps of the claiming loop that count nothing.
LEMMA LoopBalance ==
  ASSUME TypeInv, NEW w \in Workers, scope[w] = active,
         FetchFlag(w) \/ Lookup(w) \/ HitComplete(w), ~Doomed'
  PROVE  KeepsBalance(w)
  <1>0. /\ TaskTypeOK /\ Domains /\ Step(w)
        /\ UNCHANGED <<active, scope, chunk>>
    BY QueryFrame DEF TypeInv, LocalTypes, Domains, Step
  <1>1. KeepsAllBut({})
    BY DEF FetchFlag, Lookup, HitComplete, runtimeVars, KeepsAllBut
  <1>2. pc'[w] # "failed"
    BY <1>0 DEF Doomed, Ours
  <1>3. CASE FetchFlag(w) \/ Lookup(w)
    <2>1. CASE pc[w] # "join_flag" /\ Lead(w)
      <3>1. pc[w] \in {"flag", "lookup"}
        BY <1>3, <2>1 DEF FetchFlag, Lookup
      <3>2. QED
        BY <1>0, <1>1, <2>1, <3>1, LeadStaysUnasked, QuietBalance
    <2>2. CASE pc[w] = "join_flag"
      <3>1. NextClaim(w) /\ todo' = todo /\ batch' = batch
        BY <1>0, <1>2, <1>3, <2>2, FailMoves DEF FetchFlag, Lookup
      <3>2. /\ Groups(w)' = Groups(w) /\ pc'[w] \in {"plan", "claim"}
            /\ Rows(w)' = Rows(w)
        BY <1>0, <2>2, <3>1, LoopGoesOn DEF ClaimLabels
      <3>3. Unasked(w)' = Unasked(w)
        BY <1>0, <2>2, <3>1, <3>2 DEF Unasked
      <3>4. QED
        BY <1>1, <3>2, <3>3, QuietBalance
    <2>3. CASE pc[w] # "join_flag" /\ ~Lead(w)
      <3>1. /\ pc[w] \in {"flag", "lookup"} /\ pc'[w] \in {"lookup", "hit"}
            /\ UNCHANGED <<pos, todo>>
        BY <1>0, <1>2, <1>3, <2>3, FailMoves DEF FetchFlag, Lookup, Goto, Domains
      <3>2. /\ Groups(w)' = Groups(w) /\ Rows(w)' = Rows(w)
            /\ Unasked(w)' = Unasked(w)
        BY <1>0, <3>1 DEF Groups, Rows, Unasked, ClaimLabels
      <3>3. QED
        BY <1>1, <3>2, QuietBalance
    <2>4. QED
      BY <2>1, <2>2, <2>3
  <1>4. CASE HitComplete(w)
    <2>1. NextClaim(w) /\ UNCHANGED <<todo, batch>> /\ pc[w] = "hit_complete"
      BY <1>4 DEF HitComplete
    <2>2. /\ Groups(w)' = Groups(w) /\ pc'[w] \in {"plan", "claim"}
          /\ Rows(w)' = Rows(w)
      BY <1>0, <2>1, LoopGoesOn DEF ClaimLabels
    <2>3. Unasked(w)' = Unasked(w)
      BY <1>0, <2>1, <2>2 DEF Unasked
    <2>4. QED
      BY <1>1, <2>2, <2>3, QuietBalance
  <1>5. QED
    BY <1>3, <1>4

\* The steps of sending, settling and waiting that count nothing a balance
\* is made of.
LEMMA SendBalance ==
  ASSUME TypeInv, NEW w \in Workers, scope[w] = active,
         \/ Plan(w) \/ Acquire(w) \/ Call(w) \/ Response(w) \/ Release(w)
         \/ Insert(w) \/ Settle(w) \/ Wait(w),
         ~Doomed'
  PROVE  KeepsBalance(w)
  <1>0. /\ TaskTypeOK /\ Domains /\ Step(w)
        /\ UNCHANGED <<active, scope, chunk>> /\ SendShape(w)
    BY QueryFrame DEF TypeInv, LocalTypes, Domains, Step, Shaped
  <1>1. KeepsAllBut({})
    <2>1. pc[w] \notin {"input", "rows", "claim", "hit", "attempt",
                        "failed_request"}
      BY DEF Plan, Acquire, Call, Response, Release, Insert, Settle, Wait
    <2>2. QED
      BY <1>0, <2>1, StepCounts DEF CountsMove
  <1>2. pc'[w] \notin {"failed", "fail_leaders", "provider_failure"}
    BY <1>0 DEF Doomed, Ours
  <1>3. ASSUME pc[w] \notin ClaimLabels \cup {"rows", "acquire", "attempt"},
               pc'[w] \notin ClaimLabels \cup {"rows"},
               todo'[w] \cup (IF pc'[w] \in {"acquire", "attempt"}
                              THEN batch'[w] ELSE {}) = todo[w]
        PROVE  KeepsBalance(w)
    <2>1. /\ Groups(w)' = Groups(w) /\ Rows(w)' = Rows(w)
          /\ Unasked(w)' = Unasked(w)
      BY <1>0, <1>3 DEF Groups, Rows, Unasked, ClaimLabels
    <2>2. QED
      BY <1>1, <2>1, QuietBalance
  <1>4. CASE Plan(w)
    <2>1. CASE Follow(w)
      <3>1. /\ pc[w] = "plan" /\ pc'[w] \in {"done", "wait"} /\ todo' = todo
        BY <1>0, <1>4, <2>1 DEF Plan, Follow, Goto, Domains, batchVars, sendVars
      <3>2. QED
        BY <1>3, <3>1 DEF ClaimLabels
    <2>2. CASE Send(w)
      <3>1. /\ pc[w] = "plan" /\ pc'[w] = "acquire"
            /\ batch'[w] = NextBatch(w) /\ todo'[w] = todo[w] \ NextBatch(w)
        BY <1>0, <1>2, <1>4, <2>2 DEF Plan, Send, Goto, Domains
      <3>2. todo'[w] \cup batch'[w] = todo[w]
        <4>1. NextBatch(w) \subseteq todo[w]
          BY NextBatchGroups
        <4>2. QED
          BY <3>1, <4>1
      <3>3. QED
        BY <1>3, <3>1, <3>2 DEF ClaimLabels
    <2>3. CASE TooLarge(w)
      BY <1>0, <1>2, <2>3, FailMoves DEF TooLarge
    <2>4. QED
      BY <1>4, <2>1, <2>2, <2>3 DEF Plan
  <1>5. CASE Acquire(w)
    <2>1. /\ pc[w] = "acquire" /\ pc'[w] = "attempt" /\ UNCHANGED <<todo, batch>>
      BY <1>0, <1>2, <1>5 DEF Acquire, Goto, Domains, batchVars, sendVars
    <2>2. /\ Groups(w)' = Groups(w) /\ Rows(w)' = Rows(w)
          /\ Unasked(w)' = Unasked(w)
      BY <1>0, <2>1 DEF Groups, Rows, Unasked, ClaimLabels
    <2>3. QED
      BY <1>1, <2>2, QuietBalance
  <1>6. CASE Call(w) \/ Response(w) \/ Release(w) \/ Insert(w)
    <2>1. /\ pc[w] \in {"call", "response", "release", "insert"}
          /\ pc'[w] \in {"response", "release", "failed_request", "settle",
                         "insert", "settle_stored"}
          /\ todo' = todo
      BY <1>0, <1>2, <1>6
         DEF Call, Response, Release, Insert, Goto, Domains, batchVars, sendVars
    <2>2. QED
      BY <1>3, <2>1 DEF ClaimLabels
  <1>7. CASE Settle(w)
    <2>1. /\ pc[w] \in {"settle", "settle_stored"}
          /\ pc'[w] \in {"plan", "settle", "insert"}
          /\ todo' = todo
      BY <1>0, <1>7 DEF Settle, Goto, Domains
    <2>2. QED
      BY <1>3, <2>1 DEF ClaimLabels
  <1>8. CASE Wait(w)
    <2>1. ~Fail(w)
      BY <1>0, <1>2, FailMoves
    <2>2. pc[w] = "wait" /\ pc'[w] \in {"done", "wait"} /\ todo' = todo
      BY <1>0, <1>8, <2>1 DEF Wait, Goto, Domains, sendVars
    <2>3. QED
      BY <1>3, <2>2 DEF ClaimLabels
  <1>9. QED
    BY <1>4, <1>5, <1>6, <1>7, <1>8

\* The counts are natural numbers, and stay so.
LEMMA CountsAreNumbers ==
  ASSUME TypeInv, NEW f \in Weighed
  PROVE  counts[f] \in Nat
  BY DEF TypeInv, RuntimeTypeOK, QueryCounts, CountFields, Weighed

\* The rows of a chunk are read, and then classified.
LEMMA RowBalance ==
  ASSUME TypeInv, RowsAreGood, NEW w \in Workers, scope[w] = active,
         RecordInput(w) \/ RecordRows(w), ~Doomed'
  PROVE  KeepsBalance(w)
  <1> DEFINE c == chunk[w]
             l == Cardinality(Leads(c))
             j == Cardinality(JudgedRows(c))
             n == Cardinality(NullRows(c))
             k == Len(c)
  <1>0. /\ TaskTypeOK /\ Domains /\ Step(w)
        /\ UNCHANGED <<active, scope, chunk>> /\ SendShape(w)
        /\ c \in Chunks \cup {<< >>} /\ Leads(c) \subseteq Nat
    BY QueryFrame, BatchCounted DEF TypeInv, LocalTypes, Domains, Step, Shaped
  <1>1. /\ k \in Nat /\ n \in Nat /\ j \in Nat /\ l \in Nat
        /\ Cardinality(DOMAIN c) = k
        /\ pc[w] = "rows" => k = n + j
    <2>1. pc[w] = "rows" => ~HasBadRow(c)
      BY DEF RowsAreGood
    <2>2. QED
      BY <1>0, <2>1, RowCardinalities, RowPartition
  <1>2. CountsMove(w)
    BY <1>0, StepCounts
  <1>3. pc'[w] # "failed"
    BY <1>0 DEF Doomed, Ours
  <1>4. /\ Rows(w) = IF pc[w] = "rows" THEN DOMAIN c ELSE {}
        /\ Rows(w)' = IF pc'[w] = "rows" THEN DOMAIN c ELSE {}
        /\ Groups(w) = {}
        /\ Unasked(w)' = Unasked(w)
    <2>1. /\ pc[w] \in {"input", "rows"} /\ pc'[w] \in {"rows", "done", "claim"}
          /\ UNCHANGED <<todo, batch>>
      BY <1>0, <1>3 DEF RecordInput, RecordRows, Goto, Domains, batchVars,
                        sendVars
    <2>2. QED
      BY <1>0, <2>1 DEF Rows, Groups, Unasked, ClaimLabels
  <1>5. CASE RecordInput(w)
    <2>1. pc[w] = "input" /\ pc'[w] = "rows"
      BY <1>0, <1>3, <1>5 DEF RecordInput, Goto, Domains
    <2>2. Groups(w)' = {}
      BY <2>1 DEF Groups, ClaimLabels
    <2>3. /\ KeepsAllBut({"input_rows"})
          /\ counts'.input_rows = counts.input_rows + k
      BY <1>2, <2>1 DEF CountsMove
    <2>4. Cardinality(Rows(w)) = 0 /\ Cardinality(Rows(w)') = k
      BY <1>1, <1>4, <2>1, NoneCounted
    <2>5. counts.input_rows \in Nat /\ counts.null_rows \in Nat
          /\ counts.valid_rows \in Nat
      BY CountsAreNumbers DEF Weighed
    <2> HIDE DEF k
    <2>6. counts'.input_rows + counts.null_rows + counts.valid_rows
            + Cardinality(Rows(w))
          = counts.input_rows + counts'.null_rows + counts'.valid_rows
            + Cardinality(Rows(w)')
      BY <1>1, <2>3, <2>4, <2>5 DEF KeepsAllBut, Weighed
    <2>7. QED
      BY <1>4, <2>2, <2>3, <2>6 DEF KeepsBalance, KeepsAllBut, Weighed
  <1>6. CASE RecordRows(w)
    <2>1. /\ pc[w] = "rows"
          /\ \/ pc'[w] = "done" /\ Leads(c) = {}
             \/ /\ pc'[w] = "claim" /\ Leads(c) # {}
                /\ pos'[w] = Min(Leads(c))
      BY <1>0, <1>3, <1>6 DEF RecordRows, Goto, Domains
    <2>2. Groups(w)' = Leads(c)
      <3>1. CASE pc'[w] = "done"
        BY <2>1, <3>1 DEF Groups, ClaimLabels
      <3>2. CASE pc'[w] = "claim"
        <4>1. pos'[w] \in Leads(c) /\ \A i \in Leads(c) : pos'[w] <= i
          BY <1>0, <2>1, <3>2, FirstGroup
        <4>2. Groups(w)' = {i \in Leads(c) : i > pos'[w] \/ i = pos'[w]}
          BY <1>0, <3>2 DEF Groups, ClaimLabels
        <4>3. \A i \in Leads(c) : i > pos'[w] \/ i = pos'[w]
          BY <1>0, <4>1
        <4>4. QED
          BY <4>2, <4>3
      <3>3. QED
        BY <2>1, <3>1, <3>2
    <2>3. /\ KeepsAllBut({"null_rows", "valid_rows", "deduplicated_rows"})
          /\ counts'.null_rows = counts.null_rows + n
          /\ counts'.valid_rows = counts.valid_rows + j
          /\ counts'.deduplicated_rows = counts.deduplicated_rows + (j - l)
      BY <1>2, <2>1 DEF CountsMove
    <2>4. /\ Cardinality(Rows(w)) = k /\ Cardinality(Rows(w)') = 0
          /\ Cardinality(Groups(w)) = 0 /\ Cardinality(Groups(w)') = l
      BY <1>1, <1>4, <2>1, <2>2, NoneCounted
    <2>5. /\ counts.input_rows \in Nat /\ counts.null_rows \in Nat
          /\ counts.valid_rows \in Nat /\ counts.deduplicated_rows \in Nat
          /\ counts.unique_judgments \in Nat
      BY CountsAreNumbers DEF Weighed
    <2>6. k = n + j
      BY <1>1, <2>1
    <2> HIDE DEF k, n, j, l
    <2>7. counts'.input_rows + counts.null_rows + counts.valid_rows
            + Cardinality(Rows(w))
          = counts.input_rows + counts'.null_rows + counts'.valid_rows
            + Cardinality(Rows(w)')
      BY <1>1, <2>3, <2>4, <2>5, <2>6 DEF KeepsAllBut, Weighed
    <2>8. counts'.valid_rows + counts.unique_judgments
            + counts.deduplicated_rows + Cardinality(Groups(w))
          = counts.valid_rows + counts'.unique_judgments
            + counts'.deduplicated_rows + Cardinality(Groups(w)')
      BY <1>1, <2>3, <2>4, <2>5 DEF KeepsAllBut, Weighed
    <2>9. QED
      BY <1>4, <2>3, <2>7, <2>8 DEF KeepsBalance, KeepsAllBut, Weighed
  <1>7. QED
    BY <1>5, <1>6

\* A group is claimed: it is the thread's to ask for, or another's.
LEMMA ClaimBalance ==
  ASSUME TypeInv, TypeInv', NEW w \in Workers, scope[w] = active, Claim(w),
         ~Doomed'
  PROVE  KeepsBalance(w)
  <1>0. /\ TaskTypeOK /\ Domains /\ Step(w)
        /\ UNCHANGED <<active, scope, chunk>>
        /\ ClaimShape(w) /\ SendShape(w)
        /\ Leads(chunk[w]) \subseteq Nat /\ pos[w] \in Nat
    BY QueryFrame, BatchCounted DEF TypeInv, LocalTypes, Domains, Step, Shaped
  <1>1. pc'[w] # "failed"
    BY <1>0 DEF Doomed, Ours
  <1>2. /\ pc[w] = "claim" /\ pc'[w] \in {"flag", "join_flag"}
        /\ UNCHANGED <<pos, todo, batch>>
    BY <1>0, <1>1, FailMoves DEF Claim, Goto, Domains, sendVars
  <1>3. /\ IsFiniteSet(Groups(w)) /\ IsFiniteSet(Groups(w)')
        /\ IsFiniteSet(Unasked(w)) /\ IsFiniteSet(Unasked(w)')
    BY <1>0, AheadFinite
  <1> DEFINE g == Cardinality(Groups(w))
             g2 == Cardinality(Groups(w)')
             u == Cardinality(Unasked(w))
             u2 == Cardinality(Unasked(w)')
  <1>4. g \in Nat /\ g2 \in Nat /\ u \in Nat /\ u2 \in Nat
    BY <1>3, FS_CardinalityType
  <1>5. Rows(w)' = Rows(w)
    BY <1>2 DEF Rows
  <1>6. g = g2 + 1
    <2>1. pos[w] \in Leads(chunk[w])
      BY <1>0, <1>2 DEF ClaimShape, ClaimLabels
    <2>2. /\ Groups(w) = {i \in Leads(chunk[w]) : i > pos[w] \/ i = pos[w]}
          /\ Groups(w)' = {i \in Leads(chunk[w]) : i > pos[w]}
      BY <1>0, <1>2 DEF Groups, ClaimLabels
    <2>3. Groups(w) = Groups(w)' \cup {pos[w]} /\ pos[w] \notin Groups(w)'
      BY <1>0, <2>1, <2>2
    <2>4. QED
      BY <1>3, <2>3, FS_AddElement
  <1>7. u2 = IF pc'[w] = "flag" THEN u + 1 ELSE u
    <2>1. pos[w] \notin todo[w]
      <3>1. \A i \in todo[w] : i < pos[w]
        BY <1>0, <1>2 DEF ClaimShape, SendShape, ClaimLabels
      <3>2. QED
        BY <1>0, <3>1
    <2>2. /\ Unasked(w) = todo[w]
          /\ Unasked(w)' = todo[w] \cup (IF pc'[w] = "flag" THEN {pos[w]} ELSE {})
      BY <1>0, <1>2 DEF Unasked
    <2>3. CASE pc'[w] = "flag"
      <3>1. Unasked(w)' = Unasked(w) \cup {pos[w]} /\ pos[w] \notin Unasked(w)
        BY <2>1, <2>2, <2>3
      <3>2. QED
        BY <1>3, <2>3, <3>1, FS_AddElement
    <2>4. CASE pc'[w] # "flag"
      BY <2>2, <2>4
    <2>5. QED
      BY <2>3, <2>4
  <1>8. \/ /\ pc'[w] = "flag" /\ KeepsAllBut({"unique_judgments"})
           /\ counts'.unique_judgments = counts.unique_judgments + 1
        \/ /\ pc'[w] = "join_flag" /\ KeepsAllBut({"deduplicated_rows"})
           /\ counts'.deduplicated_rows = counts.deduplicated_rows + 1
    BY <1>0, <1>2, StepCounts DEF CountsMove
  <1>9. /\ counts.unique_judgments \in Nat /\ counts.deduplicated_rows \in Nat
        /\ counts.valid_rows \in Nat /\ counts.cache_hit_judgments \in Nat
        /\ counts.batch_size_sum \in Nat
    BY CountsAreNumbers DEF Weighed
  <1> HIDE DEF g, g2, u, u2
  <1>10. counts'.valid_rows + counts.unique_judgments
           + counts.deduplicated_rows + g
         = counts.valid_rows + counts'.unique_judgments
           + counts'.deduplicated_rows + g2
    BY <1>4, <1>6, <1>8, <1>9 DEF KeepsAllBut, Weighed
  <1>11. counts'.unique_judgments + counts.cache_hit_judgments
           + counts.batch_size_sum + u
         = counts.unique_judgments + counts'.cache_hit_judgments
           + counts'.batch_size_sum + u2
    BY <1>4, <1>7, <1>8, <1>9 DEF KeepsAllBut, Weighed
  <1>12. counts'.input_rows = counts.input_rows
         /\ counts'.null_rows = counts.null_rows
         /\ counts'.valid_rows = counts.valid_rows
    BY <1>8 DEF KeepsAllBut, Weighed
  <1>13. QED
    BY <1>5, <1>10, <1>11, <1>12 DEF KeepsBalance, g, g2, u, u2

\* A judgment is found in the cache, or a batch of them is sent.
LEMMA AskedBalance ==
  ASSUME TypeInv, TypeInv', NEW w \in Workers, scope[w] = active,
         Hit(w) \/ Attempt(w)
  PROVE  KeepsBalance(w)
  <1>0. /\ TaskTypeOK /\ Domains /\ Step(w)
        /\ UNCHANGED <<active, scope, chunk>>
        /\ ClaimShape(w) /\ SendShape(w) /\ pos[w] \in Nat
    BY QueryFrame DEF TypeInv, LocalTypes, Domains, Step, Shaped
  <1>1. IsFiniteSet(Unasked(w)) /\ IsFiniteSet(Unasked(w)')
    BY <1>0, AheadFinite
  <1> DEFINE u == Cardinality(Unasked(w))
             u2 == Cardinality(Unasked(w)')
             n == Cardinality(batch[w])
  <1>2. u \in Nat /\ u2 \in Nat /\ n \in Nat
    BY <1>1, BatchCounted, FS_CardinalityType
  <1>3. /\ \/ pc[w] = "hit" /\ pc'[w] = "hit_complete"
           \/ pc[w] = "attempt" /\ pc'[w] = "call"
        /\ UNCHANGED <<pos, todo, batch>>
    BY <1>0 DEF Hit, Attempt, Goto, Domains, batchVars, claimVars, sendVars
  <1>4. Rows(w)' = Rows(w) /\ Groups(w)' = Groups(w)
    BY <1>0, <1>3 DEF Rows, Groups, ClaimLabels
  <1>5. CASE pc[w] = "hit"
    <2>1. pos[w] \notin todo[w]
      <3>1. \A i \in todo[w] : i < pos[w]
        BY <1>0, <1>5 DEF ClaimShape, SendShape, ClaimLabels
      <3>2. QED
        BY <1>0, <3>1
    <2>2. Unasked(w) = todo[w] \cup {pos[w]} /\ Unasked(w)' = todo[w]
      BY <1>0, <1>3, <1>5 DEF Unasked
    <2>3. u = u2 + 1
      <3>1. Unasked(w) = Unasked(w)' \cup {pos[w]} /\ pos[w] \notin Unasked(w)'
        BY <2>1, <2>2
      <3>2. QED
        BY <1>1, <3>1, FS_AddElement
    <2>4. /\ KeepsAllBut({"cache_hit_judgments"})
          /\ counts'.cache_hit_judgments = counts.cache_hit_judgments + 1
      BY <1>0, <1>5, StepCounts DEF CountsMove
    <2>5. /\ counts.unique_judgments \in Nat
          /\ counts.cache_hit_judgments \in Nat /\ counts.batch_size_sum \in Nat
      BY CountsAreNumbers DEF Weighed
    <2> HIDE DEF u, u2
    <2>6. counts'.unique_judgments + counts.cache_hit_judgments
            + counts.batch_size_sum + u
          = counts.unique_judgments + counts'.cache_hit_judgments
            + counts'.batch_size_sum + u2
      BY <1>2, <2>3, <2>4, <2>5 DEF KeepsAllBut, Weighed
    <2>7. QED
      BY <1>4, <2>4, <2>6 DEF KeepsBalance, KeepsAllBut, Weighed, u, u2
  <1>6. CASE pc[w] = "attempt"
    <2>1. Unasked(w) = todo[w] \cup batch[w] /\ Unasked(w)' = todo[w]
      BY <1>0, <1>3, <1>6 DEF Unasked
    <2>2. u = u2 + n
      <3>1. /\ todo[w] \cap batch[w] = {}
            /\ IsFiniteSet(todo[w]) /\ IsFiniteSet(batch[w])
        BY <1>0, <1>1, <2>1, BatchCounted DEF SendShape
      <3>2. Cardinality(todo[w] \cup batch[w])
              = Cardinality(todo[w]) + n - Cardinality(todo[w] \cap batch[w])
        BY <3>1, FS_Union
      <3>3. Cardinality(todo[w] \cap batch[w]) = 0
        BY <3>1, NoneCounted
      <3>4. u = Cardinality(todo[w] \cup batch[w]) /\ u2 = Cardinality(todo[w])
        BY <2>1
      <3> HIDE DEF u, u2, n
      <3>5. QED
        BY <1>2, <3>2, <3>3, <3>4
    <2>3. /\ KeepsAllBut({"external_requests", "batch_size_sum",
                          "batched_requests"})
          /\ counts'.batch_size_sum
               = counts.batch_size_sum + (IF External THEN n ELSE 0)
      BY <1>0, <1>6, StepCounts DEF CountsMove
    <2>4. /\ counts.unique_judgments \in Nat
          /\ counts.cache_hit_judgments \in Nat /\ counts.batch_size_sum \in Nat
      BY CountsAreNumbers DEF Weighed
    <2> HIDE DEF u, u2, n
    <2>5. External =>
            counts'.unique_judgments + counts.cache_hit_judgments
              + counts.batch_size_sum + u
            = counts.unique_judgments + counts'.cache_hit_judgments
              + counts'.batch_size_sum + u2
      BY <1>2, <2>2, <2>3, <2>4 DEF KeepsAllBut, Weighed
    <2>6. QED
      BY <1>4, <2>3, <2>5 DEF KeepsBalance, KeepsAllBut, Weighed, u, u2
  <1>7. QED
    BY <1>3, <1>5, <1>6

\* A step counts what it takes off its thread's hands, unless it dooms it.
LEMMA OwnBalance ==
  ASSUME TypeInv, RowsAreGood, NEW w \in Workers, Step(w), scope[w] = active,
         ~Doomed'
  PROVE  KeepsBalance(w)
  <1>1. TypeInv'
    BY ThreadTypes
  <1>2. ~(FailedRequest(w) \/ ProviderFailure(w) \/ FailBatch(w))
    <2>1. Domains
      BY DEF TypeInv, LocalTypes, Domains
    <2>2. pc'[w] \notin {"failed", "fail_leaders", "provider_failure"}
      BY QueryFrame DEF Doomed, Ours
    <2>3. QED
      BY <2>1, <2>2, FailMoves
         DEF FailedRequest, ProviderFailure, FailBatch, Goto, Domains
  <1>3. QED
    BY <1>1, <1>2, RowBalance, ClaimBalance, LoopBalance, AskedBalance,
       SendBalance DEF Step

-----------------------------------------------------------------------------
(* The balance of all threads.                                             *)

\* A thread bound to fail its statement stays so: only the end of the query
\* lets go of it.
LEMMA DoomStays ==
  ASSUME TypeInv, Doomed, NEW w \in Workers, Start(w) \/ Step(w)
  PROVE  Doomed'
  <1>0. TaskTypeOK /\ Domains
    BY DEF TypeInv, LocalTypes, Domains
  <1>1. PICK d \in Workers :
          /\ scope[d] = active
          /\ pc[d] \in {"failed", "fail_leaders", "provider_failure"}
    BY DEF Doomed, Ours
  <1>2. active' = active
    BY QueryFrame DEF Start, queryVars
  <1>3. CASE d # w
    BY <1>1, <1>2, <1>3, ThreadTypes DEF Untouched, Doomed, Ours
  <1>4. CASE d = w /\ Start(w)
    BY <1>1, <1>4 DEF Start, CanStart, Running, Resting, QueryScope
  <1>5. CASE d = w /\ Step(w)
    <2>1. scope'[d] = active'
      BY <1>1, <1>5, QueryFrame
    <2>2. pc'[d] \in {"failed", "fail_leaders"}
      <3>1. FailBatch(w) \/ ProviderFailure(w)
        BY <1>1, <1>5
           DEF Step, RecordInput, RecordRows, Claim, FetchFlag, Lookup, Hit,
               HitComplete, Plan, Acquire, Attempt, Call, Response, Release,
               Insert, Settle, FailedRequest, Wait
      <3>2. QED
        BY <1>0, <1>5, <3>1, FailMoves DEF FailBatch, ProviderFailure, Goto,
                                           Domains
    <2>3. QED
      BY <2>1, <2>2 DEF Doomed, Ours
  <1>6. QED
    BY <1>3, <1>4, <1>5

\* A thread's step keeps rows, groups and judgments accounted for.
LEMMA StepBalances ==
  ASSUME TypeInv, BalanceInv, NEW w \in Workers, Step(w), ~Doomed'
  PROVE  Balanced'
  <1>0. Balanced /\ RowsAreGood /\ TypeInv' /\ IsFiniteSet(Workers)
    BY DoomStays, ThreadTypes, ThreadAssumption DEF BalanceInv
  <1>1. UNCHANGED <<active, scope, chunk>>
    BY QueryFrame
  <1>2. \A v \in Workers : v # w =>
          /\ Rows(v)' = Rows(v) /\ Groups(v)' = Groups(v)
          /\ Unasked(v)' = Unasked(v)
    <2>1. SUFFICES ASSUME NEW v \in Workers, v # w
                   PROVE  /\ Rows(v)' = Rows(v) /\ Groups(v)' = Groups(v)
                          /\ Unasked(v)' = Unasked(v)
      OBVIOUS
    <2>2. Untouched(v)
      BY <2>1, ThreadTypes
    <2>3. QED
      BY <1>1, <2>2 DEF Untouched, Rows, Groups, Unasked
  <1> DEFINE F == RowsAhead
             F2 == RowsAhead'
             G == GroupsAhead
             G2 == GroupsAhead'
             U == AskedAhead
             U2 == AskedAhead'
             r == Total(F, Workers)
             r2 == Total(F2, Workers)
             g == Total(G, Workers)
             g2 == Total(G2, Workers)
             u == Total(U, Workers)
             u2 == Total(U2, Workers)
  <1>3. \A v \in Workers :
          /\ F[v] = Cardinality(Rows(v)) /\ F2[v] = Cardinality(Rows(v)')
          /\ G[v] = Cardinality(Groups(v)) /\ G2[v] = Cardinality(Groups(v)')
          /\ U[v] = Cardinality(Unasked(v)) /\ U2[v] = Cardinality(Unasked(v)')
    BY DEF RowsAhead, GroupsAhead, AskedAhead
  <1>4. \A v \in Workers :
          /\ IsFiniteSet(Rows(v)) /\ IsFiniteSet(Rows(v)')
          /\ IsFiniteSet(Groups(v)) /\ IsFiniteSet(Groups(v)')
          /\ IsFiniteSet(Unasked(v)) /\ IsFiniteSet(Unasked(v)')
    BY <1>0, <1>1, AheadFinite
  <1> HIDE DEF F, F2, G, G2, U, U2
  <1>5. \A v \in Workers :
          /\ F[v] \in Nat /\ F2[v] \in Nat /\ G[v] \in Nat /\ G2[v] \in Nat
          /\ U[v] \in Nat /\ U2[v] \in Nat
          /\ v # w => F2[v] = F[v] /\ G2[v] = G[v] /\ U2[v] = U[v]
    BY <1>2, <1>3, <1>4, FS_CardinalityType
  <1>6. /\ r \in Nat /\ r2 \in Nat /\ r2 + F[w] = r + F2[w]
        /\ g \in Nat /\ g2 \in Nat /\ g2 + G[w] = g + G2[w]
        /\ u \in Nat /\ u2 \in Nat /\ u2 + U[w] = u + U2[w]
    BY <1>0, <1>5, TotalExchange
  <1>7. /\ counts.input_rows = counts.null_rows + counts.valid_rows + r
        /\ counts.valid_rows = counts.unique_judgments
                               + counts.deduplicated_rows + g
        /\ External => counts.unique_judgments = counts.cache_hit_judgments
                                                 + counts.batch_size_sum + u
    BY <1>0 DEF Balanced, RowsCounted, GroupsCounted, JudgmentsCounted, F, G, U
  <1>8. /\ counts'.input_rows = counts'.null_rows + counts'.valid_rows + r2
        /\ counts'.valid_rows = counts'.unique_judgments
                                + counts'.deduplicated_rows + g2
        /\ External => counts'.unique_judgments = counts'.cache_hit_judgments
                                                  + counts'.batch_size_sum + u2
        => Balanced'
    BY DEF Balanced, RowsCounted, GroupsCounted, JudgmentsCounted, F2, G2, U2
  <1>9. \A f \in Weighed : counts[f] \in Nat /\ counts'[f] \in Nat
    BY <1>0, CountsAreNumbers
       DEF TypeInv, RuntimeTypeOK, QueryCounts, CountFields, Weighed
  <1>10. /\ counts.input_rows \in Nat /\ counts'.input_rows \in Nat
         /\ counts.null_rows \in Nat /\ counts'.null_rows \in Nat
         /\ counts.valid_rows \in Nat /\ counts'.valid_rows \in Nat
         /\ counts.deduplicated_rows \in Nat
         /\ counts'.deduplicated_rows \in Nat
         /\ counts.unique_judgments \in Nat /\ counts'.unique_judgments \in Nat
         /\ counts.cache_hit_judgments \in Nat
         /\ counts'.cache_hit_judgments \in Nat
         /\ counts.batch_size_sum \in Nat /\ counts'.batch_size_sum \in Nat
    BY <1>9 DEF Weighed
  <1>11. CASE scope[w] # active
    <2>1. /\ Rows(w) = {} /\ Rows(w)' = {} /\ Groups(w) = {}
          /\ Groups(w)' = {} /\ Unasked(w) = {} /\ Unasked(w)' = {}
      BY <1>1, <1>11 DEF Rows, Groups, Unasked
    <2>2. /\ F[w] = 0 /\ F2[w] = 0 /\ G[w] = 0 /\ G2[w] = 0
          /\ U[w] = 0 /\ U2[w] = 0
      BY <1>3, <2>1, NoneCounted
    <2>3. counts' = counts
      BY <1>11, StepCounts
    <2> HIDE DEF r, r2, g, g2, u, u2
    <2>4. r2 = r /\ g2 = g /\ u2 = u
      BY <1>6, <2>2
    <2>5. QED
      BY <1>7, <1>8, <2>3, <2>4
  <1>12. CASE scope[w] = active
    <2>1. KeepsBalance(w)
      BY <1>0, <1>12, OwnBalance
    <2>2. /\ counts'.input_rows + counts.null_rows + counts.valid_rows + F[w]
               = counts.input_rows + counts'.null_rows + counts'.valid_rows
                 + F2[w]
          /\ counts'.valid_rows + counts.unique_judgments
               + counts.deduplicated_rows + G[w]
               = counts.valid_rows + counts'.unique_judgments
                 + counts'.deduplicated_rows + G2[w]
          /\ External =>
               counts'.unique_judgments + counts.cache_hit_judgments
                 + counts.batch_size_sum + U[w]
               = counts.unique_judgments + counts'.cache_hit_judgments
                 + counts'.batch_size_sum + U2[w]
      BY <1>3, <2>1 DEF KeepsBalance
    <2>3. /\ F[w] \in Nat /\ F2[w] \in Nat /\ G[w] \in Nat /\ G2[w] \in Nat
          /\ U[w] \in Nat /\ U2[w] \in Nat
      BY <1>5
    <2> HIDE DEF r, r2, g, g2, u, u2
    <2>4. counts'.input_rows = counts'.null_rows + counts'.valid_rows + r2
      BY <1>6, <1>7, <1>10, <2>2, <2>3, Carried
    <2>5. counts'.valid_rows = counts'.unique_judgments
                               + counts'.deduplicated_rows + g2
      BY <1>6, <1>7, <1>10, <2>2, <2>3, Carried
    <2>6. External =>
            counts'.unique_judgments = counts'.cache_hit_judgments
                                       + counts'.batch_size_sum + u2
      <3> SUFFICES ASSUME External
                   PROVE  counts'.unique_judgments
                            = counts'.cache_hit_judgments
                              + counts'.batch_size_sum + u2
        OBVIOUS
      <3>1. /\ counts.unique_judgments = counts.cache_hit_judgments
                                           + counts.batch_size_sum + u
            /\ counts'.unique_judgments + counts.cache_hit_judgments
                 + counts.batch_size_sum + U[w]
               = counts.unique_judgments + counts'.cache_hit_judgments
                 + counts'.batch_size_sum + U2[w]
            /\ u2 + U[w] = u + U2[w]
        BY <1>6, <1>7, <2>2
      <3>2. QED
        BY <1>6, <1>10, <2>3, <3>1, Carried
    <2>7. QED
      BY <1>8, <2>4, <2>5, <2>6
  <1>13. QED
    BY <1>11, <1>12

\* A request is counted with at least one judgment, a batched one with at
\* least two, and one that fails dooms the thread that sent it.
LEMMA RequestBalance ==
  ASSUME TypeInv, BalanceInv, NEW w \in Workers, Step(w)
  PROVE  RequestsWeigh' /\ FailuresDoom'
  <1>0. /\ RequestsWeigh /\ FailuresDoom /\ Cardinality(batch[w]) \in Nat
        /\ counts.failed_requests \in Nat /\ counts.batch_size_sum \in Nat
        /\ counts.external_requests \in Nat /\ counts.batched_requests \in Nat
    BY BatchCounted, CountsAreNumbers DEF BalanceInv, Weighed
  <1>1. CASE scope[w] # active
    <2>1. counts' = counts
      BY <1>1, StepCounts
    <2>2. QED
      BY <1>0, <2>1, DoomStays DEF RequestsWeigh, FailuresDoom
  <1>2. CASE scope[w] = active
    <2>1. CountsMove(w) /\ UNCHANGED <<active, scope>>
      BY <1>2, StepCounts, QueryFrame
    <2>2. CASE pc[w] = "failed_request"
      <3>1. /\ KeepsAllBut({"failed_requests"})
            /\ pc'[w] \in {"provider_failure", "fail_leaders"}
        BY <2>1, <2>2 DEF CountsMove
      <3>2. Doomed'
        BY <1>2, <2>1, <3>1 DEF Doomed, Ours
      <3>3. QED
        BY <1>0, <3>1, <3>2
           DEF RequestsWeigh, FailuresDoom, KeepsAllBut, Weighed
    <2>3. CASE pc[w] = "attempt"
      <3> DEFINE n == Cardinality(batch[w])
      <3>1. n > 0
        BY <2>3, BatchCounted DEF SendLabels
      <3>2. /\ counts'.failed_requests = counts.failed_requests
            /\ counts'.external_requests
                 = counts.external_requests + (IF External THEN 1 ELSE 0)
            /\ counts'.batch_size_sum
                 = counts.batch_size_sum + (IF External THEN n ELSE 0)
            /\ counts'.batched_requests
                 = counts.batched_requests
                   + (IF External /\ n > 1 THEN 1 ELSE 0)
        BY <2>1, <2>3 DEF CountsMove, KeepsAllBut, Weighed
      <3> HIDE DEF n
      <3>3. n \in Nat
        BY <1>0 DEF n
      <3>4. RequestsWeigh'
        BY <1>0, <3>1, <3>2, <3>3 DEF RequestsWeigh
      <3>5. QED
        BY <1>0, <3>2, <3>4, DoomStays DEF FailuresDoom
    <2>4. CASE pc[w] \notin {"failed_request", "attempt"}
      <3>1. /\ counts'.failed_requests = counts.failed_requests
            /\ counts'.external_requests = counts.external_requests
            /\ counts'.batch_size_sum = counts.batch_size_sum
            /\ counts'.batched_requests = counts.batched_requests
        BY <2>1, <2>4 DEF CountsMove, KeepsAllBut, Weighed
      <3>2. QED
        BY <1>0, <3>1, DoomStays DEF RequestsWeigh, FailuresDoom
    <2>5. QED
      BY <2>2, <2>3, <2>4
  <1>3. QED
    BY <1>1, <1>2

\* No thread of the active query at work, nothing ahead.
LEMMA NothingAhead ==
  ASSUME TypeInv,
         \A w \in Workers : scope[w] = active => pc[w] \in Resting \cup {"input"}
  PROVE  /\ Total(RowsAhead, Workers) = 0 /\ Total(GroupsAhead, Workers) = 0
         /\ Total(AskedAhead, Workers) = 0
  <1>1. ASSUME NEW w \in Workers
        PROVE  Rows(w) = {} /\ Groups(w) = {} /\ Unasked(w) = {}
    <2>1. SendShape(w)
      BY DEF TypeInv, Shaped
    <2>2. QED
      BY <2>1 DEF Rows, Groups, Unasked, SendShape, ClaimLabels, SendLabels,
                  Resting
  <1>2. \A w \in Workers :
          RowsAhead[w] = 0 /\ GroupsAhead[w] = 0 /\ AskedAhead[w] = 0
    BY <1>1, NoneCounted DEF RowsAhead, GroupsAhead, AskedAhead
  <1>3. QED
    BY <1>2, ThreadAssumption, TotalNothing

\* With nothing counted and nothing ahead the balance is even.
LEMMA NothingBalances ==
  ASSUME TypeInv, counts = ZeroCounts,
         \A w \in Workers : scope[w] = active => pc[w] \in Resting \cup {"input"}
  PROVE  Balanced /\ RequestsWeigh /\ FailuresDoom
  BY NothingAhead
     DEF Balanced, RowsCounted, GroupsCounted, JudgmentsCounted, RequestsWeigh,
         FailuresDoom, ZeroCounts, CountFields

\* A step that leaves alone what a balance is made of.
LEMMA BalanceFrame ==
  ASSUME BalanceInv, UNCHANGED <<counts, active>>, Doomed => Doomed',
         \A v \in Workers : /\ Rows(v)' = Rows(v) /\ Groups(v)' = Groups(v)
                            /\ Unasked(v)' = Unasked(v)
  PROVE  RequestsWeigh' /\ FailuresDoom' /\ (~Doomed' => Balanced')
  <1>1. /\ RowsAhead' = RowsAhead /\ GroupsAhead' = GroupsAhead
        /\ AskedAhead' = AskedAhead
    BY DEF RowsAhead, GroupsAhead, AskedAhead
  <1>2. RequestsWeigh' /\ FailuresDoom'
    BY DEF BalanceInv, RequestsWeigh, FailuresDoom
  <1>3. Balanced => Balanced'
    BY <1>1 DEF Balanced, RowsCounted, GroupsCounted, JudgmentsCounted
  <1>4. QED
    BY <1>2, <1>3 DEF BalanceInv

\* The host's callbacks and a chunk's start keep the balance.
LEMMA HostBalances ==
  ASSUME TypeInv, TypeInv', QueriesInOrder, BalanceInv,
         \/ Begin \/ End \/ CacheClear \/ Closed \/ UNCHANGED vars
         \/ \E w \in Workers : Start(w)
  PROVE  RequestsWeigh' /\ FailuresDoom' /\ (~Doomed' => Balanced')
  <1>0. nextQuery \in Nat /\ \A v \in Workers : scope[v] \in Nat
    BY TaskTypes DEF TypeInv, RuntimeTypeOK
  <1>1. CASE Begin \/ End
    <2>1. /\ counts' = ZeroCounts /\ UNCHANGED scope
          /\ active' = nextQuery \/ active' = NoQuery
      BY <1>1 DEF Begin, HostBegin, BeginQuery, End, HostEnd, EndQuery,
                  threadVars, taskVars
    <2>2. \A v \in Workers : scope'[v] # active'
      <3>1. \A v \in Workers : scope[v] < nextQuery
        BY DEF QueriesInOrder
      <3>2. QED
        BY <1>0, <2>1, <3>1, RuntimeAssumption
    <2>3. \A v \in Workers :
            Rows(v)' = {} /\ Groups(v)' = {} /\ Unasked(v)' = {}
      BY <2>2 DEF Rows, Groups, Unasked
    <2> DEFINE F == RowsAhead'
               G == GroupsAhead'
               U == AskedAhead'
    <2>4. \A v \in Workers : F[v] = 0 /\ G[v] = 0 /\ U[v] = 0
      BY <2>3, NoneCounted DEF RowsAhead, GroupsAhead, AskedAhead
    <2> HIDE DEF F, G, U
    <2>5. /\ Total(F, Workers) = 0 /\ Total(G, Workers) = 0
          /\ Total(U, Workers) = 0
      BY <2>4, ThreadAssumption, TotalNothing
    <2>6. QED
      BY <2>1, <2>5
         DEF Balanced, RowsCounted, GroupsCounted, JudgmentsCounted,
             RequestsWeigh, FailuresDoom, ZeroCounts, CountFields, F, G, U
  <1>2. CASE CacheClear \/ Closed \/ UNCHANGED vars
    <2>1. UNCHANGED <<counts, active, pc, scope, chunk, pos, todo, batch>>
      BY <1>2 DEF CacheClear, Closed, vars, runtimeVars, queryVars, threadVars,
                  taskVars, batchVars, claimVars, sendVars
    <2>2. (Doomed => Doomed')
          /\ \A v \in Workers : /\ Rows(v)' = Rows(v) /\ Groups(v)' = Groups(v)
                                /\ Unasked(v)' = Unasked(v)
      BY <2>1 DEF Doomed, Ours, Rows, Groups, Unasked
    <2>3. QED
      BY <2>1, <2>2, BalanceFrame
  <1>3. ASSUME NEW w \in Workers, Start(w)
        PROVE  RequestsWeigh' /\ FailuresDoom' /\ (~Doomed' => Balanced')
    <2>1. UNCHANGED <<counts, active>> /\ Domains
      BY <1>3 DEF Start, queryVars, TypeInv, LocalTypes, Domains
    <2>2. pc[w] \in Resting /\ pc'[w] = "input" /\ todo'[w] = {}
      BY <1>3, <2>1 DEF Start, CanStart, Running, Goto, Reset, Domains
    <2>3. Rows(w)' = Rows(w) /\ Groups(w)' = Groups(w) /\ Unasked(w)' = Unasked(w)
      <3>1. todo[w] = {}
        BY <2>2 DEF TypeInv, Shaped, SendShape, Resting, ClaimLabels, SendLabels
      <3>2. /\ Rows(w) = {} /\ Groups(w) = {} /\ Unasked(w) = {}
        BY <2>2, <3>1 DEF Rows, Groups, Unasked, Resting, ClaimLabels
      <3>3. /\ Rows(w)' = {} /\ Groups(w)' = {} /\ Unasked(w)' = {}
        BY <2>2 DEF Rows, Groups, Unasked, ClaimLabels
      <3>4. QED
        BY <3>2, <3>3
    <2>4. \A v \in Workers : v # w =>
            /\ Rows(v)' = Rows(v) /\ Groups(v)' = Groups(v)
            /\ Unasked(v)' = Unasked(v)
      <3>1. SUFFICES ASSUME NEW v \in Workers, v # w
                     PROVE  /\ Rows(v)' = Rows(v) /\ Groups(v)' = Groups(v)
                            /\ Unasked(v)' = Unasked(v)
        OBVIOUS
      <3>2. Untouched(v)
        BY <1>3, <3>1, ThreadTypes
      <3>3. QED
        BY <2>1, <3>2 DEF Untouched, Rows, Groups, Unasked
    <2>5. QED
      BY <1>3, <2>1, <2>3, <2>4, DoomStays, BalanceFrame
  <1>4. QED
    BY <1>1, <1>2, <1>3

\* Rows are only classified after RecordInput found them good.
LEMMA GoodRowsStep ==
  ASSUME TypeInv, RowsAreGood, [Next]_vars
  PROVE  RowsAreGood'
  <1>1. CASE Begin \/ End \/ CacheClear \/ Closed \/ UNCHANGED vars
    BY <1>1, HostFrame DEF RowsAreGood, threadVars, taskVars
  <1>2. ASSUME NEW w \in Workers, Start(w) \/ Step(w)
        PROVE  RowsAreGood'
    <2>0. Domains
      BY DEF TypeInv, LocalTypes, Domains
    <2>1. \A v \in Workers : v # w => pc'[v] = pc[v] /\ chunk'[v] = chunk[v]
      BY <1>2, ThreadTypes DEF Untouched
    <2>2. pc'[w] = "rows" => ~HasBadRow(chunk'[w])
      <3>1. CASE Start(w)
        BY <2>0, <3>1 DEF Start, Goto, Domains
      <3>2. CASE RecordInput(w)
        BY <2>0, <3>2 DEF RecordInput, Goto, Domains, taskVars
      <3>3. CASE Step(w) /\ ~RecordInput(w)
        <4>1. pc'[w] # "rows"
          <5>1. CASE RecordRows(w) \/ Hit(w) \/ Attempt(w) \/ Call(w)
                       \/ Response(w) \/ Insert(w) \/ Settle(w) \/ Acquire(w)
                       \/ FailedRequest(w) \/ ProviderFailure(w)
            BY <2>0, <5>1
               DEF RecordRows, Hit, Attempt, Call, Response, Insert, Settle,
                   Acquire, FailedRequest, ProviderFailure, Goto, Domains
          <5>2. CASE Release(w)
            BY <2>0, <5>2 DEF Release, Goto, Domains
          <5>3. CASE Fail(w) \/ NextClaim(w)
            BY <2>0, <5>3, FailMoves, NextClaimMoves DEF TypeInv
          <5>4. CASE Claim(w) \/ FetchFlag(w) \/ Lookup(w) \/ HitComplete(w)
                       \/ FailBatch(w) \/ Wait(w)
            BY <2>0, <5>3, <5>4
               DEF Claim, FetchFlag, Lookup, HitComplete, FailBatch, Wait, Lead,
                   Goto, Domains
          <5>5. CASE Plan(w)
            BY <2>0, <5>3, <5>5 DEF Plan, Follow, TooLarge, Send, Goto, Domains
          <5>6. QED
            BY <3>3, <5>1, <5>2, <5>4, <5>5 DEF Step
        <4>2. QED
          BY <4>1
      <3>4. QED
        BY <1>2, <3>1, <3>2, <3>3
    <2>3. QED
      BY <2>1, <2>2 DEF RowsAreGood, HasBadRow
  <1>3. QED
    BY <1>1, <1>2 DEF Next

\* A query that succeeds has nothing ahead and no failure behind it.
LEMMA SuccessBalances ==
  ASSUME TypeInv, BalanceInv, [Next]_vars
  PROVE  SnapshotBalanced'
  <1>0. SnapshotBalanced
    BY DEF BalanceInv
  <1>1. CASE ~End
    <2>1. lastQuery' = lastQuery
      <3>1. CASE \E w \in Workers : Step(w)
        BY <3>1, QueryFrame
      <3>2. CASE ~ \E w \in Workers : Step(w)
        BY <1>1, <3>2 DEF Next, Begin, HostBegin, BeginQuery, CacheClear, Closed,
                          vars, runtimeVars, queryVars, Start
      <3>3. QED
        BY <3>1, <3>2
    <2>2. QED
      BY <1>0, <2>1 DEF SnapshotBalanced
  <1>2. CASE End
    <2>1. PICK o \in QueryOutcomes : HostEnd(o)
      BY <1>2 DEF End
    <2>2. \A s \in lastQuery' : \/ s \in lastQuery
                                \/ s.outcome = o /\ s.counts = counts
      BY <2>1 DEF HostEnd, EndQuery
    <2>3. ASSUME o = "succeeded", External
          PROVE  /\ counts.input_rows = counts.null_rows + counts.valid_rows
                 /\ counts.valid_rows
                      = counts.unique_judgments + counts.deduplicated_rows
                 /\ counts.unique_judgments
                      = counts.cache_hit_judgments + counts.batch_size_sum
                 /\ counts.batch_size_sum
                      >= counts.external_requests + counts.batched_requests
                 /\ counts.failed_requests = 0
      <3>1. \A w \in Workers : scope[w] = active => pc[w] \in {"idle", "done"}
        BY <2>1, <2>3 DEF HostEnd
      <3>2. ~Doomed
        BY <3>1 DEF Doomed, Ours
      <3>3. /\ Total(RowsAhead, Workers) = 0 /\ Total(GroupsAhead, Workers) = 0
            /\ Total(AskedAhead, Workers) = 0
        BY <3>1, NothingAhead DEF Resting
      <3>4. Balanced /\ RequestsWeigh /\ FailuresDoom
        BY <3>2 DEF BalanceInv
      <3>5. /\ counts.input_rows = counts.null_rows + counts.valid_rows + 0
            /\ counts.valid_rows = counts.unique_judgments
                                   + counts.deduplicated_rows + 0
            /\ counts.unique_judgments = counts.cache_hit_judgments
                                         + counts.batch_size_sum + 0
        BY <2>3, <3>3, <3>4
           DEF Balanced, RowsCounted, GroupsCounted, JudgmentsCounted
      <3>6. \A f \in Weighed : counts[f] \in Nat
        BY CountsAreNumbers
      <3>7. counts.failed_requests = 0
        BY <3>2, <3>4, <3>6 DEF FailuresDoom, Weighed
      <3>8. QED
        BY <3>4, <3>5, <3>6, <3>7 DEF RequestsWeigh, Weighed
    <2>4. QED
      BY <1>0, <2>2, <2>3 DEF SnapshotBalanced
  <1>3. QED
    BY <1>1, <1>2

\* Nothing is read, grouped or asked at first.
LEMMA BalanceInit == Init => BalanceInv
  <1> SUFFICES ASSUME Init PROVE BalanceInv
    OBVIOUS
  <1>1. /\ \A w \in Workers : pc[w] = "idle"
        /\ counts = ZeroCounts /\ lastQuery = {}
    BY DEF Init, ThreadsInit, RuntimeInit
  <1>2. Balanced /\ RequestsWeigh /\ FailuresDoom
    BY <1>1, InitTypes, NothingBalances DEF Resting
  <1>3. QED
    BY <1>1, <1>2 DEF BalanceInv, RowsAreGood, SnapshotBalanced

\* BalanceInv is inductive, on top of the types and the order of queries.
LEMMA BalanceStep ==
  TypeInv /\ FlightInv /\ BalanceInv /\ [Next]_vars => BalanceInv'
  <1> SUFFICES ASSUME TypeInv, FlightInv, BalanceInv, [Next]_vars
               PROVE  BalanceInv'
    OBVIOUS
  <1>1. RowsAreGood' /\ SnapshotBalanced'
    BY GoodRowsStep, SuccessBalances DEF BalanceInv
  <1>2. RequestsWeigh' /\ FailuresDoom' /\ (~Doomed' => Balanced')
    BY TypeStep, HostBalances, StepBalances, RequestBalance DEF Next, FlightInv
  <1>3. QED
    BY <1>1, <1>2 DEF BalanceInv

\* The profile of a query that succeeded accounts for all its rows and for
\* every judgment sent, however they were batched, answered or shared between
\* threads (end_query's snapshot, record_provider_attempt's batch sizes).
THEOREM BatchSnapshotsBalance == Spec => []SnapshotBalanced
  <1>1. BalanceInv => SnapshotBalanced
    BY DEF BalanceInv
  <1>2. QED
    BY <1>1, InitTypes, TypeStep, FlightInit, FlightStep, BalanceInit,
       BalanceStep, PTL DEF Spec
=============================================================================
