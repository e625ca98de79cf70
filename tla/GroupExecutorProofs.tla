------------------------- MODULE GroupExecutorProofs -------------------------
(***************************************************************************)
(* Proofs about GroupExecutor, for any number of threads, chunks, queries, *)
(* models and credentials and any duckjeu_max_inflight.  First come types, *)
(* the permit pool and single flight, then the answers handed out: a row   *)
(* gets an answer to its own content, model and credential, an alias is    *)
(* asked again in every query, the rows of a query agree, and a cache hit  *)
(* is an answer of another query.  Last comes what is counted: the counts  *)
(* of a query that succeeded account for every row and every judgment,     *)
(* every request the service got for a query is in its counts, and a cost  *)
(* that is stated covers every token the service had billed.               *)
(***************************************************************************)
(* The answers follow from what the entries and the cache hold.  Their     *)
(* inductive invariant says that a credential scope stands for one         *)
(* credential (ScopesApart), that what is kept under an identity answers   *)
(* it (AnswersKept), that an identity has one entry, unsettled as long as  *)
(* it is owned (EntriesOnce), that rows are filled from entries only       *)
(* (RowsFromEntries), and that the cache never holds what an owner is      *)
(* about to ask in its own query (CacheOfOthers).                          *)
(*                                                                         *)
(* Counts lag behind what they count, and several threads are under way    *)
(* at once: each part of their invariant says by how much, as the number   *)
(* of threads (or of a thread's groups) between two labels.                *)
(***************************************************************************)
EXTENDS GroupExecutor, RuntimeLemmas

-----------------------------------------------------------------------------
(* Type correctness.  It is not inductive by itself: that an identity is   *)
(* well formed needs the thread to be at a row with something to judge.    *)

TypeInv == TypeOK /\ AtJudgedRow

GroupTypeOK ==
  /\ pc \in [Workers -> Labels]
  /\ pos \in [Workers -> Nat]
  /\ entry \in [Workers -> Nat]
  /\ outcome \in [Workers -> Outcome]
  /\ reply \in [Workers -> Replies]

\* The identities a thread inside a group uses are well formed.
LEMMA IdentityTypes ==
  ASSUME TaskTypeOK, AtJudgedRow, NEW w \in Workers, pc[w] \in InGroup
  PROVE  /\ Key(w) \in Keys
         /\ IdentityOf(w) \in Identity
         /\ CacheIdentityOf(w) \in CacheIdentity
  <1>1. Key(w) \in Keys
    <2>1. chunk[w] \in Chunks \cup {<< >>} /\ pos[w] \in JudgedRows(chunk[w])
      BY DEF TaskTypeOK, AtJudgedRow
    <2>2. QED
      BY <2>1, RowNumbers DEF Key
  <1>2. ctx[w] \in [cred : Creds, model : Models, ready : BOOLEAN]
    BY ThreadAssumption DEF TaskTypeOK
  <1>3. ctx[w].model \in Models /\ cscope[w] \in Nat /\ scope[w] \in Nat
    BY <1>2 DEF TaskTypeOK
  <1>4. QED
    BY <1>1, <1>3
       DEF IdentityOf, CacheIdentityOf, Identity, CacheIdentity

\* Moving on to a group keeps a thread at a judged row.
LEMMA TakeFirstTypes ==
  ASSUME TaskTypeOK, GroupTypeOK, NEW w \in Workers,
         NEW L \in SUBSET Leads(chunk[w]), TakeFirst(w, L)
  PROVE  /\ pos' \in [Workers -> Nat]
         /\ pos'[w] \in JudgedRows(chunk[w])
         /\ \A v \in Workers : v # w => pos'[v] = pos[v]
  <1>1. PICK i \in L : pos' = [pos EXCEPT ![w] = i]
    BY DEF TakeFirst
  <1>2. i \in JudgedRows(chunk[w]) /\ i \in Nat
    BY RowNumbers DEF TaskTypeOK
  <1>3. QED
    BY <1>1, <1>2 DEF GroupTypeOK

\* The end of a group, with or without a result.
LEMMA FinishTypes ==
  ASSUME TaskTypeOK, GroupTypeOK, AtJudgedRow, NEW w \in Workers,
         NEW result, Finish(w, result) \/ Fail(w), UNCHANGED taskVars
  PROVE  GroupTypeOK' /\ AtJudgedRow'
  <1>1. CASE Fail(w)
    <2>1. /\ pc' = [pc EXCEPT ![w] = "failed"] /\ pos' = pos
          /\ entry' = [entry EXCEPT ![w] = 0]
          /\ outcome' = [outcome EXCEPT ![w] = Failed]
          /\ reply' = [reply EXCEPT ![w] = "none"]
      BY <1>1 DEF Fail, Goto, EndGroup
    <2>2. GroupTypeOK'
      BY <2>1 DEF GroupTypeOK, Labels, Resting, Outcome, Replies
    <2>3. AtJudgedRow'
      BY <2>1 DEF AtJudgedRow, GroupTypeOK, InGroup, Claimed, OwnerLabels, taskVars
    <2>4. QED
      BY <2>2, <2>3
  <1>2. CASE Advance(w, result)
    <2>1. /\ entry' = [entry EXCEPT ![w] = 0]
          /\ outcome' = [outcome EXCEPT ![w] = Failed]
          /\ reply' = [reply EXCEPT ![w] = "none"]
      BY <1>2 DEF Advance, EndGroup
    <2>2. CASE pc' = [pc EXCEPT ![w] = "done"] /\ pos' = pos
      <3>1. GroupTypeOK'
        BY <2>1, <2>2 DEF GroupTypeOK, Labels, Resting, Outcome, Replies
      <3>2. AtJudgedRow'
        BY <2>1, <2>2 DEF AtJudgedRow, GroupTypeOK, InGroup, Claimed, OwnerLabels, taskVars
      <3>3. QED
        BY <3>1, <3>2
    <2>3. CASE pc' = [pc EXCEPT ![w] = "claim"] /\ TakeFirst(w, LaterLeads(w))
      <3>1. LaterLeads(w) \in SUBSET Leads(chunk[w])
        BY DEF LaterLeads
      <3>2. /\ pos' \in [Workers -> Nat]
            /\ pos'[w] \in JudgedRows(chunk[w])
            /\ \A v \in Workers : v # w => pos'[v] = pos[v]
        BY <2>3, <3>1, TakeFirstTypes
      <3>3. GroupTypeOK'
        BY <2>1, <2>3, <3>2 DEF GroupTypeOK, Labels, Outcome, Replies
      <3>4. AtJudgedRow'
        BY <2>1, <2>3, <3>2
           DEF AtJudgedRow, GroupTypeOK, InGroup, Claimed, OwnerLabels, taskVars
      <3>5. QED
        BY <3>3, <3>4
    <2>4. QED
      BY <1>2, <2>2, <2>3 DEF Advance, Goto
  <1>3. QED
    BY <1>1, <1>2 DEF Finish

\* A thread that only moves between labels of a group.
LEMMA MoveTypes ==
  ASSUME TaskTypeOK, GroupTypeOK, AtJudgedRow, NEW w \in Workers,
         NEW label \in Labels, Goto(w, label),
         label \in InGroup => pc[w] \in InGroup,
         label \in {"hit", "insert"} => outcome'[w] \in Answer,
         UNCHANGED <<taskVars, pos>>,
         entry' \in [Workers -> Nat], outcome' \in [Workers -> Outcome],
         reply' \in [Workers -> Replies],
         \A v \in Workers : v # w => outcome'[v] = outcome[v]
  PROVE  GroupTypeOK' /\ AtJudgedRow'
  <1>1. pc' = [pc EXCEPT ![w] = label]
    BY DEF Goto
  <1>2. GroupTypeOK'
    BY <1>1 DEF GroupTypeOK
  <1>3. AtJudgedRow'
    BY <1>1 DEF AtJudgedRow, GroupTypeOK, taskVars
  <1>4. QED
    BY <1>2, <1>3

\* What Init establishes.
LEMMA InitTypes == Init => TypeInv
  <1> SUFFICES ASSUME Init PROVE TypeInv
    OBVIOUS
  <1> USE DEF Init, ThreadsInit
  <1>1. RuntimeTypeOK
    BY ZeroCountsType, RuntimeAssumption DEF RuntimeInit, RuntimeTypeOK, EmptyMap
  <1>2. TaskTypeOK
    BY ThreadAssumption DEF TaskTypeOK
  <1>3. GroupTypeOK
    BY DEF GroupTypeOK, Labels, Resting, Outcome, Replies
  <1>4. AtJudgedRow
    BY DEF AtJudgedRow, InGroup, Claimed, OwnerLabels
  <1>5. QED
    BY <1>1, <1>2, <1>3, <1>4 DEF TypeInv, TypeOK, GroupTypeOK

\* The answer a provider gives is well formed.
LEMMA AnswerType ==
  ASSUME TaskTypeOK, AtJudgedRow, NEW w \in Workers, pc[w] \in InGroup,
         NEW v \in Values
  PROVE  [key |-> Key(w), model |-> ctx[w].model, cred |-> ctx[w].cred,
          query |-> scope[w], val |-> v] \in Answer
  <1>1. Key(w) \in Keys
    BY IdentityTypes
  <1>2. ctx[w] \in [cred : Creds, model : Models, ready : BOOLEAN]
    BY ThreadAssumption DEF TaskTypeOK
  <1>3. ctx[w].model \in Models /\ ctx[w].cred \in Creds /\ scope[w] \in Nat
    BY <1>2 DEF TaskTypeOK
  <1>4. QED
    BY <1>1, <1>3 DEF Answer

\* The host's callbacks and duckjeu_cache_clear().
LEMMA HostTypes ==
  ASSUME TypeInv, Begin \/ End \/ CacheClear \/ UNCHANGED vars
  PROVE  TypeInv'
  <1> USE DEF TypeInv, TypeOK
  <1>1. CASE Begin
    <2>1. RuntimeTypeOK'
      BY <1>1, ZeroCountsType
         DEF Begin, HostBegin, BeginQuery, RuntimeTypeOK, EmptyMap, credVars
    <2>2. QED
      BY <1>1, <2>1 DEF Begin, HostBegin, threadVars, taskVars, groupVars,
                        TaskTypeOK, AtJudgedRow
  <1>2. CASE End
    <2>1. PICK o \in QueryOutcomes : HostEnd(o)
      BY <1>2 DEF End
    <2>2. lastQuery' \subseteq QuerySnapshot
      <3>1. [query |-> active, outcome |-> o, counts |-> counts] \in QuerySnapshot
        BY <2>1 DEF HostEnd, EndQuery, RuntimeTypeOK, QuerySnapshot
      <3>2. QED
        BY <2>1, <3>1 DEF HostEnd, EndQuery, RuntimeTypeOK
    <2>3. RuntimeTypeOK'
      BY <2>1, <2>2, ZeroCountsType
         DEF HostEnd, EndQuery, RuntimeTypeOK, EmptyMap, credVars
    <2>4. QED
      BY <1>2, <2>1, <2>3 DEF End, HostEnd, threadVars, taskVars, groupVars,
                              TaskTypeOK, AtJudgedRow
  <1>3. CASE CacheClear
    <2>1. RuntimeTypeOK'
      BY <1>3 DEF CacheClear, ClearCache, EmptyMap, RuntimeTypeOK,
                  queryVars, entryVars, credVars
    <2>2. QED
      BY <1>3, <2>1 DEF CacheClear, threadVars, taskVars, groupVars,
                        TaskTypeOK, AtJudgedRow
  <1>4. CASE UNCHANGED vars
    <2>1. RuntimeTypeOK'
      BY <1>4 DEF vars, runtimeVars, RuntimeTypeOK, queryVars, entryVars, credVars
    <2>2. QED
      BY <1>4, <2>1 DEF vars, threadVars, taskVars, groupVars,
                        TaskTypeOK, AtJudgedRow
  <1>5. QED
    BY <1>1, <1>2, <1>3, <1>4

\* A thread's first steps, up to its first group.
LEMMA StartTypes ==
  ASSUME TypeInv, NEW w \in Workers,
         Start(w) \/ RecordInput(w) \/ RecordRows(w)
  PROVE  TypeInv'
  <1> USE DEF TypeInv, TypeOK
  <1>0. GroupTypeOK
    BY DEF GroupTypeOK
  <1>1. CASE Start(w)
    <2>1. PICK c \in Chunks, x \in Contexts :
            /\ chunk' = [chunk EXCEPT ![w] = c]
            /\ ctx' = [ctx EXCEPT ![w] = x]
            /\ cscope' = [cscope EXCEPT ![w] = CredentialScope(x.cred)]
            /\ UseCredential(x.cred)
      BY <1>1 DEF Start
    <2>2. x.cred \in Creds
      <3>1. x \in [cred : Creds, model : Models, ready : BOOLEAN]
        BY ThreadAssumption
      <3>2. QED
        BY <3>1
    <2>3. CredentialScope(x.cred) \in Nat
      BY DEF CredentialScope, RuntimeTypeOK
    <2>4. RuntimeTypeOK'
      BY <1>1, <2>1, <2>2, <2>3
         DEF Start, UseCredential, RuntimeTypeOK, queryVars, entryVars, EmptyMap
    <2>5. QueryScope \in Nat
      BY DEF QueryScope, RuntimeTypeOK
    <2>6. TaskTypeOK'
      BY <1>1, <2>1, <2>3, <2>5 DEF Start, TaskTypeOK
    <2>7. GroupTypeOK'
      BY <1>0, <1>1 DEF Start, Goto, EndGroup, GroupTypeOK, Labels, Outcome,
                        Replies
    <2>8. AtJudgedRow'
      BY <1>0, <1>1, <2>1 DEF Start, Goto, EndGroup, GroupTypeOK, TaskTypeOK,
                        AtJudgedRow, InGroup, Claimed, OwnerLabels
    <2>9. QED
      BY <2>4, <2>6, <2>7, <2>8 DEF GroupTypeOK
  <1>2. CASE RecordInput(w)
    <2>1. Len(chunk[w]) \in Nat
      BY RowCardinalities DEF TaskTypeOK
    <2>2. RuntimeTypeOK'
      <3>1. counts' \in QueryCounts
        BY <1>2, <2>1, OptimizedRowsType DEF RecordInput, RuntimeTypeOK
      <3>2. QED
        BY <1>2, <3>1, RuntimeFrame DEF RecordInput, RuntimeTypeOK
    <2>3. PICK label \in {"failed", "rows"} : Goto(w, label)
      BY <1>2 DEF RecordInput
    <2>4. GroupTypeOK' /\ AtJudgedRow'
      BY <1>0, <1>2, <2>3
         DEF RecordInput, Goto, groupVars, taskVars, GroupTypeOK, Labels, Resting,
             AtJudgedRow, InGroup, Claimed, OwnerLabels
    <2>5. QED
      BY <1>2, <2>2, <2>4 DEF RecordInput, taskVars, TaskTypeOK, GroupTypeOK
  <1>3. CASE RecordRows(w)
    <2>1. /\ Cardinality(NullRows(chunk[w])) \in Nat
          /\ Cardinality(JudgedRows(chunk[w])) \in Nat
          /\ Cardinality(Leads(chunk[w])) \in Nat
      BY RowCardinalities DEF TaskTypeOK
    <2>2. RuntimeTypeOK'
      <3>1. counts' \in QueryCounts
        BY <1>3, <2>1, OptimizedRowsType DEF RecordRows, RuntimeTypeOK
      <3>2. QED
        BY <1>3, <3>1, RuntimeFrame DEF RecordRows, RuntimeTypeOK
    <2>3. UNCHANGED <<taskVars, ledger, entry, outcome, reply>>
      BY <1>3 DEF RecordRows
    <2>4. CASE (Goto(w, "done") \/ Goto(w, "failed")) /\ UNCHANGED pos
      BY <1>0, <2>2, <2>3, <2>4
         DEF Goto, taskVars, TaskTypeOK, GroupTypeOK, Labels, Resting,
             AtJudgedRow, InGroup, Claimed, OwnerLabels
    <2>5. CASE Goto(w, "claim") /\ TakeFirst(w, Leads(chunk[w]))
      <3>1. /\ pos' \in [Workers -> Nat]
            /\ pos'[w] \in JudgedRows(chunk[w])
            /\ \A v \in Workers : v # w => pos'[v] = pos[v]
        BY <1>0, <2>5, TakeFirstTypes
      <3>2. pc' = [pc EXCEPT ![w] = "claim"]
        BY <2>5 DEF Goto
      <3>3. GroupTypeOK'
        BY <1>0, <2>3, <3>1, <3>2 DEF GroupTypeOK, Labels
      <3>4. AtJudgedRow'
        BY <1>0, <2>3, <3>1, <3>2
           DEF taskVars, AtJudgedRow, GroupTypeOK, InGroup, Claimed, OwnerLabels
      <3>5. QED
        BY <2>2, <2>3, <3>3, <3>4 DEF taskVars, TaskTypeOK, GroupTypeOK
    <2>6. QED
      BY <1>3, <2>4, <2>5 DEF RecordRows
  <1>4. QED
    BY <1>1, <1>2, <1>3

\* Claiming an entry and waiting for one.
LEMMA ClaimTypes ==
  ASSUME TypeInv, NEW w \in Workers, Claim(w) \/ FetchFlag(w) \/ Wait(w)
  PROVE  TypeInv'
  <1> USE DEF TypeInv, TypeOK
  <1>0. GroupTypeOK
    BY DEF GroupTypeOK
  <1>1. CASE Claim(w)
    <2>1. pc[w] \in InGroup /\ IdentityOf(w) \in Identity
      BY <1>1, IdentityTypes DEF Claim, InGroup
    <2>2. UNCHANGED <<taskVars, ledger>>
      BY <1>1 DEF Claim
    <2>3. CASE Fail(w) /\ UNCHANGED <<entryVars, counts>>
      <3>1. GroupTypeOK' /\ AtJudgedRow'
        BY <1>0, <2>2, <2>3, FinishTypes
      <3>2. RuntimeTypeOK'
        BY <1>1, <2>3, RuntimeFrame DEF Claim, RuntimeTypeOK
      <3>3. QED
        BY <2>2, <3>1, <3>2 DEF taskVars, TaskTypeOK, GroupTypeOK
    <2>4. CASE /\ JoinEntry
               /\ IdentityOf(w) \in DOMAIN entries
               /\ entry' = [entry EXCEPT ![w] = entries[IdentityOf(w)]]
               /\ Goto(w, "join_flag")
               /\ UNCHANGED <<out, pos, outcome, reply>>
      <3>1. counts' \in QueryCounts
        BY <2>4, ClaimCountsType DEF RuntimeTypeOK
      <3>2. RuntimeTypeOK'
        BY <1>1, <2>4, <3>1, RuntimeFrame
           DEF Claim, JoinEntry, RuntimeTypeOK, entryVars
      <3>3. entries[IdentityOf(w)] \in Nat
        BY <2>4 DEF RuntimeTypeOK
      <3>4. GroupTypeOK' /\ AtJudgedRow'
        BY <1>0, <2>1, <2>2, <2>4, <3>3, MoveTypes
           DEF GroupTypeOK, Labels, InGroup, Claimed, OwnerLabels
      <3>5. QED
        BY <2>2, <3>2, <3>4 DEF taskVars, TaskTypeOK, GroupTypeOK
    <2>5. CASE /\ NewEntry(IdentityOf(w))
               /\ entry' = [entry EXCEPT ![w] = Len(slots) + 1]
               /\ Goto(w, "flag")
               /\ UNCHANGED <<out, pos, outcome, reply>>
      <3>1. counts' \in QueryCounts
        BY <2>5, ClaimCountsType DEF RuntimeTypeOK
      <3>2. RuntimeTypeOK'
        <4>1. /\ slots' \in Seq(QueryEntry)
              /\ DOMAIN entries' \subseteq Identity
              /\ entries' = [i \in DOMAIN entries' |-> entries'[i]]
              /\ \A i \in DOMAIN entries' : entries'[i] \in DOMAIN slots'
          <5> HIDE DEF TypeInv, TypeOK
          <5>1. PICK id \in Identity : NewEntry(id) /\ RuntimeTypeOK
            BY <2>1, <2>5 DEF TypeInv, TypeOK
          <5>2. /\ slots' \in Seq(QueryEntry)
                /\ DOMAIN entries' = DOMAIN entries \cup {id}
                /\ entries' = [i \in DOMAIN entries' |-> entries'[i]]
                /\ entries'[id] \in DOMAIN slots'
                /\ DOMAIN slots \subseteq DOMAIN slots'
                /\ \A i \in DOMAIN entries : i # id => entries'[i] = entries[i]
            BY <5>1, NewEntryKeeps
          <5>3. QED
            BY <5>1, <5>2 DEF RuntimeTypeOK
        <4>2. QED
          BY <1>1, <3>1, <4>1 DEF Claim, RuntimeTypeOK, queryVars, credVars
      <3>3. Len(slots) + 1 \in Nat
        BY DEF RuntimeTypeOK
      <3>4. GroupTypeOK' /\ AtJudgedRow'
        BY <1>0, <2>1, <2>2, <2>5, <3>3, MoveTypes
           DEF GroupTypeOK, Labels, InGroup, Claimed, OwnerLabels
      <3>5. QED
        BY <2>2, <3>2, <3>4 DEF taskVars, TaskTypeOK, GroupTypeOK
    <2>6. QED
      BY <1>1, <2>3, <2>4, <2>5 DEF Claim
  <1>2. CASE FetchFlag(w)
    <2>1. RuntimeTypeOK'
      BY <1>2, RuntimeFrame DEF FetchFlag, runtimeVars, RuntimeTypeOK
    <2>2. UNCHANGED <<taskVars, ledger>>
      BY <1>2 DEF FetchFlag
    <2>3. CASE Fail(w)
      <3>1. GroupTypeOK' /\ AtJudgedRow'
        BY <1>0, <2>2, <2>3, FinishTypes
      <3>2. QED
        BY <2>1, <2>2, <3>1 DEF taskVars, TaskTypeOK, GroupTypeOK
    <2>4. CASE ~Fail(w)
      <3>1. /\ UNCHANGED groupVars
            /\ pc[w] \in InGroup
            /\ \E label \in {"wait", "lookup", "size"} : Goto(w, label)
        BY <1>2, <2>4 DEF FetchFlag, InGroup, Claimed, OwnerLabels
      <3>2. GroupTypeOK' /\ AtJudgedRow'
        BY <1>0, <2>2, <3>1, MoveTypes
           DEF GroupTypeOK, groupVars, Labels, OwnerLabels
      <3>3. QED
        BY <2>1, <2>2, <3>2 DEF taskVars, TaskTypeOK, GroupTypeOK
    <2>5. QED
      BY <2>3, <2>4
  <1>3. CASE Wait(w)
    <2>1. RuntimeTypeOK'
      BY <1>3, RuntimeFrame DEF Wait, runtimeVars, RuntimeTypeOK
    <2>2. UNCHANGED <<taskVars, ledger>> /\ \E r : Finish(w, r)
      BY <1>3 DEF Wait
    <2>3. GroupTypeOK' /\ AtJudgedRow'
      BY <1>0, <2>2, FinishTypes
    <2>4. QED
      BY <2>1, <2>2, <2>3 DEF taskVars, TaskTypeOK, GroupTypeOK
  <1>4. QED
    BY <1>1, <1>2, <1>3

\* The owner's steps: those that only count, or take or drop a permit.
LEMMA OwnerMoveTypes ==
  ASSUME TypeInv, NEW w \in Workers,
         \/ Hit(w) \/ Size(w) \/ Acquire(w) \/ Attempt(w) \/ Response(w)
         \/ Release(w) \/ FailedRequest(w) \/ ProviderFailure(w)
  PROVE  TypeInv'
  <1> USE DEF TypeInv, TypeOK
  <1>0. GroupTypeOK
    BY DEF GroupTypeOK
  <1>1. /\ pc[w] \in InGroup
        /\ UNCHANGED <<taskVars, ledger, groupVars>>
        /\ UNCHANGED <<queryVars, entryVars, credVars, cache>>
    BY DEF Hit, Size, Acquire, Attempt, Response, Release, FailedRequest,
           ProviderFailure, InGroup, Claimed, OwnerLabels, runtimeVars
  <1>2. permits' \in Nat
    BY RuntimeAssumption
       DEF Hit, Size, Acquire, Attempt, Response, Release, FailedRequest,
           ProviderFailure, runtimeVars, TakePermit, DropPermit, RuntimeTypeOK
  <1>3. counts' \in QueryCounts
    <2>1. CASE Size(w) \/ Acquire(w) \/ Release(w)
      BY <2>1 DEF Size, Acquire, Release, runtimeVars, RuntimeTypeOK
    <2>2. CASE Hit(w) \/ FailedRequest(w) \/ ProviderFailure(w)
      BY <2>2, OneCountType DEF Hit, FailedRequest, ProviderFailure, RuntimeTypeOK
    <2>3. CASE Attempt(w)
      BY <2>3, AttemptType DEF Attempt, RuntimeTypeOK
    <2>4. CASE Response(w)
      BY <2>4, ResponseType DEF Response, RuntimeTypeOK
    <2>5. QED
      BY <2>1, <2>2, <2>3, <2>4
  <1>4. RuntimeTypeOK'
    BY <1>1, <1>2, <1>3, RuntimeFrame
  <1>5. PICK label \in OwnerLabels \ {"hit"} :
          Goto(w, label) /\ (label = "insert" => outcome[w] # Failed)
    BY DEF Hit, Size, Acquire, Attempt, Response, Release, FailedRequest,
           ProviderFailure, OwnerLabels
  <1>6. outcome[w] # Failed => outcome[w] \in Answer
    BY DEF Outcome
  <1>7. GroupTypeOK' /\ AtJudgedRow'
    BY <1>0, <1>1, <1>5, <1>6, MoveTypes DEF GroupTypeOK, groupVars, Labels
  <1>8. QED
    BY <1>1, <1>4, <1>7 DEF taskVars, TaskTypeOK, GroupTypeOK

\* The owner's steps that read or write an answer.
LEMMA OwnerDataTypes ==
  ASSUME TypeInv, NEW w \in Workers,
         Lookup(w) \/ Call(w) \/ Insert(w) \/ Complete(w)
  PROVE  TypeInv'
  <1> USE DEF TypeInv, TypeOK
  <1>0. GroupTypeOK
    BY DEF GroupTypeOK
  <1>1. pc[w] \in InGroup
    BY DEF Lookup, Call, Insert, Complete, InGroup, Claimed, OwnerLabels
  <1>2. CASE Lookup(w)
    <2>1. /\ cache' = [i \in DOMAIN cache' |-> cache'[i]]
          /\ DOMAIN cache' \subseteq DOMAIN cache
          /\ \A i \in DOMAIN cache' : cache'[i] = cache[i]
      BY <1>2, CacheTypes DEF Lookup
    <2>2. RuntimeTypeOK'
      BY <1>2, <2>1
         DEF Lookup, RuntimeTypeOK, queryVars, entryVars, credVars
    <2>3. /\ UNCHANGED <<taskVars, ledger, pos, entry, reply>>
          /\ \/ /\ Goto(w, "hit") /\ CacheIdentityOf(w) \in DOMAIN cache
                /\ outcome' = [outcome EXCEPT ![w] = cache[CacheIdentityOf(w)]]
             \/ Goto(w, "size") /\ UNCHANGED outcome
      BY <1>2, <2>1 DEF Lookup
    <2>4. /\ outcome' \in [Workers -> Outcome]
          /\ \A v \in Workers : v # w => outcome'[v] = outcome[v]
          /\ \/ Goto(w, "hit") /\ outcome'[w] \in Answer
             \/ Goto(w, "size")
      BY <2>3 DEF RuntimeTypeOK, Outcome
    <2>5. GroupTypeOK' /\ AtJudgedRow'
      BY <1>0, <1>1, <2>3, <2>4, MoveTypes DEF GroupTypeOK, Labels, OwnerLabels
    <2>6. QED
      BY <2>2, <2>3, <2>5 DEF taskVars, TaskTypeOK, GroupTypeOK
  <1>3. CASE Call(w)
    <2>1. RuntimeTypeOK'
      BY <1>3, RuntimeFrame DEF Call, runtimeVars, RuntimeTypeOK
    <2>2. UNCHANGED <<taskVars, pos, entry>>
      BY <1>3 DEF Call
    <2>3. ledger' \in [0..MaxQueries -> [sent : Nat, billed : Nat]]
      BY <1>3, ServeType DEF Call, TaskTypeOK
    <2>4. PICK label \in {"release", "response"} : Goto(w, label)
      BY <1>3 DEF Call
    <2>5. reply' \in [Workers -> Replies]
      BY <1>3 DEF Call, UsageReplies, Replies
    <2>6. /\ outcome' \in [Workers -> Outcome]
          /\ \A v \in Workers : v # w => outcome'[v] = outcome[v]
      <3>1. \/ UNCHANGED outcome
            \/ \E v \in Values : outcome' = [outcome EXCEPT ![w] =
                   [key |-> Key(w), model |-> ctx[w].model,
                    cred |-> ctx[w].cred, query |-> scope[w], val |-> v]]
        BY <1>3 DEF Call
      <3>2. UNCHANGED outcome
              \/ \E a \in Answer : outcome' = [outcome EXCEPT ![w] = a]
        BY <1>1, <3>1, AnswerType
      <3>3. QED
        BY <3>2 DEF Outcome
    <2>7. GroupTypeOK' /\ AtJudgedRow'
      BY <1>0, <1>1, <2>2, <2>4, <2>5, <2>6, MoveTypes
         DEF GroupTypeOK, Labels, OwnerLabels
    <2>8. QED
      BY <2>1, <2>2, <2>3, <2>7 DEF taskVars, TaskTypeOK, GroupTypeOK
  <1>4. CASE Insert(w)
    <2>1. CacheIdentityOf(w) \in CacheIdentity /\ outcome[w] \in Answer
      BY <1>1, <1>4, IdentityTypes DEF Insert, AtJudgedRow
    <2>2. /\ cache' = [i \in DOMAIN cache' |-> cache'[i]]
          /\ DOMAIN cache' \subseteq CacheIdentity
          /\ \A i \in DOMAIN cache' : cache'[i] \in Answer
      BY <1>4, <2>1, CacheTypes DEF Insert
    <2>3. RuntimeTypeOK'
      BY <1>4, <2>2 DEF Insert, RuntimeTypeOK, queryVars, entryVars, credVars
    <2>4. GroupTypeOK' /\ AtJudgedRow'
      BY <1>0, <1>1, <1>4, MoveTypes
         DEF Insert, GroupTypeOK, groupVars, Labels, OwnerLabels
    <2>5. QED
      BY <1>4, <2>3, <2>4 DEF Insert, taskVars, TaskTypeOK, GroupTypeOK
  <1>5. CASE Complete(w)
    <2>1. slots' \in Seq(QueryEntry) /\ DOMAIN slots' = DOMAIN slots
      BY <1>5, CompleteKeeps DEF Complete, RuntimeTypeOK
    <2>2. RuntimeTypeOK'
      BY <1>5, <2>1 DEF Complete, RuntimeTypeOK, queryVars, credVars
    <2>3. UNCHANGED <<taskVars, ledger>> /\ Finish(w, outcome[w])
      BY <1>5 DEF Complete
    <2>4. GroupTypeOK' /\ AtJudgedRow'
      BY <1>0, <2>3, FinishTypes
    <2>5. QED
      BY <2>2, <2>3, <2>4 DEF taskVars, TaskTypeOK, GroupTypeOK
  <1>6. QED
    BY <1>2, <1>3, <1>4, <1>5

\* Every step keeps the types.
LEMMA TypeStep == TypeInv /\ [Next]_vars => TypeInv'
  <1> SUFFICES ASSUME TypeInv, [Next]_vars PROVE TypeInv'
    OBVIOUS
  <1>1. CASE Begin \/ End \/ CacheClear \/ Closed \/ UNCHANGED vars
    BY <1>1, HostTypes DEF Closed
  <1>2. ASSUME NEW w \in Workers, Start(w) \/ Step(w) PROVE TypeInv'
    BY <1>2, StartTypes, ClaimTypes, OwnerMoveTypes, OwnerDataTypes DEF Step
  <1>3. QED
    BY <1>1, <1>2 DEF Next

\* Every variable keeps its type, and a thread inside a group is at a row
\* with something to judge, in every reachable state of execute_groups.
THEOREM TypeCorrect == Spec => []TypeOK
  <1>1. TypeInv => TypeOK
    BY DEF TypeInv
  <1>2. QED
    BY InitTypes, TypeStep, <1>1, PTL DEF Spec

-----------------------------------------------------------------------------
(* The permit pool.                                                        *)

\* A thread that moves without crossing the permit's scope changes no holder.
LEMMA SameHolders ==
  ASSUME GroupTypeOK, NEW w \in Workers,
         NEW label, pc' = [pc EXCEPT ![w] = label],
         label \in PermitLabels <=> pc[w] \in PermitLabels
  PROVE  Holders' = Holders
  BY DEF Holders, GroupTypeOK

\* Where each way out of a group leads.
LEMMA FinishLabel ==
  ASSUME NEW w \in Workers, NEW result, Finish(w, result) \/ Fail(w)
  PROVE  \E label \in {"failed", "done", "claim"} :
           pc' = [pc EXCEPT ![w] = label]
  BY DEF Finish, Advance, Fail, Goto

\* Every step keeps the pool's count: a thread moves in or out of a permit's
\* scope exactly where it takes or drops a permit.
LEMMA PermitStep ==
  TypeInv /\ PermitAccounting /\ [Next]_vars => PermitAccounting'
  <1> SUFFICES ASSUME TypeInv, PermitAccounting, [Next]_vars
               PROVE  PermitAccounting'
    OBVIOUS
  <1>0. GroupTypeOK /\ permits \in Nat
    BY DEF TypeInv, TypeOK, GroupTypeOK, RuntimeTypeOK
  <1>1. IsFiniteSet(Holders)
    BY ThreadAssumption, FS_Subset DEF Holders
  <1>2. CASE Begin \/ End \/ CacheClear \/ Closed \/ UNCHANGED vars
    BY <1>2 DEF Begin, HostBegin, BeginQuery, End, HostEnd, EndQuery, CacheClear,
                Closed, vars, runtimeVars, threadVars, Holders, PermitAccounting
  <1>3. ASSUME NEW w \in Workers, Start(w) \/ Step(w)
        PROVE  PermitAccounting'
    <2>1. CASE Acquire(w)
      <3>1. CASE Goto(w, "complete") /\ UNCHANGED permits
        BY <1>0, <2>1, <3>1, SameHolders
           DEF Acquire, Goto, PermitLabels, PermitAccounting
      <3>2. CASE TakePermit /\ Goto(w, "attempt")
        <4>1. w \notin Holders /\ Holders' = Holders \cup {w}
          BY <1>0, <2>1, <3>2 DEF Acquire, Goto, GroupTypeOK, Holders, PermitLabels
        <4>2. Cardinality(Holders') = Cardinality(Holders) + 1
          BY <1>1, <4>1, FS_AddElement
        <4>3. QED
          BY <1>0, <3>2, <4>2, RuntimeAssumption DEF TakePermit, PermitAccounting
      <3>3. QED
        BY <2>1, <3>1, <3>2 DEF Acquire
    <2>2. CASE Release(w)
      <3>1. w \in Holders /\ Holders' = Holders \ {w}
        BY <1>0, <2>2
           DEF Release, Goto, GroupTypeOK, Holders, PermitLabels
      <3>2. Cardinality(Holders') = Cardinality(Holders) - 1
        BY <1>1, <3>1, FS_RemoveElement
      <3>3. permits # 0
        BY <1>1, <3>1, FS_EmptySet DEF PermitAccounting
      <3>4. QED
        BY <1>0, <2>2, <3>2, <3>3, RuntimeAssumption
           DEF Release, DropPermit, PermitAccounting
    <2>3. CASE ~Acquire(w) /\ ~Release(w)
      <3>1. UNCHANGED permits
        BY <1>3, <2>3
           DEF Start, Step, RecordInput, RecordRows, Claim, FetchFlag, Wait, Lookup,
               Hit, Size, Attempt, Call, Response, Insert, FailedRequest,
               ProviderFailure, Complete, runtimeVars
      <3>2. PICK label : /\ pc' = [pc EXCEPT ![w] = label]
                         /\ label \in PermitLabels <=> pc[w] \in PermitLabels
        <4>1. CASE Start(w)
          <5>1. pc[w] \notin PermitLabels
            BY <4>1 DEF Start, CanStart, Running, Resting, PermitLabels
          <5>2. pc' = [pc EXCEPT ![w] = "input"]
            BY <4>1 DEF Start, Goto
          <5>3. "input" \notin PermitLabels
            BY DEF PermitLabels
          <5>4. QED
            BY <5>1, <5>2, <5>3, Zenon
        <4>2. CASE RecordInput(w) \/ RecordRows(w)
          <5>1. PICK label \in {"failed", "rows", "done", "claim"} :
                  pc' = [pc EXCEPT ![w] = label]
            BY <4>2 DEF RecordInput, RecordRows, Goto
          <5>2. QED
            BY <4>2, <5>1 DEF RecordInput, RecordRows, PermitLabels
        <4>3. CASE Claim(w) \/ FetchFlag(w) \/ Wait(w) \/ Complete(w)
          <5>1. pc[w] \notin PermitLabels
            BY <4>3 DEF Claim, FetchFlag, Wait, Complete, PermitLabels
          <5>2. PICK label \in {"failed", "done", "claim", "join_flag", "flag",
                                "wait", "lookup", "size"} :
                  pc' = [pc EXCEPT ![w] = label]
            BY <4>3, FinishLabel DEF Claim, FetchFlag, Wait, Complete, Goto
          <5>3. QED
            BY <5>1, <5>2 DEF PermitLabels
        <4>4. CASE Lookup(w) \/ Hit(w) \/ Size(w) \/ FailedRequest(w)
                     \/ ProviderFailure(w)
          BY <4>4 DEF Lookup, Hit, Size, FailedRequest, ProviderFailure, Goto,
                      PermitLabels
        <4>5. CASE Attempt(w) \/ Call(w) \/ Response(w) \/ Insert(w)
          BY <4>5 DEF Attempt, Call, Response, Insert, Goto, PermitLabels
        <4>6. QED
          BY <1>3, <2>3, <4>1, <4>2, <4>3, <4>4, <4>5 DEF Step
      <3>3. QED
        BY <1>0, <3>1, <3>2, SameHolders DEF PermitAccounting
    <2>4. QED
      BY <2>1, <2>2, <2>3
  <1>4. QED
    BY <1>2, <1>3 DEF Next

\* However threads, failures, cancellation and the end of queries
\* interleave, the pool of acquire_request_permit counts exactly the threads
\* inside a permit's scope, and they are at most duckjeu_max_inflight.
THEOREM PermitsAccounted == Spec => []PermitAccounting
  <1>1. Init => PermitAccounting
    <2> SUFFICES ASSUME Init PROVE PermitAccounting
      OBVIOUS
    <2>1. Holders = {}
      BY DEF Init, ThreadsInit, Holders, PermitLabels
    <2>2. QED
      BY <2>1, FS_EmptySet, RuntimeAssumption
         DEF Init, ThreadsInit, RuntimeInit, PermitAccounting
  <1>2. QED
    BY <1>1, InitTypes, TypeStep, PermitStep, PTL DEF Spec

-----------------------------------------------------------------------------
(* Single flight.  The inductive invariant adds to the two properties that *)
(* query ids are handed out in order (so a query that is no longer active  *)
(* is cancelled, and a new one has no thread yet) and that the map, the    *)
(* entries and the threads agree on identities.                            *)

FlightInv == QueriesInOrder /\ EntriesMatch /\ SingleFlight /\ NoOrphanedEntry

\* Nothing of what a thread is doing changes.
Unmoved(v) ==
  /\ pc'[v] = pc[v] /\ scope'[v] = scope[v] /\ entry'[v] = entry[v]
  /\ IdentityOf(v)' = IdentityOf(v)

\* Threads move themselves only.
LEMMA OthersUnmoved ==
  ASSUME TypeInv, NEW w \in Workers, Start(w) \/ Step(w)
  PROVE  \A v \in Workers : v # w => Unmoved(v)
  <1> SUFFICES ASSUME NEW v \in Workers, v # w
               PROVE  Unmoved(v)
    OBVIOUS
  <1>0. /\ GroupTypeOK /\ TaskTypeOK
    BY DEF TypeInv, TypeOK, GroupTypeOK
  <1>1. /\ scope'[v] = scope[v] /\ chunk'[v] = chunk[v] /\ ctx'[v] = ctx[v]
        /\ cscope'[v] = cscope[v]
    <2>1. CASE Start(w)
      BY <1>0, <2>1 DEF Start, TaskTypeOK
    <2>2. CASE Step(w)
      BY <2>2
         DEF Step, RecordInput, RecordRows, Claim, FetchFlag, Wait, Lookup, Hit,
             Size, Acquire, Attempt, Call, Response, Insert, Release,
             FailedRequest, ProviderFailure, Complete, taskVars
    <2>3. QED
      BY <2>1, <2>2
  <1>2. pc'[v] = pc[v] /\ pos'[v] = pos[v] /\ entry'[v] = entry[v]
    <2>1. ASSUME NEW r, Finish(w, r) \/ Fail(w)
          PROVE  pc'[v] = pc[v] /\ pos'[v] = pos[v] /\ entry'[v] = entry[v]
      BY <1>0, <2>1 DEF Finish, Advance, Fail, EndGroup, Goto, TakeFirst, GroupTypeOK
    <2>2. CASE Start(w)
      BY <1>0, <2>2 DEF Start, EndGroup, Goto, GroupTypeOK
    <2>3. CASE RecordInput(w) \/ RecordRows(w)
      BY <1>0, <2>3 DEF RecordInput, RecordRows, Goto, TakeFirst, groupVars,
                        GroupTypeOK
    <2>4. CASE Claim(w)
      <3>1. CASE Fail(w)
        BY <2>1, <3>1
      <3>2. CASE ~Fail(w)
        BY <1>0, <2>4, <3>2 DEF Claim, Goto, GroupTypeOK
      <3>3. QED
        BY <3>1, <3>2
    <2>5. CASE FetchFlag(w)
      <3>1. CASE Fail(w)
        BY <2>1, <3>1
      <3>2. CASE ~Fail(w)
        BY <1>0, <2>5, <3>2 DEF FetchFlag, Goto, groupVars, GroupTypeOK
      <3>3. QED
        BY <3>1, <3>2
    <2>6. CASE Wait(w) \/ Complete(w)
      <3>1. \E r : Finish(w, r)
        BY <2>6 DEF Wait, Complete
      <3>2. QED
        BY <2>1, <3>1
    <2>7. CASE Lookup(w) \/ Hit(w) \/ Size(w) \/ Acquire(w) \/ Attempt(w)
                 \/ Call(w) \/ Response(w) \/ Insert(w) \/ Release(w)
                 \/ FailedRequest(w) \/ ProviderFailure(w)
      BY <1>0, <2>7
         DEF Lookup, Hit, Size, Acquire, Attempt, Call, Response, Insert, Release,
             FailedRequest, ProviderFailure, Goto, groupVars, GroupTypeOK
    <2>8. QED
      BY <2>2, <2>3, <2>4, <2>5, <2>6, <2>7 DEF Step
  <1>3. QED
    BY <1>1, <1>2 DEF Unmoved, IdentityOf, Key

\* A thread that stays with the entry it has.
LEMMA StayKeeps ==
  ASSUME TypeInv, FlightInv, NEW w \in Workers,
         \A v \in Workers : v # w => Unmoved(v),
         UNCHANGED <<queryVars, entryVars, taskVars, pos, entry>>,
         pc[w] \in Claimed, pc'[w] \in Claimed,
         pc'[w] \in OwnerLabels <=> pc[w] \in OwnerLabels
  PROVE  FlightInv'
  <1>1. \A v \in Workers :
          /\ scope'[v] = scope[v] /\ entry'[v] = entry[v]
          /\ IdentityOf(v)' = IdentityOf(v)
          /\ pc'[v] \in Claimed <=> pc[v] \in Claimed
          /\ pc'[v] \in OwnerLabels <=> pc[v] \in OwnerLabels
    BY DEF Unmoved, IdentityOf, Key, taskVars
  <1>2. UNCHANGED <<active, nextQuery, cancelled, entries, slots>>
    BY DEF queryVars, entryVars
  <1>3. QueriesInOrder'
    BY <1>1, <1>2 DEF FlightInv, QueriesInOrder
  <1>4. EntriesMatch'
    BY <1>1, <1>2 DEF FlightInv, EntriesMatch, Owns
  <1>5. SingleFlight'
    BY <1>1, <1>2 DEF FlightInv, SingleFlight, Owns
  <1>6. NoOrphanedEntry'
    BY <1>1, <1>2 DEF FlightInv, NoOrphanedEntry, Owns
  <1>7. QED
    BY <1>3, <1>4, <1>5, <1>6 DEF FlightInv

\* A thread that has no entry afterwards: what it owned is settled, or its
\* query is cancelled.
LEMMA LeaveKeeps ==
  ASSUME TypeInv, FlightInv, NEW w \in Workers,
         \A v \in Workers : v # w => Unmoved(v),
         UNCHANGED <<queryVars, entries>>,
         DOMAIN slots' = DOMAIN slots,
         \A e \in DOMAIN slots :
           /\ slots'[e].id = slots[e].id
           /\ slots'[e].result = Pending =>
                /\ slots[e].result = Pending
                /\ Owns(w) /\ entry[w] = e => slots[e].id.query \in cancelled,
         scope'[w] < nextQuery, pc'[w] \notin Claimed
  PROVE  FlightInv'
  <1>1. \A v \in Workers : v # w =>
          /\ scope'[v] = scope[v] /\ entry'[v] = entry[v]
          /\ IdentityOf(v)' = IdentityOf(v) /\ pc'[v] = pc[v]
    BY DEF Unmoved
  <1>2. UNCHANGED <<active, nextQuery, cancelled, entries>>
    BY DEF queryVars
  <1>3. pc'[w] \notin OwnerLabels
    BY DEF Claimed
  <1>4. QueriesInOrder'
    BY <1>1, <1>2 DEF FlightInv, QueriesInOrder
  <1>5. EntriesMatch'
    <2>1. \A i \in DOMAIN entries : slots'[entries[i]].id = i
      BY DEF FlightInv, EntriesMatch, TypeInv, TypeOK, RuntimeTypeOK
    <2>2. \A v \in Workers : pc'[v] \in Claimed =>
            entry'[v] \in DOMAIN slots' /\ slots'[entry'[v]].id = IdentityOf(v)'
      BY <1>1 DEF FlightInv, EntriesMatch
    <2>3. \A v \in Workers : pc'[v] \in OwnerLabels /\ scope'[v] = active' =>
            IdentityOf(v)' \in DOMAIN entries'
      BY <1>1, <1>2, <1>3 DEF FlightInv, EntriesMatch, Owns
    <2>4. QED
      BY <1>2, <2>1, <2>2, <2>3 DEF EntriesMatch, Owns
  <1>6. SingleFlight'
    BY <1>1, <1>3 DEF FlightInv, SingleFlight, Owns
  <1>7. NoOrphanedEntry'
    BY <1>1, <1>2, <1>3 DEF FlightInv, NoOrphanedEntry, Owns
  <1>8. QED
    BY <1>4, <1>5, <1>6, <1>7 DEF FlightInv

\* Claiming: a new entry's identity is no other thread's, because what other
\* threads own in the active query is in the map.
LEMMA ClaimKeeps ==
  ASSUME TypeInv, FlightInv, NEW w \in Workers, Claim(w), StillActive(w)
  PROVE  FlightInv'
  <1>0. GroupTypeOK /\ RuntimeTypeOK /\ TaskTypeOK
    BY DEF TypeInv, TypeOK, GroupTypeOK
  <1>1. \A v \in Workers : v # w => Unmoved(v)
    BY OthersUnmoved DEF Step
  <1>2. /\ UNCHANGED <<active, nextQuery, cancelled>>
        /\ scope' = scope /\ scope[w] = active
        /\ IdentityOf(w)' = IdentityOf(w)
        /\ pc[w] = "claim"
    BY DEF Claim, StillActive, queryVars, taskVars, IdentityOf, Key
  <1>3. \A v \in Workers : IdentityOf(v)' = IdentityOf(v) /\ scope'[v] = scope[v]
    BY <1>1, <1>2 DEF Unmoved
  <1>4. pc[w] \notin Claimed /\ pc[w] \notin OwnerLabels
    BY <1>2 DEF Claimed, OwnerLabels
  <1>5. QueriesInOrder'
    BY <1>2 DEF FlightInv, QueriesInOrder
  <1>6. CASE IdentityOf(w) \in DOMAIN entries
    <2>1. /\ UNCHANGED <<slots, entries>>
          /\ pc' = [pc EXCEPT ![w] = "join_flag"]
          /\ entry' = [entry EXCEPT ![w] = entries[IdentityOf(w)]]
      BY <1>6 DEF Claim, StillActive, JoinEntry, Goto
    <2>2. /\ pc'[w] \notin OwnerLabels
          /\ entry'[w] = entries[IdentityOf(w)]
      BY <1>0, <2>1 DEF GroupTypeOK, OwnerLabels
    <2>3. \A v \in Workers : Owns(v)' <=> Owns(v)
      BY <1>1, <1>4, <2>2 DEF Unmoved, Owns
    <2>4. EntriesMatch'
      <3>1. entry'[w] \in DOMAIN slots /\ slots[entry'[w]].id = IdentityOf(w)
        BY <1>0, <1>6, <2>2 DEF FlightInv, EntriesMatch, RuntimeTypeOK
      <3>2. \A v \in Workers : pc'[v] \in Claimed =>
              entry'[v] \in DOMAIN slots /\ slots[entry'[v]].id = IdentityOf(v)
        BY <1>1, <3>1 DEF FlightInv, EntriesMatch, Unmoved
      <3>3. QED
        BY <1>2, <1>3, <2>1, <2>3, <3>2 DEF FlightInv, EntriesMatch
    <2>5. SingleFlight'
      BY <1>3, <2>3 DEF FlightInv, SingleFlight
    <2>6. NoOrphanedEntry'
      BY <1>1, <1>2, <1>4, <2>1, <2>3 DEF FlightInv, NoOrphanedEntry, Unmoved, Owns
    <2>7. QED
      BY <1>5, <2>4, <2>5, <2>6 DEF FlightInv
  <1>7. CASE IdentityOf(w) \notin DOMAIN entries
    <2> DEFINE new == Len(slots) + 1
    <2>1. /\ NewEntry(IdentityOf(w))
          /\ pc' = [pc EXCEPT ![w] = "flag"]
          /\ entry' = [entry EXCEPT ![w] = new]
      BY <1>7 DEF Claim, StillActive, Goto
    <2>2. pc'[w] = "flag" /\ entry'[w] = new /\ Owns(w)'
      BY <1>0, <2>1 DEF GroupTypeOK, OwnerLabels, Owns
    <2>3. IdentityOf(w) \in Identity
      BY <1>0, <1>2, IdentityTypes DEF TypeInv, InGroup
    <2>4. /\ new \in DOMAIN slots' /\ new \notin DOMAIN slots
          /\ DOMAIN slots' = DOMAIN slots \cup {new}
          /\ \A e \in DOMAIN slots : slots'[e] = slots[e]
          /\ slots'[new].id = IdentityOf(w)
          /\ DOMAIN entries' = DOMAIN entries \cup {IdentityOf(w)}
          /\ entries'[IdentityOf(w)] = new
          /\ \A i \in DOMAIN entries : i # IdentityOf(w) => entries'[i] = entries[i]
      <3>1. PICK id \in Identity : id = IdentityOf(w) /\ NewEntry(id)
        BY <2>1, <2>3
      <3>2. QED
        BY <1>0, <3>1, NewEntryKeeps
    <2> HIDE DEF new
    <2>5. EntriesMatch'
      <3>1. \A i \in DOMAIN entries' : slots'[entries'[i]].id = i
        BY <1>0, <1>7, <2>4 DEF FlightInv, EntriesMatch, RuntimeTypeOK
      <3>2. \A v \in Workers : pc'[v] \in Claimed =>
              entry'[v] \in DOMAIN slots' /\ slots'[entry'[v]].id = IdentityOf(v)'
        BY <1>1, <1>3, <2>2, <2>4 DEF FlightInv, EntriesMatch, Unmoved
      <3>3. \A v \in Workers : Owns(v)' /\ scope'[v] = active' =>
              IdentityOf(v)' \in DOMAIN entries'
        BY <1>1, <1>2, <1>3, <2>4 DEF FlightInv, EntriesMatch, Unmoved, Owns
      <3>4. QED
        BY <3>1, <3>2, <3>3 DEF EntriesMatch
    <2>6. SingleFlight'
      <3>1. ASSUME NEW v \in Workers, v # w, Owns(v)'
            PROVE  IdentityOf(v) # IdentityOf(w)
        <4>1. Owns(v)
          BY <1>1, <3>1 DEF Unmoved, Owns
        <4>2. CASE scope[v] = active
          BY <1>7, <4>1, <4>2 DEF FlightInv, EntriesMatch
        <4>3. CASE scope[v] # active
          BY <1>2, <4>3 DEF IdentityOf
        <4>4. QED
          BY <4>2, <4>3
      <3>2. ASSUME NEW u \in Workers, NEW v \in Workers, u # v,
                   Owns(u)', Owns(v)'
            PROVE  IdentityOf(u) # IdentityOf(v)
        <4>1. CASE u # w /\ v # w
          BY <1>1, <3>2, <4>1 DEF FlightInv, SingleFlight, Unmoved, Owns
        <4>2. CASE u = w \/ v = w
          BY <3>1, <3>2, <4>2
        <4>3. QED
          BY <4>1, <4>2
      <3>3. QED
        BY <1>3, <3>2 DEF SingleFlight
    <2>7. NoOrphanedEntry'
      <3>1. ASSUME NEW e \in DOMAIN slots', slots'[e].result = Pending
            PROVE  \/ \E v \in Workers : Owns(v)' /\ entry'[v] = e
                   \/ slots'[e].id.query \in cancelled
        <4>1. CASE e = new
          BY <2>2, <4>1
        <4>2. CASE e \in DOMAIN slots
          <5>1. \/ \E v \in Workers : Owns(v) /\ entry[v] = e
                \/ slots[e].id.query \in cancelled
            BY <2>4, <3>1, <4>2 DEF FlightInv, NoOrphanedEntry
          <5>2. \A v \in Workers : Owns(v) => Owns(v)' /\ entry'[v] = entry[v]
            BY <1>1, <1>4 DEF Unmoved, Owns
          <5>3. QED
            BY <2>4, <4>2, <5>1, <5>2
        <4>3. QED
          BY <2>4, <4>1, <4>2
      <3>2. QED
        BY <1>2, <3>1 DEF NoOrphanedEntry
    <2>8. QED
      BY <1>5, <2>5, <2>6, <2>7 DEF FlightInv
  <1>8. QED
    BY <1>6, <1>7

\* A thread of a query that is no longer active belongs to a cancelled one.
LEMMA GoneIsCancelled ==
  ASSUME TypeInv, FlightInv, NEW w \in Workers, ~StillActive(w)
  PROVE  scope[w] \in cancelled
  <1>1. scope[w] \in Nat /\ nextQuery \in Nat /\ scope[w] < nextQuery
    BY DEF TypeInv, TypeOK, TaskTypeOK, RuntimeTypeOK, FlightInv, QueriesInOrder
  <1>2. scope[w] \in 0..(nextQuery - 1)
    BY <1>1
  <1>3. QED
    BY <1>2 DEF StillActive, FlightInv, QueriesInOrder

\* Every step of a thread keeps the flight invariant.
LEMMA FlightThreadStep ==
  ASSUME TypeInv, FlightInv, NEW w \in Workers, Start(w) \/ Step(w)
  PROVE  FlightInv'
  <1>0. GroupTypeOK /\ RuntimeTypeOK /\ TaskTypeOK
    BY DEF TypeInv, TypeOK, GroupTypeOK
  <1>1. \A v \in Workers : v # w => Unmoved(v)
    BY OthersUnmoved
  <1>2. scope[w] < nextQuery
    BY DEF FlightInv, QueriesInOrder
  <1>3. CASE Start(w)
    <2>1. /\ UNCHANGED <<queryVars, entries, slots>>
          /\ scope' = [scope EXCEPT ![w] = QueryScope]
          /\ pc' = [pc EXCEPT ![w] = "input"]
          /\ active # NoQuery
          /\ pc[w] \in Resting
      BY <1>3 DEF Start, entryVars, Goto, CanStart, Running
    <2>2. scope'[w] < nextQuery
      BY <1>0, <2>1 DEF TaskTypeOK, QueryScope, FlightInv, QueriesInOrder
    <2>3. pc'[w] \notin Claimed /\ ~Owns(w)
      BY <1>0, <2>1 DEF GroupTypeOK, Claimed, OwnerLabels, Owns, Resting
    <2>4. QED
      BY <1>1, <2>1, <2>2, <2>3, LeaveKeeps
  <1>4. CASE RecordInput(w) \/ RecordRows(w)
    <2>1. /\ UNCHANGED <<queryVars, entries, slots, scope>>
          /\ pc[w] \in {"input", "rows"}
          /\ \E label \in {"failed", "rows", "done", "claim"} :
               pc' = [pc EXCEPT ![w] = label]
      BY <1>4 DEF RecordInput, RecordRows, entryVars, taskVars, Goto
    <2>2. pc'[w] \notin Claimed /\ ~Owns(w)
      BY <1>0, <2>1 DEF GroupTypeOK, Claimed, OwnerLabels, Owns
    <2>3. QED
      BY <1>1, <1>2, <2>1, <2>2, LeaveKeeps
  <1>5. CASE Claim(w)
    <2>1. CASE StillActive(w)
      BY <1>5, <2>1, ClaimKeeps
    <2>2. CASE ~StillActive(w)
      <3>1. /\ Fail(w) /\ UNCHANGED <<queryVars, entries, slots, scope>>
            /\ pc[w] = "claim"
        BY <1>5, <2>2 DEF Claim, entryVars, taskVars
      <3>2. pc'[w] \notin Claimed /\ ~Owns(w)
        BY <1>0, <3>1 DEF Fail, Goto, GroupTypeOK, Claimed, OwnerLabels, Owns
      <3>3. QED
        BY <1>1, <1>2, <3>1, <3>2, LeaveKeeps
    <2>3. QED
      BY <2>1, <2>2
  <1>6. CASE FetchFlag(w)
    <2>1. CASE StillActive(w)
      <3>1. /\ UNCHANGED <<queryVars, entryVars, taskVars, pos, entry>>
            /\ pc[w] \in {"flag", "join_flag"}
            /\ \E label \in {"wait", "lookup", "size"} :
                 /\ pc' = [pc EXCEPT ![w] = label]
                 /\ label = "wait" <=> pc[w] = "join_flag"
        BY <1>6, <2>1 DEF FetchFlag, runtimeVars, groupVars, Goto
      <3>2. /\ pc[w] \in Claimed /\ pc'[w] \in Claimed
            /\ pc'[w] \in OwnerLabels <=> pc[w] \in OwnerLabels
        BY <1>0, <3>1 DEF GroupTypeOK, Claimed, OwnerLabels
      <3>3. QED
        BY <1>1, <3>1, <3>2, StayKeeps
    <2>2. CASE ~StillActive(w)
      <3>1. /\ Fail(w) /\ UNCHANGED <<queryVars, entries, slots, scope>>
            /\ pc[w] \in Claimed
        BY <1>6, <2>2
           DEF FetchFlag, runtimeVars, entryVars, taskVars, Claimed, OwnerLabels
      <3>2. pc'[w] \notin Claimed
        BY <1>0, <3>1 DEF Fail, Goto, GroupTypeOK, Claimed, OwnerLabels
      <3>3. slots[entry[w]].id.query \in cancelled
        <4>1. slots[entry[w]].id = IdentityOf(w)
          BY <3>1 DEF FlightInv, EntriesMatch
        <4>2. IdentityOf(w).query = scope[w]
          BY DEF IdentityOf
        <4>3. scope[w] \in cancelled
          BY <2>2, GoneIsCancelled
        <4>4. QED
          BY <4>1, <4>2, <4>3
      <3>4. QED
        BY <1>1, <1>2, <3>1, <3>2, <3>3, LeaveKeeps
    <2>3. QED
      BY <2>1, <2>2
  <1>7. CASE Wait(w)
    <2>1. /\ UNCHANGED <<queryVars, entries, slots, scope>>
          /\ pc[w] = "wait"
          /\ \E r : Finish(w, r)
      BY <1>7 DEF Wait, runtimeVars, entryVars, taskVars
    <2>2. pc'[w] \notin Claimed /\ ~Owns(w)
      BY <1>0, <2>1, FinishLabel DEF GroupTypeOK, Claimed, OwnerLabels, Owns
    <2>3. QED
      BY <1>1, <1>2, <2>1, <2>2, LeaveKeeps
  <1>8. CASE Complete(w)
    <2>1. /\ UNCHANGED <<queryVars, entries, scope>>
          /\ CompleteEntries({entry[w]}, outcome[w])
          /\ Finish(w, outcome[w])
      BY <1>8 DEF Complete, taskVars
    <2>2. /\ DOMAIN slots' = DOMAIN slots
          /\ \A e \in DOMAIN slots :
               /\ slots'[e].id = slots[e].id
               /\ e = entry[w] => slots'[e].result # Pending
               /\ e # entry[w] => slots'[e] = slots[e]
      BY <1>0, <2>1, CompleteKeeps DEF GroupTypeOK, RuntimeTypeOK
    <2>3. pc'[w] \notin Claimed
      BY <1>0, <2>1, FinishLabel DEF GroupTypeOK, Claimed, OwnerLabels
    <2>4. QED
      BY <1>1, <1>2, <2>1, <2>2, <2>3, LeaveKeeps
  <1>9. CASE Lookup(w) \/ Hit(w) \/ Size(w) \/ Acquire(w) \/ Attempt(w)
               \/ Call(w) \/ Response(w) \/ Insert(w) \/ Release(w)
               \/ FailedRequest(w) \/ ProviderFailure(w)
    <2>1. UNCHANGED <<queryVars, entryVars, taskVars, pos, entry>>
      BY <1>9
         DEF Lookup, Hit, Size, Acquire, Attempt, Call, Response, Insert, Release,
             FailedRequest, ProviderFailure, runtimeVars, groupVars
    <2>2. /\ pc[w] \in OwnerLabels
          /\ \E label \in OwnerLabels : pc' = [pc EXCEPT ![w] = label]
      BY <1>9
         DEF Lookup, Hit, Size, Acquire, Attempt, Call, Response, Insert, Release,
             FailedRequest, ProviderFailure, Goto, OwnerLabels
    <2>3. pc'[w] \in OwnerLabels
      BY <1>0, <2>2 DEF GroupTypeOK
    <2>4. QED
      BY <1>1, <2>1, <2>2, <2>3, StayKeeps DEF Claimed
  <1>10. QED
    BY <1>3, <1>4, <1>5, <1>6, <1>7, <1>8, <1>9 DEF Step

\* A new query has no thread yet; an ended one leaves its entries cancelled.
LEMMA FlightHostStep ==
  ASSUME TypeInv, FlightInv,
         Begin \/ End \/ CacheClear \/ Closed \/ UNCHANGED vars
  PROVE  FlightInv'
  <1>0. GroupTypeOK /\ RuntimeTypeOK /\ TaskTypeOK
    BY DEF TypeInv, TypeOK, GroupTypeOK
  <1>1. UNCHANGED <<slots, pc, scope, entry, ctx, cscope, chunk, pos>>
    BY DEF Begin, HostBegin, BeginQuery, End, HostEnd, EndQuery, CacheClear,
           Closed, vars, runtimeVars, entryVars, threadVars, taskVars, groupVars
  <1>2. \A v \in Workers : /\ IdentityOf(v)' = IdentityOf(v)
                           /\ Owns(v)' <=> Owns(v)
    BY <1>1 DEF IdentityOf, Key, Owns
  <1>3. SingleFlight'
    BY <1>2 DEF FlightInv, SingleFlight
  <1>4. cancelled \subseteq cancelled'
    BY DEF Begin, HostBegin, BeginQuery, End, HostEnd, EndQuery, CacheClear,
           Closed, vars, runtimeVars, queryVars
  <1>5. NoOrphanedEntry'
    BY <1>1, <1>2, <1>4 DEF FlightInv, NoOrphanedEntry
  <1>6. CASE Begin
    <2>1. /\ cancelled' = cancelled \cup ({active} \ {NoQuery})
          /\ active' = nextQuery /\ nextQuery' = nextQuery + 1
          /\ entries' = EmptyMap
      BY <1>6 DEF Begin, HostBegin, BeginQuery
    <2>2. QueriesInOrder'
      <3>1. \A q \in 0..(nextQuery' - 1) : q = active' \/ q \in cancelled'
        BY <1>0, <2>1, RuntimeAssumption
           DEF FlightInv, QueriesInOrder, RuntimeTypeOK
      <3>2. QED
        BY <1>0, <1>1, <2>1, <3>1
           DEF FlightInv, QueriesInOrder, RuntimeTypeOK, TaskTypeOK
    <2>3. EntriesMatch'
      <3>1. \A v \in Workers : scope'[v] # active'
        BY <1>0, <1>1, <2>1
           DEF FlightInv, QueriesInOrder, RuntimeTypeOK, TaskTypeOK
      <3>2. QED
        BY <1>1, <1>2, <2>1, <3>1 DEF FlightInv, EntriesMatch, EmptyMap
    <2>4. QED
      BY <1>3, <1>5, <2>2, <2>3 DEF FlightInv
  <1>7. CASE End
    <2>1. /\ cancelled' = cancelled \cup {active}
          /\ active' = NoQuery /\ nextQuery' = nextQuery
          /\ entries' = EmptyMap
      BY <1>7 DEF End, HostEnd, EndQuery
    <2>2. QueriesInOrder'
      BY <1>1, <2>1 DEF FlightInv, QueriesInOrder
    <2>3. EntriesMatch'
      <3>1. \A v \in Workers : scope'[v] # active'
        BY <1>0, <1>1, <2>1, RuntimeAssumption DEF TaskTypeOK
      <3>2. QED
        BY <1>1, <1>2, <2>1, <3>1 DEF FlightInv, EntriesMatch, EmptyMap
    <2>4. QED
      BY <1>3, <1>5, <2>2, <2>3 DEF FlightInv
  <1>8. CASE CacheClear \/ Closed \/ UNCHANGED vars
    <2>1. UNCHANGED <<active, nextQuery, cancelled, entries>>
      BY <1>8 DEF CacheClear, Closed, vars, runtimeVars, queryVars, entryVars
    <2>2. QueriesInOrder'
      BY <1>1, <2>1 DEF FlightInv, QueriesInOrder
    <2>3. EntriesMatch'
      BY <1>1, <1>2, <2>1 DEF FlightInv, EntriesMatch
    <2>4. QED
      BY <1>3, <1>5, <2>2, <2>3 DEF FlightInv
  <1>9. QED
    BY <1>6, <1>7, <1>8

\* At the start nobody owns anything.
LEMMA FlightInit == Init => FlightInv
  <1> SUFFICES ASSUME Init PROVE FlightInv
    OBVIOUS
  <1> USE DEF Init, ThreadsInit, RuntimeInit
  <1>1. \A w \in Workers : pc[w] \notin Claimed /\ ~Owns(w)
    BY DEF Claimed, OwnerLabels, Owns
  <1>2. QueriesInOrder
    BY DEF QueriesInOrder
  <1>3. EntriesMatch
    BY <1>1 DEF EntriesMatch, EmptyMap
  <1>4. SingleFlight /\ NoOrphanedEntry
    BY <1>1 DEF SingleFlight, NoOrphanedEntry
  <1>5. QED
    BY <1>2, <1>3, <1>4 DEF FlightInv

\* Every step keeps the flight invariant.
LEMMA FlightStep == TypeInv /\ FlightInv /\ [Next]_vars => FlightInv'
  BY FlightThreadStep, FlightHostStep DEF Next

\* In every interleaving of claims, joins, failures and query ends, no two
\* threads of a query ask the provider for one identity (claim_query_entry).
THEOREM FlightsAreSingle == Spec => []SingleFlight
  <1>1. FlightInv => SingleFlight
    BY DEF FlightInv
  <1>2. QED
    BY <1>1, InitTypes, TypeStep, FlightInit, FlightStep, PTL DEF Spec

\* No entry is left unsettled without an owner unless its query's flag is
\* up, so a thread in QueryEntry::wait is always let go by someone.
THEOREM EntriesAreOwned == Spec => []NoOrphanedEntry
  <1>1. FlightInv => NoOrphanedEntry
    BY DEF FlightInv
  <1>2. QED
    BY <1>1, InitTypes, TypeStep, FlightInit, FlightStep, PTL DEF Spec

-----------------------------------------------------------------------------
(* Answers: the parts of the invariant.                                    *)

\* A thread has an outcome only while it owns an entry, and then one for it.
OutcomeKept(w) ==
  /\ pc[w] \notin OwnerLabels => outcome[w] = Failed
  /\ outcome[w] \in Answer => IsAnswerTo(outcome[w], IdentityOf(w))
  /\ pc[w] = "insert" => Cacheable(w)

AnswersKept ==
  /\ \A e \in DOMAIN slots :
       slots[e].result \in Answer => IsAnswerTo(slots[e].result, slots[e].id)
  /\ \A i \in DOMAIN cache :
       i.model \in PinnedModels /\ IsAnswerTo(cache[i], i)
  /\ \A w \in Workers : OutcomeKept(w)

EntriesOnce ==
  /\ \A e, f \in DOMAIN slots : slots[e].id = slots[f].id => e = f
  /\ \A e \in DOMAIN slots :
       /\ slots[e].id.query < nextQuery
       /\ slots[e].id.query = active => slots[e].id \in DOMAIN entries
  /\ \A w \in Workers : Owns(w) => slots[entry[w]].result = Pending

\* The identity row i of a thread's chunk is judged under.
RowIdentity(w, i) == [key |-> chunk[w][i], model |-> ctx[w].model,
                      scope |-> cscope[w], query |-> scope[w]]

RowsFromEntries ==
  /\ DOMAIN out = Workers
  /\ \A w \in Workers : \A i \in DOMAIN out[w] :
       \E e \in DOMAIN slots :
         /\ slots[e].id = RowIdentity(w, i)
         /\ slots[e].result = out[w][i]
         /\ out[w][i] \in Answer

\* The identity that an entry of query q has for a cache identity.
EntryIdentity(i, q) == [key |-> i.key, model |-> i.model, scope |-> i.scope,
                        query |-> q]

\* Labels of an owner that has not looked into the cache yet.
BeforeLookup == {"flag", "lookup"}

CacheOfOthers ==
  /\ \A i \in DOMAIN cache :
       /\ cache[i].query < nextQuery
       /\ cache[i].query = active => EntryIdentity(i, active) \in DOMAIN entries
  /\ \A w \in Workers :
       /\ pc[w] \in BeforeLookup /\ CacheIdentityOf(w) \in DOMAIN cache =>
            cache[CacheIdentityOf(w)].query # scope[w]
       /\ pc[w] \in BeforeLookup \cup {"size", "acquire", "attempt", "call"}
            => outcome[w] = Failed
       /\ pc[w] \in {"response", "insert"} /\ outcome[w] # Failed =>
            outcome[w].query = scope[w]

AnswerInv ==
  /\ TypeInv /\ FlightInv
  /\ ScopesApart /\ AnswersKept /\ EntriesOnce /\ RowsFromEntries
  /\ CacheOfOthers /\ HitsComeFromOtherQueries

-----------------------------------------------------------------------------
(* What a thread's step leaves alone.                                      *)

\* The data of another thread.
Untouched(v) ==
  /\ chunk'[v] = chunk[v] /\ ctx'[v] = ctx[v] /\ cscope'[v] = cscope[v]
  /\ scope'[v] = scope[v]
  /\ outcome'[v] = outcome[v] /\ out'[v] = out[v]

\* Where a group ends, the thread's result is unset and its rows are those
\* it had, the group's targets, or none.
LEMMA FinishData ==
  ASSUME GroupTypeOK, DOMAIN out = Workers, NEW w \in Workers,
         NEW result, Finish(w, result) \/ Fail(w)
  PROVE  /\ DOMAIN out' = Workers
         /\ \A v \in Workers : v # w =>
              outcome'[v] = outcome[v] /\ out'[v] = out[v]
         /\ outcome'[w] = Failed
         /\ pc'[w] \in {"failed", "done", "claim"}
         /\ Fail(w) => out'[w] = EmptyMap
         /\ \A i \in DOMAIN out'[w] :
              \/ i \in DOMAIN out[w] /\ out'[w][i] = out[w][i]
              \/ /\ result # Failed /\ i \in Targets(chunk[w], pos[w])
                 /\ out'[w][i] = result
  <1>1. CASE Fail(w)
    BY <1>1 DEF Fail, EndGroup, Goto, GroupTypeOK, EmptyMap
  <1>2. CASE result # Failed /\ Advance(w, result)
    <2> DEFINE rows == [i \in DOMAIN out[w] \cup Targets(chunk[w], pos[w]) |->
                          IF i \in DOMAIN out[w] THEN out[w][i] ELSE result]
    <2>1. /\ out' = [out EXCEPT ![w] = rows]
          /\ outcome' = [outcome EXCEPT ![w] = Failed]
          /\ \E label \in {"failed", "done", "claim"} :
               pc' = [pc EXCEPT ![w] = label]
      BY <1>2, FinishLabel DEF Advance, EndGroup, Finish
    <2>2. out'[w] = rows
      BY <2>1
    <2>3. \A i \in DOMAIN rows :
              \/ i \in DOMAIN out[w] /\ rows[i] = out[w][i]
              \/ i \in Targets(chunk[w], pos[w]) /\ rows[i] = result
      OBVIOUS
    <2> HIDE DEF rows
    <2>4. ~Fail(w)
      <3>1. pc'[w] # "failed"
        BY <1>2 DEF Advance, Goto, GroupTypeOK
      <3>2. QED
        BY <3>1 DEF Fail, Goto, GroupTypeOK
    <2>5. QED
      BY <1>2, <2>1, <2>2, <2>3, <2>4 DEF GroupTypeOK
  <1>3. QED
    BY <1>1, <1>2 DEF Finish

\* Threads write their own data only.
LEMMA OthersUntouched ==
  ASSUME TypeInv, DOMAIN out = Workers, NEW w \in Workers, Start(w) \/ Step(w)
  PROVE  DOMAIN out' = Workers /\ \A v \in Workers : v # w => Untouched(v)
  <1>0. GroupTypeOK /\ TaskTypeOK
    BY DEF TypeInv, TypeOK, GroupTypeOK
  <1>1. \A v \in Workers : v # w =>
          /\ chunk'[v] = chunk[v] /\ ctx'[v] = ctx[v]
          /\ cscope'[v] = cscope[v] /\ scope'[v] = scope[v]
    <2>1. CASE Start(w)
      BY <1>0, <2>1 DEF Start, TaskTypeOK
    <2>2. CASE Step(w)
      BY <2>2
         DEF Step, RecordInput, RecordRows, Claim, FetchFlag, Wait, Lookup, Hit,
             Size, Acquire, Attempt, Call, Response, Insert, Release,
             FailedRequest, ProviderFailure, Complete, taskVars
    <2>3. QED
      BY <2>1, <2>2
  <1>2. /\ DOMAIN out' = Workers
        /\ \A v \in Workers : v # w =>
             outcome'[v] = outcome[v] /\ out'[v] = out[v]
    <2>1. CASE (\E r : Finish(w, r)) \/ Fail(w)
      BY <1>0, <2>1, FinishData
    <2>2. CASE Start(w)
      BY <1>0, <2>2 DEF Start, EndGroup, GroupTypeOK
    <2>3. CASE Claim(w) \/ FetchFlag(w) \/ Wait(w) \/ Complete(w)
      BY <2>1, <2>3 DEF Claim, FetchFlag, Wait, Complete, groupVars
    <2>4. CASE Lookup(w) \/ Call(w)
      BY <1>0, <2>4 DEF Lookup, Call, GroupTypeOK
    <2>5. CASE RecordInput(w) \/ RecordRows(w) \/ Hit(w) \/ Size(w)
                 \/ Acquire(w) \/ Attempt(w) \/ Response(w) \/ Insert(w)
                 \/ Release(w) \/ FailedRequest(w) \/ ProviderFailure(w)
      BY <2>5
         DEF RecordInput, RecordRows, Hit, Size, Acquire, Attempt, Response,
             Insert, Release, FailedRequest, ProviderFailure, groupVars
    <2>6. QED
      BY <2>2, <2>3, <2>4, <2>5 DEF Step
  <1>3. QED
    BY <1>1, <1>2 DEF Untouched

-----------------------------------------------------------------------------
(* Credential scopes.                                                      *)

\* Only the start of a chunk touches credentials, and identity_scopes gives
\* it a scope that stands for its own credential.
LEMMA ScopesStep ==
  ASSUME TypeInv, ScopesApart, [Next]_vars
  PROVE  /\ ScopesApart'
         /\ \A s, c : ScopeOf(s, c) => ScopeOf(s, c)'
  <1>0. TaskTypeOK /\ RuntimeTypeOK
    BY DEF TypeInv, TypeOK
  <1>1. CASE UNCHANGED <<credVars, ctx, cscope>>
    BY <1>1 DEF ScopesApart, ScopeOf, credVars
  <1>2. ASSUME NEW w \in Workers, Start(w)
        PROVE  /\ ScopesApart'
               /\ \A s, c : ScopeOf(s, c) => ScopeOf(s, c)'
    BY <1>0, <1>2, ScopeGiven DEF Start
  <1>3. CASE Begin \/ End \/ CacheClear \/ Closed \/ UNCHANGED vars
    <2>1. UNCHANGED <<credVars, ctx, cscope>>
      BY <1>3 DEF Begin, HostBegin, BeginQuery, End, HostEnd, EndQuery,
                  CacheClear, Closed, vars, runtimeVars, threadVars, taskVars
    <2>2. QED
      BY <1>1, <2>1
  <1>4. ASSUME NEW w \in Workers, Step(w)
        PROVE  UNCHANGED <<credVars, ctx, cscope>>
    BY <1>4
       DEF Step, RecordInput, RecordRows, Claim, FetchFlag, Wait, Lookup, Hit,
           Size, Acquire, Attempt, Call, Response, Insert, Release,
           FailedRequest, ProviderFailure, Complete, taskVars, runtimeVars
  <1>5. QED
    BY <1>1, <1>2, <1>3, <1>4 DEF Next

\* What answered an identity goes on answering it.
LEMMA AnswerStays ==
  ASSUME TypeInv, ScopesApart, [Next]_vars, NEW a, NEW id, IsAnswerTo(a, id)
  PROVE  IsAnswerTo(a, id)'
  BY ScopesStep DEF IsAnswerTo

-----------------------------------------------------------------------------
(* What the steps do to entries, cache and outcomes.                       *)

\* The three things a thread's step does to the entries: nothing, make one
\* for the identity it claims, settle the one it owns.
LEMMA EntrySteps ==
  ASSUME NEW w \in Workers, Start(w) \/ Step(w)
  PROVE  \/ UNCHANGED entryVars
         \/ /\ Claim(w) /\ StillActive(w) /\ NewEntry(IdentityOf(w))
            /\ IdentityOf(w) \notin DOMAIN entries
            /\ pc' = [pc EXCEPT ![w] = "flag"]
            /\ entry' = [entry EXCEPT ![w] = Len(slots) + 1]
            /\ UNCHANGED <<out, outcome>>
         \/ Complete(w)
  <1>1. CASE Start(w)
    BY <1>1 DEF Start
  <1>2. CASE Claim(w)
    BY <1>2 DEF Claim, entryVars, JoinEntry, Goto
  <1>3. CASE RecordInput(w) \/ RecordRows(w) \/ FetchFlag(w) \/ Wait(w)
               \/ Lookup(w) \/ Hit(w) \/ Size(w) \/ Acquire(w) \/ Attempt(w)
               \/ Call(w) \/ Response(w) \/ Insert(w) \/ Release(w)
               \/ FailedRequest(w) \/ ProviderFailure(w)
    BY <1>3
       DEF RecordInput, RecordRows, FetchFlag, Wait, Lookup, Hit, Size, Acquire,
           Attempt, Call, Response, Insert, Release, FailedRequest,
           ProviderFailure, runtimeVars
  <1>4. QED
    BY <1>1, <1>2, <1>3 DEF Step

\* What is in the cache after a step was there before, or was just inserted.
LEMMA CacheSteps ==
  ASSUME TypeInv, NEW w \in Workers, Start(w) \/ Step(w)
  PROVE  \A i \in DOMAIN cache' :
           \/ i \in DOMAIN cache /\ cache'[i] = cache[i]
           \/ /\ Insert(w) /\ i = CacheIdentityOf(w)
              /\ cache'[i] = outcome[w]
  <1>0. RuntimeTypeOK
    BY DEF TypeInv, TypeOK
  <1>1. CASE Start(w)
    BY <1>1 DEF Start, UseCredential, EmptyMap
  <1>2. CASE Lookup(w)
    BY <1>0, <1>2, CacheTypes DEF Lookup
  <1>3. CASE Insert(w)
    <2>1. CASE CacheReconcile
      BY <1>0, <2>1, CacheTypes
    <2>2. CASE \E D \in SUBSET (DOMAIN cache \ {CacheIdentityOf(w)}) :
                 cache' = [i \in D \cup {CacheIdentityOf(w)} |->
                             IF i = CacheIdentityOf(w) THEN outcome[w]
                             ELSE cache[i]]
      BY <1>3, <2>2
    <2>3. QED
      BY <1>3, <2>1, <2>2 DEF Insert, CacheInsert
  <1>4. CASE RecordInput(w) \/ RecordRows(w) \/ Claim(w) \/ FetchFlag(w)
               \/ Wait(w) \/ Hit(w) \/ Size(w) \/ Acquire(w) \/ Attempt(w)
               \/ Call(w) \/ Response(w) \/ Release(w) \/ FailedRequest(w)
               \/ ProviderFailure(w) \/ Complete(w)
    BY <1>4
       DEF RecordInput, RecordRows, Claim, FetchFlag, Wait, Hit, Size, Acquire,
           Attempt, Call, Response, Release, FailedRequest, ProviderFailure,
           Complete, runtimeVars
  <1>5. QED
    BY <1>1, <1>2, <1>3, <1>4 DEF Step

\* Inside a group nothing a thread's identity is made of changes.
LEMMA SameIdentity ==
  ASSUME NEW w \in Workers,
         (FetchFlag(w) /\ ~Fail(w)) \/ Lookup(w) \/ Hit(w) \/ Size(w)
           \/ Acquire(w) \/ Attempt(w) \/ Call(w) \/ Response(w) \/ Insert(w)
           \/ Release(w) \/ FailedRequest(w) \/ ProviderFailure(w)
  PROVE  /\ UNCHANGED <<taskVars, pos, entry, out>>
         /\ IdentityOf(w)' = IdentityOf(w)
         /\ CacheIdentityOf(w)' = CacheIdentityOf(w)
         /\ Cacheable(w)' = Cacheable(w)
  <1>1. UNCHANGED <<taskVars, pos, entry, out>>
    BY DEF FetchFlag, Lookup, Hit, Size, Acquire, Attempt, Call, Response,
           Insert, Release, FailedRequest, ProviderFailure, groupVars
  <1>2. QED
    BY <1>1 DEF IdentityOf, CacheIdentityOf, Cacheable, Key, taskVars

\* The moves of an owner that keep its outcome, and where they lead.
LEMMA OwnerMoves ==
  ASSUME TypeInv, NEW w \in Workers,
         \/ FetchFlag(w) /\ ~Fail(w)
         \/ Hit(w) \/ Size(w) \/ Acquire(w) \/ Attempt(w) \/ Response(w)
         \/ Insert(w) \/ Release(w) \/ FailedRequest(w) \/ ProviderFailure(w)
  PROVE  /\ outcome' = outcome
         /\ pc[w] # "join_flag" => pc[w] \in OwnerLabels
         /\ pc[w] # "join_flag" => pc'[w] \in OwnerLabels
         /\ pc[w] = "join_flag" => pc'[w] = "wait"
         /\ pc'[w] \in BeforeLookup => pc[w] \in BeforeLookup
         /\ pc'[w] \in {"size", "acquire", "attempt", "call"} =>
              pc[w] \in {"flag", "size", "acquire", "attempt"}
         /\ pc'[w] = "insert" =>
              Cacheable(w) /\ outcome[w] # Failed /\ pc[w] = "response"
         /\ pc'[w] \notin {"response", "hit"}
  <1>0. GroupTypeOK
    BY DEF TypeInv, TypeOK, GroupTypeOK
  <1>1. CASE FetchFlag(w) /\ ~Fail(w)
    BY <1>0, <1>1 DEF FetchFlag, Goto, groupVars, GroupTypeOK, OwnerLabels,
                      BeforeLookup
  <1>2. CASE Response(w)
    BY <1>0, <1>2 DEF Response, Goto, groupVars, GroupTypeOK, OwnerLabels,
                      BeforeLookup
  <1>3. CASE Hit(w) \/ Size(w) \/ Acquire(w) \/ Attempt(w) \/ Insert(w)
               \/ Release(w) \/ FailedRequest(w) \/ ProviderFailure(w)
    BY <1>0, <1>3
       DEF Hit, Size, Acquire, Attempt, Insert, Release, FailedRequest,
           ProviderFailure, Goto, groupVars, GroupTypeOK, OwnerLabels,
           BeforeLookup
  <1>4. QED
    BY <1>1, <1>2, <1>3

-----------------------------------------------------------------------------
(* AnswersKept.                                                            *)

\* The invariant of one thread's outcome, by what the thread does.
LEMMA OutcomeStep ==
  ASSUME TypeInv, ScopesApart, AnswersKept, DOMAIN out = Workers,
         NEW w \in Workers, Start(w) \/ Step(w)
  PROVE  OutcomeKept(w)'
  <1>0. /\ GroupTypeOK /\ RuntimeTypeOK
        /\ Failed \notin Answer
        /\ OutcomeKept(w) /\ [Next]_vars
    BY RuntimeAssumption DEF TypeInv, TypeOK, GroupTypeOK, AnswersKept, Next
  <1>s. \A a, id : IsAnswerTo(a, id) => IsAnswerTo(a, id)'
    BY <1>0, AnswerStays
  <1>1. ASSUME outcome'[w] = Failed, pc'[w] # "insert"
        PROVE  OutcomeKept(w)'
    BY <1>0, <1>1 DEF OutcomeKept
  <1>2. CASE (\E r : Finish(w, r)) \/ Fail(w)
    BY <1>0, <1>1, <1>2, FinishData
  <1>3. CASE Start(w)
    BY <1>0, <1>1, <1>3 DEF Start, EndGroup, Goto, GroupTypeOK
  <1>4. CASE RecordInput(w) \/ RecordRows(w) \/ (Claim(w) /\ ~Fail(w))
    <2>1. outcome' = outcome /\ pc[w] \notin OwnerLabels
      BY <1>4 DEF RecordInput, RecordRows, Claim, groupVars, OwnerLabels
    <2>2. pc'[w] # "insert"
      BY <1>0, <1>4 DEF RecordInput, RecordRows, Claim, Goto, GroupTypeOK
    <2>3. QED
      BY <1>0, <1>1, <2>1, <2>2 DEF OutcomeKept
  <1>5. CASE Lookup(w)
    <2>1. /\ IdentityOf(w)' = IdentityOf(w) /\ pc[w] \in OwnerLabels
          /\ pc'[w] \in {"hit", "size"}
      BY <1>0, <1>5, SameIdentity DEF Lookup, Goto, GroupTypeOK, OwnerLabels
    <2>2. CASE UNCHANGED outcome
      BY <1>0, <2>1, <1>s, <2>2 DEF OutcomeKept, IsAnswerTo, ScopeOf, OwnerLabels
    <2>3. CASE /\ Cacheable(w) /\ CacheIdentityOf(w) \in DOMAIN cache'
               /\ outcome' = [outcome EXCEPT ![w] = cache[CacheIdentityOf(w)]]
      <3>1. CacheIdentityOf(w) \in DOMAIN cache
        BY <1>0, <1>5, <2>3, CacheTypes DEF Lookup
      <3> DEFINE a == cache[CacheIdentityOf(w)]
      <3>2. IsAnswerTo(a, CacheIdentityOf(w)) /\ ctx[w].model \in PinnedModels
        BY <2>3, <3>1 DEF AnswersKept, Cacheable
      <3>3. IsAnswerTo(a, IdentityOf(w))
        BY <3>2 DEF IsAnswerTo, CacheIdentityOf, IdentityOf
      <3>4. outcome'[w] = a
        BY <1>0, <2>3 DEF GroupTypeOK
      <3> HIDE DEF a
      <3>5. QED
        BY <2>1, <3>3, <3>4, <1>s
           DEF OutcomeKept, IsAnswerTo, ScopeOf, OwnerLabels
    <2>4. QED
      BY <1>5, <2>2, <2>3 DEF Lookup
  <1>6. CASE Call(w)
    <2>1. /\ IdentityOf(w)' = IdentityOf(w) /\ pc[w] \in OwnerLabels
          /\ pc'[w] \in OwnerLabels \ {"insert"}
      BY <1>0, <1>6, SameIdentity DEF Call, Goto, GroupTypeOK, OwnerLabels
    <2>2. CASE UNCHANGED outcome
      BY <1>0, <1>s, <2>1, <2>2 DEF OutcomeKept, IsAnswerTo, ScopeOf
    <2>3. ASSUME NEW v \in Values,
                 outcome' = [outcome EXCEPT ![w] =
                   [key |-> Key(w), model |-> ctx[w].model,
                    cred |-> ctx[w].cred, query |-> scope[w], val |-> v]]
          PROVE  OutcomeKept(w)'
      <3> DEFINE a == [key |-> Key(w), model |-> ctx[w].model,
                       cred |-> ctx[w].cred, query |-> scope[w], val |-> v]
      <3>1. IsAnswerTo(a, IdentityOf(w))
        BY DEF IsAnswerTo, IdentityOf, ScopesApart
      <3>2. outcome'[w] = a
        BY <1>0, <2>3 DEF GroupTypeOK
      <3> HIDE DEF a
      <3>3. QED
        BY <2>1, <3>1, <3>2, <1>s DEF OutcomeKept, IsAnswerTo, ScopeOf
    <2>4. QED
      BY <1>6, <2>2, <2>3 DEF Call
  <1>7. CASE (FetchFlag(w) /\ ~Fail(w)) \/ Hit(w) \/ Size(w) \/ Acquire(w)
               \/ Attempt(w) \/ Response(w) \/ Insert(w) \/ Release(w)
               \/ FailedRequest(w) \/ ProviderFailure(w)
    <2>1. /\ IdentityOf(w)' = IdentityOf(w) /\ outcome' = outcome
          /\ Cacheable(w)' = Cacheable(w)
      BY <1>7, SameIdentity, OwnerMoves
    <2>2. /\ pc'[w] \notin OwnerLabels => pc[w] \notin OwnerLabels
          /\ pc'[w] = "insert" => Cacheable(w)
      BY <1>7, OwnerMoves DEF OwnerLabels
    <2>3. QED
      BY <1>0, <1>s, <2>1, <2>2 DEF OutcomeKept, IsAnswerTo, ScopeOf
  <1>8. QED
    BY <1>2, <1>3, <1>4, <1>5, <1>6, <1>7
       DEF Step, Claim, FetchFlag, Wait, Complete

\* An entry that has an answer after a thread's step had it before, or the
\* thread settled it with its own.
LEMMA SettledSteps ==
  ASSUME TypeInv, FlightInv, NEW w \in Workers, Start(w) \/ Step(w),
         NEW e \in DOMAIN slots'
  PROVE  \/ e \in DOMAIN slots /\ slots'[e] = slots[e]
         \/ /\ e \notin DOMAIN slots /\ Claim(w) /\ StillActive(w)
            /\ slots'[e].result = Pending /\ slots'[e].id = IdentityOf(w)
         \/ /\ e \in DOMAIN slots /\ Complete(w) /\ e = entry[w]
            /\ slots'[e].id = slots[e].id /\ slots[e].id = IdentityOf(w)
            /\ slots[e].result = Pending => slots'[e].result = outcome[w]
            /\ slots[e].result # Pending => slots'[e].result = slots[e].result
  <1>0. RuntimeTypeOK /\ GroupTypeOK /\ TaskTypeOK /\ AtJudgedRow
    BY DEF TypeInv, TypeOK, GroupTypeOK
  <1>1. CASE UNCHANGED entryVars
    BY <1>1 DEF entryVars
  <1>2. CASE Claim(w) /\ StillActive(w) /\ NewEntry(IdentityOf(w))
    <2>1. IdentityOf(w) \in Identity
      BY <1>0, <1>2, IdentityTypes DEF Claim, InGroup
    <2>2. slots' = Append(slots, [id |-> IdentityOf(w), result |-> Pending])
      BY <1>2 DEF NewEntry
    <2>3. e \notin DOMAIN slots => slots'[e].result = Pending
      BY <1>0, <2>2 DEF RuntimeTypeOK
    <2>4. /\ DOMAIN slots' = DOMAIN slots \cup {Len(slots) + 1}
          /\ \A f \in DOMAIN slots : slots'[f] = slots[f]
          /\ slots'[Len(slots) + 1].id = IdentityOf(w)
      BY <1>0, <1>2, <2>1, NewEntryKeeps
    <2>5. QED
      BY <1>2, <2>3, <2>4
  <1>3. CASE Complete(w)
    <2>1. /\ pc[w] = "complete" /\ CompleteEntries({entry[w]}, outcome[w])
          /\ outcome[w] \in Outcome
      BY <1>0, <1>3 DEF Complete, GroupTypeOK
    <2>2. /\ DOMAIN slots' = DOMAIN slots
          /\ e # entry[w] => slots'[e] = slots[e]
          /\ slots'[e].id = slots[e].id
      BY <1>0, <2>1, CompleteKeeps DEF RuntimeTypeOK
    <2>3. e = entry[w] => slots[e].id = IdentityOf(w)
      BY <2>1 DEF FlightInv, EntriesMatch, Claimed, OwnerLabels
    <2>4. /\ slots[e] \in QueryEntry
          /\ e = entry[w] =>
               slots'[e] = IF slots[e].result = Pending
                           THEN [slots[e] EXCEPT !.result = outcome[w]]
                           ELSE slots[e]
      BY <1>0, <2>1, <2>2 DEF CompleteEntries, RuntimeTypeOK
    <2>5. QED
      BY <1>3, <2>2, <2>3, <2>4 DEF QueryEntry
  <1>4. QED
    BY <1>1, <1>2, <1>3, EntrySteps

\* Everything kept under an identity goes on answering it: what is settled
\* or inserted is the outcome of a thread that owns that identity.
LEMMA AnswersStep ==
  ASSUME TypeInv, FlightInv, ScopesApart, AnswersKept, DOMAIN out = Workers,
         [Next]_vars
  PROVE  AnswersKept'
  <1>0. /\ RuntimeTypeOK /\ Failed \notin Answer /\ Pending \notin Answer
        /\ \A a, id : IsAnswerTo(a, id) => IsAnswerTo(a, id)'
    BY AnswerStays, RuntimeAssumption DEF TypeInv, TypeOK, Outcome
  <1>1. CASE Begin \/ End \/ CacheClear \/ Closed \/ UNCHANGED vars
    <2>1. /\ slots' = slots /\ (cache' = cache \/ cache' = EmptyMap)
          /\ UNCHANGED <<pc, outcome, pos, taskVars>>
      BY <1>1 DEF Begin, HostBegin, BeginQuery, End, HostEnd, EndQuery,
                  CacheClear, ClearCache, Closed, vars, runtimeVars, threadVars,
                  groupVars, entryVars
    <2>2. \A w \in Workers : /\ IdentityOf(w)' = IdentityOf(w)
                             /\ Cacheable(w)' = Cacheable(w)
      BY <2>1 DEF IdentityOf, Cacheable, Key, taskVars
    <2>3. \A w \in Workers : OutcomeKept(w)'
      BY <1>0, <2>1, <2>2 DEF AnswersKept, OutcomeKept, IsAnswerTo, ScopeOf
    <2>4. \A e \in DOMAIN slots' : slots'[e].result \in Answer =>
            IsAnswerTo(slots[e].result, slots[e].id)'
      BY <1>0, <2>1 DEF AnswersKept, IsAnswerTo, ScopeOf
    <2>5. \A i \in DOMAIN cache' :
            i.model \in PinnedModels /\ IsAnswerTo(cache[i], i)'
      BY <1>0, <2>1 DEF AnswersKept, IsAnswerTo, ScopeOf, EmptyMap
    <2>6. QED
      BY <2>3, <2>4, <2>5 DEF AnswersKept
  <1>2. ASSUME NEW w \in Workers, Start(w) \/ Step(w)
        PROVE  AnswersKept'
    <2>1. ASSUME NEW v \in Workers
          PROVE  OutcomeKept(v)'
      <3>1. CASE v = w
        BY <1>2, <3>1, OutcomeStep
      <3>2. CASE v # w
        <4>1. Unmoved(v) /\ Untouched(v)
          BY <1>2, <3>2, OthersUnmoved, OthersUntouched
        <4>2. OutcomeKept(v) /\ Cacheable(v)' = Cacheable(v)
          BY <4>1 DEF AnswersKept, Untouched, Cacheable
        <4>3. QED
          BY <1>0, <4>1, <4>2
             DEF Unmoved, Untouched, OutcomeKept, IsAnswerTo, ScopeOf
      <3>3. QED
        BY <3>1, <3>2
    <2>2. OutcomeKept(w)
      BY DEF AnswersKept
    <2>3. ASSUME NEW e \in DOMAIN slots', slots'[e].result \in Answer
          PROVE  IsAnswerTo(slots[e].result, slots[e].id)'
      <3>1. \/ e \in DOMAIN slots /\ slots'[e] = slots[e]
            \/ /\ e \in DOMAIN slots /\ slots'[e].id = slots[e].id
               /\ slots'[e].result = slots[e].result
            \/ /\ slots'[e].id = IdentityOf(w) /\ slots'[e].result = outcome[w]
        BY <1>0, <1>2, <2>3, SettledSteps
      <3>2. CASE e \in DOMAIN slots /\ slots'[e].id = slots[e].id
                   /\ slots'[e].result = slots[e].result
        BY <1>0, <2>3, <3>2 DEF AnswersKept, IsAnswerTo, ScopeOf
      <3>3. CASE slots'[e].id = IdentityOf(w) /\ slots'[e].result = outcome[w]
        BY <1>0, <2>2, <2>3, <3>3 DEF OutcomeKept, IsAnswerTo, ScopeOf
      <3>4. QED
        BY <3>1, <3>2, <3>3
    <2>4. ASSUME NEW i \in DOMAIN cache'
          PROVE  i.model \in PinnedModels /\ IsAnswerTo(cache[i], i)'
      <3>1. CASE i \in DOMAIN cache /\ cache'[i] = cache[i]
        BY <1>0, <3>1 DEF AnswersKept, IsAnswerTo, ScopeOf
      <3>2. CASE /\ Insert(w) /\ i = CacheIdentityOf(w)
                 /\ cache'[i] = outcome[w]
        <4>1. outcome[w] \in Answer /\ Cacheable(w)
          BY <2>2, <3>2 DEF Insert, TypeInv, AtJudgedRow, OutcomeKept
        <4>2. /\ IsAnswerTo(outcome[w], IdentityOf(w))
              /\ i.model \in PinnedModels
          BY <2>2, <3>2, <4>1 DEF OutcomeKept, Cacheable, CacheIdentityOf
        <4>3. IsAnswerTo(outcome[w], i)
          BY <3>2, <4>2 DEF IsAnswerTo, IdentityOf, CacheIdentityOf
        <4>4. QED
          BY <1>0, <3>2, <4>2, <4>3 DEF IsAnswerTo, ScopeOf
      <3>3. QED
        BY <1>2, <3>1, <3>2, CacheSteps
    <2>5. QED
      BY <2>1, <2>3, <2>4 DEF AnswersKept
  <1>3. QED
    BY <1>1, <1>2 DEF Next

-----------------------------------------------------------------------------
(* EntriesOnce and RowsFromEntries.                                        *)

\* The fields of an entry.
LEMMA SlotTypes ==
  ASSUME slots \in Seq(QueryEntry), NEW e \in DOMAIN slots
  PROVE  /\ slots[e].id \in Identity
         /\ slots[e].result \in Outcome \cup {Pending}
  <1>1. slots[e] \in QueryEntry
    OBVIOUS
  <1>2. QED
    BY <1>1 DEF QueryEntry

\* QueryEntry::complete on an unsettled entry.
LEMMA SlotSettled ==
  ASSUME slots \in Seq(QueryEntry), NEW e \in DOMAIN slots,
         slots[e].result = Pending, NEW r, CompleteEntries({e}, r)
  PROVE  slots'[e].id = slots[e].id /\ slots'[e].result = r
  <1>1. slots[e] \in QueryEntry /\ slots'[e] = [slots[e] EXCEPT !.result = r]
    BY DEF CompleteEntries
  <1>2. QED
    BY <1>1 DEF QueryEntry

\* A thread that owns an entry after its step has just made it, or owned it
\* before and has not settled it.
LEMMA OwnerOrigin ==
  ASSUME TypeInv, DOMAIN out = Workers, NEW w \in Workers,
         Start(w) \/ Step(w), pc'[w] \in OwnerLabels
  PROVE  \/ /\ Claim(w) /\ pc'[w] = "flag" /\ NewEntry(IdentityOf(w))
            /\ StillActive(w) /\ entry'[w] = Len(slots) + 1
            /\ IdentityOf(w) \notin DOMAIN entries
         \/ /\ pc[w] \in OwnerLabels /\ entry'[w] = entry[w]
            /\ UNCHANGED entryVars
            /\ IdentityOf(w)' = IdentityOf(w) /\ scope' = scope
            /\ CacheIdentityOf(w)' = CacheIdentityOf(w)
            /\ (FetchFlag(w) /\ ~Fail(w)) \/ Lookup(w) \/ Hit(w) \/ Size(w)
                 \/ Acquire(w) \/ Attempt(w) \/ Call(w) \/ Response(w)
                 \/ Insert(w) \/ Release(w) \/ FailedRequest(w)
                 \/ ProviderFailure(w)
  <1>0. GroupTypeOK
    BY DEF TypeInv, TypeOK, GroupTypeOK
  <1>1. CASE (\E r : Finish(w, r)) \/ Fail(w)
    BY <1>0, <1>1, FinishData DEF OwnerLabels
  <1>2. CASE Start(w) \/ RecordInput(w) \/ RecordRows(w)
    BY <1>0, <1>2 DEF Start, RecordInput, RecordRows, Goto, GroupTypeOK,
                      OwnerLabels
  <1>3. CASE Claim(w) /\ ~Fail(w)
    BY <1>0, <1>3 DEF Claim, Goto, GroupTypeOK, OwnerLabels
  <1>4. CASE (FetchFlag(w) /\ ~Fail(w)) \/ Lookup(w) \/ Hit(w) \/ Size(w)
               \/ Acquire(w) \/ Attempt(w) \/ Call(w) \/ Response(w)
               \/ Insert(w) \/ Release(w) \/ FailedRequest(w)
               \/ ProviderFailure(w)
    <2>1. /\ UNCHANGED <<taskVars, pos, entry, out>>
          /\ IdentityOf(w)' = IdentityOf(w)
          /\ CacheIdentityOf(w)' = CacheIdentityOf(w)
      BY <1>4, SameIdentity
    <2>2. UNCHANGED entryVars
      BY <1>4 DEF FetchFlag, Lookup, Hit, Size, Acquire, Attempt, Call, Response,
                  Insert, Release, FailedRequest, ProviderFailure, runtimeVars
    <2>3. pc[w] \in OwnerLabels
      <3>1. CASE Lookup(w) \/ Call(w)
        BY <3>1 DEF Lookup, Call, OwnerLabels
      <3>2. CASE ~Lookup(w) /\ ~Call(w)
        BY <1>4, <3>2, OwnerMoves DEF OwnerLabels
      <3>3. QED
        BY <3>1, <3>2
    <2>4. QED
      BY <1>4, <2>1, <2>2, <2>3 DEF taskVars
  <1>5. QED
    BY <1>1, <1>2, <1>3, <1>4 DEF Step, Claim, FetchFlag, Wait, Complete

\* A settled entry stays as it is.
LEMMA SettledStays ==
  ASSUME TypeInv, FlightInv, [Next]_vars,
         NEW e \in DOMAIN slots, slots[e].result # Pending
  PROVE  /\ e \in DOMAIN slots'
         /\ slots'[e].id = slots[e].id /\ slots'[e].result = slots[e].result
  <1>1. CASE Begin \/ End \/ CacheClear \/ Closed \/ UNCHANGED vars
    BY <1>1 DEF Begin, HostBegin, BeginQuery, End, HostEnd, EndQuery,
                CacheClear, Closed, vars, runtimeVars, entryVars
  <1>2. ASSUME NEW w \in Workers, Start(w) \/ Step(w)
        PROVE  /\ e \in DOMAIN slots' /\ slots'[e].id = slots[e].id
               /\ slots'[e].result = slots[e].result
    <2>0. RuntimeTypeOK /\ GroupTypeOK /\ TaskTypeOK /\ AtJudgedRow
      BY DEF TypeInv, TypeOK, GroupTypeOK
    <2>1. CASE Claim(w) /\ NewEntry(IdentityOf(w))
      <3>1. IdentityOf(w) \in Identity
        BY <2>0, <2>1, IdentityTypes DEF Claim, InGroup
      <3>2. QED
        BY <2>0, <2>1, <3>1, NewEntryKeeps
    <2>2. CASE Complete(w)
      <3>1. DOMAIN slots' = DOMAIN slots
        BY <2>0, <2>2, CompleteKeeps DEF Complete, RuntimeTypeOK, GroupTypeOK
      <3>2. QED
        BY <1>2, <3>1, SettledSteps
    <2>3. QED
      BY <1>2, <2>1, <2>2, EntrySteps DEF entryVars
  <1>3. QED
    BY <1>1, <1>2 DEF Next

\* An identity that has an entry in the active query is never given another.
LEMMA EntriesOnceStep ==
  ASSUME TypeInv, FlightInv, EntriesOnce, DOMAIN out = Workers, [Next]_vars
  PROVE  EntriesOnce'
  <1>0. RuntimeTypeOK /\ GroupTypeOK /\ TaskTypeOK /\ AtJudgedRow
    BY DEF TypeInv, TypeOK, GroupTypeOK
  <1>1. CASE Begin \/ End \/ CacheClear \/ Closed \/ UNCHANGED vars
    <2>1. /\ slots' = slots /\ UNCHANGED <<pc, entry>>
          /\ \/ entries' = entries /\ active' = active /\ nextQuery' = nextQuery
             \/ active' = nextQuery /\ nextQuery' = nextQuery + 1
             \/ active' = NoQuery /\ nextQuery' = nextQuery
      BY <1>1 DEF Begin, HostBegin, BeginQuery, End, HostEnd, EndQuery,
                  CacheClear, Closed, vars, runtimeVars, queryVars, threadVars,
                  groupVars, entryVars
    <2>2. \A e \in DOMAIN slots : slots[e].id.query \in Nat
      BY <1>0, SlotTypes DEF RuntimeTypeOK, Identity
    <2>3. NoQuery \notin Nat /\ nextQuery \in Nat
      BY <1>0, RuntimeAssumption DEF RuntimeTypeOK
    <2>4. QED
      BY <2>1, <2>2, <2>3 DEF EntriesOnce, Owns
  <1>2. ASSUME NEW w \in Workers, Start(w) \/ Step(w)
        PROVE  EntriesOnce'
    <2>1. /\ active' = active /\ nextQuery' = nextQuery
          /\ \A v \in Workers : v # w => Unmoved(v)
      BY <1>2, OthersUnmoved
         DEF Start, Step, RecordInput, RecordRows, Claim, FetchFlag, Wait, Lookup,
             Hit, Size, Acquire, Attempt, Call, Response, Insert, Release,
             FailedRequest, ProviderFailure, Complete, runtimeVars, queryVars
    <2>2. ASSUME NEW v \in Workers, v # w, Owns(v)'
          PROVE  slots'[entry'[v]].result = Pending
      <3>1. Owns(v) /\ entry'[v] = entry[v]
        BY <2>1, <2>2 DEF Unmoved, Owns
      <3>2. /\ entry[v] \in DOMAIN slots /\ slots[entry[v]].result = Pending
            /\ slots[entry[v]].id = IdentityOf(v)
        BY <3>1 DEF EntriesOnce, FlightInv, EntriesMatch, Owns, Claimed
      <3>3. CASE Complete(w)
        <4>1. Owns(w) /\ pc[w] \in Claimed
          BY <3>3 DEF Complete, Owns, OwnerLabels, Claimed
        <4>2. entry[w] # entry[v]
          BY <2>2, <3>1, <3>2, <4>1 DEF FlightInv, SingleFlight, EntriesMatch
        <4>3. slots'[entry[v]] = slots[entry[v]]
          BY <1>0, <3>2, <3>3, <4>2, CompleteKeeps
             DEF Complete, RuntimeTypeOK, GroupTypeOK
        <4>4. QED
          BY <3>1, <3>2, <4>3
      <3>4. CASE Claim(w) /\ NewEntry(IdentityOf(w))
        <4>1. IdentityOf(w) \in Identity
          BY <1>0, <3>4, IdentityTypes DEF Claim, InGroup
        <4>2. QED
          BY <1>0, <3>1, <3>2, <3>4, <4>1, NewEntryKeeps
      <3>5. QED
        BY <1>2, <3>1, <3>2, <3>3, <3>4, EntrySteps DEF entryVars
    <2>3. CASE UNCHANGED entryVars
      <3>1. Owns(w)' => slots'[entry'[w]].result = Pending
        <4>1. ~NewEntry(IdentityOf(w))
          <5>1. NewEntry(IdentityOf(w)) => slots' # slots
            BY <1>0 DEF NewEntry, RuntimeTypeOK
          <5>2. QED
            BY <2>3, <5>1 DEF entryVars
        <4>2. QED
          BY <1>2, <2>3, <4>1, OwnerOrigin DEF Owns, EntriesOnce, entryVars
      <3>2. QED
        BY <2>1, <2>2, <2>3, <3>1 DEF EntriesOnce, entryVars
    <2>4. CASE /\ Claim(w) /\ StillActive(w) /\ NewEntry(IdentityOf(w))
               /\ IdentityOf(w) \notin DOMAIN entries
               /\ entry' = [entry EXCEPT ![w] = Len(slots) + 1]
      <3>1. IdentityOf(w) \in Identity
        BY <1>0, <2>4, IdentityTypes DEF Claim, InGroup
      <3>2. /\ DOMAIN slots' = DOMAIN slots \cup {Len(slots) + 1}
            /\ Len(slots) + 1 \notin DOMAIN slots
            /\ \A e \in DOMAIN slots : slots'[e] = slots[e]
            /\ slots'[Len(slots) + 1].id = IdentityOf(w)
            /\ DOMAIN entries' = DOMAIN entries \cup {IdentityOf(w)}
        BY <1>0, <2>4, <3>1, NewEntryKeeps
      <3>3. slots'[Len(slots) + 1].result = Pending
        BY <1>0, <2>4 DEF NewEntry, RuntimeTypeOK
      <3>4. /\ IdentityOf(w).query = active /\ active < nextQuery
        BY <2>4 DEF StillActive, IdentityOf, FlightInv, QueriesInOrder
      <3>5. \A e \in DOMAIN slots : slots[e].id # IdentityOf(w)
        BY <2>4, <3>4 DEF EntriesOnce
      <3>6. entry'[w] = Len(slots) + 1
        BY <1>0, <2>4 DEF GroupTypeOK
      <3>7. QED
        BY <2>1, <2>2, <3>2, <3>3, <3>4, <3>5, <3>6 DEF EntriesOnce
    <2>5. CASE Complete(w)
      <3>1. /\ DOMAIN slots' = DOMAIN slots /\ entries' = entries
            /\ \A e \in DOMAIN slots : slots'[e].id = slots[e].id
        BY <1>0, <2>5, CompleteKeeps DEF Complete, RuntimeTypeOK, GroupTypeOK
      <3>2. pc'[w] \notin OwnerLabels
        BY <1>0, <2>5, FinishData DEF Complete, OwnerLabels
      <3>3. QED
        BY <2>1, <2>2, <3>1, <3>2 DEF EntriesOnce, Owns
    <2>6. QED
      BY <1>2, <2>3, <2>4, <2>5, EntrySteps
  <1>3. QED
    BY <1>1, <1>2 DEF Next

\* The rows a thread fills when a group ends are filled with what is settled
\* in the entry of the group.
LEMMA FinishRows ==
  ASSUME TypeInv, NEW w \in Workers, DOMAIN out = Workers,
         NEW result \in Outcome, Finish(w, result), pc[w] \in Claimed,
         UNCHANGED taskVars,
         \A i \in DOMAIN out[w] :
           \E e \in DOMAIN slots' :
             /\ slots'[e].id = RowIdentity(w, i)
             /\ slots'[e].result = out[w][i]
             /\ out[w][i] \in Answer,
         result # Failed =>
           \E e \in DOMAIN slots' :
             slots'[e].id = IdentityOf(w) /\ slots'[e].result = result,
         NEW i \in DOMAIN out'[w]
  PROVE  \E e \in DOMAIN slots' :
           /\ slots'[e].id = RowIdentity(w, i)'
           /\ slots'[e].result = out'[w][i]
           /\ out'[w][i] \in Answer
  <1>0. GroupTypeOK
    BY DEF TypeInv, TypeOK, GroupTypeOK
  <1>1. RowIdentity(w, i)' = RowIdentity(w, i)
    BY DEF RowIdentity, taskVars
  <1>2. CASE i \in DOMAIN out[w] /\ out'[w][i] = out[w][i]
    BY <1>1, <1>2
  <1>3. CASE /\ result # Failed /\ i \in Targets(chunk[w], pos[w])
             /\ out'[w][i] = result
    <2>1. RowIdentity(w, i) = IdentityOf(w)
      BY <1>3 DEF RowIdentity, IdentityOf, Key, Targets
    <2>2. QED
      BY <1>1, <1>3, <2>1 DEF Outcome
  <1>4. QED
    BY <1>0, <1>2, <1>3, FinishData

\* Rows are filled from settled entries, and those do not change.
LEMMA RowsStep ==
  ASSUME TypeInv, FlightInv, EntriesOnce, RowsFromEntries, [Next]_vars
  PROVE  RowsFromEntries'
  <1>0. /\ RuntimeTypeOK /\ GroupTypeOK /\ TaskTypeOK
        /\ DOMAIN out = Workers /\ Pending \notin Outcome
    BY RuntimeAssumption DEF TypeInv, TypeOK, GroupTypeOK, RowsFromEntries
  <1>1. ASSUME NEW w \in Workers, NEW i \in DOMAIN out[w]
        PROVE  \E e \in DOMAIN slots' :
                 /\ slots'[e].id = RowIdentity(w, i)
                 /\ slots'[e].result = out[w][i]
                 /\ out[w][i] \in Answer
    <2>1. PICK e \in DOMAIN slots : /\ slots[e].id = RowIdentity(w, i)
                                    /\ slots[e].result = out[w][i]
                                    /\ out[w][i] \in Answer
      BY <1>1 DEF RowsFromEntries
    <2>2. slots[e].result # Pending
      BY <1>0, <2>1 DEF Outcome
    <2>3. QED
      BY <2>1, <2>2, SettledStays
  <1>2. CASE Begin \/ End \/ CacheClear \/ Closed \/ UNCHANGED vars
    <2>1. out' = out /\ UNCHANGED taskVars
      BY <1>2 DEF Begin, HostBegin, BeginQuery, End, HostEnd, EndQuery,
                  CacheClear, Closed, vars, runtimeVars, threadVars, groupVars
    <2>2. QED
      BY <1>0, <1>1, <2>1 DEF RowsFromEntries, RowIdentity, taskVars
  <1>3. ASSUME NEW w \in Workers, Start(w) \/ Step(w)
        PROVE  RowsFromEntries'
    <2>1. DOMAIN out' = Workers /\ \A v \in Workers : v # w => Untouched(v)
      BY <1>0, <1>3, OthersUntouched
    <2>2. ASSUME NEW i \in DOMAIN out'[w]
          PROVE  \E e \in DOMAIN slots' :
                   /\ slots'[e].id = RowIdentity(w, i)'
                   /\ slots'[e].result = out'[w][i]
                   /\ out'[w][i] \in Answer
      <3>1. CASE UNCHANGED taskVars /\ out'[w] = out[w]
        BY <1>1, <2>2, <3>1 DEF RowIdentity, taskVars
      <3>2. CASE out'[w] = EmptyMap
        BY <2>2, <3>2 DEF EmptyMap
      <3>3. CASE Start(w)
        BY <1>0, <3>2, <3>3 DEF Start
      <3>4. CASE Fail(w)
        BY <1>0, <3>2, <3>4 DEF Fail
      <3>5. CASE Wait(w)
        <4>1. /\ UNCHANGED taskVars /\ UNCHANGED slots
              /\ pc[w] \in Claimed /\ entry[w] \in DOMAIN slots
              /\ slots[entry[w]].id = IdentityOf(w)
          BY <3>5 DEF Wait, runtimeVars, entryVars, Claimed, FlightInv,
                      EntriesMatch
        <4>2. slots[entry[w]].result \in Outcome \cup {Pending}
          BY <1>0, <4>1, SlotTypes DEF RuntimeTypeOK
        <4>3. PICK r \in Outcome :
                /\ Finish(w, r)
                /\ r # Failed => r = slots[entry[w]].result
          BY <3>5, <4>2 DEF Wait, Outcome
        <4>4. QED
          BY <1>0, <1>1, <2>2, <4>1, <4>3, FinishRows
      <3>6. CASE Complete(w)
        <4>1. /\ UNCHANGED taskVars /\ pc[w] \in Claimed /\ Owns(w)
              /\ Finish(w, outcome[w]) /\ outcome[w] \in Outcome
          BY <1>0, <3>6 DEF Complete, Claimed, OwnerLabels, Owns, GroupTypeOK
        <4>2. /\ entry[w] \in DOMAIN slots
              /\ slots[entry[w]].id = IdentityOf(w)
              /\ slots[entry[w]].result = Pending
          BY <4>1 DEF FlightInv, EntriesMatch, EntriesOnce
        <4>3. DOMAIN slots' = DOMAIN slots
          BY <1>0, <3>6, CompleteKeeps DEF Complete, RuntimeTypeOK, GroupTypeOK
        <4>4. /\ slots'[entry[w]].id = IdentityOf(w)
              /\ slots'[entry[w]].result = outcome[w]
          BY <1>0, <3>6, <4>2, SlotSettled DEF Complete, RuntimeTypeOK
        <4>5. QED
          BY <1>0, <1>1, <2>2, <4>1, <4>2, <4>3, <4>4, FinishRows
      <3>7. CASE Step(w) /\ ~Wait(w) /\ ~Complete(w) /\ ~Fail(w)
        <4>1. UNCHANGED taskVars /\ out' = out
          BY <3>7
             DEF Step, RecordInput, RecordRows, Claim, FetchFlag, Lookup, Hit,
                 Size, Acquire, Attempt, Call, Response, Insert, Release,
                 FailedRequest, ProviderFailure, groupVars
        <4>2. QED
          BY <3>1, <4>1
      <3>8. QED
        BY <1>3, <3>3, <3>4, <3>5, <3>6, <3>7
    <2>3. ASSUME NEW v \in Workers, v # w, NEW i \in DOMAIN out'[v]
          PROVE  \E e \in DOMAIN slots' :
                   /\ slots'[e].id = RowIdentity(v, i)'
                   /\ slots'[e].result = out'[v][i]
                   /\ out'[v][i] \in Answer
      <3>1. out'[v] = out[v] /\ RowIdentity(v, i)' = RowIdentity(v, i)
        BY <2>1, <2>3 DEF Untouched, RowIdentity
      <3>2. QED
        BY <1>1, <2>3, <3>1
    <2>4. QED
      BY <2>1, <2>2, <2>3 DEF RowsFromEntries
  <1>4. QED
    BY <1>2, <1>3 DEF Next

-----------------------------------------------------------------------------
(* The cache and the queries its answers come from.                        *)

\* The same identity, seen from the entry and from the cache.
LEMMA SameCacheIdentity ==
  ASSUME NEW v, NEW w, scope[v] = scope[w],
         CacheIdentityOf(v) = CacheIdentityOf(w)
  PROVE  IdentityOf(v) = IdentityOf(w)
  BY DEF CacheIdentityOf, IdentityOf

\* What is in the cache after a thread's step is of an earlier query, or of
\* an identity that has its entry in this one.
LEMMA CacheQueriesStep ==
  ASSUME TypeInv, FlightInv, CacheOfOthers, NEW w \in Workers,
         Start(w) \/ Step(w), NEW i \in DOMAIN cache'
  PROVE  /\ cache'[i].query < nextQuery'
         /\ cache'[i].query = active' =>
              EntryIdentity(i, active') \in DOMAIN entries'
  <1>0. RuntimeTypeOK /\ GroupTypeOK /\ TaskTypeOK /\ AtJudgedRow
    BY DEF TypeInv, TypeOK, GroupTypeOK
  <1>1. active' = active /\ nextQuery' = nextQuery
    BY DEF Start, Step, RecordInput, RecordRows, Claim, FetchFlag, Wait, Lookup,
           Hit, Size, Acquire, Attempt, Call, Response, Insert, Release,
           FailedRequest, ProviderFailure, Complete, runtimeVars, queryVars
  <1>2. DOMAIN entries \subseteq DOMAIN entries'
    BY EntrySteps DEF entryVars, NewEntry, Complete
  <1>3. CASE i \in DOMAIN cache /\ cache'[i] = cache[i]
    BY <1>1, <1>2, <1>3 DEF CacheOfOthers
  <1>4. CASE Insert(w) /\ i = CacheIdentityOf(w) /\ cache'[i] = outcome[w]
    <2>1. pc[w] = "insert" /\ outcome[w] # Failed
      BY <1>0, <1>4, RuntimeAssumption DEF Insert, AtJudgedRow
    <2>2. outcome[w].query = scope[w] /\ scope[w] < nextQuery
      BY <2>1 DEF CacheOfOthers, FlightInv, QueriesInOrder
    <2>3. scope[w] = active => IdentityOf(w) \in DOMAIN entries
      BY <2>1 DEF FlightInv, EntriesMatch, Owns, OwnerLabels
    <2>4. EntryIdentity(i, scope[w]) = IdentityOf(w)
      BY <1>4 DEF EntryIdentity, IdentityOf, CacheIdentityOf
    <2>5. QED
      BY <1>1, <1>2, <1>4, <2>2, <2>3, <2>4
  <1>5. QED
    BY <1>3, <1>4, CacheSteps

\* The conditions CacheOfOthers and HitsComeFromOtherQueries put on a thread.
AsksFresh(w) ==
  /\ pc[w] \in BeforeLookup /\ CacheIdentityOf(w) \in DOMAIN cache =>
       cache[CacheIdentityOf(w)].query # scope[w]
  /\ pc[w] \in BeforeLookup \cup {"size", "acquire", "attempt", "call"}
       => outcome[w] = Failed
  /\ pc[w] \in {"response", "insert"} /\ outcome[w] # Failed =>
       outcome[w].query = scope[w]
  /\ pc[w] = "hit" => outcome[w].query # scope[w]

\* The thread that moves: it claims what no entry of its query stands for,
\* so nothing in the cache is of its query, or it goes on with its entry.
LEMMA AsksFreshStep ==
  ASSUME TypeInv, FlightInv, AnswersKept, CacheOfOthers, DOMAIN out = Workers,
         NEW w \in Workers, Start(w) \/ Step(w), AsksFresh(w)
  PROVE  AsksFresh(w)'
  <1>0. GroupTypeOK /\ RuntimeTypeOK
    BY DEF TypeInv, TypeOK, GroupTypeOK
  <1> USE DEF BeforeLookup
  <1>1. CASE pc'[w] \notin OwnerLabels
    BY <1>1 DEF AsksFresh, OwnerLabels
  <1>2. CASE /\ Claim(w) /\ pc'[w] = "flag" /\ NewEntry(IdentityOf(w))
             /\ StillActive(w) /\ IdentityOf(w) \notin DOMAIN entries
    <2>1. pc' # [pc EXCEPT ![w] = "failed"]
      BY <1>0, <1>2 DEF GroupTypeOK
    <2>2. /\ ~Fail(w) /\ UNCHANGED <<cache, taskVars, pos, outcome>>
          /\ pc[w] = "claim" /\ scope[w] = active
      BY <1>2, <2>1 DEF Claim, Fail, Goto, StillActive
    <2>3. /\ CacheIdentityOf(w)' = CacheIdentityOf(w) /\ scope' = scope
          /\ EntryIdentity(CacheIdentityOf(w), active) = IdentityOf(w)
      BY <2>2 DEF CacheIdentityOf, EntryIdentity, IdentityOf, Key, taskVars
    <2>4. outcome[w] = Failed
      BY <2>2 DEF AnswersKept, OutcomeKept, OwnerLabels
    <2>5. CacheIdentityOf(w) \in DOMAIN cache =>
            cache[CacheIdentityOf(w)].query # active
      BY <1>2, <2>3 DEF CacheOfOthers
    <2>6. QED
      BY <1>2, <2>2, <2>3, <2>4, <2>5 DEF AsksFresh
  <1>3. CASE /\ pc[w] \in OwnerLabels /\ scope' = scope
             /\ CacheIdentityOf(w)' = CacheIdentityOf(w)
             /\ (FetchFlag(w) /\ ~Fail(w)) \/ Hit(w) \/ Size(w) \/ Acquire(w)
                  \/ Attempt(w) \/ Response(w) \/ Insert(w) \/ Release(w)
                  \/ FailedRequest(w) \/ ProviderFailure(w)
    <2>1. /\ outcome' = outcome
          /\ pc'[w] \in BeforeLookup => pc[w] \in BeforeLookup
          /\ pc'[w] \in {"size", "acquire", "attempt", "call"} =>
               pc[w] \in {"flag", "size", "acquire", "attempt"}
          /\ pc'[w] = "insert" => pc[w] = "response"
          /\ pc'[w] \notin {"response", "hit"}
      BY <1>3, OwnerMoves
    <2>2. pc'[w] \in BeforeLookup => cache' = cache
      BY <1>0, <1>3
         DEF FetchFlag, Hit, Size, Acquire, Attempt, Response, Insert, Release,
             FailedRequest, ProviderFailure, Goto, GroupTypeOK, runtimeVars
    <2>3. QED
      BY <1>3, <2>1, <2>2 DEF AsksFresh
  <1>4. CASE Lookup(w) /\ scope' = scope
    <2>1. pc[w] = "lookup" /\ outcome[w] = Failed
      BY <1>4 DEF Lookup, AsksFresh
    <2>2. CASE Goto(w, "size") /\ UNCHANGED outcome
      BY <1>0, <2>1, <2>2 DEF Goto, GroupTypeOK, AsksFresh
    <2>3. CASE /\ Goto(w, "hit") /\ CacheIdentityOf(w) \in DOMAIN cache'
               /\ outcome' = [outcome EXCEPT ![w] = cache[CacheIdentityOf(w)]]
      <3>1. CacheIdentityOf(w) \in DOMAIN cache
        BY <1>0, <1>4, <2>3, CacheTypes DEF Lookup
      <3>2. /\ outcome'[w] = cache[CacheIdentityOf(w)] /\ pc'[w] = "hit"
            /\ cache[CacheIdentityOf(w)].query # scope[w]
        BY <1>0, <2>1, <2>3, <3>1 DEF Goto, GroupTypeOK, AsksFresh
      <3>3. QED
        BY <1>4, <3>2 DEF AsksFresh
    <2>4. QED
      BY <1>4, <2>2, <2>3 DEF Lookup
  <1>5. CASE Call(w) /\ scope' = scope
    <2>1. pc'[w] \in {"release", "response"} /\ outcome[w] = Failed
      BY <1>0, <1>5 DEF Call, Goto, GroupTypeOK, AsksFresh
    <2>2. outcome'[w] = Failed \/ outcome'[w].query = scope[w]
      <3>1. CASE UNCHANGED outcome
        BY <2>1, <3>1
      <3>2. ASSUME NEW v \in Values,
                   outcome' = [outcome EXCEPT ![w] =
                     [key |-> Key(w), model |-> ctx[w].model,
                      cred |-> ctx[w].cred, query |-> scope[w], val |-> v]]
            PROVE  outcome'[w].query = scope[w]
        BY <1>0, <3>2 DEF GroupTypeOK
      <3>3. QED
        BY <1>5, <3>1, <3>2 DEF Call
    <2>3. QED
      BY <1>5, <2>1, <2>2 DEF AsksFresh
  <1>6. QED
    BY <1>1, <1>2, <1>3, <1>4, <1>5, OwnerOrigin

HitInv == CacheOfOthers /\ HitsComeFromOtherQueries

\* CacheOfOthers, and with it HitsComeFromOtherQueries.
LEMMA CacheOfOthersStep ==
  ASSUME TypeInv, FlightInv, AnswersKept, HitInv, DOMAIN out = Workers,
         [Next]_vars
  PROVE  HitInv'
  <1>0. RuntimeTypeOK /\ GroupTypeOK
    BY DEF TypeInv, TypeOK, GroupTypeOK
  <1>1. CASE Begin \/ End \/ CacheClear \/ Closed \/ UNCHANGED vars
    <2>1. /\ UNCHANGED <<pc, outcome, pos, taskVars>>
          /\ cache' = EmptyMap
               \/ /\ cache' = cache
                  /\ \/ /\ entries' = entries /\ active' = active
                        /\ nextQuery' = nextQuery
                     \/ active' = nextQuery /\ nextQuery' = nextQuery + 1
                     \/ active' = NoQuery /\ nextQuery' = nextQuery
      BY <1>1 DEF Begin, HostBegin, BeginQuery, End, HostEnd, EndQuery,
                  CacheClear, ClearCache, Closed, vars, runtimeVars, queryVars,
                  threadVars, groupVars, entryVars
    <2>2. \A i \in DOMAIN cache : cache[i].query \in Nat
      BY <1>0 DEF RuntimeTypeOK, Answer
    <2>3. NoQuery \notin Nat /\ nextQuery \in Nat
      BY <1>0, RuntimeAssumption DEF RuntimeTypeOK
    <2>4. \A w \in Workers : CacheIdentityOf(w)' = CacheIdentityOf(w)
      BY <2>1 DEF CacheIdentityOf, Key, taskVars
    <2>5. \A i \in DOMAIN cache' :
            /\ cache'[i].query < nextQuery'
            /\ cache'[i].query = active' =>
                 EntryIdentity(i, active') \in DOMAIN entries'
      BY <2>1, <2>2, <2>3 DEF HitInv, CacheOfOthers, EmptyMap
    <2>6. \A w \in Workers : AsksFresh(w)'
      BY <2>1, <2>4 DEF HitInv, CacheOfOthers, HitsComeFromOtherQueries,
                        AsksFresh, EmptyMap, taskVars
    <2>7. QED
      BY <2>5, <2>6 DEF HitInv, CacheOfOthers, HitsComeFromOtherQueries, AsksFresh
  <1>2. ASSUME NEW w \in Workers, Start(w) \/ Step(w)
        PROVE  HitInv'
    <2>1. ASSUME NEW v \in Workers
          PROVE  AsksFresh(v)'
      <3>0. AsksFresh(v)
        BY DEF HitInv, CacheOfOthers, HitsComeFromOtherQueries, AsksFresh
      <3>1. CASE v = w
        BY <1>2, <3>0, <3>1, AsksFreshStep DEF HitInv
      <3>2. CASE v # w
        <4>1. Unmoved(v) /\ Untouched(v)
          BY <1>2, <3>2, OthersUnmoved, OthersUntouched
        <4>2. CacheIdentityOf(v)' = CacheIdentityOf(v)
          BY <4>1 DEF Unmoved, CacheIdentityOf, IdentityOf
        <4>3. ASSUME pc[v] \in BeforeLookup, CacheIdentityOf(v) \in DOMAIN cache'
              PROVE  cache'[CacheIdentityOf(v)].query # scope[v]
          <5>1. CASE CacheIdentityOf(v) \in DOMAIN cache
                     /\ cache'[CacheIdentityOf(v)] = cache[CacheIdentityOf(v)]
            BY <3>0, <4>3, <5>1 DEF AsksFresh
          <5>2. CASE /\ Insert(w) /\ CacheIdentityOf(v) = CacheIdentityOf(w)
                     /\ cache'[CacheIdentityOf(v)] = outcome[w]
            <6>1. pc[w] = "insert" /\ outcome[w] # Failed /\ Owns(w) /\ Owns(v)
              BY <4>3, <5>2, RuntimeAssumption
                 DEF Insert, TypeInv, AtJudgedRow, Owns, OwnerLabels,
                     BeforeLookup
            <6>2. outcome[w].query = scope[w]
              BY <6>1 DEF HitInv, CacheOfOthers
            <6>3. scope[v] # scope[w]
              BY <3>2, <5>2, <6>1, SameCacheIdentity DEF FlightInv, SingleFlight
            <6>4. QED
              BY <5>2, <6>2, <6>3
          <5>3. QED
            BY <1>2, <4>3, <5>1, <5>2, CacheSteps
        <4>4. QED
          BY <3>0, <4>1, <4>2, <4>3 DEF Unmoved, Untouched, AsksFresh
      <3>3. QED
        BY <3>1, <3>2
    <2>2. \A i \in DOMAIN cache' :
            /\ cache'[i].query < nextQuery'
            /\ cache'[i].query = active' =>
                 EntryIdentity(i, active') \in DOMAIN entries'
      BY <1>2, CacheQueriesStep DEF HitInv
    <2>3. QED
      BY <2>1, <2>2 DEF HitInv, CacheOfOthers, HitsComeFromOtherQueries, AsksFresh
  <1>3. QED
    BY <1>1, <1>2 DEF Next

-----------------------------------------------------------------------------
(* The theorems.                                                           *)

LEMMA AnswerInit == Init => AnswerInv
  <1> SUFFICES ASSUME Init PROVE AnswerInv
    OBVIOUS
  <1>1. TypeInv /\ FlightInv
    BY InitTypes, FlightInit
  <1>2. /\ cache = EmptyMap /\ entries = EmptyMap /\ slots = << >>
        /\ credScope = 1 /\ nextScope = 2 /\ fingerprint = NoCred
        /\ pc = [w \in Workers |-> "idle"]
        /\ ctx = [w \in Workers |-> CHOOSE x \in Contexts : TRUE]
        /\ cscope = [w \in Workers |-> 0]
        /\ outcome = [w \in Workers |-> Failed]
        /\ out = [w \in Workers |-> EmptyMap]
    BY DEF Init, ThreadsInit, RuntimeInit
  <1>3. ScopesApart
    BY <1>2 DEF ScopesApart, ScopeOf
  <1>4. AnswersKept
    BY <1>2, RuntimeAssumption DEF AnswersKept, OutcomeKept, EmptyMap
  <1>5. EntriesOnce
    BY <1>2 DEF EntriesOnce, Owns, OwnerLabels
  <1>6. RowsFromEntries
    BY <1>2 DEF RowsFromEntries, EmptyMap
  <1>7. CacheOfOthers /\ HitsComeFromOtherQueries
    BY <1>2 DEF CacheOfOthers, HitsComeFromOtherQueries, BeforeLookup, EmptyMap
  <1>8. QED
    BY <1>1, <1>3, <1>4, <1>5, <1>6, <1>7 DEF AnswerInv

\* Every step keeps the invariant about answers.
LEMMA AnswerStep == AnswerInv /\ [Next]_vars => AnswerInv'
  <1> SUFFICES ASSUME AnswerInv, [Next]_vars PROVE AnswerInv'
    OBVIOUS
  <1>1. DOMAIN out = Workers /\ HitInv
    BY DEF AnswerInv, RowsFromEntries, HitInv
  <1>2. TypeInv' /\ FlightInv'
    BY TypeStep, FlightStep DEF AnswerInv
  <1>3. ScopesApart' /\ AnswersKept' /\ EntriesOnce' /\ RowsFromEntries' /\ HitInv'
    BY <1>1, ScopesStep, AnswersStep, EntriesOnceStep, RowsStep,
       CacheOfOthersStep DEF AnswerInv
  <1>4. QED
    BY <1>2, <1>3 DEF AnswerInv, HitInv

\* The invariant about answers, with those it is built on, always holds.
LEMMA AnswerInvariant == Spec => []AnswerInv
  BY AnswerInit, AnswerStep, PTL DEF Spec

\* What the entry of a row says of the answer in the row.
LEMMA RowAnswer ==
  ASSUME AnswerInv, NEW w \in Workers, NEW i \in DOMAIN out[w]
  PROVE  IsAnswerTo(out[w][i], RowIdentity(w, i))
  BY DEF AnswerInv, RowsFromEntries, AnswersKept

\* Through the entry, the cache and a credential rotated while a request is
\* under way, a row of run_optimized only ever gets an answer to its own
\* content, given by its own model and asked for with its own credential.
THEOREM RowsGetRightAnswers == Spec => []RightAnswer
  <1>1. AnswerInv => RightAnswer
    <2> SUFFICES ASSUME AnswerInv, NEW w \in Workers, NEW i \in DOMAIN out[w]
                 PROVE  /\ out[w][i].key = chunk[w][i]
                        /\ out[w][i].model = ctx[w].model
                        /\ out[w][i].cred = ctx[w].cred
      BY DEF RightAnswer
    <2>1. IsAnswerTo(out[w][i], RowIdentity(w, i))
      BY RowAnswer
    <2>2. QED
      BY <2>1 DEF IsAnswerTo, RowIdentity, ScopeOf
  <1>2. QED
    BY <1>1, AnswerInvariant, PTL

\* The threads of one query that judge the same content in the same context
\* publish the same answer, whatever the provider would have said to each:
\* claim_query_entry makes one entry per identity, and it is settled once.
THEOREM QueriesAgree == Spec => []OneAnswerPerIdentity
  <1>1. AnswerInv => OneAnswerPerIdentity
    <2> SUFFICES ASSUME AnswerInv, NEW v \in Workers, NEW w \in Workers,
                        scope[v] = scope[w], cscope[v] = cscope[w],
                        ctx[v] = ctx[w],
                        NEW i \in DOMAIN out[v], NEW j \in DOMAIN out[w],
                        chunk[v][i] = chunk[w][j]
                 PROVE  out[v][i] = out[w][j]
      BY DEF OneAnswerPerIdentity
    <2>1. PICK e \in DOMAIN slots : /\ slots[e].id = RowIdentity(v, i)
                                    /\ slots[e].result = out[v][i]
      BY DEF AnswerInv, RowsFromEntries
    <2>2. PICK f \in DOMAIN slots : /\ slots[f].id = RowIdentity(w, j)
                                    /\ slots[f].result = out[w][j]
      BY DEF AnswerInv, RowsFromEntries
    <2>3. RowIdentity(v, i) = RowIdentity(w, j)
      BY DEF RowIdentity
    <2>4. QED
      BY <2>1, <2>2, <2>3 DEF AnswerInv, EntriesOnce
  <1>2. QED
    BY <1>1, AnswerInvariant, PTL

\* Without a stable model identity no answer outlives the query it was given
\* in: the cache holds answers of pinned models only (cache_identity_for).
THEOREM AliasesAreAskedAgain == Spec => []AliasAskedPerQuery
  <1>1. AnswerInv => AliasAskedPerQuery
    <2> SUFFICES ASSUME AnswerInv, NEW w \in Workers, NEW i \in DOMAIN out[w],
                        ctx[w].model \notin PinnedModels
                 PROVE  out[w][i].query = scope[w]
      BY DEF AliasAskedPerQuery
    <2>1. IsAnswerTo(out[w][i], RowIdentity(w, i))
      BY RowAnswer
    <2>2. QED
      BY <2>1 DEF IsAnswerTo, RowIdentity
  <1>2. QED
    BY <1>1, AnswerInvariant, PTL

\* What a query counts as a cache hit was answered in another one: within a
\* query execute_one_group shares the entry, which is no hit.
THEOREM HitsAreOfOtherQueries == Spec => []HitsComeFromOtherQueries
  <1>1. AnswerInv => HitsComeFromOtherQueries
    BY DEF AnswerInv
  <1>2. QED
    BY <1>1, AnswerInvariant, PTL

-----------------------------------------------------------------------------
(* The parts of the invariant.                                             *)

\* The locals of a thread by where it is: a result only after a hit or a
\* response, a response only where its usage figures are still wanted.
LocalsOf(w) ==
  /\ pc[w] \notin {"hit", "response", "insert", "release", "complete"} =>
       outcome[w] = Failed
  /\ pc[w] \notin {"response", "insert", "release", "failed_request",
                   "complete"} => reply[w] = "none"
  /\ pc[w] \in {"response", "insert"} => reply[w] # "none"
  /\ pc[w] = "release" /\ reply[w] = "none" => outcome[w] = Failed
  /\ pc[w] = "rows" => ~HasBadRow(chunk[w])
  /\ pc[w] \in InGroup => pos[w] \in Leads(chunk[w])

Locals == \A w \in Workers : LocalsOf(w)

\* Query ids, the queries the ledger knows, and those of the snapshots.
QueriesPast ==
  /\ active # NoQuery => active < nextQuery /\ active \in 0..MaxQueries
  /\ \A w \in Workers : scope[w] < nextQuery
  /\ \A q \in 0..MaxQueries : q >= nextQuery =>
       ledger[q] = [sent |-> 0, billed |-> 0]
  /\ \A s \in lastQuery :
       s.query < nextQuery /\ s.query # active /\ s.query \in 0..MaxQueries

\* Requests that were attempted and have had no response that was counted.
Unanswered ==
  {w \in Workers :
     /\ scope[w] = active
     /\ \/ pc[w] \in {"call", "response"}
        \/ pc[w] \in {"release", "failed_request"} /\ reply[w] = "none"}

\* Requests that were billed or not, and will never have a response.
Unheard ==
  {w \in Workers :
     /\ scope[w] = active
     /\ pc[w] \in {"release", "failed_request"} /\ reply[w] = "none"}

SentCounted ==
  External /\ active # NoQuery =>
    counts.external_requests >= ledger[active].sent + Cardinality(Ours({"call"}))

AnswersCounted ==
  /\ ~External => counts.external_requests = 0
  /\ External =>
       counts.external_requests >= counts.usage_response_count
                                   + Cardinality(Unanswered)

\* As long as no request failed and no figures were missing, what was billed
\* is what was counted, what is about to be, and at most one for each request
\* that will not be heard of.
TokensCounted ==
  active # NoQuery /\ counts.failed_requests = 0
    /\ counts.usage_missing_count = 0 /\ External =>
    /\ ledger[active].billed >= counts.tokens + Cardinality(Ours({"response"}))
    /\ ledger[active].billed <= counts.tokens + Cardinality(Ours({"response"}))
                                + Cardinality(Unheard)

BillInv ==
  /\ TypeInv /\ Locals /\ QueriesPast
  /\ SentCounted /\ AnswersCounted /\ TokensCounted
  /\ RequestsCounted /\ CostCoversBilling

-----------------------------------------------------------------------------
(* Rows and judgments.                                                     *)

\* What each thread has, by thread.
Pairs(F) == UNION {{w} \X F[w] : w \in DOMAIN F}

\* A thread of the active query is bound to fail its statement.
Doomed ==
  \E w \in Workers :
    /\ scope[w] = active
    /\ \/ pc[w] = "failed"
       \/ /\ pc[w] \in {"release", "failed_request", "provider_failure",
                        "complete"}
          /\ outcome[w] = Failed

\* Rows read and not classified yet, and groups not claimed yet, each with
\* the thread it belongs to.
Rows(w) == IF scope[w] = active /\ pc[w] = "rows" THEN DOMAIN chunk[w] ELSE {}

Groups(w) ==
  IF scope[w] = active /\ pc[w] \in InGroup
  THEN {i \in Leads(chunk[w]) : i > pos[w] \/ (i = pos[w] /\ pc[w] = "claim")}
  ELSE {}

RowsAhead == Pairs([w \in Workers |-> Rows(w)])

GroupsAhead == Pairs([w \in Workers |-> Groups(w)])

Unasked == Ours({"flag", "lookup", "hit", "size", "acquire", "attempt"})

RowsCounted ==
  counts.input_rows = counts.null_rows + counts.valid_rows
                      + Cardinality(RowsAhead)

GroupsCounted ==
  counts.valid_rows = counts.unique_judgments + counts.deduplicated_rows
                      + Cardinality(GroupsAhead)

JudgmentsCounted ==
  counts.unique_judgments = counts.cache_hit_judgments
                            + counts.provider_invocations
                            + Cardinality(Unasked)

FailuresDoom == counts.failed_requests > 0 => Doomed

BalanceInv ==
  /\ TypeInv /\ Locals /\ QueriesPast
  /\ ~Doomed => RowsCounted /\ GroupsCounted /\ JudgmentsCounted
  /\ FailuresDoom /\ SnapshotBalanced

-----------------------------------------------------------------------------
(* Where threads are and what their locals hold.                           *)

\* What a thread's step leaves alone of another.
Alone(v) ==
  /\ pc'[v] = pc[v] /\ pos'[v] = pos[v] /\ scope'[v] = scope[v]
  /\ chunk'[v] = chunk[v] /\ outcome'[v] = outcome[v] /\ reply'[v] = reply[v]

\* The end of a group, or the thread's chunk, writes the thread's locals only
\* and unsets them.
LEMMA FinishLocals ==
  ASSUME GroupTypeOK, NEW w \in Workers, NEW r, Finish(w, r) \/ Fail(w)
  PROVE  /\ \A v \in Workers : v # w =>
              /\ pc'[v] = pc[v] /\ pos'[v] = pos[v]
              /\ outcome'[v] = outcome[v] /\ reply'[v] = reply[v]
         /\ outcome'[w] = Failed /\ reply'[w] = "none"
         /\ \/ pc'[w] = "failed" /\ pos' = pos /\ (Fail(w) \/ r = Failed)
            \/ pc'[w] = "done" /\ pos' = pos /\ LaterLeads(w) = {}
            \/ pc'[w] = "claim" /\ TakeFirst(w, LaterLeads(w))
         /\ Fail(w) \/ r = Failed => pc'[w] = "failed"
  <1>1. CASE Fail(w)
    BY <1>1 DEF Fail, EndGroup, Goto, GroupTypeOK
  <1>2. CASE r # Failed /\ Advance(w, r)
    <2>1. ~Fail(w)
      <3>1. pc'[w] # "failed"
        BY <1>2 DEF Advance, Goto, GroupTypeOK
      <3>2. QED
        BY <3>1 DEF Fail, Goto, GroupTypeOK
    <2>2. QED
      BY <1>2, <2>1 DEF Advance, EndGroup, Goto, TakeFirst, GroupTypeOK
  <1>3. QED
    BY <1>1, <1>2 DEF Finish

\* Threads write their own locals only.
LEMMA OthersAlone ==
  ASSUME TypeInv, NEW w \in Workers, Start(w) \/ Step(w)
  PROVE  \A v \in Workers : v # w => Alone(v)
  <1>0. GroupTypeOK /\ TaskTypeOK
    BY DEF TypeInv, TypeOK, GroupTypeOK
  <1>1. \A v \in Workers : v # w =>
          scope'[v] = scope[v] /\ chunk'[v] = chunk[v]
    <2>1. CASE Start(w)
      BY <1>0, <2>1 DEF Start, TaskTypeOK
    <2>2. CASE Step(w)
      BY <2>2
         DEF Step, RecordInput, RecordRows, Claim, FetchFlag, Wait, Lookup, Hit,
             Size, Acquire, Attempt, Call, Response, Insert, Release,
             FailedRequest, ProviderFailure, Complete, taskVars
    <2>3. QED
      BY <2>1, <2>2
  <1>2. \A v \in Workers : v # w =>
          /\ pc'[v] = pc[v] /\ pos'[v] = pos[v]
          /\ outcome'[v] = outcome[v] /\ reply'[v] = reply[v]
    <2>1. CASE (\E r : Finish(w, r)) \/ Fail(w)
      BY <1>0, <2>1, FinishLocals
    <2>2. CASE Start(w)
      BY <1>0, <2>2 DEF Start, EndGroup, Goto, GroupTypeOK
    <2>3. CASE Claim(w) \/ FetchFlag(w) \/ Wait(w) \/ Complete(w)
      BY <1>0, <2>1, <2>3 DEF Claim, FetchFlag, Wait, Complete, groupVars, Goto,
                              GroupTypeOK
    <2>4. CASE Lookup(w) \/ Call(w) \/ RecordRows(w)
      BY <1>0, <2>4 DEF Lookup, Call, RecordRows, TakeFirst, Goto, GroupTypeOK
    <2>5. CASE RecordInput(w) \/ Hit(w) \/ Size(w)
                 \/ Acquire(w) \/ Attempt(w) \/ Response(w) \/ Insert(w)
                 \/ Release(w) \/ FailedRequest(w) \/ ProviderFailure(w)
      BY <1>0, <2>5
         DEF RecordInput, Hit, Size, Acquire, Attempt, Response, Insert,
             Release, FailedRequest, ProviderFailure, groupVars, Goto,
             GroupTypeOK
    <2>6. QED
      BY <2>2, <2>3, <2>4, <2>5 DEF Step
  <1>3. QED
    BY <1>1, <1>2 DEF Alone

\* A thread's own step keeps its locals in order.
LEMMA OwnLocals ==
  ASSUME TypeInv, NEW w \in Workers, LocalsOf(w), Step(w)
  PROVE  LocalsOf(w)'
  <1>0. GroupTypeOK /\ TaskTypeOK
    BY DEF TypeInv, TypeOK, GroupTypeOK
  <1>1. chunk' = chunk
    BY DEF Step, RecordInput, RecordRows, Claim, FetchFlag, Wait, Lookup, Hit,
           Size, Acquire, Attempt, Call, Response, Insert, Release,
           FailedRequest, ProviderFailure, Complete, taskVars
  <1> USE DEF LocalsOf
  <1>2. ASSUME (\E r : Finish(w, r)) \/ Fail(w)
        PROVE  LocalsOf(w)'
    <2>1. PICK r : Finish(w, r) \/ Fail(w)
      BY <1>2
    <2>2. pc'[w] = "claim" => pos'[w] \in Leads(chunk[w])
      <3>1. TakeFirst(w, LaterLeads(w)) => pos'[w] \in Leads(chunk[w])
        BY <1>0 DEF TakeFirst, LaterLeads, GroupTypeOK
      <3>2. QED
        BY <1>0, <2>1, <3>1, FinishLocals
    <2>3. /\ outcome'[w] = Failed /\ reply'[w] = "none"
          /\ pc'[w] \in {"failed", "done", "claim"}
      BY <1>0, <2>1, FinishLocals
    <2>4. QED
      BY <1>1, <2>2, <2>3 DEF InGroup, Claimed, OwnerLabels
  <1>3. CASE RecordInput(w)
    BY <1>0, <1>1, <1>3
       DEF RecordInput, Goto, groupVars, GroupTypeOK, InGroup, Claimed,
           OwnerLabels
  <1>4. CASE RecordRows(w)
    <2>1. /\ outcome' = outcome /\ reply' = reply /\ pc[w] = "rows"
          /\ \/ pc'[w] \in {"done", "failed"}
             \/ pc'[w] = "claim" /\ TakeFirst(w, Leads(chunk[w]))
      BY <1>0, <1>4 DEF RecordRows, Goto, GroupTypeOK
    <2>2. TakeFirst(w, Leads(chunk[w])) => pos'[w] \in Leads(chunk[w])
      BY <1>0 DEF TakeFirst, GroupTypeOK
    <2>3. QED
      BY <1>1, <2>1, <2>2 DEF InGroup, Claimed, OwnerLabels
  <1>5. CASE Claim(w) \/ FetchFlag(w)
    <2>1. CASE Fail(w)
      BY <1>2, <2>1
    <2>2. CASE ~Fail(w)
      <3>1. /\ outcome' = outcome /\ reply' = reply /\ pos' = pos
            /\ pc[w] \in {"claim", "flag", "join_flag"}
            /\ pc'[w] \in {"join_flag", "flag", "wait", "lookup", "size"}
        BY <1>0, <1>5, <2>2 DEF Claim, FetchFlag, Goto, groupVars, GroupTypeOK
      <3>2. QED
        BY <1>1, <3>1 DEF InGroup, Claimed, OwnerLabels
    <2>3. QED
      BY <2>1, <2>2
  <1>6. CASE Wait(w) \/ Complete(w)
    BY <1>2, <1>6 DEF Wait, Complete
  <1>7. CASE Lookup(w)
    BY <1>0, <1>1, <1>7 DEF Lookup, Goto, GroupTypeOK, InGroup, Claimed,
                            OwnerLabels
  <1>8. CASE Call(w)
    <2>1. /\ pc[w] = "call" /\ pos' = pos
          /\ \/ pc'[w] = "release" /\ outcome' = outcome /\ reply' = reply
             \/ pc'[w] = "response" /\ reply'[w] \in UsageReplies
      BY <1>0, <1>8 DEF Call, Goto, GroupTypeOK
    <2>2. QED
      BY <1>1, <2>1 DEF UsageReplies, InGroup, Claimed, OwnerLabels
  <1>9. CASE Hit(w) \/ Size(w) \/ Acquire(w) \/ Attempt(w) \/ Response(w)
               \/ Insert(w) \/ Release(w) \/ FailedRequest(w)
               \/ ProviderFailure(w)
    BY <1>0, <1>1, <1>9
       DEF Hit, Size, Acquire, Attempt, Response, Insert, Release,
           FailedRequest, ProviderFailure, groupVars, Goto, GroupTypeOK,
           InGroup, Claimed, OwnerLabels
  <1>10. QED
    BY <1>3, <1>4, <1>5, <1>6, <1>7, <1>8, <1>9 DEF Step

\* Locals is inductive.
LEMMA LocalsStep ==
  ASSUME TypeInv, Locals, [Next]_vars
  PROVE  Locals'
  <1>0. GroupTypeOK /\ TaskTypeOK
    BY DEF TypeInv, TypeOK, GroupTypeOK
  <1>1. Locals <=> \A w \in Workers : LocalsOf(w)
    BY DEF Locals
  <1>2. Locals' <=> \A w \in Workers : LocalsOf(w)'
    BY DEF Locals
  <1>3. CASE UNCHANGED <<pc, pos, chunk, outcome, reply>>
    BY <1>3 DEF Locals, LocalsOf
  <1>4. ASSUME NEW w \in Workers, Start(w) \/ Step(w)
        PROVE  Locals'
    <2>1. \A v \in Workers : v # w => LocalsOf(v)'
      BY <1>1, <1>4, OthersAlone DEF Alone, LocalsOf
    <2>2. CASE Start(w)
      <3>1. pc'[w] = "input" /\ outcome'[w] = Failed /\ reply'[w] = "none"
        BY <1>0, <2>2 DEF Start, Goto, EndGroup, GroupTypeOK
      <3>2. LocalsOf(w)'
        BY <3>1 DEF LocalsOf, InGroup, Claimed, OwnerLabels
      <3>3. QED
        BY <1>2, <2>1, <3>2
    <2>3. CASE Step(w)
      <3>1. LocalsOf(w)'
        BY <1>1, <2>3, OwnLocals
      <3>2. QED
        BY <1>2, <2>1, <3>1
    <2>4. QED
      BY <1>4, <2>2, <2>3
  <1>5. CASE Begin \/ End \/ CacheClear \/ Closed \/ UNCHANGED vars
    BY <1>3, <1>5 DEF Begin, HostBegin, End, HostEnd, CacheClear, Closed, vars,
                      threadVars, taskVars, groupVars
  <1>6. QED
    BY <1>4, <1>5 DEF Next

\* A thread's step leaves the query lifecycle alone, and its chunk.
LEMMA StepFrame ==
  ASSUME NEW w \in Workers, Step(w)
  PROVE  UNCHANGED <<active, nextQuery, lastQuery, scope, chunk>>
  BY DEF Step, RecordInput, RecordRows, Claim, FetchFlag, Wait, Lookup, Hit,
         Size, Acquire, Attempt, Call, Response, Insert, Release,
         FailedRequest, ProviderFailure, Complete, runtimeVars, queryVars,
         taskVars

\* Only a call reaches the service, and only one for the active query is in
\* the ledger.
LEMMA LedgerStep ==
  ASSUME TypeInv, [Next]_vars
  PROVE  \/ ledger' = ledger
         \/ \E w \in Workers :
              /\ Call(w) /\ scope[w] = active /\ External
              /\ \A q \in 0..MaxQueries : q # active => ledger'[q] = ledger[q]
  <1>1. CASE \E w \in Workers : Call(w)
    <2>1. PICK w \in Workers : Call(w)
      BY <1>1
    <2>2. \/ ledger' = ledger
          \/ /\ scope[w] = active /\ External
             /\ \E r : ledger' = [ledger EXCEPT ![scope[w]] = r]
      BY <2>1 DEF Call, Serve
    <2>3. QED
      BY <2>1, <2>2 DEF TypeInv, TypeOK, TaskTypeOK
  <1>2. CASE ~ \E w \in Workers : Call(w)
    BY <1>2
       DEF Next, Begin, HostBegin, End, HostEnd, CacheClear, Closed, vars,
           threadVars, Start, Step, RecordInput, RecordRows, Claim, FetchFlag,
           Wait, Lookup, Hit, Size, Acquire, Attempt, Response, Insert,
           Release, FailedRequest, ProviderFailure, Complete
  <1>3. QED
    BY <1>1, <1>2

\* QueriesPast is inductive.
LEMMA QueriesStep ==
  ASSUME TypeInv, QueriesPast, [Next]_vars
  PROVE  QueriesPast'
  <1>0. /\ nextQuery \in Nat /\ scope \in [Workers -> Nat]
        /\ \A s \in lastQuery : s.query \in Nat
    BY DEF TypeInv, TypeOK, RuntimeTypeOK, TaskTypeOK, QuerySnapshot
  <1>1. CASE Begin
    <2>1. /\ active' = nextQuery /\ nextQuery' = nextQuery + 1
          /\ nextQuery < MaxQueries
          /\ UNCHANGED <<scope, ledger, lastQuery>>
      BY <1>1 DEF Begin, HostBegin, BeginQuery, threadVars, taskVars
    <2>2. QED
      BY <1>0, <2>1, RuntimeAssumption DEF QueriesPast
  <1>2. CASE End
    <2>1. PICK o \in QueryOutcomes : HostEnd(o)
      BY <1>2 DEF End
    <2>2. /\ active' = NoQuery /\ active # NoQuery
          /\ UNCHANGED <<nextQuery, scope, ledger>>
          /\ \A s \in lastQuery' : s \in lastQuery \/ s.query = active
      BY <2>1 DEF HostEnd, EndQuery, threadVars, taskVars
    <2>3. \A s \in lastQuery' :
            s.query < nextQuery /\ s.query # NoQuery /\ s.query \in 0..MaxQueries
      BY <1>0, <2>2, RuntimeAssumption DEF QueriesPast
    <2>4. QED
      BY <2>2, <2>3 DEF QueriesPast
  <1>3. CASE CacheClear \/ Closed \/ UNCHANGED vars
    BY <1>3 DEF CacheClear, Closed, vars, runtimeVars, queryVars, threadVars,
                taskVars, QueriesPast
  <1>4. ASSUME NEW w \in Workers, Start(w)
        PROVE  QueriesPast'
    <2>1. /\ active # NoQuery /\ scope' = [scope EXCEPT ![w] = active]
          /\ UNCHANGED <<active, nextQuery, lastQuery, ledger>>
      BY <1>4 DEF Start, CanStart, QueryScope, queryVars
    <2>2. QED
      BY <1>0, <2>1 DEF QueriesPast
  <1>5. ASSUME NEW w \in Workers, Step(w)
        PROVE  QueriesPast'
    <2>1. UNCHANGED <<active, nextQuery, lastQuery, scope>>
      BY <1>5, StepFrame
    <2>2. \A q \in 0..MaxQueries : q >= nextQuery => ledger'[q] = ledger[q]
      <3>1. \/ active # NoQuery /\ active \in Nat /\ active < nextQuery
            \/ \A v \in Workers : scope[v] # active
        BY <1>0, RuntimeAssumption DEF QueriesPast
      <3>2. QED
        BY <1>0, <3>1, LedgerStep, RuntimeAssumption
    <2>3. QED
      BY <2>1, <2>2 DEF QueriesPast
  <1>6. QED
    BY <1>1, <1>2, <1>3, <1>4, <1>5 DEF Next

-----------------------------------------------------------------------------
(* What one step of a thread of the active query adds to the counts.       *)

\* To what the report's cost rests on.
BillDelta(w) ==
  /\ counts'.external_requests = counts.external_requests
       + (IF External /\ pc[w] = "attempt" THEN 1 ELSE 0)
  /\ counts'.usage_response_count = counts.usage_response_count
       + (IF External /\ pc[w] = "response" THEN 1 ELSE 0)
  /\ counts'.tokens = counts.tokens
       + (IF External /\ pc[w] = "response" /\ reply[w] = "usage"
          THEN 1 ELSE 0)
  /\ counts'.usage_missing_count = counts.usage_missing_count
       + (IF External /\ (pc[w] = "provider_failure"
                         \/ (pc[w] = "response" /\ reply[w] # "usage"))
          THEN 1 ELSE 0)
  /\ counts'.failed_requests = counts.failed_requests
       + (IF pc[w] = "failed_request" THEN 1 ELSE 0)

\* To what accounts for rows and judgments.
RowDelta(w) ==
  /\ counts'.input_rows = counts.input_rows
       + (IF pc[w] = "input" THEN Len(chunk[w]) ELSE 0)
  /\ counts'.null_rows = counts.null_rows
       + (IF pc[w] = "rows" THEN Cardinality(NullRows(chunk[w])) ELSE 0)
  /\ counts'.valid_rows = counts.valid_rows
       + (IF pc[w] = "rows" THEN Cardinality(JudgedRows(chunk[w])) ELSE 0)
  /\ counts'.deduplicated_rows = counts.deduplicated_rows
       + (IF pc[w] = "rows" THEN Cardinality(JudgedRows(chunk[w]))
                                  - Cardinality(Leads(chunk[w]))
          ELSE IF pc[w] = "claim" /\ pc'[w] = "join_flag" THEN 1 ELSE 0)
  /\ counts'.unique_judgments = counts.unique_judgments
       + (IF pc[w] = "claim" /\ pc'[w] = "flag" THEN 1 ELSE 0)
  /\ counts'.cache_hit_judgments = counts.cache_hit_judgments
       + (IF pc[w] = "hit" THEN 1 ELSE 0)
  /\ counts'.provider_invocations = counts.provider_invocations
       + (IF pc[w] = "attempt" THEN 1 ELSE 0)

\* A step counts what its label says, and for the active query only.
LEMMA StepCounts ==
  ASSUME TypeInv, NEW w \in Workers, Step(w)
  PROVE  /\ scope[w] # active => counts' = counts
         /\ scope[w] = active => BillDelta(w) /\ RowDelta(w)
  <1>0. /\ counts \in QueryCounts /\ GroupTypeOK
        /\ chunk[w] \in Chunks \cup {<< >>}
    BY DEF TypeInv, TypeOK, RuntimeTypeOK, TaskTypeOK, GroupTypeOK
  <1>1. \A f \in CountFields : counts[f] \in Nat
    BY <1>0 DEF QueryCounts
  <1>2. /\ Len(chunk[w]) \in Nat
        /\ Cardinality(NullRows(chunk[w])) \in Nat
        /\ Cardinality(JudgedRows(chunk[w])) \in Nat
        /\ Cardinality(Leads(chunk[w])) \in Nat
    BY <1>0, RowCardinalities
  <1> USE DEF BillDelta, RowDelta
  <1>3. CASE RecordInput(w)
    <2> DEFINE n == Len(chunk[w])
    <2>1. pc[w] = "input" /\ RecordOptimizedRows(scope[w], n, 0, 0, 0)
      BY <1>3 DEF RecordInput
    <2>2. n \in Nat
      BY <1>2
    <2> HIDE DEF n
    <2>3. /\ active # scope[w] => counts' = counts
          /\ active = scope[w] =>
               /\ counts'.input_rows = counts.input_rows + n
               /\ counts'.null_rows = counts.null_rows + 0
               /\ counts'.valid_rows = counts.valid_rows + 0
               /\ counts'.deduplicated_rows = counts.deduplicated_rows
                                              + (IF 0 > 0 THEN 0 - 0 ELSE 0)
               /\ \A f \in CountFields \ {"input_rows", "null_rows",
                                         "valid_rows", "deduplicated_rows"} :
                    counts'[f] = counts[f]
      BY <1>0, <2>1, <2>2, OptimizedCounts
    <2>4. scope[w] = active => BillDelta(w)
      BY <1>1, <2>1, <2>3 DEF CountFields
    <2>5. ASSUME scope[w] = active PROVE RowDelta(w)
      <3>1. /\ counts'.unique_judgments = counts.unique_judgments
            /\ counts'.cache_hit_judgments = counts.cache_hit_judgments
            /\ counts'.provider_invocations = counts.provider_invocations
        BY <2>3, <2>5 DEF CountFields
      <3>2. /\ counts'.input_rows = counts.input_rows + n
            /\ counts'.null_rows = counts.null_rows + 0
            /\ counts'.valid_rows = counts.valid_rows + 0
            /\ counts'.deduplicated_rows = counts.deduplicated_rows + 0
        BY <1>1, <2>3, <2>5 DEF CountFields
      <3>3. /\ counts.unique_judgments \in Nat
            /\ counts.cache_hit_judgments \in Nat
            /\ counts.provider_invocations \in Nat
        BY <1>1 DEF CountFields
      <3>4. QED
        BY <2>1, <3>1, <3>2, <3>3 DEF n
    <2>6. QED
      BY <2>3, <2>4, <2>5
  <1>4. CASE RecordRows(w)
    <2> DEFINE n == Cardinality(NullRows(chunk[w]))
               v == Cardinality(JudgedRows(chunk[w]))
               g == Cardinality(Leads(chunk[w]))
    <2>1. pc[w] = "rows" /\ RecordOptimizedRows(scope[w], 0, n, v, g)
      BY <1>4 DEF RecordRows
    <2>2. g <= v /\ n \in Nat /\ v \in Nat /\ g \in Nat
      BY <1>0, <1>2, RowPartition
    <2> HIDE DEF n, v, g
    <2>3. /\ active # scope[w] => counts' = counts
          /\ active = scope[w] =>
               /\ counts'.input_rows = counts.input_rows + 0
               /\ counts'.null_rows = counts.null_rows + n
               /\ counts'.valid_rows = counts.valid_rows + v
               /\ counts'.deduplicated_rows = counts.deduplicated_rows
                                              + (IF v > g THEN v - g ELSE 0)
               /\ \A f \in CountFields \ {"input_rows", "null_rows",
                                         "valid_rows", "deduplicated_rows"} :
                    counts'[f] = counts[f]
      BY <1>0, <2>1, <2>2, OptimizedCounts
    <2>4. (IF v > g THEN v - g ELSE 0) = v - g
      BY <2>2
    <2>5. scope[w] = active => BillDelta(w)
      BY <1>1, <2>1, <2>3 DEF CountFields
    <2>6. scope[w] = active => RowDelta(w)
      BY <1>1, <2>1, <2>2, <2>3, <2>4 DEF CountFields, n, v, g
    <2>7. QED
      BY <2>3, <2>5, <2>6
  <1>5. CASE Claim(w)
    <2>1. CASE scope[w] # active
      BY <1>5, <2>1 DEF Claim, StillActive
    <2>2. CASE scope[w] = active /\ JoinEntry /\ pc'[w] = "join_flag"
      <3>1. counts' = [counts EXCEPT !.deduplicated_rows = @ + 1]
        BY <1>0, <2>2, ClaimCounts
      <3>2. /\ counts'.deduplicated_rows = counts.deduplicated_rows + 1
            /\ \A f \in CountFields \ {"deduplicated_rows"} :
                 counts'[f] = counts[f]
        BY <1>0, <3>1 DEF QueryCounts, CountFields
      <3>3. pc[w] = "claim"
        BY <1>5 DEF Claim
      <3>4. QED
        BY <1>1, <2>2, <3>2, <3>3 DEF CountFields
    <2>3. CASE scope[w] = active /\ NewEntry(IdentityOf(w)) /\ pc'[w] = "flag"
      <3>1. counts' = [counts EXCEPT !.unique_judgments = @ + 1]
        BY <1>0, <2>3, ClaimCounts
      <3>2. /\ counts'.unique_judgments = counts.unique_judgments + 1
            /\ \A f \in CountFields \ {"unique_judgments"} :
                 counts'[f] = counts[f]
        BY <1>0, <3>1 DEF QueryCounts, CountFields
      <3>3. pc[w] = "claim"
        BY <1>5 DEF Claim
      <3>4. QED
        BY <1>1, <2>3, <3>2, <3>3 DEF CountFields
    <2>4. QED
      BY <1>0, <1>5, <2>1, <2>2, <2>3 DEF Claim, StillActive, Goto, GroupTypeOK
  <1>6. CASE FetchFlag(w) \/ Wait(w) \/ Lookup(w) \/ Size(w) \/ Acquire(w)
               \/ Call(w) \/ Insert(w) \/ Release(w) \/ Complete(w)
    <2>1. /\ counts' = counts
          /\ pc[w] \in {"flag", "join_flag", "wait", "lookup", "size", "acquire",
                        "call", "insert", "release", "complete"}
      BY <1>6 DEF FetchFlag, Wait, Lookup, Size, Acquire, Call, Insert, Release,
                  Complete, runtimeVars
    <2>2. BillDelta(w)
      BY <1>1, <2>1 DEF CountFields
    <2>3. RowDelta(w)
      <3>1. /\ counts.input_rows \in Nat /\ counts.null_rows \in Nat
            /\ counts.valid_rows \in Nat /\ counts.deduplicated_rows \in Nat
            /\ counts.unique_judgments \in Nat
            /\ counts.cache_hit_judgments \in Nat
            /\ counts.provider_invocations \in Nat
        BY <1>1 DEF CountFields
      <3>2. pc[w] \notin {"input", "rows", "claim", "hit", "attempt"}
        BY <2>1
      <3> HIDE DEF BillDelta
      <3>3. QED
        BY <2>1, <3>1, <3>2
    <2>4. QED
      BY <2>1, <2>2, <2>3
  <1>7. CASE Hit(w)
    <2>1. pc[w] = "hit" /\ RecordCacheHit(scope[w])
      BY <1>7 DEF Hit
    <2>2. counts' = IF active = scope[w]
                    THEN [counts EXCEPT !.cache_hit_judgments = @ + 1]
                    ELSE counts
      BY <1>0, <2>1, OneCounts
    <2>3. active = scope[w] =>
            /\ counts'.cache_hit_judgments = counts.cache_hit_judgments + 1
            /\ \A f \in CountFields \ {"cache_hit_judgments"} :
                 counts'[f] = counts[f]
      BY <1>0, <2>2 DEF QueryCounts, CountFields
    <2>4. QED
      BY <1>1, <2>1, <2>2, <2>3 DEF CountFields
  <1>8. CASE Attempt(w)
    <2>1. pc[w] = "attempt" /\ RecordProviderAttempt(scope[w], 1)
      BY <1>8 DEF Attempt
    <2>2. /\ active # scope[w] => counts' = counts
          /\ active = scope[w] =>
              /\ counts'.provider_invocations = counts.provider_invocations + 1
              /\ counts'.external_requests = counts.external_requests
                                             + (IF External THEN 1 ELSE 0)
              /\ \A f \in CountFields \ {"provider_invocations",
                                         "external_requests", "batch_size_sum",
                                         "batched_requests"} :
                   counts'[f] = counts[f]
      BY <1>0, <2>1, AttemptCounts
    <2>3. QED
      BY <1>1, <2>1, <2>2, RuntimeAssumption DEF CountFields
  <1>9. CASE Response(w)
    <2>1. /\ pc[w] = "response"
          /\ RecordProviderResponse(scope[w], reply[w] = "usage")
      BY <1>9 DEF Response
    <2>2. /\ active # scope[w] \/ ~External => counts' = counts
          /\ active = scope[w] /\ External =>
              /\ counts'.usage_response_count = counts.usage_response_count + 1
              /\ counts'.tokens = counts.tokens
                                  + (IF reply[w] = "usage" THEN 1 ELSE 0)
              /\ counts'.usage_missing_count = counts.usage_missing_count
                                  + (IF reply[w] = "usage" THEN 0 ELSE 1)
              /\ \A f \in CountFields \ {"usage_response_count", "tokens",
                                         "usage_missing_count"} :
                   counts'[f] = counts[f]
      BY <1>0, <2>1, ResponseCounts
    <2>3. CASE External
      BY <1>1, <2>1, <2>2, <2>3 DEF CountFields
    <2>4. CASE ~External
      BY <1>1, <2>1, <2>2, <2>4 DEF CountFields
    <2>5. QED
      BY <2>3, <2>4
  <1>10. CASE FailedRequest(w)
    <2>1. pc[w] = "failed_request" /\ RecordFailedRequest(scope[w])
      BY <1>10 DEF FailedRequest
    <2>2. counts' = IF active = scope[w]
                    THEN [counts EXCEPT !.failed_requests = @ + 1] ELSE counts
      BY <1>0, <2>1, OneCounts
    <2>3. active = scope[w] =>
            /\ counts'.failed_requests = counts.failed_requests + 1
            /\ \A f \in CountFields \ {"failed_requests"} :
                 counts'[f] = counts[f]
      BY <1>0, <2>2 DEF QueryCounts, CountFields
    <2>4. QED
      BY <1>1, <2>1, <2>2, <2>3 DEF CountFields
  <1>11. CASE ProviderFailure(w)
    <2>1. pc[w] = "provider_failure" /\ RecordProviderFailure(scope[w])
      BY <1>11 DEF ProviderFailure
    <2>2. counts' = IF active = scope[w] /\ External
                    THEN [counts EXCEPT !.usage_missing_count = @ + 1]
                    ELSE counts
      BY <1>0, <2>1, OneCounts
    <2>3. active = scope[w] /\ External =>
            /\ counts'.usage_missing_count = counts.usage_missing_count + 1
            /\ \A f \in CountFields \ {"usage_missing_count"} :
                 counts'[f] = counts[f]
      BY <1>0, <2>2 DEF QueryCounts, CountFields
    <2>4. QED
      BY <1>1, <2>1, <2>2, <2>3 DEF CountFields
  <1>12. QED
    BY <1>3, <1>4, <1>5, <1>6, <1>7, <1>8, <1>9, <1>10, <1>11 DEF Step

-----------------------------------------------------------------------------
(* Requests, responses and what the service bills.                         *)

\* The ways through the provider call.
LEMMA OwnMove ==
  ASSUME TypeInv, NEW w \in Workers, Step(w)
  PROVE  \/ pc[w] = "attempt" /\ pc'[w] = "call" /\ reply'[w] = reply[w]
         \/ pc[w] = "call" /\ pc'[w] = "release" /\ reply'[w] = reply[w]
         \/ pc[w] = "call" /\ pc'[w] = "response"
         \/ /\ pc[w] = "response" /\ pc'[w] \in {"release", "insert"}
            /\ reply'[w] = reply[w]
         \/ pc[w] = "insert" /\ pc'[w] = "release" /\ reply'[w] = reply[w]
         \/ /\ pc[w] = "release" /\ reply'[w] = reply[w]
            /\ outcome'[w] = outcome[w]
            /\ pc'[w] = IF outcome[w] = Failed /\ External
                        THEN "failed_request" ELSE "complete"
         \/ pc[w] = "failed_request" /\ pc'[w] \in {"provider_failure", "complete"}
         \/ /\ pc[w] \notin {"attempt", "call", "response", "insert", "release",
                             "failed_request"}
            /\ pc'[w] \notin {"call", "response", "insert", "release",
                              "failed_request"}
  <1>0. GroupTypeOK
    BY DEF TypeInv, TypeOK, GroupTypeOK
  <1>1. ASSUME (\E r : Finish(w, r)) \/ Fail(w)
        PROVE  pc'[w] \in {"failed", "done", "claim"}
    BY <1>0, <1>1, FinishLocals
  <1>2. CASE Claim(w) \/ FetchFlag(w)
    <2>1. CASE Fail(w)
      BY <1>1, <1>2, <2>1 DEF Claim, FetchFlag
    <2>2. CASE ~Fail(w)
      BY <1>0, <1>2, <2>2 DEF Claim, FetchFlag, Goto, GroupTypeOK
    <2>3. QED
      BY <2>1, <2>2
  <1>3. CASE Wait(w) \/ Complete(w)
    BY <1>1, <1>3 DEF Wait, Complete
  <1>4. CASE RecordInput(w) \/ RecordRows(w) \/ Lookup(w) \/ Hit(w) \/ Size(w)
               \/ Acquire(w) \/ ProviderFailure(w)
    BY <1>0, <1>4
       DEF RecordInput, RecordRows, Lookup, Hit, Size, Acquire,
           ProviderFailure, Goto, GroupTypeOK
  <1>5. CASE Attempt(w) \/ Call(w) \/ Response(w) \/ Insert(w) \/ Release(w)
               \/ FailedRequest(w)
    BY <1>0, <1>5
       DEF Attempt, Call, Response, Insert, Release, FailedRequest, Goto,
           groupVars, GroupTypeOK
  <1>6. QED
    BY <1>2, <1>3, <1>4, <1>5 DEF Step

\* What a step of one thread makes of the ledger of the active query.
LEMMA OwnLedger ==
  ASSUME TypeInv, QueriesPast, NEW w \in Workers, Step(w)
  PROVE  /\ scope[w] # active \/ ~External \/ pc[w] # "call" => ledger' = ledger
         /\ scope[w] = active =>
              /\ active # NoQuery
              /\ ledger[active].sent \in Nat /\ ledger[active].billed \in Nat
         /\ scope[w] = active /\ External /\ pc[w] = "call" =>
              /\ ledger'[active].sent \in
                   {ledger[active].sent, ledger[active].sent + 1}
              /\ ledger'[active].billed \in
                   {ledger[active].billed, ledger[active].billed + 1}
              /\ pc'[w] = "response" =>
                   ledger'[active].billed = ledger[active].billed + 1
  <1>0. TaskTypeOK /\ GroupTypeOK
    BY DEF TypeInv, TypeOK, GroupTypeOK
  <1>1. pc[w] # "call" => ledger' = ledger
    BY DEF Step, RecordInput, RecordRows, Claim, FetchFlag, Wait, Lookup, Hit,
           Size, Acquire, Attempt, Call, Response, Insert, Release,
           FailedRequest, ProviderFailure, Complete
  <1>2. scope[w] = active =>
          /\ active # NoQuery /\ active \in 0..MaxQueries
          /\ ledger[active].sent \in Nat /\ ledger[active].billed \in Nat
    BY <1>0, RuntimeAssumption DEF QueriesPast, TaskTypeOK
  <1>3. CASE pc[w] = "call"
    <2>1. Call(w)
      BY <1>3 DEF Step, RecordInput, RecordRows, Claim, FetchFlag, Wait,
                  Lookup, Hit, Size, Acquire, Attempt, Response, Insert,
                  Release, FailedRequest, ProviderFailure, Complete
    <2>2. \/ ledger' = ledger /\ pc'[w] # "response"
          \/ (\E b \in {0, 1} : Serve(scope[w], b)) /\ pc'[w] # "response"
          \/ Serve(scope[w], 1)
      BY <1>0, <2>1 DEF Call, Goto, GroupTypeOK
    <2>3. ASSUME NEW b \in {0, 1}, Serve(scope[w], b)
          PROVE  /\ scope[w] # active \/ ~External => ledger' = ledger
                 /\ scope[w] = active /\ External =>
                      /\ ledger'[active].sent = ledger[active].sent + 1
                      /\ ledger'[active].billed = ledger[active].billed + b
      BY <1>0, <1>2, <2>3 DEF Serve, TaskTypeOK
    <2>4. QED
      BY <1>2, <1>3, <2>2, <2>3
  <1>4. QED
    BY <1>1, <1>2, <1>3

\* How a thread's step moves it in and out of what is counted.
LEMMA BillSets ==
  ASSUME TypeInv, NEW w \in Workers, Step(w),
         NEW A \in SUBSET Workers, NEW B \in SUBSET Workers,
         \/ A = Unanswered /\ B = Unanswered'
         \/ A = Unheard /\ B = Unheard'
  PROVE  /\ Cardinality(A) \in Nat /\ Cardinality(B) \in Nat
         /\ (w \in A <=> w \in B) => Cardinality(A) = Cardinality(B)
         /\ w \notin A /\ w \in B => Cardinality(B) = Cardinality(A) + 1
         /\ w \in A /\ w \notin B => Cardinality(A) = Cardinality(B) + 1
  <1>1. \A v \in Workers : v # w => (v \in A <=> v \in B)
    BY OthersAlone, StepFrame DEF Alone, Unanswered, Unheard
  <1>2. QED
    BY <1>1, OneMoves

\* A thread's step keeps requests, responses and bills accounted for.
LEMMA StepBills ==
  ASSUME BillInv, NEW w \in Workers, Step(w)
  PROVE  SentCounted' /\ AnswersCounted' /\ TokensCounted'
  <1>0. /\ TypeInv /\ Locals /\ QueriesPast
        /\ SentCounted /\ AnswersCounted /\ TokensCounted
    BY DEF BillInv
  <1>1. UNCHANGED <<active, scope>> /\ LocalsOf(w)
    BY <1>0, StepFrame DEF Locals
  <1>2. \A v \in Workers : v # w => Alone(v)
    BY <1>0, OthersAlone
  <1> DEFINE c == Cardinality(Ours({"call"}))
             r == Cardinality(Ours({"response"}))
             a == Cardinality(Unanswered)
             h == Cardinality(Unheard)
             c2 == Cardinality(Ours({"call"})')
             r2 == Cardinality(Ours({"response"})')
             a2 == Cardinality(Unanswered')
             h2 == Cardinality(Unheard')
  <1>3. /\ c \in Nat /\ c2 \in Nat /\ r \in Nat /\ r2 \in Nat
        /\ scope[w] # active => c2 = c /\ r2 = r
        /\ scope[w] = active =>
             /\ c2 = IF pc[w] = "call" /\ pc'[w] # "call" THEN c - 1
                     ELSE IF pc[w] # "call" /\ pc'[w] = "call" THEN c + 1 ELSE c
             /\ r2 = IF pc[w] = "response" /\ pc'[w] # "response" THEN r - 1
                     ELSE IF pc[w] # "response" /\ pc'[w] = "response"
                     THEN r + 1 ELSE r
    BY <1>1, <1>2, OursMove DEF Alone
  <1>4. /\ w \in Unanswered <=>
             /\ scope[w] = active
             /\ \/ pc[w] \in {"call", "response"}
                \/ pc[w] \in {"release", "failed_request"} /\ reply[w] = "none"
        /\ w \in Unanswered' <=>
             /\ scope[w] = active
             /\ \/ pc'[w] \in {"call", "response"}
                \/ pc'[w] \in {"release", "failed_request"} /\ reply'[w] = "none"
    BY <1>1 DEF Unanswered
  <1>5. /\ w \in Unheard <=>
             /\ scope[w] = active
             /\ pc[w] \in {"release", "failed_request"} /\ reply[w] = "none"
        /\ w \in Unheard' <=>
             /\ scope[w] = active
             /\ pc'[w] \in {"release", "failed_request"} /\ reply'[w] = "none"
    BY <1>1 DEF Unheard
  <1>6. /\ Unanswered \in SUBSET Workers /\ Unanswered' \in SUBSET Workers
        /\ Unheard \in SUBSET Workers /\ Unheard' \in SUBSET Workers
    BY DEF Unanswered, Unheard
  <1>7. /\ a \in Nat /\ a2 \in Nat
        /\ a2 = IF w \in Unanswered /\ w \notin Unanswered' THEN a - 1
                ELSE IF w \notin Unanswered /\ w \in Unanswered' THEN a + 1
                ELSE a
    <2> DEFINE A == Unanswered
               B == Unanswered'
    <2>1. A \in SUBSET Workers /\ B \in SUBSET Workers
      BY <1>6
    <2>2. /\ Cardinality(A) \in Nat /\ Cardinality(B) \in Nat
          /\ (w \in A <=> w \in B) => Cardinality(A) = Cardinality(B)
          /\ w \notin A /\ w \in B => Cardinality(B) = Cardinality(A) + 1
          /\ w \in A /\ w \notin B => Cardinality(A) = Cardinality(B) + 1
      BY <1>0, <2>1, BillSets
    <2>3. QED
      BY <2>2
  <1>8. /\ h \in Nat /\ h2 \in Nat
        /\ h2 = IF w \in Unheard /\ w \notin Unheard' THEN h - 1
                ELSE IF w \notin Unheard /\ w \in Unheard' THEN h + 1
                ELSE h
    <2> DEFINE A == Unheard
               B == Unheard'
    <2>1. A \in SUBSET Workers /\ B \in SUBSET Workers
      BY <1>6
    <2>2. /\ Cardinality(A) \in Nat /\ Cardinality(B) \in Nat
          /\ (w \in A <=> w \in B) => Cardinality(A) = Cardinality(B)
          /\ w \notin A /\ w \in B => Cardinality(B) = Cardinality(A) + 1
          /\ w \in A /\ w \notin B => Cardinality(A) = Cardinality(B) + 1
      BY <1>0, <2>1, BillSets
    <2>3. QED
      BY <2>2
  <1>9. /\ SentCounted' <=> (External /\ active # NoQuery =>
             counts'.external_requests >= ledger'[active].sent + c2)
        /\ SentCounted <=> (External /\ active # NoQuery =>
             counts.external_requests >= ledger[active].sent + c)
    BY <1>1 DEF SentCounted
  <1>10. /\ AnswersCounted' <=>
             /\ ~External => counts'.external_requests = 0
             /\ External => counts'.external_requests
                              >= counts'.usage_response_count + a2
         /\ AnswersCounted <=>
             /\ ~External => counts.external_requests = 0
             /\ External => counts.external_requests
                              >= counts.usage_response_count + a
    BY DEF AnswersCounted
  <1>11. /\ TokensCounted' <=>
             (active # NoQuery /\ counts'.failed_requests = 0
                /\ counts'.usage_missing_count = 0 /\ External =>
                /\ ledger'[active].billed >= counts'.tokens + r2
                /\ ledger'[active].billed <= counts'.tokens + r2 + h2)
         /\ TokensCounted <=>
             (active # NoQuery /\ counts.failed_requests = 0
                /\ counts.usage_missing_count = 0 /\ External =>
                /\ ledger[active].billed >= counts.tokens + r
                /\ ledger[active].billed <= counts.tokens + r + h)
    BY <1>1 DEF TokensCounted
  <1>12. /\ counts.external_requests \in Nat /\ counts.tokens \in Nat
         /\ counts.usage_response_count \in Nat
         /\ counts.usage_missing_count \in Nat
         /\ counts.failed_requests \in Nat
    BY <1>0 DEF TypeInv, TypeOK, RuntimeTypeOK, QueryCounts, CountFields
  <1> HIDE DEF c, r, a, h, c2, r2, a2, h2
  <1>13. CASE scope[w] # active
    <2>1. counts' = counts /\ ledger' = ledger
      BY <1>0, <1>13, StepCounts, OwnLedger
    <2>2. c2 = c /\ r2 = r /\ a2 = a /\ h2 = h
      BY <1>3, <1>4, <1>5, <1>7, <1>8, <1>13
    <2>3. QED
      BY <1>0, <1>9, <1>10, <1>11, <2>1, <2>2
  <1>14. CASE scope[w] = active
    <2>1. BillDelta(w)
      BY <1>0, <1>14, StepCounts
    <2>2. \/ pc[w] = "attempt" /\ pc'[w] = "call" /\ reply'[w] = reply[w]
          \/ pc[w] = "call" /\ pc'[w] = "release" /\ reply'[w] = reply[w]
          \/ pc[w] = "call" /\ pc'[w] = "response"
          \/ /\ pc[w] = "response" /\ pc'[w] \in {"release", "insert"}
             /\ reply'[w] = reply[w]
          \/ pc[w] = "insert" /\ pc'[w] = "release" /\ reply'[w] = reply[w]
          \/ /\ pc[w] = "release" /\ reply'[w] = reply[w]
             /\ pc'[w] = IF outcome[w] = Failed /\ External
                         THEN "failed_request" ELSE "complete"
          \/ pc[w] = "failed_request" /\ pc'[w] \in {"provider_failure", "complete"}
          \/ /\ pc[w] \notin {"attempt", "call", "response", "insert", "release",
                              "failed_request"}
             /\ pc'[w] \notin {"call", "response", "insert", "release",
                               "failed_request"}
      BY <1>0, OwnMove
    <2>3. /\ active # NoQuery
          /\ ledger[active].sent \in Nat /\ ledger[active].billed \in Nat
          /\ ~External \/ pc[w] # "call" => ledger' = ledger
          /\ External /\ pc[w] = "call" =>
              /\ ledger'[active].sent \in
                   {ledger[active].sent, ledger[active].sent + 1}
              /\ ledger'[active].billed \in
                   {ledger[active].billed, ledger[active].billed + 1}
              /\ pc'[w] = "response" =>
                   ledger'[active].billed = ledger[active].billed + 1
      BY <1>0, <1>14, OwnLedger
    <2>4. /\ pc[w] \in {"attempt", "call"} => reply[w] = "none"
          /\ pc[w] \in {"response", "insert"} => reply[w] # "none"
          /\ pc[w] = "release" /\ reply[w] = "none" => outcome[w] = Failed
      BY <1>1 DEF LocalsOf
    <2>5. SentCounted'
      BY <1>0, <1>3, <1>9, <1>12, <1>14, <2>1, <2>2, <2>3 DEF BillDelta
    <2>6. ~External => AnswersCounted'
      BY <1>0, <1>10, <1>12, <2>1 DEF BillDelta
    <2>7. a2 = IF External /\ pc[w] = "attempt" THEN a + 1
               ELSE IF ~External THEN a2
               ELSE IF pc[w] = "response" THEN a - 1
               ELSE IF pc[w] = "failed_request" /\ reply[w] = "none"
               THEN a - 1 ELSE a
      BY <1>4, <1>7, <1>14, <2>2, <2>4
    <2>8. External => AnswersCounted'
      BY <1>0, <1>7, <1>10, <1>12, <2>1, <2>7 DEF BillDelta
    <2>9. External /\ pc[w] # "failed_request" =>
            h2 = IF pc[w] = "call" /\ pc'[w] = "release" THEN h + 1 ELSE h
      BY <1>5, <1>8, <1>14, <2>2, <2>4
    <2>10. TokensCounted'
      <3>1. CASE pc[w] = "failed_request"
        BY <1>11, <1>12, <2>1, <3>1 DEF BillDelta
      <3>2. CASE External /\ pc[w] = "call"
        <4>1. /\ counts'.tokens = counts.tokens
              /\ counts'.failed_requests = counts.failed_requests
              /\ counts'.usage_missing_count = counts.usage_missing_count
          BY <1>12, <2>1, <3>2 DEF BillDelta
        <4>2. CASE pc'[w] = "response"
          <5>1. /\ r2 = r + 1 /\ h2 = h
                /\ ledger'[active].billed = ledger[active].billed + 1
            BY <1>3, <1>14, <2>3, <2>9, <3>2, <4>2
          <5>2. QED
            BY <1>0, <1>3, <1>8, <1>11, <1>12, <2>3, <4>1, <5>1
        <4>3. CASE pc'[w] = "release"
          <5>1. /\ r2 = r /\ h2 = h + 1
                /\ ledger'[active].billed \in
                     {ledger[active].billed, ledger[active].billed + 1}
            BY <1>3, <1>14, <2>3, <2>9, <3>2, <4>3
          <5>2. QED
            BY <1>0, <1>3, <1>8, <1>11, <1>12, <2>3, <4>1, <5>1
        <4>4. QED
          BY <2>2, <3>2, <4>2, <4>3
      <3>3. CASE External /\ pc[w] = "response"
        <4>1. r2 = r - 1 /\ h2 = h /\ ledger' = ledger
          BY <1>3, <1>14, <2>2, <2>3, <2>9, <3>3
        <4>2. CASE reply[w] = "usage"
          <5>1. /\ counts'.tokens = counts.tokens + 1
                /\ counts'.failed_requests = counts.failed_requests
                /\ counts'.usage_missing_count = counts.usage_missing_count
            BY <1>12, <2>1, <3>3, <4>2 DEF BillDelta
          <5>2. QED
            BY <1>0, <1>3, <1>8, <1>11, <1>12, <2>3, <4>1, <5>1
        <4>3. CASE reply[w] # "usage"
          BY <1>11, <1>12, <2>1, <3>3, <4>3 DEF BillDelta
        <4>4. QED
          BY <4>2, <4>3
      <3>4. CASE External /\ pc[w] \notin {"call", "response", "failed_request"}
        <4>1. r2 = r /\ h2 = h /\ ledger' = ledger
          BY <1>3, <1>14, <2>2, <2>3, <2>9, <3>4
        <4>2. QED
          BY <1>0, <1>3, <1>8, <1>11, <1>12, <2>1, <3>4, <4>1 DEF BillDelta
      <3>5. CASE ~External
        BY <1>11, <3>5
      <3>6. QED
        BY <3>1, <3>2, <3>3, <3>4, <3>5, RuntimeAssumption
    <2>11. QED
      BY <2>5, <2>6, <2>8, <2>10, RuntimeAssumption
  <1>15. QED
    BY <1>13, <1>14

\* The host's callbacks and a chunk's start.
LEMMA HostBills ==
  ASSUME BillInv, \/ Begin \/ End \/ CacheClear \/ Closed \/ UNCHANGED vars
                  \/ \E w \in Workers : Start(w)
  PROVE  SentCounted' /\ AnswersCounted' /\ TokensCounted'
  <1>0. /\ TypeInv /\ QueriesPast /\ nextQuery \in Nat
        /\ scope \in [Workers -> Nat]
        /\ SentCounted /\ AnswersCounted /\ TokensCounted
    BY DEF BillInv, TypeInv, TypeOK, RuntimeTypeOK, TaskTypeOK
  <1>1. CASE Begin \/ End
    <2>1. /\ counts' = ZeroCounts /\ UNCHANGED <<scope, ledger, pc, reply>>
          /\ \/ active' = nextQuery /\ nextQuery < MaxQueries
             \/ active' = NoQuery
      BY <1>1 DEF Begin, HostBegin, BeginQuery, End, HostEnd, EndQuery,
                  threadVars, taskVars, groupVars
    <2>2. \A v \in Workers : scope'[v] # active'
      BY <1>0, <2>1, RuntimeAssumption DEF QueriesPast
    <2>3. /\ Ours({"call"})' = {} /\ Ours({"response"})' = {}
          /\ Unanswered' = {} /\ Unheard' = {}
      BY <2>2 DEF Ours, Unanswered, Unheard
    <2>4. active' # NoQuery => ledger'[active'] = [sent |-> 0, billed |-> 0]
      BY <1>0, <2>1, RuntimeAssumption DEF QueriesPast
    <2>5. /\ counts'.external_requests = 0 /\ counts'.tokens = 0
          /\ counts'.usage_response_count = 0
      BY <2>1 DEF ZeroCounts, CountFields
    <2>6. QED
      BY <2>3, <2>4, <2>5, NoneCounted
         DEF SentCounted, AnswersCounted, TokensCounted
  <1>2. CASE CacheClear \/ Closed \/ UNCHANGED vars
    <2>1. UNCHANGED <<counts, active, scope, ledger, pc, reply>>
      BY <1>2 DEF CacheClear, Closed, vars, runtimeVars, queryVars, threadVars,
                  taskVars, groupVars
    <2>2. QED
      BY <1>0, <2>1 DEF SentCounted, AnswersCounted, TokensCounted, Ours,
                        Unanswered, Unheard
  <1>3. ASSUME NEW w \in Workers, Start(w)
        PROVE  SentCounted' /\ AnswersCounted' /\ TokensCounted'
    <2>1. \A v \in Workers : v # w => Alone(v)
      BY <1>0, <1>3, OthersAlone
    <2>2. /\ UNCHANGED <<counts, active, ledger>>
          /\ pc[w] \in Resting /\ pc'[w] = "input"
      BY <1>0, <1>3 DEF Start, CanStart, Running, Goto, queryVars, TypeInv,
                        TypeOK
    <2>3. UNCHANGED <<Ours({"call"}), Ours({"response"}), Unanswered, Unheard>>
      BY <2>1, <2>2 DEF Alone, Ours, Unanswered, Unheard, Resting
    <2>4. QED
      BY <1>0, <2>2, <2>3 DEF SentCounted, AnswersCounted, TokensCounted
  <1>4. QED
    BY <1>1, <1>2, <1>3

\* A snapshot is taken of what is accounted for, and its query is never sent
\* anything again that the ledger would show.
LEMMA SnapshotsBill ==
  ASSUME BillInv, [Next]_vars
  PROVE  RequestsCounted' /\ CostCoversBilling'
  <1>0. /\ TypeInv /\ QueriesPast /\ RequestsCounted /\ CostCoversBilling
        /\ SentCounted /\ AnswersCounted /\ TokensCounted
        /\ \A s \in lastQuery : s.query \in Nat
        /\ ledger \in [0..MaxQueries -> [sent : Nat, billed : Nat]]
    BY DEF BillInv, TypeInv, TypeOK, RuntimeTypeOK, TaskTypeOK, QuerySnapshot
  <1>1. CASE ~End
    <2>1. lastQuery' = lastQuery
      <3>1. CASE \E w \in Workers : Step(w)
        BY <3>1, StepFrame
      <3>2. CASE ~ \E w \in Workers : Step(w)
        BY <1>1, <3>2 DEF Next, Begin, HostBegin, BeginQuery, CacheClear, Closed,
                          vars, runtimeVars, queryVars, Start
      <3>3. QED
        BY <3>1, <3>2
    <2>2. \A s \in lastQuery : s.query \in 0..MaxQueries =>
            ledger'[s.query] = ledger[s.query]
      BY <1>0, LedgerStep DEF QueriesPast
    <2>3. QED
      BY <1>0, <2>1, <2>2 DEF QueriesPast, RequestsCounted, CostCoversBilling
  <1>2. CASE End
    <2>1. PICK o \in QueryOutcomes : HostEnd(o)
      BY <1>2 DEF End
    <2>2. /\ active # NoQuery /\ active \in 0..MaxQueries /\ ledger' = ledger
          /\ \A s \in lastQuery' : s \in lastQuery
                \/ s = [query |-> active, outcome |-> o, counts |-> counts]
      BY <1>0, <2>1 DEF HostEnd, EndQuery, threadVars, QueriesPast
    <2>3. /\ counts.external_requests \in Nat /\ counts.tokens \in Nat
          /\ counts.usage_response_count \in Nat
          /\ counts.usage_missing_count \in Nat
          /\ counts.failed_requests \in Nat
          /\ ledger[active].sent \in Nat /\ ledger[active].billed \in Nat
      BY <1>0, <2>2 DEF TypeInv, TypeOK, RuntimeTypeOK, QueryCounts, CountFields
    <2>4. /\ IsFiniteSet(Unanswered) /\ Cardinality(Unanswered) \in Nat
          /\ Ours({"call"}) \subseteq Unanswered
          /\ Ours({"response"}) \subseteq Unanswered
          /\ Unheard \subseteq Unanswered
          /\ Cardinality(Ours({"call"})) \in Nat
      <3>1. Unanswered \in SUBSET Workers /\ Ours({"call"}) \in SUBSET Workers
        BY DEF Unanswered, Ours
      <3>2. IsFiniteSet(Unanswered) /\ IsFiniteSet(Ours({"call"}))
        BY <3>1, ThreadAssumption, FS_Subset
      <3>3. QED
        BY <3>2, FS_CardinalityType DEF Unanswered, Unheard, Ours
    <2>5. External => counts.external_requests >= ledger[active].sent
      BY <1>0, <2>2, <2>3, <2>4 DEF SentCounted
    <2>6. ASSUME CostStated(counts)
          PROVE  counts.tokens = ledger[active].billed
      <3>1. /\ counts.failed_requests = 0 /\ counts.external_requests > 0
            /\ counts.usage_missing_count = 0
            /\ counts.usage_response_count = counts.external_requests
        BY <2>6 DEF CostStated, UsageComplete
      <3>2. External
        BY <1>0, <2>3, <3>1 DEF AnswersCounted
      <3>3. Cardinality(Unanswered) = 0
        BY <1>0, <2>3, <2>4, <3>1, <3>2 DEF AnswersCounted
      <3>4. Unanswered = {}
        BY <2>4, <3>3, FS_EmptySet
      <3>5. Ours({"response"}) = {} /\ Unheard = {}
        BY <2>4, <3>4
      <3>6. /\ Cardinality(Ours({"response"})) = 0
            /\ Cardinality(Unheard) = 0
        BY <3>5, NoneCounted
      <3>7. /\ ledger[active].billed >= counts.tokens
                                        + Cardinality(Ours({"response"}))
            /\ ledger[active].billed <= counts.tokens
                                        + Cardinality(Ours({"response"}))
                                        + Cardinality(Unheard)
        BY <1>0, <2>2, <3>1, <3>2 DEF TokensCounted
      <3>8. QED
        BY <2>3, <3>6, <3>7
    <2>7. QED
      BY <1>0, <2>2, <2>5, <2>6 DEF RequestsCounted, CostCoversBilling
  <1>3. QED
    BY <1>1, <1>2

\* Nothing is counted, sent or billed at first.
LEMMA BillInit == Init => BillInv
  <1> SUFFICES ASSUME Init PROVE BillInv
    OBVIOUS
  <1>1. TypeInv
    BY InitTypes
  <1>2. /\ active = 0 /\ nextQuery = 1 /\ lastQuery = {} /\ counts = ZeroCounts
        /\ pc = [w \in Workers |-> "idle"] /\ scope = [w \in Workers |-> 0]
        /\ pos = [w \in Workers |-> 0]
        /\ outcome = [w \in Workers |-> Failed]
        /\ reply = [w \in Workers |-> "none"]
        /\ ledger = [q \in 0..MaxQueries |-> [sent |-> 0, billed |-> 0]]
    BY DEF Init, ThreadsInit, RuntimeInit
  <1>3. Locals
    BY <1>2 DEF Locals, LocalsOf, InGroup, Claimed, OwnerLabels
  <1>4. QueriesPast
    BY <1>2, RuntimeAssumption DEF QueriesPast
  <1>5. /\ Ours({"call"}) = {} /\ Ours({"response"}) = {}
        /\ Unanswered = {} /\ Unheard = {}
    BY <1>2 DEF Ours, Unanswered, Unheard
  <1>6. /\ counts.external_requests = 0 /\ counts.tokens = 0
        /\ counts.usage_response_count = 0
        /\ ledger[active] = [sent |-> 0, billed |-> 0]
    BY <1>2, RuntimeAssumption DEF ZeroCounts, CountFields
  <1>7. SentCounted /\ AnswersCounted /\ TokensCounted
    BY <1>5, <1>6, NoneCounted DEF SentCounted, AnswersCounted, TokensCounted
  <1>8. RequestsCounted /\ CostCoversBilling
    BY <1>2 DEF RequestsCounted, CostCoversBilling
  <1>9. QED
    BY <1>1, <1>3, <1>4, <1>7, <1>8 DEF BillInv

\* BillInv is inductive.
LEMMA BillStep == BillInv /\ [Next]_vars => BillInv'
  <1> SUFFICES ASSUME BillInv, [Next]_vars PROVE BillInv'
    OBVIOUS
  <1>1. TypeInv' /\ Locals' /\ QueriesPast'
    BY TypeStep, LocalsStep, QueriesStep DEF BillInv
  <1>2. SentCounted' /\ AnswersCounted' /\ TokensCounted'
    BY StepBills, HostBills DEF Next
  <1>3. RequestsCounted' /\ CostCoversBilling'
    BY SnapshotsBill
  <1>4. QED
    BY <1>1, <1>2, <1>3 DEF BillInv

\* The invariant of every behaviour.
LEMMA BillInvariant == Spec => []BillInv
  BY BillInit, BillStep, PTL DEF Spec

\* No request the service got for a query escapes its external_requests,
\* although the attempt is recorded before the request is sent and the query
\* may end in between (record_provider_attempt, end_query).
THEOREM RequestsAreCounted == Spec => []RequestsCounted
  <1>1. BillInv => RequestsCounted
    BY DEF BillInv
  <1>2. QED
    BY <1>1, BillInvariant, PTL

\* A cost render_profile states is all the service had billed for the query:
\* requests failed, unanswered or without usage figures withhold it.
THEOREM CostIsWhole == Spec => []CostCoversBilling
  <1>1. BillInv => CostCoversBilling
    BY DEF BillInv
  <1>2. QED
    BY <1>1, BillInvariant, PTL

-----------------------------------------------------------------------------
(* Rows, groups and judgments of the active query.                         *)

\* Without doom, a thread's step goes on with its rows.
LEMMA WorkMove ==
  ASSUME TypeInv, Locals, NEW w \in Workers, Step(w), scope[w] = active,
         ~Doomed'
  PROVE  \/ pc[w] = "input" /\ pc'[w] = "rows"
         \/ /\ pc[w] = "rows"
            /\ \/ pc'[w] = "done" /\ Leads(chunk[w]) = {}
               \/ pc'[w] = "claim" /\ TakeFirst(w, Leads(chunk[w]))
         \/ /\ pc[w] \in {"wait", "complete"}
            /\ \/ pc'[w] = "done" /\ LaterLeads(w) = {}
               \/ pc'[w] = "claim" /\ TakeFirst(w, LaterLeads(w))
         \/ /\ pos' = pos
            /\ \/ pc[w] = "claim" /\ pc'[w] \in {"flag", "join_flag"}
               \/ pc[w] = "hit" /\ pc'[w] = "complete"
               \/ pc[w] = "attempt" /\ pc'[w] = "call"
               \/ /\ pc[w] \in {"flag", "lookup", "size", "acquire"}
                  /\ pc'[w] \in {"lookup", "hit", "size", "acquire", "attempt"}
               \/ /\ pc[w] \in {"join_flag", "call", "response", "insert",
                                "release", "failed_request",
                                "provider_failure"}
                  /\ pc'[w] \in {"wait", "response", "insert", "release",
                                 "failed_request", "provider_failure",
                                 "complete"}
  <1>0. GroupTypeOK /\ LocalsOf(w)
    BY DEF TypeInv, TypeOK, GroupTypeOK, Locals
  <1>1. scope'[w] = active'
    BY StepFrame
  <1>2. pc'[w] # "failed" /\ (pc'[w] = "complete" => outcome'[w] # Failed)
    BY <1>1 DEF Doomed
  <1>3. CASE Wait(w) \/ Complete(w)
    <2>1. (\E r : Finish(w, r)) /\ pc[w] \in {"wait", "complete"}
      BY <1>3 DEF Wait, Complete
    <2>2. QED
      BY <1>0, <1>2, <2>1, FinishLocals
  <1>4. CASE RecordInput(w) \/ RecordRows(w)
    BY <1>0, <1>2, <1>4 DEF RecordInput, RecordRows, Goto, GroupTypeOK
  <1>5. CASE Claim(w) \/ FetchFlag(w)
    <2>1. ~Fail(w)
      BY <1>0, <1>2 DEF Fail, Goto, GroupTypeOK
    <2>2. QED
      BY <1>0, <1>5, <2>1 DEF Claim, FetchFlag, Goto, groupVars, GroupTypeOK
  <1>6. CASE Size(w) \/ Acquire(w)
    <2>1. outcome'[w] = Failed
      BY <1>0, <1>6 DEF Size, Acquire, groupVars, LocalsOf
    <2>2. QED
      BY <1>0, <1>2, <1>6, <2>1 DEF Size, Acquire, Goto, groupVars, GroupTypeOK
  <1>7. CASE Lookup(w) \/ Hit(w) \/ Attempt(w) \/ Call(w)
    BY <1>0, <1>7 DEF Lookup, Hit, Attempt, Call, Goto, groupVars, GroupTypeOK
  <1>8. CASE Response(w) \/ Insert(w) \/ Release(w) \/ FailedRequest(w)
               \/ ProviderFailure(w)
    BY <1>0, <1>8
       DEF Response, Insert, Release, FailedRequest, ProviderFailure, Goto,
           groupVars, GroupTypeOK
  <1>9. QED
    BY <1>3, <1>4, <1>5, <1>6, <1>7, <1>8 DEF Step

\* The groups still ahead after taking the first of them are all of them.
LEMMA FirstTaken ==
  ASSUME TypeInv, NEW w \in Workers, NEW L, TakeFirst(w, L),
         L = Leads(chunk[w]) \/ L = LaterLeads(w)
  PROVE  {i \in Leads(chunk[w]) : i > pos'[w] \/ i = pos'[w]} = L
  <1>1. /\ pos \in [Workers -> Nat]
        /\ chunk[w] \in Chunks \cup {<< >>}
    BY DEF TypeInv, TypeOK, TaskTypeOK
  <1>2. Leads(chunk[w]) \subseteq Nat
    BY <1>1, RowNumbers
  <1>3. pos'[w] \in L /\ \A j \in L : pos'[w] <= j
    BY <1>1 DEF TakeFirst
  <1>4. \A i \in Leads(chunk[w]) : i \in LaterLeads(w) <=> i > pos[w]
    BY DEF LaterLeads
  <1>5. L \subseteq Leads(chunk[w])
    BY DEF LaterLeads
  <1>6. pos[w] \in Nat
    BY <1>1
  <1>7. QED
    BY <1>2, <1>3, <1>4, <1>5, <1>6

\* What a step counts of a thread's rows and groups is what it takes off the
\* thread's hands.
LEMMA OwnBalance ==
  ASSUME TypeInv, Locals, NEW w \in Workers, Step(w), scope[w] = active,
         ~Doomed'
  PROVE  /\ counts'.input_rows + counts.null_rows + counts.valid_rows
              + Cardinality(Rows(w))
            = counts.input_rows + counts'.null_rows + counts'.valid_rows
              + Cardinality(Rows(w)')
         /\ counts'.valid_rows + counts.unique_judgments
              + counts.deduplicated_rows + Cardinality(Groups(w))
            = counts.valid_rows + counts'.unique_judgments
              + counts'.deduplicated_rows + Cardinality(Groups(w)')
         /\ counts'.unique_judgments + counts.cache_hit_judgments
              + counts.provider_invocations + Cardinality(Unasked)
            = counts.unique_judgments + counts'.cache_hit_judgments
              + counts'.provider_invocations + Cardinality(Unasked')
  <1>0. /\ chunk[w] \in Chunks \cup {<< >>} /\ pos[w] \in Nat
        /\ counts \in QueryCounts /\ LocalsOf(w)
    BY DEF TypeInv, TypeOK, RuntimeTypeOK, TaskTypeOK, Locals
  <1>1. UNCHANGED <<active, scope, chunk>>
    BY StepFrame
  <1>2. RowDelta(w)
    BY StepCounts
  <1>3. /\ IsFiniteSet(DOMAIN chunk[w])
        /\ Cardinality(DOMAIN chunk[w]) = Len(chunk[w])
        /\ IsFiniteSet(Leads(chunk[w])) /\ Leads(chunk[w]) \subseteq Nat
        /\ Len(chunk[w]) \in Nat
        /\ Cardinality(NullRows(chunk[w])) \in Nat
        /\ Cardinality(JudgedRows(chunk[w])) \in Nat
        /\ Cardinality(Leads(chunk[w])) \in Nat
        /\ pc[w] = "rows" => Len(chunk[w]) = Cardinality(NullRows(chunk[w]))
                                       + Cardinality(JudgedRows(chunk[w]))
    <2>1. pc[w] = "rows" => ~HasBadRow(chunk[w])
      BY <1>0 DEF LocalsOf
    <2>2. QED
      BY <1>0, <2>1, RowPartition, RowNumbers, RowCardinalities
  <1>4. /\ counts.input_rows \in Nat /\ counts.null_rows \in Nat
        /\ counts.valid_rows \in Nat /\ counts.deduplicated_rows \in Nat
        /\ counts.unique_judgments \in Nat /\ counts.cache_hit_judgments \in Nat
        /\ counts.provider_invocations \in Nat
    BY <1>0 DEF QueryCounts, CountFields
  <1>5. /\ Rows(w) = IF pc[w] = "rows" THEN DOMAIN chunk[w] ELSE {}
        /\ Rows(w)' = IF pc'[w] = "rows" THEN DOMAIN chunk[w] ELSE {}
    BY <1>1 DEF Rows
  <1>6. /\ Cardinality(Rows(w)) = IF pc[w] = "rows" THEN Len(chunk[w]) ELSE 0
        /\ Cardinality(Rows(w)') = IF pc'[w] = "rows" THEN Len(chunk[w]) ELSE 0
    BY <1>3, <1>5, NoneCounted
  <1> DEFINE G == Groups(w)
             G2 == Groups(w)'
             U == Cardinality(Unasked)
             U2 == Cardinality(Unasked')
             asking == {"flag", "lookup", "hit", "size", "acquire", "attempt"}
  <1>7. /\ G = IF pc[w] \in InGroup
               THEN {i \in Leads(chunk[w]) :
                       i > pos[w] \/ (i = pos[w] /\ pc[w] = "claim")}
               ELSE {}
        /\ G2 = IF pc'[w] \in InGroup
                THEN {i \in Leads(chunk[w]) :
                        i > pos'[w] \/ (i = pos'[w] /\ pc'[w] = "claim")}
                ELSE {}
    BY <1>1 DEF Groups
  <1>8. /\ U \in Nat /\ U2 \in Nat
        /\ (pc[w] \in asking <=> pc'[w] \in asking) => U2 = U
        /\ pc[w] \notin asking /\ pc'[w] \in asking => U2 = U + 1
        /\ pc[w] \in asking /\ pc'[w] \notin asking => U = U2 + 1
    <2>1. \A v \in Workers : v # w => pc'[v] = pc[v]
      BY OthersAlone DEF Alone
    <2>2. QED
      BY <1>1, <2>1, OursMove DEF Unasked
  <1>9. IsFiniteSet(G) /\ IsFiniteSet(G2)
    <2>1. G \in SUBSET Leads(chunk[w]) /\ G2 \in SUBSET Leads(chunk[w])
      BY <1>7
    <2>2. QED
      BY <1>3, <2>1, FS_Subset
  <1>10. Cardinality(G) \in Nat /\ Cardinality(G2) \in Nat
    BY <1>9, FS_CardinalityType
  <1>11. /\ pc[w] = "input" /\ pc'[w] = "rows" => G = G2
         /\ pc[w] = "rows" /\ pc'[w] \in {"done", "claim"} =>
              Cardinality(G) = 0
                /\ Cardinality(G2) = Cardinality(Leads(chunk[w]))
         /\ pc[w] = "claim" /\ pc'[w] \in {"flag", "join_flag"} =>
              Cardinality(G) = Cardinality(G2) + 1
         /\ pc[w] \notin {"input", "rows", "claim"} => G = G2
    <2>1. ASSUME pc[w] = "input", pc'[w] = "rows" PROVE G = G2
      BY <1>7, <2>1 DEF InGroup, Claimed, OwnerLabels
    <2>2. ASSUME pc[w] = "rows", pc'[w] \in {"done", "claim"}
          PROVE  /\ Cardinality(G) = 0
                 /\ Cardinality(G2) = Cardinality(Leads(chunk[w]))
      <3>1. G = {}
        BY <1>7, <2>2 DEF InGroup, Claimed, OwnerLabels
      <3>2. G2 = Leads(chunk[w])
        <4>1. CASE pc'[w] = "done"
          <5>1. Leads(chunk[w]) = {}
            BY <2>2, <4>1, WorkMove
          <5>2. QED
            BY <1>7, <4>1, <5>1 DEF InGroup, Claimed, OwnerLabels
        <4>2. CASE pc'[w] = "claim"
          <5>1. TakeFirst(w, Leads(chunk[w]))
            BY <2>2, <4>2, WorkMove
          <5>2. QED
            BY <1>7, <4>2, <5>1, FirstTaken DEF InGroup
        <4>3. QED
          BY <2>2, <4>1, <4>2
      <3>3. QED
        BY <3>1, <3>2, NoneCounted
    <2>3. ASSUME pc[w] = "claim", pc'[w] \in {"flag", "join_flag"}
          PROVE  Cardinality(G) = Cardinality(G2) + 1
      <3>1. pos' = pos
        BY <2>3, WorkMove
      <3>2. pos[w] \in Leads(chunk[w])
        BY <1>0, <2>3 DEF LocalsOf, InGroup
      <3>3. /\ G = {i \in Leads(chunk[w]) : i > pos[w] \/ i = pos[w]}
            /\ G2 = {i \in Leads(chunk[w]) : i > pos[w]}
        BY <1>7, <2>3, <3>1 DEF InGroup, Claimed, OwnerLabels
      <3>4. G = G2 \cup {pos[w]} /\ pos[w] \notin G2
        BY <1>0, <3>2, <3>3
      <3> HIDE DEF G, G2
      <3>5. QED
        BY <1>9, <3>4, FS_AddElement
    <2>4. ASSUME pc[w] \notin {"input", "rows", "claim"}
          PROVE  G = G2
      <3>1. CASE pc[w] \in {"wait", "complete"}
        <4>1. G = LaterLeads(w)
          BY <1>7, <3>1 DEF LaterLeads, InGroup, Claimed, OwnerLabels
        <4>2. CASE pc'[w] = "done" /\ LaterLeads(w) = {}
          BY <1>7, <4>1, <4>2 DEF InGroup, Claimed, OwnerLabels
        <4>3. CASE pc'[w] = "claim" /\ TakeFirst(w, LaterLeads(w))
          BY <1>7, <4>1, <4>3, FirstTaken DEF InGroup
        <4>4. QED
          BY <3>1, <4>2, <4>3, WorkMove
      <3>2. CASE pc[w] \notin {"wait", "complete"}
        <4>1. /\ pos' = pos
              /\ pc[w] \in InGroup /\ pc'[w] \in InGroup
              /\ pc[w] # "claim" /\ pc'[w] # "claim"
          BY <2>4, <3>2, WorkMove DEF InGroup, Claimed, OwnerLabels
        <4>2. QED
          BY <1>7, <4>1
      <3>3. QED
        BY <3>1, <3>2
    <2>5. QED
      BY <2>1, <2>2, <2>3, <2>4
  <1> DEFINE g == Cardinality(G)
             g2 == Cardinality(G2)
             l == Cardinality(Leads(chunk[w]))
             j == Cardinality(JudgedRows(chunk[w]))
             n == Cardinality(NullRows(chunk[w]))
             r == Cardinality(Rows(w))
             r2 == Cardinality(Rows(w)')
  <1>12. /\ pc[w] \notin {"rows", "claim"} => g2 = g
         /\ pc[w] = "rows" => g = 0 /\ g2 = l
         /\ pc[w] = "claim" => g = g2 + 1
         /\ pc[w] = "rows" => pc'[w] \in {"done", "claim"}
         /\ pc[w] = "claim" => pc'[w] \in {"flag", "join_flag"}
         /\ pc'[w] = "rows" <=> pc[w] = "input"
    BY <1>11, WorkMove
  <1>13. /\ pc[w] = "claim" /\ pc'[w] = "flag" => U2 = U + 1
         /\ pc[w] \in {"hit", "attempt"} => U = U2 + 1
         /\ ~(pc[w] = "claim" /\ pc'[w] = "flag")
              /\ pc[w] \notin {"hit", "attempt"} => U2 = U
    BY <1>8, WorkMove
  <1> HIDE DEF G, G2, g, g2, l, j, n, r, r2, U, U2
  <1>14. g \in Nat /\ g2 \in Nat /\ l \in Nat /\ j \in Nat /\ n \in Nat
    BY <1>3, <1>10 DEF g, g2, l, j, n
  <1>15. counts'.input_rows + counts.null_rows + counts.valid_rows + r
         = counts.input_rows + counts'.null_rows + counts'.valid_rows + r2
    <2>1. CASE pc[w] = "input"
      <3>1. /\ counts'.input_rows = counts.input_rows + Len(chunk[w])
            /\ counts'.null_rows = counts.null_rows + 0
            /\ counts'.valid_rows = counts.valid_rows + 0
            /\ r = 0
            /\ r2 = Len(chunk[w])
        BY <1>2, <1>6, <1>12, <2>1 DEF RowDelta, r, r2
      <3> DEFINE k == Len(chunk[w])
      <3>2. k \in Nat
        BY <1>3
      <3>3. /\ counts'.input_rows = counts.input_rows + k
            /\ counts'.null_rows = counts.null_rows
            /\ counts'.valid_rows = counts.valid_rows
            /\ r2 = k
        BY <1>4, <3>1
      <3> HIDE DEF k
      <3>4. QED
        BY <1>4, <3>1, <3>2, <3>3
    <2>2. CASE pc[w] = "rows"
      <3>1. /\ counts'.input_rows = counts.input_rows + 0
            /\ counts'.null_rows = counts.null_rows + n
            /\ counts'.valid_rows = counts.valid_rows + j
            /\ r = n + j
            /\ r2 = 0
        BY <1>2, <1>3, <1>6, <1>12, <2>2 DEF RowDelta, n, j, r, r2
      <3>2. QED
        BY <1>4, <1>14, <3>1
    <2>3. CASE pc[w] \notin {"input", "rows"}
      <3>1. /\ counts'.input_rows = counts.input_rows + 0
            /\ counts'.null_rows = counts.null_rows + 0
            /\ counts'.valid_rows = counts.valid_rows + 0
            /\ r = 0
            /\ r2 = 0
        BY <1>2, <1>6, <1>12, <2>3 DEF RowDelta, r, r2
      <3>2. QED
        BY <1>4, <3>1
    <2>4. QED
      BY <2>1, <2>2, <2>3
  <1>16. counts'.valid_rows + counts.unique_judgments
           + counts.deduplicated_rows + g
         = counts.valid_rows + counts'.unique_judgments
           + counts'.deduplicated_rows + g2
    <2>1. CASE pc[w] = "rows"
      <3>1. /\ counts'.valid_rows = counts.valid_rows + j
            /\ counts'.unique_judgments = counts.unique_judgments + 0
            /\ counts'.deduplicated_rows = counts.deduplicated_rows + (j - l)
            /\ g = 0 /\ g2 = l
        BY <1>2, <1>12, <2>1 DEF RowDelta, j, l
      <3>2. QED
        BY <1>4, <1>14, <3>1
    <2>2. CASE pc[w] = "claim"
      <3>1. /\ counts'.valid_rows = counts.valid_rows + 0
            /\ \/ /\ counts'.unique_judgments = counts.unique_judgments + 1
                  /\ counts'.deduplicated_rows = counts.deduplicated_rows + 0
               \/ /\ counts'.unique_judgments = counts.unique_judgments + 0
                  /\ counts'.deduplicated_rows = counts.deduplicated_rows + 1
            /\ g = g2 + 1
        BY <1>2, <1>12, <2>2 DEF RowDelta
      <3>2. QED
        BY <1>4, <1>14, <3>1
    <2>3. CASE pc[w] \notin {"rows", "claim"}
      <3>1. /\ counts'.valid_rows = counts.valid_rows + 0
            /\ counts'.unique_judgments = counts.unique_judgments + 0
            /\ counts'.deduplicated_rows = counts.deduplicated_rows + 0
            /\ g2 = g
        BY <1>2, <1>12, <2>3 DEF RowDelta
      <3>2. QED
        BY <1>4, <1>14, <3>1
    <2>4. QED
      BY <2>1, <2>2, <2>3
  <1>17. counts'.unique_judgments + counts.cache_hit_judgments
           + counts.provider_invocations + U
         = counts.unique_judgments + counts'.cache_hit_judgments
           + counts'.provider_invocations + U2
    <2>1. CASE pc[w] = "claim" /\ pc'[w] = "flag"
      <3>1. /\ counts'.unique_judgments = counts.unique_judgments + 1
            /\ counts'.cache_hit_judgments = counts.cache_hit_judgments + 0
            /\ counts'.provider_invocations = counts.provider_invocations + 0
            /\ U2 = U + 1
        BY <1>2, <1>13, <2>1 DEF RowDelta
      <3>2. QED
        BY <1>4, <1>8, <3>1
    <2>2. CASE pc[w] \in {"hit", "attempt"}
      <3>1. /\ counts'.unique_judgments = counts.unique_judgments + 0
            /\ \/ /\ counts'.cache_hit_judgments = counts.cache_hit_judgments + 1
                  /\ counts'.provider_invocations
                       = counts.provider_invocations + 0
               \/ /\ counts'.cache_hit_judgments = counts.cache_hit_judgments + 0
                  /\ counts'.provider_invocations
                       = counts.provider_invocations + 1
            /\ U = U2 + 1
        BY <1>2, <1>13, <2>2 DEF RowDelta
      <3>2. QED
        BY <1>4, <1>8, <3>1
    <2>3. CASE /\ ~(pc[w] = "claim" /\ pc'[w] = "flag")
               /\ pc[w] \notin {"hit", "attempt"}
      <3>1. /\ counts'.unique_judgments = counts.unique_judgments + 0
            /\ counts'.cache_hit_judgments = counts.cache_hit_judgments + 0
            /\ counts'.provider_invocations = counts.provider_invocations + 0
            /\ U2 = U
        BY <1>2, <1>13, <2>3 DEF RowDelta
      <3>2. QED
        BY <1>4, <1>8, <3>1
    <2>4. QED
      BY <2>1, <2>2, <2>3
  <1>18. QED
    BY <1>15, <1>16, <1>17 DEF g, g2, G, G2, r, r2, U, U2

\* Pairs of finitely many threads can be counted, and one thread's share can
\* be exchanged for another.
LEMMA PairsMove ==
  ASSUME NEW F, NEW G, DOMAIN F = Workers, DOMAIN G = Workers,
         \A v \in Workers : IsFiniteSet(F[v]) /\ IsFiniteSet(G[v]),
         NEW w \in Workers, \A v \in Workers : v # w => G[v] = F[v]
  PROVE  /\ Cardinality(Pairs(F)) \in Nat /\ Cardinality(Pairs(G)) \in Nat
         /\ Cardinality(F[w]) \in Nat /\ Cardinality(G[w]) \in Nat
         /\ Cardinality(Pairs(G)) + Cardinality(F[w])
              = Cardinality(Pairs(F)) + Cardinality(G[w])
  <1> DEFINE W == Workers \ {w}
             T == {{v} \X F[v] : v \in W}
             f == [v \in W |-> {v} \X F[v]]
             R == UNION T
  <1>1. IsFiniteSet(W)
    BY ThreadAssumption, FS_Subset
  <1>2. f \in Surjection(W, T)
    BY DEF Surjection
  <1>3. IsFiniteSet(T)
    BY <1>1, <1>2, FS_Surjection
  <1>4. \A t \in T : IsFiniteSet(t)
    <2>1. ASSUME NEW v \in W
          PROVE  IsFiniteSet({v} \X F[v])
      BY FS_Singleton, FS_Product
    <2>2. QED
      BY <2>1
  <1>5. IsFiniteSet(R)
    BY <1>3, <1>4, FS_UNION
  <1>6. ASSUME NEW H, DOMAIN H = Workers, IsFiniteSet(H[w]),
               \A v \in W : H[v] = F[v]
        PROVE  /\ Cardinality(Pairs(H)) \in Nat
               /\ Cardinality(H[w]) \in Nat
               /\ Cardinality(Pairs(H)) = Cardinality(R) + Cardinality(H[w])
    <2> DEFINE P == {w} \X H[w]
    <2>1. Pairs(H) = R \cup P
      <3>1. \A x : x \in Pairs(H) <=> \E v \in Workers : x \in {v} \X H[v]
        BY <1>6 DEF Pairs
      <3>2. \A x : x \in R <=> \E v \in W : x \in {v} \X F[v]
        OBVIOUS
      <3> HIDE DEF R
      <3>3. \A x : x \in Pairs(H) <=> x \in R \/ x \in P
        BY <1>6, <3>1, <3>2
      <3>4. QED
        BY <3>3
    <2>2. R \cap P = {}
      OBVIOUS
    <2>3. /\ IsFiniteSet(P)
          /\ Cardinality(P) = Cardinality({w}) * Cardinality(H[w])
      BY <1>6, FS_Singleton, FS_Product
    <2>4. Cardinality({w}) = 1
      BY FS_Singleton
    <2>5. Cardinality(H[w]) \in Nat /\ Cardinality(R) \in Nat
      BY <1>5, <1>6, FS_CardinalityType
    <2> HIDE DEF R, P
    <2>6. Cardinality(R \cup P) = Cardinality(R) + Cardinality(P)
                                  - Cardinality(R \cap P)
      BY <1>5, <2>3, FS_Union
    <2>7. Cardinality(R \cap P) = 0
      BY <2>2, NoneCounted
    <2>8. Cardinality(P) = Cardinality(H[w])
      BY <2>3, <2>4, <2>5
    <2>9. QED
      BY <2>1, <2>5, <2>6, <2>7, <2>8
  <1>7. Cardinality(R) \in Nat
    BY <1>5, FS_CardinalityType
  <1> HIDE DEF R
  <1>8. /\ Cardinality(Pairs(F)) \in Nat /\ Cardinality(F[w]) \in Nat
        /\ Cardinality(Pairs(F)) = Cardinality(R) + Cardinality(F[w])
    BY <1>6
  <1>9. /\ Cardinality(Pairs(G)) \in Nat /\ Cardinality(G[w]) \in Nat
        /\ Cardinality(Pairs(G)) = Cardinality(R) + Cardinality(G[w])
    BY <1>6
  <1>10. QED
    BY <1>7, <1>8, <1>9

\* No threads at work, nothing ahead.
LEMMA NothingAhead ==
  ASSUME \A w \in Workers : scope[w] = active => pc[w] \in Resting \cup {"input"}
  PROVE  /\ RowsAhead = {} /\ GroupsAhead = {} /\ Unasked = {}
  <1>1. \A w \in Workers : Rows(w) = {} /\ Groups(w) = {}
    BY DEF Rows, Groups, Resting, InGroup, Claimed, OwnerLabels
  <1>2. Unasked = {}
    BY DEF Unasked, Ours, Resting
  <1>3. QED
    BY <1>1, <1>2 DEF RowsAhead, GroupsAhead, Pairs

\* A thread bound to fail its statement stays so: only the end of the query
\* lets go of it.
LEMMA DoomStays ==
  ASSUME TypeInv, Doomed, NEW w \in Workers, Start(w) \/ Step(w)
  PROVE  Doomed'
  <1>0. GroupTypeOK /\ TaskTypeOK
    BY DEF TypeInv, TypeOK, GroupTypeOK
  <1>1. PICK d \in Workers :
          /\ scope[d] = active
          /\ \/ pc[d] = "failed"
             \/ /\ pc[d] \in {"release", "failed_request", "provider_failure",
                              "complete"}
                /\ outcome[d] = Failed
    BY DEF Doomed
  <1>2. CASE d # w
    <2>1. Alone(d)
      BY <1>2, OthersAlone
    <2>2. active' = active
      BY StepFrame DEF Start, queryVars
    <2>3. QED
      BY <1>1, <2>1, <2>2 DEF Doomed, Alone
  <1>3. CASE d = w /\ Start(w)
    BY <1>1, <1>3 DEF Start, CanStart, Running, Resting, QueryScope
  <1>4. CASE d = w /\ Step(w)
    <2>1. scope'[d] = active'
      BY <1>1, <1>4, StepFrame
    <2>2. \/ pc'[d] = "failed"
          \/ /\ pc'[d] \in {"failed_request", "provider_failure", "complete"}
             /\ outcome'[d] = Failed
      <3>1. CASE Complete(w)
        BY <1>0, <1>1, <1>4, <3>1, FinishLocals DEF Complete, Finish, Fail
      <3>2. CASE Release(w) \/ FailedRequest(w) \/ ProviderFailure(w)
        BY <1>0, <1>1, <1>4, <3>2
           DEF Release, FailedRequest, ProviderFailure, Goto, groupVars,
               GroupTypeOK
      <3>3. QED
        BY <1>1, <1>4, <3>1, <3>2
           DEF Step, RecordInput, RecordRows, Claim, FetchFlag, Wait, Lookup,
               Hit, Size, Acquire, Attempt, Call, Response, Insert
    <2>3. QED
      BY <2>1, <2>2 DEF Doomed
  <1>5. QED
    BY <1>2, <1>3, <1>4

\* What is ahead of one thread is finite, also after a step that leaves its
\* chunk alone.
LEMMA AheadFinite ==
  ASSUME TypeInv, chunk' = chunk, NEW w \in Workers
  PROVE  /\ IsFiniteSet(Rows(w)) /\ IsFiniteSet(Groups(w))
         /\ IsFiniteSet(Rows(w)') /\ IsFiniteSet(Groups(w)')
  <1>1. chunk[w] \in Chunks \cup {<< >>}
    BY DEF TypeInv, TypeOK, TaskTypeOK
  <1>2. IsFiniteSet(DOMAIN chunk[w]) /\ IsFiniteSet(Leads(chunk[w]))
    BY <1>1, RowPartition
  <1>3. /\ Rows(w) \in SUBSET DOMAIN chunk[w]
        /\ Rows(w)' \in SUBSET DOMAIN chunk[w]
        /\ Groups(w) \in SUBSET Leads(chunk[w])
        /\ Groups(w)' \in SUBSET Leads(chunk[w])
    BY DEF Rows, Groups
  <1>4. QED
    BY <1>2, <1>3, FS_Subset

\* A thread's step keeps rows, groups and judgments accounted for.
LEMMA StepBalances ==
  ASSUME BalanceInv, NEW w \in Workers, Step(w), ~Doomed'
  PROVE  RowsCounted' /\ GroupsCounted' /\ JudgmentsCounted'
  <1>0. /\ TypeInv /\ Locals
        /\ RowsCounted /\ GroupsCounted /\ JudgmentsCounted
    BY DoomStays DEF BalanceInv
  <1>1. TypeInv'
    BY <1>0, TypeStep DEF Next
  <1>2. UNCHANGED <<active, scope, chunk>>
    BY StepFrame
  <1>3. \A v \in Workers : v # w =>
          /\ Alone(v) /\ Rows(v)' = Rows(v) /\ Groups(v)' = Groups(v)
    BY <1>0, <1>2, OthersAlone DEF Alone, Rows, Groups
  <1> DEFINE F == [v \in Workers |-> Rows(v)]
             G == [v \in Workers |-> Groups(v)]
             F2 == [v \in Workers |-> Rows(v)']
             G2 == [v \in Workers |-> Groups(v)']
             r == Cardinality(RowsAhead)
             r2 == Cardinality(RowsAhead')
             g == Cardinality(GroupsAhead)
             g2 == Cardinality(GroupsAhead')
             u == Cardinality(Unasked)
             u2 == Cardinality(Unasked')
             rw == Cardinality(Rows(w))
             rw2 == Cardinality(Rows(w)')
             gw == Cardinality(Groups(w))
             gw2 == Cardinality(Groups(w)')
  <1>4. /\ r = Cardinality(Pairs(F)) /\ r2 = Cardinality(Pairs(F2))
        /\ g = Cardinality(Pairs(G)) /\ g2 = Cardinality(Pairs(G2))
    BY DEF RowsAhead, GroupsAhead, Pairs
  <1>5. \A v \in Workers :
          /\ IsFiniteSet(Rows(v)) /\ IsFiniteSet(Groups(v))
          /\ IsFiniteSet(Rows(v)') /\ IsFiniteSet(Groups(v)')
    BY <1>0, <1>2, AheadFinite
  <1>6. /\ r \in Nat /\ r2 \in Nat /\ rw \in Nat /\ rw2 \in Nat
        /\ r2 + rw = r + rw2
    <2>1. /\ Cardinality(Pairs(F)) \in Nat /\ Cardinality(Pairs(F2)) \in Nat
          /\ Cardinality(F[w]) \in Nat /\ Cardinality(F2[w]) \in Nat
          /\ Cardinality(Pairs(F2)) + Cardinality(F[w])
               = Cardinality(Pairs(F)) + Cardinality(F2[w])
      BY <1>3, <1>5, PairsMove
    <2>2. QED
      BY <1>4, <2>1
  <1>7. /\ g \in Nat /\ g2 \in Nat /\ gw \in Nat /\ gw2 \in Nat
        /\ g2 + gw = g + gw2
    <2>1. /\ Cardinality(Pairs(G)) \in Nat /\ Cardinality(Pairs(G2)) \in Nat
          /\ Cardinality(G[w]) \in Nat /\ Cardinality(G2[w]) \in Nat
          /\ Cardinality(Pairs(G2)) + Cardinality(G[w])
               = Cardinality(Pairs(G)) + Cardinality(G2[w])
      BY <1>3, <1>5, PairsMove
    <2>2. QED
      BY <1>4, <2>1
  <1>8. /\ u \in Nat /\ u2 \in Nat
        /\ scope[w] # active => u2 = u
    BY <1>2, <1>3, OursMove DEF Unasked, Alone
  <1>9. /\ RowsCounted <=>
             counts.input_rows = counts.null_rows + counts.valid_rows + r
        /\ RowsCounted' <=>
             counts'.input_rows = counts'.null_rows + counts'.valid_rows + r2
    BY DEF RowsCounted
  <1>10. /\ GroupsCounted <=>
              counts.valid_rows = counts.unique_judgments
                                  + counts.deduplicated_rows + g
         /\ GroupsCounted' <=>
              counts'.valid_rows = counts'.unique_judgments
                                   + counts'.deduplicated_rows + g2
    BY DEF GroupsCounted
  <1>11. /\ JudgmentsCounted <=>
              counts.unique_judgments = counts.cache_hit_judgments
                                        + counts.provider_invocations + u
         /\ JudgmentsCounted' <=>
              counts'.unique_judgments = counts'.cache_hit_judgments
                                         + counts'.provider_invocations + u2
    BY DEF JudgmentsCounted
  <1>12. /\ counts.input_rows \in Nat /\ counts.null_rows \in Nat
         /\ counts.valid_rows \in Nat /\ counts.deduplicated_rows \in Nat
         /\ counts.unique_judgments \in Nat /\ counts.cache_hit_judgments \in Nat
         /\ counts.provider_invocations \in Nat
    BY <1>0 DEF TypeInv, TypeOK, RuntimeTypeOK, QueryCounts, CountFields
  <1>13. /\ counts'.input_rows \in Nat /\ counts'.null_rows \in Nat
         /\ counts'.valid_rows \in Nat /\ counts'.deduplicated_rows \in Nat
         /\ counts'.unique_judgments \in Nat
         /\ counts'.cache_hit_judgments \in Nat
         /\ counts'.provider_invocations \in Nat
    BY <1>1 DEF TypeInv, TypeOK, RuntimeTypeOK, QueryCounts, CountFields
  <1>14. CASE scope[w] # active
    <2>1. /\ Rows(w) = {} /\ Rows(w)' = {}
          /\ Groups(w) = {} /\ Groups(w)' = {}
      BY <1>2, <1>14 DEF Rows, Groups
    <2>2. rw = 0 /\ rw2 = 0 /\ gw = 0 /\ gw2 = 0
      BY <2>1, NoneCounted
    <2>3. counts' = counts
      BY <1>0, <1>14, StepCounts
    <2> HIDE DEF r, r2, g, g2, u, u2, rw, rw2, gw, gw2
    <2>4. r2 = r /\ g2 = g /\ u2 = u
      BY <1>6, <1>7, <1>8, <1>14, <2>2
    <2>5. QED
      BY <1>0, <1>9, <1>10, <1>11, <2>3, <2>4
  <1>15. CASE scope[w] = active
    <2>1. counts'.input_rows + counts.null_rows + counts.valid_rows + rw
            = counts.input_rows + counts'.null_rows + counts'.valid_rows + rw2
      BY <1>0, <1>15, OwnBalance
    <2>2. counts'.valid_rows + counts.unique_judgments
              + counts.deduplicated_rows + gw
            = counts.valid_rows + counts'.unique_judgments
              + counts'.deduplicated_rows + gw2
      BY <1>0, <1>15, OwnBalance
    <2>3. counts'.unique_judgments + counts.cache_hit_judgments
              + counts.provider_invocations + u
            = counts.unique_judgments + counts'.cache_hit_judgments
              + counts'.provider_invocations + u2
      BY <1>0, <1>15, OwnBalance
    <2> HIDE DEF r, r2, g, g2, u, u2, rw, rw2, gw, gw2
    <2>4. RowsCounted'
      <3>1. counts.input_rows = counts.null_rows + counts.valid_rows + r
        BY <1>0, <1>9
      <3>2. counts'.input_rows = counts'.null_rows + counts'.valid_rows + r2
        BY <1>6, <1>12, <1>13, <2>1, <3>1, Carried
      <3>3. QED
        BY <1>9, <3>2
    <2>5. GroupsCounted'
      <3>1. counts.valid_rows = counts.unique_judgments
                                + counts.deduplicated_rows + g
        BY <1>0, <1>10
      <3>2. counts'.valid_rows = counts'.unique_judgments
                                 + counts'.deduplicated_rows + g2
        BY <1>7, <1>12, <1>13, <2>2, <3>1, Carried
      <3>3. QED
        BY <1>10, <3>2
    <2>6. JudgmentsCounted'
      <3>1. counts.unique_judgments = counts.cache_hit_judgments
                                      + counts.provider_invocations + u
        BY <1>0, <1>11
      <3>2. counts'.unique_judgments = counts'.cache_hit_judgments
                                       + counts'.provider_invocations + u2
        BY <1>8, <1>12, <1>13, <2>3, <3>1
      <3>3. QED
        BY <1>11, <3>2
    <2>7. QED
      BY <2>4, <2>5, <2>6
  <1>16. QED
    BY <1>14, <1>15

\* The host's callbacks and a chunk's start leave them accounted for.
LEMMA HostBalances ==
  ASSUME BalanceInv, \/ Begin \/ End \/ CacheClear \/ Closed \/ UNCHANGED vars
                     \/ \E w \in Workers : Start(w)
  PROVE  /\ ~Doomed' => RowsCounted' /\ GroupsCounted' /\ JudgmentsCounted'
         /\ FailuresDoom'
  <1>0. /\ TypeInv /\ QueriesPast /\ nextQuery \in Nat
        /\ scope \in [Workers -> Nat] /\ counts \in QueryCounts
        /\ ~Doomed => RowsCounted /\ GroupsCounted /\ JudgmentsCounted
        /\ FailuresDoom
    BY DEF BalanceInv, TypeInv, TypeOK, RuntimeTypeOK, TaskTypeOK
  <1>1. CASE Begin \/ End
    <2>1. /\ counts' = ZeroCounts /\ UNCHANGED scope
          /\ active' = nextQuery \/ active' = NoQuery
      BY <1>1 DEF Begin, HostBegin, BeginQuery, End, HostEnd, EndQuery,
                  threadVars, taskVars
    <2>2. \A v \in Workers : scope'[v] # active'
      BY <1>0, <2>1, RuntimeAssumption DEF QueriesPast
    <2>3. RowsAhead' = {} /\ GroupsAhead' = {} /\ Unasked' = {}
      <3>1. \A v \in Workers : Rows(v)' = {} /\ Groups(v)' = {}
        BY <2>2 DEF Rows, Groups
      <3>2. QED
        BY <2>2, <3>1 DEF RowsAhead, GroupsAhead, Pairs, Unasked, Ours
    <2>4. /\ counts'.input_rows = 0 /\ counts'.null_rows = 0
          /\ counts'.valid_rows = 0 /\ counts'.deduplicated_rows = 0
          /\ counts'.unique_judgments = 0 /\ counts'.cache_hit_judgments = 0
          /\ counts'.provider_invocations = 0 /\ counts'.failed_requests = 0
      BY <2>1 DEF ZeroCounts, CountFields
    <2>5. QED
      BY <2>3, <2>4, NoneCounted
         DEF RowsCounted, GroupsCounted, JudgmentsCounted, FailuresDoom
  <1>2. CASE CacheClear \/ Closed \/ UNCHANGED vars
    <2>1. UNCHANGED <<counts, active, scope, pc, pos, chunk, outcome>>
      BY <1>2 DEF CacheClear, Closed, vars, runtimeVars, queryVars, threadVars,
                  taskVars, groupVars
    <2>2. UNCHANGED <<RowsAhead, GroupsAhead, Unasked, Doomed>>
      BY <2>1 DEF RowsAhead, GroupsAhead, Pairs, Rows, Groups, Unasked, Ours,
                  Doomed
    <2>3. QED
      BY <1>0, <2>1, <2>2
         DEF RowsCounted, GroupsCounted, JudgmentsCounted, FailuresDoom
  <1>3. ASSUME NEW w \in Workers, Start(w)
        PROVE  /\ ~Doomed' => RowsCounted' /\ GroupsCounted' /\ JudgmentsCounted'
               /\ FailuresDoom'
    <2>1. \A v \in Workers : v # w => Alone(v)
      BY <1>0, <1>3, OthersAlone
    <2>2. /\ UNCHANGED <<counts, active>>
          /\ pc'[w] = "input" /\ pc[w] \in Resting
      BY <1>0, <1>3 DEF Start, CanStart, Running, Goto, queryVars, TypeInv,
                        TypeOK
    <2>3. UNCHANGED <<RowsAhead, GroupsAhead, Unasked>>
      <3>1. \A v \in Workers : Rows(v)' = Rows(v) /\ Groups(v)' = Groups(v)
        BY <2>1, <2>2 DEF Alone, Rows, Groups, Resting, InGroup, Claimed,
                          OwnerLabels
      <3>2. Unasked' = Unasked
        BY <2>1, <2>2 DEF Alone, Unasked, Ours, Resting
      <3>3. QED
        BY <3>1, <3>2 DEF RowsAhead, GroupsAhead, Pairs
    <2>4. Doomed => Doomed'
      BY <1>0, <1>3, DoomStays
    <2>5. QED
      BY <1>0, <2>2, <2>3, <2>4
         DEF RowsCounted, GroupsCounted, JudgmentsCounted, FailuresDoom
  <1>4. QED
    BY <1>1, <1>2, <1>3

\* A request recorded as failed dooms the thread that sent it.
LEMMA FailureDooms ==
  ASSUME BalanceInv, NEW w \in Workers, Step(w)
  PROVE  FailuresDoom'
  <1>0. /\ TypeInv /\ GroupTypeOK /\ FailuresDoom /\ LocalsOf(w)
        /\ counts.failed_requests \in Nat
    BY DEF BalanceInv, TypeInv, TypeOK, GroupTypeOK, RuntimeTypeOK, QueryCounts,
           CountFields, Locals
  <1>1. CASE scope[w] = active /\ pc[w] = "failed_request"
    <2>1. FailedRequest(w)
      BY <1>1 DEF Step, RecordInput, RecordRows, Claim, FetchFlag, Wait, Lookup,
                  Hit, Size, Acquire, Attempt, Call, Response, Insert, Release,
                  ProviderFailure, Complete
    <2>2. /\ outcome'[w] = Failed
          /\ pc'[w] \in {"provider_failure", "complete"}
      BY <1>0, <1>1, <2>1
         DEF FailedRequest, Goto, groupVars, GroupTypeOK, LocalsOf
    <2>3. scope'[w] = active'
      BY <1>1, StepFrame
    <2>4. QED
      BY <2>2, <2>3 DEF FailuresDoom, Doomed
  <1>2. CASE ~(scope[w] = active /\ pc[w] = "failed_request")
    <2>1. counts'.failed_requests = counts.failed_requests
      BY <1>0, <1>2, StepCounts DEF BillDelta
    <2>2. QED
      BY <1>0, <2>1, DoomStays DEF FailuresDoom
  <1>3. QED
    BY <1>1, <1>2

\* A query that succeeds has nothing ahead and no failure behind it.
LEMMA SuccessBalances ==
  ASSUME BalanceInv, [Next]_vars
  PROVE  SnapshotBalanced'
  <1>0. /\ TypeInv /\ SnapshotBalanced /\ FailuresDoom
        /\ ~Doomed => RowsCounted /\ GroupsCounted /\ JudgmentsCounted
        /\ counts \in QueryCounts
    BY DEF BalanceInv, TypeInv, TypeOK, RuntimeTypeOK
  <1>1. CASE ~End
    <2>1. lastQuery' = lastQuery
      <3>1. CASE \E w \in Workers : Step(w)
        BY <3>1, StepFrame
      <3>2. CASE ~ \E w \in Workers : Step(w)
        BY <1>1, <3>2 DEF Next, Begin, HostBegin, BeginQuery, CacheClear, Closed,
                          vars, runtimeVars, queryVars, Start
      <3>3. QED
        BY <3>1, <3>2
    <2>2. QED
      BY <1>0, <2>1 DEF SnapshotBalanced
  <1>2. CASE End
    <2>1. PICK o \in QueryOutcomes : HostEnd(o)
      BY <1>2 DEF End
    <2>2. \A s \in lastQuery' : \/ s \in lastQuery
                                \/ s.outcome = o /\ s.counts = counts
      BY <2>1 DEF HostEnd, EndQuery
    <2>3. ASSUME o = "succeeded"
          PROVE  /\ counts.input_rows = counts.null_rows + counts.valid_rows
                 /\ counts.valid_rows
                      = counts.unique_judgments + counts.deduplicated_rows
                 /\ counts.unique_judgments
                      = counts.cache_hit_judgments + counts.provider_invocations
                 /\ counts.failed_requests = 0
      <3>1. \A w \in Workers : scope[w] = active => pc[w] \in {"idle", "done"}
        BY <2>1, <2>3 DEF HostEnd
      <3>2. ~Doomed
        BY <3>1 DEF Doomed
      <3>3. RowsAhead = {} /\ GroupsAhead = {} /\ Unasked = {}
        BY <3>1, NothingAhead DEF Resting
      <3>4. /\ Cardinality(RowsAhead) = 0 /\ Cardinality(GroupsAhead) = 0
            /\ Cardinality(Unasked) = 0
        BY <3>3, NoneCounted
      <3>5. \A f \in CountFields : counts[f] \in Nat
        BY <1>0 DEF QueryCounts
      <3>6. /\ counts.input_rows = counts.null_rows + counts.valid_rows + 0
            /\ counts.valid_rows = counts.unique_judgments
                                   + counts.deduplicated_rows + 0
            /\ counts.unique_judgments = counts.cache_hit_judgments
                                         + counts.provider_invocations + 0
        BY <1>0, <3>2, <3>4 DEF RowsCounted, GroupsCounted, JudgmentsCounted
      <3>7. counts.failed_requests = 0
        BY <1>0, <3>2, <3>5 DEF FailuresDoom, CountFields
      <3>8. QED
        BY <3>5, <3>6, <3>7 DEF CountFields
    <2>4. QED
      BY <1>0, <2>2, <2>3 DEF SnapshotBalanced
  <1>3. QED
    BY <1>1, <1>2

\* Nothing is read, grouped or asked at first.
LEMMA BalanceInit == Init => BalanceInv
  <1> SUFFICES ASSUME Init PROVE BalanceInv
    OBVIOUS
  <1>1. TypeInv /\ Locals /\ QueriesPast
    BY BillInit DEF BillInv
  <1>2. /\ \A w \in Workers : pc[w] = "idle"
        /\ counts = ZeroCounts /\ lastQuery = {}
    BY DEF Init, ThreadsInit, RuntimeInit
  <1>3. RowsAhead = {} /\ GroupsAhead = {} /\ Unasked = {}
    BY <1>2, NothingAhead DEF Resting
  <1>4. RowsCounted /\ GroupsCounted /\ JudgmentsCounted
    BY <1>2, <1>3, NoneCounted
       DEF RowsCounted, GroupsCounted, JudgmentsCounted, ZeroCounts, CountFields
  <1>5. FailuresDoom /\ SnapshotBalanced
    BY <1>2 DEF FailuresDoom, SnapshotBalanced, ZeroCounts, CountFields
  <1>6. QED
    BY <1>1, <1>4, <1>5 DEF BalanceInv

\* BalanceInv is inductive.
LEMMA BalanceStep == BalanceInv /\ [Next]_vars => BalanceInv'
  <1> SUFFICES ASSUME BalanceInv, [Next]_vars PROVE BalanceInv'
    OBVIOUS
  <1>1. TypeInv' /\ Locals' /\ QueriesPast'
    BY TypeStep, LocalsStep, QueriesStep DEF BalanceInv
  <1>2. /\ ~Doomed' => RowsCounted' /\ GroupsCounted' /\ JudgmentsCounted'
        /\ FailuresDoom'
    BY StepBalances, HostBalances, FailureDooms DEF Next
  <1>3. SnapshotBalanced'
    BY SuccessBalances
  <1>4. QED
    BY <1>1, <1>2, <1>3 DEF BalanceInv

\* The profile of a query that succeeded accounts for all its rows, whatever
\* was shared between threads, cached or cancelled on the way, and however
\* long the counts lagged behind (end_query's snapshot).
THEOREM SnapshotsBalance == Spec => []SnapshotBalanced
  <1>1. BalanceInv => SnapshotBalanced
    BY DEF BalanceInv
  <1>2. QED
    BY <1>1, BalanceInit, BalanceStep, PTL DEF Spec
=============================================================================
