---------------------------- MODULE BatchExecutor ----------------------------
(***************************************************************************)
(* Optimized execution with batching: run_optimized of                     *)
(* src/functions/mod.rs calling execute_batch_groups and                   *)
(* BatchDispatch::dispatch of judgment-core/executor.rs.  A thread first   *)
(* claims an entry for every group of its chunk, then sends the judgments  *)
(* it leads in batches of one question, and only then waits for the ones   *)
(* it follows.                                                             *)
(***************************************************************************)
EXTENDS ScalarThreads, FiniteSetsExt

CONSTANTS
  CacheOn,          \* duckjeu_cache_enabled
  Question,         \* key -> its question: what same_batch_context compares
  Size,             \* key -> its share of estimate_request_bytes
  MaxJudgments,     \* the smaller of the configured and the service limit
  MaxRequestBytes   \* duckjeu_max_request_bytes

ASSUME BatchAssumption ==
  /\ CacheOn \in BOOLEAN
  /\ Size \in [Keys -> Nat \ {0}]
  /\ DOMAIN Question = Keys
  /\ MaxJudgments \in Nat \ {0}
  /\ MaxRequestBytes \in Nat \ {0}

VARIABLES
  pos,        \* the group a thread is claiming, by its first row
  entry,      \* the entry it has just claimed
  leaders,    \* the groups it must ask for: first row -> entry
  followers,  \* the groups another thread asks for: first row -> entry
  todo,       \* the groups it leads and has not sent
  batch,      \* the groups of the request under way, not yet settled
  reply,      \* the provider's response
  answers,    \* the validated answers of the batch: first row -> answer
  out         \* rows answered so far: row -> answer

claimVars == <<pos, entry, leaders, followers>>
sendVars == <<todo, batch, reply, answers>>
batchVars == <<claimVars, sendVars, out>>

vars == <<runtimeVars, threadVars, batchVars>>

PermitLabels == {"attempt", "call", "response", "release"}

Labels == Resting \cup PermitLabels
            \cup {"input", "rows", "claim", "flag", "join_flag", "lookup",
                  "hit", "hit_complete", "plan", "acquire", "insert",
                  "settle_stored", "settle", "failed_request",
                  "provider_failure", "fail_leaders", "wait"}

\* No response, and one whose answers have been taken out.
NoReply == [labels |-> << >>, val |-> 0, sound |-> FALSE, usage |-> "none"]
Received == [NoReply EXCEPT !.usage = "taken"]

Init ==
  /\ ThreadsInit
  /\ pos = [w \in Workers |-> 0]
  /\ entry = [w \in Workers |-> 0]
  /\ leaders = [w \in Workers |-> EmptyMap]
  /\ followers = [w \in Workers |-> EmptyMap]
  /\ todo = [w \in Workers |-> {}]
  /\ batch = [w \in Workers |-> {}]
  /\ reply = [w \in Workers |-> NoReply]
  /\ answers = [w \in Workers |-> EmptyMap]
  /\ out = [w \in Workers |-> EmptyMap]

IdentityOf(w, i) == [key |-> chunk[w][i], model |-> ctx[w].model,
                     scope |-> cscope[w], query |-> scope[w]]

CacheIdentityOf(w, i) == [key |-> chunk[w][i], model |-> ctx[w].model,
                          scope |-> cscope[w]]

Cacheable(w) == CacheOn /\ ctx[w].model \in PinnedModels

With(map, i, e) == [j \in DOMAIN map \cup {i} |-> IF j = i THEN e ELSE map[j]]

\* The answer of group i to all its rows.
Expand(w, i, answer) ==
  out' = [out EXCEPT ![w] =
            [j \in DOMAIN out[w] \cup Targets(chunk[w], i) |->
               IF j \in DOMAIN out[w] THEN out[w][j] ELSE answer]]

\* The locals of execute_batch_groups, unset outside it.
Reset(w) ==
  /\ pos' = [pos EXCEPT ![w] = 0]
  /\ entry' = [entry EXCEPT ![w] = 0]
  /\ leaders' = [leaders EXCEPT ![w] = EmptyMap]
  /\ followers' = [followers EXCEPT ![w] = EmptyMap]
  /\ todo' = [todo EXCEPT ![w] = {}]
  /\ batch' = [batch EXCEPT ![w] = {}]
  /\ reply' = [reply EXCEPT ![w] = NoReply]
  /\ answers' = [answers EXCEPT ![w] = EmptyMap]

\* An early return: the chunk fails whole, set_error.
Fail(w) ==
  /\ Goto(w, "failed")
  /\ out' = [out EXCEPT ![w] = EmptyMap]
  /\ Reset(w)

-----------------------------------------------------------------------------
(* run_optimized, up to the first group.                                   *)

Start(w) ==
  /\ CanStart(w)
  /\ \E c \in Chunks, x \in Contexts :
       /\ chunk' = [chunk EXCEPT ![w] = c]
       /\ ctx' = [ctx EXCEPT ![w] = x]
       /\ cscope' = [cscope EXCEPT ![w] = CredentialScope(x.cred)]
       /\ UseCredential(x.cred)
  /\ scope' = [scope EXCEPT ![w] = QueryScope]
  /\ Goto(w, "input")
  /\ out' = [out EXCEPT ![w] = EmptyMap]
  /\ Reset(w)
  /\ UNCHANGED <<queryVars, entryVars, permits, counts, ledger>>

RecordInput(w) ==
  /\ pc[w] = "input"
  /\ RecordOptimizedRows(scope[w], Len(chunk[w]), 0, 0, 0)
  /\ Goto(w, IF HasBadRow(chunk[w]) THEN "failed" ELSE "rows")
  /\ UNCHANGED <<queryVars, entryVars, permits, credVars, cache,
                 taskVars, ledger, batchVars>>

RecordRows(w) ==
  /\ pc[w] = "rows"
  /\ RecordOptimizedRows(scope[w], 0, Cardinality(NullRows(chunk[w])),
                         Cardinality(JudgedRows(chunk[w])),
                         Cardinality(Leads(chunk[w])))
  /\ IF Leads(chunk[w]) = {} \/ ~ctx[w].ready
     THEN /\ Goto(w, IF Leads(chunk[w]) = {} THEN "done" ELSE "failed")
          /\ UNCHANGED pos
     ELSE /\ Goto(w, "claim")
          /\ pos' = [pos EXCEPT ![w] = Min(Leads(chunk[w]))]
  /\ UNCHANGED <<queryVars, entryVars, permits, credVars, cache, taskVars,
                 ledger, entry, leaders, followers, sendVars, out>>

-----------------------------------------------------------------------------
(* execute_batch_groups: the claiming loop.                                *)

\* Mutant: the group right after is skipped.
NextClaimSkipping(w) ==
  LET later == {i \in Leads(chunk[w]) : i > pos[w] + 1}
  IN  IF later = {}
      THEN Goto(w, "plan") /\ UNCHANGED pos
      ELSE Goto(w, "claim") /\ pos' = [pos EXCEPT ![w] = Min(later)]

\* The loop goes on with the next group, or on to sending.
NextClaim(w) ==
  LET later == {i \in Leads(chunk[w]) : i > pos[w]}
  IN  IF later = {}
      THEN Goto(w, "plan") /\ UNCHANGED pos
      ELSE Goto(w, "claim") /\ pos' = [pos EXCEPT ![w] = Min(later)]

\* Mutant: owns_request is ignored.
ClaimOwning(w) ==
  /\ pc[w] = "claim"
  /\ LET id == IdentityOf(w, pos[w])
     IN  IF chunk[w][pos[w]] \in WideKeys \/ ~StillActive(w)
         THEN Fail(w) /\ UNCHANGED <<entryVars, counts>>
         ELSE /\ IF id \in DOMAIN entries
                 THEN /\ JoinEntry
                      /\ entry' = [entry EXCEPT ![w] = entries[id]]
                 ELSE /\ NewEntry(id)
                      /\ entry' = [entry EXCEPT ![w] = Len(slots) + 1]
              /\ Goto(w, "flag")
              /\ UNCHANGED <<pos, leaders, followers, sendVars, out>>
  /\ UNCHANGED <<queryVars, permits, credVars, cache, taskVars, ledger>>

\* A judgment with too many choices returns at once, whatever was claimed
\* before it; then claim_query_entry.
Claim(w) ==
  /\ pc[w] = "claim"
  /\ LET id == IdentityOf(w, pos[w])
     IN  IF chunk[w][pos[w]] \in WideKeys \/ ~StillActive(w)
         THEN Fail(w) /\ UNCHANGED <<entryVars, counts>>
         ELSE /\ IF id \in DOMAIN entries
                 THEN /\ JoinEntry
                      /\ entry' = [entry EXCEPT ![w] = entries[id]]
                      /\ Goto(w, "join_flag")
                 ELSE /\ NewEntry(id)
                      /\ entry' = [entry EXCEPT ![w] = Len(slots) + 1]
                      /\ Goto(w, "flag")
              /\ UNCHANGED <<pos, leaders, followers, sendVars, out>>
  /\ UNCHANGED <<queryVars, permits, credVars, cache, taskVars, ledger>>

\* The group is led: it joins the partition of its question.
Lead(w) ==
  /\ leaders' = [leaders EXCEPT ![w] = With(@, pos[w], entry[w])]
  /\ todo' = [todo EXCEPT ![w] = @ \cup {pos[w]}]
  /\ NextClaim(w)

\* query_cancellation.
FetchFlag(w) ==
  /\ pc[w] \in {"flag", "join_flag"}
  /\ IF ~StillActive(w) THEN Fail(w)
     ELSE /\ IF pc[w] = "join_flag"
             THEN /\ followers' =
                       [followers EXCEPT ![w] = With(@, pos[w], entry[w])]
                  /\ NextClaim(w)
                  /\ UNCHANGED <<leaders, todo>>
             ELSE IF CacheOn
             THEN Goto(w, "lookup") /\ UNCHANGED <<pos, leaders, followers, todo>>
             ELSE Lead(w) /\ UNCHANGED followers
          /\ UNCHANGED <<entry, batch, reply, answers, out>>
  /\ UNCHANGED <<runtimeVars, taskVars, ledger>>

Lookup(w) ==
  /\ pc[w] = "lookup"
  /\ CacheReconcile
  /\ IF Cacheable(w) /\ CacheIdentityOf(w, pos[w]) \in DOMAIN cache'
     THEN /\ answers' = [answers EXCEPT ![w] =
                           With(@, pos[w], cache[CacheIdentityOf(w, pos[w])])]
          /\ Goto(w, "hit")
          /\ UNCHANGED <<pos, leaders, todo>>
     ELSE Lead(w) /\ UNCHANGED answers
  /\ UNCHANGED <<queryVars, entryVars, permits, credVars, counts, taskVars,
                 ledger, entry, followers, batch, reply, out>>

Hit(w) ==
  /\ pc[w] = "hit"
  /\ RecordCacheHit(scope[w])
  /\ Goto(w, "hit_complete")
  /\ UNCHANGED <<queryVars, entryVars, permits, credVars, cache,
                 taskVars, ledger, batchVars>>

HitComplete(w) ==
  /\ pc[w] = "hit_complete"
  /\ CompleteEntries({entry[w]}, answers[w][pos[w]])
  /\ Expand(w, pos[w], answers[w][pos[w]])
  /\ answers' = [answers EXCEPT ![w] = EmptyMap]
  /\ NextClaim(w)
  /\ UNCHANGED <<queryVars, entries, permits, credVars, cache, counts, taskVars,
                 ledger, entry, leaders, followers, todo, batch, reply>>

-----------------------------------------------------------------------------
(* Splitting: partitions in the order of their first group, each cut where *)
(* one more judgment would exceed a limit.                                 *)

Partition(w, i) ==
  {j \in DOMAIN leaders[w] : Question[chunk[w][j]] = Question[chunk[w][i]]}

\* What is left of the partition being sent.
Remaining(w) ==
  LET first == Min({Min(Partition(w, i)) : i \in todo[w]})
  IN  Partition(w, first) \cap todo[w]

Estimate(w, B) == MapThenSumSet(LAMBDA i : Size[chunk[w][i]], B)

\* Mutant: only judgments are counted, not bytes.
FitsByCount(w, B) == Cardinality(B) <= MaxJudgments

Fits(w, B) ==
  Cardinality(B) <= MaxJudgments /\ Estimate(w, B) <= MaxRequestBytes

\* The longest run of it that fits.
NextBatch(w) ==
  {i \in Remaining(w) : Fits(w, {j \in Remaining(w) : j <= i})}

\* Mutant: only the batch under way is settled.
FailBatchOnly(w) == CompleteEntries({leaders[w][i] : i \in batch[w]}, Failed)

\* Everything led is settled with the error; what was settled stays.
FailLeaders(w) ==
  CompleteEntries({leaders[w][i] : i \in DOMAIN leaders[w]}, Failed)

\* Mutant: followed groups are waited for before everything led is sent.
FollowEarly(w) ==
  /\ todo[w] = {} \/ followers[w] # EmptyMap
  /\ Goto(w, IF followers[w] = EmptyMap THEN "done" ELSE "wait")
  /\ UNCHANGED <<slots, batchVars>>

\* Nothing left to send: on to the followers.
Follow(w) ==
  /\ todo[w] = {}
  /\ Goto(w, IF followers[w] = EmptyMap THEN "done" ELSE "wait")
  /\ UNCHANGED <<slots, batchVars>>

\* A judgment too large by itself fails everything the thread leads.
TooLarge(w) ==
  /\ todo[w] # {} /\ NextBatch(w) = {}
  /\ FailLeaders(w)
  /\ Fail(w)

\* The next batch asks for a permit: the lock of acquire_request_permit.
Send(w) ==
  /\ todo[w] # {} /\ NextBatch(w) # {}
  /\ batch' = [batch EXCEPT ![w] = NextBatch(w)]
  /\ todo' = [todo EXCEPT ![w] = @ \ NextBatch(w)]
  /\ Goto(w, IF StillActive(w) THEN "acquire" ELSE "fail_leaders")
  /\ UNCHANGED <<slots, claimVars, reply, answers, out>>

Plan(w) ==
  /\ pc[w] = "plan"
  /\ Follow(w) \/ TooLarge(w) \/ Send(w)
  /\ UNCHANGED <<queryVars, entries, permits, credVars, cache, counts,
                 taskVars, ledger>>

-----------------------------------------------------------------------------
(* BatchDispatch::dispatch.                                                *)

Acquire(w) ==
  /\ pc[w] = "acquire"
  /\ IF Flagged(w)
     THEN Goto(w, "fail_leaders") /\ UNCHANGED permits
     ELSE TakePermit /\ Goto(w, "attempt")
  /\ UNCHANGED <<queryVars, entryVars, credVars, cache, counts,
                 taskVars, ledger, batchVars>>

Attempt(w) ==
  /\ pc[w] = "attempt"
  /\ RecordProviderAttempt(scope[w], Cardinality(batch[w]))
  /\ Goto(w, "call")
  /\ UNCHANGED <<queryVars, entryVars, permits, credVars, cache,
                 taskVars, ledger, batchVars>>

\* requests_for_groups: the request key of a group is its rank in the batch.
RequestKey(w, i) == Cardinality({j \in batch[w] : j < i})

\* judge_many: failed on the way, or a response whose answers are labelled
\* with request keys in any order, one perhaps missing, repeated or unknown;
\* sound says that every answer has the type and range of its request.
Call(w) ==
  /\ pc[w] = "call"
  /\ LET n == Cardinality(batch[w])
     IN  \/ /\ \E billed \in {0, 1} : Serve(scope[w], billed)
            /\ Goto(w, "release")
            /\ UNCHANGED reply
         \/ /\ Serve(scope[w], 1)
            /\ Goto(w, "response")
            /\ \E m \in {n - 1, n} : \E labels \in [1..m -> 0..n],
                  v \in Values, sound \in BOOLEAN, u \in UsageReplies :
                 reply' = [reply EXCEPT ![w] =
                   [labels |-> labels, val |-> v, sound |-> sound, usage |-> u]]
  /\ UNCHANGED <<runtimeVars, taskVars, claimVars, todo, batch, answers, out>>

\* validate_batch_result.
Valid(r, n) ==
  /\ Len(r.labels) = n
  /\ \A i, j \in DOMAIN r.labels : r.labels[i] = r.labels[j] => i = j
  /\ \A i \in DOMAIN r.labels : r.labels[i] < n
  /\ r.sound

\* The service's answer to the request with a key.
ServiceAnswer(w, label) ==
  LET i == CHOOSE j \in batch[w] : RequestKey(w, j) = label
  IN  [key |-> chunk[w][i], model |-> ctx[w].model, cred |-> ctx[w].cred,
       query |-> scope[w], val |-> reply[w].val]

\* Mutant: answers are taken in the order they came.
AnswerInPlace(w, i) == ServiceAnswer(w, reply[w].labels[RequestKey(w, i) + 1])

\* Answers are found by request key, not by their place in the response.
AnswerFor(w, i) ==
  LET place == CHOOSE p \in DOMAIN reply[w].labels :
                 reply[w].labels[p] = RequestKey(w, i)
  IN  ServiceAnswer(w, reply[w].labels[place])

Response(w) ==
  /\ pc[w] = "response"
  /\ RecordProviderResponse(scope[w], reply[w].usage = "usage")
  /\ answers' = [answers EXCEPT ![w] =
                   IF Valid(reply[w], Cardinality(batch[w]))
                   THEN [i \in batch[w] |-> AnswerFor(w, i)] ELSE EmptyMap]
  /\ reply' = [reply EXCEPT ![w] = Received]
  /\ Goto(w, "release")
  /\ UNCHANGED <<queryVars, entryVars, permits, credVars, cache, taskVars,
                 ledger, claimVars, todo, batch, out>>

\* The permit goes; a valid batch is stored and settled group by group, its
\* answers cached if the response named the model of the cache identities.
Release(w) ==
  /\ pc[w] = "release"
  /\ DropPermit
  /\ IF answers[w] = EmptyMap
     THEN Goto(w, IF External THEN "failed_request" ELSE "fail_leaders")
     ELSE \/ Goto(w, "settle")
          \/ Cacheable(w) /\ Goto(w, "insert")
  /\ UNCHANGED <<queryVars, entryVars, credVars, cache, counts,
                 taskVars, ledger, batchVars>>

Insert(w) ==
  /\ pc[w] = "insert"
  /\ LET i == Min(batch[w])
     IN  CacheInsert(CacheIdentityOf(w, i), answers[w][i])
  /\ Goto(w, "settle_stored")
  /\ UNCHANGED <<queryVars, entryVars, permits, credVars, counts,
                 taskVars, ledger, batchVars>>

Settle(w) ==
  /\ pc[w] \in {"settle", "settle_stored"}
  /\ LET i == Min(batch[w])
     IN  /\ CompleteEntries({leaders[w][i]}, answers[w][i])
         /\ Expand(w, i, answers[w][i])
         /\ batch' = [batch EXCEPT ![w] = @ \ {i}]
         /\ IF batch[w] = {i}
            THEN /\ Goto(w, "plan")
                 /\ answers' = [answers EXCEPT ![w] = EmptyMap]
                 /\ reply' = [reply EXCEPT ![w] = NoReply]
            ELSE /\ Goto(w, IF pc[w] = "settle" THEN "settle" ELSE "insert")
                 /\ UNCHANGED <<answers, reply>>
  /\ UNCHANGED <<queryVars, entries, permits, credVars, cache, counts,
                 taskVars, ledger, claimVars, todo>>

FailedRequest(w) ==
  /\ pc[w] = "failed_request"
  /\ RecordFailedRequest(scope[w])
  /\ Goto(w, IF reply[w] = NoReply THEN "provider_failure" ELSE "fail_leaders")
  /\ UNCHANGED <<queryVars, entryVars, permits, credVars, cache,
                 taskVars, ledger, batchVars>>

ProviderFailure(w) ==
  /\ pc[w] = "provider_failure"
  /\ RecordProviderFailure(scope[w])
  /\ Goto(w, "fail_leaders")
  /\ UNCHANGED <<queryVars, entryVars, permits, credVars, cache,
                 taskVars, ledger, batchVars>>

\* The batch, then fail_leaders: one error settles all of them.
FailBatch(w) ==
  /\ pc[w] = "fail_leaders"
  /\ FailLeaders(w)
  /\ Fail(w)
  /\ UNCHANGED <<queryVars, entries, permits, credVars, cache, counts,
                 taskVars, ledger>>

\* The followed groups, in order: QueryEntry::wait.
Wait(w) ==
  /\ pc[w] = "wait"
  /\ LET i == Min(DOMAIN followers[w])
         result == slots[followers[w][i]].result
     IN  /\ result # Pending \/ Flagged(w)
         /\ IF result \in {Pending, Failed} THEN Fail(w)
            ELSE /\ Expand(w, i, result)
                 /\ followers' = [followers EXCEPT ![w] =
                                    Keep(@, DOMAIN @ \ {i})]
                 /\ Goto(w, IF DOMAIN followers[w] = {i} THEN "done" ELSE "wait")
                 /\ UNCHANGED <<pos, entry, leaders, sendVars>>
  /\ UNCHANGED <<runtimeVars, taskVars, ledger>>

-----------------------------------------------------------------------------
Begin == HostBegin /\ UNCHANGED batchVars

End == (\E o \in QueryOutcomes : HostEnd(o)) /\ UNCHANGED batchVars

\* duckjeu_cache_clear() evaluated by another expression of the query.
CacheClear ==
  /\ CacheOn /\ active # NoQuery
  /\ ClearCache
  /\ UNCHANGED <<queryVars, entryVars, permits, credVars,
                 counts, threadVars, batchVars>>

Closed ==
  /\ nextQuery = MaxQueries /\ active = NoQuery
  /\ \A w \in Workers : ~Running(w)
  /\ UNCHANGED vars

Step(w) ==
  \/ RecordInput(w) \/ RecordRows(w) \/ Claim(w) \/ FetchFlag(w) \/ Lookup(w)
  \/ Hit(w) \/ HitComplete(w) \/ Plan(w) \/ Acquire(w) \/ Attempt(w) \/ Call(w)
  \/ Response(w) \/ Release(w) \/ Insert(w) \/ Settle(w) \/ FailedRequest(w)
  \/ ProviderFailure(w) \/ FailBatch(w) \/ Wait(w)

Next ==
  \/ Begin
  \/ End
  \/ CacheClear
  \/ \E w \in Workers : Start(w) \/ Step(w)
  \/ Closed

Spec == Init /\ [][Next]_vars

\* As in GroupExecutor: threads run and the provider's client times out.
FairSpec == Spec /\ \A w \in Workers : WF_vars(Step(w))

-----------------------------------------------------------------------------
TypeOK ==
  /\ RuntimeTypeOK
  /\ TaskTypeOK
  /\ pc \in [Workers -> Labels]
  /\ pos \in [Workers -> Nat]
  /\ entry \in [Workers -> Nat]
  /\ \A w \in Workers :
       /\ todo[w] \cup batch[w] \subseteq DOMAIN leaders[w]
       /\ \A i \in DOMAIN leaders[w] : leaders[w][i] \in DOMAIN slots
       /\ \A i \in DOMAIN followers[w] : followers[w][i] \in DOMAIN slots

Holders == {w \in Workers : pc[w] \in PermitLabels}

\* The entries a thread has claimed and has yet to settle.
Owed(w) ==
  {leaders[w][i] : i \in todo[w] \cup batch[w]}
    \cup (IF pc[w] \in {"flag", "lookup", "hit", "hit_complete"}
          THEN {entry[w]} ELSE {})

\* As in GroupExecutor, with one permit for a whole batch.
PermitAccounting ==
  /\ permits = Cardinality(Holders)
  /\ permits <= MaxInflight

\* What is owed is unsettled, and no identity is owed twice, by two threads or
\* by one: each judgment of a query is asked for once, in one batch.
SingleFlight ==
  \A w \in Workers : \A e \in Owed(w) :
    /\ slots[e].result = Pending
    /\ \A v \in Workers : \A f \in Owed(v) :
         slots[f].id = slots[e].id => v = w /\ f = e

\* An unsettled entry is owed by some thread, or its query's flag is up.
NoOrphanedEntry ==
  \A e \in DOMAIN slots :
    slots[e].result = Pending =>
      (\E w \in Workers : e \in Owed(w)) \/ slots[e].id.query \in cancelled

\* A thread that waits for others owes nothing: it settles every entry it
\* leads before it follows, so threads that lead and follow each other's
\* judgments cannot wait in a circle.
WaitsOwingNothing == \A w \in Workers : pc[w] = "wait" => Owed(w) = {}

\* A request holds judgments of one question, within both limits.
BatchWithinLimits ==
  \A w \in Workers : pc[w] \in PermitLabels =>
    /\ batch[w] # {}
    /\ Cardinality(batch[w]) <= MaxJudgments
    /\ Estimate(w, batch[w]) <= MaxRequestBytes
    /\ \A i, j \in batch[w] : Question[chunk[w][i]] = Question[chunk[w][j]]

\* A row only ever gets an answer to its own content, from its own model
\* and credential, although batches carry several answers in any order.
RightAnswer ==
  \A w \in Workers : \A i \in DOMAIN out[w] :
    /\ out[w][i].key = chunk[w][i]
    /\ out[w][i].model = ctx[w].model
    /\ out[w][i].cred = ctx[w].cred

\* A chunk is published whole or not at all.
AllOrNothing ==
  \A w \in Workers :
    pc[w] = "done" => DOMAIN out[w] = JudgedRows(chunk[w])

\* The counts of a query that succeeded account for every row, and the
\* histogram for every judgment that was sent: unique judgments are cache
\* hits or weigh in it, and batches of two or more are the batched requests.
SnapshotBalanced ==
  External => \A s \in lastQuery : s.outcome = "succeeded" =>
    /\ s.counts.input_rows = s.counts.null_rows + s.counts.valid_rows
    /\ s.counts.valid_rows
         = s.counts.unique_judgments + s.counts.deduplicated_rows
    /\ s.counts.unique_judgments
         = s.counts.cache_hit_judgments + s.counts.batch_size_sum
    /\ s.counts.batch_size_sum
         >= s.counts.external_requests + s.counts.batched_requests
    /\ s.counts.failed_requests = 0

\* A thread inside the extension comes back.
ChunkReturns == \A w \in Workers : Running(w) ~> ~Running(w)
=============================================================================
