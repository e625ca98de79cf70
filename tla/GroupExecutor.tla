---------------------------- MODULE GroupExecutor ----------------------------
(***************************************************************************)
(* Optimized execution without batching: run_optimized of                  *)
(* src/functions/mod.rs calling execute_groups / execute_one_group of      *)
(* judgment-core/executor.rs.  A thread groups the rows of its chunk and   *)
(* takes the groups one after the other; identical judgments of one query  *)
(* share one entry, whose first claimant asks the provider.                *)
(* One action per call on the runtime, on the permit pool, on an entry or  *)
(* on the provider: threads interleave between any two of them.            *)
(***************************************************************************)
EXTENDS ScalarThreads

CONSTANT CacheOn   \* duckjeu_cache_enabled

ASSUME CacheOnAssumption == CacheOn \in BOOLEAN

VARIABLES
  pos,       \* the group a thread works on, by its first row
  entry,     \* its query entry, an index into slots
  outcome,   \* the result it is about to publish to the entry
  reply,     \* what the provider's response said: "none" if there was none
  out        \* rows answered so far: row -> answer

groupVars == <<pos, entry, outcome, reply, out>>

vars == <<runtimeVars, threadVars, groupVars>>

\* Labels at which a thread owns the entry it claimed.
OwnerLabels == {"flag", "lookup", "hit", "size", "acquire", "attempt", "call",
                "response", "insert", "release", "failed_request",
                "provider_failure", "complete"}

\* Labels at which a thread holds a permit of the pool.
PermitLabels == {"attempt", "call", "response", "insert", "release"}

Labels == Resting \cup OwnerLabels
            \cup {"input", "rows", "claim", "join_flag", "wait"}

Replies == {"none", "usage", "no_usage"}

Init ==
  /\ ThreadsInit
  /\ pos = [w \in Workers |-> 0]
  /\ entry = [w \in Workers |-> 0]
  /\ outcome = [w \in Workers |-> Failed]
  /\ reply = [w \in Workers |-> "none"]
  /\ out = [w \in Workers |-> EmptyMap]

Key(w) == chunk[w][pos[w]]

\* JudgmentIdentity::new and cache_identity_for of the current group.
IdentityOf(w) == [key |-> Key(w), model |-> ctx[w].model,
                  scope |-> cscope[w], query |-> scope[w]]

CacheIdentityOf(w) == [key |-> Key(w), model |-> ctx[w].model,
                       scope |-> cscope[w]]

\* Mutant: an alias is cached like a stable model.
CacheableAlways(w) == TRUE

Cacheable(w) == ctx[w].model \in PinnedModels

\* The next group in first-row order, if there is one.
LaterLeads(w) == {i \in Leads(chunk[w]) : i > pos[w]}

TakeFirst(w, L) ==
  \E i \in L : (\A j \in L : i <= j) /\ pos' = [pos EXCEPT ![w] = i]

\* The locals of execute_one_group, unset outside it.
EndGroup(w) ==
  /\ entry' = [entry EXCEPT ![w] = 0]
  /\ outcome' = [outcome EXCEPT ![w] = Failed]
  /\ reply' = [reply EXCEPT ![w] = "none"]

\* The group's result goes to every target; then the next group, or, all
\* groups having succeeded, the whole chunk is published.
Advance(w, answer) ==
  /\ out' = [out EXCEPT ![w] =
               [i \in DOMAIN out[w] \cup Targets(chunk[w], pos[w]) |->
                  IF i \in DOMAIN out[w] THEN out[w][i] ELSE answer]]
  /\ IF LaterLeads(w) = {}
     THEN Goto(w, "done") /\ UNCHANGED pos
     ELSE Goto(w, "claim") /\ TakeFirst(w, LaterLeads(w))
  /\ EndGroup(w)

\* The chunk fails as a whole: set_error, and nothing is published.
Fail(w) ==
  /\ Goto(w, "failed")
  /\ out' = [out EXCEPT ![w] = EmptyMap]
  /\ EndGroup(w)
  /\ UNCHANGED pos

Finish(w, result) == IF result = Failed THEN Fail(w) ELSE Advance(w, result)

-----------------------------------------------------------------------------
(* run_optimized, up to the first group.                                   *)

\* One lock: the query scope and the credential's scope.
Start(w) ==
  /\ CanStart(w)
  /\ \E c \in Chunks, x \in Contexts :
       /\ chunk' = [chunk EXCEPT ![w] = c]
       /\ ctx' = [ctx EXCEPT ![w] = x]
       /\ cscope' = [cscope EXCEPT ![w] = CredentialScope(x.cred)]
       /\ UseCredential(x.cred)
  /\ scope' = [scope EXCEPT ![w] = QueryScope]
  /\ Goto(w, "input")
  /\ pos' = [pos EXCEPT ![w] = 0]
  /\ out' = [out EXCEPT ![w] = EmptyMap]
  /\ EndGroup(w)
  /\ UNCHANGED <<queryVars, entryVars, permits, counts, ledger>>

\* All rows are counted, then parsed: one bad row fails the chunk.
RecordInput(w) ==
  /\ pc[w] = "input"
  /\ RecordOptimizedRows(scope[w], Len(chunk[w]), 0, 0, 0)
  /\ Goto(w, IF HasBadRow(chunk[w]) THEN "failed" ELSE "rows")
  /\ UNCHANGED <<queryVars, entryVars, permits, credVars, cache,
                 taskVars, ledger, groupVars>>

\* The grouped rows are counted; a provider that could not be built is an
\* error only if there is something to judge.
RecordRows(w) ==
  /\ pc[w] = "rows"
  /\ RecordOptimizedRows(scope[w], 0, Cardinality(NullRows(chunk[w])),
                         Cardinality(JudgedRows(chunk[w])),
                         Cardinality(Leads(chunk[w])))
  /\ IF Leads(chunk[w]) = {}
     THEN Goto(w, "done") /\ UNCHANGED pos
     ELSE IF ~ctx[w].ready
     THEN Goto(w, "failed") /\ UNCHANGED pos
     ELSE Goto(w, "claim") /\ TakeFirst(w, Leads(chunk[w]))
  /\ UNCHANGED <<queryVars, entryVars, permits, credVars, cache, taskVars, ledger,
                 entry, outcome, reply, out>>

-----------------------------------------------------------------------------
(* execute_one_group: claiming the entry.                                  *)

\* claim_query_entry: an error once the query is no longer active.
Claim(w) ==
  /\ pc[w] = "claim"
  /\ IF ~StillActive(w)
     THEN Fail(w) /\ UNCHANGED <<entryVars, counts>>
     ELSE /\ IF IdentityOf(w) \in DOMAIN entries
             THEN /\ JoinEntry
                  /\ entry' = [entry EXCEPT ![w] = entries[IdentityOf(w)]]
                  /\ Goto(w, "join_flag")
             ELSE /\ NewEntry(IdentityOf(w))
                  /\ entry' = [entry EXCEPT ![w] = Len(slots) + 1]
                  /\ Goto(w, "flag")
          /\ UNCHANGED <<out, pos, outcome, reply>>
  /\ UNCHANGED <<queryVars, permits, credVars, cache, taskVars, ledger>>

\* query_cancellation, a second lock: if the query ended in between, the
\* thread returns and, if it owns the entry, leaves it pending.
FetchFlag(w) ==
  /\ pc[w] \in {"flag", "join_flag"}
  /\ IF ~StillActive(w)
     THEN Fail(w)
     ELSE /\ Goto(w, IF pc[w] = "join_flag" THEN "wait"
                     ELSE IF CacheOn THEN "lookup" ELSE "size")
          /\ UNCHANGED groupVars
  /\ UNCHANGED <<runtimeVars, taskVars, ledger>>

\* QueryEntry::wait of a thread that joined: a result is taken even if the
\* flag is up; with neither, the thread sleeps (and looks again after 20 ms).
Wait(w) ==
  /\ pc[w] = "wait"
  /\ slots[entry[w]].result # Pending \/ Flagged(w)
  /\ Finish(w, IF slots[entry[w]].result # Pending
               THEN slots[entry[w]].result ELSE Failed)
  /\ UNCHANGED <<runtimeVars, taskVars, ledger>>

-----------------------------------------------------------------------------
(* execute_one_group: the owner.                                           *)

\* cache_lookup; without a stable model identity only the limits apply.
Lookup(w) ==
  /\ pc[w] = "lookup"
  /\ CacheReconcile
  /\ IF Cacheable(w) /\ CacheIdentityOf(w) \in DOMAIN cache'
     THEN /\ outcome' = [outcome EXCEPT ![w] = cache[CacheIdentityOf(w)]]
          /\ Goto(w, "hit")
     ELSE Goto(w, "size") /\ UNCHANGED outcome
  /\ UNCHANGED <<queryVars, entryVars, permits, credVars, counts, taskVars, ledger,
                 pos, entry, reply, out>>

Hit(w) ==
  /\ pc[w] = "hit"
  /\ RecordCacheHit(scope[w])
  /\ Goto(w, "complete")
  /\ UNCHANGED <<queryVars, entryVars, permits, credVars, cache,
                 taskVars, ledger, groupVars>>

\* The byte limit, then the lock of acquire_request_permit: both failures
\* settle the entry with an error before any attempt.
Size(w) ==
  /\ pc[w] = "size"
  /\ Goto(w, IF Key(w) \in OversizeKeys \/ ~StillActive(w)
             THEN "complete" ELSE "acquire")
  /\ UNCHANGED <<runtimeVars, taskVars, ledger, groupVars>>

\* InflightPermitPool::acquire: the flag is looked at before the limit.
Acquire(w) ==
  /\ pc[w] = "acquire"
  /\ IF Flagged(w)
     THEN Goto(w, "complete") /\ UNCHANGED permits
     ELSE TakePermit /\ Goto(w, "attempt")
  /\ UNCHANGED <<queryVars, entryVars, credVars, cache, counts,
                 taskVars, ledger, groupVars>>

Attempt(w) ==
  /\ pc[w] = "attempt"
  /\ RecordProviderAttempt(scope[w], 1)
  /\ Goto(w, "call")
  /\ UNCHANGED <<queryVars, entryVars, permits, credVars, cache,
                 taskVars, ledger, groupVars>>

\* judge_with_metadata: refused by the adapter, failed on the way (billed or
\* not), or answered, with or without usage figures.  An answer that core
\* validation rejects is a response whose outcome is Failed.
Call(w) ==
  /\ pc[w] = "call"
  /\ \/ /\ Key(w) \in WideKeys
        /\ Goto(w, "release")
        /\ UNCHANGED <<ledger, outcome, reply>>
     \/ /\ Key(w) \notin WideKeys
        /\ \E billed \in {0, 1} : Serve(scope[w], billed)
        /\ Goto(w, "release")
        /\ UNCHANGED <<outcome, reply>>
     \/ /\ Key(w) \notin WideKeys
        /\ Serve(scope[w], 1)
        /\ Goto(w, "response")
        /\ \E u \in UsageReplies : reply' = [reply EXCEPT ![w] = u]
        /\ \/ UNCHANGED outcome
           \/ \E v \in Values :
                outcome' = [outcome EXCEPT ![w] =
                   [key |-> Key(w), model |-> ctx[w].model,
                    cred |-> ctx[w].cred, query |-> scope[w], val |-> v]]
  /\ UNCHANGED <<runtimeVars, taskVars, pos, entry, out>>

\* Mutant: a rejected answer is cached.
ResponseUnchecked(w) ==
  /\ pc[w] = "response"
  /\ RecordProviderResponse(scope[w], reply[w] = "usage")
  /\ \/ Goto(w, "release")
     \/ CacheOn /\ Cacheable(w) /\ Goto(w, "insert")
  /\ UNCHANGED <<queryVars, entryVars, permits, credVars, cache,
                 taskVars, ledger, groupVars>>

\* record_provider_response, then validation; a valid answer is cached only
\* if the response names the model the cache identity stands for.
Response(w) ==
  /\ pc[w] = "response"
  /\ RecordProviderResponse(scope[w], reply[w] = "usage")
  /\ \/ Goto(w, "release")
     \/ /\ outcome[w] # Failed /\ CacheOn /\ Cacheable(w)
        /\ Goto(w, "insert")
  /\ UNCHANGED <<queryVars, entryVars, permits, credVars, cache,
                 taskVars, ledger, groupVars>>

Insert(w) ==
  /\ pc[w] = "insert"
  /\ CacheInsert(CacheIdentityOf(w), outcome[w])
  /\ Goto(w, "release")
  /\ UNCHANGED <<queryVars, entryVars, permits, credVars, counts,
                 taskVars, ledger, groupVars>>

\* Mutant: a failed call keeps its permit.
ReleaseOnSuccess(w) ==
  /\ pc[w] = "release"
  /\ IF outcome[w] = Failed THEN UNCHANGED permits ELSE DropPermit
  /\ Goto(w, IF outcome[w] = Failed /\ External THEN "failed_request"
             ELSE "complete")
  /\ UNCHANGED <<queryVars, entryVars, credVars, cache, counts,
                 taskVars, ledger, groupVars>>

\* The permit is dropped when the closure returns, before the failure is
\* recorded and before the entry is settled.
Release(w) ==
  /\ pc[w] = "release"
  /\ DropPermit
  /\ Goto(w, IF outcome[w] = Failed /\ External THEN "failed_request"
             ELSE "complete")
  /\ UNCHANGED <<queryVars, entryVars, credVars, cache, counts,
                 taskVars, ledger, groupVars>>

FailedRequest(w) ==
  /\ pc[w] = "failed_request"
  /\ RecordFailedRequest(scope[w])
  /\ Goto(w, IF reply[w] = "none" THEN "provider_failure" ELSE "complete")
  /\ UNCHANGED <<queryVars, entryVars, permits, credVars, cache,
                 taskVars, ledger, groupVars>>

ProviderFailure(w) ==
  /\ pc[w] = "provider_failure"
  /\ RecordProviderFailure(scope[w])
  /\ Goto(w, "complete")
  /\ UNCHANGED <<queryVars, entryVars, permits, credVars, cache,
                 taskVars, ledger, groupVars>>

\* The entry is settled and the thread takes the same result for its rows.
Complete(w) ==
  /\ pc[w] = "complete"
  /\ CompleteEntries({entry[w]}, outcome[w])
  /\ Finish(w, outcome[w])
  /\ UNCHANGED <<queryVars, entries, permits, credVars, cache,
                 counts, taskVars, ledger>>

-----------------------------------------------------------------------------
\* DuckDB's callbacks, and duckjeu_cache_clear() evaluated by another
\* expression of the query.
Begin == HostBegin /\ UNCHANGED groupVars

End == (\E o \in QueryOutcomes : HostEnd(o)) /\ UNCHANGED groupVars

CacheClear ==
  /\ CacheOn /\ active # NoQuery
  /\ ClearCache
  /\ UNCHANGED <<queryVars, entryVars, permits, credVars,
                 counts, threadVars, groupVars>>

\* The connection is closed once its (bounded) queries are over.
Closed ==
  /\ nextQuery = MaxQueries /\ active = NoQuery
  /\ \A w \in Workers : ~Running(w)
  /\ UNCHANGED vars

Step(w) ==
  \/ RecordInput(w) \/ RecordRows(w) \/ Claim(w) \/ FetchFlag(w) \/ Wait(w)
  \/ Lookup(w) \/ Hit(w) \/ Size(w) \/ Acquire(w) \/ Attempt(w) \/ Call(w)
  \/ Response(w) \/ Insert(w) \/ Release(w) \/ FailedRequest(w)
  \/ ProviderFailure(w) \/ Complete(w)

Next ==
  \/ Begin
  \/ End
  \/ CacheClear
  \/ \E w \in Workers : Start(w) \/ Step(w)
  \/ Closed

Spec == Init /\ [][Next]_vars

\* Threads are scheduled and the provider's client times out, so a thread
\* that can take a step takes one; nothing forces DuckDB to start or end
\* anything.
FairSpec == Spec /\ \A w \in Workers : WF_vars(Step(w))

-----------------------------------------------------------------------------
(* What makes it correct.                                                  *)

TypeOK ==
  /\ RuntimeTypeOK
  /\ TaskTypeOK
  /\ pc \in [Workers -> Labels]
  /\ pos \in [Workers -> Nat]
  /\ entry \in [Workers -> Nat]
  /\ outcome \in [Workers -> Outcome]
  /\ reply \in [Workers -> Replies]

Holders == {w \in Workers : pc[w] \in PermitLabels}

Owns(w) == pc[w] \in OwnerLabels

\* Every permit is held by a thread inside the permit's scope and by no
\* other, and duckjeu_max_inflight bounds them: neither errors, nor
\* cancellation, nor threads of an ended query leak or forge one
\* (InflightPermitPool::acquire and Drop).
PermitAccounting ==
  /\ permits = Cardinality(Holders)
  /\ permits <= MaxInflight

\* At most one thread of a query asks for an identity (claim_query_entry),
\* and its entry waits for that thread alone.
SingleFlight ==
  \A v, w \in Workers :
    Owns(v) /\ Owns(w) /\ v # w => IdentityOf(v) # IdentityOf(w)

\* An unsettled entry has a thread that will settle it, or its query's flag
\* is up: no joined thread waits on nobody (execute_one_group's early
\* returns after the claim, end_query racing them).
NoOrphanedEntry ==
  \A e \in DOMAIN slots :
    slots[e].result = Pending =>
      \/ \E w \in Workers : Owns(w) /\ entry[w] = e
      \/ slots[e].id.query \in cancelled

\* A row only ever gets an answer to its own content, from its own model,
\* obtained with its own credential, through every way an answer travels:
\* the entry, the cache, a credential rotated while a request is under way.
RightAnswer ==
  \A w \in Workers : \A i \in DOMAIN out[w] :
    /\ out[w][i].key = chunk[w][i]
    /\ out[w][i].model = ctx[w].model
    /\ out[w][i].cred = ctx[w].cred

\* Rows of one query with one identity get one answer, whichever threads
\* judged them and although the provider may answer differently each time.
OneAnswerPerIdentity ==
  \A v, w \in Workers :
    scope[v] = scope[w] /\ cscope[v] = cscope[w] /\ ctx[v] = ctx[w] =>
      \A i \in DOMAIN out[v], j \in DOMAIN out[w] :
        chunk[v][i] = chunk[w][j] => out[v][i] = out[w][j]

\* A mutable model alias is asked again in every query: without a stable
\* model identity no answer outlives the query it was given in.
AliasAskedPerQuery ==
  \A w \in Workers : \A i \in DOMAIN out[w] :
    ctx[w].model \notin PinnedModels => out[w][i].query = scope[w]

\* A cache hit is an answer of another query: sharing within a query is
\* never counted as one (profile-report.md, cache_hit_judgments).
HitsComeFromOtherQueries ==
  \A w \in Workers : pc[w] = "hit" => outcome[w].query # scope[w]

\* The counts of a query that succeeded account for every row: each is null
\* or valid, each valid row is a unique judgment or a duplicate, each unique
\* judgment was a cache hit or one provider call, and no request failed.
SnapshotBalanced ==
  \A s \in lastQuery : s.outcome = "succeeded" =>
    /\ s.counts.input_rows = s.counts.null_rows + s.counts.valid_rows
    /\ s.counts.valid_rows
         = s.counts.unique_judgments + s.counts.deduplicated_rows
    /\ s.counts.unique_judgments
         = s.counts.cache_hit_judgments + s.counts.provider_invocations
    /\ s.counts.failed_requests = 0

\* A thread inside the extension comes back: whoever waits for an entry or a
\* permit is let go.
ChunkReturns == \A w \in Workers : Running(w) ~> ~Running(w)

-----------------------------------------------------------------------------
(* The inductive invariant behind these, in parts (GroupExecutorProofs).   *)

\* Labels after the claim, and all labels inside execute_one_group.
Claimed == OwnerLabels \cup {"join_flag", "wait"}

InGroup == Claimed \cup {"claim"}

AtJudgedRow ==
  \A w \in Workers :
    /\ pc[w] \in InGroup => pos[w] \in JudgedRows(chunk[w])
    /\ pc[w] \in {"hit", "insert"} => outcome[w] \in Answer

\* Query ids are handed out in order; every query but the active one is
\* cancelled.
QueriesInOrder ==
  /\ active # NoQuery => active < nextQuery
  /\ \A w \in Workers : scope[w] < nextQuery
  /\ \A q \in 0..(nextQuery - 1) : q = active \/ q \in cancelled

\* The map leads every identity to an entry made for it; so does a thread's
\* own entry; and what a thread owns in the active query is in the map.
EntriesMatch ==
  /\ \A i \in DOMAIN entries : slots[entries[i]].id = i
  /\ \A w \in Workers : pc[w] \in Claimed =>
       entry[w] \in DOMAIN slots /\ slots[entry[w]].id = IdentityOf(w)
  /\ \A w \in Workers : Owns(w) /\ scope[w] = active =>
       IdentityOf(w) \in DOMAIN entries
=============================================================================
