-------------------------- MODULE ConnectionRuntime --------------------------
(***************************************************************************)
(* The state one DuckDB connection shares between its worker threads: the  *)
(* struct ConnectionRuntime of src/host/mod.rs, its permit pool and its    *)
(* query entries (QueryEntry of judgment-core/runtime.rs).  Every method   *)
(* of the struct runs under the connection's mutex, so each is one action  *)
(* here; the executors (GroupExecutor, RowExecutor, BatchExecutor) add the *)
(* threads that call them and interleave between any two calls.            *)
(*                                                                         *)
(* Data is abstracted to what decides control: an identity is the judged   *)
(* content, the model, the credential scope and the query it is bound to;  *)
(* every error is Failed; the cache is the lossy store that JudgmentCache  *)
(* is shown to implement.                                                  *)
(***************************************************************************)
EXTENDS Naturals, Sequences, FiniteSets

CONSTANTS
  Keys,          \* contents of a judgment: state, question and choices
  Models,        \* requested models
  PinnedModels,  \* the models whose provider names a stable cache identity
  Creds,         \* credentials a session may hold
  NoCred,        \* the member of Creds that stands for "no credential"
  Values,        \* the answers a provider may give to one judgment
  External,      \* does the provider make external requests?
  MaxInflight,   \* duckjeu_max_inflight
  DrainFirst,    \* does the host end a query only when no thread runs it?
  MaxQueries,    \* bound on the queries of the connection, for TLC
  NoQuery, Pending, Failed   \* distinguished values

VARIABLES
  active,        \* active_query: its id, or NoQuery
  nextQuery,     \* next_query_id
  cancelled,     \* the queries whose shared cancellation flag is set
  entries,       \* query_entries: identity -> index into slots
  slots,         \* every QueryEntry made so far: whom it is for, its result
  permits,       \* PermitState.active
  credScope,     \* credential_scope
  fingerprint,   \* credential_fingerprint, by the credential it stands for
  nextScope,     \* NEXT_CONNECTION_SCOPE
  cache,         \* cache identity -> answer
  counts,        \* QueryCounts of the active query
  lastQuery      \* last_query: the snapshots taken, at most one, as a set

queryVars == <<active, nextQuery, cancelled, lastQuery>>
entryVars == <<entries, slots>>
credVars == <<credScope, fingerprint, nextScope>>
runtimeVars == <<queryVars, entryVars, permits, credVars, cache, counts>>

-----------------------------------------------------------------------------
(* Identities, answers and counts.                                         *)

\* A provider's answer: its value, with what was judged and under which
\* credential and query it was asked for.
Answer == [key : Keys, model : Models, cred : Creds, query : Nat, val : Values]

\* JudgmentIdentity of a query entry: unresolved, so bound to the query.
Identity == [key : Keys, model : Models, scope : Nat, query : Nat]

\* The identity an answer is cached under: resolved, so without the query.
CacheIdentity == [key : Keys, model : Models, scope : Nat]

Outcome == Answer \cup {Failed}

ASSUME RuntimeAssumption ==
  /\ PinnedModels \subseteq Models
  /\ NoCred \in Creds
  /\ External \in BOOLEAN
  /\ DrainFirst \in BOOLEAN
  /\ MaxInflight \in Nat \ {0}
  /\ MaxQueries \in Nat
  /\ NoQuery \notin Nat
  /\ Failed \notin Answer
  /\ Pending \notin Outcome

QueryEntry == [id : Identity, result : Outcome \cup {Pending}]

\* The fields of QueryCounts.  batch_size_sum is the sum of the batch sizes
\* in batch_size_histogram; tokens stands for the usage figures.
CountFields == {"input_rows", "null_rows", "valid_rows", "deduplicated_rows",
                "unique_judgments", "cache_hit_judgments",
                "provider_invocations", "external_requests",
                "batched_requests", "batch_size_sum", "failed_requests",
                "usage_response_count", "usage_missing_count", "tokens"}

QueryCounts == [CountFields -> Nat]

ZeroCounts == [f \in CountFields |-> 0]

\* The counts with the fields of a record added to them.
Plus(c, delta) ==
  [f \in CountFields |-> c[f] + (IF f \in DOMAIN delta THEN delta[f] ELSE 0)]

QueryOutcomes == {"succeeded", "failed", "cancelled"}

QuerySnapshot == [query : Nat, outcome : QueryOutcomes, counts : QueryCounts]

EmptyMap == [x \in {} |-> x]

Keep(map, S) == [x \in S |-> map[x]]

\* The state the C++ bridge leaves behind: ConnectionRuntime::default()
\* followed by the seeding begin_query of the state's constructor.
RuntimeInit ==
  /\ active = 0 /\ nextQuery = 1 /\ cancelled = {}
  /\ entries = EmptyMap /\ slots = << >>
  /\ permits = 0
  /\ credScope = 1 /\ fingerprint = NoCred /\ nextScope = 2
  /\ cache = EmptyMap
  /\ counts = ZeroCounts /\ lastQuery = {}

-----------------------------------------------------------------------------
(* The query lifecycle.                                                    *)

\* begin_query: a query still active is cancelled, and the new one starts
\* with no entries and zero counts.
BeginQuery ==
  /\ nextQuery < MaxQueries
  /\ cancelled' = cancelled \cup ({active} \ {NoQuery})
  /\ active' = nextQuery
  /\ nextQuery' = nextQuery + 1
  /\ entries' = EmptyMap
  /\ counts' = ZeroCounts
  /\ UNCHANGED <<slots, permits, credVars, cache, lastQuery>>

\* Mutant: the flag of the ended query stays down.
EndQueryQuietly(outcome) ==
  /\ active # NoQuery
  /\ active' = NoQuery
  /\ entries' = EmptyMap
  /\ counts' = ZeroCounts
  /\ UNCHANGED <<nextQuery, cancelled, lastQuery, slots, permits, credVars, cache>>

\* Mutant: the snapshot's id is read after the query was taken.
EndQueryIdTaken(outcome) ==
  /\ active # NoQuery
  /\ cancelled' = cancelled \cup {active}
  /\ active' = NoQuery
  /\ entries' = EmptyMap
  /\ counts' = ZeroCounts
  /\ lastQuery' = IF counts.input_rows > 0
                  THEN {[query |-> active', outcome |-> outcome,
                         counts |-> counts]}
                  ELSE lastQuery
  /\ UNCHANGED <<nextQuery, slots, permits, credVars, cache>>

\* end_query: nothing without an active query; otherwise the flag is raised,
\* the entries are dropped and, if the query judged any row, its counts
\* become the snapshot duckjeu_profile_last_query reads.
EndQuery(outcome) ==
  /\ active # NoQuery
  /\ cancelled' = cancelled \cup {active}
  /\ active' = NoQuery
  /\ entries' = EmptyMap
  /\ counts' = ZeroCounts
  /\ lastQuery' = IF counts.input_rows > 0
                  THEN {[query |-> active, outcome |-> outcome,
                         counts |-> counts]}
                  ELSE lastQuery
  /\ UNCHANGED <<nextQuery, slots, permits, credVars, cache>>

\* identity_scopes: the query a thread that asks now belongs to.
QueryScope == IF active = NoQuery THEN nextQuery ELSE active

\* Mutant: the scope outlives the credential.
CredentialScopeKept(cred) == credScope

\* credential_scope: a changed credential gets a scope never used before
\* and an empty cache.  CredentialScope is the scope the call returns.
CredentialScope(cred) == IF cred = fingerprint THEN credScope ELSE nextScope

UseCredential(cred) ==
  /\ fingerprint' = cred
  /\ credScope' = CredentialScope(cred)
  /\ nextScope' = IF cred = fingerprint THEN nextScope ELSE nextScope + 1
  /\ cache' = IF cred = fingerprint THEN cache ELSE EmptyMap

-----------------------------------------------------------------------------
(* Query entries.                                                          *)

\* Mutant: the new entry is not put into the map.
NewEntryUnshared(id) ==
  /\ slots' = Append(slots, [id |-> id, result |-> Pending])
  /\ counts' = Plus(counts, [unique_judgments |-> 1])
  /\ UNCHANGED entries

\* claim_query_entry for a query that is active: the first claim of an
\* identity makes its entry, a later one joins it.
NewEntry(id) ==
  /\ slots' = Append(slots, [id |-> id, result |-> Pending])
  /\ entries' = [i \in DOMAIN entries \cup {id} |->
                   IF i = id THEN Len(slots) + 1 ELSE entries[i]]
  /\ counts' = Plus(counts, [unique_judgments |-> 1])

JoinEntry ==
  /\ counts' = Plus(counts, [deduplicated_rows |-> 1])
  /\ UNCHANGED <<slots, entries>>

\* QueryEntry::complete: the first result stays.
CompleteEntries(E, result) ==
  slots' = [e \in DOMAIN slots |->
              IF e \in E /\ slots[e].result = Pending
              THEN [slots[e] EXCEPT !.result = result] ELSE slots[e]]

-----------------------------------------------------------------------------
(* The connection-wide permit pool.                                        *)

\* Mutant: one permit too many.
TakePermitOneMore ==
  /\ permits <= MaxInflight
  /\ permits' = permits + 1

\* InflightPermitPool::acquire when the caller's flag is down and a slot is
\* free; the wait between two looks is a disabled action.
TakePermit ==
  /\ permits < MaxInflight
  /\ permits' = permits + 1

\* Drop for InflightPermit.
DropPermit == permits' = IF permits = 0 THEN 0 ELSE permits - 1

-----------------------------------------------------------------------------
(* The result cache of the connection, as a store that may forget.         *)

\* RuntimeAdapter::cache_lookup: reconcile_policy may drop anything; a hit is
\* an identity that is still there.
CacheReconcile == \E D \in SUBSET DOMAIN cache : cache' = Keep(cache, D)

\* duckjeu_cache_clear(): reconcile_policy, then clear.
ClearCache == cache' = EmptyMap

\* RuntimeAdapter::cache_insert, whatever query the caller belongs to.
CacheInsert(id, answer) ==
  \/ CacheReconcile
  \/ \E D \in SUBSET (DOMAIN cache \ {id}) :
       cache' = [i \in D \cup {id} |-> IF i = id THEN answer ELSE cache[i]]

-----------------------------------------------------------------------------
(* Observations: they change the counts of the query they name only while  *)
(* it is the active one.                                                   *)

\* Mutant: whatever query is active gets the observation.
RecordUnscoped(q, delta) == counts' = Plus(counts, delta)

Record(q, delta) ==
  counts' = IF active = q THEN Plus(counts, delta) ELSE counts

RecordOptimizedRows(q, input, nulls, valid, groups) ==
  Record(q, [input_rows |-> input, null_rows |-> nulls, valid_rows |-> valid,
             deduplicated_rows |-> IF valid > groups THEN valid - groups ELSE 0])

RecordRowInput(q) == Record(q, [input_rows |-> 1])

RecordRowResult(q, isNull) ==
  Record(q, IF isNull THEN [null_rows |-> 1]
            ELSE [valid_rows |-> 1, unique_judgments |-> 1])

\* Mutant: a hit is not counted.
RecordCacheHitLost(q) == Record(q, EmptyMap)

RecordCacheHit(q) == Record(q, [cache_hit_judgments |-> 1])

\* Mutant: an attempt is no external request.
RecordProviderAttemptLocal(q, batchSize) ==
  Record(q, [provider_invocations |-> 1])

\* Mutant: a batch of one counts as batched.
RecordProviderAttemptBatched(q, batchSize) ==
  Record(q, [provider_invocations |-> 1, external_requests |-> 1,
             batch_size_sum |-> batchSize, batched_requests |-> 1])

RecordProviderAttempt(q, batchSize) ==
  Record(q, IF External
            THEN [provider_invocations |-> 1, external_requests |-> 1,
                  batch_size_sum |-> batchSize,
                  batched_requests |-> IF batchSize > 1 THEN 1 ELSE 0]
            ELSE [provider_invocations |-> 1])

\* record_provider_response, for a response with or without usage figures.
RecordProviderResponse(q, hasUsage) ==
  Record(q, IF ~External THEN EmptyMap
            ELSE IF hasUsage THEN [usage_response_count |-> 1, tokens |-> 1]
            ELSE [usage_response_count |-> 1, usage_missing_count |-> 1])

RecordProviderFailure(q) ==
  Record(q, IF External THEN [usage_missing_count |-> 1] ELSE EmptyMap)

RecordFailedRequest(q) == Record(q, [failed_requests |-> 1])

-----------------------------------------------------------------------------
(* render_profile of judgment-core/metrics.rs: when the report states a    *)
(* cost, from the counts of the snapshot alone.                            *)

\* Mutant: responses without usage figures are overlooked.
UsageCompleteOverlooking(c) ==
  c.external_requests > 0 /\ c.usage_response_count = c.external_requests

UsageComplete(c) ==
  /\ c.external_requests > 0
  /\ c.usage_missing_count = 0
  /\ c.usage_response_count = c.external_requests

CostStated(c) == c.failed_requests = 0 /\ UsageComplete(c)

-----------------------------------------------------------------------------
RuntimeTypeOK ==
  /\ active \in Nat \cup {NoQuery}
  /\ nextQuery \in Nat
  /\ cancelled \subseteq Nat
  /\ slots \in Seq(QueryEntry)
  /\ DOMAIN entries \subseteq Identity
  /\ entries = [i \in DOMAIN entries |-> entries[i]]
  /\ \A i \in DOMAIN entries : entries[i] \in DOMAIN slots
  /\ permits \in Nat
  /\ credScope \in Nat /\ nextScope \in Nat
  /\ fingerprint \in Creds
  /\ DOMAIN cache \subseteq CacheIdentity
  /\ cache = [i \in DOMAIN cache |-> cache[i]]
  /\ \A i \in DOMAIN cache : cache[i] \in Answer
  /\ counts \in QueryCounts
  /\ lastQuery \subseteq QuerySnapshot
=============================================================================
