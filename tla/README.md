# A TLA+ verification of DuckJeu's judgment runtime

DuckJeu is a DuckDB extension whose scalar functions `jev_prob`, `jev_bool` and
`jev_choice` ask a remote model about each row. This directory models the part of it
that is hard to get right by testing: the runtime one connection shares between DuckDB's
worker threads and the bridge that ties it to the connection's life, the three ways a chunk
of rows is executed on it, the result cache, and the way of a statement from its settings
and rows through requests and replies to its answers.
Paths below are relative to the repository (`src/host/mod.rs` is the extension's,
`judgment-core/...` is `crates/judgment-core/src/...`).

## 1. Inventory

| Component | State it keeps | Operations | Interacts with | What makes it correct |
|---|---|---|---|---|
| Connection runtime (`src/host/mod.rs`) | active query and its cancellation flag, query entries, permit pool, credential scope, cache, counts, last snapshot; one mutex (the pool has its own) | `begin_query`, `end_query`, `identity_scopes`, `credential_scope`, `claim_query_entry`, `query_cancellation`, `acquire_request_permit`, `record_*` | called by every thread of the connection and by the host's callbacks | one owner per identity, no entry left behind, permits exact and bounded, late calls of an ended query harmless |
| Query entry (`judgment-core/runtime.rs`) | a result or nothing | `complete` (first result wins), `wait` (20 ms polls of the flag) | owner thread and joined threads | whoever waits is let go |
| Group executor (`judgment-core/executor.rs`) | locals of `execute_one_group` | claim, look up, ask, validate, cache, settle | runtime, provider | each identity asked once per query; all rows of an identity get one answer |
| Batch executor (same file) | leaders, followers, partitions | claim all groups, split, `dispatch`, `fail_leaders`, wait | runtime, provider | requests within both limits, answers matched by key, no circular waiting |
| Row mode (`src/functions/mod.rs`, `run`, `evaluate_row`) | loop index | one judgment per row | runtime, provider | rows in order, counts exact |
| Optimized mode (`run_optimized`) | the chunk's results | group, execute, publish | executors | a chunk is published whole or not at all |
| Result cache (`judgment-core/cache.rs`) | map, LRU order, byte total | `lookup`, `reconcile_policy`, `insert_success`, `clear`, `len` | runtime, under its mutex | the three parts agree, limits and TTL of the calling session hold, LRU order |
| Cache clear (`src/functions/cache_clear.rs`) | a count per function state (one per thread and expression), made by its first chunk | reconcile and clear | cache | nothing cleared is served again or counted twice; rows of one state get one count, those of different states may not |
| Profile report (`judgment-core/metrics.rs`, `src/functions/profile.rs`) | none | render the last snapshot | runtime | figures balance; a sum or a cost is stated only if it covers every request; the report is of the last query that handed rows to a judgment function |
| Host bridge (`src/host/client_context.cpp`) | a handle per connection | constructor, `QueryBegin`, `QueryEnd`, clone, drop | DuckDB, runtime | every handle dropped once; a query the runtime was made in is observed too |
| Provider adapters (`src/provider/*`) | HTTP agent | `build_body`, `build_batch_body`, `judge_with_metadata`, `judge_many`, `parse_batch_response` | service | strict acceptance of replies, nothing sent that the service refuses, each service with its own credential |
| Judgment types (`judgment-core/judgment.rs`) | none | validation, identities | executors | only rows that ask the same of the same service share an answer |
| Canonical encoding (`judgment-core/serialize.rs`, `read_state`) | none | read values, encode | identities, requests | equal encodings only for equal inputs; nothing of the row lost |
| Configuration (`src/config.rs`) | the session's options | register, read, validate, freeze at init | init | illegal settings refused before anything is sent |
| Registration (`src/lib.rs`) | none | register functions and options | DuckDB | not modelled |

Hard behaviours: several threads evaluate chunks of one query and share judgments through
query entries; the host's callbacks take the same mutex at any moment; a thread makes up to
a dozen separate critical sections per judgment and uses what it read in one in the next;
waits (entry, permit) depend on other threads; requests fail half-way and may have been
billed; batch answers come in any order; cache policies and clocks differ between calls;
settings change between statements while the cache lives on; services answer with other
models, spoilt answers or truncated states; the runtime is made in the middle of a query and
outlives its connection in late function states.
`PROJECT.json` lists these as hazards, each at its line.

## 2. Modules

| Module | Models | Notes |
|---|---|---|
| `ConnectionRuntime` | the struct and every method of it the executors call | each method is one critical section, hence one action (or part of one) |
| `ScalarThreads` | DuckDB's threads and callbacks, grouping of rows, and a ledger of what the service received and billed | extends `ConnectionRuntime`; the figures of the report are compared with the ledger |
| `GroupExecutor` | optimized mode without batching | one action per call on the runtime, the pool, the entry or the provider |
| `RowExecutor` | row mode | as above |
| `BatchExecutor` | optimized mode with batching | as above; a response carries labelled answers |
| `JudgmentCache` | `cache.rs` call by call, with policy and instant as inputs | implements `LossyCache` |
| `LossyCache` | the promise the executors rely on: a store that forgets but never invents | `ConnectionRuntime` uses this abstraction for `cache` |
| `QueryProfile` | names and timings of a query, and the report rendered from the last one | extends `ConnectionRuntime`, whose `begin_query` and `end_query` it completes |
| `HostSession` | a connection from its first use of the extension to after its end: bridge state, callbacks, function states of the three sorts | composes `QueryProfile` with the bridge, `duckjeu_last_profile()` and `duckjeu_cache_clear()`; an evaluation is followed as far as the profile sees it |
| `RuntimeConfig` | options, their validation, provider context and credentials | operators |
| `CanonicalState` | reading a DuckDB value into a typed one, its canonical bytes | operators; decimals digit by digit, strings with their escapes |
| `ProviderProtocol` | adapters, request bodies, what a service may reply, what is accepted | operators over the two modules above |
| `JudgmentCall` | a connection's statements one after the other, with SETs in between | composes the three; row, grouped and batched execution over one chunk, with the cache |
| `RuntimeLemmas`, `CountingLemmas` | lemmas about the runtime's operators; about sums, smallest members and ranks of finite sets | checked by TLAPS, used by the next ones |
| `GroupExecutorProofs`, `RowExecutorProofs`, `BatchExecutorProofs`, `JudgmentCacheProofs`, `HostSessionProofs`, `JudgmentCallProofs` | theorems about the module each is named after | checked by TLAPS; section 5 |
| `MC*` | instances for TLC | |

**State.** `active`, `nextQuery`, `cancelled` are `active_query`, `next_query_id` and the
shared flags (kept as the set of queries whose flag is up: an `Arc<AtomicBool>` outlives its
query). `entries` maps identities to indices into `slots`, because a thread keeps its `Arc`
to an entry after the map was cleared. `permits` is `PermitState.active`. `counts` holds the
fields of `QueryCounts`; `lastQuery` the snapshot. A thread has a label `pc` and the locals
the code keeps across calls. `ledger` is not in the code: it is what the service saw.

**Data.** A judgment's content is a model value; an identity is content, model, credential
scope and query, as in `JudgmentIdentity`; a cache identity drops the query. An answer
carries the content, model, credential and query it was asked with, so that a wrong delivery
is visible. All errors are `Failed`. Rows are contents, `NullRow` or `BadRow`.

**Two views of one execution.** The executor modules have threads, permits, waits and counts,
and contents that are model values: they show that sharing is right whatever interleaves.
`JudgmentCall` has one thread and real contents: rows of typed columns, options, credentials,
bodies and replies. It shows that what is shared, sent and accepted is right whatever it
holds. There an answer carries what the service worked it out from (`by`: endpoint, model,
state, question, candidates), and the properties compare that with the row it lands in.
Texts and bytes are sequences of tokens; a text may hold the tokens of an encoded structure
or of the end of a field, so that a missing escape or kind shows. The shortest text of a
DOUBLE and the order of field names are data. The candidates of a choice are keys of a map in
a request body, whose order is the map's and not the row's (`ByLabel`); the mock hashes them in
the row's order (`InOrder`). `HostSession` likewise keeps a `ledger` of
what every query really did, to which the report is compared; its states hold one handle
each.

**Abstractions.** The 20 ms polls are guarded actions that become enabled when the poll would
succeed. `fail_leaders` and the batch's own error loop settle all entries in one step (each
`complete` touches only its entry, and nobody reads two). Invalid cache policies and zero
limits are ruled out by `read_runtime_config` in the executors (the cache itself is checked
with an invalid policy). `max_inflight` is one constant although each call passes its
session's setting. A thread is given one chunk per query; another thread stands for the next.
`estimated_entry_bytes` depends on the identity only. Counters are natural numbers: 64-bit
saturation is out of reach. The cache's counters of expirations and evictions, which nothing
reads, are left out. Panics and poisoned locks are not modelled. In `JudgmentCall` the cache
may lose what it is given at the moment it is given (`JudgmentCache` has the policies), the
size of a body is its states' tokens and a constant per judgment, and a `SET` happens between
statements: init has frozen the settings while one runs. A function state is evaluated only
in the query it was made in, as DuckDB does. Builds without the client context bridge, in
which no function state has a connection, are left out of `HostSession`.

## 3. Runs

`DrainFirst` says whether the host ends a query only when no thread is inside the extension.
DuckDB drains its tasks first; nothing in the bridge enforces it, and the repository's tests
of the runtime begin and end queries under running threads, so the safety runs use `FALSE`
where that matters.

| Run | Instance | Shows |
|---|---|---|
| `group_overlap` | 2 threads, 2 queries, 1 content with and without a duplicate, 2 possible answers, 1 permit, host unrestrained | permits, single flight, no orphaned entry, one answer per identity |
| `group_drained` | 1 query, every sort of row, provider missing or not, fair threads | cost covers billing, requests counted, every thread comes back |
| `group_cache` | 2 queries, cache, a pinned model and an alias, two credentials | types, right answers, aliases asked per query, hits only from other queries, balanced counts |
| `row_overlap` | 2 threads, 2 queries, host unrestrained, NULL, bad and unsupported rows | types, permits, counts |
| `batch_overlap` | 2 threads with crossed chunks, one judgment too large, provider without external requests, host unrestrained, fair threads | ownership, no circular waiting, whole chunks, every thread comes back |
| `batch_split` | 1 thread, 2 queries, cache, six rows of two questions, any labelled response | limits, right answers, balanced counts and histogram |
| `cache_policy` | 3 identities, 2 results, 4 policies, skewed clock | cache invariants, LRU, TTL, neither eviction loop goes further than it must, refinement of `LossyCache` |
| `host_session` | 2 function states of any sort, 2 queries, 2 rows (NULL or not) or inserts, a working context and a broken one with detailed timing, responses that tell all or nothing, host unrestrained, connection closed at any idle moment | handles, the seeded query, sums, the report's query and context, no entry counted twice by clearing states |
| `judgment_call` | 2 statements over 13 chunks, one SET of 12 options, 5 settings to start from, 2 environments, services that lose, spoil, truncate, change or hide their model | rows get their own answers, from the service named; only legal work is sent, each service with its credential, address and model |
| `group_unsent` | violation | a refused request is counted as external |
| `group_duplicates` | violation | figures of a failed query do not add up |
| `batch_abandoned` | violation | a follower never comes back |

**Bounds.** Two threads and two queries are the least in which one thread acts for an ended
query while another acts for the next, in which one owns what another joins, and in which a
permit is contended (`MaxInflight = 1`). Chunks are chosen per run so that duplicates, NULLs,
two groups in both orders, and every early return occur. Batch limits are chosen so that one
partition needs two requests and the byte limit cuts before the count limit. The cache's
policies differ in each limit, one cannot hold the heavy entry and has a TTL the clock cannot
represent, one is invalid. `HostSession` needs two states, so that one may outlive the query or
the connection while the other works, and two queries, so that a report of the first can be
wrongly replaced by the second; with `MaxRows = 2`, which bounds the rows evaluated and the
answers others store together, one request can go unmeasured before detailed timing begins and
another be measured after, and the two clear states can each have an answer to count. Queries end as succeeded there
(`Outcomes`): the outcome only passes through to the report's status. In `JudgmentCall` two statements and
one `SET` are the least in which a result of one service could be found under the settings
of another; each chunk holds a pair of rows that a plausible fault of the encoding, the
identity or the grouping would confuse, and a batch of two with a third judgment left over.
`LocalMaxChoices` is 2 there, 255 in the code. Caps in guards: `MaxQueries`, `MaxClock`,
`MaxRows`, `MaxSets`, `MaxStatements`. `judgment_call` does not check deadlock, because its
statements are bounded.

**Fairness.** `FairSpec` adds weak fairness for each thread's `Step`: DuckDB's threads are
scheduled, the mutexes are held for bounded work, polls recur every 20 ms and the HTTP client
has a timeout. Nothing forces the host to begin or end a query, so no liveness depends on a
cancellation. Row mode waits only for permits, which `group_drained` covers for the same pool;
its own liveness is not run. `group_drained` and `batch_abandoned` do not check deadlock: under `DrainFirst`
a state in which threads wait forever is a deadlock, and `ChunkReturns` is the property that
names it; the other runs check it.

**Profile figures.** `CostCoversBilling` compares a stated cost with the tokens the service
billed before the query's end; a request in flight or failed leaves `usage_response_count`
behind `external_requests` and withholds the cost. `SnapshotBalanced` is claimed of succeeded
queries only: section 4 shows it fails, against the contract, for failed ones.

Each property has a mutant of the code it depends on (operators marked *Mutant* before the
definition they stand in for); TLC finds the property violated with it.

## 4. Disagreements found

1. `group_unsent`: `execute_one_group` counts the attempt before the adapter's check of the
   number of choices refuses it, so `external_requests` includes a request that was never
   sent; `contracts/profile-report.md` says only real network requests are counted. Row mode
   checks the limit before the attempt and is not affected.
2. `group_duplicates`: after a provider failure `valid_rows` includes groups that were never
   claimed, so `deduplicated_rows = valid_rows - unique_judgments` fails in a case the
   contract does not except.
3. `batch_abandoned`: `execute_batch_groups` returns at a judgment over `max_choices` without
   settling the entries it claimed earlier in the loop; a thread that joined one of them waits
   until the query is ended from outside. No shipped provider combines verified batching with
   a choice limit today; the test provider in `src/executor_tests.rs` does.
4. Without a run of its own: `read_struct` puts fields into a map by name, and the fields of
   `ROW(1, 2)` all have the empty name, so only the last one is judged, and `ROW(3, 2)` is
   the same judgment; `specs/002-judgment-runtime-evolution/data-model.md` calls the
   canonical bytes the complete normalised content. `TypedStruct` models the map; a chunk
   `Noul(Struct(<<Col("", "INTEGER"), Col("", "INTEGER")>>), << <<1, 2>>, <<3, 2>> >>)` added
   to `MCChunks` makes `RowsGetOwnAnswers` fail. The chunks of the run have named fields.
5. Without a run of its own: `contracts/profile-report.md:3` says the report is of the last ended
   query containing judgments (`含判断`), and line 51 that a top-level NULL produces none
   (`不产生判断`). `end_query` keeps a snapshot when `input_rows > 0`, and `input_rows` counts
   rows before they are read, so a query of NULL rows alone replaces the report. The model does
   the same: `RowInput` counts the row and may find it NULL (`null_result`), and
   `ReportIsOfLastWithRows` speaks of rows handed over, not of judgments.
6. Noted, not a violation of anything stated: when the provider settings cannot be read, init
   keeps the default context, and a query's report may then name the mock provider.

## 5. Proofs

All theorems are of the form `Spec => []...` (or state an action property or a refinement) of
the specification TLC runs, for every value of the constants its `ASSUME`s allow: any finite
set of threads, any contents, models, credentials, contexts and chunks, any number of queries,
any limits, sizes, policies and clock skew. What is assumed (`RuntimeAssumption`,
`ThreadAssumption`, `BatchAssumption`, `CacheAssumption`, ...) is that sets of threads are
finite, limits are positive (`read_runtime_config` refuses others) and the distinguished values
are none of the ordinary ones. `CallAssumption` adds that options hold values of their types
(DuckDB converts what `SET` gives them) and that a chunk's rows are numbered from 1,
`NoneAssumption` and `ModelAssumption` that an absent credential or model is none that can be
named. TLC evaluates each of them on the runs.

| Module | Theorem | States |
|---|---|---|
| `GroupExecutorProofs` | `TypeCorrect` | `TypeOK` |
| | `PermitsAccounted` | `PermitAccounting` |
| | `FlightsAreSingle`, `EntriesAreOwned` | `SingleFlight`, `NoOrphanedEntry` |
| | `RowsGetRightAnswers`, `QueriesAgree` | `RightAnswer`, `OneAnswerPerIdentity` |
| | `AliasesAreAskedAgain`, `HitsAreOfOtherQueries` | `AliasAskedPerQuery`, `HitsComeFromOtherQueries` |
| | `RequestsAreCounted`, `CostIsWhole` | `RequestsCounted`, `CostCoversBilling` |
| | `SnapshotsBalance` | `SnapshotBalanced` |
| `RowExecutorProofs` | `RowTypesCorrect`, `RowPermitsAccounted` | `TypeOK`, `PermitAccounting` |
| | `RowSnapshotsBalance` | `SnapshotBalanced` |
| `BatchExecutorProofs` | `BatchTypesCorrect`, `BatchPermitsAccounted` | `TypeOK`, `PermitAccounting` |
| | `BatchFlightsAreSingle`, `BatchEntriesAreOwned` | `SingleFlight`, `NoOrphanedEntry` (the latter for `WideKeys = {}`) |
| | `FollowersOweNothing` | `WaitsOwingNothing` |
| | `BatchesAreWithinLimits`, `ChunksAreWhole` | `BatchWithinLimits`, `AllOrNothing` |
| | `BatchRowsGetRightAnswers` | `RightAnswer` |
| | `BatchSnapshotsBalance` | `SnapshotBalanced` |
| `JudgmentCacheProofs` | `CacheTypesCorrect`, `PartsNeverDrift` | `TypeOK`, `PartsAgree` |
| | `LimitsHold`, `HitsAreYoung` | `WithinLimits`, `HitsAreFresh` |
| | `ExpiryOnlyMovesCloser`, `TheLastUsedSurvives`, `NothingIsEvictedInVain` | the action properties `ExpiryNeverExtended`, `MostRecentSurvives`, `EvictsOnlyWhatItMust` |
| | `CacheIsLossyStore` | `ImplementsLossyCache` |
| `HostSessionProofs` | `HandlesAreAccounted`, `RunningQueryIsObserved` | `HandlesAccounted`, `ObservesRunningQuery` |
| | `EntriesAreCountedOnce`, `LastWithRowsIsReported` | `EntriesCountedOnce`, `ReportIsOfLastWithRows` |
| | `ReportsTellTotals` | `ReportedSumsAreTotal` |
| `JudgmentCallProofs` | `OnlyLegalWork`, `ServicesKept` | `OnlyLegalWorkIsSent`, `ServiceKept` |
| | `AnswersFromService` | `AnswersOfNamedService` |
| | `AnswersMatchRows` | every answer was worked out from a row of the same kind and bytes, for the row's own question |
| | `RowsGetTheirs` | `RowsGetOwnAnswers`, where `Faithful` |

**The inductive invariants.** None of the properties about more than permits is inductive as it
stands. Every component has a `TypeInv` (or `Shape`, `Shaped`) with what its locals hold at
each label, on which the others rest:

- *Types* (`TypeInv` of each executor). A hit and an insert use a local as an answer, and a
  group's key needs a judged row, so `TypeOK` alone is not kept. In `BatchExecutor` this is most
  of the work: `ClaimShape`, `SendShape`, `AnswerShape` and `Linked` say which groups are led,
  followed, unsent and under way at each label, where answers are, and that every entry a
  thread holds is an entry of its group's identity.
- *Permits.* Inductive given the types: an action leaves `Holders` alone or moves one thread in
  or out, and the lemmas on `Cardinality` do the rest.
- *Ownership* (`FlightInv`). Needs that every query but the active one is flagged, which excuses
  the entries of old queries, and that the map, the entries and what a thread holds agree on
  identities, so that a second claimant joins. In `BatchExecutor`, where a thread owes many
  entries, also that entries with one identity are one entry, and that what is led and neither
  unsent nor under way is settled (`LedIsSettled`): settling one group cannot settle another.
- *Answers* (`AnswerInv`). An answer is kept in three places (entries, the cache, a thread's
  hand) under an identity that names a credential *scope*, while the property speaks of the
  *credential*. `ScopesApart` ties them: a scope belongs to one credential, whoever still holds
  it, also after the connection moved on to another. `AnswersKept` then says that each of the
  three holds answers to its identity. For agreement within a query `RowsFromEntries` traces
  every published row to the entry it came from; for hits `CacheOfOthers` says that a cached
  answer of the running query has its entry in the map, so that nobody looks it up. In
  `BatchExecutor` a response's answers are found by request key: that `Valid` makes the labels
  a bijection onto the groups sent (`EveryLabelUsed`, `AnswerIsOwn`) is what makes the order
  of the answers irrelevant.
- *Whole chunks* (`CoverInv`). Each group of a chunk is answered, or waits: it is unsent, under
  way, followed, or not reached by the claiming loop yet; nothing waits when a thread is done.
- *Limits* (`LimitsInv`). From the moment a batch asks for its permit it is a prefix of its
  partition that fits; the sum `estimate_request_bytes` is `Total` of `CountingLemmas`.
- *Counts* (`BillInv`, `BalanceInv`, `CountInv`). Counts lag behind what they count; each part
  says by how many threads between two labels, or by how many rows and groups of such threads.
  Threads that failed spoil the balance for good, so it is kept only while no thread of the
  query is bound to fail (`Doomed`), and a query with such a thread cannot succeed. With
  batching one request carries many judgments, so the sum of the batch sizes takes the place of
  the number of requests, and a thread carries the rows, the groups and the judgments of its
  chunk that its loops have not come to yet.
- *Cache* (`CacheInv`). `Sound`: order, map and byte count agree; `RecentIsLast`: what was used
  last is at the end of the order. Eviction is shown to cut a shortest prefix, expiry to be
  monotone, and every call to be a step, or a stutter, of `LossyCache` under the mapping that
  forgets order, bytes and times.
- *Session* (`SessionInv`). `QueriesInTurn`, `InitRecorded` and `ActiveNamed`: rows are handed
  only to states whose context was recorded in the same query, so the profile of a query with
  rows has a name; `SnapshotIsLast` follows it into the snapshot. `CountedWasStored` says that
  what the clear states counted and what is cached never exceeds the answers stored (the sum
  over the states is `Total` of `CountingLemmas`). For the sums
  (`TimingInv`), samples and requests not answered yet never outnumber the external requests,
  and as long as they are as many, a profile's sum and what the states still have in hand make
  up the ledger's; what a report tells is settled when its query ends.
- *Statements* (`WorkInv` and `AnswerInv` of `JudgmentCallProofs`). `WorkInv` says what init froze,
  that rows before the current one, or the whole chunk, were read, and that each group is
  answered or waits in one place (not looked up, not sent, under way); nothing waits when a
  statement is done. `AnswerInv` says that an accepted reply, the rows and the cache hold
  answers to what was asked. It rests on `RequestsOfBatch`, `PostedAnswers` and `SpoiltRefused`:
  every judgment of a batch has a key and a place of its own, a service's answer under that key
  is to that judgment, and no reply with an answer missing, added, or of another type or range
  is accepted.

Each was checked with TLC on a run of its module before it was proved, except where it is about
`Total`, which TLC cannot evaluate (`LimitsInv`, and parts of the batch's `BalanceInv` and of
`TimingInv`).

**Sums and ranks.** Facts about sets of any size that one would prove by induction
(sums over a set, ranks, orders without repetition) are proved in `CountingLemmas` by looking
at a smallest counterexample, since the library's induction rules take an operator and cannot be
instantiated here. Two operators of `JudgmentCache` are written for that: `Without` gives the
order without some members by rank, and `ShorterLife` names what a policy does to one entry.

**Conditions.** `BatchEntriesAreOwned` assumes that no judgment has more choices than the adapter
sends. Without it the property is false of the code, which is finding 3 (`batch_abandoned`); the
run `batch_overlap` checks the property under the same condition.

`RowsGetTheirs` assumes `Faithful`: rows read as the same kind and bytes hold the same. That is
what the encoding promises of any two rows; to prove it of structures takes induction over texts,
digits and fields, which the provers do not have. It is not true of structures whose fields have
no names, which is disagreement 4 of section 4. `MCJudgmentCall` has TLC check it of the
chunks of the run, escapes, look-alikes and decimals included; `TextsAreFaithful` proves it of
chunks of VARCHARs. Everything else between a row and its answer is proved without it:
`AnswersMatchRows` is the same statement with bytes in place of what they stand for.

**Only model-checked.** Liveness (`ChunkReturns`: fairness and `ENABLED` are outside the prover's
reach) and the faithfulness of the encoding of structures (above).

## 6. Plan

Done: the runtime, the three executors, the cache and its abstraction, the profile and the
host session, configuration, encoding, adapters and the statement that composes them; the
theorems of section 5. Next, in this order:

1. An abstract single-flight specification that the group and batch executors implement.
2. Per-call `max_inflight` in the permit pool.

Not modelled, and not planned: registration with DuckDB (straight-line code at load time), the
C calls that read one vector element or one option, HTTP itself, the hash behind the mock's
answers, the conversion of a probability to a boolean or of a label to a string, the figures
of the cost estimate, and wording of errors.
