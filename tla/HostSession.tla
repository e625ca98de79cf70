---------------------------- MODULE HostSession ----------------------------
(***************************************************************************)
(* One DuckDB connection from its first use of the extension to its end:   *)
(* the client context state of src/host/client_context.cpp, created in the *)
(* middle of a query, the callbacks DuckDB makes on it, and the function   *)
(* states that hold clones of its runtime: of the judgment functions       *)
(* (init and row-mode evaluation of src/functions/mod.rs), of              *)
(* duckjeu_last_profile() and of duckjeu_cache_clear().                    *)
(* An evaluation is followed as far as the profile sees it; its permit and *)
(* its answer are RowExecutor's.                                           *)
(***************************************************************************)
EXTENDS QueryProfile, FiniteSetsExt

CONSTANTS
  States,        \* room for function states
  InitContexts,  \* what init may read: [provider, model, detailed, ready]
  Metadata,      \* what a response may report of itself
  Outcomes,      \* the ways queries end: QueryOutcomes, or fewer for TLC
  MaxRows        \* bound on the rows evaluated and the answers others store

ASSUME SessionAssumption ==
  /\ IsFiniteSet(States)
  /\ InitContexts # {}
  /\ InitContexts \subseteq [provider : Providers, model : Models,
                             detailed : BOOLEAN, ready : BOOLEAN]
  /\ Metadata \subseteq [usage : BOOLEAN, roundtrip : Times \cup {None},
                         serialization : Times \cup {None},
                         inference : Times \cup {None}]
  /\ Outcomes \subseteq QueryOutcomes /\ Outcomes # {}
  /\ MaxRows \in Nat

VARIABLES
  bridge,     \* DuckJeuClientContextState: "none" yet, "open", "closed"
  running,    \* is a query running on the connection?
  handles,    \* strong count of the SharedConnectionRuntime
  kind,       \* the function each state is of
  at,         \* where each function state is; "none" before init
  frozen,     \* the context a judgment state froze
  born,       \* the query it was made in, by the queries begun until then
  scope,      \* the query_scope its evaluation read
  answer,     \* the response on its way back: metadata or None, and the time
  memo,       \* ClearState.result
  told,       \* the counts a clear state gave to rows
  shown,      \* the reports a profile state gave to its last chunk
  rows,       \* the rows evaluated and the answers stored by others so far
  stored,     \* those answers
  ledger      \* per query: what really happened in it

callVars == <<kind, at, frozen, born, scope, answer>>
statementVars == <<memo, told, shown>>
observerVars == <<rows, stored, ledger>>
bridgeVars == <<bridge, running, handles>>
vars == <<runtimeVars, profileVars, bridgeVars, callVars, statementVars,
          observerVars>>

Untouched == <<slots, entries, permits, credVars>>

Kinds == {"judge", "last_profile", "cache_clear"}

SomeContext == CHOOSE x \in InitContexts : TRUE

NoAnswer == [meta |-> None, elapsed |-> 0]

\* The rows handed to the judgment functions, whatever became of them; the
\* contexts initialised; and the time spent in the requests attempted while
\* the query was active, with those whose response did not tell a part.
EmptyAccount ==
  [rows |-> 0, named |-> {}, roundtrip |-> 0,
   serialization |-> 0, unserialized |-> 0, inference |-> 0, uninferred |-> 0]

Init ==
  /\ active = NoQuery /\ nextQuery = 0 /\ cancelled = {} /\ lastQuery = {}
  /\ entries = EmptyMap /\ slots = << >> /\ permits = 0
  /\ credScope = 1 /\ fingerprint = NoCred /\ nextScope = 2
  /\ cache = EmptyMap /\ counts = ZeroCounts
  /\ ProfileInit
  /\ bridge = "none" /\ running = FALSE /\ handles = 0
  /\ kind = [s \in States |-> "judge"]
  /\ at = [s \in States |-> "none"]
  /\ frozen = [s \in States |-> SomeContext]
  /\ born = [s \in States |-> 0]
  /\ scope = [s \in States |-> 0]
  /\ answer = [s \in States |-> NoAnswer]
  /\ memo = [s \in States |-> None]
  /\ told = [s \in States |-> {}]
  /\ shown = [s \in States |-> {}]
  /\ rows = 0 /\ stored = 0
  /\ ledger = [q \in 0..MaxQueries |-> EmptyAccount]

Goto(s, label) == at' = [at EXCEPT ![s] = label]

-----------------------------------------------------------------------------
(* The connection.  DuckDB begins and ends its queries in turn, and calls  *)
(* back only once the client context has the state.                        *)

HostBegin ==
  /\ ~running /\ bridge # "closed"
  /\ running' = TRUE
  /\ IF bridge = "open" THEN BeginProfiled
     ELSE UNCHANGED <<runtimeVars, profileVars>>
  /\ UNCHANGED <<bridge, handles, callVars, statementVars, observerVars>>

\* Function states may still be evaluating when the query ends (an
\* interrupt); with DrainFirst they are not.
HostEnd(outcome) ==
  /\ running
  /\ DrainFirst => \A s \in States : at[s] \in {"none", "idle"}
  /\ running' = FALSE
  /\ IF bridge = "open" /\ active # NoQuery THEN EndProfiled(outcome)
     ELSE UNCHANGED <<runtimeVars, profileVars>>
  /\ UNCHANGED <<bridge, handles, callVars, statementVars, observerVars>>

\* The client context goes away, and its state with it.
CloseConnection ==
  /\ ~running /\ bridge # "closed"
  /\ bridge' = "closed"
  /\ handles' = IF bridge = "open" THEN handles - 1 ELSE handles
  /\ UNCHANGED <<runtimeVars, profileVars, running, callVars, statementVars,
                 observerVars>>

-----------------------------------------------------------------------------
(* Function states.                                                        *)

\* Mutant: the state is made without its own begin_query.
CreateUnseeded(s) ==
  /\ bridge = "none"
  /\ bridge' = "open"
  /\ handles' = 2
  /\ born' = [born EXCEPT ![s] = nextQuery]
  /\ UNCHANGED <<runtimeVars, profileVars>>

\* GetOrCreate makes the state in the middle of the connection's first query
\* that needs it: a runtime, a first begin_query, and a clone for the caller.
Create(s) ==
  /\ bridge = "none"
  /\ bridge' = "open"
  /\ handles' = 2
  /\ BeginProfiled
  /\ born' = [born EXCEPT ![s] = nextQuery']

\* Mutant: the state's own handle is handed out, not a clone.
ShareUncloned(s) ==
  /\ bridge = "open"
  /\ born' = [born EXCEPT ![s] = nextQuery]
  /\ UNCHANGED <<bridge, handles, runtimeVars, profileVars>>

\* GetOrCreate finds the state: a clone of its runtime.
Share(s) ==
  /\ bridge = "open"
  /\ handles' = handles + 1
  /\ born' = [born EXCEPT ![s] = nextQuery]
  /\ UNCHANGED <<bridge, runtimeVars, profileVars>>

\* init: the runtime is acquired, the settings are read and frozen; those
\* of a judgment function are then recorded under a lock of their own.
InitState(s) ==
  /\ running /\ at[s] = "none"
  /\ Create(s) \/ Share(s)
  /\ \/ /\ kind' = [kind EXCEPT ![s] = "judge"]
        /\ \E x \in InitContexts : frozen' = [frozen EXCEPT ![s] = x]
        /\ Goto(s, "acquired")
     \/ /\ \E f \in Kinds \ {"judge"} : kind' = [kind EXCEPT ![s] = f]
        /\ Goto(s, "idle")
        /\ UNCHANGED frozen
  /\ UNCHANGED <<running, scope, answer, statementVars, observerVars>>

\* init, second lock: the scope is read and the context recorded for it.
RecordContext(s) ==
  /\ at[s] = "acquired"
  /\ RecordProfileContext(QueryScope, frozen[s])
  /\ ledger' = IF active = NoQuery THEN ledger
               ELSE [ledger EXCEPT ![active].named = @ \cup {frozen[s]}]
  /\ Goto(s, "idle")
  /\ UNCHANGED <<runtimeVars, lastProfile, bridgeVars, kind, frozen, born,
                 scope, answer, statementVars, rows, stored>>

\* DuckDB destroys the state: before or after its query, or the connection,
\* is over.
DropState(s) ==
  /\ at[s] = "idle"
  /\ handles' = handles - 1
  /\ Goto(s, "none")
  /\ kind' = [kind EXCEPT ![s] = "judge"]
  /\ frozen' = [frozen EXCEPT ![s] = SomeContext]
  /\ born' = [born EXCEPT ![s] = 0]
  /\ scope' = [scope EXCEPT ![s] = 0]
  /\ memo' = [memo EXCEPT ![s] = None]
  /\ told' = [told EXCEPT ![s] = {}]
  /\ shown' = [shown EXCEPT ![s] = {}]
  /\ UNCHANGED <<runtimeVars, profileVars, bridge, running, answer,
                 observerVars>>

\* An evaluation returns to DuckDB.
Return(s) == Goto(s, "idle") /\ scope' = [scope EXCEPT ![s] = 0]

Continue(s, label) == Goto(s, label) /\ UNCHANGED scope

\* DuckDB evaluates a function state only in the query it was made in.
MayEvaluate(s, f) ==
  running /\ kind[s] = f /\ at[s] = "idle" /\ born[s] = nextQuery

-----------------------------------------------------------------------------
(* A row in row mode, as the profile sees it.                              *)

EvalStart(s) ==
  /\ MayEvaluate(s, "judge")
  /\ rows < MaxRows
  /\ rows' = rows + 1
  /\ scope' = [scope EXCEPT ![s] = QueryScope]
  /\ Goto(s, "row_input")
  /\ UNCHANGED <<runtimeVars, profileVars, bridgeVars, kind, frozen, born,
                 answer, statementVars, stored, ledger>>

\* record_row_input, then evaluate_row up to its attempt: a NULL argument
\* makes the row NULL; an invalid row, or a provider that could not be
\* built, is an error.
RowInput(s) ==
  /\ at[s] = "row_input"
  /\ RecordRowInput(scope[s])
  /\ ledger' = IF scope[s] # active THEN ledger
               ELSE [ledger EXCEPT ![active].rows = @ + 1]
  /\ \/ Continue(s, "null_result")
     \/ Return(s)
     \/ frozen[s].ready /\ Continue(s, "attempt")
  /\ UNCHANGED <<queryVars, Untouched, cache, profileVars, bridgeVars, kind,
                 frozen, born, answer, statementVars, rows, stored>>

\* An attempt the ended query no longer counts is in no report.
Attempt(s) ==
  /\ at[s] = "attempt"
  /\ RecordProviderAttempt(scope[s], 1)
  /\ Goto(s, IF scope[s] = active THEN "call" ELSE "stray")
  /\ UNCHANGED <<queryVars, Untouched, cache, profileVars, bridgeVars, kind,
                 frozen, born, scope, answer, statementVars, observerVars>>

\* What one request adds to its query's account.
Spend(account, meta, time) ==
  [account EXCEPT
     !.roundtrip = @ + time,
     !.serialization = @ + OrElse(meta.serialization, 0),
     !.unserialized = @ + IF meta.serialization = None THEN 1 ELSE 0,
     !.inference = @ + OrElse(meta.inference, 0),
     !.uninferred = @ + IF meta.inference = None THEN 1 ELSE 0]

Untold == [usage |-> FALSE, roundtrip |-> None,
           serialization |-> None, inference |-> None]

\* judge_with_metadata: an error after some time, or a response.
Call(s) ==
  /\ at[s] = "call"
  /\ \E time \in Times :
       \/ /\ ledger' = [ledger EXCEPT ![scope[s]] = Spend(@, Untold, time)]
          /\ answer' = [answer EXCEPT ![s] = [meta |-> None, elapsed |-> time]]
          /\ IF External THEN Continue(s, "failure") ELSE Return(s)
       \/ \E meta \in Metadata :
            /\ ledger' = [ledger EXCEPT ![scope[s]] =
                            Spend(@, meta, OrElse(meta.roundtrip, time))]
            /\ answer' = [answer EXCEPT ![s] =
                            [meta |-> meta, elapsed |-> time]]
            /\ Continue(s, "response")
  /\ UNCHANGED <<runtimeVars, profileVars, bridgeVars, kind, frozen, born,
                 statementVars, rows, stored>>

\* The response is recorded before it is validated.
Response(s) ==
  /\ at[s] = "response"
  /\ RecordResponse(scope[s], answer[s].meta, answer[s].elapsed)
  /\ answer' = [answer EXCEPT ![s] = NoAnswer]
  /\ Continue(s, "result") \/ Return(s)
  /\ UNCHANGED <<queryVars, Untouched, cache, lastProfile, bridgeVars, kind,
                 frozen, born, statementVars, observerVars>>

Failure(s) ==
  /\ at[s] = "failure"
  /\ RecordFailure(scope[s], answer[s].elapsed)
  /\ answer' = [answer EXCEPT ![s] = NoAnswer]
  /\ Return(s)
  /\ UNCHANGED <<queryVars, Untouched, cache, lastProfile, bridgeVars, kind,
                 frozen, born, statementVars, observerVars>>

\* record_row_result, of a NULL row or a judged one.
Result(s) ==
  /\ at[s] \in {"null_result", "result"}
  /\ RecordRowResult(scope[s], at[s] = "null_result")
  /\ Return(s)
  /\ UNCHANGED <<queryVars, Untouched, cache, profileVars, bridgeVars, kind,
                 frozen, born, answer, statementVars, observerVars>>

\* The call made for an ended query comes back: its records find no query.
Stray(s) ==
  /\ at[s] = "stray"
  /\ Return(s)
  /\ UNCHANGED <<runtimeVars, profileVars, bridgeVars, kind, frozen, born,
                 answer, statementVars, observerVars>>

-----------------------------------------------------------------------------
(* duckjeu_last_profile() and duckjeu_cache_clear().                       *)

\* profile.rs, eval: one lock, and the same report for every row.
ProfileEval(s) ==
  /\ MayEvaluate(s, "last_profile")
  /\ shown' = [shown EXCEPT ![s] = LastReports]
  /\ UNCHANGED <<runtimeVars, profileVars, bridgeVars, callVars, memo, told,
                 observerVars>>

\* The first chunk clears; \E D: with the cache on, reconcile_policy may
\* drop expired entries uncounted.
ClearFirst(s) ==
  /\ \E D \in SUBSET DOMAIN cache :
       /\ memo' = [memo EXCEPT ![s] = Cardinality(D)]
       /\ told' = [told EXCEPT ![s] = @ \cup {Cardinality(D)}]
  /\ ClearCache

\* Mutant: every chunk clears and counts anew.
ClearEvalAnew(s) ==
  /\ MayEvaluate(s, "cache_clear")
  /\ ClearFirst(s)
  /\ UNCHANGED <<queryVars, Untouched, counts, profileVars, bridgeVars,
                 callVars, shown, observerVars>>

\* cache_clear.rs, eval: the first chunk's count is kept for all the rows.
ClearEval(s) ==
  /\ MayEvaluate(s, "cache_clear")
  /\ IF memo[s] = None THEN ClearFirst(s)
     ELSE /\ told' = [told EXCEPT ![s] = @ \cup {memo[s]}]
          /\ UNCHANGED <<cache, memo>>
  /\ UNCHANGED <<queryVars, Untouched, counts, profileVars, bridgeVars,
                 callVars, shown, observerVars>>

\* The rest of the connection: optimized evaluations (GroupExecutor) put
\* answers into the cache meanwhile.
OthersInsert ==
  /\ bridge = "open" /\ active # NoQuery
  /\ rows < MaxRows
  /\ rows' = rows + 1 /\ stored' = stored + 1
  /\ \E k \in Keys, m \in PinnedModels, v \in Values :
       CacheInsert([key |-> k, model |-> m, scope |-> credScope],
                   [key |-> k, model |-> m, cred |-> fingerprint,
                    query |-> active, val |-> v])
  /\ UNCHANGED <<queryVars, Untouched, counts, profileVars, bridgeVars,
                 callVars, statementVars, ledger>>

-----------------------------------------------------------------------------
\* The connection is closed and every state of it destroyed.
Gone ==
  /\ bridge = "closed" /\ \A s \in States : at[s] = "none"
  /\ UNCHANGED vars

Evaluate(s) ==
  \/ RecordContext(s) \/ EvalStart(s) \/ RowInput(s) \/ Attempt(s) \/ Call(s)
  \/ Response(s) \/ Failure(s) \/ Result(s) \/ Stray(s)
  \/ ProfileEval(s) \/ ClearEval(s)

Next ==
  \/ HostBegin
  \/ \E o \in Outcomes : HostEnd(o)
  \/ CloseConnection
  \/ OthersInsert
  \/ \E s \in States : InitState(s) \/ DropState(s) \/ Evaluate(s)
  \/ Gone

Spec == Init /\ [][Next]_vars

-----------------------------------------------------------------------------
(* What makes it correct.                                                  *)

\* The handles on the runtime are the bridge's, until the connection closes,
\* and one per function state: whatever the order in which connection and
\* states go, the runtime lives exactly as long as somebody refers to it
\* (duckjeu_host_state_create, _clone and _drop).
HandlesAccounted ==
  handles = Cardinality({s \in States : at[s] # "none"})
              + IF bridge = "open" THEN 1 ELSE 0

\* The runtime has an active query exactly while DuckDB runs one, although
\* it was made in the middle of one and never saw it begin.
ObservesRunningQuery ==
  bridge = "open" => (running <=> active # NoQuery)

Reports == LastReports \cup UNION {shown[s] : s \in States}

\* A sum in a report is the whole truth: it covers every external request
\* the query made, although detailed timing may be asked for in the middle
\* of it, requests fail, and some are under way when it ends
\* (record_profile_context's |=, the sample counts of render_profile).
ReportedSumsAreTotal ==
  \A r \in Reports : LET account == ledger[r.query] IN
    /\ r.external_roundtrip_sum \in {None, account.roundtrip}
    /\ r.serialization_sum # None =>
         /\ r.serialization_sum = account.serialization
         /\ account.unserialized = 0
    /\ r.server_inference_sum # None =>
         /\ r.server_inference_sum = account.inference
         /\ account.uninferred = 0

\* duckjeu_last_profile() describes the query that handed rows to judgment
\* functions and ended last, whatever it did itself and whatever ran since,
\* and names one context that was initialised in that query.  Rows count
\* whatever becomes of them: a query of NULL rows alone replaces the report
\* (input_rows > 0 in end_query), one that hands over none does not.
ReportIsOfLastWithRows ==
  LET handed == {q \in 0..nextQuery : q < nextQuery /\ q # active
                                       /\ ledger[q].rows > 0}
  IN  /\ handed = {} <=> LastReports = {}
      /\ \A r \in LastReports :
           /\ r.query \in handed /\ \A q \in handed : q <= r.query
           /\ \E x \in ledger[r.query].named :
                r.provider = x.provider /\ r.requested_model = x.model

\* The entries the clear states counted.
Cleared == MapThenSumSet(LAMBDA s : OrElse(memo[s], 0), States)

\* duckjeu_cache_clear() counts no entry twice.  Each of its function states,
\* one per expression and thread, clears on its own: their counts and what is
\* still cached never exceed the answers stored, whatever others store
\* between two chunks; and all rows of one state are told the count it keeps
\* (ClearState.result).  Rows of different states may be told different ones.
EntriesCountedOnce ==
  /\ \A s \in States : told[s] \subseteq {memo[s]}
  /\ Cleared + Cardinality(DOMAIN cache) <= stored
=============================================================================
