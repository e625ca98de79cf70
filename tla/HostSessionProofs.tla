--------------------------- MODULE HostSessionProofs ---------------------------
(***************************************************************************)
(* Proofs about a connection from its first use of the extension to its    *)
(* end: its handles are accounted for, its runtime has an active query     *)
(* exactly while DuckDB runs one, what clears the cache counts no entry    *)
(* twice, the report is about the query that handed over rows and ended    *)
(* last, and a sum in it is the whole truth.                               *)
(*                                                                         *)
(* Needed for the counts: a clear state that has not counted yet finds in  *)
(* the cache no more than what was stored and not counted before.          *)
(*                                                                         *)
(* Needed for the report's query: rows are handed to states whose          *)
(* context was recorded in the very query, because an evaluation belongs   *)
(* to the query its state was made in, and queries are numbered in turn.   *)
(*                                                                         *)
(* Needed for the sums: as long as every request not waited for gave a     *)
(* sample, the profile's sum and what the states have in their hands make  *)
(* up what the query's requests really took; when the query ends, none is  *)
(* waited for unless a sample is missing.                                  *)
(***************************************************************************)
EXTENDS HostSession, CountingLemmas

-----------------------------------------------------------------------------
(* The parts of the invariant.                                             *)

\* Labels inside the evaluation of a row.
Evaluating == {"row_input", "attempt", "call", "stray", "response", "failure",
               "null_result", "result"}

\* Of an account or a profile only its fields matter here.
Shape ==
  /\ bridge \in {"none", "open", "closed"} /\ running \in BOOLEAN
  /\ active \in Nat \cup {NoQuery} /\ nextQuery \in Nat
  /\ counts.input_rows \in Nat
  /\ IsFiniteSet(DOMAIN cache)
  /\ DOMAIN profile = DOMAIN FreshProfile
  /\ kind \in [States -> Kinds]
  /\ at \in [States -> {"none", "idle", "acquired"} \cup Evaluating]
  /\ frozen \in [States -> InitContexts]
  /\ born \in [States -> Nat] /\ scope \in [States -> Nat]
  /\ memo \in [States -> Nat \cup {None}] /\ DOMAIN told = States
  /\ stored \in Nat
  /\ DOMAIN ledger = 0..MaxQueries
  /\ \A q \in 0..MaxQueries :
       DOMAIN ledger[q] = DOMAIN EmptyAccount /\ ledger[q].rows \in Nat

\* Before the first use there is nothing; after the end nothing runs.
BridgeStates ==
  /\ bridge = "none" =>
       active = NoQuery /\ \A s \in States : at[s] = "none"
  /\ bridge = "closed" => ~running

\* Queries are numbered in turn and nothing is of a query to come.
QueriesInTurn ==
  /\ active # NoQuery => nextQuery = active + 1
  /\ nextQuery <= MaxQueries
  /\ \A s \in States : born[s] <= nextQuery
  /\ \A s \in States : at[s] \in Evaluating => scope[s] < nextQuery
  /\ \A q \in 0..MaxQueries : q >= nextQuery =>
       ledger[q].rows = 0 /\ ledger[q].named = {}

\* What a clear state told is what it keeps.
ToldIsKept ==
  \A s \in States :
    /\ memo[s] = None => told[s] = {}
    /\ told[s] \subseteq {memo[s]}

\* The counts the clear states keep, 0 where there is none.
Counted(m) == [s \in States |-> OrElse(m[s], 0)]

\* What was counted and what is still there was stored.
CountedWasStored ==
  Total(Counted(memo), States) + Cardinality(DOMAIN cache) <= stored

\* A judgment state's context is recorded before it is evaluated, in the
\* query it is evaluated in.
InitRecorded ==
  \A s \in States :
    /\ kind[s] = "judge" /\ at[s] \notin {"none", "acquired"}
         /\ born[s] = nextQuery /\ active # NoQuery =>
         frozen[s] \in ledger[active].named
    /\ at[s] \in Evaluating /\ scope[s] = active => ledger[active].named # {}

\* The active query: its rows, and the names its profile took from the first
\* context recorded.
ActiveNamed ==
  active # NoQuery =>
    /\ counts.input_rows = ledger[active].rows
    /\ ledger[active].rows > 0 => ledger[active].named # {}
    /\ ledger[active].named = {} =>
         profile.provider = None /\ profile.model = None
    /\ ledger[active].named # {} =>
         \E x \in ledger[active].named :
           /\ x \in InitContexts
           /\ profile.provider = x.provider /\ profile.model = x.model

\* The queries that handed over rows and are over.
QueriesWithRows ==
  {q \in 0..nextQuery : q < nextQuery /\ q # active /\ ledger[q].rows > 0}

\* The last of them is the one the snapshot was taken of.
SnapshotIsLast ==
  /\ QueriesWithRows = {} <=> lastQuery = {}
  /\ lastQuery = {} <=> lastProfile = {}
  /\ \A t \in lastQuery :
       /\ t.query \in QueriesWithRows /\ \A q \in QueriesWithRows : q <= t.query
       /\ \A p \in lastProfile : \E x \in ledger[t.query].named :
            p.provider = x.provider /\ p.model = x.model

SessionInv ==
  /\ Shape /\ BridgeStates /\ HandlesAccounted /\ ObservesRunningQuery
  /\ QueriesInTurn /\ ToldIsKept /\ CountedWasStored
  /\ InitRecorded /\ ActiveNamed /\ SnapshotIsLast

-----------------------------------------------------------------------------
(* What steps leave alone.                                                 *)

\* An observation without input rows leaves their count alone.
LEMMA NoInputRows ==
  ASSUME counts.input_rows \in Nat, NEW q, NEW delta, Record(q, delta),
         "input_rows" \notin DOMAIN delta
  PROVE  counts'.input_rows = counts.input_rows
  BY DEF Record, Plus, CountFields

\* A new measurement changes neither a profile's fields nor its names.
LEMMA TimingsKeepNames ==
  ASSUME NEW p, DOMAIN p = DOMAIN FreshProfile, NEW a, NEW b, NEW c,
         NEW r, r = Inferred(Serialized(Timed(p, a), b), c)
                \/ r = Inferred(Timed(p, a), c)
  PROVE  /\ DOMAIN r = DOMAIN FreshProfile
         /\ r.provider = p.provider /\ r.model = p.model
  <1>1. ASSUME NEW x, NEW y, DOMAIN x = DOMAIN FreshProfile,
               y = Timed(x, a) \/ y = Serialized(x, b) \/ y = Inferred(x, c)
        PROVE  /\ DOMAIN y = DOMAIN FreshProfile
               /\ y.provider = x.provider /\ y.model = x.model
    BY <1>1 DEF Timed, Serialized, Inferred, FreshProfile
  <1>2. /\ DOMAIN Timed(p, a) = DOMAIN FreshProfile
        /\ Timed(p, a).provider = p.provider /\ Timed(p, a).model = p.model
    BY <1>1
  <1>3. /\ DOMAIN Serialized(Timed(p, a), b) = DOMAIN FreshProfile
        /\ Serialized(Timed(p, a), b).provider = p.provider
        /\ Serialized(Timed(p, a), b).model = p.model
    BY <1>1, <1>2
  <1>4. QED
    BY <1>1, <1>2, <1>3

\* The books of the queries are as they were.
Quiet ==
  /\ UNCHANGED <<active, nextQuery, lastQuery, lastProfile>>
  /\ counts'.input_rows = counts.input_rows
  /\ DOMAIN profile' = DOMAIN FreshProfile
  /\ profile'.provider = profile.provider /\ profile'.model = profile.model
  /\ DOMAIN ledger' = 0..MaxQueries
  /\ \A q \in 0..MaxQueries :
       /\ DOMAIN ledger'[q] = DOMAIN EmptyAccount
       /\ ledger'[q].rows = ledger[q].rows
       /\ ledger'[q].named = ledger[q].named

\* What a call spends is neither rows nor names.
LEMMA SpendKeeps ==
  ASSUME Shape, NEW q, NEW meta, NEW time,
         ledger' = [ledger EXCEPT ![q] = Spend(@, meta, time)]
  PROVE  /\ DOMAIN ledger' = 0..MaxQueries
         /\ \A i \in 0..MaxQueries :
              /\ DOMAIN ledger'[i] = DOMAIN EmptyAccount
              /\ ledger'[i].rows = ledger[i].rows
              /\ ledger'[i].named = ledger[i].named
  <1>1. ASSUME NEW a, DOMAIN a = DOMAIN EmptyAccount
        PROVE  /\ DOMAIN Spend(a, meta, time) = DOMAIN EmptyAccount
               /\ Spend(a, meta, time).rows = a.rows
               /\ Spend(a, meta, time).named = a.named
    BY <1>1 DEF Spend, EmptyAccount
  <1>2. \A i \in 0..MaxQueries :
          ledger'[i] = ledger[i] \/ ledger'[i] = Spend(ledger[i], meta, time)
    BY DEF Shape
  <1>3. QED
    BY <1>1, <1>2 DEF Shape

\* Only beginning and ending a query, recording a context and reading a row
\* touch them.
LEMMA QuietSteps ==
  ASSUME Shape, [Next]_vars,
         ~BeginProfiled, \A o \in Outcomes : ~EndProfiled(o),
         \A s \in States : ~RecordContext(s) /\ ~RowInput(s)
  PROVE  Quiet
  <1>1. CASE UNCHANGED <<active, nextQuery, lastQuery, counts, profileVars,
                         ledger>>
    BY <1>1 DEF Quiet, Shape, profileVars
  <1>2. CASE HostBegin \/ (\E o \in Outcomes : HostEnd(o)) \/ CloseConnection
               \/ OthersInsert \/ Gone \/ UNCHANGED vars
    <2>1. UNCHANGED <<active, nextQuery, lastQuery, counts, profileVars, ledger>>
      BY <1>2 DEF HostBegin, HostEnd, CloseConnection, OthersInsert, Gone, vars,
                  runtimeVars, queryVars, observerVars
    <2>2. QED
      BY <1>1, <2>1
  <1>3. ASSUME NEW s \in States,
               \/ InitState(s) \/ DropState(s) \/ EvalStart(s) \/ Stray(s)
               \/ ProfileEval(s) \/ ClearEval(s)
        PROVE  Quiet
    <2>1. UNCHANGED <<active, nextQuery, lastQuery, counts, profileVars, ledger>>
      BY <1>3 DEF InitState, Create, Share, DropState, EvalStart, Stray,
                  ProfileEval, ClearEval, runtimeVars, queryVars, observerVars
    <2>2. QED
      BY <1>1, <2>1
  <1>4. ASSUME NEW s \in States, Attempt(s) \/ Result(s)
        PROVE  Quiet
    <2>1. /\ UNCHANGED <<active, nextQuery, lastQuery, profileVars, ledger>>
          /\ RecordProviderAttempt(scope[s], 1)
               \/ \E null \in BOOLEAN : RecordRowResult(scope[s], null)
      BY <1>4 DEF Attempt, Result, queryVars, observerVars
    <2>2. \E delta : Record(scope[s], delta) /\ "input_rows" \notin DOMAIN delta
      <3>1. CASE RecordProviderAttempt(scope[s], 1)
        <4>1. CASE External
          <5>1. Record(scope[s],
                       [provider_invocations |-> 1, external_requests |-> 1,
                        batch_size_sum |-> 1,
                        batched_requests |-> IF 1 > 1 THEN 1 ELSE 0])
            BY <3>1, <4>1 DEF RecordProviderAttempt
          <5>2. QED
            BY <5>1
        <4>2. CASE ~External
          <5>1. Record(scope[s], [provider_invocations |-> 1])
            BY <3>1, <4>2 DEF RecordProviderAttempt
          <5>2. QED
            BY <5>1
        <4>3. QED
          BY <4>1, <4>2
      <3>2. ASSUME NEW null \in BOOLEAN, RecordRowResult(scope[s], null)
            PROVE  \E delta : /\ Record(scope[s], delta)
                              /\ "input_rows" \notin DOMAIN delta
        <4>1. \/ Record(scope[s], [null_rows |-> 1])
              \/ Record(scope[s], [valid_rows |-> 1, unique_judgments |-> 1])
          BY <3>2 DEF RecordRowResult
        <4>2. /\ "input_rows" \notin DOMAIN [null_rows |-> 1]
              /\ "input_rows" \notin
                   DOMAIN [valid_rows |-> 1, unique_judgments |-> 1]
          OBVIOUS
        <4>3. QED
          BY <4>1, <4>2
      <3>3. QED
        BY <2>1, <3>1, <3>2
    <2>3. counts'.input_rows = counts.input_rows
      BY <2>2, NoInputRows DEF Shape
    <2>4. QED
      BY <2>1, <2>3 DEF Quiet, Shape, profileVars
  <1>5. ASSUME NEW s \in States, Call(s)
        PROVE  Quiet
    <2>1. /\ UNCHANGED <<active, nextQuery, lastQuery, counts, profileVars>>
          /\ \E meta, time :
               ledger' = [ledger EXCEPT ![scope[s]] = Spend(@, meta, time)]
      BY <1>5 DEF Call, runtimeVars, queryVars
    <2>2. /\ DOMAIN ledger' = 0..MaxQueries
          /\ \A i \in 0..MaxQueries :
               /\ DOMAIN ledger'[i] = DOMAIN EmptyAccount
               /\ ledger'[i].rows = ledger[i].rows
               /\ ledger'[i].named = ledger[i].named
      BY <2>1, SpendKeeps
    <2>3. QED
      BY <2>1, <2>2 DEF Quiet, Shape, profileVars
  <1>6. ASSUME NEW s \in States, Response(s) \/ Failure(s)
        PROVE  Quiet
    <2>1. /\ UNCHANGED <<active, nextQuery, lastQuery, lastProfile, ledger>>
          /\ \/ RecordResponse(scope[s], answer[s].meta, answer[s].elapsed)
             \/ RecordFailure(scope[s], answer[s].elapsed)
      BY <1>6 DEF Response, Failure, queryVars, observerVars
    <2>2. /\ \E delta : /\ Record(scope[s], delta)
                        /\ "input_rows" \notin DOMAIN delta
          /\ \/ profile' = profile
             \/ \E a, b, c :
                  profile' = Inferred(Serialized(Timed(profile, a), b), c)
             \/ \E a, c : profile' = Inferred(Timed(profile, a), c)
      <3>1. CASE RecordResponse(scope[s], answer[s].meta, answer[s].elapsed)
        <4>1. RecordProviderResponse(scope[s], answer[s].meta.usage)
          BY <3>1 DEF RecordResponse
        <4>2. \E delta : /\ Record(scope[s], delta)
                         /\ "input_rows" \notin DOMAIN delta
          BY <4>1 DEF RecordProviderResponse, EmptyMap
        <4>3. QED
          BY <3>1, <4>2 DEF RecordResponse, ProfileOf
      <3>2. CASE RecordFailure(scope[s], answer[s].elapsed)
        <4>1. Record(scope[s], [failed_requests |-> 1,
                                usage_missing_count |-> 1])
          BY <3>2 DEF RecordFailure
        <4>2. QED
          BY <3>2, <4>1 DEF RecordFailure, ProfileOf
      <3>3. QED
        BY <2>1, <3>1, <3>2
    <2>3. counts'.input_rows = counts.input_rows
      BY <2>2, NoInputRows DEF Shape
    <2>4. /\ DOMAIN profile' = DOMAIN FreshProfile
          /\ profile'.provider = profile.provider
          /\ profile'.model = profile.model
      <3>1. DOMAIN profile = DOMAIN FreshProfile
        BY DEF Shape
      <3>2. ASSUME NEW a, NEW b, NEW c,
                   profile' = Inferred(Serialized(Timed(profile, a), b), c)
                     \/ profile' = Inferred(Timed(profile, a), c)
            PROVE  /\ DOMAIN profile' = DOMAIN FreshProfile
                   /\ profile'.provider = profile.provider
                   /\ profile'.model = profile.model
        BY <3>1, <3>2, TimingsKeepNames
      <3>3. QED
        BY <2>2, <3>1, <3>2
    <2>5. QED
      BY <2>1, <2>3, <2>4 DEF Quiet, Shape
  <1>7. QED
    BY <1>2, <1>3, <1>4, <1>5, <1>6 DEF Next, Evaluate

\* Every step is of one of five kinds for the books; a query begins only when
\* none is active.
Opens == BeginProfiled /\ active = NoQuery /\ UNCHANGED ledger

Closes == (\E o \in Outcomes : EndProfiled(o)) /\ UNCHANGED ledger

\* No step does anything else to the books.
LEMMA BookSteps ==
  ASSUME SessionInv, [Next]_vars
  PROVE  \/ Opens \/ Closes \/ Quiet
         \/ \E s \in States : RecordContext(s) \/ RowInput(s)
  <1>1. Shape /\ BridgeStates /\ ObservesRunningQuery
    BY DEF SessionInv
  <1>2. SUFFICES ASSUME \A s \in States : ~RecordContext(s) /\ ~RowInput(s),
                        ~Quiet
                 PROVE  Opens \/ Closes
    OBVIOUS
  <1>3. BeginProfiled \/ \E o \in Outcomes : EndProfiled(o)
    BY <1>1, <1>2, QuietSteps
  <1>4. (HostBegin /\ bridge = "open") \/ (\E s \in States : InitState(s) /\ Create(s))
          \/ \E o \in Outcomes : HostEnd(o)
    <2>1. active' # active
      BY <1>1, <1>3, RuntimeAssumption
      DEF BeginProfiled, BeginQuery, EndProfiled, EndQuery, Shape, SessionInv,
          QueriesInTurn
    <2>2. QED
      BY <2>1, <1>2, ZenonT(60)
      DEF Next, vars, runtimeVars, queryVars, HostBegin, CloseConnection,
          OthersInsert, Gone, InitState, Share, DropState, Evaluate, EvalStart,
          Attempt, Call, Response, Failure, Result, Stray, ProfileEval, ClearEval
  <1>5. UNCHANGED ledger
    BY <1>4 DEF HostBegin, InitState, HostEnd, observerVars
  <1>6. CASE BeginProfiled
    <2>1. active = NoQuery \/ \E o \in Outcomes : HostEnd(o)
      BY <1>1, <1>4 DEF HostBegin, Create, BridgeStates, ObservesRunningQuery
    <2>2. active # NoQuery => \E o \in Outcomes : EndProfiled(o)
      BY <1>6, <2>1, RuntimeAssumption, <1>1
      DEF HostEnd, runtimeVars, queryVars, BeginProfiled, BeginQuery, Shape
    <2>3. QED
      BY <1>5, <1>6, <2>2 DEF Opens, Closes
  <1>7. QED
    BY <1>3, <1>5, <1>6 DEF Closes

\* A recorded context changes the names of the active query alone.
LEMMA ContextBooks ==
  ASSUME SessionInv, NEW s \in States, RecordContext(s)
  PROVE  /\ UNCHANGED <<active, nextQuery, counts, lastQuery, lastProfile>>
         /\ DOMAIN profile' = DOMAIN FreshProfile
         /\ active = NoQuery => UNCHANGED <<ledger, profile>>
         /\ active # NoQuery =>
              /\ active \in 0..MaxQueries
              /\ ledger' = [ledger EXCEPT ![active].named = @ \cup {frozen[s]}]
              /\ profile'.provider = OrElse(profile.provider, frozen[s].provider)
              /\ profile'.model = OrElse(profile.model, frozen[s].model)
  <1>1. /\ UNCHANGED <<active, nextQuery, counts, lastQuery, lastProfile>>
        /\ RecordProfileContext(QueryScope, frozen[s])
        /\ ledger' = IF active = NoQuery THEN ledger
                     ELSE [ledger EXCEPT ![active].named = @ \cup {frozen[s]}]
    BY DEF RecordContext, runtimeVars, queryVars
  <1>2. /\ active \in Nat \cup {NoQuery} /\ nextQuery \in Nat
        /\ MaxQueries \in Nat /\ NoQuery \notin Nat
        /\ DOMAIN profile = DOMAIN FreshProfile
        /\ active # NoQuery => nextQuery = active + 1 /\ nextQuery <= MaxQueries
    BY RuntimeAssumption DEF SessionInv, Shape, QueriesInTurn
  <1>3. CASE active = NoQuery
    <2>1. QueryScope # active
      BY <1>2, <1>3 DEF QueryScope
    <2>2. QED
      BY <1>1, <1>2, <1>3, <2>1 DEF RecordProfileContext, ProfileOf
  <1>4. CASE active # NoQuery
    <2>1. QueryScope = active
      BY <1>4 DEF QueryScope
    <2>2. profile' = [profile EXCEPT !.provider = OrElse(@, frozen[s].provider),
                                     !.model = OrElse(@, frozen[s].model),
                                     !.detailed = @ \/ frozen[s].detailed]
      BY <1>1, <2>1 DEF RecordProfileContext, ProfileOf
    <2>3. /\ DOMAIN profile' = DOMAIN FreshProfile
          /\ profile'.provider = OrElse(profile.provider, frozen[s].provider)
          /\ profile'.model = OrElse(profile.model, frozen[s].model)
      BY <1>2, <2>2 DEF FreshProfile
    <2>4. QED
      BY <1>1, <1>2, <1>4, <2>3
  <1>5. QED
    BY <1>3, <1>4

\* A row read changes the row count of its query alone, and only while that
\* query is active.
LEMMA RowBooks ==
  ASSUME SessionInv, NEW s \in States, RowInput(s)
  PROVE  /\ UNCHANGED <<active, nextQuery, profile, lastQuery, lastProfile>>
         /\ scope[s] # active => UNCHANGED <<counts, ledger>>
         /\ scope[s] = active =>
              /\ active \in 0..MaxQueries
              /\ counts'.input_rows = counts.input_rows + 1
              /\ ledger' = [ledger EXCEPT ![active].rows = @ + 1]
  <1>1. /\ UNCHANGED <<active, nextQuery, profile, lastQuery, lastProfile>>
        /\ Record(scope[s], [input_rows |-> 1])
        /\ ledger' = IF scope[s] # active THEN ledger
                     ELSE [ledger EXCEPT ![active].rows = @ + 1]
    BY DEF RowInput, RecordRowInput, queryVars, profileVars
  <1>2. scope[s] = active => active \in 0..MaxQueries
    BY RuntimeAssumption DEF SessionInv, Shape, QueriesInTurn
  <1>3. scope[s] = active => counts'.input_rows = counts.input_rows + 1
    BY <1>1 DEF Record, Plus, CountFields
  <1>4. QED
    BY <1>1, <1>2, <1>3 DEF Record

\* The books keep their shape.
BookShape ==
  /\ active \in Nat \cup {NoQuery} /\ nextQuery \in Nat
  /\ counts.input_rows \in Nat
  /\ DOMAIN profile = DOMAIN FreshProfile
  /\ DOMAIN ledger = 0..MaxQueries
  /\ \A q \in 0..MaxQueries :
       DOMAIN ledger[q] = DOMAIN EmptyAccount /\ ledger[q].rows \in Nat

\* They keep it in every step.
LEMMA BookShapeStep ==
  ASSUME SessionInv, [Next]_vars
  PROVE  BookShape'
  <1>1. BookShape /\ MaxQueries \in Nat
    BY RuntimeAssumption DEF SessionInv, Shape, BookShape
  <1>2. CASE Opens
    BY <1>1, <1>2 DEF Opens, BeginProfiled, BeginQuery, BookShape, ZeroCounts,
                      CountFields
  <1>3. CASE Closes
    BY <1>1, <1>3 DEF Closes, EndProfiled, EndQuery, BookShape, ZeroCounts,
                      CountFields
  <1>4. CASE Quiet
    BY <1>1, <1>4 DEF Quiet, BookShape
  <1>5. ASSUME NEW s \in States, RecordContext(s)
        PROVE  BookShape'
    <2>1. CASE active = NoQuery
      BY <1>1, <1>5, <2>1, ContextBooks DEF BookShape
    <2>2. CASE active # NoQuery
      <3>1. /\ DOMAIN ledger' = 0..MaxQueries
            /\ \A q \in 0..MaxQueries :
                 /\ DOMAIN ledger'[q] = DOMAIN ledger[q]
                 /\ ledger'[q].rows = ledger[q].rows
        BY <1>1, <1>5, <2>2, ContextBooks, SMTT(30) DEF BookShape, EmptyAccount
      <3>2. QED
        BY <1>1, <1>5, <2>2, <3>1, ContextBooks DEF BookShape
    <2>3. QED
      BY <2>1, <2>2
  <1>6. ASSUME NEW s \in States, RowInput(s)
        PROVE  BookShape'
    <2>1. CASE scope[s] # active
      BY <1>1, <1>6, <2>1, RowBooks DEF BookShape
    <2>2. CASE scope[s] = active
      <3>1. /\ DOMAIN ledger' = 0..MaxQueries
            /\ \A q \in 0..MaxQueries :
                 /\ DOMAIN ledger'[q] = DOMAIN ledger[q]
                 /\ ledger'[q].rows \in Nat
        BY <1>1, <1>6, <2>2, RowBooks, SMTT(30) DEF BookShape, EmptyAccount
      <3>2. QED
        BY <1>1, <1>6, <2>2, <3>1, RowBooks DEF BookShape
    <2>3. QED
      BY <2>1, <2>2
  <1>7. QED
    BY <1>2, <1>3, <1>4, <1>5, <1>6, BookSteps

\* The cache stays finite: an insertion adds one identity.
LEMMA CacheStaysFinite ==
  ASSUME IsFiniteSet(DOMAIN cache), [Next]_vars
  PROVE  IsFiniteSet(DOMAIN cache')
  <1>1. CASE UNCHANGED cache
    BY <1>1
  <1>2. CASE OthersInsert
    <2>1. PICK id, ans : CacheInsert(id, ans)
      BY <1>2 DEF OthersInsert
    <2>2. CASE CacheReconcile
      <3>1. PICK D \in SUBSET DOMAIN cache : cache' = Keep(cache, D)
        BY <2>2 DEF CacheReconcile
      <3>2. DOMAIN cache' = D
        BY <3>1 DEF Keep
      <3>3. QED
        BY <3>1, <3>2, FS_Subset
    <2>3. ASSUME NEW D \in SUBSET (DOMAIN cache \ {id}),
                 cache' = [i \in D \cup {id} |-> IF i = id THEN ans ELSE cache[i]]
          PROVE  IsFiniteSet(DOMAIN cache')
      <3>1. IsFiniteSet(D)
        BY FS_Subset
      <3>2. DOMAIN cache' = D \cup {id}
        BY <2>3
      <3>3. QED
        BY <3>1, <3>2, FS_AddElement
    <2>4. QED
      BY <2>1, <2>2, <2>3 DEF CacheInsert
  <1>3. ASSUME NEW s \in States, ClearEval(s)
        PROVE  IsFiniteSet(DOMAIN cache')
    <2>1. cache' = cache \/ cache' = EmptyMap
      BY <1>3 DEF ClearEval, ClearFirst, ClearCache
    <2>2. DOMAIN EmptyMap = {}
      BY DEF EmptyMap
    <2>3. QED
      BY <2>1, <2>2, FS_EmptySet
  <1>4. CASE HostBegin \/ (\E o \in Outcomes : HostEnd(o)) \/ CloseConnection
               \/ Gone \/ UNCHANGED vars
    BY <1>1, <1>4 DEF HostBegin, BeginProfiled, BeginQuery, HostEnd, EndProfiled,
                      EndQuery, CloseConnection, Gone, vars, runtimeVars
  <1>5. ASSUME NEW s \in States,
               InitState(s) \/ DropState(s) \/ (Evaluate(s) /\ ~ClearEval(s))
        PROVE  IsFiniteSet(DOMAIN cache')
    <2>1. UNCHANGED cache
      BY <1>5 DEF InitState, Create, Share, BeginProfiled, BeginQuery, DropState,
                  Evaluate, RecordContext, EvalStart, RowInput, Attempt, Call,
                  Response, Failure, Result, Stray, ProfileEval, runtimeVars
    <2>2. QED
      BY <1>1, <2>1
  <1>6. QED
    BY <1>2, <1>3, <1>4, <1>5 DEF Next

\* The connection and its function states keep their shape.
LocalShape ==
  /\ bridge \in {"none", "open", "closed"} /\ running \in BOOLEAN
  /\ kind \in [States -> Kinds]
  /\ at \in [States -> {"none", "idle", "acquired"} \cup Evaluating]
  /\ frozen \in [States -> InitContexts]
  /\ born \in [States -> Nat] /\ scope \in [States -> Nat]
  /\ memo \in [States -> Nat \cup {None}] /\ DOMAIN told = States
  /\ stored \in Nat

\* What an evaluation does to the states' own variables.
LEMMA EvaluationMoves ==
  ASSUME NEW s \in States, Evaluate(s)
  PROVE  /\ UNCHANGED <<bridge, running, handles, kind, frozen, born>>
         /\ \/ at' = at
            \/ \E l \in {"idle"} \cup Evaluating : at' = [at EXCEPT ![s] = l]
         /\ at[s] # "none"
         /\ \/ scope' = scope
            \/ scope' = [scope EXCEPT ![s] = 0]
            \/ scope' = [scope EXCEPT ![s] = QueryScope]
  <1>1. CASE RecordContext(s) \/ EvalStart(s) \/ RowInput(s) \/ Attempt(s)
    BY <1>1 DEF RecordContext, EvalStart, RowInput, Attempt, Goto, Return,
                Continue, MayEvaluate, bridgeVars, Evaluating
  <1>2. CASE Call(s) \/ Response(s) \/ Failure(s) \/ Result(s) \/ Stray(s)
    BY <1>2 DEF Call, Response, Failure, Result, Stray, Goto, Return, Continue,
                bridgeVars, Evaluating
  <1>3. CASE ProfileEval(s) \/ ClearEval(s)
    BY <1>3 DEF ProfileEval, ClearEval, MayEvaluate, bridgeVars, callVars
  <1>4. QED
    BY <1>1, <1>2, <1>3 DEF Evaluate

\* They keep it in every step.
LEMMA LocalShapeStep ==
  ASSUME SessionInv, [Next]_vars
  PROVE  LocalShape'
  <1>1. /\ LocalShape /\ nextQuery \in Nat /\ QueryScope \in Nat
        /\ IsFiniteSet(DOMAIN cache)
    BY DEF SessionInv, Shape, LocalShape, QueryScope
  <1>2. CASE HostBegin \/ (\E o \in Outcomes : HostEnd(o)) \/ CloseConnection
               \/ OthersInsert \/ Gone \/ UNCHANGED vars
    <2>1. /\ UNCHANGED <<kind, at, frozen, born, scope, memo, told>>
          /\ bridge' \in {bridge, "closed"} /\ running' \in BOOLEAN
      BY <1>1, <1>2 DEF LocalShape, HostBegin, HostEnd, CloseConnection,
                        OthersInsert, Gone, vars, callVars, statementVars,
                        bridgeVars
    <2>2. stored' \in {stored, stored + 1}
      BY <1>2 DEF HostBegin, HostEnd, CloseConnection, OthersInsert, Gone, vars,
                  observerVars
    <2>3. QED
      BY <1>1, <2>1, <2>2 DEF LocalShape
  <1>3. ASSUME NEW s \in States, InitState(s)
        PROVE  LocalShape'
    <2>1. /\ bridge' = "open" /\ running' = running
          /\ UNCHANGED <<scope, memo, told, stored>>
          /\ \E n \in Nat : born' = [born EXCEPT ![s] = n]
      BY <1>1, <1>3 DEF InitState, Create, Share, BeginProfiled, BeginQuery,
                        statementVars, observerVars
    <2>2. /\ \E f \in Kinds : kind' = [kind EXCEPT ![s] = f]
          /\ \E l \in {"idle", "acquired"} : at' = [at EXCEPT ![s] = l]
          /\ frozen' = frozen
               \/ \E x \in InitContexts : frozen' = [frozen EXCEPT ![s] = x]
      BY <1>3 DEF InitState, Goto, Kinds
    <2>3. QED
      BY <1>1, <2>1, <2>2 DEF LocalShape
  <1>4. ASSUME NEW s \in States, DropState(s)
        PROVE  LocalShape'
    <2>1. SomeContext \in InitContexts
      BY SessionAssumption DEF SomeContext
    <2>2. QED
      BY <1>1, <1>4, <2>1 DEF LocalShape, DropState, Goto, Kinds,
                                      observerVars
  <1>5. ASSUME NEW s \in States, Evaluate(s)
        PROVE  LocalShape'
    <2>1. DOMAIN told' = States /\ stored' = stored
      BY <1>1, <1>5 DEF LocalShape, Evaluate, RecordContext, EvalStart, RowInput,
                        Attempt, Call, Response, Failure, Result, Stray,
                        ProfileEval, ClearEval, ClearFirst, statementVars,
                        observerVars
    <2>2. memo' = memo \/ \E D \in SUBSET DOMAIN cache :
                            memo' = [memo EXCEPT ![s] = Cardinality(D)]
      BY <1>5 DEF Evaluate, RecordContext, EvalStart, RowInput, Attempt, Call,
                  Response, Failure, Result, Stray, ProfileEval, ClearEval,
                  ClearFirst, statementVars
    <2>3. \A D \in SUBSET DOMAIN cache : Cardinality(D) \in Nat
      BY <1>1, FS_Subset, FS_CardinalityType
    <2>4. memo' \in [States -> Nat \cup {None}]
      BY <1>1, <2>2, <2>3 DEF LocalShape
    <2>5. QED
      BY <1>1, <1>5, <2>1, <2>4, EvaluationMoves DEF LocalShape
  <1>6. QED
    BY <1>2, <1>3, <1>4, <1>5 DEF Next

\* The whole shape is kept.
LEMMA ShapeStep ==
  ASSUME SessionInv, [Next]_vars
  PROVE  Shape'
  <1>1. IsFiniteSet(DOMAIN cache')
    BY CacheStaysFinite DEF SessionInv, Shape
  <1>2. QED
    BY <1>1, BookShapeStep, LocalShapeStep DEF Shape, BookShape, LocalShape

-----------------------------------------------------------------------------
(* The connection.                                                         *)

\* The runtime has an active query exactly while one runs: its first one
\* begins with it, in the middle of DuckDB's.
LEMMA BridgeStep ==
  ASSUME SessionInv, [Next]_vars
  PROVE  BridgeStates' /\ ObservesRunningQuery'
  <1>1. /\ BridgeStates /\ ObservesRunningQuery
        /\ bridge \in {"none", "open", "closed"} /\ running \in BOOLEAN
        /\ nextQuery \in Nat /\ NoQuery \notin Nat
        /\ DOMAIN at = States
    BY RuntimeAssumption DEF SessionInv, Shape
  <1>2. CASE HostBegin
    BY <1>1, <1>2 DEF HostBegin, BeginProfiled, BeginQuery, BridgeStates,
                      ObservesRunningQuery, runtimeVars, queryVars, callVars
  <1>3. ASSUME NEW o \in Outcomes, HostEnd(o)
        PROVE  BridgeStates' /\ ObservesRunningQuery'
    BY <1>1, <1>3 DEF HostEnd, EndProfiled, EndQuery, BridgeStates,
                      ObservesRunningQuery, runtimeVars, queryVars, callVars
  <1>4. CASE CloseConnection
    BY <1>1, <1>4 DEF CloseConnection, BridgeStates, ObservesRunningQuery,
                      runtimeVars, queryVars, callVars
  <1>5. ASSUME NEW s \in States, InitState(s)
        PROVE  BridgeStates' /\ ObservesRunningQuery'
    BY <1>1, <1>5 DEF InitState, Create, Share, BeginProfiled, BeginQuery,
                      BridgeStates, ObservesRunningQuery, runtimeVars, queryVars
  <1>6. ASSUME NEW s \in States, DropState(s)
        PROVE  BridgeStates' /\ ObservesRunningQuery'
    BY <1>1, <1>6 DEF DropState, BridgeStates, ObservesRunningQuery, runtimeVars,
                      queryVars
  <1>7. ASSUME NEW s \in States, Evaluate(s)
        PROVE  BridgeStates' /\ ObservesRunningQuery'
    <2>1. active' = active
      BY <1>7 DEF Evaluate, RecordContext, EvalStart, RowInput, Attempt, Call,
                  Response, Failure, Result, Stray, ProfileEval, ClearEval,
                  runtimeVars, queryVars
    <2>2. QED
      BY <1>1, <1>7, <2>1, EvaluationMoves DEF BridgeStates, ObservesRunningQuery
  <1>8. CASE OthersInsert \/ Gone \/ UNCHANGED vars
    BY <1>1, <1>8 DEF OthersInsert, Gone, vars, runtimeVars, queryVars, callVars,
                      bridgeVars, BridgeStates, ObservesRunningQuery
  <1>9. QED
    BY <1>2, <1>3, <1>4, <1>5, <1>6, <1>7, <1>8 DEF Next

\* The states that hold a handle.
Holders == {s \in States : at[s] # "none"}

\* Handles are taken by init and given back by the end of a state or of the
\* connection.
LEMMA HandlesStep ==
  ASSUME SessionInv, [Next]_vars
  PROVE  HandlesAccounted'
  <1> DEFINE held == IF bridge = "open" THEN 1 ELSE 0
  <1>1. /\ BridgeStates /\ DOMAIN at = States
        /\ bridge \in {"none", "open", "closed"}
        /\ handles = Cardinality(Holders) + held
        /\ IsFiniteSet(Holders) /\ Cardinality(Holders) \in Nat
    <2>1. IsFiniteSet(Holders)
      BY SessionAssumption, FS_Subset DEF Holders
    <2>2. QED
      BY <2>1, FS_CardinalityType DEF SessionInv, Shape, HandlesAccounted, Holders
  <1>2. SUFFICES handles' = Cardinality(Holders') + held'
    BY DEF HandlesAccounted, Holders
  <1>3. CASE Holders' = Holders /\ UNCHANGED <<bridge, handles>>
    BY <1>1, <1>3
  <1>4. CASE HostBegin \/ (\E o \in Outcomes : HostEnd(o)) \/ OthersInsert
               \/ Gone \/ UNCHANGED vars
    <2>1. UNCHANGED <<at, bridge, handles>>
      BY <1>4 DEF HostBegin, HostEnd, OthersInsert, Gone, vars, callVars, bridgeVars
    <2>2. QED
      BY <1>3, <2>1 DEF Holders
  <1>5. CASE CloseConnection
    <2>1. Holders' = Holders
      BY <1>5 DEF CloseConnection, callVars, Holders
    <2>2. QED
      BY <1>1, <1>5, <2>1 DEF CloseConnection
  <1>6. ASSUME NEW s \in States, InitState(s)
        PROVE  handles' = Cardinality(Holders') + held'
    <2>1. s \notin Holders /\ Holders' = Holders \cup {s}
      BY <1>1, <1>6 DEF InitState, Goto, Holders
    <2>2. Cardinality(Holders') = Cardinality(Holders) + 1
      BY <1>1, <2>1, FS_AddElement
    <2>3. CASE Create(s)
      <3>1. Holders = {}
        BY <1>1, <2>3 DEF Create, BridgeStates, Holders
      <3>2. QED
        BY <2>2, <2>3, <3>1, FS_EmptySet DEF Create
    <2>4. CASE Share(s)
      BY <1>1, <2>2, <2>4 DEF Share
    <2>5. QED
      BY <1>6, <2>3, <2>4 DEF InitState
  <1>7. ASSUME NEW s \in States, DropState(s)
        PROVE  handles' = Cardinality(Holders') + held'
    <2>1. s \in Holders /\ Holders' = Holders \ {s}
      BY <1>1, <1>7 DEF DropState, Goto, Holders
    <2>2. Cardinality(Holders') = Cardinality(Holders) - 1
      BY <1>1, <2>1, FS_RemoveElement
    <2>3. QED
      BY <1>1, <1>7, <2>2 DEF DropState
  <1>8. ASSUME NEW s \in States, Evaluate(s)
        PROVE  handles' = Cardinality(Holders') + held'
    <2>1. Holders' = Holders
      BY <1>1, <1>8, EvaluationMoves DEF Holders, Evaluating
    <2>2. QED
      BY <1>3, <1>8, <2>1, EvaluationMoves
  <1>9. QED
    BY <1>4, <1>5, <1>6, <1>7, <1>8 DEF Next

\* Only the first chunk clears; the others repeat what it was told.
LEMMA ToldStep ==
  ASSUME SessionInv, [Next]_vars
  PROVE  ToldIsKept'
  <1>1. ToldIsKept /\ DOMAIN memo = States /\ DOMAIN told = States
    BY DEF SessionInv, Shape
  <1>2. CASE UNCHANGED <<memo, told>>
    BY <1>1, <1>2 DEF ToldIsKept
  <1>3. ASSUME NEW s \in States, DropState(s)
        PROVE  ToldIsKept'
    BY <1>1, <1>3 DEF DropState, ToldIsKept
  <1>4. ASSUME NEW s \in States, ClearEval(s)
        PROVE  ToldIsKept'
    <2>1. CASE memo[s] = None
      <3>1. ClearFirst(s)
        BY <1>4, <2>1 DEF ClearEval
      <3>2. PICK D \in SUBSET DOMAIN cache :
              /\ memo' = [memo EXCEPT ![s] = Cardinality(D)]
              /\ told' = [told EXCEPT ![s] = @ \cup {Cardinality(D)}]
        BY <3>1 DEF ClearFirst
      <3>3. Cardinality(D) \in Nat
        BY FS_Subset, FS_CardinalityType DEF SessionInv, Shape
      <3>4. Cardinality(D) # None
        BY <3>3, ProfileAssumption
      <3>5. QED
        BY <1>1, <2>1, <3>2, <3>4 DEF ToldIsKept
    <2>2. CASE memo[s] # None
      BY <1>1, <1>4, <2>2 DEF ClearEval, ToldIsKept
    <2>3. QED
      BY <2>1, <2>2
  <1>5. CASE HostBegin \/ (\E o \in Outcomes : HostEnd(o)) \/ CloseConnection
               \/ OthersInsert \/ Gone \/ UNCHANGED vars
    BY <1>2, <1>5 DEF HostBegin, HostEnd, CloseConnection, OthersInsert, Gone,
                      vars, statementVars
  <1>6. ASSUME NEW s \in States,
               InitState(s) \/ (Evaluate(s) /\ ~ClearEval(s))
        PROVE  ToldIsKept'
    BY <1>2, <1>6 DEF InitState, Evaluate, RecordContext, EvalStart, RowInput,
                      Attempt, Call, Response, Failure, Result, Stray,
                      ProfileEval, statementVars
  <1>7. QED
    BY <1>3, <1>4, <1>5, <1>6 DEF Next

\* The sum of what the clear states keep is that of their counts.
LEMMA ClearedIsTotal ==
  ASSUME NEW m
  PROVE  MapThenSumSet(LAMBDA s : OrElse(m[s], 0), States)
           = Total(Counted(m), States)
  <1> DEFINE Counts(t) ==
        t = [S \in SUBSET States |->
               IF S = {} THEN 0
               ELSE OrElse(m[Next1(S)], 0) + t[S \ {Next1(S)}]]
  <1>1. MapThenSumSet(LAMBDA s : OrElse(m[s], 0), States)
          = (CHOOSE t : Counts(t))[States]
    BY DEF MapThenSumSet, MapThenFoldSet, Next1
  <1>2. ASSUME NEW t
        PROVE  Counts(t) <=> Adds(Counted(m), States, t)
    <2>1. \A S \in SUBSET States : S # {} =>
            OrElse(m[Next1(S)], 0) = Counted(m)[Next1(S)]
      BY TakeOne DEF Counted
    <2>2. [S \in SUBSET States |->
             IF S = {} THEN 0
             ELSE OrElse(m[Next1(S)], 0) + t[S \ {Next1(S)}]]
          = [S \in SUBSET States |->
               IF S = {} THEN 0
               ELSE Counted(m)[Next1(S)] + t[S \ {Next1(S)}]]
      BY <2>1
    <2>3. QED
      BY <2>2 DEF Adds
  <1>3. IsFiniteSet(States)
    BY SessionAssumption
  <1>4. \E t : Counts(t)
    BY <1>2, <1>3, SumsExist
  <1> DEFINE u == CHOOSE t : Counts(t)
  <1>5. Counts(u)
    BY <1>4
  <1> HIDE DEF u, Counts
  <1>6. Adds(Counted(m), States, u)
    BY <1>2, <1>5
  <1>7. u[States] = Total(Counted(m), States)
    <2>1. States \in SUBSET States
      OBVIOUS
    <2>2. QED
      BY <1>3, <1>6, <2>1, TotalOf, ZenonT(60)
  <1>8. QED
    BY <1>1, <1>7 DEF u

\* Counts are natural numbers, and so is their sum.
LEMMA CountedType ==
  ASSUME NEW m \in [States -> Nat \cup {None}]
  PROVE  /\ \A s \in States : Counted(m)[s] \in Nat
         /\ Total(Counted(m), States) \in Nat
  <1>1. \A s \in States : Counted(m)[s] \in Nat
    BY DEF Counted, OrElse
  <1>2. QED
    BY <1>1, SessionAssumption, TotalType

\* An entry comes into the cache when it is stored, and is counted when it
\* is cleared away.
LEMMA CountedStep ==
  ASSUME SessionInv, [Next]_vars
  PROVE  CountedWasStored'
  <1> DEFINE sum == Total(Counted(memo), States)
             held == Cardinality(DOMAIN cache)
  <1>1. /\ memo \in [States -> Nat \cup {None}]
        /\ memo' \in [States -> Nat \cup {None}]
        /\ IsFiniteSet(DOMAIN cache) /\ IsFiniteSet(DOMAIN cache')
        /\ IsFiniteSet(States) /\ stored \in Nat
        /\ sum + held <= stored
    BY ShapeStep, SessionAssumption DEF SessionInv, Shape, CountedWasStored
  <1>2. /\ sum \in Nat /\ sum' \in Nat /\ held \in Nat /\ held' \in Nat
        /\ \A s \in States : Counted(memo)[s] \in Nat /\ Counted(memo')[s] \in Nat
    BY <1>1, CountedType, FS_CardinalityType
  <1>3. SUFFICES sum' + held' <= stored'
    BY DEF CountedWasStored
  <1>4. CASE UNCHANGED <<memo, cache, stored>>
    BY <1>1, <1>2, <1>4
  <1>5. CASE OthersInsert
    <2>1. memo' = memo /\ stored' = stored + 1
      BY <1>5 DEF OthersInsert, statementVars
    <2>2. PICK id, ans : CacheInsert(id, ans)
      BY <1>5 DEF OthersInsert
    <2>3. DOMAIN cache' \subseteq DOMAIN cache \cup {id}
      BY <2>2 DEF CacheInsert, CacheReconcile, Keep
    <2>4. /\ IsFiniteSet(DOMAIN cache \cup {id})
          /\ Cardinality(DOMAIN cache \cup {id}) <= held + 1
      <3>1. CASE id \in DOMAIN cache
        <4>1. DOMAIN cache \cup {id} = DOMAIN cache
          BY <3>1
        <4>2. Cardinality(DOMAIN cache \cup {id}) = held
          BY <4>1
        <4>3. held <= held + 1
          BY <1>2
        <4>4. IsFiniteSet(DOMAIN cache \cup {id})
          BY <1>1, <4>1
        <4>5. QED
          BY <4>2, <4>3, <4>4
      <3>2. CASE id \notin DOMAIN cache
        <4>1. /\ IsFiniteSet(DOMAIN cache \cup {id})
              /\ Cardinality(DOMAIN cache \cup {id}) = held + 1
          BY <1>1, <3>2, FS_AddElement
        <4>2. held + 1 <= held + 1
          BY <1>2
        <4>3. QED
          BY <4>1, <4>2
      <3>3. QED
        BY <3>1, <3>2
    <2>5. held' <= held + 1
      BY <1>2, <2>3, <2>4, FS_Subset, FS_CardinalityType
    <2>6. QED
      BY <1>1, <1>2, <2>1, <2>5
  <1>6. ASSUME NEW s \in States, ClearEval(s)
        PROVE  sum' + held' <= stored'
    <2>1. stored' = stored
      BY <1>6 DEF ClearEval, observerVars
    <2>2. CASE memo[s] = None
      <3>1. PICK D \in SUBSET DOMAIN cache :
              memo' = [memo EXCEPT ![s] = Cardinality(D)]
        BY <1>6, <2>2 DEF ClearEval, ClearFirst
      <3>2. Cardinality(D) \in Nat /\ Cardinality(D) <= held
        BY <1>1, FS_Subset, FS_CardinalityType
      <3>3. held' = 0
        <4>1. cache' = EmptyMap
          BY <1>6, <2>2 DEF ClearEval, ClearFirst, ClearCache
        <4>2. DOMAIN cache' = {}
          BY <4>1 DEF EmptyMap
        <4>3. QED
          BY <4>2, FS_EmptySet
      <3>4. /\ Counted(memo)[s] = 0
            /\ Counted(memo')[s] = Cardinality(D)
            /\ \A t \in States : t # s => Counted(memo')[t] = Counted(memo)[t]
        BY <1>1, <2>2, <3>1, <3>2, ProfileAssumption DEF Counted, OrElse
      <3>5. sum' + 0 = sum + Cardinality(D)
        BY <1>1, <1>2, <3>4, TotalExchange
      <3>6. QED
        BY <1>1, <1>2, <2>1, <3>2, <3>3, <3>5
    <2>3. CASE memo[s] # None
      BY <1>4, <1>6, <2>1, <2>3 DEF ClearEval
    <2>4. QED
      BY <2>2, <2>3
  <1>7. ASSUME NEW s \in States, DropState(s)
        PROVE  sum' + held' <= stored'
    <2>1. /\ memo' = [memo EXCEPT ![s] = None]
          /\ stored' = stored /\ cache' = cache
      BY <1>7 DEF DropState, observerVars, runtimeVars
    <2>2. /\ Counted(memo')[s] = 0
          /\ \A t \in States : t # s => Counted(memo')[t] = Counted(memo)[t]
      BY <1>1, <2>1 DEF Counted, OrElse
    <2>3. sum' + Counted(memo)[s] = sum + 0
      BY <1>1, <1>2, <2>2, TotalExchange
    <2>4. QED
      BY <1>1, <1>2, <2>1, <2>3
  <1>8. CASE HostBegin \/ (\E o \in Outcomes : HostEnd(o)) \/ CloseConnection
               \/ Gone \/ UNCHANGED vars
    BY <1>4, <1>8 DEF HostBegin, BeginProfiled, BeginQuery, HostEnd, EndProfiled,
                      EndQuery, CloseConnection, Gone, vars, runtimeVars,
                      statementVars, observerVars
  <1>9. ASSUME NEW s \in States, InitState(s) \/ (Evaluate(s) /\ ~ClearEval(s))
        PROVE  sum' + held' <= stored'
    <2>1. UNCHANGED <<memo, cache, stored>>
      BY <1>9 DEF InitState, Create, Share, BeginProfiled, BeginQuery,
                  Evaluate, RecordContext, EvalStart, RowInput, Attempt, Call,
                  Response, Failure, Result, Stray, ProfileEval, runtimeVars,
                  statementVars, observerVars
    <2>2. QED
      BY <1>4, <2>1
  <1>10. QED
    BY <1>5, <1>6, <1>7, <1>8, <1>9 DEF Next

-----------------------------------------------------------------------------
(* Queries in turn.                                                        *)

\* A step keeps the active query, ends it, or begins the next; no account
\* loses a name, and those of queries to come stay empty.
BooksMove ==
  /\ \/ UNCHANGED <<active, nextQuery>>
     \/ active' = NoQuery /\ nextQuery' = nextQuery
     \/ /\ active = NoQuery /\ active' = nextQuery
        /\ nextQuery' = nextQuery + 1 /\ nextQuery' <= MaxQueries
  /\ \A q \in 0..MaxQueries :
       /\ ledger[q].named \subseteq ledger'[q].named
       /\ q >= nextQuery' => ledger'[q].rows = 0 /\ ledger'[q].named = {}

\* Every step does.
LEMMA BooksMoveOn ==
  ASSUME SessionInv, [Next]_vars
  PROVE  BooksMove
  <1>1. /\ MaxQueries \in Nat /\ NoQuery \notin Nat
        /\ active \in Nat \cup {NoQuery} /\ nextQuery \in Nat
        /\ active # NoQuery => nextQuery = active + 1
        /\ nextQuery <= MaxQueries
        /\ DOMAIN ledger = 0..MaxQueries
        /\ \A q \in 0..MaxQueries :
             /\ DOMAIN ledger[q] = DOMAIN EmptyAccount
             /\ q >= nextQuery => ledger[q].rows = 0 /\ ledger[q].named = {}
    BY RuntimeAssumption DEF SessionInv, Shape, QueriesInTurn
  <1>2. CASE Opens
    BY <1>1, <1>2 DEF Opens, BeginProfiled, BeginQuery, BooksMove
  <1>3. CASE Closes
    BY <1>1, <1>3 DEF Closes, EndProfiled, EndQuery, BooksMove
  <1>4. CASE Quiet
    BY <1>1, <1>4 DEF Quiet, BooksMove
  <1>5. ASSUME NEW s \in States, RecordContext(s)
        PROVE  BooksMove
    <2>1. CASE active = NoQuery
      BY <1>1, <1>5, <2>1, ContextBooks DEF BooksMove
    <2>2. CASE active # NoQuery
      <3>1. \A q \in 0..MaxQueries :
              /\ q # active => ledger'[q] = ledger[q]
              /\ ledger[q].named \subseteq ledger'[q].named
        BY <1>1, <1>5, <2>2, ContextBooks DEF EmptyAccount
      <3>2. QED
        BY <1>1, <1>5, <2>2, <3>1, ContextBooks DEF BooksMove
    <2>3. QED
      BY <2>1, <2>2
  <1>6. ASSUME NEW s \in States, RowInput(s)
        PROVE  BooksMove
    <2>1. CASE scope[s] # active
      BY <1>1, <1>6, <2>1, RowBooks DEF BooksMove
    <2>2. CASE scope[s] = active
      <3>1. \A q \in 0..MaxQueries :
              /\ q # active => ledger'[q] = ledger[q]
              /\ ledger[q].named \subseteq ledger'[q].named
        BY <1>1, <1>6, <2>2, RowBooks DEF EmptyAccount
      <3>2. QED
        BY <1>1, <1>6, <2>2, <3>1, RowBooks DEF BooksMove
    <2>3. QED
      BY <2>1, <2>2
  <1>7. QED
    BY <1>2, <1>3, <1>4, <1>5, <1>6, BookSteps

\* A state is evaluated only while a query is active, and in that query.
LEMMA EvaluatedWhileActive ==
  ASSUME SessionInv, NEW s \in States, NEW f, MayEvaluate(s, f)
  PROVE  active # NoQuery /\ QueryScope = active /\ active < nextQuery
  <1>1. bridge = "open"
    BY DEF MayEvaluate, SessionInv, Shape, BridgeStates
  <1>2. active # NoQuery
    BY <1>1 DEF MayEvaluate, SessionInv, ObservesRunningQuery
  <1>3. QED
    BY <1>2 DEF QueryScope, SessionInv, Shape, QueriesInTurn

\* Queries stay in turn.
LEMMA TurnStep ==
  ASSUME SessionInv, [Next]_vars
  PROVE  QueriesInTurn'
  <1>1. /\ BooksMove /\ QueriesInTurn
        /\ MaxQueries \in Nat /\ nextQuery \in Nat
        /\ active \in Nat \cup {NoQuery} /\ NoQuery \notin Nat
        /\ DOMAIN at = States /\ born \in [States -> Nat]
        /\ scope \in [States -> Nat]
    BY BooksMoveOn, RuntimeAssumption DEF SessionInv, Shape
  <1>2. /\ active' # NoQuery => nextQuery' = active' + 1
        /\ nextQuery' <= MaxQueries
        /\ nextQuery' \in Nat /\ nextQuery <= nextQuery'
        /\ \A q \in 0..MaxQueries : q >= nextQuery' =>
             ledger'[q].rows = 0 /\ ledger'[q].named = {}
    BY <1>1 DEF BooksMove, QueriesInTurn
  <1>3. SUFFICES \A s \in States :
                   /\ born'[s] <= nextQuery'
                   /\ at'[s] \in Evaluating => scope'[s] < nextQuery'
    BY <1>2 DEF QueriesInTurn
  <1>4. CASE UNCHANGED <<at, born, scope>>
    BY <1>1, <1>2, <1>4 DEF QueriesInTurn
  <1>5. CASE HostBegin \/ (\E o \in Outcomes : HostEnd(o)) \/ CloseConnection
               \/ OthersInsert \/ Gone \/ UNCHANGED vars
    BY <1>4, <1>5 DEF HostBegin, HostEnd, CloseConnection, OthersInsert, Gone,
                      vars, callVars
  <1>6. ASSUME NEW s \in States, InitState(s), NEW t \in States
        PROVE  /\ born'[t] <= nextQuery'
               /\ at'[t] \in Evaluating => scope'[t] < nextQuery'
    <2>1. scope' = scope /\ born'[t] \in {born[t], nextQuery, nextQuery'}
      BY <1>1, <1>6 DEF InitState, Create, Share
    <2>2. at'[t] \in Evaluating => at[t] \in Evaluating
      BY <1>1, <1>6 DEF InitState, Goto, Evaluating
    <2>3. QED
      BY <1>1, <1>2, <2>1, <2>2 DEF QueriesInTurn
  <1>7. ASSUME NEW s \in States, DropState(s), NEW t \in States
        PROVE  /\ born'[t] <= nextQuery'
               /\ at'[t] \in Evaluating => scope'[t] < nextQuery'
    <2>1. born'[t] \in {born[t], 0} /\ scope'[t] \in {scope[t], 0}
      BY <1>1, <1>7 DEF DropState
    <2>2. at'[t] \in Evaluating => t # s /\ at[t] \in Evaluating
      BY <1>1, <1>7 DEF DropState, Goto, Evaluating
    <2>3. t # s => scope'[t] = scope[t]
      BY <1>1, <1>7 DEF DropState
    <2>4. QED
      BY <1>1, <1>2, <2>1, <2>2, <2>3 DEF QueriesInTurn
  <1>8. ASSUME NEW s \in States, Evaluate(s), NEW t \in States
        PROVE  /\ born'[t] <= nextQuery'
               /\ at'[t] \in Evaluating => scope'[t] < nextQuery'
    <2>1. born' = born
      BY <1>8, EvaluationMoves
    <2>2. CASE EvalStart(s)
      BY <1>1, <1>2, <2>1, <2>2, EvaluatedWhileActive
      DEF EvalStart, Goto, QueriesInTurn
    <2>3. CASE ~EvalStart(s)
      <3>1. at'[t] \in Evaluating => at[t] \in Evaluating /\ scope'[t] = scope[t]
        <4>1. CASE t # s
          BY <1>1, <1>8, <4>1, EvaluationMoves
        <4>2. CASE t = s
          BY <1>1, <1>8, <2>3, <4>2
          DEF Evaluate, RecordContext, RowInput, Attempt, Call, Response, Failure,
              Result, Stray, ProfileEval, ClearEval, MayEvaluate, callVars,
              Goto, Return, Continue, Evaluating
        <4>3. QED
          BY <4>1, <4>2
      <3>2. QED
        BY <1>1, <1>2, <2>1, <3>1 DEF QueriesInTurn
    <2>4. QED
      BY <2>2, <2>3
  <1>9. QED
    BY <1>5, <1>6, <1>7, <1>8 DEF Next

-----------------------------------------------------------------------------
(* Contexts and rows.                                                      *)

\* A state that starts no evaluation and records no context has what it had:
\* a new query finds it made in an earlier one.
LEMMA RecordedStays ==
  ASSUME SessionInv, BooksMove, scope' \in [States -> Nat], NEW t \in States,
         kind'[t] = kind[t], born'[t] = born[t], frozen'[t] = frozen[t],
         at'[t] \notin {"none", "acquired"} => at[t] \notin {"none", "acquired"},
         at'[t] \in Evaluating => at[t] \in Evaluating /\ scope'[t] = scope[t]
  PROVE  /\ kind'[t] = "judge" /\ at'[t] \notin {"none", "acquired"}
              /\ born'[t] = nextQuery' /\ active' # NoQuery =>
              frozen'[t] \in ledger'[active'].named
         /\ at'[t] \in Evaluating /\ scope'[t] = active' =>
              ledger'[active'].named # {}
  <1>1. /\ nextQuery \in Nat /\ born[t] \in Nat /\ scope'[t] \in Nat
        /\ NoQuery \notin Nat /\ MaxQueries \in Nat
        /\ active # NoQuery => active \in 0..MaxQueries
        /\ born[t] <= nextQuery
        /\ at[t] \in Evaluating => scope[t] < nextQuery
    BY RuntimeAssumption DEF SessionInv, Shape, QueriesInTurn
  <1>2. CASE UNCHANGED <<active, nextQuery>>
    BY <1>1, <1>2 DEF BooksMove, SessionInv, InitRecorded
  <1>3. CASE active' = NoQuery
    BY <1>1, <1>3
  <1>4. CASE active' = nextQuery /\ nextQuery' = nextQuery + 1
    BY <1>1, <1>4
  <1>5. QED
    BY <1>2, <1>3, <1>4 DEF BooksMove

\* Rows are read by states whose context is recorded.
LEMMA RecordedStep ==
  ASSUME SessionInv, [Next]_vars
  PROVE  InitRecorded'
  <1> DEFINE Recorded(t) ==
        /\ kind[t] = "judge" /\ at[t] \notin {"none", "acquired"}
             /\ born[t] = nextQuery /\ active # NoQuery =>
             frozen[t] \in ledger[active].named
        /\ at[t] \in Evaluating /\ scope[t] = active =>
             ledger[active].named # {}
  <1>1. /\ BooksMove /\ scope' \in [States -> Nat]
        /\ at \in [States -> {"none", "idle", "acquired"} \cup Evaluating]
        /\ DOMAIN kind = States /\ DOMAIN born = States /\ DOMAIN frozen = States
        /\ DOMAIN scope = States
        /\ \A t \in States : Recorded(t)
    BY BooksMoveOn, ShapeStep DEF SessionInv, Shape, InitRecorded
  <1>2. SUFFICES ASSUME NEW t \in States PROVE Recorded(t)'
    BY DEF InitRecorded
  <1>3. CASE UNCHANGED <<kind, at, frozen, born, scope>>
    BY <1>1, <1>3, RecordedStays
  <1>4. CASE HostBegin \/ (\E o \in Outcomes : HostEnd(o)) \/ CloseConnection
               \/ OthersInsert \/ Gone \/ UNCHANGED vars
    BY <1>3, <1>4 DEF HostBegin, HostEnd, CloseConnection, OthersInsert, Gone,
                      vars, callVars
  <1>5. ASSUME NEW s \in States, InitState(s)
        PROVE  Recorded(t)'
    <2>1. CASE t = s
      BY <1>1, <1>5, <2>1 DEF InitState, Goto, Evaluating
    <2>2. CASE t # s
      <3>1. /\ kind'[t] = kind[t] /\ born'[t] = born[t]
            /\ frozen'[t] = frozen[t] /\ at'[t] = at[t] /\ scope'[t] = scope[t]
        BY <1>1, <1>5, <2>2 DEF InitState, Create, Share, Goto
      <3>2. QED
        BY <1>1, <3>1, RecordedStays
    <2>3. QED
      BY <2>1, <2>2
  <1>6. ASSUME NEW s \in States, DropState(s)
        PROVE  Recorded(t)'
    <2>1. CASE t = s
      BY <1>1, <1>6, <2>1 DEF DropState, Goto, Evaluating
    <2>2. CASE t # s
      <3>1. /\ kind'[t] = kind[t] /\ born'[t] = born[t]
            /\ frozen'[t] = frozen[t] /\ at'[t] = at[t] /\ scope'[t] = scope[t]
        BY <1>1, <1>6, <2>2 DEF DropState, Goto
      <3>2. QED
        BY <1>1, <3>1, RecordedStays
    <2>3. QED
      BY <2>1, <2>2
  <1>7. ASSUME NEW s \in States, RecordContext(s)
        PROVE  Recorded(t)'
    <2>1. /\ UNCHANGED <<kind, frozen, born, scope, active, nextQuery>>
          /\ at[s] = "acquired" /\ at' = [at EXCEPT ![s] = "idle"]
      BY <1>7, ContextBooks DEF RecordContext, Goto
    <2>2. CASE t = s
      <3>1. ASSUME active # NoQuery
            PROVE  frozen[s] \in ledger'[active].named
        <4>1. /\ active \in 0..MaxQueries
              /\ ledger' = [ledger EXCEPT ![active].named = @ \cup {frozen[s]}]
          BY <1>7, <3>1, ContextBooks
        <4>2. active \in DOMAIN ledger /\ "named" \in DOMAIN ledger[active]
          BY <4>1 DEF SessionInv, Shape, EmptyAccount
        <4>3. QED
          BY <4>1, <4>2
      <3>2. QED
        BY <1>1, <2>1, <2>2, <3>1 DEF Evaluating
    <2>3. CASE t # s
      BY <1>1, <2>1, <2>3, RecordedStays
    <2>4. QED
      BY <2>2, <2>3
  <1>8. ASSUME NEW s \in States, EvalStart(s)
        PROVE  Recorded(t)'
    <2>1. /\ UNCHANGED <<kind, frozen, born, active, nextQuery, ledger>>
          /\ MayEvaluate(s, "judge")
          /\ at' = [at EXCEPT ![s] = "row_input"]
          /\ scope' = [scope EXCEPT ![s] = QueryScope]
      BY <1>8 DEF EvalStart, Goto, runtimeVars, queryVars
    <2>2. frozen[s] \in ledger[active].named
      BY <1>1, <2>1, EvaluatedWhileActive DEF MayEvaluate
    <2>3. CASE t = s
      BY <1>1, <2>1, <2>2, <2>3
    <2>4. CASE t # s
      BY <1>1, <2>1, <2>4, RecordedStays
    <2>5. QED
      BY <2>3, <2>4
  <1>9. ASSUME NEW s \in States, Evaluate(s), ~RecordContext(s), ~EvalStart(s)
        PROVE  Recorded(t)'
    <2>1. UNCHANGED <<kind, frozen, born>>
      BY <1>9, EvaluationMoves
    <2>2. /\ at'[t] \notin {"none", "acquired"} => at[t] \notin {"none", "acquired"}
          /\ at'[t] \in Evaluating => at[t] \in Evaluating /\ scope'[t] = scope[t]
      <3>1. CASE t # s
        BY <1>1, <1>9, <3>1, EvaluationMoves
      <3>2. CASE t = s
        BY <1>1, <1>9, <3>2
        DEF Evaluate, RowInput, Attempt, Call, Response, Failure, Result, Stray,
            ProfileEval, ClearEval, MayEvaluate, callVars, Goto, Return,
            Continue, Evaluating
      <3>3. QED
        BY <3>1, <3>2
    <2>3. QED
      BY <1>1, <2>1, <2>2, RecordedStays
  <1>10. QED
    BY <1>4, <1>5, <1>6, <1>7, <1>8, <1>9 DEF Next, Evaluate

\* The active query's names are those of a context recorded in it, and its
\* rows are counted as they are read.
LEMMA NamedStep ==
  ASSUME SessionInv, [Next]_vars
  PROVE  ActiveNamed'
  <1>1. /\ ActiveNamed /\ InitRecorded
        /\ MaxQueries \in Nat /\ NoQuery \notin Nat /\ nextQuery \in Nat
        /\ active \in Nat \cup {NoQuery} /\ nextQuery <= MaxQueries
        /\ active # NoQuery => active \in 0..MaxQueries
        /\ counts.input_rows \in Nat
        /\ DOMAIN ledger = 0..MaxQueries
        /\ \A q \in 0..MaxQueries :
             /\ DOMAIN ledger[q] = DOMAIN EmptyAccount
             /\ ledger[q].rows \in Nat
             /\ q >= nextQuery => ledger[q].rows = 0 /\ ledger[q].named = {}
    BY RuntimeAssumption DEF SessionInv, Shape, QueriesInTurn
  <1>2. CASE Opens
    <2>1. /\ active' = nextQuery /\ nextQuery \in 0..MaxQueries
          /\ ledger' = ledger /\ counts'.input_rows = 0
          /\ profile'.provider = None /\ profile'.model = None
      BY <1>1, <1>2 DEF Opens, BeginProfiled, BeginQuery, ZeroCounts, CountFields,
                        FreshProfile
    <2>2. QED
      BY <1>1, <2>1 DEF ActiveNamed
  <1>3. CASE Closes
    BY <1>3 DEF Closes, EndProfiled, EndQuery, ActiveNamed
  <1>4. CASE Quiet
    BY <1>1, <1>4 DEF Quiet, ActiveNamed
  <1>5. ASSUME NEW s \in States, RecordContext(s)
        PROVE  ActiveNamed'
    <2>1. CASE active = NoQuery
      BY <1>5, <2>1, ContextBooks DEF ActiveNamed
    <2>2. CASE active # NoQuery
      <3>1. /\ active' = active /\ counts' = counts
            /\ ledger'[active].rows = ledger[active].rows
            /\ ledger'[active].named = ledger[active].named \cup {frozen[s]}
            /\ profile'.provider = OrElse(profile.provider, frozen[s].provider)
            /\ profile'.model = OrElse(profile.model, frozen[s].model)
        BY <1>1, <1>5, <2>2, ContextBooks DEF EmptyAccount
      <3>2. frozen[s] \in InitContexts
        BY DEF SessionInv, Shape
      <3>3. CASE ledger[active].named = {}
        <4>1. /\ profile'.provider = frozen[s].provider
              /\ profile'.model = frozen[s].model
          BY <1>1, <2>2, <3>1, <3>3 DEF ActiveNamed, OrElse
        <4>2. QED
          BY <1>1, <2>2, <3>1, <3>2, <4>1 DEF ActiveNamed
      <3>4. CASE ledger[active].named # {}
        <4>1. PICK x \in ledger[active].named :
                /\ x \in InitContexts
                /\ profile.provider = x.provider /\ profile.model = x.model
          BY <1>1, <2>2, <3>4 DEF ActiveNamed
        <4>2. x.provider # None /\ x.model # None
          BY <4>1, SessionAssumption, ProfileAssumption
        <4>3. profile'.provider = x.provider /\ profile'.model = x.model
          BY <3>1, <4>1, <4>2 DEF OrElse
        <4>4. QED
          BY <1>1, <2>2, <3>1, <4>1, <4>3 DEF ActiveNamed
      <3>5. QED
        BY <3>3, <3>4
    <2>3. QED
      BY <2>1, <2>2
  <1>6. ASSUME NEW s \in States, RowInput(s)
        PROVE  ActiveNamed'
    <2>1. CASE scope[s] # active
      BY <1>1, <1>6, <2>1, RowBooks DEF ActiveNamed
    <2>2. CASE scope[s] = active
      <3>1. at[s] = "row_input"
        BY <1>6 DEF RowInput
      <3>2. ledger[active].named # {}
        BY <1>1, <2>2, <3>1 DEF InitRecorded, Evaluating
      <3>3. /\ active' = active /\ active \in 0..MaxQueries
            /\ UNCHANGED profile
            /\ counts'.input_rows = counts.input_rows + 1
            /\ ledger'[active].rows = ledger[active].rows + 1
            /\ ledger'[active].named = ledger[active].named
        BY <1>1, <1>6, <2>2, RowBooks DEF EmptyAccount
      <3>4. QED
        BY <1>1, <3>2, <3>3 DEF ActiveNamed
    <2>3. QED
      BY <2>1, <2>2
  <1>7. QED
    BY <1>2, <1>3, <1>4, <1>5, <1>6, BookSteps

-----------------------------------------------------------------------------
(* The report.                                                             *)

\* While nothing but the active query's account changes, the queries that
\* handed over rows and are over stay the same.
LEMMA QueriesWithRowsStay ==
  ASSUME SessionInv, BooksMove,
         UNCHANGED <<active, nextQuery, lastQuery, lastProfile>>,
         \A q \in 0..MaxQueries : q # active => ledger'[q].rows = ledger[q].rows
  PROVE  SnapshotIsLast'
  <1>1. nextQuery \in Nat /\ nextQuery <= MaxQueries /\ MaxQueries \in Nat
    BY RuntimeAssumption DEF SessionInv, Shape, QueriesInTurn
  <1>2. QueriesWithRows' = QueriesWithRows /\ QueriesWithRows \subseteq 0..MaxQueries
    BY <1>1 DEF QueriesWithRows
  <1>3. \A q \in 0..MaxQueries : ledger[q].named \subseteq ledger'[q].named
    BY DEF BooksMove
  <1>4. /\ QueriesWithRows' = {} <=> lastQuery' = {}
        /\ lastQuery' = {} <=> lastProfile' = {}
    BY <1>2 DEF SessionInv, SnapshotIsLast
  <1>5. ASSUME NEW t \in lastQuery'
        PROVE  /\ t.query \in QueriesWithRows'
               /\ \A q \in QueriesWithRows' : q <= t.query
               /\ \A p \in lastProfile' : \E x \in ledger'[t.query].named :
                    p.provider = x.provider /\ p.model = x.model
    <2>1. /\ t.query \in QueriesWithRows /\ \A q \in QueriesWithRows : q <= t.query
          /\ \A p \in lastProfile : \E x \in ledger[t.query].named :
               p.provider = x.provider /\ p.model = x.model
      BY <1>5 DEF SessionInv, SnapshotIsLast
    <2>2. ledger[t.query].named \subseteq ledger'[t.query].named
      BY <1>2, <1>3, <2>1
    <2>3. QED
      BY <1>2, <2>1, <2>2
  <1>6. QED
    BY <1>4, <1>5 DEF SnapshotIsLast

\* The snapshot is replaced when a query that handed over rows ends, and by
\* it.
LEMMA SnapshotStep ==
  ASSUME SessionInv, [Next]_vars
  PROVE  SnapshotIsLast'
  <1>1. /\ SnapshotIsLast /\ ActiveNamed /\ BooksMove
        /\ MaxQueries \in Nat /\ NoQuery \notin Nat /\ nextQuery \in Nat
        /\ active \in Nat \cup {NoQuery} /\ nextQuery <= MaxQueries
        /\ active # NoQuery => nextQuery = active + 1
        /\ counts.input_rows \in Nat
        /\ DOMAIN ledger = 0..MaxQueries
        /\ \A q \in 0..MaxQueries :
             DOMAIN ledger[q] = DOMAIN EmptyAccount /\ ledger[q].rows \in Nat
    BY BooksMoveOn, RuntimeAssumption DEF SessionInv, Shape, QueriesInTurn
  <1>2. CASE Opens
    <2>1. /\ active = NoQuery /\ active' = nextQuery
          /\ nextQuery' = nextQuery + 1
          /\ UNCHANGED <<ledger, lastQuery, lastProfile>>
      BY <1>2 DEF Opens, BeginProfiled, BeginQuery
    <2>2. QueriesWithRows' = QueriesWithRows
      BY <1>1, <2>1 DEF QueriesWithRows
    <2>3. QED
      BY <1>1, <2>1, <2>2 DEF SnapshotIsLast
  <1>3. CASE Closes
    <2>1. PICK o \in Outcomes : EndProfiled(o)
      BY <1>3 DEF Closes
    <2>2. /\ active # NoQuery /\ active' = NoQuery /\ nextQuery' = nextQuery
          /\ ledger' = ledger /\ active \in Nat
          /\ counts.input_rows = ledger[active].rows
      BY <1>1, <1>3, <2>1 DEF Closes, EndProfiled, EndQuery, ActiveNamed
    <2>3. CASE counts.input_rows > 0
      <3>1. /\ lastQuery' = {[query |-> active, outcome |-> o, counts |-> counts]}
            /\ lastProfile' = {profile}
        BY <2>1, <2>3 DEF EndProfiled, EndQuery
      <3>2. QueriesWithRows' = QueriesWithRows \cup {active}
        BY <1>1, <2>2, <2>3 DEF QueriesWithRows
      <3>3. \A q \in QueriesWithRows' : q <= active
        BY <1>1, <2>2 DEF QueriesWithRows
      <3>4. \E x \in ledger[active].named :
              profile.provider = x.provider /\ profile.model = x.model
        BY <1>1, <2>2, <2>3 DEF ActiveNamed
      <3>5. \A t \in lastQuery' : t.query = active
        BY <3>1
      <3>6. /\ \A t \in lastQuery' : t.query \in QueriesWithRows'
            /\ \A t \in lastQuery' : \A q \in QueriesWithRows' : q <= t.query
        BY <3>2, <3>3, <3>5
      <3>7. \A t \in lastQuery' : \A p \in lastProfile' :
              \E x \in ledger'[t.query].named :
                p.provider = x.provider /\ p.model = x.model
        BY <2>2, <3>1, <3>4, <3>5
      <3>8. /\ QueriesWithRows' # {} /\ lastQuery' # {} /\ lastProfile' # {}
        BY <3>1, <3>2
      <3>9. QED
        BY <3>6, <3>7, <3>8 DEF SnapshotIsLast
    <2>4. CASE ~(counts.input_rows > 0)
      <3>1. UNCHANGED <<lastQuery, lastProfile>>
        BY <2>1, <2>4 DEF EndProfiled, EndQuery
      <3>2. ledger[active].rows = 0
        BY <1>1, <2>2, <2>4
      <3>3. QueriesWithRows' = QueriesWithRows
        BY <1>1, <2>2, <3>2 DEF QueriesWithRows
      <3>4. QED
        BY <1>1, <2>2, <3>1, <3>3 DEF SnapshotIsLast
    <2>5. QED
      BY <2>3, <2>4
  <1>4. CASE Quiet
    <2>1. /\ UNCHANGED <<active, nextQuery, lastQuery, lastProfile>>
          /\ \A q \in 0..MaxQueries : ledger'[q].rows = ledger[q].rows
      BY <1>4 DEF Quiet
    <2>2. QED
      BY <1>1, <2>1, QueriesWithRowsStay
  <1>5. ASSUME NEW s \in States, RecordContext(s)
        PROVE  SnapshotIsLast'
    <2>1. \A q \in 0..MaxQueries : q # active => ledger'[q].rows = ledger[q].rows
      <3>1. CASE active = NoQuery
        BY <1>5, <3>1, ContextBooks
      <3>2. CASE active # NoQuery
        BY <1>1, <1>5, <3>2, ContextBooks
      <3>3. QED
        BY <3>1, <3>2
    <2>2. UNCHANGED <<active, nextQuery, lastQuery, lastProfile>>
      BY <1>5, ContextBooks
    <2>3. QED
      BY <1>1, <2>1, <2>2, QueriesWithRowsStay
  <1>6. ASSUME NEW s \in States, RowInput(s)
        PROVE  SnapshotIsLast'
    <2>1. \A q \in 0..MaxQueries : q # active => ledger'[q].rows = ledger[q].rows
      <3>1. CASE scope[s] # active
        BY <1>6, <3>1, RowBooks
      <3>2. CASE scope[s] = active
        BY <1>1, <1>6, <3>2, RowBooks
      <3>3. QED
        BY <3>1, <3>2
    <2>2. UNCHANGED <<active, nextQuery, lastQuery, lastProfile>>
      BY <1>6, RowBooks
    <2>3. QED
      BY <1>1, <2>1, <2>2, QueriesWithRowsStay
  <1>7. QED
    BY <1>2, <1>3, <1>4, <1>5, <1>6, BookSteps

-----------------------------------------------------------------------------
(* Theorems.                                                               *)

\* Before the first use of the extension there is nothing to account for.
LEMMA SessionInit == Init => SessionInv
  <1> SUFFICES ASSUME Init PROVE SessionInv
    OBVIOUS
  <1>1. /\ MaxQueries \in Nat /\ NoQuery \notin Nat
        /\ IsFiniteSet(States) /\ SomeContext \in InitContexts
    BY RuntimeAssumption, SessionAssumption DEF SomeContext
  <1>2. Shape
    <2>1. DOMAIN EmptyMap = {} /\ IsFiniteSet(DOMAIN EmptyMap)
      BY FS_EmptySet DEF EmptyMap
    <2>2. QED
      BY <1>1, <2>1 DEF Init, Shape, ZeroCounts, CountFields, ProfileInit, Kinds,
                        EmptyAccount
  <1>3. BridgeStates /\ ObservesRunningQuery
    BY DEF Init, BridgeStates, ObservesRunningQuery
  <1>4. HandlesAccounted
    <2>1. Holders = {}
      BY DEF Init, Holders
    <2>2. Cardinality(Holders) = 0
      BY <2>1, FS_EmptySet
    <2>3. QED
      BY <2>2 DEF Init, HandlesAccounted, Holders
  <1>5. QueriesInTurn
    BY <1>1 DEF Init, QueriesInTurn, Evaluating, EmptyAccount
  <1>5a. CountedWasStored
    <2>1. \A s \in States : Counted(memo)[s] = 0
      BY DEF Init, Counted, OrElse
    <2>2. Total(Counted(memo), States) = 0
      BY <1>1, <2>1, TotalNothing
    <2>3. DOMAIN cache = {} /\ Cardinality(DOMAIN cache) = 0
      BY FS_EmptySet DEF Init, EmptyMap
    <2>4. QED
      BY <2>2, <2>3 DEF Init, CountedWasStored
  <1>6. ToldIsKept /\ InitRecorded /\ ActiveNamed
    BY DEF Init, ToldIsKept, InitRecorded, ActiveNamed, Evaluating
  <1>7. SnapshotIsLast
    <2>1. QueriesWithRows = {}
      BY DEF Init, QueriesWithRows
    <2>2. QED
      BY <2>1 DEF Init, ProfileInit, SnapshotIsLast
  <1>8. QED
    BY <1>2, <1>3, <1>4, <1>5, <1>5a, <1>6, <1>7 DEF SessionInv

\* The invariant holds in every reachable state.
THEOREM SessionInvariant == Spec => []SessionInv
  <1>1. SessionInv /\ [Next]_vars => SessionInv'
    BY ShapeStep, BridgeStep, HandlesStep, TurnStep, ToldStep, CountedStep, RecordedStep,
       NamedStep, SnapshotStep DEF SessionInv
  <1>2. QED
    BY SessionInit, <1>1, PTL DEF Spec

\* The strong count of a runtime is the handles somebody still has on it:
\* the client context's and one per function state (duckjeu_host_state_create,
\* _clone and _drop), whatever the order in which they go.
THEOREM HandlesAreAccounted == Spec => []HandlesAccounted
  <1>1. SessionInv => HandlesAccounted
    BY DEF SessionInv
  <1>2. QED
    BY SessionInvariant, <1>1, PTL

\* The runtime has an active query exactly while DuckDB runs one, although it
\* is made in the middle of one (the seeding begin_query of the constructor).
THEOREM RunningQueryIsObserved == Spec => []ObservesRunningQuery
  <1>1. SessionInv => ObservesRunningQuery
    BY DEF SessionInv
  <1>2. QED
    BY SessionInvariant, <1>1, PTL

\* duckjeu_cache_clear() counts no entry twice, whatever others store between
\* two chunks and however many of its function states clear; all rows of one
\* state get the count it keeps (ClearState.result).
THEOREM EntriesAreCountedOnce == Spec => []EntriesCountedOnce
  <1>1. SessionInv => EntriesCountedOnce
    <2>1. Cleared = Total(Counted(memo), States)
      BY ClearedIsTotal DEF Cleared
    <2>2. QED
      BY <2>1 DEF SessionInv, ToldIsKept, CountedWasStored, EntriesCountedOnce
  <1>2. QED
    BY SessionInvariant, <1>1, PTL

\* The report of duckjeu_last_profile() is about the query that handed rows,
\* NULL or not, to judgment functions and ended last, and names a context
\* initialised in it (end_query, record_profile_context, render_profile).
THEOREM LastWithRowsIsReported == Spec => []ReportIsOfLastWithRows
  <1>1. SessionInv => ReportIsOfLastWithRows
    <2>1. SUFFICES ASSUME SessionInv PROVE ReportIsOfLastWithRows
      OBVIOUS
    <2>2. SnapshotIsLast
      BY <2>1 DEF SessionInv
    <2>3. LastReports = {} <=> lastQuery = {}
      <3>1. lastQuery = {} <=> lastProfile = {}
        BY <2>2 DEF SnapshotIsLast
      <3>2. ASSUME NEW t \in lastQuery, NEW p \in lastProfile
            PROVE  Report(t, p) \in LastReports
        BY DEF LastReports
      <3>3. lastQuery = {} => LastReports = {}
        BY DEF LastReports
      <3>4. QED
        BY <3>1, <3>2, <3>3
    <2>4. ASSUME NEW r \in LastReports
          PROVE  /\ r.query \in QueriesWithRows
                 /\ \A q \in QueriesWithRows : q <= r.query
                 /\ \E x \in ledger[r.query].named :
                      r.provider = x.provider /\ r.requested_model = x.model
      <3>1. PICK t \in lastQuery, p \in lastProfile : r = Report(t, p)
        BY <2>4 DEF LastReports
      <3>2. /\ r.query = t.query
            /\ r.provider = p.provider /\ r.requested_model = p.model
        BY <3>1 DEF Report
      <3>3. QED
        BY <2>2, <3>1, <3>2 DEF SnapshotIsLast
    <2>5. QED
      BY <2>2, <2>3, <2>4 DEF ReportIsOfLastWithRows, QueriesWithRows, SnapshotIsLast
  <1>2. QED
    BY SessionInvariant, <1>1, PTL

-----------------------------------------------------------------------------
(* The sums of a report: what the parts of the invariant say.              *)

\* A request that was attempted and is not accounted for yet; and of those
\* the ones whose time has been spent.
Awaiting == {"call", "response", "failure"}
Heard == {"response", "failure"}

Waiters(q) == {s \in States : at[s] \in Awaiting /\ scope[s] = q}
Hearers(q) == {s \in States : at[s] \in Heard /\ scope[s] = q}

\* What the answer in a state's hands tells, and adds to each sum.
Tells(s) == IF at[s] = "response" THEN answer[s].meta ELSE Untold

Trips == [s \in States |-> OrElse(Tells(s).roundtrip, answer[s].elapsed)]
Serializations == [s \in States |-> OrElse(Tells(s).serialization, 0)]
Unserialized == [s \in States |-> IF Tells(s).serialization = None THEN 1 ELSE 0]
Inferences == [s \in States |-> OrElse(Tells(s).inference, 0)]
Uninferred == [s \in States |-> IF Tells(s).inference = None THEN 1 ELSE 0]

\* The times of an account, and those of a profile with its sample counts.
AccountSums == {"roundtrip", "serialization", "unserialized", "inference",
                "uninferred"}
ProfileSums == {"roundtrip", "roundtrips", "serialization", "serializations",
                "inference", "inferences", "uninferred"}

TimingTypes ==
  /\ counts.external_requests \in Nat
  /\ ~External => counts.external_requests = 0
  /\ \A f \in ProfileSums : profile[f] \in Nat
  /\ DOMAIN answer = States /\ DOMAIN shown = States
  /\ \A s \in States :
       /\ at[s] \in Heard => answer[s].elapsed \in Nat
       /\ at[s] = "response" => answer[s].meta \in Metadata
  /\ \A q \in 0..MaxQueries : \A f \in AccountSums :
       ledger[q][f] \in Nat /\ (q >= nextQuery => ledger[q][f] = 0)

\* The active query's measurements.  While every request that is not waited
\* for gave a sample, the sum of the samples and of what is in hand is the
\* account's.
TripsTotal ==
  LET samples == profile.roundtrips + Cardinality(Waiters(active))
  IN  /\ samples <= counts.external_requests
      /\ samples = counts.external_requests =>
           profile.roundtrip + Total(Trips, Hearers(active))
             = ledger[active].roundtrip

SerializationsTotal ==
  LET samples == profile.serializations + Cardinality(Waiters(active))
  IN  /\ samples <= counts.external_requests
      /\ samples = counts.external_requests =>
           /\ profile.serialization + Total(Serializations, Hearers(active))
                = ledger[active].serialization
           /\ Total(Unserialized, Hearers(active)) = ledger[active].unserialized

InferencesTotal ==
  /\ profile.inferences + profile.uninferred + Cardinality(Waiters(active))
       = counts.external_requests
  /\ profile.uninferred = 0 =>
       /\ profile.inference + Total(Inferences, Hearers(active))
            = ledger[active].inference
       /\ Total(Uninferred, Hearers(active)) = ledger[active].uninferred

SumsTotal ==
  External /\ active # NoQuery =>
    TripsTotal /\ SerializationsTotal /\ InferencesTotal

\* What a report tells is settled: its query is over, and no request of it is
\* waited for if any sum is shown.
TellsTotals(r) ==
  /\ r.external_roundtrip_sum \in {None, ledger[r.query].roundtrip}
  /\ r.serialization_sum # None =>
       /\ r.serialization_sum = ledger[r.query].serialization
       /\ ledger[r.query].unserialized = 0
  /\ r.server_inference_sum # None =>
       /\ r.server_inference_sum = ledger[r.query].inference
       /\ ledger[r.query].uninferred = 0

Settled(r) ==
  /\ r.query \in 0..MaxQueries /\ r.query < nextQuery /\ r.query # active
  /\ \/ Waiters(r.query) = {}
     \/ /\ r.external_roundtrip_sum = None /\ r.serialization_sum = None
        /\ r.server_inference_sum = None
  /\ TellsTotals(r)

TimingInv == TimingTypes /\ SumsTotal /\ \A r \in Reports : Settled(r)

-----------------------------------------------------------------------------
(* The sums of a report: how they move.                                    *)

\* What an answer adds are numbers.
AmountsTyped ==
  \A s \in States : at[s] \in Heard =>
    /\ Trips[s] \in Nat /\ Serializations[s] \in Nat
    /\ Unserialized[s] \in Nat /\ Inferences[s] \in Nat
    /\ Uninferred[s] \in Nat

\* They are because the time around a call and the times of a response are.
LEMMA AmountTypes == Shape /\ TimingTypes => AmountsTyped
  <1>1. SUFFICES ASSUME Shape, TimingTypes, NEW s \in States, at[s] \in Heard
                 PROVE  /\ Trips[s] \in Nat /\ Serializations[s] \in Nat
                        /\ Unserialized[s] \in Nat /\ Inferences[s] \in Nat
                        /\ Uninferred[s] \in Nat
    BY DEF AmountsTyped
  <1>2. answer[s].elapsed \in Nat
    BY <1>1 DEF TimingTypes
  <1>3. /\ Tells(s).roundtrip \in Nat \cup {None}
        /\ Tells(s).serialization \in Nat \cup {None}
        /\ Tells(s).inference \in Nat \cup {None}
    <2>1. CASE at[s] # "response"
      BY <2>1 DEF Tells, Untold
    <2>2. CASE at[s] = "response"
      <3>1. answer[s].meta \in Metadata
        BY <1>1, <2>2 DEF TimingTypes
      <3>2. answer[s].meta \in [usage : BOOLEAN, roundtrip : Times \cup {None},
                                serialization : Times \cup {None},
                                inference : Times \cup {None}]
        BY <3>1, SessionAssumption
      <3>3. QED
        BY <2>2, <3>2, ProfileAssumption DEF Tells
    <2>3. QED
      BY <2>1, <2>2
  <1>4. QED
    BY <1>2, <1>3
       DEF Trips, Serializations, Unserialized, Inferences, Uninferred, OrElse

\* Whoever else waits for an answer to the query goes on waiting, with the
\* same answer in hand.
Goes(t) == at'[t] = at[t] /\ scope'[t] = scope[t] /\ answer'[t] = answer[t]

OthersWait(q, s) == \A t \in Waiters(q) \cup Waiters(q)' : t # s => Goes(t)

\* The sums in hand change by what one state takes up or gives away.
InHandMoves(q, s) ==
  /\ SumMoves(Trips, Hearers(q), Trips', Hearers(q)', s)
  /\ SumMoves(Serializations, Hearers(q), Serializations', Hearers(q)', s)
  /\ SumMoves(Unserialized, Hearers(q), Unserialized', Hearers(q)', s)
  /\ SumMoves(Inferences, Hearers(q), Inferences', Hearers(q)', s)
  /\ SumMoves(Uninferred, Hearers(q), Uninferred', Hearers(q)', s)

\* They do so in a step that leaves the others waiting.
LEMMA InHandMove ==
  ASSUME Shape, TimingTypes, Shape', TimingTypes', NEW CONSTANT q, NEW CONSTANT s,
         OthersWait(q, s)
  PROVE  InHandMoves(q, s)
  <1> DEFINE A == Hearers(q)
             B == Hearers(q)'
             Same(f, g) ==
               /\ \A x \in A : f[x] \in Nat
               /\ \A x \in B : g[x] \in Nat
               /\ \A x \in A \cup B :
                    x # s => x \in A /\ x \in B /\ f[x] = g[x]
  <1>1. IsFiniteSet(A) /\ IsFiniteSet(B)
    BY SessionAssumption, FS_Subset DEF Hearers
  <1>2. AmountsTyped /\ AmountsTyped'
    BY AmountTypes, PTL
  <1>3. \A x \in A :
          /\ Trips[x] \in Nat /\ Serializations[x] \in Nat
          /\ Unserialized[x] \in Nat /\ Inferences[x] \in Nat
          /\ Uninferred[x] \in Nat
    BY <1>2 DEF Hearers, AmountsTyped
  <1>4. \A x \in B :
          /\ Trips'[x] \in Nat /\ Serializations'[x] \in Nat
          /\ Unserialized'[x] \in Nat /\ Inferences'[x] \in Nat
          /\ Uninferred'[x] \in Nat
    BY <1>2 DEF Hearers, AmountsTyped
  <1>5. ASSUME NEW x \in A \cup B, x # s
        PROVE  /\ x \in A /\ x \in B
               /\ Trips[x] = Trips'[x] /\ Serializations[x] = Serializations'[x]
               /\ Unserialized[x] = Unserialized'[x]
               /\ Inferences[x] = Inferences'[x]
               /\ Uninferred[x] = Uninferred'[x]
    <2>1. /\ x \in States
          /\ at'[x] = at[x] /\ scope'[x] = scope[x] /\ answer'[x] = answer[x]
      BY <1>5 DEF OthersWait, Goes, Waiters, Hearers, Heard, Awaiting
    <2>2. x \in A /\ x \in B
      BY <1>5, <2>1 DEF Hearers
    <2>3. Tells(x)' = Tells(x)
      BY <2>1 DEF Tells
    <2>4. QED
      BY <2>1, <2>2, <2>3
         DEF Trips, Serializations, Unserialized, Inferences, Uninferred
  <1>6. /\ Same(Trips, Trips') /\ Same(Serializations, Serializations')
        /\ Same(Unserialized, Unserialized') /\ Same(Inferences, Inferences')
        /\ Same(Uninferred, Uninferred')
    <2> HIDE DEF A, B
    <2>1. QED
      BY <1>3, <1>4, <1>5
  <1>7. ASSUME NEW f, NEW g, Same(f, g) PROVE SumMoves(f, A, g, B, s)
    <2> HIDE DEF A, B
    <2>1. QED
      BY <1>1, <1>7, TotalMoves
  <1> HIDE DEF A, B, Same
  <1>8. QED
    BY <1>6, <1>7 DEF InHandMoves, A, B

\* So does the number of those that wait.
LEMMA WaitersMove ==
  ASSUME NEW CONSTANT q, NEW CONSTANT s, OthersWait(q, s)
  PROVE  /\ Cardinality(Waiters(q)) \in Nat /\ Cardinality(Waiters(q)') \in Nat
         /\ (s \in Waiters(q) <=> s \in Waiters(q)') =>
              Cardinality(Waiters(q)') = Cardinality(Waiters(q))
         /\ s \notin Waiters(q) /\ s \in Waiters(q)' =>
              Cardinality(Waiters(q)') = Cardinality(Waiters(q)) + 1
         /\ s \in Waiters(q) /\ s \notin Waiters(q)' =>
              Cardinality(Waiters(q)) = Cardinality(Waiters(q)') + 1
  <1> DEFINE A == Waiters(q)
             B == Waiters(q)'
  <1>1. IsFiniteSet(A) /\ IsFiniteSet(B)
    BY SessionAssumption, FS_Subset DEF Waiters
  <1>2. \A x \in A \cup B : x # s => x \in A /\ x \in B
    BY DEF OthersWait, Goes, Waiters
  <1> HIDE DEF A, B
  <1>3. /\ Cardinality(A) \in Nat /\ Cardinality(B) \in Nat
        /\ (s \in A <=> s \in B) => Cardinality(B) = Cardinality(A)
        /\ s \notin A /\ s \in B => Cardinality(B) = Cardinality(A) + 1
        /\ s \in A /\ s \notin B => Cardinality(A) = Cardinality(B) + 1
    BY <1>1, <1>2, CountMoves
  <1>4. QED
    BY <1>3 DEF A, B

\* If everybody goes on waiting nothing changes.
LEMMA InHandStays ==
  ASSUME NEW CONSTANT q, \A t \in Waiters(q) \cup Waiters(q)' : Goes(t)
  PROVE  /\ Waiters(q)' = Waiters(q)
         /\ Total(Trips, Hearers(q))' = Total(Trips, Hearers(q))
         /\ Total(Serializations, Hearers(q))' = Total(Serializations, Hearers(q))
         /\ Total(Unserialized, Hearers(q))' = Total(Unserialized, Hearers(q))
         /\ Total(Inferences, Hearers(q))' = Total(Inferences, Hearers(q))
         /\ Total(Uninferred, Hearers(q))' = Total(Uninferred, Hearers(q))
  <1> DEFINE H == Hearers(q)
  <1>1. Waiters(q)' = Waiters(q)
    BY DEF Goes, Waiters
  <1>2. Hearers(q)' = H /\ \A t \in H : t \in States /\ t \in Waiters(q)
    BY <1>1 DEF Goes, Waiters, Hearers, Heard, Awaiting
  <1>3. IsFiniteSet(H)
    BY SessionAssumption, FS_Subset DEF Hearers
  <1>4. ASSUME NEW t \in H
        PROVE  /\ Trips[t] = Trips'[t] /\ Serializations[t] = Serializations'[t]
               /\ Unserialized[t] = Unserialized'[t]
               /\ Inferences[t] = Inferences'[t]
               /\ Uninferred[t] = Uninferred'[t]
    <2>1. t \in States /\ Tells(t)' = Tells(t) /\ answer'[t] = answer[t]
      BY <1>2 DEF Tells, Goes
    <2>2. QED
      BY <2>1 DEF Trips, Serializations, Unserialized, Inferences, Uninferred
  <1> HIDE DEF H
  <1>5. /\ Total(Trips, H) = Total(Trips', H)
        /\ Total(Serializations, H) = Total(Serializations', H)
        /\ Total(Unserialized, H) = Total(Unserialized', H)
        /\ Total(Inferences, H) = Total(Inferences', H)
        /\ Total(Uninferred, H) = Total(Uninferred', H)
    BY <1>3, <1>4, TotalSame
  <1>6. /\ Total(Trips, Hearers(q))' = Total(Trips', H)
        /\ Total(Serializations, Hearers(q))' = Total(Serializations', H)
        /\ Total(Unserialized, Hearers(q))' = Total(Unserialized', H)
        /\ Total(Inferences, Hearers(q))' = Total(Inferences', H)
        /\ Total(Uninferred, Hearers(q))' = Total(Uninferred', H)
    BY <1>2
  <1>7. QED
    BY <1>1, <1>5, <1>6 DEF H

-----------------------------------------------------------------------------
(* The sums of a report: what a step does to them.                         *)

SameProfile == \A f \in ProfileSums : profile'[f] = profile[f]

SameAccount(q) == \A f \in AccountSums : ledger'[q][f] = ledger[q][f]

\* Nobody takes up waiting, gives it up or gets an answer.
AllGo ==
  /\ DOMAIN answer' = States
  /\ \A t \in States : at[t] \in Awaiting \/ at'[t] \in Awaiting => Goes(t)

\* So it is unless a state attempts a request, calls, or takes what came back.
LEMMA AllGoOn ==
  ASSUME Shape, DOMAIN answer = States, [Next]_vars,
         \A s \in States : ~Attempt(s) /\ ~Call(s) /\ ~Response(s) /\ ~Failure(s)
  PROVE  AllGo
  <1>1. CASE UNCHANGED <<at, scope, answer>>
    BY <1>1 DEF AllGo, Goes
  <1>2. CASE HostBegin \/ (\E o \in Outcomes : HostEnd(o)) \/ CloseConnection
               \/ OthersInsert \/ Gone \/ UNCHANGED vars
               \/ \E s \in States : ProfileEval(s) \/ ClearEval(s)
    <2>1. UNCHANGED <<at, scope, answer>>
      BY <1>2 DEF HostBegin, HostEnd, CloseConnection, OthersInsert, Gone, vars,
                  ProfileEval, ClearEval, callVars
    <2>2. QED
      BY <1>1, <2>1
  <1>3. ASSUME NEW s \in States,
               \/ InitState(s) \/ DropState(s) \/ RecordContext(s)
               \/ EvalStart(s) \/ RowInput(s) \/ Result(s) \/ Stray(s)
        PROVE  AllGo
    <2> DEFINE Moves == at' = [at EXCEPT ![s] = at'[s]]
    <2>1. DOMAIN at = States
      BY DEF Shape
    <2>2. /\ answer' = answer /\ Moves
          /\ at[s] \notin Awaiting /\ at'[s] \notin Awaiting
      <3>1. CASE InitState(s)
        BY <2>1, <3>1 DEF InitState, Goto, Awaiting
      <3>2. CASE DropState(s)
        BY <2>1, <3>2 DEF DropState, Goto, Awaiting
      <3>3. CASE RecordContext(s)
        BY <2>1, <3>3 DEF RecordContext, Goto, Awaiting
      <3>4. CASE EvalStart(s)
        BY <2>1, <3>4 DEF EvalStart, MayEvaluate, Goto, Awaiting
      <3>5. CASE RowInput(s)
        BY <2>1, <3>5 DEF RowInput, Continue, Return, Goto, Awaiting
      <3>6. CASE Result(s)
        BY <2>1, <3>6 DEF Result, Return, Goto, Awaiting
      <3>7. CASE Stray(s)
        BY <2>1, <3>7 DEF Stray, Return, Goto, Awaiting
      <3>8. QED
        BY <1>3, <3>1, <3>2, <3>3, <3>4, <3>5, <3>6, <3>7
    <2>3. scope' = scope \/ \E n : scope' = [scope EXCEPT ![s] = n]
      BY <1>3 DEF InitState, DropState, RecordContext, EvalStart, RowInput,
                  Result, Stray, Return, Continue
    <2>4. QED
      BY <2>1, <2>2, <2>3 DEF AllGo, Goes, Shape
  <1>4. QED
    BY <1>2, <1>3 DEF Next, Evaluate

\* A report comes to be only when a query ends.
LEMMA NoNewReports ==
  ASSUME DOMAIN shown = States, [Next]_vars,
         UNCHANGED <<lastQuery, lastProfile>>
  PROVE  DOMAIN shown' = States /\ Reports' \subseteq Reports
  <1>1. LastReports' = LastReports
    BY DEF LastReports
  <1>2. \/ shown' = shown
        \/ \E s \in States : \/ shown' = [shown EXCEPT ![s] = {}]
                             \/ shown' = [shown EXCEPT ![s] = LastReports]
    <2>1. CASE HostBegin \/ (\E o \in Outcomes : HostEnd(o)) \/ CloseConnection
                 \/ OthersInsert \/ Gone \/ UNCHANGED vars
      BY <2>1 DEF HostBegin, HostEnd, CloseConnection, OthersInsert, Gone, vars,
                  statementVars
    <2>2. ASSUME NEW s \in States, InitState(s) \/ Evaluate(s)
          PROVE  \/ shown' = shown
                 \/ shown' = [shown EXCEPT ![s] = LastReports]
      BY <2>2 DEF InitState, Evaluate, RecordContext, EvalStart, RowInput,
                  Attempt, Call, Response, Failure, Result, Stray, ProfileEval,
                  ClearEval, statementVars
    <2>3. ASSUME NEW s \in States, DropState(s)
          PROVE  shown' = [shown EXCEPT ![s] = {}]
      BY <2>3 DEF DropState
    <2>4. QED
      BY <2>1, <2>2, <2>3 DEF Next
  <1>3. /\ DOMAIN shown' = States
        /\ \A t \in States : shown'[t] \subseteq shown[t] \cup LastReports
    BY <1>2
  <1>4. QED
    BY <1>1, <1>3 DEF Reports

\* What a settled report tells stays settled if nobody starts to wait for an
\* answer to its query, and an account changes only while somebody does.
LEMMA SettledStay ==
  ASSUME \A r \in Reports : Settled(r), Reports' \subseteq Reports,
         \A q \in 0..MaxQueries : q < nextQuery /\ q # active =>
           /\ q < nextQuery' /\ q # active' /\ Waiters(q)' \subseteq Waiters(q)
           /\ SameAccount(q) \/ Waiters(q) # {}
  PROVE  \A r \in Reports' : Settled(r)'
  <1>1. SUFFICES ASSUME NEW CONSTANT r, r \in Reports, Settled(r)
                 PROVE  Settled(r)'
    OBVIOUS
  <1>2. /\ r.query \in 0..MaxQueries
        /\ r.query < nextQuery' /\ r.query # active'
        /\ Waiters(r.query)' \subseteq Waiters(r.query)
        /\ SameAccount(r.query) \/ Waiters(r.query) # {}
    BY <1>1 DEF Settled
  <1>3. CASE SameAccount(r.query)
    <2>1. TellsTotals(r)'
      BY <1>1, <1>3 DEF Settled, TellsTotals, SameAccount, AccountSums
    <2>2. QED
      BY <1>1, <1>2, <2>1 DEF Settled
  <1>4. CASE /\ r.external_roundtrip_sum = None /\ r.serialization_sum = None
             /\ r.server_inference_sum = None
    <2>1. TellsTotals(r)'
      BY <1>4 DEF TellsTotals
    <2>2. QED
      BY <1>1, <1>2, <1>4, <2>1 DEF Settled
  <1>5. QED
    BY <1>1, <1>2, <1>3, <1>4 DEF Settled

\* Besides the beginning and the end of a query, and the calls, nothing
\* touches what the sums are made of.
LEMMA SumsUntouched ==
  ASSUME SessionInv, TimingTypes, [Next]_vars, ~Opens, ~Closes,
         \A s \in States : ~Attempt(s) /\ ~Call(s) /\ ~Response(s) /\ ~Failure(s)
  PROVE  /\ UNCHANGED <<active, nextQuery, lastQuery, lastProfile>>
         /\ counts'.external_requests = counts.external_requests
         /\ SameProfile /\ \A q \in 0..MaxQueries : SameAccount(q)
  <1>1. /\ DOMAIN profile = DOMAIN FreshProfile /\ DOMAIN ledger = 0..MaxQueries
        /\ counts.external_requests \in Nat
        /\ \A q \in 0..MaxQueries : DOMAIN ledger[q] = DOMAIN EmptyAccount
        /\ active \in Nat \cup {NoQuery} /\ nextQuery \in Nat
    BY DEF SessionInv, Shape, TimingTypes
  <1>2. ASSUME NEW s \in States, RecordContext(s)
        PROVE  /\ UNCHANGED <<active, nextQuery, lastQuery, lastProfile, counts>>
               /\ SameProfile /\ \A q \in 0..MaxQueries : SameAccount(q)
    <2>1. /\ UNCHANGED <<active, nextQuery, lastQuery, lastProfile, counts>>
          /\ RecordProfileContext(QueryScope, frozen[s])
          /\ ledger' = IF active = NoQuery THEN ledger
                       ELSE [ledger EXCEPT ![active].named = @ \cup {frozen[s]}]
      BY <1>2 DEF RecordContext, runtimeVars, queryVars
    <2>2. SameProfile
      BY <1>1, <2>1 DEF RecordProfileContext, ProfileOf, SameProfile,
                        ProfileSums, FreshProfile
    <2>3. \A q \in 0..MaxQueries : SameAccount(q)
      BY <1>1, <2>1 DEF SameAccount, AccountSums, EmptyAccount
    <2>4. QED
      BY <2>1, <2>2, <2>3
  <1>3. ASSUME NEW s \in States, RowInput(s)
        PROVE  /\ UNCHANGED <<active, nextQuery, lastQuery, lastProfile, profile>>
               /\ counts'.external_requests = counts.external_requests
               /\ \A q \in 0..MaxQueries : SameAccount(q)
    <2>1. /\ UNCHANGED <<active, nextQuery, lastQuery, lastProfile, profile>>
          /\ Record(scope[s], [input_rows |-> 1])
          /\ ledger' = IF scope[s] # active THEN ledger
                       ELSE [ledger EXCEPT ![active].rows = @ + 1]
      BY <1>3 DEF RowInput, RecordRowInput, queryVars, profileVars
    <2>2. counts'.external_requests = counts.external_requests
      BY <1>1, <2>1 DEF Record, Plus, CountFields
    <2>3. \A q \in 0..MaxQueries : SameAccount(q)
      BY <1>1, <2>1 DEF SameAccount, AccountSums, EmptyAccount
    <2>4. QED
      BY <2>1, <2>2, <2>3
  <1>4. ASSUME NEW s \in States, Result(s)
        PROVE  /\ UNCHANGED <<active, nextQuery, lastQuery, lastProfile, profile,
                              ledger>>
               /\ counts'.external_requests = counts.external_requests
    <2>1. /\ UNCHANGED <<active, nextQuery, lastQuery, lastProfile, profile,
                         ledger>>
          /\ \/ Record(scope[s], [null_rows |-> 1])
             \/ Record(scope[s], [valid_rows |-> 1, unique_judgments |-> 1])
      BY <1>4 DEF Result, RecordRowResult, queryVars, profileVars, observerVars
    <2>2. QED
      BY <1>1, <2>1 DEF Record, Plus, CountFields
  <1>5. CASE Quiet /\ UNCHANGED <<counts, profile, ledger>>
    BY <1>5 DEF Quiet, SameProfile, SameAccount
  <1>6. CASE Quiet /\ (HostBegin \/ (\E o \in Outcomes : HostEnd(o))
                         \/ \E s \in States : InitState(s))
    <2>1. ~BeginProfiled /\ \A o \in Outcomes : ~EndProfiled(o)
      BY <1>1, <1>6 DEF Quiet, BeginProfiled, BeginQuery, EndProfiled, EndQuery
    <2>2. UNCHANGED <<counts, profile, ledger>>
      BY <1>6, <2>1 DEF HostBegin, HostEnd, InitState, Create, Share,
                        runtimeVars, profileVars, observerVars
    <2>3. QED
      BY <1>5, <1>6, <2>2
  <1>7. CASE Quiet /\ (CloseConnection \/ OthersInsert \/ Gone \/ UNCHANGED vars
                        \/ \E s \in States :
                             \/ DropState(s) \/ EvalStart(s) \/ Stray(s)
                             \/ ProfileEval(s) \/ ClearEval(s))
    <2>1. UNCHANGED <<counts, profile, ledger>>
      BY <1>7 DEF CloseConnection, OthersInsert, Gone, vars, DropState,
                  EvalStart, Stray, ProfileEval, ClearEval,
                  runtimeVars, profileVars, observerVars
    <2>2. QED
      BY <1>5, <1>7, <2>1
  <1>8. Quiet \/ \E s \in States : RecordContext(s) \/ RowInput(s)
    BY BookSteps
  <1>9. QED
    BY <1>2, <1>3, <1>4, <1>6, <1>7, <1>8
       DEF Next, Evaluate, SameProfile, SameAccount

\* What is held and what the accounts give stays well typed.
LEMMA TimingTypesStay ==
  ASSUME TimingTypes, DOMAIN answer' = States, DOMAIN shown' = States,
         \A t \in States : at'[t] \in Heard => Goes(t),
         nextQuery \in Nat, nextQuery' \in Nat, nextQuery <= nextQuery',
         counts'.external_requests \in Nat,
         ~External => counts'.external_requests = 0,
         \A f \in ProfileSums : profile'[f] \in Nat,
         \A q \in 0..MaxQueries : SameAccount(q)
  PROVE  TimingTypes'
  <1>1. \A s \in States :
          /\ at'[s] \in Heard => answer'[s].elapsed \in Nat
          /\ at'[s] = "response" => answer'[s].meta \in Metadata
    BY DEF TimingTypes, Goes, Heard
  <1>2. \A q \in 0..MaxQueries : \A f \in AccountSums :
          ledger'[q][f] \in Nat /\ (q >= nextQuery' => ledger'[q][f] = 0)
    BY DEF TimingTypes, SameAccount
  <1>3. QED
    BY <1>1, <1>2 DEF TimingTypes

\* The sums stay total if nothing of the active query changes.
LEMMA SumsStay ==
  ASSUME SessionInv, TimingInv, NEW CONSTANT q, q = active,
         active' = active,
         counts'.external_requests = counts.external_requests,
         SameProfile, SameAccount(q),
         \A t \in Waiters(q) \cup Waiters(q)' : Goes(t)
  PROVE  SumsTotal'
  <1>1. SUFFICES ASSUME External, active # NoQuery
                 PROVE  TripsTotal' /\ SerializationsTotal' /\ InferencesTotal'
    BY DEF SumsTotal
  <1>2. /\ Waiters(q)' = Waiters(q)
        /\ Total(Trips, Hearers(q))' = Total(Trips, Hearers(q))
        /\ Total(Serializations, Hearers(q))' = Total(Serializations, Hearers(q))
        /\ Total(Unserialized, Hearers(q))' = Total(Unserialized, Hearers(q))
        /\ Total(Inferences, Hearers(q))' = Total(Inferences, Hearers(q))
        /\ Total(Uninferred, Hearers(q))' = Total(Uninferred, Hearers(q))
    BY InHandStays
  <1>3. TripsTotal /\ SerializationsTotal /\ InferencesTotal
    BY <1>1 DEF TimingInv, SumsTotal
  <1>4. TripsTotal'
    BY <1>2, <1>3
       DEF TripsTotal, SameProfile, SameAccount, ProfileSums, AccountSums
  <1>5. SerializationsTotal'
    BY <1>2, <1>3
       DEF SerializationsTotal, SameProfile, SameAccount, ProfileSums,
           AccountSums
  <1>6. InferencesTotal'
    BY <1>2, <1>3
       DEF InferencesTotal, SameProfile, SameAccount, ProfileSums, AccountSums
  <1>7. QED
    BY <1>4, <1>5, <1>6

\* A step that touches nothing of the sums.
LEMMA AllGoStep ==
  ASSUME SessionInv, TimingInv, [Next]_vars, AllGo,
         UNCHANGED <<active, nextQuery, lastQuery, lastProfile>>,
         counts'.external_requests = counts.external_requests,
         SameProfile, \A q \in 0..MaxQueries : SameAccount(q)
  PROVE  TimingInv'
  <1>1. DOMAIN shown' = States /\ Reports' \subseteq Reports
    BY NoNewReports DEF TimingInv, TimingTypes
  <1>2. TimingTypes'
    <2>1. \A t \in States : at'[t] \in Heard => Goes(t)
      BY DEF AllGo, Awaiting, Heard
    <2>2. nextQuery \in Nat
      BY DEF SessionInv, Shape
    <2>3. /\ counts'.external_requests \in Nat
          /\ ~External => counts'.external_requests = 0
          /\ \A f \in ProfileSums : profile'[f] \in Nat
      BY DEF TimingInv, TimingTypes, SameProfile
    <2>4. QED
      BY <1>1, <2>1, <2>2, <2>3, TimingTypesStay DEF TimingInv, AllGo
  <1>3. \A q : \A t \in Waiters(q) \cup Waiters(q)' : Goes(t)
    BY DEF AllGo, Waiters
  <1>4. SumsTotal'
    <2>1. CASE active = NoQuery
      BY <2>1 DEF SumsTotal
    <2>2. CASE active # NoQuery
      <3>1. PICK q : q = active
        OBVIOUS
      <3>2. q \in 0..MaxQueries
        BY <2>2, <3>1, RuntimeAssumption DEF SessionInv, Shape, QueriesInTurn
      <3>3. QED
        BY <1>3, <3>1, <3>2, SumsStay
    <2>3. QED
      BY <2>1, <2>2
  <1>5. \A r \in Reports' : Settled(r)'
    <2>1. \A q : Waiters(q)' = Waiters(q)
      BY <1>3, InHandStays
    <2>2. QED
      BY <1>1, <2>1, SettledStay DEF TimingInv
  <1>6. QED
    BY <1>2, <1>4, <1>5 DEF TimingInv

\* Besides the queries' ends and the calls there are only such steps.
LEMMA StillStep ==
  ASSUME SessionInv, TimingInv, [Next]_vars, ~Opens, ~Closes,
         \A s \in States : ~Attempt(s) /\ ~Call(s) /\ ~Response(s) /\ ~Failure(s)
  PROVE  TimingInv'
  <1>1. AllGo
    BY AllGoOn DEF TimingInv, TimingTypes, SessionInv
  <1>2. QED
    BY <1>1, SumsUntouched, AllGoStep DEF TimingInv

\* A query that begins finds nobody waiting for it and its account empty.
LEMMA OpensStep ==
  ASSUME SessionInv, TimingInv, [Next]_vars, Opens
  PROVE  TimingInv'
  <1>1. /\ active' = nextQuery /\ nextQuery' = nextQuery + 1
        /\ nextQuery < MaxQueries
        /\ counts' = ZeroCounts /\ profile' = FreshProfile
        /\ UNCHANGED <<lastQuery, lastProfile, ledger>>
    BY DEF Opens, BeginProfiled, BeginQuery
  <1>2. nextQuery \in Nat /\ MaxQueries \in Nat /\ NoQuery \notin Nat
        /\ active = NoQuery /\ nextQuery \in 0..MaxQueries
    BY <1>1, RuntimeAssumption DEF SessionInv, Shape, Opens
  <1>3. \A s \in States : ~Attempt(s) /\ ~Call(s) /\ ~Response(s) /\ ~Failure(s)
    BY <1>1, <1>2 DEF Attempt, Call, Response, Failure, queryVars, runtimeVars
  <1>4. AllGo
    BY <1>3, AllGoOn DEF TimingInv, TimingTypes, SessionInv
  <1>5. DOMAIN shown' = States /\ Reports' \subseteq Reports
    BY <1>1, NoNewReports DEF TimingInv, TimingTypes
  <1>6. /\ counts'.external_requests = 0
        /\ \A f \in ProfileSums : profile'[f] = 0
        /\ \A q \in 0..MaxQueries : SameAccount(q)
    BY <1>1 DEF ZeroCounts, CountFields, ProfileSums, FreshProfile, SameAccount
  <1>7. TimingTypes'
    BY <1>1, <1>2, <1>4, <1>5, <1>6, TimingTypesStay
       DEF TimingInv, AllGo, Awaiting, Heard
  <1>8. \A q : \A t \in Waiters(q) \cup Waiters(q)' : Goes(t)
    BY <1>4 DEF AllGo, Waiters
  <1>9. \A q : Waiters(q)' = Waiters(q)
    BY <1>8, InHandStays
  <1>10. SumsTotal'
    <2>1. PICK q : q = nextQuery
      OBVIOUS
    <2>2. Waiters(q)' = {}
      <3>1. Waiters(q) = {}
        BY <1>2, <2>1 DEF SessionInv, Shape, QueriesInTurn, Waiters, Awaiting,
                          Evaluating
      <3>2. QED
        BY <1>9, <3>1
    <2>3. Hearers(q)' = {} /\ IsFiniteSet(Hearers(q)')
      BY <2>2, FS_EmptySet DEF Hearers, Waiters, Heard, Awaiting
    <2>4. /\ Cardinality(Waiters(q)') = 0
          /\ Total(Trips', Hearers(q)') = 0
          /\ Total(Serializations', Hearers(q)') = 0
          /\ Total(Unserialized', Hearers(q)') = 0
          /\ Total(Inferences', Hearers(q)') = 0
          /\ Total(Uninferred', Hearers(q)') = 0
      BY <2>2, <2>3, FS_EmptySet, TotalTakes
    <2>5. \A f \in AccountSums : ledger'[q][f] = 0
      BY <1>1, <1>2, <2>1 DEF TimingInv, TimingTypes
    <2>6. active' = q
      BY <1>1, <2>1
    <2>7. TripsTotal'
      BY <1>6, <2>4, <2>5, <2>6 DEF TripsTotal, ProfileSums, AccountSums
    <2>8. SerializationsTotal'
      BY <1>6, <2>4, <2>5, <2>6
         DEF SerializationsTotal, ProfileSums, AccountSums
    <2>9. InferencesTotal'
      BY <1>6, <2>4, <2>5, <2>6 DEF InferencesTotal, ProfileSums, AccountSums
    <2>10. QED
      BY <2>7, <2>8, <2>9 DEF SumsTotal
  <1>11. \A r \in Reports' : Settled(r)'
    BY <1>1, <1>2, <1>5, <1>6, <1>9, SettledStay DEF TimingInv
  <1>12. QED
    BY <1>7, <1>10, <1>11 DEF TimingInv

\* A query that ends leaves a report whose sums are its account's: each is
\* shown only if every request gave a sample, so none is waited for.
LEMMA ClosedIsSettled ==
  ASSUME SessionInv, TimingInv, active # NoQuery,
         NEW o, NEW r,
         r = Report([query |-> active, outcome |-> o, counts |-> counts], profile)
  PROVE  /\ r.query = active /\ TellsTotals(r)
         /\ \/ Waiters(active) = {}
            \/ /\ r.external_roundtrip_sum = None /\ r.serialization_sum = None
               /\ r.server_inference_sum = None
  <1> DEFINE requests == counts.external_requests
             W == Cardinality(Waiters(active))
             H == Hearers(active)
  <1>1. /\ r.query = active
        /\ r.external_roundtrip_sum # None =>
             /\ r.external_roundtrip_sum = profile.roundtrip
             /\ profile.roundtrips = requests /\ requests > 0
        /\ r.serialization_sum # None =>
             /\ r.serialization_sum = profile.serialization
             /\ profile.serializations = requests /\ requests > 0
        /\ r.server_inference_sum # None =>
             /\ r.server_inference_sum = profile.inference
             /\ profile.uninferred = 0
             /\ profile.inferences = requests /\ requests > 0
    BY DEF Report, SumIfComplete
  <1>2. requests > 0 => TripsTotal /\ SerializationsTotal /\ InferencesTotal
    BY DEF TimingInv, TimingTypes, SumsTotal
  <1>3. /\ requests \in Nat /\ profile.roundtrips \in Nat
        /\ profile.roundtrip \in Nat
        /\ profile.serializations \in Nat /\ profile.serialization \in Nat
        /\ profile.inferences \in Nat /\ profile.inference \in Nat
        /\ active \in 0..MaxQueries
        /\ \A f \in AccountSums : ledger[active][f] \in Nat
    BY RuntimeAssumption DEF TimingInv, TimingTypes, ProfileSums, SessionInv,
                             Shape, QueriesInTurn
  <1>4. IsFiniteSet(Waiters(active)) /\ W \in Nat
        /\ (W = 0 => Waiters(active) = {})
    <2>1. IsFiniteSet(Waiters(active))
      BY SessionAssumption, FS_Subset DEF Waiters
    <2>2. QED
      BY <2>1, FS_CardinalityType, FS_EmptySet
  <1>5. Waiters(active) = {} =>
          /\ Total(Trips, H) = 0 /\ Total(Serializations, H) = 0
          /\ Total(Unserialized, H) = 0 /\ Total(Inferences, H) = 0
          /\ Total(Uninferred, H) = 0
    <2>1. SUFFICES ASSUME Waiters(active) = {}
                   PROVE  /\ Total(Trips, H) = 0 /\ Total(Serializations, H) = 0
                          /\ Total(Unserialized, H) = 0
                          /\ Total(Inferences, H) = 0 /\ Total(Uninferred, H) = 0
      OBVIOUS
    <2>2. H = {}
      BY <2>1 DEF Hearers, Waiters, Heard, Awaiting
    <2> HIDE DEF H
    <2>3. QED
      BY <2>2, FS_EmptySet, TotalTakes
  <1>6. r.external_roundtrip_sum # None =>
          /\ Waiters(active) = {}
          /\ r.external_roundtrip_sum = ledger[active].roundtrip
    BY <1>1, <1>2, <1>3, <1>4, <1>5 DEF TripsTotal
  <1>7. r.serialization_sum # None =>
          /\ Waiters(active) = {}
          /\ r.serialization_sum = ledger[active].serialization
          /\ ledger[active].unserialized = 0
    BY <1>1, <1>2, <1>3, <1>4, <1>5 DEF SerializationsTotal
  <1>8. r.server_inference_sum # None =>
          /\ Waiters(active) = {}
          /\ r.server_inference_sum = ledger[active].inference
          /\ ledger[active].uninferred = 0
    BY <1>1, <1>2, <1>3, <1>4, <1>5 DEF InferencesTotal
  <1>9. QED
    BY <1>1, <1>6, <1>7, <1>8 DEF TellsTotals

\* So every report after the end of a query is settled.
LEMMA ClosesStep ==
  ASSUME SessionInv, TimingInv, [Next]_vars, Closes
  PROVE  TimingInv'
  <1>1. PICK o \in Outcomes : EndProfiled(o)
    BY DEF Closes
  <1>2. /\ active # NoQuery /\ active' = NoQuery /\ nextQuery' = nextQuery
        /\ counts' = ZeroCounts /\ profile' = FreshProfile /\ ledger' = ledger
        /\ lastQuery' = IF counts.input_rows > 0
                        THEN {[query |-> active, outcome |-> o,
                               counts |-> counts]}
                        ELSE lastQuery
        /\ lastProfile' = IF counts.input_rows > 0 THEN {profile} ELSE lastProfile
    BY <1>1 DEF Closes, EndProfiled, EndQuery
  <1>3. /\ nextQuery \in Nat /\ MaxQueries \in Nat /\ NoQuery \notin Nat
        /\ active \in 0..MaxQueries /\ active < nextQuery
    BY <1>2, RuntimeAssumption DEF SessionInv, Shape, QueriesInTurn
  <1>4. \A s \in States : ~Evaluate(s) /\ ~InitState(s) /\ ~DropState(s)
    <2>1. \A s \in States :
            Evaluate(s) \/ InitState(s) \/ DropState(s) =>
              active' = active \/ BeginQuery
      BY ZenonT(60) DEF Evaluate, InitState, Create, Share, BeginProfiled, DropState,
                RecordContext, EvalStart, RowInput, Attempt, Call, Response,
                Failure, Result, Stray, ProfileEval, ClearEval, runtimeVars,
                queryVars
    <2>2. ~BeginQuery
      BY <1>2, <1>3 DEF BeginQuery
    <2>3. QED
      BY <1>2, <2>1, <2>2
  <1>5. /\ UNCHANGED shown
        /\ \A s \in States : ~Attempt(s) /\ ~Call(s) /\ ~Response(s) /\ ~Failure(s)
    BY <1>4 DEF Evaluate, Next, vars, HostBegin, HostEnd, CloseConnection,
                OthersInsert, Gone, statementVars
  <1>6. AllGo
    BY <1>5, AllGoOn DEF TimingInv, TimingTypes, SessionInv
  <1>7. /\ counts'.external_requests = 0
        /\ \A f \in ProfileSums : profile'[f] = 0
        /\ \A q \in 0..MaxQueries : SameAccount(q)
    BY <1>2 DEF ZeroCounts, CountFields, ProfileSums, FreshProfile, SameAccount
  <1>8. TimingTypes'
    <2>1. DOMAIN shown' = States
      BY <1>5 DEF TimingInv, TimingTypes
    <2>2. QED
      BY <1>2, <1>3, <1>6, <1>7, <2>1, TimingTypesStay
         DEF TimingInv, AllGo, Awaiting, Heard
  <1>9. SumsTotal'
    BY <1>2 DEF SumsTotal
  <1>10. \A q : Waiters(q)' = Waiters(q)
    <2>1. \A q : \A t \in Waiters(q) \cup Waiters(q)' : Goes(t)
      BY <1>6 DEF AllGo, Waiters
    <2>2. QED
      BY <2>1, InHandStays
  <1>11. ASSUME NEW CONSTANT r, r \in Reports'
         PROVE  Settled(r)'
    <2>1. CASE r \in Reports
      <3>1. Settled(r)
        BY <2>1 DEF TimingInv
      <3>2. TellsTotals(r)'
        BY <1>2, <3>1 DEF Settled, TellsTotals
      <3>3. QED
        BY <1>2, <1>3, <1>10, <3>1, <3>2 DEF Settled
    <2>2. CASE r \notin Reports
      <3>1. r = Report([query |-> active, outcome |-> o, counts |-> counts],
                       profile)
        BY <1>2, <1>5, <1>11, <2>2 DEF Reports, LastReports
      <3>2. /\ r.query = active /\ TellsTotals(r)
            /\ \/ Waiters(active) = {}
               \/ /\ r.external_roundtrip_sum = None
                  /\ r.serialization_sum = None /\ r.server_inference_sum = None
        BY <1>2, <3>1, ClosedIsSettled
      <3>3. TellsTotals(r)'
        BY <1>2, <3>2 DEF TellsTotals
      <3>4. QED
        BY <1>2, <1>3, <1>10, <3>2, <3>3 DEF Settled
    <2>3. QED
      BY <2>1, <2>2
  <1>12. QED
    BY <1>8, <1>9, <1>11 DEF TimingInv

\* An attempt of the active query takes up waiting; another is in no report.
LEMMA AttemptStep ==
  ASSUME SessionInv, TimingInv, [Next]_vars, NEW s \in States, Attempt(s)
  PROVE  TimingInv'
  <1>1. /\ at[s] = "attempt"
        /\ RecordProviderAttempt(scope[s], 1)
        /\ at' = [at EXCEPT ![s] = IF scope[s] = active THEN "call" ELSE "stray"]
        /\ UNCHANGED <<active, nextQuery, lastQuery, lastProfile, profile, ledger,
                       scope, answer>>
    BY DEF Attempt, Goto, queryVars, profileVars, observerVars
  <1>2. /\ DOMAIN at = States /\ DOMAIN answer = States
        /\ counts.external_requests \in Nat
        /\ nextQuery \in Nat /\ scope[s] \in 0..MaxQueries
        /\ ~External => counts.external_requests = 0
    BY <1>1, RuntimeAssumption
       DEF SessionInv, Shape, QueriesInTurn, TimingInv, TimingTypes, Evaluating
  <1>3. \A t \in States \ {s} : Goes(t)
    BY <1>1, <1>2 DEF Goes
  <1>4. SameProfile /\ \A q \in 0..MaxQueries : SameAccount(q)
    BY <1>1 DEF SameProfile, SameAccount
  <1>5. counts'.external_requests =
          counts.external_requests
            + IF scope[s] = active /\ External THEN 1 ELSE 0
    <2>1. CASE External
      <3>1. Record(scope[s],
                   [provider_invocations |-> 1, external_requests |-> 1,
                    batch_size_sum |-> 1,
                    batched_requests |-> IF 1 > 1 THEN 1 ELSE 0])
        BY <1>1, <2>1 DEF RecordProviderAttempt
      <3>2. QED
        BY <1>2, <2>1, <3>1 DEF Record, Plus, CountFields
    <2>2. CASE ~External
      <3>1. Record(scope[s], [provider_invocations |-> 1])
        BY <1>1, <2>2 DEF RecordProviderAttempt
      <3>2. QED
        BY <1>2, <2>2, <3>1 DEF Record, Plus, CountFields
    <2>3. QED
      BY <2>1, <2>2
  <1>6. CASE scope[s] # active
    <2>1. AllGo
      BY <1>1, <1>2, <1>3, <1>6 DEF AllGo, Awaiting
    <2>2. QED
      BY <1>1, <1>2, <1>4, <1>5, <1>6, <2>1, AllGoStep
  <1>7. CASE scope[s] = active
    <2>1. DOMAIN shown' = States /\ Reports' \subseteq Reports
      BY <1>1, NoNewReports DEF TimingInv, TimingTypes
    <2>2. TimingTypes'
      <3>1. \A t \in States : at'[t] \in Heard => Goes(t)
        BY <1>1, <1>2, <1>3, <1>7 DEF Heard
      <3>2. /\ \A f \in ProfileSums : profile'[f] \in Nat
            /\ counts'.external_requests \in Nat
            /\ ~External => counts'.external_requests = 0
        BY <1>1, <1>2, <1>5 DEF TimingInv, TimingTypes
      <3>3. QED
        BY <1>1, <1>2, <1>4, <2>1, <3>1, <3>2, TimingTypesStay DEF TimingInv
    <2>3. SumsTotal'
      <3>1. SUFFICES ASSUME External PROVE SumsTotal'
        BY DEF SumsTotal
      <3>2. PICK q : q = active /\ q \in 0..MaxQueries /\ q = scope[s]
        BY <1>2, <1>7
      <3>3. OthersWait(q, s)
        BY <1>3 DEF OthersWait, Waiters
      <3>4. /\ s \notin Waiters(q) /\ s \in Waiters(q)'
            /\ s \notin Hearers(q) /\ s \notin Hearers(q)'
        BY <1>1, <1>2, <1>7, <3>2 DEF Waiters, Hearers, Awaiting, Heard
      <3>5. /\ Cardinality(Waiters(q)) \in Nat
            /\ Cardinality(Waiters(q)') = Cardinality(Waiters(q)) + 1
        BY <3>3, <3>4, WaitersMove
      <3>6. InHandMoves(q, s)
        <4>1. Shape'
          BY ShapeStep
        <4>2. QED
          BY <2>2, <3>3, <4>1, InHandMove DEF SessionInv, TimingInv
      <3>7. /\ Total(Trips', Hearers(q)') = Total(Trips, Hearers(q))
            /\ Total(Serializations', Hearers(q)')
                 = Total(Serializations, Hearers(q))
            /\ Total(Unserialized', Hearers(q)') = Total(Unserialized, Hearers(q))
            /\ Total(Inferences', Hearers(q)') = Total(Inferences, Hearers(q))
            /\ Total(Uninferred', Hearers(q)') = Total(Uninferred, Hearers(q))
        BY <3>4, <3>6 DEF InHandMoves, SumMoves
      <3>8. /\ TripsTotal /\ SerializationsTotal /\ InferencesTotal
            /\ active # NoQuery
            /\ \A f \in ProfileSums : profile[f] \in Nat
        BY <3>1, <3>2, RuntimeAssumption DEF TimingInv, TimingTypes, SumsTotal
      <3>9. counts'.external_requests = counts.external_requests + 1
        BY <1>5, <1>7, <3>1
      <3>10. TripsTotal'
        BY <1>1, <1>2, <3>2, <3>5, <3>7, <3>8, <3>9
           DEF TripsTotal, ProfileSums
      <3>11. SerializationsTotal'
        BY <1>1, <1>2, <3>2, <3>5, <3>7, <3>8, <3>9
           DEF SerializationsTotal, ProfileSums
      <3>12. InferencesTotal'
        BY <1>1, <1>2, <3>2, <3>5, <3>7, <3>8, <3>9
           DEF InferencesTotal, ProfileSums
      <3>13. QED
        BY <3>10, <3>11, <3>12 DEF SumsTotal
    <2>4. \A r \in Reports' : Settled(r)'
      <3>1. \A q \in 0..MaxQueries : q # active => Waiters(q)' \subseteq Waiters(q)
        BY <1>1, <1>2, <1>3, <1>7 DEF Waiters, Goes
      <3>2. QED
        BY <1>1, <1>4, <2>1, <3>1, SettledStay DEF TimingInv
    <2>5. QED
      BY <2>2, <2>3, <2>4 DEF TimingInv
  <1>8. QED
    BY <1>6, <1>7

\* What a call does: time is spent in its query, and if the provider is
\* external or answers, the state holds what tells how much.
LEMMA CallMoves ==
  ASSUME SessionInv, TimingInv, NEW s \in States, Call(s)
  PROVE  /\ at[s] = "call"
         /\ UNCHANGED <<active, nextQuery, lastQuery, lastProfile, profile, counts>>
         /\ \A t \in States \ {s} : Goes(t)
         /\ DOMAIN answer' = States
         /\ at'[s] \in Heard \cup {"idle"}
         /\ at'[s] = "idle" => ~External
         /\ at'[s] \in Heard => scope'[s] = scope[s]
         /\ \E time \in Times, meta \in Metadata \cup {Untold} :
              /\ ledger' = [ledger EXCEPT ![scope[s]] =
                              Spend(@, meta, OrElse(meta.roundtrip, time))]
              /\ at'[s] \in Heard =>
                   /\ Tells(s)' = meta /\ answer'[s].elapsed = time
              /\ at'[s] = "response" =>
                   answer'[s].meta = meta /\ meta \in Metadata
  <1>1. /\ DOMAIN at = States /\ DOMAIN answer = States /\ DOMAIN scope = States
        /\ at[s] = "call"
        /\ UNCHANGED <<active, nextQuery, lastQuery, lastProfile, profile, counts>>
    BY DEF SessionInv, Shape, TimingInv, TimingTypes, Call, runtimeVars,
           queryVars, profileVars
  <1>2. PICK time \in Times :
          \/ /\ ledger' = [ledger EXCEPT ![scope[s]] = Spend(@, Untold, time)]
             /\ answer' = [answer EXCEPT ![s] = [meta |-> None, elapsed |-> time]]
             /\ IF External THEN Continue(s, "failure") ELSE Return(s)
          \/ \E meta \in Metadata :
               /\ ledger' = [ledger EXCEPT ![scope[s]] =
                               Spend(@, meta, OrElse(meta.roundtrip, time))]
               /\ answer' = [answer EXCEPT ![s] =
                               [meta |-> meta, elapsed |-> time]]
               /\ Continue(s, "response")
    BY DEF Call
  <1>3. CASE /\ ledger' = [ledger EXCEPT ![scope[s]] = Spend(@, Untold, time)]
             /\ answer' = [answer EXCEPT ![s] = [meta |-> None, elapsed |-> time]]
             /\ IF External THEN Continue(s, "failure") ELSE Return(s)
    <2>1. OrElse(Untold.roundtrip, time) = time
      BY DEF OrElse, Untold
    <2>2. /\ DOMAIN answer' = States /\ answer'[s].elapsed = time
          /\ External => at'[s] = "failure" /\ scope' = scope
          /\ ~External => at'[s] = "idle"
          /\ \A t \in States \ {s} : Goes(t)
      BY <1>1, <1>3 DEF Continue, Return, Goto, Goes
    <2>3. Tells(s)' = Untold
      BY <2>2 DEF Tells
    <2>4. QED
      BY <1>1, <1>3, <2>1, <2>2, <2>3 DEF Heard
  <1>4. ASSUME NEW meta \in Metadata,
               ledger' = [ledger EXCEPT ![scope[s]] =
                            Spend(@, meta, OrElse(meta.roundtrip, time))],
               answer' = [answer EXCEPT ![s] = [meta |-> meta, elapsed |-> time]],
               Continue(s, "response")
        PROVE  /\ \A t \in States \ {s} : Goes(t)
               /\ DOMAIN answer' = States /\ answer'[s].elapsed = time
               /\ answer'[s].meta = meta /\ Tells(s)' = meta
               /\ at'[s] = "response" /\ scope' = scope
    <2>1. /\ \A t \in States \ {s} : Goes(t)
          /\ DOMAIN answer' = States /\ answer'[s].elapsed = time
          /\ answer'[s].meta = meta
          /\ at'[s] = "response" /\ scope' = scope
      BY <1>1, <1>4 DEF Continue, Goto, Goes
    <2>2. QED
      BY <2>1 DEF Tells
  <1>5. QED
    BY <1>1, <1>2, <1>3, <1>4 DEF Heard

\* What is spent is what the answer tells.
LEMMA SpendAdds ==
  ASSUME SessionInv, TimingInv, NEW q \in 0..MaxQueries,
         NEW time \in Nat, NEW meta \in Metadata \cup {Untold},
         ledger' = [ledger EXCEPT ![q] =
                      Spend(@, meta, OrElse(meta.roundtrip, time))]
  PROVE  /\ OrElse(meta.roundtrip, time) \in Nat
         /\ OrElse(meta.serialization, 0) \in Nat
         /\ OrElse(meta.inference, 0) \in Nat
         /\ \A i \in 0..MaxQueries : i # q => SameAccount(i)
         /\ \A f \in AccountSums : ledger'[q][f] \in Nat
         /\ ledger'[q].roundtrip
              = ledger[q].roundtrip + OrElse(meta.roundtrip, time)
         /\ ledger'[q].serialization
              = ledger[q].serialization + OrElse(meta.serialization, 0)
         /\ ledger'[q].unserialized
              = ledger[q].unserialized
                  + (IF meta.serialization = None THEN 1 ELSE 0)
         /\ ledger'[q].inference
              = ledger[q].inference + OrElse(meta.inference, 0)
         /\ ledger'[q].uninferred
              = ledger[q].uninferred + (IF meta.inference = None THEN 1 ELSE 0)
  <1>1. /\ DOMAIN ledger = 0..MaxQueries
        /\ DOMAIN ledger[q] = DOMAIN EmptyAccount
        /\ \A f \in AccountSums : ledger[q][f] \in Nat
    BY DEF SessionInv, Shape, TimingInv, TimingTypes
  <1>2. /\ OrElse(meta.roundtrip, time) \in Nat
        /\ OrElse(meta.serialization, 0) \in Nat
        /\ OrElse(meta.inference, 0) \in Nat
    <2>1. CASE meta = Untold
      BY <2>1 DEF Untold, OrElse
    <2>2. CASE meta \in Metadata
      <3>1. meta \in [usage : BOOLEAN, roundtrip : Times \cup {None},
                      serialization : Times \cup {None},
                      inference : Times \cup {None}]
        BY <2>2, SessionAssumption
      <3>2. QED
        BY <3>1, ProfileAssumption DEF OrElse
    <2>3. QED
      BY <2>1, <2>2
  <1>3. /\ ledger'[q] = Spend(ledger[q], meta, OrElse(meta.roundtrip, time))
        /\ \A i \in 0..MaxQueries : i # q => ledger'[i] = ledger[i]
    BY <1>1
  <1>4. /\ ledger'[q].roundtrip
             = ledger[q].roundtrip + OrElse(meta.roundtrip, time)
        /\ ledger'[q].serialization
             = ledger[q].serialization + OrElse(meta.serialization, 0)
        /\ ledger'[q].unserialized
             = ledger[q].unserialized
                 + (IF meta.serialization = None THEN 1 ELSE 0)
        /\ ledger'[q].inference
             = ledger[q].inference + OrElse(meta.inference, 0)
        /\ ledger'[q].uninferred
             = ledger[q].uninferred + (IF meta.inference = None THEN 1 ELSE 0)
    BY <1>1, <1>3, SMTT(30) DEF Spend, EmptyAccount
  <1>5. \A i \in 0..MaxQueries : i # q => SameAccount(i)
    BY <1>3 DEF SameAccount
  <1>6. \A f \in AccountSums : ledger'[q][f] \in Nat
    <2>1. /\ ledger[q].roundtrip \in Nat /\ ledger[q].serialization \in Nat
          /\ ledger[q].unserialized \in Nat /\ ledger[q].inference \in Nat
          /\ ledger[q].uninferred \in Nat
      BY <1>1 DEF AccountSums
    <2>2. /\ ledger'[q].roundtrip \in Nat /\ ledger'[q].serialization \in Nat
          /\ ledger'[q].unserialized \in Nat /\ ledger'[q].inference \in Nat
          /\ ledger'[q].uninferred \in Nat
      BY <1>2, <1>4, <2>1
    <2>3. QED
      BY <2>2 DEF AccountSums
  <1>7. QED
    BY <1>2, <1>4, <1>5, <1>6

\* A call keeps the sums: its own is in hand now.
LEMMA CallStep ==
  ASSUME SessionInv, TimingInv, [Next]_vars, NEW s \in States, Call(s)
  PROVE  TimingInv'
  <1>1. /\ at[s] = "call"
        /\ UNCHANGED <<active, nextQuery, lastQuery, lastProfile, profile, counts>>
        /\ \A t \in States \ {s} : Goes(t)
        /\ DOMAIN answer' = States
        /\ at'[s] \in Heard \cup {"idle"}
        /\ at'[s] = "idle" => ~External
        /\ at'[s] \in Heard => scope'[s] = scope[s]
    BY CallMoves
  <1>2. PICK time \in Times, meta \in Metadata \cup {Untold} :
          /\ ledger' = [ledger EXCEPT ![scope[s]] =
                          Spend(@, meta, OrElse(meta.roundtrip, time))]
          /\ at'[s] \in Heard => Tells(s)' = meta /\ answer'[s].elapsed = time
          /\ at'[s] = "response" => answer'[s].meta = meta /\ meta \in Metadata
    BY CallMoves
  <1>3. PICK c : c = scope[s] /\ c \in 0..MaxQueries /\ c < nextQuery
    BY <1>1, RuntimeAssumption DEF SessionInv, Shape, QueriesInTurn, Evaluating
  <1>4. time \in Nat
    BY ProfileAssumption
  <1>5. /\ OrElse(meta.roundtrip, time) \in Nat
        /\ OrElse(meta.serialization, 0) \in Nat
        /\ OrElse(meta.inference, 0) \in Nat
        /\ \A i \in 0..MaxQueries : i # c => SameAccount(i)
        /\ \A f \in AccountSums : ledger'[c][f] \in Nat
        /\ ledger'[c].roundtrip
             = ledger[c].roundtrip + OrElse(meta.roundtrip, time)
        /\ ledger'[c].serialization
             = ledger[c].serialization + OrElse(meta.serialization, 0)
        /\ ledger'[c].unserialized
             = ledger[c].unserialized
                 + (IF meta.serialization = None THEN 1 ELSE 0)
        /\ ledger'[c].inference
             = ledger[c].inference + OrElse(meta.inference, 0)
        /\ ledger'[c].uninferred
             = ledger[c].uninferred + (IF meta.inference = None THEN 1 ELSE 0)
    <2>1. ledger' = [ledger EXCEPT ![c] =
                       Spend(@, meta, OrElse(meta.roundtrip, time))]
      BY <1>2, <1>3
    <2>2. QED
      BY <1>3, <1>4, <2>1, SpendAdds, ZenonT(60)
  <1>6. DOMAIN shown' = States /\ Reports' \subseteq Reports
    BY <1>1, NoNewReports DEF TimingInv, TimingTypes
  <1>7. TimingTypes'
    <2>1. \A t \in States :
            /\ at'[t] \in Heard => answer'[t].elapsed \in Nat
            /\ at'[t] = "response" => answer'[t].meta \in Metadata
      BY <1>1, <1>2, <1>4 DEF TimingInv, TimingTypes, Goes, Heard
    <2>2. \A q \in 0..MaxQueries : \A f \in AccountSums :
            ledger'[q][f] \in Nat /\ (q >= nextQuery => ledger'[q][f] = 0)
      <3>1. SUFFICES ASSUME NEW q \in 0..MaxQueries, NEW f \in AccountSums
                     PROVE  /\ ledger'[q][f] \in Nat
                            /\ q >= nextQuery => ledger'[q][f] = 0
        OBVIOUS
      <3>2. CASE q = c
        BY <1>3, <1>5, <3>2 DEF SessionInv, Shape
      <3>3. CASE q # c
        BY <1>5, <3>3 DEF SameAccount, TimingInv, TimingTypes
      <3>4. QED
        BY <3>2, <3>3
    <2>3. QED
      BY <1>1, <1>6, <2>1, <2>2 DEF TimingInv, TimingTypes
  <1>8. SumsTotal'
    <2>1. SUFFICES ASSUME External, active # NoQuery PROVE SumsTotal'
      BY <1>1 DEF SumsTotal
    <2>2. PICK q : q = active /\ q \in 0..MaxQueries
      BY <2>1, RuntimeAssumption DEF SessionInv, Shape, QueriesInTurn
    <2>3. CASE c # q
      <3>1. \A t \in Waiters(q) \cup Waiters(q)' : Goes(t)
        BY <1>1, <1>3, <2>1, <2>3 DEF Waiters
      <3>2. SameAccount(q) /\ SameProfile
        BY <1>1, <1>5, <2>2, <2>3 DEF SameProfile
      <3>3. QED
        BY <1>1, <2>2, <3>1, <3>2, SumsStay
    <2>4. CASE c = q
      <3>1. OthersWait(q, s)
        BY <1>1 DEF OthersWait, Waiters
      <3>2. /\ s \in Waiters(q) /\ s \in Waiters(q)'
            /\ s \notin Hearers(q) /\ s \in Hearers(q)'
        BY <1>1, <1>3, <2>1, <2>4 DEF Waiters, Hearers, Awaiting, Heard
      <3>3. Cardinality(Waiters(q)') = Cardinality(Waiters(q))
        BY <3>1, <3>2, WaitersMove
      <3>4. InHandMoves(q, s)
        <4>1. Shape'
          BY ShapeStep
        <4>2. QED
          BY <1>7, <3>1, <4>1, InHandMove DEF SessionInv, TimingInv
      <3>5. /\ Total(Trips', Hearers(q)')
                 = Total(Trips, Hearers(q)) + OrElse(meta.roundtrip, time)
            /\ Total(Serializations', Hearers(q)')
                 = Total(Serializations, Hearers(q))
                     + OrElse(meta.serialization, 0)
            /\ Total(Unserialized', Hearers(q)')
                 = Total(Unserialized, Hearers(q))
                     + (IF meta.serialization = None THEN 1 ELSE 0)
            /\ Total(Inferences', Hearers(q)')
                 = Total(Inferences, Hearers(q)) + OrElse(meta.inference, 0)
            /\ Total(Uninferred', Hearers(q)')
                 = Total(Uninferred, Hearers(q))
                     + (IF meta.inference = None THEN 1 ELSE 0)
        <4>1. Tells(s)' = meta /\ answer'[s].elapsed = time
          BY <1>2, <3>2 DEF Hearers
        <4>2. /\ Trips'[s] = OrElse(meta.roundtrip, time)
              /\ Serializations'[s] = OrElse(meta.serialization, 0)
              /\ Unserialized'[s] = (IF meta.serialization = None THEN 1 ELSE 0)
              /\ Inferences'[s] = OrElse(meta.inference, 0)
              /\ Uninferred'[s] = (IF meta.inference = None THEN 1 ELSE 0)
          BY <4>1 DEF Trips, Serializations, Unserialized, Inferences, Uninferred
        <4>3. QED
          BY <3>2, <3>4, <4>2 DEF InHandMoves, SumMoves
      <3>6. /\ Total(Trips, Hearers(q)) \in Nat
            /\ Total(Serializations, Hearers(q)) \in Nat
            /\ Total(Unserialized, Hearers(q)) \in Nat
            /\ Total(Inferences, Hearers(q)) \in Nat
            /\ Total(Uninferred, Hearers(q)) \in Nat
        BY <3>4 DEF InHandMoves, SumMoves
      <3>7. /\ \A f \in ProfileSums : profile[f] \in Nat
            /\ \A f \in AccountSums : ledger[q][f] \in Nat
        BY <2>2 DEF TimingInv, TimingTypes
      <3>8. TripsTotal /\ SerializationsTotal /\ InferencesTotal
        BY <2>1 DEF TimingInv, SumsTotal
      <3>9. TripsTotal'
        BY <1>1, <1>5, <2>2, <2>4, <3>3, <3>5, <3>6, <3>7, <3>8
           DEF TripsTotal, ProfileSums, AccountSums
      <3>10. SerializationsTotal'
        BY <1>1, <1>5, <2>2, <2>4, <3>3, <3>5, <3>6, <3>7, <3>8
           DEF SerializationsTotal, ProfileSums, AccountSums
      <3>11. InferencesTotal'
        BY <1>1, <1>5, <2>2, <2>4, <3>3, <3>5, <3>6, <3>7, <3>8
           DEF InferencesTotal, ProfileSums, AccountSums
      <3>12. QED
        BY <3>9, <3>10, <3>11 DEF SumsTotal
    <2>5. QED
      BY <2>3, <2>4
  <1>9. \A r \in Reports' : Settled(r)'
    <2>1. \A q \in 0..MaxQueries : Waiters(q)' \subseteq Waiters(q)
      BY <1>1 DEF Waiters, Goes, Awaiting, Heard
    <2>2. c \in 0..MaxQueries /\ s \in Waiters(c)
      BY <1>1, <1>3 DEF Waiters, Awaiting
    <2>3. \A q \in 0..MaxQueries : SameAccount(q) \/ Waiters(q) # {}
      BY <1>5, <2>2
    <2>4. QED
      BY <1>1, <1>6, <2>1, <2>3, SettledStay DEF TimingInv
  <1>10. QED
    BY <1>7, <1>8, <1>9 DEF TimingInv

\* What a profile gains from an answer that took a, told b and c.
Gains(p, r, a, b, c) ==
  /\ \/ r.roundtrip = p.roundtrip + a /\ r.roundtrips = p.roundtrips + 1
     \/ r.roundtrip = p.roundtrip /\ r.roundtrips = p.roundtrips
  /\ \/ /\ b # None /\ r.serialization = p.serialization + b
        /\ r.serializations = p.serializations + 1
     \/ /\ r.serialization = p.serialization
        /\ r.serializations = p.serializations
  /\ c = None =>
       /\ r.uninferred = p.uninferred + 1
       /\ r.inference = p.inference /\ r.inferences = p.inferences
  /\ c # None =>
       /\ r.uninferred = p.uninferred
       /\ r.inference = p.inference + c
       /\ r.inferences = p.inferences + 1

\* An observation gives it that.
LEMMA ProfileAdds ==
  ASSUME NEW p, DOMAIN p = DOMAIN FreshProfile,
         \A f \in ProfileSums : p[f] \in Nat,
         NEW a \in Nat, NEW b \in Nat \cup {None}, NEW c \in Nat \cup {None},
         NEW r, r = Inferred(Serialized(Timed(p, a), b), c)
  PROVE  (\A f \in ProfileSums : r[f] \in Nat) /\ Gains(p, r, a, b, c)
  <1> DEFINE t == Timed(p, a)
             u == Serialized(t, b)
  <1>1. /\ DOMAIN t = DOMAIN FreshProfile
        /\ \/ t.roundtrip = p.roundtrip + a /\ t.roundtrips = p.roundtrips + 1
           \/ t.roundtrip = p.roundtrip /\ t.roundtrips = p.roundtrips
        /\ t.serialization = p.serialization
        /\ t.serializations = p.serializations
        /\ t.inference = p.inference /\ t.inferences = p.inferences
        /\ t.uninferred = p.uninferred
    BY DEF Timed, FreshProfile
  <1> HIDE DEF t
  <1>2. /\ DOMAIN u = DOMAIN FreshProfile
        /\ \/ /\ b # None /\ u.serialization = t.serialization + b
              /\ u.serializations = t.serializations + 1
           \/ /\ u.serialization = t.serialization
              /\ u.serializations = t.serializations
        /\ u.roundtrip = t.roundtrip /\ u.roundtrips = t.roundtrips
        /\ u.inference = t.inference /\ u.inferences = t.inferences
        /\ u.uninferred = t.uninferred
    BY <1>1 DEF Serialized, FreshProfile
  <1>3. r = Inferred(u, c)
    BY DEF t
  <1> HIDE DEF u
  <1>4. /\ r.roundtrip = u.roundtrip /\ r.roundtrips = u.roundtrips
        /\ r.serialization = u.serialization
        /\ r.serializations = u.serializations
        /\ c = None =>
             /\ r.uninferred = u.uninferred + 1
             /\ r.inference = u.inference /\ r.inferences = u.inferences
        /\ c # None =>
             /\ r.uninferred = u.uninferred
             /\ r.inference = u.inference + c
             /\ r.inferences = u.inferences + 1
    BY <1>2, <1>3 DEF Inferred, FreshProfile
  <1>5. /\ p.roundtrip \in Nat /\ p.roundtrips \in Nat
        /\ p.serialization \in Nat /\ p.serializations \in Nat
        /\ p.inference \in Nat /\ p.inferences \in Nat /\ p.uninferred \in Nat
    BY DEF ProfileSums
  <1>6. Gains(p, r, a, b, c)
    BY <1>1, <1>2, <1>4 DEF Gains
  <1>7. /\ r.roundtrip \in Nat /\ r.roundtrips \in Nat
        /\ r.serialization \in Nat /\ r.serializations \in Nat
        /\ r.inference \in Nat /\ r.inferences \in Nat /\ r.uninferred \in Nat
    BY <1>5, <1>6 DEF Gains
  <1>8. QED
    BY <1>6, <1>7 DEF ProfileSums

\* What a state does with an answer: the profile of its query gains what the
\* answer tells, and nobody else is touched.
LEMMA AnswerMoves ==
  ASSUME SessionInv, TimingInv, NEW s \in States, Response(s) \/ Failure(s)
  PROVE  /\ at[s] \in Heard /\ at'[s] \notin Awaiting
         /\ UNCHANGED <<active, nextQuery, lastQuery, lastProfile, ledger>>
         /\ counts'.external_requests = counts.external_requests
         /\ DOMAIN answer' = States
         /\ \A t \in States \ {s} : Goes(t)
         /\ \/ profile' = profile /\ (External => scope[s] # active)
            \/ /\ scope[s] = active
               /\ profile' = Inferred(Serialized(Timed(profile, Trips[s]),
                                                 Tells(s).serialization),
                                      Tells(s).inference)
  <1>1. /\ DOMAIN at = States /\ DOMAIN answer = States /\ DOMAIN scope = States
        /\ counts.external_requests \in Nat
    BY DEF SessionInv, Shape, TimingInv, TimingTypes
  <1>2. CASE Response(s)
    <2>1. /\ at[s] = "response"
          /\ RecordResponse(scope[s], answer[s].meta, answer[s].elapsed)
          /\ answer' = [answer EXCEPT ![s] = NoAnswer]
          /\ UNCHANGED <<active, nextQuery, lastQuery, lastProfile, ledger>>
      BY <1>2 DEF Response, queryVars, observerVars
    <2>2. /\ at'[s] \notin Awaiting /\ \A t \in States \ {s} : Goes(t)
          /\ DOMAIN answer' = States
      BY <1>1, <1>2, <2>1 DEF Response, Continue, Return, Goto, Goes, Awaiting
    <2>3. counts'.external_requests = counts.external_requests
      <3>1. Record(scope[s],
                   IF ~External THEN EmptyMap
                   ELSE IF answer[s].meta.usage
                        THEN [usage_response_count |-> 1, tokens |-> 1]
                        ELSE [usage_response_count |-> 1,
                              usage_missing_count |-> 1])
        BY <2>1 DEF RecordResponse, RecordProviderResponse
      <3>2. \E delta : /\ Record(scope[s], delta)
                       /\ "external_requests" \notin DOMAIN delta
        BY <3>1 DEF EmptyMap
      <3>3. QED
        BY <1>1, <3>2 DEF Record, Plus, CountFields
    <2>4. Tells(s) = answer[s].meta
          /\ Trips[s] = OrElse(answer[s].meta.roundtrip, answer[s].elapsed)
      BY <2>1 DEF Tells, Trips
    <2>5. QED
      BY <2>1, <2>2, <2>3, <2>4 DEF RecordResponse, ProfileOf, Heard
  <1>3. CASE Failure(s)
    <2>1. /\ at[s] = "failure"
          /\ RecordFailure(scope[s], answer[s].elapsed)
          /\ answer' = [answer EXCEPT ![s] = NoAnswer]
          /\ UNCHANGED <<active, nextQuery, lastQuery, lastProfile, ledger>>
      BY <1>3 DEF Failure, queryVars, observerVars
    <2>2. /\ at'[s] \notin Awaiting /\ \A t \in States \ {s} : Goes(t)
          /\ DOMAIN answer' = States
      BY <1>1, <1>3, <2>1 DEF Failure, Return, Goto, Goes, Awaiting
    <2>3. counts'.external_requests = counts.external_requests
      <3>1. Record(scope[s],
                   [failed_requests |-> 1, usage_missing_count |-> 1])
        BY <2>1 DEF RecordFailure
      <3>2. QED
        BY <1>1, <3>1 DEF Record, Plus, CountFields
    <2>4. Tells(s) = Untold /\ Trips[s] = answer[s].elapsed
      BY <2>1 DEF Tells, Trips, Untold, OrElse
    <2>5. Serialized(Timed(profile, Trips[s]), Tells(s).serialization)
            = Timed(profile, Trips[s])
      BY <2>4 DEF Serialized, Untold
    <2>6. Tells(s).inference = None
      BY <2>4 DEF Untold
    <2>7. QED
      BY <2>1, <2>2, <2>3, <2>4, <2>5, <2>6 DEF RecordFailure, ProfileOf, Heard
  <1>4. QED
    BY <1>2, <1>3

\* What comes of an answer moves from the state's hands to the profile.
LEMMA AnswerStep ==
  ASSUME SessionInv, TimingInv, [Next]_vars, NEW s \in States,
         Response(s) \/ Failure(s)
  PROVE  TimingInv'
  <1>1. /\ at[s] \in Heard /\ at'[s] \notin Awaiting
        /\ UNCHANGED <<active, nextQuery, lastQuery, lastProfile, ledger>>
        /\ counts'.external_requests = counts.external_requests
        /\ DOMAIN answer' = States
        /\ \A t \in States \ {s} : Goes(t)
        /\ \/ profile' = profile /\ (External => scope[s] # active)
           \/ /\ scope[s] = active
              /\ profile' = Inferred(Serialized(Timed(profile, Trips[s]),
                                                Tells(s).serialization),
                                     Tells(s).inference)
    BY AnswerMoves
  <1>2. /\ Trips[s] \in Nat
        /\ Tells(s).serialization \in Nat \cup {None}
        /\ Tells(s).inference \in Nat \cup {None}
        /\ Serializations[s] = OrElse(Tells(s).serialization, 0)
        /\ Unserialized[s] = (IF Tells(s).serialization = None THEN 1 ELSE 0)
        /\ Inferences[s] = OrElse(Tells(s).inference, 0)
        /\ Uninferred[s] = (IF Tells(s).inference = None THEN 1 ELSE 0)
    <2>1. AmountsTyped
      BY AmountTypes DEF SessionInv, TimingInv
    <2>2. /\ Serializations[s] = OrElse(Tells(s).serialization, 0)
          /\ Unserialized[s] = (IF Tells(s).serialization = None THEN 1 ELSE 0)
          /\ Inferences[s] = OrElse(Tells(s).inference, 0)
          /\ Uninferred[s] = (IF Tells(s).inference = None THEN 1 ELSE 0)
      BY DEF Serializations, Unserialized, Inferences, Uninferred
    <2>3. Trips[s] \in Nat /\ Serializations[s] \in Nat /\ Inferences[s] \in Nat
      BY <1>1, <2>1 DEF AmountsTyped
    <2>4. QED
      BY <2>2, <2>3 DEF OrElse
  <1>3. /\ DOMAIN profile = DOMAIN FreshProfile
        /\ \A f \in ProfileSums : profile[f] \in Nat
    BY DEF SessionInv, Shape, TimingInv, TimingTypes
  <1>4. DOMAIN shown' = States /\ Reports' \subseteq Reports
    BY <1>1, NoNewReports DEF TimingInv, TimingTypes
  <1>5. \A q \in 0..MaxQueries : SameAccount(q)
    BY <1>1 DEF SameAccount
  <1>6. TimingTypes'
    <2>1. \A t \in States : at'[t] \in Heard => Goes(t)
      BY <1>1 DEF Heard, Awaiting
    <2>2. \A f \in ProfileSums : profile'[f] \in Nat
      BY <1>1, <1>2, <1>3, ProfileAdds
    <2>3. nextQuery \in Nat
      BY DEF SessionInv, Shape
    <2>4. QED
      BY <1>1, <1>4, <1>5, <2>1, <2>2, <2>3, TimingTypesStay
         DEF TimingInv, TimingTypes
  <1>7. SumsTotal'
    <2>1. SUFFICES ASSUME External, active # NoQuery PROVE SumsTotal'
      BY <1>1 DEF SumsTotal
    <2>2. PICK q : q = active /\ q \in 0..MaxQueries
      BY <2>1, RuntimeAssumption DEF SessionInv, Shape, QueriesInTurn
    <2>3. CASE scope[s] # active
      <3>1. \A t \in Waiters(q) \cup Waiters(q)' : Goes(t)
        BY <1>1, <2>2, <2>3 DEF Waiters
      <3>2. SameProfile
        BY <1>1, <2>3 DEF SameProfile
      <3>3. QED
        BY <1>1, <1>5, <2>2, <3>1, <3>2, SumsStay
    <2>4. CASE scope[s] = active
      <3>1. OthersWait(q, s)
        BY <1>1 DEF OthersWait, Waiters
      <3>2. /\ s \in Waiters(q) /\ s \notin Waiters(q)'
            /\ s \in Hearers(q) /\ s \notin Hearers(q)'
        BY <1>1, <2>2, <2>4 DEF Waiters, Hearers, Awaiting, Heard
      <3>3. /\ Cardinality(Waiters(q)) = Cardinality(Waiters(q)') + 1
            /\ Cardinality(Waiters(q)') \in Nat
        BY <3>1, <3>2, WaitersMove
      <3>4. InHandMoves(q, s)
        <4>1. Shape'
          BY ShapeStep
        <4>2. QED
          BY <1>6, <3>1, <4>1, InHandMove DEF SessionInv, TimingInv
      <3>5. /\ Total(Trips, Hearers(q)) = Total(Trips', Hearers(q)') + Trips[s]
            /\ Total(Serializations, Hearers(q))
                 = Total(Serializations', Hearers(q)') + Serializations[s]
            /\ Total(Unserialized, Hearers(q))
                 = Total(Unserialized', Hearers(q)') + Unserialized[s]
            /\ Total(Inferences, Hearers(q))
                 = Total(Inferences', Hearers(q)') + Inferences[s]
            /\ Total(Uninferred, Hearers(q))
                 = Total(Uninferred', Hearers(q)') + Uninferred[s]
            /\ Total(Trips', Hearers(q)') \in Nat
            /\ Total(Serializations', Hearers(q)') \in Nat
            /\ Total(Unserialized', Hearers(q)') \in Nat
            /\ Total(Inferences', Hearers(q)') \in Nat
            /\ Total(Uninferred', Hearers(q)') \in Nat
        BY <3>2, <3>4 DEF InHandMoves, SumMoves
      <3>6. Gains(profile, profile', Trips[s], Tells(s).serialization,
                  Tells(s).inference)
        <4>1. profile' = Inferred(Serialized(Timed(profile, Trips[s]),
                                             Tells(s).serialization),
                                  Tells(s).inference)
          BY <1>1, <2>1, <2>4
        <4>2. PICK a \in Nat, b \in Nat \cup {None}, c \in Nat \cup {None} :
                a = Trips[s] /\ b = Tells(s).serialization
                /\ c = Tells(s).inference
          BY <1>2
        <4>3. profile' = Inferred(Serialized(Timed(profile, a), b), c)
          BY <4>1, <4>2
        <4>4. Gains(profile, profile', a, b, c)
          BY <1>3, <4>3, ProfileAdds
        <4>5. QED
          BY <4>2, <4>4
      <3>7. /\ profile.roundtrip \in Nat /\ profile.roundtrips \in Nat
            /\ profile.serialization \in Nat /\ profile.serializations \in Nat
            /\ profile.inference \in Nat /\ profile.inferences \in Nat
            /\ profile.uninferred \in Nat
            /\ counts.external_requests \in Nat
        BY <1>3 DEF ProfileSums, TimingInv, TimingTypes
      <3>8. TripsTotal /\ SerializationsTotal /\ InferencesTotal
        BY <2>1 DEF TimingInv, SumsTotal
      <3>9. TripsTotal'
        BY <1>1, <1>2, <2>2, <3>3, <3>5, <3>6, <3>7, <3>8
           DEF TripsTotal, Gains
      <3>10. SerializationsTotal'
        BY <1>1, <1>2, <2>2, <3>3, <3>5, <3>6, <3>7, <3>8
           DEF SerializationsTotal, OrElse, Gains
      <3>11. InferencesTotal'
        BY <1>1, <1>2, <2>2, <3>3, <3>5, <3>6, <3>7, <3>8
           DEF InferencesTotal, OrElse, Gains
      <3>12. QED
        BY <3>9, <3>10, <3>11 DEF SumsTotal
    <2>5. QED
      BY <2>3, <2>4
  <1>8. \A r \in Reports' : Settled(r)'
    <2>1. \A q \in 0..MaxQueries : Waiters(q)' \subseteq Waiters(q)
      BY <1>1 DEF Waiters, Goes
    <2>2. QED
      BY <1>1, <1>4, <1>5, <2>1, SettledStay DEF TimingInv
  <1>9. QED
    BY <1>6, <1>7, <1>8 DEF TimingInv

\* Before the first query there is nothing to sum up and nothing to tell.
LEMMA TimingInit == Init => TimingInv
  <1>1. SUFFICES ASSUME Init PROVE TimingInv
    OBVIOUS
  <1>2. TimingTypes
    BY <1>1 DEF Init, ProfileInit, TimingTypes, ZeroCounts, CountFields,
                FreshProfile, ProfileSums, EmptyAccount, AccountSums, Heard
  <1>3. SumsTotal
    BY <1>1 DEF Init, SumsTotal
  <1>4. Reports = {}
    BY <1>1 DEF Init, ProfileInit, Reports, LastReports
  <1>5. QED
    BY <1>2, <1>3, <1>4 DEF TimingInv

\* Every step keeps the sums.
LEMMA TimingStep ==
  ASSUME SessionInv, TimingInv, [Next]_vars
  PROVE  TimingInv'
  BY OpensStep, ClosesStep, StillStep, AttemptStep, CallStep, AnswerStep

\* A sum in a report covers every external request the query made: what its
\* answers told, no more and no less, although detailed timing may be asked
\* for in the middle of the query, requests fail, and some are under way when
\* it ends (record_profile_context, the sample counts of render_profile).
THEOREM ReportsTellTotals == Spec => []ReportedSumsAreTotal
  <1>1. TimingInv => ReportedSumsAreTotal
    BY DEF TimingInv, Settled, TellsTotals, ReportedSumsAreTotal
  <1>2. SessionInv /\ TimingInv /\ [Next]_vars => TimingInv'
    BY TimingStep
  <1>3. QED
    BY SessionInvariant, TimingInit, <1>1, <1>2, PTL DEF Spec
==============================================================================
