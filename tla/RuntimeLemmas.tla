---------------------------- MODULE RuntimeLemmas ----------------------------
(***************************************************************************)
(* Facts about the operators of ConnectionRuntime and ScalarThreads that   *)
(* the proofs about the executors rest on.                                 *)
(***************************************************************************)
EXTENDS ScalarThreads, FiniteSetTheorems, TLAPS

-----------------------------------------------------------------------------
(* Counting.                                                               *)

\* Adding natural numbers to any fields leaves QueryCounts a QueryCounts.
LEMMA PlusType ==
  ASSUME NEW c \in QueryCounts, NEW delta,
         \A f \in DOMAIN delta : delta[f] \in Nat
  PROVE  Plus(c, delta) \in QueryCounts
  <1>1. ASSUME NEW f \in CountFields
        PROVE  c[f] + (IF f \in DOMAIN delta THEN delta[f] ELSE 0) \in Nat
    <2>1. c[f] \in Nat
      BY DEF QueryCounts
    <2>2. CASE f \in DOMAIN delta
      BY <2>1, <2>2
    <2>3. CASE f \notin DOMAIN delta
      BY <2>1, <2>3
    <2>4. QED
      BY <2>2, <2>3
  <1>2. QED
    BY <1>1 DEF Plus, QueryCounts

\* An observation, for whichever query, leaves the counts well typed.
LEMMA RecordType ==
  ASSUME counts \in QueryCounts, NEW q, NEW delta,
         \A f \in DOMAIN delta : delta[f] \in Nat,
         Record(q, delta)
  PROVE  counts' \in QueryCounts
  BY PlusType DEF Record

\* No query starts with anything counted.
LEMMA ZeroCountsType == ZeroCounts \in QueryCounts
  BY DEF ZeroCounts, QueryCounts

\* record_optimized_rows.
LEMMA OptimizedRowsType ==
  ASSUME counts \in QueryCounts, NEW q,
         NEW i \in Nat, NEW n \in Nat, NEW v \in Nat, NEW g \in Nat,
         RecordOptimizedRows(q, i, n, v, g)
  PROVE  counts' \in QueryCounts
  <1> DEFINE d == [input_rows |-> i, null_rows |-> n, valid_rows |-> v,
                   deduplicated_rows |-> IF v > g THEN v - g ELSE 0]
  <1>1. \A f \in DOMAIN d : d[f] \in Nat
    OBVIOUS
  <1>2. Record(q, d)
    BY DEF RecordOptimizedRows
  <1> HIDE DEF d
  <1>3. QED
    BY <1>1, <1>2, RecordType

\* record_cache_hit, record_provider_failure and record_failed_request.
LEMMA OneCountType ==
  ASSUME counts \in QueryCounts, NEW q,
         \/ RecordCacheHit(q) \/ RecordProviderFailure(q)
         \/ RecordFailedRequest(q)
  PROVE  counts' \in QueryCounts
  <1>1. CASE RecordCacheHit(q)
    BY <1>1, RecordType, SMT DEF RecordCacheHit
  <1>2. CASE RecordProviderFailure(q)
    BY <1>2, RecordType, RuntimeAssumption DEF RecordProviderFailure, EmptyMap
  <1>3. CASE RecordFailedRequest(q)
    BY <1>3, RecordType DEF RecordFailedRequest
  <1>4. QED
    BY <1>1, <1>2, <1>3

\* record_provider_attempt.
LEMMA AttemptType ==
  ASSUME counts \in QueryCounts, NEW q, NEW size \in Nat,
         RecordProviderAttempt(q, size)
  PROVE  counts' \in QueryCounts
  <1> DEFINE e == [provider_invocations |-> 1, external_requests |-> 1,
                   batch_size_sum |-> size,
                   batched_requests |-> IF size > 1 THEN 1 ELSE 0]
             l == [provider_invocations |-> 1]
  <1>1. \A f \in DOMAIN e : e[f] \in Nat
    OBVIOUS
  <1>2. \A f \in DOMAIN l : l[f] \in Nat
    OBVIOUS
  <1>3. Record(q, e) \/ Record(q, l)
    BY RuntimeAssumption DEF RecordProviderAttempt
  <1> HIDE DEF e, l
  <1>4. QED
    BY <1>1, <1>2, <1>3, RecordType

\* record_provider_response.
LEMMA ResponseType ==
  ASSUME counts \in QueryCounts, NEW q, NEW u \in BOOLEAN,
         RecordProviderResponse(q, u)
  PROVE  counts' \in QueryCounts
  <1> DEFINE n == [usage_response_count |-> 1, tokens |-> 1]
             m == [usage_response_count |-> 1, usage_missing_count |-> 1]
  <1>1. \A f \in DOMAIN n : n[f] \in Nat
    OBVIOUS
  <1>2. \A f \in DOMAIN m : m[f] \in Nat
    OBVIOUS
  <1>3. \A f \in DOMAIN EmptyMap : EmptyMap[f] \in Nat
    BY DEF EmptyMap
  <1>4. Record(q, n) \/ Record(q, m) \/ Record(q, EmptyMap)
    BY RuntimeAssumption DEF RecordProviderResponse
  <1> HIDE DEF n, m
  <1>5. QED
    BY <1>1, <1>2, <1>3, <1>4, RecordType

\* claim_query_entry counts a unique judgment or a duplicate.
LEMMA ClaimCountsType ==
  ASSUME counts \in QueryCounts,
         (\E id : NewEntry(id)) \/ JoinEntry
  PROVE  counts' \in QueryCounts
  <1> DEFINE u == [unique_judgments |-> 1]
             d == [deduplicated_rows |-> 1]
  <1>1. \A f \in DOMAIN u : u[f] \in Nat
    OBVIOUS
  <1>2. \A f \in DOMAIN d : d[f] \in Nat
    OBVIOUS
  <1>3. counts' = Plus(counts, u) \/ counts' = Plus(counts, d)
    BY DEF NewEntry, JoinEntry
  <1> HIDE DEF u, d
  <1>4. QED
    BY <1>1, <1>2, <1>3, PlusType

\* The rows of a chunk of each sort can be counted.
LEMMA RowCardinalities ==
  ASSUME NEW c \in Chunks \cup {<< >>}
  PROVE  /\ Len(c) \in Nat
         /\ Cardinality(NullRows(c)) \in Nat
         /\ Cardinality(JudgedRows(c)) \in Nat
         /\ Cardinality(Leads(c)) \in Nat
  <1>1. /\ Len(c) \in Nat
        /\ DOMAIN c = 1..Len(c)
    <2>1. CASE c \in Chunks
      <3>1. c \in Seq(Keys \cup {NullRow, BadRow})
        BY <2>1, ThreadAssumption
      <3>2. QED
        BY <3>1
    <2>2. CASE c = << >>
      BY <2>2
    <2>3. QED
      BY <2>1, <2>2
  <1>2. IsFiniteSet(DOMAIN c)
    BY <1>1, FS_Interval
  <1>3. /\ NullRows(c) \in SUBSET DOMAIN c
        /\ JudgedRows(c) \in SUBSET DOMAIN c
        /\ Leads(c) \in SUBSET DOMAIN c
    BY DEF NullRows, JudgedRows, Leads
  <1>4. QED
    BY <1>1, <1>2, <1>3, FS_Subset, FS_CardinalityType

\* A chunk has as many groups as judged rows at most, and a chunk without bad
\* rows has null rows and judged rows only.
LEMMA RowPartition ==
  ASSUME NEW c \in Chunks \cup {<< >>}
  PROVE  /\ IsFiniteSet(DOMAIN c) /\ Cardinality(DOMAIN c) = Len(c)
         /\ IsFiniteSet(Leads(c))
         /\ Cardinality(Leads(c)) <= Cardinality(JudgedRows(c))
         /\ ~HasBadRow(c) => Len(c) = Cardinality(NullRows(c))
                                      + Cardinality(JudgedRows(c))
  <1>1. /\ DOMAIN c = 1..Len(c) /\ Len(c) \in Nat
        /\ \A i \in DOMAIN c : c[i] \in Keys \cup {NullRow, BadRow}
    <2>1. CASE c \in Chunks
      <3>1. c \in Seq(Keys \cup {NullRow, BadRow})
        BY <2>1, ThreadAssumption
      <3>2. QED
        BY <3>1
    <2>2. CASE c = << >>
      BY <2>2
    <2>3. QED
      BY <2>1, <2>2
  <1>2. IsFiniteSet(DOMAIN c) /\ Cardinality(DOMAIN c) = Len(c)
    BY <1>1, FS_Interval, SMTT(30)
  <1>3. /\ NullRows(c) \in SUBSET DOMAIN c
        /\ JudgedRows(c) \in SUBSET DOMAIN c
        /\ Leads(c) \in SUBSET JudgedRows(c)
    BY DEF NullRows, JudgedRows, Leads
  <1>4. IsFiniteSet(NullRows(c)) /\ IsFiniteSet(JudgedRows(c))
    BY <1>2, <1>3, FS_Subset
  <1>5. /\ IsFiniteSet(Leads(c))
        /\ Cardinality(Leads(c)) <= Cardinality(JudgedRows(c))
    BY <1>3, <1>4, FS_Subset
  <1>6. ASSUME ~HasBadRow(c)
        PROVE  Len(c) = Cardinality(NullRows(c)) + Cardinality(JudgedRows(c))
    <2>1. /\ NullRows(c) \cup JudgedRows(c) = DOMAIN c
          /\ NullRows(c) \cap JudgedRows(c) = {}
      BY <1>1, <1>6, ThreadAssumption DEF HasBadRow, NullRows, JudgedRows
    <2>2. Cardinality(NullRows(c) \cup JudgedRows(c))
            = Cardinality(NullRows(c)) + Cardinality(JudgedRows(c))
              - Cardinality(NullRows(c) \cap JudgedRows(c))
      BY <1>4, FS_Union
    <2>3. /\ Cardinality(NullRows(c)) \in Nat
          /\ Cardinality(JudgedRows(c)) \in Nat
      BY <1>4, FS_CardinalityType
    <2>4. Cardinality(NullRows(c) \cap JudgedRows(c)) = 0
      BY <2>1, FS_EmptySet
    <2>5. QED
      BY <1>2, <2>1, <2>2, <2>3, <2>4
  <1>7. QED
    BY <1>2, <1>5, <1>6

\* The rows of a chunk are numbered from 1.
LEMMA RowNumbers ==
  ASSUME NEW c \in Chunks \cup {<< >>}
  PROVE  /\ JudgedRows(c) \subseteq Nat
         /\ Leads(c) \subseteq JudgedRows(c)
         /\ \A i \in JudgedRows(c) : c[i] \in Keys
  <1>1. DOMAIN c \subseteq Nat
    <2>1. CASE c \in Chunks
      <3>1. c \in Seq(Keys \cup {NullRow, BadRow})
        BY <2>1, ThreadAssumption
      <3>2. QED
        BY <3>1
    <2>2. CASE c = << >>
      BY <2>2
    <2>3. QED
      BY <2>1, <2>2
  <1>2. QED
    BY <1>1 DEF JudgedRows, Leads

-----------------------------------------------------------------------------
(* The runtime's state under its operations.                               *)

\* A step that leaves the shared state alone but for counts and permits.
LEMMA RuntimeFrame ==
  ASSUME RuntimeTypeOK, counts' \in QueryCounts, permits' \in Nat,
         UNCHANGED <<queryVars, entryVars, credVars, cache>>
  PROVE  RuntimeTypeOK'
  BY DEF RuntimeTypeOK, queryVars, entryVars, credVars

\* Settling entries keeps them entries of the same identities.
LEMMA CompleteKeeps ==
  ASSUME slots \in Seq(QueryEntry), NEW E, NEW r \in Outcome,
         CompleteEntries(E, r)
  PROVE  /\ slots' \in Seq(QueryEntry)
         /\ DOMAIN slots' = DOMAIN slots
         /\ \A e \in DOMAIN slots :
              /\ slots'[e].id = slots[e].id
              /\ e \in E => slots'[e].result # Pending
              /\ e \notin E => slots'[e] = slots[e]
  <1> DEFINE S(e) == IF e \in E /\ slots[e].result = Pending
                     THEN [slots[e] EXCEPT !.result = r] ELSE slots[e]
  <1>1. slots' = [e \in DOMAIN slots |-> S(e)]
    BY DEF CompleteEntries
  <1>2. ASSUME NEW e \in DOMAIN slots
        PROVE  /\ S(e) \in QueryEntry
               /\ S(e).id = slots[e].id
               /\ e \in E => S(e).result # Pending
               /\ e \notin E => S(e) = slots[e]
    <2>1. slots[e] \in QueryEntry
      OBVIOUS
    <2>2. QED
      BY <2>1, RuntimeAssumption DEF QueryEntry
  <1>3. Len(slots) \in Nat /\ DOMAIN slots = 1..Len(slots)
    OBVIOUS
  <1> HIDE DEF S
  <1>4. slots' \in [1..Len(slots) -> QueryEntry]
    BY <1>1, <1>2, <1>3
  <1>5. slots' \in Seq(QueryEntry)
    BY <1>3, <1>4
  <1>6. QED
    BY <1>1, <1>2, <1>5

\* A new entry is one more slot, under its identity.
LEMMA NewEntryKeeps ==
  ASSUME RuntimeTypeOK, NEW id \in Identity, NewEntry(id)
  PROVE  /\ slots' \in Seq(QueryEntry)
         /\ Len(slots) + 1 \in DOMAIN slots' /\ Len(slots) + 1 \in Nat
         /\ Len(slots) + 1 \notin DOMAIN slots
         /\ DOMAIN slots' = DOMAIN slots \cup {Len(slots) + 1}
         /\ \A e \in DOMAIN slots : slots'[e] = slots[e]
         /\ slots'[Len(slots) + 1].id = id
         /\ DOMAIN entries' = DOMAIN entries \cup {id}
         /\ entries' = [i \in DOMAIN entries' |-> entries'[i]]
         /\ entries'[id] = Len(slots) + 1
         /\ \A i \in DOMAIN entries : i # id => entries'[i] = entries[i]
  <1>1. [id |-> id, result |-> Pending] \in QueryEntry
    BY DEF QueryEntry
  <1>2. slots' = Append(slots, [id |-> id, result |-> Pending])
    BY DEF NewEntry
  <1>3. slots \in Seq(QueryEntry)
    BY DEF RuntimeTypeOK
  <1>4. QED
    BY <1>1, <1>2, <1>3 DEF NewEntry

\* The cache after a reconciliation, an insertion or a clear.
LEMMA CacheTypes ==
  ASSUME RuntimeTypeOK
  PROVE  /\ CacheReconcile =>
              /\ cache' = [i \in DOMAIN cache' |-> cache'[i]]
              /\ DOMAIN cache' \subseteq DOMAIN cache
              /\ \A i \in DOMAIN cache' : cache'[i] = cache[i]
         /\ \A id \in CacheIdentity, a \in Answer : CacheInsert(id, a) =>
              /\ cache' = [i \in DOMAIN cache' |-> cache'[i]]
              /\ DOMAIN cache' \subseteq CacheIdentity
              /\ \A i \in DOMAIN cache' : cache'[i] \in Answer
  <1>1. ASSUME CacheReconcile
        PROVE  /\ cache' = [i \in DOMAIN cache' |-> cache'[i]]
               /\ DOMAIN cache' \subseteq DOMAIN cache
               /\ \A i \in DOMAIN cache' : cache'[i] = cache[i]
    BY <1>1 DEF CacheReconcile, Keep
  <1>2. ASSUME NEW id \in CacheIdentity, NEW a \in Answer, CacheInsert(id, a)
        PROVE  /\ cache' = [i \in DOMAIN cache' |-> cache'[i]]
               /\ DOMAIN cache' \subseteq CacheIdentity
               /\ \A i \in DOMAIN cache' : cache'[i] \in Answer
    <2>1. CASE CacheReconcile
      BY <1>1, <2>1 DEF RuntimeTypeOK
    <2>2. CASE \E D \in SUBSET (DOMAIN cache \ {id}) :
                 cache' = [i \in D \cup {id} |-> IF i = id THEN a ELSE cache[i]]
      <3>1. PICK D \in SUBSET (DOMAIN cache \ {id}) :
              cache' = [i \in D \cup {id} |-> IF i = id THEN a ELSE cache[i]]
        BY <2>2
      <3>2. QED
        BY <3>1 DEF RuntimeTypeOK
    <2>3. QED
      BY <1>2, <2>1, <2>2 DEF CacheInsert
  <1>3. QED
    BY <1>1, <1>2

\* The ledger stays a ledger.
LEMMA ServeType ==
  ASSUME TaskTypeOK, NEW q, NEW billed \in {0, 1}, Serve(q, billed)
  PROVE  ledger' \in [0..MaxQueries -> [sent : Nat, billed : Nat]]
  <1> DEFINE r == [sent |-> ledger[q].sent + 1,
                   billed |-> ledger[q].billed + billed]
  <1>1. ledger' = ledger \/ ledger' = [ledger EXCEPT ![q] = r]
    BY DEF Serve
  <1>2. q \in 0..MaxQueries => r \in [sent : Nat, billed : Nat]
    BY SMTT(30) DEF TaskTypeOK
  <1> HIDE DEF r
  <1>3. QED
    BY <1>1, <1>2 DEF TaskTypeOK

-----------------------------------------------------------------------------
(* Counting threads, and what an observation adds to each count.           *)

\* Two sets of threads that differ in one thread at most.
LEMMA OneMoves ==
  ASSUME NEW A \in SUBSET Workers, NEW B \in SUBSET Workers, NEW w \in Workers,
         \A v \in Workers : v # w => (v \in A <=> v \in B)
  PROVE  /\ Cardinality(A) \in Nat /\ Cardinality(B) \in Nat
         /\ (w \in A <=> w \in B) => Cardinality(A) = Cardinality(B)
         /\ w \notin A /\ w \in B => Cardinality(B) = Cardinality(A) + 1
         /\ w \in A /\ w \notin B => Cardinality(A) = Cardinality(B) + 1
  <1>1. IsFiniteSet(A) /\ IsFiniteSet(B)
    BY ThreadAssumption, FS_Subset
  <1>2. Cardinality(A) \in Nat /\ Cardinality(B) \in Nat
    BY <1>1, FS_CardinalityType
  <1>3. CASE w \in A <=> w \in B
    <2>1. A = B
      BY <1>3
    <2>2. QED
      BY <1>2, <1>3, <2>1
  <1>4. CASE w \notin A /\ w \in B
    <2>1. B = A \cup {w}
      BY <1>4
    <2>2. Cardinality(B) = Cardinality(A) + 1
      BY <1>1, <1>4, <2>1, FS_AddElement
    <2>3. QED
      BY <1>2, <1>4, <2>2
  <1>5. CASE w \in A /\ w \notin B
    <2>1. A = B \cup {w}
      BY <1>5
    <2>2. Cardinality(A) = Cardinality(B) + 1
      BY <1>1, <1>5, <2>1, FS_AddElement
    <2>3. QED
      BY <1>2, <1>5, <2>2
  <1>6. QED
    BY <1>3, <1>4, <1>5

\* No threads, no count.
LEMMA NoneCounted == Cardinality({}) = 0
  BY FS_EmptySet

\* An observation for another query than the active one changes nothing; one
\* for the active query adds to its fields.
LEMMA RecordCounts ==
  ASSUME NEW q, NEW delta, Record(q, delta)
  PROVE  /\ active # q => counts' = counts
         /\ active = q => \A f \in CountFields :
              counts'[f] = counts[f]
                           + (IF f \in DOMAIN delta THEN delta[f] ELSE 0)
  BY DEF Record, Plus

\* A count and the two it is made of, with what is still ahead: all change by
\* what changes hands.
LEMMA Carried ==
  ASSUME NEW a \in Nat, NEW b \in Nat, NEW c \in Nat, NEW r \in Nat,
         NEW a2 \in Nat, NEW b2 \in Nat, NEW c2 \in Nat, NEW r2 \in Nat,
         NEW x \in Nat, NEW x2 \in Nat,
         a = b + c + r, r2 + x = r + x2,
         a2 + b + c + x = a + b2 + c2 + x2
  PROVE  a2 = b2 + c2 + r2
  OBVIOUS

\* record_row_input, and record_row_result for a NULL row.
LEMMA RowCounts ==
  ASSUME counts \in QueryCounts, NEW q
  PROVE  /\ RecordRowInput(q) => counts' =
              IF active = q
              THEN [counts EXCEPT !.input_rows = @ + 1] ELSE counts
         /\ RecordRowResult(q, TRUE) => counts' =
              IF active = q
              THEN [counts EXCEPT !.null_rows = @ + 1] ELSE counts
  <1>1. ASSUME RecordRowInput(q)
        PROVE  counts' = IF active = q
                         THEN [counts EXCEPT !.input_rows = @ + 1] ELSE counts
    BY <1>1 DEF RecordRowInput, Record, Plus, QueryCounts, CountFields
  <1>2. ASSUME RecordRowResult(q, TRUE)
        PROVE  counts' = IF active = q
                         THEN [counts EXCEPT !.null_rows = @ + 1] ELSE counts
    BY <1>2 DEF RecordRowResult, Record, Plus, QueryCounts, CountFields
  <1>3. QED
    BY <1>1, <1>2

\* record_row_result for a judged row.
LEMMA ResultCounts ==
  ASSUME counts \in QueryCounts, NEW q, RecordRowResult(q, FALSE)
  PROVE  /\ active # q => counts' = counts
         /\ active = q =>
              /\ counts'.valid_rows = counts.valid_rows + 1
              /\ counts'.unique_judgments = counts.unique_judgments + 1
              /\ \A f \in CountFields \ {"valid_rows", "unique_judgments"} :
                   counts'[f] = counts[f]
  <1> DEFINE d == [valid_rows |-> 1, unique_judgments |-> 1]
  <1>1. /\ DOMAIN d = {"valid_rows", "unique_judgments"}
        /\ d["valid_rows"] = 1 /\ d["unique_judgments"] = 1
    OBVIOUS
  <1>2. Record(q, d)
    BY DEF RecordRowResult
  <1> HIDE DEF d
  <1>3. QED
    BY <1>1, <1>2 DEF Record, Plus, QueryCounts, CountFields

\* record_provider_attempt adds a call, and a request if it is external.
LEMMA AttemptCounts ==
  ASSUME counts \in QueryCounts, NEW q, NEW size \in Nat,
         RecordProviderAttempt(q, size)
  PROVE  /\ active # q => counts' = counts
         /\ active = q =>
              /\ counts'.provider_invocations = counts.provider_invocations + 1
              /\ counts'.external_requests = counts.external_requests
                                             + (IF External THEN 1 ELSE 0)
              /\ counts'.batch_size_sum = counts.batch_size_sum
                                          + (IF External THEN size ELSE 0)
              /\ counts'.batched_requests
                   = counts.batched_requests
                     + (IF External /\ size > 1 THEN 1 ELSE 0)
              /\ \A f \in CountFields \ {"provider_invocations",
                                         "external_requests", "batch_size_sum",
                                         "batched_requests"} :
                   counts'[f] = counts[f]
  <1> DEFINE e == [provider_invocations |-> 1, external_requests |-> 1,
                   batch_size_sum |-> size,
                   batched_requests |-> IF size > 1 THEN 1 ELSE 0]
             l == [provider_invocations |-> 1]
  <1>1. /\ DOMAIN e = {"provider_invocations", "external_requests",
                       "batch_size_sum", "batched_requests"}
        /\ e["provider_invocations"] = 1 /\ e["external_requests"] = 1
        /\ e["batch_size_sum"] = size
        /\ e["batched_requests"] = IF size > 1 THEN 1 ELSE 0
    OBVIOUS
  <1>2. DOMAIN l = {"provider_invocations"} /\ l["provider_invocations"] = 1
    OBVIOUS
  <1>3. \/ External /\ Record(q, e)
        \/ ~External /\ Record(q, l)
    BY RuntimeAssumption DEF RecordProviderAttempt
  <1> HIDE DEF e, l
  <1>4. CASE active # q
    BY <1>3, <1>4 DEF Record
  <1>5. CASE active = q /\ External /\ Record(q, e)
    BY <1>1, <1>5 DEF Record, Plus, QueryCounts, CountFields
  <1>6. CASE active = q /\ ~External /\ Record(q, l)
    BY <1>2, <1>6 DEF Record, Plus, QueryCounts, CountFields
  <1>7. QED
    BY <1>3, <1>4, <1>5, <1>6

\* record_provider_response counts the usage figures or their absence.
LEMMA ResponseCounts ==
  ASSUME counts \in QueryCounts, NEW q, NEW u \in BOOLEAN,
         RecordProviderResponse(q, u)
  PROVE  /\ active # q \/ ~External => counts' = counts
         /\ active = q /\ External =>
              /\ counts'.usage_response_count = counts.usage_response_count + 1
              /\ counts'.tokens = counts.tokens + (IF u THEN 1 ELSE 0)
              /\ counts'.usage_missing_count = counts.usage_missing_count
                                               + (IF u THEN 0 ELSE 1)
              /\ \A f \in CountFields \ {"usage_response_count", "tokens",
                                         "usage_missing_count"} :
                   counts'[f] = counts[f]
  <1> DEFINE n == [usage_response_count |-> 1, tokens |-> 1]
             m == [usage_response_count |-> 1, usage_missing_count |-> 1]
  <1>1. /\ DOMAIN n = {"usage_response_count", "tokens"}
        /\ n["usage_response_count"] = 1 /\ n["tokens"] = 1
    OBVIOUS
  <1>2. /\ DOMAIN m = {"usage_response_count", "usage_missing_count"}
        /\ m["usage_response_count"] = 1 /\ m["usage_missing_count"] = 1
    OBVIOUS
  <1>3. \/ ~External /\ Record(q, EmptyMap)
        \/ External /\ u /\ Record(q, n)
        \/ External /\ ~u /\ Record(q, m)
    BY RuntimeAssumption DEF RecordProviderResponse
  <1>4. Plus(counts, EmptyMap) = counts
    BY DEF Plus, EmptyMap, QueryCounts
  <1> HIDE DEF n, m
  <1>5. CASE active # q
    BY <1>3, <1>5 DEF Record
  <1>6. CASE active = q /\ ~External /\ Record(q, EmptyMap)
    BY <1>4, <1>6 DEF Record
  <1>7. CASE active = q /\ External /\ u /\ Record(q, n)
    BY <1>1, <1>7 DEF Record, Plus, QueryCounts, CountFields
  <1>8. CASE active = q /\ External /\ ~u /\ Record(q, m)
    BY <1>2, <1>8 DEF Record, Plus, QueryCounts, CountFields
  <1>9. QED
    BY <1>3, <1>5, <1>6, <1>7, <1>8

\* The error arm of evaluate_row and of a solo request.
LEMMA FailureCounts ==
  ASSUME counts \in QueryCounts, NEW q,
         Record(q, [failed_requests |-> 1, usage_missing_count |-> 1])
  PROVE  /\ active # q => counts' = counts
         /\ active = q =>
              /\ counts'.failed_requests = counts.failed_requests + 1
              /\ counts'.usage_missing_count = counts.usage_missing_count + 1
              /\ \A f \in CountFields \ {"failed_requests",
                                         "usage_missing_count"} :
                   counts'[f] = counts[f]
  <1> DEFINE d == [failed_requests |-> 1, usage_missing_count |-> 1]
  <1>1. /\ DOMAIN d = {"failed_requests", "usage_missing_count"}
        /\ d["failed_requests"] = 1 /\ d["usage_missing_count"] = 1
    OBVIOUS
  <1>2. Record(q, d)
    OBVIOUS
  <1> HIDE DEF d
  <1>3. QED
    BY <1>1, <1>2 DEF Record, Plus, QueryCounts, CountFields

\* record_optimized_rows.
LEMMA OptimizedCounts ==
  ASSUME counts \in QueryCounts, NEW q,
         NEW i \in Nat, NEW n \in Nat, NEW v \in Nat, NEW g \in Nat,
         RecordOptimizedRows(q, i, n, v, g)
  PROVE  /\ active # q => counts' = counts
         /\ active = q =>
              /\ counts'.input_rows = counts.input_rows + i
              /\ counts'.null_rows = counts.null_rows + n
              /\ counts'.valid_rows = counts.valid_rows + v
              /\ counts'.deduplicated_rows = counts.deduplicated_rows
                                             + (IF v > g THEN v - g ELSE 0)
              /\ \A f \in CountFields \ {"input_rows", "null_rows", "valid_rows",
                                         "deduplicated_rows"} :
                   counts'[f] = counts[f]
  <1> DEFINE d == [input_rows |-> i, null_rows |-> n, valid_rows |-> v,
                   deduplicated_rows |-> IF v > g THEN v - g ELSE 0]
  <1>1. /\ DOMAIN d = {"input_rows", "null_rows", "valid_rows",
                       "deduplicated_rows"}
        /\ d["input_rows"] = i /\ d["null_rows"] = n /\ d["valid_rows"] = v
        /\ d["deduplicated_rows"] = IF v > g THEN v - g ELSE 0
    OBVIOUS
  <1>2. Record(q, d)
    BY DEF RecordOptimizedRows
  <1> HIDE DEF d
  <1>3. QED
    BY <1>1, <1>2 DEF Record, Plus, QueryCounts, CountFields

\* record_cache_hit and record_failed_request.
LEMMA OneCounts ==
  ASSUME counts \in QueryCounts, NEW q
  PROVE  /\ RecordCacheHit(q) => counts' =
              IF active = q
              THEN [counts EXCEPT !.cache_hit_judgments = @ + 1] ELSE counts
         /\ RecordFailedRequest(q) => counts' =
              IF active = q
              THEN [counts EXCEPT !.failed_requests = @ + 1] ELSE counts
         /\ RecordProviderFailure(q) => counts' =
              IF active = q /\ External
              THEN [counts EXCEPT !.usage_missing_count = @ + 1] ELSE counts
  <1>1. ASSUME RecordCacheHit(q)
        PROVE  counts' = IF active = q
                         THEN [counts EXCEPT !.cache_hit_judgments = @ + 1]
                         ELSE counts
    BY <1>1 DEF RecordCacheHit, Record, Plus, QueryCounts, CountFields
  <1>2. ASSUME RecordFailedRequest(q)
        PROVE  counts' = IF active = q
                         THEN [counts EXCEPT !.failed_requests = @ + 1]
                         ELSE counts
    BY <1>2 DEF RecordFailedRequest, Record, Plus, QueryCounts, CountFields
  <1>3. ASSUME RecordProviderFailure(q)
        PROVE  counts' = IF active = q /\ External
                         THEN [counts EXCEPT !.usage_missing_count = @ + 1]
                         ELSE counts
    <2>1. CASE External
      BY <1>3, <2>1
         DEF RecordProviderFailure, Record, Plus, QueryCounts, CountFields
    <2>2. CASE ~External
      BY <1>3, <2>2
         DEF RecordProviderFailure, Record, Plus, EmptyMap, QueryCounts
    <2>3. QED
      BY <2>1, <2>2
  <1>4. QED
    BY <1>1, <1>2, <1>3

\* claim_query_entry.
LEMMA ClaimCounts ==
  ASSUME counts \in QueryCounts
  PROVE  /\ \A id : NewEntry(id) =>
              counts' = [counts EXCEPT !.unique_judgments = @ + 1]
         /\ JoinEntry =>
              counts' = [counts EXCEPT !.deduplicated_rows = @ + 1]
  <1>1. ASSUME NEW id, NewEntry(id)
        PROVE  counts' = [counts EXCEPT !.unique_judgments = @ + 1]
    <2>1. counts' = Plus(counts, [unique_judgments |-> 1])
      BY <1>1 DEF NewEntry
    <2>2. QED
      BY <2>1 DEF Plus, QueryCounts, CountFields
  <1>2. ASSUME JoinEntry
        PROVE  counts' = [counts EXCEPT !.deduplicated_rows = @ + 1]
    BY <1>2 DEF JoinEntry, Plus, QueryCounts, CountFields
  <1>3. QED
    BY <1>1, <1>2

-----------------------------------------------------------------------------
(* Threads of the active query.                                            *)

\* Those at one of some labels.
Ours(labels) == {w \in Workers : scope[w] = active /\ pc[w] \in labels}

\* One thread's move, seen by a set of threads of the active query.
LEMMA OursMove ==
  ASSUME NEW CONSTANT labels, NEW w \in Workers, scope' = scope,
         active' = active, \A v \in Workers : v # w => pc'[v] = pc[v]
  PROVE  /\ Cardinality(Ours(labels)) \in Nat
         /\ Cardinality(Ours(labels)') \in Nat
         /\ (scope[w] # active \/ (pc[w] \in labels <=> pc'[w] \in labels)) =>
              Ours(labels)' = Ours(labels)
         /\ (scope[w] = active /\ pc[w] \notin labels /\ pc'[w] \in labels) =>
              Cardinality(Ours(labels)') = Cardinality(Ours(labels)) + 1
         /\ (scope[w] = active /\ pc[w] \in labels /\ pc'[w] \notin labels) =>
              Cardinality(Ours(labels)) = Cardinality(Ours(labels)') + 1
  <1> DEFINE A == Ours(labels)
             B == Ours(labels)'
  <1>1. A \in SUBSET Workers /\ B \in SUBSET Workers
    BY DEF Ours
  <1>2. \A v \in Workers : v # w => (v \in A <=> v \in B)
    BY DEF Ours
  <1>3. /\ w \in A <=> scope[w] = active /\ pc[w] \in labels
        /\ w \in B <=> scope[w] = active /\ pc'[w] \in labels
    BY DEF Ours
  <1> HIDE DEF A, B
  <1>4. /\ Cardinality(A) \in Nat /\ Cardinality(B) \in Nat
        /\ w \notin A /\ w \in B => Cardinality(B) = Cardinality(A) + 1
        /\ w \in A /\ w \notin B => Cardinality(A) = Cardinality(B) + 1
    BY <1>1, <1>2, OneMoves
  <1>5. (w \in A <=> w \in B) => A = B
    BY <1>1, <1>2
  <1>6. QED
    BY <1>3, <1>4, <1>5 DEF A, B

-----------------------------------------------------------------------------
(* Credential scopes, and what it means that an answer is kept under an    *)
(* identity.                                                               *)

\* Scope s stands for credential c: it was handed out for c, and whoever
\* has it now, the connection or a thread, has it for c.
ScopeOf(s, c) ==
  /\ s \in Nat /\ s < nextScope
  /\ s = credScope => c = fingerprint
  /\ \A w \in Workers : cscope[w] = s => ctx[w].cred = c

ScopesApart ==
  /\ credScope < nextScope
  /\ \A w \in Workers : ScopeOf(cscope[w], ctx[w].cred)

IsAnswerTo(a, id) ==
  /\ a.key = id.key /\ a.model = id.model
  /\ id.model \notin PinnedModels => a.query = id.query
  /\ ScopeOf(id.scope, a.cred)

\* identity_scopes gives a chunk a scope that stands for its own credential,
\* and every other scope goes on standing for what it stood for.
LEMMA ScopeGiven ==
  ASSUME RuntimeTypeOK, TaskTypeOK, ScopesApart, NEW w \in Workers,
         \E x \in Contexts, c \in Chunks :
           /\ chunk' = [chunk EXCEPT ![w] = c]
           /\ ctx' = [ctx EXCEPT ![w] = x]
           /\ cscope' = [cscope EXCEPT ![w] = CredentialScope(x.cred)]
           /\ UseCredential(x.cred)
  PROVE  /\ ScopesApart'
         /\ \A s, c : ScopeOf(s, c) => ScopeOf(s, c)'
  <1>1. PICK x \in Contexts :
          /\ ctx' = [ctx EXCEPT ![w] = x]
          /\ cscope' = [cscope EXCEPT ![w] = CredentialScope(x.cred)]
          /\ UseCredential(x.cred)
    OBVIOUS
  <1>2. /\ credScope \in Nat /\ nextScope \in Nat
        /\ credScope' = CredentialScope(x.cred) /\ fingerprint' = x.cred
        /\ cscope'[w] = credScope' /\ ctx'[w] = x
        /\ \A v \in Workers : v # w => cscope'[v] = cscope[v]
                                       /\ ctx'[v] = ctx[v]
        /\ \/ /\ x.cred = fingerprint
              /\ credScope' = credScope /\ nextScope' = nextScope
           \/ credScope' = nextScope /\ nextScope' = nextScope + 1
    BY <1>1
       DEF UseCredential, CredentialScope, TaskTypeOK, RuntimeTypeOK
  <1>3. ASSUME NEW s, NEW c, ScopeOf(s, c)
        PROVE  ScopeOf(s, c)'
    <2>1. s < nextScope' /\ (s = credScope' => c = x.cred)
      BY <1>2, <1>3 DEF ScopeOf, ScopesApart
    <2>2. QED
      BY <1>2, <1>3, <2>1 DEF ScopeOf
  <1>4. ASSUME NEW v \in Workers
        PROVE  ScopeOf(cscope[v], ctx[v].cred)'
    <2>1. CASE v # w
      <3>1. ScopeOf(cscope[v], ctx[v].cred)
        BY DEF ScopesApart
      <3>2. QED
        BY <1>2, <1>3, <2>1, <3>1 DEF ScopeOf
    <2>2. CASE v = w
      <3>1. credScope' < nextScope'
        BY <1>2 DEF ScopesApart
      <3>2. ASSUME NEW u \in Workers, u # w, cscope'[u] = credScope'
            PROVE  ctx'[u].cred = x.cred
        BY <1>2, <3>2 DEF ScopesApart, ScopeOf
      <3>3. QED
        BY <1>2, <2>2, <3>1, <3>2 DEF ScopeOf
    <2>3. QED
      BY <2>1, <2>2
  <1>5. QED
    BY <1>2, <1>3, <1>4 DEF ScopesApart
=============================================================================
