-------------------------- MODULE RowExecutorProofs --------------------------
(***************************************************************************)
(* Proofs about RowExecutor: type correctness, the permit pool, and that   *)
(* the counts of a query that succeeded account for every row.             *)
(***************************************************************************)
EXTENDS RowExecutor, RuntimeLemmas

-----------------------------------------------------------------------------
(* Type correctness.  That the answer a thread builds is an answer needs   *)
(* the thread to be at a row with something to judge; that a result row is *)
(* counted once needs its outcome to be unset until the provider answers.  *)

\* Labels inside evaluate_row, past its first errors.
Judging == PermitLabels \cup {"permit", "acquire", "result"}

RowTypeOK ==
  /\ pc \in [Workers -> Labels]
  /\ pos \in [Workers -> Nat]
  /\ outcome \in [Workers -> Outcome]
  /\ reply \in [Workers -> Replies]

AtRow ==
  \A w \in Workers :
    /\ pc[w] \in {"row_input", "null_result"} => pos[w] \in DOMAIN chunk[w]
    /\ pc[w] \in Judging => pos[w] \in JudgedRows(chunk[w])
    /\ pc[w] \notin {"response", "release", "result"} => outcome[w] = Failed

TypeInv == TypeOK /\ AtRow

\* What a thread's step leaves alone of another.
Unmoved(v) ==
  /\ pc'[v] = pc[v] /\ pos'[v] = pos[v] /\ scope'[v] = scope[v]
  /\ chunk'[v] = chunk[v] /\ ctx'[v] = ctx[v]
  /\ outcome'[v] = outcome[v] /\ reply'[v] = reply[v]

\* Threads write their own variables only.
LEMMA OthersUnmoved ==
  ASSUME TypeInv, NEW w \in Workers, Start(w) \/ Step(w)
  PROVE  \A v \in Workers : v # w => Unmoved(v)
  <1>0. RowTypeOK /\ TaskTypeOK
    BY DEF TypeInv, TypeOK, RowTypeOK
  <1>1. CASE Start(w)
    BY <1>0, <1>1 DEF Start, Goto, RowTypeOK, TaskTypeOK, Unmoved
  <1>2. CASE Step(w)
    BY <1>0, <1>2
       DEF Step, RowInput, NullResult, Permit, Acquire, Attempt, Call, Failure,
           Response, Release, Result, NextRow, Goto, RowTypeOK, TaskTypeOK,
           Unmoved, taskVars, rowVars
  <1>3. QED
    BY <1>1, <1>2

\* What Init establishes.
LEMMA InitTypes == Init => TypeInv
  <1> SUFFICES ASSUME Init PROVE TypeInv
    OBVIOUS
  <1> USE DEF Init, ThreadsInit
  <1>1. RuntimeTypeOK
    BY ZeroCountsType, RuntimeAssumption DEF RuntimeInit, RuntimeTypeOK, EmptyMap
  <1>2. TaskTypeOK
    BY ThreadAssumption DEF TaskTypeOK
  <1>3. RowTypeOK
    BY DEF RowTypeOK, Labels, Resting, Outcome, Replies
  <1>4. AtRow
    BY DEF AtRow, Judging, PermitLabels
  <1>5. QED
    BY <1>1, <1>2, <1>3, <1>4 DEF TypeInv, TypeOK, RowTypeOK

\* The host's callbacks leave the threads where they are.
LEMMA HostTypes ==
  ASSUME TypeInv, Begin \/ End \/ Closed \/ UNCHANGED vars
  PROVE  TypeInv'
  <1> USE DEF TypeInv, TypeOK
  <1>1. UNCHANGED <<threadVars, rowVars>>
    BY DEF Begin, HostBegin, End, HostEnd, Closed, vars
  <1>2. RuntimeTypeOK'
    <2>1. CASE Begin
      BY <2>1, ZeroCountsType
         DEF Begin, HostBegin, BeginQuery, RuntimeTypeOK, EmptyMap, credVars
    <2>2. CASE End
      <3>1. PICK o \in QueryOutcomes : HostEnd(o)
        BY <2>2 DEF End
      <3>2. lastQuery' \subseteq QuerySnapshot
        BY <3>1 DEF HostEnd, EndQuery, RuntimeTypeOK, QuerySnapshot
      <3>3. QED
        BY <3>1, <3>2, ZeroCountsType
           DEF HostEnd, EndQuery, RuntimeTypeOK, EmptyMap, credVars
    <2>3. CASE UNCHANGED runtimeVars
      BY <2>3 DEF runtimeVars, queryVars, entryVars, credVars, RuntimeTypeOK
    <2>4. QED
      BY <2>1, <2>2, <2>3 DEF Closed, vars
  <1>3. TaskTypeOK'
    BY <1>1 DEF threadVars, taskVars, TaskTypeOK
  <1>4. AtRow'
    BY <1>1 DEF threadVars, taskVars, rowVars, AtRow
  <1>5. QED
    BY <1>1, <1>2, <1>3, <1>4 DEF threadVars, rowVars

\* Every step of a thread leaves the shared state well typed.
LEMMA ThreadRuntimeType ==
  ASSUME TypeInv, NEW w \in Workers, Start(w) \/ Step(w)
  PROVE  RuntimeTypeOK'
  <1> USE DEF TypeInv, TypeOK
  <1>1. CASE Start(w) \/ Permit(w) \/ Call(w)
    <2>1. UNCHANGED runtimeVars
      BY <1>1 DEF Start, Permit, Call
    <2>2. QED
      BY <2>1 DEF runtimeVars, queryVars, entryVars, credVars, RuntimeTypeOK
  <1>2. CASE RowInput(w) \/ NullResult(w) \/ Acquire(w) \/ Attempt(w)
               \/ Failure(w) \/ Response(w) \/ Release(w) \/ Result(w)
    <2>1. UNCHANGED <<queryVars, entryVars, credVars, cache>>
      BY <1>2 DEF RowInput, NullResult, Acquire, Attempt, Failure, Response,
                  Release, Result
    <2>2. permits' \in Nat
      <3>1. permits' = permits \/ TakePermit \/ DropPermit
        BY <1>2 DEF RowInput, NullResult, Acquire, Attempt, Failure, Response,
                    Release, Result
      <3>2. QED
        BY <3>1 DEF TakePermit, DropPermit, RuntimeTypeOK
    <2>3. counts \in QueryCounts
      BY DEF RuntimeTypeOK
    <2>4. counts' \in QueryCounts
      <3>1. CASE RowInput(w)
        BY <2>3, <3>1, RecordType DEF RowInput, RecordRowInput
      <3>2. CASE NullResult(w)
        BY <2>3, <3>2, RecordType DEF NullResult, RecordRowResult
      <3>3. CASE Acquire(w) \/ Release(w)
        BY <2>3, <3>3 DEF Acquire, Release
      <3>4. CASE Attempt(w)
        BY <2>3, <3>4, AttemptType DEF Attempt
      <3>5. CASE Failure(w)
        <4> DEFINE d == [failed_requests |-> 1, usage_missing_count |-> 1]
        <4>1. \A f \in DOMAIN d : d[f] \in Nat
          OBVIOUS
        <4>2. Record(scope[w], d)
          BY <3>5 DEF Failure
        <4> HIDE DEF d
        <4>3. QED
          BY <2>3, <4>1, <4>2, RecordType
      <3>6. CASE Response(w)
        BY <2>3, <3>6, ResponseType DEF Response
      <3>7. CASE Result(w)
        <4> DEFINE d == [valid_rows |-> 1, unique_judgments |-> 1]
        <4>1. \A f \in DOMAIN d : d[f] \in Nat
          OBVIOUS
        <4>2. Record(scope[w], d)
          BY <3>7 DEF Result, RecordRowResult
        <4> HIDE DEF d
        <4>3. QED
          BY <2>3, <4>1, <4>2, RecordType
      <3>8. QED
        BY <1>2, <3>1, <3>2, <3>3, <3>4, <3>5, <3>6, <3>7
    <2>5. QED
      BY <2>1, <2>2, <2>4, RuntimeFrame
  <1>3. QED
    BY <1>1, <1>2 DEF Step

\* The thread that moves is at a row of its chunk, one with something to
\* judge once evaluate_row has got past its errors.
LEMMA ThreadTypes ==
  ASSUME TypeInv, NEW w \in Workers, Start(w) \/ Step(w)
  PROVE  TaskTypeOK' /\ RowTypeOK' /\ AtRow'
  <1>0. /\ RowTypeOK /\ TaskTypeOK /\ AtRow /\ Failed \in Outcome
        /\ chunk[w] \in Chunks \cup {<< >>}
    BY DEF TypeInv, TypeOK, RowTypeOK, TaskTypeOK, Outcome
  <1>1. DOMAIN chunk[w] = 1..Len(chunk[w]) /\ Len(chunk[w]) \in Nat
    <2>1. chunk[w] \in Seq(Keys \cup {NullRow, BadRow}) \/ chunk[w] = << >>
      BY <1>0, ThreadAssumption
    <2>2. QED
      BY <2>1
  <1>2. \A v \in Workers : v # w => Unmoved(v)
    BY OthersUnmoved
  <1>3. ASSUME RowTypeOK',
               /\ pc'[w] \in {"row_input", "null_result"}
                    => pos'[w] \in DOMAIN chunk'[w]
               /\ pc'[w] \in Judging => pos'[w] \in JudgedRows(chunk'[w])
               /\ pc'[w] \notin {"response", "release", "result"}
                    => outcome'[w] = Failed
        PROVE  AtRow'
    BY <1>0, <1>2, <1>3 DEF AtRow, Unmoved
  <1>4. CASE Start(w)
    <2>1. PICK c \in Chunks, x \in Contexts :
            /\ chunk' = [chunk EXCEPT ![w] = c]
            /\ ctx' = [ctx EXCEPT ![w] = x]
            /\ Goto(w, IF c = << >> THEN "done" ELSE "row_input")
      BY <1>4 DEF Start
    <2>2. QueryScope \in Nat
      BY DEF TypeInv, TypeOK, RuntimeTypeOK, QueryScope
    <2>3. TaskTypeOK'
      BY <1>0, <1>4, <2>1, <2>2 DEF Start, TaskTypeOK
    <2>4. RowTypeOK'
      BY <1>0, <1>4, <2>1 DEF Start, Goto, RowTypeOK, Labels, Resting, Replies
    <2>5. c # << >> => 1 \in DOMAIN c
      <3>1. c \in Seq(Keys \cup {NullRow, BadRow})
        BY ThreadAssumption
      <3>2. QED
        BY <3>1
    <2>6. /\ chunk'[w] = c /\ pos'[w] = 1 /\ outcome'[w] = Failed
          /\ pc'[w] = IF c = << >> THEN "done" ELSE "row_input"
      BY <1>0, <1>4, <2>1 DEF Start, Goto, RowTypeOK, TaskTypeOK
    <2>7. QED
      BY <1>3, <2>3, <2>4, <2>5, <2>6 DEF Judging, PermitLabels
  <1>5. CASE Step(w)
    <2>1. UNCHANGED <<taskVars, chunk>>
      BY <1>5 DEF Step, RowInput, NullResult, Permit, Acquire, Attempt, Call,
                  Failure, Response, Release, Result, taskVars
    <2>2. TaskTypeOK'
      <3>1. CASE Call(w)
        BY <1>0, <2>1, <3>1, ServeType DEF Call, taskVars, TaskTypeOK
      <3>2. CASE ~Call(w)
        BY <1>0, <1>5, <2>1, <3>2
           DEF Step, RowInput, NullResult, Permit, Acquire, Attempt, Failure,
               Response, Release, Result, taskVars, TaskTypeOK
      <3>3. QED
        BY <3>1, <3>2
    <2>3. CASE NullResult(w) \/ Result(w)
      <3>1. /\ NextRow(w) /\ pos[w] \in DOMAIN chunk[w]
            /\ outcome' = [outcome EXCEPT ![w] = Failed]
                 \/ (outcome' = outcome /\ outcome[w] = Failed)
            /\ reply' = [reply EXCEPT ![w] = "none"] \/ reply' = reply
        BY <1>0, <2>3 DEF NullResult, Result, AtRow, Judging, JudgedRows
      <3>2. /\ pos[w] \in Nat /\ pos'[w] = pos[w] + 1
            /\ pc'[w] = IF pos[w] < Len(chunk[w]) THEN "row_input" ELSE "done"
            /\ outcome'[w] = Failed
        BY <1>0, <3>1 DEF NextRow, Goto, RowTypeOK
      <3>3. RowTypeOK'
        <4>1. pc' \in [Workers -> Labels]
          BY <1>0, <3>1 DEF NextRow, Goto, RowTypeOK, Labels, Resting
        <4>2. pos' \in [Workers -> Nat]
          BY <1>0, <3>1, <3>2 DEF NextRow, RowTypeOK
        <4>3. outcome' \in [Workers -> Outcome] /\ reply' \in [Workers -> Replies]
          BY <1>0, <3>1 DEF RowTypeOK, Replies
        <4>4. QED
          BY <4>1, <4>2, <4>3 DEF RowTypeOK
      <3>4. pc'[w] = "row_input" => pos'[w] \in DOMAIN chunk[w]
        BY <1>1, <3>1, <3>2
      <3>5. QED
        BY <1>3, <2>1, <2>2, <3>2, <3>3, <3>4 DEF Judging, PermitLabels
    <2>4. CASE RowInput(w)
      <3>1. /\ pos' = pos /\ outcome' = outcome /\ reply' = reply
            /\ pos[w] \in DOMAIN chunk[w] /\ outcome[w] = Failed
            /\ pc' = [pc EXCEPT ![w] =
                        IF Row(w) = NullRow THEN "null_result"
                        ELSE IF Row(w) = BadRow \/ ~ctx[w].ready
                                  \/ Row(w) \in WideKeys
                        THEN "failed" ELSE "permit"]
        BY <1>0, <2>4 DEF RowInput, Goto, rowVars, AtRow
      <3>2. pc'[w] = "permit" => pos[w] \in JudgedRows(chunk[w])
        <4>1. Row(w) \in Keys \cup {NullRow, BadRow}
          <5>1. chunk[w] \in Seq(Keys \cup {NullRow, BadRow})
            BY <1>0, <3>1, ThreadAssumption
          <5>2. QED
            BY <3>1, <5>1 DEF Row
        <4>2. pc'[w] = "permit" => Row(w) # NullRow /\ Row(w) # BadRow
          BY <1>0, <3>1 DEF RowTypeOK
        <4>3. QED
          BY <3>1, <4>1, <4>2 DEF JudgedRows, Row
      <3>3. RowTypeOK'
        BY <1>0, <3>1 DEF RowTypeOK, Labels, Resting
      <3>4. pc'[w] \in {"null_result", "failed", "permit"}
        BY <1>0, <3>1 DEF RowTypeOK
      <3>5. QED
        BY <1>3, <2>1, <2>2, <3>1, <3>2, <3>3, <3>4 DEF Judging, PermitLabels
    <2>5. CASE Call(w)
      <3>1. PICK label \in {"failure", "release", "response"} :
              pc' = [pc EXCEPT ![w] = label]
        BY <2>5 DEF Call, Goto
      <3>2. /\ pos' = pos /\ reply' \in [Workers -> Replies]
            /\ pos[w] \in JudgedRows(chunk[w]) /\ outcome[w] = Failed
        BY <1>0, <2>5 DEF Call, AtRow, Judging, PermitLabels, RowTypeOK, Replies,
                          UsageReplies
      <3>3. \A v \in Values :
              [key |-> Row(w), model |-> ctx[w].model, cred |-> ctx[w].cred,
               query |-> scope[w], val |-> v] \in Answer
        <4>1. Row(w) \in Keys /\ scope[w] \in Nat
          BY <1>0, <3>2 DEF JudgedRows, Row, TaskTypeOK
        <4>2. ctx[w] \in [cred : Creds, model : Models, ready : BOOLEAN]
          BY <1>0, ThreadAssumption DEF TaskTypeOK
        <4>3. ctx[w].model \in Models /\ ctx[w].cred \in Creds
          BY <4>2
        <4>4. QED
          BY <4>1, <4>3 DEF Answer
      <3>4. outcome' \in [Workers -> Outcome]
        <4>1. outcome' = outcome
                \/ \E a \in Answer : outcome' = [outcome EXCEPT ![w] = a]
          BY <2>5, <3>3 DEF Call
        <4>2. QED
          BY <1>0, <4>1 DEF RowTypeOK, Outcome
      <3>5. label = "failure" => outcome' = outcome
        BY <1>0, <2>5, <3>1 DEF Call, Goto, RowTypeOK
      <3>6. RowTypeOK'
        BY <1>0, <3>1, <3>2, <3>4 DEF RowTypeOK, Labels, PermitLabels
      <3>7. QED
        BY <1>0, <1>3, <2>1, <2>2, <3>1, <3>2, <3>5, <3>6
           DEF RowTypeOK, taskVars
    <2>6. CASE Permit(w) \/ Acquire(w) \/ Attempt(w) \/ Failure(w)
                 \/ Response(w) \/ Release(w)
      <3>1. /\ pos' = pos /\ outcome' = outcome /\ reply' = reply
            /\ pc[w] \in Judging \ {"result"}
            /\ \E label \in Labels \ {"row_input", "null_result", "response"} :
                 /\ pc' = [pc EXCEPT ![w] = label]
                 /\ label \notin {"release", "result"} =>
                      pc[w] \in {"permit", "acquire", "attempt"}
                        \/ outcome[w] = Failed
        BY <2>6 DEF Permit, Acquire, Attempt, Failure, Response, Release, Goto,
                    rowVars, Judging, PermitLabels, Labels, Resting
      <3>2. RowTypeOK'
        BY <1>0, <3>1 DEF RowTypeOK
      <3>3. /\ pos[w] \in JudgedRows(chunk[w])
            /\ pc[w] \in {"permit", "acquire", "attempt"} => outcome[w] = Failed
        BY <1>0, <3>1 DEF AtRow
      <3>4. QED
        BY <1>0, <1>3, <2>1, <2>2, <3>1, <3>2, <3>3 DEF RowTypeOK
    <2>7. QED
      BY <1>5, <2>3, <2>4, <2>5, <2>6 DEF Step
  <1>6. QED
    BY <1>4, <1>5

\* Every step keeps the types.
LEMMA TypeStep ==
  ASSUME TypeInv, [Next]_vars
  PROVE  TypeInv'
  <1>1. CASE Begin \/ End \/ Closed \/ UNCHANGED vars
    BY <1>1, HostTypes
  <1>2. ASSUME NEW w \in Workers, Start(w) \/ Step(w)
        PROVE  TypeInv'
    BY <1>2, ThreadRuntimeType, ThreadTypes DEF TypeInv, TypeOK, RowTypeOK
  <1>3. QED
    BY <1>1, <1>2 DEF Next

\* TypeOK: the state a connection and its threads share, and where each
\* thread of the row mode is.
THEOREM RowTypesCorrect == Spec => []TypeOK
  <1>1. TypeInv => TypeOK
    BY DEF TypeInv
  <1>2. QED
    BY InitTypes, TypeStep, <1>1, PTL DEF Spec

-----------------------------------------------------------------------------
(* The permit pool.                                                        *)

PermitInv == TypeInv /\ PermitAccounting

\* A step that does not touch the pool lets no thread in or out of it.
LEMMA PermitsUntouched ==
  ASSUME PermitInv, [Next]_vars,
         ~ \E w \in Workers : Acquire(w) \/ Release(w)
  PROVE  PermitAccounting'
  <1> USE DEF PermitInv, TypeInv, TypeOK
  <1>1. permits' = permits
    BY DEF Next, Begin, HostBegin, BeginQuery, End, HostEnd, EndQuery, Closed,
           vars, runtimeVars, Start, Step, RowInput, NullResult, Permit,
           Attempt, Call, Failure, Response, Result
  <1>2. Holders' = Holders
    <2>1. CASE Begin \/ End \/ Closed \/ UNCHANGED vars
      BY <2>1 DEF Begin, HostBegin, End, HostEnd, Closed, vars, threadVars,
                  Holders
    <2>2. ASSUME NEW w \in Workers, Start(w) \/ Step(w)
          PROVE  Holders' = Holders
      <3>1. \A v \in Workers : v # w => pc'[v] = pc[v]
        BY <2>2, OthersUnmoved DEF Unmoved
      <3>2. pc'[w] \in PermitLabels <=> pc[w] \in PermitLabels
        BY <2>2 DEF Start, CanStart, Running, Resting, Step, RowInput,
                    NullResult, Permit, Attempt, Call, Failure, Response,
                    Result, NextRow, Goto, PermitLabels
      <3>3. QED
        BY <3>1, <3>2 DEF Holders
    <2>3. QED
      BY <2>1, <2>2 DEF Next
  <1>3. QED
    BY <1>1, <1>2 DEF PermitAccounting

\* acquire takes the slot it found free; the drop of a permit gives it back.
LEMMA PermitsMoved ==
  ASSUME PermitInv, NEW w \in Workers, Acquire(w) \/ Release(w)
  PROVE  PermitAccounting'
  <1> USE DEF PermitInv, TypeInv, TypeOK
  <1>1. \A v \in Workers : v # w => (v \in Holders <=> v \in Holders')
    BY OthersUnmoved DEF Step, Unmoved, Holders
  <1>2. /\ Cardinality(Holders) \in Nat /\ Cardinality(Holders') \in Nat
        /\ (w \in Holders <=> w \in Holders')
             => Cardinality(Holders) = Cardinality(Holders')
        /\ w \notin Holders /\ w \in Holders'
             => Cardinality(Holders') = Cardinality(Holders) + 1
        /\ w \in Holders /\ w \notin Holders'
             => Cardinality(Holders) = Cardinality(Holders') + 1
    <2> DEFINE A == Holders
               B == Holders'
    <2>1. A \in SUBSET Workers /\ B \in SUBSET Workers
      BY DEF Holders
    <2>2. \A v \in Workers : v # w => (v \in A <=> v \in B)
      BY <1>1
    <2> HIDE DEF A, B
    <2>3. /\ Cardinality(A) \in Nat /\ Cardinality(B) \in Nat
          /\ (w \in A <=> w \in B) => Cardinality(A) = Cardinality(B)
          /\ w \notin A /\ w \in B => Cardinality(B) = Cardinality(A) + 1
          /\ w \in A /\ w \notin B => Cardinality(A) = Cardinality(B) + 1
      BY <2>1, <2>2, OneMoves
    <2>4. QED
      BY <2>3 DEF A, B
  <1>3. permits = Cardinality(Holders) /\ permits <= MaxInflight
    BY DEF PermitAccounting
  <1>4. MaxInflight \in Nat
    BY RuntimeAssumption
  <1>5. CASE Acquire(w) /\ ~Flagged(w)
    <2>1. w \notin Holders /\ w \in Holders'
      BY <1>5 DEF Acquire, Goto, Holders, PermitLabels
    <2>2. permits < MaxInflight /\ permits' = permits + 1
      BY <1>5 DEF Acquire, TakePermit
    <2>3. QED
      BY <1>2, <1>3, <1>4, <2>1, <2>2 DEF PermitAccounting
  <1>6. CASE Acquire(w) /\ Flagged(w)
    <2>1. w \notin Holders /\ w \notin Holders' /\ permits' = permits
      BY <1>6 DEF Acquire, Goto, Holders, PermitLabels
    <2>2. QED
      BY <1>2, <1>3, <2>1 DEF PermitAccounting
  <1>7. CASE Release(w)
    <2>1. w \in Holders /\ w \notin Holders'
      BY <1>7 DEF Release, Goto, Holders, PermitLabels
    <2>2. permits' = IF permits = 0 THEN 0 ELSE permits - 1
      BY <1>7 DEF Release, DropPermit
    <2>3. QED
      BY <1>2, <1>3, <1>4, <2>1, <2>2 DEF PermitAccounting
  <1>8. QED
    BY <1>5, <1>6, <1>7

\* PermitAccounting: a permit for every thread between its acquire and the
\* end of its evaluate_row, and never more than duckjeu_max_inflight.
THEOREM RowPermitsAccounted == Spec => []PermitAccounting
  <1>1. Init => PermitInv
    <2>1. Init => Holders = {} /\ permits = 0
      BY DEF Init, ThreadsInit, RuntimeInit, Holders, PermitLabels
    <2>2. QED
      BY <2>1, InitTypes, NoneCounted, RuntimeAssumption
         DEF PermitInv, PermitAccounting
  <1>2. PermitInv /\ [Next]_vars => PermitInv'
    BY TypeStep, PermitsUntouched, PermitsMoved DEF PermitInv
  <1>3. PermitInv => PermitAccounting
    BY DEF PermitInv
  <1>4. QED
    BY <1>1, <1>2, <1>3, PTL DEF Spec

-----------------------------------------------------------------------------
(* The counts of a query that succeeded.  While a query runs, what its     *)
(* counts do not balance yet is owed by its threads: a row that was read   *)
(* and has no result, a call that was attempted and has no judgment.  A    *)
(* thread that failed owes for good, which is why only success balances.   *)

OwingRow == Ours({"null_result", "permit", "acquire", "attempt", "call",
                  "failure", "response", "release", "result", "failed"})

OwingCall == Ours({"call", "failure", "response", "release", "result"})

\* A thread of the active query is bound to fail its statement.
Doomed ==
  \E w \in Workers :
    /\ scope[w] = active
    /\ pc[w] = "failed" \/ (pc[w] = "release" /\ outcome[w] = Failed)

ScopesPast ==
  /\ active # NoQuery => active < nextQuery
  /\ \A w \in Workers : scope[w] < nextQuery

RowsOwed ==
  counts.input_rows = counts.null_rows + counts.valid_rows
                      + Cardinality(OwingRow)

JudgedOnce ==
  /\ counts.valid_rows = counts.unique_judgments
  /\ counts.deduplicated_rows = 0

CallsOwed ==
  Ours({"failed"}) = {} =>
    counts.provider_invocations = counts.unique_judgments
                                  + Cardinality(OwingCall)

FailuresDoom == counts.failed_requests > 0 => Doomed

CountInv ==
  /\ TypeInv /\ ScopesPast /\ RowsOwed /\ JudgedOnce /\ CallsOwed
  /\ FailuresDoom /\ SnapshotBalanced

\* A thread of an ended query, or of none, changes nothing that is counted.
LEMMA StrangersUncounted ==
  ASSUME CountInv, NEW w \in Workers, Step(w), scope[w] # active
  PROVE  counts' = counts
  <1>1. counts \in QueryCounts
    BY DEF CountInv, TypeInv, TypeOK, RuntimeTypeOK
  <1>2. CASE RowInput(w)
    BY <1>2 DEF RowInput, RecordRowInput, Record
  <1>3. CASE NullResult(w) \/ Result(w)
    BY <1>3 DEF NullResult, Result, RecordRowResult, Record
  <1>4. CASE Permit(w) \/ Acquire(w) \/ Call(w) \/ Release(w)
    BY <1>4 DEF Permit, Acquire, Call, Release, runtimeVars
  <1>5. CASE Attempt(w)
    BY <1>1, <1>5, AttemptCounts DEF Attempt
  <1>6. CASE Failure(w)
    BY <1>6 DEF Failure, Record
  <1>7. CASE Response(w)
    BY <1>1, <1>7, ResponseCounts DEF Response
  <1>8. QED
    BY <1>2, <1>3, <1>4, <1>5, <1>6, <1>7 DEF Step

\* Doom is not escaped: the thread reaches "failed" and stays there.
LEMMA DoomStays ==
  ASSUME CountInv, NEW w \in Workers, Step(w), Doomed
  PROVE  Doomed'
  <1>1. scope' = scope /\ active' = active /\ pc[w] # "failed"
    BY DEF Step, RowInput, NullResult, Permit, Acquire, Attempt, Call, Failure,
           Response, Release, Result, taskVars, runtimeVars, queryVars
  <1>2. \A v \in Workers : v # w => pc'[v] = pc[v] /\ outcome'[v] = outcome[v]
    BY OthersUnmoved DEF CountInv, Unmoved
  <1>3. pc[w] = "release" /\ outcome[w] = Failed => pc'[w] = "failed"
    BY DEF Step, RowInput, NullResult, Permit, Acquire, Attempt, Call, Failure,
           Response, Release, Result, Goto, CountInv, TypeInv, TypeOK
  <1>4. QED
    BY <1>1, <1>2, <1>3 DEF Doomed

\* What one step of a thread of the active query adds to the counts, and
\* between which labels it goes.
LEMMA StepCounts ==
  ASSUME CountInv, NEW w \in Workers, Step(w), scope[w] = active
  PROVE  /\ counts.input_rows \in Nat /\ counts.null_rows \in Nat
         /\ counts.valid_rows \in Nat /\ counts.unique_judgments \in Nat
         /\ counts.provider_invocations \in Nat
         /\ counts.failed_requests \in Nat
         /\ counts'.deduplicated_rows = counts.deduplicated_rows
         /\ counts'.input_rows = counts.input_rows
                                 + (IF pc[w] = "row_input" THEN 1 ELSE 0)
         /\ counts'.null_rows = counts.null_rows
                                + (IF pc[w] = "null_result" THEN 1 ELSE 0)
         /\ counts'.valid_rows = counts.valid_rows
                                 + (IF pc[w] = "result" THEN 1 ELSE 0)
         /\ counts'.unique_judgments = counts.unique_judgments
                                       + (IF pc[w] = "result" THEN 1 ELSE 0)
         /\ counts'.provider_invocations = counts.provider_invocations
                                 + (IF pc[w] = "attempt" THEN 1 ELSE 0)
         /\ counts'.failed_requests = counts.failed_requests
                                 + (IF pc[w] = "failure" THEN 1 ELSE 0)
  <1>1. counts \in QueryCounts
    BY DEF CountInv, TypeInv, TypeOK, RuntimeTypeOK
  <1>2. \A f \in CountFields : counts[f] \in Nat
    BY <1>1 DEF QueryCounts
  <1>3. CASE RowInput(w)
    <2>1. pc[w] = "row_input" /\ RecordRowInput(scope[w])
      BY <1>3 DEF RowInput
    <2>2. counts' = [counts EXCEPT !.input_rows = @ + 1]
      BY <1>1, <2>1, RowCounts
    <2>3. /\ counts'.input_rows = counts.input_rows + 1
          /\ \A f \in CountFields \ {"input_rows"} : counts'[f] = counts[f]
      BY <1>1, <2>2 DEF QueryCounts, CountFields
    <2>4. QED
      BY <1>2, <2>1, <2>3 DEF CountFields
  <1>4. CASE NullResult(w)
    <2>1. pc[w] = "null_result" /\ RecordRowResult(scope[w], TRUE)
      BY <1>4 DEF NullResult
    <2>2. counts' = [counts EXCEPT !.null_rows = @ + 1]
      BY <1>1, <2>1, RowCounts
    <2>3. /\ counts'.null_rows = counts.null_rows + 1
          /\ \A f \in CountFields \ {"null_rows"} : counts'[f] = counts[f]
      BY <1>1, <2>2 DEF QueryCounts, CountFields
    <2>4. QED
      BY <1>2, <2>1, <2>3 DEF CountFields
  <1>5. CASE Permit(w) \/ Acquire(w) \/ Call(w) \/ Release(w)
    <2>1. counts' = counts
      BY <1>5 DEF Permit, Acquire, Call, Release, runtimeVars
    <2>2. pc[w] \in {"permit", "acquire", "call", "release"}
      BY <1>5 DEF Permit, Acquire, Call, Release
    <2>3. QED
      BY <1>2, <2>1, <2>2 DEF CountFields
  <1>6. CASE Attempt(w)
    <2>1. RecordProviderAttempt(scope[w], 1) /\ pc[w] = "attempt"
      BY <1>6 DEF Attempt
    <2>2. QED
      BY <1>1, <1>2, <2>1, AttemptCounts DEF CountFields
  <1>7. CASE Failure(w)
    <2>1. /\ Record(scope[w], [failed_requests |-> 1, usage_missing_count |-> 1])
          /\ pc[w] = "failure"
      BY <1>7 DEF Failure
    <2>2. QED
      BY <1>1, <1>2, <2>1, FailureCounts DEF CountFields
  <1>8. CASE Response(w)
    <2>1. RecordProviderResponse(scope[w], reply[w] = "usage")
          /\ pc[w] = "response"
      BY <1>8 DEF Response
    <2>2. \A f \in CountFields \ {"usage_response_count", "tokens",
                                   "usage_missing_count"} :
             counts'[f] = counts[f]
      BY <1>1, <1>2, <2>1, ResponseCounts, RuntimeAssumption
    <2>3. QED
      BY <1>2, <2>1, <2>2 DEF CountFields
  <1>9. CASE Result(w)
    <2>1. RecordRowResult(scope[w], FALSE) /\ pc[w] = "result"
      BY <1>9 DEF Result
    <2>2. /\ counts'.valid_rows = counts.valid_rows + 1
          /\ counts'.unique_judgments = counts.unique_judgments + 1
          /\ \A f \in CountFields \ {"valid_rows", "unique_judgments"} :
               counts'[f] = counts[f]
      BY <1>1, <2>1, ResultCounts
    <2>3. QED
      BY <1>2, <2>1, <2>2 DEF CountFields
  <1>10. QED
    BY <1>3, <1>4, <1>5, <1>6, <1>7, <1>8, <1>9 DEF Step

\* A thread's step keeps what is owed in balance with what is counted.
LEMMA StepBalances ==
  ASSUME CountInv, NEW w \in Workers, Step(w)
  PROVE  RowsOwed' /\ JudgedOnce' /\ CallsOwed' /\ FailuresDoom'
  <1>0. RowsOwed /\ JudgedOnce /\ CallsOwed /\ FailuresDoom
    BY DEF CountInv
  <1>1. scope' = scope /\ active' = active
    BY DEF Step, RowInput, NullResult, Permit, Acquire, Attempt, Call, Failure,
           Response, Release, Result, taskVars, runtimeVars, queryVars
  <1>2. \A v \in Workers : v # w => pc'[v] = pc[v]
    BY OthersUnmoved DEF CountInv, Unmoved
  <1>3. Ours({"failed"})' = {} => Ours({"failed"}) = {}
    <2>1. pc[w] # "failed"
      BY DEF Step, RowInput, NullResult, Permit, Acquire, Attempt, Call,
             Failure, Response, Release, Result
    <2>2. QED
      BY <1>1, <1>2, <2>1 DEF Ours
  <1>4. CASE scope[w] # active
    <2>1. counts' = counts
      BY <1>4, StrangersUncounted
    <2>2. OwingRow' = OwingRow /\ OwingCall' = OwingCall
      BY <1>1, <1>2, <1>4, OursMove DEF OwingRow, OwingCall
    <2>3. QED
      BY <1>0, <1>3, <2>1, <2>2, DoomStays
         DEF RowsOwed, JudgedOnce, CallsOwed, FailuresDoom
  <1>5. CASE scope[w] = active
    <2> DEFINE R == Cardinality(OwingRow)
               S == Cardinality(OwingRow')
               C == Cardinality(OwingCall)
               D == Cardinality(OwingCall')
    <2>1. /\ R \in Nat /\ S \in Nat
          /\ S = IF pc[w] = "row_input" THEN R + 1
                 ELSE IF pc[w] \in {"null_result", "result"} THEN R - 1 ELSE R
      <3>1. pc'[w] \in {"null_result", "permit", "acquire", "attempt", "call",
                        "failure", "response", "release", "result", "failed"}
              <=> pc[w] \notin {"null_result", "result"}
        BY DEF Step, RowInput, NullResult, Permit, Acquire, Attempt, Call,
               Failure, Response, Release, Result, NextRow, Goto,
               CountInv, TypeInv, TypeOK
      <3>2. pc[w] \in {"row_input", "null_result", "permit", "acquire",
                       "attempt", "call", "failure", "response", "release",
                       "result"}
        BY DEF Step, RowInput, NullResult, Permit, Acquire, Attempt, Call,
               Failure, Response, Release, Result
      <3>3. QED
        BY <1>1, <1>2, <1>5, <3>1, <3>2, OursMove DEF OwingRow
    <2>2. /\ C \in Nat /\ D \in Nat
          /\ pc'[w] # "failed" =>
               D = IF pc[w] = "attempt" THEN C + 1
                   ELSE IF pc[w] = "result" THEN C - 1 ELSE C
      <3> DEFINE L == {"call", "failure", "response", "release", "result"}
      <3>1. pc'[w] # "failed" =>
              (pc'[w] \in L <=> pc[w] \in {"attempt", "call", "failure",
                                           "response", "release"})
        BY DEF Step, RowInput, NullResult, Permit, Acquire, Attempt, Call,
               Failure, Response, Release, Result, NextRow, Goto,
               CountInv, TypeInv, TypeOK
      <3>2. QED
        BY <1>1, <1>2, <1>5, <3>1, OursMove DEF OwingCall
    <2>3. Ours({"failed"})' = {} => pc'[w] # "failed"
      BY <1>1, <1>5 DEF Ours
    <2>4. RowsOwed'
      BY <1>0, <1>5, <2>1, StepCounts DEF RowsOwed
    <2>5. JudgedOnce'
      BY <1>0, <1>5, StepCounts DEF JudgedOnce
    <2>6. CallsOwed'
      BY <1>0, <1>3, <1>5, <2>2, <2>3, StepCounts DEF CallsOwed
    <2>7. FailuresDoom'
      <3>1. CASE pc[w] = "failure"
        <4>1. pc'[w] = "release" /\ outcome'[w] = Failed
          BY <3>1 DEF Step, RowInput, NullResult, Permit, Acquire, Attempt,
                      Call, Failure, Response, Release, Result, Goto, rowVars,
                      CountInv, TypeInv, TypeOK, AtRow
        <4>2. QED
          BY <1>1, <1>5, <4>1 DEF FailuresDoom, Doomed
      <3>2. CASE pc[w] # "failure"
        <4>1. counts'.failed_requests = counts.failed_requests
          BY <1>5, <3>2, StepCounts
        <4>2. QED
          BY <1>0, <4>1, DoomStays DEF FailuresDoom
      <3>3. QED
        BY <3>1, <3>2
    <2>8. QED
      BY <2>4, <2>5, <2>6, <2>7
  <1>6. QED
    BY <1>4, <1>5

\* The host and a chunk's start count nothing: no thread is in the new query
\* yet, and none is in a query once it is over.
LEMMA HostBalances ==
  ASSUME CountInv, Begin \/ End
  PROVE  /\ ScopesPast' /\ RowsOwed' /\ JudgedOnce' /\ CallsOwed'
         /\ FailuresDoom'
  <1>1. ScopesPast /\ TaskTypeOK /\ nextQuery \in Nat
    BY DEF CountInv, TypeInv, TypeOK, RuntimeTypeOK
  <1>2. /\ counts' = ZeroCounts /\ scope' = scope
        /\ \/ active' = nextQuery /\ nextQuery' = nextQuery + 1
           \/ active' = NoQuery /\ nextQuery' = nextQuery
    BY DEF Begin, HostBegin, BeginQuery, End, HostEnd, EndQuery, threadVars,
           taskVars
  <1>3. ScopesPast'
    BY <1>1, <1>2 DEF ScopesPast, TaskTypeOK
  <1>4. \A v \in Workers : scope'[v] # active'
    BY <1>1, <1>2, RuntimeAssumption DEF ScopesPast, TaskTypeOK
  <1>5. OwingRow' = {} /\ OwingCall' = {}
    BY <1>4 DEF OwingRow, OwingCall, Ours
  <1>6. \A f \in CountFields : counts'[f] = 0
    BY <1>2 DEF ZeroCounts
  <1>7. /\ counts'.input_rows = 0 /\ counts'.null_rows = 0
        /\ counts'.valid_rows = 0 /\ counts'.unique_judgments = 0
        /\ counts'.deduplicated_rows = 0 /\ counts'.provider_invocations = 0
        /\ counts'.failed_requests = 0
    BY <1>6 DEF CountFields
  <1>8. RowsOwed' /\ JudgedOnce' /\ CallsOwed' /\ FailuresDoom'
    BY <1>5, <1>7, NoneCounted
       DEF RowsOwed, JudgedOnce, CallsOwed, FailuresDoom
  <1>9. QED
    BY <1>3, <1>8

\* A chunk's start: the thread is of the active query, and owes nothing.
LEMMA StartBalances ==
  ASSUME CountInv, NEW w \in Workers, Start(w)
  PROVE  /\ ScopesPast' /\ RowsOwed' /\ JudgedOnce' /\ CallsOwed'
         /\ FailuresDoom'
  <1>1. /\ UNCHANGED runtimeVars /\ active # NoQuery
        /\ scope'[w] = active /\ pc'[w] \in {"done", "row_input"}
        /\ pc[w] \in Resting /\ (pc[w] = "idle" \/ scope[w] # active)
    BY DEF Start, CanStart, Running, QueryScope, Goto, CountInv, TypeInv,
           TypeOK, TaskTypeOK
  <1>2. \A v \in Workers : v # w =>
          pc'[v] = pc[v] /\ scope'[v] = scope[v] /\ outcome'[v] = outcome[v]
    BY OthersUnmoved DEF CountInv, Unmoved
  <1>3. UNCHANGED <<active, nextQuery, counts>>
    BY <1>1 DEF runtimeVars, queryVars
  <1>4. ScopesPast'
    BY <1>1, <1>2, <1>3 DEF CountInv, ScopesPast
  <1>5. /\ OwingRow' = OwingRow /\ OwingCall' = OwingCall
        /\ Ours({"failed"})' = Ours({"failed"})
    BY <1>1, <1>2, <1>3 DEF OwingRow, OwingCall, Ours, Resting
  <1>6. Doomed => Doomed'
    BY <1>1, <1>2, <1>3 DEF Doomed, Resting
  <1>7. QED
    BY <1>3, <1>4, <1>5, <1>6
       DEF CountInv, RowsOwed, JudgedOnce, CallsOwed, FailuresDoom

\* What becomes the snapshot of a query that succeeded is balanced: none of
\* its threads is inside the function or has failed.
LEMMA SnapshotsBalance ==
  ASSUME CountInv, [Next]_vars
  PROVE  SnapshotBalanced'
  <1>1. SnapshotBalanced
    BY DEF CountInv
  <1>2. CASE ~End
    <2>1. lastQuery' = lastQuery
      BY <1>2 DEF Next, Begin, HostBegin, BeginQuery, Closed, vars, runtimeVars,
                  queryVars, Start, Step, RowInput, NullResult, Permit, Acquire,
                  Attempt, Call, Failure, Response, Release, Result
    <2>2. QED
      BY <1>1, <2>1 DEF SnapshotBalanced
  <1>3. CASE End
    <2>1. PICK o \in QueryOutcomes : HostEnd(o)
      BY <1>3 DEF End
    <2>2. /\ counts.input_rows \in Nat /\ counts.null_rows \in Nat
          /\ counts.valid_rows \in Nat /\ counts.unique_judgments \in Nat
          /\ counts.provider_invocations \in Nat
          /\ counts.failed_requests \in Nat
      BY DEF CountInv, TypeInv, TypeOK, RuntimeTypeOK, QueryCounts, CountFields
    <2>3. ASSUME o = "succeeded"
          PROVE  /\ counts.input_rows = counts.null_rows + counts.valid_rows
                 /\ counts.valid_rows = counts.unique_judgments
                 /\ counts.unique_judgments = counts.provider_invocations
                 /\ counts.deduplicated_rows = 0
                 /\ counts.failed_requests = 0
      <3>1. \A w \in Workers : scope[w] = active => pc[w] \in {"idle", "done"}
        BY <2>1, <2>3 DEF HostEnd
      <3>2. OwingRow = {} /\ OwingCall = {} /\ Ours({"failed"}) = {} /\ ~Doomed
        BY <3>1 DEF OwingRow, OwingCall, Ours, Doomed
      <3>3. QED
        BY <2>2, <3>2, NoneCounted
           DEF CountInv, RowsOwed, JudgedOnce, CallsOwed, FailuresDoom
    <2>4. lastQuery' = lastQuery
            \/ lastQuery' = {[query |-> active, outcome |-> o,
                              counts |-> counts]}
      BY <2>1 DEF HostEnd, EndQuery
    <2>5. QED
      BY <1>1, <2>3, <2>4 DEF SnapshotBalanced
  <1>4. QED
    BY <1>2, <1>3

\* SnapshotBalanced: the counts of a query that succeeded account for every
\* row of it, as null or as judged by one provider call of its own, whatever
\* threads of other queries recorded meanwhile.
THEOREM RowSnapshotsBalance == Spec => []SnapshotBalanced
  <1>1. Init => CountInv
    <2>1. ASSUME Init PROVE CountInv
      <3>1. /\ TypeInv /\ active = 0 /\ nextQuery = 1 /\ lastQuery = {}
            /\ counts = ZeroCounts /\ \A w \in Workers : scope[w] = 0
            /\ \A w \in Workers : pc[w] = "idle"
        BY <2>1, InitTypes DEF Init, ThreadsInit, RuntimeInit
      <3>2. OwingRow = {} /\ OwingCall = {}
        BY <3>1 DEF OwingRow, OwingCall, Ours
      <3>3. /\ counts.input_rows = 0 /\ counts.null_rows = 0
            /\ counts.valid_rows = 0 /\ counts.unique_judgments = 0
            /\ counts.deduplicated_rows = 0 /\ counts.failed_requests = 0
            /\ counts.provider_invocations = 0
        BY <3>1 DEF ZeroCounts, CountFields
      <3>4. QED
        BY <3>1, <3>2, <3>3, NoneCounted, RuntimeAssumption
           DEF CountInv, ScopesPast, RowsOwed, JudgedOnce, CallsOwed,
               FailuresDoom, SnapshotBalanced
    <2>2. QED
      BY <2>1
  <1>2. ASSUME CountInv, [Next]_vars PROVE CountInv'
    <2>1. TypeInv' /\ SnapshotBalanced'
      BY <1>2, TypeStep, SnapshotsBalance DEF CountInv
    <2>2. CASE Closed \/ UNCHANGED vars
      <3>1. UNCHANGED <<active, nextQuery, counts, scope, pc, outcome>>
        BY <2>2 DEF Closed, vars, runtimeVars, queryVars, threadVars, taskVars,
                    rowVars
      <3>2. QED
        BY <1>2, <2>1, <3>1
           DEF CountInv, ScopesPast, RowsOwed, JudgedOnce, CallsOwed,
               FailuresDoom, OwingRow, OwingCall, Ours, Doomed
    <2>3. ASSUME NEW w \in Workers, Step(w) PROVE ScopesPast'
      <3>1. UNCHANGED <<active, nextQuery, scope>>
        BY <2>3 DEF Step, RowInput, NullResult, Permit, Acquire, Attempt, Call,
                    Failure, Response, Release, Result, taskVars, runtimeVars,
                    queryVars
      <3>2. QED
        BY <1>2, <3>1 DEF CountInv, ScopesPast
    <2>4. QED
      BY <1>2, <2>1, <2>2, <2>3, HostBalances, StartBalances, StepBalances
         DEF Next, CountInv
  <1>3. CountInv => SnapshotBalanced
    BY DEF CountInv
  <1>4. QED
    BY <1>1, <1>2, <1>3, PTL DEF Spec
=============================================================================
