----------------------------- MODULE RowExecutor -----------------------------
(***************************************************************************)
(* Row execution, the default mode: run and evaluate_row of                *)
(* src/functions/mod.rs.  A thread judges its rows one by one; nothing is  *)
(* shared between rows but the connection's permits and counts.            *)
(***************************************************************************)
EXTENDS ScalarThreads

VARIABLES
  pos,       \* the row a thread is at
  outcome,   \* what evaluate_row is about to return
  reply,     \* what the provider's response said
  out        \* rows written to the output vector

rowVars == <<pos, outcome, reply, out>>

vars == <<runtimeVars, threadVars, rowVars>>

\* _permit lives until evaluate_row returns.
PermitLabels == {"attempt", "call", "response", "failure", "release"}

Labels == Resting \cup PermitLabels
            \cup {"row_input", "null_result", "permit", "acquire", "result"}

Replies == {"none", "usage", "no_usage"}

Init ==
  /\ ThreadsInit
  /\ pos = [w \in Workers |-> 0]
  /\ outcome = [w \in Workers |-> Failed]
  /\ reply = [w \in Workers |-> "none"]
  /\ out = [w \in Workers |-> EmptyMap]

Row(w) == chunk[w][pos[w]]

\* The loop of run: the next row, or the end of the chunk.
NextRow(w) ==
  /\ pos' = [pos EXCEPT ![w] = @ + 1]
  /\ Goto(w, IF pos[w] < Len(chunk[w]) THEN "row_input" ELSE "done")

\* set_error and return.
Fail(w) == Goto(w, "failed") /\ UNCHANGED pos

\* The chunk begins: only the query scope is read.
Start(w) ==
  /\ CanStart(w)
  /\ \E c \in Chunks, x \in Contexts :
       /\ chunk' = [chunk EXCEPT ![w] = c]
       /\ ctx' = [ctx EXCEPT ![w] = x]
       /\ Goto(w, IF c = << >> THEN "done" ELSE "row_input")
  /\ scope' = [scope EXCEPT ![w] = QueryScope]
  /\ pos' = [pos EXCEPT ![w] = 1]
  /\ outcome' = [outcome EXCEPT ![w] = Failed]
  /\ reply' = [reply EXCEPT ![w] = "none"]
  /\ out' = [out EXCEPT ![w] = EmptyMap]
  /\ UNCHANGED <<runtimeVars, cscope, ledger>>

\* record_row_input, then evaluate_row up to its first lock: a NULL argument
\* wins over every error; a bad row, a missing provider or too many choices
\* fail before a permit is asked for.
RowInput(w) ==
  /\ pc[w] = "row_input"
  /\ RecordRowInput(scope[w])
  /\ Goto(w, IF Row(w) = NullRow THEN "null_result"
             ELSE IF Row(w) = BadRow \/ ~ctx[w].ready \/ Row(w) \in WideKeys
             THEN "failed" ELSE "permit")
  /\ UNCHANGED <<queryVars, entryVars, permits, credVars, cache,
                 taskVars, ledger, rowVars>>

NullResult(w) ==
  /\ pc[w] = "null_result"
  /\ RecordRowResult(scope[w], TRUE)
  /\ NextRow(w)
  /\ UNCHANGED <<queryVars, entryVars, permits, credVars, cache,
                 taskVars, ledger, outcome, reply, out>>

\* acquire_request_permit: the lock, then the pool.
Permit(w) ==
  /\ pc[w] = "permit"
  /\ Goto(w, IF StillActive(w) THEN "acquire" ELSE "failed")
  /\ UNCHANGED <<runtimeVars, taskVars, ledger, rowVars>>

Acquire(w) ==
  /\ pc[w] = "acquire"
  /\ IF Flagged(w)
     THEN Goto(w, "failed") /\ UNCHANGED permits
     ELSE TakePermit /\ Goto(w, "attempt")
  /\ UNCHANGED <<queryVars, entryVars, credVars, cache, counts,
                 taskVars, ledger, rowVars>>

Attempt(w) ==
  /\ pc[w] = "attempt"
  /\ RecordProviderAttempt(scope[w], 1)
  /\ Goto(w, "call")
  /\ UNCHANGED <<queryVars, entryVars, permits, credVars, cache,
                 taskVars, ledger, rowVars>>

\* judge_with_metadata: failed on the way, or answered; an answer that core
\* validation rejects is a response whose outcome is Failed.
Call(w) ==
  /\ pc[w] = "call"
  /\ \/ /\ \E billed \in {0, 1} : Serve(scope[w], billed)
        /\ Goto(w, IF External THEN "failure" ELSE "release")
        /\ UNCHANGED <<outcome, reply>>
     \/ /\ Serve(scope[w], 1)
        /\ Goto(w, "response")
        /\ \E u \in UsageReplies : reply' = [reply EXCEPT ![w] = u]
        /\ \/ UNCHANGED outcome
           \/ \E v \in Values :
                outcome' = [outcome EXCEPT ![w] =
                   [key |-> Row(w), model |-> ctx[w].model,
                    cred |-> ctx[w].cred, query |-> scope[w], val |-> v]]
  /\ UNCHANGED <<runtimeVars, taskVars, pos, out>>

\* The error arm: both records under one lock.
Failure(w) ==
  /\ pc[w] = "failure"
  /\ Record(scope[w], [failed_requests |-> 1, usage_missing_count |-> 1])
  /\ Goto(w, "release")
  /\ UNCHANGED <<queryVars, entryVars, permits, credVars, cache,
                 taskVars, ledger, rowVars>>

Response(w) ==
  /\ pc[w] = "response"
  /\ RecordProviderResponse(scope[w], reply[w] = "usage")
  /\ Goto(w, "release")
  /\ UNCHANGED <<queryVars, entryVars, permits, credVars, cache,
                 taskVars, ledger, rowVars>>

\* evaluate_row returns: the permit is dropped with its frame.
Release(w) ==
  /\ pc[w] = "release"
  /\ DropPermit
  /\ Goto(w, IF outcome[w] = Failed THEN "failed" ELSE "result")
  /\ UNCHANGED <<queryVars, entryVars, credVars, cache, counts,
                 taskVars, ledger, rowVars>>

\* The row's result is counted and written.
Result(w) ==
  /\ pc[w] = "result"
  /\ RecordRowResult(scope[w], FALSE)
  /\ out' = [out EXCEPT ![w] = [i \in DOMAIN out[w] \cup {pos[w]} |->
               IF i = pos[w] THEN outcome[w] ELSE out[w][i]]]
  /\ outcome' = [outcome EXCEPT ![w] = Failed]
  /\ reply' = [reply EXCEPT ![w] = "none"]
  /\ NextRow(w)
  /\ UNCHANGED <<queryVars, entryVars, permits, credVars, cache,
                 taskVars, ledger>>

-----------------------------------------------------------------------------
Begin == HostBegin /\ UNCHANGED rowVars

End == (\E o \in QueryOutcomes : HostEnd(o)) /\ UNCHANGED rowVars

Closed ==
  /\ nextQuery = MaxQueries /\ active = NoQuery
  /\ \A w \in Workers : ~Running(w)
  /\ UNCHANGED vars

Step(w) ==
  \/ RowInput(w) \/ NullResult(w) \/ Permit(w) \/ Acquire(w) \/ Attempt(w)
  \/ Call(w) \/ Failure(w) \/ Response(w) \/ Release(w) \/ Result(w)

Next ==
  \/ Begin
  \/ End
  \/ \E w \in Workers : Start(w) \/ Step(w)
  \/ Closed

Spec == Init /\ [][Next]_vars

-----------------------------------------------------------------------------
TypeOK ==
  /\ RuntimeTypeOK
  /\ TaskTypeOK
  /\ pc \in [Workers -> Labels]
  /\ pos \in [Workers -> Nat]
  /\ outcome \in [Workers -> Outcome]
  /\ reply \in [Workers -> Replies]

Holders == {w \in Workers : pc[w] \in PermitLabels}

\* Every permit is held by a thread between its acquire and the end of its
\* evaluate_row, and duckjeu_max_inflight bounds them, over errors,
\* cancellation and threads of an ended query.
PermitAccounting ==
  /\ permits = Cardinality(Holders)
  /\ permits <= MaxInflight

\* The counts of a query that succeeded account for every row: null or
\* judged, and each judged row for one provider call of its own.
SnapshotBalanced ==
  \A s \in lastQuery : s.outcome = "succeeded" =>
    /\ s.counts.input_rows = s.counts.null_rows + s.counts.valid_rows
    /\ s.counts.valid_rows = s.counts.unique_judgments
    /\ s.counts.unique_judgments = s.counts.provider_invocations
    /\ s.counts.deduplicated_rows = 0 /\ s.counts.failed_requests = 0
=============================================================================
