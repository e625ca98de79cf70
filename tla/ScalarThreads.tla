---------------------------- MODULE ScalarThreads ----------------------------
(***************************************************************************)
(* The host around a connection's runtime: DuckDB threads that evaluate a  *)
(* judgment function over data chunks (src/functions/mod.rs), the query    *)
(* callbacks of the C++ bridge (src/host/client_context.cpp), and what the *)
(* provider's service saw.  The executors add the program of a thread.     *)
(***************************************************************************)
EXTENDS ConnectionRuntime

CONSTANTS
  Workers,       \* the threads
  Contexts,      \* what init freezes: [cred, model, ready]
  Chunks,        \* the data chunks a thread may be given: sequences of rows
  NullRow,       \* a row with a top-level NULL argument
  BadRow,        \* a row read_request rejects
  OversizeKeys,  \* judgments larger than duckjeu_max_request_bytes
  WideKeys       \* judgments with more choices than the adapter sends

ASSUME ThreadAssumption ==
  /\ IsFiniteSet(Workers)
  /\ Contexts # {}
  /\ Contexts \subseteq [cred : Creds, model : Models, ready : BOOLEAN]
  /\ NullRow \notin Keys /\ BadRow \notin Keys
  /\ Chunks \subseteq Seq(Keys \cup {NullRow, BadRow})

VARIABLES
  pc,       \* where each thread is
  scope,    \* query_scope it read when its chunk began
  ctx,      \* its frozen context
  cscope,   \* the credential scope it was given
  chunk,    \* its rows
  ledger    \* per query, the requests the service got and what it billed

taskVars == <<scope, ctx, cscope, chunk>>
threadVars == <<pc, taskVars, ledger>>

Resting == {"idle", "done", "failed"}

Running(w) == pc[w] \notin Resting

\* The rows of a chunk that need a judgment, and the groups of
\* group_by_identity: each is named by its first row; its targets are the
\* rows with the same content.
JudgedRows(c) == {i \in DOMAIN c : c[i] \in Keys}

Leads(c) == {i \in JudgedRows(c) : \A j \in DOMAIN c : j < i => c[j] # c[i]}

Targets(c, i) == {j \in DOMAIN c : c[j] = c[i]}

NullRows(c) == {i \in DOMAIN c : c[i] = NullRow}

HasBadRow(c) == \E i \in DOMAIN c : c[i] = BadRow

ThreadsInit ==
  /\ RuntimeInit
  /\ pc = [w \in Workers |-> "idle"]
  /\ scope = [w \in Workers |-> 0]
  /\ ctx = [w \in Workers |-> CHOOSE x \in Contexts : TRUE]
  /\ cscope = [w \in Workers |-> 0]
  /\ chunk = [w \in Workers |-> << >>]
  /\ ledger = [q \in 0..MaxQueries |-> [sent |-> 0, billed |-> 0]]

-----------------------------------------------------------------------------
(* The host.  DuckDB ends a query with success only when every chunk of it *)
(* was evaluated without error.  With DrainFirst it calls the callbacks    *)
(* only when no thread is inside the extension; without, whenever.         *)

HostBegin ==
  /\ DrainFirst => active = NoQuery
  /\ BeginQuery
  /\ UNCHANGED threadVars

HostEnd(outcome) ==
  /\ DrainFirst => \A w \in Workers : ~Running(w)
  /\ outcome = "succeeded" =>
       \A w \in Workers : scope[w] = active => pc[w] \in {"idle", "done"}
  /\ EndQuery(outcome)
  /\ UNCHANGED threadVars

\* DuckDB evaluates expressions only inside a query.  A thread is given one
\* chunk per query (a bound: another thread stands for its next chunk).
CanStart(w) ==
  /\ active # NoQuery
  /\ ~Running(w)
  /\ pc[w] = "idle" \/ scope[w] # QueryScope

-----------------------------------------------------------------------------
(* What the provider's service sees of a call made for query q while q is  *)
(* active (what a thread sends after its query ended is in no report).  A  *)
(* request the adapter refuses (check_request_capabilities) is never sent; *)
(* one that fails may have been billed.                                    *)

Serve(q, billed) ==
  ledger' = IF External /\ active = q
            THEN [ledger EXCEPT ![q] = [sent |-> @.sent + 1,
                                        billed |-> @.billed + billed]]
            ELSE ledger

\* The usage figures of a response: only an external one may have them.
UsageReplies == IF External THEN {"usage", "no_usage"} ELSE {"no_usage"}

-----------------------------------------------------------------------------
(* Scheduling of one thread inside the runtime calls all executors make.   *)

Goto(w, label) == pc' = [pc EXCEPT ![w] = label]

\* acquire_request_permit, first half: the cancellation flag is fetched
\* under the connection's mutex, which fails once the query is gone.
StillActive(w) == scope[w] = active

Flagged(w) == scope[w] \in cancelled

-----------------------------------------------------------------------------
TaskTypeOK ==
  /\ scope \in [Workers -> Nat]
  /\ ctx \in [Workers -> Contexts]
  /\ cscope \in [Workers -> Nat]
  /\ chunk \in [Workers -> Chunks \cup {<< >>}]
  /\ ledger \in [0..MaxQueries -> [sent : Nat, billed : Nat]]

-----------------------------------------------------------------------------
(* What duckjeu_last_profile() may be relied on for, in every mode.        *)

\* A stated cost covers every token the service had billed for the query
\* when it ended: render_profile withholds it when any request of the query
\* failed, went without usage figures or is still without a response.
CostCoversBilling ==
  \A s \in lastQuery :
    CostStated(s.counts) => s.counts.tokens = ledger[s.query].billed

\* Every request the service got for a query before its end is in its
\* external_requests.
RequestsCounted ==
  External => \A s \in lastQuery :
    s.counts.external_requests >= ledger[s.query].sent

\* external_requests holds nothing but requests that were sent
\* (profile-report.md: only network requests that really took place).
OnlySentRequestsCounted ==
  \A s \in lastQuery : s.counts.external_requests <= ledger[s.query].sent

\* deduplicated_rows = valid_rows - unique_judgments in every snapshot
\* (profile-report.md excepts only input errors).
DuplicatesAreTheRest ==
  \A s \in lastQuery :
    s.counts.valid_rows
      = s.counts.unique_judgments + s.counts.deduplicated_rows
=============================================================================
