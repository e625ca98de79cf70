---------------------------- MODULE JudgmentCall ----------------------------
(***************************************************************************)
(* A connection's statements one after the other, each from the options    *)
(* and the rows it is given to the answers it returns: init, read_request, *)
(* evaluate_row and run_optimized of src/functions/mod.rs, the identities, *)
(* the grouping, batching and caching of judgment-core, over the           *)
(* adapters of ProviderProtocol.  Threads, permits and profiles are those  *)
(* of the executor modules: here every statement runs alone, on one chunk, *)
(* and what matters is what its rows, settings and replies hold.           *)
(* A chunk is [fn, layout, rows], a row [state, text, choices], with Null  *)
(* for a NULL argument.                                                    *)
(***************************************************************************)
EXTENDS ProviderProtocol

CONSTANTS
  Chunks,         \* the chunks a statement may be given, by number
  Bases,          \* the database's settings when the connection opens
  SetValues,      \* option -> the values SET gives it
  Environments,   \* the environments the process may have
  MaxSets,        \* bound on the SETs, for TLC
  MaxStatements   \* bound on the statements, for TLC

ASSUME CallAssumption ==
  /\ MaxSets \in Nat /\ MaxStatements \in Nat
  /\ LocalMaxChoices \in Nat \ {0}
  /\ DOMAIN SetValues \subseteq Options
  /\ \A o \in DOMAIN SetValues : \A v \in SetValues[o] : v \in OptionValues(o)
  /\ \A s \in Bases :
       DOMAIN s = Options /\ \A o \in Options : s[o] \in OptionValues(o)
  /\ \A c \in DOMAIN Chunks :
       /\ Len(Chunks[c].rows) \in Nat
       /\ DOMAIN Chunks[c].rows = 1..Len(Chunks[c].rows)

VARIABLES
  settings,     \* the connection's options
  env,          \* the environment
  sets,         \* SETs so far
  statement,    \* statements so far
  pc,           \* where the statement is
  chunk,        \* its chunk, a number
  config,       \* ExecutionState.runtime_config, None for an error
  context,      \* ExecutionState.context
  ready,        \* is ExecutionState.provider an adapter?
  row,          \* the row evaluate_row is at
  pending,      \* groups not looked up yet, each by its first row
  leaders,      \* groups to be asked for in batches
  todo,         \* those of them not sent yet
  batch,        \* the groups of the request under way
  wire,         \* the request as it was sent, None before and after
  reply,        \* the reply to it
  out,          \* row -> {its answer}, or {} for NULL
  hits,         \* the rows answered from the cache
  cache,        \* the result cache: identity -> answer
  fingerprint,  \* of the credential the connection last used
  credScope     \* credential_scope

connectionVars == <<settings, env, sets>>
frozenVars == <<chunk, config, context, ready>>
workVars == <<row, pending, leaders, todo>>
sendVars == <<batch, wire, reply>>
outVars == <<out, hits>>
keptVars == <<cache, fingerprint, credScope>>
vars == <<connectionVars, statement, pc, frozenVars, workVars, sendVars,
          outVars, keptVars>>

NoAnswers == [i \in {} |-> i]

Init ==
  /\ settings \in Bases /\ env \in Environments
  /\ sets = 0 /\ statement = 0 /\ pc = "idle"
  /\ chunk = 0 /\ config = None /\ context = DefaultContext /\ ready = FALSE
  /\ row = 0 /\ pending = {} /\ leaders = {} /\ todo = {}
  /\ batch = {} /\ wire = None /\ reply = NoReply
  /\ out = NoAnswers /\ hits = {}
  /\ cache = NoAnswers /\ fingerprint = None /\ credScope = 0

-----------------------------------------------------------------------------
(* Requests and identities.                                                *)

Rows == Chunks[chunk].rows
Function == Chunks[chunk].fn
Layout == Chunks[chunk].layout

\* A NULL argument: the row is NULL and is not looked at any further.
IsNull(r) ==
  r.state = Null \/ r.text = Null
    \/ (Function = "jev_choice" /\ r.choices = Null)

IsBlank(text) == text = ""

\* JudgmentRequest::noul and ::choice, after read_string_list.
IsQuestion(r) ==
  /\ ~IsBlank(r.text)
  /\ Function = "jev_choice" =>
       /\ Len(r.choices) >= 2
       /\ \A k \in DOMAIN r.choices :
            r.choices[k] # Null /\ ~IsBlank(r.choices[k])
       /\ \A j, k \in DOMAIN r.choices :
            r.choices[j] = r.choices[k] => j = k

\* read_request succeeds with a request.
IsRequest(r) == Readable(Layout, r.state) /\ IsQuestion(r)

\* What a row asks, apart from its state: what same_batch_context compares.
QuestionOf(r) ==
  IF Function = "jev_choice"
  THEN [kind |-> "choice", criterion |-> None, question |-> r.text,
        choices |-> r.choices]
  ELSE [kind |-> "noul", criterion |-> r.text, question |-> None,
        choices |-> << >>]

Request(r, key) ==
  LET q == QuestionOf(r)
  IN  [kind |-> q.kind, state |-> ReadState(Layout, r.state),
       criterion |-> q.criterion, question |-> q.question,
       choices |-> q.choices, key |-> key]

\* The same of a request.
Asked(r) ==
  [kind |-> r.kind, criterion |-> r.criterion, question |-> r.question,
   choices |-> r.choices]

\* Mutant: a text and a structure of the same bytes are one.
IdentityAnyKind(r, model) ==
  [canonical |-> r.state.canonical, asked |-> Asked(r),
   provider |-> context.provider, endpoint |-> context.api_url,
   requested |-> context.model, effective |-> model, scope |-> credScope,
   unresolved |-> IF model = None THEN statement ELSE None]

\* JudgmentIdentity::new; cache_identity_for gives it an effective model.
Identity(r, model) ==
  [state_kind |-> r.state.kind, canonical |-> r.state.canonical,
   asked |-> Asked(r), provider |-> context.provider,
   endpoint |-> context.api_url, requested |-> context.model,
   effective |-> model, scope |-> credScope,
   unresolved |-> IF model = None THEN statement ELSE None]

\* group_by_identity: the rows to be judged, those with one identity in a
\* group, which its first row stands for.
Judged == {i \in DOMAIN Rows : ~IsNull(Rows[i])}

RequestOf(i) == Request(Rows[i], 0)

GroupOf(i) ==
  {j \in Judged : Identity(RequestOf(j), None) = Identity(RequestOf(i), None)}

Groups == {i \in Judged : \A j \in GroupOf(i) : i <= j}

\* requests_for_groups: keys r0, r1, ..., here numbers, in the order of the
\* batch.
RequestKey(B, i) == Cardinality({j \in B : j < i})

WithKey(B, key) == CHOOSE i \in B : RequestKey(B, i) = key

Requests(B) ==
  [k \in 1..Cardinality(B) |-> Request(Rows[WithKey(B, k - 1)], k - 1)]

\* The rows an answer to a group is given to: evaluate_row groups nothing.
Targets(i) == IF config.mode = "row" THEN {i} ELSE GroupOf(i)

\* The groups of B have been answered, each i by answer[i].
Expand(B, answer) ==
  LET group(i) == CHOOSE g \in B : i \in Targets(g)
  IN  out' = [i \in DOMAIN out \cup UNION {Targets(g) : g \in B} |->
                IF i \in DOMAIN out THEN out[i] ELSE {answer[group(i)]}]

Goto(label) == pc' = label

-----------------------------------------------------------------------------
(* Between statements.                                                     *)

\* SET option = value.
Set(option, value) ==
  /\ pc = "idle" /\ sets < MaxSets /\ statement < MaxStatements
  /\ settings[option] # value
  /\ settings' = [settings EXCEPT ![option] = value]
  /\ sets' = sets + 1
  /\ UNCHANGED <<env, statement, pc, frozenVars, workVars, sendVars, outVars,
                 keptVars>>

\* init freezes the settings; run takes the optimized path only when they
\* were read and say so.
Begin(c) ==
  LET read == ReadProviderContext(settings, env)
  IN  /\ pc = "idle" /\ statement < MaxStatements
      /\ statement' = statement + 1
      /\ chunk' = c
      /\ config' = FromValues(settings)
      /\ context' = IF read = None THEN DefaultContext ELSE read
      /\ ready' = (read # None /\ HasProvider(read))
      /\ IF config' # None /\ config'.mode = "optimized"
         THEN Goto("chunk") /\ row' = 0
         ELSE Goto("row") /\ row' = 1
      /\ UNCHANGED <<connectionVars, pending, leaders, todo, sendVars,
                     outVars, keptVars>>

\* drop_execution_state; the answers have gone to DuckDB.
End ==
  /\ pc \in {"done", "failed"}
  /\ Goto("idle")
  /\ chunk' = 0 /\ config' = None /\ context' = DefaultContext
  /\ ready' = FALSE
  /\ row' = 0 /\ pending' = {} /\ leaders' = {} /\ todo' = {}
  /\ batch' = {} /\ wire' = None /\ reply' = NoReply
  /\ out' = NoAnswers /\ hits' = {}
  /\ UNCHANGED <<connectionVars, statement, keptVars>>

-----------------------------------------------------------------------------
(* Row mode: run's loop over evaluate_row.                                 *)

RowsDone ==
  /\ pc = "row" /\ row > Len(Rows)
  /\ Goto("done")
  /\ UNCHANGED <<connectionVars, statement, frozenVars, workVars, sendVars,
                 outVars, keptVars>>

NullRow ==
  /\ pc = "row" /\ row <= Len(Rows) /\ IsNull(Rows[row])
  /\ out' = [i \in DOMAIN out \cup {row} |->
               IF i = row THEN {} ELSE out[i]]
  /\ row' = row + 1
  /\ UNCHANGED <<connectionVars, statement, pc, frozenVars, pending, leaders,
                 todo, sendVars, hits, keptVars>>

\* A row that is not a request fails before the settings are looked at, and
\* these before the adapter.
EvaluateRow ==
  /\ pc = "row" /\ row <= Len(Rows) /\ ~IsNull(Rows[row])
  /\ IF /\ IsRequest(Rows[row]) /\ config # None /\ ready
        /\ WithinCapabilities(context, RequestOf(row))
     THEN batch' = {row} /\ Goto("send")
     ELSE Goto("failed") /\ UNCHANGED batch
  /\ UNCHANGED <<connectionVars, statement, frozenVars, workVars, wire,
                 reply, outVars, keptVars>>

-----------------------------------------------------------------------------
(* Optimized mode.                                                         *)

\* Every row of the chunk is read before anything is asked.
AllRequests(rows) == \A i \in rows : IsRequest(Rows[i])

\* credential_scope: a credential other than the last one clears the cache.
UseCredential ==
  /\ pc = "chunk"
  /\ IF context.credential = fingerprint THEN UNCHANGED keptVars
     ELSE /\ fingerprint' = context.credential
          /\ credScope' = credScope + 1
          /\ cache' = NoAnswers
  /\ Goto("group")
  /\ UNCHANGED <<connectionVars, statement, frozenVars, workVars, sendVars,
                 outVars>>

\* The rest of run_optimized up to the executor, and the check
\* execute_batch_groups makes first.
ReadChunk ==
  /\ pc = "group"
  /\ IF /\ AllRequests(Judged)
        /\ Judged # {} => /\ ready
                          /\ config.batch =>
                               Adapter(context).batch = "Verified"
     THEN /\ pending' = Groups
          /\ out' = [i \in DOMAIN Rows \ Judged |-> {}]
          /\ Goto("lookup")
     ELSE Goto("failed") /\ UNCHANGED <<pending, out>>
  /\ UNCHANGED <<connectionVars, statement, frozenVars, row, leaders, todo,
                 sendVars, hits, keptVars>>

\* cache_identity_for, or None when the judgment is not for the cache.
CacheIdentity(i) ==
  IF ~config.cache \/ CacheModelIdentity(context) = None THEN None
  ELSE Identity(RequestOf(i), CacheModelIdentity(context))

Hit ==
  /\ pc = "lookup" /\ pending # {}
  /\ LET g == Min(pending)
     IN  /\ config.batch => WithinCapabilities(context, RequestOf(g))
         /\ CacheIdentity(g) # None /\ CacheIdentity(g) \in DOMAIN cache
         /\ Expand({g}, [i \in {g} |-> cache[CacheIdentity(g)]])
         /\ hits' = hits \cup Targets(g)
         /\ pending' = pending \ {g}
  /\ UNCHANGED <<connectionVars, statement, pc, frozenVars, row, leaders,
                 todo, sendVars, keptVars>>

\* A group that is not in the cache is asked for once every group has been
\* looked up, in a batch, or else now.
Miss ==
  /\ pc = "lookup" /\ pending # {}
  /\ LET g == Min(pending)
     IN  /\ CacheIdentity(g) \notin DOMAIN cache
         /\ pending' = pending \ {g}
         /\ IF config.batch
            THEN /\ IF WithinCapabilities(context, RequestOf(g))
                    THEN /\ leaders' = leaders \cup {g}
                         /\ todo' = todo \cup {g}
                         /\ UNCHANGED pc
                    ELSE Goto("failed") /\ UNCHANGED <<leaders, todo>>
                 /\ UNCHANGED batch
            ELSE /\ IF EstimateRequestBytes(Requests({g}))
                         <= config.max_request_bytes
                    THEN Goto("send") /\ batch' = {g}
                    ELSE Goto("failed") /\ UNCHANGED batch
                 /\ UNCHANGED <<leaders, todo>>
  /\ UNCHANGED <<connectionVars, statement, frozenVars, row, wire, reply,
                 outVars, keptVars>>

LookedUp ==
  /\ pc = "lookup" /\ pending = {}
  /\ Goto(IF leaders = {} THEN "done" ELSE "plan")
  /\ UNCHANGED <<connectionVars, statement, frozenVars, workVars, sendVars,
                 outVars, keptVars>>

\* The leaders that may share a request with i.
Partition(i) == {j \in leaders : QuestionOf(Rows[j]) = QuestionOf(Rows[i])}

\* What is left of the first partition, in the order of their first groups,
\* that is not all sent.
Remaining ==
  LET first == Min({Min(Partition(i)) : i \in todo})
  IN  Partition(first) \cap todo

Fits(B) ==
  /\ Cardinality(B) <= config.max_judgments
  /\ EstimateRequestBytes(Requests(B)) <= config.max_request_bytes

UpTo(i) == {j \in Remaining : j <= i}

\* The longest run that fits; a judgment too large for a request of its own
\* stops the batches after it.
NextBatch ==
  /\ pc = "plan"
  /\ IF todo = {} THEN Goto("done") /\ UNCHANGED <<todo, batch>>
     ELSE LET fitting == {i \in Remaining : Fits(UpTo(i))}
          IN  IF fitting = {} THEN Goto("failed") /\ UNCHANGED <<todo, batch>>
              ELSE /\ Goto("send")
                   /\ batch' = UpTo(Max(fitting))
                   /\ todo' = todo \ batch'
  /\ UNCHANGED <<connectionVars, statement, frozenVars, row, pending,
                 leaders, wire, reply, outVars, keptVars>>

-----------------------------------------------------------------------------
(* Asking.                                                                 *)

\* judge_many, or judge_with_metadata for one.
Send ==
  /\ pc = "send"
  /\ IF ~MaySend(context, Requests(batch))
     THEN Goto("failed") /\ UNCHANGED <<wire, reply>>
     ELSE IF Adapter(context).external
          THEN /\ wire' = Post(context, Requests(batch))
               /\ Goto("wait")
               /\ UNCHANGED reply
          ELSE /\ reply' = MockReply(Requests(batch))
               /\ Goto("settle")
               /\ UNCHANGED wire
  /\ UNCHANGED <<connectionVars, statement, frozenVars, workVars, batch,
                 outVars, keptVars>>

\* The service, or what became of the request.
Reply ==
  /\ pc = "wait"
  /\ reply' \in Replies(wire, Truncations(context))
  /\ wire' = None
  /\ Goto("settle")
  /\ UNCHANGED <<connectionVars, statement, frozenVars, workVars, batch,
                 outVars, keptVars>>

\* Mutant: what the service says of its model is not compared.
MayKeepAny(i) == CacheIdentity(i) # None

\* A result is cached only under the model the service said it used.
MayKeep(i) ==
  /\ CacheIdentity(i) # None
  /\ reply.model = CacheIdentity(i).effective

\* The cache may refuse or lose what it is given: JudgmentCache.
Keep ==
  LET kept == {i \in batch : MayKeep(i)}
      new == {CacheIdentity(i) : i \in kept}
      key(id) == RequestKey(batch, CHOOSE i \in kept : CacheIdentity(i) = id)
  IN  cache' = [id \in DOMAIN cache \cup new |->
                  IF id \in new THEN reply.answers[key(id)] ELSE cache[id]]

\* The reply is validated, its answers given to every row of the batch.
Settle ==
  /\ pc = "settle"
  /\ reply' = NoReply /\ batch' = {}
  /\ IF Accepted(context, Requests(batch), reply)
     THEN /\ Expand(batch, [i \in batch |->
                            reply.answers[RequestKey(batch, i)]])
          /\ IF config.mode = "row"
             THEN Goto("row") /\ row' = row + 1 /\ UNCHANGED cache
             ELSE /\ Goto(IF config.batch THEN "plan" ELSE "lookup")
                  /\ Keep \/ UNCHANGED cache
                  /\ UNCHANGED row
     ELSE Goto("failed") /\ UNCHANGED <<row, out, cache>>
  /\ UNCHANGED <<connectionVars, statement, frozenVars, pending, leaders,
                 todo, wire, hits, fingerprint, credScope>>

-----------------------------------------------------------------------------

Next ==
  \/ \E option \in DOMAIN SetValues : \E value \in SetValues[option] :
       Set(option, value)
  \/ \E c \in DOMAIN Chunks : Begin(c)
  \/ End
  \/ RowsDone \/ NullRow \/ EvaluateRow
  \/ UseCredential \/ ReadChunk \/ Hit \/ Miss \/ LookedUp \/ NextBatch
  \/ Send \/ Reply \/ Settle

Spec == Init /\ [][Next]_vars

-----------------------------------------------------------------------------
(* Properties.                                                             *)

\* Rows whose states are read as the same kind and bytes hold the same: what
\* sharing answers by identity rests on.
Faithful ==
  \A c, d \in DOMAIN Chunks :
    \A i \in DOMAIN Chunks[c].rows, j \in DOMAIN Chunks[d].rows :
      LET s == Chunks[c].rows[i].state
          t == Chunks[d].rows[j].state
          read == ReadState(Chunks[c].layout, s)
          same == ReadState(Chunks[d].layout, t)
      IN  /\ s # Null /\ Readable(Chunks[c].layout, s)
          /\ t # Null /\ Readable(Chunks[d].layout, t)
          /\ read.kind = same.kind /\ read.canonical = same.canonical
          => SaysState(read.value, Chunks[d].layout, t)

\* An answer worked out from this question and these candidates.
Concerns(a, asked) ==
  /\ a.type = asked.kind /\ a.by.criterion = asked.criterion
  /\ a.by.question = asked.question
  /\ a.by.choices \in {ByLabel(asked.choices), InOrder(asked.choices)}

\* Every answer of a statement is to the row it stands in: worked out from
\* the whole of that row's state, its types and NULL fields included, and
\* from its own question and candidates, of the type asked for and within
\* its bounds; a row with a NULL argument, and no other, is NULL; and a
\* statement that succeeds has answered every row.  It holds through
\* grouping by identity, batches answered by key and results kept from other
\* statements, whatever the replies.
RowsGetOwnAnswers ==
  /\ \A i \in DOMAIN out :
       /\ out[i] = {} <=> IsNull(Rows[i])
       /\ \A a \in out[i] :
            /\ a.fits /\ a.by.whole
            /\ Concerns(a, QuestionOf(Rows[i]))
            /\ SaysState(a.by.state, Layout, Rows[i].state)
  /\ pc = "done" => DOMAIN out = DOMAIN Rows

\* Every answer is of the service the statement's own settings name, however
\* they were SET since earlier statements: its endpoint, for a result from
\* the cache the very version it names, and for one that shared its request
\* the model batching was verified with.
AnswersOfNamedService ==
  \A i \in DOMAIN out : \A a \in out[i] :
    /\ a.by.endpoint =
         IF context.provider = "mock" THEN "mock" ELSE context.api_url
    /\ i \in hits => a.by.model = CacheModelIdentity(context)
    /\ ~a.by.alone /\ context.provider # "mock" =>
         a.by.model = VerifiedBatchModel

LegalSettings ==
  /\ settings.timeout_ms > 0 /\ settings.max_response_bytes > 0
  /\ \A o \in LimitOptions : settings[o] > 0
  /\ settings.execution_mode \in {Word("row"), Word("optimized")}
  /\ settings.batch_enabled \/ settings.cache_enabled =>
       settings.execution_mode = Word("optimized")

\* Nothing is sent under settings that have to be refused, nor for rows that
\* do: in row mode those up to the one asked about, in optimized mode, whose
\* answers are published together, those of the whole chunk; a request keeps
\* to the limits the statement was given.
OnlyLegalWorkIsSent ==
  wire # None =>
    /\ LegalSettings
    /\ \A i \in IF settings.execution_mode.word = "row" THEN 1..row
                ELSE DOMAIN Rows :
         IsNull(Rows[i]) \/ IsRequest(Rows[i])
    /\ settings.execution_mode.word = "optimized" =>
         /\ EstimateRequestBytes(Requests(batch))
              <= settings.max_request_bytes
         /\ Cardinality(batch) <= settings.batch_max_judgments
         /\ Cardinality(batch) > 1 => settings.batch_enabled
    /\ wire.timeout_ms = settings.timeout_ms
    /\ wire.limit = settings.max_response_bytes

\* A statement talks to the service its provider setting names and to no
\* other: the mock to none; TypeSafe never without a credential nor with the
\* local one, the local service never with TypeSafe's, at TypeSafe's default
\* address or about its default model unless that was SET for it.
ServiceKept ==
  wire # None =>
    \/ /\ settings.provider.word = "typesafe"
       /\ wire.credential \in {env.override, env.typesafe} \ {None, "blank"}
       /\ wire.endpoint = settings.api_url
       /\ wire.body.model = DefaultLocalModel =>
            settings.model = DefaultLocalModel
    \/ /\ settings.provider.word = "selfhosted"
       /\ wire.credential \in {env.local, None} \ {"blank"}
       /\ wire.endpoint = DefaultApiUrl =>
            settings.local_jev_api_url = DefaultApiUrl
       /\ wire.body.model = DefaultModel => settings.model = DefaultModel
=============================================================================
