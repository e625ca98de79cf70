-------------------------- MODULE ProviderProtocol --------------------------
(***************************************************************************)
(* What is sent to a service and what is taken from its reply:             *)
(* src/provider/{mod,mock,typesafe,localjev}.rs over the provider trait    *)
(* and validation of judgment-core/provider.rs.                            *)
(* A request is [kind, state, criterion, question, choices, key], its key  *)
(* r0, r1, ... a number.  The services themselves are external: Replies    *)
(* says what they may do.                                                  *)
(***************************************************************************)
EXTENDS RuntimeConfig, CanonicalState, FiniteSets

CONSTANTS
  PinnedModels,     \* the model names of the form jev-<digits>.<digits>...
  Serves,           \* requested model -> the models that may answer for it
  LocalMaxChoices   \* the candidates local-jev takes: 255

VerifiedBatchModel == "jev-1.13.0"
MockModel == "duckjeu-deterministic-mock-v1"

ASSUME ModelAssumption ==
  None \notin PinnedModels \cup {VerifiedBatchModel, MockModel}

-----------------------------------------------------------------------------
(* Adapters.                                                               *)

MultiStateBatchStatus(model) ==
  IF model \in {"jev-latest", VerifiedBatchModel} THEN "Verified"
  ELSE "Unknown"

TypesafeProvider(ctx) ==
  [external |-> TRUE, batch |-> MultiStateBatchStatus(ctx.model),
   max_choices |-> None, reject_truncated |-> FALSE, aliases |-> TRUE]

LocalJevProvider ==
  [external |-> TRUE, batch |-> "Unsupported",
   max_choices |-> LocalMaxChoices, reject_truncated |-> TRUE,
   aliases |-> FALSE]

MockProvider ==
  [external |-> FALSE, batch |-> "Verified",
   max_choices |-> None, reject_truncated |-> FALSE, aliases |-> FALSE]

Adapter(ctx) ==
  CASE ctx.provider = "mock" -> MockProvider
    [] ctx.provider = "typesafe" -> TypesafeProvider(ctx)
    [] ctx.provider = "selfhosted" -> LocalJevProvider

\* The model a result may be cached under, None for an alias.
CacheModelIdentity(ctx) ==
  IF ctx.provider = "mock" THEN MockModel
  ELSE IF Adapter(ctx).aliases /\ ctx.model \in PinnedModels
       THEN ctx.model ELSE None

WithinCapabilities(ctx, r) ==
  LET limit == Adapter(ctx).max_choices
  IN  ~(limit # None /\ r.kind = "choice" /\ Len(r.choices) > limit)

-----------------------------------------------------------------------------
(* Requests.                                                               *)

\* Size of a body in tokens: what estimate_request_bytes counts of it.
EstimateRequestBytes(requests) ==
  FoldLeft(LAMBDA n, r : n + Len(r.state.canonical) + 10, 10, requests)

\* The candidates as a body holds them, keys of a map whose order is not the
\* row's (serde_json's own); and as the mock hashes them, in the row's order.
ByLabel(choices) == [labels |-> ToSet(choices)]
InOrder(choices) == [in_order |-> choices]

\* The question about one row of the body.
QuestionAbout(r, row) ==
  [type |-> r.kind, row |-> row, question |-> r.question,
   criteria |-> ByLabel(r.choices)]

KeysOf(requests) == {requests[k].key : k \in DOMAIN requests}

\* build_body, and build_batch_body of requests that share their context.
BuildBody(ctx, requests) ==
  LET place(key) == CHOOSE k \in DOMAIN requests : requests[k].key = key
  IN  [model |-> ctx.model,
       rows |-> [k \in DOMAIN requests |-> requests[k].state.value],
       condition |-> requests[1].criterion,
       questions |-> [key \in KeysOf(requests) |->
                        QuestionAbout(requests[place(key)], place(key))]]

\* What judge, judge_many and post_single refuse before anything is sent.
MaySend(ctx, requests) ==
  IF Len(requests) = 1 THEN WithinCapabilities(ctx, requests[1])
  ELSE /\ Adapter(ctx).batch = "Verified"
       /\ \A k \in DOMAIN requests : WithinCapabilities(ctx, requests[k])
       /\ Cardinality(KeysOf(requests)) = Len(requests)
       /\ \A k \in DOMAIN requests :
            /\ requests[k].kind = requests[1].kind
            /\ requests[k].criterion = requests[1].criterion
            /\ requests[k].question = requests[1].question
            /\ requests[k].choices = requests[1].choices

\* post_body up to the send.
Post(ctx, requests) ==
  [endpoint |-> ctx.api_url, credential |-> ctx.credential,
   timeout_ms |-> ctx.timeout_ms, limit |-> ctx.max_response_bytes,
   body |-> BuildBody(ctx, requests)]

-----------------------------------------------------------------------------
(* Replies.  An answer is [type, fits, by]: fits says that its value is a  *)
(* probability in [0, 1], or a label of the question it was given; by what *)
(* it was worked out from.                                                 *)

\* What a service makes of one question of a body, or of one it cut short.
Answer(w, key, model, cut) ==
  LET q == w.body.questions[key]
  IN  [type |-> q.type, fits |-> TRUE,
       by |-> [endpoint |-> w.endpoint, model |-> model,
               state |-> w.body.rows[q.row],
               criterion |-> w.body.condition, question |-> q.question,
               choices |-> q.criteria, whole |-> ~cut,
               alone |-> Len(w.body.rows) = 1]]

Answers(w, model, cut) ==
  [key \in DOMAIN w.body.questions |-> Answer(w, key, model, cut)]

NoReply == [received |-> FALSE, truncated |-> FALSE, model |-> None,
            answers |-> << >>]

\* Answers that are not those of the questions: one left out, one added,
\* one of the other type, one whose value does not fit.
Spoilt(answers) ==
  LET some == CHOOSE key \in DOMAIN answers : TRUE
      unknown == Cardinality(DOMAIN answers)
      other == IF answers[some].type = "noul" THEN "choice" ELSE "noul"
  IN  {[key \in DOMAIN answers \ {some} |-> answers[key]],
       [key \in DOMAIN answers \cup {unknown} |->
          IF key = unknown THEN answers[some] ELSE answers[key]],
       [answers EXCEPT ![some].type = other],
       [answers EXCEPT ![some].fits = FALSE]}

\* Local-jev may judge a truncated state.
Truncations(ctx) == IF ctx.provider = "selfhosted" THEN BOOLEAN ELSE {FALSE}

\* The answers of model m, which the service may leave unsaid.
ProperReplies(w, cuts, m) ==
  {[received |-> TRUE, truncated |-> cut, model |-> told,
    answers |-> Answers(w, m, cut)] : cut \in cuts, told \in {m, None}}

SpoiltReplies(w, m) ==
  {[received |-> TRUE, truncated |-> FALSE, model |-> m, answers |-> a] :
     a \in Spoilt(Answers(w, m, FALSE))}

\* A request may be lost, refused or answered by something that cannot be
\* read, and a service may answer with another model than the one asked for.
Replies(w, cuts) ==
  {NoReply} \cup UNION {ProperReplies(w, cuts, m) \cup SpoiltReplies(w, m) :
                         m \in Serves[w.body.model]}

\* The mock derives its answers from the requests alone.
MockReply(requests) ==
  LET place(key) == CHOOSE k \in DOMAIN requests : requests[k].key = key
      answer(r) ==
        [type |-> r.kind, fits |-> TRUE,
         by |-> [endpoint |-> "mock", model |-> MockModel,
                 state |-> r.state.value, criterion |-> r.criterion,
                 question |-> r.question, choices |-> InOrder(r.choices),
                 whole |-> TRUE, alone |-> Len(requests) = 1]]
  IN  [received |-> TRUE, truncated |-> FALSE, model |-> MockModel,
       answers |-> [key \in KeysOf(requests) |->
                      answer(requests[place(key)])]]

-----------------------------------------------------------------------------
(* Taking a reply.                                                         *)

\* validate_batch_result: one answer to each request, of its type, its value
\* within bounds or among the candidates.
ValidBatchResult(requests, answers) ==
  /\ Cardinality(KeysOf(requests)) = Len(requests)
  /\ DOMAIN answers = KeysOf(requests)
  /\ \A k \in DOMAIN requests :
       /\ answers[requests[k].key].type = requests[k].kind
       /\ answers[requests[k].key].fits

\* post_body from the response on: is it a result for these requests?
Accepted(ctx, requests, r) ==
  /\ r.received
  /\ ~(Adapter(ctx).reject_truncated /\ r.truncated)
  /\ ValidBatchResult(requests, r.answers)
  /\ Adapter(ctx).external /\ Len(requests) > 1 =>
       r.model = VerifiedBatchModel
=============================================================================
