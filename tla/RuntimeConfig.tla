---------------------------- MODULE RuntimeConfig ----------------------------
(***************************************************************************)
(* What a statement reads when it is initialised: the options of           *)
(* src/config.rs and the credentials of the environment, turned into a     *)
(* RuntimeConfig, a ProviderContext and (src/provider/mod.rs) an adapter's  *)
(* permission to exist.  An option that takes a word is                    *)
(* [word, plain]: plain is FALSE of the same word padded or in another     *)
(* case.  None stands for a value that was refused or is absent.           *)
(***************************************************************************)
EXTENDS Integers

CONSTANT None

ASSUME NoneAssumption == None # "blank"

DefaultApiUrl == "https://api.typesafe.ai/v1/systemone"
DefaultLocalUrl == "http://127.0.0.1:8765/v1/systemone"
DefaultModel == "jev-latest"
DefaultLocalModel == "nli-deberta-large"

Word(w) == [word |-> w, plain |-> TRUE]

LimitOptions == {"batch_max_judgments", "max_request_bytes", "max_inflight",
                 "cache_max_entries", "cache_max_bytes", "cache_ttl_ms"}

\* register_config_options; sizes and times are in units of the model.
RegisteredDefaults ==
  [provider |-> Word("mock"), api_url |-> DefaultApiUrl,
   local_jev_api_url |-> DefaultLocalUrl, model |-> "",
   timeout_ms |-> 30, max_response_bytes |-> 1000,
   execution_mode |-> Word("row"), batch_enabled |-> FALSE,
   batch_max_judgments |-> 16, max_request_bytes |-> 260,
   max_inflight |-> 4, cache_enabled |-> FALSE,
   cache_max_entries |-> 10, cache_max_bytes |-> 67, cache_ttl_ms |-> 60]

\* The values DuckDB takes for an option.
OptionValues(o) ==
  CASE o \in {"provider", "execution_mode"} ->
         [word : STRING, plain : BOOLEAN]
    [] o \in {"batch_enabled", "cache_enabled"} -> BOOLEAN
    [] o \in LimitOptions \cup {"timeout_ms", "max_response_bytes"} -> Int
    [] o \in {"api_url", "local_jev_api_url", "model"} -> STRING

Options == DOMAIN RegisteredDefaults

-----------------------------------------------------------------------------
(* read_runtime_config.                                                    *)

\* The mode is compared as it stands.
ParseMode(raw) ==
  IF raw.plain /\ raw.word \in {"row", "optimized"} THEN raw.word ELSE None

\* Mutant: zero passes.
PositiveLimitOrZero(v) == v >= 0

PositiveLimit(v) == v > 0

\* RuntimeConfig::from_values.
FromValues(s) ==
  LET mode == ParseMode(s.execution_mode)
  IN  IF /\ mode # None
         /\ ~(mode = "row" /\ s.batch_enabled)
         /\ ~(mode = "row" /\ s.cache_enabled)
         /\ \A o \in LimitOptions : PositiveLimit(s[o])
      THEN [mode |-> mode, batch |-> s.batch_enabled,
            cache |-> s.cache_enabled,
            max_judgments |-> s.batch_max_judgments,
            max_request_bytes |-> s.max_request_bytes]
      ELSE None

-----------------------------------------------------------------------------
(* read_provider_context.  An environment is [override, typesafe, local]:  *)
(* DUCKJEU_API_KEY, TYPESAFE_API_KEY and DUCKJEU_LOCAL_JEV_API_KEY, each   *)
(* None, "blank" or a key.                                                 *)

\* The provider is trimmed and lowered first.
ParseProvider(raw) ==
  IF raw.word \in {"mock", "typesafe", "selfhosted"} THEN raw.word ELSE None

NonBlank(key) == IF key = "blank" THEN None ELSE key

CredentialFromEnv(env) ==
  IF NonBlank(env.override) # None THEN env.override
  ELSE NonBlank(env.typesafe)

LocalJevCredentialFromEnv(env) == NonBlank(env.local)

EffectiveModel(provider, configured) ==
  IF configured # "" THEN configured
  ELSE IF provider = "selfhosted" THEN DefaultLocalModel ELSE DefaultModel

\* Mutant: the local service is asked at duckjeu_api_url, whatever it holds.
ApiUrlAnyProvider(provider, s) == s.api_url

\* duckjeu_api_url says where the local service is once it is not TypeSafe's.
ApiUrl(provider, s) ==
  IF provider = "selfhosted" /\ s.api_url = DefaultApiUrl
  THEN s.local_jev_api_url
  ELSE s.api_url

ReadProviderContext(s, env) ==
  LET provider == ParseProvider(s.provider)
  IN  IF provider # None /\ s.timeout_ms > 0 /\ s.max_response_bytes > 0
      THEN [provider |-> provider, api_url |-> ApiUrl(provider, s),
            model |-> EffectiveModel(provider, s.model),
            timeout_ms |-> s.timeout_ms,
            max_response_bytes |-> s.max_response_bytes,
            credential |-> IF provider = "selfhosted"
                           THEN LocalJevCredentialFromEnv(env)
                           ELSE CredentialFromEnv(env)]
      ELSE None

\* ProviderContext::default, which init keeps when the reading failed.
DefaultContext ==
  [provider |-> "mock", api_url |-> DefaultApiUrl, model |-> DefaultModel,
   timeout_ms |-> 30, max_response_bytes |-> 1000, credential |-> None]

\* provider_for: TypeSafe cannot be asked without a credential.
HasProvider(ctx) == ctx.provider = "typesafe" => ctx.credential # None
=============================================================================
