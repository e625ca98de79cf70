---------------------------- MODULE QueryProfile ----------------------------
(***************************************************************************)
(* The part of a query's profile ConnectionRuntime leaves out: the names   *)
(* and the timings ActiveQuery and QuerySnapshot carry (src/host/mod.rs),  *)
(* and the report duckjeu_last_profile renders from them                   *)
(* (judgment-core/metrics.rs).  Times are small numbers; a sum is shown    *)
(* only when it is known to cover every external request.                  *)
(***************************************************************************)
EXTENDS ConnectionRuntime

CONSTANTS
  Providers,   \* provider names
  Priced,      \* the provider whose unit price is known, "typesafe"
  Times,       \* what one measurement may give
  None         \* an Option without a value, JSON null

ASSUME ProfileAssumption ==
  /\ Priced \in Providers
  /\ Times \subseteq Nat
  /\ None \notin Providers \cup Models \cup Nat

VARIABLES
  profile,       \* names and timings of the active query
  lastProfile    \* those of last_query, at most one, as a set

profileVars == <<profile, lastProfile>>

\* What init records: provider, requested model, detailed timing asked for;
\* and the sums of the timing fields of QueryCounts with their sample counts.
Profile ==
  [provider : Providers \cup {None}, model : Models \cup {None},
   detailed : BOOLEAN,
   roundtrip : Nat, roundtrips : Nat,
   serialization : Nat, serializations : Nat,
   inference : Nat, inferences : Nat, uninferred : Nat]

FreshProfile ==
  [provider |-> None, model |-> None, detailed |-> FALSE,
   roundtrip |-> 0, roundtrips |-> 0,
   serialization |-> 0, serializations |-> 0,
   inference |-> 0, inferences |-> 0, uninferred |-> 0]

ProfileInit == profile = FreshProfile /\ lastProfile = {}

-----------------------------------------------------------------------------
(* begin_query and end_query with the fields of this module.               *)

BeginProfiled ==
  /\ BeginQuery
  /\ profile' = FreshProfile
  /\ UNCHANGED lastProfile

EndProfiled(outcome) ==
  /\ EndQuery(outcome)
  /\ profile' = FreshProfile
  /\ lastProfile' = IF counts.input_rows > 0 THEN {profile} ELSE lastProfile

-----------------------------------------------------------------------------
(* Observations.                                                           *)

OrElse(value, default) == IF value = None THEN default ELSE value

ProfileOf(q, p) == profile' = IF active = q THEN p ELSE profile

\* Mutant: each init overwrites the model of the one before.
RecordProfileContextMixed(q, x) ==
  ProfileOf(q, [profile EXCEPT !.provider = OrElse(@, x.provider),
                               !.model = x.model,
                               !.detailed = @ \/ x.detailed])

\* record_profile_context: the first init of the query names provider and
\* model; any init can ask for detailed timing, none can withdraw it.
RecordProfileContext(q, x) ==
  ProfileOf(q, [profile EXCEPT !.provider = OrElse(@, x.provider),
                               !.model = OrElse(@, x.model),
                               !.detailed = @ \/ x.detailed])

\* A measurement is added only while detailed timing is on.
Timed(p, time) ==
  IF p.detailed
  THEN [p EXCEPT !.roundtrip = @ + time, !.roundtrips = @ + 1] ELSE p

Serialized(p, time) ==
  IF p.detailed /\ time # None
  THEN [p EXCEPT !.serialization = @ + time, !.serializations = @ + 1] ELSE p

Inferred(p, time) ==
  IF time = None THEN [p EXCEPT !.uninferred = @ + 1]
  ELSE [p EXCEPT !.inference = @ + time, !.inferences = @ + 1]

\* record_provider_response, for the metadata of a response; the adapter's
\* own round trip is preferred to the time measured around the call.
RecordResponse(q, meta, elapsed) ==
  /\ RecordProviderResponse(q, meta.usage)
  /\ IF External
     THEN ProfileOf(q, Inferred(Serialized(Timed(profile,
                         OrElse(meta.roundtrip, elapsed)),
                         meta.serialization), meta.inference))
     ELSE UNCHANGED profile

\* evaluate_row's error arm: record_failed_request and
\* record_provider_failure under one lock.
RecordFailure(q, elapsed) ==
  /\ Record(q, [failed_requests |-> 1, usage_missing_count |-> 1])
  /\ ProfileOf(q, Inferred(Timed(profile, elapsed), None))

-----------------------------------------------------------------------------
(* render_profile.                                                         *)

\* Mutant: a sum is shown as soon as there is a sample.
SumIfAny(sum, samples, requests) == IF samples > 0 THEN sum ELSE None

\* A sum is shown if there were requests and each gave a sample.
SumIfComplete(sum, samples, requests) ==
  IF samples = requests /\ requests > 0 THEN sum ELSE None

\* The report on snapshot s with profile p.
Report(s, p) ==
  LET requests == s.counts.external_requests
      Detailed(sum, samples) ==
        IF p.detailed THEN SumIfComplete(sum, samples, requests) ELSE None
  IN  [query |-> s.query, status |-> s.outcome,
       provider |-> p.provider, requested_model |-> p.model,
       external_roundtrip_sum |-> Detailed(p.roundtrip, p.roundtrips),
       serialization_sum |-> Detailed(p.serialization, p.serializations),
       server_inference_sum |->
         IF p.uninferred = 0
         THEN SumIfComplete(p.inference, p.inferences, requests) ELSE None,
       cost_stated |-> p.provider = Priced /\ CostStated(s.counts)]

\* What duckjeu_last_profile() returns: the last report, or SQL NULL.
LastReports == {Report(s, p) : s \in lastQuery, p \in lastProfile}

ProfileTypeOK ==
  /\ profile \in Profile
  /\ lastProfile \subseteq Profile
=============================================================================
