---------------------------- MODULE MCHostSession ----------------------------
(* An instance of HostSession for TLC.                                     *)
EXTENDS HostSession, TLC

CONSTANTS a, s1, s2

\* A context of a working provider without detailed timing; and the default
\* init falls back to when provider settings are wrong, with it.
MCContexts ==
  {[provider |-> "typesafe", model |-> "pinned", detailed |-> FALSE,
    ready |-> TRUE],
   [provider |-> "mock", model |-> "alias", detailed |-> TRUE,
    ready |-> FALSE]}

\* A response that tells all, and one that tells nothing.
MCMetadata ==
  {[usage |-> TRUE, roundtrip |-> 1, serialization |-> 1, inference |-> 1],
   [usage |-> FALSE, roundtrip |-> None, serialization |-> None,
    inference |-> None]}

Alike == Permutations(States)
=============================================================================
