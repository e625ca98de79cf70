--------------------------- MODULE MCJudgmentCall ---------------------------
EXTENDS JudgmentCall

\* "" is the name of a field without one.
MCNameOrder == <<"", "a", "b">>

Col(name, type) == [name |-> name, type |-> type, scale |-> 0]
Decimal(name, scale) == [name |-> name, type |-> "DECIMAL", scale |-> scale]
Varchar == [type |-> "VARCHAR", cols |-> << >>]
Struct(cols) == [type |-> "STRUCT", cols |-> cols]

Row(state, text) == [state |-> state, text |-> text, choices |-> Null]
Choose(state, choices) ==
  [state |-> state, text |-> "which", choices |-> choices]

Chunk(fn, layout, rows) == [fn |-> fn, layout |-> layout, rows |-> rows]

Noul(layout, states) ==
  Chunk("jev_prob", layout, [k \in DOMAIN states |-> Row(states[k], "holds")])

\* The bytes of a structure of one text field, as a text.
Lookalike ==
  EncodeFields([name \in {"a"} |-> [t |-> "text", v |-> <<"x">>]])

\* A text that would end its field and start the next one.
Breakout == <<"y", "'", "}", ",", "'", "b", "'", ":", "{", "text", ":", "'">>

TextFields == Struct(<<Col("b", "VARCHAR"), Col("a", "VARCHAR")>>)

MCChunks ==
  << \* duplicates, a NULL and the bytes of a structure
     Noul(Varchar, <<Lookalike, Null, Lookalike, <<"x">> >>),
     Noul(Struct(<<Col("a", "VARCHAR")>>), << << <<"x">> >> >>),
     \* texts that break out of their fields
     Noul(TextFields,
          << << <<"z">>, Breakout \o <<"y">> >>,
             << Breakout \o <<"z">>, <<"y">> >> >>),
     \* a half and less than -12; less than none; other types
     Noul(Struct(<<Decimal("a", 2)>>), << <<50>>, <<-1234>> >>),
     Noul(Struct(<<Decimal("a", 3)>>), << <<-5>> >>),
     Noul(Struct(<<Col("a", "INTEGER"), Col("b", "UINTEGER")>>),
          << <<-5, 5>>, <<Null, 5>> >>),
     \* fractions: an unreadable one after a good one, then a DATE
     Noul(Struct(<<Col("a", "DOUBLE")>>), << <<"0.5">>, <<"NaN">> >>),
     Noul(Struct(<<Col("a", "DATE")>>), << Null, <<1>> >>),
     \* jev_bool: two criteria, then a blank one
     Chunk("jev_bool", Varchar,
           <<Row(<<"x">>, "holds"), Row(<<"x">>, "other"),
             Row(<<"y">>, Null)>>),
     Chunk("jev_bool", Varchar, <<Row(<<"x">>, "holds"), Row(<<"y">>, "")>>),
     \* jev_choice: candidates in either order, then too many, then bad ones
     Chunk("jev_choice", Varchar,
           <<Choose(<<"x">>, <<"p", "q">>), Choose(<<"x">>, <<"q", "p">>),
             Choose(<<"y">>, <<"p", "q">>), Choose(<<"y">>, Null)>>),
     Chunk("jev_choice", Varchar,
           <<Choose(<<"x">>, <<"p", "q">>),
             Choose(<<"x">>, <<"p", "q", "r">>)>>),
     Chunk("jev_choice", Varchar, <<Choose(<<"x">>, <<"p", "p">>)>>) >>

With(s, o, v) == [s EXCEPT ![o] = v]
Provider(p) == With(RegisteredDefaults, "provider", Word(p))
Optimized(s) == With(s, "execution_mode", Word("optimized"))
Cached(s) == With(s, "cache_enabled", TRUE)
Batched(s) == With(With(s, "batch_enabled", TRUE), "batch_max_judgments", 2)
Pinned(s) == With(s, "model", "jev-1.13.0")

MCBases ==
  {Provider("mock"), Provider("typesafe"),
   Cached(Optimized(Provider("selfhosted"))),
   Cached(Optimized(Pinned(Provider("typesafe")))),
   Batched(Cached(Optimized(Pinned(Provider("typesafe")))))}

MCSetValues ==
  [provider |-> {[word |-> "selfhosted", plain |-> FALSE], Word("typesafe"),
                 Word("mock"), Word("other")},
   api_url |-> {"http://proxy"},
   local_jev_api_url |-> {"http://other-local"},
   model |-> {"", "jev-1.14.0", "custom"},
   timeout_ms |-> {0}, max_response_bytes |-> {0},
   execution_mode |-> {Word("row"), Word("optimized"),
                       [word |-> "optimized", plain |-> FALSE]},
   batch_enabled |-> BOOLEAN, cache_enabled |-> BOOLEAN,
   batch_max_judgments |-> {0}, max_request_bytes |-> {30},
   max_inflight |-> {-1}]

MCEnvironments ==
  {[override |-> "key", typesafe |-> "other-key", local |-> "blank"],
   [override |-> "blank", typesafe |-> None, local |-> "local-key"]}

ASSUME FaithfulChunks == Faithful

MCPinnedModels == {"jev-1.13.0", "jev-1.14.0"}

\* An alias may move, and a service may answer with another model.
MCServes ==
  [m \in {"jev-latest", "jev-1.13.0", "jev-1.14.0", "custom",
          "nli-deberta-large"} |->
     CASE m = "jev-latest" -> {"jev-1.13.0", "jev-1.14.0"}
       [] m = "jev-1.13.0" -> {"jev-1.13.0", "jev-1.14.0"}
       [] OTHER -> {m}]
=============================================================================
