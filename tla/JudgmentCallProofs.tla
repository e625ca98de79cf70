------------------------- MODULE JudgmentCallProofs -------------------------
(***************************************************************************)
(* Proofs about JudgmentCall, for any chunks, settings, environments and   *)
(* services: what is sent is what the statement's settings and rows allow, *)
(* it goes to the service they name, and every row gets its own answer     *)
(* from there, whether it was asked for alone, in a group, in a batch or   *)
(* in an earlier statement.                                                *)
(*                                                                         *)
(* A statement works with what it froze at its init (Frozen); WorkInv says *)
(* where each row is on its way to an answer, and AnswerInv what the reply *)
(* under way, the rows and the cache hold.                                 *)
(***************************************************************************)
EXTENDS JudgmentCall, CountingLemmas

-----------------------------------------------------------------------------
(* The parts of the invariant.                                             *)

Asking == {"send", "wait", "settle"}

\* The labels of the optimized path before and between requests.
Grouping == {"chunk", "group", "lookup", "plan"}

Labels == Asking \cup Grouping \cup {"idle", "row", "done", "failed"}

SettingsTyped ==
  DOMAIN settings = Options
    /\ \A o \in Options : settings[o] \in OptionValues(o)

\* The statement runs with what its settings and environment say.
Frozen ==
  pc # "idle" =>
    LET read == ReadProviderContext(settings, env)
    IN  /\ chunk \in DOMAIN Chunks
        /\ config = FromValues(settings)
        /\ context = IF read = None THEN DefaultContext ELSE read
        /\ ready = (read # None /\ HasProvider(read))

InMode(mode) == config # None /\ config.mode = mode

\* Every path has its labels.
PathKept ==
  /\ pc = "row" => config = None \/ InMode("row")
  /\ pc \in Grouping => InMode("optimized")
  /\ pc \in Asking => /\ InMode("row") \/ InMode("optimized")
                      /\ ready /\ batch # {}
  /\ pc \notin Asking \cup {"failed"} => batch = {}

\* Rows before the n-th are NULL or requests.
RequestsBefore(n) ==
  \A i \in 1..(n - 1) : IsNull(Rows[i]) \/ IsRequest(Rows[i])

\* Row mode: the rows before this one are done.
RowByRow ==
  /\ pc = "row" => row \in 1..(Len(Rows) + 1)
  /\ pc \in Asking /\ InMode("row") => row \in Judged /\ batch = {row}
                                         /\ IsRequest(Rows[row])
  /\ pc = "row" \/ (pc \in Asking /\ InMode("row")) =>
       RequestsBefore(row) /\ DOMAIN out = 1..(row - 1)

\* In optimized mode: the chunk has been read.
Reading ==
  pc \in {"lookup", "plan"} \/ (pc \in Asking /\ InMode("optimized"))

InGroups(S) == UNION {GroupOf(g) : g \in S}

\* Each group is answered, or waits in one place.
GroupByGroup ==
  Reading =>
    /\ AllRequests(Judged)
    /\ Judged # {} => ready
    /\ pending \cup leaders \cup batch \subseteq Groups
    /\ todo \subseteq leaders
    /\ leaders # {} => config.batch
    /\ pending \cap batch = {}
    /\ pending # {} /\ config.batch => pc = "lookup"
    /\ pc = "plan" => pending = {}
    /\ InGroups(pending) \cap DOMAIN out = {}
    /\ DOMAIN out \subseteq DOMAIN Rows
    /\ DOMAIN Rows \subseteq
         DOMAIN out \cup InGroups(pending \cup todo \cup batch)

\* What is asked for keeps to the limits.
LimitsKept ==
  pc \in Asking /\ InMode("optimized") =>
    /\ EstimateRequestBytes(Requests(batch)) <= config.max_request_bytes
    /\ Cardinality(batch) <= config.max_judgments
    /\ Cardinality(batch) > 1 => config.batch

WireKept ==
  /\ pc = "wait" => wire = Post(context, Requests(batch))
                      /\ Adapter(context).external
  /\ pc # "wait" => wire = None

AtRest ==
  /\ pc = "idle" => /\ out = NoAnswers /\ hits = {}
                    /\ pending = {} /\ leaders = {} /\ todo = {}
  /\ pc \in {"chunk", "group"} => out = NoAnswers /\ leaders = {} /\ todo = {}
  /\ hits \subseteq DOMAIN out
  /\ pc = "done" => DOMAIN out = DOMAIN Rows

WorkInv ==
  /\ pc \in Labels /\ SettingsTyped /\ Frozen /\ PathKept /\ RowByRow
  /\ GroupByGroup /\ LimitsKept /\ WireKept /\ AtRest

\* An answer to a question about a state of these bytes: it was worked out
\* from a row that has them.
IsAnswer(a, asked, kind, canonical) ==
  /\ a.fits /\ a.by.whole
  /\ Concerns(a, asked)
  /\ \E c \in DOMAIN Chunks : \E j \in DOMAIN Chunks[c].rows :
       LET state == Chunks[c].rows[j].state
           read == ReadState(Chunks[c].layout, state)
       IN  /\ state # Null /\ Readable(Chunks[c].layout, state)
           /\ read.kind = kind /\ read.canonical = canonical
           /\ a.by.state = read.value

\* It comes from the service there, and from the verified model if it shared
\* its request.
ComesFrom(a, provider, url) ==
  /\ a.by.endpoint = IF provider = "mock" THEN "mock" ELSE url
  /\ ~a.by.alone /\ provider # "mock" => a.by.model = VerifiedBatchModel

AnswersRow(a, i) ==
  LET read == ReadState(Layout, Rows[i].state)
  IN  /\ i \in Judged /\ IsRequest(Rows[i])
      /\ IsAnswer(a, QuestionOf(Rows[i]), read.kind, read.canonical)
      /\ ComesFrom(a, context.provider, context.api_url)

SentAlike == pc = "wait" => MaySend(context, Requests(batch))

ReplyAnswers ==
  pc = "settle" /\ Accepted(context, Requests(batch), reply) =>
    \A i \in batch :
      LET a == reply.answers[RequestKey(batch, i)]
      IN  AnswersRow(a, i) /\ reply.model \in {None, a.by.model}

RowsAnswered ==
  \A i \in DOMAIN out :
    /\ out[i] = {} <=> IsNull(Rows[i])
    /\ \A a \in out[i] :
         /\ AnswersRow(a, i)
         /\ i \in hits => a.by.model = CacheModelIdentity(context)

CacheAnswers ==
  \A id \in DOMAIN cache :
    /\ IsAnswer(cache[id], id.asked, id.state_kind, id.canonical)
    /\ ComesFrom(cache[id], id.provider, id.endpoint)
    /\ cache[id].by.model = id.effective

AnswerInv == SentAlike /\ ReplyAnswers /\ RowsAnswered /\ CacheAnswers

-----------------------------------------------------------------------------
(* Rows, groups and requests.                                              *)

\* A chunk has finitely many rows, numbered from 1.
LEMMA RowNumbers ==
  ASSUME chunk \in DOMAIN Chunks
  PROVE  /\ Len(Rows) \in Nat /\ DOMAIN Rows = 1..Len(Rows)
         /\ Judged \subseteq DOMAIN Rows
         /\ \A S \in SUBSET Judged : S \in SUBSET Nat /\ IsFiniteSet(S)
  <1>1. Len(Rows) \in Nat /\ DOMAIN Rows = 1..Len(Rows)
    BY CallAssumption DEF Rows
  <1>2. IsFiniteSet(1..Len(Rows)) /\ 1..Len(Rows) \subseteq Nat
    BY <1>1, FS_Interval
  <1>3. Judged \subseteq DOMAIN Rows
    BY DEF Judged
  <1>4. QED
    BY <1>1, <1>2, <1>3, FS_Subset

\* Request keys count from 0, and each belongs to one judgment of the batch.
LEMMA KeysCount ==
  ASSUME NEW B \in SUBSET Nat, IsFiniteSet(B)
  PROVE  /\ Cardinality(B) \in Nat
         /\ \A i \in B : /\ RequestKey(B, i) \in 0..(Cardinality(B) - 1)
                         /\ WithKey(B, RequestKey(B, i)) = i
         /\ \A key \in 0..(Cardinality(B) - 1) :
              WithKey(B, key) \in B /\ RequestKey(B, WithKey(B, key)) = key
  <1> DEFINE before(i) == {j \in B : j < i}
             n == Cardinality(B)
  <1>1. /\ n \in Nat
        /\ \A i \in B : RankIn(B, i) \in 1..n
        /\ \A i, j \in B : i < j => RankIn(B, i) < RankIn(B, j)
        /\ \A k \in 1..n : \E i \in B : RankIn(B, i) = k
    BY EveryRank
  <1>2. ASSUME NEW i \in B
        PROVE  /\ RequestKey(B, i) \in Nat
               /\ RankIn(B, i) = RequestKey(B, i) + 1
    <2>1. IsFiniteSet(before(i)) /\ Cardinality(before(i)) \in Nat
      BY FS_Subset, FS_CardinalityType
    <2>2. i \notin before(i) /\ {j \in B : j <= i} = before(i) \cup {i}
      <3>1. \A j \in B : j <= i <=> j < i \/ j = i
        BY <1>2
      <3>2. ~(i < i)
        BY <1>2
      <3>3. QED
        BY <1>2, <3>1, <3>2
    <2> HIDE DEF before
    <2>3. Cardinality(before(i) \cup {i}) = Cardinality(before(i)) + 1
      BY <2>1, <2>2, FS_AddElement
    <2>4. RequestKey(B, i) = Cardinality(before(i))
      BY DEF RequestKey, before
    <2>5. QED
      BY <2>1, <2>2, <2>3, <2>4 DEF RankIn
  <1> HIDE DEF n
  <1>3. ASSUME NEW i \in B
        PROVE  RequestKey(B, i) \in 0..(n - 1)
    <2>1. RequestKey(B, i) \in Nat /\ RequestKey(B, i) + 1 \in 1..n
      BY <1>1, <1>2
    <2>2. QED
      BY <1>1, <2>1
  <1>4. ASSUME NEW i \in B, NEW j \in B, RequestKey(B, i) = RequestKey(B, j)
        PROVE  i = j
    <2>1. RankIn(B, i) = RankIn(B, j) /\ RankIn(B, i) \in Nat
      BY <1>2, <1>4
    <2>2. ~(i < j) /\ ~(j < i)
      BY <1>1, <2>1
    <2>3. QED
      BY <2>2
  <1>5. ASSUME NEW key \in 0..(n - 1)
        PROVE  \E i \in B : RequestKey(B, i) = key
    <2>1. key + 1 \in 1..n /\ key \in Nat
      BY <1>1
    <2>2. PICK i \in B : RankIn(B, i) = key + 1
      BY <1>1, <2>1
    <2>3. RequestKey(B, i) = key
      BY <1>2, <2>1, <2>2
    <2>4. QED
      BY <2>3
  <1>6. \A key \in 0..(n - 1) :
          WithKey(B, key) \in B /\ RequestKey(B, WithKey(B, key)) = key
    BY <1>5 DEF WithKey
  <1>7. \A i \in B : WithKey(B, RequestKey(B, i)) = i
    BY <1>3, <1>4, <1>6
  <1>8. QED
    BY <1>1, <1>3, <1>6, <1>7 DEF n

\* Every judgment of a batch is asked for under a key of its own.
LEMMA RequestsOfBatch ==
  ASSUME chunk \in DOMAIN Chunks, NEW B \in SUBSET Judged
  PROVE  LET n == Cardinality(B)
         IN  /\ n \in Nat /\ Len(Requests(B)) = n
             /\ DOMAIN Requests(B) = 1..n
             /\ KeysOf(Requests(B)) = 0..(n - 1)
             /\ Cardinality(KeysOf(Requests(B))) = n
             /\ \A i \in B :
                  /\ RequestKey(B, i) \in 0..(n - 1)
                  /\ Requests(B)[RequestKey(B, i) + 1] =
                       Request(Rows[i], RequestKey(B, i))
             /\ \A k \in 1..n :
                  /\ Requests(B)[k].key = k - 1
                  /\ WithKey(B, k - 1) \in B
                  /\ RequestKey(B, WithKey(B, k - 1)) = k - 1
  <1> DEFINE n == Cardinality(B)
  <1>1. B \in SUBSET Nat /\ IsFiniteSet(B)
    BY RowNumbers
  <1>2. /\ n \in Nat
        /\ \A i \in B : /\ RequestKey(B, i) \in 0..(n - 1)
                        /\ WithKey(B, RequestKey(B, i)) = i
        /\ \A key \in 0..(n - 1) :
             WithKey(B, key) \in B /\ RequestKey(B, WithKey(B, key)) = key
    BY <1>1, KeysCount
  <1>3. Requests(B) =
          [k \in 1..n |-> Request(Rows[WithKey(B, k - 1)], k - 1)]
    BY DEF Requests
  <1> HIDE DEF n
  <1>4. DOMAIN Requests(B) = 1..n /\ Len(Requests(B)) = n
    BY <1>2, <1>3
  <1>5. \A k \in 1..n : Requests(B)[k].key = k - 1
    BY <1>3 DEF Request
  <1>6. KeysOf(Requests(B)) = 0..(n - 1)
    <2>1. ASSUME NEW key \in 0..(n - 1)
          PROVE  key \in KeysOf(Requests(B))
      <3>1. key + 1 \in 1..n /\ (key + 1) - 1 = key
        BY <1>2
      <3>2. QED
        BY <1>4, <1>5, <3>1 DEF KeysOf
    <2>2. ASSUME NEW k \in 1..n
          PROVE  Requests(B)[k].key \in 0..(n - 1)
      BY <1>2, <1>5
    <2>3. QED
      BY <1>4, <2>1, <2>2 DEF KeysOf
  <1>7. Cardinality(0..(n - 1)) = n
    <2>1. 0 \in Int /\ n - 1 \in Int
      BY <1>2
    <2>2. Cardinality(0..(n - 1)) =
            IF 0 > n - 1 THEN 0 ELSE (n - 1) - 0 + 1
      BY <2>1, FS_Interval
    <2>3. QED
      BY <1>2, <2>2
  <1>8. ASSUME NEW i \in B
        PROVE  Requests(B)[RequestKey(B, i) + 1] =
                 Request(Rows[i], RequestKey(B, i))
    <2>1. /\ RequestKey(B, i) + 1 \in 1..n
          /\ (RequestKey(B, i) + 1) - 1 = RequestKey(B, i)
      BY <1>2
    <2>2. QED
      BY <1>2, <1>3, <2>1
  <1>9. \A k \in 1..n : k - 1 \in 0..(n - 1)
    BY <1>2
  <1>10. QED
    BY <1>2, <1>4, <1>5, <1>6, <1>7, <1>8, <1>9 DEF n

\* Nothing changes what a statement asks while it runs.
LEMMA TaskFrame ==
  ASSUME UNCHANGED <<frozenVars, statement, credScope>>
  PROVE  /\ Rows' = Rows /\ Layout' = Layout /\ Function' = Function
         /\ Judged' = Judged /\ Groups' = Groups
         /\ \A i : GroupOf(i)' = GroupOf(i) /\ RequestOf(i)' = RequestOf(i)
         /\ \A i : Targets(i)' = Targets(i)
         /\ \A S : InGroups(S)' = InGroups(S)
         /\ \A B : Requests(B)' = Requests(B)
         /\ \A r, key : Request(r, key)' = Request(r, key)
         /\ \A r : IsRequest(r)' = IsRequest(r) /\ IsNull(r)' = IsNull(r)
         /\ \A S : AllRequests(S)' = AllRequests(S)
         /\ \A n : RequestsBefore(n)' = RequestsBefore(n)
         /\ \A mode : InMode(mode)' = InMode(mode)
  <1>1. chunk' = chunk /\ config' = config /\ context' = context
          /\ statement' = statement /\ credScope' = credScope
    BY DEF frozenVars
  <1>2. Rows' = Rows /\ Layout' = Layout /\ Function' = Function
    BY <1>1 DEF Rows, Layout, Function
  <1>3. /\ \A r : IsNull(r)' = IsNull(r)
        /\ \A r : IsRequest(r)' = IsRequest(r)
        /\ \A r, key : Request(r, key)' = Request(r, key)
        /\ \A r, model : Identity(r, model)' = Identity(r, model)
    <2>1. \A r : IsNull(r)' = IsNull(r)
      BY <1>2 DEF IsNull
    <2>2. \A r : IsRequest(r)' = IsRequest(r)
      BY <1>2 DEF IsRequest, IsQuestion
    <2>3. \A r, key : Request(r, key)' = Request(r, key)
      BY <1>2 DEF Request, QuestionOf
    <2>4. \A r, model : Identity(r, model)' = Identity(r, model)
      BY <1>1 DEF Identity
    <2>5. QED
      BY <2>1, <2>2, <2>3, <2>4
  <1>4. Judged' = Judged
    BY <1>2, <1>3 DEF Judged
  <1>5. \A i : RequestOf(i)' = RequestOf(i)
    BY <1>2, <1>3 DEF RequestOf
  <1>6. \A i : GroupOf(i)' = GroupOf(i)
    BY <1>3, <1>4, <1>5 DEF GroupOf
  <1>7. Groups' = Groups
    BY <1>4, <1>6 DEF Groups
  <1>8. \A i : Targets(i)' = Targets(i)
    BY <1>1, <1>6 DEF Targets
  <1>9. \A S : InGroups(S)' = InGroups(S)
    BY <1>6 DEF InGroups
  <1>10. \A B : Requests(B)' = Requests(B)
    BY <1>2, <1>3 DEF Requests
  <1>11. /\ \A S : AllRequests(S)' = AllRequests(S)
         /\ \A n : RequestsBefore(n)' = RequestsBefore(n)
         /\ \A mode : InMode(mode)' = InMode(mode)
    BY <1>1, <1>2, <1>3 DEF AllRequests, RequestsBefore, InMode
  <1>12. QED
    BY <1>2, <1>3, <1>4, <1>5, <1>6, <1>7, <1>8, <1>9, <1>10, <1>11

\* group_by_identity: every judged row is in one group, which has a first row.
LEMMA GroupsPartition ==
  ASSUME chunk \in DOMAIN Chunks
  PROVE  /\ Groups \subseteq Judged
         /\ \A i \in Judged : i \in GroupOf(i) /\ GroupOf(i) \subseteq Judged
         /\ \A g, h \in Groups : g # h => GroupOf(g) \cap GroupOf(h) = {}
         /\ InGroups(Groups) = Judged
         /\ \A S, T \in SUBSET Groups :
              S \cap T = {} => InGroups(S) \cap InGroups(T) = {}
  <1>1. Groups \subseteq Judged
    BY DEF Groups
  <1>2. \A i \in Judged : i \in GroupOf(i) /\ GroupOf(i) \subseteq Judged
    BY DEF GroupOf
  <1>3. \A i, j \in Judged : j \in GroupOf(i) => GroupOf(i) = GroupOf(j)
    BY DEF GroupOf
  <1>4. ASSUME NEW i \in Judged
        PROVE  \E g \in Groups : i \in GroupOf(g)
    <2>1. GroupOf(i) \in SUBSET Nat /\ GroupOf(i) # {}
      BY <1>2, <1>4, RowNumbers
    <2>2. PICK g \in GroupOf(i) : \A n \in GroupOf(i) : g <= n
      BY <2>1, SmallestNumber
    <2>3. g \in Judged /\ GroupOf(g) = GroupOf(i)
      BY <1>2, <1>3, <1>4, <2>2
    <2>4. g \in Groups
      BY <2>2, <2>3 DEF Groups
    <2>5. QED
      BY <1>2, <1>4, <2>3, <2>4
  <1>5. ASSUME NEW g \in Groups, NEW h \in Groups, NEW i \in GroupOf(g),
               i \in GroupOf(h)
        PROVE  g = h
    <2>1. g \in Judged /\ h \in Judged /\ i \in Judged
      BY <1>1, <1>2, <1>5
    <2>2. GroupOf(g) = GroupOf(h)
      BY <1>3, <1>5, <2>1
    <2>3. g <= h /\ h <= g
      BY <1>2, <2>1, <2>2 DEF Groups
    <2>4. g \in Nat /\ h \in Nat
      BY <2>1, RowNumbers
    <2>5. QED
      BY <2>3, <2>4
  <1>6. InGroups(Groups) = Judged
    BY <1>1, <1>2, <1>4 DEF InGroups
  <1>7. \A S, T \in SUBSET Groups :
          S \cap T = {} => InGroups(S) \cap InGroups(T) = {}
    BY <1>5 DEF InGroups
  <1>8. QED
    BY <1>1, <1>2, <1>5, <1>6, <1>7

\* A set of groups has a first one; what is left of it is the other groups.
LEMMA FirstOf ==
  ASSUME chunk \in DOMAIN Chunks, NEW S \in SUBSET Groups, S # {}
  PROVE  Min(S) \in S /\ Min(S) \in Judged
           /\ InGroups(S) = InGroups(S \ {Min(S)}) \cup GroupOf(Min(S))
           /\ InGroups(S \ {Min(S)}) \cap GroupOf(Min(S)) = {}
  <1>1. S \in SUBSET Nat
    BY GroupsPartition, RowNumbers
  <1>2. Min(S) \in S
    BY <1>1, SmallestNumber
  <1> DEFINE g == Min(S)
  <1> HIDE DEF g
  <1>3. g \in S /\ g \in Groups /\ g \in Judged
    BY <1>2, GroupsPartition DEF g
  <1>4. InGroups(S) = InGroups(S \ {g}) \cup GroupOf(g)
    BY <1>3 DEF InGroups
  <1>5. InGroups(S \ {g}) \cap GroupOf(g) = {}
    <2>1. \A h \in S \ {g} : GroupOf(h) \cap GroupOf(g) = {}
      BY <1>3, GroupsPartition
    <2>2. QED
      BY <2>1 DEF InGroups
  <1>6. QED
    BY <1>3, <1>4, <1>5 DEF g

-----------------------------------------------------------------------------
(* What the settings make of a statement.                                  *)

\* read_runtime_config only lets legal options through.
LEMMA ConfigIsLegal ==
  ASSUME SettingsTyped, config = FromValues(settings), config # None
  PROVE  /\ settings.execution_mode = Word(config.mode)
         /\ config.mode \in {"row", "optimized"}
         /\ config.batch \in BOOLEAN
         /\ config.batch \/ config.cache => config.mode = "optimized"
         /\ config.batch = settings.batch_enabled
         /\ config.cache = settings.cache_enabled
         /\ config.max_judgments = settings.batch_max_judgments
         /\ config.max_request_bytes = settings.max_request_bytes
         /\ \A o \in LimitOptions : settings[o] \in Int /\ settings[o] > 0
  <1>1. /\ settings.execution_mode \in [word : STRING, plain : BOOLEAN]
        /\ settings.batch_enabled \in BOOLEAN
        /\ settings.cache_enabled \in BOOLEAN
        /\ \A o \in LimitOptions : settings[o] \in Int
    BY DEF SettingsTyped, Options, RegisteredDefaults, OptionValues,
           LimitOptions
  <1> DEFINE mode == ParseMode(settings.execution_mode)
  <1>2. /\ mode # None
        /\ ~(mode = "row" /\ settings.batch_enabled)
        /\ ~(mode = "row" /\ settings.cache_enabled)
        /\ \A o \in LimitOptions : PositiveLimit(settings[o])
        /\ config = [mode |-> mode, batch |-> settings.batch_enabled,
                     cache |-> settings.cache_enabled,
                     max_judgments |-> settings.batch_max_judgments,
                     max_request_bytes |-> settings.max_request_bytes]
    BY DEF FromValues
  <1>3. /\ settings.execution_mode.plain
        /\ settings.execution_mode.word \in {"row", "optimized"}
        /\ mode = settings.execution_mode.word
    BY <1>2 DEF ParseMode
  <1>4. settings.execution_mode = Word(mode)
    BY <1>1, <1>3 DEF Word
  <1>5. QED
    BY <1>1, <1>2, <1>3, <1>4 DEF PositiveLimit

-----------------------------------------------------------------------------
(* WorkInv, step by step.                                                  *)

\* Before the first statement nothing is under way.
LEMMA WorkInit == Init => WorkInv
  <1> SUFFICES ASSUME Init PROVE WorkInv
    OBVIOUS
  <1>1. pc = "idle" /\ SettingsTyped
    BY CallAssumption DEF Init, SettingsTyped
  <1>2. QED
    BY <1>1 DEF Init, WorkInv, Labels, Asking, Grouping, Frozen, PathKept,
                RowByRow, GroupByGroup, Reading, LimitsKept, WireKept,
                AtRest, NoAnswers

\* What init froze stays while the statement runs.
LEMMA FrozenStays ==
  ASSUME WorkInv, pc # "idle", UNCHANGED <<connectionVars, frozenVars>>
  PROVE  SettingsTyped' /\ Frozen' /\ chunk \in DOMAIN Chunks
           /\ config = FromValues(settings)
  <1>1. /\ settings' = settings /\ env' = env /\ chunk' = chunk
        /\ config' = config /\ context' = context /\ ready' = ready
    BY DEF connectionVars, frozenVars
  <1>2. QED
    BY <1>1 DEF WorkInv, SettingsTyped, Frozen

\* SET happens between statements only.
LEMMA SetWork ==
  ASSUME WorkInv, NEW option \in DOMAIN SetValues,
         NEW value \in SetValues[option], Set(option, value)
  PROVE  WorkInv'
  <1>1. /\ settings' = [settings EXCEPT ![option] = value]
        /\ option \in Options /\ value \in OptionValues(option)
    BY CallAssumption DEF Set
  <1>2. SettingsTyped'
    BY <1>1 DEF WorkInv, SettingsTyped
  <1>3. /\ pc = "idle" /\ pc' = pc /\ out' = out /\ hits' = hits
        /\ pending' = pending /\ leaders' = leaders /\ todo' = todo
        /\ batch' = batch /\ wire' = wire
    BY DEF Set, frozenVars, workVars, sendVars, outVars
  <1>4. QED
    BY <1>2, <1>3
       DEF WorkInv, Labels, Asking, Grouping, Frozen, PathKept, RowByRow,
           GroupByGroup, Reading, LimitsKept, WireKept, AtRest

\* A statement starts at its first row, or at its chunk, with nothing done.
LEMMA BeginWork ==
  ASSUME WorkInv, NEW c \in DOMAIN Chunks, Begin(c)
  PROVE  WorkInv'
  <1>1. /\ pc = "idle" /\ settings' = settings /\ env' = env
        /\ pending' = {} /\ leaders' = {} /\ todo' = {} /\ batch' = {}
        /\ wire' = None /\ out' = NoAnswers /\ hits' = {}
    BY DEF Begin, WorkInv, AtRest, PathKept, WireKept, Asking, Grouping,
           connectionVars, sendVars, outVars
  <1>2. SettingsTyped'
    BY <1>1 DEF WorkInv, SettingsTyped
  <1>3. chunk' = c /\ Frozen'
    BY <1>1 DEF Begin, Frozen
  <1>4. CASE config' # None /\ config'.mode = "optimized"
    <2>1. pc' = "chunk" /\ InMode("optimized")'
      BY <1>4 DEF Begin, Goto, InMode
    <2>2. QED
      BY <1>1, <1>2, <1>3, <2>1
         DEF WorkInv, Labels, Asking, Grouping, PathKept, RowByRow,
             GroupByGroup, Reading, LimitsKept, WireKept, AtRest, NoAnswers
  <1>5. CASE ~(config' # None /\ config'.mode = "optimized")
    <2>1. pc' = "row" /\ row' = 1
      BY <1>5 DEF Begin, Goto
    <2>2. config' = None \/ InMode("row")'
      <3>1. config' = FromValues(settings)
        BY DEF Begin
      <3>2. config' # None => config'.mode \in {"row", "optimized"}
        BY <3>1 DEF FromValues, ParseMode
      <3>3. QED
        BY <1>5, <3>2 DEF InMode
    <2>3. Len(Rows') \in Nat
      BY <1>3, CallAssumption DEF Rows
    <2>4. row' \in 1..(Len(Rows') + 1) /\ 1..(row' - 1) = {}
      BY <2>1, <2>3
    <2>5. RequestsBefore(row)' /\ DOMAIN out' = 1..(row' - 1)
      BY <1>1, <2>4 DEF RequestsBefore, NoAnswers
    <2>6. RowByRow'
      BY <2>1, <2>4, <2>5 DEF RowByRow, Asking
    <2>7. QED
      BY <1>1, <1>2, <1>3, <2>1, <2>2, <2>6
         DEF WorkInv, Labels, Asking, Grouping, PathKept,
             GroupByGroup, Reading, LimitsKept, WireKept, AtRest, NoAnswers
  <1>6. QED
    BY <1>4, <1>5

\* Nothing is left of a statement that ended.
LEMMA EndWork ==
  ASSUME WorkInv, End
  PROVE  WorkInv'
  <1>1. /\ pc' = "idle" /\ out' = NoAnswers /\ hits' = {} /\ wire' = None
        /\ pending' = {} /\ leaders' = {} /\ todo' = {} /\ batch' = {}
        /\ settings' = settings
    BY DEF End, Goto, connectionVars
  <1>2. QED
    BY <1>1
       DEF WorkInv, SettingsTyped, Labels, Asking, Grouping, Frozen, PathKept,
           RowByRow, GroupByGroup, Reading, LimitsKept, WireKept, AtRest,
           NoAnswers

\* What the steps of row mode share.
LEMMA AtRow ==
  ASSUME WorkInv, pc = "row"
  PROVE  /\ row \in 1..(Len(Rows) + 1) /\ Len(Rows) \in Nat
         /\ DOMAIN Rows = 1..Len(Rows)
         /\ RequestsBefore(row) /\ DOMAIN out = 1..(row - 1)
         /\ batch = {} /\ wire = None /\ hits \subseteq DOMAIN out
         /\ config = None \/ InMode("row")
  <1>1. chunk \in DOMAIN Chunks
    BY DEF WorkInv, Frozen
  <1>2. QED
    BY <1>1, RowNumbers
       DEF WorkInv, RowByRow, PathKept, WireKept, AtRest, Asking, Grouping

\* Row mode ends after the last row, with every row answered.
LEMMA RowsDoneWork ==
  ASSUME WorkInv, RowsDone
  PROVE  WorkInv'
  <1>1. /\ pc = "row" /\ pc' = "done" /\ row > Len(Rows)
        /\ UNCHANGED <<connectionVars, frozenVars, statement, credScope,
                       batch, wire, out, hits>>
    BY DEF RowsDone, Goto, sendVars, outVars, keptVars
  <1>2. SettingsTyped' /\ Frozen'
    BY <1>1, FrozenStays
  <1>3. DOMAIN out = DOMAIN Rows /\ Rows' = Rows
    BY <1>1, AtRow, TaskFrame
  <1>4. QED
    BY <1>1, <1>2, <1>3, AtRow
       DEF WorkInv, Labels, Asking, Grouping, PathKept, RowByRow,
           GroupByGroup, Reading, LimitsKept, WireKept, AtRest

\* A NULL row is done at once.
LEMMA NullRowWork ==
  ASSUME WorkInv, NullRow
  PROVE  WorkInv'
  <1>1. /\ pc = "row" /\ pc' = "row" /\ row <= Len(Rows)
        /\ IsNull(Rows[row]) /\ row' = row + 1
        /\ DOMAIN out' = DOMAIN out \cup {row}
        /\ UNCHANGED <<connectionVars, frozenVars, statement, credScope,
                       batch, wire, hits>>
    BY DEF NullRow, sendVars, keptVars
  <1>2. SettingsTyped' /\ Frozen' /\ config' = config
    BY <1>1, FrozenStays DEF frozenVars
  <1>3. /\ Rows' = Rows /\ InMode("row")' = InMode("row")
        /\ \A n : RequestsBefore(n)' = RequestsBefore(n)
    BY <1>1, TaskFrame
  <1>4. row' \in 1..(Len(Rows) + 1) /\ DOMAIN out' = 1..(row' - 1)
    BY <1>1, AtRow
  <1>5. RequestsBefore(row + 1)
    <2>1. \A i \in 1..((row + 1) - 1) : i \in 1..(row - 1) \/ i = row
      BY AtRow, <1>1
    <2>2. QED
      BY <1>1, <2>1, AtRow DEF RequestsBefore
  <1>6. RequestsBefore(row)'
    <2>1. RequestsBefore(row') /\ row' = row + 1
      BY <1>1, <1>5
    <2>2. QED
      BY <1>3, <2>1 DEF RequestsBefore, IsNull, IsRequest
  <1>7. RowByRow'
    BY <1>1, <1>3, <1>4, <1>6 DEF RowByRow, Asking
  <1>8. QED
    BY <1>1, <1>2, <1>3, <1>7, AtRow
       DEF WorkInv, Labels, Asking, Grouping, PathKept,
           GroupByGroup, Reading, LimitsKept, WireKept, AtRest

\* A row fails, or is asked about alone.
LEMMA EvaluateRowWork ==
  ASSUME WorkInv, EvaluateRow
  PROVE  WorkInv'
  <1>1. /\ pc = "row" /\ row <= Len(Rows) /\ ~IsNull(Rows[row])
        /\ row' = row /\ out' = out
        /\ UNCHANGED <<connectionVars, frozenVars, statement, credScope,
                       wire, hits>>
    BY DEF EvaluateRow, workVars, outVars, keptVars
  <1>2. SettingsTyped' /\ Frozen' /\ config' = config /\ ready' = ready
    BY <1>1, FrozenStays DEF frozenVars
  <1>3. CASE pc' = "failed"
    BY <1>1, <1>2, <1>3, AtRow
       DEF WorkInv, Labels, Asking, Grouping, PathKept, RowByRow,
           GroupByGroup, Reading, LimitsKept, WireKept, AtRest
  <1>4. CASE pc' # "failed"
    <2>1. /\ IsRequest(Rows[row]) /\ config # None /\ ready
          /\ batch' = {row} /\ pc' = "send"
      BY <1>4 DEF EvaluateRow, Goto
    <2>2. InMode("row") /\ ~InMode("optimized")
      BY <1>1, <2>1, AtRow DEF InMode
    <2>3. row \in Judged
      BY <1>1, AtRow DEF Judged
    <2>4. /\ Rows' = Rows /\ Judged' = Judged
          /\ RequestsBefore(row)' = RequestsBefore(row)
          /\ IsRequest(Rows[row])' = IsRequest(Rows[row])
          /\ InMode("row")' = InMode("row")
          /\ InMode("optimized")' = InMode("optimized")
      <3>1. /\ Rows' = Rows /\ Judged' = Judged
            /\ \A n : RequestsBefore(n)' = RequestsBefore(n)
            /\ \A r : IsRequest(r)' = IsRequest(r)
            /\ InMode("row")' = InMode("row")
            /\ InMode("optimized")' = InMode("optimized")
        BY <1>1, TaskFrame
      <3>2. RequestsBefore(row)' = RequestsBefore(row)
        BY <1>1, <3>1 DEF RequestsBefore, IsNull, IsRequest
      <3>3. IsRequest(Rows[row])' = IsRequest(Rows[row])
        BY <1>1, <3>1 DEF IsRequest
      <3>4. QED
        BY <3>1, <3>2, <3>3
    <2>5. RowByRow'
      BY <1>1, <2>1, <2>2, <2>3, <2>4, AtRow DEF RowByRow, Asking
    <2>6. QED
      BY <1>1, <1>2, <2>1, <2>2, <2>4, <2>5, AtRow
         DEF WorkInv, Labels, Asking, Grouping, PathKept,
             GroupByGroup, Reading, LimitsKept, WireKept, AtRest
  <1>5. QED
    BY <1>3, <1>4

\* Optimized mode: what its steps share.
LEMMA AtChunk ==
  ASSUME WorkInv, pc \in Grouping
  PROVE  /\ chunk \in DOMAIN Chunks /\ InMode("optimized") /\ ~InMode("row")
         /\ batch = {} /\ wire = None /\ hits \subseteq DOMAIN out
         /\ pc \in {"chunk", "group"} =>
              out = NoAnswers /\ leaders = {} /\ todo = {}
         /\ pc \in {"lookup", "plan"} => Reading
         /\ \A i : Targets(i) = GroupOf(i)
  <1>1. /\ pc # "idle" /\ pc # "failed" /\ pc \notin Asking /\ pc # "row"
    BY DEF Grouping, Asking
  <1>2. InMode("optimized") /\ ~InMode("row")
    BY DEF WorkInv, PathKept, InMode
  <1>3. \A i : Targets(i) = GroupOf(i)
    BY <1>2 DEF Targets, InMode
  <1>4. QED
    BY <1>1, <1>2, <1>3
       DEF WorkInv, Frozen, PathKept, WireKept, AtRest, Reading, Asking

\* The credential concerns the cache only.
LEMMA UseCredentialWork ==
  ASSUME WorkInv, UseCredential
  PROVE  WorkInv'
  <1>1. /\ pc = "chunk" /\ pc' = "group"
        /\ UNCHANGED <<connectionVars, frozenVars, batch, wire, out, hits,
                       leaders, todo>>
    BY DEF UseCredential, Goto, workVars, sendVars, outVars
  <1>2. SettingsTyped' /\ Frozen' /\ config' = config
    BY <1>1, FrozenStays DEF frozenVars
  <1>3. InMode("optimized")'
    BY <1>1, <1>2, AtChunk DEF InMode, Grouping
  <1>4. QED
    BY <1>1, <1>2, <1>3, AtChunk
       DEF WorkInv, Labels, Asking, Grouping, PathKept, RowByRow,
           GroupByGroup, Reading, LimitsKept, WireKept, AtRest

\* Every row to be judged waits in its group.
LEMMA ReadChunkWork ==
  ASSUME WorkInv, ReadChunk
  PROVE  WorkInv'
  <1>1. /\ pc = "group"
        /\ UNCHANGED <<connectionVars, frozenVars, statement, credScope,
                       batch, wire, hits, leaders, todo>>
    BY DEF ReadChunk, sendVars, keptVars
  <1>2. SettingsTyped' /\ Frozen' /\ config' = config /\ ready' = ready
    BY <1>1, FrozenStays DEF frozenVars
  <1>3. InMode("optimized")' /\ ~InMode("row")'
    BY <1>1, <1>2, AtChunk DEF InMode, Grouping
  <1>4. hits = {} /\ leaders = {} /\ todo = {} /\ batch = {}
          /\ out = NoAnswers /\ wire = None /\ chunk \in DOMAIN Chunks
    BY <1>1, AtChunk DEF Grouping, NoAnswers
  <1>5. CASE pc' = "failed"
    <2>1. out' = out
      BY <1>5 DEF ReadChunk, Goto
    <2>2. QED
      BY <1>1, <1>2, <1>3, <1>4, <1>5, <2>1
         DEF WorkInv, Labels, Asking, Grouping, PathKept, RowByRow,
             GroupByGroup, Reading, LimitsKept, WireKept, AtRest
  <1>6. CASE pc' # "failed"
    <2>1. /\ AllRequests(Judged) /\ (Judged # {} => ready)
          /\ pending' = Groups /\ pc' = "lookup"
          /\ DOMAIN out' = DOMAIN Rows \ Judged
      BY <1>6 DEF ReadChunk, Goto
    <2>2. /\ Rows' = Rows /\ Judged' = Judged /\ Groups' = Groups
          /\ \A S : AllRequests(S)' = AllRequests(S)
          /\ \A S : InGroups(S)' = InGroups(S)
      BY <1>1, TaskFrame
    <2>3. InGroups(Groups) = Judged /\ Judged \subseteq DOMAIN Rows
      BY <1>4, GroupsPartition, RowNumbers
    <2>4. AllRequests(Judged)'
      BY <2>1, <2>2 DEF AllRequests, IsRequest
    <2>5. InGroups(pending)' = Judged
            /\ InGroups(pending \cup todo \cup batch)' = Judged
      <3>1. pending' = Groups /\ (pending \cup todo \cup batch)' = Groups
        BY <1>1, <1>4, <2>1
      <3>2. InGroups(pending)' = InGroups(Groups)
              /\ InGroups(pending \cup todo \cup batch)' = InGroups(Groups)
        BY <2>2, <3>1 DEF InGroups
      <3>3. QED
        BY <2>3, <3>2
    <2>6. GroupByGroup'
      BY <1>1, <1>2, <1>4, <2>1, <2>2, <2>3, <2>4, <2>5 DEF GroupByGroup
    <2>7. QED
      BY <1>1, <1>2, <1>3, <1>4, <2>1, <2>6
         DEF WorkInv, Labels, Asking, Grouping, PathKept, RowByRow,
             Reading, LimitsKept, WireKept, AtRest
  <1>7. QED
    BY <1>5, <1>6

\* The first of the groups that are pending, and the others.
LEMMA AtLookup ==
  ASSUME WorkInv, pc = "lookup", pending # {}
  PROVE  LET g == Min(pending)
         IN  /\ g \in pending /\ g \in Groups /\ g \in Judged
             /\ InGroups(pending) = InGroups(pending \ {g}) \cup GroupOf(g)
             /\ InGroups(pending \ {g}) \cap GroupOf(g) = {}
             /\ GroupOf(g) \cap DOMAIN out = {}
             /\ GroupOf(g) \subseteq DOMAIN Rows
             /\ \A S : InGroups(S \cup {g}) = InGroups(S) \cup GroupOf(g)
  <1>1. chunk \in DOMAIN Chunks /\ pending \subseteq Groups
          /\ InGroups(pending) \cap DOMAIN out = {}
    BY AtChunk DEF WorkInv, GroupByGroup, Grouping
  <1> DEFINE g == Min(pending)
  <1>2. /\ g \in pending /\ g \in Judged
        /\ InGroups(pending) = InGroups(pending \ {g}) \cup GroupOf(g)
        /\ InGroups(pending \ {g}) \cap GroupOf(g) = {}
    BY <1>1, FirstOf
  <1> HIDE DEF g
  <1>3. GroupOf(g) \subseteq DOMAIN Rows
    BY <1>1, <1>2, GroupsPartition, RowNumbers
  <1>4. \A S : InGroups(S \cup {g}) = InGroups(S) \cup GroupOf(g)
    BY DEF InGroups
  <1>5. QED
    BY <1>1, <1>2, <1>3, <1>4 DEF g

\* A group that was looked up and found is answered, whole.
LEMMA HitWork ==
  ASSUME WorkInv, Hit
  PROVE  WorkInv'
  <1> DEFINE g == Min(pending)
  <1>1. /\ pc = "lookup" /\ pending # {} /\ pc' = pc
        /\ pending' = pending \ {g} /\ hits' = hits \cup Targets(g)
        /\ DOMAIN out' = DOMAIN out \cup Targets(g)
        /\ UNCHANGED <<connectionVars, frozenVars, statement, credScope,
                       batch, wire, leaders, todo>>
    BY DEF Hit, Expand, sendVars, keptVars
  <1>2. /\ g \in pending /\ g \in Groups /\ g \in Judged
        /\ InGroups(pending) = InGroups(pending \ {g}) \cup GroupOf(g)
        /\ InGroups(pending \ {g}) \cap GroupOf(g) = {}
        /\ GroupOf(g) \cap DOMAIN out = {}
        /\ GroupOf(g) \subseteq DOMAIN Rows
    BY <1>1, AtLookup
  <1> HIDE DEF g
  <1>3. SettingsTyped' /\ Frozen' /\ config' = config /\ ready' = ready
    BY <1>1, FrozenStays DEF frozenVars
  <1>4. /\ Rows' = Rows /\ Judged' = Judged /\ Groups' = Groups
        /\ \A S : AllRequests(S)' = AllRequests(S)
        /\ \A S : InGroups(S)' = InGroups(S)
        /\ InMode("optimized")' = InMode("optimized")
        /\ InMode("row")' = InMode("row")
    BY <1>1, TaskFrame
  <1>5. /\ Targets(g) = GroupOf(g) /\ InMode("optimized") /\ ~InMode("row")
        /\ batch = {} /\ wire = None /\ hits \subseteq DOMAIN out /\ Reading
    BY <1>1, AtChunk DEF Grouping
  <1>6. /\ AllRequests(Judged)' = AllRequests(Judged)
        /\ InGroups(pending)' = InGroups(pending \ {g})
        /\ InGroups(pending \cup todo \cup batch)' =
             InGroups((pending \ {g}) \cup todo \cup batch)
    BY <1>1, <1>4 DEF AllRequests, IsRequest, InGroups
  <1>7. InGroups(pending \cup todo \cup batch) =
          InGroups((pending \ {g}) \cup todo \cup batch) \cup GroupOf(g)
    BY <1>2 DEF InGroups
  <1>8. GroupByGroup'
    <2>1. GroupByGroup
      BY DEF WorkInv
    <2>2. /\ InGroups(pending) \cap DOMAIN out = {}
          /\ DOMAIN out \subseteq DOMAIN Rows
          /\ DOMAIN Rows \subseteq
               DOMAIN out \cup InGroups(pending \cup todo \cup batch)
      BY <1>5, <2>1 DEF GroupByGroup
    <2>3. DOMAIN out' = DOMAIN out \cup GroupOf(g)
      BY <1>1, <1>5
    <2>4. /\ InGroups(pending)' \cap DOMAIN out' = {}
          /\ DOMAIN out' \subseteq DOMAIN Rows'
          /\ DOMAIN Rows' \subseteq
               DOMAIN out' \cup InGroups(pending \cup todo \cup batch)'
      BY <1>2, <1>4, <1>6, <1>7, <2>2, <2>3
    <2>5. QED
      BY <1>1, <1>3, <1>4, <1>5, <1>6, <2>1, <2>4 DEF GroupByGroup
  <1>9. QED
    BY <1>1, <1>3, <1>4, <1>5, <1>8
       DEF WorkInv, Labels, Asking, Grouping, PathKept, RowByRow,
           Reading, LimitsKept, WireKept, AtRest

\* The group fails the statement, waits for a batch or is asked for alone.
LEMMA MissWork ==
  ASSUME WorkInv, Miss
  PROVE  WorkInv'
  <1> DEFINE g == Min(pending)
  <1>1. /\ pc = "lookup" /\ pending # {} /\ pending' = pending \ {g}
        /\ UNCHANGED <<connectionVars, frozenVars, statement, credScope,
                       wire, out, hits>>
    BY DEF Miss, outVars, keptVars
  <1>2. /\ g \in pending /\ g \in Groups /\ g \in Judged
        /\ InGroups(pending) = InGroups(pending \ {g}) \cup GroupOf(g)
        /\ InGroups(pending \ {g}) \cap GroupOf(g) = {}
    BY <1>1, AtLookup
  <1>3. SettingsTyped' /\ Frozen' /\ config' = config /\ ready' = ready
    BY <1>1, FrozenStays DEF frozenVars
  <1>4. /\ Rows' = Rows /\ Judged' = Judged /\ Groups' = Groups
        /\ \A S : AllRequests(S)' = AllRequests(S)
        /\ \A S : InGroups(S)' = InGroups(S)
        /\ \A r, key : Request(r, key)' = Request(r, key)
        /\ InMode("optimized")' = InMode("optimized")
        /\ InMode("row")' = InMode("row")
    BY <1>1, TaskFrame
  <1>5. /\ InMode("optimized") /\ ~InMode("row") /\ chunk \in DOMAIN Chunks
        /\ batch = {} /\ wire = None /\ hits \subseteq DOMAIN out /\ Reading
    BY <1>1, AtChunk DEF Grouping
  <1>6. GroupByGroup
    BY DEF WorkInv
  <1>7. /\ AllRequests(Judged)' = AllRequests(Judged)
        /\ InGroups(pending)' = InGroups(pending \ {g})
    BY <1>1, <1>4 DEF AllRequests, IsRequest, InGroups
  <1>8. CASE pc' = "failed"
    BY <1>1, <1>3, <1>4, <1>5, <1>8
       DEF WorkInv, Labels, Asking, Grouping, PathKept, RowByRow,
           GroupByGroup, Reading, LimitsKept, WireKept, AtRest
  <1>9. CASE pc' # "failed" /\ config.batch
    <2>1. /\ leaders' = leaders \cup {g} /\ todo' = todo \cup {g}
          /\ pc' = "lookup" /\ batch' = {}
      BY <1>1, <1>5, <1>9 DEF Miss, Goto
    <2>2. InGroups(pending \cup todo \cup batch)' =
            InGroups(pending \cup todo \cup batch)
      <3>1. (pending \cup todo \cup batch)' = pending \cup todo \cup batch
        BY <1>1, <1>2, <1>5, <2>1
      <3>2. QED
        BY <1>4, <3>1 DEF InGroups
    <2> HIDE DEF g
    <2>3. GroupByGroup'
      BY <1>1, <1>2, <1>3, <1>4, <1>5, <1>6, <1>7, <1>9, <2>1, <2>2
         DEF GroupByGroup
    <2>4. QED
      BY <1>1, <1>3, <1>4, <1>5, <2>1, <2>3
         DEF WorkInv, Labels, Asking, Grouping, PathKept, RowByRow,
             Reading, LimitsKept, WireKept, AtRest
  <1>10. CASE pc' # "failed" /\ ~config.batch
    <2>1. /\ EstimateRequestBytes(Requests({g})) <= config.max_request_bytes
          /\ leaders' = leaders /\ todo' = todo
          /\ pc' = "send" /\ batch' = {g}
      BY <1>1, <1>10 DEF Miss, Goto
    <2>2. InGroups(pending \cup todo \cup batch)' =
            InGroups(pending \cup todo \cup batch)
      <3>1. (pending \cup todo \cup batch)' = pending \cup todo \cup batch
        BY <1>1, <1>2, <1>5, <2>1
      <3>2. QED
        BY <1>4, <3>1 DEF InGroups
    <2>3. Cardinality({g}) = 1
      BY FS_Singleton
    <2>4. 1 <= config.max_judgments
      <3>1. config = FromValues(settings) /\ config # None /\ SettingsTyped
        BY <1>5, <1>1, FrozenStays DEF InMode, WorkInv
      <3>2. /\ config.max_judgments = settings.batch_max_judgments
            /\ \A o \in LimitOptions : settings[o] \in Int /\ settings[o] > 0
        BY <3>1, ConfigIsLegal
      <3>3. settings.batch_max_judgments \in Int
              /\ settings.batch_max_judgments > 0
        BY <3>2 DEF LimitOptions
      <3>4. QED
        BY <3>2, <3>3
    <2> HIDE DEF g
    <2>5. LimitsKept'
      <3>1. Requests(batch)' = Requests({g})
        BY <1>4, <2>1 DEF Requests
      <3>2. QED
        BY <1>3, <2>1, <2>3, <2>4, <3>1 DEF LimitsKept
    <2>6. ready
      BY <1>2, <1>5, <1>6 DEF GroupByGroup
    <2>7. GroupByGroup'
      BY <1>1, <1>2, <1>3, <1>4, <1>5, <1>6, <1>7, <1>10, <2>1, <2>2
         DEF GroupByGroup
    <2>8. QED
      BY <1>1, <1>3, <1>4, <1>5, <2>1, <2>5, <2>6, <2>7
         DEF WorkInv, Labels, Asking, Grouping, PathKept, RowByRow,
             Reading, WireKept, AtRest
  <1>11. QED
    BY <1>8, <1>9, <1>10

\* With every group looked up, those left wait to be sent.
LEMMA LookedUpWork ==
  ASSUME WorkInv, LookedUp
  PROVE  WorkInv'
  <1>1. /\ pc = "lookup" /\ pending = {}
        /\ pc' = IF leaders = {} THEN "done" ELSE "plan"
        /\ UNCHANGED <<connectionVars, frozenVars, statement, credScope,
                       pending, leaders, todo, batch, wire, out, hits>>
    BY DEF LookedUp, Goto, workVars, sendVars, outVars, keptVars
  <1>2. SettingsTyped' /\ Frozen' /\ config' = config /\ ready' = ready
    BY <1>1, FrozenStays DEF frozenVars
  <1>3. /\ Rows' = Rows /\ Judged' = Judged /\ Groups' = Groups
        /\ \A S : AllRequests(S)' = AllRequests(S)
        /\ \A S : InGroups(S)' = InGroups(S)
        /\ InMode("optimized")' = InMode("optimized")
        /\ InMode("row")' = InMode("row")
    BY <1>1, TaskFrame
  <1>4. /\ InMode("optimized") /\ ~InMode("row")
        /\ batch = {} /\ wire = None /\ hits \subseteq DOMAIN out /\ Reading
    BY <1>1, AtChunk DEF Grouping
  <1>5. GroupByGroup
    BY DEF WorkInv
  <1>6. /\ AllRequests(Judged)' = AllRequests(Judged)
        /\ InGroups(pending)' = InGroups(pending)
        /\ InGroups(pending \cup todo \cup batch)' =
             InGroups(pending \cup todo \cup batch)
    BY <1>1, <1>3 DEF AllRequests, IsRequest, InGroups
  <1>7. GroupByGroup'
    BY <1>1, <1>2, <1>3, <1>4, <1>5, <1>6 DEF GroupByGroup
  <1>8. leaders = {} => DOMAIN out = DOMAIN Rows
    <2>1. ASSUME leaders = {}
          PROVE  DOMAIN out = DOMAIN Rows
      <3>1. pending \cup todo \cup batch = {}
        BY <1>1, <1>4, <1>5, <2>1 DEF GroupByGroup
      <3>2. InGroups(pending \cup todo \cup batch) = {}
        BY <3>1 DEF InGroups
      <3>3. QED
        BY <1>4, <1>5, <3>2 DEF GroupByGroup
    <2>2. QED
      BY <2>1
  <1>9. QED
    BY <1>1, <1>2, <1>3, <1>4, <1>7, <1>8
       DEF WorkInv, Labels, Asking, Grouping, PathKept, RowByRow,
           Reading, LimitsKept, WireKept, AtRest

\* The batch is a run of what is left that fits.
LEMMA BatchTaken ==
  ASSUME WorkInv, NextBatch, todo # {}, pc' # "failed"
  PROVE  /\ batch' # {} /\ batch' \subseteq todo /\ todo' = todo \ batch'
         /\ Fits(batch') /\ pc' = "send"
  <1> DEFINE fitting == {i \in Remaining : Fits(UpTo(i))}
  <1>1. /\ fitting # {} /\ batch' = UpTo(Max(fitting))
        /\ todo' = todo \ batch' /\ pc' = "send"
    BY DEF NextBatch, Goto
  <1>2. Remaining \subseteq todo
    BY DEF Remaining
  <1>3. todo \subseteq Judged /\ chunk \in DOMAIN Chunks
    <2>1. pc = "plan"
      BY DEF NextBatch
    <2>2. chunk \in DOMAIN Chunks /\ Reading
      BY <2>1, AtChunk DEF Grouping
    <2>3. todo \subseteq Groups
      BY <2>2 DEF WorkInv, GroupByGroup
    <2>4. QED
      BY <2>2, <2>3, GroupsPartition
  <1>4. fitting \in SUBSET Nat /\ IsFiniteSet(fitting)
    <2>1. fitting \in SUBSET Judged
      BY <1>2, <1>3
    <2> HIDE DEF fitting
    <2>2. QED
      BY <1>3, <2>1, RowNumbers
  <1>5. Max(fitting) \in fitting
    <2> HIDE DEF fitting
    <2>1. PICK m \in fitting : \A n \in fitting : n <= m
      BY <1>1, <1>4, GreatestNumber
    <2>2. \A n \in fitting : m >= n
      BY <1>4, <2>1
    <2>3. QED
      BY <2>2 DEF Max
  <1>6. Max(fitting) \in Nat /\ Max(fitting) \in Remaining
          /\ Fits(UpTo(Max(fitting)))
    BY <1>4, <1>5
  <1> HIDE DEF fitting
  <1>7. Max(fitting) \in UpTo(Max(fitting))
    BY <1>6 DEF UpTo
  <1>8. UpTo(Max(fitting)) \subseteq Remaining
    BY DEF UpTo
  <1>9. Fits(batch')
    BY <1>1, <1>6
  <1>10. QED
    BY <1>1, <1>2, <1>7, <1>8, <1>9

\* A batch is taken from the groups not sent yet, and fits.
LEMMA NextBatchWork ==
  ASSUME WorkInv, NextBatch
  PROVE  WorkInv'
  <1>1. /\ pc = "plan" /\ pending' = pending /\ leaders' = leaders
        /\ UNCHANGED <<connectionVars, frozenVars, statement, credScope,
                       wire, out, hits>>
    BY DEF NextBatch, outVars, keptVars
  <1>2. SettingsTyped' /\ Frozen' /\ config' = config /\ ready' = ready
    BY <1>1, FrozenStays DEF frozenVars
  <1>3. /\ Rows' = Rows /\ Judged' = Judged /\ Groups' = Groups
        /\ \A S : AllRequests(S)' = AllRequests(S)
        /\ \A S : InGroups(S)' = InGroups(S)
        /\ \A B : Requests(B)' = Requests(B)
        /\ \A r, key : Request(r, key)' = Request(r, key)
        /\ InMode("optimized")' = InMode("optimized")
        /\ InMode("row")' = InMode("row")
    BY <1>1, TaskFrame
  <1>4. /\ InMode("optimized") /\ ~InMode("row") /\ chunk \in DOMAIN Chunks
        /\ batch = {} /\ wire = None /\ hits \subseteq DOMAIN out /\ Reading
    BY <1>1, AtChunk DEF Grouping
  <1>5. GroupByGroup /\ pending = {}
    BY <1>1, <1>4 DEF WorkInv, GroupByGroup
  <1>6. CASE pc' = "failed"
    BY <1>1, <1>2, <1>3, <1>4, <1>6
       DEF WorkInv, Labels, Asking, Grouping, PathKept, RowByRow,
           GroupByGroup, Reading, LimitsKept, WireKept, AtRest
  <1>7. CASE pc' # "failed" /\ todo = {}
    <2>1. pc' = "done" /\ batch' = batch
      BY <1>7 DEF NextBatch, Goto
    <2>2. InGroups(pending \cup todo \cup batch) = {}
      BY <1>4, <1>5, <1>7 DEF InGroups
    <2>3. DOMAIN out = DOMAIN Rows
      BY <1>4, <1>5, <2>2 DEF GroupByGroup
    <2>4. QED
      BY <1>1, <1>2, <1>3, <1>4, <2>1, <2>3
         DEF WorkInv, Labels, Asking, Grouping, PathKept, RowByRow,
             GroupByGroup, Reading, LimitsKept, WireKept, AtRest
  <1>8. CASE pc' # "failed" /\ todo # {}
    <2>1. /\ batch' # {} /\ batch' \subseteq todo /\ todo' = todo \ batch'
          /\ Fits(batch') /\ pc' = "send"
      BY <1>8, BatchTaken
    <2>2. /\ todo \subseteq leaders /\ leaders \subseteq Groups
          /\ Groups \subseteq Judged /\ config.batch
      <3>1. /\ todo \subseteq leaders /\ leaders \subseteq Groups
            /\ leaders # {} => config.batch
        BY <1>4, <1>5 DEF GroupByGroup
      <3>2. QED
        BY <1>4, <1>8, <3>1, GroupsPartition
    <2>3. ready
      BY <1>4, <1>5, <1>8, <2>2 DEF GroupByGroup
    <2>4. /\ AllRequests(Judged)' = AllRequests(Judged)
          /\ InGroups(pending)' = {}
          /\ InGroups(pending \cup todo \cup batch)' =
               InGroups(pending \cup todo \cup batch)
      <3>1. pending' = {}
              /\ (pending \cup todo \cup batch)' = pending \cup todo \cup batch
        BY <1>1, <1>4, <1>5, <2>1
      <3>2. QED
        BY <1>3, <3>1 DEF AllRequests, IsRequest, InGroups
    <2>5. GroupByGroup'
      BY <1>1, <1>2, <1>3, <1>4, <1>5, <2>1, <2>2, <2>3, <2>4
         DEF GroupByGroup
    <2>6. LimitsKept'
      <3>1. Requests(batch)' = Requests(batch')
        BY <1>3 DEF Requests
      <3>2. QED
        BY <1>2, <2>1, <2>2, <3>1 DEF LimitsKept, Fits
    <2>7. QED
      BY <1>1, <1>2, <1>3, <1>4, <2>1, <2>3, <2>5, <2>6
         DEF WorkInv, Labels, Asking, Grouping, PathKept, RowByRow,
             Reading, WireKept, AtRest
  <1>9. QED
    BY <1>6, <1>7, <1>8

\* What the steps of a request share.
LEMMA AtRequest ==
  ASSUME WorkInv, pc \in Asking
  PROVE  /\ chunk \in DOMAIN Chunks /\ ready
         /\ batch # {} /\ batch \in SUBSET Judged
         /\ \A i \in batch : IsRequest(Rows[i])
         /\ hits \subseteq DOMAIN out
         /\ \/ InMode("row") /\ ~InMode("optimized") /\ batch = {row}
                 /\ RequestsBefore(row) /\ DOMAIN out = 1..(row - 1)
            \/ InMode("optimized") /\ ~InMode("row") /\ GroupByGroup
                 /\ Reading /\ batch \subseteq Groups
  <1>1. /\ pc # "idle" /\ pc \notin Grouping /\ pc # "row"
    BY DEF Grouping, Asking
  <1>2. chunk \in DOMAIN Chunks /\ ready /\ batch # {} /\ hits \subseteq DOMAIN out
    BY <1>1 DEF WorkInv, Frozen, PathKept, AtRest
  <1>3. CASE InMode("row")
    <2>1. /\ row \in Judged /\ batch = {row} /\ IsRequest(Rows[row])
          /\ RequestsBefore(row) /\ DOMAIN out = 1..(row - 1)
      BY <1>3 DEF WorkInv, RowByRow
    <2>2. ~InMode("optimized")
      BY <1>3 DEF InMode
    <2>3. QED
      BY <1>2, <1>3, <2>1, <2>2
  <1>4. CASE ~InMode("row")
    <2>1. InMode("optimized") /\ Reading /\ GroupByGroup
      BY <1>4 DEF WorkInv, PathKept, Reading
    <2>2. batch \subseteq Groups /\ AllRequests(Judged)
      BY <2>1 DEF GroupByGroup
    <2>3. batch \subseteq Judged
      BY <1>2, <2>2, GroupsPartition
    <2>4. QED
      BY <1>2, <1>4, <2>1, <2>2, <2>3 DEF AllRequests
  <1>5. QED
    BY <1>3, <1>4

\* The request and its reply leave the rows alone.
LEMMA AskingGoesOn ==
  ASSUME WorkInv, pc \in Asking, pc' \in Asking,
         UNCHANGED <<connectionVars, frozenVars, statement, workVars, batch,
                     out, hits, credScope>>
  PROVE  /\ SettingsTyped' /\ Frozen' /\ PathKept' /\ RowByRow'
         /\ GroupByGroup' /\ LimitsKept' /\ AtRest'
         /\ Requests(batch)' = Requests(batch) /\ context' = context
  <1>1. /\ pending' = pending /\ leaders' = leaders /\ todo' = todo
        /\ row' = row /\ batch' = batch /\ out' = out /\ hits' = hits
        /\ UNCHANGED <<connectionVars, frozenVars>>
    BY DEF workVars
  <1>2. SettingsTyped' /\ Frozen' /\ config' = config /\ ready' = ready
          /\ context' = context
    BY <1>1, FrozenStays DEF frozenVars, Asking
  <1>3. /\ Rows' = Rows /\ Judged' = Judged /\ Groups' = Groups
        /\ \A S : AllRequests(S)' = AllRequests(S)
        /\ \A S : InGroups(S)' = InGroups(S)
        /\ \A B : Requests(B)' = Requests(B)
        /\ \A r, key : Request(r, key)' = Request(r, key)
        /\ \A n : RequestsBefore(n)' = RequestsBefore(n)
        /\ \A r : IsRequest(r)' = IsRequest(r)
        /\ InMode("optimized")' = InMode("optimized")
        /\ InMode("row")' = InMode("row")
    BY TaskFrame
  <1>4. /\ pc # "idle" /\ pc # "row" /\ pc \notin Grouping /\ pc # "done"
        /\ pc' # "idle" /\ pc' # "row" /\ pc' \notin Grouping /\ pc' # "done"
    BY DEF Asking, Grouping
  <1>5. PathKept'
    BY <1>1, <1>2, <1>3, <1>4 DEF WorkInv, PathKept
  <1>6. RowByRow'
    <2>1. /\ RequestsBefore(row)' = RequestsBefore(row)
          /\ IsRequest(Rows[row])' = IsRequest(Rows[row])
      BY <1>1, <1>3 DEF RequestsBefore, IsRequest, IsNull
    <2>2. QED
      BY <1>1, <1>3, <1>4, <2>1 DEF WorkInv, RowByRow
  <1>7. GroupByGroup'
    <2>1. /\ AllRequests(Judged)' = AllRequests(Judged)
          /\ InGroups(pending)' = InGroups(pending)
          /\ InGroups(pending \cup todo \cup batch)' =
               InGroups(pending \cup todo \cup batch)
      BY <1>1, <1>3 DEF AllRequests, IsRequest, InGroups
    <2>2. Reading' = Reading /\ pc' # "plan" /\ pc # "lookup"
      BY <1>3, <1>4 DEF Reading, Grouping
    <2>3. GroupByGroup
      BY DEF WorkInv
    <2>4. QED
      BY <1>1, <1>2, <1>3, <1>4, <2>1, <2>2, <2>3 DEF GroupByGroup
  <1>8. Requests(batch)' = Requests(batch)
    BY <1>1, <1>3 DEF Requests
  <1>9. LimitsKept' /\ AtRest'
    BY <1>1, <1>2, <1>3, <1>4, <1>8
       DEF WorkInv, LimitsKept, AtRest, Grouping
  <1>10. QED
    BY <1>2, <1>5, <1>6, <1>7, <1>8, <1>9

\* A statement that failed keeps nothing but what it froze.
LEMMA FailedWork ==
  ASSUME WorkInv, pc # "idle", pc' = "failed", wire' = None,
         UNCHANGED <<connectionVars, frozenVars, out, hits>>
  PROVE  WorkInv'
  <1>1. SettingsTyped' /\ Frozen'
    BY FrozenStays
  <1>2. QED
    BY <1>1
       DEF WorkInv, Labels, Asking, Grouping, PathKept, RowByRow,
           GroupByGroup, Reading, LimitsKept, WireKept, AtRest

\* A request is sent as its batch and context say.
LEMMA SendWork ==
  ASSUME WorkInv, Send
  PROVE  WorkInv'
  <1>1. /\ pc = "send" /\ wire = None
        /\ UNCHANGED <<connectionVars, frozenVars, statement, workVars, batch,
                       out, hits, credScope>>
    BY DEF Send, WorkInv, WireKept, outVars, keptVars
  <1>2. CASE ~MaySend(context, Requests(batch))
    <2>1. pc' = "failed" /\ wire' = None
      BY <1>1, <1>2 DEF Send, Goto
    <2>2. QED
      BY <1>1, <2>1, FailedWork
  <1>3. CASE MaySend(context, Requests(batch)) /\ Adapter(context).external
    <2>1. pc' = "wait" /\ wire' = Post(context, Requests(batch))
      BY <1>3 DEF Send, Goto
    <2>2. /\ SettingsTyped' /\ Frozen' /\ PathKept' /\ RowByRow'
          /\ GroupByGroup' /\ LimitsKept' /\ AtRest'
          /\ Requests(batch)' = Requests(batch) /\ context' = context
      BY <1>1, <2>1, AskingGoesOn DEF Asking
    <2>3. WireKept'
      BY <1>3, <2>1, <2>2 DEF WireKept
    <2>4. QED
      BY <2>1, <2>2, <2>3 DEF WorkInv, Labels, Asking
  <1>4. CASE MaySend(context, Requests(batch)) /\ ~Adapter(context).external
    <2>1. pc' = "settle" /\ wire' = None
      BY <1>1, <1>4 DEF Send, Goto
    <2>2. /\ SettingsTyped' /\ Frozen' /\ PathKept' /\ RowByRow'
          /\ GroupByGroup' /\ LimitsKept' /\ AtRest'
      BY <1>1, <2>1, AskingGoesOn DEF Asking
    <2>3. QED
      BY <2>1, <2>2 DEF WorkInv, Labels, Asking, WireKept
  <1>5. QED
    BY <1>2, <1>3, <1>4

\* A reply ends the wait and changes nothing else.
LEMMA ReplyWork ==
  ASSUME WorkInv, Reply
  PROVE  WorkInv'
  <1>1. /\ pc = "wait" /\ pc' = "settle" /\ wire' = None
        /\ UNCHANGED <<connectionVars, frozenVars, statement, workVars, batch,
                       out, hits, credScope>>
    BY DEF Reply, Goto, outVars, keptVars
  <1>2. /\ SettingsTyped' /\ Frozen' /\ PathKept' /\ RowByRow'
        /\ GroupByGroup' /\ LimitsKept' /\ AtRest'
    BY <1>1, AskingGoesOn DEF Asking
  <1>3. QED
    BY <1>1, <1>2 DEF WorkInv, Labels, Asking, WireKept

\* The rows of the batch get its answers, and no others.
LEMMA SettleWork ==
  ASSUME WorkInv, Settle
  PROVE  WorkInv'
  <1>1. /\ pc = "settle" /\ wire = None /\ wire' = wire /\ batch' = {}
        /\ pending' = pending /\ leaders' = leaders /\ todo' = todo
        /\ UNCHANGED <<connectionVars, frozenVars, statement, hits, credScope>>
    BY DEF Settle, WorkInv, WireKept
  <1>2. SettingsTyped' /\ Frozen' /\ config' = config /\ ready' = ready
    BY <1>1, FrozenStays DEF frozenVars
  <1>3. /\ Rows' = Rows /\ Judged' = Judged /\ Groups' = Groups
        /\ \A S : AllRequests(S)' = AllRequests(S)
        /\ \A S : InGroups(S)' = InGroups(S)
        /\ \A n : RequestsBefore(n)' = RequestsBefore(n)
        /\ \A r : IsRequest(r)' = IsRequest(r)
        /\ \A r : IsNull(r)' = IsNull(r)
        /\ InMode("optimized")' = InMode("optimized")
        /\ InMode("row")' = InMode("row")
    BY <1>1, TaskFrame
  <1>4. CASE ~Accepted(context, Requests(batch), reply)
    <2>1. pc' = "failed" /\ out' = out
      BY <1>4 DEF Settle, Goto
    <2>2. QED
      BY <1>1, <2>1, FailedWork
  <1>5. CASE Accepted(context, Requests(batch), reply) /\ InMode("row")
    <2>1. /\ pc' = "row" /\ row' = row + 1
          /\ DOMAIN out' = DOMAIN out \cup {row}
      <3>1. config.mode = "row" /\ batch = {row}
        BY <1>1, <1>5, AtRequest DEF InMode, Asking
      <3>2. pc' = "row" /\ row' = row + 1
              /\ DOMAIN out' =
                   DOMAIN out \cup UNION {Targets(g) : g \in batch}
        BY <1>5, <3>1 DEF Settle, Goto, Expand
      <3>3. UNION {Targets(g) : g \in batch} = {row}
        BY <3>1 DEF Targets
      <3>4. QED
        BY <3>2, <3>3
    <2>2. /\ chunk \in DOMAIN Chunks /\ row \in Judged
          /\ IsRequest(Rows[row]) /\ RequestsBefore(row)
          /\ DOMAIN out = 1..(row - 1) /\ hits \subseteq DOMAIN out
          /\ ~InMode("optimized")
      BY <1>1, <1>5, AtRequest DEF Asking, InMode
    <2>3. Len(Rows) \in Nat /\ row \in 1..Len(Rows)
      BY <2>2, RowNumbers
    <2>4. row' \in 1..(Len(Rows) + 1) /\ DOMAIN out' = 1..(row' - 1)
      BY <2>1, <2>2, <2>3
    <2>5. RequestsBefore(row + 1)
      <3>1. \A i \in 1..((row + 1) - 1) : i \in 1..(row - 1) \/ i = row
        BY <2>3
      <3>2. QED
        BY <2>2, <3>1 DEF RequestsBefore
    <2>6. RequestsBefore(row)'
      BY <1>3, <2>1, <2>5 DEF RequestsBefore, IsNull, IsRequest
    <2>7. RowByRow'
      BY <1>3, <2>1, <2>4, <2>6 DEF RowByRow, Asking
    <2>8. QED
      BY <1>1, <1>2, <1>3, <1>5, <2>1, <2>2, <2>7
         DEF WorkInv, Labels, Asking, Grouping, PathKept,
             GroupByGroup, Reading, LimitsKept, WireKept, AtRest
  <1>6. CASE Accepted(context, Requests(batch), reply) /\ ~InMode("row")
    <2>1. /\ chunk \in DOMAIN Chunks /\ ready /\ hits \subseteq DOMAIN out
          /\ InMode("optimized") /\ GroupByGroup /\ Reading
          /\ batch \subseteq Groups
      BY <1>1, <1>6, AtRequest DEF Asking
    <2>2. /\ pc' = IF config.batch THEN "plan" ELSE "lookup"
          /\ DOMAIN out' = DOMAIN out \cup InGroups(batch)
      <3>1. config.mode # "row"
        BY <2>1 DEF InMode
      <3>2. /\ pc' = IF config.batch THEN "plan" ELSE "lookup"
            /\ DOMAIN out' =
                 DOMAIN out \cup UNION {Targets(g) : g \in batch}
        BY <1>6, <3>1 DEF Settle, Goto, Expand
      <3>3. UNION {Targets(g) : g \in batch} = InGroups(batch)
        BY <3>1 DEF Targets, InGroups
      <3>4. QED
        BY <3>2, <3>3
    <2>3. pc # "lookup"
      BY <1>1
    <2>4. InGroups(pending) \cap InGroups(batch) = {}
      <3>1. pending \in SUBSET Groups /\ batch \in SUBSET Groups
              /\ pending \cap batch = {}
        BY <2>1 DEF GroupByGroup
      <3>2. QED
        BY <2>1, <3>1, GroupsPartition
    <2>5. InGroups(batch) \subseteq DOMAIN Rows
      <3>1. \A g \in batch : GroupOf(g) \subseteq DOMAIN Rows
        BY <2>1, GroupsPartition, RowNumbers
      <3>2. QED
        BY <3>1 DEF InGroups
    <2>6. InGroups(pending \cup todo \cup batch) =
            InGroups(pending \cup todo) \cup InGroups(batch)
      BY DEF InGroups
    <2>7. /\ AllRequests(Judged)' = AllRequests(Judged)
          /\ InGroups(pending)' = InGroups(pending)
          /\ InGroups(pending \cup todo \cup batch)' =
               InGroups(pending \cup todo)
      <3>1. (pending \cup todo \cup batch)' = pending \cup todo
        BY <1>1
      <3>2. QED
        BY <1>1, <1>3, <3>1 DEF AllRequests, IsRequest, InGroups
    <2>8. /\ InGroups(pending)' \cap DOMAIN out' = {}
          /\ DOMAIN out' \subseteq DOMAIN Rows'
          /\ DOMAIN Rows' \subseteq
               DOMAIN out' \cup InGroups(pending \cup todo \cup batch)'
      BY <1>3, <2>1, <2>2, <2>4, <2>5, <2>6, <2>7 DEF GroupByGroup
    <2>9. GroupByGroup'
      BY <1>1, <1>2, <1>3, <2>1, <2>2, <2>3, <2>7, <2>8 DEF GroupByGroup
    <2>10. QED
      BY <1>1, <1>2, <1>3, <1>6, <2>1, <2>2, <2>9
         DEF WorkInv, Labels, Asking, Grouping, PathKept, RowByRow,
             Reading, LimitsKept, WireKept, AtRest
  <1>7. QED
    BY <1>4, <1>5, <1>6

\* Every step keeps WorkInv.
LEMMA WorkStep == WorkInv /\ [Next]_vars => WorkInv'
  <1> SUFFICES ASSUME WorkInv, [Next]_vars PROVE WorkInv'
    OBVIOUS
  <1>1. CASE \E option \in DOMAIN SetValues :
               \E value \in SetValues[option] : Set(option, value)
    BY <1>1, SetWork
  <1>2. CASE \E c \in DOMAIN Chunks : Begin(c)
    BY <1>2, BeginWork
  <1>3. CASE UNCHANGED vars
    <2>1. /\ UNCHANGED <<settings, env, pc, chunk, config, context, ready>>
          /\ UNCHANGED <<row, pending, leaders, todo, batch, wire, out, hits>>
          /\ UNCHANGED <<frozenVars, statement, credScope>>
      BY <1>3 DEF vars, connectionVars, frozenVars, workVars, sendVars,
                  outVars, keptVars
    <2>2. /\ Rows' = Rows /\ Judged' = Judged /\ Groups' = Groups
          /\ \A i : GroupOf(i)' = GroupOf(i)
          /\ \A r : IsRequest(r)' = IsRequest(r) /\ IsNull(r)' = IsNull(r)
          /\ \A B : Requests(B)' = Requests(B)
      BY <2>1, TaskFrame
    <2>3. QED
      BY <2>1, <2>2
         DEF WorkInv, SettingsTyped, Labels, Asking, Grouping, Frozen,
             PathKept, RowByRow, GroupByGroup, Reading, LimitsKept, WireKept,
             AtRest, InMode, RequestsBefore, AllRequests, InGroups
  <1>4. QED
    BY <1>1, <1>2, <1>3, EndWork, RowsDoneWork, NullRowWork, EvaluateRowWork,
       UseCredentialWork, ReadChunkWork, HitWork, MissWork, LookedUpWork,
       NextBatchWork, SendWork, ReplyWork, SettleWork
       DEF Next

\* What a statement froze, where each of its rows is, and what is asked for.
LEMMA WorkInvariant == Spec => []WorkInv
  BY WorkInit, WorkStep, PTL DEF Spec

-----------------------------------------------------------------------------
(* What is sent, and where.                                                *)

\* A request is under way: its statement's settings were read.
LEMMA OnTheWire ==
  ASSUME WorkInv, wire # None
  PROVE  /\ pc = "wait" /\ wire = Post(context, Requests(batch))
         /\ Adapter(context).external
         /\ ReadProviderContext(settings, env) # None
         /\ context = ReadProviderContext(settings, env)
         /\ HasProvider(context)
         /\ config = FromValues(settings) /\ config # None /\ SettingsTyped
  <1>1. /\ pc = "wait" /\ wire = Post(context, Requests(batch))
        /\ Adapter(context).external
    BY DEF WorkInv, WireKept
  <1>2. pc # "idle" /\ pc \in Asking
    BY <1>1 DEF Asking
  <1>3. ready /\ config # None
    BY <1>2 DEF WorkInv, PathKept, InMode
  <1>4. /\ ReadProviderContext(settings, env) # None
        /\ context = ReadProviderContext(settings, env)
        /\ HasProvider(context) /\ config = FromValues(settings)
    BY <1>2, <1>3 DEF WorkInv, Frozen
  <1>5. QED
    BY <1>1, <1>3, <1>4 DEF WorkInv

\* read_provider_context gives no context unless the times and sizes are
\* positive.
LEMMA ContextIsLegal ==
  ASSUME NEW s, NEW e, ReadProviderContext(s, e) # None
  PROVE  LET ctx == ReadProviderContext(s, e)
         IN  /\ s.timeout_ms > 0 /\ s.max_response_bytes > 0
             /\ ctx.provider = s.provider.word
             /\ ctx.provider \in {"mock", "typesafe", "selfhosted"}
             /\ ctx.api_url = ApiUrl(ctx.provider, s)
             /\ ctx.model = EffectiveModel(ctx.provider, s.model)
             /\ ctx.timeout_ms = s.timeout_ms
             /\ ctx.max_response_bytes = s.max_response_bytes
             /\ ctx.credential = IF ctx.provider = "selfhosted"
                                 THEN LocalJevCredentialFromEnv(e)
                                 ELSE CredentialFromEnv(e)
  <1> DEFINE provider == ParseProvider(s.provider)
  <1>1. /\ provider # None /\ s.timeout_ms > 0 /\ s.max_response_bytes > 0
        /\ ReadProviderContext(s, e) =
             [provider |-> provider, api_url |-> ApiUrl(provider, s),
              model |-> EffectiveModel(provider, s.model),
              timeout_ms |-> s.timeout_ms,
              max_response_bytes |-> s.max_response_bytes,
              credential |-> IF provider = "selfhosted"
                             THEN LocalJevCredentialFromEnv(e)
                             ELSE CredentialFromEnv(e)]
    BY DEF ReadProviderContext
  <1>2. provider = s.provider.word
          /\ provider \in {"mock", "typesafe", "selfhosted"}
    BY <1>1 DEF ParseProvider
  <1> HIDE DEF provider
  <1>3. QED
    BY <1>1, <1>2

\* A request on the wire is one its settings allow, for rows that are
\* requests, within the limits, whatever was SET since other statements.
THEOREM OnlyLegalWork == Spec => []OnlyLegalWorkIsSent
  <1>1. ASSUME WorkInv
        PROVE  OnlyLegalWorkIsSent
    <2>1. SUFFICES ASSUME wire # None
                   PROVE  /\ LegalSettings
                          /\ \A i \in IF settings.execution_mode.word = "row"
                                      THEN 1..row ELSE DOMAIN Rows :
                               IsNull(Rows[i]) \/ IsRequest(Rows[i])
                          /\ settings.execution_mode.word = "optimized" =>
                               /\ EstimateRequestBytes(Requests(batch))
                                    <= settings.max_request_bytes
                               /\ Cardinality(batch)
                                    <= settings.batch_max_judgments
                               /\ Cardinality(batch) > 1 =>
                                    settings.batch_enabled
                          /\ wire.timeout_ms = settings.timeout_ms
                          /\ wire.limit = settings.max_response_bytes
      BY DEF OnlyLegalWorkIsSent
    <2>2. /\ pc = "wait" /\ wire = Post(context, Requests(batch))
          /\ ReadProviderContext(settings, env) # None
          /\ context = ReadProviderContext(settings, env)
          /\ config = FromValues(settings) /\ config # None /\ SettingsTyped
      BY <1>1, <2>1, OnTheWire
    <2>3. /\ settings.timeout_ms > 0 /\ settings.max_response_bytes > 0
          /\ context.timeout_ms = settings.timeout_ms
          /\ context.max_response_bytes = settings.max_response_bytes
      BY <2>2, ContextIsLegal
    <2>4. /\ settings.execution_mode = Word(config.mode)
          /\ config.mode \in {"row", "optimized"}
          /\ config.batch \/ config.cache => config.mode = "optimized"
          /\ config.batch = settings.batch_enabled
          /\ config.cache = settings.cache_enabled
          /\ config.max_judgments = settings.batch_max_judgments
          /\ config.max_request_bytes = settings.max_request_bytes
          /\ \A o \in LimitOptions : settings[o] \in Int /\ settings[o] > 0
      BY <2>2, ConfigIsLegal
    <2>5. settings.execution_mode.word = config.mode
      BY <2>4 DEF Word
    <2>6. LegalSettings
      BY <2>3, <2>4 DEF LegalSettings, Word
    <2>7. pc \in Asking
      BY <2>2 DEF Asking
    <2>8. CASE config.mode = "row"
      <3>1. /\ RequestsBefore(row) /\ batch = {row} /\ row \in Judged
            /\ IsRequest(Rows[row]) /\ chunk \in DOMAIN Chunks
        BY <1>1, <2>2, <2>7, <2>8, AtRequest DEF InMode
      <3>2. row \in Nat
        BY <3>1, RowNumbers
      <3>3. \A i \in 1..row : i \in 1..(row - 1) \/ i = row
        BY <3>2
      <3>4. \A i \in 1..row : IsNull(Rows[i]) \/ IsRequest(Rows[i])
        BY <3>1, <3>3 DEF RequestsBefore
      <3>5. QED
        BY <2>2, <2>3, <2>5, <2>6, <2>8, <3>4 DEF Post
    <2>9. CASE config.mode = "optimized"
      <3>1. AllRequests(Judged)
        BY <1>1, <2>2, <2>7, <2>9, AtRequest DEF InMode, GroupByGroup
      <3>2. \A i \in DOMAIN Rows : IsNull(Rows[i]) \/ IsRequest(Rows[i])
        BY <3>1 DEF AllRequests, Judged
      <3>3. /\ EstimateRequestBytes(Requests(batch))
                 <= settings.max_request_bytes
            /\ Cardinality(batch) <= settings.batch_max_judgments
            /\ Cardinality(batch) > 1 => settings.batch_enabled
        BY <1>1, <2>2, <2>4, <2>7, <2>9 DEF WorkInv, LimitsKept, InMode
      <3>4. QED
        BY <2>2, <2>3, <2>5, <2>6, <2>9, <3>2, <3>3 DEF Post
    <2>10. QED
      BY <2>4, <2>8, <2>9
  <1>2. QED
    BY <1>1, WorkInvariant, PTL

\* A request goes to the service the provider setting names, with that
\* service's credential, address and model, for any environment.
THEOREM ServicesKept == Spec => []ServiceKept
  <1>1. ASSUME WorkInv
        PROVE  ServiceKept
    <2>1. SUFFICES ASSUME wire # None
                   PROVE  ServiceKept
      BY DEF ServiceKept
    <2>2. /\ wire = Post(context, Requests(batch))
          /\ Adapter(context).external /\ HasProvider(context)
          /\ ReadProviderContext(settings, env) # None
          /\ context = ReadProviderContext(settings, env)
      BY <1>1, <2>1, OnTheWire
    <2>3. /\ wire.endpoint = context.api_url
          /\ wire.credential = context.credential
          /\ wire.body.model = context.model
      BY <2>2 DEF Post, BuildBody
    <2>4. /\ context.provider = settings.provider.word
          /\ context.provider \in {"mock", "typesafe", "selfhosted"}
          /\ context.api_url = ApiUrl(context.provider, settings)
          /\ context.model = EffectiveModel(context.provider, settings.model)
          /\ context.credential = IF context.provider = "selfhosted"
                                  THEN LocalJevCredentialFromEnv(env)
                                  ELSE CredentialFromEnv(env)
      BY <2>2, ContextIsLegal
    <2>5. context.provider # "mock"
      BY <2>2 DEF Adapter, MockProvider
    <2>6. CASE context.provider = "typesafe"
      <3>1. wire.credential # None /\ wire.credential = CredentialFromEnv(env)
        BY <2>2, <2>3, <2>4, <2>6 DEF HasProvider
      <3>2. wire.credential \in {env.override, env.typesafe} \ {None, "blank"}
        BY <3>1 DEF CredentialFromEnv, NonBlank
      <3>3. wire.endpoint = settings.api_url
        BY <2>3, <2>4, <2>6 DEF ApiUrl
      <3>4. wire.body.model = DefaultLocalModel =>
              settings.model = DefaultLocalModel
        BY <2>3, <2>4, <2>6
           DEF EffectiveModel, DefaultModel, DefaultLocalModel
      <3>5. QED
        BY <2>4, <2>6, <3>2, <3>3, <3>4 DEF ServiceKept
    <2>7. CASE context.provider = "selfhosted"
      <3>1. wire.credential \in {env.local, None} \ {"blank"}
        BY <2>3, <2>4, <2>7, NoneAssumption
           DEF LocalJevCredentialFromEnv, NonBlank
      <3>2. wire.endpoint = DefaultApiUrl =>
              settings.local_jev_api_url = DefaultApiUrl
        BY <2>3, <2>4, <2>7 DEF ApiUrl
      <3>3. wire.body.model = DefaultModel => settings.model = DefaultModel
        BY <2>3, <2>4, <2>7
           DEF EffectiveModel, DefaultModel, DefaultLocalModel
      <3>4. QED
        BY <2>4, <2>7, <3>1, <3>2, <3>3 DEF ServiceKept
    <2>8. QED
      BY <2>4, <2>5, <2>6, <2>7
  <1>2. QED
    BY <1>1, WorkInvariant, PTL

-----------------------------------------------------------------------------
(* Replies and the rows they answer.                                       *)

\* What a request asks is what its row does.
LEMMA AskedOfRow ==
  \A i, key : Asked(Request(Rows[i], key)) = QuestionOf(Rows[i])
                /\ Request(Rows[i], key).state = ReadState(Layout, Rows[i].state)
                /\ Request(Rows[i], key).key = key
  BY DEF Asked, Request, QuestionOf

\* An answer worked out from a row's own request answers the row.
LEMMA OwnRequest ==
  ASSUME chunk \in DOMAIN Chunks, NEW i \in Judged, IsRequest(Rows[i]),
         NEW key, NEW a, a.fits, a.by.whole,
         a.type = Request(Rows[i], key).kind,
         a.by.criterion = Request(Rows[i], key).criterion,
         a.by.question = Request(Rows[i], key).question,
         a.by.choices \in {ByLabel(Request(Rows[i], key).choices),
                           InOrder(Request(Rows[i], key).choices)},
         a.by.state = Request(Rows[i], key).state.value,
         ComesFrom(a, context.provider, context.api_url)
  PROVE  AnswersRow(a, i)
  <1> DEFINE read == ReadState(Layout, Rows[i].state)
  <1>1. Asked(Request(Rows[i], key)) = QuestionOf(Rows[i])
          /\ Request(Rows[i], key).state = read
    BY AskedOfRow
  <1>2. Concerns(a, QuestionOf(Rows[i]))
    BY <1>1 DEF Asked, Concerns
  <1>3. /\ i \in DOMAIN Chunks[chunk].rows
        /\ Chunks[chunk].rows[i].state # Null
        /\ Readable(Chunks[chunk].layout, Chunks[chunk].rows[i].state)
        /\ read = ReadState(Chunks[chunk].layout, Chunks[chunk].rows[i].state)
    BY DEF Judged, IsNull, IsRequest, Rows, Layout
  <1>4. a.by.state = read.value
    BY <1>1
  <1> HIDE DEF read
  <1>5. IsAnswer(a, QuestionOf(Rows[i]), read.kind, read.canonical)
    BY <1>2, <1>3, <1>4 DEF IsAnswer
  <1>6. QED
    BY <1>5 DEF AnswersRow, read

\* The request of a key is at its place in the batch.
LEMMA PlaceOfKey ==
  ASSUME chunk \in DOMAIN Chunks, NEW B \in SUBSET Judged,
         NEW key \in 0..(Cardinality(B) - 1)
  PROVE  /\ (CHOOSE k \in DOMAIN Requests(B) : Requests(B)[k].key = key)
              = key + 1
         /\ key + 1 \in 1..Cardinality(B)
  <1> DEFINE place == CHOOSE k \in DOMAIN Requests(B) :
                        Requests(B)[k].key = key
             n == Cardinality(B)
  <1>1. /\ n \in Nat /\ DOMAIN Requests(B) = 1..n
        /\ \A k \in 1..n : Requests(B)[k].key = k - 1
    BY RequestsOfBatch
  <1>2. key + 1 \in 1..n /\ Requests(B)[key + 1].key = key
    BY <1>1
  <1>3. place \in DOMAIN Requests(B) /\ Requests(B)[place].key = key
    BY <1>1, <1>2
  <1> HIDE DEF place, n
  <1>4. place \in 1..n /\ place - 1 = key
    BY <1>1, <1>3
  <1>5. QED
    BY <1>1, <1>2, <1>4 DEF place, n

\* The answer of model m to the i-th row, asked in a batch.
IsModelAnswer(a, B, i, m) ==
  LET r == Request(Rows[i], RequestKey(B, i))
  IN  /\ a.type = r.kind /\ a.fits
      /\ a.by.endpoint = context.api_url
      /\ a.by.model = m /\ a.by.state = r.state.value
      /\ a.by.question = r.question
      /\ a.by.choices = ByLabel(r.choices)
      /\ a.by.whole
      /\ a.by.criterion = Requests(B)[1].criterion
      /\ ~a.by.alone => Cardinality(B) # 1

\* What a service makes of the body it was posted.
LEMMA PostedAnswers ==
  ASSUME chunk \in DOMAIN Chunks, NEW B \in SUBSET Judged, B # {},
         NEW m
  PROVE  LET answers == Answers(Post(context, Requests(B)), m, FALSE)
             n == Cardinality(B)
         IN  /\ DOMAIN answers = 0..(n - 1) /\ n \in Nat \ {0}
             /\ \A i \in B :
                  IsModelAnswer(answers[RequestKey(B, i)], B, i, m)
  <1> DEFINE w == Post(context, Requests(B))
             answers == Answers(w, m, FALSE)
             n == Cardinality(B)
             requests == Requests(B)
             place(key) == CHOOSE k \in DOMAIN requests : requests[k].key = key
  <1>1. /\ n \in Nat /\ Len(requests) = n /\ DOMAIN requests = 1..n
        /\ KeysOf(requests) = 0..(n - 1)
        /\ \A i \in B : /\ RequestKey(B, i) \in 0..(n - 1)
                        /\ requests[RequestKey(B, i) + 1] =
                             Request(Rows[i], RequestKey(B, i))
        /\ \A k \in 1..n : requests[k].key = k - 1
    BY RequestsOfBatch
  <1>2. n # 0
    BY RowNumbers, FS_EmptySet
  <1> HIDE DEF n, requests
  <1>3. \A key \in 0..(n - 1) : place(key) = key + 1 /\ key + 1 \in 1..n
    BY PlaceOfKey DEF n, requests
  <1>4. /\ w.endpoint = context.api_url
        /\ w.body.rows = [k \in 1..n |-> requests[k].state.value]
        /\ w.body.condition = requests[1].criterion
        /\ w.body.questions = [key \in 0..(n - 1) |->
                QuestionAbout(requests[place(key)], place(key))]
    BY <1>1 DEF Post, BuildBody, requests
  <1> HIDE DEF place, w
  <1>5. Len(w.body.rows) = n
    BY <1>1, <1>4
  <1>6. answers = [key \in 0..(n - 1) |-> Answer(w, key, m, FALSE)]
    BY <1>4 DEF Answers
  <1> HIDE DEF answers
  <1>7. ASSUME NEW i \in B
        PROVE  IsModelAnswer(answers[RequestKey(B, i)], B, i, m)
    <2> DEFINE key == RequestKey(B, i)
               r == Request(Rows[i], key)
    <2>1. /\ key \in 0..(n - 1) /\ requests[key + 1] = r
          /\ place(key) = key + 1 /\ key + 1 \in 1..n
      BY <1>1, <1>3
    <2> HIDE DEF key, r
    <2>2. w.body.questions[key] = QuestionAbout(r, key + 1)
      BY <1>4, <2>1
    <2>3. w.body.rows[key + 1] = r.state.value
      BY <1>4, <2>1
    <2>4. answers[key] = Answer(w, key, m, FALSE)
      BY <1>6, <2>1
    <2> DEFINE a == answers[key]
               q == w.body.questions[key]
               body == w.body
    <2>8. q.type = r.kind /\ q.row = key + 1
            /\ q.question = r.question /\ q.criteria = ByLabel(r.choices)
      BY <2>2 DEF QuestionAbout
    <2>9. a = [type |-> q.type, fits |-> TRUE,
               by |-> [endpoint |-> w.endpoint, model |-> m,
                       state |-> body.rows[q.row],
                       criterion |-> body.condition,
                       question |-> q.question, choices |-> q.criteria,
                       whole |-> ~FALSE, alone |-> Len(body.rows) = 1]]
      BY <2>4 DEF Answer
    <2> HIDE DEF q, a
    <2>5. /\ a.type = r.kind /\ a.fits
          /\ a.by.endpoint = context.api_url
          /\ a.by.model = m /\ a.by.state = r.state.value
          /\ a.by.question = r.question
          /\ a.by.choices = ByLabel(r.choices)
          /\ a.by.whole
          /\ a.by.criterion = requests[1].criterion
      BY <1>4, <2>3, <2>8, <2>9
    <2>6. ~a.by.alone => n # 1
      BY <1>5, <2>9
    <2>7. QED
      BY <2>5, <2>6 DEF IsModelAnswer, key, r, a, n, requests
  <1>8. QED
    BY <1>1, <1>2, <1>6, <1>7 DEF answers, n, requests, w
\* An answer is a record with its type and whether its value fits (the answer
\* objects of a response, judgment.rs).
LEMMA AnswerRecords ==
  ASSUME NEW w, NEW model
  PROVE  /\ Answers(w, model, FALSE) =
              [key \in DOMAIN Answers(w, model, FALSE) |->
                 Answers(w, model, FALSE)[key]]
         /\ \A key \in DOMAIN Answers(w, model, FALSE) :
              DOMAIN Answers(w, model, FALSE)[key] = {"type", "fits", "by"}
  <1>1. \A key : DOMAIN Answer(w, key, model, FALSE) = {"type", "fits", "by"}
    BY DEF Answer
  <1>2. /\ Answers(w, model, FALSE) =
             [key \in DOMAIN Answers(w, model, FALSE) |->
                Answers(w, model, FALSE)[key]]
        /\ \A key \in DOMAIN Answers(w, model, FALSE) :
             Answers(w, model, FALSE)[key] = Answer(w, key, model, FALSE)
    BY DEF Answers
  <1>3. QED
    BY <1>1, <1>2

\* validate_batch_result refuses answers that are not those asked for.
LEMMA SpoiltRefused ==
  ASSUME chunk \in DOMAIN Chunks, NEW B \in SUBSET Judged, B # {}, NEW m,
         NEW spoilt \in Spoilt(Answers(Post(context, Requests(B)), m, FALSE))
  PROVE  ~ValidBatchResult(Requests(B), spoilt)
  <1> DEFINE answers == Answers(Post(context, Requests(B)), m, FALSE)
             n == Cardinality(B)
             some == CHOOSE key \in DOMAIN answers : TRUE
             unknown == Cardinality(DOMAIN answers)
             other == IF answers[some].type = "noul" THEN "choice" ELSE "noul"
  <1>1. DOMAIN answers = 0..(n - 1) /\ n \in Nat \ {0}
    BY PostedAnswers
  <1>2. /\ DOMAIN Requests(B) = 1..n
        /\ KeysOf(Requests(B)) = 0..(n - 1) /\ Cardinality(0..(n - 1)) = n
        /\ \A k \in 1..n : /\ Requests(B)[k].key = k - 1
                           /\ WithKey(B, k - 1) \in B
                           /\ RequestKey(B, WithKey(B, k - 1)) = k - 1
    BY RequestsOfBatch
  <1>3. \A i \in B : IsModelAnswer(answers[RequestKey(B, i)], B, i, m)
    BY PostedAnswers
  <1>4. \A i \in B : Requests(B)[RequestKey(B, i) + 1] =
                       Request(Rows[i], RequestKey(B, i))
    BY RequestsOfBatch
  <1>5. spoilt \in {[key \in DOMAIN answers \ {some} |-> answers[key]],
                    [key \in DOMAIN answers \cup {unknown} |->
                       IF key = unknown THEN answers[some] ELSE answers[key]],
                    [answers EXCEPT ![some].type = other],
                    [answers EXCEPT ![some].fits = FALSE]}
    BY DEF Spoilt
  <1>6. answers = [key \in DOMAIN answers |-> answers[key]]
          /\ \A key \in DOMAIN answers :
               DOMAIN answers[key] = {"type", "fits", "by"}
    BY AnswerRecords
  <1> HIDE DEF answers, n
  <1>7. 0 \in DOMAIN answers
    BY <1>1
  <1>8. some \in DOMAIN answers
    BY <1>7
  <1>9. unknown = n /\ unknown \notin DOMAIN answers
    BY <1>1, <1>2
  <1> HIDE DEF some, unknown
  <1>10. PICK k \in 1..n : k = some + 1
    BY <1>1, <1>8
  <1>11. /\ Requests(B)[k].key = some
         /\ Requests(B)[k].kind = answers[some].type
    <2> DEFINE i == WithKey(B, k - 1)
    <2>1. i \in B /\ RequestKey(B, i) = k - 1 /\ Requests(B)[k].key = k - 1
      BY <1>2
    <2> HIDE DEF i
    <2>2. k - 1 = some /\ RequestKey(B, i) + 1 = k
      BY <1>1, <1>8, <1>10, <2>1
    <2>3. QED
      BY <1>3, <1>4, <2>1, <2>2 DEF IsModelAnswer
  <1>12. SUFFICES ASSUME DOMAIN spoilt = 0..(n - 1),
                         spoilt[some].type = answers[some].type,
                         spoilt[some].fits
                  PROVE  FALSE
    BY <1>2, <1>11 DEF ValidBatchResult
  <1>13. CASE spoilt = [key \in DOMAIN answers \ {some} |-> answers[key]]
    BY <1>1, <1>8, <1>12, <1>13
  <1>14. CASE spoilt = [key \in DOMAIN answers \cup {unknown} |->
                          IF key = unknown THEN answers[some]
                          ELSE answers[key]]
    BY <1>1, <1>9, <1>12, <1>14
  <1>15. CASE spoilt = [answers EXCEPT ![some].type = other]
    <2>1. spoilt[some].type = other
      BY <1>6, <1>8, <1>15
    <2>2. QED
      BY <1>12, <2>1
  <1>16. CASE spoilt = [answers EXCEPT ![some].fits = FALSE]
    <2>1. spoilt[some].fits = FALSE
      BY <1>6, <1>8, <1>16
    <2>2. QED
      BY <1>12, <2>1
  <1>17. QED
    BY <1>5, <1>13, <1>14, <1>15, <1>16

\* A context is of one of the three providers.
LEMMA ProviderKnown ==
  ASSUME WorkInv, pc # "idle"
  PROVE  /\ context.provider \in {"mock", "typesafe", "selfhosted"}
         /\ Adapter(context).external <=> context.provider # "mock"
         /\ context.provider = "selfhosted" => Adapter(context).reject_truncated
  <1>1. context.provider \in {"mock", "typesafe", "selfhosted"}
    <2>1. context = IF ReadProviderContext(settings, env) = None
                    THEN DefaultContext ELSE ReadProviderContext(settings, env)
      BY DEF WorkInv, Frozen
    <2>2. QED
      BY <2>1, ContextIsLegal DEF DefaultContext
  <1>2. QED
    BY <1>1 DEF Adapter, MockProvider, TypesafeProvider, LocalJevProvider

\* What is taken from a service is its answers to the questions it was sent,
\* each from the whole of its row, by the model it tells.
LEMMA TakenFromService ==
  ASSUME WorkInv, pc = "wait", NEW r,
         r \in Replies(wire, Truncations(context)),
         Accepted(context, Requests(batch), r)
  PROVE  \E m : /\ r.answers = Answers(wire, m, FALSE)
                /\ r.model \in {m, None}
                /\ Cardinality(batch) > 1 => m = VerifiedBatchModel
  <1>1. /\ wire = Post(context, Requests(batch)) /\ Adapter(context).external
        /\ pc \in Asking /\ pc # "idle"
    BY DEF WorkInv, WireKept, Asking
  <1>2. /\ chunk \in DOMAIN Chunks /\ batch # {} /\ batch \in SUBSET Judged
    BY <1>1, AtRequest
  <1>3. ~Adapter(context).reject_truncated => Truncations(context) = {FALSE}
    BY <1>1, ProviderKnown DEF Truncations
  <1>4. Len(Requests(batch)) = Cardinality(batch)
    BY <1>2, RequestsOfBatch
  <1>5. /\ r.received
        /\ ~(Adapter(context).reject_truncated /\ r.truncated)
        /\ ValidBatchResult(Requests(batch), r.answers)
        /\ Cardinality(batch) > 1 => r.model = VerifiedBatchModel
    BY <1>1, <1>4 DEF Accepted
  <1>6. r # NoReply
    BY <1>5 DEF NoReply
  <1>7. PICK m \in Serves[wire.body.model] :
          r \in ProperReplies(wire, Truncations(context), m)
                 \cup SpoiltReplies(wire, m)
    BY <1>6 DEF Replies
  <1>8. CASE r \in ProperReplies(wire, Truncations(context), m)
    <2>1. PICK cut \in Truncations(context), told \in {m, None} :
            r = [received |-> TRUE, truncated |-> cut, model |-> told,
                 answers |-> Answers(wire, m, cut)]
      BY <1>8 DEF ProperReplies
    <2>2. cut = FALSE
      <3>1. cut \in BOOLEAN
        BY DEF Truncations
      <3>2. r.truncated = cut
        BY <2>1
      <3>3. QED
        BY <1>3, <1>5, <3>1, <3>2
    <2>3. r.answers = Answers(wire, m, FALSE) /\ r.model \in {m, None}
      BY <2>1, <2>2
    <2>4. VerifiedBatchModel # None
      BY ModelAssumption
    <2>5. QED
      BY <1>5, <2>3, <2>4
  <1>9. CASE r \in SpoiltReplies(wire, m)
    <2>1. PICK a \in Spoilt(Answers(wire, m, FALSE)) :
            r = [received |-> TRUE, truncated |-> FALSE, model |-> m,
                 answers |-> a]
      BY <1>9 DEF SpoiltReplies
    <2>2. r.answers = a
      BY <2>1
    <2>3. ~ValidBatchResult(Requests(batch), a)
      BY <1>1, <1>2, <2>1, SpoiltRefused
    <2>4. QED
      BY <1>5, <2>2, <2>3
  <1>10. QED
    BY <1>7, <1>8, <1>9

\* Whether an answer is a row's does not change while a statement runs.
LEMMA AnswerFrame ==
  ASSUME UNCHANGED frozenVars
  PROVE  /\ \A a, i : AnswersRow(a, i)' = AnswersRow(a, i)
         /\ \A r : IsNull(r)' = IsNull(r)
         /\ Rows' = Rows /\ Judged' = Judged /\ context' = context /\ chunk' = chunk
         /\ CacheModelIdentity(context)' = CacheModelIdentity(context)
  <1>1. chunk' = chunk /\ context' = context
    BY DEF frozenVars
  <1>2. Rows' = Rows /\ Layout' = Layout /\ Function' = Function
    BY <1>1 DEF Rows, Layout, Function
  <1>3. /\ \A r : IsNull(r)' = IsNull(r)
        /\ \A r : IsRequest(r)' = IsRequest(r)
        /\ \A r : QuestionOf(r)' = QuestionOf(r)
    BY <1>2 DEF IsNull, IsRequest, IsQuestion, QuestionOf
  <1>7. Judged' = Judged
    BY <1>2, <1>3 DEF Judged
  <1>4. \A a, i : AnswersRow(a, i)' = AnswersRow(a, i)
    BY <1>1, <1>2, <1>3, <1>7 DEF AnswersRow
  <1>5. CacheModelIdentity(context)' = CacheModelIdentity(context)
    BY <1>1
  <1>6. QED
    BY <1>1, <1>2, <1>3, <1>4, <1>5, <1>7

\* A service's reply answers the rows of its batch.
LEMMA ReplyAnswersRows ==
  ASSUME WorkInv, SentAlike, Reply
  PROVE  ReplyAnswers'
  <1>1. /\ pc = "wait" /\ pc' = "settle"
        /\ reply' \in Replies(wire, Truncations(context))
        /\ UNCHANGED <<connectionVars, frozenVars, statement, workVars, batch,
                       out, hits, credScope>>
    BY DEF Reply, Goto, outVars, keptVars
  <1>2. /\ Requests(batch)' = Requests(batch) /\ context' = context
        /\ batch' = batch
    BY <1>1, AskingGoesOn DEF Asking
  <1>3. /\ chunk \in DOMAIN Chunks /\ batch # {} /\ batch \in SUBSET Judged
        /\ \A i \in batch : IsRequest(Rows[i])
    BY <1>1, AtRequest DEF Asking
  <1>4. /\ wire = Post(context, Requests(batch)) /\ Adapter(context).external
        /\ MaySend(context, Requests(batch))
    BY <1>1 DEF WorkInv, WireKept, SentAlike
  <1>5. context.provider # "mock"
    BY <1>1, <1>4, ProviderKnown
  <1>6. SUFFICES ASSUME Accepted(context, Requests(batch), reply'),
                        NEW i \in batch
                 PROVE  LET a == reply'.answers[RequestKey(batch, i)]
                        IN  AnswersRow(a, i) /\ reply'.model \in {None, a.by.model}
    BY <1>1, <1>2, AnswerFrame DEF ReplyAnswers, RequestKey
  <1>7. PICK m : /\ reply'.answers = Answers(wire, m, FALSE)
                 /\ reply'.model \in {m, None}
                 /\ Cardinality(batch) > 1 => m = VerifiedBatchModel
    BY <1>1, <1>6, TakenFromService
  <1> DEFINE key == RequestKey(batch, i)
             a == reply'.answers[key]
             r == Request(Rows[i], key)
             n == Cardinality(batch)
  <1>8. IsModelAnswer(a, batch, i, m) /\ n \in Nat \ {0}
    BY <1>3, <1>4, <1>7, PostedAnswers
  <1>9. /\ n \in Nat /\ Len(Requests(batch)) = n
        /\ DOMAIN Requests(batch) = 1..n
        /\ key \in 0..(n - 1) /\ Requests(batch)[key + 1] = r
    BY <1>3, RequestsOfBatch
  <1> HIDE DEF n, a, key, r
  <1>10. Requests(batch)[1].criterion = r.criterion
    <2>1. CASE n = 1
      <3>1. key + 1 = 1
        BY <1>9, <2>1
      <3>2. QED
        BY <1>9, <3>1
    <2>2. CASE n # 1
      <3>1. \A k \in DOMAIN Requests(batch) :
              Requests(batch)[k].criterion = Requests(batch)[1].criterion
        BY <1>4, <1>9, <2>2 DEF MaySend
      <3>2. key + 1 \in 1..n
        BY <1>9
      <3>3. QED
        BY <1>9, <3>1, <3>2
    <2>3. QED
      BY <2>1, <2>2
  <1>11. /\ a.type = r.kind /\ a.fits /\ a.by.whole
         /\ a.by.endpoint = context.api_url /\ a.by.model = m
         /\ a.by.criterion = r.criterion /\ a.by.question = r.question
         /\ a.by.choices = ByLabel(r.choices) /\ a.by.state = r.state.value
         /\ ~a.by.alone => n # 1
    BY <1>8, <1>10 DEF IsModelAnswer, r, key, n
  <1>12. ComesFrom(a, context.provider, context.api_url)
    <2>1. ~a.by.alone => n > 1
      BY <1>8, <1>11
    <2>2. QED
      BY <1>5, <1>7, <1>11, <2>1 DEF ComesFrom, n
  <1>13. AnswersRow(a, i)
    BY <1>3, <1>11, <1>12, OwnRequest DEF r
  <1>14. QED
    BY <1>7, <1>11, <1>13 DEF a, key

\* The mock's answers are to the requests it is given.
LEMMA MockAnswersRows ==
  ASSUME WorkInv, Send, pc' = "settle"
  PROVE  ReplyAnswers'
  <1>1. /\ pc = "send" /\ reply' = MockReply(Requests(batch))
        /\ ~Adapter(context).external
        /\ UNCHANGED <<connectionVars, frozenVars, statement, workVars, batch,
                       out, hits, credScope>>
    BY DEF Send, Goto, outVars, keptVars
  <1>2. /\ Requests(batch)' = Requests(batch) /\ context' = context
        /\ batch' = batch
    BY <1>1, AskingGoesOn DEF Asking
  <1>3. /\ chunk \in DOMAIN Chunks /\ batch # {} /\ batch \in SUBSET Judged
        /\ \A i \in batch : IsRequest(Rows[i])
    BY <1>1, AtRequest DEF Asking
  <1>4. context.provider = "mock"
    BY <1>1, ProviderKnown
  <1>5. SUFFICES ASSUME NEW i \in batch
                 PROVE  LET a == reply'.answers[RequestKey(batch, i)]
                        IN  AnswersRow(a, i) /\ reply'.model \in {None, a.by.model}
    BY <1>1, <1>2, AnswerFrame DEF ReplyAnswers, RequestKey
  <1> DEFINE key == RequestKey(batch, i)
             a == reply'.answers[key]
             r == Request(Rows[i], key)
             n == Cardinality(batch)
  <1>6. /\ KeysOf(Requests(batch)) = 0..(n - 1)
        /\ key \in 0..(n - 1) /\ Requests(batch)[key + 1] = r
    BY <1>3, RequestsOfBatch
  <1>7. (CHOOSE k \in DOMAIN Requests(batch) : Requests(batch)[k].key = key)
          = key + 1
    BY <1>3, <1>6, PlaceOfKey
  <1> HIDE DEF n, key, r
  <1>8. /\ reply'.model = MockModel
        /\ a = [type |-> r.kind, fits |-> TRUE,
                by |-> [endpoint |-> "mock", model |-> MockModel,
                        state |-> r.state.value, criterion |-> r.criterion,
                        question |-> r.question,
                        choices |-> InOrder(r.choices), whole |-> TRUE,
                        alone |-> Len(Requests(batch)) = 1]]
    BY <1>1, <1>6, <1>7 DEF MockReply
  <1> HIDE DEF a
  <1>9. ComesFrom(a, context.provider, context.api_url)
    BY <1>4, <1>8 DEF ComesFrom
  <1>10. AnswersRow(a, i)
    BY <1>3, <1>8, <1>9, OwnRequest DEF r
  <1>11. QED
    BY <1>8, <1>10 DEF a, key

-----------------------------------------------------------------------------
(* The rows of a group, and the cache.                                     *)

\* Rows of one identity ask the same about the same bytes: an answer to one
\* is an answer to the others.
LEMMA SameGroup ==
  ASSUME NEW g, NEW i \in GroupOf(g), NEW a, AnswersRow(a, g),
         IsRequest(Rows[i])
  PROVE  AnswersRow(a, i)
  <1> DEFINE asks(k) == RequestOf(k)
             id(k) == Identity(asks(k), None)
             read(k) == ReadState(Layout, Rows[k].state)
  <1>1. id(i) = id(g)
    BY DEF GroupOf
  <1>2. \A k : /\ id(k).asked = Asked(asks(k))
               /\ id(k).state_kind = asks(k).state.kind
               /\ id(k).canonical = asks(k).state.canonical
    BY DEF Identity
  <1>3. \A k : Asked(asks(k)) = QuestionOf(Rows[k]) /\ asks(k).state = read(k)
    BY AskedOfRow DEF RequestOf
  <1> HIDE DEF asks, id, read
  <1>4. /\ QuestionOf(Rows[i]) = QuestionOf(Rows[g])
        /\ read(i).kind = read(g).kind
        /\ read(i).canonical = read(g).canonical
    BY <1>1, <1>2, <1>3
  <1>5. /\ IsAnswer(a, QuestionOf(Rows[g]), read(g).kind, read(g).canonical)
        /\ ComesFrom(a, context.provider, context.api_url)
    BY DEF AnswersRow, read
  <1>6. IsAnswer(a, QuestionOf(Rows[i]), read(i).kind, read(i).canonical)
    BY <1>4, <1>5
  <1>7. i \in Judged
    BY DEF GroupOf
  <1>8. QED
    BY <1>5, <1>6, <1>7 DEF AnswersRow, read

\* Rows keep their answers, and new ones are NULL or get theirs.
LEMMA RowsStayAnswered ==
  ASSUME RowsAnswered, UNCHANGED frozenVars,
         \A i \in DOMAIN out' :
           \/ i \in DOMAIN out /\ out'[i] = out[i] /\ (i \in hits' => i \in hits)
           \/ IsNull(Rows[i]) /\ out'[i] = {}
           \/ /\ ~IsNull(Rows[i])
              /\ \E a : /\ out'[i] = {a} /\ AnswersRow(a, i)
                        /\ i \in hits' =>
                             a.by.model = CacheModelIdentity(context)
  PROVE  RowsAnswered'
  <1>1. /\ \A a, i : AnswersRow(a, i)' = AnswersRow(a, i)
        /\ \A r : IsNull(r)' = IsNull(r)
        /\ Rows' = Rows
        /\ CacheModelIdentity(context)' = CacheModelIdentity(context)
    BY AnswerFrame
  <1>2. ASSUME NEW i \in DOMAIN out'
        PROVE  /\ out'[i] = {} <=> IsNull(Rows[i])
               /\ \A a \in out'[i] :
                    /\ AnswersRow(a, i)
                    /\ i \in hits' => a.by.model = CacheModelIdentity(context)
    <2>1. CASE i \in DOMAIN out /\ out'[i] = out[i] /\ (i \in hits' => i \in hits)
      BY <2>1 DEF RowsAnswered
    <2>2. CASE IsNull(Rows[i]) /\ out'[i] = {}
      BY <2>2
    <2>3. CASE /\ ~IsNull(Rows[i])
               /\ \E a : /\ out'[i] = {a} /\ AnswersRow(a, i)
                         /\ i \in hits' =>
                              a.by.model = CacheModelIdentity(context)
      BY <2>3
    <2>4. QED
      BY <1>2, <2>1, <2>2, <2>3
  <1>3. QED
    BY <1>1, <1>2 DEF RowsAnswered

\* What Expand does to a row.
LEMMA Expanded ==
  ASSUME NEW B, NEW answer, Expand(B, answer)
  PROVE  \A i \in DOMAIN out' :
           \/ i \in DOMAIN out /\ out'[i] = out[i]
           \/ \E g \in B : i \in Targets(g) /\ out'[i] = {answer[g]}
  <1> SUFFICES ASSUME NEW i \in DOMAIN out', i \notin DOMAIN out
               PROVE  \E g \in B : i \in Targets(g) /\ out'[i] = {answer[g]}
    BY DEF Expand
  <1> DEFINE group == CHOOSE g \in B : i \in Targets(g)
  <1>1. \E g \in B : i \in Targets(g)
    BY DEF Expand
  <1>2. group \in B /\ i \in Targets(group)
    BY <1>1
  <1>3. out'[i] = {answer[group]}
    BY DEF Expand
  <1>4. QED
    BY <1>2, <1>3

\* An identity a result may be cached under says what its row asks.
LEMMA CacheIdentityOf ==
  ASSUME NEW g, CacheIdentity(g) # None
  PROVE  LET id == CacheIdentity(g)
             read == ReadState(Layout, Rows[g].state)
         IN  /\ id.asked = QuestionOf(Rows[g])
             /\ id.state_kind = read.kind /\ id.canonical = read.canonical
             /\ id.provider = context.provider
             /\ id.endpoint = context.api_url
             /\ id.effective = CacheModelIdentity(context)
             /\ id.effective # None
  <1> DEFINE model == CacheModelIdentity(context)
             r == RequestOf(g)
             read == ReadState(Layout, Rows[g].state)
  <1>1. CacheIdentity(g) = Identity(r, model) /\ model # None
    BY DEF CacheIdentity
  <1>2. Asked(r) = QuestionOf(Rows[g]) /\ r.state = read
    BY AskedOfRow DEF RequestOf
  <1> HIDE DEF model, r, read
  <1>3. /\ Identity(r, model).asked = Asked(r)
        /\ Identity(r, model).state_kind = r.state.kind
        /\ Identity(r, model).canonical = r.state.canonical
        /\ Identity(r, model).provider = context.provider
        /\ Identity(r, model).endpoint = context.api_url
        /\ Identity(r, model).effective = model
    BY DEF Identity
  <1>4. QED
    BY <1>1, <1>2, <1>3 DEF model, read

\* Every row of a group that is in the cache gets what is cached.
LEMMA HitAnswers ==
  ASSUME WorkInv, AnswerInv, Hit
  PROVE  RowsAnswered'
  <1> DEFINE g == Min(pending)
             id == CacheIdentity(g)
             answer == [i \in {g} |-> cache[id]]
  <1>1. /\ pc = "lookup" /\ pending # {} /\ id # None /\ id \in DOMAIN cache
        /\ Expand({g}, answer) /\ hits' = hits \cup Targets(g)
        /\ UNCHANGED frozenVars
    BY DEF Hit
  <1>2. /\ g \in Judged /\ GroupOf(g) \cap DOMAIN out = {}
    BY <1>1, AtLookup
  <1>3. /\ chunk \in DOMAIN Chunks /\ Targets(g) = GroupOf(g) /\ Reading
    BY <1>1, AtChunk DEF Grouping
  <1>4. AllRequests(Judged) /\ GroupOf(g) \subseteq Judged /\ g \in GroupOf(g)
    BY <1>2, <1>3, GroupsPartition DEF WorkInv, GroupByGroup
  <1>5. /\ IsAnswer(cache[id], id.asked, id.state_kind, id.canonical)
        /\ ComesFrom(cache[id], id.provider, id.endpoint)
        /\ cache[id].by.model = id.effective
    BY <1>1 DEF AnswerInv, CacheAnswers
  <1>6. /\ AnswersRow(cache[id], g)
        /\ cache[id].by.model = CacheModelIdentity(context)
    BY <1>1, <1>2, <1>4, <1>5, CacheIdentityOf DEF AnswersRow, AllRequests
  <1>7. \A i \in DOMAIN out' :
          \/ i \in DOMAIN out /\ out'[i] = out[i]
          \/ i \in Targets(g) /\ out'[i] = {answer[g]}
    BY <1>1, Expanded
  <1>8. answer[g] = cache[id]
    OBVIOUS
  <1> HIDE DEF answer, id, g
  <1>9. ASSUME NEW i \in DOMAIN out'
        PROVE  \/ /\ i \in DOMAIN out /\ out'[i] = out[i]
                  /\ i \in hits' => i \in hits
               \/ /\ ~IsNull(Rows[i])
                  /\ \E a : /\ out'[i] = {a} /\ AnswersRow(a, i)
                            /\ i \in hits' =>
                                 a.by.model = CacheModelIdentity(context)
    <2>1. CASE i \in DOMAIN out /\ out'[i] = out[i]
      BY <1>1, <1>2, <1>3, <2>1
    <2>2. CASE i \in Targets(g) /\ out'[i] = {answer[g]}
      <3>1. i \in GroupOf(g) /\ i \in Judged
        BY <1>3, <1>4, <2>2
      <3>2. ~IsNull(Rows[i]) /\ IsRequest(Rows[i])
        BY <1>4, <3>1 DEF Judged, AllRequests
      <3>3. AnswersRow(cache[id], i)
        BY <1>6, <3>1, <3>2, SameGroup
      <3>4. QED
        BY <1>6, <1>8, <2>2, <3>2, <3>3
    <2>3. QED
      BY <1>7, <2>1, <2>2
  <1>10. QED
    BY <1>1, <1>9, RowsStayAnswered DEF AnswerInv

\* The rows of a batch get its answers.
LEMMA SettleAnswers ==
  ASSUME WorkInv, AnswerInv, Settle
  PROVE  RowsAnswered'
  <1> DEFINE answer == [i \in batch |-> reply.answers[RequestKey(batch, i)]]
  <1>1. pc = "settle" /\ hits' = hits /\ UNCHANGED frozenVars
    BY DEF Settle
  <1>2. /\ chunk \in DOMAIN Chunks /\ batch \in SUBSET Judged
        /\ \A i \in batch : IsRequest(Rows[i])
        /\ hits \subseteq DOMAIN out
        /\ InMode("row") \/ (GroupByGroup /\ Reading)
    BY <1>1, AtRequest DEF Asking
  <1>3. CASE ~Accepted(context, Requests(batch), reply)
    <2>1. out' = out
      BY <1>3 DEF Settle
    <2>2. QED
      BY <1>1, <2>1, RowsStayAnswered DEF AnswerInv
  <1>4. CASE Accepted(context, Requests(batch), reply)
    <2>1. Expand(batch, answer)
      BY <1>4 DEF Settle
    <2>2. \A i \in DOMAIN out' :
            \/ i \in DOMAIN out /\ out'[i] = out[i]
            \/ \E g \in batch : i \in Targets(g) /\ out'[i] = {answer[g]}
      BY <2>1, Expanded
    <2>3. \A g \in batch : AnswersRow(answer[g], g)
      BY <1>1, <1>4 DEF AnswerInv, ReplyAnswers
    <2> HIDE DEF answer
    <2>4. ASSUME NEW i \in DOMAIN out', i \notin DOMAIN out
          PROVE  /\ ~IsNull(Rows[i]) /\ i \notin hits'
                 /\ \E a : out'[i] = {a} /\ AnswersRow(a, i)
      <3>1. PICK g \in batch : i \in Targets(g) /\ out'[i] = {answer[g]}
        BY <2>2, <2>4
      <3>2. g \in Judged /\ IsRequest(Rows[g]) /\ AnswersRow(answer[g], g)
        BY <1>2, <2>3
      <3>3. i \notin hits'
        BY <1>1, <1>2, <2>4
      <3>4. CASE i = g
        BY <3>1, <3>2, <3>3, <3>4 DEF Judged
      <3>5. CASE i # g
        <4>1. i \in GroupOf(g) /\ ~InMode("row")
          BY <3>1, <3>5, <1>2 DEF Targets, InMode
        <4>2. AllRequests(Judged) /\ i \in Judged
          BY <1>2, <3>2, <4>1, GroupsPartition DEF GroupByGroup
        <4>3. IsRequest(Rows[i]) /\ ~IsNull(Rows[i])
          BY <4>2 DEF AllRequests, Judged
        <4>4. AnswersRow(answer[g], i)
          BY <3>2, <4>1, <4>3, SameGroup
        <4>5. QED
          BY <3>1, <3>3, <4>3, <4>4
      <3>6. QED
        BY <3>4, <3>5
    <2>5. ASSUME NEW i \in DOMAIN out'
          PROVE  \/ /\ i \in DOMAIN out /\ out'[i] = out[i]
                    /\ i \in hits' => i \in hits
                 \/ /\ ~IsNull(Rows[i])
                    /\ \E a : /\ out'[i] = {a} /\ AnswersRow(a, i)
                              /\ i \in hits' =>
                                   a.by.model = CacheModelIdentity(context)
      <3>1. CASE i \in DOMAIN out
        <4>1. out'[i] = out[i]
          BY <2>1, <3>1 DEF Expand
        <4>2. QED
          BY <1>1, <3>1, <4>1
      <3>2. CASE i \notin DOMAIN out
        BY <2>4, <3>2
      <3>3. QED
        BY <3>1, <3>2
    <2>6. QED
      BY <1>1, <2>5, RowsStayAnswered DEF AnswerInv
  <1>5. QED
    BY <1>3, <1>4

\* Keep puts the answers of a batch under identities of the rows they answer
\* and of the model that gave them.
LEMMA KeptAnswers ==
  ASSUME WorkInv, AnswerInv, Settle
  PROVE  CacheAnswers'
  <1>1. CASE cache' = cache
    BY <1>1 DEF AnswerInv, CacheAnswers, IsAnswer, ComesFrom
  <1>2. CASE cache' # cache
    <2> DEFINE kept == {i \in batch : MayKeep(i)}
               new == {CacheIdentity(i) : i \in kept}
               keeper(id) == CHOOSE i \in kept : CacheIdentity(i) = id
               answer(id) == reply.answers[RequestKey(batch, keeper(id))]
    <2>1. /\ pc = "settle" /\ Accepted(context, Requests(batch), reply)
          /\ Keep
      BY <1>2 DEF Settle
    <2>2. cache' = [id \in DOMAIN cache \cup new |->
                      IF id \in new THEN answer(id) ELSE cache[id]]
      BY <2>1 DEF Keep
    <2>3. ASSUME NEW id \in new
          PROVE  /\ IsAnswer(answer(id), id.asked, id.state_kind, id.canonical)
                 /\ ComesFrom(answer(id), id.provider, id.endpoint)
                 /\ answer(id).by.model = id.effective
      <3> DEFINE i == keeper(id)
      <3>1. i \in kept /\ CacheIdentity(i) = id
        BY <2>3
      <3> HIDE DEF i
      <3>2. i \in batch /\ CacheIdentity(i) # None /\ reply.model = id.effective
        BY <3>1 DEF MayKeep
      <3> DEFINE a == reply.answers[RequestKey(batch, i)]
                 read == ReadState(Layout, Rows[i].state)
      <3>3. AnswersRow(a, i) /\ reply.model \in {None, a.by.model}
        BY <2>1, <3>2 DEF AnswerInv, ReplyAnswers
      <3>4. /\ id.asked = QuestionOf(Rows[i])
            /\ id.state_kind = read.kind /\ id.canonical = read.canonical
            /\ id.provider = context.provider
            /\ id.endpoint = context.api_url /\ id.effective # None
        BY <3>1, <3>2, CacheIdentityOf
      <3>5. /\ IsAnswer(a, QuestionOf(Rows[i]), read.kind, read.canonical)
            /\ ComesFrom(a, context.provider, context.api_url)
        BY <3>3 DEF AnswersRow
      <3>6. a = answer(id)
        BY DEF i
      <3> HIDE DEF a, read
      <3>7. a.by.model = id.effective
        BY <3>2, <3>3, <3>4
      <3>8. /\ IsAnswer(a, id.asked, id.state_kind, id.canonical)
            /\ ComesFrom(a, id.provider, id.endpoint)
        BY <3>4, <3>5
      <3>9. QED
        BY <3>6, <3>7, <3>8
    <2> HIDE DEF new, answer
    <2>4. CacheAnswers
      BY DEF AnswerInv
    <2>5. ASSUME NEW id \in DOMAIN cache'
          PROVE  /\ IsAnswer(cache'[id], id.asked, id.state_kind, id.canonical)
                 /\ ComesFrom(cache'[id], id.provider, id.endpoint)
                 /\ cache'[id].by.model = id.effective
      <3>1. CASE id \in new
        <4>1. cache'[id] = answer(id)
          BY <2>2, <3>1
        <4>2. QED
          BY <2>3, <3>1, <4>1
      <3>2. CASE id \notin new
        <4>1. id \in DOMAIN cache /\ cache'[id] = cache[id]
          BY <2>2, <2>5, <3>2
        <4>2. QED
          BY <2>4, <4>1 DEF CacheAnswers
      <3>3. QED
        BY <3>1, <3>2
    <2>6. QED
      BY <2>5 DEF CacheAnswers, IsAnswer, ComesFrom
  <1>3. QED
    BY <1>1, <1>2

\* A step that answers no row and caches nothing, outside a request.
LEMMA AnswersStay ==
  ASSUME AnswerInv, UNCHANGED <<frozenVars, out, hits, cache>>,
         pc' \notin {"wait", "settle"}
  PROVE  AnswerInv'
  <1>1. RowsAnswered'
    BY RowsStayAnswered DEF AnswerInv
  <1>2. CacheAnswers'
    BY DEF AnswerInv, CacheAnswers, IsAnswer, ComesFrom
  <1>3. QED
    BY <1>1, <1>2 DEF AnswerInv, SentAlike, ReplyAnswers

\* Before a statement there is no answer.
LEMMA NoAnswersYet ==
  ASSUME out' = NoAnswers, pc' \notin {"wait", "settle"}, CacheAnswers'
  PROVE  AnswerInv'
  <1>1. DOMAIN out' = {}
    BY DEF NoAnswers
  <1>2. QED
    BY <1>1 DEF AnswerInv, SentAlike, ReplyAnswers, RowsAnswered

\* The answers of rows, of replies and of the cache are kept by every step.
LEMMA AnswerStep == WorkInv /\ AnswerInv /\ [Next]_vars => AnswerInv'
  <1> SUFFICES ASSUME WorkInv, AnswerInv, [Next]_vars PROVE AnswerInv'
    OBVIOUS
  <1> USE DEF Goto
  <1>1. CacheAnswers' \/ cache' # cache
    BY DEF AnswerInv, CacheAnswers, IsAnswer, ComesFrom
  <1>2. ASSUME NEW option \in DOMAIN SetValues,
               NEW value \in SetValues[option], Set(option, value)
        PROVE  AnswerInv'
    <2>1. /\ pc' = "idle" /\ UNCHANGED <<frozenVars, out, hits, cache>>
      BY <1>2 DEF Set, outVars, keptVars
    <2>2. QED
      BY <2>1, AnswersStay
  <1>3. ASSUME NEW c \in DOMAIN Chunks, Begin(c)
        PROVE  AnswerInv'
    <2>1. /\ pc' \in {"chunk", "row"} /\ out' = NoAnswers /\ cache' = cache
      BY <1>3 DEF Begin, WorkInv, AtRest, outVars, keptVars
    <2>2. QED
      BY <1>1, <2>1, NoAnswersYet
  <1>4. CASE End
    <2>1. /\ pc' = "idle" /\ out' = NoAnswers /\ cache' = cache
      BY <1>4 DEF End, keptVars
    <2>2. QED
      BY <1>1, <2>1, NoAnswersYet
  <1>5. CASE RowsDone
    <2>1. pc' = "done" /\ UNCHANGED <<frozenVars, out, hits, cache>>
      BY <1>5 DEF RowsDone, outVars, keptVars
    <2>2. QED
      BY <2>1, AnswersStay
  <1>6. CASE NullRow
    <2>1. /\ pc' = "row" /\ IsNull(Rows[row]) /\ cache' = cache
          /\ UNCHANGED frozenVars /\ hits' = hits
          /\ out' = [i \in DOMAIN out \cup {row} |->
                       IF i = row THEN {} ELSE out[i]]
      BY <1>6 DEF NullRow, keptVars
    <2>2. RowsAnswered'
      BY <2>1, RowsStayAnswered DEF AnswerInv
    <2>3. QED
      BY <1>1, <2>1, <2>2 DEF AnswerInv, SentAlike, ReplyAnswers
  <1>7. CASE EvaluateRow
    <2>1. /\ pc' \in {"send", "failed"}
          /\ UNCHANGED <<frozenVars, out, hits, cache>>
      BY <1>7 DEF EvaluateRow, outVars, keptVars
    <2>2. QED
      BY <2>1, AnswersStay
  <1>8. CASE UseCredential
    <2>1. /\ pc' = "group" /\ out' = NoAnswers
          /\ cache' = cache \/ cache' = NoAnswers
      BY <1>8 DEF UseCredential, WorkInv, AtRest, outVars, keptVars
    <2>2. CASE cache' = NoAnswers
      <3>1. DOMAIN cache' = {}
        BY <2>2 DEF NoAnswers
      <3>2. CacheAnswers'
        BY <3>1 DEF CacheAnswers
      <3>3. QED
        BY <2>1, <3>2, NoAnswersYet
    <2>3. QED
      BY <1>1, <2>1, <2>2, NoAnswersYet
  <1>9. CASE ReadChunk
    <2>1. /\ pc' \in {"lookup", "failed"} /\ cache' = cache
          /\ UNCHANGED frozenVars /\ hits' = hits
          /\ out' = out \/ out' = [i \in DOMAIN Rows \ Judged |-> {}]
      BY <1>9 DEF ReadChunk, keptVars
    <2>2. \A i \in DOMAIN Rows \ Judged : IsNull(Rows[i])
      BY DEF Judged
    <2>3. RowsAnswered'
      BY <2>1, <2>2, RowsStayAnswered DEF AnswerInv
    <2>4. QED
      BY <1>1, <2>1, <2>3 DEF AnswerInv, SentAlike, ReplyAnswers
  <1>10. CASE Hit
    <2>1. pc' = "lookup" /\ cache' = cache
      BY <1>10 DEF Hit, keptVars
    <2>2. RowsAnswered'
      BY <1>10, HitAnswers
    <2>3. QED
      BY <1>1, <2>1, <2>2 DEF AnswerInv, SentAlike, ReplyAnswers
  <1>11. CASE Miss
    <2>1. /\ pc' \in {"lookup", "send", "failed"}
          /\ UNCHANGED <<frozenVars, out, hits, cache>>
      BY <1>11 DEF Miss, outVars, keptVars
    <2>2. QED
      BY <2>1, AnswersStay
  <1>12. CASE LookedUp
    <2>1. /\ pc' \in {"done", "plan"}
          /\ UNCHANGED <<frozenVars, out, hits, cache>>
      BY <1>12 DEF LookedUp, outVars, keptVars
    <2>2. QED
      BY <2>1, AnswersStay
  <1>13. CASE NextBatch
    <2>1. /\ pc' \in {"done", "send", "failed"}
          /\ UNCHANGED <<frozenVars, out, hits, cache>>
      BY <1>13 DEF NextBatch, outVars, keptVars
    <2>2. QED
      BY <2>1, AnswersStay
  <1>14. CASE Send
    <2>1. /\ pc = "send" /\ pc' \in {"failed", "wait", "settle"}
          /\ UNCHANGED <<connectionVars, frozenVars, statement, workVars,
                         batch, out, hits, credScope, cache>>
      BY <1>14 DEF Send, outVars, keptVars
    <2>2. RowsAnswered' /\ CacheAnswers'
      BY <1>1, <2>1, RowsStayAnswered DEF AnswerInv
    <2>3. SentAlike'
      <3>1. CASE pc' = "wait"
        <4>1. MaySend(context, Requests(batch))
          BY <1>14, <3>1 DEF Send
        <4>2. Requests(batch)' = Requests(batch) /\ context' = context
          BY <2>1, <3>1, AskingGoesOn DEF Asking
        <4>3. QED
          BY <4>1, <4>2 DEF SentAlike
      <3>2. QED
        BY <3>1 DEF SentAlike
    <2>4. ReplyAnswers'
      <3>1. CASE pc' = "settle"
        BY <1>14, <3>1, MockAnswersRows
      <3>2. QED
        BY <3>1 DEF ReplyAnswers
    <2>5. QED
      BY <2>2, <2>3, <2>4 DEF AnswerInv
  <1>15. CASE Reply
    <2>1. pc' = "settle" /\ UNCHANGED <<frozenVars, out, hits, cache>>
      BY <1>15 DEF Reply, outVars, keptVars
    <2>2. RowsAnswered' /\ CacheAnswers'
      BY <1>1, <2>1, RowsStayAnswered DEF AnswerInv
    <2>3. ReplyAnswers'
      BY <1>15, ReplyAnswersRows DEF AnswerInv
    <2>4. QED
      BY <2>1, <2>2, <2>3 DEF AnswerInv, SentAlike
  <1>16. CASE Settle
    <2>1. pc' \in {"row", "plan", "lookup", "failed"}
      BY <1>16 DEF Settle
    <2>2. QED
      BY <1>16, <2>1, SettleAnswers, KeptAnswers
         DEF AnswerInv, SentAlike, ReplyAnswers
  <1>17. CASE UNCHANGED vars
    <2>1. /\ UNCHANGED <<frozenVars, statement, credScope, out, hits, cache>>
          /\ UNCHANGED <<pc, batch, wire, reply, context>>
      BY <1>17 DEF vars, frozenVars, sendVars, outVars, keptVars
    <2>2. RowsAnswered' /\ CacheAnswers'
      BY <1>1, <2>1, RowsStayAnswered DEF AnswerInv
    <2>3. Requests(batch)' = Requests(batch)
            /\ \A a, i : AnswersRow(a, i)' = AnswersRow(a, i)
      <3>1. \A B : Requests(B)' = Requests(B)
        BY <2>1, TaskFrame
      <3>2. QED
        BY <2>1, <3>1, AnswerFrame DEF Requests
    <2>4. SentAlike' /\ ReplyAnswers'
      BY <2>1, <2>3 DEF AnswerInv, SentAlike, ReplyAnswers, RequestKey
    <2>5. QED
      BY <2>2, <2>4 DEF AnswerInv
  <1>18. QED
    BY <1>2, <1>3, <1>4, <1>5, <1>6, <1>7, <1>8, <1>9, <1>10, <1>11, <1>12,
       <1>13, <1>14, <1>15, <1>16, <1>17 DEF Next

\* Replies, rows and the cache hold answers to what was asked.
LEMMA AnswerInvariant == Spec => []AnswerInv
  <1>1. Init => AnswerInv
    BY DEF Init, AnswerInv, SentAlike, ReplyAnswers, RowsAnswered,
           CacheAnswers, NoAnswers
  <1>2. QED
    BY <1>1, AnswerStep, WorkInvariant, PTL DEF Spec

-----------------------------------------------------------------------------
(* What the rows get.                                                      *)

\* Every answer a row holds was worked out, whole, from a row whose state is
\* read as the same kind and bytes, for its own question; NULL rows and no
\* others are NULL: whatever identities, batches and the cache share.
THEOREM AnswersMatchRows == Spec => []RowsAnswered
  <1>1. AnswerInv => RowsAnswered
    BY DEF AnswerInv
  <1>2. QED
    BY <1>1, AnswerInvariant, PTL

\* Texts are their own bytes: those that are read the same are the same.
LEMMA TextsAreFaithful ==
  ASSUME \A c \in DOMAIN Chunks : Chunks[c].layout.type = "VARCHAR"
  PROVE  Faithful
  <1>1. ASSUME NEW c \in DOMAIN Chunks, NEW s
        PROVE  ReadState(Chunks[c].layout, s) = EncodeText(s)
    BY DEF ReadState
  <1>2. ASSUME NEW c \in DOMAIN Chunks, NEW s
        PROVE  SaysState([t |-> "text", v |-> s], Chunks[c].layout, s)
    BY DEF SaysState
  <1>3. ASSUME NEW c \in DOMAIN Chunks, NEW d \in DOMAIN Chunks, NEW s, NEW t,
               ReadState(Chunks[c].layout, s).canonical =
                 ReadState(Chunks[d].layout, t).canonical
        PROVE  SaysState(ReadState(Chunks[c].layout, s).value,
                         Chunks[d].layout, t)
    <2>1. /\ ReadState(Chunks[c].layout, s) = EncodeText(s)
          /\ ReadState(Chunks[d].layout, t) = EncodeText(t)
      BY <1>1
    <2>2. EncodeText(s).value = [t |-> "text", v |-> t]
      BY <1>3, <2>1 DEF EncodeText
    <2>3. QED
      BY <1>2, <2>1, <2>2
  <1>4. QED
    BY <1>3 DEF Faithful

\* Every answer is to the row it stands in, and a statement that succeeds has
\* answered every row, provided that rows read as the same bytes hold the
\* same.
THEOREM RowsGetTheirs ==
  ASSUME Faithful
  PROVE  Spec => []RowsGetOwnAnswers
  <1>1. ASSUME WorkInv, AnswerInv
        PROVE  RowsGetOwnAnswers
    <2>1. pc = "done" => DOMAIN out = DOMAIN Rows
      BY <1>1 DEF WorkInv, AtRest
    <2>2. ASSUME NEW i \in DOMAIN out, NEW a \in out[i]
          PROVE  /\ a.fits /\ a.by.whole
                 /\ Concerns(a, QuestionOf(Rows[i]))
                 /\ SaysState(a.by.state, Layout, Rows[i].state)
      <3>1. AnswersRow(a, i)
        BY <1>1, <2>2 DEF AnswerInv, RowsAnswered
      <3>2. chunk \in DOMAIN Chunks
        <4>1. pc # "idle"
          BY <1>1, <2>2 DEF WorkInv, AtRest, NoAnswers
        <4>2. QED
          BY <1>1, <4>1 DEF WorkInv, Frozen
      <3> DEFINE t == Rows[i].state
                 read == ReadState(Layout, t)
      <3>3. /\ i \in DOMAIN Chunks[chunk].rows
            /\ t = Chunks[chunk].rows[i].state /\ Layout = Chunks[chunk].layout
            /\ t # Null /\ Readable(Layout, t)
        BY <3>1 DEF AnswersRow, Judged, IsNull, IsRequest, Rows, Layout
      <3>4. IsAnswer(a, QuestionOf(Rows[i]), read.kind, read.canonical)
        BY <3>1 DEF AnswersRow
      <3> HIDE DEF t, read
      <3>5. PICK c \in DOMAIN Chunks : \E j \in DOMAIN Chunks[c].rows :
              LET s == Chunks[c].rows[j].state
                  other == ReadState(Chunks[c].layout, s)
              IN  /\ s # Null /\ Readable(Chunks[c].layout, s)
                  /\ other.kind = read.kind
                  /\ other.canonical = read.canonical
                  /\ a.by.state = other.value
        BY <3>4 DEF IsAnswer
      <3>6. SaysState(a.by.state, Layout, t)
        BY <3>2, <3>3, <3>5 DEF Faithful, read
      <3>7. QED
        BY <3>4, <3>6 DEF IsAnswer, t
    <2>3. \A i \in DOMAIN out : out[i] = {} <=> IsNull(Rows[i])
      BY <1>1 DEF AnswerInv, RowsAnswered
    <2>4. QED
      BY <2>1, <2>2, <2>3 DEF RowsGetOwnAnswers
  <1>2. QED
    BY <1>1, WorkInvariant, AnswerInvariant, PTL

\* Every answer comes from the endpoint of its statement's own settings; one
\* from the cache from the very model they name, one that shared its request
\* from the model batching was verified with.
THEOREM AnswersFromService == Spec => []AnswersOfNamedService
  <1>1. AnswerInv => AnswersOfNamedService
    BY DEF AnswerInv, RowsAnswered, AnswersRow, ComesFrom,
           AnswersOfNamedService
  <1>2. QED
    BY <1>1, AnswerInvariant, PTL
=============================================================================
