---------------------------- MODULE JudgmentCache ----------------------------
(***************************************************************************)
(* judgment-core/cache.rs: the per-connection cache of validated answers,  *)
(* bounded in entries and estimated bytes, with a time to live, evicting   *)
(* the least recently used.  Every call runs under the connection's mutex  *)
(* and brings the policy of its own session settings; the instant it       *)
(* brings was read before the mutex was taken, so instants may arrive out  *)
(* of order.                                                               *)
(***************************************************************************)
EXTENDS Naturals, FiniteSets, Sequences, FiniteSetsExt, SequencesExt

CONSTANTS
  Ids,         \* cache identities
  Results,     \* validated results
  NoId,        \* a judgment without a cache identity
  Weight,      \* identity -> estimated_entry_bytes
  Policies,    \* CachePolicy values of the sessions' settings
  Skew,        \* how late a call may reach the cache after reading the time
  MaxInstant,  \* the last instant the clock can represent
  MaxClock     \* bound on the time that passes, for TLC

ASSUME CacheAssumption ==
  /\ NoId \notin Ids
  /\ Weight \in [Ids -> Nat]
  /\ Policies \subseteq [max_entries : Nat, max_bytes : Nat, ttl : Nat]
  /\ Skew \in Nat /\ MaxInstant \in Nat /\ MaxClock \in Nat
  /\ MaxClock <= MaxInstant

VARIABLES
  cache,   \* JudgmentCache: entries, lru, estimated_bytes (its counters of
           \* expirations and evictions are never read by the code)
  clock,   \* the time
  reply,   \* what the last call returned
  call     \* the instant and the policy it was made with

vars == <<cache, clock, reply, call>>

NoPolicy == [max_entries |-> 0, max_bytes |-> 0, ttl |-> 0]

Init ==
  /\ cache = [entries |-> [i \in {} |-> i], lru |-> << >>,
              estimated_bytes |-> 0]
  /\ clock = 0
  /\ reply = [op |-> "none"]
  /\ call = [now |-> 0, policy |-> NoPolicy]

-----------------------------------------------------------------------------
(* The private helpers, on a cache value c.                                *)

ValidPolicy(p) == p.max_entries > 0 /\ p.max_bytes > 0 /\ p.ttl > 0

Monus(m, n) == IF m > n THEN m - n ELSE 0

WeightOf(c, S) == MapThenSumSet(LAMBDA i : c.entries[i].bytes, S)

\* Mutant: the bytes of what is removed stay counted.
RemoveEntriesOnly(c, S) ==
  [c EXCEPT !.entries = [i \in DOMAIN @ \ S |-> @[i]]]

\* remove_entry, for a set of identities: the entries and their bytes.
RemoveEntries(c, S) ==
  LET gone == S \cap DOMAIN c.entries
  IN  [c EXCEPT !.entries = [i \in DOMAIN @ \ gone |-> @[i]],
                !.estimated_bytes = Monus(@, WeightOf(c, gone))]

\* position and VecDeque::remove, for every member of S: each that stays
\* moves up to its rank among those that stay.
Without(order, S) ==
  LET stay == {m \in DOMAIN order : order[m] \notin S}
      rank(m) == Cardinality({l \in stay : l <= m})
  IN  [n \in 1..Cardinality(stay) |->
         order[CHOOSE m \in stay : rank(m) = n]]

\* remove: from the LRU order too.
Removed(c, S) == [RemoveEntries(c, S) EXCEPT !.lru = Without(@, S)]

\* Mutant: a hit leaves the order alone.
TouchedNot(c, id) == c

\* touch.
Touched(c, id) == [c EXCEPT !.lru = Append(Without(@, {id}), id)]

\* Mutant: an entry lives through its last instant.
ExpiredLate(c, now) ==
  {i \in DOMAIN c.entries : now > c.entries[i].expires_at}

Expired(c, now) ==
  {i \in DOMAIN c.entries : now >= c.entries[i].expires_at}

PruneExpired(c, now) == Removed(c, Expired(c, now))

\* k turns of an eviction loop.
DropOldest(c, k) ==
  [RemoveEntries(c, {c.lru[i] : i \in 1..k}) EXCEPT
     !.lru = SubSeq(@, k + 1, Len(@))]

Within(c, entries, bytes) ==
  Cardinality(DOMAIN c.entries) <= entries /\ c.estimated_bytes <= bytes

\* Mutant: one turn instead of a loop.
EvictedOnce(c, entries, bytes) ==
  IF Within(c, entries, bytes) \/ c.lru = << >> THEN c ELSE DropOldest(c, 1)

\* Mutant: the loop stops one turn too late.
EvictedOneMore(c, entries, bytes) ==
  LET enough == {k \in 0..Len(c.lru) : Within(DropOldest(c, k), entries, bytes)}
  IN  DropOldest(c, IF enough = {} THEN Len(c.lru)
                    ELSE IF Min(enough) \in 1..(Len(c.lru) - 1)
                    THEN Min(enough) + 1 ELSE Min(enough))

\* An eviction loop: the front of the LRU order goes until the cache is
\* within the limits, or the order is empty.
Evicted(c, entries, bytes) ==
  LET enough == {k \in 0..Len(c.lru) : Within(DropOldest(c, k), entries, bytes)}
  IN  DropOldest(c, IF enough = {} THEN Len(c.lru) ELSE Min(enough))

\* Instant::checked_add.
Representable(now, ttl) == now + ttl <= MaxInstant

\* Mutant: the new time to live replaces the old expiry.
ReplaceTTL(c, p) ==
  [c EXCEPT !.entries = [i \in DOMAIN @ |->
     IF Representable(@[i].inserted_at, p.ttl)
     THEN [@[i] EXCEPT !.expires_at = c.entries[i].inserted_at + p.ttl]
     ELSE @[i]]]

ShorterLife(e, ttl) ==
  IF Representable(e.inserted_at, ttl)
  THEN [e EXCEPT !.expires_at = Min({@, e.inserted_at + ttl})]
  ELSE e

\* reconcile_policy for a valid policy: expiry times only move closer, then
\* the expired go, then the limits are met.
ShortenTTL(c, p) ==
  [c EXCEPT !.entries = [i \in DOMAIN @ |-> ShorterLife(@[i], p.ttl)]]

ReconcilePolicy(c, now, p) ==
  Evicted(PruneExpired(ShortenTTL(c, p), now), p.max_entries, p.max_bytes)

-----------------------------------------------------------------------------
(* The calls.                                                              *)

Instants == Monus(clock, Skew)..clock

Return(now, p, r) ==
  /\ reply' = r
  /\ call' = [now |-> now, policy |-> p]
  /\ UNCHANGED clock

\* RuntimeAdapter::cache_lookup: reconcile_policy, then lookup (whose own
\* expiry test finds nothing that prune_expired has left).
Lookup(id, now, p) ==
  LET c == IF ValidPolicy(p) THEN ReconcilePolicy(cache, now, p) ELSE cache
      hit == ValidPolicy(p) /\ id \in DOMAIN c.entries
  IN  /\ cache' = IF hit THEN Touched(c, id) ELSE c
      /\ Return(now, p, IF hit
                        THEN [op |-> "hit", id |-> id,
                              result |-> c.entries[id].result]
                        ELSE [op |-> "miss", id |-> id])

\* insert_success: an invalid policy or an expiry beyond the clock's range
\* changes nothing; an entry larger than the whole cache only removes its
\* predecessor; otherwise it is made room for and becomes the most recent.
InsertSuccess(id, result, now, p) ==
  LET r == ReconcilePolicy(cache, now, p)
      c == Removed(r, {id})
      room == Evicted(c, p.max_entries - 1, p.max_bytes - Weight[id])
      new == [result |-> result, inserted_at |-> now,
              expires_at |-> now + p.ttl, bytes |-> Weight[id]]
  IN  \/ /\ ~ValidPolicy(p) \/ ~Representable(now, p.ttl)
         /\ UNCHANGED cache
         /\ Return(now, p, [op |-> "refuse", id |-> id])
      \/ /\ ValidPolicy(p) /\ Representable(now, p.ttl)
         /\ Weight[id] > p.max_bytes
         /\ cache' = c
         /\ Return(now, p, [op |-> "refuse", id |-> id])
      \/ /\ ValidPolicy(p) /\ Representable(now, p.ttl)
         /\ Weight[id] <= p.max_bytes
         /\ cache' = [room EXCEPT
                        !.estimated_bytes = @ + Weight[id],
                        !.lru = Append(@, id),
                        !.entries = [i \in DOMAIN @ \cup {id} |->
                                       IF i = id THEN new ELSE @[i]]]
         /\ Return(now, p, [op |-> "accept", id |-> id,
                           result |-> result])

\* Mutant: the entries are counted and kept.
CacheClearKeeping(now, p) ==
  LET c == IF ValidPolicy(p) THEN ReconcilePolicy(cache, now, p) ELSE cache
  IN  /\ cache' = c
      /\ Return(now, p, [op |-> "clear",
                         count |-> Cardinality(DOMAIN c.entries)])

\* duckjeu_cache_clear(): reconcile_policy if the session's cache is on, then
\* clear, whose count is returned.
CacheClear(now, p) ==
  LET c == IF ValidPolicy(p) THEN ReconcilePolicy(cache, now, p) ELSE cache
  IN  /\ cache' = [c EXCEPT !.entries = [i \in {} |-> i], !.lru = << >>,
                            !.estimated_bytes = 0]
      /\ Return(now, p, [op |-> "clear",
                         count |-> Cardinality(DOMAIN c.entries)])

\* len.
Count(now) ==
  LET c == PruneExpired(cache, now)
  IN  /\ cache' = c
      /\ Return(now, NoPolicy, [op |-> "len",
                                count |-> Cardinality(DOMAIN c.entries)])

Tick ==
  /\ clock < MaxClock
  /\ clock' = clock + 1
  /\ UNCHANGED <<cache, reply, call>>

Next ==
  \/ \E now \in Instants, p \in Policies :
       \/ \E id \in Ids \cup {NoId} : Lookup(id, now, p)
       \/ \E id \in Ids, r \in Results : InsertSuccess(id, r, now, p)
       \/ CacheClear(now, p)
  \/ \E now \in Instants : Count(now)
  \/ Tick

Spec == Init /\ [][Next]_vars

-----------------------------------------------------------------------------
Entry == [result : Results, inserted_at : Nat, expires_at : Nat, bytes : Nat]

TypeOK ==
  /\ DOMAIN cache.entries \subseteq Ids
  /\ \A i \in DOMAIN cache.entries : cache.entries[i] \in Entry
  /\ cache.lru \in Seq(Ids)
  /\ cache.estimated_bytes \in Nat
  /\ clock \in 0..MaxClock

\* The LRU order lists every entry once, and estimated_bytes is their sum:
\* no sequence of hits, replacements, expiries and evictions lets the three
\* parts of the cache drift apart.
PartsAgree ==
  /\ IsInjective(cache.lru)
  /\ Range(cache.lru) = DOMAIN cache.entries
  /\ cache.estimated_bytes = WeightOf(cache, DOMAIN cache.entries)

\* After a lookup or an accepted insert the limits of that call's policy
\* hold, whatever the limits were before.
WithinLimits ==
  /\ reply.op \in {"hit", "miss", "accept"}
  /\ ValidPolicy(call.policy)
  => Within(cache, call.policy.max_entries, call.policy.max_bytes)

\* A hit is younger than the time to live of the session that gets it, and
\* no older entry stays behind for a later call with that policy.
HitsAreFresh ==
  reply.op = "hit" /\ Representable(call.now, call.policy.ttl) =>
    \A i \in DOMAIN cache.entries :
      call.now < cache.entries[i].inserted_at + call.policy.ttl

\* A time to live, once applied, is never taken back: without a new insert
\* no call moves an entry's expiry later.
ExpiryNeverExtended ==
  [][ reply'.op # "accept" =>
        \A i \in DOMAIN cache.entries \cap DOMAIN cache'.entries :
          cache'.entries[i].expires_at <= cache.entries[i].expires_at ]_vars

\* The entry used last is not the one evicted when another is stored, as
\* long as both fit.
MostRecentSurvives ==
  [][ /\ reply.op \in {"hit", "accept"} /\ reply'.op = "accept"
      /\ reply'.id # reply.id
      /\ call'.policy.max_entries >= 2
      /\ Weight[reply.id] + Weight[reply'.id] <= call'.policy.max_bytes
      /\ ~ (Min({cache.entries[reply.id].expires_at,
                 cache.entries[reply.id].inserted_at + call'.policy.ttl})
              <= call'.now)
      => reply.id \in DOMAIN cache'.entries ]_vars

\* The place of an identity in an order.
Before(s, i, j) ==
  \E m, n \in DOMAIN s : m < n /\ s[m] = i /\ s[n] = j

TotalWeight(S) == MapThenSumSet(LAMBDA i : Weight[i], S)

\* Nothing is evicted that could have stayed: an unexpired entry lost to a
\* lookup or to an accepted insert (both eviction loops: reconcile_policy's
\* and insert_success's own) was older in the LRU order than all that stay,
\* and with it and the younger ones lost the cache, the new entry in it,
\* would be over a limit.
EvictsOnlyWhatItMust ==
  [][ reply'.op \in {"hit", "miss", "accept"} /\ ValidPolicy(call'.policy) =>
        LET p == call'.policy
            before == PruneExpired(ShortenTTL(cache, p), call'.now)
            new == IF reply'.op = "accept" THEN {reply'.id} ELSE {}
            kept == DOMAIN cache'.entries
            lost == DOMAIN before.entries \ kept
        IN  \A i \in lost :
              /\ \A j \in kept \ new : Before(cache.lru, i, j)
              /\ \/ Cardinality(kept) >= p.max_entries
                 \/ TotalWeight(kept \cup {j \in lost :
                       j = i \/ Before(cache.lru, i, j)}) > p.max_bytes ]_vars

\* The cache is a lossy store: it forgets, but a hit is always the result
\* last accepted under that identity and not cleared since.
Abstract == INSTANCE LossyCache
              WITH store <- [i \in DOMAIN cache.entries |->
                               cache.entries[i].result]

ImplementsLossyCache == Abstract!Spec
=============================================================================
