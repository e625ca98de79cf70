------------------------- MODULE JudgmentCacheProofs -------------------------
(***************************************************************************)
(* Proofs about the result cache: its three parts agree, the limits of a   *)
(* call's policy hold after it, hits are fresh, expiry never moves later,  *)
(* eviction takes the oldest and no more than it must, and to its callers  *)
(* the cache is a store that forgets and never makes an answer up.         *)
(***************************************************************************)
EXTENDS JudgmentCache, CountingLemmas, SequenceTheorems

-----------------------------------------------------------------------------
(* Numbers and orders.                                                     *)

\* The places that stay when the members of S are taken out of an order.
Stay(order, S) == {m \in DOMAIN order : order[m] \notin S}

\* What Without leaves is what stays, each from a place of its own, in order.
LEMMA WithoutPlaces ==
  ASSUME NEW A, NEW s \in Seq(A), NEW S
  PROVE  /\ Stay(s, S) \subseteq 1..Len(s)
         /\ Cardinality(Stay(s, S)) \in Nat
         /\ \E place \in [1..Cardinality(Stay(s, S)) -> Stay(s, S)] :
              /\ Without(s, S) = [n \in 1..Cardinality(Stay(s, S)) |-> s[place[n]]]
              /\ \A m, n \in 1..Cardinality(Stay(s, S)) :
                   m < n <=> place[m] < place[n]
              /\ \A m \in Stay(s, S) : \E n \in 1..Cardinality(Stay(s, S)) :
                   place[n] = m
  <1> DEFINE T == Stay(s, S)
             N == Cardinality(T)
             place == [n \in 1..N |-> CHOOSE m \in T : RankIn(T, m) = n]
  <1>1. T \in SUBSET Nat /\ T \subseteq 1..Len(s) /\ IsFiniteSet(T)
    <2>1. DOMAIN s = 1..Len(s) /\ Len(s) \in Nat
      OBVIOUS
    <2>2. T \subseteq 1..Len(s)
      BY <2>1 DEF Stay
    <2>3. IsFiniteSet(1..Len(s))
      BY <2>1, FS_Interval
    <2>4. QED
      BY <2>2, <2>3, FS_Subset
  <1>2. Without(s, S) = [n \in 1..N |-> s[CHOOSE m \in T : RankIn(T, m) = n]]
    BY DEF Without, Stay, RankIn
  <1> HIDE DEF T
  <1>3. /\ N \in Nat
        /\ \A m \in T : RankIn(T, m) \in 1..N
        /\ \A l, m \in T : l < m => RankIn(T, l) < RankIn(T, m)
        /\ \A n \in 1..N : \E m \in T : RankIn(T, m) = n
    BY <1>1, EveryRank
  <1> HIDE DEF N
  <1>4. ASSUME NEW n \in 1..N
        PROVE  place[n] \in T /\ RankIn(T, place[n]) = n
    BY <1>3
  <1>5. Without(s, S) = [n \in 1..N |-> s[place[n]]]
    BY <1>2
  <1>6. place \in [1..N -> T]
    <2>1. \A n \in 1..N : place[n] \in T
      BY <1>4
    <2>2. DOMAIN place = 1..N /\ place = [n \in 1..N |-> place[n]]
      OBVIOUS
    <2> HIDE DEF place
    <2>3. QED
      BY <2>1, <2>2
  <1> HIDE DEF place
  <1>7. ASSUME NEW l \in T, NEW m \in T
        PROVE  /\ l < m <=> RankIn(T, l) < RankIn(T, m)
               /\ RankIn(T, l) = RankIn(T, m) => l = m
    <2>1. l \in Nat /\ m \in Nat /\ RankIn(T, l) \in Nat /\ RankIn(T, m) \in Nat
      BY <1>1, <1>3
    <2>2. l < m \/ l = m \/ m < l
      BY <2>1
    <2>3. QED
      BY <1>3, <2>1, <2>2
  <1>8. \A m, n \in 1..N : m < n <=> place[m] < place[n]
    BY <1>4, <1>7
  <1>9. \A m \in T : \E n \in 1..N : place[n] = m
    <2>1. ASSUME NEW m \in T
          PROVE  RankIn(T, m) \in 1..N /\ place[RankIn(T, m)] = m
      BY <1>3, <1>4, <1>7
    <2>2. QED
      BY <2>1
  <1>10. QED
    BY <1>1, <1>3, <1>5, <1>6, <1>8, <1>9 DEF T, N

\* What an order is without the members of S: no longer, with each identity
\* once, in the same order, and with the same last unless that one goes.
LEMMA WithoutOrder ==
  ASSUME NEW A, NEW s \in Seq(A), NEW S
  PROVE  /\ Without(s, S) \in Seq(A)
         /\ Range(Without(s, S)) = Range(s) \ S
         /\ IsInjective(s) => IsInjective(Without(s, S))
         /\ \A i, j : Before(Without(s, S), i, j) => Before(s, i, j)
         /\ Len(s) > 0 /\ s[Len(s)] \notin S =>
              /\ Len(Without(s, S)) > 0
              /\ Without(s, S)[Len(Without(s, S))] = s[Len(s)]
  <1> DEFINE T == Stay(s, S)
             N == Cardinality(T)
             w == Without(s, S)
  <1>1. /\ T \subseteq 1..Len(s) /\ N \in Nat
        /\ DOMAIN s = 1..Len(s) /\ Len(s) \in Nat
        /\ \A m \in 1..Len(s) : s[m] \in A /\ (m \in T <=> s[m] \notin S)
    <2>1. T \subseteq 1..Len(s) /\ N \in Nat
      BY WithoutPlaces
    <2>2. DOMAIN s = 1..Len(s) /\ Len(s) \in Nat
      OBVIOUS
    <2>3. ASSUME NEW m \in 1..Len(s)
          PROVE  s[m] \in A /\ (m \in T <=> s[m] \notin S)
      BY <2>2, <2>3 DEF Stay
    <2>4. QED
      BY <2>1, <2>2, <2>3
  <1>2. PICK place \in [1..N -> T] :
          /\ w = [n \in 1..N |-> s[place[n]]]
          /\ \A m, n \in 1..N : m < n <=> place[m] < place[n]
          /\ \A m \in T : \E n \in 1..N : place[n] = m
    BY WithoutPlaces, SMTT(30)
  <1> HIDE DEF T, N, w
  <1>3. /\ DOMAIN w = 1..N
        /\ \A n \in 1..N : /\ place[n] \in 1..Len(s) /\ w[n] = s[place[n]]
                           /\ w[n] \in A /\ w[n] \notin S
    <2>1. DOMAIN w = 1..N
      BY <1>2
    <2>2. ASSUME NEW n \in 1..N
          PROVE  /\ place[n] \in 1..Len(s) /\ w[n] = s[place[n]]
                 /\ w[n] \in A /\ w[n] \notin S
      <3>1. place[n] \in T /\ w[n] = s[place[n]]
        BY <1>2
      <3>2. QED
        BY <1>1, <3>1
    <2>3. QED
      BY <2>1, <2>2
  <1>4. w \in Seq(A) /\ Len(w) = N
    BY <1>1, <1>2, <1>3
  <1>5. Range(w) = Range(s) \ S
    <2>1. ASSUME NEW x \in Range(w) PROVE x \in Range(s) \ S
      BY <1>1, <1>3, <2>1 DEF Range
    <2>2. ASSUME NEW x \in Range(s) \ S PROVE x \in Range(w)
      <3>1. PICK m \in DOMAIN s : x = s[m]
        BY <2>2 DEF Range
      <3>2. m \in T
        BY <1>1, <2>2, <3>1
      <3>3. PICK n \in 1..N : place[n] = m
        BY <1>2, <3>2
      <3>4. QED
        BY <1>3, <3>1, <3>3 DEF Range
    <2>3. QED
      BY <2>1, <2>2
  <1>6. IsInjective(s) => IsInjective(w)
    <2>1. SUFFICES ASSUME IsInjective(s), NEW m \in 1..N, NEW n \in 1..N,
                          w[m] = w[n]
                   PROVE  m = n
      BY <1>3 DEF IsInjective
    <2>2. place[m] = place[n]
      BY <1>1, <1>3, <2>1 DEF IsInjective
    <2>3. ~(m < n) /\ ~(n < m)
      BY <1>1, <1>2, <1>3, <2>2
    <2>4. QED
      BY <1>1, <2>3
  <1>7. ASSUME NEW i, NEW j, Before(w, i, j)
        PROVE  Before(s, i, j)
    <2>1. PICK m \in 1..N, n \in 1..N : m < n /\ w[m] = i /\ w[n] = j
      BY <1>3, <1>7 DEF Before
    <2>2. /\ place[m] \in DOMAIN s /\ place[n] \in DOMAIN s
          /\ place[m] < place[n] /\ s[place[m]] = i /\ s[place[n]] = j
      BY <1>1, <1>2, <1>3, <2>1
    <2>3. QED
      BY <2>2 DEF Before
  <1>8. ASSUME Len(s) > 0, s[Len(s)] \notin S
        PROVE  Len(w) > 0 /\ w[Len(w)] = s[Len(s)]
    <2>1. Len(s) \in T
      BY <1>1, <1>8
    <2>2. PICK n \in 1..N : place[n] = Len(s)
      BY <1>2, <2>1
    <2>3. N \in 1..N /\ place[N] \in 1..Len(s)
      BY <1>1, <1>3, <2>2
    <2>4. ~(n < N)
      BY <1>1, <1>2, <2>2, <2>3
    <2>5. n = N
      BY <1>1, <2>2, <2>4
    <2>6. QED
      BY <1>1, <1>3, <1>4, <2>2, <2>3, <2>5
  <1>9. QED
    BY <1>4, <1>5, <1>6, <1>7, <1>8 DEF w

-----------------------------------------------------------------------------
(* Cache values.                                                           *)

\* The fields of a cache and its entries, whose bytes are their identity's.
Shaped(c) ==
  /\ DOMAIN c = {"entries", "lru", "estimated_bytes"}
  /\ c.entries = [i \in DOMAIN c.entries |-> c.entries[i]]
  /\ DOMAIN c.entries \subseteq Ids /\ IsFiniteSet(DOMAIN c.entries)
  /\ \A i \in DOMAIN c.entries :
       c.entries[i] \in Entry /\ c.entries[i].bytes = Weight[i]

\* The order lists every entry once.
Ordered(c) ==
  /\ c.lru \in Seq(Ids) /\ IsInjective(c.lru)
  /\ Range(c.lru) = DOMAIN c.entries

\* The three parts agree.
Sound(c) ==
  /\ Shaped(c) /\ Ordered(c)
  /\ c.estimated_bytes = Total(Weight, DOMAIN c.entries)

\* The estimate of a set of entries is the sum of their weights.
LEMMA WeightIsTotal ==
  ASSUME NEW c, Shaped(c), NEW S \in SUBSET DOMAIN c.entries
  PROVE  WeightOf(c, S) = Total(Weight, S)
  <1> DEFINE Counts(t) ==
        t = [s \in SUBSET S |->
               IF s = {} THEN 0
               ELSE c.entries[Next1(s)].bytes + t[s \ {Next1(s)}]]
  <1>1. WeightOf(c, S) = (CHOOSE t : Counts(t))[S]
    BY DEF WeightOf, MapThenSumSet, MapThenFoldSet, Next1
  <1>2. ASSUME NEW t
        PROVE  Counts(t) <=> Adds(Weight, S, t)
    <2>1. \A s \in SUBSET S : s # {} =>
            c.entries[Next1(s)].bytes = Weight[Next1(s)]
      BY TakeOne DEF Shaped
    <2>2. [s \in SUBSET S |->
             IF s = {} THEN 0
             ELSE c.entries[Next1(s)].bytes + t[s \ {Next1(s)}]]
          = [s \in SUBSET S |->
               IF s = {} THEN 0 ELSE Weight[Next1(s)] + t[s \ {Next1(s)}]]
      BY <2>1
    <2>3. QED
      BY <2>2 DEF Adds
  <1>3. IsFiniteSet(S)
    BY FS_Subset DEF Shaped
  <1>4. \E t : Counts(t)
    BY <1>2, <1>3, SumsExist
  <1> DEFINE u == CHOOSE t : Counts(t)
  <1>5. Counts(u)
    BY <1>4
  <1> HIDE DEF u, Counts
  <1>6. Adds(Weight, S, u)
    BY <1>2, <1>5
  <1>7. u[S] = Total(Weight, S)
    <2>1. S \in SUBSET S
      OBVIOUS
    <2>2. QED
      BY <1>3, <1>6, <2>1, TotalOf, ZenonT(60)
  <1>8. QED
    BY <1>1, <1>7 DEF u

\* Weights are natural numbers, and so are their sums; a sum falls when the
\* set shrinks.
LEMMA Weights ==
  ASSUME NEW S \in SUBSET Ids, IsFiniteSet(S), NEW T \in SUBSET S
  PROVE  /\ Total(Weight, S) \in Nat /\ Total(Weight, T) \in Nat
         /\ Total(Weight, S) = Total(Weight, T) + Total(Weight, S \ T)
         /\ Total(Weight, S \ T) \in Nat
         /\ Total(Weight, T) <= Total(Weight, S)
  <1>1. \A x \in S : Weight[x] \in Nat
    BY CacheAssumption
  <1>2. /\ Total(Weight, S) = Total(Weight, T) + Total(Weight, S \ T)
        /\ Total(Weight, T) \in Nat /\ Total(Weight, S \ T) \in Nat
    BY <1>1, TotalSplit
  <1> DEFINE a == Total(Weight, S)
             b == Total(Weight, T)
             d == Total(Weight, S \ T)
  <1>3. a = b + d /\ b \in Nat /\ d \in Nat
    BY <1>2
  <1> HIDE DEF a, b, d
  <1>4. a \in Nat /\ b <= a
    BY <1>3
  <1>5. QED
    BY <1>2, <1>4 DEF a, b, d

\* remove_entry takes the entries and exactly their bytes.
LEMMA EntriesRemoved ==
  ASSUME NEW c, Sound(c), NEW S
  PROVE  LET d == RemoveEntries(c, S)
         IN  /\ DOMAIN d = {"entries", "lru", "estimated_bytes"}
             /\ d.lru = c.lru
             /\ d.entries = [i \in DOMAIN c.entries \ S |-> c.entries[i]]
             /\ d.estimated_bytes = Total(Weight, DOMAIN c.entries \ S)
  <1> DEFINE E == DOMAIN c.entries
             gone == S \cap E
             d == RemoveEntries(c, S)
             n == Total(Weight, E)
             g == Total(Weight, gone)
             r == Total(Weight, E \ gone)
  <1>1. /\ d = [c EXCEPT !.entries = [i \in DOMAIN @ \ gone |-> @[i]],
                         !.estimated_bytes = Monus(@, WeightOf(c, gone))]
        /\ DOMAIN c = {"entries", "lru", "estimated_bytes"}
        /\ E \ gone = E \ S
    BY DEF RemoveEntries, Sound, Shaped
  <1>2. WeightOf(c, gone) = g
    BY WeightIsTotal DEF Sound
  <1>3. n \in Nat /\ g \in Nat /\ r \in Nat /\ n = g + r
    BY Weights DEF Sound, Shaped
  <1>4. c.estimated_bytes = n
    BY DEF Sound
  <1> HIDE DEF n, g, r
  <1>5. Monus(c.estimated_bytes, WeightOf(c, gone)) = r
    BY <1>2, <1>3, <1>4 DEF Monus
  <1>6. r = Total(Weight, E \ S)
    BY <1>1 DEF r
  <1> HIDE DEF d, gone
  <1>7. /\ DOMAIN d = {"entries", "lru", "estimated_bytes"}
        /\ d.lru = c.lru
        /\ d.entries = [i \in E \ gone |-> c.entries[i]]
        /\ d.estimated_bytes = Monus(c.estimated_bytes, WeightOf(c, gone))
    BY <1>1
  <1>8. QED
    BY <1>1, <1>5, <1>6, <1>7 DEF d

\* What stays of a cache is as it was, or expires sooner.
Keeps(c, d) ==
  /\ DOMAIN d.entries \subseteq DOMAIN c.entries
  /\ \A i \in DOMAIN d.entries :
       /\ d.entries[i].result = c.entries[i].result
       /\ d.entries[i].inserted_at = c.entries[i].inserted_at
       /\ d.entries[i].expires_at <= c.entries[i].expires_at

\* What becomes of a cache that only forgets: what stays is in its old order.
Forgets(c, d) ==
  /\ Keeps(c, d)
  /\ \A i, j : Before(d.lru, i, j) => Before(c.lru, i, j)

\* Forgetting twice is forgetting.
LEMMA ForgetsMore ==
  ASSUME NEW b, Sound(b), NEW c, Sound(c), NEW d, Sound(d),
         Forgets(b, c), Forgets(c, d)
  PROVE  Forgets(b, d)
  <1>1. DOMAIN d.entries \subseteq DOMAIN b.entries
    BY DEF Forgets, Keeps
  <1>2. ASSUME NEW i \in DOMAIN d.entries
        PROVE  /\ d.entries[i].result = b.entries[i].result
               /\ d.entries[i].inserted_at = b.entries[i].inserted_at
               /\ d.entries[i].expires_at <= b.entries[i].expires_at
    <2>1. i \in DOMAIN c.entries /\ i \in DOMAIN b.entries
      BY <1>2 DEF Forgets, Keeps
    <2>2. /\ d.entries[i].expires_at \in Nat
          /\ c.entries[i].expires_at \in Nat
          /\ b.entries[i].expires_at \in Nat
      BY <1>2, <2>1 DEF Sound, Shaped, Entry
    <2>3. /\ d.entries[i].expires_at <= c.entries[i].expires_at
          /\ c.entries[i].expires_at <= b.entries[i].expires_at
      BY <1>2, <2>1 DEF Forgets, Keeps
    <2>4. d.entries[i].expires_at <= b.entries[i].expires_at
      BY <2>2, <2>3
    <2>5. QED
      BY <1>2, <2>1, <2>4 DEF Forgets, Keeps
  <1>3. \A i, j : Before(d.lru, i, j) => Before(b.lru, i, j)
    BY DEF Forgets, Keeps
  <1>4. QED
    BY <1>1, <1>2, <1>3 DEF Forgets, Keeps

\* A cache with fewer of the same entries and an order of what is left.
LEMMA PartIsSound ==
  ASSUME NEW c, Sound(c), NEW d, NEW S \in SUBSET DOMAIN c.entries,
         DOMAIN d = {"entries", "lru", "estimated_bytes"},
         d.entries = [i \in S |-> c.entries[i]],
         d.estimated_bytes = Total(Weight, S),
         d.lru \in Seq(Ids), IsInjective(d.lru), Range(d.lru) = S,
         \A i, j : Before(d.lru, i, j) => Before(c.lru, i, j)
  PROVE  Sound(d) /\ Forgets(c, d)
  <1>1. DOMAIN d.entries = S /\ \A i \in S : d.entries[i] = c.entries[i]
    OBVIOUS
  <1>2. S \subseteq Ids /\ IsFiniteSet(S)
    BY FS_Subset DEF Sound, Shaped
  <1>3. \A i \in S : /\ c.entries[i] \in Entry
                     /\ c.entries[i].bytes = Weight[i]
    BY DEF Sound, Shaped
  <1>4. Shaped(d)
    BY <1>1, <1>2, <1>3 DEF Shaped
  <1>5. Sound(d)
    BY <1>1, <1>4 DEF Sound, Ordered
  <1>6. ASSUME NEW i \in S
        PROVE  d.entries[i].expires_at <= c.entries[i].expires_at
    <2>1. c.entries[i].expires_at \in Nat
      BY <1>3 DEF Entry
    <2>2. QED
      BY <1>1, <2>1
  <1>7. QED
    BY <1>1, <1>5, <1>6 DEF Forgets, Keeps

\* remove: the identities go from all three parts.
LEMMA RemovedSound ==
  ASSUME NEW c, Sound(c), NEW S
  PROVE  /\ Sound(Removed(c, S)) /\ Forgets(c, Removed(c, S))
         /\ Removed(c, S).entries =
              [i \in DOMAIN c.entries \ S |-> c.entries[i]]
         /\ Removed(c, S).lru = Without(c.lru, S)
  <1> DEFINE d == RemoveEntries(c, S)
             e == Removed(c, S)
  <1>1. /\ DOMAIN d = {"entries", "lru", "estimated_bytes"}
        /\ d.lru = c.lru
        /\ d.entries = [i \in DOMAIN c.entries \ S |-> c.entries[i]]
        /\ d.estimated_bytes = Total(Weight, DOMAIN c.entries \ S)
    BY EntriesRemoved
  <1>2. e = [d EXCEPT !.lru = Without(d.lru, S)]
    BY DEF Removed
  <1> HIDE DEF d, e
  <1>3. /\ DOMAIN e = {"entries", "lru", "estimated_bytes"}
        /\ e.lru = Without(c.lru, S)
        /\ e.entries = [i \in DOMAIN c.entries \ S |-> c.entries[i]]
        /\ e.estimated_bytes = Total(Weight, DOMAIN c.entries \ S)
    BY <1>1, <1>2
  <1>4. /\ c.lru \in Seq(Ids) /\ IsInjective(c.lru)
        /\ Range(c.lru) = DOMAIN c.entries
    BY DEF Sound, Ordered
  <1>5. /\ e.lru \in Seq(Ids) /\ IsInjective(e.lru)
        /\ Range(e.lru) = DOMAIN c.entries \ S
        /\ \A i, j : Before(e.lru, i, j) => Before(c.lru, i, j)
    BY <1>3, <1>4, WithoutOrder
  <1>6. Sound(e) /\ Forgets(c, e)
    BY <1>3, <1>5, PartIsSound
  <1>7. QED
    BY <1>3, <1>6 DEF e

\* The k in front of an order, what is behind them, and who is there.
Oldest(s, k) == {s[m] : m \in 1..k}
Rest(s, k) == SubSeq(s, k + 1, Len(s))
Younger(s, k) == {s[m] : m \in (k + 1)..Len(s)}

\* The rest of an order lists what is not in front, in the same order.
LEMMA FrontAndRest ==
  ASSUME NEW A, NEW s \in Seq(A), IsInjective(s), NEW k \in 0..Len(s)
  PROVE  /\ Rest(s, k) \in Seq(A) /\ IsInjective(Rest(s, k))
         /\ Len(Rest(s, k)) = Len(s) - k
         /\ \A n \in 1..Len(Rest(s, k)) : Rest(s, k)[n] = s[n + k]
         /\ Range(Rest(s, k)) = Range(s) \ Oldest(s, k)
         /\ Range(Rest(s, k)) = Younger(s, k)
         /\ \A i, j : Before(Rest(s, k), i, j) => Before(s, i, j)
  <1> DEFINE r == Rest(s, k)
  <1>1. /\ DOMAIN s = 1..Len(s) /\ Len(s) \in Nat /\ k \in Nat
        /\ \A m \in 1..Len(s) : s[m] \in A
    OBVIOUS
  <1>2. /\ r \in Seq(A) /\ Len(r) = Len(s) - k /\ DOMAIN r = 1..Len(r)
        /\ \A n \in 1..Len(r) : r[n] = s[n + k]
    <2>1. k + 1 \in Int /\ Len(s) \in Int /\ \A m \in (k + 1)..Len(s) : s[m] \in A
      BY <1>1
    <2>2. /\ r \in Seq(A)
          /\ Len(r) = IF k + 1 <= Len(s) THEN Len(s) - (k + 1) + 1 ELSE 0
          /\ \A n \in 1..(Len(s) - (k + 1) + 1) : r[n] = s[(k + 1) + n - 1]
      BY <2>1, SubSeqProperties DEF Rest
    <2> HIDE DEF r
    <2>3. DOMAIN r = 1..Len(r)
      BY <2>2
    <2> DEFINE L == Len(s)
    <2>4. L \in Nat /\ k \in Nat /\ k <= L
      BY <1>1
    <2> HIDE DEF L
    <2>5. /\ (IF k + 1 <= L THEN L - (k + 1) + 1 ELSE 0) = L - k
          /\ L - (k + 1) + 1 = L - k
      BY <2>4, SMTT(40)
    <2>6. Len(r) = L - k
      BY <2>2, <2>5, ZenonT(60) DEF L
    <2>7. \A n \in 1..(L - k) : r[n] = s[(k + 1) + n - 1]
      BY <2>2, <2>5 DEF L
    <2>8. \A n \in 1..(L - k) : (k + 1) + n - 1 = n + k
      BY <2>4
    <2>9. \A n \in 1..Len(r) : r[n] = s[n + k]
      BY <2>6, <2>7, <2>8
    <2>10. QED
      BY <2>2, <2>3, <2>6, <2>9 DEF L
  <1> HIDE DEF r
  <1>3. /\ Len(r) \in Nat
        /\ \A n \in 1..Len(r) : n + k \in (k + 1)..Len(s)
        /\ \A m \in (k + 1)..Len(s) : m - k \in 1..Len(r) /\ (m - k) + k = m
    BY <1>1, <1>2
  <1>4. IsInjective(r)
    <2>1. SUFFICES ASSUME NEW m \in 1..Len(r), NEW n \in 1..Len(r),
                          r[m] = r[n]
                   PROVE  m = n
      BY <1>2 DEF IsInjective
    <2>2. s[m + k] = s[n + k] /\ m + k \in 1..Len(s) /\ n + k \in 1..Len(s)
      BY <1>1, <1>2, <1>3, <2>1
    <2>3. m + k = n + k
      BY <1>1, <2>2 DEF IsInjective
    <2>4. QED
      BY <1>1, <2>3
  <1>5. Range(r) = {s[m] : m \in (k + 1)..Len(s)}
    <2>1. ASSUME NEW x \in Range(r)
          PROVE  x \in {s[m] : m \in (k + 1)..Len(s)}
      <3>1. PICK n \in 1..Len(r) : x = r[n]
        BY <1>2, <2>1 DEF Range
      <3>2. QED
        BY <1>2, <1>3, <3>1
    <2>2. ASSUME NEW m \in (k + 1)..Len(s)
          PROVE  s[m] \in Range(r)
      <3>1. r[m - k] = s[m] /\ m - k \in DOMAIN r
        BY <1>2, <1>3, <2>2
      <3>2. QED
        BY <3>1 DEF Range
    <2>3. QED
      BY <2>1, <2>2
  <1>6. {s[m] : m \in (k + 1)..Len(s)} = Range(s) \ {s[m] : m \in 1..k}
    <2>1. ASSUME NEW m \in (k + 1)..Len(s)
          PROVE  s[m] \in Range(s) \ {s[n] : n \in 1..k}
      <3>1. m \in DOMAIN s /\ \A n \in 1..k : n \in DOMAIN s /\ n # m
        BY <1>1, <2>1
      <3>2. \A n \in 1..k : s[n] # s[m]
        BY <3>1 DEF IsInjective
      <3>3. QED
        BY <3>1, <3>2 DEF Range
    <2>2. ASSUME NEW x \in Range(s) \ {s[n] : n \in 1..k}
          PROVE  x \in {s[m] : m \in (k + 1)..Len(s)}
      <3>1. PICK m \in DOMAIN s : x = s[m]
        BY <2>2 DEF Range
      <3>2. m \notin 1..k
        BY <2>2, <3>1
      <3>3. m \in (k + 1)..Len(s)
        BY <1>1, <3>1, <3>2
      <3>4. QED
        BY <3>1, <3>3
    <2>3. QED
      BY <2>1, <2>2
  <1>7. ASSUME NEW i, NEW j, Before(r, i, j)
        PROVE  Before(s, i, j)
    <2>1. PICK m \in 1..Len(r), n \in 1..Len(r) :
            m < n /\ r[m] = i /\ r[n] = j
      BY <1>2, <1>7 DEF Before
    <2>2. /\ m + k \in DOMAIN s /\ n + k \in DOMAIN s /\ m + k < n + k
          /\ s[m + k] = i /\ s[n + k] = j
      BY <1>1, <1>2, <1>3, <2>1
    <2>3. QED
      BY <2>2 DEF Before
  <1>8. QED
    BY <1>2, <1>4, <1>5, <1>6, <1>7 DEF r, Oldest, Younger

\* A cache after the k oldest entries have gone.
LEMMA OldestDropped ==
  ASSUME NEW c, Sound(c), NEW k \in 0..Len(c.lru)
  PROVE  LET d == DropOldest(c, k)
         IN  /\ Sound(d) /\ Forgets(c, d)
             /\ d.lru = Rest(c.lru, k)
             /\ DOMAIN d.entries = Younger(c.lru, k)
             /\ DOMAIN d.entries = DOMAIN c.entries \ Oldest(c.lru, k)
             /\ \A i \in DOMAIN d.entries : d.entries[i] = c.entries[i]
  <1> DEFINE F == Oldest(c.lru, k)
             r == Rest(c.lru, k)
             b == RemoveEntries(c, F)
             d == DropOldest(c, k)
  <1>1. /\ c.lru \in Seq(Ids) /\ IsInjective(c.lru)
        /\ Range(c.lru) = DOMAIN c.entries
    BY DEF Sound, Ordered
  <1>2. /\ DOMAIN b = {"entries", "lru", "estimated_bytes"}
        /\ b.lru = c.lru
        /\ b.entries = [i \in DOMAIN c.entries \ F |-> c.entries[i]]
        /\ b.estimated_bytes = Total(Weight, DOMAIN c.entries \ F)
    BY EntriesRemoved
  <1>3. d = [b EXCEPT !.lru = Rest(b.lru, k)]
    BY DEF DropOldest, Rest, Oldest
  <1>4. /\ r \in Seq(Ids) /\ IsInjective(r) /\ Range(r) = DOMAIN c.entries \ F
        /\ Range(r) = Younger(c.lru, k)
        /\ \A i, j : Before(r, i, j) => Before(c.lru, i, j)
    <2>1. /\ r \in Seq(Ids) /\ IsInjective(r)
          /\ Range(r) = Range(c.lru) \ F
          /\ Range(r) = Younger(c.lru, k)
          /\ \A i, j : Before(r, i, j) => Before(c.lru, i, j)
      BY <1>1, FrontAndRest
    <2> HIDE DEF r, F
    <2>2. QED
      BY <1>1, <2>1
  <1> HIDE DEF b, d, F, r
  <1>5. /\ DOMAIN d = {"entries", "lru", "estimated_bytes"}
        /\ d.entries = [i \in DOMAIN c.entries \ F |-> c.entries[i]]
        /\ d.estimated_bytes = Total(Weight, DOMAIN c.entries \ F)
    BY <1>2, <1>3
  <1>6. d.lru = r
    BY <1>2, <1>3 DEF r
  <1>7. Sound(d) /\ Forgets(c, d)
    BY <1>4, <1>5, <1>6, PartIsSound
  <1>8. /\ DOMAIN d.entries = DOMAIN c.entries \ F
        /\ \A i \in DOMAIN d.entries : d.entries[i] = c.entries[i]
    BY <1>5
  <1>9. QED
    BY <1>4, <1>6, <1>7, <1>8 DEF d, F, r

\* An eviction loop runs for the first number of turns that is enough.
LEMMA EvictedIs ==
  ASSUME NEW c, Sound(c), NEW e \in Nat, NEW b \in Nat
  PROVE  \E k \in 0..Len(c.lru) :
           /\ Evicted(c, e, b) = DropOldest(c, k)
           /\ Within(DropOldest(c, k), e, b)
           /\ \A j \in 0..Len(c.lru) : j < k => ~Within(DropOldest(c, j), e, b)
  <1> DEFINE L == Len(c.lru)
             enough == {k \in 0..L : Within(DropOldest(c, k), e, b)}
  <1>1. L \in Nat
    BY DEF Sound, Ordered
  <1>2. Within(DropOldest(c, L), e, b)
    <2>1. L \in 0..L /\ \A m \in (L + 1)..L : FALSE
      BY <1>1
    <2>2. /\ Sound(DropOldest(c, L))
          /\ DOMAIN DropOldest(c, L).entries = Younger(c.lru, L)
      BY <2>1, OldestDropped
    <2>3. DOMAIN DropOldest(c, L).entries = {}
      BY <2>1, <2>2 DEF Younger
    <2>4. /\ Cardinality({}) = 0 /\ IsFiniteSet({}) /\ Total(Weight, {}) = 0
      BY FS_EmptySet, TotalTakes
    <2>5. DropOldest(c, L).estimated_bytes = 0
      BY <2>2, <2>3, <2>4 DEF Sound
    <2>6. QED
      BY <2>3, <2>4, <2>5 DEF Within
  <1>3. L \in enough /\ enough \in SUBSET Nat
    BY <1>1, <1>2
  <1>4. Evicted(c, e, b) = DropOldest(c, IF enough = {} THEN L ELSE Min(enough))
    BY DEF Evicted
  <1>5. Min(enough) \in enough /\ \A n \in enough : Min(enough) <= n
    <2> HIDE DEF enough
    <2>1. QED
      BY <1>3, SmallestNumber
  <1>6. \A j \in 0..L : j < Min(enough) => ~Within(DropOldest(c, j), e, b)
    <2>1. SUFFICES ASSUME NEW j \in 0..L, j < Min(enough), j \in enough
                   PROVE  FALSE
      OBVIOUS
    <2>2. Min(enough) <= j /\ Min(enough) \in Nat /\ j \in Nat
      BY <1>3, <1>5, <2>1
    <2>3. QED
      BY <2>1, <2>2
  <1>7. QED
    BY <1>3, <1>4, <1>5, <1>6

\* An eviction forgets, keeps what it keeps as it was, and ends within the
\* limits; an entry used last and alone within them survives.
LEMMA EvictedSound ==
  ASSUME NEW c, Sound(c), NEW e \in Nat, NEW b \in Nat
  PROVE  LET d == Evicted(c, e, b)
         IN  /\ Sound(d) /\ Forgets(c, d) /\ Within(d, e, b)
             /\ \A i \in DOMAIN d.entries : d.entries[i] = c.entries[i]
             /\ Len(c.lru) > 0 /\ e > 0 /\ Weight[c.lru[Len(c.lru)]] <= b =>
                  Len(d.lru) > 0 /\ d.lru[Len(d.lru)] = c.lru[Len(c.lru)]
  <1> DEFINE L == Len(c.lru)
             d == Evicted(c, e, b)
             last == c.lru[L]
  <1>1. PICK k \in 0..L :
          /\ d = DropOldest(c, k)
          /\ Within(DropOldest(c, k), e, b)
          /\ \A j \in 0..L : j < k => ~Within(DropOldest(c, j), e, b)
    BY EvictedIs
  <1>2. /\ Sound(d) /\ Forgets(c, d)
        /\ \A i \in DOMAIN d.entries : d.entries[i] = c.entries[i]
        /\ d.lru = Rest(c.lru, k)
    <2> DEFINE x == DropOldest(c, k)
    <2>1. /\ Sound(x) /\ Forgets(c, x)
          /\ \A i \in DOMAIN x.entries : x.entries[i] = c.entries[i]
          /\ x.lru = Rest(c.lru, k)
      BY OldestDropped
    <2>2. d = x
      BY <1>1
    <2> HIDE DEF d, x
    <2>3. QED
      BY <2>1, <2>2
  <1>3. Within(d, e, b)
    BY <1>1
  <1>4. /\ c.lru \in Seq(Ids) /\ IsInjective(c.lru) /\ L \in Nat
    BY DEF Sound, Ordered
  <1>5. ASSUME L > 0, e > 0, Weight[last] <= b
        PROVE  k < L
    <2>1. SUFFICES ASSUME k = L PROVE FALSE
      BY <1>4
    <2>2. L - 1 \in 0..L /\ L - 1 < k /\ (L - 1) + 1 = L
      BY <1>4, <1>5, <2>1
    <2> DEFINE x == DropOldest(c, L - 1)
    <2>3. /\ Sound(x)
          /\ DOMAIN x.entries = Younger(c.lru, L - 1)
      BY <2>2, OldestDropped
    <2>4. \A m \in ((L - 1) + 1)..Len(c.lru) : m = L
      BY <1>4, <2>2
    <2>5. L \in ((L - 1) + 1)..Len(c.lru)
      BY <1>4, <2>2
    <2>6. DOMAIN x.entries = {last}
      BY <2>3, <2>4, <2>5 DEF Younger
    <2>7. Cardinality({last}) = 1
      BY FS_Singleton
    <2>8. Total(Weight, {last}) = Weight[last]
      <3>1. last \in Ids /\ Weight[last] \in Nat
        BY <1>4, <1>5, CacheAssumption
      <3>2. IsFiniteSet({last}) /\ {last} \ {last} = {} /\ IsFiniteSet({})
        BY FS_Singleton, FS_EmptySet
      <3>3. Total(Weight, {last}) = Weight[last] + Total(Weight, {})
        BY <3>1, <3>2, TotalRemove
      <3>4. Total(Weight, {}) = 0
        BY <3>2, TotalTakes
      <3>5. QED
        BY <3>1, <3>3, <3>4
    <2>9. x.estimated_bytes = Weight[last]
      BY <2>3, <2>6, <2>8 DEF Sound
    <2>10. Within(x, e, b)
      <3>1. 1 <= e
        BY <1>5
      <3>2. QED
        BY <1>5, <2>6, <2>7, <2>9, <3>1 DEF Within
    <2>11. QED
      BY <1>1, <2>2, <2>10
  <1>6. ASSUME L > 0, k < L
        PROVE  Len(d.lru) > 0 /\ d.lru[Len(d.lru)] = last
    <2> DEFINE r == Rest(c.lru, k)
    <2>0. /\ Len(r) = Len(c.lru) - k
          /\ \A n \in 1..Len(r) : r[n] = c.lru[n + k]
      BY <1>4, FrontAndRest
    <2>1. /\ Len(d.lru) = L - k
          /\ \A n \in 1..Len(d.lru) : d.lru[n] = c.lru[n + k]
      <3> HIDE DEF r, d
      <3>1. d.lru = r
        BY <1>2 DEF r
      <3>2. QED
        BY <2>0, <3>1
    <2>2. /\ Len(d.lru) > 0 /\ Len(d.lru) \in 1..Len(d.lru)
          /\ Len(d.lru) + k = L
      BY <1>4, <1>6, <2>1
    <2>3. QED
      BY <2>1, <2>2
  <1>7. QED
    BY <1>2, <1>3, <1>5, <1>6

\* A policy's time to live moves expiry times closer, to no later than its
\* own where the clock can represent that, and changes nothing else.
LEMMA Shortened ==
  ASSUME NEW c, Sound(c), NEW p, p.ttl \in Nat
  PROVE  LET d == ShortenTTL(c, p)
         IN  /\ Sound(d) /\ Forgets(c, d)
             /\ d.lru = c.lru /\ DOMAIN d.entries = DOMAIN c.entries
             /\ \A i \in DOMAIN d.entries :
                  IF Representable(c.entries[i].inserted_at, p.ttl)
                  THEN d.entries[i].expires_at =
                         Min({c.entries[i].expires_at,
                              c.entries[i].inserted_at + p.ttl})
                  ELSE d.entries[i] = c.entries[i]
  <1> DEFINE d == ShortenTTL(c, p)
             E == DOMAIN c.entries
             new(i) == ShorterLife(c.entries[i], p.ttl)
  <1>1. /\ DOMAIN c = {"entries", "lru", "estimated_bytes"}
        /\ E \subseteq Ids /\ IsFiniteSet(E)
        /\ \A i \in E : c.entries[i] \in Entry /\ c.entries[i].bytes = Weight[i]
    BY DEF Sound, Shaped
  <1>2. d = [c EXCEPT !.entries = [i \in E |-> new(i)]]
    BY DEF ShortenTTL
  <1>3. ASSUME NEW i \in E
        PROVE  /\ new(i) \in Entry /\ new(i).bytes = Weight[i]
               /\ new(i).result = c.entries[i].result
               /\ new(i).inserted_at = c.entries[i].inserted_at
               /\ new(i).expires_at <= c.entries[i].expires_at
               /\ IF Representable(c.entries[i].inserted_at, p.ttl)
                  THEN new(i).expires_at =
                         Min({c.entries[i].expires_at,
                              c.entries[i].inserted_at + p.ttl})
                  ELSE new(i) = c.entries[i]
    <2> DEFINE x == c.entries[i]
               least == Min({x.expires_at, x.inserted_at + p.ttl})
    <2>1. /\ x \in Entry /\ x.bytes = Weight[i]
          /\ x.expires_at \in Nat /\ x.inserted_at + p.ttl \in Nat
      BY <1>1 DEF Entry
    <2>2. least \in Nat /\ least <= x.expires_at
      BY <2>1, SmallerOfTwo
    <2>3. new(i) = IF Representable(x.inserted_at, p.ttl)
                   THEN [x EXCEPT !.expires_at = least] ELSE x
      BY DEF ShorterLife
    <2> HIDE DEF x, least, new
    <2>4. CASE Representable(x.inserted_at, p.ttl)
      <3>1. new(i) = [x EXCEPT !.expires_at = least]
        BY <2>3, <2>4
      <3>2. /\ new(i) \in Entry /\ new(i).bytes = Weight[i]
            /\ new(i).result = x.result /\ new(i).inserted_at = x.inserted_at
            /\ new(i).expires_at = least
        BY <2>1, <2>2, <3>1 DEF Entry
      <3>3. QED
        BY <2>2, <2>4, <3>2 DEF x, least
    <2>5. CASE ~Representable(x.inserted_at, p.ttl)
      <3>1. new(i) = x /\ x.expires_at <= x.expires_at
        BY <2>1, <2>3, <2>5
      <3>2. QED
        BY <2>1, <2>5, <3>1 DEF x
    <2>6. QED
      BY <2>4, <2>5
  <1> HIDE DEF d, new
  <1>4. /\ DOMAIN d = {"entries", "lru", "estimated_bytes"}
        /\ d.lru = c.lru /\ d.estimated_bytes = c.estimated_bytes
        /\ d.entries = [i \in E |-> new(i)]
    BY <1>1, <1>2
  <1>5. DOMAIN d.entries = E /\ \A i \in E : d.entries[i] = new(i)
    BY <1>4
  <1>6. Shaped(d)
    <2>1. d.entries = [i \in DOMAIN d.entries |-> d.entries[i]]
      BY <1>4, <1>5
    <2>2. QED
      BY <1>1, <1>3, <1>4, <1>5, <2>1 DEF Shaped
  <1>7. Sound(d)
    BY <1>4, <1>5, <1>6 DEF Sound, Ordered
  <1>8. Forgets(c, d)
    BY <1>3, <1>4, <1>5, ZenonT(60) DEF Forgets, Keeps
  <1>9. QED
    BY <1>3, <1>4, <1>5, <1>7, <1>8 DEF d

\* prune_expired leaves what has not expired, as it was.
LEMMA Pruned ==
  ASSUME NEW c, Sound(c), NEW now
  PROVE  LET d == PruneExpired(c, now)
         IN  /\ Sound(d) /\ Forgets(c, d)
             /\ d.lru = Without(c.lru, Expired(c, now))
             /\ DOMAIN d.entries = DOMAIN c.entries \ Expired(c, now)
             /\ \A i \in DOMAIN d.entries :
                  d.entries[i] = c.entries[i] /\ ~(now >= d.entries[i].expires_at)
  <1> DEFINE d == Removed(c, Expired(c, now))
  <1>1. /\ Sound(d) /\ Forgets(c, d)
        /\ d.entries = [i \in DOMAIN c.entries \ Expired(c, now) |-> c.entries[i]]
        /\ d.lru = Without(c.lru, Expired(c, now))
    BY RemovedSound
  <1> HIDE DEF d
  <1>2. /\ DOMAIN d.entries = DOMAIN c.entries \ Expired(c, now)
        /\ \A i \in DOMAIN d.entries : d.entries[i] = c.entries[i]
    BY <1>1
  <1>3. \A i \in DOMAIN d.entries : ~(now >= d.entries[i].expires_at)
    BY <1>2 DEF Expired
  <1>4. QED
    BY <1>1, <1>2, <1>3 DEF d, PruneExpired

\* What reconcile_policy leaves is sound, within the limits, not expired, and
\* younger than the time to live of the policy.
LEMMA Reconciled ==
  ASSUME NEW c, Sound(c), NEW now \in Nat, NEW p,
         p \in [max_entries : Nat, max_bytes : Nat, ttl : Nat]
  PROVE  LET d == ReconcilePolicy(c, now, p)
         IN  /\ Sound(d) /\ Forgets(c, d)
             /\ Within(d, p.max_entries, p.max_bytes)
             /\ Representable(now, p.ttl) =>
                  \A i \in DOMAIN d.entries :
                    now < d.entries[i].inserted_at + p.ttl
  <1> DEFINE s == ShortenTTL(c, p)
             q == PruneExpired(s, now)
             d == ReconcilePolicy(c, now, p)
  <1>1. p.max_entries \in Nat /\ p.max_bytes \in Nat /\ p.ttl \in Nat
    OBVIOUS
  <1>2. /\ Sound(s) /\ Forgets(c, s)
        /\ DOMAIN s.entries = DOMAIN c.entries
        /\ \A i \in DOMAIN s.entries :
             IF Representable(c.entries[i].inserted_at, p.ttl)
             THEN s.entries[i].expires_at =
                    Min({c.entries[i].expires_at,
                         c.entries[i].inserted_at + p.ttl})
             ELSE s.entries[i] = c.entries[i]
    BY <1>1, Shortened
  <1> HIDE DEF s
  <1>3. /\ Sound(q) /\ Forgets(s, q)
        /\ \A i \in DOMAIN q.entries :
             q.entries[i] = s.entries[i] /\ ~(now >= q.entries[i].expires_at)
    BY <1>2, Pruned
  <1> HIDE DEF q
  <1>4. /\ Sound(Evicted(q, p.max_entries, p.max_bytes))
        /\ Forgets(q, Evicted(q, p.max_entries, p.max_bytes))
        /\ Within(Evicted(q, p.max_entries, p.max_bytes),
                  p.max_entries, p.max_bytes)
        /\ \A i \in DOMAIN Evicted(q, p.max_entries, p.max_bytes).entries :
             Evicted(q, p.max_entries, p.max_bytes).entries[i] = q.entries[i]
    BY <1>1, <1>3, EvictedSound
  <1>5. d = Evicted(q, p.max_entries, p.max_bytes)
    BY DEF ReconcilePolicy, q, s
  <1> HIDE DEF d
  <1>6. /\ Sound(d) /\ Forgets(q, d) /\ Within(d, p.max_entries, p.max_bytes)
        /\ \A i \in DOMAIN d.entries : d.entries[i] = q.entries[i]
    BY <1>4, <1>5
  <1>7. Forgets(c, q) /\ Forgets(c, d)
    BY <1>2, <1>3, <1>6, ForgetsMore
  <1>8. ASSUME Representable(now, p.ttl), NEW i \in DOMAIN d.entries
        PROVE  now < d.entries[i].inserted_at + p.ttl
    <2>1. /\ i \in DOMAIN q.entries /\ i \in DOMAIN s.entries
          /\ i \in DOMAIN c.entries
      BY <1>2, <1>3, <1>6, <1>8 DEF Forgets, Keeps
    <2> DEFINE x == c.entries[i]
               y == s.entries[i]
    <2>2. /\ x.expires_at \in Nat /\ x.inserted_at \in Nat
          /\ y.expires_at \in Nat
      BY <1>2, <2>1 DEF Sound, Shaped, Entry
    <2>3. d.entries[i] = y /\ ~(now >= y.expires_at)
      BY <1>3, <1>6, <1>8, <2>1
    <2>4. y.inserted_at = x.inserted_at
      BY <1>2, <2>1 DEF Forgets, Keeps
    <2>5. IF Representable(x.inserted_at, p.ttl)
          THEN y.expires_at = Min({x.expires_at, x.inserted_at + p.ttl})
          ELSE y = x
      BY <1>2, <2>1
    <2> HIDE DEF x, y
    <2>6. CASE Representable(x.inserted_at, p.ttl)
      <3>1. y.expires_at <= x.inserted_at + p.ttl
        BY <1>1, <2>2, <2>5, <2>6, SmallerOfTwo
      <3>2. QED
        BY <1>1, <2>2, <2>3, <2>4, <3>1
    <2>7. CASE ~Representable(x.inserted_at, p.ttl)
      <3>1. now + p.ttl <= MaxInstant /\ ~(x.inserted_at + p.ttl <= MaxInstant)
        BY <1>8, <2>7 DEF Representable
      <3>2. MaxInstant \in Nat
        BY CacheAssumption
      <3>3. now < x.inserted_at + p.ttl
        BY <1>1, <2>2, <3>1, <3>2
      <3>4. QED
        BY <2>3, <2>4, <3>3
    <2>8. QED
      BY <2>6, <2>7
  <1>9. QED
    BY <1>6, <1>7, <1>8 DEF d

\* An order with a new identity at its end.
LEMMA AppendOrder ==
  ASSUME NEW A, NEW s \in Seq(A), IsInjective(s), NEW a \in A,
         a \notin Range(s)
  PROVE  /\ Append(s, a) \in Seq(A) /\ IsInjective(Append(s, a))
         /\ Range(Append(s, a)) = Range(s) \cup {a}
         /\ Len(Append(s, a)) > 0 /\ Append(s, a)[Len(Append(s, a))] = a
  <1> DEFINE t == Append(s, a)
             L == Len(s)
  <1>1. /\ t \in Seq(A) /\ Len(t) = L + 1 /\ L \in Nat
        /\ DOMAIN t = 1..(L + 1) /\ DOMAIN s = 1..L
        /\ t[L + 1] = a /\ \A n \in 1..L : t[n] = s[n]
    BY AppendProperties
  <1> HIDE DEF t, L
  <1>2. \A n \in 1..(L + 1) : n \in 1..L \/ n = L + 1
    BY <1>1
  <1>2a. L + 1 \in 1..(L + 1) /\ \A n \in 1..L : n \in 1..(L + 1)
    BY <1>1
  <1>3. IsInjective(t)
    <2>1. SUFFICES ASSUME NEW m \in 1..(L + 1), NEW n \in 1..(L + 1),
                          t[m] = t[n]
                   PROVE  m = n
      BY <1>1 DEF IsInjective
    <2>2. \A l \in 1..L : s[l] # a
      BY <1>1 DEF Range
    <2>3. CASE m = L + 1 \/ n = L + 1
      BY <1>1, <1>2, <2>1, <2>2, <2>3
    <2>4. CASE m \in 1..L /\ n \in 1..L
      BY <1>1, <2>1, <2>4 DEF IsInjective
    <2>5. QED
      BY <1>2, <2>3, <2>4
  <1>4. Range(t) = Range(s) \cup {a}
    <2>1. ASSUME NEW x \in Range(t) PROVE x \in Range(s) \cup {a}
      BY <1>1, <1>2, <2>1 DEF Range
    <2>2. ASSUME NEW x \in Range(s) \cup {a} PROVE x \in Range(t)
      BY <1>1, <1>2a, <2>2 DEF Range
    <2>3. QED
      BY <2>1, <2>2
  <1>5. Len(t) > 0 /\ t[Len(t)] = a
    BY <1>1
  <1>6. QED
    BY <1>1, <1>3, <1>4, <1>5 DEF t

\* touch: the identity becomes the last of the order.
LEMMA TouchedSound ==
  ASSUME NEW c, Sound(c), NEW id \in DOMAIN c.entries
  PROVE  LET d == Touched(c, id)
         IN  /\ Sound(d) /\ d.entries = c.entries
             /\ d.estimated_bytes = c.estimated_bytes
             /\ Len(d.lru) > 0 /\ d.lru[Len(d.lru)] = id
  <1> DEFINE w == Without(c.lru, {id})
             d == Touched(c, id)
  <1>1. /\ c.lru \in Seq(Ids) /\ IsInjective(c.lru)
        /\ Range(c.lru) = DOMAIN c.entries /\ id \in Ids
        /\ DOMAIN c = {"entries", "lru", "estimated_bytes"}
    BY DEF Sound, Ordered, Shaped
  <1>2. /\ w \in Seq(Ids) /\ IsInjective(w) /\ Range(w) = Range(c.lru) \ {id}
    BY <1>1, WithoutOrder
  <1>3. d = [c EXCEPT !.lru = Append(w, id)]
    BY DEF Touched
  <1> HIDE DEF w, d
  <1>4. /\ DOMAIN d = {"entries", "lru", "estimated_bytes"}
        /\ d.entries = c.entries /\ d.estimated_bytes = c.estimated_bytes
        /\ d.lru = Append(w, id)
    BY <1>1, <1>3
  <1>5. id \notin Range(w)
    BY <1>2
  <1>6. /\ Append(w, id) \in Seq(Ids) /\ IsInjective(Append(w, id))
        /\ Range(Append(w, id)) = Range(w) \cup {id}
        /\ Len(Append(w, id)) > 0 /\ Append(w, id)[Len(Append(w, id))] = id
    BY <1>1, <1>2, <1>5, AppendOrder
  <1>7. Sound(d)
    <2>1. Shaped(d)
      BY <1>4 DEF Sound, Shaped
    <2>2. Ordered(d)
      <3>1. Range(w) \cup {id} = DOMAIN c.entries
        BY <1>1, <1>2
      <3>2. QED
        BY <1>4, <1>6, <3>1 DEF Ordered
    <2>3. QED
      BY <1>4, <2>1, <2>2 DEF Sound
  <1>8. QED
    BY <1>4, <1>6, <1>7 DEF d

\* What insert_success stores beside what it found room for.
Stored(c, id, new) ==
  [c EXCEPT !.estimated_bytes = @ + Weight[id], !.lru = Append(@, id),
            !.entries = [i \in DOMAIN @ \cup {id} |->
                           IF i = id THEN new ELSE @[i]]]

\* The new entry is counted, listed last, and disturbs no other.
LEMMA StoredSound ==
  ASSUME NEW c, Sound(c), NEW id \in Ids \ DOMAIN c.entries,
         NEW new \in Entry, new.bytes = Weight[id]
  PROVE  LET d == Stored(c, id, new)
         IN  /\ Sound(d) /\ d.lru = Append(c.lru, id)
             /\ Len(d.lru) > 0 /\ d.lru[Len(d.lru)] = id
             /\ DOMAIN d.entries = DOMAIN c.entries \cup {id}
             /\ d.entries[id] = new
             /\ \A i \in DOMAIN c.entries : d.entries[i] = c.entries[i]
             /\ d.estimated_bytes = c.estimated_bytes + Weight[id]
             /\ Cardinality(DOMAIN d.entries) =
                  Cardinality(DOMAIN c.entries) + 1
  <1> DEFINE d == Stored(c, id, new)
             E == DOMAIN c.entries
  <1>1. /\ DOMAIN c = {"entries", "lru", "estimated_bytes"}
        /\ E \subseteq Ids /\ IsFiniteSet(E)
        /\ \A i \in E : c.entries[i] \in Entry /\ c.entries[i].bytes = Weight[i]
        /\ c.lru \in Seq(Ids) /\ IsInjective(c.lru) /\ Range(c.lru) = E
        /\ c.estimated_bytes = Total(Weight, E)
    BY DEF Sound, Shaped, Ordered
  <1>2. d = [c EXCEPT !.estimated_bytes = @ + Weight[id],
                      !.lru = Append(@, id),
                      !.entries = [i \in E \cup {id} |->
                                     IF i = id THEN new ELSE c.entries[i]]]
    BY DEF Stored
  <1> HIDE DEF d
  <1>3. /\ DOMAIN d = {"entries", "lru", "estimated_bytes"}
        /\ d.entries = [i \in E \cup {id} |->
                          IF i = id THEN new ELSE c.entries[i]]
        /\ d.lru = Append(c.lru, id)
        /\ d.estimated_bytes = c.estimated_bytes + Weight[id]
    BY <1>1, <1>2
  <1>4. /\ DOMAIN d.entries = E \cup {id} /\ d.entries[id] = new
        /\ \A i \in E : d.entries[i] = c.entries[i]
    BY <1>3
  <1>5. IsFiniteSet(E \cup {id}) /\ Cardinality(E \cup {id}) = Cardinality(E) + 1
    BY <1>1, FS_AddElement
  <1>6. /\ d.lru \in Seq(Ids) /\ IsInjective(d.lru)
        /\ Range(d.lru) = E \cup {id}
        /\ Len(d.lru) > 0 /\ d.lru[Len(d.lru)] = id
    <2>1. id \notin Range(c.lru)
      BY <1>1
    <2>2. /\ Append(c.lru, id) \in Seq(Ids) /\ IsInjective(Append(c.lru, id))
          /\ Range(Append(c.lru, id)) = Range(c.lru) \cup {id}
          /\ Len(Append(c.lru, id)) > 0
          /\ Append(c.lru, id)[Len(Append(c.lru, id))] = id
      BY <1>1, <2>1, AppendOrder
    <2>3. QED
      BY <1>1, <1>3, <2>2
  <1>7. Total(Weight, E \cup {id}) = Total(Weight, E) + Weight[id]
    <2>1. Weight[id] \in Nat /\ \A x \in E : Weight[x] \in Nat
      BY <1>1, CacheAssumption
    <2>2. Total(Weight, E \cup {id}) = Weight[id] + Total(Weight, E)
      BY <1>1, <2>1, TotalAdd
    <2>3. Total(Weight, E) \in Nat
      BY <1>1, <2>1, TotalType
    <2>4. QED
      BY <2>1, <2>2, <2>3
  <1>8. Shaped(d)
    <2>1. \A i \in DOMAIN d.entries :
            d.entries[i] \in Entry /\ d.entries[i].bytes = Weight[i]
      BY <1>1, <1>4
    <2>2. d.entries = [i \in DOMAIN d.entries |-> d.entries[i]]
      BY <1>3, <1>4
    <2>3. QED
      BY <1>1, <1>3, <1>4, <1>5, <2>1, <2>2 DEF Shaped
  <1>9. Sound(d)
    BY <1>1, <1>3, <1>4, <1>6, <1>7, <1>8 DEF Sound, Ordered
  <1>10. QED
    BY <1>3, <1>4, <1>5, <1>6, <1>9 DEF d

-----------------------------------------------------------------------------
(* The calls, and the invariant they keep.                                 *)

\* The identity of the last hit or accepted insert is the last of the order.
RecentIsLast ==
  reply.op \in {"hit", "accept"} =>
    Len(cache.lru) > 0 /\ cache.lru[Len(cache.lru)] = reply.id

CacheInv ==
  /\ Sound(cache) /\ clock \in 0..MaxClock
  /\ RecentIsLast /\ WithinLimits /\ HitsAreFresh

PolicyType == [max_entries : Nat, max_bytes : Nat, ttl : Nat]

\* The cache a lookup or a clear starts from.
Settled(now, p) ==
  IF ValidPolicy(p) THEN ReconcilePolicy(cache, now, p) ELSE cache

\* A policy applies to the cache only where it is valid.
LEMMA SettledSound ==
  ASSUME Sound(cache), NEW now \in Nat, NEW p \in PolicyType
  PROVE  LET c == Settled(now, p)
         IN  /\ Sound(c) /\ Keeps(cache, c)
             /\ ValidPolicy(p) => /\ Within(c, p.max_entries, p.max_bytes)
                                  /\ c = ReconcilePolicy(cache, now, p)
             /\ ValidPolicy(p) /\ Representable(now, p.ttl) =>
                  \A i \in DOMAIN c.entries :
                    now < c.entries[i].inserted_at + p.ttl
  <1>1. Keeps(cache, cache)
    <2>1. \A i \in DOMAIN cache.entries : cache.entries[i].expires_at \in Nat
      BY DEF Sound, Shaped, Entry
    <2>2. QED
      BY <2>1 DEF Keeps
  <1> DEFINE r == ReconcilePolicy(cache, now, p)
  <1>2. /\ Sound(r) /\ Forgets(cache, r)
        /\ Within(r, p.max_entries, p.max_bytes)
        /\ Representable(now, p.ttl) =>
             \A i \in DOMAIN r.entries : now < r.entries[i].inserted_at + p.ttl
    BY Reconciled DEF PolicyType
  <1>3. Settled(now, p) = IF ValidPolicy(p) THEN r ELSE cache
    BY DEF Settled
  <1> HIDE DEF r
  <1>4. CASE ValidPolicy(p)
    <2>1. Settled(now, p) = r
      BY <1>3, <1>4
    <2>2. QED
      BY <1>2, <1>4, <2>1 DEF Forgets, r
  <1>5. CASE ~ValidPolicy(p)
    <2>1. Settled(now, p) = cache
      BY <1>3, <1>5
    <2>2. QED
      BY <1>1, <1>5, <2>1
  <1>6. QED
    BY <1>4, <1>5

\* A lookup: what it forgets, and what it answers.
LEMMA LookupStep ==
  ASSUME Sound(cache), NEW now \in Nat, NEW p \in PolicyType, NEW id,
         Lookup(id, now, p)
  PROVE  /\ Sound(cache') /\ Keeps(cache, cache')
         /\ cache'.entries = Settled(now, p).entries
         /\ call' = [now |-> now, policy |-> p] /\ UNCHANGED clock
         /\ \/ /\ id \in DOMAIN cache'.entries
               /\ reply' = [op |-> "hit", id |-> id,
                            result |-> cache.entries[id].result]
            \/ reply' = [op |-> "miss", id |-> id]
         /\ (RecentIsLast /\ WithinLimits /\ HitsAreFresh)'
  <1> DEFINE c == Settled(now, p)
             hit == ValidPolicy(p) /\ id \in DOMAIN c.entries
  <1>1. /\ cache' = IF hit THEN Touched(c, id) ELSE c
        /\ reply' = IF hit THEN [op |-> "hit", id |-> id,
                                 result |-> c.entries[id].result]
                    ELSE [op |-> "miss", id |-> id]
        /\ call' = [now |-> now, policy |-> p] /\ UNCHANGED clock
    BY DEF Lookup, Return, Settled
  <1>2. /\ Sound(c) /\ Keeps(cache, c)
        /\ ValidPolicy(p) => Within(c, p.max_entries, p.max_bytes)
        /\ ValidPolicy(p) /\ Representable(now, p.ttl) =>
             \A i \in DOMAIN c.entries :
               now < c.entries[i].inserted_at + p.ttl
    BY SettledSound
  <1> HIDE DEF c
  <1>3. /\ Sound(cache') /\ cache'.entries = c.entries
        /\ cache'.estimated_bytes = c.estimated_bytes
        /\ hit => Len(cache'.lru) > 0 /\ cache'.lru[Len(cache'.lru)] = id
    <2>1. CASE hit
      <3> DEFINE d == Touched(c, id)
      <3>1. /\ Sound(d) /\ d.entries = c.entries
            /\ d.estimated_bytes = c.estimated_bytes
            /\ Len(d.lru) > 0 /\ d.lru[Len(d.lru)] = id
        BY <1>2, <2>1, TouchedSound
      <3>2. cache' = d
        BY <1>1, <2>1
      <3> HIDE DEF d
      <3>3. QED
        BY <3>1, <3>2
    <2>2. CASE ~hit
      BY <1>1, <1>2, <2>2
    <2>3. QED
      BY <2>1, <2>2
  <1>4. Keeps(cache, cache')
    BY <1>2, <1>3 DEF Keeps
  <1>5. hit => c.entries[id].result = cache.entries[id].result
    BY <1>2 DEF Keeps
  <1>6. \/ /\ hit /\ id \in DOMAIN cache'.entries
           /\ reply' = [op |-> "hit", id |-> id,
                        result |-> cache.entries[id].result]
        \/ ~hit /\ reply' = [op |-> "miss", id |-> id]
    BY <1>1, <1>3, <1>5
  <1>7. reply'.op \in {"hit", "miss"} /\ (reply'.op = "hit" => hit)
        /\ reply'.id = id /\ call'.policy = p /\ call'.now = now
    BY <1>1, <1>6
  <1>8. RecentIsLast'
    BY <1>3, <1>7 DEF RecentIsLast
  <1>9. WithinLimits'
    <2>1. ValidPolicy(p) => Within(cache', p.max_entries, p.max_bytes)
      BY <1>2, <1>3 DEF Within
    <2>2. QED
      BY <1>7, <2>1 DEF WithinLimits
  <1>10. HitsAreFresh'
    BY <1>2, <1>3, <1>7 DEF HitsAreFresh
  <1>11. QED
    BY <1>1, <1>3, <1>4, <1>6, <1>8, <1>9, <1>10 DEF c

\* An insert: refused, it only forgets; accepted, it stores the one answer
\* beside what it keeps of the others.
LEMMA InsertStep ==
  ASSUME Sound(cache), NEW now \in Nat, NEW p \in PolicyType,
         NEW id \in Ids, NEW res \in Results, InsertSuccess(id, res, now, p)
  PROVE  /\ Sound(cache')
         /\ call' = [now |-> now, policy |-> p] /\ UNCHANGED clock
         /\ \/ /\ reply' = [op |-> "refuse", id |-> id]
               /\ Keeps(cache, cache')
            \/ /\ reply' = [op |-> "accept", id |-> id, result |-> res]
               /\ cache'.entries[id].result = res
               /\ \E room : /\ Sound(room) /\ Keeps(cache, room)
                            /\ id \notin DOMAIN room.entries
                            /\ DOMAIN cache'.entries =
                                 DOMAIN room.entries \cup {id}
                            /\ \A i \in DOMAIN room.entries :
                                 cache'.entries[i] = room.entries[i]
         /\ (RecentIsLast /\ WithinLimits /\ HitsAreFresh)'
  <1> DEFINE r == ReconcilePolicy(cache, now, p)
             c == Removed(r, {id})
             room == Evicted(c, p.max_entries - 1, p.max_bytes - Weight[id])
             new == [result |-> res, inserted_at |-> now,
                     expires_at |-> now + p.ttl, bytes |-> Weight[id]]
  <1>1. /\ p.max_entries \in Nat /\ p.max_bytes \in Nat /\ p.ttl \in Nat
        /\ Weight[id] \in Nat
    BY CacheAssumption DEF PolicyType
  <1>2. /\ call' = [now |-> now, policy |-> p] /\ UNCHANGED clock
        /\ call'.policy = p /\ call'.now = now
    BY DEF InsertSuccess, Return
  <1>3. Sound(r) /\ Forgets(cache, r)
    BY Reconciled DEF PolicyType
  <1>4. /\ Sound(c) /\ Forgets(r, c)
        /\ c.entries = [i \in DOMAIN r.entries \ {id} |-> r.entries[i]]
    <2> HIDE DEF r
    <2>1. QED
      BY <1>3, RemovedSound
  <1>5. Forgets(cache, c)
    <2> HIDE DEF r, c
    <2>1. QED
      BY <1>3, <1>4, ForgetsMore
  <1>6. CASE /\ ~ValidPolicy(p) \/ ~Representable(now, p.ttl)
             /\ UNCHANGED cache
             /\ reply' = [op |-> "refuse", id |-> id]
    <2>1. \A i \in DOMAIN cache.entries : cache.entries[i].expires_at \in Nat
      BY DEF Sound, Shaped, Entry
    <2>2. Sound(cache') /\ Keeps(cache, cache')
      BY <1>6, <2>1 DEF Keeps
    <2>3. (RecentIsLast /\ WithinLimits /\ HitsAreFresh)'
      BY <1>6 DEF RecentIsLast, WithinLimits, HitsAreFresh
    <2>4. QED
      BY <1>2, <1>6, <2>2, <2>3
  <1>7. CASE /\ cache' = c
             /\ reply' = [op |-> "refuse", id |-> id]
    <2>1. Sound(cache') /\ Keeps(cache, cache')
      <3> HIDE DEF c
      <3>1. QED
        BY <1>4, <1>5, <1>7 DEF Forgets
    <2>2. (RecentIsLast /\ WithinLimits /\ HitsAreFresh)'
      BY <1>7 DEF RecentIsLast, WithinLimits, HitsAreFresh
    <2>3. QED
      BY <1>2, <1>7, <2>1, <2>2
  <1>8. CASE /\ ValidPolicy(p) /\ Representable(now, p.ttl)
             /\ Weight[id] <= p.max_bytes
             /\ cache' = Stored(room, id, new)
             /\ reply' = [op |-> "accept", id |-> id, result |-> res]
    <2>1. /\ p.max_entries - 1 \in Nat /\ p.max_bytes - Weight[id] \in Nat
          /\ new \in Entry /\ new.bytes = Weight[id] /\ new.result = res
      BY <1>1, <1>8 DEF ValidPolicy, Entry
    <2>2. /\ Sound(room) /\ Forgets(c, room)
          /\ Within(room, p.max_entries - 1, p.max_bytes - Weight[id])
          /\ \A i \in DOMAIN room.entries : room.entries[i] = c.entries[i]
      <3> HIDE DEF c
      <3>1. QED
        BY <1>4, <2>1, EvictedSound
    <2> HIDE DEF r, c, room, new
    <2>3. id \notin DOMAIN room.entries
      BY <1>4, <2>2 DEF Forgets, Keeps
    <2>4. Keeps(cache, room)
      BY <1>4, <1>5, <2>2, ForgetsMore DEF Forgets
    <2> DEFINE d == Stored(room, id, new)
    <2>5. /\ Sound(d)
          /\ Len(d.lru) > 0 /\ d.lru[Len(d.lru)] = id
          /\ DOMAIN d.entries = DOMAIN room.entries \cup {id}
          /\ d.entries[id] = new
          /\ \A i \in DOMAIN room.entries : d.entries[i] = room.entries[i]
          /\ d.estimated_bytes = room.estimated_bytes + Weight[id]
          /\ Cardinality(DOMAIN d.entries) =
               Cardinality(DOMAIN room.entries) + 1
      BY <2>1, <2>2, <2>3, StoredSound
    <2>6. cache' = d
      BY <1>8
    <2> HIDE DEF d
    <2>7. Within(d, p.max_entries, p.max_bytes)
      <3> DEFINE n == Cardinality(DOMAIN room.entries)
                 b == room.estimated_bytes
      <3>1. n \in Nat /\ b \in Nat
        <4>1. IsFiniteSet(DOMAIN room.entries) /\ DOMAIN room.entries \subseteq Ids
          BY <2>2 DEF Sound, Shaped
        <4>2. b = Total(Weight, DOMAIN room.entries)
          BY <2>2 DEF Sound
        <4>3. QED
          BY <4>1, <4>2, FS_CardinalityType, Weights
      <3>2. n <= p.max_entries - 1 /\ b <= p.max_bytes - Weight[id]
        BY <2>2 DEF Within
      <3> HIDE DEF n, b
      <3>3. n + 1 <= p.max_entries /\ b + Weight[id] <= p.max_bytes
        BY <1>1, <3>1, <3>2
      <3>4. QED
        BY <2>5, <3>3 DEF Within, n, b
    <2>8. reply'.op = "accept" /\ reply'.id = id
      BY <1>8
    <2>9. (RecentIsLast /\ WithinLimits /\ HitsAreFresh)'
      BY <1>2, <2>5, <2>6, <2>7, <2>8 DEF RecentIsLast, WithinLimits, HitsAreFresh
    <2>10. cache'.entries[id].result = res
      BY <2>1, <2>5, <2>6
    <2>11. QED
      BY <1>2, <1>8, <2>2, <2>3, <2>4, <2>5, <2>6, <2>9, <2>10
  <1>9. \/ /\ ~ValidPolicy(p) \/ ~Representable(now, p.ttl)
           /\ UNCHANGED cache
           /\ reply' = [op |-> "refuse", id |-> id]
        \/ cache' = c /\ reply' = [op |-> "refuse", id |-> id]
        \/ /\ ValidPolicy(p) /\ Representable(now, p.ttl)
           /\ Weight[id] <= p.max_bytes
           /\ cache' = Stored(room, id, new)
           /\ reply' = [op |-> "accept", id |-> id, result |-> res]
    BY DEF InsertSuccess, Return, Stored
  <1>10. QED
    BY <1>6, <1>7, <1>8, <1>9

\* A cache without entries.
LEMMA EmptyIsSound ==
  ASSUME NEW d, DOMAIN d = {"entries", "lru", "estimated_bytes"},
         d.entries = [i \in {} |-> i], d.lru = << >>, d.estimated_bytes = 0
  PROVE  Sound(d) /\ DOMAIN d.entries = {}
  <1>1. DOMAIN d.entries = {} /\ IsFiniteSet({}) /\ Total(Weight, {}) = 0
    BY FS_EmptySet, TotalTakes
  <1>2. Shaped(d)
    <2>1. d.entries = [i \in DOMAIN d.entries |-> d.entries[i]]
      BY <1>1
    <2>2. QED
      BY <1>1, <2>1 DEF Shaped
  <1>3. Ordered(d)
    <2>1. d.lru \in Seq(Ids) /\ DOMAIN d.lru = {}
      OBVIOUS
    <2>2. QED
      BY <1>1, <2>1 DEF Ordered, IsInjective, Range
  <1>4. QED
    BY <1>1, <1>2, <1>3 DEF Sound

\* A clear empties the cache, and counts no more than was in it.
LEMMA ClearStep ==
  ASSUME Sound(cache), NEW now \in Nat, NEW p \in PolicyType,
         CacheClear(now, p)
  PROVE  /\ Sound(cache') /\ DOMAIN cache'.entries = {}
         /\ \E n \in 0..Cardinality(DOMAIN cache.entries) :
              reply' = [op |-> "clear", count |-> n]
         /\ (RecentIsLast /\ WithinLimits /\ HitsAreFresh)' /\ UNCHANGED clock
  <1> DEFINE c == Settled(now, p)
             n == Cardinality(DOMAIN c.entries)
  <1>1. /\ cache' = [c EXCEPT !.entries = [i \in {} |-> i], !.lru = << >>,
                              !.estimated_bytes = 0]
        /\ reply' = [op |-> "clear", count |-> n] /\ UNCHANGED clock
    BY DEF CacheClear, Return, Settled
  <1>2. Sound(c) /\ Keeps(cache, c)
    BY SettledSound
  <1> HIDE DEF c
  <1>3. n \in 0..Cardinality(DOMAIN cache.entries)
    <2>1. /\ DOMAIN c.entries \subseteq DOMAIN cache.entries
          /\ IsFiniteSet(DOMAIN cache.entries)
      BY <1>2 DEF Keeps, Sound, Shaped
    <2>2. /\ IsFiniteSet(DOMAIN c.entries)
          /\ Cardinality(DOMAIN c.entries) <= Cardinality(DOMAIN cache.entries)
      BY <2>1, FS_Subset
    <2>3. /\ Cardinality(DOMAIN c.entries) \in Nat
          /\ Cardinality(DOMAIN cache.entries) \in Nat
      BY <2>1, <2>2, FS_CardinalityType
    <2>4. QED
      BY <2>2, <2>3
  <1> HIDE DEF n
  <1>4. /\ DOMAIN cache' = {"entries", "lru", "estimated_bytes"}
        /\ cache'.entries = [i \in {} |-> i] /\ cache'.lru = << >>
        /\ cache'.estimated_bytes = 0
    BY <1>1, <1>2 DEF Sound, Shaped
  <1>5. Sound(cache')
    BY <1>4, EmptyIsSound
  <1>6. (RecentIsLast /\ WithinLimits /\ HitsAreFresh)'
    BY <1>1 DEF RecentIsLast, WithinLimits, HitsAreFresh
  <1>7. QED
    BY <1>1, <1>3, <1>4, <1>5, <1>6

\* A count forgets what has expired, and counts the rest.
LEMMA CountStep ==
  ASSUME Sound(cache), NEW now \in Nat, Count(now)
  PROVE  /\ Sound(cache') /\ Keeps(cache, cache')
         /\ reply' = [op |-> "len",
                      count |-> Cardinality(DOMAIN cache'.entries)]
         /\ (RecentIsLast /\ WithinLimits /\ HitsAreFresh)' /\ UNCHANGED clock
  <1>1. /\ cache' = PruneExpired(cache, now) /\ UNCHANGED clock
        /\ reply' = [op |-> "len",
                     count |-> Cardinality(DOMAIN cache'.entries)]
    BY DEF Count, Return
  <1>2. /\ Sound(PruneExpired(cache, now))
        /\ Forgets(cache, PruneExpired(cache, now))
    BY Pruned
  <1>3. (RecentIsLast /\ WithinLimits /\ HitsAreFresh)'
    BY <1>1 DEF RecentIsLast, WithinLimits, HitsAreFresh
  <1>4. QED
    BY <1>1, <1>2, <1>3 DEF Forgets

\* The policies are well formed, and instants are natural numbers.
LEMMA CallTypes ==
  ASSUME clock \in 0..MaxClock
  PROVE  /\ \A p \in Policies : p \in PolicyType
         /\ \A now \in Instants : now \in Nat
  <1>1. clock \in Nat /\ Skew \in Nat /\ Monus(clock, Skew) \in Nat
    BY CacheAssumption DEF Monus
  <1>2. \A now \in Instants : now \in Nat
    BY <1>1 DEF Instants
  <1>3. QED
    BY <1>2, CacheAssumption DEF PolicyType

\* The cache starts empty.
LEMMA CacheInit ==
  ASSUME Init
  PROVE  CacheInv
  <1>1. /\ DOMAIN cache = {"entries", "lru", "estimated_bytes"}
        /\ cache.entries = [i \in {} |-> i] /\ cache.lru = << >>
        /\ cache.estimated_bytes = 0 /\ clock = 0 /\ reply.op = "none"
    BY DEF Init
  <1>2. Sound(cache)
    BY <1>1, EmptyIsSound
  <1>3. clock \in 0..MaxClock
    BY <1>1, CacheAssumption
  <1>4. QED
    BY <1>1, <1>2, <1>3 DEF CacheInv, RecentIsLast, WithinLimits, HitsAreFresh

\* Every call keeps the invariant.
LEMMA CacheStep ==
  ASSUME CacheInv, [Next]_vars
  PROVE  CacheInv'
  <1>1. Sound(cache) /\ clock \in 0..MaxClock
    BY DEF CacheInv
  <1>2. /\ \A p \in Policies : p \in PolicyType
        /\ \A now \in Instants : now \in Nat
    BY <1>1, CallTypes
  <1>3. ASSUME NEW now \in Instants, NEW p \in Policies,
               NEW id \in Ids \cup {NoId}, Lookup(id, now, p)
        PROVE  CacheInv'
    BY <1>1, <1>2, <1>3, LookupStep DEF CacheInv
  <1>4. ASSUME NEW now \in Instants, NEW p \in Policies,
               NEW id \in Ids, NEW r \in Results, InsertSuccess(id, r, now, p)
        PROVE  CacheInv'
    BY <1>1, <1>2, <1>4, InsertStep DEF CacheInv
  <1>5. ASSUME NEW now \in Instants, NEW p \in Policies, CacheClear(now, p)
        PROVE  CacheInv'
    BY <1>1, <1>2, <1>5, ClearStep DEF CacheInv
  <1>6. ASSUME NEW now \in Instants, Count(now)
        PROVE  CacheInv'
    BY <1>1, <1>2, <1>6, CountStep DEF CacheInv
  <1>7. CASE Tick
    <2>1. clock' \in 0..MaxClock
      BY <1>1, <1>7, CacheAssumption DEF Tick
    <2>2. QED
      BY <1>1, <1>7, <2>1
         DEF CacheInv, Tick, RecentIsLast, WithinLimits, HitsAreFresh
  <1>8. CASE UNCHANGED vars
    BY <1>8 DEF CacheInv, vars, RecentIsLast, WithinLimits, HitsAreFresh
  <1>9. QED
    BY <1>3, <1>4, <1>5, <1>6, <1>7, <1>8 DEF Next

\* The inductive invariant: the parts of the cache agree, and what the last
\* call promised of them still holds.
THEOREM CacheInvariant == Spec => []CacheInv
  <1>1. Init => CacheInv
    BY CacheInit
  <1>2. CacheInv /\ [Next]_vars => CacheInv'
    BY CacheStep
  <1>3. QED
    BY <1>1, <1>2, PTL DEF Spec

\* Entries, order and byte estimate agree in every reachable cache
\* (JudgmentCache's three fields).
THEOREM PartsNeverDrift == Spec => []PartsAgree
  <1>1. CacheInv => PartsAgree
    <2>1. SUFFICES ASSUME Sound(cache) PROVE PartsAgree
      BY DEF CacheInv
    <2>2. WeightOf(cache, DOMAIN cache.entries) =
            Total(Weight, DOMAIN cache.entries)
      BY <2>1, WeightIsTotal DEF Sound
    <2>3. QED
      BY <2>1, <2>2 DEF PartsAgree, Sound, Ordered
  <1>2. QED
    BY <1>1, CacheInvariant, PTL

\* The variables keep their types.
THEOREM CacheTypesCorrect == Spec => []TypeOK
  <1>1. CacheInv => TypeOK
    <2>1. SUFFICES ASSUME Sound(cache), clock \in 0..MaxClock PROVE TypeOK
      BY DEF CacheInv
    <2>2. /\ DOMAIN cache.entries \subseteq Ids
          /\ IsFiniteSet(DOMAIN cache.entries)
          /\ cache.estimated_bytes = Total(Weight, DOMAIN cache.entries)
      BY <2>1 DEF Sound, Shaped
    <2>3. cache.estimated_bytes \in Nat
      BY <2>2, Weights
    <2>4. QED
      BY <2>1, <2>2, <2>3 DEF TypeOK, Sound, Shaped, Ordered
  <1>2. QED
    BY <1>1, CacheInvariant, PTL

\* After a lookup or an accepted insert, the cache is within the limits of
\* that call's policy (reconcile_policy, insert_success).
THEOREM LimitsHold == Spec => []WithinLimits
  <1>1. CacheInv => WithinLimits
    BY DEF CacheInv
  <1>2. QED
    BY <1>1, CacheInvariant, PTL

\* A hit is younger than the time to live of the session that gets it.
THEOREM HitsAreYoung == Spec => []HitsAreFresh
  <1>1. CacheInv => HitsAreFresh
    BY DEF CacheInv
  <1>2. QED
    BY <1>1, CacheInvariant, PTL

-----------------------------------------------------------------------------
(* What a call may never do.                                               *)

\* No call other than an accepted insert makes an entry live longer.
THEOREM ExpiryOnlyMovesCloser == Spec => ExpiryNeverExtended
  <1> DEFINE A == reply'.op # "accept" =>
                    \A i \in DOMAIN cache.entries \cap DOMAIN cache'.entries :
                      cache'.entries[i].expires_at <= cache.entries[i].expires_at
  <1>1. ASSUME CacheInv, [Next]_vars
        PROVE  A \/ UNCHANGED vars
    <2>1. Sound(cache) /\ clock \in 0..MaxClock
      BY <1>1 DEF CacheInv
    <2>2. /\ \A p \in Policies : p \in PolicyType
          /\ \A now \in Instants : now \in Nat
      BY <2>1, CallTypes
    <2>3. ASSUME NEW now \in Instants, NEW p \in Policies,
                 NEW id \in Ids \cup {NoId}, Lookup(id, now, p)
          PROVE  Keeps(cache, cache')
      BY <2>1, <2>2, <2>3, LookupStep
    <2>4. ASSUME NEW now \in Instants, NEW p \in Policies, NEW id \in Ids,
                 NEW r \in Results, InsertSuccess(id, r, now, p)
          PROVE  reply'.op = "accept" \/ Keeps(cache, cache')
      BY <2>1, <2>2, <2>4, InsertStep
    <2>5. ASSUME NEW now \in Instants, NEW p \in Policies, CacheClear(now, p)
          PROVE  Keeps(cache, cache')
      BY <2>1, <2>2, <2>5, ClearStep DEF Keeps
    <2>6. ASSUME NEW now \in Instants, Count(now)
          PROVE  Keeps(cache, cache')
      BY <2>1, <2>2, <2>6, CountStep
    <2>7. CASE Tick
      <3>1. \A i \in DOMAIN cache.entries : cache.entries[i].expires_at \in Nat
        BY <2>1 DEF Sound, Shaped, Entry
      <3>2. Keeps(cache, cache')
        BY <2>7, <3>1 DEF Keeps, Tick
      <3>3. QED
        BY <3>2 DEF Keeps
    <2>8. QED
      BY <1>1, <2>3, <2>4, <2>5, <2>6, <2>7 DEF Next, Keeps
  <1>2. QED
    BY <1>1, CacheInvariant, PTL DEF Spec, ExpiryNeverExtended

\* An entry used last that the policy's time to live has not reached, and
\* that fits beside the new one, outlives an insert.
LEMMA LastOutlivesInsert ==
  ASSUME CacheInv, NEW now \in Nat, NEW p \in PolicyType,
         NEW id \in Ids, NEW res \in Results, InsertSuccess(id, res, now, p),
         reply'.op = "accept", NEW last, last # id,
         Len(cache.lru) > 0, cache.lru[Len(cache.lru)] = last,
         p.max_entries >= 2, Weight[last] + Weight[id] <= p.max_bytes,
         ~ (Min({cache.entries[last].expires_at,
                 cache.entries[last].inserted_at + p.ttl}) <= now)
  PROVE  last \in DOMAIN cache'.entries
  <1> DEFINE s == ShortenTTL(cache, p)
             q == PruneExpired(s, now)
             r == Evicted(q, p.max_entries, p.max_bytes)
             c == Removed(r, {id})
             room == Evicted(c, p.max_entries - 1, p.max_bytes - Weight[id])
             Ends(d) == Len(d.lru) > 0 /\ d.lru[Len(d.lru)] = last
  <1>1. /\ Sound(cache)
        /\ p.max_entries \in Nat /\ p.max_bytes \in Nat /\ p.ttl \in Nat
    BY DEF CacheInv, PolicyType
  <1>2. last \in DOMAIN cache.entries /\ last \in Ids
    <2>1. /\ cache.lru \in Seq(Ids)
          /\ Range(cache.lru) = DOMAIN cache.entries
      BY <1>1 DEF Sound, Ordered
    <2>2. Len(cache.lru) \in DOMAIN cache.lru
      BY <2>1
    <2>3. QED
      BY <2>1, <2>2 DEF Range
  <1>3. Weight[last] \in Nat /\ Weight[id] \in Nat
    BY <1>2, CacheAssumption
  <1>4. /\ Sound(s) /\ Ends(s) /\ last \in DOMAIN s.entries
        /\ ~(now >= s.entries[last].expires_at)
    <2>1. /\ Sound(s) /\ s.lru = cache.lru
          /\ DOMAIN s.entries = DOMAIN cache.entries
          /\ \A i \in DOMAIN s.entries :
               IF Representable(cache.entries[i].inserted_at, p.ttl)
               THEN s.entries[i].expires_at =
                      Min({cache.entries[i].expires_at,
                           cache.entries[i].inserted_at + p.ttl})
               ELSE s.entries[i] = cache.entries[i]
      BY <1>1, Shortened
    <2> HIDE DEF s
    <2> DEFINE x == cache.entries[last]
               m == Min({x.expires_at, x.inserted_at + p.ttl})
    <2>2. x.expires_at \in Nat /\ x.inserted_at + p.ttl \in Nat
      BY <1>1, <1>2 DEF Sound, Shaped, Entry
    <2>3. m \in Nat /\ m <= x.expires_at
      BY <2>2, SmallerOfTwo
    <2>4. ~(m <= now)
      OBVIOUS
    <2>5. s.entries[last].expires_at = m \/ s.entries[last] = x
      BY <1>2, <2>1
    <2> HIDE DEF m, x
    <2>6. ~(now >= s.entries[last].expires_at)
      BY <2>2, <2>3, <2>4, <2>5
    <2>7. QED
      BY <1>2, <2>1, <2>6
  <1>5. Sound(q) /\ Ends(q)
    <2> HIDE DEF s
    <2>1. Sound(q) /\ q.lru = Without(s.lru, Expired(s, now))
      BY <1>4, Pruned
    <2>2. last \notin Expired(s, now)
      BY <1>4 DEF Expired
    <2>3. /\ s.lru \in Seq(Ids) /\ Len(s.lru) > 0
          /\ s.lru[Len(s.lru)] \notin Expired(s, now)
      BY <1>4, <2>2 DEF Sound, Ordered
    <2> DEFINE w == Without(s.lru, Expired(s, now))
    <2>4. Len(w) > 0 /\ w[Len(w)] = s.lru[Len(s.lru)]
      BY <2>3, WithoutOrder
    <2> HIDE DEF w, q
    <2>5. q.lru = w
      BY <2>1 DEF w
    <2>6. QED
      BY <1>4, <2>1, <2>4, <2>5
  <1>6. Sound(r) /\ Ends(r)
    <2> HIDE DEF q
    <2>1. p.max_entries > 0 /\ Weight[q.lru[Len(q.lru)]] <= p.max_bytes
      BY <1>1, <1>3, <1>5, SMTT(30)
    <2>2. QED
      BY <1>1, <1>5, <2>1, EvictedSound
  <1>7. Sound(c) /\ Ends(c)
    <2> HIDE DEF r
    <2>1. Sound(c) /\ c.lru = Without(r.lru, {id})
      BY <1>6, RemovedSound
    <2>2. /\ r.lru \in Seq(Ids) /\ Len(r.lru) > 0
          /\ r.lru[Len(r.lru)] \notin {id}
      BY <1>6 DEF Sound, Ordered
    <2> DEFINE w == Without(r.lru, {id})
    <2>3. Len(w) > 0 /\ w[Len(w)] = r.lru[Len(r.lru)]
      BY <2>2, WithoutOrder
    <2> HIDE DEF w, c
    <2>4. c.lru = w
      BY <2>1 DEF w
    <2>5. QED
      BY <1>6, <2>1, <2>3, <2>4
  <1>8. Sound(room) /\ Ends(room)
    <2> HIDE DEF c
    <2>1. /\ p.max_entries - 1 \in Nat /\ p.max_entries - 1 > 0
          /\ p.max_bytes - Weight[id] \in Nat
          /\ Weight[last] <= p.max_bytes - Weight[id]
      <3> DEFINE n == p.max_entries
                 b == p.max_bytes
                 v == Weight[last]
                 w == Weight[id]
      <3>1. /\ n \in Nat /\ b \in Nat /\ v \in Nat /\ w \in Nat
            /\ n >= 2 /\ v + w <= b
        BY <1>1, <1>3
      <3> HIDE DEF n, b, v, w
      <3>2. n - 1 \in Nat /\ n - 1 > 0 /\ b - w \in Nat /\ v <= b - w
        BY <3>1
      <3>3. QED
        BY <3>2 DEF n, b, v, w
    <2>2. Weight[c.lru[Len(c.lru)]] <= p.max_bytes - Weight[id]
      BY <1>7, <2>1
    <2>3. QED
      BY <1>7, <2>1, <2>2, EvictedSound
  <1>9. DOMAIN cache'.entries = DOMAIN room.entries \cup {id}
    <2> DEFINE new == [result |-> res, inserted_at |-> now,
                       expires_at |-> now + p.ttl, bytes |-> Weight[id]]
    <2>1. cache' = Stored(room, id, new)
      <3>1. reply'.op # "refuse"
        OBVIOUS
      <3>2. r = ReconcilePolicy(cache, now, p)
        BY DEF ReconcilePolicy
      <3>3. QED
        BY <3>1, <3>2 DEF InsertSuccess, Return, Stored
    <2> HIDE DEF room, new
    <2>2. DOMAIN room = {"entries", "lru", "estimated_bytes"}
      BY <1>8 DEF Sound, Shaped
    <2>3. cache'.entries = [i \in DOMAIN room.entries \cup {id} |->
                              IF i = id THEN new ELSE room.entries[i]]
      BY <2>1, <2>2 DEF Stored
    <2>4. QED
      BY <2>3
  <1>10. last \in DOMAIN room.entries
    <2> HIDE DEF room
    <2>1. room.lru \in Seq(Ids) /\ Range(room.lru) = DOMAIN room.entries
      BY <1>8 DEF Sound, Ordered
    <2>2. Len(room.lru) \in DOMAIN room.lru
      BY <1>8, <2>1
    <2>3. QED
      BY <1>8, <2>1, <2>2 DEF Range
  <1>11. QED
    BY <1>9, <1>10

\* The entry used last is not the one evicted when another is stored, as
\* long as both fit (touch, and the eviction loops of the cache).
THEOREM TheLastUsedSurvives == Spec => MostRecentSurvives
  <1> DEFINE A == /\ reply.op \in {"hit", "accept"} /\ reply'.op = "accept"
                  /\ reply'.id # reply.id
                  /\ call'.policy.max_entries >= 2
                  /\ Weight[reply.id] + Weight[reply'.id]
                       <= call'.policy.max_bytes
                  /\ ~ (Min({cache.entries[reply.id].expires_at,
                             cache.entries[reply.id].inserted_at
                               + call'.policy.ttl}) <= call'.now)
                  => reply.id \in DOMAIN cache'.entries
  <1>1. ASSUME CacheInv, [Next]_vars
        PROVE  A \/ UNCHANGED vars
    <2>1. /\ Sound(cache) /\ clock \in 0..MaxClock
      BY <1>1 DEF CacheInv
    <2>2. /\ \A p \in Policies : p \in PolicyType
          /\ \A now \in Instants : now \in Nat
      BY <2>1, CallTypes
    <2>3. ASSUME NEW now \in Instants, NEW p \in Policies,
                 NEW id \in Ids \cup {NoId}, Lookup(id, now, p)
          PROVE  A
      <3>1. reply'.op \in {"hit", "miss"}
        BY <2>1, <2>2, <2>3, LookupStep
      <3>2. QED
        BY <3>1
    <2>4. ASSUME NEW now \in Instants, NEW p \in Policies, NEW id \in Ids,
                 NEW r \in Results, InsertSuccess(id, r, now, p)
          PROVE  A
      <3>1. /\ call'.now = now /\ call'.policy = p
            /\ reply'.op \in {"refuse", "accept"} /\ reply'.id = id
        BY <2>1, <2>2, <2>4, InsertStep
      <3>2. SUFFICES ASSUME reply.op \in {"hit", "accept"},
                            reply'.op = "accept", id # reply.id,
                            p.max_entries >= 2,
                            Weight[reply.id] + Weight[id] <= p.max_bytes,
                            ~ (Min({cache.entries[reply.id].expires_at,
                                    cache.entries[reply.id].inserted_at
                                      + p.ttl}) <= now)
                     PROVE  reply.id \in DOMAIN cache'.entries
        BY <3>1
      <3>3. /\ Len(cache.lru) > 0 /\ cache.lru[Len(cache.lru)] = reply.id
        BY <1>1, <3>2 DEF CacheInv, RecentIsLast
      <3>4. QED
        BY <1>1, <2>2, <2>4, <3>2, <3>3, LastOutlivesInsert
    <2>5. ASSUME NEW now \in Instants, NEW p \in Policies, CacheClear(now, p)
          PROVE  A
      <3>1. reply'.op = "clear"
        BY <2>1, <2>2, <2>5, ClearStep
      <3>2. QED
        BY <3>1
    <2>6. ASSUME NEW now \in Instants, Count(now)
          PROVE  A
      <3>1. reply'.op = "len"
        BY <2>1, <2>2, <2>6, CountStep
      <3>2. QED
        BY <3>1
    <2>7. ASSUME Tick PROVE A
      <3>1. /\ reply' = reply
        BY <2>7 DEF Tick
      <3>2. QED
        BY <3>1
    <2> HIDE DEF A
    <2>8. QED
      BY <1>1, <2>3, <2>4, <2>5, <2>6, <2>7 DEF Next
  <1>2. QED
    BY <1>1, CacheInvariant, PTL DEF Spec, MostRecentSurvives

\* The weight of a set is the sum of its weights.
LEMMA WeightsAddUp ==
  ASSUME NEW S
  PROVE  TotalWeight(S) = Total(Weight, S)
  BY DEF TotalWeight, MapThenSumSet, MapThenFoldSet, Next1, Total, Adds

\* Of the entries D in order o those lost had to go: each was older than all
\* of the others that stay, and with it and the younger ones lost, those that
\* stay, the new ones among them, would be over a limit.
LostRightly(o, D, kept, new, e, b) ==
  \A i \in D \ kept :
    /\ \A j \in kept \ new : Before(o, i, j)
    /\ \/ Cardinality(kept) >= e
       \/ Total(Weight, kept \cup {j \in D \ kept : j = i \/ Before(o, i, j)}) > b

\* What an eviction loses had to go.
LEMMA LostToEviction ==
  ASSUME NEW c, Sound(c), NEW e \in Nat, NEW b \in Nat
  PROVE  LostRightly(c.lru, DOMAIN c.entries, DOMAIN Evicted(c, e, b).entries,
                     {}, e, b)
  <1> SUFFICES ASSUME NEW i \in DOMAIN c.entries \ DOMAIN Evicted(c, e, b).entries
               PROVE  LET kept == DOMAIN Evicted(c, e, b).entries
                          lost == DOMAIN c.entries \ kept
                      IN  /\ \A j \in kept : Before(c.lru, i, j)
                          /\ \/ Cardinality(kept) >= e
                             \/ Total(Weight, kept \cup {j \in lost :
                                  j = i \/ Before(c.lru, i, j)}) > b
    BY DEF LostRightly
  <1> DEFINE L == Len(c.lru)
             s == c.lru
             E == DOMAIN c.entries
             kept == DOMAIN Evicted(c, e, b).entries
             lost == E \ kept
             with == kept \cup {j \in lost : j = i \/ Before(s, i, j)}
  <1>1. PICK k \in 0..L :
          /\ Evicted(c, e, b) = DropOldest(c, k)
          /\ \A j \in 0..L : j < k => ~Within(DropOldest(c, j), e, b)
    BY EvictedIs
  <1>2. /\ s \in Seq(Ids) /\ IsInjective(s) /\ Range(s) = E
        /\ DOMAIN s = 1..L /\ L \in Nat
        /\ E \subseteq Ids /\ IsFiniteSet(E)
    BY DEF Sound, Ordered, Shaped
  <1>3. kept = Younger(s, k) /\ kept = E \ Oldest(s, k)
    <2> DEFINE x == DropOldest(c, k)
    <2>1. DOMAIN x.entries = Younger(s, k) /\ DOMAIN x.entries = E \ Oldest(s, k)
      BY OldestDropped
    <2>2. kept = DOMAIN x.entries
      BY <1>1
    <2> HIDE DEF kept, x
    <2>3. QED
      BY <2>1, <2>2
  <1>3a. i \in E /\ i \notin kept
    OBVIOUS
  <1> HIDE DEF kept
  <1>4. PICK m \in 1..k : i = s[m]
    BY <1>3, <1>3a DEF Oldest
  <1>5. k \in 1..L /\ m \in 1..L /\ m <= k /\ k - 1 \in 0..L /\ k - 1 < k
    BY <1>2, <1>4
  <1>6. ASSUME NEW j \in kept
        PROVE  Before(s, i, j)
    <2>1. PICK n \in (k + 1)..L : j = s[n]
      BY <1>3 DEF Younger
    <2>2. n \in 1..L /\ m < n
      BY <1>2, <1>5, <2>1
    <2>3. QED
      BY <1>2, <1>4, <1>5, <2>1, <2>2 DEF Before
  <1> DEFINE x == DropOldest(c, k - 1)
  <1>7. /\ Sound(x) /\ DOMAIN x.entries = Younger(s, k - 1)
        /\ ~Within(x, e, b)
    BY <1>1, <1>5, OldestDropped
  <1> HIDE DEF x
  <1>8. Younger(s, k - 1) = kept \cup {s[k]}
    <2>1. /\ \A n \in ((k - 1) + 1)..L : n = k \/ n \in (k + 1)..L
          /\ \A n \in (k + 1)..L : n \in ((k - 1) + 1)..L
          /\ k \in ((k - 1) + 1)..L
      BY <1>2, <1>5
    <2>2. ASSUME NEW j \in Younger(s, k - 1) PROVE j \in kept \cup {s[k]}
      BY <1>3, <2>1, <2>2 DEF Younger
    <2>3. ASSUME NEW j \in kept \cup {s[k]} PROVE j \in Younger(s, k - 1)
      BY <1>3, <2>1, <2>3 DEF Younger
    <2>4. QED
      BY <2>2, <2>3
  <1>9. s[k] \in lost /\ (s[k] = i \/ Before(s, i, s[k]))
    <2>1. s[k] \in E
      BY <1>2, <1>5 DEF Range
    <2>2. k \in 1..k
      BY <1>5
    <2>3. s[k] \notin kept
      BY <1>3, <2>2 DEF Oldest
    <2>4. s[k] = i \/ Before(s, i, s[k])
      <3>1. m = k \/ m < k
        BY <1>5
      <3>2. QED
        BY <1>2, <1>4, <1>5, <3>1 DEF Before
    <2>5. QED
      BY <2>1, <2>3, <2>4
  <1>10. /\ kept \subseteq E /\ with \subseteq E
         /\ kept \cup {s[k]} \subseteq with
    BY <1>3, <1>9
  <1>11. IsFiniteSet(kept) /\ IsFiniteSet(with)
    BY <1>2, <1>10, FS_Subset
  <1>12. CASE ~(Cardinality(DOMAIN x.entries) <= e)
    <2>1. Cardinality(kept \cup {s[k]}) = Cardinality(kept) + 1
      BY <1>9, <1>11, FS_AddElement
    <2>2. Cardinality(kept) \in Nat
      BY <1>11, FS_CardinalityType
    <2>3. ~(Cardinality(kept) + 1 <= e)
      BY <1>7, <1>8, <1>12, <2>1
    <2>4. Cardinality(kept) >= e
      BY <2>2, <2>3
    <2>5. QED
      BY <1>6, <2>4 DEF kept
  <1>13. CASE ~(x.estimated_bytes <= b)
    <2> DEFINE T == kept \cup {s[k]}
               u == Total(Weight, T)
               v == Total(Weight, with)
    <2>1. x.estimated_bytes = u
      BY <1>7, <1>8 DEF Sound
    <2>2. u \in Nat /\ v \in Nat /\ u <= v
      <3>1. with \in SUBSET Ids /\ T \in SUBSET with
        BY <1>2, <1>10
      <3> HIDE DEF with, T
      <3>2. QED
        BY <1>11, <3>1, Weights
    <2> HIDE DEF u, v
    <2>3. v > b
      BY <1>13, <2>1, <2>2
    <2>4. QED
      BY <1>6, <2>3 DEF kept, v
  <1>14. QED
    BY <1>7, <1>12, <1>13 DEF Within

\* Between two identities of a smaller cache, its order is the larger one's.
LEMMA SameOrder ==
  ASSUME NEW c, Sound(c), NEW d, Sound(d), Forgets(c, d),
         NEW i \in DOMAIN d.entries, NEW j \in DOMAIN d.entries
  PROVE  Before(c.lru, i, j) <=> Before(d.lru, i, j)
  <1>1. /\ Range(d.lru) = DOMAIN d.entries /\ IsInjective(c.lru)
        /\ d.lru \in Seq(Ids) /\ c.lru \in Seq(Ids)
    BY DEF Sound, Ordered
  <1>2. Before(d.lru, i, j) => Before(c.lru, i, j)
    BY DEF Forgets
  <1>3. SUFFICES ASSUME Before(c.lru, i, j) PROVE Before(d.lru, i, j)
    BY <1>2
  <1>4. PICK m \in DOMAIN d.lru, n \in DOMAIN d.lru : d.lru[m] = i /\ d.lru[n] = j
    BY <1>1 DEF Range
  <1>5. ~Before(c.lru, j, i) /\ i # j
    <2>1. PICK a \in DOMAIN c.lru, b \in DOMAIN c.lru :
            a < b /\ c.lru[a] = i /\ c.lru[b] = j
      BY <1>3 DEF Before
    <2>2. a \in Nat /\ b \in Nat
      BY <1>1
    <2>3. ~(b < a) /\ a # b
      BY <2>1, <2>2
    <2>4. i # j
      BY <1>1, <2>1, <2>3 DEF IsInjective
    <2>5. ASSUME Before(c.lru, j, i) PROVE FALSE
      <3>1. PICK x \in DOMAIN c.lru, y \in DOMAIN c.lru :
              x < y /\ c.lru[x] = j /\ c.lru[y] = i
        BY <2>5 DEF Before
      <3>2. x = b /\ y = a
        BY <1>1, <2>1, <3>1 DEF IsInjective
      <3>3. QED
        BY <2>3, <3>1, <3>2
    <2>6. QED
      BY <2>4, <2>5
  <1>6. m \in Nat /\ n \in Nat
    BY <1>1
  <1>7. ~(n < m)
    <2>1. n < m => Before(d.lru, j, i)
      BY <1>4 DEF Before
    <2>2. QED
      BY <1>5, <2>1 DEF Forgets
  <1>8. m # n
    BY <1>4, <1>5
  <1>9. m < n
    BY <1>6, <1>7, <1>8
  <1>10. QED
    BY <1>4, <1>9 DEF Before

\* What had to go from a smaller cache had to go, in the larger one's order.
LEMMA LostInOrder ==
  ASSUME NEW c, Sound(c), NEW d, Sound(d), Forgets(c, d),
         NEW K \in SUBSET DOMAIN d.entries, NEW e, NEW b,
         LostRightly(d.lru, DOMAIN d.entries, K, {}, e, b)
  PROVE  LostRightly(c.lru, DOMAIN d.entries, K, {}, e, b)
  <1> SUFFICES ASSUME NEW i \in DOMAIN d.entries \ K
               PROVE  LET lost == DOMAIN d.entries \ K
                      IN  /\ \A j \in K : Before(c.lru, i, j)
                          /\ \/ Cardinality(K) >= e
                             \/ Total(Weight, K \cup {j \in lost :
                                  j = i \/ Before(c.lru, i, j)}) > b
    BY DEF LostRightly
  <1> DEFINE lost == DOMAIN d.entries \ K
  <1>1. /\ \A j \in K : Before(d.lru, i, j)
        /\ \/ Cardinality(K) >= e
           \/ Total(Weight, K \cup {j \in lost :
                j = i \/ Before(d.lru, i, j)}) > b
    BY DEF LostRightly
  <1>2. \A j \in lost : Before(c.lru, i, j) <=> Before(d.lru, i, j)
    BY SameOrder
  <1>3. {j \in lost : j = i \/ Before(c.lru, i, j)} =
        {j \in lost : j = i \/ Before(d.lru, i, j)}
    BY <1>2
  <1>4. \A j \in K : Before(c.lru, i, j)
    BY <1>1 DEF Forgets
  <1>5. QED
    BY <1>1, <1>3, <1>4

\* What an insert loses had to go: D were there, K are left when the limits
\* are met without the new entry, and R when it is made room for, without
\* its predecessor.
LEMMA LostToInsert ==
  ASSUME NEW o, NEW D \in SUBSET Ids, IsFiniteSet(D), NEW K \in SUBSET D,
         NEW id \in Ids, NEW R \in SUBSET (K \ {id}),
         NEW e \in Nat, NEW b \in Nat, e > 0, Weight[id] <= b,
         LostRightly(o, D, K, {}, e, b),
         LostRightly(o, K \ {id}, R, {}, e - 1, b - Weight[id])
  PROVE  LostRightly(o, D, R \cup {id}, {id}, e, b)
  <1> DEFINE S == R \cup {id}
             with(i) == S \cup {j \in D \ S : j = i \/ Before(o, i, j)}
             Over(i) == Cardinality(S) >= e \/ Total(Weight, with(i)) > b
  <1>1. /\ IsFiniteSet(K) /\ IsFiniteSet(R) /\ IsFiniteSet(S)
        /\ Cardinality(R) \in Nat /\ Cardinality(S) = Cardinality(R) + 1
        /\ Weight[id] \in Nat /\ D \cup {id} \in SUBSET Ids
        /\ IsFiniteSet(D \cup {id})
    <2>1. IsFiniteSet(K) /\ IsFiniteSet(R) /\ id \notin R
      BY FS_Subset
    <2>2. IsFiniteSet(D \cup {id}) /\ D \cup {id} \in SUBSET Ids
      BY FS_AddElement
    <2>3. Weight[id] \in Nat
      BY CacheAssumption
    <2>4. /\ IsFiniteSet(S) /\ Cardinality(S) = Cardinality(R) + 1
          /\ Cardinality(R) \in Nat
      BY <2>1, FS_AddElement, FS_CardinalityType
    <2> HIDE DEF S
    <2>5. QED
      BY <2>1, <2>2, <2>3, <2>4
  <1>2. ASSUME NEW T, NEW U, T \subseteq U, U \subseteq D \cup {id}
        PROVE  /\ Total(Weight, T) \in Nat /\ Total(Weight, U) \in Nat
               /\ Total(Weight, T) <= Total(Weight, U)
    <2>1. U \in SUBSET Ids /\ IsFiniteSet(U) /\ T \in SUBSET U
      BY <1>1, <1>2, FS_Subset
    <2>2. QED
      BY <2>1, Weights
  <1>3. ASSUME NEW i \in D \ S,
               NEW x \in (K \ {id}) \ R, i = x \/ Before(o, i, x),
               \A j \in K \ {id} : j = x \/ Before(o, x, j) =>
                                     j = i \/ Before(o, i, j)
        PROVE  Over(i)
    <2> DEFINE T == R \cup {j \in (K \ {id}) \ R : j = x \/ Before(o, x, j)}
    <2>1. Cardinality(R) >= e - 1 \/ Total(Weight, T) > b - Weight[id]
      BY DEF LostRightly
    <2>2. CASE Cardinality(R) >= e - 1
      <3> HIDE DEF S
      <3>1. Cardinality(S) >= e
        BY <1>1, <2>2
      <3>2. QED
        BY <3>1
    <2>3. CASE Total(Weight, T) > b - Weight[id]
      <3>1. /\ T \cup {id} \subseteq with(i) /\ with(i) \subseteq D \cup {id}
            /\ id \notin T /\ T \subseteq D \cup {id}
        BY <1>3
      <3> HIDE DEF T
      <3>2. IsFiniteSet(T) /\ \A j \in T : Weight[j] \in Nat
        BY <1>1, <3>1, FS_Subset, CacheAssumption
      <3>3. Total(Weight, T \cup {id}) = Weight[id] + Total(Weight, T)
        BY <1>1, <3>1, <3>2, TotalAdd
      <3>4. /\ Total(Weight, T) \in Nat /\ Total(Weight, with(i)) \in Nat
            /\ Total(Weight, T \cup {id}) <= Total(Weight, with(i))
        BY <1>2, <3>1
      <3> DEFINE t == Total(Weight, T)
                 w == Total(Weight, with(i))
                 n == Weight[id]
      <3>5. /\ t \in Nat /\ w \in Nat /\ n \in Nat
            /\ t > b - n /\ n + t <= w
        BY <1>1, <2>3, <3>3, <3>4
      <3> HIDE DEF t, w, n
      <3>6. w > b
        BY <3>5
      <3>7. QED
        BY <3>6 DEF w
    <2>4. QED
      BY <2>1, <2>2, <2>3
  <1>4. ASSUME NEW i \in D \ S
        PROVE  (\A j \in S \ {id} : Before(o, i, j)) /\ Over(i)
    <2>1. CASE i \in K
      <3>1. i \in (K \ {id}) \ R
        BY <1>4, <2>1
      <3>2. \A j \in R : Before(o, i, j)
        BY <3>1 DEF LostRightly
      <3>3. Over(i)
        BY <1>3, <3>1
      <3>4. QED
        BY <3>2, <3>3
    <2>2. CASE i \notin K
      <3>1. /\ \A j \in K : Before(o, i, j)
            /\ \/ Cardinality(K) >= e
               \/ Total(Weight, K \cup {j \in D \ K :
                    j = i \/ Before(o, i, j)}) > b
        BY <2>2 DEF LostRightly
      <3>2. \A j \in S \ {id} : Before(o, i, j)
        BY <3>1
      <3>3. Over(i)
        <4>1. CASE R # K \ {id}
          <5>1. PICK x \in (K \ {id}) \ R : TRUE
            BY <4>1
          <5>2. QED
            BY <1>3, <3>1, <5>1
        <4>2. CASE R = K \ {id}
          <5>1. K \subseteq S
            BY <4>2
          <5>2. CASE Cardinality(K) >= e
            <6> HIDE DEF S
            <6>1. /\ Cardinality(K) <= Cardinality(S)
                  /\ Cardinality(K) \in Nat /\ Cardinality(S) \in Nat
              BY <1>1, <5>1, FS_Subset, FS_CardinalityType
            <6>2. Cardinality(S) >= e
              BY <5>2, <6>1
            <6>3. QED
              BY <6>2
          <5>3. CASE Total(Weight, K \cup {j \in D \ K :
                                            j = i \/ Before(o, i, j)}) > b
            <6> DEFINE T == K \cup {j \in D \ K : j = i \/ Before(o, i, j)}
            <6>1. T \subseteq with(i) /\ with(i) \subseteq D \cup {id}
              BY <4>2
            <6> HIDE DEF T
            <6>2. /\ Total(Weight, T) \in Nat /\ Total(Weight, with(i)) \in Nat
                  /\ Total(Weight, T) <= Total(Weight, with(i))
              BY <1>2, <6>1
            <6> HIDE DEF with
            <6>3. Total(Weight, with(i)) > b
              BY <5>3, <6>2 DEF T
            <6>4. QED
              BY <6>3
          <5>4. QED
            BY <3>1, <5>2, <5>3
        <4>3. QED
          BY <4>1, <4>2
      <3>4. QED
        BY <3>2, <3>3
    <2>3. QED
      BY <2>1, <2>2
  <1>5. QED
    BY <1>4 DEF LostRightly

\* What reconcile_policy loses of the entries that have not expired had to
\* go, in the order they were used in before the call.
LEMMA ReconciledLoses ==
  ASSUME Sound(cache), NEW now \in Nat, NEW p \in PolicyType
  PROVE  LET before == PruneExpired(ShortenTTL(cache, p), now)
             r == ReconcilePolicy(cache, now, p)
         IN  /\ Sound(before) /\ Sound(r) /\ Forgets(cache, r)
             /\ DOMAIN r.entries \subseteq DOMAIN before.entries
             /\ LostRightly(cache.lru, DOMAIN before.entries, DOMAIN r.entries,
                            {}, p.max_entries, p.max_bytes)
  <1> DEFINE s == ShortenTTL(cache, p)
             before == PruneExpired(s, now)
             r == Evicted(before, p.max_entries, p.max_bytes)
  <1>1. p.max_entries \in Nat /\ p.max_bytes \in Nat /\ p.ttl \in Nat
    BY DEF PolicyType
  <1>2. Sound(s) /\ Forgets(cache, s)
    BY <1>1, Shortened
  <1>3. Sound(before) /\ Forgets(cache, before)
    <2> HIDE DEF s
    <2>1. Sound(before) /\ Forgets(s, before)
      BY <1>2, Pruned
    <2> HIDE DEF before
    <2>2. QED
      BY <1>2, <2>1, ForgetsMore
  <1> HIDE DEF before
  <1>4. Sound(r) /\ Forgets(before, r)
    BY <1>1, <1>3, EvictedSound
  <1>5. LostRightly(before.lru, DOMAIN before.entries, DOMAIN r.entries,
                    {}, p.max_entries, p.max_bytes)
    BY <1>1, <1>3, LostToEviction
  <1>6. r = ReconcilePolicy(cache, now, p)
    BY DEF ReconcilePolicy, before
  <1> HIDE DEF r
  <1>7. DOMAIN r.entries \in SUBSET DOMAIN before.entries
    BY <1>4 DEF Forgets, Keeps
  <1>8. Forgets(cache, r)
    BY <1>3, <1>4, ForgetsMore
  <1>9. LostRightly(cache.lru, DOMAIN before.entries, DOMAIN r.entries,
                    {}, p.max_entries, p.max_bytes)
    BY <1>3, <1>5, <1>7, LostInOrder
  <1>10. QED
    BY <1>3, <1>4, <1>6, <1>7, <1>8, <1>9 DEF before

\* So had what an accepted insert loses: to reconcile_policy, or when it
\* makes room.
LEMMA InsertLoses ==
  ASSUME Sound(cache), NEW now \in Nat, NEW p \in PolicyType,
         NEW id \in Ids, NEW res \in Results, InsertSuccess(id, res, now, p),
         reply'.op = "accept"
  PROVE  LostRightly(cache.lru,
                     DOMAIN PruneExpired(ShortenTTL(cache, p), now).entries,
                     DOMAIN cache'.entries, {id}, p.max_entries, p.max_bytes)
  <1> DEFINE before == PruneExpired(ShortenTTL(cache, p), now)
             r == ReconcilePolicy(cache, now, p)
             c == Removed(r, {id})
             room == Evicted(c, p.max_entries - 1, p.max_bytes - Weight[id])
             new == [result |-> res, inserted_at |-> now,
                     expires_at |-> now + p.ttl, bytes |-> Weight[id]]
             D == DOMAIN before.entries
             K == DOMAIN r.entries
             R == DOMAIN room.entries
  <1>1. /\ ValidPolicy(p) /\ Weight[id] <= p.max_bytes
        /\ cache' = Stored(room, id, new)
    <2>1. reply'.op # "refuse"
      OBVIOUS
    <2>2. QED
      BY <2>1 DEF InsertSuccess, Return, Stored
  <1>2. /\ p.max_entries \in Nat /\ p.max_bytes \in Nat /\ p.max_entries > 0
        /\ p.max_entries - 1 \in Nat /\ p.max_bytes - Weight[id] \in Nat
    BY <1>1, CacheAssumption DEF PolicyType, ValidPolicy
  <1>3. /\ Sound(before) /\ Sound(r) /\ Forgets(cache, r) /\ K \subseteq D
        /\ LostRightly(cache.lru, D, K, {}, p.max_entries, p.max_bytes)
    BY ReconciledLoses
  <1> HIDE DEF before, r
  <1>4. /\ Sound(c) /\ Forgets(r, c) /\ DOMAIN c.entries = K \ {id}
    <2>1. /\ Sound(c) /\ Forgets(r, c)
          /\ c.entries = [i \in K \ {id} |-> r.entries[i]]
      BY <1>3, RemovedSound
    <2>2. QED
      BY <2>1
  <1> HIDE DEF c
  <1>5. Forgets(cache, c)
    BY <1>3, <1>4, ForgetsMore
  <1>6. /\ Sound(room) /\ R \in SUBSET (K \ {id})
        /\ LostRightly(c.lru, DOMAIN c.entries, R, {}, p.max_entries - 1,
                       p.max_bytes - Weight[id])
    <2>1. Sound(room) /\ Forgets(c, room)
      BY <1>2, <1>4, EvictedSound
    <2>2. LostRightly(c.lru, DOMAIN c.entries, R, {}, p.max_entries - 1,
                      p.max_bytes - Weight[id])
      BY <1>2, <1>4, LostToEviction
    <2> HIDE DEF room
    <2>3. R \in SUBSET (K \ {id})
      BY <1>4, <2>1 DEF Forgets, Keeps
    <2>4. QED
      BY <2>1, <2>2, <2>3
  <1> HIDE DEF room
  <1>7. LostRightly(cache.lru, K \ {id}, R, {}, p.max_entries - 1,
                    p.max_bytes - Weight[id])
    <2>1. R \in SUBSET DOMAIN c.entries
      BY <1>4, <1>6
    <2> HIDE DEF R
    <2>2. LostRightly(cache.lru, DOMAIN c.entries, R, {}, p.max_entries - 1,
                      p.max_bytes - Weight[id])
      BY <1>4, <1>5, <1>6, <2>1, LostInOrder
    <2>3. QED
      BY <1>4, <2>2
  <1>8. DOMAIN cache'.entries = R \cup {id}
    <2>1. DOMAIN room = {"entries", "lru", "estimated_bytes"}
      BY <1>6 DEF Sound, Shaped
    <2>2. cache'.entries = [i \in R \cup {id} |->
                              IF i = id THEN new ELSE room.entries[i]]
      BY <1>1, <2>1 DEF Stored
    <2>3. QED
      BY <2>2
  <1>9. D \in SUBSET Ids /\ IsFiniteSet(D)
    BY <1>3 DEF Sound, Shaped
  <1>10. LostRightly(cache.lru, D, R \cup {id}, {id},
                     p.max_entries, p.max_bytes)
    <2> HIDE DEF D, K, R
    <2>1. QED
      BY <1>1, <1>2, <1>3, <1>6, <1>7, <1>9, LostToInsert
  <1>11. QED
    BY <1>8, <1>10 DEF before

\* An unexpired entry lost to a lookup or to an accepted insert was older in
\* the LRU order than all that stay, and with it the cache would be over a
\* limit (the eviction loops of reconcile_policy and insert_success).
THEOREM NothingIsEvictedInVain == Spec => EvictsOnlyWhatItMust
  <1> DEFINE before == PruneExpired(ShortenTTL(cache, call'.policy), call'.now)
             kept == DOMAIN cache'.entries
             lost == DOMAIN before.entries \ kept
             new == IF reply'.op = "accept" THEN {reply'.id} ELSE {}
             A == reply'.op \in {"hit", "miss", "accept"}
                    /\ ValidPolicy(call'.policy) =>
                    \A i \in lost :
                      /\ \A j \in kept \ new : Before(cache.lru, i, j)
                      /\ \/ Cardinality(kept) >= call'.policy.max_entries
                         \/ TotalWeight(kept \cup {j \in lost :
                               j = i \/ Before(cache.lru, i, j)})
                              > call'.policy.max_bytes
  <1>1. ASSUME CacheInv, [Next]_vars
        PROVE  A \/ UNCHANGED vars
    <2>1. /\ Sound(cache) /\ clock \in 0..MaxClock
      BY <1>1 DEF CacheInv
    <2>2. /\ \A p \in Policies : p \in PolicyType
          /\ \A now \in Instants : now \in Nat
      BY <2>1, CallTypes
    <2>3. ASSUME LostRightly(cache.lru, DOMAIN before.entries, kept, new,
                             call'.policy.max_entries, call'.policy.max_bytes)
          PROVE  A
      <3> HIDE DEF before, kept, new
      <3>1. \A i \in lost :
              /\ \A j \in kept \ new : Before(cache.lru, i, j)
              /\ \/ Cardinality(kept) >= call'.policy.max_entries
                 \/ Total(Weight, kept \cup {j \in lost :
                       j = i \/ Before(cache.lru, i, j)})
                      > call'.policy.max_bytes
        BY <2>3 DEF LostRightly
      <3> HIDE DEF lost
      <3>2. QED
        BY <3>1, WeightsAddUp
    <2>4. ASSUME NEW now \in Instants, NEW p \in Policies,
                 NEW id \in Ids \cup {NoId}, Lookup(id, now, p)
          PROVE  A
      <3>1. /\ call'.now = now /\ call'.policy = p
            /\ reply'.op \in {"hit", "miss"}
            /\ cache'.entries = Settled(now, p).entries
        BY <2>1, <2>2, <2>4, LookupStep
      <3>2. CASE ~ValidPolicy(p)
        BY <3>1, <3>2
      <3>3. CASE ValidPolicy(p)
        <4>1. kept = DOMAIN ReconcilePolicy(cache, now, p).entries /\ new = {}
          BY <3>1, <3>3 DEF Settled
        <4>2. QED
          BY <2>1, <2>2, <2>3, <3>1, <4>1, ReconciledLoses
      <3>4. QED
        BY <3>2, <3>3
    <2>5. ASSUME NEW now \in Instants, NEW p \in Policies, NEW id \in Ids,
                 NEW r \in Results, InsertSuccess(id, r, now, p)
          PROVE  A
      <3>1. /\ call'.now = now /\ call'.policy = p
            /\ reply'.op \in {"refuse", "accept"} /\ reply'.id = id
        BY <2>1, <2>2, <2>5, InsertStep
      <3>2. CASE reply'.op = "refuse"
        BY <3>2
      <3>3. CASE reply'.op = "accept"
        <4>1. LostRightly(cache.lru, DOMAIN before.entries, kept, {id},
                          p.max_entries, p.max_bytes)
          BY <2>1, <2>2, <2>5, <3>1, <3>3, InsertLoses
        <4>2. new = {id}
          BY <3>1, <3>3
        <4>3. QED
          BY <2>3, <3>1, <4>1, <4>2
      <3>4. QED
        BY <3>1, <3>2, <3>3
    <2>6. ASSUME NEW now \in Instants, NEW p \in Policies, CacheClear(now, p)
          PROVE  A
      <3>1. reply'.op = "clear"
        BY <2>1, <2>2, <2>6, ClearStep
      <3>2. QED
        BY <3>1
    <2>7. ASSUME NEW now \in Instants, Count(now)
          PROVE  A
      <3>1. reply'.op = "len"
        BY <2>1, <2>2, <2>7, CountStep
      <3>2. QED
        BY <3>1
    <2>8. ASSUME Tick PROVE A
      <3>1. cache' = cache
        BY <2>8 DEF Tick
      <3>2. DOMAIN before.entries \subseteq DOMAIN cache.entries
        <4> DEFINE s == ShortenTTL(cache, call'.policy)
        <4>1. s.entries = [i \in DOMAIN cache.entries |->
                ShorterLife(cache.entries[i], call'.policy.ttl)]
          BY <2>1 DEF ShortenTTL, Sound, Shaped
        <4>2. DOMAIN s.entries = DOMAIN cache.entries
          BY <4>1
        <4>3. before.entries =
                [i \in DOMAIN s.entries \ (Expired(s, call'.now)
                                            \cap DOMAIN s.entries) |->
                   s.entries[i]]
          BY <2>1 DEF PruneExpired, Removed, RemoveEntries, Sound, Shaped,
                      ShortenTTL
        <4> HIDE DEF s, before
        <4>4. QED
          BY <4>2, <4>3
      <3> HIDE DEF before
      <3>3. lost = {}
        BY <3>1, <3>2
      <3>4. QED
        BY <3>3
    <2> HIDE DEF A
    <2>9. QED
      BY <1>1, <2>4, <2>5, <2>6, <2>7, <2>8 DEF Next
  <1>2. QED
    BY <1>1, CacheInvariant, PTL DEF Spec, EvictsOnlyWhatItMust

-----------------------------------------------------------------------------
(* The refinement.                                                         *)

\* What the callers see of a cache.
Answers(c) == [i \in DOMAIN c.entries |-> c.entries[i].result]

\* What a cache keeps, its callers see unchanged.
LEMMA KeptAnswers ==
  ASSUME NEW c, NEW d, Keeps(c, d)
  PROVE  \E D \in SUBSET DOMAIN Answers(c) :
           /\ D = DOMAIN d.entries
           /\ Answers(d) = [i \in D |-> Answers(c)[i]]
  <1> DEFINE D == DOMAIN d.entries
  <1>1. D \in SUBSET DOMAIN Answers(c)
    BY DEF Keeps, Answers
  <1>2. \A i \in D : d.entries[i].result = Answers(c)[i]
    BY DEF Keeps, Answers
  <1>3. Answers(d) = [i \in D |-> Answers(c)[i]]
    BY <1>2 DEF Answers
  <1>4. QED
    BY <1>1, <1>3

\* The cache implements the lossy store its callers rely on: its initial
\* cache is the empty store, and every call is the store's call of the same
\* reply.
THEOREM CacheIsLossyStore == Spec => ImplementsLossyCache
  <1> DEFINE store == Answers(cache)
  <1>0. \A S : Abstract!Cardinality(S) = Cardinality(S)
    BY DEF Abstract!Cardinality, Cardinality
  <1>1. Init => Abstract!Init
    <2>1. ASSUME Init PROVE store = [i \in {} |-> i]
      BY <2>1 DEF Init, Answers
    <2>2. QED
      BY <2>1 DEF Init, Abstract!Init, Answers
  <1>2. ASSUME CacheInv, [Next]_vars
        PROVE  Abstract!Next \/ UNCHANGED <<store, reply>>
    <2>1. /\ Sound(cache) /\ clock \in 0..MaxClock
      BY <1>2 DEF CacheInv
    <2>2. /\ \A p \in Policies : p \in PolicyType
          /\ \A now \in Instants : now \in Nat
      BY <2>1, CallTypes
    <2>3. ASSUME NEW now \in Instants, NEW p \in Policies,
                 NEW id \in Ids \cup {NoId}, Lookup(id, now, p)
          PROVE  Abstract!Next
      <3>1. /\ Keeps(cache, cache') /\ Sound(cache')
            /\ \/ /\ id \in DOMAIN cache'.entries
                  /\ reply' = [op |-> "hit", id |-> id,
                               result |-> cache.entries[id].result]
               \/ reply' = [op |-> "miss", id |-> id]
        BY <2>1, <2>2, <2>3, LookupStep
      <3>2. PICK D \in SUBSET DOMAIN store :
              /\ D = DOMAIN cache'.entries
              /\ store' = [i \in D |-> store[i]]
        BY <3>1, KeptAnswers DEF Answers
      <3>3. CASE id \in D /\ reply' = [op |-> "hit", id |-> id,
                                       result |-> cache.entries[id].result]
        <4>1. cache.entries[id].result = store[id] /\ id \in Ids
          BY <2>1, <3>2, <3>3 DEF Answers, Sound, Shaped
        <4>2. Abstract!Hit(id)
          BY <3>2, <3>3, <4>1 DEF Abstract!Hit, Abstract!Keep, Answers
        <4>3. QED
          BY <4>1, <4>2 DEF Abstract!Next
      <3>4. CASE reply' = [op |-> "miss", id |-> id]
        <4>1. Abstract!Miss(id)
          BY <3>2, <3>4 DEF Abstract!Miss, Abstract!Keep, Answers
        <4>2. QED
          BY <4>1 DEF Abstract!Next
      <3>5. QED
        BY <3>1, <3>2, <3>3, <3>4
    <2>4. ASSUME NEW now \in Instants, NEW p \in Policies, NEW id \in Ids,
                 NEW r \in Results, InsertSuccess(id, r, now, p)
          PROVE  Abstract!Next
      <3>1. CASE /\ reply' = [op |-> "refuse", id |-> id]
                 /\ Keeps(cache, cache')
        <4>1. PICK D \in SUBSET DOMAIN store :
                store' = [i \in D |-> store[i]]
          BY <3>1, KeptAnswers DEF Answers
        <4>2. Abstract!Refuse(id)
          BY <3>1, <4>1 DEF Abstract!Refuse, Abstract!Keep, Answers
        <4>3. QED
          BY <4>2 DEF Abstract!Next
      <3>2. CASE /\ reply' = [op |-> "accept", id |-> id, result |-> r]
                 /\ cache'.entries[id].result = r
                 /\ \E room : /\ Sound(room) /\ Keeps(cache, room)
                              /\ id \notin DOMAIN room.entries
                              /\ DOMAIN cache'.entries =
                                   DOMAIN room.entries \cup {id}
                              /\ \A i \in DOMAIN room.entries :
                                   cache'.entries[i] = room.entries[i]
        <4>1. PICK room : /\ Sound(room) /\ Keeps(cache, room)
                          /\ id \notin DOMAIN room.entries
                          /\ DOMAIN cache'.entries =
                               DOMAIN room.entries \cup {id}
                          /\ \A i \in DOMAIN room.entries :
                               cache'.entries[i] = room.entries[i]
          BY <3>2
        <4>2. PICK D \in SUBSET DOMAIN store :
                /\ D = DOMAIN room.entries
                /\ Answers(room) = [i \in D |-> store[i]]
          BY <4>1, KeptAnswers
        <4>3. \A i \in D : cache'.entries[i].result = store[i]
          <5>1. \A i \in D : room.entries[i].result = store[i]
            BY <4>2 DEF Answers
          <5>2. QED
            BY <4>1, <4>2, <5>1
        <4>4. D \in SUBSET (DOMAIN store \ {id})
          BY <4>1, <4>2
        <4>5. store' = [i \in D \cup {id} |-> IF i = id THEN r ELSE store[i]]
          <5> HIDE DEF store
          <5>1. store' = [i \in DOMAIN cache'.entries |->
                            cache'.entries[i].result]
            BY DEF store, Answers
          <5>2. DOMAIN cache'.entries = D \cup {id}
            BY <4>1, <4>2
          <5>3. \A i \in D \cup {id} : cache'.entries[i].result =
                                         IF i = id THEN r ELSE store[i]
            BY <3>2, <4>3
          <5>4. QED
            BY <5>1, <5>2, <5>3
        <4>6. Abstract!Accept(id, r)
          BY <3>2, <4>4, <4>5 DEF Abstract!Accept, Answers
        <4>7. QED
          BY <4>6 DEF Abstract!Next
      <3>3. QED
        BY <2>1, <2>2, <2>4, <3>1, <3>2, InsertStep
    <2>5. ASSUME NEW now \in Instants, NEW p \in Policies, CacheClear(now, p)
          PROVE  Abstract!Next
      <3>1. /\ DOMAIN cache'.entries = {}
            /\ \E n \in 0..Cardinality(DOMAIN cache.entries) :
                 reply' = [op |-> "clear", count |-> n]
        BY <2>1, <2>2, <2>5, ClearStep
      <3>2. store' = [i \in {} |-> store[i]]
        BY <3>1 DEF Answers
      <3>3. PICK n \in 0..Cardinality(DOMAIN store) :
              reply' = [op |-> "clear", count |-> n]
        <4>1. DOMAIN store = DOMAIN cache.entries
          BY DEF Answers
        <4> HIDE DEF store
        <4>2. QED
          BY <3>1, <4>1
      <3>4. Abstract!Clear
        BY <1>0, <3>2, <3>3 DEF Abstract!Clear, Abstract!Keep, Answers
      <3>5. QED
        BY <3>4 DEF Abstract!Next
    <2>6. ASSUME NEW now \in Instants, Count(now)
          PROVE  Abstract!Next
      <3>1. /\ Keeps(cache, cache')
            /\ reply' = [op |-> "len",
                         count |-> Cardinality(DOMAIN cache'.entries)]
        BY <2>1, <2>2, <2>6, CountStep
      <3>2. PICK D \in SUBSET DOMAIN store :
              /\ D = DOMAIN cache'.entries
              /\ store' = [i \in D |-> store[i]]
        BY <3>1, KeptAnswers DEF Answers
      <3>2a. reply' = [op |-> "len", count |-> Cardinality(D)]
        BY <3>1, <3>2
      <3>3. Abstract!Count
        BY <1>0, <3>2, <3>2a DEF Abstract!Count, Abstract!Keep, Answers
      <3>4. QED
        BY <3>3 DEF Abstract!Next
    <2>7. CASE Tick
      BY <2>7 DEF Tick, Answers
    <2>8. CASE UNCHANGED vars
      BY <2>8 DEF vars, Answers
    <2>9. QED
      BY <1>2, <2>3, <2>4, <2>5, <2>6, <2>7, <2>8 DEF Next
  <1>3. QED
    BY <1>1, <1>2, CacheInvariant, PTL
       DEF Spec, ImplementsLossyCache, Abstract!Spec, Answers
=============================================================================
