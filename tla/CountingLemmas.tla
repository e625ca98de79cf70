--------------------------- MODULE CountingLemmas ---------------------------
(***************************************************************************)
(* Finite sets of numbers: sums, as MapThenSumSet works them out, smallest *)
(* members and ranks.                                                      *)
(*                                                                         *)
(* Where others would prove by induction on a set, these proofs look at a  *)
(* smallest counterexample.                                                *)
(***************************************************************************)
EXTENDS Naturals, FiniteSetsExt, FiniteSetTheorems, TLAPS

-----------------------------------------------------------------------------
(* Sums: one element is added after another, each chosen from what is      *)
(* left.  The order does not matter, so a sum changes by its value when an *)
(* element comes or goes.                                                  *)

\* The element taken next.
Next1(S) == CHOOSE x \in S : TRUE

\* t gives the sums of f over the subsets of S.
Adds(f, S, t) ==
  t = [s \in SUBSET S |->
         IF s = {} THEN 0 ELSE f[Next1(s)] + t[s \ {Next1(s)}]]

\* The sum of f over S.
Total(f, S) == (CHOOSE t : Adds(f, S, t))[S]

\* Among sets of subsets of a finite set each has a smallest one.
LEMMA SmallestSet ==
  ASSUME NEW S, IsFiniteSet(S), NEW C \in SUBSET SUBSET S, C # {}
  PROVE  \E T \in C : \A U \in C : U \subseteq T => U = T
  <1>1. IsWellFoundedOn(StrictSubsetOrdering(S), SUBSET S)
    BY FS_StrictSubsetOrderingWellFounded, FS_FiniteSubsetsOfFinite
  <1>2. PICK T \in C : \A U \in C : ~(<<U, T>> \in StrictSubsetOrdering(S))
    BY <1>1, WFMin
  <1>3. QED
    BY <1>2 DEF StrictSubsetOrdering

\* A set that is not empty has an element to take.
LEMMA TakeOne ==
  ASSUME NEW S, S # {}
  PROVE  /\ Next1(S) \in S
         /\ S \ {Next1(S)} \subseteq S /\ S \ {Next1(S)} # S
  BY DEF Next1

\* Two ways to sum agree wherever both do.
LEMMA SumsAgree ==
  ASSUME NEW f, NEW S, NEW T, NEW t, NEW u, Adds(f, S, t), Adds(f, T, u),
         NEW A, IsFiniteSet(A), A \subseteq S, A \subseteq T
  PROVE  t[A] = u[A]
  <1> DEFINE C == {B \in SUBSET A : t[B] # u[B]}
  <1>1. SUFFICES ASSUME C # {} PROVE FALSE
    OBVIOUS
  <1>2. PICK B \in C : \A D \in C : D \subseteq B => D = B
    <2>1. C \in SUBSET SUBSET A
      OBVIOUS
    <2> HIDE DEF C
    <2>2. QED
      BY <1>1, <2>1, SmallestSet
  <1>3. /\ B \in SUBSET S /\ B \in SUBSET T /\ t[B] # u[B]
        /\ B \ {Next1(B)} \in SUBSET A
    BY <1>2
  <1>4. /\ t[B] = IF B = {} THEN 0 ELSE f[Next1(B)] + t[B \ {Next1(B)}]
        /\ u[B] = IF B = {} THEN 0 ELSE f[Next1(B)] + u[B \ {Next1(B)}]
    BY <1>3 DEF Adds
  <1>5. B # {}
    BY <1>3, <1>4
  <1>6. t[B \ {Next1(B)}] = u[B \ {Next1(B)}]
    BY <1>2, <1>3, <1>5, TakeOne
  <1>7. QED
    BY <1>3, <1>4, <1>5, <1>6

\* A finite set can be summed over.
LEMMA SumsExist ==
  ASSUME NEW f, NEW S, IsFiniteSet(S)
  PROVE  \E t : Adds(f, S, t)
  <1> DEFINE C == {T \in SUBSET S : \A t : ~Adds(f, T, t)}
  <1>1. SUFFICES ASSUME C # {} PROVE FALSE
    OBVIOUS
  <1>2. PICK T \in C : \A D \in C : D \subseteq T => D = T
    <2>1. C \in SUBSET SUBSET S
      OBVIOUS
    <2> HIDE DEF C
    <2>2. QED
      BY <1>1, <2>1, SmallestSet
  <1> DEFINE G(U) == CHOOSE t : Adds(f, U, t)
             rest(s) == s \ {Next1(s)}
             h == [s \in SUBSET T |->
                     IF s = {} THEN 0 ELSE f[Next1(s)] + G(rest(s))[rest(s)]]
  <1>3. ASSUME NEW U \in SUBSET T, U # T
        PROVE  Adds(f, U, G(U)) /\ IsFiniteSet(U)
    <2>1. U \notin C /\ U \in SUBSET S
      BY <1>2, <1>3
    <2>2. \E t : Adds(f, U, t)
      BY <2>1
    <2>3. QED
      BY <2>1, <2>2, FS_Subset
  <1>4. ASSUME NEW U \in SUBSET T, U # T
        PROVE  h[U] = G(U)[U]
    <2>1. G(U)[U] = IF U = {} THEN 0 ELSE f[Next1(U)] + G(U)[rest(U)]
      <3> DEFINE g == G(U)
      <3>1. Adds(f, U, g)
        BY <1>3, <1>4
      <3> HIDE DEF g
      <3>2. g[U] = IF U = {} THEN 0 ELSE f[Next1(U)] + g[rest(U)]
        BY <3>1 DEF Adds
      <3>3. QED
        BY <3>2 DEF g
    <2>2. CASE U = {}
      BY <2>1, <2>2
    <2>3. CASE U # {}
      <3>1. rest(U) \in SUBSET T /\ rest(U) # T /\ rest(U) \subseteq U
        BY <1>4, <2>3, TakeOne
      <3>2. G(U)[rest(U)] = G(rest(U))[rest(U)]
        BY <1>3, <1>4, <3>1, SumsAgree
      <3>3. QED
        BY <2>1, <2>3, <3>2
    <2>4. QED
      BY <2>2, <2>3
  <1>5. ASSUME NEW s \in SUBSET T, s # {}
        PROVE  G(rest(s))[rest(s)] = h[rest(s)]
    <2>1. rest(s) \in SUBSET T /\ rest(s) # T
      BY <1>5, TakeOne
    <2>2. QED
      BY <1>4, <2>1
  <1>6. Adds(f, T, h)
    <2> DEFINE k == [s \in SUBSET T |->
                       IF s = {} THEN 0 ELSE f[Next1(s)] + h[rest(s)]]
    <2>1. ASSUME NEW s \in SUBSET T
          PROVE  h[s] = k[s]
      <3>1. CASE s = {}
        BY <3>1
      <3>2. CASE s # {}
        <4>1. h[s] = f[Next1(s)] + G(rest(s))[rest(s)]
          BY <3>2
        <4>2. k[s] = f[Next1(s)] + h[rest(s)]
          BY <3>2
        <4>3. G(rest(s))[rest(s)] = h[rest(s)]
          BY <1>5, <3>2
        <4> HIDE DEF h, k, G, rest
        <4>4. QED
          BY <4>1, <4>2, <4>3
      <3>3. QED
        BY <3>1, <3>2
    <2>2. DOMAIN h = SUBSET T /\ DOMAIN k = SUBSET T
      OBVIOUS
    <2>3. h = k
      <3>1. h = [s \in SUBSET T |-> h[s]] /\ k = [s \in SUBSET T |-> k[s]]
        OBVIOUS
      <3> HIDE DEF h, k
      <3>2. QED
        BY <2>1, <3>1
    <2>4. QED
      <3>1. k = [s \in SUBSET T |->
                   IF s = {} THEN 0 ELSE f[Next1(s)] + h[s \ {Next1(s)}]]
        OBVIOUS
      <3> HIDE DEF h, k
      <3>2. QED
        BY <2>3, <3>1 DEF Adds
  <1>7. QED
    BY <1>2, <1>6

\* What the sums over the subsets of a set say of the sum over it.
LEMMA TotalOf ==
  ASSUME NEW f, NEW S, IsFiniteSet(S), NEW t, Adds(f, S, t),
         NEW A \in SUBSET S
  PROVE  t[A] = Total(f, A)
  <1>1. IsFiniteSet(A)
    BY FS_Subset
  <1>2. Adds(f, A, CHOOSE u : Adds(f, A, u))
    BY <1>1, SumsExist
  <1> DEFINE u == CHOOSE v : Adds(f, A, v)
  <1>3. Adds(f, A, u)
    BY <1>2
  <1> HIDE DEF u
  <1>4. t[A] = u[A]
    BY <1>1, <1>3, SumsAgree
  <1>5. QED
    BY <1>4 DEF Total, u

\* Nothing sums to 0; otherwise the sum is that of one element and the rest.
LEMMA TotalTakes ==
  ASSUME NEW f, NEW S, IsFiniteSet(S)
  PROVE  /\ S = {} => Total(f, S) = 0
         /\ S # {} => Total(f, S) = f[Next1(S)] + Total(f, S \ {Next1(S)})
  <1>1. PICK t : Adds(f, S, t)
    BY SumsExist
  <1>2. t[S] = IF S = {} THEN 0 ELSE f[Next1(S)] + t[S \ {Next1(S)}]
    BY <1>1 DEF Adds
  <1>3. S \ {Next1(S)} \in SUBSET S
    OBVIOUS
  <1>4. t[S] = Total(f, S) /\ t[S \ {Next1(S)}] = Total(f, S \ {Next1(S)})
    BY <1>1, <1>3, TotalOf
  <1>5. QED
    BY <1>2, <1>4

\* A sum of natural numbers is one.
LEMMA TotalType ==
  ASSUME NEW f, NEW S, IsFiniteSet(S), \A x \in S : f[x] \in Nat
  PROVE  Total(f, S) \in Nat
  <1> DEFINE C == {T \in SUBSET S : Total(f, T) \notin Nat}
  <1>1. SUFFICES ASSUME C # {} PROVE FALSE
    OBVIOUS
  <1>2. PICK T \in C : \A D \in C : D \subseteq T => D = T
    <2>1. C \in SUBSET SUBSET S
      OBVIOUS
    <2> HIDE DEF C
    <2>2. QED
      BY <1>1, <2>1, SmallestSet
  <1>3. T \in SUBSET S /\ IsFiniteSet(T) /\ Total(f, T) \notin Nat
    BY <1>2, FS_Subset
  <1>4. T # {}
    <2>1. T = {} => Total(f, T) = 0
      BY <1>3, TotalTakes
    <2>2. QED
      BY <1>3, <2>1
  <1>5. /\ Next1(T) \in T
        /\ T \ {Next1(T)} \in SUBSET S /\ T \ {Next1(T)} \notin C
    BY <1>2, <1>3, <1>4, TakeOne
  <1>6. QED
    BY <1>3, <1>4, <1>5, TotalTakes

\* An element that goes takes its value with it.
LEMMA TotalRemove ==
  ASSUME NEW f, NEW S, IsFiniteSet(S), \A x \in S : f[x] \in Nat,
         NEW a \in S
  PROVE  Total(f, S) = f[a] + Total(f, S \ {a})
  <1> DEFINE C == {T \in SUBSET S :
                     \E x \in T : Total(f, T) # f[x] + Total(f, T \ {x})}
  <1>1. SUFFICES ASSUME C # {} PROVE FALSE
    OBVIOUS
  <1>2. PICK T \in C : \A D \in C : D \subseteq T => D = T
    <2>1. C \in SUBSET SUBSET S
      OBVIOUS
    <2> HIDE DEF C
    <2>2. QED
      BY <1>1, <2>1, SmallestSet
  <1>3. T \in SUBSET S /\ IsFiniteSet(T)
    BY <1>2, FS_Subset
  <1>4. PICK x \in T : Total(f, T) # f[x] + Total(f, T \ {x})
    BY <1>2
  <1> DEFINE p == Next1(T)
  <1>5. p \in T /\ Total(f, T) = f[p] + Total(f, T \ {p})
    BY <1>3, <1>4, TakeOne, TotalTakes
  <1> HIDE DEF p
  <1>6. x # p
    BY <1>4, <1>5
  <1>7. /\ T \ {p} \in SUBSET S /\ T \ {p} # T /\ x \in T \ {p}
        /\ T \ {x} \in SUBSET S /\ T \ {x} # T /\ p \in T \ {x}
    BY <1>3, <1>4, <1>5, <1>6
  <1>8. T \ {p} \notin C /\ T \ {x} \notin C
    BY <1>2, <1>7
  <1>9. /\ Total(f, T \ {p}) = f[x] + Total(f, (T \ {p}) \ {x})
        /\ Total(f, T \ {x}) = f[p] + Total(f, (T \ {x}) \ {p})
    BY <1>7, <1>8
  <1>10. (T \ {p}) \ {x} = (T \ {x}) \ {p}
    OBVIOUS
  <1>11. /\ f[x] \in Nat /\ f[p] \in Nat
         /\ Total(f, (T \ {p}) \ {x}) \in Nat
    <2>1. IsFiniteSet((T \ {p}) \ {x}) /\ (T \ {p}) \ {x} \subseteq S
      BY <1>3, FS_Subset
    <2>2. QED
      BY <1>3, <1>4, <1>5, <2>1, TotalType
  <1> DEFINE whole == Total(f, T)
             withoutP == Total(f, T \ {p})
             withoutX == Total(f, T \ {x})
             left == Total(f, (T \ {p}) \ {x})
  <1>12. /\ whole # f[x] + withoutX /\ whole = f[p] + withoutP
         /\ withoutP = f[x] + left /\ left \in Nat
    BY <1>4, <1>5, <1>9, <1>11
  <1>13. withoutX = f[p] + left
    BY <1>9, <1>10
  <1> HIDE DEF whole, withoutP, withoutX, left
  <1>14. QED
    BY <1>11, <1>12, <1>13

\* An element that comes brings its value.
LEMMA TotalAdd ==
  ASSUME NEW f, NEW S, IsFiniteSet(S), NEW a, a \notin S,
         f[a] \in Nat, \A x \in S : f[x] \in Nat
  PROVE  Total(f, S \cup {a}) = f[a] + Total(f, S)
  <1>1. IsFiniteSet(S \cup {a}) /\ (S \cup {a}) \ {a} = S
    BY FS_AddElement
  <1>2. QED
    BY <1>1, TotalRemove

\* Only the values of its elements matter to a sum.
LEMMA TotalSame ==
  ASSUME NEW f, NEW g, NEW S, IsFiniteSet(S), \A x \in S : f[x] = g[x]
  PROVE  Total(f, S) = Total(g, S)
  <1> DEFINE C == {T \in SUBSET S : Total(f, T) # Total(g, T)}
  <1>1. SUFFICES ASSUME C # {} PROVE FALSE
    OBVIOUS
  <1>2. PICK T \in C : \A D \in C : D \subseteq T => D = T
    <2>1. C \in SUBSET SUBSET S
      OBVIOUS
    <2> HIDE DEF C
    <2>2. QED
      BY <1>1, <2>1, SmallestSet
  <1>3. T \in SUBSET S /\ IsFiniteSet(T) /\ Total(f, T) # Total(g, T)
    BY <1>2, FS_Subset
  <1>4. T # {}
    BY <1>3, TotalTakes
  <1>5. /\ Next1(T) \in T
        /\ T \ {Next1(T)} \in SUBSET S /\ T \ {Next1(T)} \notin C
    BY <1>2, <1>3, <1>4, TakeOne
  <1>6. Total(f, T \ {Next1(T)}) = Total(g, T \ {Next1(T)})
    BY <1>5
  <1>7. QED
    BY <1>3, <1>4, <1>5, <1>6, TotalTakes

\* A sum over fewer elements is the whole sum less that of the others.
LEMMA TotalSplit ==
  ASSUME NEW f, NEW S, IsFiniteSet(S), \A x \in S : f[x] \in Nat,
         NEW A \in SUBSET S
  PROVE  /\ Total(f, S) = Total(f, A) + Total(f, S \ A)
         /\ Total(f, A) \in Nat /\ Total(f, S \ A) \in Nat
  <1> DEFINE C == {T \in SUBSET S :
                     Total(f, S) # Total(f, T) + Total(f, S \ T)}
  <1>1. SUFFICES C = {}
    <2>1. /\ IsFiniteSet(A) /\ IsFiniteSet(S \ A)
          /\ \A x \in A : f[x] \in Nat
          /\ \A x \in S \ A : f[x] \in Nat
      BY FS_Subset
    <2>2. QED
      BY <1>1, <2>1, TotalType
  <1>2. SUFFICES ASSUME C # {} PROVE FALSE
    OBVIOUS
  <1>3. PICK T \in C : \A D \in C : D \subseteq T => D = T
    <2>1. C \in SUBSET SUBSET S
      OBVIOUS
    <2> HIDE DEF C
    <2>2. QED
      BY <1>2, <2>1, SmallestSet
  <1>4. /\ T \in SUBSET S /\ IsFiniteSet(T) /\ IsFiniteSet(S \ T)
        /\ Total(f, S) # Total(f, T) + Total(f, S \ T)
        /\ Total(f, S) \in Nat
    <2>1. T \in SUBSET S /\ IsFiniteSet(T) /\ IsFiniteSet(S \ T)
      BY <1>3, FS_Subset
    <2>2. QED
      BY <1>3, <2>1, TotalType
  <1>5. T # {}
    <2>1. Total(f, {}) = 0
      BY TotalTakes, FS_EmptySet
    <2>2. S \ {} = S
      OBVIOUS
    <2>3. QED
      BY <1>4, <2>1, <2>2
  <1>6. PICK x \in T : TRUE
    BY <1>5
  <1>7. T \ {x} \in SUBSET S /\ T \ {x} \notin C
    BY <1>3, <1>4, <1>6
  <1>8. Total(f, S) = Total(f, T \ {x}) + Total(f, S \ (T \ {x}))
    BY <1>7
  <1>9. Total(f, T) = f[x] + Total(f, T \ {x})
    BY <1>4, <1>6, TotalRemove
  <1>10. Total(f, S \ (T \ {x})) = f[x] + Total(f, S \ T)
    <2>1. S \ (T \ {x}) = (S \ T) \cup {x} /\ x \notin S \ T /\ f[x] \in Nat
      BY <1>4, <1>6
    <2>2. QED
      BY <1>4, <2>1, TotalAdd
  <1>11. /\ f[x] \in Nat /\ Total(f, T \ {x}) \in Nat
         /\ Total(f, S \ T) \in Nat
    <2>1. IsFiniteSet(T \ {x}) /\ f[x] \in Nat
      BY <1>4, <1>6, FS_Subset
    <2>2. QED
      BY <1>4, <2>1, TotalType
  <1>12. QED
    BY <1>4, <1>8, <1>9, <1>10, <1>11

\* A sum over one set becomes a sum over another, and the two differ in one
\* element at most.
SumMoves(f, S, g, T, a) ==
  /\ Total(f, S) \in Nat /\ Total(g, T) \in Nat
  /\ a \notin S /\ a \notin T => Total(g, T) = Total(f, S)
  /\ a \notin S /\ a \in T => Total(g, T) = Total(f, S) + g[a]
  /\ a \in S /\ a \notin T => Total(f, S) = Total(g, T) + f[a]
  /\ a \in S /\ a \in T /\ f[a] = g[a] => Total(g, T) = Total(f, S)

\* So it is if the values differ nowhere else.
LEMMA TotalMoves ==
  ASSUME NEW f, NEW g, NEW S, NEW T, NEW a, IsFiniteSet(S), IsFiniteSet(T),
         \A x \in S : f[x] \in Nat, \A x \in T : g[x] \in Nat,
         \A x \in S \cup T : x # a => x \in S /\ x \in T /\ f[x] = g[x]
  PROVE  SumMoves(f, S, g, T, a)
  <1>1. Total(f, S) \in Nat /\ Total(g, T) \in Nat
    BY TotalType
  <1>2. CASE S = T
    <2>1. (a \in S => f[a] = g[a]) => Total(f, S) = Total(g, S)
      BY <1>2, TotalSame
    <2>2. QED
      BY <1>1, <1>2, <2>1 DEF SumMoves
  <1>3. CASE a \notin S /\ a \in T
    <2>1. T = S \cup {a} /\ \A x \in S : f[x] = g[x]
      BY <1>3
    <2>2. Total(g, S) = Total(f, S)
      BY <2>1, TotalSame
    <2>3. Total(g, T) = g[a] + Total(g, S)
      BY <1>3, <2>1, TotalAdd
    <2>4. QED
      BY <1>1, <1>3, <2>2, <2>3 DEF SumMoves
  <1>4. CASE a \in S /\ a \notin T
    <2>1. S = T \cup {a} /\ \A x \in T : g[x] = f[x]
      BY <1>4
    <2>2. Total(f, T) = Total(g, T)
      BY <2>1, TotalSame
    <2>3. Total(f, S) = f[a] + Total(f, T)
      BY <1>4, <2>1, TotalAdd
    <2>4. QED
      BY <1>1, <1>4, <2>2, <2>3 DEF SumMoves
  <1>5. QED
    BY <1>2, <1>3, <1>4

\* One element's value is exchanged for another.
LEMMA TotalExchange ==
  ASSUME NEW f, NEW g, NEW S, NEW a \in S, IsFiniteSet(S),
         \A x \in S : f[x] \in Nat /\ g[x] \in Nat,
         \A x \in S : x # a => g[x] = f[x]
  PROVE  /\ Total(f, S) \in Nat /\ Total(g, S) \in Nat
         /\ Total(g, S) + f[a] = Total(f, S) + g[a]
  <1> DEFINE R == S \ {a}
  <1>1. IsFiniteSet(R) /\ R \subseteq S
    BY FS_Subset
  <1>2. Total(f, S) = f[a] + Total(f, R) /\ Total(g, S) = g[a] + Total(g, R)
    BY TotalRemove
  <1>3. Total(f, R) \in Nat /\ Total(f, R) = Total(g, R)
    BY <1>1, TotalType, TotalSame
  <1> HIDE DEF R
  <1>4. QED
    BY <1>2, <1>3

\* Nothing to add up, no sum.
LEMMA TotalNothing ==
  ASSUME NEW f, NEW S, IsFiniteSet(S), \A x \in S : f[x] = 0
  PROVE  Total(f, S) = 0
  <1> DEFINE C == {T \in SUBSET S : Total(f, T) # 0}
  <1>1. SUFFICES ASSUME C # {} PROVE FALSE
    OBVIOUS
  <1>2. PICK T \in C : \A D \in C : D \subseteq T => D = T
    <2>1. C \in SUBSET SUBSET S
      OBVIOUS
    <2> HIDE DEF C
    <2>2. QED
      BY <1>1, <2>1, SmallestSet
  <1>3. T \in SUBSET S /\ IsFiniteSet(T) /\ Total(f, T) # 0
    BY <1>2, FS_Subset
  <1>4. T # {}
    BY <1>3, TotalTakes
  <1>5. /\ Next1(T) \in T
        /\ T \ {Next1(T)} \in SUBSET S /\ T \ {Next1(T)} \notin C
    BY <1>2, <1>3, <1>4, TakeOne
  <1>6. QED
    BY <1>3, <1>4, <1>5, TotalTakes

\* The same of their sizes.
LEMMA CountMoves ==
  ASSUME NEW S, NEW T, NEW a, IsFiniteSet(S), IsFiniteSet(T),
         \A x \in S \cup T : x # a => x \in S /\ x \in T
  PROVE  /\ Cardinality(S) \in Nat /\ Cardinality(T) \in Nat
         /\ (a \in S <=> a \in T) => Cardinality(T) = Cardinality(S)
         /\ a \notin S /\ a \in T => Cardinality(T) = Cardinality(S) + 1
         /\ a \in S /\ a \notin T => Cardinality(S) = Cardinality(T) + 1
  <1>1. Cardinality(S) \in Nat /\ Cardinality(T) \in Nat
    BY FS_CardinalityType
  <1>2. CASE a \in S <=> a \in T
    <2>1. S = T
      BY <1>2
    <2>2. QED
      BY <1>1, <1>2, <2>1
  <1>3. CASE a \notin S /\ a \in T
    <2>1. T = S \cup {a}
      BY <1>3
    <2>2. QED
      BY <1>1, <1>3, <2>1, FS_AddElement
  <1>4. CASE a \in S /\ a \notin T
    <2>1. S = T \cup {a}
      BY <1>4
    <2>2. QED
      BY <1>1, <1>4, <2>1, FS_AddElement
  <1>5. QED
    BY <1>2, <1>3, <1>4

-----------------------------------------------------------------------------
(* Smallest members and ranks.                                             *)

\* A set of natural numbers has a smallest one, and Min gives it.
LEMMA SmallestNumber ==
  ASSUME NEW S \in SUBSET Nat, S # {}
  PROVE  Min(S) \in S /\ \A n \in S : Min(S) <= n
  <1>1. PICK b \in S : TRUE
    OBVIOUS
  <1> DEFINE B == 0..b
             C == {0..n : n \in {m \in S : m <= b}}
  <1>2. PICK T \in C : \A U \in C : U \subseteq T => U = T
    <2>1. b \in Nat /\ b \in Int /\ 0 \in Int
      BY <1>1
    <2>2. IsFiniteSet(B)
      BY <2>1, FS_Interval
    <2>3. \A n \in S : n <= b => 0..n \subseteq B
      BY <2>1
    <2>4. C \in SUBSET SUBSET B
      BY <2>3
    <2>5. C # {}
      BY <1>1, <2>1
    <2> HIDE DEF B, C
    <2>6. QED
      BY <2>2, <2>4, <2>5, SmallestSet
  <1>3. PICK m \in S : m <= b /\ T = 0..m
    BY <1>2
  <1>4. ASSUME NEW n \in S, n < m
        PROVE  FALSE
    <2>1. 0..n \in C /\ 0..n \subseteq T
      BY <1>1, <1>3, <1>4
    <2>2. 0..n = 0..m
      BY <1>2, <1>3, <2>1
    <2>3. m \in 0..m /\ m \notin 0..n
      BY <1>3, <1>4
    <2>4. QED
      BY <2>2, <2>3
  <1>5. \E x \in S : \A n \in S : x <= n
    BY <1>3, <1>4
  <1>6. QED
    BY <1>5 DEF Min

\* The smaller of two numbers.
LEMMA SmallerOfTwo ==
  ASSUME NEW m \in Nat, NEW n \in Nat
  PROVE  /\ Min({m, n}) \in Nat /\ Min({m, n}) \in {m, n}
         /\ Min({m, n}) <= m /\ Min({m, n}) <= n
  <1>1. {m, n} \in SUBSET Nat /\ {m, n} # {}
    OBVIOUS
  <1>2. Min({m, n}) \in {m, n} /\ \A x \in {m, n} : Min({m, n}) <= x
    BY <1>1, SmallestNumber
  <1>3. QED
    BY <1>2

\* How many of the places in T come before m, with m itself.
RankIn(T, m) == Cardinality({l \in T : l <= m})

\* Among finitely many places there is one of every rank.
LEMMA EveryRank ==
  ASSUME NEW T \in SUBSET Nat, IsFiniteSet(T)
  PROVE  /\ Cardinality(T) \in Nat
         /\ \A m \in T : RankIn(T, m) \in 1..Cardinality(T)
         /\ \A l, m \in T : l < m => RankIn(T, l) < RankIn(T, m)
         /\ \A n \in 1..Cardinality(T) : \E m \in T : RankIn(T, m) = n
  <1> DEFINE up(m) == {l \in T : l <= m}
  <1>1. Cardinality(T) \in Nat
    BY FS_CardinalityType
  <1>2. ASSUME NEW m \in T
        PROVE  /\ IsFiniteSet(up(m)) /\ RankIn(T, m) \in Nat
               /\ RankIn(T, m) <= Cardinality(T) /\ RankIn(T, m) > 0
    <2>1. IsFiniteSet(up(m)) /\ Cardinality(up(m)) <= Cardinality(T)
      BY FS_Subset
    <2>2. Cardinality(up(m)) \in Nat
      BY <2>1, FS_CardinalityType
    <2>3. up(m) # {}
      BY <1>2
    <2>4. Cardinality(up(m)) # 0
      BY <2>1, <2>3, FS_EmptySet
    <2>5. QED
      BY <2>1, <2>2, <2>4 DEF RankIn
  <1> HIDE DEF up
  <1>2a. \A m \in T : RankIn(T, m) \in 1..Cardinality(T)
    <2>1. ASSUME NEW m \in T PROVE RankIn(T, m) \in 1..Cardinality(T)
      BY <1>1, <1>2, <2>1
    <2>2. QED
      BY <2>1
  <1> USE DEF up
  <1>3. ASSUME NEW l \in T, NEW m \in T, l < m
        PROVE  RankIn(T, l) < RankIn(T, m)
    <2>1. up(l) \subseteq up(m) /\ up(l) # up(m)
      <3>1. l \in Nat /\ m \in Nat /\ \A k \in T : k \in Nat
        BY <1>3
      <3>2. m \in up(m) /\ m \notin up(l)
        BY <1>3, <3>1
      <3>3. \A k \in T : k <= l => k <= m
        BY <1>3, <3>1
      <3>4. QED
        BY <3>2, <3>3
    <2>2. Cardinality(up(l)) < Cardinality(up(m))
      <3> HIDE DEF up
      <3>1. QED
        BY <1>2, <2>1, FS_Subset, FS_CardinalityType
    <2>3. QED
      BY <2>2 DEF RankIn
  <1>4. ASSUME NEW n \in 1..Cardinality(T)
        PROVE  \E m \in T : RankIn(T, m) = n
    <2> DEFINE r == [m \in T |-> RankIn(T, m)]
               R == {r[m] : m \in T}
    <2>1. \A m \in T : r[m] \in 1..Cardinality(T)
      BY <1>2a
    <2>2. \A l, m \in T : r[l] = r[m] => l = m
      <3>1. ASSUME NEW l \in T, NEW m \in T, r[l] = r[m]
            PROVE  l = m
        <4>1. l \in Nat /\ m \in Nat /\ RankIn(T, l) = RankIn(T, m)
              /\ RankIn(T, l) \in Nat
          BY <1>2, <3>1
        <4>2. ~(l < m) /\ ~(m < l)
          BY <1>3, <4>1
        <4>3. QED
          BY <4>1, <4>2
      <3>2. QED
        BY <3>1
    <2>3. R \subseteq 1..Cardinality(T)
      BY <2>1
    <2>4. /\ IsFiniteSet(1..Cardinality(T))
          /\ Cardinality(1..Cardinality(T)) = Cardinality(T)
      BY <1>1, FS_Interval
    <2>5. Cardinality(R) = Cardinality(T)
      <3>1. r \in Bijection(T, R)
        <4>1. r \in [T -> R] /\ \A y \in R : \E x \in T : r[x] = y
          OBVIOUS
        <4> HIDE DEF r, R
        <4>2. QED
          BY <2>2, <4>1 DEF Bijection, Injection, Surjection, IsInjective
      <3>2. ExistsBijection(T, R)
        BY <3>1 DEF ExistsBijection
      <3> HIDE DEF r, R
      <3>3. QED
        BY <3>2, FS_Bijection
    <2>6. R = 1..Cardinality(T)
      <3> HIDE DEF R, r
      <3>1. QED
        BY <2>3, <2>4, <2>5, FS_Subset
    <2>7. QED
      BY <2>6
  <1> HIDE DEF up
  <1>5. QED
    BY <1>1, <1>2a, <1>3, <1>4

\* The greatest of finitely many numbers.
LEMMA GreatestNumber ==
  ASSUME NEW S \in SUBSET Nat, IsFiniteSet(S), S # {}
  PROVE  \E m \in S : \A n \in S : n <= m
  <1>1. /\ Cardinality(S) \in Nat
        /\ \A m \in S : RankIn(S, m) \in 1..Cardinality(S)
        /\ \A l, m \in S : l < m => RankIn(S, l) < RankIn(S, m)
        /\ \A n \in 1..Cardinality(S) : \E m \in S : RankIn(S, m) = n
    BY EveryRank
  <1>2. Cardinality(S) # 0
    BY FS_EmptySet
  <1>3. PICK m \in S : RankIn(S, m) = Cardinality(S)
    BY <1>1, <1>2
  <1>4. ASSUME NEW n \in S, m < n
        PROVE  FALSE
    <2>1. RankIn(S, n) \in 1..Cardinality(S) /\ Cardinality(S) < RankIn(S, n)
      BY <1>1, <1>3, <1>4
    <2>2. QED
      BY <1>1, <2>1
  <1>5. \A n \in S : n <= m
    BY <1>4
  <1>6. QED
    BY <1>5
=============================================================================
