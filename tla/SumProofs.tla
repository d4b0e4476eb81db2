------------------------------ MODULE SumProofs ------------------------------
(***************************************************************************)
(* Sums over finite sets, and their greatest and least elements.           *)
(***************************************************************************)
EXTENDS FiniteSetsExt, FiniteSetTheorems, Integers, TLAPS

\* The sum of f over S, as MapThenSumSet computes it.
Total(f, S) == MapThenSumSet(LAMBDA x : f[x], S)

\* What MapThenSumSet computes it with, for the subsets of S.
Partial(f, S) ==
    CHOOSE it : it = [s \in SUBSET S |->
                         IF s = {} THEN 0
                         ELSE LET x == CHOOSE y \in s : TRUE IN f[x] + it[s \ {x}]]

\* The sum is the last of the partial ones.
LEMMA TotalIsPartial ==
    ASSUME NEW f, NEW S
    PROVE  Total(f, S) = Partial(f, S)[S]
  BY Zenon DEF Total, Partial, MapThenSumSet, MapThenFoldSet

\* A set of subsets of a finite set has a least one.
LEMMA LeastSubset ==
    ASSUME NEW D, IsFiniteSet(D), NEW C \in SUBSET (SUBSET D), C # {}
    PROVE  \E T \in C : \A U \in SUBSET T : U \in C => U = T
  <1>1. IsWellFoundedOn(StrictSubsetOrdering(D), SUBSET D)
    BY FS_StrictSubsetOrderingWellFounded, FS_FiniteSubsetsOfFinite
  <1>2. PICK T \in C : \A U \in C : <<U, T>> \notin StrictSubsetOrdering(D)
    BY <1>1, WFMin
  <1>3. \A U \in SUBSET T : U \in C => U = T
    BY <1>2 DEF StrictSubsetOrdering
  <1> QED
    BY <1>3

\* The element that MapThenSumSet takes from s.
Pick(s) == CHOOSE y \in s : TRUE

\* it maps every subset of S to the sum of f over it.
IsPartial(f, S, it) ==
    it = [s \in SUBSET S |-> IF s = {} THEN 0 ELSE f[Pick(s)] + it[s \ {Pick(s)}]]

\* The element that is added next.
LEMMA PickIsElement == ASSUME NEW s, s # {} PROVE Pick(s) \in s
  BY DEF Pick

\* Two such functions agree where they are both defined.
LEMMA PartialUnique ==
    ASSUME NEW D, IsFiniteSet(D), NEW f, NEW S \in SUBSET D, NEW R \in SUBSET D,
           NEW g, IsPartial(f, S, g), NEW h, IsPartial(f, R, h)
    PROVE  \A s \in SUBSET (S \cap R) : g[s] = h[s]
  <1> DEFINE C == {s \in SUBSET (S \cap R) : g[s] # h[s]}
  <1> SUFFICES ASSUME C # {} PROVE FALSE
    OBVIOUS
  <1>1. PICK T \in C : \A U \in SUBSET T : U \in C => U = T
    <2>1. C \in SUBSET (SUBSET D)
      OBVIOUS
    <2> HIDE DEF C
    <2> QED
      BY <2>1, LeastSubset
  <1>2. T \in SUBSET S /\ T \in SUBSET R /\ g[T] # h[T]
    OBVIOUS
  <1>3. g[T] = IF T = {} THEN 0 ELSE f[Pick(T)] + g[T \ {Pick(T)}]
    BY <1>2 DEF IsPartial
  <1>4. h[T] = IF T = {} THEN 0 ELSE f[Pick(T)] + h[T \ {Pick(T)}]
    BY <1>2 DEF IsPartial
  <1>5. T # {}
    BY <1>2, <1>3, <1>4
  <1>6. g[T \ {Pick(T)}] = h[T \ {Pick(T)}]
    BY <1>1, <1>2, <1>5, PickIsElement
  <1> QED
    BY <1>2, <1>3, <1>4, <1>5, <1>6

\* There is such a function.
LEMMA PartialExists ==
    ASSUME NEW D, IsFiniteSet(D), NEW f, NEW S \in SUBSET D
    PROVE  \E it : IsPartial(f, S, it)
  <1> DEFINE C == {R \in SUBSET D : ~ \E it : IsPartial(f, R, it)}
  <1> SUFFICES ASSUME C # {} PROVE FALSE
    OBVIOUS
  <1>1. PICK T \in C : \A U \in SUBSET T : U \in C => U = T
    <2>1. C \in SUBSET (SUBSET D)
      OBVIOUS
    <2> HIDE DEF C
    <2> QED
      BY <2>1, LeastSubset
  <1>2. T \in SUBSET D /\ ~ \E it : IsPartial(f, T, it)
    OBVIOUS
  <1> DEFINE h(U) == CHOOSE it : IsPartial(f, U, it)
  <1>3. \A U \in SUBSET T : U # T => IsPartial(f, U, h(U))
    <2> SUFFICES ASSUME NEW U \in SUBSET T, U # T PROVE IsPartial(f, U, h(U))
      OBVIOUS
    <2>1. \E it : IsPartial(f, U, it)
      BY <1>1, <1>2
    <2> QED
      BY <2>1
  <1> DEFINE it == [s \in SUBSET T |->
                       IF s = {} THEN 0
                       ELSE f[Pick(s)] + h(s \ {Pick(s)})[s \ {Pick(s)}]]
  <1>4. ASSUME NEW r \in SUBSET T, r # T
        PROVE  it[r] = h(r)[r]
    <2>1. IsPartial(f, r, h(r))
      BY <1>3, <1>4
    <2> HIDE DEF h
    <2>2. h(r)[r] = IF r = {} THEN 0 ELSE f[Pick(r)] + h(r)[r \ {Pick(r)}]
      BY <2>1 DEF IsPartial
    <2>3. CASE r = {}
      BY <2>2, <2>3
    <2>4. CASE r # {}
      <3> DEFINE q == r \ {Pick(r)}
      <3>1. q \in SUBSET T /\ q # T /\ q \in SUBSET r
        BY <2>4, PickIsElement
      <3>2. IsPartial(f, q, h(q))
        BY <1>3, <3>1
      <3>3. h(r)[q] = h(q)[q]
        BY <1>2, <2>1, <3>1, <3>2, PartialUnique
      <3> QED
        BY <2>2, <2>4, <3>3
    <2> QED
      BY <2>3, <2>4
  <1>5. ASSUME NEW s \in SUBSET T, s # {}
        PROVE  it[s \ {Pick(s)}] = h(s \ {Pick(s)})[s \ {Pick(s)}]
    <2> HIDE DEF it, h
    <2> QED
      BY <1>4, <1>5, PickIsElement
  <1>6. IsPartial(f, T, it)
    <2>1. it = [s \in SUBSET T |-> IF s = {} THEN 0 ELSE f[Pick(s)] + it[s \ {Pick(s)}]]
      <3>1. ASSUME NEW s \in SUBSET T
            PROVE  (IF s = {} THEN 0 ELSE f[Pick(s)] + h(s \ {Pick(s)})[s \ {Pick(s)}])
                   = (IF s = {} THEN 0 ELSE f[Pick(s)] + it[s \ {Pick(s)}])
        <4> HIDE DEF it, h
        <4> QED
          BY <1>5
      <3> DEFINE body(s) ==
              IF s = {} THEN 0 ELSE f[Pick(s)] + h(s \ {Pick(s)})[s \ {Pick(s)}]
      <3> DEFINE again(s) == IF s = {} THEN 0 ELSE f[Pick(s)] + it[s \ {Pick(s)}]
      <3>2. it = [s \in SUBSET T |-> body(s)]
        OBVIOUS
      <3>3. \A s \in SUBSET T : body(s) = again(s)
        BY <3>1
      <3>4. it = [s \in SUBSET T |-> again(s)]
        <4> HIDE DEF it, body, again
        <4> QED
          BY <3>2, <3>3
      <3> QED
        BY <3>4
    <2> HIDE DEF it
    <2> QED
      BY <2>1 DEF IsPartial
  <1> HIDE DEF it
  <1> QED
    BY <1>2, <1>6

\* The sum over a set is that of an element and of the rest.
LEMMA TotalStep ==
    ASSUME NEW D, IsFiniteSet(D), NEW f, NEW S \in SUBSET D
    PROVE  Total(f, S) = IF S = {} THEN 0 ELSE f[Pick(S)] + Total(f, S \ {Pick(S)})
  <1>1. \A R \in SUBSET D : IsPartial(f, R, Partial(f, R))
    <2> SUFFICES ASSUME NEW R \in SUBSET D PROVE IsPartial(f, R, Partial(f, R))
      OBVIOUS
    <2>1. PICK it : IsPartial(f, R, it)
      BY PartialExists
    <2>2. Partial(f, R) = CHOOSE h : IsPartial(f, R, h)
      BY Zenon DEF Partial, IsPartial, Pick
    <2> QED
      BY <2>1, <2>2
  <1>2. Partial(f, S)[S] = IF S = {} THEN 0 ELSE f[Pick(S)] + Partial(f, S)[S \ {Pick(S)}]
    <2>1. IsPartial(f, S, Partial(f, S))
      BY <1>1
    <2> DEFINE it == Partial(f, S)
    <2> HIDE DEF it
    <2>2. IsPartial(f, S, it)
      BY <2>1 DEF it
    <2>3. it[S] = IF S = {} THEN 0 ELSE f[Pick(S)] + it[S \ {Pick(S)}]
      BY <2>2 DEF IsPartial
    <2> QED
      BY <2>3 DEF it
  <1>3. CASE S = {}
    BY <1>2, <1>3, TotalIsPartial
  <1>4. CASE S # {}
    <2> DEFINE R == S \ {Pick(S)}
    <2>1. R \in SUBSET D /\ R \in SUBSET (S \cap R)
      OBVIOUS
    <2>2. Partial(f, S)[R] = Partial(f, R)[R]
      BY <1>1, <2>1, PartialUnique
    <2> QED
      BY <1>2, <1>4, <2>2, TotalIsPartial
  <1> QED
    BY <1>3, <1>4

\* Sums of natural numbers are natural numbers.
LEMMA TotalType ==
    ASSUME NEW D, IsFiniteSet(D), NEW f \in [D -> Nat], NEW S \in SUBSET D
    PROVE  Total(f, S) \in Nat
  <1> DEFINE C == {R \in SUBSET D : Total(f, R) \notin Nat}
  <1> SUFFICES ASSUME C # {} PROVE FALSE
    OBVIOUS
  <1>1. PICK T \in C : \A U \in SUBSET T : U \in C => U = T
    <2>1. C \in SUBSET (SUBSET D)
      OBVIOUS
    <2> HIDE DEF C
    <2> QED
      BY <2>1, LeastSubset
  <1>2. T \in SUBSET D /\ Total(f, T) \notin Nat
    OBVIOUS
  <1>3. Total(f, T) = IF T = {} THEN 0 ELSE f[Pick(T)] + Total(f, T \ {Pick(T)})
    BY <1>2, TotalStep
  <1>4. T # {}
    BY <1>2, <1>3
  <1>5. Pick(T) \in T /\ f[Pick(T)] \in Nat
    BY <1>2, <1>4, PickIsElement
  <1>6. Total(f, T \ {Pick(T)}) \in Nat
    BY <1>1, <1>2, <1>5
  <1> QED
    BY <1>2, <1>3, <1>4, <1>5, <1>6

\* The sum over a set is that of any of its elements and of the rest.
LEMMA TotalRemove ==
    ASSUME NEW D, IsFiniteSet(D), NEW f \in [D -> Nat], NEW S \in SUBSET D, NEW e \in S
    PROVE  Total(f, S) = f[e] + Total(f, S \ {e})
  <1> DEFINE C == {R \in SUBSET D : \E x \in R : Total(f, R) # f[x] + Total(f, R \ {x})}
  <1> SUFFICES ASSUME C # {} PROVE FALSE
    OBVIOUS
  <1>1. PICK T \in C : \A U \in SUBSET T : U \in C => U = T
    <2>1. C \in SUBSET (SUBSET D)
      OBVIOUS
    <2> HIDE DEF C
    <2> QED
      BY <2>1, LeastSubset
  <1>2. T \in SUBSET D
    OBVIOUS
  <1>3. PICK x \in T : Total(f, T) # f[x] + Total(f, T \ {x})
    OBVIOUS
  <1> DEFINE y == Pick(T)
  <1>4. y \in T
    BY <1>3, PickIsElement
  <1>5. Total(f, T) = f[y] + Total(f, T \ {y})
    BY <1>2, <1>4, TotalStep
  <1>6. x # y
    BY <1>3, <1>5
  <1>7. \A r \in SUBSET T : r # T => \A z \in r : Total(f, r) = f[z] + Total(f, r \ {z})
    BY <1>1, <1>2
  <1> HIDE DEF y, C
  <1>8. Total(f, T \ {y}) = f[x] + Total(f, (T \ {y}) \ {x})
    BY <1>3, <1>4, <1>6, <1>7
  <1>9. Total(f, T \ {x}) = f[y] + Total(f, (T \ {x}) \ {y})
    BY <1>3, <1>4, <1>6, <1>7
  <1>10. (T \ {y}) \ {x} = (T \ {x}) \ {y}
    OBVIOUS
  <1>11. /\ f[x] \in Nat /\ f[y] \in Nat /\ Total(f, (T \ {x}) \ {y}) \in Nat
    BY <1>2, <1>4, TotalType
  <1>12. Total(f, T) = f[y] + (f[x] + Total(f, (T \ {x}) \ {y}))
    BY <1>5, <1>8, <1>10
  <1> DEFINE n == Total(f, (T \ {x}) \ {y})
  <1> DEFINE a == f[x]
  <1> DEFINE b == f[y]
  <1>13. a \in Nat /\ b \in Nat /\ n \in Nat /\ b + (a + n) # a + (b + n)
    BY <1>3, <1>9, <1>11, <1>12
  <1> HIDE DEF a, b, n
  <1> QED
    BY <1>13

\* No terms, no sum.
LEMMA TotalEmpty == ASSUME NEW f PROVE Total(f, {}) = 0
  BY TotalStep, FS_EmptySet

\* A sum whose terms are bounded by those of another is bounded by it.
LEMMA TotalBound ==
    ASSUME NEW D, IsFiniteSet(D), NEW f \in [D -> Nat], NEW g \in [D -> Nat],
           NEW W \in SUBSET D, NEW S \in SUBSET D,
           \A e \in W : g[e] <= (IF e \in S THEN f[e] ELSE 0)
    PROVE  Total(g, W) <= Total(f, S)
  <1> DEFINE Dominated(w, s) == \A e \in w : g[e] <= (IF e \in s THEN f[e] ELSE 0)
  <1> DEFINE Bad(w) == \E s \in SUBSET D : Dominated(w, s) /\ ~(Total(g, w) <= Total(f, s))
  <1> DEFINE C == {w \in SUBSET D : Bad(w)}
  <1> SUFFICES ASSUME C # {} PROVE FALSE
    OBVIOUS
  <1>1. PICK T \in C : \A R \in SUBSET T : R \in C => R = T
    <2>1. C \in SUBSET (SUBSET D)
      OBVIOUS
    <2> HIDE DEF C
    <2> QED
      BY <2>1, LeastSubset
  <1>2. T \in SUBSET D /\ Bad(T)
    OBVIOUS
  <1>3. PICK s \in SUBSET D : Dominated(T, s) /\ ~(Total(g, T) <= Total(f, s))
    BY <1>2
  <1>4. \A v \in SUBSET D : Total(f, v) \in Nat /\ Total(g, v) \in Nat
    BY TotalType
  <1>5. T # {}
    <2>1. Total(f, s) \in Nat /\ ~(Total(g, T) <= Total(f, s))
      BY <1>3, <1>4
    <2>2. T = {} => Total(g, T) = 0
      BY TotalEmpty
    <2> QED
      BY <2>1, <2>2
  <1>6. PICK e \in T : TRUE
    BY <1>5
  <1>7. Total(g, T) = g[e] + Total(g, T \ {e})
    BY <1>2, <1>6, TotalRemove
  <1>8. Total(g, T \ {e}) <= Total(f, s \ {e})
    <2>1. Dominated(T \ {e}, s \ {e})
      BY <1>3
    <2>2. ~Bad(T \ {e})
      BY <1>1, <1>2, <1>6
    <2> HIDE DEF Dominated
    <2> QED
      BY <2>1, <2>2
  <1>9. Total(f, s) = (IF e \in s THEN f[e] ELSE 0) + Total(f, s \ {e})
    <2>1. CASE e \in s
      BY <2>1, TotalRemove
    <2>2. CASE e \notin s
      <3>1. s \ {e} = s
        BY <2>2
      <3>2. Total(f, s \ {e}) = Total(f, s) /\ Total(f, s) \in Nat
        BY <1>4, <3>1
      <3> QED
        BY <2>2, <3>2
    <2> QED
      BY <2>1, <2>2
  <1>10. e \in D /\ g[e] \in Nat /\ f[e] \in Nat /\ g[e] <= (IF e \in s THEN f[e] ELSE 0)
    BY <1>2, <1>3, <1>6
  <1>11. Total(f, s \ {e}) \in Nat /\ Total(g, T \ {e}) \in Nat
    BY <1>2, <1>4
  <1>12. ~(g[e] + Total(g, T \ {e}) <= (IF e \in s THEN f[e] ELSE 0) + Total(f, s \ {e}))
    BY <1>3, <1>7, <1>9
  <1> DEFINE a == Total(g, T \ {e})
  <1> DEFINE b == Total(f, s \ {e})
  <1>13. a \in Nat /\ b \in Nat /\ a <= b
         /\ ~(g[e] + a <= (IF e \in s THEN f[e] ELSE 0) + b)
    BY <1>8, <1>11, <1>12
  <1> HIDE DEF a, b
  <1> QED
    BY <1>10, <1>13

\* A finite set of numbers that is not empty has a greatest ...
LEMMA MaxIsElement ==
    ASSUME NEW S, IsFiniteSet(S), S # {}, \A x \in S : x \in Int
    PROVE  Max(S) \in S
  <1> DEFINE From(i) == {j \in S : j >= i}
  <1> DEFINE C == {From(i) : i \in S}
  <1>1. PICK T \in C : \A U \in SUBSET T : U \in C => U = T
    <2>1. C \in SUBSET (SUBSET S) /\ C # {}
      OBVIOUS
    <2> HIDE DEF C
    <2> QED
      BY <2>1, LeastSubset
  <1>2. PICK i \in S : T = From(i)
    OBVIOUS
  <1>3. \A y \in S : i >= y
    <2> SUFFICES ASSUME NEW y \in S, ~(i >= y)
                 PROVE  FALSE
      OBVIOUS
    <2>1. From(y) \in SUBSET T /\ From(y) \in C
      BY <1>2
    <2>2. i \in From(i)
      OBVIOUS
    <2>3. From(y) = From(i)
      <3> HIDE DEF C, From
      <3> QED
        BY <1>1, <1>2, <2>1
    <2> QED
      BY <2>2, <2>3
  <1> QED
    BY <1>3 DEF Max

\* ... and a least.
LEMMA MinIsElement ==
    ASSUME NEW S, IsFiniteSet(S), S # {}, \A x \in S : x \in Int
    PROVE  Min(S) \in S /\ \A y \in S : Min(S) <= y
  <1> DEFINE To(i) == {j \in S : j <= i}
  <1> DEFINE C == {To(i) : i \in S}
  <1>1. PICK T \in C : \A U \in SUBSET T : U \in C => U = T
    <2>1. C \in SUBSET (SUBSET S) /\ C # {}
      OBVIOUS
    <2> HIDE DEF C
    <2> QED
      BY <2>1, LeastSubset
  <1>2. PICK i \in S : T = To(i)
    OBVIOUS
  <1>3. \A y \in S : i <= y
    <2> SUFFICES ASSUME NEW y \in S, ~(i <= y)
                 PROVE  FALSE
      OBVIOUS
    <2>1. To(y) \in SUBSET T /\ To(y) \in C
      BY <1>2
    <2>2. i \in To(i)
      OBVIOUS
    <2>3. To(y) = To(i)
      <3> HIDE DEF C, To
      <3> QED
        BY <1>1, <1>2, <2>1
    <2> QED
      BY <2>2, <2>3
  <1> QED
    BY <1>3 DEF Min

=============================================================================
