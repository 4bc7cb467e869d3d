----------------------------- MODULE Induction -----------------------------
(***************************************************************************)
(* What the other proofs need of induction: a set of natural numbers has a  *)
(* least element, a bounded one a greatest, and a function that is defined  *)
(* by recursion on a number exists.  And what they need of products,         *)
(* quotients and folds.                                                    *)
(***************************************************************************)
EXTENDS Integers, FiniteSetTheorems, TLAPS, WellFoundedInduction

\* A set of natural numbers has a least one.
LEMMA LeastNumber ==
  ASSUME NEW S \in SUBSET Nat, S # {}
  PROVE  \E m \in S : \A k \in S : m <= k
<1> DEFINE R == OpToRel(<, Nat)
<1>1. IsWellFoundedOn(R, Nat)
  BY NatLessThanWellFounded
<1>2. \A x, y \in Nat : <<y, x>> \in R <=> y < x
  BY DEF OpToRel
<1> HIDE DEF R
<1>3. PICK m \in S : \A y \in S : ~ (<<y, m>> \in R)
  BY <1>1, WFMin
<1>4. \A k \in S : m <= k
  <2> TAKE k \in S
  <2>1. ~ (k < m) /\ k \in Nat /\ m \in Nat
    BY <1>2, <1>3
  <2> QED BY <2>1
<1> QED
  BY <1>4

\* And one that is bounded has a greatest one.
LEMMA GreatestNumber ==
  ASSUME NEW n \in Nat, NEW S \in SUBSET (1 .. n), S # {}
  PROVE  \E m \in S : \A k \in S : k <= m
<1> DEFINE T == {n - k : k \in S}
<1>1. T \in SUBSET Nat /\ T # {}
  <2>1. \A k \in S : k \in 1 .. n /\ n - k \in Nat
    OBVIOUS
  <2>2. \E k \in S : n - k \in T
    OBVIOUS
  <2> QED BY <2>1, <2>2
<1>2. PICK t \in T : \A u \in T : t <= u
  <2> HIDE DEF T
  <2> QED BY <1>1, LeastNumber
<1>3. PICK m \in S : t = n - m
  BY <1>2
<1>4. \A k \in S : k <= m
  <2> TAKE k \in S
  <2>1. n - m <= n - k
    BY <1>2, <1>3
  <2> QED BY <2>1
<1> QED
  BY <1>4

\* What holds of 0 and goes from each number to the next holds of all.
LEMMA StepByStep ==
  ASSUME NEW n \in Nat, NEW G \in SUBSET (0 .. n), 0 \in G,
         \A k \in 1 .. n : k - 1 \in G => k \in G
  PROVE  G = 0 .. n
<1> DEFINE D == (0 .. n) \ G
<1>1. D \in SUBSET Nat
  OBVIOUS
<1>2. D = {}
  <2> SUFFICES ASSUME D # {} PROVE FALSE
    OBVIOUS
  <2>1. PICK m \in D : \A k \in D : m <= k
    <3> HIDE DEF D
    <3> QED BY <1>1, LeastNumber
  <2>2. m \in 1 .. n /\ m - 1 \in 0 .. n /\ ~ (m <= m - 1)
    BY <2>1
  <2>3. m - 1 \in G
    BY <2>1, <2>2
  <2> QED BY <2>1, <2>2, <2>3
<1> QED
  BY <1>2

\* What recursive definitions like f[k \in 0 .. n] stand for: a first value, and what is
\* made at each later place of the value before.
Recursive(f, n, S, a, next) ==
  f \in [0 .. n -> S] /\ f[0] = a /\ \A k \in 1 .. n : f[k] = next[k][f[k - 1]]

\* There is such a function.
LEMMA Recursion ==
  ASSUME NEW n \in Nat, NEW S, NEW a \in S, NEW next \in [1 .. n -> [S -> S]]
  PROVE  \E f : Recursive(f, n, S, a, next)
<1> DEFINE Up(f, m) == f \in [0 .. m -> S] /\ f[0] = a /\ \A k \in 1 .. m : f[k] = next[k][f[k - 1]]
           Bad == {m \in 0 .. n : ~ \E f : Up(f, m)}
<1>1. 0 \notin Bad
  <2> DEFINE f == [k \in 0 .. 0 |-> a]
  <2>1. Up(f, 0)
    OBVIOUS
  <2> HIDE DEF f, Up
  <2> QED BY <2>1
<1>2. ASSUME NEW m \in 1 .. n, m - 1 \notin Bad PROVE m \notin Bad
  <2>1. m - 1 \in 0 .. n
    OBVIOUS
  <2>2. PICK f : Up(f, m - 1)
    BY <1>2, <2>1
  <2> DEFINE g == [k \in 0 .. m |-> IF k = m THEN next[m][f[m - 1]] ELSE f[k]]
  <2>3. f \in [0 .. m - 1 -> S] /\ f[0] = a /\ \A k \in 1 .. m - 1 : f[k] = next[k][f[k - 1]]
    BY <2>2
  <2>4. f[m - 1] \in S /\ next[m] \in [S -> S]
    BY <2>3
  <2>5. \A k \in 0 .. m : k # m => k \in 0 .. m - 1 /\ f[k] \in S
    BY <2>3
  <2>6. g \in [0 .. m -> S] /\ g[0] = a
    BY <2>3, <2>4, <2>5
  <2>7. \A k \in 1 .. m : g[k] = next[k][g[k - 1]]
    <3> TAKE k \in 1 .. m
    <3>1. k - 1 \in 0 .. m /\ k \in 0 .. m /\ k - 1 # m
      OBVIOUS
    <3>2. CASE k = m
      BY <3>1, <3>2
    <3>3. CASE k # m
      <4>1. k \in 1 .. m - 1
        BY <3>3
      <4> QED BY <2>3, <3>1, <3>3, <4>1
    <3> QED BY <3>2, <3>3
  <2>8. Up(g, m)
    <3> HIDE DEF g
    <3> QED BY <2>6, <2>7
  <2> HIDE DEF g, Up
  <2> QED BY <2>8
<1>3. Bad = {}
  <2> SUFFICES ASSUME Bad # {} PROVE FALSE
    OBVIOUS
  <2> HIDE DEF Up
  <2>1. Bad \in SUBSET Nat /\ Bad \subseteq 0 .. n
    OBVIOUS
  <2> HIDE DEF Bad
  <2>2. PICK m \in Bad : \A k \in Bad : m <= k
    BY <2>1, LeastNumber
  <2>3. m \in 1 .. n
    BY <1>1, <2>1, <2>2
  <2>4. m - 1 \notin Bad
    <3>1. ~ (m <= m - 1)
      BY <2>3
    <3> QED BY <2>2, <3>1
  <2> QED BY <1>2, <2>2, <2>3, <2>4
<1>4. n \in 0 .. n
  OBVIOUS
<1>5. \E f : Up(f, n)
  <2> HIDE DEF Up
  <2> QED BY <1>3, <1>4
<1> QED
  BY <1>5 DEF Recursive

\* The same for recursion over any set, to elements of a smaller size: what value makes of
\* an element and of the function depends on the function only there.
BySize(f, S, V, value) == f \in [S -> V] /\ \A e \in S : f[e] = value[e][f]

Shrinks(S, V, value, size, n) ==
  /\ n \in Nat /\ size \in [S -> Nat] /\ \A e \in S : size[e] < n
  /\ value \in [S -> [[S -> V] -> V]]
  /\ \A e \in S : \A f, g \in [S -> V] :
       (\A d \in S : size[d] < size[e] => f[d] = g[d]) => value[e][f] = value[e][g]

LEMMA SizeRecursion ==
  ASSUME NEW S, NEW V, NEW a \in V, NEW value, NEW size, NEW n, Shrinks(S, V, value, size, n)
  PROVE  \E f : BySize(f, S, V, value)
<1> USE DEF Shrinks
<1> DEFINE F == [S -> V]
           Step(g) == [e \in S |-> value[e][g]]
           start == [e \in S |-> a]
           next == [k \in 1 .. n + 1 |-> [g \in F |-> Step(g)]]
<1>1. \A g \in F : Step(g) \in F
  OBVIOUS
<1>2. n + 1 \in Nat /\ start \in F /\ next \in [1 .. n + 1 -> [F -> F]]
  <2>1. start \in F
    OBVIOUS
  <2> HIDE DEF F, Step, start
  <2> QED BY <1>1, <2>1
<1>3. PICK f : Recursive(f, n + 1, F, start, next)
  <2> HIDE DEF F, start, next
  <2> QED BY <1>2, Recursion
<1>4. f \in [0 .. n + 1 -> F]
  BY <1>3 DEF Recursive
<1>5. ASSUME NEW k \in 1 .. n + 1 PROVE f[k] = Step(f[k - 1]) /\ f[k - 1] \in F
  <2>1. f[k] = next[k][f[k - 1]]
    BY <1>3 DEF Recursive
  <2>2. k - 1 \in 0 .. n + 1
    OBVIOUS
  <2> HIDE DEF F, Step
  <2>3. f[k - 1] \in F
    BY <1>4, <2>2
  <2> QED BY <2>1, <2>3
<1> HIDE DEF next
<1> DEFINE G == {k \in 0 .. n : \A e \in S : size[e] < k => f[k][e] = f[k + 1][e]}
<1>6. 0 \in G
  OBVIOUS
<1>7. ASSUME NEW k \in 1 .. n, k - 1 \in G PROVE k \in G
  <2>1. /\ k \in 0 .. n /\ k \in 1 .. n + 1 /\ k + 1 \in 1 .. n + 1
        /\ (k + 1) - 1 = k /\ (k - 1) + 1 = k
    OBVIOUS
  <2>2. f[k] = Step(f[k - 1]) /\ f[k + 1] = Step(f[k]) /\ f[k - 1] \in F /\ f[k] \in F
    <3> HIDE DEF F, Step
    <3> QED BY <1>5, <2>1
  <2>3. \A d \in S : size[d] < k - 1 => f[k - 1][d] = f[k][d]
    BY <1>7, <2>1
  <2>4. ASSUME NEW e \in S, size[e] < k PROVE f[k][e] = f[k + 1][e]
    <3>1. \A d \in S : size[d] < size[e] => f[k - 1][d] = f[k][d]
      BY <2>3, <2>4
    <3>2. value[e][f[k - 1]] = value[e][f[k]]
      BY <2>2, <3>1
    <3> QED BY <2>2, <3>2
  <2> QED BY <2>1, <2>4
<1>8. G \in SUBSET (0 .. n)
  OBVIOUS
<1> HIDE DEF G
<1>9. G = 0 .. n
  BY <1>6, <1>7, <1>8, StepByStep
<1>10. \A e \in S : f[n][e] = f[n + 1][e]
  <2>1. n \in G
    BY <1>9
  <2> QED BY <2>1 DEF G
<1>11. f[n + 1] = Step(f[n]) /\ f[n] \in F
  <2>1. n + 1 \in 1 .. n + 1 /\ (n + 1) - 1 = n
    OBVIOUS
  <2> HIDE DEF F, Step
  <2> QED BY <1>5, <2>1
<1>12. \A e \in S : f[n][e] = value[e][f[n]]
  BY <1>10, <1>11
<1> QED
  BY <1>11, <1>12 DEF BySize
----------------------------------------------------------------------------
(***************************************************************************)
(* Products and quotients.                                                 *)
(***************************************************************************)
\* Products of what is smaller.
LEMMA LargerProduct ==
  ASSUME NEW a \in Int, NEW b \in Int, NEW c \in Nat, a <= b
  PROVE  a * c <= b * c
OBVIOUS

LEMMA ShorterProduct ==
  ASSUME NEW a \in Int, NEW b \in Int, NEW c \in Nat \ {0}
  PROVE  /\ a * c <= b * c => a <= b
         /\ a * c < b * c => a < b
         /\ a * c = b * c => a = b
OBVIOUS

LEMMA Division ==
  ASSUME NEW a \in Nat, NEW b \in Nat \ {0}
  PROVE  /\ a \div b \in Nat /\ a % b \in Nat /\ a % b < b
         /\ a = (a \div b) * b + (a % b)
<1> DEFINE q == a \div b
           r == a % b
<1>1. q \in Int /\ r \in 0 .. b - 1
  OBVIOUS
<1>2. a = b * q + r
  BY SMT
<1> HIDE DEF q, r
<1>3. q \in Nat
  <2> SUFFICES ASSUME q + 1 <= 0 PROVE FALSE
    BY <1>1
  <2>1. b * (q + 1) <= 0
    BY <1>1
  <2>2. b * (q + 1) = b * q + b
    BY <1>1
  <2> QED BY <1>1, <1>2, <2>1, <2>2
<1>4. a = q * b + r
  BY <1>1, <1>2
<1>5. r \in Nat /\ r < b
  BY <1>1
<1> QED
  BY <1>3, <1>4, <1>5 DEF q, r

LEMMA QuotientIs ==
  ASSUME NEW a, a \in Nat, NEW b, b \in Nat \ {0}, NEW q, q \in Nat, NEW r, r \in Nat, r < b,
         a = q * b + r
  PROVE  a \div b = q /\ a % b = r
<1> DEFINE u == a \div b
           v == a % b
<1>1. u \in Nat /\ v \in Nat /\ v < b /\ a = u * b + v
  BY Division
<1> HIDE DEF u, v
<1>2. u = q
  <2>1. ASSUME u + 1 <= q PROVE FALSE
    <3>1. (u + 1) * b <= q * b
      BY <1>1, <2>1, LargerProduct
    <3>2. (u + 1) * b = u * b + b
      BY <1>1
    <3> QED BY <1>1, <3>1, <3>2
  <2>2. ASSUME q + 1 <= u PROVE FALSE
    <3>1. (q + 1) * b <= u * b
      BY <1>1, <2>2, LargerProduct
    <3>2. (q + 1) * b = q * b + b
      OBVIOUS
    <3> QED BY <1>1, <3>1, <3>2
  <2> QED BY <1>1, <2>1, <2>2
<1>3. v = r
  BY <1>1, <1>2
<1> QED
  BY <1>2, <1>3 DEF u, v
----------------------------------------------------------------------------
(***************************************************************************)
(* Folds over a finite set, which take its elements in an order of their    *)
(* own.                                                                    *)
(***************************************************************************)
AnyOf(T) == CHOOSE x \in T : TRUE

\* What a fold makes of each subset: a of none, and with one element more what step
\* makes of the value without it.
Folded(S, a, step, g) ==
  [T \in SUBSET S |-> IF T = {} THEN a ELSE step[AnyOf(T)][g[T \ {AnyOf(T)}]]]

IsFold(g, S, V, a, step) == g \in [SUBSET S -> V] /\ g = Folded(S, a, step, g)

LEMMA WithoutAny ==
  ASSUME NEW S, IsFiniteSet(S), NEW T \in SUBSET S, T # {}
  PROVE  /\ AnyOf(T) \in T /\ T \ {AnyOf(T)} \in SUBSET S
         /\ Cardinality(T) \in Nat /\ Cardinality(T \ {AnyOf(T)}) = Cardinality(T) - 1
         /\ Cardinality(T \ {AnyOf(T)}) \in Nat
<1>1. AnyOf(T) \in T
  BY DEF AnyOf
<1>2. IsFiniteSet(T)
  BY FS_Subset
<1> QED
  BY <1>1, <1>2, FS_RemoveElement, FS_CardinalityType

\* There is such a function.
LEMMA FoldExists ==
  ASSUME NEW S, IsFiniteSet(S), NEW V, NEW a \in V, NEW step \in [S -> [V -> V]]
  PROVE  \E g : IsFold(g, S, V, a, step)
<1> DEFINE n == Cardinality(S)
           size == [T \in SUBSET S |-> Cardinality(T)]
           value == [T \in SUBSET S |-> [g \in [SUBSET S -> V] |->
                       IF T = {} THEN a ELSE step[AnyOf(T)][g[T \ {AnyOf(T)}]]]]
<1>1. n + 1 \in Nat /\ \A T \in SUBSET S : Cardinality(T) \in Nat /\ Cardinality(T) < n + 1
  BY FS_Subset, FS_CardinalityType
<1>2. size \in [SUBSET S -> Nat] /\ \A T \in SUBSET S : size[T] < n + 1
  BY <1>1
<1>3. value \in [SUBSET S -> [[SUBSET S -> V] -> V]]
  <2>1. ASSUME NEW T \in SUBSET S, NEW g \in [SUBSET S -> V], T # {}
        PROVE  step[AnyOf(T)][g[T \ {AnyOf(T)}]] \in V
    <3>1. AnyOf(T) \in S /\ T \ {AnyOf(T)} \in SUBSET S
      BY <2>1, WithoutAny
    <3>2. g[T \ {AnyOf(T)}] \in V /\ step[AnyOf(T)] \in [V -> V]
      BY <3>1
    <3> QED BY <3>1, <3>2
  <2>2. \A T \in SUBSET S : \A g \in [SUBSET S -> V] :
          (IF T = {} THEN a ELSE step[AnyOf(T)][g[T \ {AnyOf(T)}]]) \in V
    BY <2>1
  <2> QED BY <2>2
<1>4. ASSUME NEW T \in SUBSET S, NEW f \in [SUBSET S -> V], NEW g \in [SUBSET S -> V],
             \A U \in SUBSET S : size[U] < size[T] => f[U] = g[U]
      PROVE  value[T][f] = value[T][g]
  <2>1. CASE T = {}
    BY <2>1
  <2>2. CASE T # {}
    <3>1. T \ {AnyOf(T)} \in SUBSET S /\ Cardinality(T \ {AnyOf(T)}) = Cardinality(T) - 1
      BY <2>2, WithoutAny
    <3>2. size[T \ {AnyOf(T)}] < size[T]
      <4>1. size[T \ {AnyOf(T)}] = Cardinality(T \ {AnyOf(T)}) /\ size[T] = Cardinality(T)
        BY <3>1
      <4> QED BY <1>1, <3>1, <4>1
    <3>3. f[T \ {AnyOf(T)}] = g[T \ {AnyOf(T)}]
      BY <1>4, <3>1, <3>2
    <3> QED BY <2>2, <3>3
  <2> QED BY <2>1, <2>2
<1>5. PICK g : BySize(g, SUBSET S, V, value)
  <2> DEFINE m == n + 1
  <2>1. m \in Nat /\ size \in [SUBSET S -> Nat] /\ \A T \in SUBSET S : size[T] < m
    BY <1>1, <1>2
  <2>2. \A T \in SUBSET S : \A f, h \in [SUBSET S -> V] :
          (\A U \in SUBSET S : size[U] < size[T] => f[U] = h[U]) => value[T][f] = value[T][h]
    BY <1>4
  <2> HIDE DEF n, size, value, m
  <2>3. Shrinks(SUBSET S, V, value, size, m)
    BY <1>3, <2>1, <2>2 DEF Shrinks
  <2> QED BY <2>3, SizeRecursion
<1>6. g \in [SUBSET S -> V] /\ \A T \in SUBSET S : g[T] = value[T][g]
  BY <1>5 DEF BySize
<1>7. \A T \in SUBSET S : g[T] = IF T = {} THEN a ELSE step[AnyOf(T)][g[T \ {AnyOf(T)}]]
  BY <1>6
<1>8. g = [T \in SUBSET S |-> g[T]]
  BY <1>6
<1> HIDE DEF n, size, value
<1>9. g = Folded(S, a, step, g)
  BY <1>7, <1>8 DEF Folded
<1> QED
  BY <1>6, <1>9 DEF IsFold
=============================================================================
