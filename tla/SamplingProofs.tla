--------------------------- MODULE SamplingProofs ---------------------------
(***************************************************************************)
(* Proofs about the generator's other functions.                           *)
(***************************************************************************)
EXTENDS Sampling, Induction, FiniteSetTheorems, SequenceTheorems
----------------------------------------------------------------------------
(***************************************************************************)
(* The population read from a file.                                        *)
(***************************************************************************)
FileAssumption(f) ==
  /\ f.size \in Nat /\ f.dimensions \in Nat \ {0} /\ f.names \in Nat
  /\ f.sizeBlank \in BOOLEAN /\ f.dimensionsBlank \in BOOLEAN
  /\ f.rows \in Seq(Seq(Int))

\* What a row does to the sample that is read into.
RowOver(rows, k, dims, sample) ==
  [j \in 1 .. dims |-> IF k <= Len(rows) /\ j <= Len(rows[k]) THEN rows[k][j] ELSE sample[j]]

\* What a row gives is at its place.
Rows(pop, f, dims) ==
  \A k \in 1 .. f.size : k <= Len(f.rows) =>
    \A j \in 1 .. dims : j <= Len(f.rows[k]) => pop[k][j] = f.rows[k][j]

LEMMA RowsRead ==
  ASSUME NEW f, FileAssumption(f), NEW dims, dims \in Nat
  PROVE  /\ SamplesRead(f, dims) \in [1 .. f.size -> [1 .. dims -> Int]]
         /\ Rows(SamplesRead(f, dims), f, dims)
<1> DEFINE n == f.size
           rows == f.rows
           V == [1 .. dims -> Int]
           zeros == [j \in 1 .. dims |-> 0]
           next == [k \in 1 .. n |-> [v \in V |-> RowOver(rows, k, dims, v)]]
           Is(g) == g = [k \in 0 .. n |->
                          [j \in 1 .. dims |->
                             IF k = 0 THEN 0
                             ELSE IF k <= Len(rows) /\ j <= Len(rows[k]) THEN rows[k][j]
                             ELSE g[k - 1][j]]]
           s == CHOOSE g : Is(g)
<1>1. n \in Nat /\ rows \in Seq(Seq(Int))
  BY DEF FileAssumption
<1>2. SamplesRead(f, dims) = [k \in 1 .. n |-> s[k]]
  BY DEF SamplesRead
<1> HIDE DEF n, rows
<1>3. ASSUME NEW k \in 1 .. n, NEW v \in V PROVE RowOver(rows, k, dims, v) \in V
  <2>1. \A j \in 1 .. dims : k <= Len(rows) /\ j <= Len(rows[k]) => rows[k][j] \in Int
    BY <1>1
  <2> QED BY <2>1 DEF RowOver
<1>4. zeros \in V /\ next \in [1 .. n -> [V -> V]]
  BY <1>3
<1>5. PICK g : Recursive(g, n, V, zeros, next)
  <2> HIDE DEF V, zeros, next
  <2> QED BY <1>1, <1>4, Recursion
<1>6. Is(g)
  <2>1. g \in [0 .. n -> V] /\ g[0] = zeros /\ \A k \in 1 .. n : g[k] = next[k][g[k - 1]]
    BY <1>5 DEF Recursive
  <2>2. ASSUME NEW k \in 0 .. n
        PROVE  g[k] = [j \in 1 .. dims |->
                         IF k = 0 THEN 0
                         ELSE IF k <= Len(rows) /\ j <= Len(rows[k]) THEN rows[k][j]
                         ELSE g[k - 1][j]]
    <3>1. CASE k = 0
      BY <2>1, <3>1
    <3>2. CASE k # 0
      <4>1. k \in 1 .. n /\ k - 1 \in 0 .. n
        BY <1>1, <3>2
      <4>2. g[k] = RowOver(rows, k, dims, g[k - 1])
        BY <2>1, <4>1
      <4> QED BY <3>2, <4>2 DEF RowOver
    <3> QED BY <3>1, <3>2
  <2>3. g = [k \in 0 .. n |-> g[k]]
    BY <2>1
  <2> HIDE DEF V, zeros, next
  <2> QED BY <2>2, <2>3
<1>7. Is(s)
  <2> HIDE DEF Is
  <2> QED BY <1>6
<1> HIDE DEF s
<1>8. ASSUME NEW k \in 1 .. n
      PROVE  s[k] = [j \in 1 .. dims |->
                       IF k <= Len(rows) /\ j <= Len(rows[k]) THEN rows[k][j] ELSE s[k - 1][j]]
  <2>1. k \in 0 .. n /\ k # 0
    BY <1>1
  <2> QED BY <1>7, <2>1
<1>9. \A k \in 0 .. n : s[k] \in V
  <2> DEFINE G == {k \in 0 .. n : s[k] \in V}
  <2>1. 0 \in G
    BY <1>1, <1>7
  <2>2. ASSUME NEW k \in 1 .. n, k - 1 \in G PROVE k \in G
    <3>1. s[k] = RowOver(rows, k, dims, s[k - 1]) /\ s[k - 1] \in V
      BY <1>8, <2>2 DEF RowOver
    <3>2. s[k] \in V /\ k \in 0 .. n
      BY <1>3, <3>1
    <3> QED BY <3>2
  <2>3. G \in SUBSET (0 .. n)
    OBVIOUS
  <2> HIDE DEF G
  <2>4. G = 0 .. n
    BY <1>1, <2>1, <2>2, <2>3, StepByStep
  <2> QED BY <2>4 DEF G
<1>10. SamplesRead(f, dims) \in [1 .. n -> V]
  <2>1. \A k \in 1 .. n : k \in 0 .. n
    BY <1>1
  <2> HIDE DEF V
  <2> QED BY <1>2, <1>9, <2>1
<1>11. ASSUME NEW k \in 1 .. n, k <= Len(rows), NEW j \in 1 .. dims, j <= Len(rows[k])
       PROVE  SamplesRead(f, dims)[k][j] = rows[k][j]
  <2>1. SamplesRead(f, dims)[k] = s[k]
    BY <1>2
  <2> QED BY <1>8, <1>11, <2>1
<1> QED
  BY <1>10, <1>11 DEF n, rows, Rows
----------------------------------------------------------------------------
(***************************************************************************)
(* Samples put one behind the other in an array.                           *)
(***************************************************************************)
\* The first k samples of q, of m values each, lie in the array a.
Flat(a, q, k, m) ==
  /\ a \in Seq(Int) /\ Len(a) = k * m
  /\ \A j \in 1 .. k, d \in 1 .. m : a[(j - 1) * m + d] = q[j][d]

LEMMA OneMore ==
  ASSUME NEW m, m \in Nat, NEW n, n \in Nat, NEW q, q \in [1 .. n -> [1 .. m -> Int]],
         NEW k, k \in 1 .. n, NEW a, Flat(a, q, k - 1, m)
  PROVE  Flat(a \o q[k], q, k, m)
<1> DEFINE v == q[k]
           b == a \o v
           w == (k - 1) * m
<1>1. v \in Seq(Int) /\ Len(v) = m /\ v \in [1 .. m -> Int]
  OBVIOUS
<1>2. /\ a \in Seq(Int) /\ Len(a) = w
      /\ \A j \in 1 .. k - 1, d \in 1 .. m : a[(j - 1) * m + d] = q[j][d]
  BY DEF Flat
<1>3. w \in Nat /\ k * m = w + m
  <2>1. k \in Nat /\ k - 1 \in Nat
    OBVIOUS
  <2>2. (k - 1) * m \in Nat /\ (k - 1) * m = k * m - m /\ k * m \in Int
    BY <2>1
  <2> QED BY <2>2
<1> HIDE DEF v
<1>4. b \in Seq(Int) /\ Len(b) = k * m
  <2>1. b \in Seq(Int) /\ Len(b) = Len(a) + Len(v)
    BY <1>1, <1>2, ConcatProperties
  <2> QED BY <1>1, <1>2, <1>3, <2>1
<1>5. \A p \in 1 .. w + m : b[p] = IF p <= w THEN a[p] ELSE v[p - w]
  <2> HIDE DEF w
  <2>1. Len(a) = w /\ Len(v) = m
    BY <1>1, <1>2
  <2>2. \A p \in 1 .. Len(a) + Len(v) : b[p] = IF p <= Len(a) THEN a[p] ELSE v[p - Len(a)]
    BY <1>1, <1>2, ConcatProperties
  <2> HIDE DEF b
  <2> QED BY <2>1, <2>2
<1> HIDE DEF b
<1>6. ASSUME NEW j \in 1 .. k, NEW d \in 1 .. m PROVE b[(j - 1) * m + d] = q[j][d]
  <2>1. CASE j = k
    <3>1. (j - 1) * m + d = w + d
      BY <2>1
    <3> HIDE DEF w
    <3>2. b[w + d] = v[d]
      <4>1. w + d \in 1 .. w + m /\ ~ (w + d <= w) /\ (w + d) - w = d
        BY <1>3
      <4> QED BY <1>5, <4>1
    <3> QED BY <2>1, <3>1, <3>2 DEF v
  <2>2. CASE j # k
    <3>1. j \in 1 .. k - 1 /\ j \in Int /\ k - 1 \in Int
      BY <2>2
    <3>2. j * m <= (k - 1) * m /\ j * m = (j - 1) * m + m /\ (j - 1) * m \in Nat
      <4>1. j <= k - 1 /\ j - 1 \in Nat
        BY <3>1
      <4> QED BY <3>1, <4>1, LargerProduct
    <3>3. (j - 1) * m + d \in 1 .. w
      <4> DEFINE x == (j - 1) * m
                 y == j * m
      <4>1. y <= w /\ y = x + m /\ x \in Nat
        BY <3>2
      <4> HIDE DEF x, y, w
      <4>2. x + d \in 1 .. w
        BY <1>3, <4>1
      <4> QED BY <4>2 DEF x
    <3> DEFINE p == (j - 1) * m + d
    <3>4. p \in 1 .. w /\ a[p] = q[j][d]
      BY <1>2, <3>1, <3>3
    <3> HIDE DEF p, w
    <3>5. b[p] = a[p]
      <4>1. p \in 1 .. w + m /\ p <= w
        BY <1>3, <3>4
      <4> QED BY <1>5, <4>1
    <3> QED BY <3>4, <3>5 DEF p
  <2> QED BY <2>1, <2>2
<1> QED
  BY <1>4, <1>6 DEF Flat, b, v

LEMMA Flattened ==
  ASSUME NEW m, m \in Nat, NEW n, n \in Nat \ {0}, NEW q, q \in [1 .. n -> [1 .. m -> Int]]
  PROVE  Flat(FlattenSeq(q), q, n, m)
<1> DEFINE next == [k \in 1 .. n |-> [a \in Seq(Int) |-> a \o q[k]]]
           Is(g) == g = [i \in 1 .. n |-> IF i = 1 THEN q[i] ELSE g[i - 1] \o q[i]]
           flatten == CHOOSE g : Is(g)
<1>1. FlattenSeq(q) = flatten[n]
  <2>1. Len(q) = n /\ n # 0
    OBVIOUS
  <2> QED BY <2>1 DEF FlattenSeq
<1>2. \A k \in 1 .. n : q[k] \in Seq(Int)
  OBVIOUS
<1>3. next \in [1 .. n -> [Seq(Int) -> Seq(Int)]] /\ <<>> \in Seq(Int)
  BY <1>2
<1>4. PICK g : Recursive(g, n, Seq(Int), <<>>, next)
  <2> HIDE DEF next
  <2> QED BY <1>3, Recursion
<1>5. g \in [0 .. n -> Seq(Int)] /\ g[0] = <<>> /\ \A k \in 1 .. n : g[k] = g[k - 1] \o q[k]
  <2>1. g \in [0 .. n -> Seq(Int)] /\ g[0] = <<>> /\ \A k \in 1 .. n : g[k] = next[k][g[k - 1]]
    BY <1>4 DEF Recursive
  <2>2. \A k \in 1 .. n : g[k - 1] \in Seq(Int)
    <3> TAKE k \in 1 .. n
    <3>1. k - 1 \in 0 .. n
      OBVIOUS
    <3> QED BY <2>1, <3>1
  <2> QED BY <2>1, <2>2
<1>6. Is(flatten)
  <2> DEFINE h == [i \in 1 .. n |-> g[i]]
  <2>1. ASSUME NEW i \in 1 .. n PROVE h[i] = IF i = 1 THEN q[i] ELSE h[i - 1] \o q[i]
    <3>1. CASE i = 1
      <4>1. g[1] = <<>> \o q[1] /\ q[1] \in Seq(Int)
        <5>1. 1 \in 1 .. n
          OBVIOUS
        <5>2. g[1] = g[1 - 1] \o q[1]
          BY <1>5, <5>1
        <5>3. 1 - 1 = 0
          OBVIOUS
        <5> QED BY <1>2, <1>5, <5>1, <5>2, <5>3
      <4>2. h[1] = q[1]
        BY <4>1, ConcatEmptySeq
      <4> QED BY <3>1, <4>2
    <3>2. CASE i # 1
      <4>1. i - 1 \in 1 .. n
        BY <3>2
      <4>2. h[i] = g[i] /\ h[i - 1] = g[i - 1]
        BY <4>1
      <4>3. g[i] = g[i - 1] \o q[i]
        BY <1>5
      <4> QED BY <3>2, <4>2, <4>3
    <3> QED BY <3>1, <3>2
  <2>2. h = [i \in 1 .. n |-> IF i = 1 THEN q[i] ELSE h[i - 1] \o q[i]]
    BY <2>1
  <2> HIDE DEF h
  <2>3. Is(h)
    BY <2>2
  <2> HIDE DEF Is
  <2> QED BY <2>3
<1> HIDE DEF flatten
<1> DEFINE G == {k \in 0 .. n : k = 0 \/ Flat(flatten[k], q, k, m)}
<1>7. 0 \in G
  OBVIOUS
<1>8. ASSUME NEW k \in 1 .. n, k - 1 \in G PROVE k \in G
  <2>1. CASE k = 1
    <3>1. flatten[k] = q[k] /\ q[k] \in Seq(Int)
      BY <1>2, <1>6, <2>1
    <3>2. Flat(<<>>, q, 0, m)
      BY DEF Flat
    <3>3. Flat(<<>> \o q[k], q, k, m)
      <4>1. Flat(<<>>, q, k - 1, m)
        BY <2>1, <3>2
      <4> QED BY <4>1, OneMore
    <3>4. <<>> \o q[k] = q[k]
      BY <3>1
    <3> QED BY <3>1, <3>3, <3>4
  <2>2. CASE k # 1
    <3>1. flatten[k] = flatten[k - 1] \o q[k]
      BY <1>6, <2>2
    <3>2. Flat(flatten[k - 1], q, k - 1, m)
      BY <1>8, <2>2
    <3>3. Flat(flatten[k - 1] \o q[k], q, k, m)
      BY <3>2, OneMore
    <3>4. Flat(flatten[k], q, k, m)
      <4> HIDE DEF Is, G
      <4> QED BY <3>1, <3>3
    <3> QED BY <3>4
  <2> QED BY <2>1, <2>2
<1>9. G \in SUBSET (0 .. n)
  OBVIOUS
<1> HIDE DEF G
<1>10. G = 0 .. n
  BY <1>7, <1>8, <1>9, StepByStep
<1>11. n \in G
  BY <1>10
<1> QED
  BY <1>1, <1>11 DEF G
----------------------------------------------------------------------------
(***************************************************************************)
(* The entire population: each combination once.                           *)
(***************************************************************************)
\* What the fold makes of a set, one element after the other.
Appended(S, g) == [T \in SUBSET S |-> IF T = {} THEN <<>> ELSE Append(g[T \ {AnyOf(T)}], AnyOf(T))]

LEMMA PopulationFold ==
  ASSUME NEW S, IsFiniteSet(S)
  PROVE  \E g : g = Appended(S, g)
<1> DEFINE V == Seq(S)
           none == <<>>
           step == [x \in S |-> [q \in V |-> Append(q, x)]]
<1>1. step \in [S -> [V -> V]] /\ none \in V
  BY AppendProperties
<1>2. PICK g : IsFold(g, S, V, none, step)
  <2> HIDE DEF step, V, none
  <2> QED BY <1>1, FoldExists
<1>3. ASSUME NEW T \in SUBSET S, T # {}
      PROVE  step[AnyOf(T)][g[T \ {AnyOf(T)}]] = Append(g[T \ {AnyOf(T)}], AnyOf(T))
  <2>1. AnyOf(T) \in S /\ g[T \ {AnyOf(T)}] \in Seq(S)
    BY <1>2, <1>3, WithoutAny DEF IsFold
  <2> QED BY <2>1
<1> HIDE DEF step
<1>4. Folded(S, none, step, g) = Appended(S, g)
  BY <1>3 DEF Folded, Appended
<1> QED
  BY <1>2, <1>4 DEF IsFold

LEMMA FoldEnumerates ==
  ASSUME NEW S, IsFiniteSet(S)
  PROVE  Enumeration(FoldSet(LAMBDA v, pop : Append(pop, v), <<>>, S), S)
<1> DEFINE g == CHOOSE h : h = Appended(S, h)
           n == Cardinality(S)
<1>1. FoldSet(LAMBDA v, pop : Append(pop, v), <<>>, S) = g[S]
  BY DEF FoldSet, MapThenFoldSet, AnyOf, Appended
<1>2. g = Appended(S, g)
  BY PopulationFold
<1> HIDE DEF g
<1>3. n \in Nat /\ \A T \in SUBSET S : Cardinality(T) \in Nat /\ Cardinality(T) <= n
  BY FS_Subset, FS_CardinalityType
<1> HIDE DEF n
<1> DEFINE G == {k \in 0 .. n : \A T \in SUBSET S : Cardinality(T) = k => Enumeration(g[T], T)}
<1>4. 0 \in G
  <2>1. ASSUME NEW T \in SUBSET S, Cardinality(T) = 0 PROVE Enumeration(g[T], T)
    <3>1. T = {}
      BY <2>1, FS_Subset, FS_EmptySet
    <3>2. g[T] = <<>>
      BY <1>2, <3>1 DEF Appended
    <3> QED BY <2>1, <3>2 DEF Enumeration, IsInjective
  <2> QED BY <1>3, <2>1
<1>5. ASSUME NEW k \in 1 .. n, k - 1 \in G PROVE k \in G
  <2>1. ASSUME NEW T \in SUBSET S, Cardinality(T) = k PROVE Enumeration(g[T], T)
    <3> DEFINE U == T \ {AnyOf(T)}
               q == g[U]
               x == AnyOf(T)
    <3>1. T # {}
      <4>1. k # 0
        BY <1>3
      <4> QED BY <2>1, <4>1, FS_EmptySet
    <3>2. U \in SUBSET S /\ Cardinality(U) = k - 1 /\ x \in T /\ x \notin U /\ U \subseteq T
      BY <2>1, <3>1, WithoutAny
    <3>3. g[T] = Append(q, x)
      BY <1>2, <3>1 DEF Appended
    <3> HIDE DEF U, x
    <3>4. Enumeration(q, U)
      BY <1>5, <3>2
    <3> HIDE DEF q
    <3>5. q \in Seq(U) /\ Len(q) = k - 1 /\ \A a, b \in DOMAIN q : q[a] = q[b] => a = b
      BY <3>2, <3>4 DEF Enumeration, IsInjective
    <3>6. q \in Seq(T) /\ \A a \in 1 .. k - 1 : q[a] \in U
      BY <3>2, <3>5, SeqMonotonic
    <3>7. /\ Append(q, x) \in Seq(T) /\ Len(Append(q, x)) = k /\ DOMAIN Append(q, x) = 1 .. k
          /\ Append(q, x)[k] = x /\ \A a \in 1 .. k - 1 : Append(q, x)[a] = q[a]
      BY <3>2, <3>5, <3>6
    <3>8. ASSUME NEW a \in 1 .. k, NEW b \in 1 .. k, Append(q, x)[a] = Append(q, x)[b] PROVE a = b
      <4>1. CASE a # k /\ b # k
        <5>1. a \in 1 .. k - 1 /\ b \in 1 .. k - 1 /\ DOMAIN q = 1 .. k - 1
          BY <3>5, <4>1
        <5> QED BY <3>5, <3>7, <3>8, <5>1
      <4>2. CASE a = k /\ b # k
        <5>1. b \in 1 .. k - 1
          BY <4>2
        <5> QED BY <3>2, <3>6, <3>7, <3>8, <4>2, <5>1
      <4>3. CASE a # k /\ b = k
        <5>1. a \in 1 .. k - 1
          BY <4>3
        <5> QED BY <3>2, <3>6, <3>7, <3>8, <4>3, <5>1
      <4> QED BY <4>1, <4>2, <4>3
    <3>9. IsInjective(Append(q, x))
      BY <3>7, <3>8 DEF IsInjective
    <3> QED BY <2>1, <3>3, <3>7, <3>9 DEF Enumeration
  <2>2. k \in 0 .. n
    BY <1>3
  <2> QED BY <2>1, <2>2
<1>6. G \in SUBSET (0 .. n)
  OBVIOUS
<1> HIDE DEF G
<1>7. G = 0 .. n
  BY <1>3, <1>4, <1>5, <1>6, StepByStep
<1>8. n \in G
  BY <1>3, <1>7
<1>9. Enumeration(g[S], S)
  BY <1>8 DEF G, n
<1> QED
  BY <1>1, <1>9

LEMMA FiniteImage ==
  ASSUME NEW S, IsFiniteSet(S), NEW f
  PROVE  IsFiniteSet({f[x] : x \in S})
<1> DEFINE T == {f[x] : x \in S}
           g == [x \in S |-> f[x]]
<1>1. g \in Surjection(S, T)
  BY DEF Surjection
<1> QED
  BY <1>1, FS_Surjection

LEMMA FiniteVectors ==
  ASSUME NEW n, n \in Nat, NEW V, IsFiniteSet(V)
  PROVE  IsFiniteSet([1 .. n -> V])
<1> DEFINE G == {k \in 0 .. n : IsFiniteSet([1 .. k -> V])}
<1>1. 0 \in G
  <2>1. [1 .. 0 -> V] \in SUBSET {<<>>}
    OBVIOUS
  <2>2. IsFiniteSet({<<>>})
    BY FS_Singleton
  <2> HIDE DEF G
  <2>3. IsFiniteSet([1 .. 0 -> V])
    BY <2>1, <2>2, FS_Subset
  <2> QED BY <2>3 DEF G
<1>2. ASSUME NEW k \in 1 .. n, k - 1 \in G PROVE k \in G
  <2> DEFINE S == [1 .. k - 1 -> V] \X V
             T == [1 .. k -> V]
             f == [p \in S |-> [j \in 1 .. k |-> IF j = k THEN p[2] ELSE p[1][j]]]
  <2>1. IsFiniteSet(S)
    BY <1>2, FS_Product
  <2>2. ASSUME NEW p \in S PROVE f[p] \in T
    <3>1. p[1] \in [1 .. k - 1 -> V] /\ p[2] \in V
      OBVIOUS
    <3>2. \A j \in 1 .. k : j # k => j \in 1 .. k - 1
      OBVIOUS
    <3> QED BY <3>1, <3>2
  <2>3. ASSUME NEW v \in T PROVE \E p \in S : f[p] = v
    <3> DEFINE u == [j \in 1 .. k - 1 |-> v[j]]
               p == <<u, v[k]>>
    <3>1. p \in S /\ p[1] = u /\ p[2] = v[k]
      OBVIOUS
    <3>2. \A j \in 1 .. k : j # k => j \in 1 .. k - 1 /\ u[j] = v[j]
      OBVIOUS
    <3>3. v = [j \in 1 .. k |-> v[j]]
      OBVIOUS
    <3> HIDE DEF u, p, T, S
    <3>4. f[p] = [j \in 1 .. k |-> IF j = k THEN v[k] ELSE u[j]]
      BY <3>1
    <3>5. [j \in 1 .. k |-> IF j = k THEN v[k] ELSE u[j]] = v
      BY <3>2, <3>3
    <3> QED BY <3>1, <3>4, <3>5
  <2>4. f \in Surjection(S, T)
    <3>1. f = [p \in S |-> f[p]]
      OBVIOUS
    <3> HIDE DEF S, T, f
    <3> QED BY <2>2, <2>3, <3>1 DEF Surjection
  <2> HIDE DEF S, f
  <2>5. IsFiniteSet(T)
    BY <2>1, <2>4, FS_Surjection
  <2> QED BY <2>5
<1>3. G \in SUBSET (0 .. n)
  OBVIOUS
<1> HIDE DEF G
<1>4. G = 0 .. n
  BY <1>1, <1>2, <1>3, StepByStep
<1>5. n \in G
  BY <1>4
<1> QED
  BY <1>5 DEF G
----------------------------------------------------------------------------
(***************************************************************************)
(* The values of the dimensions.                                           *)
(***************************************************************************)
Dims == ranges \in Seq(TickRanges) /\ sets \in Seq(TickSets)

\* A set has two values at least, which ascend.
IsAscending(q) ==
  /\ q \in Seq(Nat) /\ Len(q) \in Nat /\ Len(q) >= 2 /\ ToSet(q) \in SUBSET Nat
  /\ \A k \in 1 .. Len(q) : q[k] \in Nat
  /\ \A j, k \in 1 .. Len(q) : j < k => q[j] < q[k]

IsDivisible(r) ==
  /\ r.min \in Nat /\ r.max \in Nat /\ r.step \in Nat \ {0} /\ r.min <= r.max
  /\ r.step > 1 => (r.max - r.min) % (r.step - 1) = 0

LEMMA SetsAscend ==
  ASSUME SamplingAssumption, NEW q, q \in TickSets
  PROVE  IsAscending(q)
<1> DEFINE n == Len(q)
<1>1. q \in Seq(TickSetValues) /\ n \in Nat /\ n >= 2 /\ \A j \in 2 .. n : q[j - 1] < q[j]
  <2>1. Cardinality(TickSetValues) \in Nat
    BY FS_CardinalityType DEF SamplingAssumption
  <2>2. PICK m \in 2 .. Cardinality(TickSetValues) : q \in [1 .. m -> TickSetValues]
    BY DEF TickSets
  <2>3. m \in Nat /\ m >= 2 /\ Len(q) = m /\ q \in Seq(TickSetValues)
    BY <2>1, <2>2
  <2> QED BY <2>3 DEF TickSets
<1>2. TickSetValues \subseteq Nat
  BY DEF SamplingAssumption
<1>3. q \in [1 .. n -> TickSetValues] /\ q \in Seq(Nat) /\ \A k \in 1 .. n : q[k] \in Nat
  BY <1>1, <1>2, LenProperties, SeqMonotonic
<1> HIDE DEF n
<1>4. ASSUME NEW j \in 1 .. n, NEW k \in 1 .. n, j < k PROVE q[j] < q[k]
  <2> DEFINE S == {i \in 1 .. n : j < i /\ ~ (q[j] < q[i])}
  <2>1. S \in SUBSET Nat
    BY <1>1
  <2>2. S = {}
    <3> SUFFICES ASSUME S # {} PROVE FALSE
      OBVIOUS
    <3>1. PICK m \in S : \A i \in S : m <= i
      <4> HIDE DEF S
      <4> QED BY <2>1, LeastNumber
    <3>2. m \in 1 .. n /\ j < m /\ ~ (q[j] < q[m]) /\ m \in 2 .. n /\ m - 1 \in 1 .. n
      BY <1>1
    <3>3. q[m - 1] < q[m] /\ q[m - 1] \in Nat /\ q[m] \in Nat /\ q[j] \in Nat
      BY <1>1, <1>3, <3>2
    <3>4. CASE m - 1 = j
      BY <3>2, <3>3, <3>4
    <3>5. CASE m - 1 # j
      <4>1. j < m - 1 /\ ~ (m <= m - 1)
        BY <1>1, <3>2, <3>5
      <4>2. m - 1 \notin S
        BY <3>1, <4>1
      <4>3. q[j] < q[m - 1]
        BY <3>2, <4>1, <4>2
      <4> QED BY <3>2, <3>3, <4>3
    <3> QED BY <3>4, <3>5
  <2> QED BY <1>4, <2>2
<1>5. ToSet(q) \in SUBSET Nat
  BY <1>3 DEF ToSet
<1> QED
  BY <1>1, <1>3, <1>4, <1>5 DEF IsAscending, n

LEMMA RangesDivide ==
  ASSUME SamplingAssumption, NEW r, r \in TickRanges
  PROVE  IsDivisible(r)
<1>1. r.min \in TickBounds /\ r.max \in TickBounds /\ r.step \in TickSteps /\ r.min <= r.max
  BY DEF TickRanges
<1>2. TickBounds \subseteq Nat /\ TickSteps \subseteq Nat \ {0}
  BY DEF SamplingAssumption
<1>3. ASSUME r.step > 1 PROVE (r.max - r.min) % (r.step - 1) = 0
  <2>1. r.step \in TickSteps \ {1}
    BY <1>1, <1>2, <1>3
  <2> QED BY <1>1, <2>1 DEF SamplingAssumption
<1> QED
  BY <1>1, <1>2, <1>3 DEF IsDivisible

LEMMA DimensionTypes ==
  ASSUME SamplingAssumption, Dims
  PROVE  /\ Len(ranges) \in Nat /\ Len(sets) \in Nat /\ dimensions \in Nat
         /\ \A d \in 1 .. dimensions :
              /\ IsRange(d) => d \in 1 .. Len(ranges) /\ IsDivisible(ranges[d])
              /\ ~ IsRange(d) => d - Len(ranges) \in 1 .. Len(sets) /\ IsAscending(SetOf(d))
<1>1. Len(ranges) \in Nat /\ Len(sets) \in Nat /\ dimensions = Len(ranges) + Len(sets)
  BY DEF Dims, dimensions
<1>2. ASSUME NEW d \in 1 .. dimensions, IsRange(d)
      PROVE  d \in 1 .. Len(ranges) /\ IsDivisible(ranges[d])
  <2>1. d \in 1 .. Len(ranges)
    BY <1>1, <1>2 DEF IsRange
  <2>2. ranges[d] \in TickRanges
    BY <2>1 DEF Dims
  <2> QED BY <2>1, <2>2, RangesDivide
<1>3. ASSUME NEW d \in 1 .. dimensions, ~ IsRange(d)
      PROVE  d - Len(ranges) \in 1 .. Len(sets) /\ IsAscending(SetOf(d))
  <2>1. d - Len(ranges) \in 1 .. Len(sets)
    BY <1>1, <1>3 DEF IsRange
  <2>2. sets[d - Len(ranges)] \in TickSets
    BY <2>1 DEF Dims
  <2> QED BY <2>1, <2>2, SetsAscend DEF SetOf
<1> QED
  BY <1>1, <1>2, <1>3

LEMMA FiniteCombinations ==
  ASSUME SamplingAssumption, Dims
  PROVE  IsFiniteSet(Combinations) /\ Combinations \in SUBSET Vectors
<1> DEFINE values == [d \in 1 .. dimensions |-> ValuesOf(d)]
           V == UNION {values[d] : d \in 1 .. dimensions}
<1>1. ASSUME NEW d \in 1 .. dimensions PROVE IsFiniteSet(ValuesOf(d)) /\ ValuesOf(d) \in SUBSET Int
  <2>1. CASE IsRange(d)
    <3>1. ranges[d].min \in Int /\ ranges[d].max \in Int
      BY <2>1, DimensionTypes DEF IsDivisible
    <3>2. ValuesOf(d) \in SUBSET (ranges[d].min .. ranges[d].max)
      BY <2>1 DEF ValuesOf
    <3>3. IsFiniteSet(ranges[d].min .. ranges[d].max)
      BY <3>1, FS_Interval
    <3>4. IsFiniteSet(ValuesOf(d))
      BY <3>2, <3>3, FS_Subset
    <3> QED BY <3>1, <3>2, <3>4
  <2>2. CASE ~ IsRange(d)
    <3> DEFINE q == SetOf(d)
    <3>1. ValuesOf(d) = ToSet(q)
      BY <2>2 DEF ValuesOf
    <3>2. IsAscending(q)
      BY <2>2, DimensionTypes
    <3> HIDE DEF q
    <3>3. Len(q) \in Nat /\ DOMAIN q = 1 .. Len(q) /\ ToSet(q) \in SUBSET Nat
      BY <3>2 DEF IsAscending
    <3>4. IsFiniteSet(1 .. Len(q))
      BY <3>3, FS_Interval
    <3>5. IsFiniteSet({q[x] : x \in 1 .. Len(q)})
      BY <3>4, FiniteImage
    <3>6. ToSet(q) = {q[x] : x \in 1 .. Len(q)}
      BY <3>3 DEF ToSet
    <3> QED BY <3>1, <3>3, <3>5, <3>6
  <2> QED BY <2>1, <2>2
<1>2. dimensions \in Nat
  BY DimensionTypes
<1>3. IsFiniteSet(V)
  <2>1. IsFiniteSet(1 .. dimensions)
    BY <1>2, FS_Interval
  <2> HIDE DEF values
  <2>2. IsFiniteSet({values[d] : d \in 1 .. dimensions})
    BY <2>1, FiniteImage
  <2>3. \A T \in {values[d] : d \in 1 .. dimensions} : IsFiniteSet(T)
    BY <1>1 DEF values
  <2> QED BY <2>2, <2>3, FS_UNION
<1>4. UNION {ValuesOf(d) : d \in 1 .. dimensions} = V
  BY Zenon
<1>5. Combinations \in SUBSET [1 .. dimensions -> V]
  BY <1>4 DEF Combinations
<1>6. IsFiniteSet([1 .. dimensions -> V])
  <2> HIDE DEF V
  <2> QED BY <1>2, <1>3, FiniteVectors
<1>7. IsFiniteSet(Combinations)
  <2> HIDE DEF V
  <2> QED BY <1>5, <1>6, FS_Subset
<1>8. V \in SUBSET Int
  BY <1>1
<1>9. Combinations \in SUBSET Vectors
  <2> HIDE DEF V
  <2> QED BY <1>5, <1>8 DEF Vectors
<1> QED
  BY <1>7, <1>9
----------------------------------------------------------------------------
(***************************************************************************)
(* The walks to the two points that enclose a value.                       *)
(***************************************************************************)
Chosen(low, high, value) == IF low = value THEN value ELSE Nearer(low, high, value)

ChosenUp(low, high, value) == IF high = value THEN value ELSE Nearer(low, high, value)

LEMMA InSetIs ==
  ASSUME NEW q, IsAscending(q), NEW value, value \in Int, q[1] < value, value < q[Len(q)]
  PROVE  \E m \in 1 .. Len(q) - 1 :
           q[m] < value /\ value <= q[m + 1] /\ InSet(q, value) = ChosenUp(q[m], q[m + 1], value)
<1> DEFINE n == Len(q)
           End(k) == ChosenUp(q[k], q[k + 1], value)
           Is(f) == f = [k \in 1 .. n - 1 |->
                          IF q[k + 1] < value THEN f[k + 1]
                          ELSE IF q[k + 1] = value THEN value ELSE Nearer(q[k], q[k + 1], value)]
           From == CHOOSE f : Is(f)
           S == {k \in 1 .. n - 1 : ~ (q[k + 1] < value)}
<1>1. InSet(q, value) = From[1]
  BY DEF InSet
<1>2. /\ n \in Nat /\ n >= 2 /\ \A k \in 1 .. n : q[k] \in Int
      /\ \A j, k \in 1 .. n : j < k => q[j] < q[k]
  BY DEF IsAscending
<1>3. PICK m \in S : \A k \in S : m <= k
  <2>1. n - 1 \in S
    <3>1. n - 1 \in 1 .. n - 1 /\ (n - 1) + 1 = n
      BY <1>2
    <3>2. ~ (q[n] < value) /\ q[n] \in Int
      BY <1>2
    <3> QED BY <3>1, <3>2
  <2>2. S \in SUBSET Nat
    BY <1>2
  <2> HIDE DEF S
  <2> QED BY <2>1, <2>2, LeastNumber
<1> HIDE DEF n
<1>4. m \in 1 .. n - 1 /\ ~ (q[m + 1] < value) /\ \A k \in 1 .. n - 1 : k < m => q[k + 1] < value
  <2>1. \A k \in 1 .. n - 1 : k < m => k \notin S
    BY <1>2, <1>3
  <2> QED BY <1>3, <2>1
<1>5. \A k \in 1 .. n - 1 : m <= k => ~ (q[k + 1] < value)
  <2> TAKE k \in 1 .. n - 1
  <2> HAVE m <= k
  <2>1. m + 1 \in 1 .. n /\ k + 1 \in 1 .. n
    BY <1>2, <1>4
  <2>2. k = m \/ m + 1 < k + 1
    BY <1>2, <1>4
  <2>3. q[m + 1] \in Int /\ q[k + 1] \in Int
    BY <1>2, <2>1
  <2> QED BY <1>2, <1>4, <2>1, <2>2, <2>3
<1>6. Is(From)
  <2> DEFINE h == [k \in 1 .. n - 1 |-> IF k <= m THEN End(m) ELSE End(k)]
  <2>1. ASSUME NEW k \in 1 .. n - 1
        PROVE  h[k] = IF q[k + 1] < value THEN h[k + 1]
                      ELSE IF q[k + 1] = value THEN value ELSE Nearer(q[k], q[k + 1], value)
    <3>1. CASE k < m
      <4>1. k + 1 \in 1 .. n - 1 /\ k + 1 <= m /\ k <= m /\ q[k + 1] < value
        BY <1>2, <1>4, <3>1
      <4>2. h[k] = End(m) /\ h[k + 1] = End(m)
        BY <4>1
      <4> QED BY <4>1, <4>2
    <3>2. CASE ~ (k < m)
      <4>1. m <= k /\ (k <= m => k = m) /\ ~ (q[k + 1] < value)
        BY <1>2, <1>4, <1>5, <3>2
      <4>2. h[k] = End(k)
        BY <4>1
      <4> QED BY <4>1, <4>2 DEF ChosenUp
    <3> QED BY <3>1, <3>2
  <2>2. h = [k \in 1 .. n - 1 |->
               IF q[k + 1] < value THEN h[k + 1]
               ELSE IF q[k + 1] = value THEN value ELSE Nearer(q[k], q[k + 1], value)]
    BY <2>1
  <2> HIDE DEF h
  <2>3. Is(h)
    BY <2>2
  <2> HIDE DEF Is
  <2> QED BY <2>3
<1> HIDE DEF From
<1>7. ASSUME NEW k \in 1 .. n - 1
      PROVE  From[k] = IF q[k + 1] < value THEN From[k + 1]
                       ELSE IF q[k + 1] = value THEN value ELSE Nearer(q[k], q[k + 1], value)
  BY <1>6
<1> HIDE DEF Is, S
<1>8. From[1] = End(m)
  <2> DEFINE p == m - 1
             G == {i \in 0 .. p : From[m - i] = End(m)}
  <2>1. p \in Nat /\ 0 \in G
    <3>1. From[m] = End(m)
      BY <1>4, <1>7 DEF ChosenUp
    <3>2. p \in Nat /\ m - 0 = m
      BY <1>2, <1>4
    <3> QED BY <3>1, <3>2
  <2>2. ASSUME NEW i \in 1 .. p, i - 1 \in G PROVE i \in G
    <3>1. m - i \in 1 .. n - 1 /\ m - i < m /\ (m - i) + 1 = m - (i - 1) /\ i \in 0 .. p
      BY <1>2, <1>4
    <3>2. q[(m - i) + 1] < value
      BY <1>4, <3>1
    <3>3. From[m - i] = From[(m - i) + 1]
      BY <1>7, <3>1, <3>2
    <3>4. From[m - (i - 1)] = End(m)
      BY <2>2
    <3>5. From[m - i] = End(m)
      BY <3>1, <3>3, <3>4
    <3> QED BY <3>1, <3>5
  <2>3. G \in SUBSET (0 .. p)
    OBVIOUS
  <2> HIDE DEF G
  <2>4. G = 0 .. p
    <3> HIDE DEF p
    <3> QED BY <2>1, <2>2, <2>3, StepByStep
  <2>5. p \in G /\ m - p = 1
    BY <1>2, <1>4, <2>1, <2>4
  <2> QED BY <2>5 DEF G
<1>9. q[m] < value /\ value <= q[m + 1]
  <2>1. CASE m = 1
    <3>1. m + 1 \in 1 .. n
      BY <1>2, <1>4
    <3> QED BY <1>2, <1>4, <2>1, <3>1
  <2>2. CASE m # 1
    <3>1. m - 1 \in 1 .. n - 1 /\ m - 1 < m /\ (m - 1) + 1 = m /\ m + 1 \in 1 .. n
      BY <1>2, <1>4, <2>2
    <3>2. q[(m - 1) + 1] < value
      BY <1>4, <3>1
    <3> QED BY <1>2, <1>4, <3>1, <3>2
  <2> QED BY <2>1, <2>2
<1> QED
  BY <1>1, <1>4, <1>8, <1>9 DEF n

\* The distance between the points of a range.
Distance(r) == (r.max - r.min) \div (r.step - 1)

LEMMA DistanceDivides ==
  ASSUME NEW r, IsDivisible(r), r.step > 1, r.min < r.max
  PROVE  Distance(r) \in Nat \ {0} /\ r.max = r.min + (r.step - 1) * Distance(r)
<1> DEFINE a == r.max - r.min
           b == r.step - 1
           q == a \div b
<1>1. a \in Nat \ {0} /\ b \in Nat \ {0} /\ a % b = 0 /\ r.max = r.min + a /\ r.min \in Nat
  BY DEF IsDivisible
<1> HIDE DEF a, b
<1>2. q \in Nat /\ a = q * b + (a % b)
  BY <1>1, Division
<1> HIDE DEF q
<1>3. q * b = b * q /\ q * b \in Int
  BY <1>1, <1>2
<1>4. a = b * q /\ q # 0
  BY <1>1, <1>2, <1>3
<1>5. q \in Nat \ {0} /\ r.max = r.min + b * q
  BY <1>1, <1>2, <1>4
<1> QED
  BY <1>5 DEF q, a, b, Distance

LEMMA InRangeIs ==
  ASSUME NEW r, IsDivisible(r), r.step > 1, NEW value, value \in Int, r.min < value, value < r.max
  PROVE  \E t \in 0 .. r.step - 2 :
           LET low  == r.min + t * Distance(r)
               high == r.min + (t + 1) * Distance(r)
           IN  low <= value /\ value < high /\ InRange(r, value) = Chosen(low, high, value)
<1> DEFINE min == r.min
           max == r.max
           w == Distance(r)
           Is(f) == f = [low \in min .. max |->
                          IF low + w <= max /\ low + w <= value THEN f[low + w]
                          ELSE IF low = value THEN value ELSE Nearer(low, low + w, value)]
           From == CHOOSE f : Is(f)
           t == (value - min) \div w
           P(k) == min + k * w
           e == P(t)
           Last0(low) == IF low <= value THEN low + ((value - low) \div w) * w ELSE low
<1>1. /\ min \in Nat /\ max \in Nat /\ min < max /\ w \in Nat \ {0}
      /\ max = min + (r.step - 1) * w /\ r.step - 1 \in Nat /\ r.step \in Nat
      /\ value \in Int /\ value < max
  <2>1. min \in Nat /\ max \in Nat /\ r.step - 1 \in Nat /\ r.step \in Nat
    BY DEF IsDivisible
  <2>2. min < max
    BY <2>1
  <2> QED BY <2>1, <2>2, DistanceDivides
<1>2. InRange(r, value) = From[min]
  <2>1. r.step # 1
    BY <1>1
  <2> QED BY <2>1 DEF InRange, Distance
<1> HIDE DEF w
<1>3. /\ t \in Nat /\ e \in Nat /\ e <= value /\ value < e + w /\ min <= e
      /\ P(t + 1) = e + w
  <2> DEFINE b == (value - min) % w
  <2>1. value - min \in Nat
    BY <1>1
  <2>2. t \in Nat /\ b \in Nat /\ b < w /\ value - min = t * w + b
    BY <1>1, <2>1, Division
  <2> HIDE DEF t, b
  <2>3. t * w \in Nat /\ (t + 1) * w = t * w + w
    BY <1>1, <2>2
  <2> HIDE DEF min
  <2> QED BY <1>1, <2>2, <2>3
<1>4. t <= r.step - 2
  <2>1. t * w < (r.step - 1) * w
    <3> DEFINE a == t * w
               b == (r.step - 1) * w
    <3>1. a \in Int /\ b \in Int /\ min + a <= value /\ max = min + b
      BY <1>1, <1>3
    <3> HIDE DEF a, b, min, max
    <3>2. a < b
      BY <1>1, <3>1
    <3> QED BY <3>2 DEF a, b
  <2> HIDE DEF t
  <2>2. t < r.step - 1
    BY <1>1, <1>3, <2>1, ShorterProduct
  <2> QED BY <1>1, <1>3, <2>2
<1>5. ASSUME NEW low \in min .. max
      PROVE  IF low + w <= max /\ low + w <= value
               THEN low + w \in min .. max /\ Last0(low) = Last0(low + w)
               ELSE Last0(low) = low
  <2>1. low \in Nat /\ low + w \in Nat
    BY <1>1
  <2>2. CASE low + w <= value
    <3> DEFINE q == (value - (low + w)) \div w
               b == (value - (low + w)) % w
    <3>1. low <= value /\ low + w <= max /\ low + w \in min .. max
      BY <1>1, <2>1, <2>2
    <3>2. value - (low + w) \in Nat /\ value - low \in Nat
      BY <2>1, <2>2, <3>1
    <3>3. q \in Nat /\ b \in Nat /\ b < w /\ value - (low + w) = q * w + b
      BY <1>1, <3>2, Division
    <3> HIDE DEF q, b
    <3>4. (q + 1) * w = q * w + w /\ q * w \in Nat /\ q + 1 \in Nat
      BY <1>1, <3>3
    <3>5. value - low = (q + 1) * w + b
      BY <1>1, <2>1, <3>3, <3>4
    <3>6. (value - low) \div w = q + 1
      <4> DEFINE u == value - low
                 c == q + 1
      <4> HIDE DEF u, c
      <4>1. u \in Nat /\ c \in Nat /\ u = c * w + b
        BY <3>2, <3>4, <3>5 DEF u, c
      <4>2. u \div w = c
        BY <1>1, <3>3, <4>1, QuotientIs
      <4> QED BY <4>2 DEF u, c
    <3>7. Last0(low) = low + (q + 1) * w
      BY <3>1, <3>6
    <3>8. Last0(low + w) = (low + w) + q * w
      BY <2>2 DEF q
    <3>9. Last0(low) = Last0(low + w)
      BY <1>1, <2>1, <3>4, <3>7, <3>8
    <3> QED BY <2>2, <3>1, <3>9
  <2>3. CASE ~ (low + w <= value)
    <3>1. Last0(low) = low
      <4>1. CASE low <= value
        <5>1. value - low \in Nat /\ value - low < w
          BY <1>1, <2>1, <2>3, <4>1
        <5>2. (value - low) \div w = 0
          <6> DEFINE u == value - low
          <6>1. u \in Nat /\ u < w
            BY <5>1
          <6> HIDE DEF u
          <6>2. 0 \in Nat /\ u = 0 * w + u
            BY <1>1, <6>1
          <6>3. u \div w = 0
            BY <1>1, <6>1, <6>2, QuotientIs
          <6> QED BY <6>3 DEF u
        <5> QED BY <1>1, <2>1, <4>1, <5>2
      <4>2. CASE ~ (low <= value)
        BY <4>2
      <4> QED BY <4>1, <4>2
    <3> QED BY <2>3, <3>1
  <2> QED BY <2>2, <2>3
<1>6. Is(From)
  <2> DEFINE h == [low \in min .. max |-> Chosen(Last0(low), Last0(low) + w, value)]
  <2> HIDE DEF Last0, min, max
  <2>1. ASSUME NEW low \in min .. max
        PROVE  h[low] = IF low + w <= max /\ low + w <= value THEN h[low + w]
                        ELSE IF low = value THEN value ELSE Nearer(low, low + w, value)
    <3>1. CASE low + w <= max /\ low + w <= value
      <4>1. low + w \in min .. max /\ Last0(low) = Last0(low + w)
        BY <1>5, <3>1
      <4> QED BY <3>1, <4>1
    <3>2. CASE ~ (low + w <= max /\ low + w <= value)
      <4>1. Last0(low) = low
        BY <1>5, <3>2
      <4> QED BY <3>2, <4>1 DEF Chosen
    <3> QED BY <3>1, <3>2
  <2>2. h = [low \in min .. max |->
               IF low + w <= max /\ low + w <= value THEN h[low + w]
               ELSE IF low = value THEN value ELSE Nearer(low, low + w, value)]
    BY <2>1
  <2> HIDE DEF h
  <2>3. Is(h)
    BY <2>2
  <2> HIDE DEF Is
  <2> QED BY <2>3
<1> HIDE DEF From
<1>7. ASSUME NEW low \in min .. max
      PROVE  From[low] = IF low + w <= max /\ low + w <= value THEN From[low + w]
                         ELSE IF low = value THEN value ELSE Nearer(low, low + w, value)
  BY <1>6
<1> HIDE DEF Is, Last0, t
<1>8. From[min] = Chosen(e, e + w, value)
  <2> DEFINE G == {i \in 0 .. t : From[P(t - i)] = Chosen(e, e + w, value)}
  <2>1. 0 \in G
    <3>1. t - 0 = t
      BY <1>3
    <3>2. e \in min .. max /\ ~ (e + w <= value)
      <4> HIDE DEF e, min, max
      <4> QED BY <1>1, <1>3
    <3>3. From[e] = Chosen(e, e + w, value)
      <4> HIDE DEF e, min, max
      <4> QED BY <1>7, <3>2 DEF Chosen
    <3> QED BY <1>3, <3>1, <3>3
  <2>2. ASSUME NEW i \in 1 .. t, i - 1 \in G PROVE i \in G
    <3> DEFINE x == P(t - i)
    <3>1. t - i \in Nat /\ t - i <= t - 1 /\ i \in 0 .. t /\ t - (i - 1) = (t - i) + 1
      BY <1>3
    <3>2. P((t - i) + 1) = x + w /\ min <= x /\ x \in Nat
      <4> DEFINE k == t - i
      <4>1. k \in Nat
        BY <3>1
      <4> HIDE DEF k
      <4>2. (k + 1) * w = k * w + w /\ k * w \in Nat
        BY <1>1, <4>1
      <4>3. P(k + 1) = P(k) + w /\ min <= P(k) /\ P(k) \in Nat
        <5> HIDE DEF min
        <5> QED BY <1>1, <4>2
      <4> QED BY <4>3 DEF k
    <3>3. x + w <= e
      <4> DEFINE k == (t - i) + 1
      <4>1. k \in Nat /\ k <= t
        BY <1>3, <3>1
      <4> HIDE DEF k
      <4>2. k * w <= t * w /\ k * w \in Nat /\ t * w \in Nat
        BY <1>1, <1>3, <4>1, LargerProduct
      <4>3. P(k) <= e
        <5> HIDE DEF min
        <5> QED BY <1>1, <4>2
      <4> QED BY <3>2, <4>3 DEF k
    <3> HIDE DEF x, e, min, max
    <3>4. x \in min .. max /\ x + w <= max /\ x + w <= value
      BY <1>1, <1>3, <3>2, <3>3
    <3>5. From[x] = From[x + w]
      BY <1>7, <3>4
    <3>6. From[P(t - (i - 1))] = Chosen(e, e + w, value)
      BY <2>2
    <3>7. From[x] = Chosen(e, e + w, value)
      <4>1. P(t - (i - 1)) = x + w
        BY <3>1, <3>2 DEF x
      <4> HIDE DEF P
      <4> QED BY <3>5, <3>6, <4>1
    <3> QED BY <3>1, <3>7 DEF x
  <2>3. G \in SUBSET (0 .. t)
    OBVIOUS
  <2> HIDE DEF G
  <2>4. G = 0 .. t
    BY <1>3, <2>1, <2>2, <2>3, StepByStep
  <2>5. t \in G /\ P(t - t) = min
    <3>1. t \in G /\ t - t = 0 /\ 0 * w = 0
      BY <1>1, <1>3, <2>4
    <3>2. P(0) = min
      <4> HIDE DEF min
      <4> QED BY <1>1, <3>1
    <3> QED BY <3>1, <3>2
  <2>6. From[P(t - t)] = Chosen(e, e + w, value)
    BY <2>5 DEF G
  <2> HIDE DEF P
  <2> QED BY <2>5, <2>6
<1>9. t \in 0 .. r.step - 2
  BY <1>1, <1>3, <1>4
<1>10. P(t) <= value /\ value < P(t + 1) /\ InRange(r, value) = Chosen(P(t), P(t + 1), value)
  <2> HIDE DEF P, min
  <2> QED BY <1>2, <1>3, <1>8
<1> QED
  BY <1>9, <1>10 DEF w

\* Of two points that enclose a value the nearer one is nearest of all outside.
LEMMA NearerIsNearest ==
  ASSUME NEW low, low \in Int, NEW high, high \in Int, NEW value, value \in Int,
         low <= value, value <= high, NEW p, p \in Int, p <= low \/ high <= p,
         NEW c, c = Chosen(low, high, value) \/ c = ChosenUp(low, high, value)
  PROVE  (c = low \/ c = high) /\ Abs(c - value) <= Abs(p - value)
<1>1. \/ c = low /\ (low = value \/ value - low < high - value)
      \/ c = high /\ (high = value \/ ~ (value - low < high - value))
  BY DEF Chosen, ChosenUp, Nearer
<1> QED
  BY <1>1 DEF Abs

\* A value outside is nearest to the end it lies behind.
LEMMA EndIsNearest ==
  ASSUME NEW e, e \in Int, NEW value, value \in Int, NEW p, p \in Int,
         (value <= e /\ e <= p) \/ (p <= e /\ e <= value)
  PROVE  Abs(e - value) <= Abs(p - value)
BY DEF Abs

LEMMA NormalizedInSet ==
  ASSUME SamplingAssumption, Dims, NEW d, d \in 1 .. dimensions, ~ IsRange(d),
         NEW value, value \in Int
  PROVE  LET c == normalize_value(value, d)
         IN  c \in Points(d) /\ \A p \in Points(d) : Abs(c - value) <= Abs(p - value)
<1> DEFINE q == SetOf(d)
           n == Len(q)
           c == normalize_value(value, d)
<1>1. IsAscending(q)
  BY DimensionTypes
<1>2. Points(d) = ToSet(q)
  BY DEF Points
<1>3. c = IF value <= q[1] THEN q[1] ELSE IF value >= q[n] THEN q[n] ELSE InSet(q, value)
  BY DEF normalize_value, Last
<1> HIDE DEF q, c
<1>4. /\ n \in Nat /\ n >= 2 /\ DOMAIN q = 1 .. n /\ \A k \in 1 .. n : q[k] \in Int
      /\ \A j, k \in 1 .. n : j < k => q[j] < q[k]
  BY <1>1 DEF IsAscending
<1> HIDE DEF n
<1>5. \A j, k \in 1 .. n : j <= k => q[j] <= q[k]
  <2> TAKE j, k \in 1 .. n
  <2> HAVE j <= k
  <2>1. j = k \/ j < k
    BY <1>4
  <2> QED BY <1>4, <2>1
<1>6. 1 \in 1 .. n /\ n \in 1 .. n
  BY <1>4
<1>7. SUFFICES \E k \in 1 .. n : c = q[k] /\ \A j \in 1 .. n : Abs(c - value) <= Abs(q[j] - value)
  BY <1>2, <1>4 DEF ToSet, c
<1>8. CASE value <= q[1]
  <2>1. c = q[1]
    BY <1>3, <1>8
  <2>2. ASSUME NEW j \in 1 .. n PROVE Abs(q[1] - value) <= Abs(q[j] - value)
    <3>1. q[1] <= q[j] /\ q[1] \in Int /\ q[j] \in Int
      BY <1>4, <1>5, <1>6
    <3> QED BY <1>8, <3>1, EndIsNearest
  <2> QED BY <1>6, <2>1, <2>2
<1>9. CASE ~ (value <= q[1]) /\ value >= q[n]
  <2>1. c = q[n]
    BY <1>3, <1>9
  <2>2. ASSUME NEW j \in 1 .. n PROVE Abs(q[n] - value) <= Abs(q[j] - value)
    <3>1. q[j] <= q[n] /\ q[n] \in Int /\ q[j] \in Int /\ q[n] <= value
      BY <1>4, <1>5, <1>6, <1>9
    <3> QED BY <3>1, EndIsNearest
  <2> QED BY <1>6, <2>1, <2>2
<1>10. CASE ~ (value <= q[1]) /\ ~ (value >= q[n])
  <2>1. c = InSet(q, value) /\ q[1] < value /\ value < q[n]
    BY <1>3, <1>4, <1>6, <1>10
  <2>2. PICK m \in 1 .. n - 1 :
          q[m] < value /\ value <= q[m + 1] /\ InSet(q, value) = ChosenUp(q[m], q[m + 1], value)
    BY <1>1, <2>1, InSetIs DEF n
  <2>3. m \in 1 .. n /\ m + 1 \in 1 .. n /\ q[m] \in Int /\ q[m + 1] \in Int /\ m \in Nat
    BY <1>4
  <2>4. ASSUME NEW j \in 1 .. n
        PROVE  (c = q[m] \/ c = q[m + 1]) /\ Abs(c - value) <= Abs(q[j] - value)
    <3>1. j <= m \/ m + 1 <= j
      BY <1>4, <2>3
    <3>2. q[j] \in Int /\ (q[j] <= q[m] \/ q[m + 1] <= q[j])
      BY <1>4, <1>5, <2>3, <3>1
    <3> DEFINE low == q[m]
               high == q[m + 1]
               p == q[j]
    <3>3. low <= value /\ value <= high /\ c = ChosenUp(low, high, value)
      BY <2>1, <2>2, <2>3
    <3>4. low \in Int /\ high \in Int /\ p \in Int /\ (p <= low \/ high <= p)
      BY <2>3, <3>2
    <3> HIDE DEF low, high, p
    <3>5. (c = low \/ c = high) /\ Abs(c - value) <= Abs(p - value)
      BY <3>3, <3>4, NearerIsNearest
    <3> QED BY <3>5 DEF low, high, p
  <2> QED BY <1>6, <2>3, <2>4
<1> QED
  BY <1>8, <1>9, <1>10

LEMMA NormalizedInRange ==
  ASSUME SamplingAssumption, Dims, NEW d, d \in 1 .. dimensions, IsRange(d),
         NEW value, value \in Int
  PROVE  LET c == normalize_value(value, d)
         IN  /\ c \in Points(d) /\ c \in Int
             /\ ranges[d].step > 1 => \A p \in Points(d) : Abs(c - value) <= Abs(p - value)
<1> DEFINE r == ranges[d]
           c == normalize_value(value, d)
           w == Distance(r)
           P(k) == r.min + k * w
<1>1. IsDivisible(r)
  BY DimensionTypes
<1>2. Points(d) = IF r.step = 1 THEN {r.min, r.max} ELSE {P(k) : k \in 0 .. r.step - 1}
  BY DEF Points, Distance
<1>3. c = IF value <= r.min THEN r.min ELSE IF value >= r.max THEN r.max ELSE InRange(r, value)
  BY DEF normalize_value
<1> HIDE DEF r, c
<1>4. r.min \in Nat /\ r.max \in Nat /\ r.step \in Nat \ {0} /\ r.min <= r.max
  BY <1>1 DEF IsDivisible
<1>5. CASE r.step = 1
  <2>1. InRange(r, value) = r.min
    BY <1>5 DEF InRange
  <2>2. c = r.min \/ c = r.max
    BY <1>3, <2>1
  <2>3. c \in Points(d) /\ c \in Int /\ ~ (r.step > 1)
    BY <1>2, <1>4, <1>5, <2>2
  <2> QED BY <2>3 DEF c, r
<1>6. CASE r.step # 1
  <2>1. r.step > 1 /\ Points(d) = {P(k) : k \in 0 .. r.step - 1}
    BY <1>2, <1>4, <1>6
  <2>2. w \in Nat /\ r.max = P(r.step - 1)
    <3>1. CASE r.min < r.max
      BY <1>1, <2>1, <3>1, DistanceDivides
    <3>2. CASE r.min = r.max
      <4>1. w = 0
        <5> DEFINE b == r.step - 1
        <5>1. b \in Nat \ {0} /\ r.max - r.min = 0
          BY <1>4, <2>1, <3>2
        <5> HIDE DEF b
        <5>2. 0 \in Nat /\ 0 = 0 * b + 0 /\ 0 < b
          BY <5>1
        <5>3. 0 \div b = 0
          BY <5>1, <5>2, QuotientIs
        <5> QED BY <5>1, <5>3 DEF Distance, b
      <4>2. (r.step - 1) * 0 = 0
        BY <1>4
      <4> HIDE DEF w
      <4> QED BY <1>4, <3>2, <4>1, <4>2
    <3> QED BY <1>4, <3>1, <3>2
  <2> HIDE DEF w
  <2>3. /\ \A k \in 0 .. r.step - 1 : P(k) \in Int /\ P(k) \in Points(d)
        /\ \A p \in Points(d) : \E k \in 0 .. r.step - 1 : p = P(k)
        /\ \A j, k \in 0 .. r.step - 1 : j <= k => P(j) <= P(k)
    <3>1. ASSUME NEW k \in 0 .. r.step - 1 PROVE P(k) \in Int
      <4>1. k \in Int
        BY <1>4
      <4> QED BY <1>4, <2>2, <4>1
    <3>2. ASSUME NEW j \in 0 .. r.step - 1, NEW k \in 0 .. r.step - 1, j <= k PROVE P(j) <= P(k)
      <4>1. j \in Int /\ k \in Int
        BY <1>4
      <4>2. j * w <= k * w /\ j * w \in Int /\ k * w \in Int
        BY <2>2, <3>2, <4>1, LargerProduct
      <4> QED BY <1>4, <4>2
    <3> HIDE DEF P
    <3> QED BY <2>1, <3>1, <3>2
  <2>4. 0 \in 0 .. r.step - 1 /\ r.step - 1 \in 0 .. r.step - 1 /\ r.min = P(0)
    BY <1>4, <2>2
  <2> HIDE DEF P
  <2>5. SUFFICES c \in Points(d) /\ \A k \in 0 .. r.step - 1 : Abs(c - value) <= Abs(P(k) - value)
    <3>1. Points(d) \in SUBSET Int
      BY <2>3
    <3> QED BY <2>3, <3>1 DEF c, r
  <2>6. CASE value <= r.min
    <3>1. c = P(0)
      BY <1>3, <2>4, <2>6
    <3>2. ASSUME NEW k \in 0 .. r.step - 1 PROVE Abs(P(0) - value) <= Abs(P(k) - value)
      <4>1. P(0) <= P(k) /\ P(0) \in Int /\ P(k) \in Int /\ value <= P(0)
        BY <1>4, <2>3, <2>4, <2>6
      <4> QED BY <4>1, EndIsNearest
    <3> QED BY <2>3, <2>4, <3>1, <3>2
  <2>7. CASE ~ (value <= r.min) /\ value >= r.max
    <3> DEFINE e == r.step - 1
    <3>1. c = P(e) /\ e \in 0 .. r.step - 1 /\ P(e) = r.max
      BY <1>3, <2>2, <2>4, <2>7
    <3> HIDE DEF e
    <3>2. ASSUME NEW k \in 0 .. r.step - 1 PROVE Abs(P(e) - value) <= Abs(P(k) - value)
      <4>1. k <= e
        BY <1>4 DEF e
      <4>2. P(k) <= P(e) /\ P(e) \in Int /\ P(k) \in Int /\ P(e) <= value
        BY <1>4, <2>3, <2>7, <3>1, <4>1
      <4> QED BY <4>2, EndIsNearest
    <3> QED BY <2>3, <3>1, <3>2
  <2>8. CASE ~ (value <= r.min) /\ ~ (value >= r.max)
    <3>1. c = InRange(r, value) /\ r.min < value /\ value < r.max
      BY <1>3, <1>4, <2>8
    <3>2. PICK t \in 0 .. r.step - 2 :
            P(t) <= value /\ value < P(t + 1) /\ c = Chosen(P(t), P(t + 1), value)
      BY <1>1, <2>1, <3>1, InRangeIs DEF P, w
    <3>3. t \in 0 .. r.step - 1 /\ t + 1 \in 0 .. r.step - 1 /\ P(t) \in Int /\ P(t + 1) \in Int
      BY <1>4, <2>3
    <3>4. ASSUME NEW k \in 0 .. r.step - 1
          PROVE  (c = P(t) \/ c = P(t + 1)) /\ Abs(c - value) <= Abs(P(k) - value)
      <4>1. k <= t \/ t + 1 <= k
        BY <1>4
      <4>2. P(k) \in Int /\ (P(k) <= P(t) \/ P(t + 1) <= P(k))
        BY <2>3, <3>3, <4>1
      <4>3. value <= P(t + 1)
        BY <3>2, <3>3
      <4> QED BY <3>2, <3>3, <4>2, <4>3, NearerIsNearest
    <3> QED BY <2>3, <2>4, <3>3, <3>4
  <2> QED BY <2>6, <2>7, <2>8
<1> QED
  BY <1>5, <1>6
----------------------------------------------------------------------------
(***************************************************************************)
(* One step of the sampler.                                                *)
(***************************************************************************)
LEMMA InitiallySampling ==
  ASSUME SamplingAssumption, SamplingInit
  PROVE  SamplingInvariant
<1>1. Dims
  <2>1. CASE ranges = <<>> /\ sets = <<>>
    BY <2>1 DEF Dims
  <2>2. CASE \E n \in 0 .. MaxDomains, m \in 0 .. MaxDomains :
               ranges \in [1 .. n -> TickRanges] /\ sets \in [1 .. m -> TickSets]
    <3>1. MaxDomains \in Nat
      BY DEF SamplingAssumption
    <3>2. PICK n \in 0 .. MaxDomains, m \in 0 .. MaxDomains :
            ranges \in [1 .. n -> TickRanges] /\ sets \in [1 .. m -> TickSets]
      BY <2>2
    <3>3. n \in Nat /\ m \in Nat
      BY <3>1
    <3> QED BY <3>2, <3>3 DEF Dims
  <2> QED BY <2>1, <2>2 DEF SamplingInit
<1>2. call = "ready" => dimensions >= 1
  <2> SUFFICES ASSUME call = "ready" PROVE dimensions >= 1
    OBVIOUS
  <2>1. MaxDomains \in Nat
    BY DEF SamplingAssumption
  <2>2. PICK n \in 0 .. MaxDomains, m \in 0 .. MaxDomains :
          /\ n + m \in 1 .. MaxDomains
          /\ ranges \in [1 .. n -> TickRanges] /\ sets \in [1 .. m -> TickSets]
    BY DEF SamplingInit
  <2>3. Len(ranges) = n /\ Len(sets) = m
    BY <2>1, <2>2
  <2> QED BY <2>1, <2>2, <2>3 DEF dimensions
<1>3. call = "ready" \/ call = "default"
  BY DEF SamplingInit
<1> QED
  BY <1>1, <1>2, <1>3 DEF SamplingInit, SamplingInvariant, Dims, NothingDrawn

\* What a step that leaves the domains alone keeps.
LEMMA DomainsKept ==
  ASSUME UNCHANGED domains
  PROVE  dimensions' = dimensions /\ Vectors' = Vectors /\ Combinations' = Combinations
BY DEF domains, dimensions, Vectors, Combinations, ValuesOf, IsRange, SetOf

\* A vector of values drawn.
LEMMA DrawnIsVector ==
  ASSUME SamplingAssumption, Dims, NEW draw, draw \in AllDraws, WithinSets(draw)
  PROVE  Drawn(draw) \in Vectors
<1>1. ASSUME NEW d \in 1 .. dimensions, IsRange(d) PROVE normalize_value(draw[d], d) \in Int
  <2>1. draw[d] \in ranges[d].min .. ranges[d].max + Unit - 1
    BY <1>1 DEF AllDraws, Draws
  <2>2. draw[d] \in Int
    BY <2>1
  <2> QED BY <1>1, <2>2, NormalizedInRange
<1>2. ASSUME NEW d \in 1 .. dimensions, ~ IsRange(d) PROVE sets[d][draw[d] + 1] \in Int
  <2>1. Len(sets) \in Nat /\ dimensions \in Nat /\ IsAscending(SetOf(d))
    BY <1>2, DimensionTypes
  <2>2. d \in 1 .. Len(sets) /\ draw[d] < Len(sets[d])
    BY <1>2, <2>1 DEF WithinSets
  <2>3. sets[d] \in TickSets
    BY <2>2 DEF Dims
  <2>4. IsAscending(sets[d])
    BY <2>3, SetsAscend
  <2>5. draw[d] \in 0 .. Len(SetOf(d)) - 1
    BY <1>2 DEF AllDraws, Draws
  <2>6. Len(SetOf(d)) \in Nat /\ Len(sets[d]) \in Nat
    BY <2>1, <2>4 DEF IsAscending
  <2>7. draw[d] + 1 \in 1 .. Len(sets[d])
    BY <2>2, <2>5, <2>6
  <2> QED BY <2>4, <2>7 DEF IsAscending
<1> QED
  BY <1>1, <1>2 DEF Drawn, Vectors

\* One sample more that is none of those before.
LEMMA DrawnMore ==
  ASSUME NEW T, NEW n, n \in Nat, NEW q, q \in [1 .. n -> T], NEW i, i \in 0 .. n - 1,
         IsInjective(SubSeq(q, 1, i)), NEW v, v \in T, v \notin ToSet(q)
  PROVE  LET r == [q EXCEPT ![i + 1] = v]
         IN  r \in [1 .. n -> T] /\ IsInjective(SubSeq(r, 1, i + 1))
<1> DEFINE r == [q EXCEPT ![i + 1] = v]
           a == SubSeq(q, 1, i)
           b == SubSeq(r, 1, i + 1)
<1>1. i \in Nat /\ i + 1 \in 1 .. n /\ q \in Seq(T) /\ Len(q) = n
  OBVIOUS
<1>2. r \in [1 .. n -> T] /\ r[i + 1] = v /\ \A k \in 1 .. i : r[k] = q[k]
  BY <1>1
<1>3. r \in Seq(T) /\ Len(r) = n
  BY <1>2
<1> HIDE DEF r
<1>4. DOMAIN a = 1 .. i /\ \A k \in 1 .. i : a[k] = q[k]
  BY <1>1, SubSeqProperties
<1>5. DOMAIN b = 1 .. i + 1 /\ \A k \in 1 .. i + 1 : b[k] = r[k]
  <2> DEFINE m == i + 1
  <2>1. 1 \in 1 .. Len(r) + 1 /\ m \in 0 .. Len(r) /\ m \in Nat
    BY <1>1, <1>3
  <2> HIDE DEF m
  <2>2. DOMAIN SubSeq(r, 1, m) = 1 .. m /\ \A k \in 1 .. m : SubSeq(r, 1, m)[k] = r[k]
    BY <1>3, <2>1, SubSeqProperties
  <2> QED BY <2>2 DEF m
<1> HIDE DEF a, b
<1>6. \A k \in 1 .. i : q[k] # v
  <2>1. DOMAIN q = 1 .. n
    BY <1>1
  <2>2. \A k \in 1 .. n : q[k] # v
    BY <2>1 DEF ToSet
  <2> QED BY <1>1, <2>2
<1>7. ASSUME NEW j \in 1 .. i + 1, NEW k \in 1 .. i + 1, b[j] = b[k] PROVE j = k
  <2>1. (j \in 1 .. i \/ j = i + 1) /\ (k \in 1 .. i \/ k = i + 1)
    BY <1>1
  <2>2. CASE j \in 1 .. i /\ k \in 1 .. i
    <3>1. a[j] = a[k]
      BY <1>2, <1>4, <1>5, <1>7, <2>2
    <3> QED BY <1>4, <2>2, <3>1 DEF IsInjective, a
  <2>3. CASE j \in 1 .. i /\ k = i + 1
    BY <1>2, <1>5, <1>6, <1>7, <2>3
  <2>4. CASE j = i + 1 /\ k \in 1 .. i
    BY <1>2, <1>5, <1>6, <1>7, <2>4
  <2> QED BY <2>1, <2>2, <2>3, <2>4
<1>8. IsInjective(b)
  BY <1>5, <1>7 DEF IsInjective
<1> QED
  BY <1>2, <1>8 DEF r, b

\* A sample moved from one sequence to the end of another: the two hold no other
\* samples than before.
LEMMA Moved ==
  ASSUME NEW T, NEW p, p \in Seq(T), NEW q, q \in Seq(T), IsInjective(p \o q),
         NEW k, k \in 1 .. Len(q)
  PROVE  /\ Append(p, q[k]) \in Seq(T) /\ Len(Append(p, q[k])) = Len(p) + 1
         /\ RemoveAt(q, k) \in Seq(T)
         /\ IsInjective(Append(p, q[k]) \o RemoveAt(q, k))
<1> DEFINE n == Len(p)
           m == Len(q)
           u == SubSeq(q, 1, k - 1)
           w == SubSeq(q, k + 1, m)
           x == Append(p, q[k])
           y == RemoveAt(q, k)
<1>1. n \in Nat /\ m \in Nat /\ k \in Nat /\ k >= 1 /\ k <= m
  OBVIOUS
<1>2. x \in Seq(T) /\ Len(x) = n + 1 /\ x[n + 1] = q[k] /\ \A i \in 1 .. n : x[i] = p[i]
  OBVIOUS
<1>3. u \in Seq(T) /\ Len(u) = k - 1 /\ \A i \in 1 .. k - 1 : u[i] = q[i]
  OBVIOUS
<1>4. w \in Seq(T) /\ Len(w) = m - k /\ \A i \in 1 .. m - k : w[i] = q[k + i]
  <2> DEFINE j == k + 1
  <2>1. j \in 1 .. m + 1 /\ m \in 0 .. m /\ \A i \in j .. m : q[i] \in T
    OBVIOUS
  <2>2. w \in Seq(T)
    BY <2>1
  <2>3. Len(w) = m - k
    BY <1>1
  <2>4. \A i \in 1 .. m - k : w[i] = q[k + i]
    OBVIOUS
  <2> QED BY <2>2, <2>3, <2>4
<1>5. y = u \o w
  BY DEF RemoveAt
<1> HIDE DEF n, m, u, w, x, y
<1>6. /\ y \in Seq(T) /\ Len(y) = m - 1
      /\ \A i \in 1 .. m - 1 : y[i] = IF i < k THEN q[i] ELSE q[i + 1]
  <2>1. y \in Seq(T) /\ Len(y) = Len(u) + Len(w)
    BY <1>3, <1>4, <1>5, ConcatProperties
  <2>2. ASSUME NEW i \in 1 .. m - 1 PROVE y[i] = IF i < k THEN q[i] ELSE q[i + 1]
    <3>1. i \in 1 .. Len(u) + Len(w) /\ i \in Int
      BY <1>1, <1>3, <1>4
    <3>2. y[i] = IF i <= Len(u) THEN u[i] ELSE w[i - Len(u)]
      BY <1>3, <1>4, <1>5, <3>1, ConcatProperties
    <3>3. CASE i < k
      <4>1. i <= k - 1 /\ i \in 1 .. k - 1
        BY <1>1, <3>1, <3>3
      <4> QED BY <1>3, <3>2, <3>3, <4>1
    <3>4. CASE ~ (i < k)
      <4> DEFINE h == i - (k - 1)
      <4>1. ~ (i <= k - 1) /\ h \in 1 .. m - k /\ k + h = i + 1
        BY <1>1, <3>1, <3>4
      <4>2. y[i] = w[h]
        BY <1>3, <3>2, <4>1
      <4>3. w[h] = q[k + h]
        BY <1>4, <4>1
      <4> QED BY <3>4, <4>1, <4>2, <4>3
    <3> QED BY <3>3, <3>4
  <2>3. Len(y) = m - 1
    BY <1>1, <1>3, <1>4, <2>1
  <2> QED BY <2>1, <2>2, <2>3
<1> DEFINE old == p \o q
           new == x \o y
           Was(i) == IF i <= n THEN i
                     ELSE IF i = n + 1 THEN n + k
                     ELSE IF i - (n + 1) < k THEN i - 1 ELSE i
<1>7. /\ DOMAIN old = 1 .. n + m
      /\ \A i \in 1 .. n + m : old[i] = IF i <= n THEN p[i] ELSE q[i - n]
  BY <1>1, ConcatProperties DEF n, m
<1>8. /\ DOMAIN new = 1 .. n + m
      /\ \A i \in 1 .. n + m : new[i] = IF i <= n + 1 THEN x[i] ELSE y[i - (n + 1)]
  <2> DEFINE c == n + 1
  <2>1. Len(x) = c /\ Len(x) + Len(y) = n + m
    BY <1>1, <1>2, <1>6
  <2> HIDE DEF c
  <2>2. /\ DOMAIN new = 1 .. Len(x) + Len(y)
        /\ \A i \in 1 .. Len(x) + Len(y) : new[i] = IF i <= Len(x) THEN x[i] ELSE y[i - Len(x)]
    <3>1. x \in Seq(T) /\ y \in Seq(T)
      BY <1>2, <1>6
    <3>2. /\ new \in Seq(T) /\ Len(new) = Len(x) + Len(y)
          /\ \A i \in 1 .. Len(x) + Len(y) : new[i] = IF i <= Len(x) THEN x[i] ELSE y[i - Len(x)]
      BY <3>1, ConcatProperties
    <3> HIDE DEF new
    <3>3. DOMAIN new = 1 .. Len(new)
      BY <3>2
    <3> QED BY <3>2, <3>3
  <2> HIDE DEF new
  <2> QED BY <2>1, <2>2 DEF c
<1> HIDE DEF old, new
<1>9. ASSUME NEW i \in 1 .. n + m PROVE Was(i) \in 1 .. n + m /\ new[i] = old[Was(i)]
  <2>1. CASE i <= n
    <3>1. i \in 1 .. n /\ i <= n + 1
      BY <1>1, <2>1
    <3> QED BY <1>2, <1>7, <1>8, <2>1, <3>1
  <2>2. CASE i = n + 1
    <3>1. ~ (i <= n) /\ Was(i) = n + k /\ n + k \in 1 .. n + m /\ ~ (n + k <= n) /\ (n + k) - n = k
      BY <1>1, <2>2
    <3>2. new[i] = q[k]
      BY <1>1, <1>2, <1>8, <2>2
    <3> QED BY <1>7, <3>1, <3>2
  <2>3. CASE ~ (i <= n + 1)
    <3> DEFINE j == i - (n + 1)
    <3>1. j \in 1 .. m - 1 /\ ~ (i <= n) /\ ~ (i = n + 1) /\ i - 1 \in 1 .. n + m
      BY <1>1, <2>3
    <3>2. new[i] = y[j]
      BY <1>8, <2>3
    <3>3. CASE j < k
      <4>1. Was(i) = i - 1 /\ ~ (i - 1 <= n) /\ (i - 1) - n = j
        BY <1>1, <2>3, <3>1, <3>3
      <4>2. old[i - 1] = q[j]
        BY <1>7, <3>1, <4>1
      <4> QED BY <1>6, <3>1, <3>2, <3>3, <4>1, <4>2
    <3>4. CASE ~ (j < k)
      <4>1. Was(i) = i /\ i - n = j + 1
        BY <1>1, <2>3, <3>1, <3>4
      <4>2. old[i] = q[j + 1]
        BY <1>7, <3>1, <4>1
      <4> QED BY <1>6, <3>1, <3>2, <3>4, <4>1, <4>2
    <3> QED BY <3>3, <3>4
  <2>4. i <= n \/ i = n + 1 \/ ~ (i <= n + 1)
    BY <1>1
  <2> HIDE DEF Was
  <2> QED BY <2>1, <2>2, <2>3, <2>4
<1>10. ASSUME NEW i \in 1 .. n + m, NEW j \in 1 .. n + m, Was(i) = Was(j) PROVE i = j
  BY <1>1, <1>10
<1> HIDE DEF Was
<1>11. IsInjective(new)
  <2>1. \A i, j \in 1 .. n + m : old[i] = old[j] => i = j
    BY <1>7 DEF IsInjective, old
  <2> QED BY <1>8, <1>9, <1>10, <2>1 DEF IsInjective
<1> QED
  BY <1>2, <1>6, <1>11 DEF n, m, x, y, new

\* A step that leaves the entire population alone.
LEMMA EntireKept ==
  ASSUME SamplingInvariant, UNCHANGED domains, entire_pop' = entire_pop
  PROVE  Dims' /\ (entire_pop = <<>> \/ Enumeration(entire_pop, Combinations))'
<1>1. Combinations' = Combinations /\ ranges' = ranges /\ sets' = sets
  BY DomainsKept DEF domains
<1> QED
  BY <1>1 DEF SamplingInvariant, Dims, Enumeration

LEMMA GenerateAllPopStep ==
  ASSUME SamplingAssumption, SamplingInvariant, GenerateAllPop
  PROVE  SamplingInvariant'
<1>1. UNCHANGED domains /\ Dims /\ call = "ready" /\ call' = call
  BY DEF GenerateAllPop, SamplingInvariant, Dims
<1>2. dimensions' = dimensions /\ Combinations' = Combinations
  BY <1>1, DomainsKept
<1>3. Enumeration(entire_pop', Combinations)
  <2>1. IsFiniteSet(Combinations)
    BY <1>1, FiniteCombinations
  <2>2. Enumeration(FoldSet(LAMBDA v, pop : Append(pop, v), <<>>, Combinations), Combinations)
    BY <2>1, FoldEnumerates
  <2>3. entire_pop' = FoldSet(LAMBDA v, pop : Append(pop, v), <<>>, Combinations)
    BY DEF GenerateAllPop
  <2> QED BY <2>2, <2>3
<1>4. Enumeration(entire_pop, Combinations)'
  BY <1>2, <1>3 DEF Enumeration
<1>5. ranges' = ranges /\ sets' = sets
  BY <1>1 DEF domains
<1>6. UNCHANGED <<number, isArray, random_pop, random_pop_index, temp_pop>>
  BY DEF GenerateAllPop
<1> QED
  BY <1>1, <1>2, <1>4, <1>5, <1>6 DEF SamplingInvariant, NothingDrawn

LEMMA GenerateRandomStep ==
  ASSUME SamplingAssumption, SamplingInvariant, GenerateRandom
  PROVE  SamplingInvariant'
<1>1. /\ UNCHANGED domains /\ UNCHANGED <<entire_pop, random_pop_index, temp_pop>>
      /\ call = "ready" /\ NothingDrawn
  BY DEF GenerateRandom, SamplingInvariant
<1>2. number' \in Nat /\ isArray' \in BOOLEAN
  <2>1. MaxNumber \in Nat
    BY DEF SamplingAssumption
  <2> QED BY <2>1 DEF GenerateRandom
<1>3. Dims' /\ (entire_pop = <<>> \/ Enumeration(entire_pop, Combinations))'
  BY <1>1, EntireKept
<1>4. call' = "failed" \/ (call' = "random" /\ random_pop' = Undrawn(number'))
  BY DEF GenerateRandom
<1>5. CASE call' = "failed"
  BY <1>2, <1>3, <1>5 DEF SamplingInvariant, Dims
<1>6. CASE call' = "random" /\ random_pop' = Undrawn(number')
  <2>1. Vectors' = Vectors
    BY <1>1, DomainsKept
  <2>2. random_pop' \in [1 .. number' -> Vectors]
    BY <1>6 DEF Undrawn, Zeros, Vectors
  <2>3. random_pop_index' = 0 /\ temp_pop' = <<>>
    BY <1>1 DEF NothingDrawn
  <2>4. SubSeq(random_pop', 1, random_pop_index') = <<>>
    BY <1>2, <2>3
  <2>5. IsInjective(SubSeq(random_pop', 1, random_pop_index'))
    <3>1. IsInjective(<<>>)
      BY DEF IsInjective
    <3> QED BY <2>4, <3>1
  <2>6. DrawnSoFar'
    BY <1>2, <2>1, <2>2, <2>3, <2>5 DEF DrawnSoFar, IsInjective
  <2> QED BY <1>2, <1>3, <1>6, <2>6 DEF SamplingInvariant, Dims
<1> QED
  BY <1>4, <1>5, <1>6

LEMMA DrawSampleStep ==
  ASSUME SamplingAssumption, SamplingInvariant, DrawSample
  PROVE  SamplingInvariant'
<1>1. /\ UNCHANGED domains /\ UNCHANGED <<entire_pop, number, isArray, temp_pop>>
      /\ DrawnSoFar /\ number \in Nat /\ isArray \in BOOLEAN /\ Dims /\ call = "random"
  BY DEF DrawSample, SamplingInvariant, Dims
<1>2. Dims' /\ (entire_pop = <<>> \/ Enumeration(entire_pop, Combinations))'
  BY <1>1, EntireKept
<1>3. random_pop_index \in 0 .. number - 1
  BY <1>1 DEF DrawSample, Unfinished, DrawnSoFar
<1>4. PICK draw \in AllDraws :
        \/ call' = "thrown"
        \/ /\ WithinSets(draw)
           /\ IF IsNew(Drawn(draw)) THEN Keep(Drawn(draw))
              ELSE UNCHANGED <<random_pop, random_pop_index>>
           /\ UNCHANGED call
  BY DEF DrawSample
<1>5. CASE call' = "thrown"
  BY <1>1, <1>2, <1>5 DEF SamplingInvariant, Dims
<1>6. CASE UNCHANGED call /\ UNCHANGED <<random_pop, random_pop_index>>
  <2>1. Vectors' = Vectors
    BY <1>1, DomainsKept
  <2>2. DrawnSoFar'
    BY <1>1, <1>6, <2>1 DEF DrawnSoFar, IsInjective
  <2> QED BY <1>1, <1>2, <1>6, <2>2 DEF SamplingInvariant, Dims
<1>7. CASE WithinSets(draw) /\ IsNew(Drawn(draw)) /\ Keep(Drawn(draw)) /\ UNCHANGED call
  <2> DEFINE v == Drawn(draw)
             i == random_pop_index
             r == [random_pop EXCEPT ![i + 1] = v]
  <2>1. Vectors' = Vectors
    BY <1>1, DomainsKept
  <2>2. v \in Vectors
    BY <1>1, <1>7, DrawnIsVector
  <2>3. v \notin ToSet(random_pop) /\ random_pop' = r /\ random_pop_index' = i + 1
    BY <1>7 DEF IsNew, Keep
  <2>4. random_pop \in [1 .. number -> Vectors] /\ IsInjective(SubSeq(random_pop, 1, i))
    BY <1>1 DEF DrawnSoFar
  <2> HIDE DEF v
  <2>5. r \in [1 .. number -> Vectors] /\ IsInjective(SubSeq(r, 1, i + 1))
    BY <1>1, <1>3, <2>2, <2>3, <2>4, DrawnMore
  <2> HIDE DEF r
  <2>6. i + 1 \in 0 .. number
    BY <1>1, <1>3
  <2>7. temp_pop' = <<>> /\ number' = number
    BY <1>1 DEF DrawnSoFar
  <2>8. DrawnSoFar'
    <3>1. IsInjective(SubSeq(random_pop', 1, random_pop_index'))
      BY <2>3, <2>5
    <3> QED BY <2>1, <2>3, <2>5, <2>6, <2>7, <3>1 DEF DrawnSoFar, IsInjective
  <2> QED BY <1>1, <1>2, <1>7, <2>8 DEF SamplingInvariant, Dims
<1> QED
  BY <1>4, <1>5, <1>6, <1>7

LEMMA RandomDrawnStep ==
  ASSUME SamplingAssumption, SamplingInvariant, RandomDrawn
  PROVE  SamplingInvariant'
<1>1. /\ UNCHANGED domains
      /\ UNCHANGED <<entire_pop, number, isArray, random_pop, random_pop_index, temp_pop>>
      /\ DrawnSoFar /\ number \in Nat /\ isArray \in BOOLEAN /\ random_pop_index = number
      /\ call' \in {"to_array", "returned"}
  BY DEF RandomDrawn, SamplingInvariant
<1>2. Dims' /\ (entire_pop = <<>> \/ Enumeration(entire_pop, Combinations))'
  BY <1>1, EntireKept
<1>3. Vectors' = Vectors
  BY <1>1, DomainsKept
<1>4. random_pop' \in [1 .. number' -> Vectors']
  BY <1>1, <1>3 DEF DrawnSoFar
<1>5. ASSUME random_pop_index' = 0 PROVE IsInjective(random_pop' \o temp_pop')
  <2>1. random_pop' \o temp_pop' = <<>>
    <3>1. random_pop' \in Seq(Vectors) /\ Len(random_pop') = 0
      BY <1>1, <1>5 DEF DrawnSoFar
    <3>2. random_pop' = <<>> /\ temp_pop' = <<>>
      BY <1>1, <3>1, EmptySeq DEF DrawnSoFar
    <3> QED BY <3>2
  <2>2. IsInjective(<<>>)
    BY DEF IsInjective
  <2> QED BY <2>1, <2>2
<1>6. random_pop_index' = 0 => IsInjective(random_pop \o temp_pop)'
  BY <1>5 DEF IsInjective
<1> QED
  BY <1>1, <1>2, <1>4, <1>6 DEF SamplingInvariant, Dims

LEMMA GenerateUsingEntireStep ==
  ASSUME SamplingAssumption, SamplingInvariant, GenerateUsingEntire
  PROVE  SamplingInvariant'
<1>1. /\ UNCHANGED domains /\ UNCHANGED <<entire_pop, random_pop, random_pop_index>>
      /\ call = "ready" /\ NothingDrawn /\ Dims
      /\ entire_pop = <<>> \/ Enumeration(entire_pop, Combinations)
  BY DEF GenerateUsingEntire, SamplingInvariant, Dims
<1>2. number' \in Nat /\ isArray' \in BOOLEAN
  <2>1. MaxNumber \in Nat
    BY DEF SamplingAssumption
  <2> QED BY <2>1 DEF GenerateUsingEntire
<1>3. Dims' /\ (entire_pop = <<>> \/ Enumeration(entire_pop, Combinations))'
  BY <1>1, EntireKept
<1>4. call' = "failed" \/ (call' = "using_entire" /\ temp_pop' = entire_pop)
  BY DEF GenerateUsingEntire
<1>5. CASE call' = "failed"
  BY <1>2, <1>3, <1>5 DEF SamplingInvariant, Dims
<1>6. CASE call' = "using_entire" /\ temp_pop' = entire_pop
  <2>1. Vectors' = Vectors
    BY <1>1, DomainsKept
  <2>2. random_pop' = <<>> /\ random_pop_index' = 0
    BY <1>1 DEF NothingDrawn
  <2>3. temp_pop' \in Seq(Vectors) /\ IsInjective(temp_pop')
    <3>1. CASE entire_pop = <<>>
      BY <1>6, <3>1 DEF IsInjective
    <3>2. CASE Enumeration(entire_pop, Combinations)
      <4>1. Combinations \in SUBSET Vectors
        BY <1>1, FiniteCombinations
      <4>2. entire_pop \in Seq(Vectors) /\ IsInjective(entire_pop)
        BY <3>2, <4>1, SeqMonotonic DEF Enumeration
      <4> QED BY <1>6, <4>2
    <3> QED BY <1>1, <3>1, <3>2
  <2>4. random_pop' \o temp_pop' = temp_pop'
    BY <2>2, <2>3, ConcatEmptySeq
  <2>5. IsInjective(random_pop \o temp_pop)'
    <3>1. IsInjective(random_pop' \o temp_pop')
      BY <2>3, <2>4
    <3> QED BY <3>1 DEF IsInjective
  <2>6. MovedSoFar'
    BY <1>2, <2>1, <2>2, <2>3 DEF MovedSoFar
  <2> QED BY <1>2, <1>3, <1>6, <2>5, <2>6 DEF SamplingInvariant, Dims
<1> QED
  BY <1>4, <1>5, <1>6

LEMMA DrawFromEntireStep ==
  ASSUME SamplingAssumption, SamplingInvariant, DrawFromEntire
  PROVE  SamplingInvariant'
<1>1. /\ UNCHANGED domains /\ UNCHANGED <<entire_pop, number, isArray, random_pop_index>>
      /\ call = "using_entire" /\ MovedSoFar /\ IsInjective(random_pop \o temp_pop)
      /\ number \in Nat /\ isArray \in BOOLEAN /\ Len(random_pop) < number
  BY DEF DrawFromEntire, SamplingInvariant, MovedSoFar
<1>2. Dims' /\ (entire_pop = <<>> \/ Enumeration(entire_pop, Combinations))'
  BY <1>1, EntireKept
<1>3. \/ call' = "thrown"
      \/ /\ \E k \in 1 .. Len(temp_pop) :
              random_pop' = Append(random_pop, temp_pop[k]) /\ temp_pop' = RemoveAt(temp_pop, k)
         /\ UNCHANGED call
  BY DEF DrawFromEntire, Erased
<1>4. CASE call' = "thrown"
  BY <1>1, <1>2, <1>4 DEF SamplingInvariant, Dims
<1>5. CASE /\ \E k \in 1 .. Len(temp_pop) :
                random_pop' = Append(random_pop, temp_pop[k]) /\ temp_pop' = RemoveAt(temp_pop, k)
           /\ UNCHANGED call
  <2>1. PICK k \in 1 .. Len(temp_pop) :
          random_pop' = Append(random_pop, temp_pop[k]) /\ temp_pop' = RemoveAt(temp_pop, k)
    BY <1>5
  <2>2. random_pop \in Seq(Vectors) /\ temp_pop \in Seq(Vectors) /\ Len(random_pop) \in Nat
    BY <1>1 DEF MovedSoFar
  <2>3. /\ random_pop' \in Seq(Vectors) /\ Len(random_pop') = Len(random_pop) + 1
        /\ temp_pop' \in Seq(Vectors) /\ IsInjective(random_pop' \o temp_pop')
    BY <1>1, <2>1, <2>2, Moved
  <2>4. Vectors' = Vectors
    BY <1>1, DomainsKept
  <2>5. MovedSoFar'
    BY <1>1, <2>2, <2>3, <2>4 DEF MovedSoFar
  <2>6. IsInjective(random_pop \o temp_pop)'
    BY <2>3 DEF IsInjective
  <2> QED BY <1>1, <1>2, <1>5, <2>5, <2>6 DEF SamplingInvariant, Dims
<1> QED
  BY <1>3, <1>4, <1>5

LEMMA EntireDrawnStep ==
  ASSUME SamplingAssumption, SamplingInvariant, EntireDrawn
  PROVE  SamplingInvariant'
<1>1. /\ UNCHANGED domains
      /\ UNCHANGED <<entire_pop, number, isArray, random_pop, random_pop_index, temp_pop>>
      /\ MovedSoFar /\ IsInjective(random_pop \o temp_pop)
      /\ number \in Nat /\ isArray \in BOOLEAN /\ Len(random_pop) = number
      /\ call' \in {"to_array", "returned"}
  BY DEF EntireDrawn, SamplingInvariant, MovedSoFar
<1>2. Dims' /\ (entire_pop = <<>> \/ Enumeration(entire_pop, Combinations))'
  BY <1>1, EntireKept
<1>3. Vectors' = Vectors
  BY <1>1, DomainsKept
<1>4. random_pop' \in [1 .. number' -> Vectors']
  <2>1. random_pop \in [1 .. Len(random_pop) -> Vectors]
    BY <1>1, LenProperties DEF MovedSoFar
  <2> QED BY <1>1, <1>3, <2>1
<1>5. IsInjective(random_pop \o temp_pop)'
  BY <1>1 DEF IsInjective
<1> QED
  BY <1>1, <1>2, <1>4, <1>5 DEF SamplingInvariant, Dims

LEMMA OtherSteps ==
  ASSUME SamplingAssumption, SamplingInvariant,
         NormalizeBounds \/ GenerateFromfile \/ ToArray \/ GenerateAllArray \/ UNCHANGED sampling
  PROVE  SamplingInvariant'
<1>1. UNCHANGED domains /\ entire_pop' = entire_pop
  BY DEF NormalizeBounds, GenerateFromfile, ToArray, GenerateAllArray, sampling
<1>2. Dims' /\ (entire_pop = <<>> \/ Enumeration(entire_pop, Combinations))'
  BY <1>1, EntireKept
<1>3. number \in Nat /\ isArray \in BOOLEAN
  BY DEF SamplingInvariant
<1>4. CASE NormalizeBounds
  <2>1. MaxPar \in Nat
    BY DEF SamplingAssumption
  <2>2. number' \in Nat /\ isArray' = isArray /\ call' = "normalized"
    BY <2>1, <1>4 DEF NormalizeBounds
  <2> QED BY <1>2, <1>3, <2>2 DEF SamplingInvariant, Dims
<1>5. CASE GenerateFromfile
  <2>1. number' = number /\ isArray' = isArray /\ call' \in {"read", "failed"}
    BY <1>5 DEF GenerateFromfile
  <2> QED BY <1>2, <1>3, <2>1 DEF SamplingInvariant, Dims
<1>6. CASE ToArray
  <2>1. /\ UNCHANGED <<number, isArray, random_pop, random_pop_index, temp_pop>>
        /\ call = "to_array" /\ call' = "returned"
    BY <1>6 DEF ToArray
  <2>2. random_pop_index' = 0 => IsInjective(random_pop \o temp_pop)'
    BY <2>1 DEF SamplingInvariant, IsInjective
  <2> QED BY <1>2, <1>3, <2>1, <2>2 DEF SamplingInvariant, Dims
<1>7. CASE GenerateAllArray
  <2>1. /\ number' = number /\ isArray' = TRUE /\ random_pop' = entire_pop
        /\ temp_pop' = <<>> /\ call' = "returned"
    BY <1>7 DEF GenerateAllArray, SamplingInvariant, NothingDrawn
  <2>2. IsInjective(random_pop' \o temp_pop')
    <3>1. CASE entire_pop = <<>>
      <4>1. random_pop' \o temp_pop' = <<>>
        BY <2>1, <3>1
      <4>2. IsInjective(<<>>)
        BY DEF IsInjective
      <4> QED BY <4>1, <4>2
    <3>2. CASE Enumeration(entire_pop, Combinations)
      <4>1. random_pop' \o temp_pop' = entire_pop
        BY <2>1, <3>2, ConcatEmptySeq DEF Enumeration
      <4> QED BY <3>2, <4>1 DEF Enumeration
    <3> QED BY <3>1, <3>2 DEF SamplingInvariant
  <2>3. IsInjective(random_pop \o temp_pop)'
    BY <2>2 DEF IsInjective
  <2> QED BY <1>2, <1>3, <2>1, <2>3 DEF SamplingInvariant, Dims
<1>8. CASE UNCHANGED sampling
  <2>1. /\ UNCHANGED <<number, isArray, random_pop, random_pop_index, temp_pop, call>>
        /\ dimensions' = dimensions /\ Vectors' = Vectors
    BY <1>1, <1>8, DomainsKept DEF sampling
  <2>2. /\ (call = "ready" => dimensions >= 1 /\ NothingDrawn)'
        /\ (call = "random" => DrawnSoFar)'
        /\ (call = "using_entire" => MovedSoFar)'
        /\ (call = "to_array" => random_pop \in [1 .. number -> Vectors])'
        /\ (call \in {"using_entire", "to_array", "returned"} /\ random_pop_index = 0 =>
              IsInjective(random_pop \o temp_pop))'
    BY <2>1 DEF SamplingInvariant, NothingDrawn, DrawnSoFar, MovedSoFar, IsInjective
  <2> QED BY <1>2, <1>3, <2>1, <2>2 DEF SamplingInvariant, Dims
<1> QED
  BY <1>4, <1>5, <1>6, <1>7, <1>8

LEMMA SamplingStep ==
  ASSUME SamplingAssumption, SamplingInvariant, [SamplingNext]_sampling
  PROVE  SamplingInvariant'
<1>1. CASE GenerateAllPop
  BY <1>1, GenerateAllPopStep
<1>2. CASE GenerateRandom
  BY <1>2, GenerateRandomStep
<1>3. CASE DrawSample
  BY <1>3, DrawSampleStep
<1>4. CASE RandomDrawn
  BY <1>4, RandomDrawnStep
<1>5. CASE GenerateUsingEntire
  BY <1>5, GenerateUsingEntireStep
<1>6. CASE DrawFromEntire
  BY <1>6, DrawFromEntireStep
<1>7. CASE EntireDrawn
  BY <1>7, EntireDrawnStep
<1>8. CASE NormalizeBounds \/ GenerateFromfile \/ ToArray \/ GenerateAllArray \/ UNCHANGED sampling
  BY <1>8, OtherSteps
<1> QED
  BY <1>1, <1>2, <1>3, <1>4, <1>5, <1>6, <1>7, <1>8 DEF SamplingNext, Returned

\* What a file yields whose names are as many as its dimensions.
Yields(f, pop) ==
  /\ Len(pop) = f.size
  /\ \A k \in 1 .. f.size :
       IF f.sizeBlank /\ f.dimensionsBlank
         THEN /\ Len(pop[k]) = f.names
              /\ k <= Len(f.rows) =>
                   \A j \in 1 .. f.names : j <= Len(f.rows[k]) => pop[k][j] = f.rows[k][j]
         ELSE pop[k] = <<>>

LEMMA FileYields ==
  ASSUME NEW f, FileAssumption(f), NEW dims, NamesRead(f) = dims
  PROVE  Yields(f, SamplesRead(f, dims))
<1> DEFINE pop == SamplesRead(f, dims)
<1>1. dims = IF f.sizeBlank /\ f.dimensionsBlank THEN f.names ELSE 0
  BY DEF NamesRead
<1>2. f.size \in Nat /\ f.names \in Nat /\ dims \in Nat
  BY <1>1 DEF FileAssumption
<1>3. /\ pop \in [1 .. f.size -> [1 .. dims -> Int]]
      /\ \A k \in 1 .. f.size : k <= Len(f.rows) =>
           \A j \in 1 .. dims : j <= Len(f.rows[k]) => pop[k][j] = f.rows[k][j]
  <2>1. pop \in [1 .. f.size -> [1 .. dims -> Int]] /\ Rows(pop, f, dims)
    BY <1>2, RowsRead
  <2> HIDE DEF pop
  <2> QED BY <2>1 DEF Rows
<1> HIDE DEF pop
<1>4. Len(pop) = f.size
  BY <1>2, <1>3
<1>5. ASSUME NEW k \in 1 .. f.size
      PROVE  IF f.sizeBlank /\ f.dimensionsBlank
               THEN /\ Len(pop[k]) = f.names
                    /\ k <= Len(f.rows) =>
                         \A j \in 1 .. f.names : j <= Len(f.rows[k]) => pop[k][j] = f.rows[k][j]
               ELSE pop[k] = <<>>
  <2>1. pop[k] \in [1 .. dims -> Int]
    BY <1>3
  <2>2. CASE f.sizeBlank /\ f.dimensionsBlank
    <3>1. dims = f.names
      BY <1>1, <2>2
    <3>2. Len(pop[k]) = f.names
      BY <1>2, <2>1, <3>1
    <3> QED BY <1>3, <2>2, <3>1, <3>2
  <2>3. CASE ~ (f.sizeBlank /\ f.dimensionsBlank)
    <3>1. pop[k] \in [1 .. 0 -> Int]
      BY <1>1, <2>1, <2>3
    <3>2. pop[k] = <<>>
      BY <3>1
    <3> QED BY <2>3, <3>2
  <2> QED BY <2>2, <2>3
<1> QED
  BY <1>4, <1>5 DEF pop, Yields

\* The file that was read.
LEMMA FileStep ==
  ASSUME SamplingAssumption, FileIsRead, [SamplingNext]_sampling
  PROVE  FileIsRead'
<1>1. CASE GenerateFromfile
  <2> SUFFICES ASSUME call' = "read" PROVE FileIsRead'
    BY DEF FileIsRead
  <2>1. PICK f \in Files : f = file'
    BY <1>1 DEF GenerateFromfile
  <2>2. PICK dims \in DimensionsRead(f) : NamesRead(f) = dims /\ newpop' = SamplesRead(f, dims)
    BY <1>1, <2>1 DEF GenerateFromfile, Agree
  <2>3. FileAssumption(f)
    BY <2>1 DEF SamplingAssumption, FileAssumption
  <2>4. Yields(f, SamplesRead(f, dims))
    BY <2>2, <2>3, FileYields
  <2> QED BY <2>1, <2>2, <2>4 DEF FileIsRead, Yields
<1>2. CASE ~ GenerateFromfile
  <2>1. call' # "read" \/ UNCHANGED <<call, fromFile>>
    BY <1>2 DEF SamplingNext, NormalizeBounds, GenerateAllPop, GenerateRandom, DrawSample,
         RandomDrawn, GenerateUsingEntire, DrawFromEntire, EntireDrawn, ToArray, GenerateAllArray,
         Returned, sampling
  <2> QED BY <2>1 DEF FileIsRead, fromFile
<1> QED
  BY <1>1, <1>2

\* The values that were normalized.
LEMMA NormalizedStep ==
  ASSUME SamplingAssumption, SamplingInvariant, NormalizedIsNearest, [SamplingNext]_sampling
  PROVE  NormalizedIsNearest'
<1>1. CASE NormalizeBounds
  <2>1. /\ ranges' = ranges /\ sets' = sets /\ Dims /\ dimensions \in Nat \ {0}
        /\ array' = [k \in DOMAIN par' |-> normalize_value(par'[k], DimensionOf(k))]
    <3>1. Dims /\ dimensions >= 1
      BY <1>1 DEF NormalizeBounds, SamplingInvariant, Dims
    <3>2. dimensions \in Nat
      BY <3>1, DimensionTypes
    <3> QED BY <1>1, <3>1, <3>2 DEF NormalizeBounds, domains
  <2>2. /\ \A d : Points(d)' = Points(d) /\ IsDivided(d)' = IsDivided(d)
        /\ \A k : DimensionOf(k)' = DimensionOf(k)
    BY <2>1 DEF Points, IsDivided, DimensionOf, dimensions, IsRange, SetOf
  <2>3. PICK n \in Nat : par' \in [1 .. n -> Int]
    <3>1. PICK m \in 1 .. MaxPar : par' \in [1 .. m * dimensions -> ParValues]
      BY <1>1 DEF NormalizeBounds
    <3>2. m * dimensions \in Nat
      <4>1. m \in Nat
        BY DEF SamplingAssumption
      <4> QED BY <2>1, <4>1
    <3>3. par' \in [1 .. m * dimensions -> Int]
      BY <3>1 DEF SamplingAssumption
    <3> QED BY <3>2, <3>3
  <2>4. ASSUME NEW k \in DOMAIN par'
        PROVE  LET d == DimensionOf(k)
               IN  /\ array'[k] \in Points(d)
                   /\ IsDivided(d) =>
                        \A p \in Points(d) : Abs(array'[k] - par'[k]) <= Abs(p - par'[k])
    <3> DEFINE d == DimensionOf(k)
               value == par'[k]
    <3>1. d \in 1 .. dimensions
      <4>1. k - 1 \in Nat
        BY <2>3
      <4>2. (k - 1) % dimensions \in Nat /\ (k - 1) % dimensions < dimensions
        BY <2>1, <4>1, Division
      <4> QED BY <2>1, <4>2 DEF DimensionOf
    <3>2. value \in Int
      BY <2>3
    <3>3. array'[k] = normalize_value(value, d)
      BY <2>1
    <3> HIDE DEF d, value
    <3>4. CASE IsRange(d)
      <4>1. /\ normalize_value(value, d) \in Points(d)
            /\ ranges[d].step > 1 =>
                 \A p \in Points(d) : Abs(normalize_value(value, d) - value) <= Abs(p - value)
        BY <2>1, <3>1, <3>2, <3>4, NormalizedInRange
      <4> QED BY <3>3, <3>4, <4>1 DEF IsDivided, d, value
    <3>5. CASE ~ IsRange(d)
      <4>1. /\ normalize_value(value, d) \in Points(d)
            /\ \A p \in Points(d) : Abs(normalize_value(value, d) - value) <= Abs(p - value)
        BY <2>1, <3>1, <3>2, <3>5, NormalizedInSet
      <4> QED BY <3>3, <4>1 DEF d, value
    <3> QED BY <3>4, <3>5
  <2> QED BY <2>2, <2>4 DEF NormalizedIsNearest, Abs
<1>2. CASE ~ NormalizeBounds
  <2>1. call' # "normalized" \/ UNCHANGED <<call, par, array, ranges, sets>>
    BY <1>2 DEF SamplingNext, GenerateFromfile, GenerateAllPop, GenerateRandom, DrawSample,
         RandomDrawn, GenerateUsingEntire, DrawFromEntire, EntireDrawn, ToArray, GenerateAllArray,
         Returned, sampling, results, domains
  <2>2. CASE UNCHANGED <<call, par, array, ranges, sets>>
    <3>1. /\ \A d : Points(d)' = Points(d) /\ IsDivided(d)' = IsDivided(d)
          /\ \A k : DimensionOf(k)' = DimensionOf(k)
      BY <2>2 DEF Points, IsDivided, DimensionOf, dimensions, IsRange, SetOf
    <3> QED BY <2>2, <3>1 DEF NormalizedIsNearest, Abs
  <2> QED BY <2>1, <2>2 DEF NormalizedIsNearest
<1> QED
  BY <1>1, <1>2

\* The samples of a population put into an array.
Holds(a, q, n) ==
  /\ Len(a) = n * dimensions /\ Len(q) = n
  /\ \A j \in 1 .. Len(q), d \in 1 .. dimensions : a[(j - 1) * dimensions + d] = q[j][d]

LEMMA ArrayOf ==
  ASSUME SamplingInvariant, SamplingAssumption, NEW n, n \in Nat \ {0},
         NEW q, q \in [1 .. n -> Vectors]
  PROVE  Holds(FlattenSeq(q), q, n)
<1>1. dimensions \in Nat
  BY DimensionTypes DEF SamplingInvariant, Dims
<1>2. Flat(FlattenSeq(q), q, n, dimensions)
  BY <1>1, Flattened DEF Vectors
<1>3. Len(q) = n
  OBVIOUS
<1> QED
  BY <1>2, <1>3 DEF Flat, Holds

LEMMA ArrayStep ==
  ASSUME SamplingAssumption, SamplingInvariant, ArrayHoldsSamples, [SamplingNext]_sampling
  PROVE  ArrayHoldsSamples'
<1>1. CASE ToArray
  <2>1. /\ dimensions' = dimensions /\ random_pop' = random_pop
        /\ array' = FlattenSeq(random_pop) /\ count' = number * dimensions
    BY <1>1, DomainsKept DEF ToArray, ArrayLength
  <2>2. number \in Nat /\ random_pop \in [1 .. number -> Vectors]
    BY <1>1 DEF ToArray, SamplingInvariant
  <2> SUFFICES ASSUME random_pop # <<>> PROVE ArrayHoldsSamples'
    BY <2>1 DEF ArrayHoldsSamples
  <2>3. number # 0
    BY <2>2
  <2>4. Holds(FlattenSeq(random_pop), random_pop, number)
    BY <2>2, <2>3, ArrayOf
  <2> QED BY <2>1, <2>4 DEF ArrayHoldsSamples, Holds
<1>2. CASE GenerateAllArray
  <2>1. /\ dimensions' = dimensions /\ random_pop' = entire_pop
        /\ array' = FlattenSeq(entire_pop) /\ count' = dimensions * TotalPopulation
    BY <1>2, DomainsKept DEF GenerateAllArray
  <2> SUFFICES ASSUME entire_pop # <<>> PROVE ArrayHoldsSamples'
    BY <2>1 DEF ArrayHoldsSamples
  <2> DEFINE n == Len(entire_pop)
  <2>2. n = TotalPopulation /\ entire_pop \in [1 .. n -> Vectors] /\ n \in Nat \ {0}
    <3>1. Enumeration(entire_pop, Combinations)
      BY DEF SamplingInvariant
    <3>2. Combinations \in SUBSET Vectors
      BY FiniteCombinations DEF SamplingInvariant, Dims
    <3>3. entire_pop \in Seq(Vectors) /\ n = TotalPopulation
      BY <3>1, <3>2, SeqMonotonic DEF Enumeration, TotalPopulation
    <3> QED BY <3>3, LenProperties, EmptySeq
  <2> HIDE DEF n
  <2>3. Holds(FlattenSeq(entire_pop), entire_pop, n)
    BY <2>2, ArrayOf
  <2>4. n * dimensions = dimensions * n
    <3>1. dimensions \in Nat
      BY DimensionTypes DEF SamplingInvariant, Dims
    <3> QED BY <2>2, <3>1
  <2>5. count' = Len(array')
    BY <2>1, <2>2, <2>3, <2>4 DEF Holds
  <2> QED BY <2>1, <2>3, <2>5 DEF ArrayHoldsSamples, Holds
<1>3. CASE ~ ToArray /\ ~ GenerateAllArray
  <2>1. \/ call' # "returned" \/ ~ isArray'
        \/ UNCHANGED <<call, isArray, random_pop, count, array, ranges, sets>>
    BY <1>3 DEF SamplingNext, GenerateFromfile, GenerateAllPop, GenerateRandom, DrawSample,
         RandomDrawn, GenerateUsingEntire, DrawFromEntire, EntireDrawn, NormalizeBounds,
         Returned, sampling, results, domains
  <2> QED BY <2>1 DEF ArrayHoldsSamples, dimensions
<1> QED
  BY <1>1, <1>2, <1>3

LEMMA InitiallyNoResults ==
  ASSUME SamplingInit
  PROVE  FileIsRead /\ NormalizedIsNearest /\ ArrayHoldsSamples
BY DEF SamplingInit, FileIsRead, NormalizedIsNearest, ArrayHoldsSamples
----------------------------------------------------------------------------
(***************************************************************************)
(* The sampler.                                                            *)
(***************************************************************************)
\* THEOREM: the invariant of the sampler holds, for any domains, numbers of samples and draws: the
\* entire population has each combination once, and what is drawn so far is distinct
\* (population_gen.cpp:190-275, 370-520).
THEOREM SamplerKeepsInvariant ==
  ASSUME SamplingAssumption
  PROVE  SamplingSpec => []SamplingInvariant
<1>1. SamplingInit => SamplingInvariant
  BY InitiallySampling
<1>2. SamplingInvariant /\ [SamplingNext]_sampling => SamplingInvariant'
  BY SamplingStep
<1> QED
  BY <1>1, <1>2, PTL DEF SamplingSpec

\* THEOREM: no sample is drawn twice, neither by comparing with those drawn nor by taking it out of
\* the entire population.
THEOREM SamplesAreDistinct ==
  ASSUME SamplingAssumption
  PROVE  SamplingSpec => []SamplesDistinct
<1>1. SamplingInvariant => SamplesDistinct
  BY DEF SamplingInvariant, SamplesDistinct, DrawnSoFar
<1> QED
  BY <1>1, SamplerKeepsInvariant, PTL

\* THEOREM: a normalized value is a point of its own dimension, and none is nearer
\* (population_gen.cpp:278-366, 880-969).
THEOREM NormalizedIsAlwaysNearest ==
  ASSUME SamplingAssumption
  PROVE  SamplingSpec => []NormalizedIsNearest
<1>1. SamplingInit => NormalizedIsNearest
  BY InitiallyNoResults
<1>2. SamplingInvariant /\ NormalizedIsNearest /\ [SamplingNext]_sampling => NormalizedIsNearest'
  BY NormalizedStep
<1> QED
  BY <1>1, <1>2, SamplerKeepsInvariant, PTL DEF SamplingSpec

\* THEOREM: the arrays returned hold the samples of the population, and as many values as the length
\* returned with them says.
THEOREM ArrayAlwaysHoldsSamples ==
  ASSUME SamplingAssumption
  PROVE  SamplingSpec => []ArrayHoldsSamples
<1>1. SamplingInit => ArrayHoldsSamples
  BY InitiallyNoResults
<1>2. SamplingInvariant /\ ArrayHoldsSamples /\ [SamplingNext]_sampling => ArrayHoldsSamples'
  BY ArrayStep
<1> QED
  BY <1>1, <1>2, SamplerKeepsInvariant, PTL DEF SamplingSpec

\* THEOREM: a population read from a file has the samples announced, a value for each name, and
\* every value given at its place, for files of any size (population_gen.cpp:68-158).
THEOREM FileIsAlwaysRead ==
  ASSUME SamplingAssumption
  PROVE  SamplingSpec => []FileIsRead
<1>1. SamplingInit => FileIsRead
  BY InitiallyNoResults
<1>2. FileIsRead /\ [SamplingNext]_sampling => FileIsRead'
  BY FileStep
<1> QED
  BY <1>1, <1>2, PTL DEF SamplingSpec
=============================================================================
