---------------------------- MODULE FitnessProofs ---------------------------
(***************************************************************************)
(* Proofs about the optimization function, for results of every length     *)
(* and every set of temperatures, and about the reduction of a             *)
(* concentration file, for files of every length.                          *)
(***************************************************************************)
EXTENDS OptimizationFunction, ConcentrationRedux, Induction, FiniteSetTheorems, SequenceTheorems

\* What a fitness map holds is a number, or NaN for the average.
LEMMA FitnessType ==
  ASSUME NEW f \in Fitness
  PROVE  /\ f.low \in Int
         /\ f.avg # NaN => f.avg \in Int
<1>1. CASE f \in [avg : Temperatures, low : Temperatures]
  BY <1>1, OptimizationAssumption
<1>2. CASE f = [avg |-> NaN, low |-> Sentinel]
  BY <1>2, OptimizationAssumption
<1>3. CASE f = [avg |-> 0, low |-> 0]
  BY <1>3
<1> QED
  BY <1>1, <1>2, <1>3 DEF Fitness

\* The samples kept are samples seen.
LEMMA StepTypeOK ==
  ASSUME OptimizeTypeOK, Step
  PROVE  OptimizeTypeOK'
<1>1. PICK n \in 0 .. MaxResults : fitness \in [1 .. n -> Fitness]
  BY DEF OptimizeTypeOK
<1>2. looked \in Nat /\ looked' = looked + 1 /\ looked' \in Samples /\ looked' \in Nat /\ fitness' = fitness
  BY DEF Step, OptimizeTypeOK
<1>3. fitness[looked + 1] \in Fitness
  BY <1>1, <1>2 DEF Samples
<1>4. /\ min_avg_temperature' \in Int
      /\ min_temperature' \in Int
  BY <1>3, FitnessType DEF Step, LookAt, NotAbove, OptimizeTypeOK
<1>5. Seen' = Seen \cup {looked + 1}
  BY <1>2 DEF Seen
<1>6. /\ min_avg_samples' \subseteq Seen'
      /\ min_samples' \subseteq Seen'
  BY <1>5 DEF Step, LookAt, Kept, OptimizeTypeOK
<1>7. Seen' \subseteq Samples'
  BY <1>2, <1>5 DEF OptimizeTypeOK, Samples
<1> QED
  BY <1>1, <1>2, <1>4, <1>6, <1>7 DEF OptimizeTypeOK

\* The variables stay well typed; in particular nothing is kept that was not seen.
THEOREM TypeCorrect == OptimizeSpec => []OptimizeTypeOK
<1>1. OptimizeInit => OptimizeTypeOK
  <2> SUFFICES ASSUME OptimizeInit PROVE OptimizeTypeOK
    OBVIOUS
  <2>1. PICK n \in 0 .. MaxResults : fitness \in [1 .. n -> {f \in Fitness : Plausible(f)}]
    BY DEF OptimizeInit
  <2>2. fitness \in [1 .. n -> Fitness]
    BY <2>1
  <2>3. Seen = {}
    BY DEF OptimizeInit, Seen
  <2> QED
    BY <2>2, <2>3, OptimizationAssumption DEF OptimizeInit, OptimizeTypeOK
<1>2. OptimizeTypeOK /\ [OptimizeNext]_optimize => OptimizeTypeOK'
  <2> SUFFICES ASSUME OptimizeTypeOK, [OptimizeNext]_optimize PROVE OptimizeTypeOK'
    OBVIOUS
  <2>1. CASE Step
    BY <2>1, StepTypeOK
  <2>2. CASE UNCHANGED optimize
    BY <2>2 DEF optimize, OptimizeTypeOK, Seen, Samples
  <2> QED
    BY <2>1, <2>2 DEF OptimizeNext, Finished
<1> QED
  BY <1>1, <1>2, PTL DEF OptimizeSpec

\* Whatever the order of arrival, each turn keeps the least temperature.
LEMMA LeastStep ==
  ASSUME OptimizeTypeOK, MinTemperatureIsLeast, Step
  PROVE  MinTemperatureIsLeast'
<1>1. /\ looked \in Nat /\ looked' = looked + 1 /\ fitness' = fitness /\ looked + 1 \in Samples
      /\ Seen' = Seen \cup {looked + 1} /\ looked + 1 \notin Seen
  BY DEF Step, OptimizeTypeOK, Seen
<1>2. \A k \in Samples : fitness[k].low \in Int
  BY FitnessType DEF OptimizeTypeOK, Samples
<1>3. Seen \subseteq Samples /\ min_temperature \in Int
  BY DEF OptimizeTypeOK
<1> DEFINE low == fitness[looked + 1].low
<1>4. low \in Int /\ low # NaN
  BY <1>1, <1>2, OptimizationAssumption
<1>5. min_temperature' = IF min_temperature >= low THEN low ELSE min_temperature
  BY <1>4 DEF Step, LookAt, NotAbove
<1> HIDE DEF low
<1>6. /\ min_temperature' <= min_temperature
      /\ min_temperature' <= low
      /\ min_temperature' \in {low, min_temperature}
  BY <1>3, <1>4, <1>5
<1>7. ASSUME NEW k \in Seen'
      PROVE  min_temperature' <= fitness[k].low
  BY <1>1, <1>2, <1>3, <1>4, <1>6 DEF low, MinTemperatureIsLeast
<1>8. min_temperature' = Sentinel \/ \E k \in Seen' : fitness[k].low = min_temperature'
  BY <1>1, <1>6 DEF low, MinTemperatureIsLeast
<1> QED
  BY <1>1, <1>7, <1>8 DEF MinTemperatureIsLeast

\* min_temperature is the least temperature seen (quic.cpp:345-350).
THEOREM LeastTemperature == OptimizeSpec => []MinTemperatureIsLeast
<1>1. OptimizeInit => MinTemperatureIsLeast
  BY DEF OptimizeInit, MinTemperatureIsLeast, Seen
<1>2. OptimizeTypeOK /\ MinTemperatureIsLeast /\ [OptimizeNext]_optimize => MinTemperatureIsLeast'
  <2> SUFFICES ASSUME OptimizeTypeOK, MinTemperatureIsLeast, [OptimizeNext]_optimize
               PROVE  MinTemperatureIsLeast'
    OBVIOUS
  <2>1. CASE Step
    BY <2>1, LeastStep
  <2>2. CASE UNCHANGED optimize
    BY <2>2 DEF optimize, MinTemperatureIsLeast, Seen
  <2> QED
    BY <2>1, <2>2 DEF OptimizeNext, Finished
<1> QED
  BY <1>1, <1>2, TypeCorrect, PTL DEF OptimizeSpec

\* Whatever the order of arrival, min_avg_temperature is the least average, and
\* nothing but samples that reach it is announced (quic.cpp:339-344, 361): the
\* wrong clear of line 347 may lose such samples, but adds none.
Announced == MinAverageIsLeast /\ AnnouncedAreMinimal

LEMMA AnnouncedStep ==
  ASSUME OptimizeTypeOK, Announced, Step
  PROVE  Announced'
<1>1. /\ looked \in Nat /\ fitness' = fitness /\ looked + 1 \in Samples
      /\ Seen' = Seen \cup {looked + 1} /\ looked + 1 \notin Seen
  BY DEF Step, OptimizeTypeOK, Seen
<1>2. \A k \in Samples : fitness[k].avg # NaN => fitness[k].avg \in Int
  BY FitnessType DEF OptimizeTypeOK, Samples
<1>3. Seen \subseteq Samples /\ min_avg_temperature \in Int /\ min_avg_samples \subseteq Seen
  BY DEF OptimizeTypeOK
<1> DEFINE avg == fitness[looked + 1].avg
<1>4. CASE avg = NaN
  <2>1. min_avg_temperature' = min_avg_temperature /\ min_avg_samples' \subseteq min_avg_samples
    BY <1>4 DEF Step, LookAt, Kept, NotAbove, Below
  <2>2. MinAverageIsLeast'
    BY <1>1, <1>4, <2>1 DEF Announced, MinAverageIsLeast
  <2>3. AnnouncedAreMinimal'
    BY <1>1, <2>1 DEF Announced, AnnouncedAreMinimal
  <2> QED
    BY <2>2, <2>3 DEF Announced
<1>5. CASE avg # NaN
  <2>1. avg \in Int
    BY <1>1, <1>2, <1>5
  <2>2. /\ min_avg_temperature' = IF min_avg_temperature >= avg THEN avg ELSE min_avg_temperature
        /\ min_avg_samples' \subseteq
             (IF min_avg_temperature > avg THEN {} ELSE min_avg_samples)
               \cup (IF min_avg_temperature >= avg THEN {looked + 1} ELSE {})
    BY <1>5 DEF Step, LookAt, Kept, NotAbove, Below
  <2> HIDE DEF avg
  <2>3. /\ min_avg_temperature' <= min_avg_temperature /\ min_avg_temperature' <= avg
        /\ min_avg_temperature' \in {avg, min_avg_temperature}
    BY <1>3, <2>1, <2>2
  <2>4. MinAverageIsLeast'
    <3>1. ASSUME NEW k \in Seen', fitness[k].avg # NaN
          PROVE  min_avg_temperature' <= fitness[k].avg
      <4>1. CASE k = looked + 1
        BY <2>3, <4>1 DEF avg
      <4>2. CASE k \in Seen
        <5>1. min_avg_temperature <= fitness[k].avg /\ fitness[k].avg \in Int
          BY <1>2, <1>3, <3>1, <4>2 DEF Announced, MinAverageIsLeast
        <5> QED
          BY <1>3, <2>1, <2>3, <5>1
      <4> QED
        BY <1>1, <4>1, <4>2
    <3>2. min_avg_temperature' = Sentinel \/ \E k \in Seen' : fitness[k].avg = min_avg_temperature'
      BY <1>1, <2>3 DEF avg, Announced, MinAverageIsLeast
    <3> QED
      BY <1>1, <3>1, <3>2 DEF MinAverageIsLeast
  <2>5. AnnouncedAreMinimal'
    <3>1. ASSUME NEW k \in min_avg_samples'
          PROVE  fitness[k].avg = min_avg_temperature'
      <4>1. CASE k = looked + 1
        <5>1. min_avg_temperature >= avg
          BY <1>1, <1>3, <2>2, <3>1, <4>1
        <5> QED
          BY <2>2, <4>1, <5>1 DEF avg
      <4>2. CASE k # looked + 1
        <5>1. k \in min_avg_samples /\ ~(min_avg_temperature > avg)
          BY <2>2, <3>1, <4>2
        <5>2. min_avg_temperature' = min_avg_temperature
          BY <1>3, <2>1, <2>3, <2>2, <5>1
        <5> QED
          BY <5>1, <5>2 DEF Announced, AnnouncedAreMinimal
      <4> QED
        BY <4>1, <4>2
    <3> QED
      BY <1>1, <3>1 DEF AnnouncedAreMinimal
  <2> QED
    BY <2>4, <2>5 DEF Announced
<1> QED
  BY <1>4, <1>5

LEMMA AnnouncedInvariant == OptimizeSpec => []Announced
<1>1. OptimizeInit => Announced
  BY DEF OptimizeInit, Announced, MinAverageIsLeast, AnnouncedAreMinimal, Seen
<1>2. OptimizeTypeOK /\ Announced /\ [OptimizeNext]_optimize => Announced'
  <2> SUFFICES ASSUME OptimizeTypeOK, Announced, [OptimizeNext]_optimize PROVE Announced'
    OBVIOUS
  <2>1. CASE Step
    BY <2>1, AnnouncedStep
  <2>2. CASE UNCHANGED optimize
    BY <2>2 DEF optimize, Announced, MinAverageIsLeast, AnnouncedAreMinimal, Seen
  <2> QED
    BY <2>1, <2>2 DEF OptimizeNext, Finished
<1> QED
  BY <1>1, <1>2, TypeCorrect, PTL DEF OptimizeSpec

\* min_avg_temperature is the least of the averages that are numbers
\* (quic.cpp:339-344), a NaN being passed over.
THEOREM LeastAverage == OptimizeSpec => []MinAverageIsLeast
<1>1. Announced => MinAverageIsLeast
  BY DEF Announced
<1> QED
  BY <1>1, AnnouncedInvariant, PTL

\* Every sample printed under "min average samples" has the least average.
THEOREM OnlyMinimaAnnounced == OptimizeSpec => []AnnouncedAreMinimal
<1>1. Announced => AnnouncedAreMinimal
  BY DEF Announced
<1> QED
  BY <1>1, AnnouncedInvariant, PTL
----------------------------------------------------------------------------
(***************************************************************************)
(* Sums over places, in whatever order the fold takes them.                *)
(***************************************************************************)
\* What the fold of SumAt makes of each set of places.
Added(cells, S, g) ==
  [T \in SUBSET S |-> IF T = {} THEN 0 ELSE cells[AnyOf(T)].c + g[T \ {AnyOf(T)}]]

\* There is such a function.
LEMMA SumExists ==
  ASSUME NEW S, IsFiniteSet(S), NEW cells, \A k \in S : cells[k].c \in Int
  PROVE  \E g : g = Added(cells, S, g)
<1> DEFINE step == [k \in S |-> [sum \in Int |-> cells[k].c + sum]]
<1>1. step \in [S -> [Int -> Int]] /\ 0 \in Int
  OBVIOUS
<1>2. PICK g : IsFold(g, S, Int, 0, step)
  <2> HIDE DEF step
  <2> QED BY <1>1, FoldExists
<1>3. ASSUME NEW T \in SUBSET S, T # {}
      PROVE  step[AnyOf(T)][g[T \ {AnyOf(T)}]] = cells[AnyOf(T)].c + g[T \ {AnyOf(T)}]
  <2>1. AnyOf(T) \in S /\ g[T \ {AnyOf(T)}] \in Int
    BY <1>2, <1>3, WithoutAny DEF IsFold
  <2> QED BY <2>1
<1> HIDE DEF step
<1>4. Folded(S, 0, step, g) = Added(cells, S, g)
  BY <1>3 DEF Folded, Added
<1> QED
  BY <1>2, <1>4 DEF IsFold

\* g is the sum over each subset: any place may be taken from it first.
Sums(g, cells, S) ==
  /\ g[{}] = 0
  /\ \A T \in SUBSET S : g[T] \in Int
  /\ \A T \in SUBSET S : \A k \in T : g[T] = cells[k].c + g[T \ {k}]

LEMMA AddedSums ==
  ASSUME NEW S, IsFiniteSet(S), NEW cells, \A k \in S : cells[k].c \in Int,
         NEW g, g = Added(cells, S, g)
  PROVE  Sums(g, cells, S)
<1> DEFINE n == Cardinality(S)
           Good(T) == g[T] \in Int /\ \A k \in T : g[T] = cells[k].c + g[T \ {k}]
<1>1. n \in Nat /\ \A T \in SUBSET S : Cardinality(T) \in Nat /\ Cardinality(T) <= n
  BY FS_Subset, FS_CardinalityType
<1> HIDE DEF n
<1>2. g[{}] = 0
  BY DEF Added
<1> DEFINE G == {m \in 0 .. n : \A T \in SUBSET S : Cardinality(T) <= m => Good(T)}
<1>3. 0 \in G
  <2>1. ASSUME NEW T \in SUBSET S, Cardinality(T) <= 0 PROVE Good(T)
    <3>1. Cardinality(T) = 0
      BY <1>1, <2>1
    <3>2. T = {}
      BY <3>1, FS_Subset, FS_EmptySet
    <3> QED BY <1>2, <3>2
  <2> HIDE DEF Good
  <2> QED BY <1>1, <2>1
<1>4. ASSUME NEW m \in 1 .. n, m - 1 \in G PROVE m \in G
  <2>1. m \in 0 .. n
    BY <1>1
  <2>2. \A T \in SUBSET S : Cardinality(T) <= m - 1 => Good(T)
    BY <1>4
  <2>3. ASSUME NEW T \in SUBSET S, Cardinality(T) <= m, T # {} PROVE Good(T)
    <3> DEFINE a == AnyOf(T)
               U == T \ {a}
    <3>1. a \in T /\ a \in S /\ U \in SUBSET S /\ Cardinality(U) <= m - 1
      BY <1>1, <2>3, WithoutAny
    <3>2. g[T] = cells[a].c + g[U]
      BY <2>3 DEF Added
    <3> HIDE DEF a
    <3>3. Good(U)
      <4> HIDE DEF U, Good
      <4> QED BY <2>2, <3>1
    <3>4. cells[a].c \in Int /\ g[U] \in Int /\ g[T] \in Int
      BY <3>1, <3>2, <3>3
    <3>5. ASSUME NEW k \in T, k # a PROVE g[T] = cells[k].c + g[T \ {k}]
      <4> DEFINE W == T \ {k}
                 Z == U \ {k}
      <4>1. k \in U /\ k \in S /\ a \in W /\ W \in SUBSET S /\ Z \in SUBSET S /\ W \ {a} = Z
        BY <3>1, <3>5
      <4>2. Cardinality(W) <= m - 1
        <5>1. IsFiniteSet(T)
          BY FS_Subset
        <5>2. Cardinality(W) = Cardinality(T) - 1
          BY <5>1, FS_RemoveElement
        <5> HIDE DEF W
        <5> QED BY <1>1, <2>3, <5>2
      <4>3. g[U] = cells[k].c + g[Z]
        BY <3>3, <4>1
      <4>4. Good(W)
        <5> HIDE DEF W, Good
        <5> QED BY <2>2, <4>1, <4>2
      <4>5. g[W] = cells[a].c + g[Z]
        <5> HIDE DEF Z
        <5> QED BY <4>1, <4>4
      <4>6. Good(Z)
        <5>1. IsFiniteSet(U) /\ Cardinality(U) \in Nat
          BY <1>1, <3>1, FS_Subset
        <5>2. Cardinality(Z) = Cardinality(U) - 1
          BY <4>1, <5>1, FS_RemoveElement
        <5> HIDE DEF Z, U, Good
        <5> QED BY <2>2, <3>1, <4>1, <5>1, <5>2
      <4> HIDE DEF W, Z, U
      <4>7. cells[k].c \in Int /\ g[Z] \in Int
        BY <4>1, <4>6
      <4> QED BY <3>2, <3>4, <4>3, <4>5, <4>7 DEF W
    <3> QED BY <3>2, <3>4, <3>5
  <2>4. Good({})
    BY <1>2
  <2> HIDE DEF Good
  <2> QED BY <2>1, <2>3, <2>4
<1>5. G \in SUBSET (0 .. n)
  OBVIOUS
<1> HIDE DEF G
<1>6. G = 0 .. n
  BY <1>1, <1>3, <1>4, <1>5, StepByStep
<1>7. \A T \in SUBSET S : Good(T)
  <2>1. n \in G
    BY <1>1, <1>6
  <2> HIDE DEF Good
  <2> QED BY <1>1, <2>1 DEF G
<1> QED
  BY <1>2, <1>7 DEF Sums

LEMMA SumAtSums ==
  ASSUME NEW S, IsFiniteSet(S), NEW cells, \A k \in S : cells[k].c \in Int
  PROVE  \E g : Sums(g, cells, S) /\ SumAt(cells, S) = g[S]
<1> DEFINE g == CHOOSE h : h = Added(cells, S, h)
<1>1. SumAt(cells, S) = g[S]
  BY DEF SumAt, FoldFunctionOnSet, MapThenFoldSet, AnyOf, Added
<1>2. g = Added(cells, S, g)
  BY SumExists
<1> HIDE DEF g
<1>3. Sums(g, cells, S)
  BY <1>2, AddedSums
<1> QED
  BY <1>1, <1>3


\* Cells that correspond have the same sum.
LEMMA SumsAgree ==
  ASSUME NEW S, IsFiniteSet(S), NEW T, NEW h, h \in Bijection(S, T), NEW cells, NEW others,
         \A k \in S : cells[k].c \in Int /\ others[h[k]] = cells[k]
  PROVE  SumAt(cells, S) = SumAt(others, T)
<1> DEFINE At(U) == {h[k] : k \in U}
           n == Cardinality(S)
<1>1. n \in Nat /\ \A U \in SUBSET S : Cardinality(U) \in Nat /\ Cardinality(U) <= n
  BY FS_Subset, FS_CardinalityType
<1>2. h \in [S -> T] /\ (\A t \in T : \E k \in S : h[k] = t) /\ \A k, l \in S : h[k] = h[l] => k = l
  BY DEF Bijection, Injection, Surjection, IsInjective
<1>3. IsFiniteSet(T)
  BY FS_Bijection DEF ExistsBijection
<1>4. \A t \in T : others[t].c \in Int
  BY <1>2
<1>5. PICK f : Sums(f, cells, S) /\ SumAt(cells, S) = f[S]
  BY SumAtSums
<1>6. PICK g : Sums(g, others, T) /\ SumAt(others, T) = g[T]
  BY <1>3, <1>4, SumAtSums
<1> HIDE DEF n
<1> DEFINE G == {m \in 0 .. n : \A U \in SUBSET S : Cardinality(U) = m => f[U] = g[At(U)]}
<1>7. 0 \in G
  <2>1. ASSUME NEW U \in SUBSET S, Cardinality(U) = 0 PROVE f[U] = g[At(U)]
    <3>1. U = {}
      BY <2>1, FS_Subset, FS_EmptySet
    <3>2. At(U) = {}
      BY <3>1
    <3> QED BY <1>5, <1>6, <3>1, <3>2 DEF Sums
  <2> HIDE DEF At
  <2> QED BY <1>1, <2>1
<1>8. ASSUME NEW m \in 1 .. n, m - 1 \in G PROVE m \in G
  <2>1. ASSUME NEW U \in SUBSET S, Cardinality(U) = m PROVE f[U] = g[At(U)]
    <3>1. IsFiniteSet(U) /\ U # {}
      <4>1. m # 0
        BY <1>1
      <4> QED BY <2>1, <4>1, FS_Subset, FS_EmptySet
    <3>2. PICK k \in U : TRUE
      BY <3>1
    <3> DEFINE W == U \ {k}
    <3>3. k \in S /\ W \in SUBSET S /\ Cardinality(W) = m - 1
      BY <2>1, <3>1, <3>2, FS_RemoveElement
    <3>4. f[U] = cells[k].c + f[W]
      BY <1>5, <3>2 DEF Sums
    <3>5. At(U) \in SUBSET T /\ h[k] \in At(U) /\ At(W) = At(U) \ {h[k]}
      BY <1>2, <3>2
    <3> HIDE DEF W, At
    <3>6. g[At(U)] = others[h[k]].c + g[At(W)]
      BY <1>6, <3>5 DEF Sums
    <3>7. f[W] = g[At(W)]
      BY <1>8, <3>3
    <3>8. others[h[k]] = cells[k]
      BY <3>3
    <3> QED BY <3>4, <3>6, <3>7, <3>8
  <2>2. m \in 0 .. n
    BY <1>1
  <2> HIDE DEF At
  <2> QED BY <2>1, <2>2
<1>9. G \in SUBSET (0 .. n)
  OBVIOUS
<1> HIDE DEF G
<1>10. G = 0 .. n
  BY <1>1, <1>7, <1>8, <1>9, StepByStep
<1>11. n \in G
  BY <1>1, <1>10
<1>12. f[S] = g[At(S)]
  BY <1>11 DEF G, n
<1>13. At(S) = T
  BY <1>2
<1> QED
  BY <1>5, <1>6, <1>12, <1>13
----------------------------------------------------------------------------
(***************************************************************************)
(* What Erased leaves: the cells at the other places, each once.           *)
(***************************************************************************)
\* h says at which of the places each of the cells left was.
Left(q, h, cells, places) ==
  /\ h \in Bijection(DOMAIN q, places)
  /\ \A j \in DOMAIN q : q[j] = cells[h[j]]

LEMMA ErasedLeaves ==
  ASSUME NEW S, NEW cells, cells \in Seq(S), NEW noted
  PROVE  /\ Erased(cells, noted) \in Seq(S)
         /\ \E h : Left(Erased(cells, noted), h, cells, DOMAIN cells \ noted)
<1> DEFINE n == Len(cells)
           V == Seq(S)
           none == <<>>
           next == [k \in 1 .. n |-> [q \in V |-> IF k \in noted THEN q ELSE Append(q, cells[k])]]
           IsLeft(f) ==
             f = [k \in 0 .. n |-> IF k = 0 THEN <<>>
                                   ELSE IF k \in noted THEN f[k - 1]
                                   ELSE Append(f[k - 1], cells[k])]
           left == CHOOSE f : IsLeft(f)
<1>1. n \in Nat /\ DOMAIN cells = 1 .. n /\ \A k \in 1 .. n : cells[k] \in S
  OBVIOUS
<1>2. Erased(cells, noted) = left[n]
  BY DEF Erased
<1> HIDE DEF n
<1>3. IsLeft(left)
  <2>1. next \in [1 .. n -> [V -> V]] /\ none \in V
    <3>1. \A q \in V : \A k \in 1 .. n : Append(q, cells[k]) \in V
      BY <1>1, AppendProperties
    <3>2. none \in V
      BY EmptySeq
    <3> HIDE DEF V, none
    <3>3. \A k \in 1 .. n : next[k] \in [V -> V]
      BY <3>1
    <3>4. next = [k \in 1 .. n |-> next[k]]
      OBVIOUS
    <3> HIDE DEF next
    <3> QED BY <3>2, <3>3, <3>4
  <2>2. PICK f : Recursive(f, n, V, none, next)
    <3> HIDE DEF V, none, next
    <3> QED BY <1>1, <2>1, Recursion
  <2>3. f \in [0 .. n -> V] /\ f[0] = <<>> /\ \A k \in 1 .. n : f[k] = next[k][f[k - 1]]
    BY <2>2 DEF Recursive
  <2>4. \A k \in 1 .. n : f[k] = IF k \in noted THEN f[k - 1] ELSE Append(f[k - 1], cells[k])
    <3> TAKE k \in 1 .. n
    <3>1. k - 1 \in 0 .. n
      BY <1>1
    <3> HIDE DEF V
    <3>2. f[k - 1] \in V
      BY <2>3, <3>1
    <3> QED BY <2>3, <3>2
  <2>5. IsLeft(f)
    <3>1. \A k \in 0 .. n : k # 0 => k \in 1 .. n
      BY <1>1
    <3> HIDE DEF V, next
    <3> QED BY <2>3, <2>4, <3>1
  <2> HIDE DEF IsLeft
  <2> QED BY <2>5
<1> HIDE DEF left
<1>4. left[0] = <<>> /\ \A k \in 1 .. n :
        left[k] = IF k \in noted THEN left[k - 1] ELSE Append(left[k - 1], cells[k])
  <2>1. 0 \in 0 .. n /\ \A k \in 1 .. n : k \in 0 .. n /\ k # 0
    BY <1>1
  <2> QED BY <1>3, <2>1
<1> DEFINE Some(k) == left[k] \in V /\ \E h : Left(left[k], h, cells, (1 .. k) \ noted)
           G == {k \in 0 .. n : Some(k)}
<1>5. 0 \in G
  <2> DEFINE h == [j \in {} |-> 0]
  <2>1. DOMAIN left[0] = {} /\ (1 .. 0) \ noted = {}
    BY <1>4
  <2>2. Left(left[0], h, cells, (1 .. 0) \ noted)
    BY <2>1 DEF Left, Bijection, Injection, Surjection, IsInjective
  <2>3. left[0] \in V
    BY <1>4, EmptySeq
  <2> HIDE DEF h, V
  <2>4. Some(0)
    BY <2>2, <2>3
  <2> HIDE DEF Some
  <2> QED BY <1>1, <2>4
<1>6. ASSUME NEW k \in 1 .. n, k - 1 \in G PROVE k \in G
  <2> DEFINE q == left[k - 1]
             K == (1 .. k - 1) \ noted
  <2>1. PICK h : Left(q, h, cells, K)
    BY <1>6
  <2>2. q \in Seq(S) /\ cells[k] \in S
    BY <1>1, <1>6
  <2> HIDE DEF q
  <2>3. CASE k \in noted
    <3>1. left[k] = q /\ (1 .. k) \ noted = K
      BY <1>4, <2>3 DEF q
    <3> HIDE DEF K
    <3>2. Some(k)
      BY <2>1, <2>2, <3>1
    <3> HIDE DEF Some
    <3> QED BY <1>1, <3>2
  <2>4. CASE k \notin noted
    <3> DEFINE p == Append(q, cells[k])
               m == Len(q)
               g == [j \in 1 .. m + 1 |-> IF j = m + 1 THEN k ELSE h[j]]
    <3>1. left[k] = p
      BY <1>4, <2>4 DEF q
    <3>2. p \in Seq(S) /\ Len(p) = m + 1
      BY <2>2, AppendProperties
    <3>3. p[m + 1] = cells[k] /\ \A j \in 1 .. m : p[j] = q[j]
      BY <2>2, AppendProperties
    <3>4. m \in Nat /\ DOMAIN q = 1 .. m /\ DOMAIN p = 1 .. m + 1
      BY <2>2, <3>2
    <3> HIDE DEF p, m
    <3>5. h \in [1 .. m -> K] /\ (\A t \in K : \E j \in 1 .. m : h[j] = t)
          /\ (\A a, b \in 1 .. m : h[a] = h[b] => a = b) /\ \A j \in 1 .. m : q[j] = cells[h[j]]
      BY <2>1, <3>4 DEF Left, Bijection, Injection, Surjection, IsInjective
    <3>6. (1 .. k) \ noted = K \cup {k} /\ k \notin K
      BY <2>4
    <3> HIDE DEF K
    <3>7. m + 1 \in 1 .. m + 1 /\ \A j \in 1 .. m : j \in 1 .. m + 1 /\ j # m + 1
      BY <3>4
    <3>8. \A j \in 1 .. m + 1 : j # m + 1 => j \in 1 .. m
      BY <3>4
    <3>9. g \in [1 .. m + 1 -> K \cup {k}]
      BY <3>5, <3>8
    <3>10. \A t \in K \cup {k} : \E j \in 1 .. m + 1 : g[j] = t
      BY <3>5, <3>7
    <3>11. \A a, b \in 1 .. m + 1 : g[a] = g[b] => a = b
      BY <3>5, <3>6, <3>8
    <3>12. \A j \in 1 .. m + 1 : p[j] = cells[g[j]]
      BY <3>3, <3>5, <3>8
    <3> HIDE DEF g
    <3>13. Left(p, g, cells, K \cup {k})
      BY <3>4, <3>9, <3>10, <3>11, <3>12 DEF Left, Bijection, Injection, Surjection, IsInjective
    <3>14. Some(k)
      BY <3>1, <3>2, <3>6, <3>13
    <3> HIDE DEF Some
    <3> QED BY <1>1, <3>14
  <2> QED BY <2>3, <2>4
<1>7. G \in SUBSET (0 .. n)
  OBVIOUS
<1> HIDE DEF G
<1>8. G = 0 .. n
  BY <1>1, <1>5, <1>6, <1>7, StepByStep
<1>9. n \in G
  BY <1>1, <1>8
<1>10. Some(n)
  BY <1>9 DEF G
<1> QED
  BY <1>1, <1>2, <1>10


\* So the cells left of a kind correspond to those of the kind at the other places.
LEMMA OfAKind ==
  ASSUME NEW q, NEW h, NEW cells, NEW places, Left(q, h, cells, places), NEW kind
  PROVE  \E g : /\ g \in Bijection({j \in DOMAIN q : q[j] \in kind},
                                   {k \in places : cells[k] \in kind})
                /\ \A j \in {j \in DOMAIN q : q[j] \in kind} : q[j] = cells[g[j]]
<1> DEFINE A == {j \in DOMAIN q : q[j] \in kind}
           B == {k \in places : cells[k] \in kind}
           g == [j \in A |-> h[j]]
<1>1. /\ h \in [DOMAIN q -> places] /\ \A t \in places : \E j \in DOMAIN q : h[j] = t
      /\ \A a, b \in DOMAIN q : h[a] = h[b] => a = b
      /\ \A j \in DOMAIN q : q[j] = cells[h[j]]
  BY DEF Left, Bijection, Injection, Surjection, IsInjective
<1>2. g \in [A -> B] /\ (\A a, b \in A : g[a] = g[b] => a = b) /\ \A j \in A : q[j] = cells[g[j]]
  BY <1>1
<1>3. \A t \in B : \E j \in A : g[j] = t
  <2> TAKE t \in B
  <2>1. PICK j \in DOMAIN q : h[j] = t
    BY <1>1
  <2>2. j \in A
    BY <1>1, <2>1
  <2> QED BY <2>1, <2>2
<1>4. g \in Bijection(A, B)
  BY <1>2, <1>3 DEF Bijection, Injection, Surjection, IsInjective
<1> HIDE DEF g, A, B
<1>5. \E f : f \in Bijection(A, B) /\ \A j \in A : q[j] = cells[f[j]]
  BY <1>2, <1>4
<1> QED
  BY <1>5 DEF A, B
----------------------------------------------------------------------------
(***************************************************************************)
(* The reduction of a concentration file.                                  *)
(***************************************************************************)
\* The cells of a complete file.
LEMMA CellsOfFile ==
  ASSUME ReduxInvariant, Complete
  PROVE  /\ rows \in Seq(Cell) /\ Len(rows) \in Nat /\ DOMAIN rows = 1 .. Len(rows)
         /\ \A k \in DOMAIN rows : rows[k] \in Cell /\ rows[k] # Blank
<1>1. PICK n \in 0 .. MaxRows : rows \in [1 .. n -> Cell \cup {Blank}]
  BY DEF ReduxInvariant
<1>2. n \in Nat
  BY ReduxAssumption
<1>3. \A k \in 1 .. n : rows[k] # Blank /\ rows[k] \in Cell
  BY <1>1 DEF Complete
<1>4. rows \in [1 .. n -> Cell]
  BY <1>1, <1>3
<1>5. rows \in Seq(Cell)
  BY <1>2, <1>4
<1> QED
  BY <1>3, <1>4, <1>5

\* A complete file is read as it is.
LEMMA ReadStep ==
  ASSUME ReduxInvariant, Read
  PROVE  ReduxInvariant'
<1>1. rows' = rows /\ terminated' = terminated /\ redux_pc' = "write" /\ (Complete' <=> Complete)
  BY DEF Read, file, Complete
<1>2. ASSUME Complete PROVE m_concData' = rows
  <2> DEFINE n == Len(rows)
             next == [k \in 1 .. n |-> [c \in Cell \cup {Garbage} |-> rows[k]]]
             V == Cell \cup {Garbage}
             IsHeld(f) ==
               f = [k \in 0 .. n |-> IF k = 0 THEN Garbage
                                     ELSE IF rows[k] = Blank THEN f[k - 1] ELSE rows[k]]
  <2>1. /\ rows \in Seq(Cell) /\ n \in Nat /\ DOMAIN rows = 1 .. n
        /\ \A k \in 1 .. n : rows[k] \in Cell /\ rows[k] # Blank
    BY <1>2, CellsOfFile
  <2> HIDE DEF n
  <2> DEFINE held == [k \in 0 .. n |-> IF k = 0 THEN Garbage ELSE rows[k]]
  <2>2. IsHeld(held)
    <3>1. \A k \in 0 .. n : k # 0 => k \in 1 .. n
      BY <2>1
    <3> QED BY <2>1, <3>1
  <2>3. IsHeld(cd)
    <3>1. cd = CHOOSE f : IsHeld(f)
      BY DEF cd, n
    <3> HIDE DEF IsHeld, held
    <3> QED BY <2>2, <3>1
  <2>4. \A k \in 1 .. n : cd[k] = rows[k]
    <3>1. \A k \in 1 .. n : k \in 0 .. n /\ k # 0
      BY <2>1
    <3> QED BY <2>1, <2>3, <3>1
  <2>5. terminated
    BY <1>2 DEF Complete
  <2>6. m_concData' = [k \in 1 .. n |-> cd[k]] \o <<>>
    BY <2>5 DEF Read, n
  <2>7. [k \in 1 .. n |-> cd[k]] = rows
    BY <2>1, <2>4
  <2> QED BY <2>1, <2>6, <2>7
<1>3. Complete' => m_concData' = rows'
  BY <1>1, <1>2
<1>4. \E n \in 0 .. MaxRows : rows' \in [1 .. n -> Cell \cup {Blank}]
  BY <1>1 DEF ReduxInvariant
<1> QED
  BY <1>1, <1>3, <1>4 DEF ReduxInvariant


\* The values at some places and one more, and the greatest and the least of them.
With(c, T, x) == {c[k] : k \in T} \cup {x}

LEMMA ExtremesOf ==
  ASSUME NEW n, n \in Nat, NEW c, c \in [1 .. n -> Nat], NEW T, T \in SUBSET (1 .. n),
         NEW x, x \in Nat, NEW S, S = With(c, T, x)
  PROVE  /\ MaxOf(S) \in S /\ MinOf(S) \in S
         /\ \A k \in T : MinOf(S) <= c[k] /\ c[k] <= MaxOf(S)
         /\ x <= MaxOf(S)
<1>1. S \in SUBSET Nat /\ S # {}
  BY DEF With
<1>2. \E b \in Nat : \A y \in S : y <= b
  <2> DEFINE G == {m \in 0 .. n : \E b \in Nat : x <= b /\ \A k \in 1 .. m : c[k] <= b}
  <2>1. 0 \in G
    <3>1. x <= x /\ \A k \in 1 .. 0 : c[k] <= x
      OBVIOUS
    <3> QED BY <3>1
  <2>2. ASSUME NEW m \in 1 .. n, m - 1 \in G PROVE m \in G
    <3>1. PICK b \in Nat : x <= b /\ \A k \in 1 .. m - 1 : c[k] <= b
      BY <2>2
    <3>2. PICK d \in Nat : b <= d /\ c[m] <= d
      <4>1. c[m] \in Nat
        OBVIOUS
      <4>2. CASE b <= c[m]
        BY <4>1, <4>2
      <4>3. CASE c[m] <= b
        BY <4>3
      <4> QED BY <4>1, <4>2, <4>3
    <3>3. \A k \in 1 .. m : c[k] <= d
      <4> TAKE k \in 1 .. m
      <4>1. CASE k = m
        BY <3>2, <4>1
      <4>2. CASE k # m
        <5>1. k \in 1 .. m - 1 /\ c[k] \in Nat
          BY <4>2
        <5> QED BY <3>1, <3>2, <5>1
      <4> QED BY <4>1, <4>2
    <3>4. x <= d /\ m \in 0 .. n
      BY <3>1, <3>2
    <3> QED BY <3>3, <3>4
  <2>3. G \in SUBSET (0 .. n)
    OBVIOUS
  <2> HIDE DEF G
  <2>4. n \in G
    <3>1. G = 0 .. n
      BY <2>1, <2>2, <2>3, StepByStep
    <3> QED BY <3>1
  <2> QED BY <2>4 DEF G, With
<1>3. \E m \in S : \A y \in S : m <= y
  BY <1>1, LeastNumber
<1>4. \E m \in S : \A y \in S : y <= m
  <2> DEFINE U == {b \in Nat : \A y \in S : y <= b}
  <2>1. PICK m \in U : \A b \in U : m <= b
    <3>1. U \in SUBSET Nat /\ U # {}
      BY <1>2
    <3> HIDE DEF U
    <3> QED BY <3>1, LeastNumber
  <2>2. m \in S
    <3> SUFFICES ASSUME m \notin S PROVE FALSE
      OBVIOUS
    <3>1. \A y \in S : y <= m /\ y # m /\ y \in Nat
      BY <1>1, <2>1
    <3>2. m - 1 \in Nat /\ \A y \in S : y <= m - 1
      BY <1>1, <2>1, <3>1
    <3>3. m - 1 \in U /\ m \in Nat
      BY <2>1, <3>2
    <3>4. m <= m - 1
      <4> HIDE DEF U
      <4> QED BY <2>1, <3>3
    <3> QED BY <3>3, <3>4
  <2> QED BY <2>1, <2>2
<1>5. MaxOf(S) \in S /\ \A y \in S : y <= MaxOf(S)
  BY <1>4 DEF MaxOf
<1>6. MinOf(S) \in S /\ \A y \in S : MinOf(S) <= y
  BY <1>3 DEF MinOf
<1>7. x \in S /\ \A k \in T : c[k] \in S
  BY DEF With
<1> QED
  BY <1>5, <1>6, <1>7

\* The cells that are left of a complete file.
LEMMA LeftOfFile ==
  ASSUME ReduxInvariant, Complete,
         m_concData = Erased(rows, {k \in DOMAIN rows : InBuilding(rows[k])})
  PROVE  /\ m_concData \in Seq(Cell)
         /\ \E h : Left(m_concData, h, rows, Outside)
<1>1. rows \in Seq(Cell)
  BY CellsOfFile
<1>2. Outside = DOMAIN rows \ {k \in DOMAIN rows : InBuilding(rows[k])}
  BY DEF Outside, InBuilding
<1> DEFINE noted == {k \in DOMAIN rows : InBuilding(rows[k])}
<1> HIDE DEF noted
<1>3. Erased(rows, noted) \in Seq(Cell) /\ \E h : Left(Erased(rows, noted), h, rows, DOMAIN rows \ noted)
  BY <1>1, ErasedLeaves
<1> QED
  BY <1>2, <1>3 DEF noted

\* The extremes of the slice.
LEMMA MinMaxStep ==
  ASSUME m_concData \in Seq(Cell), calcMinMax
  PROVE  /\ \A k \in Slice(m_concData) : m_min' <= m_concData[k].c /\ m_concData[k].c <= m_max'
         /\ (\E k \in Slice(m_concData) : m_concData[k].c > 0) =>
              \E k \in Slice(m_concData) : m_concData[k].c = m_max'
<1> DEFINE n == Len(m_concData)
           c == [k \in 1 .. n |-> m_concData[k].c]
           T == Slice(m_concData)
           S == {m_concData[k].c : k \in T}
<1>1. n \in Nat /\ DOMAIN m_concData = 1 .. n /\ \A k \in 1 .. n : m_concData[k] \in Cell
  OBVIOUS
<1>2. \A k \in 1 .. n : m_concData[k].c \in Concentrations
  BY <1>1 DEF Cell
<1> HIDE DEF n
<1>3. \A y \in Concentrations : y \in Nat /\ (y > 0 => Least <= y)
  BY ReduxAssumption
<1>4. Least \in Nat /\ Greatest \in Nat
  BY ReduxAssumption
<1>5. T \in SUBSET (1 .. n)
  BY <1>1 DEF Slice
<1>6. c \in [1 .. n -> Nat]
  BY <1>2, <1>3
<1>7. \A k \in T : c[k] = m_concData[k].c
  BY <1>5
<1>8. m_max' = MaxOf(S \cup {Least}) /\ m_min' = MinOf(S \cup {Greatest})
  BY DEF calcMinMax
<1>9. S = {c[k] : k \in T}
  BY <1>7
<1> HIDE DEF c, T, S
<1>10. m_max' \in S \cup {Least} /\ Least <= m_max' /\ \A k \in T : c[k] <= m_max'
  <2> DEFINE A == S \cup {Least}
  <2>1. A = With(c, T, Least)
    BY <1>9 DEF With
  <2> HIDE DEF A
  <2>2. /\ MaxOf(A) \in A /\ MinOf(A) \in A
        /\ \A k \in T : MinOf(A) <= c[k] /\ c[k] <= MaxOf(A)
        /\ Least <= MaxOf(A)
    BY <1>1, <1>4, <1>5, <1>6, <2>1, ExtremesOf
  <2> QED BY <1>8, <2>2 DEF A
<1>11. \A k \in T : m_min' <= c[k]
  <2> DEFINE A == S \cup {Greatest}
  <2>1. A = With(c, T, Greatest)
    BY <1>9 DEF With
  <2> HIDE DEF A
  <2>2. \A k \in T : MinOf(A) <= c[k]
    BY <1>1, <1>4, <1>5, <1>6, <2>1, ExtremesOf
  <2> QED BY <1>8, <2>2 DEF A
<1>12. ASSUME NEW k \in T, m_concData[k].c > 0 PROVE \E l \in T : m_concData[l].c = m_max'
  <2>1. c[k] \in Nat /\ Least <= c[k] /\ c[k] <= m_max'
    BY <1>2, <1>3, <1>5, <1>7, <1>10, <1>12
  <2>2. CASE m_max' \in S
    BY <1>7, <1>9, <2>2
  <2>3. CASE m_max' = Least
    <3>1. c[k] = m_max'
      BY <1>4, <2>1, <2>3
    <3> QED BY <1>7, <3>1
  <2> QED BY <1>10, <2>2, <2>3
<1> QED
  BY <1>7, <1>10, <1>11, <1>12 DEF T


\* Every other operation works on the list as it is.
LEMMA ReduxStep ==
  ASSUME ReduxInvariant, [ReduxNext]_redux
  PROVE  ReduxInvariant'
<1>1. CASE Read
  BY <1>1, ReadStep
<1>2. CASE ~ Read
  <2>1. rows' = rows /\ terminated' = terminated /\ (Complete' <=> Complete)
    BY <1>2 DEF ReduxNext, Read, writeConcFile, removeBuildingCells, removeEmitterCells, calcMean,
                calcMinMax, calcExceedances, Reduced, redux, file, Complete
  <2>2. \E n \in 0 .. MaxRows : rows' \in [1 .. n -> Cell \cup {Blank}]
    BY <2>1 DEF ReduxInvariant
  <2>3. SUFFICES ASSUME Complete PROVE ReduxInvariant'
    BY <2>1, <2>2 DEF ReduxInvariant
  <2>4. CASE writeConcFile
    BY <2>1, <2>2, <2>3, <2>4 DEF writeConcFile, statistics, ReduxInvariant
  <2>5. CASE removeBuildingCells
    BY <2>1, <2>2, <2>3, <2>5 DEF removeBuildingCells, ReduxInvariant
  <2>6. CASE removeEmitterCells
    BY <2>1, <2>2, <2>3, <2>6 DEF removeEmitterCells, ReduxInvariant
  <2>7. CASE calcMean
    BY <2>1, <2>2, <2>3, <2>7 DEF calcMean, ReduxInvariant
  <2>8. CASE calcMinMax
    <3>1. m_concData = Erased(rows, {k \in DOMAIN rows : InBuilding(rows[k])})
      BY <2>3, <2>8 DEF calcMinMax, ReduxInvariant
    <3>2. m_concData \in Seq(Cell)
      BY <2>3, <3>1, LeftOfFile
    <3>3. /\ \A k \in Slice(m_concData) : m_min' <= m_concData[k].c /\ m_concData[k].c <= m_max'
          /\ (\E k \in Slice(m_concData) : m_concData[k].c > 0) =>
               \E k \in Slice(m_concData) : m_concData[k].c = m_max'
      BY <2>8, <3>2, MinMaxStep
    <3>4. m_concData' = m_concData /\ m_sum' = m_sum /\ meanCount' = meanCount
          /\ redux_pc = "minmax" /\ redux_pc' = "exceedances" /\ Slice(m_concData)' = Slice(m_concData)
      BY <2>8 DEF calcMinMax, Slice
    <3> QED BY <2>1, <2>2, <2>3, <3>1, <3>3, <3>4 DEF ReduxInvariant, Urban
  <2>9. CASE calcExceedances
    BY <2>1, <2>2, <2>3, <2>9 DEF calcExceedances, ReduxInvariant, Slice, Urban
  <2>10. CASE UNCHANGED redux
    BY <2>1, <2>2, <2>3, <2>10 DEF redux, ReduxInvariant, Slice, Urban
  <2> QED BY <1>2, <2>4, <2>5, <2>6, <2>7, <2>8, <2>9, <2>10 DEF ReduxNext, Reduced
<1> QED
  BY <1>1, <1>2


\* The statistics of the list are those of the cells outside the buildings.
LEMMA StatisticsOfList ==
  ASSUME ReduxInvariant
  PROVE  StatisticsOutsideBuildings
<1> SUFFICES ASSUME redux_pc = "done", Complete PROVE StatisticsOutsideBuildings
  BY DEF StatisticsOutsideBuildings
<1> DEFINE q == m_concData
           urban == Outside \cap Urban(rows)
           slice == Outside \cap Slice(rows)
           Over == {k \in DOMAIN q : q[k].c > Threshold}
           over == {k \in Outside : rows[k].c > Threshold}
<1>1. /\ rows \in Seq(Cell) /\ Len(rows) \in Nat /\ DOMAIN rows = 1 .. Len(rows)
      /\ \A k \in DOMAIN rows : rows[k] \in Cell
  BY CellsOfFile
<1>2. q = Erased(rows, {k \in DOMAIN rows : InBuilding(rows[k])})
  BY DEF ReduxInvariant
<1>3. PICK h : Left(q, h, rows, Outside)
  BY <1>2, LeftOfFile
<1>4. q \in Seq(Cell) /\ Len(q) \in Nat /\ DOMAIN q = 1 .. Len(q)
  BY <1>2, LeftOfFile
<1>5. /\ m_sum = SumAt(q, Urban(q)) /\ meanCount = Cardinality(Urban(q))
      /\ \A k \in Slice(q) : m_min <= q[k].c /\ q[k].c <= m_max
      /\ (\E k \in Slice(q) : q[k].c > 0) => \E k \in Slice(q) : q[k].c = m_max
      /\ m_exceedanceCount = Cardinality(Over)
  BY DEF ReduxInvariant
<1>6. IsFiniteSet(DOMAIN q) /\ Cardinality(DOMAIN q) = Len(q)
  BY <1>4, FS_Interval
<1>7. Outside \in SUBSET DOMAIN rows
  BY DEF Outside
<1>8. /\ h \in [DOMAIN q -> Outside] /\ \A t \in Outside : \E j \in DOMAIN q : h[j] = t
      /\ \A j \in DOMAIN q : q[j] = rows[h[j]] /\ q[j] \in Cell
  BY <1>3, <1>4 DEF Left, Bijection, Injection, Surjection
<1>9. Len(q) = Cardinality(Outside)
  <2>1. ExistsBijection(DOMAIN q, Outside)
    BY <1>3 DEF Left, ExistsBijection
  <2> QED BY <1>6, <2>1, FS_Bijection
<1>10. meanCount = Cardinality(urban) /\ m_sum = SumAt(rows, urban)
  <2> DEFINE kind == {cell \in Cell : cell.z # "above"}
             A == {j \in DOMAIN q : q[j] \in kind}
             B == {k \in Outside : rows[k] \in kind}
  <2>1. A = Urban(q) /\ B = urban
    BY <1>1, <1>7, <1>8 DEF Urban
  <2> HIDE DEF kind
  <2>2. PICK g : g \in Bijection(A, B) /\ \A j \in A : q[j] = rows[g[j]]
    BY <1>3, OfAKind
  <2>3. IsFiniteSet(A)
    BY <1>6, FS_Subset
  <2>4. \A j \in A : q[j].c \in Int
    <3>1. \A j \in DOMAIN q : q[j].c \in Concentrations
      BY <1>8 DEF Cell
    <3>2. \A x \in Concentrations : x \in Int
      BY ReduxAssumption
    <3>3. A \subseteq DOMAIN q
      OBVIOUS
    <3> HIDE DEF A
    <3> QED BY <3>1, <3>2, <3>3
  <2> HIDE DEF A, B, urban
  <2>5. Cardinality(A) = Cardinality(B)
    BY <2>2, <2>3, FS_Bijection DEF ExistsBijection
  <2>6. SumAt(q, A) = SumAt(rows, B)
    BY <2>2, <2>3, <2>4, SumsAgree
  <2> QED BY <1>5, <2>1, <2>5, <2>6
<1>11. m_exceedanceCount = Cardinality(over)
  <2> DEFINE kind == {cell \in Cell : cell.c > Threshold}
             A == {j \in DOMAIN q : q[j] \in kind}
             B == {k \in Outside : rows[k] \in kind}
  <2>1. A = Over /\ B = over
    BY <1>1, <1>7, <1>8
  <2> HIDE DEF kind
  <2>2. PICK g : g \in Bijection(A, B)
    BY <1>3, OfAKind
  <2>3. IsFiniteSet(A)
    BY <1>6, FS_Subset
  <2> HIDE DEF A, B, over, Over
  <2>4. Cardinality(A) = Cardinality(B)
    BY <2>2, <2>3, FS_Bijection DEF ExistsBijection
  <2> QED BY <1>5, <2>1, <2>4
<1>12. \A k \in slice : \E j \in Slice(q) : q[j] = rows[k]
  <2> TAKE k \in slice
  <2>1. PICK j \in DOMAIN q : h[j] = k
    BY <1>8
  <2> QED BY <1>8, <2>1 DEF Slice
<1>13. \A j \in Slice(q) : \E k \in slice : q[j] = rows[k]
  <2> TAKE j \in Slice(q)
  <2>1. j \in DOMAIN q /\ h[j] \in Outside /\ q[j] = rows[h[j]]
    BY <1>8 DEF Slice
  <2>2. h[j] \in slice
    BY <1>7, <2>1 DEF Slice
  <2> QED BY <2>1, <2>2
<1>14. \A k \in slice : m_min <= rows[k].c /\ rows[k].c <= m_max
  BY <1>5, <1>12
<1>15. ASSUME \E k \in slice : rows[k].c > 0 PROVE \E k \in slice : rows[k].c = m_max
  <2>1. \E j \in Slice(q) : q[j].c > 0
    BY <1>12, <1>15
  <2>2. PICK j \in Slice(q) : q[j].c = m_max
    BY <1>5, <2>1
  <2> QED BY <1>13, <2>2
<1> QED
  BY <1>5, <1>9, <1>10, <1>11, <1>14, <1>15 DEF StatisticsOutsideBuildings, StatisticsAreOf

\* The constructor of concentrationRedux keeps its invariant, for a file of any length
\* (concentrationRedux.cpp:25-99).
THEOREM ReduxKeepsInvariant == ReduxSpec => []ReduxInvariant
<1>1. ReduxInit => ReduxInvariant
  <2> SUFFICES ASSUME ReduxInit PROVE ReduxInvariant
    OBVIOUS
  <2>1. \E n \in 0 .. MaxRows : rows \in [1 .. n -> Cell \cup {Blank}]
    BY DEF ReduxInit
  <2>2. redux_pc = "read"
    BY DEF ReduxInit
  <2> QED BY <2>1, <2>2 DEF ReduxInvariant
<1>2. ReduxInvariant /\ [ReduxNext]_redux => ReduxInvariant'
  BY ReduxStep
<1> QED
  BY <1>1, <1>2, PTL DEF ReduxSpec

\* So the sum, the counts and the extremes of a complete file are those of its cells
\* outside the buildings, and of all of them: none is lost, and none is counted twice.
THEOREM StatisticsAreOutsideBuildings == ReduxSpec => []StatisticsOutsideBuildings
<1>1. ReduxInvariant => StatisticsOutsideBuildings
  BY StatisticsOfList
<1> QED
  BY <1>1, ReduxKeepsInvariant, PTL
=============================================================================
