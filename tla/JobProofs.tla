----------------------------- MODULE JobProofs -----------------------------
(***************************************************************************)
(* Proofs about Job, for optimization files, projects and populations of    *)
(* any size: what a sample is simulated with.                               *)
(***************************************************************************)
EXTENDS Job, Induction, FiniteSetTheorems, FunctionTheorems, SequenceTheorems
----------------------------------------------------------------------------
\* The elements of a finite set up to one of them.
UpTo(S, v) == {w \in S : w <= v}

\* Counting them numbers the set in ascending order, from 1 to its size.
LEMMA Ranks ==
  ASSUME NEW n \in Nat, NEW S \in SUBSET (1 .. n)
  PROVE  /\ Cardinality(S) \in Nat
         /\ \A v \in S : Cardinality(UpTo(S, v)) \in 1 .. Cardinality(S)
         /\ \A v, w \in S : v < w => Cardinality(UpTo(S, v)) < Cardinality(UpTo(S, w))
         /\ \A k \in 1 .. Cardinality(S) : \E v \in S : Cardinality(UpTo(S, v)) = k
<1>1. IsFiniteSet(S) /\ Cardinality(S) \in Nat
  <2>1. IsFiniteSet(1 .. n)
    BY FS_Interval
  <2> QED BY <2>1, FS_Subset, FS_CardinalityType
<1>2. \A v \in S : IsFiniteSet(UpTo(S, v)) /\ Cardinality(UpTo(S, v)) \in 1 .. Cardinality(S)
  <2> TAKE v \in S
  <2>1. UpTo(S, v) \in SUBSET S /\ v \in UpTo(S, v)
    BY DEF UpTo
  <2>2. IsFiniteSet(UpTo(S, v)) /\ Cardinality(UpTo(S, v)) <= Cardinality(S)
    BY <1>1, <2>1, FS_Subset
  <2>3. Cardinality(UpTo(S, v)) \in Nat /\ Cardinality(UpTo(S, v)) # 0
    BY <2>1, <2>2, FS_CardinalityType, FS_EmptySet
  <2> QED BY <1>1, <2>2, <2>3
<1>3. ASSUME NEW v \in S, NEW w \in S, v < w
      PROVE  Cardinality(UpTo(S, v)) < Cardinality(UpTo(S, w))
  <2>1. UpTo(S, v) \in SUBSET UpTo(S, w) /\ w \in UpTo(S, w) /\ w \notin UpTo(S, v)
    <3>1. v \in Int /\ w \in Int /\ S \subseteq Int
      OBVIOUS
    <3>2. \A x \in S : x <= v => x <= w
      BY <1>3, <3>1
    <3>3. w <= w /\ ~ (w <= v)
      BY <1>3, <3>1
    <3> QED BY <3>2, <3>3 DEF UpTo
  <2>2. Cardinality(UpTo(S, v)) <= Cardinality(UpTo(S, w))
        /\ Cardinality(UpTo(S, w)) # Cardinality(UpTo(S, v))
    BY <1>2, <2>1, FS_Subset
  <2> QED BY <1>2, <2>2
<1>4. \A k \in 1 .. Cardinality(S) : \E v \in S : Cardinality(UpTo(S, v)) = k
  <2> DEFINE f == [v \in S |-> Cardinality(UpTo(S, v))]
  <2>1. f \in [S -> 1 .. Cardinality(S)]
    BY <1>2
  <2>2. \A v, w \in S : f[v] = f[w] => v = w
    <3> SUFFICES ASSUME NEW v \in S, NEW w \in S, v # w PROVE f[v] # f[w]
      OBVIOUS
    <3>1. CASE v < w
      BY <3>1, <1>2, <1>3
    <3>2. CASE w < v
      BY <3>2, <1>2, <1>3
    <3> QED BY <3>1, <3>2
  <2>3. f \in Injection(S, 1 .. Cardinality(S))
    BY <2>1, <2>2, Fun_IsInj
  <2>4. IsFiniteSet(1 .. Cardinality(S)) /\ Cardinality(1 .. Cardinality(S)) = Cardinality(S)
    BY <1>1, FS_Interval
  <2>5. f \in Surjection(S, 1 .. Cardinality(S))
    <3> HIDE DEF f
    <3> QED BY <2>3, <2>4, FS_Injection
  <2>6. \A k \in 1 .. Cardinality(S) : \E v \in S : f[v] = k
    <3> HIDE DEF f
    <3> QED BY <2>5, Fun_SurjectionProperties
  <2> QED BY <2>6
<1> QED
  BY <1>1, <1>2, <1>3, <1>4
----------------------------------------------------------------------------
(***************************************************************************)
(* The parameters.                                                         *)
(***************************************************************************)
\* OfType lists the names of a type, each once, in ascending order.
LEMMA OfTypeLists ==
  ASSUME NEW ps, NEW t
  PROVE  /\ OfType(ps, t) \in Seq(Names)
         /\ \A k \in 1 .. Len(OfType(ps, t)) : OfType(ps, t)[k] \in NamesOfType(ps, t)
         /\ \A v \in NamesOfType(ps, t) : \E k \in 1 .. Len(OfType(ps, t)) : OfType(ps, t)[k] = v
         /\ \A j, k \in 1 .. Len(OfType(ps, t)) : j < k => OfType(ps, t)[j] < OfType(ps, t)[k]
<1> DEFINE S == NamesOfType(ps, t)
           C == Cardinality(S)
           q == [k \in 1 .. C |-> CHOOSE v \in S : Cardinality(UpTo(S, v)) = k]
<1>1. OfType(ps, t) = q
  BY DEF OfType, UpTo
<1>2. S \in SUBSET (1 .. NameCount) /\ S \subseteq Names /\ NameCount \in Nat
  BY OptParamsAssumption DEF NamesOfType, Names
<1>10. \A v \in S : v \in Int
  BY <1>2
<1> HIDE DEF S
<1>3. /\ C \in Nat
      /\ \A v \in S : Cardinality(UpTo(S, v)) \in 1 .. C
      /\ \A v, w \in S : v < w => Cardinality(UpTo(S, v)) < Cardinality(UpTo(S, w))
      /\ \A k \in 1 .. C : \E v \in S : Cardinality(UpTo(S, v)) = k
  BY <1>2, Ranks
<1> HIDE DEF C
<1>4. \A k \in 1 .. C : q[k] \in S /\ Cardinality(UpTo(S, q[k])) = k
  BY <1>3
<1>5. q \in [1 .. C -> Names]
  BY <1>2, <1>4
<1>6. q \in Seq(Names) /\ Len(q) = C
  BY <1>3, <1>5
<1>7. \A v \in S : q[Cardinality(UpTo(S, v))] = v
  <2> SUFFICES ASSUME NEW v \in S PROVE q[Cardinality(UpTo(S, v))] = v
    OBVIOUS
  <2> DEFINE w == q[Cardinality(UpTo(S, v))]
  <2>1. w \in S /\ Cardinality(UpTo(S, w)) = Cardinality(UpTo(S, v))
    BY <1>3, <1>4
  <2>2. v \in Int /\ w \in Int
    BY <1>10, <2>1
  <2> HIDE DEF w
  <2>3. Cardinality(UpTo(S, v)) \in Int
    BY <1>3
  <2>4. ~ (v < w) /\ ~ (w < v)
    <3>1. ~ (Cardinality(UpTo(S, v)) < Cardinality(UpTo(S, w)))
          /\ ~ (Cardinality(UpTo(S, w)) < Cardinality(UpTo(S, v)))
      BY <2>1, <2>3
    <3> QED BY <1>3, <2>1, <3>1
  <2> QED BY <2>2, <2>4 DEF w
<1>8. \A j, k \in 1 .. C : j < k => q[j] < q[k]
  <2> SUFFICES ASSUME NEW j \in 1 .. C, NEW k \in 1 .. C, j < k PROVE q[j] < q[k]
    OBVIOUS
  <2>1. q[j] \in S /\ q[k] \in S /\ Cardinality(UpTo(S, q[j])) = j /\ Cardinality(UpTo(S, q[k])) = k
    BY <1>4
  <2>2. q[j] \in Int /\ q[k] \in Int
    BY <1>10, <2>1
  <2> HIDE DEF q
  <2>3. q[j] # q[k]
    <3>1. j # k
      OBVIOUS
    <3> QED BY <2>1, <3>1
  <2>4. ~ (q[k] < q[j])
    <3> SUFFICES ASSUME q[k] < q[j] PROVE FALSE
      OBVIOUS
    <3>1. Cardinality(UpTo(S, q[k])) < Cardinality(UpTo(S, q[j]))
      BY <1>3, <2>1
    <3>2. k < j
      BY <2>1, <3>1
    <3>3. ~ (k < j)
      BY <1>3
    <3> QED BY <3>2, <3>3
  <2> QED BY <2>2, <2>3, <2>4
<1> HIDE DEF q
<1>9. \A v \in S : \E k \in 1 .. C : q[k] = v
  BY <1>3, <1>7
<1> QED
  BY <1>1, <1>4, <1>6, <1>8, <1>9 DEF S

\* What is read of an optimization file gives every name a right side: that of the
\* last line that assigns to it.
LEMMA LastLineCounts ==
  ASSUME NEW n \in Nat, NEW lines \in [1 .. n -> Lines]
  PROVE  readOptimizationFile(lines) \in [Names -> RightSide]
<1>1. NoValue \in RightSide
  BY DEF NoValue, RightSide
<1>2. ASSUME NEW v \in Names, Assigning(lines, v) # {}
      PROVE  lines[CHOOSE k \in Assigning(lines, v) : \A j \in Assigning(lines, v) : j <= k].rval \in RightSide
  <2>1. Assigning(lines, v) \in SUBSET (1 .. n)
    BY DEF Assigning
  <2>2. \E k \in Assigning(lines, v) : \A j \in Assigning(lines, v) : j <= k
    BY <1>2, <2>1, GreatestNumber
  <2> QED BY <2>1, <2>2, JobAssumption
<1> QED
  BY <1>1, <1>2 DEF readOptimizationFile

\* The lists of the parameters share no name.
LEMMA ParamsAreLists ==
  ASSUME NEW ps
  PROVE  LET o == readParams(ps) IN
         /\ \A q \in {o.rangeOptMap, o.setOptMap, o.dependencyOptMap} :
              /\ q \in Seq(Names)
              /\ \A j, k \in 1 .. Len(q) : j < k => q[j] < q[k]
         /\ ToSet(o.rangeOptMap) \subseteq NamesOfType(ps, "range")
         /\ ToSet(o.setOptMap) \subseteq NamesOfType(ps, "set")
         /\ ToSet(o.dependencyOptMap) = NamesOfType(ps, "atomExp")
<1>1. \A t : ToSet(OfType(ps, t)) = NamesOfType(ps, t)
  <2> SUFFICES ASSUME NEW t PROVE ToSet(OfType(ps, t)) = NamesOfType(ps, t)
    OBVIOUS
  <2>1. DOMAIN OfType(ps, t) = 1 .. Len(OfType(ps, t))
    BY OfTypeLists
  <2> QED BY <2>1, OfTypeLists DEF ToSet
<1>2. \A t : OfType(ps, t) \in Seq(Names)
              /\ \A j, k \in 1 .. Len(OfType(ps, t)) : j < k => OfType(ps, t)[j] < OfType(ps, t)[k]
  BY OfTypeLists
<1> QED
  BY <1>1, <1>2 DEF readParams

\* The same of the job's own parameters: positions and varied names correspond, one
\* to one, the dependent names are others, and come in ascending order.
LEMMA Positions ==
  ASSUME TypeOK
  PROVE  /\ dimensions \in Nat /\ Varied \subseteq Names /\ Dependents \subseteq Names
         /\ optParams.dependencyOptMap \in Seq(Names)
         /\ \A d \in 1 .. dimensions : LookupData(d) \in Varied
         /\ \A v \in Varied : \E d \in 1 .. dimensions : LookupData(d) = v
         /\ \A d, e \in 1 .. dimensions : d # e => LookupData(d) # LookupData(e)
         /\ \A k \in 1 .. Len(optParams.dependencyOptMap) : optParams.dependencyOptMap[k] \in Dependents
         /\ \A v \in Dependents : \E k \in 1 .. Len(optParams.dependencyOptMap) : optParams.dependencyOptMap[k] = v
         /\ \A j, k \in 1 .. Len(optParams.dependencyOptMap) :
              j < k => optParams.dependencyOptMap[j] < optParams.dependencyOptMap[k]
         /\ Varied \cap Dependents = {}
<1> DEFINE r == rangeOptMap
           t == setOptMap
           q == optParams.dependencyOptMap
<1>1. \A u \in {r, t, q} : u \in Seq(Names) /\ \A j, k \in 1 .. Len(u) : j < k => u[j] < u[k]
  BY ParamsAreLists DEF TypeOK, rangeOptMap, setOptMap
<1>2. /\ ToSet(r) \subseteq NamesOfType(params, "range")
      /\ ToSet(t) \subseteq NamesOfType(params, "set")
      /\ ToSet(q) = NamesOfType(params, "atomExp")
  BY ParamsAreLists DEF TypeOK, rangeOptMap, setOptMap
<1>3. \A u \in {r, t, q} : /\ Len(u) \in Nat /\ ToSet(u) \subseteq Names
                           /\ \A k \in 1 .. Len(u) : u[k] \in ToSet(u) /\ u[k] \in Int
                           /\ \A v \in ToSet(u) : \E k \in 1 .. Len(u) : u[k] = v
  <2> SUFFICES ASSUME NEW u \in {r, t, q}
               PROVE  /\ Len(u) \in Nat /\ ToSet(u) \subseteq Names
                      /\ \A k \in 1 .. Len(u) : u[k] \in ToSet(u) /\ u[k] \in Int
                      /\ \A v \in ToSet(u) : \E k \in 1 .. Len(u) : u[k] = v
    OBVIOUS
  <2>1. u \in Seq(Names)
    BY <1>1
  <2>2. DOMAIN u = 1 .. Len(u) /\ Len(u) \in Nat /\ \A k \in 1 .. Len(u) : u[k] \in Names
    BY <2>1
  <2>3. Names \subseteq Int
    BY DEF Names
  <2> QED BY <2>2, <2>3 DEF ToSet
<1>4. NamesOfType(params, "range") \cap NamesOfType(params, "set") = {}
      /\ (NamesOfType(params, "range") \cup NamesOfType(params, "set")) \cap NamesOfType(params, "atomExp") = {}
  BY DEF NamesOfType
<1>5. dimensions = Len(r) + Len(t) /\ Varied = ToSet(r) \cup ToSet(t) /\ Dependents = ToSet(q)
  BY DEF dimensions, Varied, Dependents
<1>6. \A d : LookupData(d) = IF d <= Len(r) THEN r[d] ELSE t[d - Len(r)]
  BY DEF LookupData
<1>7. \A u \in {r, t} : \A j, k \in 1 .. Len(u) : j # k => u[j] # u[k]
  <2> SUFFICES ASSUME NEW u \in {r, t}, NEW j \in 1 .. Len(u), NEW k \in 1 .. Len(u), j # k
               PROVE  u[j] # u[k]
    OBVIOUS
  <2>1. u[j] \in Int /\ u[k] \in Int
    BY <1>3
  <2>2. CASE j < k
    BY <1>1, <2>1, <2>2
  <2>3. CASE k < j
    BY <1>1, <2>1, <2>3
  <2> QED BY <2>2, <2>3
<1> HIDE DEF r, t, q
<1>8. \A d \in 1 .. dimensions : LookupData(d) \in Varied
  <2> SUFFICES ASSUME NEW d \in 1 .. dimensions PROVE LookupData(d) \in Varied
    OBVIOUS
  <2>1. CASE d <= Len(r)
    BY <1>3, <1>5, <1>6, <2>1
  <2>2. CASE ~ (d <= Len(r))
    <3>1. d - Len(r) \in 1 .. Len(t)
      BY <1>3, <1>5, <2>2
    <3> QED BY <1>3, <1>5, <1>6, <2>2, <3>1
  <2> QED BY <2>1, <2>2
<1>9. \A v \in Varied : \E d \in 1 .. dimensions : LookupData(d) = v
  <2> SUFFICES ASSUME NEW v \in Varied PROVE \E d \in 1 .. dimensions : LookupData(d) = v
    OBVIOUS
  <2>1. CASE v \in ToSet(r)
    <3>1. PICK k \in 1 .. Len(r) : r[k] = v
      BY <1>3, <2>1
    <3>2. k \in 1 .. dimensions /\ k <= Len(r)
      BY <1>3, <1>5
    <3> QED BY <1>6, <3>1, <3>2
  <2>2. CASE v \in ToSet(t)
    <3>1. PICK k \in 1 .. Len(t) : t[k] = v
      BY <1>3, <2>2
    <3>2. /\ Len(r) + k \in 1 .. dimensions /\ ~ (Len(r) + k <= Len(r))
          /\ (Len(r) + k) - Len(r) = k
      BY <1>3, <1>5
    <3>3. LookupData(Len(r) + k) = v
      BY <1>6, <3>1, <3>2
    <3> QED BY <3>2, <3>3
  <2> QED BY <1>5, <2>1, <2>2
<1>10. \A d, e \in 1 .. dimensions : d # e => LookupData(d) # LookupData(e)
  <2> SUFFICES ASSUME NEW d \in 1 .. dimensions, NEW e \in 1 .. dimensions, d # e
               PROVE  LookupData(d) # LookupData(e)
    OBVIOUS
  <2>1. \A c \in 1 .. dimensions :
          \/ c <= Len(r) /\ c \in 1 .. Len(r) /\ LookupData(c) = r[c] /\ r[c] \in ToSet(r)
          \/ c > Len(r) /\ c - Len(r) \in 1 .. Len(t) /\ LookupData(c) = t[c - Len(r)] /\ t[c - Len(r)] \in ToSet(t)
    <3> SUFFICES ASSUME NEW c \in 1 .. dimensions
                 PROVE  \/ c <= Len(r) /\ c \in 1 .. Len(r) /\ LookupData(c) = r[c] /\ r[c] \in ToSet(r)
                        \/ c > Len(r) /\ c - Len(r) \in 1 .. Len(t) /\ LookupData(c) = t[c - Len(r)] /\ t[c - Len(r)] \in ToSet(t)
      OBVIOUS
    <3>1. CASE c <= Len(r)
      BY <1>3, <1>5, <1>6, <3>1
    <3>2. CASE ~ (c <= Len(r))
      <4>1. c > Len(r) /\ c - Len(r) \in 1 .. Len(t)
        BY <1>3, <1>5, <3>2
      <4> QED BY <1>3, <1>6, <3>2, <4>1
    <3> QED BY <3>1, <3>2
  <2>2. ToSet(r) \cap ToSet(t) = {}
    BY <1>2, <1>4
  <2>3. d - Len(r) # e - Len(r)
    BY <1>3
  <2> QED BY <1>7, <2>1, <2>2, <2>3
<1> QED
  BY <1>1, <1>2, <1>3, <1>4, <1>5, <1>8, <1>9, <1>10 DEF q
----------------------------------------------------------------------------
(***************************************************************************)
(* Types.                                                                  *)
(***************************************************************************)
\* A structure is noted in addition to those noted before.
LEMMA Noted ==
  ASSUME dataStructureNames \in Seq(Structures \cup {"unknown"}), NEW v \in Names, HasDot(v)
  PROVE  /\ NoteStructure(v) \in Seq(Structures \cup {"unknown"})
         /\ ToSet(NoteStructure(v)) = ToSet(dataStructureNames) \cup {ClassOf[v]}
<1>1. ClassOf[v] \in Structures \cup {"unknown"}
  BY DEF HasDot
<1>2. CASE Contains(dataStructureNames, ClassOf[v])
  BY <1>2 DEF NoteStructure, Contains, ToSet
<1>3. CASE ~ Contains(dataStructureNames, ClassOf[v])
  <2> DEFINE q == dataStructureNames
             a == Append(q, ClassOf[v])
  <2>1. NoteStructure(v) = a
    BY <1>3 DEF NoteStructure
  <2>2. /\ a \in Seq(Structures \cup {"unknown"}) /\ Len(a) = Len(q) + 1 /\ Len(q) \in Nat
        /\ a[Len(q) + 1] = ClassOf[v] /\ \A k \in 1 .. Len(q) : a[k] = q[k]
        /\ DOMAIN a = 1 .. Len(a) /\ DOMAIN q = 1 .. Len(q)
    BY <1>1, AppendProperties
  <2> HIDE DEF q, a
  <2>3. ToSet(a) = ToSet(q) \cup {ClassOf[v]}
    BY <2>2 DEF ToSet
  <2> QED BY <2>1, <2>2, <2>3 DEF q
<1> QED
  BY <1>2, <1>3

\* What Modify does to the memory.
Written(v, value) == IF ClassOf[v] \in Structures THEN [quqpData EXCEPT ![v] = value] ELSE quqpData

\* A turn of the first loop: the value is the one chosen for the name looked up.
LEMMA SampleTurn ==
  ASSUME TypeOK, AugmentFromSample
  PROVE  LET v == LookupData(i) IN
         /\ i \in 1 .. dimensions /\ v \in Varied /\ v \in Names
         /\ pc = "sample"
         /\ UNCHANGED <<params, optParams, project, fileVars, files, samples, chosen>>
         /\ \/ /\ ClassOf[v] \notin Structures
               /\ quqpData' = quqpData /\ pc' \in {"sample", "failed"}
               /\ i' = i + 1 \/ (pc' = "failed" /\ i' = i)
               /\ dataStructureNames' = dataStructureNames
            \/ /\ HasDot(v)
               /\ quqpData' = Written(v, chosen[v]) /\ pc' = "sample" /\ i' = i + 1
               /\ dataStructureNames' = NoteStructure(v)
<1> DEFINE v == LookupData(i)
<1>1. i \in 1 .. dimensions /\ pc = "sample"
      /\ UNCHANGED <<params, optParams, project, fileVars, files, samples, chosen>>
  BY Positions DEF AugmentFromSample, TypeOK
<1>2. v \in Varied /\ v \in Names
  BY <1>1, Positions
<1>3. sample[i] = chosen[v]
  BY <1>1 DEF sample, LookupData
<1>4. CASE ClassOf[v] = "dummy"
  <2>1. ClassOf[v] \notin Structures
    BY <1>4 DEF Structures
  <2>2. UNCHANGED <<pc, quqpData, dataStructureNames>> /\ i' = i + 1
    BY <1>4 DEF AugmentFromSample, PassDummy
  <2>3. pc' = "sample" /\ quqpData' = quqpData /\ dataStructureNames' = dataStructureNames
    BY <1>1, <2>2
  <2> QED BY <1>1, <1>2, <2>1, <2>2, <2>3
<1>5. CASE ClassOf[v] # "dummy"
  <2>1. Modify(v, chosen[v], NoteStructure(v), "sample")
    BY <1>3, <1>5 DEF AugmentFromSample
  <2>2. quqpData' = Written(v, chosen[v])
    BY <2>1 DEF Modify, Written
  <2>3. CASE HasDot(v)
    BY <1>1, <1>2, <2>1, <2>2, <2>3 DEF Modify
  <2>4. CASE ~ HasDot(v)
    <3>1. ClassOf[v] \notin Structures
      BY <2>4 DEF HasDot
    <3>2. pc' = "failed" /\ UNCHANGED <<dataStructureNames, i>>
      BY <2>1, <2>4 DEF Modify
    <3> QED BY <1>1, <1>2, <2>2, <3>1, <3>2 DEF Written
  <2> QED BY <2>3, <2>4
<1> QED
  BY <1>4, <1>5

\* A turn of the second: the value is computed from the operands as they are.
Computed(v) == Apply(params[v].op, quqpData[params[v].left], quqpData[params[v].right])

LEMMA DependencyTurn ==
  ASSUME TypeOK, AugmentBasedOnDependency
  PROVE  LET v == optParams.dependencyOptMap[i] IN
         /\ i \in 1 .. Len(optParams.dependencyOptMap) /\ v \in Dependents /\ v \in Names
         /\ pc = "dependency"
         /\ UNCHANGED <<params, optParams, project, fileVars, files, samples, chosen>>
         /\ \/ /\ quqpData' = quqpData /\ pc' = "failed" /\ i' = i
               /\ dataStructureNames' = dataStructureNames
            \/ /\ HasDot(v) /\ Numeric(v) /\ Operands(v) \subseteq Names
               /\ quqpData' = Written(v, Computed(v)) /\ pc' = "dependency" /\ i' = i + 1
               /\ dataStructureNames' = NoteStructure(v)
<1> DEFINE v == optParams.dependencyOptMap[i]
<1>1. i \in 1 .. Len(optParams.dependencyOptMap) /\ pc = "dependency"
      /\ UNCHANGED <<params, optParams, project, fileVars, files, samples, chosen>>
  <2>1. Len(optParams.dependencyOptMap) \in Nat
    BY Positions
  <2> QED BY <2>1 DEF AugmentBasedOnDependency, TypeOK
<1>2. v \in Dependents /\ v \in Names
  BY <1>1, Positions
<1>3. CASE NonNumeric(v) /\ pc' = "failed" /\ UNCHANGED <<quqpData, dataStructureNames, i>>
  BY <1>1, <1>2, <1>3
<1>4. CASE Numeric(v) /\ Modify(v, Computed(v), NoteStructure(v), "dependency")
  <2>1. quqpData' = Written(v, Computed(v))
    BY <1>4 DEF Modify, Written
  <2>2. Operands(v) \subseteq Names
    <3>1. params[v] \in RightSide
      BY <1>2 DEF TypeOK
    <3> QED BY <1>4, <3>1 DEF Numeric, Operands, RightSide
  <2>3. CASE HasDot(v)
    BY <1>1, <1>2, <1>4, <2>1, <2>2, <2>3 DEF Modify
  <2>4. CASE ~ HasDot(v)
    <3>1. ClassOf[v] \notin Structures
      BY <2>4 DEF HasDot
    <3>2. pc' = "failed" /\ UNCHANGED <<dataStructureNames, i>>
      BY <1>4, <2>4 DEF Modify
    <3> QED BY <1>1, <1>2, <2>1, <3>1, <3>2 DEF Written
  <2> QED BY <2>3, <2>4
<1> QED
  BY <1>3, <1>4 DEF AugmentBasedOnDependency, Computed, Retrieve, NoteDependent

\* Type correctness: every state of the job is well typed.
LEMMA TypeStep ==
  ASSUME TypeOK, [Next]_vars
  PROVE  TypeOK'
<1> USE DEF TypeOK, Places
<1>1. CASE UNCHANGED vars
  BY <1>1 DEF vars, fileVars, Varied, rangeOptMap, setOptMap
<1>2. CASE NoBasePath
  BY <1>2 DEF NoBasePath, fileVars
<1>3. CASE CreateLocalBaseCopy
  <2>1. Base \in [Names -> Int]
    BY DEF Base, Names
  <2>2. pc' \in {"initial_run", "crashed"}
    BY <1>3 DEF CreateLocalBaseCopy, MayCrash
  <2> QED BY <1>3, <2>1, <2>2 DEF CreateLocalBaseCopy
<1>4. CASE IntialRun
  <2>1. pc' \in {"next_sample", "crashed"}
    BY <1>4 DEF IntialRun, MayCrash
  <2> QED BY <1>4, <2>1 DEF IntialRun
<1>5. CASE NextSample
  <2>1. Varied' = Varied
    BY <1>5 DEF NextSample, Varied, rangeOptMap, setOptMap
  <2> QED BY <1>5, <2>1 DEF NextSample
<1>6. CASE AugmentFromSample
  <2> DEFINE v == LookupData(i)
  <2>1. Varied' = Varied
    BY <1>6, SampleTurn DEF Varied, rangeOptMap, setOptMap
  <2>2. chosen[v] \in Int
    <3>1. v \in Varied /\ pc = "sample"
      BY <1>6, SampleTurn
    <3> QED BY <3>1, JobAssumption
  <2>3. i' \in Nat \ {0} /\ pc' \in {"sample", "failed"}
    BY <1>6, SampleTurn
  <2>4. quqpData' \in [Names -> Int]
    BY <1>6, <2>2, SampleTurn DEF Written
  <2>5. dataStructureNames' \in Seq(Structures \cup {"unknown"})
    BY <1>6, SampleTurn, Noted
  <2>6. UNCHANGED <<params, optParams, project, files, samples, chosen>> /\ pc = "sample"
    BY <1>6, SampleTurn
  <2> QED BY <2>1, <2>3, <2>4, <2>5, <2>6
<1>7. CASE SampleAugmented
  BY <1>7 DEF SampleAugmented, Varied, rangeOptMap, setOptMap
<1>8. CASE AugmentBasedOnDependency
  <2> DEFINE v == optParams.dependencyOptMap[i]
  <2>1. Varied' = Varied
    BY <1>8, DependencyTurn DEF Varied, rangeOptMap, setOptMap
  <2>2. ASSUME Operands(v) \subseteq Names PROVE Computed(v) \in Int
    <3> HIDE DEF v
    <3>1. quqpData[params[v].left] \in Int /\ quqpData[params[v].right] \in Int
      BY <2>2 DEF Operands
    <3> QED BY <3>1 DEF Computed, Apply
  <2>3. i' \in Nat \ {0} /\ pc' \in {"dependency", "failed"}
    BY <1>8, DependencyTurn
  <2>4. quqpData' \in [Names -> Int]
    BY <1>8, <2>2, DependencyTurn DEF Written
  <2>5. dataStructureNames' \in Seq(Structures \cup {"unknown"})
    BY <1>8, DependencyTurn, Noted
  <2>6. UNCHANGED <<params, optParams, project, files, samples, chosen>> /\ pc = "dependency"
    BY <1>8, DependencyTurn
  <2> QED BY <2>1, <2>3, <2>4, <2>5, <2>6
<1>9. CASE DependencyAugmented
  BY <1>9 DEF DependencyAugmented, Varied, rangeOptMap, setOptMap
<1>10. CASE ValidateOutputDir
  BY <1>10 DEF ValidateOutputDir, Varied, rangeOptMap, setOptMap
<1>11. CASE EvalSampleFitness
  BY <1>11 DEF EvalSampleFitness
<1>12. CASE PopulationDone
  BY <1>12 DEF PopulationDone
<1>13. CASE Terminated
  BY <1>13 DEF Terminated, vars, fileVars, Varied, rangeOptMap, setOptMap
<1> QED
  BY <1>1, <1>2, <1>3, <1>4, <1>5, <1>6, <1>7, <1>8, <1>9, <1>10, <1>11, <1>12, <1>13 DEF Next

\* THEOREM: the job's variables always have their types (job.cpp:57-112, 581-893).
THEOREM TypeCorrect == Spec => []TypeOK
<1>1. Init => TypeOK
  <2> SUFFICES ASSUME Init PROVE TypeOK
    OBVIOUS
  <2>1. params \in [Names -> RightSide]
    BY LastLineCounts DEF Init
  <2>2. quqpData \in [Names -> Int] /\ files \in [Names -> Int]
    BY DEF Init, Base, Names
  <2>3. dataStructureNames \in Seq(Structures \cup {"unknown"})
    BY DEF Init
  <2> QED BY <2>1, <2>2, <2>3 DEF Init, TypeOK, Places
<1>2. TypeOK /\ [Next]_vars => TypeOK'
  BY TypeStep
<1> QED
  BY <1>1, <1>2, PTL DEF Spec
----------------------------------------------------------------------------
(***************************************************************************)
(* The parts of the invariant.                                             *)
(***************************************************************************)
\* What the parameters stand for does not change.
LEMMA ParametersStay ==
  ASSUME [Next]_vars
  PROVE  /\ UNCHANGED <<params, optParams, project>>
         /\ dimensions' = dimensions /\ Varied' = Varied /\ Dependents' = Dependents
         /\ \A d : LookupData(d)' = LookupData(d)
         /\ \A v : Operands(v)' = Operands(v) /\ Numeric(v)' = Numeric(v)
         /\ Ordered' = Ordered
<1>1. UNCHANGED <<params, optParams, project>>
  BY DEF Next, vars, NoBasePath, CreateLocalBaseCopy, IntialRun, NextSample, AugmentFromSample,
         SampleAugmented, AugmentBasedOnDependency, DependencyAugmented, ValidateOutputDir,
         EvalSampleFitness, PopulationDone, Terminated
<1>2. rangeOptMap' = rangeOptMap /\ setOptMap' = setOptMap
  BY <1>1 DEF rangeOptMap, setOptMap
<1>3. /\ dimensions' = dimensions /\ Varied' = Varied /\ Dependents' = Dependents
      /\ \A d : LookupData(d)' = LookupData(d)
      /\ \A v : Operands(v)' = Operands(v) /\ Numeric(v)' = Numeric(v)
  BY <1>1, <1>2 DEF dimensions, Varied, Dependents, LookupData, Operands, Numeric
<1>4. Ordered' = Ordered
  BY <1>3 DEF Ordered
<1> QED
  BY <1>1, <1>3, <1>4

\* The scene: copied as a whole, then left alone.
LEMMA SceneStep ==
  ASSUME SceneFollows, [Next]_vars
  PROVE  SceneFollows'
<1> USE DEF SceneFollows, SceneComplete
<1>1. CASE CreateLocalBaseCopy
  <2>1. localBaseCopy' = (CopiedFiles \ project.missing) \cup Structures
    BY <1>1 DEF CreateLocalBaseCopy, CopyFiles
  <2>2. pc' \in {"initial_run", "crashed"} /\ project' = project
    BY <1>1 DEF CreateLocalBaseCopy, MayCrash
  <2> QED BY <2>1, <2>2
<1>2. CASE IntialRun
  <2>1. localBaseCopy = (CopiedFiles \ project.missing) \cup Structures
    BY <1>2 DEF IntialRun
  <2>2. outputDir' = (CopiedFiles \ project.missing) \cup Structures
    BY <1>2, <2>1 DEF IntialRun, CopyFiles
  <2>3. pc' \in {"next_sample", "crashed"} /\ project' = project
    BY <1>2 DEF IntialRun, MayCrash
  <2> QED BY <2>2, <2>3
<1>3. CASE AugmentFromSample
  <2>1. pc = "sample" /\ outputDir' = outputDir /\ project' = project
    BY <1>3 DEF AugmentFromSample, fileVars
  <2>2. pc' # "initial_run"
    BY <1>3, <2>1 DEF AugmentFromSample, Modify
  <2> QED BY <2>1, <2>2
<1>4. CASE AugmentBasedOnDependency
  <2>1. pc = "dependency" /\ outputDir' = outputDir /\ project' = project
    BY <1>4 DEF AugmentBasedOnDependency, fileVars
  <2>2. pc' # "initial_run"
    BY <1>4, <2>1 DEF AugmentBasedOnDependency, Modify
  <2> QED BY <2>1, <2>2
<1> QED
  BY <1>1, <1>2, <1>3, <1>4
     DEF Next, vars, fileVars, NoBasePath, NextSample, SampleAugmented, DependencyAugmented,
         ValidateOutputDir, EvalSampleFitness, PopulationDone, Terminated

\* The files: whatever a turn changes belongs to a structure it notes, and the files of
\* noted structures are written before the simulation.
LEMMA ChangesStep ==
  ASSUME TypeOK, ChangesAreNoted, [Next]_vars
  PROVE  ChangesAreNoted'
<1> USE DEF ChangesAreNoted, Known
<1>1. CASE IntialRun
  BY <1>1 DEF IntialRun
<1>2. CASE CreateLocalBaseCopy
  BY <1>2 DEF CreateLocalBaseCopy, MayCrash
<1>3. CASE AugmentFromSample
  <2> DEFINE v == LookupData(i)
  <2>1. pc = "sample" /\ files' = files /\ v \in Names /\ pc' \in {"sample", "failed"}
    BY <1>3, SampleTurn
  <2>2. CASE quqpData' = quqpData /\ dataStructureNames' = dataStructureNames
    BY <2>1, <2>2
  <2>3. CASE /\ HasDot(v) /\ quqpData' = Written(v, chosen[v])
             /\ dataStructureNames' = NoteStructure(v)
    <3>1. ToSet(dataStructureNames') = ToSet(dataStructureNames) \cup {ClassOf[v]}
      BY <2>1, <2>3, Noted DEF TypeOK
    <3>2. \A w \in Names : w # v => quqpData'[w] = quqpData[w]
      BY <2>1, <2>3 DEF Written, TypeOK
    <3> HIDE DEF v
    <3> QED BY <2>1, <3>1, <3>2
  <2> QED BY <1>3, <2>2, <2>3, SampleTurn
<1>4. CASE AugmentBasedOnDependency
  <2> DEFINE v == optParams.dependencyOptMap[i]
  <2>1. pc = "dependency" /\ files' = files /\ v \in Names /\ pc' \in {"dependency", "failed"}
    BY <1>4, DependencyTurn
  <2>2. CASE quqpData' = quqpData /\ dataStructureNames' = dataStructureNames
    BY <2>1, <2>2
  <2>3. CASE /\ HasDot(v) /\ quqpData' = Written(v, Computed(v))
             /\ dataStructureNames' = NoteStructure(v)
    <3>1. ToSet(dataStructureNames') = ToSet(dataStructureNames) \cup {ClassOf[v]}
      BY <2>1, <2>3, Noted DEF TypeOK
    <3>2. \A w \in Names : w # v => quqpData'[w] = quqpData[w]
      BY <2>1, <2>3 DEF Written, TypeOK
    <3> HIDE DEF v
    <3> QED BY <2>1, <3>1, <3>2
  <2> QED BY <1>4, <2>2, <2>3, DependencyTurn
<1>5. CASE ValidateOutputDir
  <2>1. \A v \in Names : Known(v) => files'[v] = quqpData'[v]
    BY <1>5 DEF ValidateOutputDir
  <2> QED BY <1>5, <2>1 DEF ValidateOutputDir
<1> QED
  BY <1>1, <1>2, <1>3, <1>4, <1>5
     DEF Next, vars, NoBasePath, NextSample, SampleAugmented, DependencyAugmented,
         EvalSampleFitness, PopulationDone, Terminated

\* What one name is changed to leaves the others alone.
LEMMA WrittenOnce ==
  ASSUME TypeOK, NEW v \in Names, NEW x
  PROVE  /\ \A w \in Names : w # v => Written(v, x)[w] = quqpData[w]
         /\ Known(v) => Written(v, x)[v] = x
         /\ ~ Known(v) => Written(v, x)[v] = quqpData[v]
BY DEF Written, TypeOK, Known

\* The sample: a name is varied once, so a turn leaves the values of earlier turns,
\* and no dependent name is varied.
LEMMA SampleAppliedStep ==
  ASSUME TypeOK, SampleApplied, [Next]_vars
  PROVE  SampleApplied'
<1>0. /\ dimensions' = dimensions /\ \A d : LookupData(d)' = LookupData(d)
      /\ \A v : Known(v)' = Known(v)
  BY ParametersStay DEF Known
<1>1. /\ dimensions \in Nat /\ i \in Nat \ {0}
      /\ \A d \in 1 .. dimensions : LookupData(d) \in Varied /\ LookupData(d) \in Names
      /\ \A d, e \in 1 .. dimensions : d # e => LookupData(d) # LookupData(e)
      /\ Varied \cap Dependents = {}
  BY Positions DEF TypeOK
<1>2. CASE NextSample
  BY <1>0, <1>1, <1>2 DEF NextSample, SampleApplied, Applied
<1>3. CASE AugmentFromSample
  <2> DEFINE v == LookupData(i)
  <2>1. i \in 1 .. dimensions /\ v \in Names /\ pc = "sample" /\ chosen' = chosen
    BY <1>3, SampleTurn
  <2>2. \A d \in 1 .. (i - 1) : Known(LookupData(d)) => quqpData[LookupData(d)] = chosen[LookupData(d)]
    BY <2>1 DEF SampleApplied, Applied
  <2>3. \A d \in 1 .. (i - 1) : d \in 1 .. dimensions /\ d # i
    BY <1>1, <2>1
  <2>4. CASE pc' = "failed"
    BY <2>4 DEF SampleApplied
  <2>5. CASE ~ Known(v) /\ quqpData' = quqpData /\ pc' = "sample" /\ i' = i + 1
    <3>1. i' - 1 = i /\ i' <= dimensions + 1
      BY <1>1, <2>1, <2>5
    <3>2. \A d \in 1 .. i : d \in 1 .. (i - 1) \/ d = i
      BY <1>1
    <3>3. Applied(i - 1)'
      BY <1>0, <2>1, <2>2, <2>5, <3>1, <3>2 DEF Applied
    <3> QED BY <1>0, <2>5, <3>1, <3>3 DEF SampleApplied
  <2>6. CASE quqpData' = Written(v, chosen[v]) /\ pc' = "sample" /\ i' = i + 1
    <3>1. i' - 1 = i /\ i' <= dimensions + 1
      BY <1>1, <2>1, <2>6
    <3>2. \A d \in 1 .. i : d \in 1 .. (i - 1) \/ d = i
      BY <1>1
    <3>3. Known(v) => quqpData'[v] = chosen[v]
      BY <2>1, <2>6, WrittenOnce
    <3>4. ASSUME NEW d \in 1 .. (i - 1), Known(LookupData(d))
          PROVE  quqpData'[LookupData(d)] = chosen[LookupData(d)]
      <4>1. LookupData(d) # v /\ LookupData(d) \in Names
        BY <1>1, <2>1, <2>3
      <4>2. quqpData'[LookupData(d)] = quqpData[LookupData(d)]
        BY <2>1, <2>6, <4>1, WrittenOnce
      <4> QED BY <2>2, <3>4, <4>2
    <3>5. Applied(i - 1)'
      BY <1>0, <2>1, <3>1, <3>2, <3>3, <3>4 DEF Applied
    <3> QED BY <1>0, <2>6, <3>1, <3>5 DEF SampleApplied
  <2> QED BY <1>3, <2>4, <2>5, <2>6, SampleTurn DEF Known
<1>4. CASE SampleAugmented
  <2>1. i - 1 = dimensions /\ quqpData' = quqpData /\ chosen' = chosen /\ pc' = "dependency" /\ Applied(i - 1)
    BY <1>1, <1>4 DEF SampleAugmented, SampleApplied
  <2>2. Applied(dimensions)
    BY <2>1
  <2> QED BY <1>0, <2>1, <2>2 DEF SampleApplied, Applied
<1>5. CASE AugmentBasedOnDependency
  <2> DEFINE v == optParams.dependencyOptMap[i]
  <2>1. v \in Names /\ v \in Dependents /\ pc = "dependency" /\ chosen' = chosen
        /\ pc' \in {"dependency", "failed"}
    BY <1>5, DependencyTurn
  <2>2. Applied(dimensions)
    BY <2>1 DEF SampleApplied
  <2>3. \A w \in Names : w # v => quqpData'[w] = quqpData[w]
    <3>1. \A x : \A w \in Names : w # v => Written(v, x)[w] = quqpData[w]
      BY <2>1, WrittenOnce
    <3> QED BY <1>5, <3>1, DependencyTurn
  <2>4. \A d \in 1 .. dimensions : quqpData'[LookupData(d)] = quqpData[LookupData(d)]
    BY <1>1, <2>1, <2>3
  <2>5. Applied(dimensions)'
    BY <1>0, <2>1, <2>2, <2>4 DEF Applied
  <2> QED BY <1>0, <2>1, <2>5 DEF SampleApplied
<1>6. CASE DependencyAugmented
  BY <1>0, <1>6 DEF DependencyAugmented, SampleApplied, Applied
<1>7. CASE ValidateOutputDir
  BY <1>0, <1>7 DEF ValidateOutputDir, SampleApplied, Applied
<1>8. CASE UNCHANGED vars
  BY <1>0, <1>8 DEF vars, SampleApplied, Applied
<1> QED
  BY <1>2, <1>3, <1>4, <1>5, <1>6, <1>7, <1>8
     DEF Next, SampleApplied, NoBasePath, CreateLocalBaseCopy, IntialRun, MayCrash,
         EvalSampleFitness, PopulationDone, Terminated

\* The dependent names: in order, none is set again after it was used.
LEMMA DependentsSettledStep ==
  ASSUME TypeOK, DependentsSettled, [Next]_vars
  PROVE  DependentsSettled'
<1> DEFINE q == optParams.dependencyOptMap
<1>0. /\ UNCHANGED <<params, optParams>> /\ Ordered' = Ordered
      /\ \A v : Known(v)' = Known(v) /\ Numeric(v)' = Numeric(v)
  BY ParametersStay DEF Known
<1>1. /\ Len(q) \in Nat /\ i \in Nat \ {0}
      /\ \A k \in 1 .. Len(q) : q[k] \in Dependents /\ q[k] \in Names /\ q[k] \in Int
      /\ \A j, k \in 1 .. Len(q) : j < k => q[j] < q[k]
  <2>1. /\ q \in Seq(Names) /\ \A k \in 1 .. Len(q) : q[k] \in Dependents
        /\ \A j, k \in 1 .. Len(q) : j < k => q[j] < q[k]
    BY Positions
  <2>2. i \in Nat \ {0} /\ Names \subseteq Int
    BY DEF TypeOK, Names
  <2> HIDE DEF q
  <2>3. Len(q) \in Nat /\ \A k \in 1 .. Len(q) : q[k] \in Names
    BY <2>1
  <2> QED BY <2>1, <2>2, <2>3
<1> SUFFICES ASSUME Ordered PROVE DependentsSettled'
  BY <1>0 DEF DependentsSettled
<1>2. CASE SampleAugmented
  BY <1>0, <1>1, <1>2 DEF SampleAugmented, DependentsSettled, Settled
<1>3. CASE AugmentBasedOnDependency
  <2> DEFINE v == q[i]
  <2>1. i \in 1 .. Len(q) /\ v \in Names /\ v \in Dependents /\ pc = "dependency"
    BY <1>3, DependencyTurn
  <2>2. CASE pc' = "failed"
    BY <2>2 DEF DependentsSettled
  <2>3. CASE /\ Numeric(v) /\ Operands(v) \subseteq Names
             /\ quqpData' = Written(v, Computed(v)) /\ pc' = "dependency" /\ i' = i + 1
    <3>1. i' - 1 = i /\ i' <= Len(q) + 1
      BY <1>1, <2>1, <2>3
    <3>2. \A w \in Names : w # v => quqpData'[w] = quqpData[w]
      BY <2>1, <2>3, WrittenOnce
    <3>3. Known(v) => quqpData'[v] = Apply(params[v].op, quqpData[params[v].left], quqpData[params[v].right])
      BY <2>1, <2>3, WrittenOnce DEF Computed
    <3>4. ASSUME NEW k \in 1 .. i
          PROVE  v \notin Operands(q[k]) /\ (k # i => q[k] # v)
      <4>1. k \in 1 .. Len(q) /\ (k # i => k < i)
        BY <1>1, <2>1
      <4>2. q[k] \in Int /\ v \in Int /\ (k # i => q[k] < v) /\ q[k] \in Dependents
        BY <1>1, <2>1, <4>1
      <4>3. Operands(q[k]) \cap Dependents \subseteq 1 .. (q[k] - 1)
        BY <4>2 DEF Ordered
      <4>4. v \notin 1 .. (q[k] - 1)
        BY <4>2
      <4> HIDE DEF v, q
      <4> QED BY <2>1, <4>2, <4>3, <4>4
    <3>5. ASSUME NEW k \in 1 .. i, Known(q[k])
          PROVE  /\ Numeric(q[k]) /\ q[k] \in Names
                 /\ Operands(q[k]) \subseteq Names
      <4>1. k \in 1 .. Len(q)
        BY <1>1, <2>1
      <4>2. Numeric(q[k])
        <5>1. CASE k = i
          BY <2>3, <5>1
        <5>2. CASE k # i
          <6>1. k \in 1 .. (i - 1)
            BY <1>1, <5>2
          <6> QED BY <2>1, <3>5, <6>1 DEF DependentsSettled, Settled
        <5> QED BY <5>1, <5>2
      <4>3. params[q[k]] \in RightSide
        BY <1>1, <4>1 DEF TypeOK
      <4> HIDE DEF q
      <4> QED BY <1>1, <4>1, <4>2, <4>3 DEF Numeric, Operands, RightSide
    <3>6. ASSUME NEW k \in 1 .. i, Known(q[k])
          PROVE  quqpData'[q[k]] = Apply(params[q[k]].op, quqpData'[params[q[k]].left], quqpData'[params[q[k]].right])
      <4> DEFINE w == q[k]
      <4>1. quqpData[w] = Computed(w) \/ k = i
        <5>1. k \in 1 .. (i - 1) \/ k = i
          BY <1>1
        <5> QED BY <2>1, <3>6, <5>1 DEF DependentsSettled, Settled, Computed
      <4>2. quqpData'[w] = Computed(w)
        BY <2>1, <3>2, <3>3, <3>4, <3>5, <3>6, <4>1 DEF Computed
      <4>3. params[w].left \in Names /\ params[w].right \in Names
            /\ params[w].left # v /\ params[w].right # v
        <5>1. Operands(w) \subseteq Names /\ v \notin Operands(w)
          BY <3>4, <3>5, <3>6
        <5> HIDE DEF w
        <5> QED BY <5>1 DEF Operands
      <4>4. quqpData'[params[w].left] = quqpData[params[w].left]
            /\ quqpData'[params[w].right] = quqpData[params[w].right]
        <5> HIDE DEF w, v
        <5> QED BY <3>2, <4>3
      <4> QED BY <4>2, <4>4 DEF Computed
    <3>7. Settled(i - 1)'
      BY <1>0, <3>1, <3>5, <3>6 DEF Settled
    <3> QED BY <1>0, <2>3, <3>1, <3>7 DEF DependentsSettled
  <2> QED BY <1>3, <2>2, <2>3, DependencyTurn
<1>4. CASE DependencyAugmented
  <2>1. i - 1 = Len(q) /\ Settled(i - 1) /\ quqpData' = quqpData /\ pc' \in {"validate", "crashed"}
    BY <1>1, <1>4 DEF DependencyAugmented, DependentsSettled
  <2>2. Settled(Len(q))
    BY <2>1
  <2>3. Settled(Len(q))'
    BY <1>0, <2>1, <2>2 DEF Settled
  <2> QED BY <1>0, <2>1, <2>3 DEF DependentsSettled
<1>5. CASE ValidateOutputDir
  BY <1>0, <1>5 DEF ValidateOutputDir, DependentsSettled, Settled
<1>6. CASE AugmentFromSample
  <2>1. pc' \in {"sample", "failed"}
    BY <1>6, SampleTurn
  <2> QED BY <2>1 DEF DependentsSettled
<1>7. CASE UNCHANGED vars
  BY <1>0, <1>7 DEF vars, DependentsSettled, Settled
<1> QED
  BY <1>2, <1>3, <1>4, <1>5, <1>6, <1>7
     DEF Next, DependentsSettled, NoBasePath, CreateLocalBaseCopy, IntialRun, MayCrash, NextSample,
         EvalSampleFitness, PopulationDone, Terminated

\* The rest of the project keeps the values it was read with.
LEMMA RestUntouchedStep ==
  ASSUME TypeOK, RestUntouched, [Next]_vars
  PROVE  RestUntouched'
<1>0. Varied' = Varied /\ Dependents' = Dependents /\ \A v : Known(v)' = Known(v)
  BY ParametersStay DEF Known
<1>1. CASE CreateLocalBaseCopy
  BY <1>1 DEF CreateLocalBaseCopy, RestUntouched
<1>2. CASE AugmentFromSample
  <2> DEFINE v == LookupData(i)
  <2>1. v \in Names /\ v \in Varied
        /\ (quqpData' = quqpData \/ quqpData' = Written(v, chosen[v]))
    BY <1>2, SampleTurn
  <2>2. \A w \in Names : w # v \/ ~ Known(v) => quqpData'[w] = quqpData[w]
    BY <2>1, WrittenOnce
  <2> QED BY <1>0, <2>1, <2>2 DEF RestUntouched
<1>3. CASE AugmentBasedOnDependency
  <2> DEFINE v == optParams.dependencyOptMap[i]
  <2>1. v \in Names /\ v \in Dependents
        /\ (quqpData' = quqpData \/ quqpData' = Written(v, Computed(v)))
    BY <1>3, DependencyTurn
  <2>2. \A w \in Names : w # v \/ ~ Known(v) => quqpData'[w] = quqpData[w]
    BY <2>1, WrittenOnce
  <2> QED BY <1>0, <2>1, <2>2 DEF RestUntouched
<1>4. CASE quqpData' = quqpData
  BY <1>0, <1>4 DEF RestUntouched
<1> QED
  BY <1>1, <1>2, <1>3, <1>4
     DEF Next, vars, NoBasePath, IntialRun, NextSample, SampleAugmented, DependencyAugmented,
         ValidateOutputDir, EvalSampleFitness, PopulationDone, Terminated
----------------------------------------------------------------------------
(***************************************************************************)
(* What a sample is simulated with.                                        *)
(***************************************************************************)
\* THEOREM: memory, files and notes agree as they must at each place (job.cpp:581-893).
THEOREM Invariance == Spec => []JobInvariant
<1>1. Init => JobInvariant
  <2> SUFFICES ASSUME Init PROVE JobInvariant
    OBVIOUS
  <2>1. params \in [Names -> RightSide]
    BY LastLineCounts DEF Init
  <2>2. quqpData \in [Names -> Int] /\ files \in [Names -> Int]
    BY DEF Init, Base, Names
  <2>3. dataStructureNames \in Seq(Structures \cup {"unknown"})
    BY DEF Init
  <2>4. TypeOK
    BY <2>1, <2>2, <2>3 DEF Init, TypeOK, Places
  <2> QED BY <2>4 DEF Init, JobInvariant, SceneFollows, ChangesAreNoted, SampleApplied,
                      DependentsSettled, RestUntouched
<1>2. JobInvariant /\ [Next]_vars => JobInvariant'
  BY TypeStep, SceneStep, ChangesStep, SampleAppliedStep, DependentsSettledStep, RestUntouchedStep
     DEF JobInvariant
<1> QED
  BY <1>1, <1>2, PTL DEF Spec

\* What is in memory at the simulation solves the equations of Wanted ...
LEMMA MemoryIsWanted ==
  ASSUME JobInvariant, pc = "simulate", Ordered
  PROVE  \A v \in Names : Wanted[v] = quqpData[v]
<1> DEFINE Is(g, v) == IF v \in Varied /\ Known(v) THEN chosen[v]
                       ELSE IF v \in Dependents /\ Known(v)
                         THEN Apply(params[v].op, g[params[v].left], g[params[v].right])
                       ELSE Base[v]
<1>1. Wanted = CHOOSE g : g = [v \in Names |-> Is(g, v)]
  BY DEF Wanted
<1>2. /\ dimensions \in Nat /\ Varied \subseteq Names /\ Dependents \subseteq Names
      /\ \A v \in Varied : \E d \in 1 .. dimensions : LookupData(d) = v
      /\ \A v \in Dependents : \E k \in 1 .. Len(optParams.dependencyOptMap) : optParams.dependencyOptMap[k] = v
      /\ Varied \cap Dependents = {}
  BY Positions DEF JobInvariant
<1>3. /\ Applied(dimensions) /\ Settled(Len(optParams.dependencyOptMap)) /\ RestUntouched
      /\ quqpData \in [Names -> Int] /\ params \in [Names -> RightSide]
  BY DEF JobInvariant, SampleApplied, DependentsSettled, TypeOK
<1>4. \A v \in Varied : Known(v) => quqpData[v] = chosen[v]
  BY <1>2, <1>3 DEF Applied
<1>5. \A v \in Dependents : Known(v) =>
        /\ Numeric(v)
        /\ quqpData[v] = Apply(params[v].op, quqpData[params[v].left], quqpData[params[v].right])
  BY <1>2, <1>3 DEF Settled
<1>6. \A v \in Names : quqpData[v] = Is(quqpData, v)
  BY <1>2, <1>3, <1>4, <1>5 DEF RestUntouched
<1>7. quqpData = [v \in Names |-> Is(quqpData, v)]
  BY <1>3, <1>6
<1>8. Wanted = [v \in Names |-> Is(Wanted, v)]
  <2> HIDE DEF Is
  <2> QED BY <1>1, <1>7
<1>9. \A v \in Names : Wanted[v] = Is(Wanted, v)
  <2> HIDE DEF Is
  <2> DEFINE W == Wanted
  <2>1. W = [v \in Names |-> Is(W, v)]
    BY <1>8
  <2> HIDE DEF W
  <2>2. \A v \in Names : W[v] = Is(W, v)
    BY <2>1
  <2> QED BY <2>2 DEF W
\* ... and these have one solution when the names are in order: where two differed
\* first, they would differ before.
<1> DEFINE D == {v \in Names : Wanted[v] # quqpData[v]}
<1> SUFFICES ASSUME D # {} PROVE FALSE
  OBVIOUS
<1>10. D \in SUBSET Nat
  BY DEF Names
<1>11. PICK m \in D : \A k \in D : m <= k
  <2> HIDE DEF D
  <2> QED BY <1>10, LeastNumber
<1>12. m \in Names /\ m \in Int /\ Wanted[m] # quqpData[m]
  BY <1>10, <1>11
<1>13. m \in Dependents /\ Known(m) /\ m \notin Varied
  BY <1>2, <1>6, <1>9, <1>12
<1>14. Wanted[m] = Apply(params[m].op, Wanted[params[m].left], Wanted[params[m].right])
       /\ quqpData[m] = Apply(params[m].op, quqpData[params[m].left], quqpData[params[m].right])
  BY <1>5, <1>9, <1>12, <1>13
<1>15. Operands(m) \subseteq Names
  <2>1. params[m] \in RightSide /\ Numeric(m)
    BY <1>3, <1>5, <1>12, <1>13
  <2> QED BY <2>1 DEF Numeric, Operands, RightSide
<1>16. \A w \in Operands(m) : Wanted[w] = quqpData[w]
  <2> SUFFICES ASSUME NEW w \in Operands(m) PROVE Wanted[w] = quqpData[w]
    OBVIOUS
  <2>1. w \in Names
    BY <1>15
  <2>2. CASE w \in Dependents
    <3>1. w \in 1 .. (m - 1)
      BY <1>13, <2>2 DEF Ordered
    <3>2. ~ (m <= w)
      BY <1>12, <3>1
    <3> QED BY <1>11, <2>1, <3>2
  <2>3. CASE w \notin Dependents
    BY <1>6, <1>9, <2>1, <2>3
  <2> QED BY <2>2, <2>3
<1> QED
  BY <1>12, <1>14, <1>16 DEF Operands

\* THEOREM: every sample is simulated from files that hold its own values, for ranges
\* before sets and names in any position (job.cpp:776-826, population_gen's order).
THEOREM SimulatedWithSample == Spec => []SampleIsSimulated
<1>1. JobInvariant => SampleIsSimulated
  <2> SUFFICES ASSUME JobInvariant, pc = "simulate", NEW v \in Varied, Known(v)
               PROVE  files[v] = chosen[v]
    BY DEF SampleIsSimulated
  <2>1. TypeOK
    BY DEF JobInvariant
  <2>2. PICK d \in 1 .. dimensions : LookupData(d) = v
    BY <2>1, Positions
  <2>3. quqpData[v] = chosen[v]
    BY <2>2 DEF JobInvariant, SampleApplied, Applied
  <2>4. v \in Names
    BY <2>1, Positions
  <2> QED BY <2>3, <2>4 DEF JobInvariant, ChangesAreNoted
<1> QED
  BY <1>1, Invariance, PTL

\* THEOREM: the simulator's scene is complete and its files are what is in memory, whatever
\* earlier samples and dependencies changed (job.cpp:596-605, directory.cpp).
THEOREM FilesAreMemory == Spec => []FilesAgree
<1>1. JobInvariant => FilesAgree
  BY DEF JobInvariant, FilesAgree, SceneFollows, ChangesAreNoted
<1> QED
  BY <1>1, Invariance, PTL

\* THEOREM: dependencies in order are computed from the sample at hand, through any number
\* of other dependencies (job.cpp:828-893).
THEOREM DependenciesFollow == Spec => []OrderedDependentsFollow
<1>1. JobInvariant => OrderedDependentsFollow
  <2> SUFFICES ASSUME JobInvariant, pc = "simulate", Ordered, NEW v \in Dependents, Known(v)
               PROVE  files[v] = Wanted[v]
    BY DEF OrderedDependentsFollow
  <2>1. v \in Names
    BY Positions DEF JobInvariant
  <2>2. files[v] = quqpData[v]
    BY <2>1 DEF JobInvariant, ChangesAreNoted
  <2> QED BY <2>1, <2>2, MemoryIsWanted
<1> QED
  BY <1>1, Invariance, PTL
=============================================================================
