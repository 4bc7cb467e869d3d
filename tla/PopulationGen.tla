--------------------------- MODULE PopulationGen ---------------------------
(***************************************************************************)
(* populationGenerator (src/src/utils/population_gen.cpp): the constructor *)
(* computes how many samples the ranges and sets combine to, and           *)
(* generate_entire_pop enumerates them like an odometer into a vector of   *)
(* that size.  Nothing but the agreement of the two computations keeps the *)
(* write samples[samplenum] inside the vector.                             *)
(*                                                                         *)
(* Range bounds and set values are decimal literals of the optimization    *)
(* file, in tenths here, read by atof; steps are read by atoi; sets are    *)
(* sorted (opt_params.cpp:311-363).  Nothing there or here asks that a     *)
(* range ends above its beginning or that the values of a set differ.      *)
(***************************************************************************)
EXTENDS Float, Domains, SequencesExt, FiniteSets

CONSTANTS
  Bounds,         \* literals of range bounds, in tenths
  Steps,          \* steps of ranges
  SetValues,      \* literals of set values, in tenths
  MaxRanges,      \* bound on the range dimensions
  MaxSets,        \* bound on the set dimensions
  MaxDimensions,  \* bound on both together
  MaxSetSize,     \* bound on the values of a set
  IntBits         \* width of an int (32 in the program)

GeneratorAssumption ==
  /\ Bounds \subseteq Nat /\ SetValues \subseteq Nat
  /\ Steps \subseteq Nat \ {0}
  /\ {MaxRanges, MaxSets, MaxDimensions, MaxSetSize} \subseteq Nat
  /\ IntBits \in Nat \ {0}

VARIABLES
  pc,
  total_population_size,
  samples,
  samplenum,
  s,                      \* the sample the odometer shows
  dim_inc                 \* the dimension being incremented, from 1

vars == <<pc, ranges, sets, total_population_size, samples, samplenum, s, dim_inc>>

atof(tenths) == ToFloat(tenths, 10)

\* A range may be written backwards, as in [5:1:4].
RangeChoices == [min : Bounds, max : Bounds, step : Steps]

\* A set has two values at least: one alone is a single value.  Its text is split at each
\* blank, and what is between two blanks in a row is read as a value, 0
\* (opt_params.cpp:328-353).
SortedSets ==
  {q \in UNION {[1 .. n -> SetValues \cup {0}] : n \in 2 .. MaxSetSize} :
     /\ \A j \in 2 .. Len(q) : q[j - 1] <= q[j]
     /\ \E j \in 1 .. Len(q) : q[j] \in SetValues}

Product(q) ==
  LET product[k \in 0 .. Len(q)] == IF k = 0 THEN 1 ELSE q[k] * product[k - 1]
  IN  product[Len(q)]

\* An int keeps the low bits of what is assigned to it.
ToInt(n) == ((n + PowerOf2(IntBits - 1)) % PowerOf2(IntBits)) - PowerOf2(IntBits - 1)

InOrder(r) == r.min <= r.max

\* (long)((max - min) / step); the cast drops the fraction of a negative quotient too.
Quotient(r) ==
  IF InOrder(r) THEN Truncated(DividedBy(Minus(atof(r.max), atof(r.min)), r.step))
                ELSE - Truncated(DividedBy(Minus(atof(r.min), atof(r.max)), r.step))

\* Mutant: without the first value.
RangeCountShort(r) == Quotient(r)

RangeCount(r) == Quotient(r) + 1

num_samples ==
  Product([j \in 1 .. Len(ranges) |-> RangeCount(ranges[j])])
    * Product([j \in 1 .. Len(sets) |-> Len(sets[j])])

FirstValue(d) ==
  IF d <= Len(ranges) THEN atof(ranges[d].min) ELSE atof(sets[d - Len(ranges)][1])

FirstSample == [d \in 1 .. dimensions |-> FirstValue(d)]

Init ==
  /\ pc = "construct"
  /\ ranges \in UNION {[1 .. n -> RangeChoices] : n \in 0 .. MaxRanges}
  /\ sets \in UNION {[1 .. n -> SortedSets] : n \in 0 .. MaxSets}
  /\ dimensions <= MaxDimensions
  /\ total_population_size = 0
  /\ samples = <<>>
  /\ samplenum = 0
  /\ s = <<>>
  /\ dim_inc = 1

Construct ==
  /\ pc = "construct"
  /\ total_population_size' = ToInt(num_samples)
  /\ pc' = "generate"
  /\ UNCHANGED <<ranges, sets, samples, samplenum, s, dim_inc>>

\* exit(1) without dimensions; a size below 0 makes the vector throw.
GenerateFails ==
  /\ pc = "generate"
  /\ dimensions = 0 \/ total_population_size \notin Nat
  /\ pc' = "failed"
  /\ UNCHANGED <<ranges, sets, total_population_size, samples, samplenum, s, dim_inc>>

Generate ==
  /\ pc = "generate"
  /\ dimensions # 0 /\ total_population_size \in Nat
  /\ samples' = [k \in 1 .. total_population_size |-> [d \in 1 .. dimensions |-> <<0, 1>>]]
  /\ s' = FirstSample
  /\ pc' = "store"
  /\ UNCHANGED <<ranges, sets, total_population_size, samplenum, dim_inc>>

\* samples[samplenum] = s, unchecked: past the end it overruns the vector.
Store ==
  /\ pc = "store"
  /\ IF samplenum < total_population_size
       THEN samples' = [samples EXCEPT ![samplenum + 1] = s] /\ pc' = "increment"
       ELSE pc' = "overrun" /\ UNCHANGED samples
  /\ samplenum' = samplenum + 1
  /\ dim_inc' = 1
  /\ UNCHANGED <<ranges, sets, total_population_size, s>>

\* Dimension dim_inc takes its next value.
Advance(value) ==
  /\ s' = [s EXCEPT ![dim_inc] = value]
  /\ pc' = "store"
  /\ UNCHANGED dim_inc

\* Mutants: the dimension that carries keeps its last value; it starts again,
\* but the next one is not turned to.
CarryWithoutReset ==
  /\ dim_inc' = dim_inc + 1
  /\ pc' = IF dim_inc + 1 > dimensions THEN "generated" ELSE "increment"
  /\ UNCHANGED s

CarryInPlace ==
  /\ s' = [s EXCEPT ![dim_inc] = FirstValue(dim_inc)]
  /\ UNCHANGED <<dim_inc, pc>>

\* Dimension dim_inc starts again and the next one is incremented, if any.
Carry ==
  /\ s' = [s EXCEPT ![dim_inc] = FirstValue(dim_inc)]
  /\ dim_inc' = dim_inc + 1
  /\ pc' = IF dim_inc + 1 > dimensions THEN "generated" ELSE "increment"

IncrementRange ==
  LET r == ranges[dim_inc]
      value == Plus(s[dim_inc], <<r.step, 1>>)
  IN  /\ pc = "increment"
      /\ dim_inc <= Len(ranges)
      /\ IF NotMore(value, atof(r.max)) THEN Advance(value) ELSE Carry
      /\ UNCHANGED <<ranges, sets, total_population_size, samples, samplenum>>

\* The position of the current value is searched for: find() gives the first.
Position(set, value) == SelectInSeq(set, LAMBDA v : Same(atof(v), value))

IncrementSet ==
  LET set   == sets[dim_inc - Len(ranges)]
      index == Position(set, s[dim_inc])
  IN  /\ pc = "increment"
      /\ dim_inc > Len(ranges)
      /\ IF index = Len(set) THEN Carry ELSE Advance(atof(set[index + 1]))
      /\ UNCHANGED <<ranges, sets, total_population_size, samples, samplenum>>

Stopped == pc \in {"generated", "failed", "overrun"}

Done == Stopped /\ UNCHANGED vars

Next ==
  \/ Construct \/ GenerateFails \/ Generate \/ Store
  \/ IncrementRange \/ IncrementSet \/ Done

\* A sequential function call runs to its end.
Spec == Init /\ [][Next]_vars /\ WF_vars(Next)
----------------------------------------------------------------------------
\* The product of the dimensions fits in the int that holds it.
Fits == num_samples < PowerOf2(IntBits - 1)

\* The values that dimension d has in the samples stored.
Stored(d) == {samples[n][d] : n \in 1 .. samplenum}

\* Whatever the dimensions are and however their arithmetic rounds: when the odometer is
\* through, it has stored every combination of the values it turned through, and each of
\* them once (population_gen.cpp:190-275).
EveryCombinationOnce ==
  pc = "generated" =>
    /\ IsInjective([n \in 1 .. samplenum |-> samples[n]])
    /\ samplenum = Product([d \in 1 .. dimensions |-> Cardinality(Stored(d))])

RangesInOrder == \A j \in 1 .. Len(ranges) : InOrder(ranges[j])

\* The odometer never writes past the vector (population_gen.cpp:199): the size
\* computed from the bounds and the steps taken by additions agree.
NoOverrun == pc = "store" /\ Fits /\ RangesInOrder => samplenum < total_population_size
----------------------------------------------------------------------------
(***************************************************************************)
(* Where rounding changes nothing, the values are those the file names.    *)
(***************************************************************************)
StepsIn(r) == (r.max - r.min) \div (10 * r.step)
At(r, k)   == r.min + 10 * r.step * k

\* The values a dimension stands for, by exact arithmetic on the literals.
ExactValues(d) ==
  IF d <= Len(ranges)
    THEN {atof(t) : t \in {x \in ranges[d].min .. ranges[d].max :
                             (x - ranges[d].min) % (10 * ranges[d].step) = 0}}
    ELSE {atof(sets[d - Len(ranges)][j]) : j \in 1 .. Len(sets[d - Len(ranges)])}

\* Rounding does not change what the additions and the division come to, and the values
\* of a set differ.
RangeIsExact(r) ==
  /\ InOrder(r)
  /\ Quotient(r) = StepsIn(r)
  /\ \A k \in 0 .. StepsIn(r) :
       /\ Plus(atof(At(r, k)), <<r.step, 1>>) = atof(At(r, k + 1))
       /\ NotMore(atof(At(r, k + 1)), atof(r.max)) <=> k < StepsIn(r)

SetIsExact(q) == \A j, k \in 1 .. Len(q) : Same(atof(q[j]), atof(q[k])) => j = k

DimensionsAreExact ==
  /\ \A j \in 1 .. Len(ranges) : RangeIsExact(ranges[j])
  /\ \A j \in 1 .. Len(sets) : SetIsExact(sets[j])

\* It changes nothing for multiples of a half, up to half of what a double counts in units.
IsHalf(t) == t % 5 = 0 /\ t < 5 * PowerOf2(FloatBits)

RangeIsOfHalves(r) ==
  /\ InOrder(r) /\ IsHalf(r.min) /\ IsHalf(r.max)
  /\ r.max + 10 * r.step < 5 * PowerOf2(FloatBits)
  /\ r.step * PowerOf2(FloatBits) <= PowerOf2(MaxExponent)

SetIsOfHalves(q) ==
  /\ \A j \in 1 .. Len(q) : IsHalf(q[j])
  /\ \A j, k \in 1 .. Len(q) : j # k => q[j] # q[k]

DimensionsAreHalves ==
  /\ PowerOf2(FloatBits) <= PowerOf2(MaxExponent)
  /\ \A j \in 1 .. Len(ranges) : RangeIsOfHalves(ranges[j])
  /\ \A j \in 1 .. Len(sets) : SetIsOfHalves(sets[j])

\* The vector holds what was stored and nothing more, the values that the file names.
Filled ==
  /\ pc = "generated" /\ Len(samples) = samplenum
  /\ \A d \in 1 .. dimensions : Stored(d) = ExactValues(d)

\* From dimensions whose arithmetic is exact the odometer makes a vector of the size the
\* constructor gave it, without overrunning it and without leaving zeros behind
\* (population_gen.cpp:28-54, 161-277).
VectorIsFilled ==
  pc \in {"generated", "overrun"} /\ DimensionsAreExact /\ Fits => Filled

\* The odometer stops.
Termination == <>Stopped
=============================================================================
