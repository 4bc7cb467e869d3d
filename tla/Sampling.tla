------------------------------ MODULE Sampling ------------------------------
(***************************************************************************)
(* populationGenerator's functions for a solver that does not want the     *)
(* whole population (src/src/utils/population_gen.cpp:68-158, 278-969): a  *)
(* population read from a file, random populations, the same as arrays,    *)
(* and the values nearest to any given ones.  They are public; the         *)
(* program, which always takes the whole population, does not call them.   *)
(*                                                                         *)
(* Values are exact, in ticks: Unit ticks are 1.  Rounding is the subject  *)
(* of PopulationGen.                                                       *)
(***************************************************************************)
EXTENDS Domains, SequencesExt, FiniteSetsExt

CONSTANTS
  Unit,           \* ticks in 1
  TickBounds,     \* bounds of ranges, in ticks
  TickSteps,      \* steps of ranges
  TickSetValues,  \* values of sets, in ticks
  MaxDomains,     \* bound on the dimensions
  MaxNumber,      \* bound on the samples asked for
  ParValues,      \* values to be normalized, in ticks
  MaxPar,         \* bound on how many of them
  Files,          \* population files
  MaxGarbage      \* bound on what an int never set may hold

SamplingAssumption ==
  /\ Unit \in Nat \ {0}
  /\ TickBounds \subseteq Nat /\ TickSetValues \subseteq Nat /\ ParValues \subseteq Int
  /\ IsFiniteSet(TickSetValues) /\ TickSteps \subseteq Nat \ {0}
  /\ \A b, c \in TickBounds, n \in TickSteps \ {1} : (b - c) % (n - 1) = 0
  /\ {MaxDomains, MaxNumber, MaxPar, MaxGarbage} \subseteq Nat
  \* the first two lines hold a number, with or without a blank behind it; the
  \* names of the third are as many as names
  /\ \A f \in Files : f.size \in Nat /\ f.dimensions \in Nat \ {0} /\ f.names \in Nat
                    /\ {f.sizeBlank, f.dimensionsBlank} \subseteq BOOLEAN
                    /\ f.rows \in Seq(Seq(Int))

VARIABLES
  call,
  entire_pop,
  number,            \* samples asked for
  isArray,           \* whether they are to be returned as an array
  random_pop,
  random_pop_index,  \* samples of random_pop that are drawn
  temp_pop,          \* samples of entire_pop not drawn yet
  par,               \* the values to be normalized, as given
  array,             \* the array returned
  count,             \* the length returned with it
  file,              \* the file read, <<>> before
  newpop             \* the population read from it

results == <<array, count>>
fromFile == <<file, newpop>>
sampling ==
  <<call, domains, entire_pop, number, isArray, random_pop, random_pop_index, temp_pop, par,
    results, fromFile>>

IsRange(d) == d <= Len(ranges)
SetOf(d)   == sets[d - Len(ranges)]

\* The values of a dimension, for the constructor: the step is a distance.
ValuesOf(d) ==
  IF IsRange(d)
    THEN {v \in ranges[d].min .. ranges[d].max :
            (v - ranges[d].min) % (ranges[d].step * Unit) = 0}
    ELSE ToSet(SetOf(d))

Combinations ==
  {v \in [1 .. dimensions -> UNION {ValuesOf(d) : d \in 1 .. dimensions}] :
     \A d \in 1 .. dimensions : v[d] \in ValuesOf(d)}

TotalPopulation == Cardinality(Combinations)

\* In order: what the caller must see to, for nothing in population_gen.cpp checks it.
\* A range whose bounds are the other way round has no sample, and the constructor
\* writes one past the end of the empty vector (module PopulationGen).
TickRanges == {r \in [min : TickBounds, max : TickBounds, step : TickSteps] : r.min <= r.max}

\* Sorted, and of two values at least: one alone is a single value.  Without repeats,
\* which is up to the caller too: find() takes a repeated value for its first place,
\* and generate_entire_pop writes on without end (module PopulationGen).
TickSets ==
  {q \in UNION {[1 .. n -> TickSetValues] : n \in 2 .. Cardinality(TickSetValues)} :
     \A j \in 2 .. Len(q) : q[j - 1] < q[j]}

\* Constructed with domains, or without anything, to read a file.
SamplingInit ==
  /\ \/ /\ call = "ready"
        /\ \E n \in 0 .. MaxDomains, m \in 0 .. MaxDomains :
             /\ n + m \in 1 .. MaxDomains
             /\ ranges \in [1 .. n -> TickRanges]
             /\ sets \in [1 .. m -> TickSets]
     \/ call = "default" /\ ranges = <<>> /\ sets = <<>>
  /\ entire_pop = <<>>
  /\ number = 0
  /\ isArray = FALSE
  /\ random_pop = <<>> /\ random_pop_index = 0
  /\ temp_pop = <<>>
  /\ par = <<>>
  /\ array = <<>> /\ count = 0
  /\ file = <<>>
  /\ newpop = <<>>
----------------------------------------------------------------------------
(***************************************************************************)
(* normalize_value, and normalize_bounds with the same code inline.        *)
(***************************************************************************)
\* Mutant: of two that are equally near, and of all others, the lower.
Lower(low, high, value) == low

\* (diff1 < diff2) ? low : high
Nearer(low, high, value) == IF value - low < high - value THEN low ELSE high

\* The walk from low in steps of (max - min) / (steps - 1), which takes steps
\* for the number of values; for 1 that is infinite and low is the nearer.
InRange(r, value) ==
  LET step == (r.max - r.min) \div (r.step - 1)
      From[low \in r.min .. r.max] ==
        LET high == low + step
        IN  IF high <= r.max /\ high <= value THEN From[high]
            ELSE IF low = value THEN value ELSE Nearer(low, high, value)
  IN  IF r.step = 1 THEN r.min ELSE From[r.min]

\* The walk along the sorted values of a set.
InSet(set, value) ==
  LET From[k \in 1 .. Len(set) - 1] ==
        IF set[k + 1] < value THEN From[k + 1]
        ELSE IF set[k + 1] = value THEN value ELSE Nearer(set[k], set[k + 1], value)
  IN  From[1]

normalize_value(value, d) ==
  LET least    == IF IsRange(d) THEN ranges[d].min ELSE SetOf(d)[1]
      greatest == IF IsRange(d) THEN ranges[d].max ELSE Last(SetOf(d))
  IN  IF value <= least THEN least
      ELSE IF value >= greatest THEN greatest
      ELSE IF IsRange(d) THEN InRange(ranges[d], value) ELSE InSet(SetOf(d), value)

\* par_index = j * dimensions + i
DimensionOf(k) == ((k - 1) % dimensions) + 1

\* population(pop, n, dimensions): the array cut into samples.
Samples(pop, n) == [j \in 1 .. n |-> SubSeq(pop, (j - 1) * dimensions + 1, j * dimensions)]

NormalizeBounds ==
  /\ call = "ready"
  /\ \E popsize \in 1 .. MaxPar :
       /\ popsize * dimensions <= MaxPar
       /\ number' = popsize
       /\ par' \in [1 .. popsize * dimensions -> ParValues]
  /\ array' = [k \in DOMAIN par' |-> normalize_value(par'[k], DimensionOf(k))]
  /\ random_pop' = Samples(array', number')
  /\ call' = "normalized"
  /\ UNCHANGED <<domains, fromFile, entire_pop, isArray, random_pop_index, temp_pop, count>>
----------------------------------------------------------------------------
(***************************************************************************)
(* generate_random_pop.                                                    *)
(***************************************************************************)
\* entire_pop, of which only the first call computes anything.
GenerateAllPop ==
  /\ call = "ready"
  /\ entire_pop = <<>>
  /\ entire_pop' = FoldSet(LAMBDA v, pop : Append(pop, v), <<>>, Combinations)
  /\ UNCHANGED <<call, domains, fromFile, number, isArray, random_pop, random_pop_index,
                 temp_pop, par, results>>

\* An array may not be asked for everything, nor for nothing.
TooMany(n, wantArray) ==
  IF wantArray THEN n >= TotalPopulation \/ n < 1 ELSE n > TotalPopulation

Zeros == [d \in 1 .. dimensions |-> 0]

\* population(n, dimensions) has its length from the start: samples not drawn
\* yet are zeros.
Undrawn(n) == [k \in 1 .. n |-> Zeros]

GenerateRandom ==
  /\ call = "ready"
  /\ number' \in 0 .. MaxNumber
  /\ isArray' \in BOOLEAN
  /\ IF TooMany(number', isArray')
       THEN call' = "failed" /\ UNCHANGED random_pop
       ELSE call' = "random" /\ random_pop' = Undrawn(number')
  /\ UNCHANGED <<domains, fromFile, entire_pop, random_pop_index, temp_pop, par, results>>

\* What drand48 may give for a dimension: a value up to max + 1, or a position
\* in the set.
Draws(d) ==
  IF IsRange(d) THEN ranges[d].min .. ranges[d].max + Unit - 1 ELSE 0 .. Len(SetOf(d)) - 1

AllDraws ==
  {draw \in [1 .. dimensions -> UNION {Draws(d) : d \in 1 .. dimensions}] :
     \A d \in 1 .. dimensions : draw[d] \in Draws(d)}

\* setValues.at(j), not at(j - min_domain.size()), and then its at(position).
WithinSets(draw) ==
  \A d \in 1 .. dimensions : ~ IsRange(d) => d <= Len(sets) /\ draw[d] < Len(sets[d])

Drawn(draw) ==
  [d \in 1 .. dimensions |->
     IF IsRange(d) THEN normalize_value(draw[d], d) ELSE sets[d][draw[d] + 1]]

\* Mutant: a sample is compared with the one before only.
IsNotLast(v) == random_pop_index = 0 \/ random_pop[random_pop_index] # v

\* find() in the whole of random_pop.
IsNew(v) == v \notin ToSet(random_pop)

\* Mutant: the next sample is put over this one.
Overwrite(v) ==
  /\ random_pop' = [random_pop EXCEPT ![random_pop_index + 1] = v]
  /\ UNCHANGED random_pop_index

Keep(v) ==
  /\ random_pop' = [random_pop EXCEPT ![random_pop_index + 1] = v]
  /\ random_pop_index' = random_pop_index + 1

Unfinished == random_pop_index < number

DrawSample ==
  /\ call = "random"
  /\ Unfinished
  /\ \E draw \in AllDraws :
       \/ /\ ~ WithinSets(draw)
          /\ call' = "thrown"
          /\ UNCHANGED <<random_pop, random_pop_index>>
       \/ /\ WithinSets(draw)
          /\ IF IsNew(Drawn(draw))
               THEN Keep(Drawn(draw))
               ELSE UNCHANGED <<random_pop, random_pop_index>>
          /\ UNCHANGED call
  /\ UNCHANGED <<domains, fromFile, entire_pop, number, isArray, temp_pop, par, results>>

RandomDrawn ==
  /\ call = "random"
  /\ random_pop_index = number
  /\ call' = IF isArray THEN "to_array" ELSE "returned"
  /\ UNCHANGED <<domains, fromFile, entire_pop, number, isArray, random_pop, random_pop_index,
                 temp_pop, par, results>>
----------------------------------------------------------------------------
(***************************************************************************)
(* generate_random_pop_usingentire.                                        *)
(***************************************************************************)
GenerateUsingEntire ==
  /\ call = "ready"
  /\ number' \in 0 .. MaxNumber
  /\ isArray' \in BOOLEAN
  /\ IF TooMany(number', TRUE)
       THEN call' = "failed" /\ UNCHANGED temp_pop
       ELSE call' = "using_entire" /\ temp_pop' = entire_pop
  /\ UNCHANGED <<domains, fromFile, entire_pop, random_pop, random_pop_index, par, results>>

Erased(k) == RemoveAt(temp_pop, k)

\* Without generate_all_pop before, temp_pop is empty and at() throws.
DrawFromEntire ==
  /\ call = "using_entire"
  /\ Len(random_pop) < number
  /\ \/ temp_pop = <<>> /\ call' = "thrown" /\ UNCHANGED <<random_pop, temp_pop>>
     \/ \E k \in 1 .. Len(temp_pop) :
          /\ random_pop' = Append(random_pop, temp_pop[k])
          /\ temp_pop' = Erased(k)
          /\ UNCHANGED call
  /\ UNCHANGED <<domains, fromFile, entire_pop, number, isArray, random_pop_index, par,
                 results>>

EntireDrawn ==
  /\ call = "using_entire"
  /\ Len(random_pop) = number
  /\ call' = IF isArray THEN "to_array" ELSE "returned"
  /\ UNCHANGED <<domains, fromFile, entire_pop, number, isArray, random_pop, random_pop_index,
                 temp_pop, par, results>>
----------------------------------------------------------------------------
(***************************************************************************)
(* The same as arrays.                                                     *)
(***************************************************************************)
\* Mutant: the samples are counted, not their values.
SampleCount == number

ArrayLength == number * dimensions

ToArray ==
  /\ call = "to_array"
  /\ array' = FlattenSeq(random_pop)
  /\ count' = ArrayLength
  /\ call' = "returned"
  /\ UNCHANGED <<domains, fromFile, entire_pop, number, isArray, random_pop, random_pop_index,
                 temp_pop, par>>

GenerateAllArray ==
  /\ call = "ready"
  /\ array' = FlattenSeq(entire_pop)
  /\ count' = dimensions * TotalPopulation
  /\ random_pop' = entire_pop
  /\ isArray' = TRUE
  /\ call' = "returned"
  /\ UNCHANGED <<domains, fromFile, entire_pop, number, random_pop_index, temp_pop, par>>

----------------------------------------------------------------------------
(***************************************************************************)
(* generate_fromfile.                                                      *)
(***************************************************************************)
\* All lines go through one stringstream.  A number at the very end of a line
\* leaves it at its end, str() does not clear that, and nothing more is read of
\* lines 2 and 3: dimensions stays unset and no name is found.
DimensionsRead(f) == IF f.sizeBlank THEN {f.dimensions} ELSE 0 .. MaxGarbage
NamesRead(f)      == IF f.sizeBlank /\ f.dimensionsBlank THEN f.names ELSE 0

\* Mutant: the number of names is not compared with the number of dimensions.
AlwaysAgree(names, dims) == TRUE

Agree(names, dims) == names = dims

\* The k-th sample.  One sample s is read into again and again: what a short or
\* a missing row does not give keeps the value of the sample before.
SamplesRead(f, dims) ==
  LET s[k \in 0 .. f.size] ==
        [j \in 1 .. dims |->
           IF k = 0 THEN 0
           ELSE IF k <= Len(f.rows) /\ j <= Len(f.rows[k]) THEN f.rows[k][j]
           ELSE s[k - 1][j]]
  IN  [k \in 1 .. f.size |-> s[k]]

\* rangeMap, which the names are added to, is empty: a file takes the place of
\* all ranges.
GenerateFromfile ==
  /\ call = "default"
  /\ \/ call' = "failed" /\ UNCHANGED fromFile     \* the file cannot be opened
     \/ /\ file' \in Files
        /\ \E dims \in DimensionsRead(file') :
             IF Agree(NamesRead(file'), dims)
               THEN call' = "read" /\ newpop' = SamplesRead(file', dims)
               ELSE call' = "failed" /\ UNCHANGED newpop
  /\ UNCHANGED <<domains, entire_pop, number, isArray, random_pop, random_pop_index, temp_pop,
                 par, results>>

CallEnded == call \in {"normalized", "returned", "read", "failed", "thrown"}

Returned == CallEnded /\ UNCHANGED sampling

SamplingNext ==
  \/ NormalizeBounds \/ GenerateAllPop
  \/ GenerateRandom \/ DrawSample \/ RandomDrawn
  \/ GenerateUsingEntire \/ DrawFromEntire \/ EntireDrawn
  \/ ToArray \/ GenerateAllArray \/ GenerateFromfile \/ Returned

\* One call after the other; drand48 comes round to every value, so that a new
\* sample is drawn if there is any.
SamplingSpec == SamplingInit /\ [][SamplingNext]_sampling /\ WF_sampling(SamplingNext)
----------------------------------------------------------------------------
\* No sample is drawn twice, whether by comparing it with those drawn or by
\* taking it out of the entire population.
SamplesDistinct ==
  /\ call = "random" => IsInjective(SubSeq(random_pop, 1, random_pop_index))
  /\ entire_pop # <<>> /\ call \in {"using_entire", "to_array",
                    "returned"} /\ random_pop_index = 0 =>
       IsInjective(random_pop \o temp_pop)

\* The values steps evenly divide a range into, counted by steps.
Points(d) ==
  IF ~ IsRange(d) THEN ToSet(SetOf(d))
  ELSE LET r == ranges[d] IN
       IF r.step = 1 THEN {r.min, r.max}
       ELSE {r.min + k * ((r.max - r.min) \div (r.step - 1)) : k \in 0 .. r.step - 1}

\* A step of 1 divides a range into no distance at all.
IsDivided(d) == ~ IsRange(d) \/ ranges[d].step > 1

Abs(n) == IF n < 0 THEN -n ELSE n

\* A normalized value is a point of its own dimension, nearest to the value
\* given: no walk stops early or goes past the end.
NormalizedIsNearest ==
  call = "normalized" =>
    \A k \in DOMAIN par :
      LET d == DimensionOf(k)
      IN  /\ array[k] \in Points(d)
          /\ IsDivided(d) => \A p \in Points(d) : Abs(array[k] - par[k]) <= Abs(p - par[k])

\* The samples of an array are those of the population, and as many as the
\* length returned says, when the population was there.
ArrayHoldsSamples ==
  call = "returned" /\ isArray /\ (random_pop # <<>>) =>
    /\ count = Len(array)
    /\ \A j \in 1 .. Len(random_pop), d \in 1 .. dimensions :
         array[(j - 1) * dimensions + d] = random_pop[j][d]

\* What is returned of a file has a sample for every one announced, with a value
\* for each name, and every value a row gives is at its place; a file whose first
\* lines were not read yields samples without values, if it does not fail.
FileIsRead ==
  call = "read" =>
    /\ Len(newpop) = file.size
    /\ \A k \in 1 .. file.size :
         IF file.sizeBlank /\ file.dimensionsBlank
           THEN /\ Len(newpop[k]) = file.names
                /\ k <= Len(file.rows) =>
                     \A j \in 1 .. file.names :
                       j <= Len(file.rows[k]) => newpop[k][j] = file.rows[k][j]
           ELSE newpop[k] = <<>>

Vectors == [1 .. dimensions -> Int]

\* Each element of a set once.
Enumeration(q, T) == q \in Seq(T) /\ Len(q) = Cardinality(T) /\ IsInjective(q)

NothingDrawn == random_pop = <<>> /\ random_pop_index = 0 /\ temp_pop = <<>>

\* Samples are drawn into a population that has its length from the start, ...
DrawnSoFar ==
  /\ random_pop \in [1 .. number -> Vectors]
  /\ random_pop_index \in 0 .. number
  /\ IsInjective(SubSeq(random_pop, 1, random_pop_index))
  /\ temp_pop = <<>>

\* ... or moved out of a copy of the entire population.
MovedSoFar ==
  /\ random_pop \in Seq(Vectors) /\ temp_pop \in Seq(Vectors)
  /\ Len(random_pop) <= number
  /\ random_pop_index = 0

SamplingInvariant ==
  /\ ranges \in Seq(TickRanges) /\ sets \in Seq(TickSets)
  /\ number \in Nat /\ isArray \in BOOLEAN
  /\ entire_pop = <<>> \/ Enumeration(entire_pop, Combinations)
  /\ call = "ready" => dimensions >= 1 /\ NothingDrawn
  /\ call = "random" => DrawnSoFar
  /\ call = "using_entire" => MovedSoFar
  /\ call = "to_array" => random_pop \in [1 .. number -> Vectors]
  /\ call \in {"using_entire", "to_array", "returned"} /\ random_pop_index = 0 =>
       IsInjective(random_pop \o temp_pop)

Reachable == {Drawn(draw) : draw \in {x \in AllDraws : WithinSets(x)}}

\* No more samples are asked for than can be drawn.  The sample of zeros cannot:
\* it is found among those not drawn yet.
Drawable == number <= Cardinality(Reachable \ {Zeros})

\* A random population of no more samples than can be drawn is returned.
RandomPopReturns == (call = "random" /\ Drawable) ~> CallEnded
=============================================================================
