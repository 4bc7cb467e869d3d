# Verification of qesmpi

qesmpi finds the best variants of a city layout: it reads an optimization file,
generates every combination of the values the file allows (the *population*),
has the ranks of an MPI program simulate them, and picks the samples with the
lowest temperatures. These TLA+ modules model that program, TLC checks them on
small instances, and TLAPS proves the main results for every instance.

Line numbers are of the repository; `quic.cpp` is `src/quic.cpp`, `utils/`,
`MPI_framework/` and `mpi_qes_spf/` are directories of `src/`, and `fitness_lib/`
is a directory of the root.

## 1. The system

| Part | Code | State it keeps | Operations | Hard behaviour |
|---|---|---|---|---|
| Master | `quic.cpp:192-380` | population, loop variables, `results_to_received`, `results` | read and generate, send job type, parameters and subsets, collect, optimize, send exit | sends that block; results in any order; a countdown that must hit zero |
| Servant | `quic.cpp:381-474` | `job_type`, `temp` (the job), `pop` | probe and dispatch on the tag, set up, evaluate, send results | relies on the order of tags; exits, crashes and withheld results in the middle |
| Population | `utils/population.cpp` | vector of samples | `get_subset` | the last, shorter subset |
| Work size | `quic.cpp:280` | - | `ceil((float)size / servants)` | float rounding |
| Optimization function | `quic.cpp:331-351` | two minima and two lists | one loop over `results` | order of arrival, ties, NaN, missing fitness |
| Fitness library | `fitness_lib/` | cached patch ids | `eval_fitness`, loaded with `dlopen` | no patches gives 0/0 |
| Population generator | `utils/population_gen.cpp` | domains, `total_population_size` | constructor, `generate_entire_pop`; `generate_random_pop`, `normalize_bounds`, `generate_fromfile` and arrays, all public and without caller | a size computed one way and a loop that runs another |
| Optimization parameters | `utils/opt_params.cpp` | ranges, sets, single values, dependencies | `readParams` | literals to numbers; alphabetical order of a `std::map` |
| Optimization file | `quic.cpp:56-124`, `opt_grammar/OptFileGrammar.g` | map of the lines, `each_line`, two error flags | `readOptimizationFile`: lex, parse and keep a line | a line with a mistake is repaired and parsed on; rule actions run all the same |
| Parser runtime, input | `opt_grammar/antlr/`: characters, tokens, recognizer, bit sets, tries, sorter | positions, marks, buffers, follow sets, memo | consume, mark, rewind, look ahead, match, recover, join, memoize | positions kept in several places; buffers filled on the way; containers that grow |
| Parser runtime, trees | `opt_grammar/antlr/`: tree, adaptor, rewrite streams, node stream | heap of nodes, streams of elements, walk | `addChild`, `becomeRoot`, `nextTree`, `dupTree`, `replaceChildren`, the walk | nodes that move between lists which others still hold |
| Concentration reduction | `utils/concentrationRedux.cpp` | cells, statistics | constructor | removal by two loops over noted iterators |
| Job | `MPI_framework/job.cpp`, `mpi_qes_spf/simpleLSM_job.cpp` | `quqpData`, `workDir`, the fitness object | constructor, `setup_environment`, `prepare_work_dir_for_sample`, `eval_population_fitness` | data changed in place from sample to sample; ignored results; `exit` |
| Working directory | `utils/directory.cpp` | file table | `intialRun`, `validateOutputDir`, `copyFile` | which files are written for a sample |
| Not in the program | `mpi_gpuplume/`, `FitnessCache`, `solver`, `simpleLSM.cpp`, lines 478-777 of `quic.cpp` | - | - | not built, or built and never called |

How they interact. The only shared thing between ranks is MPI. The master sends
each servant `JOB_DATATYPE`, `OPT_PARAMS`, then to as many servants as the
population needs `POPULATION` and, immediately, `EXIT` (`isend`); a servant
answers with `RESULTS`; when all samples are back the master runs the
optimization function and sends `EXIT` to everyone once more. Inside a rank
everything is a synchronous call: servant -> job -> working directory and
simulator -> fitness library. There are no threads, no timeouts, no retries and
nothing is persisted for a restart; a rank that fails ends the run, by `mpirun`.

What makes each part correct:

- protocol: a servant finds its messages in the order its dispatch needs; every
  sample is evaluated once and collected once; the choice of the best waits for
  all; every rank ends.
- partition: every sample has a servant that exists.
- optimization function: the minima are minima in whatever order results came,
  and the printed samples are those that reach them.
- generator: the population is every combination once, and the odometer stays
  inside the vector that was sized for it.
- parameters: the name a position of a sample stands for is the same for the generator
  on the master and the job on the servant.
- job: the files of a sample's simulation hold that sample's values, what depends on
  them, and nothing of the sample before.
- reader: of a file exactly the lines the grammar derives are kept, with what they say,
  though the parser repairs what it can and goes on.
- parser runtime: a stream is a cursor however it is marked and rewound, a lookahead is
  what the visible tokens give, a bit set is a set, the memo changes nothing, the sort is an
  order or a cycle, a walked tree is the tree that was built.

## 2. The modules

### QuicMpi - the protocol

Processes are the ranks: 0 is `MASTER`, `1 .. TotalServants` are servants. `pc` is
the place of each in `main()`, one action is the code between two MPI calls:

| Action | Code |
|---|---|
| `ReadOptFileFails`, `ReadOptFileWithoutJob`, `GeneratePopulation` | 240-273, 371-378 |
| `SendJobType`, `SendOptParams` | one turn of the loops at 289 and 296 |
| `SendPopulation`, `IsendExit` | one turn of the loop at 305; `get_subset` is in it |
| `WaitForResults` | `get_subset` returned -1: 305-319 |
| `CollectResults` | one turn of the loop at 320 |
| `Optimize`, `SendExit`, `MasterReturns` | 331-359, 360-380 |
| `ServantExits`, `RecvJobType`, `RecvOptParams`, `RecvPopulation` | the branches of the tag dispatch at 393-430 |
| `SetupEnvironment` | 444-452 and `job::setup_environment`, by its result |
| `EvalSample`, `EvalExits` | a turn of the loop at `simpleLSM_job.cpp:21`; an `exit(1)` while the sample is written into the project (`job.cpp:614-886`) |
| `SendResults`, `WithholdResults` | 459-469, 454-458 |
| `Abort` | `mpirun`: a rank that ends without `MPI_Finalize` takes the others with it |

A sample is its index in the population; what is in it does not matter to the
protocol. `channel[s]` and `reply[s]` are the messages to and from servant `s`, in
order: MPI does not let messages between two ranks overtake each other, and a
servant probes any tag. The master probes one tag of any source, so it takes the
oldest message of any servant.

MPI lets the implementation choose for each standard send whether it is buffered
(eager) or holds its caller until it is received (rendezvous); each send of the
model is either. `EagerTags = {"EXIT"}` in every configuration: the final `EXIT` is
never received by anybody, so if it could block, the master would never end.
An empty message is buffered by every implementation in use; the
program depends on it, and the configurations name that dependence.

Nothing is decided by the wall clock; a servant's simulation takes however many
steps of other ranks.

`withheld` and `failures` are history variables: the samples whose servant did not answer, and
those whose evaluation failed. `simpleLSM_job.cpp:25` ignores the failure and the sample is sent like the
others, so `ResultsCarryFitness` is violated (run `sample_failure`); what does hold is `ResultsAreEvaluated`:
of what the master has collected, exactly the failed samples lack their fitness.
`eval_population_fitness` is virtual; the only class built always returns true, so
`WithholdResults` fires only where `EvalResults` contains `FALSE` - the branch
`quic.cpp:454-458` is written for a job that reports failure.

Left out: the logs, the working directory, the content of a message other than
its samples, whether a sample has fitness, and the job type.

### WorkFarm - what the protocol promises

No messages and no program counters: samples are unassigned, assigned to a worker, collected
or lost, and the best are announced when all are collected. `QuicMpi!FarmSpec`
maps the state: samples from `next` on are unassigned, those in `channel[s]`, at
`s` and in `reply[s]` are assigned to `s`, `results` are collected, `withheld` are lost.

### OptimizationFunction - picking the best

One turn of the loop at `quic.cpp:336` per step, over any sequence of results. Each
has a minimum not above its average, or the values `eval_fitness` stores without
patches (NaN and 9999), or no fitness at all, which `operator[]` reads as 0. A list
of samples is a set of positions, since only its members are at stake.

`MCEvaluation` runs it beside `Job` and `ConcentrationRedux`, the constructor that reads a
concentration file, one of the three at a time: `Read` pushes a row (and once more what the row before left, for a blank
one or the empty line at the end), `removeBuildingCells` and `removeEmitterCells` erase, then come the sums,
the extremes and the exceedances. The model keeps what the code does there. The loop over
emitters tests the iterator of the loop before and erases nothing, against the comment at
`concentrationRedux.cpp:293`: `StatisticsOfFreeCells`, without the emitters' cells, is violated (run `redux_emitters`),
and `StatisticsOutsideBuildings`, with them, says what the statistics really are of. A cell in two
buildings is erased twice, after which anything may happen (`redux_pc = "undefined"`).

### Float, WorkSize, PopulationGen - where rounding matters

`Float` rounds fractions to `FloatBits` significant bits, to nearest, ties to even.
Powers of two are the recursive function `PowerOf2`, which the provers can reason about.
`WorkSize` is the expression of `quic.cpp:280` in three steps; `IsExact` says that a float
holds the population exactly, and `ShareIsExact` is about those. `PopulationGen` is the
constructor and `generate_entire_pop` of the generator: `Construct` computes the
size, `Store` is the unchecked `samples[samplenum] = s`, `IncrementRange` and
`IncrementSet` are the two branches of the inner loop, one turn each. Bounds and set
values are decimal literals in tenths, converted by `atof` as modelled; `IntBits`
is the width of the `int` the product is kept in. A write past the end stops the
model at `pc = "overrun"`: what the program does after it is undefined.
Dimensions are what a file can give and the code lets pass. A range may be reversed: nothing compares its bounds
(`OptFileGrammar.g:378-381`, `opt_params.cpp:311-320`, `population_gen.cpp:32-35`), so `[5:1:4]` is counted as no sample, and
`population_gen.cpp:196` writes its first one past the end of the empty vector. A set is sorted, may repeat a value, and has
a 0 for each blank too many in its text, since `readParams` splits it at every blank (`opt_params.cpp:328`); a set of
one part is a single value, so `[5 ]` is a set of two. `EveryCombinationOnce` holds for all of them: an odometer that gets
through has stored each combination of the values it turned through once. Being filled is stated where it is true:
`VectorIsFilled` for dimensions that are exact (`DimensionsAreExact`: ranges in order, sets without repeats, and rounding that
changes neither the number of a range's values nor which of them are reached), `NoOverrun` for ranges in order. Runs
`generator_decimals` and `generator_repeats` show what happens without the others. Multiples of a half are exact
(`DimensionsAreHalves`, `HalvesAreExact`).
`Domains` declares the ranges and sets a generator is constructed with, which `PopulationGen` and `Sampling`
share; `MCPopulation` EXTENDS the two and `WorkSize`, and one of the three runs at a time.

### OptParams, Job - a servant's work on its samples

`OptParams` holds operators only: `readOptimizationFile` gives each name the right side of the
last line that assigns to it, `readParams` sorts the map's entries by type
into `rangeOptMap`, `setOptMap`, `singleOptMap` and `dependencyOptMap`. A name is a
number in alphabetical order, because `readParams` iterates over a `std::map`;
what a range or a set holds is the generator's concern (`PopulationGen`), but the blank that makes
a set of a single value decides the entry's type here. `ClassOf` gives what the code makes of its spelling: a structure `validateOutputDir`
knows, another one, no dot, `dummy`, `WindRange`, or a name `readParams` keeps. `Wanted` is
what the optimization file asks of a name; one that is not of the project is never changed and keeps
what it is taken for, also where a line varies it or makes it depend on others.

`Job` is one servant from its parameters to the end of its population:

| Action | Code |
|---|---|
| `NoBasePath`, `CreateLocalBaseCopy` | `job::setup_environment`: no project, or the copies it makes (`job.cpp:229-335`, `copyFile` at 367) |
| `IntialRun` | `directory::intialRun`: every file into `outputDir`, some copied and some written from memory |
| `NextSample` | a turn of the loop at `simpleLSM_job.cpp:21` with a new sample |
| `AugmentFromSample`, `SampleAugmented` | one turn of the loop of `augmentDataFromSample`, its end (`job.cpp:581-635`) |
| `AugmentBasedOnDependency`, `DependencyAugmented` | one turn of `augmentDataBasedOnDependency` (`job.cpp:807-893`), its end and the two assertions on buildings (`job.cpp:80-83`) |
| `ValidateOutputDir` | `directory.cpp:716-758` |
| `EvalSampleFitness`, `PopulationDone` | `simpleLSM_job.cpp:25-36` |

`quqpData` is what is in memory for each name, `files` what the simulator will read,
`dataStructureNames` the structures to be written. `copyFile` deletes an uninitialised
pointer if its source cannot be opened: `MayCrash` leaves both outcomes. The build type is
Debug, so assertions stop the program (`CMakeLists.txt`).

### Sampling - the generator's other functions

Public members of `populationGenerator` that the program does not call; `population_gen.h:46`
shows how they are meant to be used. One call after construction, or after `GenerateAllPop`:
`GenerateRandom`, `DrawSample`, `RandomDrawn` are `generate_random_pop` (one turn of its
loop a step), `GenerateUsingEntire`, `DrawFromEntire`, `EntireDrawn` are
`generate_random_pop_usingentire`, `ToArray` and `GenerateAllArray` the functions that
return arrays, `NormalizeBounds` is `normalize_bounds` with `normalize_value` as an
operator, `GenerateFromfile` is `generate_fromfile` on a generator constructed without
domains. The place of the code is `call` here, so that the module stands beside `PopulationGen`.
Values are exact, in ticks so small that the points of every range are whole numbers of them
(`SamplingAssumption`); in the run a tick is half a unit, so that values lie halfway. Ranges are in order and sets
without repeats (`TickRanges`, `TickSets`): these functions have no caller in the program, and this is what a caller would have to see
to, for the code checks neither. With other dimensions the entire population overruns its vector before
anything is drawn from it (`PopulationGen`). `SamplingInvariant` is the inductive invariant behind the properties.

The models show, and the properties leave out: a sample of zeros is never drawn, since it is
found among the samples not drawn yet (`population_gen.cpp:343`), so that asking for all
combinations can loop for ever; `steps` is a number of values in the normalising functions
and a distance everywhere else (632 and 33); the set of a dimension is looked up by the
number of the dimension (333), which throws or reads another set; a file is
refused unless its first two lines end in a blank (105).

### OptFile, OptLexer, OptParser, Recognizer - reading a line

One turn of the loop at `quic.cpp:65-122`. `NextToken` is `nextTokenStr` with the token rules
of the grammar, run until the line is buffered; `StartParser` and `ParserStep` are the parser;
`StoreLine` is the test at `quic.cpp:101-119`. The lexer and parser classes are generated and
not in the repository: `OptParser` has each rule of `OptFileGrammar.g` as a sequence of
instructions - match, call, choose, loop, act - whose decisions are the grammar's and whose
calls are those of the runtime. `Recognizer` is that runtime: `match` with its single-token
deletion and insertion, `reportError` with the flag that silences repeated errors, `recover`
by the follow sets of the rules on the stack, and no recovery at all from a set that does not match.
Characters and tokens are the classes the grammar tells apart. `each_line` holds the type of
the two sides, which is what `quic.cpp` decides on. `readPast` notes an action that
reads parts its text does not have.

### The rest of the parser runtime

| Module | Code | Abstract specification or reference |
|---|---|---|
| `CharStream` | `antlr3input.inl`, `antlr3intstream.inl`, the stream stack of `antlr3lexer.inl:121-180` | `Cursor`: a cursor per text with a stack of marked places |
| `TokenStream` | `antlr3tokenstream.inl`, `antlr3intstream.inl:1425-1560` | the k-th visible token of the whole input |
| `Bitset` | `antlr3bitset.inl` | `IntegerSets` |
| `IntTrie`, `RuleMemo` | `antlr3collections.inl:3-544`, `antlr3baserecognizer.inl:647-836` | `Trial`: trying rules out without a memo |
| `Topo` | `antlr3collections.inl:546-992` | an order of the nodes, or one of their cycles |
| `CommonTree`, `TreeWalk` | `antlr3commontree.inl`, `antlr3commontreeadaptor.inl`, `antlr3rewritestreams.inl`, `antlr3commontreenodestream.inl` | the tree as a value, built beside it |

Each is a state machine of its operations in any order a caller may use, and `MCReader` puts
them beside the reader: one part runs while the others rest, so that one run checks all
of them. It EXTENDS `Bitset`, `CharStream`, `TokenStream` and `RuleMemo`, whose theorems state the very
properties the run checks, and INSTANCEs the others; the operations of the four have names
of their own for that (`RemoveBit`, `CharsInit`, `ConsumeToken`, `MemoNext`, ...). `CommonTree` has operators on a heap of nodes only; `TreeWalk` has the rules that build trees, the
streams a rewriting rule collects its elements in, and the walk.

The program's grammar has no backtracking and builds no trees: `RuleMemo` and `TreeWalk` are about parts of
the runtime that are in the repository and that the program does not come to.

What the models show there, and the properties therefore leave out:

- `TokenStream`: a lookahead computes the index it wants before the buffer is filled, which is
  wrong when the buffer is filled by increments (`OwningRule = TRUE`; the program's is FALSE);
  `setTokenTypeChannel` stores under the type and `fillBuffer` looks under type + 1.
- `Topo`: `sortVector` loses its place when an entry was swapped already: with 0 depending on 1 and
  2 the vector becomes 1, 0, 2 - against `antlr3collections.inl:550`. The order found is right.
- `Bitset`: the room for the other set is computed in bytes where bits are meant, so each join may double a
  set without bound, and from 17 words on a join may lose members (`BitsAssumption` stays below, so no property says
  anything of that); `equals` reads past a shorter first operand.
- `RuleMemo`: key 0 is never stored, so rule 0 and place 0 are parsed again each time.
- `CharStream`: of a two-byte mark one byte is passed over, the little endian mark of UTF-32 is unknown.
- `CommonTree`: `addChild` sets parent and index only when an empty node takes over a list;
  `replaceChildren` with as many new children as old ones puts the first of them everywhere, with more
  puts the excess behind all children; `setChild` drops the later children; the copy of a child gets
  the original as parent; `RewriteRuleSubtreeStream::dupTree` copies the node only, against its header;
  `init` puts the invalid token into the end node; `DebugTreeAdaptor::becomeRoot` calls itself. These
  templates call members the classes do not have and are never instantiated.
- `ConcentrationRedux`: the fourth norm takes a third power; a blank row or a missing `];` repeats the row
  before; the maximum starts at the smallest positive double.

## 3. The runs

| Run | Question | Bounds |
|---|---|---|
| `protocol` | message order, subsets that fit, termination, `FarmSpec` | 3 servants, up to 6 samples, every job name, failing library, set-up and exits |
| `failures` | no sample lost or doubled, exact countdown, fitness of all but failed results, when the master hangs, the inductive invariant | 3 servants, up to 6 samples, failed, exiting and withheld evaluations |
| `sample_failure` | *violated*: what is collected was evaluated | 2 servants, 2 samples |
| `evaluation` | a sample is simulated with its values and nothing else's; the minima and the printed list; the statistics of a concentration file | optimization files of up to 3 lines on 7 names, 2 samples, a missing file, projects without path or building; up to 3 results, 3 temperatures, NaN, missing; concentration files of up to 2 rows, 2 buildings |
| `redux_emitters` | *violated*: cells in emitters are removed | files of 1 row, 1 building |
| `optimization_lost` | *violated*: the printed list is complete | 1 result |
| `population` | the odometer against the set of combinations, random populations, arrays, normalised values, a file, the float share | up to 3 dimensions, 2 ranges in either order and a set of up to 3 values and blanks, 5-bit `int`; up to 2 dimensions and 3 samples to draw; 6 significant bits, 70 samples, 66 servants |
| `generator_decimals` | *violated*: bounds that binary does not hold | range 0.4 to 1.4 by 1, 9 significant bits |
| `generator_repeats` | *violated*: a set with a value twice | one set of up to 3 values |
| `job_stale` | *violated*: dependencies follow the sample in any order of names | 3 lines on 3 names, 2 samples |
| `option_file` | the reader against the grammar; the parts of its runtime against what they promise | below |
| `option_file_range` | *violated*: an action reads only what was matched | ranges that lack a part |

Why the bounds are enough. Three servants and one to six samples give every case
of the partition: fewer samples than servants, as many, a last subset that
is shorter, servants left without work (4 samples on 3), subsets of one and of
two; three servants can answer in any order while the master still sends.
More servants add ranks that do what one of the three does, and the properties
are proved for any number anyway. For the optimization function,
three results make every relation of a sample with the minimum before it, a
tie and a later change.

In `population` the populations of the share go past `2^FloatBits`, where the
cast starts to lose samples; the property asks nothing there and everything below, as the
program does with `2^24`. A 5-bit `int` overflows for some of the
products (more than 15 samples), so size zero, negative and too-small sizes all
occur; `VectorIsFilled` is about products that fit, `EveryCombinationOnce` and `GeneratorStops` about all. Bounds 0 and 2.5 with steps 1 and 2
are ranges of three and two values, of one, and reversed ones; 1 and 4 with blanks are sets of two and three
values, with and without repeats. In
`generator_decimals` 9 bits round the tenths as the 53 of a double do, since the
binary expansion of a tenth has period 4; the same literals overrun with the
program's doubles. Of the dimensions to draw from, two are a range before a set, two of a
kind, and each alone, with ranges of one point, of steps that divide them and that do not, and
sets of two and three values; values to normalise lie below, on, between, halfway and above.

In `evaluation` two samples are what it takes for one to leave something to the next, and three
lines what it takes for a dependency on a dependency on a range; the names have every class,
and one structure has two names.

In `option_file` the lines are all of one or two characters, tokens in every order behind an equals
sign, and eight correct lines, of each kind of assignment, with one token left out, put in or changed: every rule of the grammar is taken, and every recovery of the runtime is met in the
middle of every rule. Bit sets of 8 to 18 words cross the doubling at 16. Two texts in two
streams, with two marks, give every nesting of marks and inclusions. Up to three
tokens of two types on two channels, of a buffer increment of two, have a hidden token anywhere before,
at and behind the place looked at. Three rules include number 0, the key the memo cannot
hold; four nodes and four edges have every shape of cycle and of shared dependency; trees of three tokens, two rules
deep and rewritten twice, make a used element be copied and a list become a child of a list.

Deadlock is checked in every run but `failures`, where the master may wait for
withheld results for ever: `HangsOnlyOnWithheld` says that this is the only reason.
`Terminated` in `QuicMpi` and `Job`, `Returned`, `Finished`, `Done` and `Rest` in the others stutter
when the code has ended or a bound is reached, so that a deadlock reported is a real one.

Fairness (`FairSpec`, run `protocol`): weak fairness of the master, of each servant
and of `mpirun`. Each rank is an operating-system process and is scheduled when it can go
on; a simulation ends (one `EvalSample` per sample). `PopulationGen`, `Job`, `Sampling` and the
reader are sequential code in one process: weak fairness of `Next`, in `MCReader` of `ReadFile`. In `Sampling` a step that changes
nothing draws a sample that is there already, so this says that a new one is drawn in the
end if there is one: `drand48` comes round to all its values. No strong fairness is assumed: the master takes
*some* answer, and those left are taken later because the count is not at zero.

What the violated runs show (all seven are in `PROJECT.json` with their lines):
`quic.cpp:347` clears the wrong list, so that one result with the least average is put into the list to be printed and cleared out of it in
the same turn; `concentrationRedux.cpp:303` erases none of the emitters' cells; `simpleLSM_job.cpp:25` ignores a failed evaluation, which
then wins the minimum with 0; the generator's size and its loop disagree for decimal bounds
(`population_gen.cpp:33`) and for sets with repeats (`population_gen.cpp:236`); a dependency that
uses a name sorted behind it reads the value of the sample before (`job.cpp:814`); the action
of a range runs though the parser has failed in it, and reads a third part where the text has two (`OptFileGrammar.g:297`).

## 4. The proofs

Proved by TLAPS, for every value of the constants that the assumptions allow:
`QuicAssumption` (at least one servant and one sample, known names and results),
`OptimizationAssumption` (temperatures are integers, NaN is not), `BitsAssumption` (bits below
1024), `OptParamsAssumption` and `JobAssumption` (names are numbered, lines are about names),
`CharStreamAssumption` and `TokenStreamAssumption` (texts and tokens are sequences, an increment is
at least one), `FloatAssumption` and `WorkSizeAssumption` (two significant bits at least, and no
exponent that occurs is left out), `GeneratorAssumption` (literals are natural numbers of tenths, steps are
positive), `SamplingAssumption` (bounds and set values are natural numbers of ticks, steps are positive and
divide the ranges into whole ticks, a file's numbers are natural numbers). TLC evaluates each of them in a passing run.

| Module | Theorem | Result |
|---|---|---|
| `QuicMpiProofs` | `TypeCorrect` | `Spec => []TypeOK` |
| | `Conserved` | `Spec => []Conservation`, the inductive invariant |
| | `CountAlwaysMatches`, `ReductionIsComplete`, `NothingLost`, `NothingTwice`, `EverySubsetFits` | what follows from it |
| | `TagsInOrder` | the order of the tags in every channel |
| | `TagsAreInProtocolOrder`, `WaitsOnlyForWithheld` | `ProtocolOrder`, `HangsOnlyOnWithheld` |
| | `ResultsAreValued` | `ResultsAreEvaluated`, however evaluations end |
| | `FarmInvariantHolds` | the samples of a servant move together |
| | `ImplementsFarm` | `Spec => FarmSpec`: the protocol implements `WorkFarm` |
| `FitnessProofs` | `TypeCorrect`, `LeastTemperature`, `LeastAverage`, `OnlyMinimaAnnounced` | the reduction, for any results |
| | `ReduxKeepsInvariant` | `ReduxSpec => []ReduxInvariant` |
| | `StatisticsAreOutsideBuildings` | `StatisticsOutsideBuildings`: concentration files of any length |
| `JobProofs` | `TypeCorrect` | `Spec => []TypeOK` of `Job` |
| | `Invariance` | `Spec => []JobInvariant`, the inductive invariant |
| | `SimulatedWithSample`, `FilesAreMemory`, `DependenciesFollow` | `SampleIsSimulated`, `FilesAgree`, `OrderedDependentsFollow`: files, projects and populations of any size |
| `PopulationProofs` | `ShareIsAlwaysExact` | `ShareIsExact`, for a float of any width |
| | `ShareIsWorkSize` | the float expression is the `\div` that `QuicMpi!WorkSize` computes with |
| | `CombinationsAreStoredOnce` | `EveryCombinationOnce`: any ranges, reversed or not, any sets, any rounding |
| | `VectorIsAlwaysFilled` | `VectorIsFilled`: any file; its hypotheses are those of the property |
| | `HalvesAreExact`, `HalvesFillTheVector` | multiples of a half, in order and without repeats, are exact, for doubles of any width; so the vector is filled for them |
| `SamplingProofs` | `SamplerKeepsInvariant` | `SamplingSpec => []SamplingInvariant` |
| | `SamplesAreDistinct` | `SamplesDistinct`: any domains, any number of samples |
| | `NormalizedIsAlwaysNearest` | `NormalizedIsNearest`: any ranges and sets, any values |
| | `ArrayAlwaysHoldsSamples`, `FileIsAlwaysRead` | `ArrayHoldsSamples`, `FileIsRead`: arrays and files of any size |
| `RuntimeProofs` | `BitsetsAreIntegerSets` | `Spec => BitsetSpec`: the bit sets implement `IntegerSets` |
| | `MembersSeen` | `isMember`, `size`, `isNilNode` and `equals` answer by the members |
| | `MemoKeepsInvariant` | `MemoSpec => []MemoInvariant` |
| | `MemoChangesNothing` | `MemoSpec => MemoIsTransparent`: the memo implements `Trial`, and its tries can be deleted |
| `StreamProofs` | `LinesAreRight` | line, position in line and start of line are those of the place, in every stream |
| | `StreamsAreCursors` | `CharsSpec => CharsAreCursor`: the streams implement `Cursor` |
| | `LookaheadIsAlwaysRight` | `LookaheadIsRight`, for any tokens and channels, where `OwningRule` is FALSE |
| `Induction` | lemmas only | least and greatest number, `StepByStep`, `Recursion` (what a recursive function returns), `SizeRecursion` (what one along any measure returns), products and quotients, `FoldExists` (what a fold over a finite set returns) |

The argument for the protocol. None of the properties is inductive alone: that
the count matches `results` needs that an arriving subset is new, which needs that
no other servant ever had it, which needs that `get_subset` hands out disjoint
intervals, which needs where the sending loop is. `Conservation` is the
conjunction of these:

- `SendingLoops`: what `next` and `servant` are at each place of the master;
- `OnePlace(s)`: a sample of servant `s` is in one message to it, at it, or in one
  message from it, and only `POPULATION` brings samples, to a servant that has none;
- `OneHolder`: a sample is with one servant, collected, or withheld;
- `AllAccounted`: exactly the samples before `next` have been handed out;
- `CountMatchesResults` and `CompleteAtReduction`.

The cut that keeps the proof short: lemma `Movement` says what any step does to the
samples - a subset goes to a servant that holds none of it, results are collected,
results are withheld, or every `Held(s)` stays as it is. The lemmas
`OneHolderStep`, `AllAccountedStep` and `CountStep` use only that, and never the actions.
`SubsetsFit` follows from `SendingLoops` by arithmetic: before the n-th subset is sent
`next = (n - 1) * each_servant_work_size`, which is below the population only for `n` up
to `TotalServants` (`WorkSizeBounds`, `SubsetHasServant`).

The refinement of `WorkFarm` needs more, since there a worker is given samples only when it
has none, and gives up all it has at once. `FarmInvariant` adds: all samples of a servant are
in one message or in its `pop` (`Whole`), servants the distribution loop has not come to hold
nothing (`Unserved`), and the master distributes for a job it knows (`JobKnown`). `Whole` is stated
on the sets of samples in the messages (`Cells`); any step adds to them at most the next
subset (`CellsStep`), which is disjoint from what is held. Then each action maps: `SendPopulation`
assigns, `CollectResults` collects (or takes an empty message), `WithholdResults` loses, `Optimize`
announces - the place where `CompleteAtReduction` and `AllAccounted` are needed to see that
nothing is assigned or lost - the exits and `mpirun` stop the run, and everything else is invisible.

The order of tags. `TagInvariant`: in each channel the ranks of the tags (job type, parameters,
work, exit) do not decrease, and how high they are is bounded by the place of the master's loops
(`SentSoFar`); what a servant has not yet been told is still on its way in front of what needs
it (`Known`, `Ready`); a servant that has returned left an `EXIT` at the head of its channel
and no work (`Gone`). So the tag at the head tells that everything of lower rank has been received, and
behind an `EXIT` there is only `EXIT`. With `AllAccounted` this gives `HangsOnlyOnWithheld`.

The fitness of the results. `AllEvaluated`: at a servant the samples with fitness are those that are not still to be
evaluated and did not fail, in a `RESULTS` message those that did not fail, and every failure is of a sample that
has been tried (`Tried`) or was one of `results` or `withheld`. When a sample fails, the claim about all other
messages and servants must not change: the sample is in none of them, because `Conservation` puts it
in one place (`UntriedIsApart`).

For the optimization function each property is proved with the two facts that
the minima start at the sentinel and only decrease. For the bit sets the invariant `AllGood` bounds the length
by 8 or 16 words, which is what makes the doubling in a join large enough.

Induction. The library's induction rules take a predicate as a parameter, which the provers here
cannot be given. `Induction` gets the same from the fact that `<` is well-founded on the naturals:
`LeastNumber` gives every set of naturals a least member, so the set of counterexamples has one;
`StepByStep` is the form most proofs use, with the set where the claim holds as a parameter,
`Recursion` gives a recursive function on numbers, by the shortest domain on which there would be none, and
`SizeRecursion` one whose calls have a smaller measure: with it `FoldExists` gives a fold over
a finite set, by the cardinality of what is left, and the search in a trie is a function, by the bits that its
nodes test. That is enough for powers of two, for products, for positions in a text, for the k-th
visible token, for the bits of a number and for the nodes above a node.

The argument for the job (`JobInvariant`), which at each place of the loops over names says:
`SceneFollows`: the files of the base project are in the local copy and then in the scene; `ChangesAreNoted`: where memory and
files differ, the name's structure is in `dataStructureNames`, so that it is written before the
simulation; `SampleApplied`: the varied names whose turn has been have the sample's values in memory;
`DependentsSettled`: the dependents whose turn has been hold what their operands give;
`RestUntouched`: all other names keep the value of the base project. For `OrderedDependentsFollow` the
memory is compared with what the sample asks for (`MemoryIsWanted`): if they differed at some
name, take the least one; it is a dependent, its operands are less and so agree, and then
it agrees too. The first attempt at this proof failed for a good reason: an operand may itself be a dependent
of a structure the project does not have. The code leaves it alone, and `Wanted` computed through it. The definition
follows the code now, and the operands outside the structures need not be numbers.

The argument for the character streams. `CharInvariant`: line, position and start of line of every stream are those
of its cursor (`LinesFollowCursor`), each marked place says the same of where it was marked
(`PlacesMarked`), no stream is read from within itself and one that waits
was marked where it is left (`Nested`). The cursor of the abstract
specification is the place alone; everything else the code stores with a mark is a function of it by the
invariant, so restoring all of it is going back to the place.

The argument for the tokens. `TokenInvariant` adds to `LookaheadIsRight` that nothing is read before the first
lookahead and everything after it, and that the cursor and the mark are on a visible token or at the end (`TokensAreThere`). The code
finds the k-th visible token by skipping hidden ones k times; the reference counts: the place with k - 1
visible tokens before it. `AheadReaches` and `BehindReaches` show by `StepByStep` that skipping counts.
`OwningRule = TRUE` is excluded because the lookahead is then wrong (section 2); the program's value is FALSE.

The argument for the share. `Nearest` is off by half a unit of the last place at most (`NearestRounds`).
Let the quotient be m units of 1 / D. If rounding lost a share, the quotient would be above a whole
number by less than half a unit and by 1 / servants at least, so `2 * D <= servants`; but m has all of its
bits and the population has no more, so `servants < 2 * D` (`QuotientIsShared`). A share too many
contradicts the rounding at once.

The argument for the odometer. Two computations must agree where nothing disturbs them, and where something does there
must still be an argument. So a dimension is first taken as it is turned: `ValueAt(d, k)` is its value after k turns, whatever the
additions and searches come to, and `Ends(d)` says that one of them is the last; `Count(d)` is the number of turns to the first
that is (`FirstEnd`, `Counts`). A repeated value in a set makes it turn for ever, and so would an addition that rounds
back to where it was. `GeneratorInvariant` has two parts.
If all dimensions end, `OdometerShows`: the n-th sample, from 0, has in dimension d the value numbered
`(n \div Weight(d)) % Count(d)`, the digits of n in a mixed base (`Weight(d)` is the product of the counts before d). While dimension d
is turned, those before it have started again and `Weight(d)` divides n (`Turning`). Taking the next value keeps this because
the digit was below `Count(d) - 1`, so that nothing carries out of d (`NextDigit`, `NothingCarries`); starting again keeps it
because it was `Count(d) - 1`, so that `Weight(d + 1)` divides n too; after the last dimension n is
`Weight(dimensions + 1)`. If some dimension does not end, `TurnsForEver`: nothing is carried out of it, so the odometer
never gets through and can only leave the vector. `CombinationsAreStoredOnce` follows: an odometer that
got through has dimensions that end, whose values are then different before the last (a value met twice would be
met for ever), and different numbers below the product have different digits (`SamplesDiffer`).

For `VectorIsFilled` the counts are those of the constructor: `ExactRange` and `ExactSet` give them for dimensions that are exact,
and `SizeIsWeight` that their product is the size of the vector when it fits the `int` (`IntKeeps`); so no write is outside and no place is left.
For multiples of a half being exact is a theorem: `Nearest` depends on the fraction only
(`SameFraction`), N halves are represented exactly (`HalfIsExact`), sums and differences of halves are halves, and the
quotient, which is rounded, has the same whole part (`QuotientIsTruncated`). For tenths it is false, which is the
finding of `generator_decimals`; for sets with repeats too, which is that of `generator_repeats`; and a reversed range is
counted short.

The argument for the sampler. `SamplingInvariant` has two ways of drawing. In `DrawnSoFar` the samples are put
at the front of a population that has its length from the start, and a new one is in none of its places,
drawn or not (`DrawnMore`). In `MovedSoFar` a sample goes from a copy of the entire population to the end of
those drawn; the two behind one another are a permutation of what they were, so one stays as
distinct as the other (`Moved`). The entire population is an `Enumeration`: the fold that makes it takes the
combinations in an order it chooses, and `FoldEnumerates` shows for any order, by induction on the
number of elements, that each comes once. It is where the finiteness of the combinations is needed
(`FiniteCombinations`). A walk to the nearest point is a recursive function, of which `InSetIs` and `InRangeIs` say
where it stops: before the first value that is not less, at the quotient of the way and the
distance. Of the two points there the nearer is nearest of all (`NearerIsNearest`), because all
others lie outside. An array is one concatenation after the other; `OneMore` says what one of them adds to the
places in it, and a row of a file is one step of another recursion (`RowsRead`).

The argument for the concentration file. `ReduxInvariant` says what the list of cells is: the rows until the
buildings are taken out, what `Erased` leaves of them after that; and each statistic is one of the list. What is left
corresponds to the rows outside the buildings by a bijection, shown place by place (`ErasedLeaves`), and so does what is left of a
kind - up to the slice, above the threshold - to such rows of that kind (`OfAKind`): equal
counts. For the sums the order is in the way, since the fold takes the cells in one of its own:
`AddedSums` shows by cardinality that any cell may be taken first, and then cells that correspond have the
same sum (`SumsAgree`). That `Least` is above no concentration but 0 makes the maximum one of the cells.

The argument for the rule memo. First the tries (`Patricia`), by a set `under[n]` for each node: the
nodes whose keys a search leads to `n`. A search from the root takes every key down through ever
lower bits, with none left out on its way, to the node that has the key (`Leads`, `Gathers`); the keys under a
node agree in all bits above the one it tests (`Agree`), and no two nodes on a way test the same bit
(`Once`). So what is in the trie is found (`KeyIsFound`), and the node a search for any other key
ends at agrees with it above the highest bit in which the two differ (`NearestAgrees`,
`DifferenceIsHighest`). `PlaceIsBetween` shows that the second search stops where that bit belongs, and
`Inserted` that a node put there leaves all this true, with `under` of the new node what was under the
place, and the new node. `OneOwner` and `TrieOwnedOnce`: each node but the root is a lower child of exactly one, and
any other child is on the way down to it, which is why deleting a trie reads no deleted node.

Then the memo. Different numbers have different bits (`KeysDiffer`, by halving). `MemoInvariant` says
that all tries are tries (`TriesAreTries`), that different rules have different lists
(`ListsAreOwn`) and that a list has at a place nothing, or the last token that `ends` tells of the rule there,
or its failure (`StopsAreFound`). Then a rule that is skipped comes to where parsing it again would, and
each step is one of `Trial`. `MemoAssumption` is what the code takes for granted of the numbers: rules fit
into the 15 bits below the root of their trie (`antlr3baserecognizer.inl:868`), places into the 32 bits that
`add` compares.

Only model-checked: liveness (`Termination`, `GeneratorStops`, `RandomPopReturns`) and what rests on
RECURSIVE operators, out of the prover's reach: the parser, the lexer and the file of lines (`AcceptedIffInGrammar`,
`LexedByLongestMatch`, `RecoveryStaysInLine`, `OnlyGoodLinesAreKept`), the topological sorter
(`SortedOrCycle`) and the trees (`TreeIsWalked`).

## 5. Not modelled, and why

- The generated lexer and parser: not in the repository; `OptParser` and `OptLexer` follow the grammar.
  The text of the values is not kept, only what kind of value each is.
- The 16 and 32 bit character streams (no build instantiates them, and they cast a stream of one width to another's),
  the runtime's debugger, its messages, and its text and position accessors.
- `quicutil`'s project files and the QES simulator: other repositories.
- The content of files that no name of the optimization file changes.
- Single values (`a = [24]`): they are read and never applied, since
  `augmentDataFromSingleValues` (`job.cpp:486`) has no caller; in `Job` they change nothing.
- Code without a caller: the private `generate_entire_array`, `FitnessCache`, the solver, the
  sorting and printing members of `population`, the database arguments. The gpu_plume job and
  much of `directory.cpp` are commented out.
- Argument parsing and the logger: wrappers of `getopt_long` and of output streams. `simpleLSM.cpp` and the
  grammar interpreter: a `main()` each, beside the program.
- `fetchPatchIds` and `fetchBuffers` (`fitness_function.cpp:18-77`): they read the simulator's scene. That
  the patches of the first sample are kept for all is listed as a hazard.
- The norms and the deviation of the concentration reduction: formulas over the cells of its sum.
- What is behind a write past the end of a vector (`pc = "overrun"`): undefined. It is reached with reversed ranges,
  repeated set values, bounds in tenths and products that overflow, all of which the code lets pass.
- Steps that `atoi` reads as 0 (`opt_params.cpp:319`): the constructor then converts an infinite
  quotient to `long`, which is undefined, and the loop adds 0 for ever; `Steps` are positive.
- `readParams` ends without `return` (`opt_params.cpp:108`), which is undefined; the
  callers ignore the result and the model takes the call to return.
- Crash and restart, lost or repeated messages, timeouts: nothing in the code persists, retries or
  times out, and MPI delivers each message once.

## 6. Plan

The order of work was: `QuicMpi` with `WorkFarm`, `OptimizationFunction`, `WorkSize`,
`PopulationGen`, the proofs of the first two, `OptParams` with `Job`, `Sampling`, the reader, the parser
runtime with its abstract specifications, the concentration reduction, the proofs of the bit sets,
the refinement and the order of tags, of the job, the character and token streams, the share and the odometer,
the sampler, the concentration file, the tries and the rule memo.

What a next step would add:

1. Composition: the subset a servant receives (`QuicMpi`) as the samples of its `Job`.
2. A model of the simulator's scene, for the patches that are kept from sample to sample.
