---------------------------- MODULE MCPopulation ----------------------------
(* What is made of the dimensions of an optimization file before the work  *)
(* is handed out: the whole population, a part of it drawn at random or     *)
(* read from a file, and the size of a servant's share.  One of the three   *)
(* runs at a time; ranges and sets are the same members of the generator.   *)
EXTENDS WorkSize, PopulationGen, Sampling

VARIABLE mode

\* below every bound, on a point of some dimensions and halfway for others,
\* above every bound
MCParValues == {-1, 2, 3, 6}

Rows == UNION {[1 .. n -> {1, 2}] : n \in 0 .. 2}

\* sizes and dimensions below, equal to and above what there is of rows and names
MCFiles ==
  [size : {1, 2}, sizeBlank : BOOLEAN, dimensions : {1, 2}, dimensionsBlank : BOOLEAN,
   names : {1, 2}, rows : UNION {[1 .. n -> Rows] : n \in 0 .. 2}]

ASSUME MCPopulationAssumption ==
  /\ FloatAssumption /\ GeneratorAssumption
  /\ SamplingAssumption /\ WorkSizeAssumption

generator == <<total_population_size, samples, samplenum, s, dim_inc>>
sampler   == <<call, entire_pop, number, isArray, random_pop, random_pop_index, temp_pop, par,
               results, fromFile>>
all       == <<mode, pc, generator, sampling, share>>

NoGenerator ==
  /\ pc = "idle" /\ total_population_size = 0 /\ samples = <<>> /\ samplenum = 0
  /\ s = <<>> /\ dim_inc = 1
NoSampler ==
  /\ call = "idle"
  /\ entire_pop = <<>> /\ number = 0 /\ isArray = FALSE /\ random_pop = <<>>
  /\ random_pop_index = 0 /\ temp_pop = <<>> /\ par = <<>> /\ array = <<>> /\ count = 0
  /\ file = <<>> /\ newpop = <<>>
NoShare ==
  share_pc = "cast" /\ population_size = 0 /\ total_servants = 0 /\ value = <<0, 1>> /\ size = 0

PopulationInit ==
  \/ mode = "generator" /\ Init /\ NoSampler /\ NoShare
  \/ mode = "sampler" /\ SamplingInit /\ NoGenerator /\ NoShare
  \/ mode = "share" /\ ShareInit /\ ranges = <<>> /\ sets = <<>> /\ NoGenerator /\ NoSampler

PopulationNext ==
  \/ mode = "generator" /\ Next /\ UNCHANGED <<mode, sampler, share>>
  \/ mode = "sampler" /\ SamplingNext /\ UNCHANGED <<mode, pc, generator, share>>
  \/ mode = "share" /\ ShareNext /\ UNCHANGED <<mode, pc, domains, generator, sampler>>

PopulationSpec == PopulationInit /\ [][PopulationNext]_all /\ WF_all(PopulationNext)
----------------------------------------------------------------------------
\* The odometer stops (population_gen.cpp:190-275).
GeneratorStops == mode = "generator" => <>Stopped
=============================================================================
