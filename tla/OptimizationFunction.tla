------------------------ MODULE OptimizationFunction ------------------------
(***************************************************************************)
(* The optimization function the master runs over the collected results    *)
(* (src/quic.cpp:331-351), one turn of its loop per step.                  *)
(*                                                                         *)
(* results is in order of arrival, which the order of the servants does    *)
(* not determine, so it is any sequence.  A sample is its position in      *)
(* results and fitness[k] its fitness map.  s.fitness["..."] inserts 0 for *)
(* a missing key, so a sample without fitness reads as 0 and 0.  Without   *)
(* patches eval_fitness stores 0/0 and 9999 (fitness_function.cpp:79-96);  *)
(* every comparison with a NaN is false.                                   *)
(***************************************************************************)
EXTENDS Integers, Sequences

CONSTANTS
  Temperatures,  \* the temperatures a simulation may give
  Sentinel,      \* 9999, where both minima start
  NaN,           \* the average over no patch
  MaxResults     \* bound on the number of samples

ASSUME OptimizationAssumption ==
  /\ Temperatures \subseteq Int
  /\ Sentinel \in Int
  /\ NaN \notin Int
  /\ MaxResults \in Nat

VARIABLES
  fitness,              \* the fitness maps of results
  looked,               \* samples looked at so far
  min_avg_temperature,
  min_temperature,
  min_avg_samples,
  min_samples

optimize ==
  <<fitness, looked, min_avg_temperature, min_temperature, min_avg_samples, min_samples>>

\* What a sample's fitness map reads as: simulated, without patches, missing.
Fitness ==
  [avg : Temperatures, low : Temperatures]
    \cup {[avg |-> NaN, low |-> Sentinel], [avg |-> 0, low |-> 0]}

\* The lowest temperature is not above the average.
Plausible(f) == f.avg = NaN \/ f.low <= f.avg

OptimizeInit ==
  /\ \E n \in 0 .. MaxResults : fitness \in [1 .. n -> {f \in Fitness : Plausible(f)}]
  /\ looked = 0
  /\ min_avg_temperature = Sentinel
  /\ min_temperature = Sentinel
  /\ min_avg_samples = {}
  /\ min_samples = {}

Samples == DOMAIN fitness

\* Mutant: no comparison, so that the last sample wins.
AlwaysNotAbove(value, best) == value # NaN

\* The float comparison best >= value of lines 339 and 345.
NotAbove(value, best) == value # NaN /\ best >= value

\* Mutant: a new minimum does not clear what was kept.
NeverBelow(value, best) == FALSE

\* The float comparison best > value of lines 340 and 346.
Below(value, best) == value # NaN /\ best > value

\* The samples kept after sample k, whose value is compared with best.
Kept(k, value, best, samples) ==
  (IF Below(value, best) THEN {} ELSE samples) \cup (IF NotAbove(value, best) THEN {k} ELSE {})

LookAt(k) ==
  LET avg == fitness[k].avg
      low == fitness[k].low
  IN  /\ min_avg_temperature' =
           IF NotAbove(avg, min_avg_temperature) THEN avg ELSE min_avg_temperature
      /\ min_temperature' = IF NotAbove(low, min_temperature) THEN low ELSE min_temperature
      \* line 347 clears min_avg_samples, and nothing clears min_samples
      /\ min_avg_samples' =
           IF Below(low, min_temperature) THEN {}
           ELSE Kept(k, avg, min_avg_temperature, min_avg_samples)
      /\ min_samples' =
           min_samples \cup (IF NotAbove(low, min_temperature) THEN {k} ELSE {})

Step ==
  /\ looked + 1 \in Samples
  /\ looked' = looked + 1
  /\ LookAt(looked + 1)
  /\ UNCHANGED fitness

Finished == looked + 1 \notin Samples /\ UNCHANGED optimize

OptimizeNext == Step \/ Finished

OptimizeSpec == OptimizeInit /\ [][OptimizeNext]_optimize
----------------------------------------------------------------------------
Seen == 1 .. looked

OptimizeTypeOK ==
  /\ \E n \in 0 .. MaxResults : fitness \in [1 .. n -> Fitness]
  /\ looked \in Nat /\ Seen \subseteq Samples
  /\ min_avg_temperature \in Int
  /\ min_temperature \in Int
  /\ min_avg_samples \subseteq Seen
  /\ min_samples \subseteq Seen

\* min_temperature is the least of the temperatures seen: in whatever order the
\* servants answered, no sample seen is lower and one of them reaches it.
MinTemperatureIsLeast ==
  /\ \A k \in Seen : min_temperature <= fitness[k].low
  /\ min_temperature = Sentinel \/ \E k \in Seen : fitness[k].low = min_temperature

\* min_avg_temperature is the least of the averages that are numbers.
MinAverageIsLeast ==
  /\ \A k \in Seen : fitness[k].avg # NaN => min_avg_temperature <= fitness[k].avg
  /\ min_avg_temperature = Sentinel \/ \E k \in Seen : fitness[k].avg = min_avg_temperature

\* Every sample printed under "min average samples" has the least average.
AnnouncedAreMinimal == \A k \in min_avg_samples : fitness[k].avg = min_avg_temperature

\* The log "min average samples" (quic.cpp:361) lists the samples with the
\* least average: all of them, so none of them is missing.
MinAverageSamplesComplete ==
  looked = Len(fitness) =>
    \A k \in Samples : fitness[k].avg = min_avg_temperature => k \in min_avg_samples
=============================================================================
