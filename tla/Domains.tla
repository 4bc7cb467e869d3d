------------------------------ MODULE Domains ------------------------------
(***************************************************************************)
(* The domains a populationGenerator is constructed with                   *)
(* (src/src/utils/population_gen.cpp:8-27): first the ranges, then the     *)
(* sets.  PopulationGen and Sampling model what is made of them.           *)
(***************************************************************************)
EXTENDS Integers, Sequences

VARIABLES
  ranges,  \* min_domain, max_domain, steps
  sets     \* setValues

domains == <<ranges, sets>>

dimensions == Len(ranges) + Len(sets)
=============================================================================
