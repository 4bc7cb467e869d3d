------------------------------ MODULE WorkSize ------------------------------
(***************************************************************************)
(* each_servant_work_size = ceil((float)population_size / total_servants)  *)
(* (src/quic.cpp:280), with the rounding of the float.                     *)
(***************************************************************************)
EXTENDS Float

CONSTANTS MaxPopulation, MaxServants

WorkSizeAssumption ==
  /\ MaxPopulation \in Nat \ {0}
  /\ MaxServants \in Nat \ {0}
  \* no exponent that occurs is left out
  /\ MaxPopulation <= PowerOf2(MaxExponent)
  /\ MaxServants * PowerOf2(FloatBits - 1) <= PowerOf2(MaxExponent)

VARIABLES share_pc, population_size, total_servants, value, size

share == <<share_pc, population_size, total_servants, value, size>>

ShareInit ==
  /\ share_pc = "cast"
  /\ population_size \in 1 .. MaxPopulation
  /\ total_servants \in 1 .. MaxServants
  /\ value = <<0, 1>>
  /\ size = 0

Cast ==
  /\ share_pc = "cast"
  /\ value' = ToFloat(population_size, 1)
  /\ share_pc' = "divide"
  /\ UNCHANGED <<population_size, total_servants, size>>

Divide ==
  /\ share_pc = "divide"
  /\ value' = DividedBy(value, total_servants)
  /\ share_pc' = "ceil"
  /\ UNCHANGED <<population_size, total_servants, size>>

\* Mutant: the quotient is cut off.
Cut(f) == Truncated(f)

ceil(f) == RoundedUp(f)

RoundUp ==
  /\ share_pc = "ceil"
  /\ size' = ceil(value)
  /\ share_pc' = "done"
  /\ UNCHANGED <<population_size, total_servants, value>>

ShareDone == share_pc = "done" /\ UNCHANGED share

ShareNext == Cast \/ Divide \/ RoundUp \/ ShareDone

ShareSpec == ShareInit /\ [][ShareNext]_share
----------------------------------------------------------------------------
\* As long as a float holds the population exactly (2^24 samples in the program) ...
IsExact == population_size <= PowerOf2(FloatBits)

\* ... the rounded quotient gives every sample a servant, and rounding up past a whole
\* quotient never leaves servants idle that have a share (quic.cpp:280).
ShareIsExact ==
  share_pc = "done" /\ IsExact =>
    /\ size * total_servants >= population_size
    /\ (size - 1) * total_servants < population_size
=============================================================================
