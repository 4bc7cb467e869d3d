------------------------- MODULE ConcentrationRedux -------------------------
(***************************************************************************)
(* The constructor of concentrationRedux (src/utils/concentrationRedux.cpp) *)
(* reads a simulator's concentration file, takes the cells inside buildings *)
(* out and computes statistics of the rest.                                *)
(*                                                                         *)
(* A row of the file is a cell: its height against m_zslice_max, its       *)
(* concentration, the buildings it lies in and whether it lies in an        *)
(* emitter.  A Blank is a row nothing can be read from.  The norms and the *)
(* deviation, formulas over the cells of m_sum, are left out.               *)
(***************************************************************************)
EXTENDS Integers, Sequences, FiniteSets, Functions

CONSTANTS
  Concentrations,   \* concentrations a row may give
  Threshold,        \* 1.0e-4
  Least,            \* numeric_limits<double>::min(), the least double above zero
  Greatest,         \* numeric_limits<double>::max()
  Buildings,        \* the buildings of the project
  MaxRows           \* bound on the rows of a file

ASSUME ReduxAssumption ==
  /\ Concentrations \subseteq Nat /\ {Threshold, Least, Greatest} \subseteq Nat
  /\ \A c \in Concentrations : (c > 0 => Least <= c) /\ c < Greatest
  /\ MaxRows \in Nat

VARIABLES
  rows,               \* the rows of the file below its five header lines
  terminated,         \* "];" follows them
  m_concData,
  m_sum, meanCount,   \* m_mean is m_sum / meanCount, 0/0 of no cell
  m_max, m_min,
  m_exceedanceCount,
  redux_pc

redux ==
  <<rows, terminated, m_concData, m_sum, meanCount, m_max, m_min, m_exceedanceCount, redux_pc>>
file == <<rows, terminated>>
statistics == <<m_sum, meanCount, m_max, m_min, m_exceedanceCount>>

Cell == [z : {"below", "at", "above"}, c : Concentrations, buildings : SUBSET Buildings,
         emitter : BOOLEAN]
Blank == [z |-> "blank", c |-> 0, buildings |-> {}, emitter |-> FALSE]
Garbage == [z |-> "above", c |-> 0, buildings |-> {}, emitter |-> FALSE]

ReduxInit ==
  /\ \E n \in 0 .. MaxRows : rows \in [1 .. n -> Cell \cup {Blank}]
  /\ terminated \in BOOLEAN
  /\ m_concData = <<>>
  /\ m_sum = 0 /\ meanCount = 0 /\ m_max = 0 /\ m_min = 0 /\ m_exceedanceCount = 0
  /\ redux_pc = "read"

\* What cd holds after k rows: a blank one leaves it as it was, and before the
\* first it is uninitialized, which Garbage stands for.
cd[k \in 0 .. Len(rows)] ==
  IF k = 0 THEN Garbage ELSE IF rows[k] = Blank THEN cd[k - 1] ELSE rows[k]

\* The loop pushes cd for every row, and once more for the empty line that getline
\* finds at the end of a file without "];".
Read ==
  /\ redux_pc = "read" /\ redux_pc' = "write"
  /\ m_concData' = [k \in 1 .. Len(rows) |-> cd[k]]
                     \o (IF terminated THEN <<>> ELSE <<cd[Len(rows)]>>)
  /\ UNCHANGED <<file, statistics>>

\* The copy in /tmp is written, or the program ends.
writeConcFile ==
  /\ redux_pc = "write" /\ redux_pc' \in {"buildings", "exit"}
  /\ UNCHANGED <<file, m_concData, statistics>>

\* Mutant: a cell in a building is found only at or below the slice.
InBuildingBelow(cell) == cell.buildings # {} /\ cell.z # "above"

InBuilding(cell) == cell.buildings # {}

\* The list without the places noted. The loops note iterators first and erase after.
Erased(cells, noted) ==
  LET left[k \in 0 .. Len(cells)] ==
        IF k = 0 THEN <<>> ELSE IF k \in noted THEN left[k - 1] ELSE Append(left[k - 1], cells[k])
  IN  left[Len(cells)]

\* Each building's cells are noted for removal and erased at the end: a cell in two
\* buildings is erased twice, which the list does not survive.
removeBuildingCells ==
  /\ redux_pc = "buildings"
  /\ redux_pc' = IF \E k \in DOMAIN m_concData : Cardinality(m_concData[k].buildings) > 1
                   THEN "undefined" ELSE "emitters"
  /\ m_concData' = Erased(m_concData, {k \in DOMAIN m_concData : InBuilding(m_concData[k])})
  /\ UNCHANGED <<file, statistics>>

\* The cells in emitters are noted, but the erasing loop asks whether cIter, which
\* the loop before left at the end of the list, is at its end.
removeEmitterCells ==
  LET cIter == Len(m_concData) + 1
      end   == Len(m_concData) + 1
  IN  /\ redux_pc = "emitters" /\ redux_pc' = "mean"
      /\ m_concData' =
           IF cIter # end
             THEN Erased(m_concData, {k \in DOMAIN m_concData : m_concData[k].emitter})
             ELSE m_concData
      /\ UNCHANGED <<file, statistics>>

\* The sum of the concentrations at some places of a list.
SumAt(cells, places) == FoldFunctionOnSet(LAMBDA cell, sum : cell.c + sum, 0, cells, places)

\* The cells up to the slice.
Urban(cells) == {k \in DOMAIN cells : cells[k].z # "above"}

calcMean ==
  /\ redux_pc = "mean" /\ redux_pc' = "minmax"
  /\ m_sum' = SumAt(m_concData, Urban(m_concData))
  /\ meanCount' = Cardinality(Urban(m_concData))
  /\ UNCHANGED <<file, m_concData, m_max, m_min, m_exceedanceCount>>

MaxOf(S) == CHOOSE x \in S : \A y \in S : y <= x
MinOf(S) == CHOOSE x \in S : \A y \in S : x <= y

\* The cells at the height of the slice.
Slice(cells) == {k \in DOMAIN cells : cells[k].z = "at"}

calcMinMax ==
  LET slice == {m_concData[k].c : k \in Slice(m_concData)}
  IN  /\ redux_pc = "minmax" /\ redux_pc' = "exceedances"
      /\ m_max' = MaxOf(slice \cup {Least})
      /\ m_min' = MinOf(slice \cup {Greatest})
      /\ UNCHANGED <<file, m_concData, m_sum, meanCount, m_exceedanceCount>>

\* All the cells count, whatever their height.
calcExceedances ==
  /\ redux_pc = "exceedances" /\ redux_pc' = "done"
  /\ m_exceedanceCount' = Cardinality({k \in DOMAIN m_concData : m_concData[k].c > Threshold})
  /\ UNCHANGED <<file, m_concData, m_sum, meanCount, m_max, m_min>>

Reduced == redux_pc \in {"done", "exit", "undefined"} /\ UNCHANGED redux

ReduxNext ==
  \/ Read \/ writeConcFile \/ removeBuildingCells \/ removeEmitterCells
  \/ calcMean \/ calcMinMax \/ calcExceedances \/ Reduced

ReduxSpec == ReduxInit /\ [][ReduxNext]_redux
----------------------------------------------------------------------------
\* The statistics are those of some of the file's cells: the sum and the count of the
\* urban layer, the extremes of the slice (if there is a concentration in it), the
\* exceedances of all heights.
StatisticsAreOf(cells) ==
  LET urban == cells \cap Urban(rows)
      slice == cells \cap Slice(rows)
  IN  /\ Len(m_concData) = Cardinality(cells)
      /\ meanCount = Cardinality(urban)
      /\ m_sum = SumAt(rows, urban)
      /\ \A k \in slice : m_min <= rows[k].c /\ rows[k].c <= m_max
      /\ (\E k \in slice : rows[k].c > 0) => \E k \in slice : rows[k].c = m_max
      /\ m_exceedanceCount = Cardinality({k \in cells : rows[k].c > Threshold})

Complete == terminated /\ Blank \notin {rows[k] : k \in DOMAIN rows}

\* Rows whose cells are outside every building, and of these, outside the emitters.
Outside == {k \in DOMAIN rows : rows[k].buildings = {}}
Free    == {k \in Outside : ~ rows[k].emitter}

\* concentrationRedux.cpp:293: "Collection box center is within a emitter so remove the
\* collection box from the main list": of a complete file the statistics are those of
\* the cells outside the buildings and the emitters.
StatisticsOfFreeCells == redux_pc = "done" /\ Complete => StatisticsAreOf(Free)

\* What they are of (concentrationRedux.cpp:25-99): the cells outside the buildings,
\* each of them once, those in emitters among them.
StatisticsOutsideBuildings == redux_pc = "done" /\ Complete => StatisticsAreOf(Outside)

\* What holds on the way to them: the list is the file's until the buildings are taken
\* out, and from then on that of the cells outside, of which each statistic is taken.
ReduxInvariant ==
  /\ \E n \in 0 .. MaxRows : rows \in [1 .. n -> Cell \cup {Blank}]
  /\ Complete =>
       /\ redux_pc \in {"write", "buildings"} => m_concData = rows
       /\ redux_pc \in {"emitters", "mean", "minmax", "exceedances", "done"} =>
            m_concData = Erased(rows, {k \in DOMAIN rows : InBuilding(rows[k])})
       /\ redux_pc \in {"minmax", "exceedances", "done"} =>
            /\ m_sum = SumAt(m_concData, Urban(m_concData))
            /\ meanCount = Cardinality(Urban(m_concData))
       /\ redux_pc \in {"exceedances", "done"} =>
            /\ \A k \in Slice(m_concData) : m_min <= m_concData[k].c /\ m_concData[k].c <= m_max
            /\ (\E k \in Slice(m_concData) : m_concData[k].c > 0) =>
                  \E k \in Slice(m_concData) : m_concData[k].c = m_max
       /\ redux_pc = "done" =>
            m_exceedanceCount =
              Cardinality({k \in DOMAIN m_concData : m_concData[k].c > Threshold})
=============================================================================
