----------------------------- MODULE OptParams -----------------------------
(***************************************************************************)
(* From the lines of an optimization file to the parameters of a job:      *)
(* readOptimizationFile (src/quic.cpp:56-124) and opt_params::readParams   *)
(* (src/src/utils/opt_params.cpp:108-488).                                 *)
(*                                                                         *)
(* The names that can be assigned to are 1 .. NameCount in alphabetical    *)
(* order, the order of the std::map readParams iterates over.  What is     *)
(* left of a value is what decides its treatment: a range and a set are    *)
(* told apart, what they range over is the generator's concern; operands   *)
(* are names (a text that is not a number is NonNumber).                   *)
(***************************************************************************)
EXTENDS Integers, FiniteSets, SequencesExt

CONSTANTS
  NameCount,    \* the names are 1 .. NameCount
  ClassOf       \* for each name, what the code makes of its spelling

Names     == 1 .. NameCount
NonNumber == 0

\* The part of a name before its first dot: the structures validateOutputDir
\* knows, and any other one.
Structures == {"quSimParams", "quBuildings", "quMetParams", "qpBuildout",
               "qpParams", "qpSource", "quSensor"}

\* Names without a dot, and names readParams keeps for itself (seed, solver...).
Classes == Structures \cup {"unknown", "local", "dummy", "WindRange", "control"}

ASSUME OptParamsAssumption ==
  /\ NameCount \in Nat
  /\ ClassOf \in [Names -> Classes]

\* What each_line holds: the right side of an assignment.
RightSide == [type : {"none", "range", "set", "single", "atomExp"}, left : Names \cup {NonNumber},
              op : {"+", "-"}, right : Names \cup {NonNumber}]

NoValue   == [type |-> "none", left |-> NonNumber, op |-> "+", right |-> NonNumber]
Dependency(l, op, r) == [type |-> "atomExp", left |-> l, op |-> op, right |-> r]
Simple(t) == [NoValue EXCEPT !.type = t]

\* optParams[each_line["lval"]] = each_line, line after line: of the lines that
\* assign to a name the last counts.  A line that is a comment or that the parser
\* rejects (lval outside Names) assigns to none.
Assigning(lines, v) == {k \in DOMAIN lines : lines[k].lval = v}

readOptimizationFile(lines) ==
  [v \in Names |->
     IF Assigning(lines, v) = {} THEN NoValue
     ELSE lines[CHOOSE k \in Assigning(lines, v) : \A j \in Assigning(lines, v) : j <= k].rval]

\* The branches of readParams: a name of its own is not looked at further.
NamesOfType(params, t) == {v \in Names : ClassOf[v] # "control" /\ params[v].type = t}

\* In the order of the map: the k-th is the one with k names up to it.
OfType(params, t) ==
  LET of == NamesOfType(params, t)
  IN  [k \in 1 .. Cardinality(of) |-> CHOOSE v \in of : Cardinality({w \in of : w <= v}) = k]

\* minValues, maxValues and stepValues grow together with rangeOptMap, and
\* setValues with setOptMap; one sequence of names stands for each pair.
\* A set of one value, a number and a string are single values.  A set is told from a
\* single value by the parts of its text, which is split at every blank (line 328):
\* "[5 ]" is a set of two, and an empty part, read by atof, is the value 0.  What the
\* parts are is the generator's concern (SortedSets of module PopulationGen).
readParams(params) ==
  [rangeOptMap      |-> OfType(params, "range"),
   setOptMap        |-> OfType(params, "set"),
   singleOptMap     |-> OfType(params, "single"),
   dependencyOptMap |-> OfType(params, "atomExp")]
=============================================================================
