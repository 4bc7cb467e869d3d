------------------------------- MODULE MCJob -------------------------------
(* Instances of Job for TLC: names with a class each, and lines on them.   *)
EXTENDS Job

\* a name for each of two structures, one structure twice, an unknown one, and
\* the spellings that end the program or are passed over
MCClassOf == <<"control", "dummy", "local", "unknown", "quBuildings", "quBuildings", "quMetParams">>

Line(v, value) == [lval |-> v, rval |-> value]

MCLines ==
  {Line(0, NoValue),                         \* a comment or an error
   Line(1, Simple("single")), Line(2, Simple("range")), Line(3, Simple("set")),
   Line(3, Dependency(6, "+", 7)), Line(4, Simple("range")), Line(4, Dependency(6, "+", 5)),
   Line(5, Simple("range")), Line(5, Simple("set")), Line(5, Dependency(6, "+", 7)),
   Line(6, Simple("set")), Line(6, Simple("range")), Line(6, Dependency(5, "-", 7)),
   Line(7, Simple("range")), Line(7, Dependency(5, "+", 6)), Line(7, Dependency(5, "-", 4)),
   Line(7, Dependency(5, "+", NonNumber))}

MCProjects == {[path |-> TRUE, buildings |-> TRUE], [path |-> TRUE, buildings |-> FALSE],
               [path |-> FALSE, buildings |-> TRUE]}

\* Two dependencies, the first of which uses the second.
StaleClassOf == <<"quBuildings", "quBuildings", "quMetParams">>

StaleLines ==
  {Line(1, Dependency(2, "+", 3)), Line(2, Dependency(3, "+", 3)), Line(3, Simple("range"))}

StaleProjects == {[path |-> TRUE, buildings |-> TRUE]}
=============================================================================
