---------------------------- MODULE MCEvaluation ----------------------------
(* What is made of a simulation's files and values: a servant's job puts a *)
(* sample into them, the reduction condenses a concentration file, and the *)
(* optimization function the fitness of all samples.  One of the three     *)
(* runs at a time, the others have nothing to do.                          *)
EXTENDS MCJob, OptimizationFunction, ConcentrationRedux

VARIABLE mode

evaluation == <<mode, vars, optimize, redux>>

NoJob ==
  /\ pc = "done"
  /\ params = [v \in Names |-> NoValue] /\ optParams = readParams(params)
  /\ project = [given |-> [path |-> TRUE, buildings |-> TRUE], missing |-> {}]
  /\ localBaseCopy = {} /\ outputDir = {} /\ quqpData = Base /\ files = [v \in Names |-> 0]
  /\ samples = 0 /\ chosen = <<>> /\ i = 1 /\ dataStructureNames = <<>>

NoResults == fitness = <<>> /\ OptimizeInit
NoRows    == rows = <<>> /\ terminated = TRUE /\ ReduxInit

EvaluationInit ==
  \/ mode = "job" /\ Init /\ NoResults /\ NoRows
  \/ mode = "optimize" /\ OptimizeInit /\ NoJob /\ NoRows
  \/ mode = "reduce" /\ ReduxInit /\ NoJob /\ NoResults

EvaluationNext ==
  \/ mode = "job" /\ Next /\ UNCHANGED <<mode, optimize, redux>>
  \/ mode = "optimize" /\ OptimizeNext /\ UNCHANGED <<mode, vars, redux>>
  \/ mode = "reduce" /\ ReduxNext /\ UNCHANGED <<mode, vars, optimize>>

EvaluationSpec == EvaluationInit /\ [][EvaluationNext]_evaluation /\ WF_evaluation(EvaluationNext)
=============================================================================
