-------------------------------- MODULE Job --------------------------------
(***************************************************************************)
(* One servant's job: the project in memory (quqpData), the files written  *)
(* for the simulator, and the loop over the samples of its population      *)
(* (job.cpp, directory.cpp, simpleLSM_job.cpp).                            *)
(*                                                                         *)
(* The project is one object, changed in place for every sample and never  *)
(* read back; of the files only those of structures that changed are       *)
(* written again.  A value is an integer; the file of a structure is the   *)
(* values of the names that belong to it.                                  *)
(***************************************************************************)
EXTENDS OptParams

CONSTANTS
  Lines,        \* the lines an optimization file is made of
  MaxLines,     \* bound on its length
  Values,       \* values a range or a set gives a sample
  MaxSamples,   \* bound on the samples of the servant
  Missing,      \* files the base project may lack
  Projects      \* [path, buildings]: whether BaseProjectPath is given, and
                \* whether the project has buildings 1 and 2

CopiedFiles == {"local.proj", "QU_fileoptions", "QU_landuse", "info", "QP_materials",
                "QP_indoor", "QP_fileoptions", "QP_particlesize"}

ASSUME JobAssumption ==
  /\ \A line \in Lines : line.lval \in Names \cup {0} /\ line.rval \in RightSide
  /\ MaxLines \in Nat
  /\ Values \subseteq Int
  /\ MaxSamples \in Nat
  /\ Missing \subseteq CopiedFiles \ {"local.proj"}
  /\ Projects \subseteq [path : BOOLEAN, buildings : BOOLEAN]

VARIABLES
  pc,
  params,              \* the optimization file as a map
  optParams,           \* what readParams makes of it
  project,             \* the base project: path, buildings, missing files
  localBaseCopy,       \* files in localBaseCopy
  outputDir,           \* files in optimizationRun_inner
  quqpData,            \* the project in memory: a value for each name
  files,               \* the values in the files of outputDir
  samples,             \* samples begun
  chosen,              \* the value of each varied name in this sample
  i,                   \* the loops' variable
  dataStructureNames   \* structures changed for this sample

fileVars == <<localBaseCopy, outputDir>>
vars == <<pc, params, optParams, project, fileVars, quqpData, files, samples, chosen, i,
          dataStructureNames>>

\* The value of a name in the base project (any values will do: distinct ones).
Base == [v \in Names |-> 10 * v]

rangeOptMap == optParams.rangeOptMap
setOptMap   == optParams.setOptMap
dimensions  == Len(rangeOptMap) + Len(setOptMap)
Varied      == ToSet(rangeOptMap) \cup ToSet(setOptMap)

\* A sample as the generator builds it: the ranges first, then the sets.
sample == [d \in 1 .. dimensions |->
             chosen[IF d <= Len(rangeOptMap) THEN rangeOptMap[d]
                                             ELSE setOptMap[d - Len(rangeOptMap)]]]

Init ==
  /\ pc = "setup"
  /\ \E n \in 0 .. MaxLines : \E lines \in [1 .. n -> Lines] :
       params = readOptimizationFile(lines)
  /\ optParams = readParams(params)
  /\ dimensions > 0            \* else the master has exited
  /\ project \in [given : Projects, missing : SUBSET Missing]
  /\ localBaseCopy = {} /\ outputDir = {}
  /\ quqpData = Base
  /\ files = [v \in Names |-> 0]
  /\ samples = 0
  /\ chosen = <<>>
  /\ i = 1
  /\ dataStructureNames = <<>>
----------------------------------------------------------------------------
(***************************************************************************)
(* setup_environment.                                                      *)
(***************************************************************************)
\* copyFile for each of the files wanted: a source that cannot be opened is
\* reported on the log and nothing is written.
CopyFiles(wanted, from) == wanted \cap from

\* ... and then a pointer that was never set is deleted, which may end it.
MayCrash(wanted, from, next) ==
  pc' \in {next} \cup (IF wanted \subseteq from THEN {} ELSE {"crashed"})

NoBasePath ==
  /\ pc = "setup"
  /\ ~ project.given.path
  /\ pc' = "failed"
  /\ UNCHANGED <<params, optParams, project, fileVars, quqpData, files, samples, chosen, i,
                 dataStructureNames>>

\* The project is read; its files are copied, those of structures written.
CreateLocalBaseCopy ==
  /\ pc = "setup"
  /\ project.given.path
  /\ quqpData' = Base
  /\ localBaseCopy' = CopyFiles(CopiedFiles, CopiedFiles \ project.missing) \cup Structures
  /\ MayCrash(CopiedFiles, CopiedFiles \ project.missing, "initial_run")
  /\ UNCHANGED <<params, optParams, project, outputDir, files, samples, chosen, i,
                 dataStructureNames>>

\* workDir.intialRun: the same into optimizingDir, from the local copy.
IntialRun ==
  /\ pc = "initial_run"
  /\ outputDir' = CopyFiles(CopiedFiles, localBaseCopy) \cup Structures
  /\ files' = quqpData
  /\ MayCrash(CopiedFiles, localBaseCopy, "next_sample")
  /\ UNCHANGED <<params, optParams, project, localBaseCopy, quqpData, samples, chosen, i,
                 dataStructureNames>>
----------------------------------------------------------------------------
(***************************************************************************)
(* eval_population_fitness and prepare_work_dir_for_sample.                *)
(***************************************************************************)
NextSample ==
  /\ pc = "next_sample"
  /\ samples < MaxSamples
  /\ chosen' \in [Varied -> Values]
  /\ samples' = samples + 1
  /\ i' = 1
  /\ dataStructureNames' = <<>>
  /\ pc' = "sample"
  /\ UNCHANGED <<params, optParams, project, fileVars, quqpData, files>>

\* Mutant: the sets are looked up before the ranges.
LookupSetsFirst(d) ==
  IF d <= Len(setOptMap) THEN setOptMap[d] ELSE rangeOptMap[d - Len(setOptMap)]

\* lookupDataInRangeMap and lookupDataInSetMap.
LookupData(d) ==
  IF d <= Len(rangeOptMap) THEN rangeOptMap[d] ELSE setOptMap[d - Len(rangeOptMap)]

\* The structure of a name, noted once.
NoteStructure(v) ==
  IF Contains(dataStructureNames, ClassOf[v]) THEN dataStructureNames
  ELSE Append(dataStructureNames, ClassOf[v])

\* variable_name.find(".") finds one.
HasDot(v) == ClassOf[v] \in Structures \cup {"unknown"}

\* modify_value changes a name of the project; then a name without a dot ends
\* the program, with what was changed already.
Modify(v, value, note, next) ==
  /\ quqpData' = IF ClassOf[v] \in Structures THEN [quqpData EXCEPT ![v] = value] ELSE quqpData
  /\ IF HasDot(v)
       THEN dataStructureNames' = note /\ i' = i + 1 /\ pc' = next
       ELSE pc' = "failed" /\ UNCHANGED <<dataStructureNames, i>>

\* Mutant: the loop does not get past a name it passes over.
StayAtDummy == UNCHANGED i

PassDummy == i' = i + 1

\* One turn of the loop of augmentDataFromSample.
AugmentFromSample ==
  /\ pc = "sample"
  /\ i <= dimensions
  /\ LET v == LookupData(i)
     IN  IF ClassOf[v] = "dummy"
           THEN PassDummy /\ UNCHANGED <<pc, quqpData, dataStructureNames>>
           ELSE Modify(v, sample[i], NoteStructure(v), "sample")
  /\ UNCHANGED <<params, optParams, project, fileVars, files, samples, chosen>>

SampleAugmented ==
  /\ pc = "sample"
  /\ i > dimensions
  /\ i' = 1
  /\ pc' = "dependency"
  /\ UNCHANGED <<params, optParams, project, fileVars, quqpData, files, samples, chosen,
                 dataStructureNames>>

Apply(op, x, y) == IF op = "+" THEN x + y ELSE x - y

\* Mutant: an operand is read from the files, which the sample has not reached.
RetrieveFromFile(v) == files[v]

\* quqpData.retrieve.
Retrieve(v) == quqpData[v]

\* lexical_cast<double> takes what was retrieved for each operand; what a name
\* outside the structures retrieves (QUICProject is another repository) may be a
\* number or not.
Operands(v) == {params[v].left, params[v].right}

Numeric(v)    == NonNumber \notin Operands(v)
NonNumeric(v) == \E w \in Operands(v) : w \notin {n \in Names : ClassOf[n] \in Structures}

\* Mutant: the structure of a dependent name is not noted.
NoteNothing(v) == dataStructureNames

NoteDependent(v) == NoteStructure(v)

\* One turn of the loop of augmentDataBasedOnDependency.
AugmentBasedOnDependency ==
  /\ pc = "dependency"
  /\ i <= Len(optParams.dependencyOptMap)
  /\ LET v == optParams.dependencyOptMap[i]
         d == params[v]
     IN  \/ /\ Numeric(v)
            /\ Modify(v, Apply(d.op, Retrieve(d.left), Retrieve(d.right)),
                      NoteDependent(v), "dependency")
         \/ NonNumeric(v) /\ pc' = "failed" /\ UNCHANGED <<quqpData, dataStructureNames, i>>
  /\ UNCHANGED <<params, optParams, project, fileVars, files, samples, chosen>>

\* Two assertions follow the loop, and the build (Debug) keeps them.
DependencyAugmented ==
  /\ pc = "dependency"
  /\ i > Len(optParams.dependencyOptMap)
  /\ pc' = IF project.given.buildings THEN "validate" ELSE "crashed"
  /\ UNCHANGED <<params, optParams, project, fileVars, quqpData, files, samples, chosen, i,
                 dataStructureNames>>

\* The file of every structure noted is written from memory; a name that is
\* not a known structure is passed over.
ValidateOutputDir ==
  /\ pc = "validate"
  /\ files' = [v \in Names |-> IF ClassOf[v] \in ToSet(dataStructureNames) \cap Structures
                                 THEN quqpData[v] ELSE files[v]]
  /\ dataStructureNames' = <<>>
  /\ pc' = "simulate"
  /\ UNCHANGED <<params, optParams, project, fileVars, quqpData, samples, chosen, i>>

\* eval_sample_fitness: the scene is built from the files of outputDir.
EvalSampleFitness ==
  /\ pc = "simulate"
  /\ pc' = "next_sample"
  /\ UNCHANGED <<params, optParams, project, fileVars, quqpData, files, samples, chosen, i,
                 dataStructureNames>>

PopulationDone ==
  /\ pc = "next_sample"
  /\ samples > 0               \* the master sends no empty subset
  /\ pc' = "done"
  /\ UNCHANGED <<params, optParams, project, fileVars, quqpData, files, samples, chosen, i,
                 dataStructureNames>>

Stopped == pc \in {"done", "failed", "crashed"}

Terminated == Stopped /\ UNCHANGED vars

Next ==
  \/ NoBasePath \/ CreateLocalBaseCopy \/ IntialRun
  \/ NextSample \/ AugmentFromSample \/ SampleAugmented
  \/ AugmentBasedOnDependency \/ DependencyAugmented
  \/ ValidateOutputDir \/ EvalSampleFitness \/ PopulationDone \/ Terminated

\* Sequential code in one process.
Spec == Init /\ [][Next]_vars /\ WF_vars(Next)
----------------------------------------------------------------------------
Known(v) == ClassOf[v] \in Structures

Dependents == ToSet(optParams.dependencyOptMap)

\* The files a sample is simulated with hold the value the sample gives each
\* varied name: the generator, which puts ranges before sets, and the job,
\* which looks names up by position, agree on which name a value is for.
SampleIsSimulated ==
  pc = "simulate" => \A v \in Varied : Known(v) => files[v] = chosen[v]

\* No file of the base project is lost on its way through the local copy.
SceneComplete == outputDir = (CopiedFiles \ project.missing) \cup Structures

\* What is simulated is what is in memory: no structure that was changed, by
\* the sample or by a dependency, keeps its file of an earlier sample, and the
\* scene it is simulated in is complete.
FilesAgree ==
  pc = "simulate" => SceneComplete /\ \A v \in Names : Known(v) => files[v] = quqpData[v]

\* What the optimization file asks of a name for the sample at hand; one that is
\* not of the project keeps what it is taken for.
Wanted[v \in Names] ==
  IF v \in Varied /\ Known(v) THEN chosen[v]
  ELSE IF v \in Dependents /\ Known(v)
    THEN Apply(params[v].op, Wanted[params[v].left], Wanted[params[v].right])
  ELSE Base[v]

\* No dependency is set after one that uses it.
Ordered == \A v \in Dependents : Operands(v) \cap Dependents \subseteq 1 .. (v - 1)

\* A name that depends on others is simulated with the value computed from this
\* sample's values, also through other dependencies, and whatever samples came
\* before, when the names of the dependencies happen to be in order.
OrderedDependentsFollow ==
  pc = "simulate" /\ Ordered => \A v \in Dependents : Known(v) => files[v] = Wanted[v]

\* Dependencies do not form a cycle: with the operands of operands added as
\* often as there are names, nothing leads back.
Uses(S) == S \cup {w \in Dependents : \E v \in S \cap Dependents : w \in Operands(v)}

Acyclic ==
  \A v \in Dependents :
    LET reached[n \in 0 .. NameCount] ==
          IF n = 0 THEN Operands(v) \cap Dependents ELSE Uses(reached[n - 1])
    IN  v \notin reached[NameCount]

\* job.cpp:319: "for each sample in the population create a copy of quic project
\* files to work on and change the appropriate values accroding to the sample":
\* of a dependent name too, in whatever order the names sort.
DependentsFollowSample ==
  pc = "simulate" /\ Acyclic => \A v \in Dependents : Known(v) => files[v] = Wanted[v]

----------------------------------------------------------------------------
\* The invariant behind these properties: what memory and files are at each place.
Places == {"setup", "initial_run", "next_sample", "sample", "dependency", "validate", "simulate",
           "done", "failed", "crashed"}

TypeOK ==
  /\ pc \in Places
  /\ params \in [Names -> RightSide]
  /\ optParams = readParams(params)
  /\ project \in [given : Projects, missing : SUBSET Missing]
  /\ quqpData \in [Names -> Int] /\ files \in [Names -> Int]
  /\ samples \in Nat /\ i \in Nat \ {0}
  /\ dataStructureNames \in Seq(Structures \cup {"unknown"})
  /\ pc \in {"sample", "dependency", "validate", "simulate"} => chosen \in [Varied -> Values]

SceneFollows ==
  /\ pc = "initial_run" => localBaseCopy = (CopiedFiles \ project.missing) \cup Structures
  /\ pc \in {"next_sample", "sample", "dependency", "validate", "simulate"} => SceneComplete

\* A file that is behind memory belongs to a structure that is noted.
ChangesAreNoted ==
  /\ pc \in {"next_sample", "simulate"} => \A v \in Names : Known(v) => files[v] = quqpData[v]
  /\ pc \in {"sample", "dependency", "validate"} =>
       \A v \in Names : Known(v) /\ files[v] # quqpData[v] => ClassOf[v] \in ToSet(dataStructureNames)

\* The first n names of the sample have their values.
Applied(n) == \A d \in 1 .. n : Known(LookupData(d)) => quqpData[LookupData(d)] = chosen[LookupData(d)]

SampleApplied ==
  /\ pc = "sample" => i <= dimensions + 1 /\ Applied(i - 1)
  /\ pc \in {"dependency", "validate", "simulate"} => Applied(dimensions)

\* The first n dependent names have what is computed from their operands as they are now.
Settled(n) ==
  \A k \in 1 .. n :
    LET v == optParams.dependencyOptMap[k]
    IN  Known(v) => /\ Numeric(v)
                    /\ quqpData[v] = Apply(params[v].op, quqpData[params[v].left], quqpData[params[v].right])

DependentsSettled ==
  Ordered =>
    /\ pc = "dependency" => i <= Len(optParams.dependencyOptMap) + 1 /\ Settled(i - 1)
    /\ pc \in {"validate", "simulate"} => Settled(Len(optParams.dependencyOptMap))

RestUntouched ==
  \A v \in Names : ~ Known(v) \/ v \notin Varied \cup Dependents => quqpData[v] = Base[v]

JobInvariant ==
  TypeOK /\ SceneFollows /\ ChangesAreNoted /\ SampleApplied /\ DependentsSettled /\ RestUntouched

\* Every sample is dealt with, or the program ends.
Termination == <>Stopped
=============================================================================
