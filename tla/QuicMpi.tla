------------------------------ MODULE QuicMpi ------------------------------
(***************************************************************************)
(* The master/servant protocol of main() in src/quic.cpp.                  *)
(*                                                                         *)
(* Rank 0 (MASTER) reads the optimization file, generates the population,  *)
(* cuts it into subsets with population::get_subset, sends one subset to   *)
(* each servant, collects the evaluated subsets in any order, picks the    *)
(* best samples and tells every servant to exit.  A servant loops on       *)
(* MPI_Probe and acts on the tag of the message it finds.                  *)
(*                                                                         *)
(* A sample is its index in the population.  A message from the master to  *)
(* a servant travels in a FIFO (MPI's non-overtaking rule).  MPI leaves it *)
(* to the implementation whether a standard-mode send is buffered          *)
(* ("eager") or holds the sender until it is matched ("rendezvous"); here  *)
(* each send is either, except that tags in EagerTags are always buffered. *)
(***************************************************************************)
EXTENDS Integers, Sequences, FiniteSets

CONSTANTS
  TotalServants,  \* world.size() - 1
  MaxPopulation,  \* bound on the size of the generated population
  JobNames,       \* what the optimization file may give as job_type
  EagerTags,      \* tags whose messages MPI always buffers
  LibraryLoads,   \* whether the fitness library can be opened
  SetupResults,   \* what job::setup_environment may return
  SampleResults,  \* how the evaluation of one sample may end
  EvalResults     \* what job::eval_population_fitness may return

MASTER   == 0
Servants == 1 .. TotalServants
Proc     == 0 .. TotalServants

MESSAGE_TYPE == {"JOB_DATATYPE", "OPT_PARAMS", "POPULATION", "RESULTS", "EXIT"}
JOB_TYPE     == {"GPU_PLUME_JOB", "SIMPLE_LSM_JOB", "INVALID_JOB"}

\* What quic.cpp tells apart: no optimization file given, a job with nothing to
\* vary, no job_type in the file, the two known jobs, and any other string.
JobNameDomain == {"no_optfile", "no_dimension", "", "lsm", "gpu_plume", "other"}

ASSUME QuicAssumption ==
  /\ TotalServants \in Nat \ {0}     \* main() exits unless world.size() >= 2
  /\ MaxPopulation \in Nat \ {0}
  /\ JobNames \subseteq JobNameDomain
  /\ EagerTags \subseteq MESSAGE_TYPE
  /\ LibraryLoads \subseteq BOOLEAN
  /\ SetupResults \subseteq BOOLEAN
  /\ SampleResults \subseteq {"evaluated", "failed", "exit"}
  /\ EvalResults \subseteq BOOLEAN

VARIABLES
  pc,                   \* where each process is in main()
  blocked,              \* processes held inside a rendezvous MPI_Send
  channel,              \* messages sent by the master, per servant
  reply,                \* messages sent to the master, per servant
  job_type,             \* each process's own job_type variable
  population_size,      \* master: pop.size()
  servant,              \* master: the loop variable of its sending loops
  next,                 \* master: first sample of the next subset
  results_to_received,  \* master: results still to come
  results,              \* master: samples collected so far
  valued,               \* master: those of them whose fitness map was filled
  temp,                 \* servant: the job object, "NULL" until OPT_PARAMS
  pop,                  \* servant: the population received last
  todo,                 \* servant: samples of pop not evaluated yet
  fitness,              \* servant: samples of pop whose fitness map is filled
  failures,             \* history: samples whose evaluation failed
  withheld              \* history: evaluated samples whose RESULTS was not sent

masterVars  == <<population_size, servant, next, results_to_received, results, valued>>
servantVars == <<temp, pop, todo, fitness, failures, withheld>>
vars == <<pc, blocked, channel, reply, job_type, masterVars, servantVars>>

Stopped == {"done", "failed", "crashed", "killed"}

MasterPc  == {"start", "send_job", "send_opt", "send_work", "send_exit",
              "collect", "send_final_exit", "returning"} \cup Stopped
ServantPc == {"probe", "setup", "eval"} \cup Stopped

----------------------------------------------------------------------------
(***************************************************************************)
(* Messages.  Every message has every field, so that one record set types  *)
(* them all; a field its tag does not use holds the neutral value.         *)
(***************************************************************************)
SampleIds == 0 .. (MaxPopulation - 1)

Message == [tag  : MESSAGE_TYPE, job : JOB_TYPE,
            pop  : SUBSET SampleIds, valued : SUBSET SampleIds,
            mode : {"eager", "rendezvous"}]

Modes(tag) == IF tag \in EagerTags THEN {"eager"} ELSE {"eager", "rendezvous"}

Msg(t, m)     == [tag |-> t, job |-> "INVALID_JOB", pop |-> {}, valued |-> {}, mode |-> m]
JobMsg(j, m)  == [Msg("JOB_DATATYPE", m) EXCEPT !.job = j]
PopMsg(S, m)  == [Msg("POPULATION", m) EXCEPT !.pop = S]
ResultsMsg(S, V, m) == [Msg("RESULTS", m) EXCEPT !.pop = S, !.valued = V]

\* A process that is inside main() and not held in a send.
Running(p, label) == pc[p] = label /\ p \notin blocked

Goto(p, label) == pc' = [pc EXCEPT ![p] = label]

\* world.send(s, ...) by the master.
SendTo(s, m) ==
  /\ channel' = [channel EXCEPT ![s] = Append(@, m)]
  /\ blocked' = IF m.mode = "rendezvous" THEN blocked \cup {MASTER} ELSE blocked
  /\ UNCHANGED reply

\* world.recv(MASTER, ...) by servant s of the message it has just probed.
RecvFrom(s) ==
  /\ channel' = [channel EXCEPT ![s] = Tail(@)]
  /\ blocked' = IF Head(channel[s]).mode = "rendezvous" THEN blocked \ {MASTER} ELSE blocked
  /\ UNCHANGED reply

\* Mutant: the loops over the servants end one servant early.
NextServantShort(label, after) ==
  IF servant + 1 >= TotalServants
    THEN servant' = 1 /\ Goto(MASTER, after)
    ELSE servant' = servant + 1 /\ Goto(MASTER, label)

\* One round of `for (servant = 1; servant <= total_servants; servant++)`,
\* followed by the code after the loop when it was the last one.
NextServant(label, after) ==
  IF servant = TotalServants
    THEN servant' = 1 /\ Goto(MASTER, after)
    ELSE servant' = servant + 1 /\ Goto(MASTER, label)

----------------------------------------------------------------------------
(***************************************************************************)
(* The partition of the population.                                        *)
(***************************************************************************)
\* Mutant: the quotient is cut off instead of rounded up.
FloorWorkSize(size, servants) == size \div servants

\* ceil((float)size / servants); module WorkSize relates it to the float code.
WorkSize(size, servants) == (size + servants - 1) \div servants

each_servant_work_size == WorkSize(population_size, TotalServants)

\* What the log of quic.cpp announces as "Number of servants working".
required_servants ==
  IF TotalServants > population_size THEN population_size ELSE TotalServants

\* Mutant: the last subset is not cut at the end of the population.
UncutSubset(start, size) == IF start >= population_size THEN -1 ELSE start + size

\* population::get_subset(start, size, subset): the index it returns, the end
\* of the subset, -1 once start is past the population.
get_subset(start, size) ==
  IF start >= population_size THEN -1
  ELSE IF start + size >= population_size THEN population_size
  ELSE start + size

----------------------------------------------------------------------------
Init ==
  /\ pc = [p \in Proc |-> IF p = MASTER THEN "start" ELSE "probe"]
  /\ blocked = {}
  /\ channel = [s \in Servants |-> <<>>]
  /\ reply = [s \in Servants |-> <<>>]
  /\ job_type = [p \in Proc |-> "INVALID_JOB"]
  /\ population_size = 0
  /\ servant = 1
  /\ next = 0
  /\ results_to_received = 0
  /\ results = {}
  /\ valued = {}
  /\ temp = [s \in Servants |-> "NULL"]
  /\ pop = [s \in Servants |-> {}]
  /\ todo = [s \in Servants |-> {}]
  /\ fitness = [s \in Servants |-> {}]
  /\ failures = {}
  /\ withheld = {}

(***************************************************************************)
(* The master.                                                             *)
(***************************************************************************)

\* exit(1): no optimization file, an unknown job, or (in generate_entire_pop) no
\* dimension to generate a population from.
ReadOptFileFails ==
  /\ Running(MASTER, "start")
  /\ JobNames \cap {"no_optfile", "no_dimension", "other"} # {}
  /\ Goto(MASTER, "failed")
  /\ UNCHANGED <<blocked, channel, reply, job_type, masterVars, servantVars>>

\* A file without job_type: every servant is only told to exit.
ReadOptFileWithoutJob ==
  /\ Running(MASTER, "start")
  /\ "" \in JobNames
  /\ Goto(MASTER, "send_final_exit")
  /\ UNCHANGED <<blocked, channel, reply, job_type, masterVars, servantVars>>

Generate(first_send) ==
  /\ Running(MASTER, "start")
  /\ \E name \in JobNames \cap {"lsm", "gpu_plume"} :
       job_type' = [job_type EXCEPT
         ![MASTER] = IF name = "lsm" THEN "SIMPLE_LSM_JOB" ELSE "GPU_PLUME_JOB"]
  /\ population_size' \in 1 .. MaxPopulation
  /\ Goto(MASTER, first_send)
  /\ UNCHANGED <<blocked, channel, reply, servant, next, results_to_received,
                 results, valued, servantVars>>

\* Mutant: the job type is never sent.
GenerateAndSkipJobType == Generate("send_opt")

GeneratePopulation == Generate("send_job")

SendJobType ==
  /\ Running(MASTER, "send_job")
  /\ \E m \in Modes("JOB_DATATYPE") : SendTo(servant, JobMsg(job_type[MASTER], m))
  /\ NextServant("send_job", "send_opt")
  /\ UNCHANGED <<job_type, population_size, next, results_to_received,
                 results, valued, servantVars>>

SendOptParams ==
  /\ Running(MASTER, "send_opt")
  /\ \E m \in Modes("OPT_PARAMS") : SendTo(servant, Msg("OPT_PARAMS", m))
  /\ NextServant("send_opt", "send_work")
  /\ UNCHANGED <<job_type, population_size, next, results_to_received,
                 results, valued, servantVars>>

next_subset_start == get_subset(next, each_servant_work_size)

Distribute(samples) ==
  /\ Running(MASTER, "send_work")
  /\ next_subset_start # -1
  /\ \E m \in Modes("POPULATION") : SendTo(servant, PopMsg(samples, m))
  /\ next' = next_subset_start
  /\ Goto(MASTER, "send_exit")
  /\ UNCHANGED <<job_type, population_size, servant, results_to_received,
                 results, valued, servantVars>>

\* Mutants: the last sample of each subset is left out; it is sent again as the
\* first one of the next subset.
SendShortPopulation       == Distribute(next .. (next_subset_start - 2))
SendOverlappingPopulation == Distribute(next .. next_subset_start)

SendPopulation == Distribute(next .. (next_subset_start - 1))

\* world.isend never holds its caller.
IsendExit ==
  /\ Running(MASTER, "send_exit")
  /\ SendTo(servant, Msg("EXIT", "eager"))
  /\ servant' = servant + 1
  /\ Goto(MASTER, "send_work")
  /\ UNCHANGED <<job_type, population_size, next, results_to_received,
                 results, valued, servantVars>>

\* get_subset has returned -1: the distribution loop ends.
WaitFor(count) ==
  /\ Running(MASTER, "send_work")
  /\ next_subset_start = -1
  /\ results_to_received' = count
  /\ Goto(MASTER, "collect")
  /\ UNCHANGED <<blocked, channel, reply, job_type, population_size, servant, next,
                 results, valued, servantVars>>

\* Mutant: the master waits for one result per required servant.
WaitForServants == WaitFor(required_servants)

WaitForResults == WaitFor(population_size)

\* probe(any_source, RESULTS) finds a message of any servant; recv takes it.
Collect(s, count) ==
  LET msg == Head(reply[s])
  IN  /\ Running(MASTER, "collect")
      /\ results_to_received # 0
      /\ reply[s] # <<>>
      /\ reply' = [reply EXCEPT ![s] = Tail(@)]
      /\ blocked' = IF msg.mode = "rendezvous" THEN blocked \ {s} ELSE blocked
      /\ results' = results \cup msg.pop
      /\ valued' = valued \cup msg.valued
      /\ results_to_received' = results_to_received - count
      /\ UNCHANGED <<pc, channel, job_type, population_size, servant, next, servantVars>>

\* Mutant: one message counts as one result.
CollectCountingMessages(s) == Collect(s, 1)

CollectResults(s) == Collect(s, Cardinality(Head(reply[s]).pop))

\* The optimization function (module OptimizationFunction) has run on results.
Optimize ==
  /\ Running(MASTER, "collect")
  /\ results_to_received = 0
  /\ servant' = 1
  /\ Goto(MASTER, "send_final_exit")
  /\ UNCHANGED <<blocked, channel, reply, job_type, population_size, next,
                 results_to_received, results, valued, servantVars>>

SendExit ==
  /\ Running(MASTER, "send_final_exit")
  /\ \E m \in Modes("EXIT") : SendTo(servant, Msg("EXIT", m))
  /\ NextServant("send_final_exit", "returning")
  /\ UNCHANGED <<job_type, population_size, next, results_to_received,
                 results, valued, servantVars>>

MasterReturns ==
  /\ Running(MASTER, "returning")
  /\ Goto(MASTER, "done")
  /\ UNCHANGED <<blocked, channel, reply, job_type, masterVars, servantVars>>

Master ==
  \/ ReadOptFileFails \/ ReadOptFileWithoutJob \/ GeneratePopulation
  \/ SendJobType \/ SendOptParams \/ SendPopulation \/ IsendExit
  \/ WaitForResults \/ (\E s \in Servants : CollectResults(s))
  \/ Optimize \/ SendExit \/ MasterReturns

----------------------------------------------------------------------------
(***************************************************************************)
(* A servant.  MPI_Probe(MASTER, any_tag) reports the oldest message.      *)
(***************************************************************************)
Probes(s, tag) ==
  /\ Running(s, "probe")
  /\ channel[s] # <<>>
  /\ Head(channel[s]).tag = tag

\* Mutant: an EXIT behind unread messages is enough.
ServantExitsEarly(s) ==
  /\ Running(s, "probe")
  /\ \E i \in 1 .. Len(channel[s]) : channel[s][i].tag = "EXIT"
  /\ Goto(s, "done")
  /\ UNCHANGED <<blocked, channel, reply, job_type, masterVars, servantVars>>

\* EXIT only ends the loop: the message is probed and never received.
ServantExits(s) ==
  /\ Probes(s, "EXIT")
  /\ Goto(s, "done")
  /\ UNCHANGED <<blocked, channel, reply, job_type, masterVars, servantVars>>

RecvJobType(s) ==
  /\ Probes(s, "JOB_DATATYPE")
  /\ RecvFrom(s)
  /\ job_type' = [job_type EXCEPT ![s] = Head(channel[s]).job]
  /\ UNCHANGED <<pc, masterVars, servantVars>>

\* Only simpleLSM_job is compiled in; any other type ends in exit(1).  Its
\* constructor calls through a null pointer if the fitness library is missing.
RecvOptParams(s) ==
  /\ Probes(s, "OPT_PARAMS")
  /\ RecvFrom(s)
  /\ \/ /\ job_type[s] = "SIMPLE_LSM_JOB" /\ TRUE \in LibraryLoads
        /\ temp' = [temp EXCEPT ![s] = "simpleLSM_job"]
        /\ UNCHANGED pc
     \/ /\ job_type[s] = "SIMPLE_LSM_JOB" /\ FALSE \in LibraryLoads
        /\ Goto(s, "crashed")
        /\ UNCHANGED temp
     \/ /\ job_type[s] # "SIMPLE_LSM_JOB"
        /\ Goto(s, "failed")
        /\ UNCHANGED temp
  /\ UNCHANGED <<job_type, masterVars, pop, todo, fitness, failures, withheld>>

\* `job &= *temp` dereferences a null pointer if no OPT_PARAMS came first.
StartWork(s, samples) ==
  /\ Probes(s, "POPULATION")
  /\ pop' = [pop EXCEPT ![s] = samples]
  /\ todo' = [todo EXCEPT ![s] = samples]
  /\ fitness' = [fitness EXCEPT ![s] = {}]
  /\ Goto(s, IF temp[s] = "NULL" THEN "crashed" ELSE "setup")
  /\ UNCHANGED <<job_type, masterVars, temp, failures, withheld>>

\* Mutant: the work is probed but never received, as EXIT is.
ProbePopulation(s) ==
  StartWork(s, Head(channel[s]).pop) /\ UNCHANGED <<blocked, channel, reply>>

RecvPopulation(s) == StartWork(s, Head(channel[s]).pop) /\ RecvFrom(s)

SetupEnvironment(s) ==
  /\ Running(s, "setup")
  /\ \E ok \in SetupResults : Goto(s, IF ok THEN "eval" ELSE "failed")
  /\ UNCHANGED <<blocked, channel, reply, job_type, masterVars, servantVars>>

\* One turn of simpleLSM_job::eval_population_fitness: the samples in order;
\* a sample whose evaluation fails is left without fitness and is passed over.
EvalSample(s) ==
  /\ Running(s, "eval")
  /\ \E k \in todo[s] :
       /\ \A other \in todo[s] : k <= other
       /\ todo' = [todo EXCEPT ![s] = @ \ {k}]
       /\ \E result \in SampleResults \ {"exit"} :
            /\ fitness' = [fitness EXCEPT ![s] = IF result = "evaluated" THEN @ \cup {k} ELSE @]
            /\ failures' = IF result = "evaluated" THEN failures ELSE failures \cup {k}
  /\ UNCHANGED <<pc, blocked, channel, reply, job_type, masterVars, temp, pop, withheld>>

\* A sample that cannot be written into the project's files ends in exit(1).
EvalExits(s) ==
  /\ Running(s, "eval")
  /\ todo[s] # {}
  /\ "exit" \in SampleResults
  /\ Goto(s, "failed")
  /\ UNCHANGED <<blocked, channel, reply, job_type, masterVars, servantVars>>

ReturnResults(s) ==
  /\ Running(s, "eval")
  /\ TRUE \in EvalResults
  /\ \E m \in Modes("RESULTS") :
       /\ reply' = [reply EXCEPT ![s] = Append(@, ResultsMsg(pop[s], fitness[s], m))]
       /\ blocked' = IF m = "rendezvous" THEN blocked \cup {s} ELSE blocked
  /\ pop' = [pop EXCEPT ![s] = {}]
  /\ fitness' = [fitness EXCEPT ![s] = {}]
  /\ Goto(s, "probe")
  /\ UNCHANGED <<channel, job_type, masterVars, temp, todo, failures, withheld>>

\* Mutant: the results are sent while samples are still to be evaluated.
SendUnfinishedResults(s) == ReturnResults(s)

\* All samples are done and eval_population_fitness returned true.
SendResults(s) == todo[s] = {} /\ ReturnResults(s)

\* It returned false: the error is logged, nothing is sent, the loop goes on.
WithholdResults(s) ==
  /\ Running(s, "eval")
  /\ todo[s] = {}
  /\ FALSE \in EvalResults
  /\ withheld' = withheld \cup pop[s]
  /\ pop' = [pop EXCEPT ![s] = {}]
  /\ fitness' = [fitness EXCEPT ![s] = {}]
  /\ Goto(s, "probe")
  /\ UNCHANGED <<blocked, channel, reply, job_type, masterVars, temp, todo, failures>>

Servant(s) ==
  \/ ServantExits(s) \/ RecvJobType(s) \/ RecvOptParams(s) \/ RecvPopulation(s)
  \/ SetupEnvironment(s) \/ EvalSample(s) \/ EvalExits(s) \/ SendResults(s)
  \/ WithholdResults(s)

----------------------------------------------------------------------------
\* mpirun (not in the repository): a rank that ends without MPI_Finalize, as
\* exit() and a crash do, makes it kill all the others.
Abort ==
  /\ \E p \in Proc : pc[p] \in {"failed", "crashed"}
  /\ \E p \in Proc : pc[p] \notin Stopped
  /\ pc' = [p \in Proc |-> IF pc[p] \in Stopped THEN pc[p] ELSE "killed"]
  /\ UNCHANGED <<blocked, channel, reply, job_type, masterVars, servantVars>>

AllStopped == \A p \in Proc : pc[p] \in Stopped

\* Every process has ended; a step that changes nothing, so that the only
\* deadlocks are those of processes that wait for one another.
Terminated == AllStopped /\ UNCHANGED vars

Next ==
  \/ Master
  \/ \E s \in Servants : Servant(s)
  \/ Abort
  \/ Terminated

\* Each rank is an operating-system process, scheduled while it can run, and
\* mpirun acts in the end.
Fairness ==
  /\ WF_vars(Master)
  /\ \A s \in Servants : WF_vars(Servant(s))
  /\ WF_vars(Abort)

Spec     == Init /\ [][Next]_vars
FairSpec == Spec /\ Fairness

----------------------------------------------------------------------------
(***************************************************************************)
(* Properties.                                                             *)
(***************************************************************************)

\* Every variable holds a value of its type.
TypeOK ==
  /\ pc \in [Proc -> MasterPc \cup ServantPc]
  /\ pc[MASTER] \in MasterPc
  /\ \A s \in Servants : pc[s] \in ServantPc
  /\ blocked \subseteq Proc
  /\ channel \in [Servants -> Seq(Message)]
  /\ reply \in [Servants -> Seq(Message)]
  /\ job_type \in [Proc -> JOB_TYPE]
  /\ population_size \in 0 .. MaxPopulation
  /\ servant \in Nat \ {0}
  /\ next \in 0 .. MaxPopulation
  /\ results_to_received \in Int
  /\ results \subseteq SampleIds
  /\ valued \subseteq SampleIds
  /\ temp \in [Servants -> {"NULL", "simpleLSM_job"}]
  /\ pop \in [Servants -> SUBSET SampleIds]
  /\ todo \in [Servants -> SUBSET SampleIds]
  /\ fitness \in [Servants -> SUBSET SampleIds]
  /\ failures \subseteq SampleIds
  /\ withheld \subseteq SampleIds

Samples == 0 .. (population_size - 1)

\* The samples in the messages of a channel.
Carried(q) == UNION {q[i].pop : i \in 1 .. Len(q)}

\* The samples on their way to servant s, at s, or on their way back.
Held(s) == Carried(channel[s]) \cup pop[s] \cup Carried(reply[s])

Undistributed == next .. (population_size - 1)

\* The master counts down a number, not the samples it got: at every moment
\* of the collection the count is what is really missing from results, so it
\* cannot pass over zero (quic.cpp:317-330), whatever the arrival order.
CountMatchesResults ==
  pc[MASTER] = "collect" =>
    results_to_received = population_size - Cardinality(results)

\* No sample is dropped between get_subset and the collection: it is still to
\* be distributed, held for some servant, collected, or was withheld by a
\* servant whose evaluation failed.
NoSampleLost ==
  pc[MASTER] # "start" =>
    Samples \subseteq Undistributed \cup results \cup withheld
                      \cup UNION {Held(s) : s \in Servants}

\* No sample is evaluated or collected twice: the subsets of two servants and
\* the messages of one channel are disjoint, and a sample sent back is gone
\* from the servant and from the way to it.
NoSampleTwice ==
  /\ \A s \in Servants :
       /\ Held(s) \cap (results \cup withheld \cup Undistributed) = {}
       /\ Carried(channel[s]) \cap pop[s] = {}
       /\ Carried(channel[s]) \cap Carried(reply[s]) = {}
       /\ pop[s] \cap Carried(reply[s]) = {}
       /\ \A t \in Servants \ {s} : Held(s) \cap Held(t) = {}
  /\ results \cap withheld = {}
  /\ (results \cup withheld) \cap Undistributed = {}

\* The best samples are picked from results only when every sample of the
\* population has been collected, whichever servants were fast or slow.
CompleteAtReduction ==
  pc[MASTER] \in {"send_final_exit", "returning", "done"} /\ job_type[MASTER] # "INVALID_JOB"
    => results = Samples

\* The tag dispatch of a servant relies on the order of the master's sends: it
\* has the master's job type before OPT_PARAMS, a job object before POPULATION
\* (else quic.cpp:433 dereferences NULL), and no work is queued behind EXIT.
ProtocolOrder ==
  \A s \in Servants : pc[s] = "probe" /\ channel[s] # <<>> =>
    LET tag == Head(channel[s]).tag
    IN  /\ tag = "OPT_PARAMS" => job_type[s] = job_type[MASTER]
        /\ tag = "POPULATION" => temp[s] # "NULL" /\ pop[s] = {}
        /\ tag = "EXIT" => Carried(channel[s]) = {}

\* Every subset has a servant: ceil(size / servants) is large enough for the
\* distribution loop never to address a rank past the last one.
SubsetsFit == pc[MASTER] = "send_work" /\ next < population_size => servant \in Servants

\* The program ends on every rank, though sends may block, no servant is told
\* when its results are taken, and a rank may fail (then mpirun ends the rest).
Termination == <>AllStopped

\* The announced minima are taken over evaluated samples: whatever was
\* collected carries the fitness its servant computed.
ResultsCarryFitness == results \subseteq valued

\* What is collected without fitness is exactly what failed: from the servant that
\* evaluates a sample, through the results it sends, to the master that adds them up,
\* no fitness is dropped, none is sent before it is there, and a sample that failed on
\* one servant gets none from another (quic.cpp:317-330, 433-467, simpleLSM_job.cpp:21-31).
ResultsAreEvaluated == valued = results \ failures

\* The master can only wait for ever because a servant withheld its results:
\* with every servant gone and no message left, exactly those are missing.
HangsOnlyOnWithheld ==
  pc[MASTER] = "collect" /\ (\A s \in Servants : pc[s] = "done" /\ reply[s] = <<>>)
    => results_to_received = Cardinality(withheld)

----------------------------------------------------------------------------
(***************************************************************************)
(* The inductive invariant behind the properties about samples.            *)
(***************************************************************************)
Distributing == {"start", "send_job", "send_opt", "send_work", "send_exit"}

\* Where the sending loops are: the start of the next subset is what the
\* servants served so far account for, and the loops address servants only.
SendingLoops ==
  /\ next <= population_size
  /\ pc[MASTER] \in Distributing => results = {}
  /\ pc[MASTER] = "start" => job_type[MASTER] = "INVALID_JOB"
  /\ pc[MASTER] \in {"start", "send_job", "send_opt"} => next = 0
  /\ pc[MASTER] \in {"start", "send_job", "send_opt", "send_exit", "send_final_exit"}
       => servant \in Servants
  /\ pc[MASTER] = "send_work" => next \in {population_size, (servant - 1) * each_servant_work_size}
  /\ pc[MASTER] = "send_exit" => next \in {population_size, servant * each_servant_work_size}
  /\ pc[MASTER] = "collect" => next = population_size

\* No two messages of a channel carry the same sample.
Apart(q) == \A i, j \in 1 .. Len(q) : i # j => q[i].pop \cap q[j].pop = {}

\* A sample of servant s is in one place: in one message to s, at s, or in one
\* message from s.  Only POPULATION brings samples, to a servant that has none.
OnePlace(s) ==
  /\ \A i \in 1 .. Len(channel[s]) : channel[s][i].tag # "POPULATION" => channel[s][i].pop = {}
  /\ pc[s] = "probe" => pop[s] = {}
  /\ Apart(channel[s]) /\ Apart(reply[s])
  /\ Carried(channel[s]) \cap pop[s] = {}
  /\ Carried(channel[s]) \cap Carried(reply[s]) = {}
  /\ pop[s] \cap Carried(reply[s]) = {}

\* A sample is with one servant, collected, or withheld.
OneHolder ==
  /\ \A s \in Servants : Held(s) \cap (results \cup withheld) = {}
  /\ \A s, t \in Servants : s # t => Held(s) \cap Held(t) = {}
  /\ results \cap withheld = {}

\* Exactly the samples before next have been handed out.
AllAccounted ==
  0 .. (next - 1) = results \cup withheld \cup UNION {Held(s) : s \in Servants}

\* Every sample of the population is in exactly one place, and what the master
\* waits for is what it has not got.
Conservation ==
  /\ SendingLoops
  /\ \A s \in Servants : OnePlace(s)
  /\ OneHolder
  /\ AllAccounted
  /\ CountMatchesResults
  /\ CompleteAtReduction

----------------------------------------------------------------------------
(***************************************************************************)
(* The protocol implements the abstract farm.                              *)
(***************************************************************************)
farm_phase ==
  CASE pc[MASTER] = "start" -> "idle"
    [] pc[MASTER] \in {"failed", "killed"} -> "stopped"
    [] OTHER -> IF job_type[MASTER] = "INVALID_JOB" THEN "stopped"
                ELSE IF pc[MASTER] \in {"send_final_exit", "returning", "done"}
                     THEN "announced" ELSE "working"

Farm == INSTANCE WorkFarm WITH
  Workers <- Servants, phase <- farm_phase, unassigned <- Undistributed,
  assigned <- [s \in Servants |-> Held(s)], collected <- results, lost <- withheld

\* Through sends that block, servants that overtake each other, and failures,
\* each sample is handed out once, comes back once, and the best are announced
\* only when all are back.
FarmSpec == Farm!Spec

============================================================================
