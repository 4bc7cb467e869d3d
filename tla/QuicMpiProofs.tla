--------------------------- MODULE QuicMpiProofs ---------------------------
(***************************************************************************)
(* Proofs about module QuicMpi, for every number of servants, every        *)
(* population size and every choice of the other constants: its types, that *)
(* the protocol neither loses nor repeats a sample, what servants read and  *)
(* send back, and that it implements WorkFarm.                              *)
(***************************************************************************)
EXTENDS QuicMpi, FiniteSetTheorems, SequenceTheorems, TLAPS

(***************************************************************************)
(* Messages and channels.                                                  *)
(***************************************************************************)

\* Every message the program sends is a Message (the constructors of QuicMpi).
LEMMA MessageTypes ==
  ASSUME NEW mode \in {"eager", "rendezvous"}
  PROVE  /\ \A tag \in MESSAGE_TYPE : Msg(tag, mode) \in Message
         /\ \A job \in JOB_TYPE : JobMsg(job, mode) \in Message
         /\ \A S \in SUBSET SampleIds :
              /\ PopMsg(S, mode) \in Message
              /\ \A V \in SUBSET SampleIds : ResultsMsg(S, V, mode) \in Message
<1>1. ASSUME NEW tag \in MESSAGE_TYPE
      PROVE  Msg(tag, mode) \in Message
  BY DEF Message, Msg, JOB_TYPE
<1>2. ASSUME NEW job \in JOB_TYPE
      PROVE  JobMsg(job, mode) \in Message
  BY DEF Message, Msg, JobMsg, MESSAGE_TYPE
<1>3. ASSUME NEW S \in SUBSET SampleIds
      PROVE  PopMsg(S, mode) \in Message
  BY DEF Message, Msg, PopMsg, MESSAGE_TYPE, JOB_TYPE
<1>4. ASSUME NEW S \in SUBSET SampleIds, NEW V \in SUBSET SampleIds
      PROVE  ResultsMsg(S, V, mode) \in Message
  BY DEF Message, Msg, ResultsMsg, MESSAGE_TYPE, JOB_TYPE
<1> QED
  BY <1>1, <1>2, <1>3, <1>4

\* A mode an MPI send may take is one of the two modes.
LEMMA ModesType ==
  ASSUME NEW tag, NEW mode \in Modes(tag)
  PROVE  mode \in {"eager", "rendezvous"}
BY DEF Modes

\* world.send keeps the channels, the replies and the set of blocked processes
\* well typed.
LEMMA SendToType ==
  ASSUME TypeOK, NEW s, NEW m \in Message, SendTo(s, m)
  PROVE  /\ channel' \in [Servants -> Seq(Message)]
         /\ reply' \in [Servants -> Seq(Message)]
         /\ blocked' \subseteq Proc
<1>1. MASTER \in Proc
  BY QuicAssumption DEF MASTER, Proc
<1>2. blocked' \subseteq Proc
  BY <1>1 DEF SendTo, TypeOK
<1>3. channel' \in [Servants -> Seq(Message)]
  <2>1. CASE s \in Servants
    <3>1. Append(channel[s], m) \in Seq(Message)
      BY <2>1 DEF TypeOK
    <3> QED
      BY <2>1, <3>1 DEF SendTo, TypeOK
  <2>2. CASE s \notin Servants
    BY <2>2 DEF SendTo, TypeOK
  <2> QED
    BY <2>1, <2>2
<1>4. reply' \in [Servants -> Seq(Message)]
  BY DEF SendTo, TypeOK
<1> QED
  BY <1>2, <1>3, <1>4

\* So does world.recv of a probed message.
LEMMA RecvFromType ==
  ASSUME TypeOK, NEW s \in Servants, channel[s] # <<>>, RecvFrom(s)
  PROVE  /\ Head(channel[s]) \in Message
         /\ channel' \in [Servants -> Seq(Message)]
         /\ reply' \in [Servants -> Seq(Message)]
         /\ blocked' \subseteq Proc
<1>1. channel[s] \in Seq(Message)
  BY DEF TypeOK
<1>2. Head(channel[s]) \in Message /\ Tail(channel[s]) \in Seq(Message)
  BY <1>1, HeadTailProperties
<1>3. channel' \in [Servants -> Seq(Message)]
  BY <1>2 DEF RecvFrom, TypeOK
<1> QED
  BY <1>2, <1>3 DEF RecvFrom, TypeOK

\* The work size is a positive number that leaves no sample without a servant
\* (quic.cpp:280), and get_subset stays inside the population.
LEMMA WorkSizeBounds ==
  ASSUME NEW P \in Nat
  PROVE  /\ WorkSize(P, TotalServants) \in Nat
         /\ TotalServants * WorkSize(P, TotalServants) >= P
<1> DEFINE T == TotalServants
           q == (P + T - 1) \div T
           r == (P + T - 1) % T
<1>1. T \in Nat \ {0}
  BY QuicAssumption
<1>2. /\ q \in Int /\ r \in 0 .. (T - 1)
      /\ P + T - 1 = T * q + r
  BY <1>1, SMT
<1> HIDE DEF q, r
<1>3. T * q >= P
  BY <1>1, <1>2
<1>4. q >= 0
  <2>1. SUFFICES ASSUME q + 1 <= 0 PROVE FALSE
    BY <1>2
  <2>2. T * (q + 1) <= 0
    BY <1>1, <1>2, <2>1
  <2>3. T * (q + 1) = T * q + T
    BY <1>1, <1>2
  <2> QED
    BY <1>1, <1>2, <1>3, <2>2, <2>3
<1> QED
  BY <1>2, <1>3, <1>4 DEF WorkSize, q

\* get_subset returns -1 or a position after start, inside the population.
LEMMA GetSubsetBounds ==
  ASSUME TypeOK, next_subset_start # -1
  PROVE  /\ next < population_size
         /\ next_subset_start \in next .. population_size
         /\ next_subset_start \in 0 .. MaxPopulation
         /\ next .. (next_subset_start - 1) \in SUBSET SampleIds
<1> DEFINE W == WorkSize(population_size, TotalServants)
<1>1. population_size \in 0 .. MaxPopulation /\ next \in 0 .. MaxPopulation /\ MaxPopulation \in Nat
  BY QuicAssumption DEF TypeOK
<1>2. W \in Nat
  BY <1>1, WorkSizeBounds
<1>3. next_subset_start = get_subset(next, W)
  BY DEF next_subset_start, each_servant_work_size
<1> HIDE DEF W
<1>4. next < population_size /\ next_subset_start \in next .. population_size
  BY <1>1, <1>2, <1>3 DEF get_subset
<1> QED
  BY <1>1, <1>4 DEF SampleIds

\* Any set of samples is finite.
LEMMA SamplesFinite ==
  ASSUME NEW S \in SUBSET SampleIds
  PROVE  IsFiniteSet(S) /\ Cardinality(S) \in Nat
<1>1. MaxPopulation - 1 \in Int
  BY QuicAssumption
<1>2. IsFiniteSet(SampleIds)
  BY <1>1, FS_Interval DEF SampleIds
<1>3. IsFiniteSet(S)
  BY <1>2, FS_Subset
<1> QED
  BY <1>3, FS_CardinalityType

----------------------------------------------------------------------------
(***************************************************************************)
(* Type correctness.                                                       *)
(***************************************************************************)
LEMMA InitTypeOK == Init => TypeOK
<1> SUFFICES ASSUME Init PROVE TypeOK
  OBVIOUS
<1>1. /\ TotalServants \in Nat \ {0} /\ MaxPopulation \in Nat \ {0}
      /\ MASTER \in Proc /\ MASTER \notin Servants /\ Servants \subseteq Proc
  BY QuicAssumption DEF MASTER, Proc, Servants
<1>2. \A s \in Servants : <<>> \in Seq(Message)
  BY EmptySeq
<1>3. pc \in [Proc -> MasterPc \cup ServantPc]
  BY DEF Init, MasterPc, ServantPc
<1>4. pc[MASTER] \in MasterPc /\ \A s \in Servants : pc[s] \in ServantPc
  BY <1>1 DEF Init, MasterPc, ServantPc
<1>5. channel \in [Servants -> Seq(Message)] /\ reply \in [Servants -> Seq(Message)]
  BY <1>2 DEF Init
<1>6. job_type \in [Proc -> JOB_TYPE]
  BY DEF Init, JOB_TYPE
<1>7. /\ population_size \in 0 .. MaxPopulation /\ next \in 0 .. MaxPopulation
      /\ servant \in Nat \ {0} /\ results_to_received \in Int
  BY <1>1 DEF Init
<1>8. /\ temp \in [Servants -> {"NULL", "simpleLSM_job"}]
      /\ pop \in [Servants -> SUBSET SampleIds]
      /\ todo \in [Servants -> SUBSET SampleIds]
      /\ fitness \in [Servants -> SUBSET SampleIds]
  BY DEF Init
<1>9. blocked \subseteq Proc /\ results \subseteq SampleIds /\ valued \subseteq SampleIds
      /\ failures \subseteq SampleIds /\ withheld \subseteq SampleIds
  BY DEF Init
<1> QED
  BY <1>3, <1>4, <1>5, <1>6, <1>7, <1>8, <1>9 DEF TypeOK

\* A process that goes on goes to a label of its own.
LEMMA GotoType ==
  ASSUME TypeOK, NEW p \in Proc, NEW label, Goto(p, label),
         IF p = MASTER THEN label \in MasterPc ELSE label \in ServantPc
  PROVE  /\ pc' \in [Proc -> MasterPc \cup ServantPc]
         /\ pc'[MASTER] \in MasterPc
         /\ \A s \in Servants : pc'[s] \in ServantPc
<1>1. MASTER \in Proc /\ MASTER \notin Servants /\ Servants \subseteq Proc
  BY QuicAssumption DEF MASTER, Proc, Servants
<1> QED
  BY <1>1 DEF Goto, TypeOK

\* One round of a sending loop.
LEMMA NextServantType ==
  ASSUME TypeOK, NEW label \in MasterPc, NEW after \in MasterPc, NextServant(label, after)
  PROVE  /\ servant' \in Nat \ {0}
         /\ \E l \in {label, after} : Goto(MASTER, l)
BY DEF NextServant, TypeOK

\* Every step of the master keeps the variables well typed.
LEMMA MasterTypeOK ==
  ASSUME TypeOK, Master
  PROVE  TypeOK'
<1> USE DEF masterVars, servantVars
<1>0. /\ TotalServants \in Nat \ {0} /\ MaxPopulation \in Nat \ {0}
      /\ MASTER \in Proc /\ MASTER \notin Servants /\ Servants \subseteq Proc
  BY QuicAssumption DEF MASTER, Proc, Servants
<1>a. {"start", "send_job", "send_opt", "send_work", "send_exit", "collect",
       "send_final_exit", "returning", "done", "failed"} \subseteq MasterPc
  BY DEF MasterPc, Stopped
<1>b. ASSUME NEW label \in MasterPc, Goto(MASTER, label)
      PROVE  /\ pc' \in [Proc -> MasterPc \cup ServantPc]
             /\ pc'[MASTER] \in MasterPc
             /\ \A s \in Servants : pc'[s] \in ServantPc
  BY <1>0, <1>b, GotoType
<1>1. CASE ReadOptFileFails
  BY <1>1, <1>a, <1>b DEF ReadOptFileFails, TypeOK
<1>2. CASE ReadOptFileWithoutJob
  BY <1>2, <1>a, <1>b DEF ReadOptFileWithoutJob, TypeOK
<1>3. CASE GeneratePopulation
  <2>1. job_type' \in [Proc -> JOB_TYPE]
    BY <1>3 DEF GeneratePopulation, Generate, TypeOK, JOB_TYPE
  <2>2. population_size' \in 0 .. MaxPopulation
    BY <1>3, <1>0 DEF GeneratePopulation, Generate
  <2>3. Goto(MASTER, "send_job")
    BY <1>3 DEF GeneratePopulation, Generate
  <2> QED
    BY <1>3, <2>1, <2>2, <2>3, <1>a, <1>b DEF GeneratePopulation, Generate, TypeOK
<1>4. CASE SendJobType
  <2>1. PICK m \in Modes("JOB_DATATYPE") : SendTo(servant, JobMsg(job_type[MASTER], m))
    BY <1>4 DEF SendJobType
  <2>2. JobMsg(job_type[MASTER], m) \in Message
    BY <1>0, ModesType, MessageTypes DEF TypeOK
  <2>3. \E l \in {"send_job", "send_opt"} : Goto(MASTER, l)
    BY <1>4, <1>a, NextServantType DEF SendJobType
  <2>4. servant' \in Nat \ {0}
    BY <1>4, <1>a, NextServantType DEF SendJobType
  <2> QED
    BY <1>4, <1>a, <1>b, <2>1, <2>2, <2>3, <2>4, SendToType DEF SendJobType, TypeOK
<1>5. CASE SendOptParams
  <2>1. PICK m \in Modes("OPT_PARAMS") : SendTo(servant, Msg("OPT_PARAMS", m))
    BY <1>5 DEF SendOptParams
  <2>2. Msg("OPT_PARAMS", m) \in Message
    BY ModesType, MessageTypes DEF MESSAGE_TYPE
  <2>3. \E l \in {"send_opt", "send_work"} : Goto(MASTER, l)
    BY <1>5, <1>a, NextServantType DEF SendOptParams
  <2>4. servant' \in Nat \ {0}
    BY <1>5, <1>a, NextServantType DEF SendOptParams
  <2> QED
    BY <1>5, <1>a, <1>b, <2>1, <2>2, <2>3, <2>4, SendToType DEF SendOptParams, TypeOK
<1>6. CASE SendPopulation
  <2> DEFINE S == next .. (next_subset_start - 1)
  <2>1. PICK m \in Modes("POPULATION") : SendTo(servant, PopMsg(S, m))
    BY <1>6 DEF SendPopulation, Distribute
  <2>2. next' \in 0 .. MaxPopulation /\ S \in SUBSET SampleIds
    BY <1>6, GetSubsetBounds DEF SendPopulation, Distribute
  <2> HIDE DEF S
  <2>3. PopMsg(S, m) \in Message
    BY <2>2, ModesType, MessageTypes
  <2>4. Goto(MASTER, "send_exit")
    BY <1>6 DEF SendPopulation, Distribute
  <2> QED
    BY <1>6, <1>a, <1>b, <2>1, <2>2, <2>3, <2>4, SendToType DEF SendPopulation, Distribute, TypeOK
<1>7. CASE IsendExit
  <2>1. Msg("EXIT", "eager") \in Message
    BY MessageTypes DEF MESSAGE_TYPE
  <2>2. servant' \in Nat \ {0}
    BY <1>7 DEF IsendExit, TypeOK
  <2> QED
    BY <1>7, <1>a, <1>b, <2>1, <2>2, SendToType DEF IsendExit, TypeOK
<1>8. CASE WaitForResults
  <2>1. results_to_received' \in Int
    BY <1>8 DEF WaitForResults, WaitFor, TypeOK
  <2> QED
    BY <1>8, <1>a, <1>b, <2>1 DEF WaitForResults, WaitFor, TypeOK
<1>9. ASSUME NEW s \in Servants, CollectResults(s)
      PROVE  TypeOK'
  <2> DEFINE msg == Head(reply[s])
  <2>1. msg \in Message /\ Tail(reply[s]) \in Seq(Message)
    BY <1>9, HeadTailProperties DEF CollectResults, Collect, TypeOK
  <2>2. msg.pop \subseteq SampleIds /\ msg.valued \subseteq SampleIds
    BY <2>1 DEF Message
  <2>3. Cardinality(msg.pop) \in Nat
    BY <2>2, SamplesFinite
  <2>4. reply' \in [Servants -> Seq(Message)]
    BY <1>9, <2>1 DEF CollectResults, Collect, TypeOK
  <2>5. results_to_received' \in Int
    BY <1>9, <2>3 DEF CollectResults, Collect, TypeOK
  <2>6. results' \subseteq SampleIds /\ valued' \subseteq SampleIds /\ blocked' \subseteq Proc
    BY <1>9, <2>2 DEF CollectResults, Collect, TypeOK
  <2> QED
    BY <1>9, <2>4, <2>5, <2>6 DEF CollectResults, Collect, TypeOK
<1>10. CASE Optimize
  BY <1>10, <1>a, <1>b DEF Optimize, TypeOK
<1>11. CASE SendExit
  <2>1. PICK m \in Modes("EXIT") : SendTo(servant, Msg("EXIT", m))
    BY <1>11 DEF SendExit
  <2>2. Msg("EXIT", m) \in Message
    BY ModesType, MessageTypes DEF MESSAGE_TYPE
  <2>3. \E l \in {"send_final_exit", "returning"} : Goto(MASTER, l)
    BY <1>11, <1>a, NextServantType DEF SendExit
  <2>4. servant' \in Nat \ {0}
    BY <1>11, <1>a, NextServantType DEF SendExit
  <2> QED
    BY <1>11, <1>a, <1>b, <2>1, <2>2, <2>3, <2>4, SendToType DEF SendExit, TypeOK
<1>12. CASE MasterReturns
  BY <1>12, <1>a, <1>b DEF MasterReturns, TypeOK
<1> QED
  BY <1>1, <1>2, <1>3, <1>4, <1>5, <1>6, <1>7, <1>8, <1>9, <1>10, <1>11, <1>12 DEF Master

\* And so does every step of a servant.
LEMMA ServantTypeOK ==
  ASSUME TypeOK, NEW s \in Servants, Servant(s)
  PROVE  TypeOK'
<1> USE DEF masterVars, servantVars
<1>0. /\ MASTER \in Proc /\ MASTER \notin Servants /\ Servants \subseteq Proc
      /\ s \in Proc /\ s # MASTER
  BY QuicAssumption DEF MASTER, Proc, Servants
<1>a. {"probe", "setup", "eval", "done", "failed", "crashed"} \subseteq ServantPc
  BY DEF ServantPc, Stopped
<1>b. ASSUME NEW label \in ServantPc, Goto(s, label)
      PROVE  /\ pc' \in [Proc -> MasterPc \cup ServantPc]
             /\ pc'[MASTER] \in MasterPc
             /\ \A t \in Servants : pc'[t] \in ServantPc
  BY <1>0, <1>b, GotoType
<1>1. CASE ServantExits(s)
  BY <1>1, <1>a, <1>b DEF ServantExits, TypeOK
<1>2. CASE RecvJobType(s)
  <2>1. channel[s] # <<>> /\ RecvFrom(s)
    BY <1>2 DEF RecvJobType, Probes
  <2>2. Head(channel[s]).job \in JOB_TYPE
    BY <2>1, RecvFromType DEF Message
  <2>3. job_type' \in [Proc -> JOB_TYPE]
    BY <1>2, <2>2 DEF RecvJobType, TypeOK
  <2> QED
    BY <1>2, <2>1, <2>3, RecvFromType DEF RecvJobType, TypeOK
<1>3. CASE RecvOptParams(s)
  <2>1. channel[s] # <<>> /\ RecvFrom(s)
    BY <1>3 DEF RecvOptParams, Probes
  <2>2. temp' \in [Servants -> {"NULL", "simpleLSM_job"}]
    BY <1>3 DEF RecvOptParams, TypeOK
  <2>3. pc' = pc \/ \E label \in {"crashed", "failed"} : Goto(s, label)
    BY <1>3 DEF RecvOptParams
  <2> QED
    BY <1>3, <1>a, <1>b, <2>1, <2>2, <2>3, RecvFromType DEF RecvOptParams, TypeOK
<1>4. CASE RecvPopulation(s)
  <2>1. channel[s] # <<>> /\ RecvFrom(s)
    BY <1>4 DEF RecvPopulation, StartWork, Probes
  <2>2. Head(channel[s]).pop \in SUBSET SampleIds
    BY <2>1, RecvFromType DEF Message
  <2>3. /\ pop' \in [Servants -> SUBSET SampleIds]
        /\ todo' \in [Servants -> SUBSET SampleIds]
        /\ fitness' \in [Servants -> SUBSET SampleIds]
    BY <1>4, <2>2 DEF RecvPopulation, StartWork, TypeOK
  <2>4. \E label \in {"crashed", "setup"} : Goto(s, label)
    BY <1>4 DEF RecvPopulation, StartWork
  <2> QED
    BY <1>4, <1>a, <1>b, <2>1, <2>3, <2>4, RecvFromType DEF RecvPopulation, StartWork, TypeOK
<1>5. CASE SetupEnvironment(s)
  <2>1. \E label \in {"eval", "failed"} : Goto(s, label)
    BY <1>5 DEF SetupEnvironment
  <2> QED
    BY <1>5, <1>a, <1>b, <2>1 DEF SetupEnvironment, TypeOK
<1>6. CASE EvalSample(s)
  <2>1. PICK k \in todo[s] :
          /\ todo' = [todo EXCEPT ![s] = @ \ {k}]
          /\ \E result \in SampleResults \ {"exit"} :
               /\ fitness' = [fitness EXCEPT ![s] = IF result = "evaluated" THEN @ \cup {k} ELSE @]
               /\ failures' = IF result = "evaluated" THEN failures ELSE failures \cup {k}
    BY <1>6 DEF EvalSample
  <2>2. todo' \in [Servants -> SUBSET SampleIds]
    BY <2>1 DEF TypeOK
  <2>3. fitness' \in [Servants -> SUBSET SampleIds] /\ failures' \subseteq SampleIds
    BY <2>1 DEF TypeOK
  <2> QED
    BY <1>6, <2>2, <2>3 DEF EvalSample, TypeOK
<1>7. CASE SendResults(s)
  <2>1. PICK m \in Modes("RESULTS") :
          /\ reply' = [reply EXCEPT ![s] = Append(@, ResultsMsg(pop[s], fitness[s], m))]
          /\ blocked' = IF m = "rendezvous" THEN blocked \cup {s} ELSE blocked
    BY <1>7 DEF SendResults, ReturnResults
  <2>2. ResultsMsg(pop[s], fitness[s], m) \in Message
    BY ModesType, MessageTypes DEF TypeOK
  <2>3. reply' \in [Servants -> Seq(Message)]
    <3>1. Append(reply[s], ResultsMsg(pop[s], fitness[s], m)) \in Seq(Message)
      BY <2>2 DEF TypeOK
    <3> QED
      BY <2>1, <3>1 DEF TypeOK
  <2>4. blocked' \subseteq Proc
    BY <1>0, <2>1 DEF TypeOK
  <2>5. pop' \in [Servants -> SUBSET SampleIds] /\ fitness' \in [Servants -> SUBSET SampleIds]
    BY <1>7 DEF SendResults, ReturnResults, TypeOK
  <2> QED
    BY <1>7, <1>a, <1>b, <2>3, <2>4, <2>5 DEF SendResults, ReturnResults, TypeOK
<1>8. CASE WithholdResults(s)
  <2>1. pop' \in [Servants -> SUBSET SampleIds] /\ fitness' \in [Servants -> SUBSET SampleIds]
    BY <1>8 DEF WithholdResults, TypeOK
  <2>2. withheld' \subseteq SampleIds
    BY <1>8 DEF WithholdResults, TypeOK
  <2> QED
    BY <1>8, <1>a, <1>b, <2>1, <2>2 DEF WithholdResults, TypeOK
<1>9. CASE EvalExits(s)
  BY <1>9, <1>a, <1>b DEF EvalExits, TypeOK
<1> QED
  BY <1>1, <1>2, <1>3, <1>4, <1>5, <1>6, <1>7, <1>8, <1>9 DEF Servant

\* mpirun only moves the programs to "killed".
LEMMA AbortTypeOK ==
  ASSUME TypeOK, Abort
  PROVE  TypeOK'
<1> USE DEF masterVars, servantVars
<1>1. MASTER \in Proc /\ Servants \subseteq Proc
  BY QuicAssumption DEF MASTER, Proc, Servants
<1>2. "killed" \in MasterPc /\ "killed" \in ServantPc
  BY DEF MasterPc, ServantPc, Stopped
<1>3. pc' = [p \in Proc |-> IF pc[p] \in Stopped THEN pc[p] ELSE "killed"]
  BY DEF Abort
<1>4. pc' \in [Proc -> MasterPc \cup ServantPc]
  BY <1>2, <1>3 DEF TypeOK
<1>5. pc'[MASTER] \in MasterPc /\ \A s \in Servants : pc'[s] \in ServantPc
  BY <1>1, <1>2, <1>3 DEF TypeOK
<1> QED
  BY <1>4, <1>5 DEF Abort, TypeOK

\* Every step keeps the variables well typed.
LEMMA NextTypeOK == TypeOK /\ [Next]_vars => TypeOK'
<1> SUFFICES ASSUME TypeOK, [Next]_vars PROVE TypeOK'
  OBVIOUS
<1>1. CASE Next
  BY <1>1, MasterTypeOK, ServantTypeOK, AbortTypeOK
     DEF Next, Terminated, vars, masterVars, servantVars, TypeOK
<1>2. CASE UNCHANGED vars
  BY <1>2 DEF vars, masterVars, servantVars, TypeOK
<1> QED
  BY <1>1, <1>2

\* Every variable always holds a value of its type: in particular no subset
\* that main() cuts from the population reaches past its end.
THEOREM TypeCorrect == Spec => []TypeOK
<1>1. Init => TypeOK
  BY InitTypeOK
<1>2. TypeOK /\ [Next]_vars => TypeOK'
  BY NextTypeOK
<1> QED
  BY <1>1, <1>2, PTL DEF Spec
-----------------------------------------------------------------------------
(***************************************************************************)
(* The samples in a channel.                                               *)
(***************************************************************************)

\* Sending a message adds its samples to the channel, behind the others.
LEMMA CarriedAppend ==
  ASSUME NEW q \in Seq(Message), NEW m \in Message
  PROVE  /\ Carried(Append(q, m)) = Carried(q) \cup m.pop
         /\ Apart(q) /\ m.pop \cap Carried(q) = {} => Apart(Append(q, m))
<1> DEFINE a == Append(q, m)
<1>1. /\ Len(q) \in Nat /\ Len(a) = Len(q) + 1
      /\ \A i \in 1 .. Len(q) : a[i] = q[i]
      /\ a[Len(q) + 1] = m
  OBVIOUS
<1> HIDE DEF a
<1>2. Carried(a) = Carried(q) \cup m.pop
  <2>1. ASSUME NEW k \in Carried(a)
        PROVE  k \in Carried(q) \cup m.pop
    <3>1. PICK i \in 1 .. Len(a) : k \in a[i].pop
      BY DEF Carried
    <3>2. CASE i = Len(q) + 1
      BY <1>1, <3>1, <3>2
    <3>3. CASE i \in 1 .. Len(q)
      BY <1>1, <3>1, <3>3 DEF Carried
    <3> QED
      BY <1>1, <3>2, <3>3
  <2>2. ASSUME NEW k \in m.pop
        PROVE  k \in Carried(a)
    <3>1. Len(q) + 1 \in 1 .. Len(a) /\ k \in a[Len(q) + 1].pop
      BY <1>1
    <3> QED
      BY <3>1 DEF Carried
  <2>3. ASSUME NEW k \in Carried(q)
        PROVE  k \in Carried(a)
    <3>1. PICK i \in 1 .. Len(q) : k \in q[i].pop
      BY DEF Carried
    <3>2. i \in 1 .. Len(a) /\ k \in a[i].pop
      BY <1>1, <3>1
    <3> QED
      BY <3>2 DEF Carried
  <2> QED
    BY <2>1, <2>2, <2>3
<1>3. ASSUME Apart(q), m.pop \cap Carried(q) = {}
      PROVE  Apart(a)
  <2> SUFFICES ASSUME NEW i \in 1 .. Len(a), NEW j \in 1 .. Len(a), i # j
               PROVE  a[i].pop \cap a[j].pop = {}
    BY DEF Apart
  <2>1. \A n \in 1 .. Len(q) : m.pop \cap q[n].pop = {}
    BY <1>3 DEF Carried
  <2>2. CASE i \in 1 .. Len(q) /\ j \in 1 .. Len(q)
    BY <1>1, <1>3, <2>2 DEF Apart
  <2>3. CASE i = Len(q) + 1
    BY <1>1, <2>1, <2>3
  <2>4. CASE j = Len(q) + 1
    BY <1>1, <2>1, <2>4
  <2> QED
    BY <1>1, <2>2, <2>3, <2>4
<1> QED
  BY <1>2, <1>3 DEF a

\* Receiving the oldest message takes its samples, and only them, away.
LEMMA CarriedTail ==
  ASSUME NEW q \in Seq(Message), q # <<>>
  PROVE  /\ Carried(q) = Head(q).pop \cup Carried(Tail(q))
         /\ Apart(q) => Apart(Tail(q)) /\ Head(q).pop \cap Carried(Tail(q)) = {}
<1> DEFINE r == Tail(q)
<1>1. /\ Len(q) \in Nat /\ Len(q) > 0 /\ Len(r) = Len(q) - 1
      /\ \A i \in 1 .. Len(r) : r[i] = q[i + 1]
      /\ Head(q) = q[1]
  <2>1. Len(q) \in Nat \ {0}
    BY EmptySeq
  <2> QED
    BY <2>1, HeadTailProperties
<1> HIDE DEF r
<1>2. Carried(q) = Head(q).pop \cup Carried(r)
  <2>1. ASSUME NEW k \in Carried(q)
        PROVE  k \in Head(q).pop \cup Carried(r)
    <3>1. PICK i \in 1 .. Len(q) : k \in q[i].pop
      BY DEF Carried
    <3>2. CASE i = 1
      BY <1>1, <3>1, <3>2
    <3>3. CASE i - 1 \in 1 .. Len(r)
      <4>1. r[i - 1] = q[i]
        BY <1>1, <3>3
      <4> QED
        BY <3>1, <3>3, <4>1 DEF Carried
    <3> QED
      BY <1>1, <3>2, <3>3
  <2>2. ASSUME NEW k \in Head(q).pop
        PROVE  k \in Carried(q)
    BY <1>1 DEF Carried
  <2>3. ASSUME NEW k \in Carried(r)
        PROVE  k \in Carried(q)
    <3>1. PICK i \in 1 .. Len(r) : k \in r[i].pop
      BY DEF Carried
    <3>2. i + 1 \in 1 .. Len(q) /\ k \in q[i + 1].pop
      BY <1>1, <3>1
    <3> QED
      BY <3>2 DEF Carried
  <2> QED
    BY <2>1, <2>2, <2>3
<1>3. ASSUME Apart(q)
      PROVE  Apart(r) /\ Head(q).pop \cap Carried(r) = {}
  <2>1. ASSUME NEW i \in 1 .. Len(r), NEW j \in 1 .. Len(r), i # j
        PROVE  r[i].pop \cap r[j].pop = {}
    <3>1. /\ i + 1 \in 1 .. Len(q) /\ j + 1 \in 1 .. Len(q) /\ i + 1 # j + 1
          /\ r[i] = q[i + 1] /\ r[j] = q[j + 1]
      BY <1>1, <2>1
    <3> QED
      BY <1>3, <3>1 DEF Apart
  <2>2. ASSUME NEW k \in Carried(r), k \in Head(q).pop
        PROVE  FALSE
    <3>1. PICK i \in 1 .. Len(r) : k \in r[i].pop
      BY DEF Carried
    <3>2. i + 1 \in 1 .. Len(q) /\ 1 \in 1 .. Len(q) /\ i + 1 # 1 /\ k \in q[i + 1].pop
      BY <1>1, <3>1
    <3> QED
      BY <1>1, <1>3, <2>2, <3>2 DEF Apart
  <2> QED
    BY <2>1, <2>2 DEF Apart
<1> QED
  BY <1>2, <1>3 DEF r

\* A channel without messages carries nothing.
LEMMA CarriedEmpty == Carried(<<>>) = {} /\ Apart(<<>>)
BY DEF Carried, Apart

----------------------------------------------------------------------------
(***************************************************************************)
(* What the steps do to the samples of one servant.                        *)
(***************************************************************************)

\* A step that touches neither the channels of t nor its population.
LEMMA Untouched ==
  ASSUME NEW t \in Servants, OnePlace(t),
         channel'[t] = channel[t], reply'[t] = reply[t], pop'[t] = pop[t],
         pc'[t] = "probe" => pc[t] = "probe"
  PROVE  OnePlace(t)' /\ Held(t)' = Held(t)
BY DEF OnePlace, Held

\* A message that carries no sample is added to the channel of t.
LEMMA EmptySend ==
  ASSUME TypeOK, NEW t \in Servants, OnePlace(t), NEW m \in Message, m.pop = {},
         channel'[t] = Append(channel[t], m), reply'[t] = reply[t],
         pop'[t] = pop[t], pc'[t] = pc[t]
  PROVE  OnePlace(t)' /\ Held(t)' = Held(t)
<1>1. channel[t] \in Seq(Message)
  BY DEF TypeOK
<1>2. Carried(channel'[t]) = Carried(channel[t]) /\ Apart(channel'[t])
  <2>1. Carried(channel'[t]) = Carried(channel[t]) \cup m.pop
    BY <1>1, CarriedAppend
  <2>2. m.pop \cap Carried(channel[t]) = {} /\ Apart(channel[t])
    BY DEF OnePlace
  <2>3. Apart(channel'[t])
    BY <1>1, <2>2, CarriedAppend
  <2> QED
    BY <2>1, <2>3
<1>3. \A i \in 1 .. Len(channel'[t]) : channel'[t][i].tag # "POPULATION" => channel'[t][i].pop = {}
  BY <1>1 DEF OnePlace
<1> QED
  BY <1>2, <1>3 DEF OnePlace, Held

\* A message without samples is taken off the channel of t.
LEMMA EmptyReceive ==
  ASSUME TypeOK, NEW t \in Servants, OnePlace(t),
         channel[t] # <<>>, Head(channel[t]).tag # "POPULATION",
         channel'[t] = Tail(channel[t]), reply'[t] = reply[t], pop'[t] = pop[t],
         pc'[t] = "probe" => pc[t] = "probe"
  PROVE  OnePlace(t)' /\ Held(t)' = Held(t)
<1>1. channel[t] \in Seq(Message)
  BY DEF TypeOK
<1>2. /\ Len(channel[t]) \in Nat /\ 1 \in 1 .. Len(channel[t])
      /\ Head(channel[t]) = channel[t][1]
      /\ Len(channel'[t]) = Len(channel[t]) - 1
      /\ \A i \in 1 .. Len(channel'[t]) : channel'[t][i] = channel[t][i + 1]
  BY <1>1, EmptySeq, HeadTailProperties
<1>3. Head(channel[t]).pop = {}
  BY <1>2 DEF OnePlace
<1>4. Carried(channel'[t]) = Carried(channel[t]) /\ Apart(channel'[t])
  <2>1. Carried(channel[t]) = Head(channel[t]).pop \cup Carried(channel'[t])
    BY <1>1, CarriedTail
  <2>2. Apart(channel[t])
    BY DEF OnePlace
  <2>3. Apart(channel'[t])
    BY <1>1, <2>2, CarriedTail
  <2> QED
    BY <1>3, <2>1, <2>3
<1>5. \A i \in 1 .. Len(channel'[t]) : channel'[t][i].tag # "POPULATION" => channel'[t][i].pop = {}
  <2>1. \A i \in 1 .. Len(channel'[t]) : i + 1 \in 1 .. Len(channel[t])
    BY <1>2
  <2> QED
    BY <1>2, <2>1 DEF OnePlace
<1> QED
  BY <1>4, <1>5 DEF OnePlace, Held

\* A subset that nobody has is sent to t.
LEMMA SubsetSend ==
  ASSUME TypeOK, NEW t \in Servants, OnePlace(t), NEW m \in Message,
         m.tag = "POPULATION", m.pop \cap Held(t) = {},
         channel'[t] = Append(channel[t], m), reply'[t] = reply[t],
         pop'[t] = pop[t], pc'[t] = pc[t]
  PROVE  OnePlace(t)' /\ Held(t)' = Held(t) \cup m.pop
<1>1. channel[t] \in Seq(Message)
  BY DEF TypeOK
<1>2. Carried(channel'[t]) = Carried(channel[t]) \cup m.pop
  BY <1>1, CarriedAppend
<1>3. /\ m.pop \cap Carried(channel[t]) = {}
      /\ m.pop \cap pop[t] = {}
      /\ m.pop \cap Carried(reply[t]) = {}
  BY DEF Held
<1>4. Apart(channel'[t])
  BY <1>1, <1>3, CarriedAppend DEF OnePlace
<1>5. \A i \in 1 .. Len(channel'[t]) : channel'[t][i].tag # "POPULATION" => channel'[t][i].pop = {}
  BY <1>1 DEF OnePlace
<1>6. Held(t)' = Held(t) \cup m.pop
  BY <1>2 DEF Held
<1> QED
  BY <1>2, <1>3, <1>4, <1>5, <1>6 DEF OnePlace

\* The subset at the head of its channel becomes the population of t.
LEMMA SubsetReceive ==
  ASSUME TypeOK, NEW t \in Servants, OnePlace(t), pc[t] = "probe", channel[t] # <<>>,
         channel'[t] = Tail(channel[t]), reply'[t] = reply[t],
         pop'[t] = Head(channel[t]).pop, pc'[t] # "probe"
  PROVE  OnePlace(t)' /\ Held(t)' = Held(t)
<1>1. channel[t] \in Seq(Message)
  BY DEF TypeOK
<1>2. Carried(channel[t]) = pop'[t] \cup Carried(channel'[t])
  BY <1>1, CarriedTail
<1>3. Apart(channel'[t]) /\ pop'[t] \cap Carried(channel'[t]) = {}
  BY <1>1, CarriedTail DEF OnePlace
<1>4. pop[t] = {}
  BY DEF OnePlace
<1>5. Held(t)' = Held(t)
  BY <1>2, <1>4 DEF Held
<1>6. \A i \in 1 .. Len(channel'[t]) : channel'[t][i].tag # "POPULATION" => channel'[t][i].pop = {}
  <2>1. \A i \in 1 .. Len(channel'[t]) :
          i + 1 \in 1 .. Len(channel[t]) /\ channel'[t][i] = channel[t][i + 1]
    BY <1>1, EmptySeq, HeadTailProperties
  <2> QED
    BY <2>1 DEF OnePlace
<1>7. Carried(channel[t]) \cap Carried(reply[t]) = {}
  BY DEF OnePlace
<1>8. Carried(channel'[t]) \cap Carried(reply'[t]) = {} /\ pop'[t] \cap Carried(reply'[t]) = {}
  BY <1>2, <1>7
<1> QED
  BY <1>3, <1>5, <1>6, <1>8 DEF OnePlace

\* The population of t is sent back.
LEMMA ResultsSend ==
  ASSUME TypeOK, NEW t \in Servants, OnePlace(t), NEW m \in Message, m.pop = pop[t],
         channel'[t] = channel[t], reply'[t] = Append(reply[t], m), pop'[t] = {}
  PROVE  OnePlace(t)' /\ Held(t)' = Held(t)
<1>1. reply[t] \in Seq(Message)
  BY DEF TypeOK
<1>2. Carried(reply'[t]) = Carried(reply[t]) \cup pop[t]
  BY <1>1, CarriedAppend
<1>3. m.pop \cap Carried(reply[t]) = {} /\ Apart(reply[t])
  BY DEF OnePlace
<1>4. Apart(reply'[t])
  BY <1>1, <1>3, CarriedAppend
<1>5. Held(t)' = Held(t)
  BY <1>2 DEF Held
<1> QED
  BY <1>2, <1>4, <1>5 DEF OnePlace

\* The oldest results of t are collected.
LEMMA ResultsCollect ==
  ASSUME TypeOK, NEW t \in Servants, OnePlace(t), reply[t] # <<>>,
         channel'[t] = channel[t], reply'[t] = Tail(reply[t]), pop'[t] = pop[t], pc'[t] = pc[t]
  PROVE  /\ OnePlace(t)'
         /\ Head(reply[t]).pop \subseteq Held(t)
         /\ Held(t)' = Held(t) \ Head(reply[t]).pop
<1>1. reply[t] \in Seq(Message)
  BY DEF TypeOK
<1> DEFINE S == Head(reply[t]).pop
<1>2. Carried(reply[t]) = S \cup Carried(reply'[t])
  BY <1>1, CarriedTail
<1>3. Apart(reply'[t]) /\ S \cap Carried(reply'[t]) = {}
  BY <1>1, CarriedTail DEF OnePlace
<1> HIDE DEF S
<1>4. /\ Carried(channel[t]) \cap Carried(reply[t]) = {}
      /\ pop[t] \cap Carried(reply[t]) = {}
  BY DEF OnePlace
<1>5. Held(t)' = Held(t) \ S
  BY <1>2, <1>3, <1>4 DEF Held
<1>6. S \subseteq Held(t)
  BY <1>2 DEF Held
<1>7. OnePlace(t)'
  BY <1>2, <1>3, <1>4 DEF OnePlace
<1> QED
  BY <1>5, <1>6, <1>7 DEF S

\* The population of t is dropped after a failed evaluation.
LEMMA ResultsDropped ==
  ASSUME NEW t \in Servants, OnePlace(t),
         channel'[t] = channel[t], reply'[t] = reply[t], pop'[t] = {}
  PROVE  /\ OnePlace(t)'
         /\ pop[t] \subseteq Held(t)
         /\ Held(t)' = Held(t) \ pop[t]
<1>1. Carried(channel[t]) \cap pop[t] = {} /\ pop[t] \cap Carried(reply[t]) = {}
  BY DEF OnePlace
<1>2. Held(t)' = Held(t) \ pop[t]
  BY <1>1 DEF Held
<1> QED
  BY <1>2 DEF OnePlace, Held

----------------------------------------------------------------------------
(***************************************************************************)
(* What a step of the whole system does to the samples.                    *)
(***************************************************************************)
KeptExcept(s) == \A t \in Servants : t # s => Held(t)' = Held(t)

Internal ==
  /\ \A t \in Servants : Held(t)' = Held(t)
  /\ UNCHANGED <<results, withheld, next>>

Assigned(s) ==
  /\ Held(s)' = Held(s) \cup (next .. (next' - 1))
  /\ KeptExcept(s)
  /\ next' \in next .. population_size
  /\ UNCHANGED <<results, withheld>>

Collected(s, S) ==
  /\ S \subseteq Held(s)
  /\ Held(s)' = Held(s) \ S
  /\ KeptExcept(s)
  /\ results' = results \cup S
  /\ UNCHANGED <<withheld, next>>

Dropped(s, S) ==
  /\ S \subseteq Held(s)
  /\ Held(s)' = Held(s) \ S
  /\ KeptExcept(s)
  /\ withheld' = withheld \cup S
  /\ UNCHANGED <<results, next>>

\* The distribution loop only addresses servants (quic.cpp:305-312): what is
\* left after the last one is empty, by the rounding up of quic.cpp:280.
LEMMA SubsetHasServant ==
  ASSUME TypeOK, SendingLoops, pc[MASTER] = "send_work", next < population_size
  PROVE  servant \in Servants
<1> DEFINE W == WorkSize(population_size, TotalServants)
<1>1. /\ TotalServants \in Nat \ {0} /\ population_size \in Nat
      /\ next \in Nat /\ servant \in Nat \ {0}
  BY QuicAssumption DEF TypeOK
<1>2. W \in Nat /\ TotalServants * W >= population_size
  BY <1>1, WorkSizeBounds
<1>3. next = (servant - 1) * W
  BY <1>1 DEF SendingLoops, each_servant_work_size
<1> HIDE DEF W
<1>4. SUFFICES ASSUME servant - 1 >= TotalServants PROVE FALSE
  BY <1>1 DEF Servants
<1>5. (servant - 1) * W >= TotalServants * W
  <2>1. PICK d \in Nat : servant - 1 = TotalServants + d
    <3>1. servant - 1 - TotalServants \in Nat
      BY <1>1, <1>4
    <3>2. servant - 1 = TotalServants + (servant - 1 - TotalServants)
      BY <1>1
    <3> QED
      BY <3>1, <3>2
  <2>2. (servant - 1) * W = TotalServants * W + d * W
    BY <1>1, <1>2, <2>1
  <2>3. d * W >= 0
    BY <1>2
  <2>4. TotalServants * W \in Int /\ d * W \in Int
    BY <1>1, <1>2
  <2> QED
    BY <2>2, <2>3, <2>4
<1> QED
  BY <1>1, <1>2, <1>3, <1>5

\* A sample with a servant has been handed out.
LEMMA HeldBeforeNext ==
  ASSUME AllAccounted, NEW s \in Servants
  PROVE  Held(s) \subseteq 0 .. (next - 1)
BY DEF AllAccounted

\* Every step of the master keeps each sample in one place, and either moves no
\* sample, or sends one subset, or collects one result message.
LEMMA MasterMovement ==
  ASSUME TypeOK, SendingLoops, AllAccounted, \A s \in Servants : OnePlace(s), Master
  PROVE  /\ \A s \in Servants : OnePlace(s)'
         /\ \/ Internal
            \/ \E s \in Servants : Assigned(s)
            \/ \E s \in Servants : reply[s] # <<>> /\ Collected(s, Head(reply[s]).pop)
<1> USE DEF masterVars, servantVars
<1>0. MASTER \notin Servants /\ Servants \subseteq Proc
  BY DEF MASTER, Servants, Proc
<1>a. ASSUME NEW label, Goto(MASTER, label)
      PROVE  \A t \in Servants : pc'[t] = pc[t]
  BY <1>0, <1>a DEF Goto, TypeOK
<1>b. ASSUME \A t \in Servants : channel'[t] = channel[t] /\ reply'[t] = reply[t]
                                 /\ pop'[t] = pop[t] /\ pc'[t] = pc[t],
             UNCHANGED <<results, withheld, next>>
      PROVE  Internal /\ \A t \in Servants : OnePlace(t)'
  BY <1>b, Untouched DEF Internal
<1>c. ASSUME NEW m \in Message, m.pop = {}, SendTo(servant, m),
             \A t \in Servants : pop'[t] = pop[t] /\ pc'[t] = pc[t],
             UNCHANGED <<results, withheld, next>>
      PROVE  Internal /\ \A t \in Servants : OnePlace(t)'
  <2>1. ASSUME NEW t \in Servants
        PROVE  OnePlace(t)' /\ Held(t)' = Held(t)
    <3>1. reply'[t] = reply[t]
      BY <1>c DEF SendTo
    <3>2. CASE t = servant
      <4>1. channel'[t] = Append(channel[t], m)
        BY <1>c, <3>2 DEF SendTo, TypeOK
      <4> QED
        BY <1>c, <3>1, <4>1, EmptySend
    <3>3. CASE t # servant
      <4>1. channel'[t] = channel[t]
        BY <1>c, <3>3 DEF SendTo, TypeOK
      <4> QED
        BY <1>c, <3>1, <4>1, Untouched
    <3> QED
      BY <3>2, <3>3
  <2> QED
    BY <1>c, <2>1 DEF Internal
<1>1. CASE ReadOptFileFails
  BY <1>1, <1>a, <1>b DEF ReadOptFileFails
<1>2. CASE ReadOptFileWithoutJob
  BY <1>2, <1>a, <1>b DEF ReadOptFileWithoutJob
<1>3. CASE GeneratePopulation
  BY <1>3, <1>a, <1>b DEF GeneratePopulation, Generate
<1>4. CASE SendJobType
  <2>1. PICK m \in Modes("JOB_DATATYPE") : SendTo(servant, JobMsg(job_type[MASTER], m))
    BY <1>4 DEF SendJobType
  <2>2. job_type[MASTER] \in JOB_TYPE
    BY QuicAssumption DEF TypeOK, MASTER, Proc
  <2>3. JobMsg(job_type[MASTER], m) \in Message
    BY <2>2, ModesType, MessageTypes
  <2>4. JobMsg(job_type[MASTER], m).pop = {}
    BY DEF JobMsg, Msg
  <2>5. \A t \in Servants : pc'[t] = pc[t]
    BY <1>4, <1>a DEF SendJobType, NextServant
  <2> QED
    BY <1>4, <1>c, <2>1, <2>3, <2>4, <2>5 DEF SendJobType
<1>5. CASE SendOptParams
  <2>1. PICK m \in Modes("OPT_PARAMS") : SendTo(servant, Msg("OPT_PARAMS", m))
    BY <1>5 DEF SendOptParams
  <2>2. Msg("OPT_PARAMS", m) \in Message
    BY ModesType, MessageTypes DEF MESSAGE_TYPE
  <2>3. Msg("OPT_PARAMS", m).pop = {}
    BY DEF Msg
  <2>4. \A t \in Servants : pc'[t] = pc[t]
    BY <1>5, <1>a DEF SendOptParams, NextServant
  <2> QED
    BY <1>5, <1>c, <2>1, <2>2, <2>3, <2>4 DEF SendOptParams
<1>6. CASE SendPopulation
  <2> DEFINE S == next .. (next_subset_start - 1)
  <2>1. PICK m \in Modes("POPULATION") : SendTo(servant, PopMsg(S, m))
    BY <1>6 DEF SendPopulation, Distribute
  <2>2. /\ next < population_size
        /\ next_subset_start \in next .. population_size
        /\ S \in SUBSET SampleIds
        /\ next' = next_subset_start
    BY <1>6, GetSubsetBounds DEF SendPopulation, Distribute
  <2>3. PICK s \in Servants : s = servant
    BY <1>6, <2>2, SubsetHasServant DEF SendPopulation, Distribute, Running
  <2>4. S \cap Held(s) = {}
    <3>1. Held(s) \subseteq 0 .. (next - 1)
      BY <2>3, HeldBeforeNext
    <3>2. next \in Nat
      BY DEF TypeOK
    <3> QED
      BY <3>1, <3>2, <2>2
  <2>5. S = next .. (next' - 1)
    BY <2>2
  <2> HIDE DEF S
  <2>6. PopMsg(S, m) \in Message /\ PopMsg(S, m).pop = S /\ PopMsg(S, m).tag = "POPULATION"
    BY <2>2, ModesType, MessageTypes DEF PopMsg, Msg
  <2>7. /\ \A t \in Servants : pc'[t] = pc[t] /\ pop'[t] = pop[t] /\ reply'[t] = reply[t]
        /\ UNCHANGED <<results, withheld>>
    BY <1>6, <1>a DEF SendPopulation, Distribute, SendTo
  <2>8. channel'[s] = Append(channel[s], PopMsg(S, m))
    BY <2>1, <2>3 DEF SendTo, TypeOK
  <2>9. OnePlace(s)' /\ Held(s)' = Held(s) \cup S
    BY <2>3, <2>4, <2>6, <2>7, <2>8, SubsetSend
  <2>10. ASSUME NEW t \in Servants, t # s
         PROVE  OnePlace(t)' /\ Held(t)' = Held(t)
    <3>1. channel'[t] = channel[t]
      BY <2>1, <2>3, <2>10 DEF SendTo, TypeOK
    <3> QED
      BY <2>7, <3>1, Untouched
  <2>11. Assigned(s)
    BY <2>2, <2>5, <2>7, <2>9, <2>10 DEF Assigned, KeptExcept
  <2> QED
    BY <2>3, <2>9, <2>10, <2>11
<1>7. CASE IsendExit
  <2>1. Msg("EXIT", "eager") \in Message
    BY MessageTypes DEF MESSAGE_TYPE
  <2>2. Msg("EXIT", "eager").pop = {}
    BY DEF Msg
  <2>3. \A t \in Servants : pc'[t] = pc[t]
    BY <1>7, <1>a DEF IsendExit
  <2> QED
    BY <1>7, <1>c, <2>1, <2>2, <2>3 DEF IsendExit
<1>8. CASE WaitForResults
  BY <1>8, <1>a, <1>b DEF WaitForResults, WaitFor
<1>9. ASSUME NEW s \in Servants, CollectResults(s)
      PROVE  /\ reply[s] # <<>> /\ Collected(s, Head(reply[s]).pop)
             /\ \A t \in Servants : OnePlace(t)'
  <2>1. /\ reply[s] # <<>>
        /\ reply' = [reply EXCEPT ![s] = Tail(@)]
        /\ results' = results \cup Head(reply[s]).pop
        /\ UNCHANGED <<pc, channel, pop, withheld, next>>
    BY <1>9 DEF CollectResults, Collect
  <2>2. reply'[s] = Tail(reply[s])
    BY <2>1 DEF TypeOK
  <2>3. /\ OnePlace(s)'
        /\ Head(reply[s]).pop \subseteq Held(s)
        /\ Held(s)' = Held(s) \ Head(reply[s]).pop
    BY <2>1, <2>2, ResultsCollect
  <2>4. ASSUME NEW t \in Servants, t # s
        PROVE  OnePlace(t)' /\ Held(t)' = Held(t)
    <3>1. reply'[t] = reply[t]
      BY <2>1, <2>4 DEF TypeOK
    <3> QED
      BY <2>1, <3>1, Untouched
  <2> QED
    BY <2>1, <2>3, <2>4 DEF Collected, KeptExcept
<1>10. CASE Optimize
  BY <1>10, <1>a, <1>b DEF Optimize
<1>11. CASE SendExit
  <2>1. PICK m \in Modes("EXIT") : SendTo(servant, Msg("EXIT", m))
    BY <1>11 DEF SendExit
  <2>2. Msg("EXIT", m) \in Message
    BY ModesType, MessageTypes DEF MESSAGE_TYPE
  <2>3. Msg("EXIT", m).pop = {}
    BY DEF Msg
  <2>4. \A t \in Servants : pc'[t] = pc[t]
    BY <1>11, <1>a DEF SendExit, NextServant
  <2> QED
    BY <1>11, <1>c, <2>1, <2>2, <2>3, <2>4 DEF SendExit
<1>12. CASE MasterReturns
  BY <1>12, <1>a, <1>b DEF MasterReturns
<1> QED
  BY <1>1, <1>2, <1>3, <1>4, <1>5, <1>6, <1>7, <1>8, <1>9, <1>10, <1>11, <1>12 DEF Master

\* Every step of a servant keeps each sample in one place, and either moves no
\* sample to another holder or drops the servant's population.
LEMMA ServantMovement ==
  ASSUME TypeOK, \A t \in Servants : OnePlace(t), NEW s \in Servants, Servant(s)
  PROVE  /\ \A t \in Servants : OnePlace(t)'
         /\ Internal \/ Dropped(s, pop[s])
<1> USE DEF masterVars, servantVars
<1>0. Servants \subseteq Proc
  BY DEF Servants, Proc
<1>a. s \in Proc
  BY <1>0
<1>b. ASSUME NEW t \in Servants, t # s
      PROVE  channel'[t] = channel[t] /\ reply'[t] = reply[t] /\ pop'[t] = pop[t] /\ pc'[t] = pc[t]
  <2>1. pc'[t] = pc[t]
    <3>1. UNCHANGED pc \/ \E label : pc' = [pc EXCEPT ![s] = label]
      BY DEF Servant, ServantExits, RecvJobType, RecvOptParams, RecvPopulation, StartWork,
         SetupEnvironment, EvalSample, EvalExits, SendResults, ReturnResults, WithholdResults, Goto
    <3> QED
      BY <1>0, <1>b, <3>1 DEF TypeOK
  <2>2. channel'[t] = channel[t]
    <3>1. UNCHANGED channel \/ RecvFrom(s)
      BY DEF Servant, ServantExits, RecvJobType, RecvOptParams, RecvPopulation, StartWork,
         SetupEnvironment, EvalSample, EvalExits, SendResults, ReturnResults, WithholdResults
    <3> QED
      BY <1>b, <3>1 DEF RecvFrom, TypeOK
  <2>3. reply'[t] = reply[t]
    <3>1. UNCHANGED reply \/ \E m : reply' = [reply EXCEPT ![s] = Append(@, m)]
      BY DEF Servant, ServantExits, RecvJobType, RecvOptParams, RecvPopulation, StartWork,
         SetupEnvironment, EvalSample, EvalExits, SendResults, ReturnResults, WithholdResults,
         RecvFrom
    <3> QED
      BY <1>b, <3>1 DEF TypeOK
  <2>4. pop'[t] = pop[t]
    <3>1. UNCHANGED pop \/ \E samples : pop' = [pop EXCEPT ![s] = samples]
      BY DEF Servant, ServantExits, RecvJobType, RecvOptParams, RecvPopulation, StartWork,
         SetupEnvironment, EvalSample, EvalExits, SendResults, ReturnResults, WithholdResults
    <3> QED
      BY <1>b, <3>1 DEF TypeOK
  <2> QED
    BY <2>1, <2>2, <2>3, <2>4
<1>c. \A t \in Servants : t # s => OnePlace(t)' /\ Held(t)' = Held(t)
  BY <1>b, Untouched
<1>d. ASSUME OnePlace(s)' /\ Held(s)' = Held(s), UNCHANGED <<results, withheld, next>>
      PROVE  Internal /\ \A t \in Servants : OnePlace(t)'
  BY <1>c, <1>d DEF Internal
<1>e. ASSUME NEW label, Goto(s, label)
      PROVE  pc'[s] = label
  BY <1>a, <1>e DEF Goto, TypeOK
<1>f. ASSUME RecvFrom(s)
      PROVE  channel'[s] = Tail(channel[s]) /\ reply'[s] = reply[s]
  BY <1>f DEF RecvFrom, TypeOK
<1>1. CASE ServantExits(s)
  <2>1. pc'[s] = "done"
    BY <1>1, <1>e DEF ServantExits
  <2> QED
    BY <1>1, <1>d, <2>1, Untouched DEF ServantExits
<1>2. CASE RecvJobType(s)
  <2>1. OnePlace(s)' /\ Held(s)' = Held(s)
    BY <1>2, <1>f, EmptyReceive DEF RecvJobType, Probes
  <2> QED
    BY <1>2, <1>d, <2>1 DEF RecvJobType
<1>3. CASE RecvOptParams(s)
  <2>1. pc'[s] = "probe" => pc[s] = "probe"
    BY <1>3, <1>e DEF RecvOptParams
  <2>2. OnePlace(s)' /\ Held(s)' = Held(s)
    BY <1>3, <1>f, <2>1, EmptyReceive DEF RecvOptParams, Probes
  <2> QED
    BY <1>3, <1>d, <2>2 DEF RecvOptParams
<1>4. CASE RecvPopulation(s)
  <2>1. pc'[s] # "probe"
    BY <1>4, <1>e DEF RecvPopulation, StartWork
  <2>2. pop'[s] = Head(channel[s]).pop
    BY <1>4 DEF RecvPopulation, StartWork, TypeOK
  <2>3. pc[s] = "probe" /\ channel[s] # <<>> /\ RecvFrom(s)
    BY <1>4 DEF RecvPopulation, StartWork, Probes, Running
  <2>4. OnePlace(s)' /\ Held(s)' = Held(s)
    BY <1>f, <2>1, <2>2, <2>3, SubsetReceive
  <2> QED
    BY <1>4, <1>d, <2>4 DEF RecvPopulation, StartWork
<1>5. CASE SetupEnvironment(s)
  <2>1. pc'[s] # "probe"
    BY <1>5, <1>e DEF SetupEnvironment
  <2> QED
    BY <1>5, <1>d, <2>1, Untouched DEF SetupEnvironment
<1>6. CASE EvalSample(s)
  BY <1>6, <1>d, Untouched DEF EvalSample
<1>7. CASE SendResults(s)
  <2>1. PICK m \in Modes("RESULTS") :
          reply' = [reply EXCEPT ![s] = Append(@, ResultsMsg(pop[s], fitness[s], m))]
    BY <1>7 DEF SendResults, ReturnResults
  <2>2. pop[s] \in SUBSET SampleIds /\ fitness[s] \in SUBSET SampleIds
    BY DEF TypeOK
  <2>3. /\ ResultsMsg(pop[s], fitness[s], m) \in Message
        /\ ResultsMsg(pop[s], fitness[s], m).pop = pop[s]
    BY <2>2, ModesType, MessageTypes DEF ResultsMsg, Msg
  <2>4. reply'[s] = Append(reply[s], ResultsMsg(pop[s], fitness[s], m))
    BY <2>1 DEF TypeOK
  <2>5. pop'[s] = {} /\ channel'[s] = channel[s]
    BY <1>7 DEF SendResults, ReturnResults, TypeOK
  <2>6. OnePlace(s)' /\ Held(s)' = Held(s)
    BY <2>3, <2>4, <2>5, ResultsSend
  <2> QED
    BY <1>7, <1>d, <2>6 DEF SendResults, ReturnResults
<1>8. CASE WithholdResults(s)
  <2>1. pop'[s] = {} /\ channel'[s] = channel[s] /\ reply'[s] = reply[s]
    BY <1>8 DEF WithholdResults, TypeOK
  <2>2. OnePlace(s)' /\ pop[s] \subseteq Held(s) /\ Held(s)' = Held(s) \ pop[s]
    BY <2>1, ResultsDropped
  <2>3. Dropped(s, pop[s])
    BY <1>8, <1>c, <2>2 DEF WithholdResults, Dropped, KeptExcept
  <2> QED
    BY <1>c, <2>2, <2>3
<1>9. CASE EvalExits(s)
  <2>1. pc'[s] # "probe"
    BY <1>9, <1>e DEF EvalExits
  <2> QED
    BY <1>9, <1>d, <2>1, Untouched DEF EvalExits
<1> QED
  BY <1>1, <1>2, <1>3, <1>4, <1>5, <1>6, <1>7, <1>8, <1>9 DEF Servant

\* All steps together.
LEMMA Movement ==
  ASSUME TypeOK, SendingLoops, AllAccounted, \A s \in Servants : OnePlace(s), [Next]_vars
  PROVE  /\ \A s \in Servants : OnePlace(s)'
         /\ \/ Internal
            \/ \E s \in Servants : Assigned(s)
            \/ \E s \in Servants, S \in SUBSET SampleIds : Collected(s, S) \/ Dropped(s, S)
<1>1. CASE Master
  <2>1. ASSUME NEW s \in Servants, reply[s] # <<>>
        PROVE  Head(reply[s]).pop \in SUBSET SampleIds
    <3>1. reply[s] \in Seq(Message)
      BY DEF TypeOK
    <3>2. Head(reply[s]) \in Message
      BY <2>1, <3>1, HeadTailProperties
    <3> QED
      BY <3>2 DEF Message
  <2> QED
    BY <1>1, <2>1, MasterMovement
<1>2. ASSUME NEW s \in Servants, Servant(s)
      PROVE  /\ \A t \in Servants : OnePlace(t)'
             /\ Internal \/ \E S \in SUBSET SampleIds : Dropped(s, S)
  BY <1>2, ServantMovement DEF TypeOK
<1>3. CASE Abort
  <2>1. ASSUME NEW s \in Servants
        PROVE  pc'[s] = "probe" => pc[s] = "probe"
    BY <1>3 DEF Abort, Servants, Proc
  <2> QED
    BY <1>3, <2>1, Untouched DEF Abort, Internal, masterVars, servantVars
<1>4. CASE UNCHANGED vars
  BY <1>4, Untouched DEF vars, Internal, masterVars, servantVars
<1> QED
  BY <1>1, <1>2, <1>3, <1>4 DEF Next, Terminated

----------------------------------------------------------------------------
(***************************************************************************)
(* The parts of the invariant, one by one.                                 *)
(***************************************************************************)

\* No sample has two holders, whatever a step does.
LEMMA OneHolderStep ==
  ASSUME TypeOK, SendingLoops, AllAccounted, OneHolder,
         \A s \in Servants : OnePlace(s), [Next]_vars
  PROVE  OneHolder'
<1>1. CASE Internal
  BY <1>1 DEF Internal, OneHolder
<1>2. ASSUME NEW s \in Servants, Assigned(s)
      PROVE  OneHolder'
  <2>1. next \in Nat
    BY DEF TypeOK
  <2>2. /\ \A t \in Servants : Held(t) \cap (next .. (next' - 1)) = {}
        /\ (results \cup withheld) \cap (next .. (next' - 1)) = {}
    <3>1. (results \cup withheld) \subseteq 0 .. (next - 1)
      BY DEF AllAccounted
    <3>2. \A t \in Servants : Held(t) \subseteq 0 .. (next - 1)
      BY HeldBeforeNext
    <3>3. (0 .. (next - 1)) \cap (next .. (next' - 1)) = {}
      BY <2>1
    <3> QED
      BY <3>1, <3>2, <3>3
  <2> DEFINE S == next .. (next' - 1)
  <2>3. /\ Held(s)' = Held(s) \cup S
        /\ \A t \in Servants : t # s => Held(t)' = Held(t)
        /\ UNCHANGED <<results, withheld>>
    BY <1>2 DEF Assigned, KeptExcept
  <2> HIDE DEF S
  <2>4. ASSUME NEW t \in Servants
        PROVE  Held(t)' \cap (results' \cup withheld') = {}
    BY <2>2, <2>3 DEF OneHolder, S
  <2>5. ASSUME NEW t \in Servants, NEW u \in Servants, t # u
        PROVE  Held(t)' \cap Held(u)' = {}
    BY <2>2, <2>3, <2>5 DEF OneHolder, S
  <2> QED
    BY <2>3, <2>4, <2>5 DEF OneHolder
<1>3. ASSUME NEW s \in Servants, NEW S \in SUBSET SampleIds, Collected(s, S) \/ Dropped(s, S)
      PROVE  OneHolder'
  <2>1. /\ S \subseteq Held(s) /\ Held(s)' = Held(s) \ S
        /\ \A t \in Servants : t # s => Held(t)' = Held(t)
        /\ results' \cup withheld' = results \cup withheld \cup S
    BY <1>3 DEF Collected, Dropped, KeptExcept
  <2>2. results' \cap withheld' = {}
    BY <1>3 DEF Collected, Dropped, OneHolder
  <2>3. ASSUME NEW t \in Servants
        PROVE  Held(t)' \cap (results' \cup withheld') = {}
    BY <2>1 DEF OneHolder
  <2>4. ASSUME NEW t \in Servants, NEW u \in Servants, t # u
        PROVE  Held(t)' \cap Held(u)' = {}
    BY <2>1, <2>4 DEF OneHolder
  <2> QED
    BY <2>2, <2>3, <2>4 DEF OneHolder
<1> QED
  BY <1>1, <1>2, <1>3, Movement

\* Exactly the samples before next are accounted for, whatever a step does.
LEMMA AllAccountedStep ==
  ASSUME TypeOK, SendingLoops, AllAccounted, \A s \in Servants : OnePlace(s), [Next]_vars
  PROVE  AllAccounted'
<1> DEFINE All  == results \cup withheld \cup UNION {Held(s) : s \in Servants}
           AllNext == results' \cup withheld' \cup UNION {Held(s)' : s \in Servants}
<1>0. next \in Nat
  BY DEF TypeOK
<1>1. CASE Internal
  <2>1. AllNext = All /\ next' = next
    BY <1>1 DEF Internal
  <2> QED
    BY <2>1 DEF AllAccounted
<1>2. ASSUME NEW s \in Servants, Assigned(s)
      PROVE  AllAccounted'
  <2>1. AllNext = All \cup (next .. (next' - 1))
    <3>1. /\ Held(s)' = Held(s) \cup (next .. (next' - 1))
          /\ \A t \in Servants : t # s => Held(t)' = Held(t)
          /\ UNCHANGED <<results, withheld>>
      BY <1>2 DEF Assigned, KeptExcept
    <3> QED
      BY <3>1
  <2>2. next' \in Int /\ next' >= next
    BY <1>0, <1>2 DEF Assigned, TypeOK
  <2>3. 0 .. (next' - 1) = (0 .. (next - 1)) \cup (next .. (next' - 1))
    BY <1>0, <2>2
  <2> QED
    BY <2>1, <2>3 DEF AllAccounted
<1>3. ASSUME NEW s \in Servants, NEW S \in SUBSET SampleIds, Collected(s, S) \/ Dropped(s, S)
      PROVE  AllAccounted'
  <2>1. /\ S \subseteq Held(s) /\ Held(s)' = Held(s) \ S
        /\ \A t \in Servants : t # s => Held(t)' = Held(t)
        /\ results' \cup withheld' = results \cup withheld \cup S
        /\ next' = next
    BY <1>3 DEF Collected, Dropped, KeptExcept
  <2>2. (UNION {Held(t)' : t \in Servants}) \cup S = UNION {Held(t) : t \in Servants}
    BY <2>1
  <2>3. AllNext = All
    BY <2>1, <2>2
  <2> QED
    BY <2>1, <2>3 DEF AllAccounted
<1> QED
  BY <1>1, <1>2, <1>3, Movement

\* A step of a servant or of mpirun leaves the master's variables alone.
LEMMA MasterUntouched ==
  ASSUME TypeOK, (\E s \in Servants : Servant(s)) \/ Abort \/ UNCHANGED vars
  PROVE  /\ pc'[MASTER] \in {pc[MASTER], "killed"}
         /\ job_type'[MASTER] = job_type[MASTER]
         /\ UNCHANGED masterVars
<1>0. MASTER \in Proc /\ MASTER \notin Servants /\ Servants \subseteq Proc
  BY QuicAssumption DEF MASTER, Proc, Servants
<1>1. ASSUME NEW s \in Servants, Servant(s)
      PROVE  /\ pc'[MASTER] = pc[MASTER]
             /\ job_type'[MASTER] = job_type[MASTER]
             /\ UNCHANGED masterVars
  <2>1. UNCHANGED pc \/ \E label : pc' = [pc EXCEPT ![s] = label]
    BY <1>1 DEF Servant, ServantExits, RecvJobType, RecvOptParams, RecvPopulation, StartWork,
       SetupEnvironment, EvalSample, EvalExits, SendResults, ReturnResults, WithholdResults, Goto
  <2>2. UNCHANGED job_type \/ \E job : job_type' = [job_type EXCEPT ![s] = job]
    BY <1>1 DEF Servant, ServantExits, RecvJobType, RecvOptParams, RecvPopulation, StartWork,
       SetupEnvironment, EvalSample, EvalExits, SendResults, ReturnResults, WithholdResults
  <2>3. UNCHANGED masterVars
    BY <1>1 DEF Servant, ServantExits, RecvJobType, RecvOptParams, RecvPopulation, StartWork,
       SetupEnvironment, EvalSample, EvalExits, SendResults, ReturnResults, WithholdResults
  <2> QED
    BY <1>0, <2>1, <2>2, <2>3 DEF TypeOK
<1>2. CASE Abort
  BY <1>0, <1>2 DEF Abort
<1>3. CASE UNCHANGED vars
  BY <1>3 DEF vars
<1> QED
  BY <1>1, <1>2, <1>3

\* The loops of the master stay where SendingLoops says they are.
LEMMA SendingLoopsStep ==
  ASSUME TypeOK, SendingLoops, [Next]_vars
  PROVE  SendingLoops'
<1> USE DEF masterVars, Running
<1>0. /\ MASTER \in Proc /\ TotalServants \in Nat \ {0} /\ 1 \in Servants
      /\ population_size \in Nat /\ next \in Nat /\ servant \in Nat \ {0}
  BY QuicAssumption DEF MASTER, Proc, Servants, TypeOK
<1>a. ASSUME NEW label, Goto(MASTER, label)
      PROVE  pc'[MASTER] = label
  BY <1>0, <1>a DEF Goto, TypeOK
<1>b. ASSUME NEW label, NEW after, NextServant(label, after), servant \in Servants
      PROVE  \/ pc'[MASTER] = after /\ servant' = 1
             \/ pc'[MASTER] = label /\ servant' \in Servants
  BY <1>0, <1>a, <1>b DEF NextServant, Servants
<1>c. each_servant_work_size \in Nat
  BY <1>0, WorkSizeBounds DEF each_servant_work_size
<1>1. CASE ReadOptFileFails
  BY <1>1, <1>a DEF ReadOptFileFails, SendingLoops, each_servant_work_size, Distributing
<1>2. CASE ReadOptFileWithoutJob
  BY <1>2, <1>a DEF ReadOptFileWithoutJob, SendingLoops, each_servant_work_size, Distributing
<1>3. CASE GeneratePopulation
  <2>1. population_size' \in Nat /\ pc'[MASTER] = "send_job"
    BY <1>3, <1>a DEF GeneratePopulation, Generate
  <2> QED
    BY <1>3, <2>1 DEF GeneratePopulation, Generate, SendingLoops, Distributing
<1>4. CASE SendJobType
  <2>1. \/ pc'[MASTER] = "send_opt" /\ servant' = 1
        \/ pc'[MASTER] = "send_job" /\ servant' \in Servants
    BY <1>4, <1>b DEF SendJobType, SendingLoops
  <2> QED
    BY <1>0, <1>4, <2>1 DEF SendJobType, SendingLoops, Distributing
<1>5. CASE SendOptParams
  <2>1. \/ pc'[MASTER] = "send_work" /\ servant' = 1
        \/ pc'[MASTER] = "send_opt" /\ servant' \in Servants
    BY <1>5, <1>b DEF SendOptParams, SendingLoops
  <2>2. (1 - 1) * each_servant_work_size = 0
    BY <1>c
  <2>3. UNCHANGED <<population_size, each_servant_work_size>>
    BY <1>5 DEF SendOptParams, each_servant_work_size
  <2>4. next' = 0 /\ results' = {}
    BY <1>5 DEF SendOptParams, SendingLoops, Distributing
  <2> QED
    BY <1>0, <1>5, <2>1, <2>2, <2>3, <2>4 DEF SendOptParams, SendingLoops, Distributing
<1>6. CASE SendPopulation
  <2>1. /\ pc'[MASTER] = "send_exit" /\ next' = next_subset_start
        /\ UNCHANGED <<population_size, servant, results, job_type>>
    BY <1>6, <1>a DEF SendPopulation, Distribute
  <2>2. next < population_size /\ next_subset_start \in next .. population_size
    BY <1>6, GetSubsetBounds DEF SendPopulation, Distribute
  <2>3. servant \in Servants
    BY <1>6, <2>2, SubsetHasServant DEF SendPopulation, Distribute
  <2>4. next' \in {population_size, servant * each_servant_work_size}
    <3>1. next_subset_start \in {population_size, next + each_servant_work_size}
      BY <1>0, <1>c, <2>2 DEF next_subset_start, get_subset
    <3>2. next = (servant - 1) * each_servant_work_size
      BY <1>0, <1>6, <2>2 DEF SendPopulation, Distribute, SendingLoops
    <3>3. next + each_servant_work_size = servant * each_servant_work_size
      BY <1>0, <1>c, <3>2
    <3> QED
      BY <2>1, <3>1, <3>3
  <2>5. UNCHANGED each_servant_work_size
    BY <2>1 DEF each_servant_work_size
  <2> QED
    BY <1>0, <1>6, <2>1, <2>2, <2>3, <2>4, <2>5
      DEF SendPopulation, Distribute, SendingLoops, Distributing
<1>7. CASE IsendExit
  <2>1. /\ pc'[MASTER] = "send_work" /\ servant' = servant + 1 /\ servant' - 1 = servant
        /\ UNCHANGED <<population_size, next, results, each_servant_work_size>>
    BY <1>0, <1>7, <1>a DEF IsendExit, each_servant_work_size
  <2>2. next \in {population_size, servant * each_servant_work_size}
    BY <1>7 DEF IsendExit, SendingLoops
  <2> QED
    BY <1>7, <2>1, <2>2 DEF IsendExit, SendingLoops, Distributing
<1>8. CASE WaitForResults
  <2>1. pc'[MASTER] = "collect" /\ UNCHANGED <<population_size, next>>
    BY <1>8, <1>a DEF WaitForResults, WaitFor
  <2>2. next = population_size
    <3>1. next >= population_size
      <4>1. next + each_servant_work_size # -1 /\ population_size # -1
        BY <1>0, <1>c
      <4> QED
        BY <1>0, <1>8, <4>1 DEF WaitForResults, WaitFor, next_subset_start, get_subset
    <3> QED
      BY <1>0, <3>1 DEF SendingLoops
  <2> QED
    BY <1>0, <2>1, <2>2 DEF SendingLoops, Distributing
<1>9. ASSUME NEW s \in Servants, CollectResults(s)
      PROVE  SendingLoops'
  BY <1>9 DEF CollectResults, Collect, SendingLoops, Distributing, each_servant_work_size
<1>10. CASE Optimize
  BY <1>0, <1>10, <1>a DEF Optimize, SendingLoops, Distributing
<1>11. CASE SendExit
  <2>1. \/ pc'[MASTER] = "returning" /\ servant' = 1
        \/ pc'[MASTER] = "send_final_exit" /\ servant' \in Servants
    BY <1>11, <1>b DEF SendExit, SendingLoops
  <2> QED
    BY <1>11, <2>1 DEF SendExit, SendingLoops, Distributing
<1>12. CASE MasterReturns
  BY <1>12, <1>a DEF MasterReturns, SendingLoops, Distributing
<1>13. CASE (\E s \in Servants : Servant(s)) \/ Abort \/ UNCHANGED vars
  <2>1. /\ pc'[MASTER] \in {pc[MASTER], "killed"}
        /\ job_type'[MASTER] = job_type[MASTER]
        /\ UNCHANGED masterVars
    BY <1>13, MasterUntouched
  <2> QED
    BY <2>1 DEF SendingLoops, Distributing, each_servant_work_size
<1> QED
  BY <1>1, <1>2, <1>3, <1>4, <1>5, <1>6, <1>7, <1>8, <1>9, <1>10, <1>11, <1>12, <1>13
     DEF Next, Master, Terminated

\* The master's count is what is missing from results.
LEMMA CountStep ==
  ASSUME TypeOK, SendingLoops, OneHolder, CountMatchesResults, [Next]_vars,
         \A s \in Servants : OnePlace(s)
  PROVE  CountMatchesResults'
<1> USE DEF masterVars, Running
<1>0. MASTER \in Proc
  BY QuicAssumption DEF MASTER, Proc
<1>a. ASSUME NEW label, Goto(MASTER, label)
      PROVE  pc'[MASTER] = label
  BY <1>0, <1>a DEF Goto, TypeOK
<1>1. CASE WaitForResults
  <2>1. results = {} /\ results' = {}
    BY <1>1 DEF WaitForResults, WaitFor, SendingLoops, Distributing
  <2>2. results_to_received' = population_size /\ population_size' = population_size
    BY <1>1 DEF WaitForResults, WaitFor
  <2>3. population_size \in Nat
    BY DEF TypeOK
  <2>4. Cardinality(results') = 0
    BY <2>1, FS_EmptySet
  <2> QED
    BY <2>2, <2>3, <2>4 DEF CountMatchesResults
<1>2. ASSUME NEW s \in Servants, CollectResults(s)
      PROVE  CountMatchesResults'
  <2> DEFINE S == Head(reply[s]).pop
  <2>1. /\ pc[MASTER] = "collect" /\ reply[s] # <<>>
        /\ results' = results \cup S
        /\ results_to_received' = results_to_received - Cardinality(S)
        /\ UNCHANGED <<pc, population_size>>
    BY <1>2 DEF CollectResults, Collect
  <2>2. S \in SUBSET SampleIds
    <3>1. reply[s] \in Seq(Message)
      BY DEF TypeOK
    <3>2. Head(reply[s]) \in Message
      BY <2>1, <3>1, HeadTailProperties
    <3> QED
      BY <3>2 DEF Message
  <2>3. S \cap results = {}
    <3>1. reply[s] \in Seq(Message)
      BY DEF TypeOK
    <3>2. S \subseteq Held(s)
      BY <2>1, <3>1, CarriedTail DEF Held
    <3> QED
      BY <3>2 DEF OneHolder
  <2> HIDE DEF S
  <2>4. results \in SUBSET SampleIds
    BY DEF TypeOK
  <2>5. /\ IsFiniteSet(S) /\ Cardinality(S) \in Nat
        /\ IsFiniteSet(results) /\ Cardinality(results) \in Nat
    BY <2>2, <2>4, SamplesFinite
  <2>6. Cardinality(results \cap S) = 0
    BY <2>3, FS_EmptySet
  <2>7. Cardinality(results \cup S) =
          Cardinality(results) + Cardinality(S) - Cardinality(results \cap S)
    BY <2>5, FS_Union
  <2>8. population_size \in Nat /\ results_to_received = population_size - Cardinality(results)
    BY <2>1 DEF CountMatchesResults, TypeOK
  <2> QED
    BY <2>1, <2>5, <2>6, <2>7, <2>8 DEF CountMatchesResults
<1>3. CASE ReadOptFileFails \/ ReadOptFileWithoutJob \/ GeneratePopulation \/ SendPopulation
           \/ IsendExit \/ Optimize \/ MasterReturns
  BY <1>3, <1>a DEF ReadOptFileFails, ReadOptFileWithoutJob, GeneratePopulation, Generate,
     SendPopulation, Distribute, IsendExit, Optimize, MasterReturns, CountMatchesResults
<1>4. CASE SendJobType \/ SendOptParams \/ SendExit
  <2>1. pc'[MASTER] \in {"send_job", "send_opt", "send_work", "send_final_exit", "returning"}
    BY <1>4, <1>a DEF SendJobType, SendOptParams, SendExit, NextServant
  <2> QED
    BY <2>1 DEF CountMatchesResults
<1>5. CASE (\E s \in Servants : Servant(s)) \/ Abort \/ UNCHANGED vars
  <2>1. pc'[MASTER] \in {pc[MASTER], "killed"} /\ UNCHANGED masterVars
    BY <1>5, MasterUntouched
  <2> QED
    BY <2>1 DEF CountMatchesResults
<1> QED
  BY <1>1, <1>2, <1>3, <1>4, <1>5 DEF Next, Master, Terminated

\* The reduction only begins when results is the whole population: a set of as
\* many samples as the population has, all of them from it.
LEMMA CompleteStep ==
  ASSUME TypeOK, SendingLoops, AllAccounted, CountMatchesResults, CompleteAtReduction, [Next]_vars
  PROVE  CompleteAtReduction'
<1> USE DEF masterVars, Running
<1>0. MASTER \in Proc
  BY QuicAssumption DEF MASTER, Proc
<1>a. ASSUME NEW label, Goto(MASTER, label)
      PROVE  pc'[MASTER] = label
  BY <1>0, <1>a DEF Goto, TypeOK
<1>1. CASE Optimize
  <2>1. /\ pc[MASTER] = "collect" /\ results_to_received = 0
        /\ UNCHANGED <<results, population_size>>
    BY <1>1 DEF Optimize
  <2>2. next = population_size /\ population_size \in Nat
    BY <2>1 DEF SendingLoops, TypeOK
  <2>3. results \subseteq Samples
    BY <2>2 DEF AllAccounted, Samples
  <2>4. Cardinality(results) = population_size
    <3>1. Cardinality(results) \in Nat
      BY SamplesFinite DEF TypeOK
    <3> QED
      BY <2>1, <2>2, <3>1 DEF CountMatchesResults
  <2>5. IsFiniteSet(Samples) /\ Cardinality(Samples) = population_size
    <3>1. population_size - 1 \in Int /\ 0 \in Int
      BY <2>2
    <3>2. /\ IsFiniteSet(0 .. (population_size - 1))
          /\ Cardinality(0 .. (population_size - 1))
               = IF 0 > population_size - 1 THEN 0 ELSE (population_size - 1) - 0 + 1
      BY <3>1, FS_Interval
    <3> QED
      BY <2>2, <3>2 DEF Samples
  <2>6. results = Samples
    BY <2>3, <2>4, <2>5, FS_Subset
  <2> QED
    BY <2>1, <2>6 DEF CompleteAtReduction, Samples
<1>2. CASE ReadOptFileWithoutJob
  BY <1>2 DEF ReadOptFileWithoutJob, SendingLoops, CompleteAtReduction
<1>3. CASE SendExit \/ MasterReturns
  <2>1. /\ pc[MASTER] \in {"send_final_exit", "returning"}
        /\ UNCHANGED <<results, population_size, job_type>>
    BY <1>3 DEF SendExit, MasterReturns
  <2> QED
    BY <2>1 DEF CompleteAtReduction, Samples
<1>4. CASE ReadOptFileFails \/ GeneratePopulation \/ SendPopulation \/ IsendExit \/ WaitForResults
  BY <1>4, <1>a DEF ReadOptFileFails, GeneratePopulation, Generate, SendPopulation, Distribute,
     IsendExit, WaitForResults, WaitFor, CompleteAtReduction
<1>5. CASE SendJobType \/ SendOptParams
  <2>1. pc'[MASTER] \in {"send_job", "send_opt", "send_work"}
    BY <1>5, <1>a DEF SendJobType, SendOptParams, NextServant
  <2> QED
    BY <2>1 DEF CompleteAtReduction
<1>6. ASSUME NEW s \in Servants, CollectResults(s)
      PROVE  CompleteAtReduction'
  BY <1>6 DEF CollectResults, Collect, CompleteAtReduction
<1>7. CASE (\E s \in Servants : Servant(s)) \/ Abort \/ UNCHANGED vars
  <2>1. /\ pc'[MASTER] \in {pc[MASTER], "killed"}
        /\ job_type'[MASTER] = job_type[MASTER]
        /\ UNCHANGED masterVars
    BY <1>7, MasterUntouched
  <2> QED
    BY <2>1 DEF CompleteAtReduction, Samples
<1> QED
  BY <1>1, <1>2, <1>3, <1>4, <1>5, <1>6, <1>7 DEF Next, Master, Terminated

----------------------------------------------------------------------------
(***************************************************************************)
(* The theorems.                                                           *)
(***************************************************************************)
LEMMA InitConservation == Init => Conservation
<1> SUFFICES ASSUME Init PROVE Conservation
  OBVIOUS
<1>0. MASTER \in Proc /\ MASTER \notin Servants /\ Servants \subseteq Proc /\ 1 \in Servants
  BY QuicAssumption DEF MASTER, Proc, Servants
<1>1. pc[MASTER] = "start" /\ job_type[MASTER] = "INVALID_JOB"
  BY <1>0 DEF Init
<1>2. SendingLoops
  BY <1>0, <1>1 DEF Init, SendingLoops
<1>3. ASSUME NEW s \in Servants
      PROVE  OnePlace(s) /\ Held(s) = {}
  <2>1. channel[s] = <<>> /\ reply[s] = <<>> /\ pop[s] = {}
    BY DEF Init
  <2>2. \A i \in 1 .. Len(channel[s]) : channel[s][i].tag # "POPULATION" => channel[s][i].pop = {}
    BY <2>1
  <2> QED
    BY <2>1, <2>2, CarriedEmpty DEF OnePlace, Held
<1>4. OneHolder
  BY <1>3 DEF Init, OneHolder
<1>5. AllAccounted
  <2>1. 0 .. (next - 1) = {}
    BY DEF Init
  <2> QED
    BY <1>3, <2>1 DEF Init, AllAccounted
<1>6. CountMatchesResults /\ CompleteAtReduction
  BY <1>1 DEF CountMatchesResults, CompleteAtReduction
<1> QED
  BY <1>2, <1>3, <1>4, <1>5, <1>6 DEF Conservation

LEMMA NextConservation == TypeOK /\ Conservation /\ [Next]_vars => Conservation'
<1> SUFFICES ASSUME TypeOK, Conservation, [Next]_vars PROVE Conservation'
  OBVIOUS
<1>1. \A s \in Servants : OnePlace(s)'
  BY Movement DEF Conservation
<1> QED
  BY <1>1, SendingLoopsStep, OneHolderStep, AllAccountedStep, CountStep, CompleteStep
    DEF Conservation

\* Every sample is always in exactly one place, for every number of servants and
\* every population: the inductive invariant of the protocol.
THEOREM Conserved == Spec => []Conservation
<1>1. Init => Conservation
  BY InitConservation
<1>2. TypeOK /\ Conservation /\ [Next]_vars => Conservation'
  BY NextConservation
<1> QED
  BY <1>1, <1>2, TypeCorrect, PTL DEF Spec

\* While it collects, the master waits for exactly the samples it has not got
\* (quic.cpp:317-330).
THEOREM CountAlwaysMatches == Spec => []CountMatchesResults
<1>1. Conservation => CountMatchesResults
  BY DEF Conservation
<1> QED
  BY <1>1, Conserved, PTL

\* The best samples are picked among all samples of the population
\* (quic.cpp:331-351).
THEOREM ReductionIsComplete == Spec => []CompleteAtReduction
<1>1. Conservation => CompleteAtReduction
  BY DEF Conservation
<1> QED
  BY <1>1, Conserved, PTL

\* No sample is dropped between get_subset and the collection.
THEOREM NothingLost == Spec => []NoSampleLost
<1>1. TypeOK /\ Conservation => NoSampleLost
  <2> SUFFICES ASSUME TypeOK, Conservation PROVE NoSampleLost
    OBVIOUS
  <2>1. next \in Nat /\ population_size \in Nat /\ next <= population_size
    BY DEF TypeOK, Conservation, SendingLoops
  <2>2. Samples \subseteq Undistributed \cup (0 .. (next - 1))
    BY <2>1 DEF Samples, Undistributed
  <2> QED
    BY <2>2 DEF Conservation, AllAccounted, NoSampleLost
<1> QED
  BY <1>1, TypeCorrect, Conserved, PTL

\* No sample is evaluated or collected twice.
THEOREM NothingTwice == Spec => []NoSampleTwice
<1>1. TypeOK /\ Conservation => NoSampleTwice
  <2> SUFFICES ASSUME TypeOK, Conservation PROVE NoSampleTwice
    OBVIOUS
  <2>1. next \in Nat
    BY DEF TypeOK
  <2>2. (0 .. (next - 1)) \cap Undistributed = {}
    BY <2>1 DEF Undistributed
  <2>3. /\ \A s \in Servants : Held(s) \subseteq 0 .. (next - 1)
        /\ results \cup withheld \subseteq 0 .. (next - 1)
    BY HeldBeforeNext DEF Conservation, AllAccounted
  <2>4. OneHolder /\ \A s \in Servants : OnePlace(s)
    BY DEF Conservation
  <2>5. ASSUME NEW s \in Servants
        PROVE  /\ Held(s) \cap (results \cup withheld \cup Undistributed) = {}
               /\ Carried(channel[s]) \cap pop[s] = {}
               /\ Carried(channel[s]) \cap Carried(reply[s]) = {}
               /\ pop[s] \cap Carried(reply[s]) = {}
    BY <2>2, <2>3, <2>4 DEF OneHolder, OnePlace
  <2>6. \A s \in Servants : \A t \in Servants \ {s} : Held(s) \cap Held(t) = {}
    BY <2>4 DEF OneHolder
  <2>7. results \cap withheld = {} /\ (results \cup withheld) \cap Undistributed = {}
    BY <2>2, <2>3, <2>4 DEF OneHolder
  <2> QED
    BY <2>5, <2>6, <2>7 DEF NoSampleTwice
<1> QED
  BY <1>1, TypeCorrect, Conserved, PTL

\* Every subset has a servant: the distribution loop never addresses a rank past
\* the last one (quic.cpp:305-312).
THEOREM EverySubsetFits == Spec => []SubsetsFit
<1>1. TypeOK /\ Conservation => SubsetsFit
  BY SubsetHasServant DEF Conservation, SubsetsFit
<1> QED
  BY <1>1, TypeCorrect, Conserved, PTL
----------------------------------------------------------------------------
(***************************************************************************)
(* What the servants read and send back: the tags they find are in the      *)
(* order their dispatch relies on, the master waits for ever only for       *)
(* withheld results, and results carry all the fitness there is.            *)
(***************************************************************************)
\* The order in which a servant is sent its messages.
Rank(tag) ==
  CASE tag = "JOB_DATATYPE" -> 1
    [] tag = "OPT_PARAMS"   -> 2
    [] tag = "POPULATION"   -> 3
    [] OTHER                -> 4

In(q)     == {q[i] : i \in 1 .. Len(q)}
Sorted(q) == \A i, j \in 1 .. Len(q) : i <= j => Rank(q[i].tag) <= Rank(q[j].tag)

\* What waits for servant s.
Has(s, tag) == \E m \in In(channel[s]) : m.tag = tag
UpTo(s, n)  == \A m \in In(channel[s]) : Rank(m.tag) <= n

\* The servant has been told the job type, or will be; has a job object, will
\* have one, or has ended.
Known(s) == Has(s, "JOB_DATATYPE") \/ job_type[s] = job_type[MASTER]
Ready(s) == Has(s, "OPT_PARAMS") \/ temp[s] # "NULL" \/ pc[s] \in Stopped

\* A servant that returned from main() has left its EXIT unread and kept no work.
Gone(s) == pc[s] = "done" =>
  channel[s] # <<>> /\ Head(channel[s]).tag = "EXIT" /\ pop[s] = {}

Told(s) ==
  /\ Sorted(channel[s])
  /\ \A m \in In(channel[s]) : m.tag = "JOB_DATATYPE" => m.job = job_type[MASTER]
  /\ Has(s, "OPT_PARAMS") => Known(s)
  /\ Has(s, "POPULATION") => Ready(s)
  /\ Gone(s)

\* How far the sending loops of the master have come with servant s.
SentSoFar(s) ==
  /\ pc[MASTER] = "start" => UpTo(s, 0)
  /\ pc[MASTER] = "send_job" => UpTo(s, 1) /\ (s < servant => Known(s))
  /\ pc[MASTER] = "send_opt" => UpTo(s, 2) /\ Known(s) /\ (s < servant => Ready(s))
  /\ pc[MASTER] = "send_work" => Ready(s) /\ (s >= servant => UpTo(s, 2))
  /\ pc[MASTER] = "send_exit" => Ready(s) /\ (s > servant => UpTo(s, 2))

TagInvariant ==
  /\ pc[MASTER] = "start" => servant = 1
  /\ \A s \in Servants : Told(s) /\ SentSoFar(s)

----------------------------------------------------------------------------
(***************************************************************************)
(* Channels.                                                               *)
(***************************************************************************)
\* A message sent is the last one.
LEMMA InAppend ==
  ASSUME NEW q \in Seq(Message), NEW m \in Message
  PROVE  /\ In(Append(q, m)) = In(q) \cup {m}
         /\ Sorted(q) /\ (\A k \in In(q) : Rank(k.tag) <= Rank(m.tag)) => Sorted(Append(q, m))
<1> DEFINE a == Append(q, m)
<1>1. /\ Len(q) \in Nat /\ Len(a) = Len(q) + 1
      /\ \A i \in 1 .. Len(q) : a[i] = q[i]
      /\ a[Len(q) + 1] = m
  OBVIOUS
<1>2. 1 .. Len(a) = (1 .. Len(q)) \cup {Len(q) + 1}
  BY <1>1
<1> HIDE DEF a
<1>3. In(a) = In(q) \cup {m}
  BY <1>1, <1>2 DEF In
<1>4. ASSUME Sorted(q), \A k \in In(q) : Rank(k.tag) <= Rank(m.tag)
      PROVE  Sorted(a)
  <2> SUFFICES ASSUME NEW i \in 1 .. Len(a), NEW j \in 1 .. Len(a), i <= j
               PROVE  Rank(a[i].tag) <= Rank(a[j].tag)
    BY DEF Sorted
  <2>1. CASE j \in 1 .. Len(q)
    <3>1. i \in 1 .. Len(q)
      BY <1>1, <2>1
    <3> QED
      BY <1>1, <1>4, <2>1, <3>1 DEF Sorted
  <2>2. CASE j = Len(q) + 1 /\ i \in 1 .. Len(q)
    <3>1. a[i] \in In(q) /\ a[j] = m
      BY <1>1, <2>2 DEF In
    <3> QED
      BY <1>4, <3>1
  <2>3. CASE j = Len(q) + 1 /\ i = Len(q) + 1
    BY <1>1, <2>3 DEF Rank
  <2> QED
    BY <1>2, <2>1, <2>2, <2>3
<1> QED
  BY <1>3, <1>4 DEF a

\* The oldest message has the lowest rank.
LEMMA InTail ==
  ASSUME NEW q \in Seq(Message), q # <<>>
  PROVE  /\ In(q) = In(Tail(q)) \cup {Head(q)}
         /\ Sorted(q) => /\ Sorted(Tail(q))
                         /\ \A m \in In(q) : Rank(Head(q).tag) <= Rank(m.tag)
<1> DEFINE r == Tail(q)
<1>1. /\ Len(q) \in Nat /\ Len(q) > 0 /\ Len(r) = Len(q) - 1
      /\ \A i \in 1 .. Len(r) : r[i] = q[i + 1]
      /\ Head(q) = q[1]
  <2>1. Len(q) \in Nat \ {0}
    BY EmptySeq
  <2> QED
    BY <2>1, HeadTailProperties
<1> HIDE DEF r
<1>2. \A i \in 1 .. Len(r) : i + 1 \in 1 .. Len(q)
  BY <1>1
<1>3. \A i \in 1 .. Len(q) : i = 1 \/ (i - 1 \in 1 .. Len(r) /\ q[i] = r[i - 1])
  <2> SUFFICES ASSUME NEW i \in 1 .. Len(q), i # 1
               PROVE  i - 1 \in 1 .. Len(r) /\ q[i] = r[i - 1]
    OBVIOUS
  <2>1. i - 1 \in 1 .. Len(r) /\ (i - 1) + 1 = i
    BY <1>1
  <2> QED
    BY <1>1, <2>1
<1>4. 1 \in 1 .. Len(q)
  BY <1>1
<1>5. In(q) = In(r) \cup {q[1]}
  <2>1. ASSUME NEW m \in In(q) PROVE m \in In(r) \cup {q[1]}
    BY <1>3 DEF In
  <2>2. ASSUME NEW m \in In(r) PROVE m \in In(q)
    BY <1>1, <1>2 DEF In
  <2>3. q[1] \in In(q)
    BY <1>4 DEF In
  <2> QED
    BY <2>1, <2>2, <2>3
<1>6. ASSUME Sorted(q)
      PROVE  Sorted(r) /\ \A m \in In(q) : Rank(q[1].tag) <= Rank(m.tag)
  <2>1. ASSUME NEW i \in 1 .. Len(r), NEW j \in 1 .. Len(r), i <= j
        PROVE  Rank(r[i].tag) <= Rank(r[j].tag)
    <3>1. i + 1 \in 1 .. Len(q) /\ j + 1 \in 1 .. Len(q) /\ i + 1 <= j + 1
      BY <1>1, <1>2, <2>1
    <3> QED
      BY <1>1, <1>6, <3>1 DEF Sorted
  <2>2. ASSUME NEW i \in 1 .. Len(q)
        PROVE  Rank(q[1].tag) <= Rank(q[i].tag)
    <3>1. 1 <= i
      BY <1>1
    <3> QED
      BY <1>4, <1>6, <3>1 DEF Sorted
  <2> QED
    BY <2>1, <2>2 DEF Sorted, In
<1> QED
  BY <1>1, <1>5, <1>6 DEF r

\* What is true of servant t stays true when nothing but its place changes, and
\* that only from running to not returned.
Same(t) ==
  /\ channel'[t] = channel[t]
  /\ job_type'[t] = job_type[t] /\ job_type'[MASTER] = job_type[MASTER]
  /\ temp'[t] = temp[t]

Monotone(t) ==
  /\ \A n \in 0 .. 4 : UpTo(t, n) => UpTo(t, n)'
  /\ Known(t) => Known(t)'
  /\ Ready(t) => Ready(t)'

\* A step that does not touch what servant t was told.
LEMMA SameTold ==
  ASSUME NEW t \in Servants, Told(t), Same(t), pc[t] \in Stopped => pc'[t] \in Stopped,
         Gone(t)'
  PROVE  Told(t)' /\ Monotone(t)
<1>1. /\ \A tag : Has(t, tag)' <=> Has(t, tag)
      /\ \A n : UpTo(t, n)' <=> UpTo(t, n)
      /\ Known(t)' <=> Known(t)
      /\ Ready(t) => Ready(t)'
  BY DEF Same, Has, UpTo, Known, Ready
<1> QED
  BY <1>1 DEF Told, Monotone, Same

\* A message of no lower rank than those before it, with what it must carry.
LEMMA SendTold ==
  ASSUME TypeOK, NEW t \in Servants, Told(t), NEW m \in Message,
         channel'[t] = Append(channel[t], m),
         UNCHANGED <<job_type, temp, pop>>, pc'[t] = pc[t],
         UpTo(t, Rank(m.tag)),
         m.tag = "JOB_DATATYPE" => m.job = job_type[MASTER],
         m.tag = "OPT_PARAMS" => Known(t),
         m.tag = "POPULATION" => Ready(t)
  PROVE  /\ Told(t)'
         /\ \A n \in 0 .. 4 : UpTo(t, n) /\ Rank(m.tag) <= n => UpTo(t, n)'
         /\ Known(t) \/ m.tag = "JOB_DATATYPE" => Known(t)'
         /\ Ready(t) \/ m.tag = "OPT_PARAMS" => Ready(t)'
<1>0. channel[t] \in Seq(Message)
  BY DEF TypeOK
<1>1. In(channel'[t]) = In(channel[t]) \cup {m} /\ Sorted(channel'[t])
  BY <1>0, InAppend DEF Told, UpTo
<1>2. /\ \A tag : Has(t, tag)' <=> Has(t, tag) \/ m.tag = tag
      /\ \A n : UpTo(t, n)' <=> UpTo(t, n) /\ Rank(m.tag) <= n
  BY <1>1 DEF Has, UpTo
<1>3. /\ Known(t) \/ m.tag = "JOB_DATATYPE" => Known(t)'
      /\ Ready(t) \/ m.tag = "OPT_PARAMS" => Ready(t)'
  BY <1>2 DEF Known, Ready
<1>4. Gone(t)'
  <2>1. channel[t] # <<>> => channel'[t] # <<>> /\ Head(channel'[t]) = Head(channel[t])
    BY <1>0
  <2> QED
    BY <2>1 DEF Told, Gone
<1>5. Told(t)'
  <2>1. \A k \in In(channel'[t]) : k.tag = "JOB_DATATYPE" => k.job = job_type'[MASTER]
    BY <1>1 DEF Told
  <2>2. Has(t, "OPT_PARAMS")' => Known(t)'
    BY <1>2, <1>3 DEF Told
  <2>3. Has(t, "POPULATION")' => Ready(t)'
    BY <1>2, <1>3 DEF Told
  <2> QED
    BY <1>1, <1>4, <2>1, <2>2, <2>3 DEF Told
<1> QED
  BY <1>2, <1>3, <1>5

\* A servant that runs takes its oldest message and does what the tag asks.
LEMMA ReceiveTold ==
  ASSUME TypeOK, NEW t \in Servants, Told(t), channel[t] # <<>>,
         channel'[t] = Tail(channel[t]), job_type'[MASTER] = job_type[MASTER],
         pc[t] \notin Stopped, pc'[t] # "done",
         IF Head(channel[t]).tag = "JOB_DATATYPE"
           THEN job_type'[t] = Head(channel[t]).job ELSE job_type'[t] = job_type[t],
         IF Head(channel[t]).tag = "OPT_PARAMS"
           THEN temp'[t] # "NULL" \/ pc'[t] \in Stopped ELSE temp'[t] = temp[t]
  PROVE  Told(t)' /\ Monotone(t)
<1> DEFINE h == Head(channel[t])
<1>0. channel[t] \in Seq(Message)
  BY DEF TypeOK
<1>1. /\ In(channel[t]) = In(channel'[t]) \cup {h} /\ Sorted(channel'[t])
  BY <1>0, InTail DEF Told
<1>2. /\ \A tag : Has(t, tag) <=> Has(t, tag)' \/ h.tag = tag
      /\ \A n : UpTo(t, n) => UpTo(t, n)'
  BY <1>1 DEF Has, UpTo
<1>3. Known(t) => Known(t)'
  <2>1. h.tag = "JOB_DATATYPE" => h.job = job_type[MASTER]
    BY <1>1 DEF Told
  <2> QED
    BY <1>2, <2>1 DEF Known
<1>4. Ready(t) => Ready(t)'
  BY <1>2 DEF Ready
<1>5. Gone(t)'
  BY DEF Gone
<1> HIDE DEF h
<1>6. Told(t)'
  <2>1. \A k \in In(channel'[t]) : k.tag = "JOB_DATATYPE" => k.job = job_type'[MASTER]
    BY <1>1 DEF Told
  <2>2. Has(t, "OPT_PARAMS")' => Known(t)'
    BY <1>2, <1>3 DEF Told
  <2>3. Has(t, "POPULATION")' => Ready(t)'
    BY <1>2, <1>4 DEF Told
  <2> QED
    BY <1>1, <1>5, <2>1, <2>2, <2>3 DEF Told
<1> QED
  BY <1>2, <1>3, <1>4, <1>6 DEF Monotone

----------------------------------------------------------------------------
(***************************************************************************)
(* The order of the tags is kept.                                          *)
(***************************************************************************)
\* A step that leaves the master where it is.
LEMMA PlaceKept ==
  ASSUME NEW t \in Servants, SentSoFar(t), Monotone(t), servant' = servant,
         pc'[MASTER] \in {pc[MASTER], "killed"}
  PROVE  SentSoFar(t)'
BY DEF SentSoFar, Monotone

\* Every step of a servant keeps what it and the others were told.
LEMMA ServantTags ==
  ASSUME TypeOK, Conservation, TagInvariant, NEW s \in Servants, Servant(s), NEW t \in Servants
  PROVE  Told(t)' /\ SentSoFar(t)'
<1> USE DEF masterVars, servantVars
<1>0. /\ MASTER \in Proc /\ MASTER # s /\ s \in Proc /\ t \in Proc /\ MASTER # t
  BY QuicAssumption DEF MASTER, Proc, Servants
<1>1. Told(t) /\ SentSoFar(t)
  BY DEF TagInvariant
<1>2. /\ pc'[MASTER] = pc[MASTER] /\ servant' = servant /\ job_type'[MASTER] = job_type[MASTER]
  BY <1>0 DEF Servant, ServantExits, RecvJobType, RecvOptParams, RecvPopulation, StartWork,
     SetupEnvironment, EvalSample, EvalExits, SendResults, ReturnResults, WithholdResults,
     Goto, TypeOK
<1>3. CASE t # s
  <2>1. Same(t) /\ pc'[t] = pc[t] /\ pop'[t] = pop[t]
    BY <1>0, <1>2, <1>3 DEF Servant, ServantExits, RecvJobType, RecvOptParams, RecvPopulation, StartWork,
       RecvFrom, SetupEnvironment, EvalSample, EvalExits, SendResults, ReturnResults, WithholdResults,
       Goto, TypeOK, Same
  <2>2. Gone(t)'
    BY <1>1, <2>1 DEF Told, Gone, Same
  <2>3. Told(t)' /\ Monotone(t)
    BY <1>1, <2>1, <2>2, SameTold
  <2> QED
    BY <1>1, <1>2, <2>3, PlaceKept
<1>4. CASE t = s
  <2>a. ASSUME Told(t)', Monotone(t)
        PROVE  Told(t)' /\ SentSoFar(t)'
    BY <1>1, <1>2, <2>a, PlaceKept
  <2>1. CASE ServantExits(s)
    <3>1. /\ pc[t] = "probe" /\ channel[t] # <<>> /\ Head(channel[t]).tag = "EXIT"
          /\ UNCHANGED <<channel, job_type, temp, pop>>
      BY <1>4, <2>1 DEF ServantExits, Probes, Running
    <3>2. pop[t] = {}
      BY <3>1 DEF Conservation, OnePlace
    <3>3. Gone(t)'
      BY <3>1, <3>2 DEF Gone
    <3>4. Told(t)' /\ Monotone(t)
      BY <1>1, <3>1, <3>3, SameTold DEF Same, Stopped
    <3> QED
      BY <2>a, <3>4
  <2>2. CASE SetupEnvironment(s) \/ EvalSample(s) \/ EvalExits(s) \/ SendResults(s) \/ WithholdResults(s)
    <3>1. pc[t] \in {"setup", "eval"} /\ pc'[t] \in {"setup", "eval", "failed", "probe"}
      BY <1>0, <1>4, <2>2 DEF SetupEnvironment, EvalSample, EvalExits, SendResults, ReturnResults,
         WithholdResults, Running, Goto, TypeOK
    <3>2. UNCHANGED <<channel, job_type, temp>>
      BY <2>2 DEF SetupEnvironment, EvalSample, EvalExits, SendResults, ReturnResults, WithholdResults
    <3>3. Gone(t)' /\ Same(t) /\ pc[t] \notin Stopped
      BY <3>1, <3>2 DEF Gone, Same, Stopped
    <3>4. Told(t)' /\ Monotone(t)
      BY <1>1, <3>3, SameTold
    <3> QED
      BY <2>a, <3>4
  <2>3. CASE RecvJobType(s)
    <3>1. /\ channel[t] # <<>> /\ Head(channel[t]).tag = "JOB_DATATYPE"
          /\ channel'[t] = Tail(channel[t]) /\ job_type'[t] = Head(channel[t]).job
          /\ pc[t] = "probe" /\ pc' = pc /\ temp' = temp
      BY <1>0, <1>4, <2>3 DEF RecvJobType, Probes, Running, RecvFrom, TypeOK
    <3>2. Told(t)' /\ Monotone(t)
      BY <1>1, <1>2, <3>1, ReceiveTold DEF Stopped
    <3> QED
      BY <2>a, <3>2
  <2>4. CASE RecvOptParams(s)
    <3>1. /\ channel[t] # <<>> /\ Head(channel[t]).tag = "OPT_PARAMS"
          /\ channel'[t] = Tail(channel[t]) /\ job_type' = job_type /\ pc[t] = "probe"
      BY <1>4, <2>4 DEF RecvOptParams, Probes, Running, RecvFrom, TypeOK
    <3>2. /\ pc'[t] \in {"probe", "crashed", "failed"}
          /\ temp'[t] # "NULL" \/ pc'[t] \in Stopped
      BY <1>0, <1>4, <2>4 DEF RecvOptParams, Probes, Running, Goto, TypeOK, Stopped
    <3>3. Told(t)' /\ Monotone(t)
      BY <1>1, <1>2, <3>1, <3>2, ReceiveTold DEF Stopped
    <3> QED
      BY <2>a, <3>3
  <2>5. CASE RecvPopulation(s)
    <3>1. /\ channel[t] # <<>> /\ Head(channel[t]).tag = "POPULATION"
          /\ channel'[t] = Tail(channel[t]) /\ job_type' = job_type /\ temp' = temp
          /\ pc[t] = "probe" /\ pc'[t] \in {"crashed", "setup"}
      BY <1>0, <1>4, <2>5 DEF RecvPopulation, StartWork, Probes, Running, RecvFrom, Goto, TypeOK
    <3>2. Told(t)' /\ Monotone(t)
      BY <1>1, <1>2, <3>1, ReceiveTold DEF Stopped
    <3> QED
      BY <2>a, <3>2
  <2> QED
    BY <1>4, <2>1, <2>2, <2>3, <2>4, <2>5 DEF Servant
<1> QED
  BY <1>3, <1>4

\* A step of the master that sends nothing and keeps the job it knows.
LEMMA NothingSent ==
  ASSUME NEW t \in Servants, Told(t), UNCHANGED <<channel, job_type, temp, pop>>, pc'[t] = pc[t]
  PROVE  Told(t)' /\ Monotone(t)
BY SameTold DEF Same, Gone, Told

\* Every step of the master keeps the order of the tags.
LEMMA MasterTags ==
  ASSUME TypeOK, Conservation, TagInvariant, Master, NEW t \in Servants
  PROVE  Told(t)' /\ SentSoFar(t)'
<1> USE DEF masterVars, servantVars
<1>0. /\ MASTER \in Proc /\ t \in Proc /\ MASTER # t /\ t \in Nat /\ t <= TotalServants /\ t >= 1
      /\ servant \in Nat \ {0} /\ TotalServants \in Nat
  BY QuicAssumption DEF MASTER, Proc, Servants, TypeOK
<1>1. Told(t) /\ SentSoFar(t)
  BY DEF TagInvariant
<1>2. \A n, k \in 0 .. 4 : UpTo(t, n) /\ n <= k => UpTo(t, k)
  <2> SUFFICES ASSUME NEW n \in 0 .. 4, NEW k \in 0 .. 4, UpTo(t, n), n <= k,
                      NEW m \in In(channel[t])
               PROVE  Rank(m.tag) <= k
    BY DEF UpTo
  <2> QED
    BY DEF UpTo, Rank
<1>3. UpTo(t, 4)
  BY DEF UpTo, Rank
<1>a. ASSUME NEW label, Goto(MASTER, label)
      PROVE  pc'[MASTER] = label /\ pc'[t] = pc[t]
  BY <1>0, <1>a DEF Goto, TypeOK
<1>b. ASSUME NEW label, NEW after, NextServant(label, after)
      PROVE  /\ pc'[t] = pc[t]
             /\ \/ pc'[MASTER] = label /\ servant' = servant + 1
                \/ pc'[MASTER] = after /\ servant = TotalServants /\ servant' = 1
  BY <1>b, <1>a DEF NextServant
<1>4. CASE ReadOptFileFails \/ ReadOptFileWithoutJob \/ Optimize \/ MasterReturns \/ WaitForResults
  <2>1. /\ pc'[MASTER] \in {"failed", "send_final_exit", "done", "collect"} /\ pc'[t] = pc[t]
        /\ UNCHANGED <<channel, job_type, temp, pop>>
    BY <1>4, <1>a DEF ReadOptFileFails, ReadOptFileWithoutJob, Optimize, MasterReturns, WaitForResults, WaitFor
  <2> QED
    BY <1>1, <2>1, NothingSent DEF SentSoFar
<1>5. CASE \E s \in Servants : CollectResults(s)
  <2>1. pc[MASTER] = "collect" /\ UNCHANGED <<pc, channel, job_type, temp, pop>>
    BY <1>5 DEF CollectResults, Collect, Running
  <2> QED
    BY <1>1, <2>1, NothingSent DEF SentSoFar
<1>6. CASE GeneratePopulation
  <2>1. /\ pc[MASTER] = "start" /\ pc'[MASTER] = "send_job" /\ pc'[t] = pc[t]
        /\ UNCHANGED <<channel, temp, pop, servant>>
    BY <1>6, <1>a DEF GeneratePopulation, Generate, Running
  <2>2. In(channel[t]) = {}
    BY <1>1, <2>1 DEF SentSoFar, UpTo, Rank
  <2>3. servant = 1
    BY <1>0, <2>1 DEF TagInvariant
  <2>4. Told(t)'
    BY <1>1, <2>1, <2>2 DEF Told, Has, Gone
  <2>5. SentSoFar(t)'
    BY <1>0, <2>1, <2>2, <2>3 DEF SentSoFar, UpTo
  <2> QED
    BY <2>4, <2>5
<1>7. ASSUME NEW m \in Message,
             SendTo(servant, m), UNCHANGED <<job_type, temp, pop>>, pc'[t] = pc[t],
             t = servant => /\ UpTo(t, Rank(m.tag))
                            /\ m.tag = "JOB_DATATYPE" => m.job = job_type[MASTER]
                            /\ m.tag = "OPT_PARAMS" => Known(t)
                            /\ m.tag = "POPULATION" => Ready(t)
      PROVE  /\ Told(t)'
             /\ \A n \in 0 .. 4 : UpTo(t, n) /\ (t = servant => Rank(m.tag) <= n) => UpTo(t, n)'
             /\ Known(t) \/ (t = servant /\ m.tag = "JOB_DATATYPE") => Known(t)'
             /\ Ready(t) \/ (t = servant /\ m.tag = "OPT_PARAMS") => Ready(t)'
  <2>1. CASE t = servant
    <3>1. channel'[t] = Append(channel[t], m)
      BY <1>7, <2>1 DEF SendTo, TypeOK
    <3> QED
      BY <1>1, <1>7, <2>1, <3>1, SendTold
  <2>2. CASE t # servant
    <3>1. channel'[t] = channel[t]
      BY <1>7, <2>2 DEF SendTo, TypeOK
    <3>2. Same(t) /\ Gone(t)'
      BY <1>1, <1>7, <3>1 DEF Same, Told, Gone
    <3>3. Told(t)' /\ Monotone(t)
      BY <1>1, <1>7, <3>2, SameTold
    <3> QED
      BY <2>2, <3>3 DEF Monotone
  <2> QED
    BY <2>1, <2>2
<1>8. CASE SendJobType
  <2>1. PICK mode \in Modes("JOB_DATATYPE") : SendTo(servant, JobMsg(job_type[MASTER], mode))
    BY <1>8 DEF SendJobType
  <2> DEFINE m == JobMsg(job_type[MASTER], mode)
  <2>2. m \in Message /\ m.tag = "JOB_DATATYPE" /\ m.job = job_type[MASTER]
    BY <1>0, ModesType, MessageTypes DEF JobMsg, Msg, TypeOK
  <2> HIDE DEF m
  <2>3. Rank(m.tag) = 1
    BY <2>2 DEF Rank
  <2>4. /\ pc[MASTER] = "send_job" /\ pc'[t] = pc[t] /\ UNCHANGED <<job_type, temp, pop>>
        /\ \/ pc'[MASTER] = "send_job" /\ servant' = servant + 1
           \/ pc'[MASTER] = "send_opt" /\ servant = TotalServants /\ servant' = 1
    BY <1>8, <1>b DEF SendJobType, Running
  <2>5. UpTo(t, 1) /\ (t < servant => Known(t))
    BY <1>1, <2>4 DEF SentSoFar
  <2>6. Told(t)' /\ UpTo(t, 1)' /\ (t <= servant => Known(t)')
    BY <1>0, <1>7, <2>1, <2>2, <2>3, <2>4, <2>5 DEF m
  <2>7. UpTo(t, 2)'
    BY <2>6 DEF UpTo, Rank
  <2> QED
    BY <1>0, <2>4, <2>6, <2>7 DEF SentSoFar
<1>9. CASE SendOptParams
  <2>1. PICK mode \in Modes("OPT_PARAMS") : SendTo(servant, Msg("OPT_PARAMS", mode))
    BY <1>9 DEF SendOptParams
  <2> DEFINE m == Msg("OPT_PARAMS", mode)
  <2>2. m \in Message /\ m.tag = "OPT_PARAMS"
    BY ModesType, MessageTypes DEF Msg, MESSAGE_TYPE
  <2> HIDE DEF m
  <2>3. Rank(m.tag) = 2
    BY <2>2 DEF Rank
  <2>4. /\ pc[MASTER] = "send_opt" /\ pc'[t] = pc[t] /\ UNCHANGED <<job_type, temp, pop>>
        /\ \/ pc'[MASTER] = "send_opt" /\ servant' = servant + 1
           \/ pc'[MASTER] = "send_work" /\ servant = TotalServants /\ servant' = 1
    BY <1>9, <1>b DEF SendOptParams, Running
  <2>5. UpTo(t, 2) /\ Known(t) /\ (t < servant => Ready(t))
    BY <1>1, <2>4 DEF SentSoFar
  <2>6. Told(t)' /\ UpTo(t, 2)' /\ Known(t)' /\ (t <= servant => Ready(t)')
    BY <1>0, <1>7, <2>1, <2>2, <2>3, <2>4, <2>5 DEF m
  <2> QED
    BY <1>0, <2>4, <2>6 DEF SentSoFar
<1>10. CASE SendPopulation
  <2> DEFINE S == next .. (next_subset_start - 1)
  <2>1. PICK mode \in Modes("POPULATION") : SendTo(servant, PopMsg(S, mode))
    BY <1>10 DEF SendPopulation, Distribute
  <2>2. S \in SUBSET SampleIds
    BY <1>10, GetSubsetBounds DEF SendPopulation, Distribute
  <2> HIDE DEF S
  <2> DEFINE m == PopMsg(S, mode)
  <2>3. m \in Message /\ m.tag = "POPULATION"
    BY <2>2, ModesType, MessageTypes DEF PopMsg, Msg
  <2> HIDE DEF m
  <2>4. Rank(m.tag) = 3
    BY <2>3 DEF Rank
  <2>5. /\ pc[MASTER] = "send_work" /\ pc'[MASTER] = "send_exit" /\ pc'[t] = pc[t]
        /\ UNCHANGED <<job_type, temp, pop, servant>>
    BY <1>10, <1>a DEF SendPopulation, Distribute, Running
  <2>6. Ready(t) /\ (t >= servant => UpTo(t, 2))
    BY <1>1, <2>5 DEF SentSoFar
  <2>7. t = servant => UpTo(t, 3)
    BY <1>0, <1>2, <2>6
  <2>8. Told(t)' /\ Ready(t)' /\ (t > servant => UpTo(t, 2)')
    BY <1>0, <1>7, <2>1, <2>3, <2>4, <2>5, <2>6, <2>7 DEF m
  <2> QED
    BY <1>0, <2>5, <2>8 DEF SentSoFar
<1>11. CASE IsendExit \/ SendExit
  <2>1. PICK mode \in {"eager", "rendezvous"} : SendTo(servant, Msg("EXIT", mode))
    BY <1>11, ModesType DEF IsendExit, SendExit
  <2> DEFINE m == Msg("EXIT", mode)
  <2>2. m \in Message /\ m.tag = "EXIT"
    BY MessageTypes DEF Msg, MESSAGE_TYPE
  <2> HIDE DEF m
  <2>3. Rank(m.tag) = 4
    BY <2>2 DEF Rank
  <2>4. pc'[t] = pc[t] /\ UNCHANGED <<job_type, temp, pop>>
    BY <1>11, <1>a, <1>b DEF IsendExit, SendExit
  <2>5. /\ Told(t)' /\ (Ready(t) => Ready(t)')
        /\ t # servant /\ UpTo(t, 2) => UpTo(t, 2)'
    BY <1>3, <1>7, <2>1, <2>2, <2>3, <2>4 DEF m
  <2>6. CASE IsendExit
    <3>1. pc[MASTER] = "send_exit" /\ pc'[MASTER] = "send_work" /\ servant' = servant + 1
      BY <1>a, <2>6 DEF IsendExit, Running
    <3>2. Ready(t) /\ (t > servant => UpTo(t, 2))
      BY <1>1, <3>1 DEF SentSoFar
    <3>3. t >= servant' => t > servant /\ t # servant
      BY <1>0, <3>1
    <3> QED
      BY <2>5, <3>1, <3>2, <3>3 DEF SentSoFar
  <2>7. CASE SendExit
    <3>1. pc'[MASTER] \in {"send_final_exit", "returning"}
      BY <1>b, <2>7 DEF SendExit
    <3> QED
      BY <2>5, <3>1 DEF SentSoFar
  <2> QED
    BY <1>11, <2>6, <2>7
<1> QED
  BY <1>4, <1>5, <1>6, <1>8, <1>9, <1>10, <1>11 DEF Master

\* What the servants were told when the program starts: nothing.
LEMMA InitTags == Init => TagInvariant
<1> SUFFICES ASSUME Init PROVE TagInvariant
  OBVIOUS
<1>0. MASTER \in Proc /\ pc[MASTER] = "start" /\ servant = 1
  BY QuicAssumption DEF Init, MASTER, Proc
<1>1. ASSUME NEW s \in Servants
      PROVE  Told(s) /\ SentSoFar(s)
  <2>1. /\ channel[s] = <<>> /\ Len(channel[s]) = 0 /\ 1 .. 0 = {}
        /\ s \in Proc /\ s # MASTER /\ pc[s] = "probe"
    BY DEF Init, Servants, Proc, MASTER
  <2>2. In(channel[s]) = {}
    BY <2>1 DEF In
  <2>3. Told(s)
    BY <2>1, <2>2 DEF Told, Sorted, Has, Gone
  <2>4. SentSoFar(s)
    BY <1>0, <2>2 DEF SentSoFar, UpTo
  <2> QED
    BY <2>3, <2>4
<1> QED
  BY <1>0, <1>1 DEF TagInvariant

\* Every step keeps the order of the tags.
LEMMA NextTags == TypeOK /\ Conservation /\ TagInvariant /\ [Next]_vars => TagInvariant'
<1> SUFFICES ASSUME TypeOK, Conservation, TagInvariant, [Next]_vars PROVE TagInvariant'
  OBVIOUS
<1>0. MASTER \in Proc
  BY QuicAssumption DEF MASTER, Proc
<1>1. pc'[MASTER] = "start" => servant' = 1
  <2>1. pc'[MASTER] = "start" => pc[MASTER] = "start" /\ servant' = servant
    <3>1. CASE Master
      <4>1. ASSUME NEW label, label # "start", Goto(MASTER, label)
            PROVE  pc'[MASTER] # "start"
        BY <1>0, <4>1 DEF Goto, TypeOK
      <4> QED
        BY <3>1, <4>1 DEF Master, ReadOptFileFails, ReadOptFileWithoutJob, GeneratePopulation,
           Generate, SendJobType, SendOptParams, SendPopulation, Distribute, IsendExit,
           WaitForResults, WaitFor, CollectResults, Collect, Running, Optimize, SendExit,
           MasterReturns, NextServant
    <3>2. CASE (\E s \in Servants : Servant(s)) \/ Abort \/ UNCHANGED vars
      BY <3>2, MasterUntouched DEF masterVars
    <3> QED
      BY <3>1, <3>2 DEF Next, Terminated
  <2> QED
    BY <2>1 DEF TagInvariant
<1>2. ASSUME NEW t \in Servants
      PROVE  Told(t)' /\ SentSoFar(t)'
  <2>1. Told(t) /\ SentSoFar(t)
    BY DEF TagInvariant
  <2>2. CASE Abort
    <3>1. UNCHANGED <<channel, job_type, temp, pop, servant>>
      BY <2>2 DEF Abort, masterVars, servantVars
    <3>2. /\ pc[t] \in Stopped => pc'[t] \in Stopped
          /\ pc'[t] = "done" => pc[t] = "done"
          /\ pc'[MASTER] \in {pc[MASTER], "killed"}
      BY <1>0, <2>2 DEF Abort, Stopped, Servants, Proc
    <3>3. Same(t) /\ Gone(t)'
      BY <2>1, <3>1, <3>2 DEF Same, Gone, Told
    <3> QED
      BY <2>1, <3>1, <3>2, <3>3, SameTold, PlaceKept
  <2>3. CASE UNCHANGED vars
    <3>1. UNCHANGED <<pc, channel, job_type, temp, pop, servant>>
      BY <2>3 DEF vars, masterVars, servantVars
    <3> QED
      BY <2>1, <3>1, NothingSent, PlaceKept
  <2> QED
    BY <2>2, <2>3, MasterTags, ServantTags DEF Next, Terminated
<1> QED
  BY <1>1, <1>2 DEF TagInvariant

\* A servant has been told everything before what it is told next.
THEOREM TagsInOrder == Spec => []TagInvariant
<1>1. Init => TagInvariant
  BY InitTags
<1>2. TypeOK /\ Conservation /\ TagInvariant /\ [Next]_vars => TagInvariant'
  BY NextTags
<1> QED
  BY <1>1, <1>2, TypeCorrect, Conserved, PTL DEF Spec

\* Behind an EXIT that a servant finds there is no work.
LEMMA NothingBehindExit ==
  ASSUME TypeOK, Conservation, NEW s \in Servants, Told(s),
         channel[s] # <<>>, Head(channel[s]).tag = "EXIT"
  PROVE  Carried(channel[s]) = {}
<1>1. channel[s] \in Seq(Message)
  BY DEF TypeOK
<1>2. \A m \in In(channel[s]) : 4 <= Rank(m.tag)
  BY <1>1, InTail DEF Told, Rank
<1>3. \A i \in 1 .. Len(channel[s]) : channel[s][i].tag # "POPULATION"
  BY <1>2 DEF In, Rank
<1> QED
  BY <1>3 DEF Conservation, OnePlace, Carried

\* ProtocolOrder for every number of servants: the tag a servant finds is one it
\* can act on (quic.cpp:389-470).
THEOREM TagsAreInProtocolOrder == Spec => []ProtocolOrder
<1>1. TypeOK /\ Conservation /\ TagInvariant => ProtocolOrder
  <2> SUFFICES ASSUME TypeOK, Conservation, TagInvariant,
                      NEW s \in Servants, pc[s] = "probe", channel[s] # <<>>,
                      NEW tag, tag = Head(channel[s]).tag
               PROVE  /\ tag = "OPT_PARAMS" => job_type[s] = job_type[MASTER]
                      /\ tag = "POPULATION" => temp[s] # "NULL" /\ pop[s] = {}
                      /\ tag = "EXIT" => Carried(channel[s]) = {}
    BY DEF ProtocolOrder
  <2>1. Told(s) /\ channel[s] \in Seq(Message)
    BY DEF TagInvariant, TypeOK
  <2>2. /\ Head(channel[s]) \in In(channel[s])
        /\ \A m \in In(channel[s]) : Rank(tag) <= Rank(m.tag)
    BY <2>1, InTail DEF Told
  <2>3. tag = "OPT_PARAMS" => job_type[s] = job_type[MASTER]
    BY <2>1, <2>2 DEF Told, Known, Has, Rank
  <2>4. tag = "POPULATION" => temp[s] # "NULL" /\ pop[s] = {}
    BY <2>1, <2>2 DEF Told, Ready, Has, Rank, Stopped, Conservation, OnePlace
  <2>5. tag = "EXIT" => Carried(channel[s]) = {}
    BY <2>1, NothingBehindExit
  <2> QED
    BY <2>3, <2>4, <2>5
<1> QED
  BY <1>1, TypeCorrect, Conserved, TagsInOrder, PTL

\* HangsOnlyOnWithheld for every number of servants: once all servants have
\* returned, the master waits for nothing but what they withheld
\* (quic.cpp:317-330, 454-458).
THEOREM WaitsOnlyForWithheld == Spec => []HangsOnlyOnWithheld
<1>1. TypeOK /\ Conservation /\ TagInvariant => HangsOnlyOnWithheld
  <2> SUFFICES ASSUME TypeOK, Conservation, TagInvariant, pc[MASTER] = "collect",
                      \A s \in Servants : pc[s] = "done" /\ reply[s] = <<>>
               PROVE  results_to_received = Cardinality(withheld)
    BY DEF HangsOnlyOnWithheld
  <2>1. ASSUME NEW s \in Servants PROVE Held(s) = {}
    <3>1. Told(s) /\ channel[s] # <<>> /\ Head(channel[s]).tag = "EXIT" /\ pop[s] = {}
      BY DEF TagInvariant, Told, Gone
    <3>2. Carried(channel[s]) = {}
      BY <3>1, NothingBehindExit
    <3> QED
      BY <3>1, <3>2, CarriedEmpty DEF Held
  <2>2. next = population_size /\ population_size \in Nat
    BY DEF Conservation, SendingLoops, TypeOK
  <2>3. 0 .. (population_size - 1) = results \cup withheld /\ results \cap withheld = {}
    BY <2>1, <2>2 DEF Conservation, AllAccounted, OneHolder
  <2>4. /\ IsFiniteSet(results) /\ IsFiniteSet(withheld)
        /\ Cardinality(results) \in Nat /\ Cardinality(withheld) \in Nat
    BY SamplesFinite DEF TypeOK
  <2>5. Cardinality(results \cup withheld) = Cardinality(results) + Cardinality(withheld)
    <3>1. Cardinality(results \cup withheld) =
            Cardinality(results) + Cardinality(withheld) - Cardinality(results \cap withheld)
      BY <2>4, FS_Union
    <3>2. Cardinality(results \cap withheld) = 0
      BY <2>3, FS_EmptySet
    <3> QED
      BY <2>4, <3>1, <3>2
  <2>6. Cardinality(0 .. (population_size - 1)) = population_size
    <3>1. population_size - 1 \in Int
      BY <2>2
    <3>2. Cardinality(0 .. (population_size - 1)) =
            IF 0 > population_size - 1 THEN 0 ELSE (population_size - 1) - 0 + 1
      BY <3>1, FS_Interval
    <3> QED
      BY <2>2, <3>2
  <2>7. results_to_received = population_size - Cardinality(results)
    BY DEF Conservation, CountMatchesResults
  <2>8. Cardinality(results) + Cardinality(withheld) = population_size
    BY <2>3, <2>5, <2>6
  <2> QED
    BY <2>2, <2>4, <2>7, <2>8
<1> QED
  BY <1>1, TypeCorrect, Conserved, TagsInOrder, PTL

----------------------------------------------------------------------------
(***************************************************************************)
(* The fitness of the results.                                             *)
(***************************************************************************)
\* The samples of servant s whose evaluation has been tried.
Tried(s) == (pop[s] \ todo[s]) \cup Carried(reply[s])

\* At a servant and in what it sends, what was tried and did not fail has fitness.
ServantEvaluates(s) ==
  /\ todo[s] \subseteq pop[s]
  /\ fitness[s] = pop[s] \ (todo[s] \cup failures)
  /\ \A m \in In(reply[s]) : m.valued = m.pop \ failures

\* Only samples that were tried have failed.
AllEvaluated ==
  /\ ResultsAreEvaluated
  /\ failures \subseteq results \cup withheld \cup UNION {Tried(s) : s \in Servants}
  /\ \A s \in Servants : ServantEvaluates(s)

\* The messages of a channel and the samples they carry.
LEMMA InCarried ==
  ASSUME NEW q \in Seq(Message), NEW m \in In(q)
  PROVE  m.pop \subseteq Carried(q)
BY DEF In, Carried

\* What is tried is held.
LEMMA TriedIsHeld ==
  ASSUME NEW s \in Servants
  PROVE  Tried(s) \subseteq Held(s)
BY DEF Tried, Held

\* A sample that is still to be evaluated has not failed, is not collected and is
\* nowhere else.
LEMMA UntriedIsApart ==
  ASSUME TypeOK, Conservation, AllEvaluated, NEW s \in Servants, NEW k \in todo[s]
  PROVE  /\ k \in pop[s] /\ k \notin failures /\ k \notin results
         /\ \A t \in Servants : k \notin Carried(reply[t])
         /\ \A t \in Servants : t # s => k \notin pop[t]
<1>1. k \in pop[s] /\ k \in Held(s)
  BY DEF AllEvaluated, ServantEvaluates, Held
<1>2. k \notin results /\ k \notin withheld
  BY <1>1 DEF Conservation, OneHolder
<1>3. \A t \in Servants : t # s => k \notin Held(t)
  BY <1>1 DEF Conservation, OneHolder
<1>4. k \notin Carried(reply[s])
  BY <1>1 DEF Conservation, OnePlace
<1>5. \A t \in Servants : k \notin Tried(t)
  BY <1>3, <1>4, TriedIsHeld DEF Tried
<1>6. k \notin failures
  BY <1>2, <1>5 DEF AllEvaluated
<1> QED
  BY <1>1, <1>2, <1>3, <1>4, <1>6 DEF Held

\* A servant that is left alone keeps what it has evaluated.
LEMMA OtherEvaluates ==
  ASSUME AllEvaluated, NEW t \in Servants, UNCHANGED failures,
         pop'[t] = pop[t], todo'[t] = todo[t], fitness'[t] = fitness[t], reply'[t] = reply[t]
  PROVE  ServantEvaluates(t)' /\ Tried(t)' = Tried(t)
BY DEF AllEvaluated, ServantEvaluates, Tried

\* A step that changes none of this.
LEMMA NothingEvaluated ==
  ASSUME AllEvaluated, UNCHANGED <<results, valued, reply, pop, todo, fitness, failures, withheld>>
  PROVE  AllEvaluated'
<1>1. \A t \in Servants : ServantEvaluates(t)' /\ Tried(t)' = Tried(t)
  BY OtherEvaluates
<1> QED
  BY <1>1 DEF AllEvaluated, ResultsAreEvaluated

\* A step of servant s that collects nothing and lets no evaluation fail.
LEMMA ServantGoesOn ==
  ASSUME TypeOK, AllEvaluated, NEW s \in Servants, UNCHANGED <<results, valued, failures>>,
         withheld \subseteq withheld',
         \A t \in Servants : t # s => /\ pop'[t] = pop[t] /\ todo'[t] = todo[t]
                                      /\ fitness'[t] = fitness[t] /\ reply'[t] = reply[t],
         ServantEvaluates(s)', Tried(s) \subseteq Tried(s)' \cup withheld'
  PROVE  AllEvaluated'
<1>1. \A t \in Servants : ServantEvaluates(t)' /\ Tried(t) \subseteq Tried(t)' \cup withheld'
  BY OtherEvaluates
<1>2. ResultsAreEvaluated'
  BY DEF AllEvaluated, ResultsAreEvaluated
<1>3. failures' \subseteq results' \cup withheld' \cup UNION {Tried(t)' : t \in Servants}
  BY <1>1 DEF AllEvaluated
<1> QED
  BY <1>1, <1>2, <1>3 DEF AllEvaluated

\* Every step of a servant keeps fitness with the samples that did not fail.
LEMMA ServantStepEvaluates ==
  ASSUME TypeOK, Conservation, AllEvaluated, NEW s \in Servants, Servant(s)
  PROVE  AllEvaluated'
<1> USE DEF masterVars, servantVars
<1>0. ServantEvaluates(s) /\ reply[s] \in Seq(Message)
  BY DEF AllEvaluated, TypeOK
<1>1. CASE ServantExits(s) \/ RecvJobType(s) \/ RecvOptParams(s) \/ SetupEnvironment(s) \/ EvalExits(s)
  BY <1>1, NothingEvaluated DEF ServantExits, RecvJobType, RecvOptParams, RecvFrom,
     SetupEnvironment, EvalExits
<1>2. CASE RecvPopulation(s)
  <2>1. pop[s] = {}
    BY <1>2 DEF RecvPopulation, StartWork, Probes, Running, Conservation, OnePlace
  <2>2. /\ UNCHANGED <<results, valued, failures, withheld, reply>>
        /\ pop'[s] = todo'[s] /\ fitness'[s] = {}
        /\ \A t \in Servants : t # s => /\ pop'[t] = pop[t] /\ todo'[t] = todo[t]
                                        /\ fitness'[t] = fitness[t]
    BY <1>2 DEF RecvPopulation, StartWork, RecvFrom, TypeOK
  <2>3. ServantEvaluates(s)'
    BY <1>0, <2>2 DEF ServantEvaluates
  <2>4. Tried(s) \subseteq Tried(s)'
    BY <2>1, <2>2 DEF Tried
  <2> QED
    BY <2>2, <2>3, <2>4, ServantGoesOn
<1>3. CASE EvalSample(s)
  <2>1. PICK k \in todo[s] :
          /\ todo' = [todo EXCEPT ![s] = @ \ {k}]
          /\ \E result \in SampleResults \ {"exit"} :
               /\ fitness' = [fitness EXCEPT ![s] = IF result = "evaluated" THEN @ \cup {k} ELSE @]
               /\ failures' = IF result = "evaluated" THEN failures ELSE failures \cup {k}
    BY <1>3 DEF EvalSample
  <2>2. UNCHANGED <<results, valued, withheld, reply, pop>>
    BY <1>3 DEF EvalSample
  <2>3. /\ k \in pop[s] /\ k \notin failures /\ k \notin results
        /\ \A t \in Servants : k \notin Carried(reply[t])
        /\ \A t \in Servants : t # s => k \notin pop[t]
    BY UntriedIsApart
  <2>4. todo'[s] = todo[s] \ {k} /\ \A t \in Servants : t # s => todo'[t] = todo[t]
    BY <2>1 DEF TypeOK
  <2>5. /\ \/ fitness'[s] = fitness[s] \cup {k} /\ failures' = failures
           \/ fitness'[s] = fitness[s] /\ failures' = failures \cup {k}
        /\ \A t \in Servants : t # s => fitness'[t] = fitness[t]
    BY <2>1 DEF TypeOK
  <2>6. ASSUME NEW t \in Servants, NEW m \in In(reply'[t])
        PROVE  m.valued = m.pop \ failures'
    <3>1. m \in In(reply[t]) /\ reply[t] \in Seq(Message)
      BY <2>2, <2>6 DEF TypeOK
    <3>2. k \notin m.pop
      BY <2>3, <3>1, InCarried
    <3>3. m.valued = m.pop \ failures
      BY <3>1 DEF AllEvaluated, ServantEvaluates
    <3> QED
      BY <2>5, <3>2, <3>3
  <2>7. ServantEvaluates(s)'
    BY <1>0, <2>2, <2>3, <2>4, <2>5, <2>6 DEF ServantEvaluates
  <2>8. ASSUME NEW t \in Servants, t # s PROVE ServantEvaluates(t)'
    <3>1. todo[t] \subseteq pop[t] /\ fitness[t] = pop[t] \ (todo[t] \cup failures)
      BY DEF AllEvaluated, ServantEvaluates
    <3> QED
      BY <2>2, <2>3, <2>4, <2>5, <2>6, <2>8, <3>1 DEF ServantEvaluates
  <2>9. \A t \in Servants : Tried(t) \subseteq Tried(t)'
    BY <2>2, <2>4 DEF Tried
  <2>10. k \in Tried(s)'
    BY <2>2, <2>3, <2>4 DEF Tried
  <2>11. failures' \subseteq results' \cup withheld' \cup UNION {Tried(t)' : t \in Servants}
    BY <2>2, <2>5, <2>9, <2>10 DEF AllEvaluated
  <2>12. ResultsAreEvaluated'
    BY <2>2, <2>3, <2>5 DEF AllEvaluated, ResultsAreEvaluated
  <2> QED
    BY <2>7, <2>8, <2>11, <2>12 DEF AllEvaluated
<1>4. CASE SendResults(s)
  <2>1. PICK mode \in Modes("RESULTS") :
          reply' = [reply EXCEPT ![s] = Append(@, ResultsMsg(pop[s], fitness[s], mode))]
    BY <1>4 DEF SendResults, ReturnResults
  <2>2. /\ UNCHANGED <<results, valued, failures, withheld, todo>>
        /\ todo[s] = {} /\ pop'[s] = {} /\ fitness'[s] = {}
        /\ \A t \in Servants : t # s => /\ pop'[t] = pop[t] /\ fitness'[t] = fitness[t]
                                        /\ reply'[t] = reply[t]
    BY <1>4, <2>1 DEF SendResults, ReturnResults, TypeOK
  <2> DEFINE m == ResultsMsg(pop[s], fitness[s], mode)
  <2>3. pop[s] \in SUBSET SampleIds /\ fitness[s] \in SUBSET SampleIds
    BY DEF TypeOK
  <2>4. m \in Message
    BY <2>3, ModesType, MessageTypes
  <2>5. m.pop = pop[s] /\ m.valued = fitness[s]
    BY DEF ResultsMsg, Msg
  <2>6. reply'[s] = Append(reply[s], m)
    BY <2>1 DEF TypeOK
  <2> HIDE DEF m
  <2>7. In(reply'[s]) = In(reply[s]) \cup {m}
    BY <1>0, <2>4, <2>6, InAppend
  <2>8. Carried(reply'[s]) = Carried(reply[s]) \cup pop[s]
    BY <1>0, <2>4, <2>5, <2>6, CarriedAppend
  <2>9. ServantEvaluates(s)'
    BY <1>0, <2>2, <2>5, <2>7 DEF ServantEvaluates
  <2>10. Tried(s) \subseteq Tried(s)'
    BY <2>8 DEF Tried
  <2> QED
    BY <2>2, <2>9, <2>10, ServantGoesOn
<1>5. CASE WithholdResults(s)
  <2>1. /\ UNCHANGED <<results, valued, failures, todo, reply>>
        /\ todo[s] = {} /\ pop'[s] = {} /\ fitness'[s] = {}
        /\ withheld' = withheld \cup pop[s]
        /\ \A t \in Servants : t # s => pop'[t] = pop[t] /\ fitness'[t] = fitness[t]
    BY <1>5 DEF WithholdResults, TypeOK
  <2>2. ServantEvaluates(s)'
    BY <1>0, <2>1 DEF ServantEvaluates
  <2>3. Tried(s) \subseteq Tried(s)' \cup withheld'
    BY <2>1 DEF Tried
  <2> QED
    BY <2>1, <2>2, <2>3, ServantGoesOn
<1> QED
  BY <1>1, <1>2, <1>3, <1>4, <1>5 DEF Servant

\* The master adds up the fitness with the samples.
LEMMA CollectEvaluates ==
  ASSUME TypeOK, Conservation, AllEvaluated, NEW s \in Servants, CollectResults(s)
  PROVE  AllEvaluated'
<1> DEFINE m == Head(reply[s])
<1>1. /\ reply[s] \in Seq(Message) /\ reply[s] # <<>>
      /\ reply' = [reply EXCEPT ![s] = Tail(reply[s])]
      /\ results' = results \cup m.pop
      /\ valued' = valued \cup m.valued
      /\ UNCHANGED <<pop, todo, fitness, failures, withheld>>
  BY DEF CollectResults, Collect, TypeOK, servantVars
<1>2. /\ reply'[s] = Tail(reply[s])
      /\ \A t \in Servants : t # s => reply'[t] = reply[t]
  BY <1>1 DEF TypeOK
<1>3. /\ In(reply[s]) = In(Tail(reply[s])) \cup {m}
      /\ Carried(reply[s]) = Carried(Tail(reply[s])) \cup m.pop
  BY <1>1, InTail, CarriedTail
<1> HIDE DEF m
<1>4. m.valued = m.pop \ failures
  BY <1>3 DEF AllEvaluated, ServantEvaluates
<1>5. ResultsAreEvaluated'
  BY <1>1, <1>4 DEF AllEvaluated, ResultsAreEvaluated
<1>6. ServantEvaluates(s)'
  BY <1>1, <1>2, <1>3 DEF AllEvaluated, ServantEvaluates
<1>7. \A t \in Servants : t # s => ServantEvaluates(t)' /\ Tried(t)' = Tried(t)
  BY <1>1, <1>2, OtherEvaluates
<1>8. Tried(s) \subseteq Tried(s)' \cup results'
  BY <1>1, <1>2, <1>3 DEF Tried
<1>9. failures' \subseteq results' \cup withheld' \cup UNION {Tried(t)' : t \in Servants}
  BY <1>1, <1>7, <1>8 DEF AllEvaluated
<1> QED
  BY <1>5, <1>6, <1>7, <1>9 DEF AllEvaluated

\* Every step keeps fitness with the samples that did not fail.
LEMMA NextEvaluates ==
  ASSUME TypeOK, Conservation, AllEvaluated, [Next]_vars
  PROVE  AllEvaluated'
<1> USE DEF masterVars, servantVars
<1>1. ASSUME NEW s \in Servants, CollectResults(s) PROVE AllEvaluated'
  BY <1>1, CollectEvaluates
<1>2. ASSUME NEW s \in Servants, Servant(s) PROVE AllEvaluated'
  BY <1>2, ServantStepEvaluates
<1>3. CASE Abort
  BY <1>3, NothingEvaluated DEF Abort
<1>4. CASE UNCHANGED vars
  BY <1>4, NothingEvaluated DEF vars
<1>5. ASSUME Master, ~ \E s \in Servants : CollectResults(s)
      PROVE  AllEvaluated'
  <2>1. UNCHANGED <<results, valued, reply, pop, todo, fitness, failures, withheld>>
    BY <1>5 DEF Master, ReadOptFileFails, ReadOptFileWithoutJob, GeneratePopulation,
       Generate, SendJobType, SendOptParams, SendPopulation, Distribute, IsendExit, SendTo,
       WaitForResults, WaitFor, Optimize, SendExit, MasterReturns
  <2> QED
    BY <2>1, NothingEvaluated
<1> QED
  BY <1>1, <1>2, <1>3, <1>4, <1>5 DEF Next, Terminated

\* ResultsAreEvaluated for every number of servants and however evaluations end: the
\* minima are taken over all the fitness that was computed, and a result lacks it only
\* where its evaluation failed (quic.cpp:331-351, 454-467, simpleLSM_job.cpp:21-31).
THEOREM ResultsAreValued == Spec => []ResultsAreEvaluated
<1>1. Init => AllEvaluated
  <2> SUFFICES ASSUME Init PROVE AllEvaluated
    OBVIOUS
  <2>1. results = {} /\ valued = {} /\ failures = {}
    BY DEF Init
  <2>2. ASSUME NEW s \in Servants PROVE ServantEvaluates(s)
    <3>1. /\ reply[s] = <<>> /\ Len(reply[s]) = 0 /\ 1 .. 0 = {}
          /\ pop[s] = {} /\ todo[s] = {} /\ fitness[s] = {}
      BY DEF Init
    <3> QED
      BY <3>1 DEF ServantEvaluates, In
  <2> QED
    BY <2>1, <2>2 DEF AllEvaluated, ResultsAreEvaluated
<1>2. TypeOK /\ Conservation /\ AllEvaluated /\ [Next]_vars => AllEvaluated'
  BY NextEvaluates
<1>3. AllEvaluated => ResultsAreEvaluated
  BY DEF AllEvaluated
<1> QED
  BY <1>1, <1>2, <1>3, TypeCorrect, Conserved, PTL DEF Spec
----------------------------------------------------------------------------
(***************************************************************************)
(* The refinement: the protocol implements WorkFarm, for every number of    *)
(* servants and every population; each step of a rank is a step of the farm *)
(* or changes nothing there.                                               *)
(***************************************************************************)
\* The sets of samples that the messages of a servant and its population hold.
Cells(s) ==
  {channel[s][i].pop : i \in 1 .. Len(channel[s])} \cup {pop[s]}
    \cup {reply[s][i].pop : i \in 1 .. Len(reply[s])}

\* The samples of a servant move together.
Whole(s) == Cells(s) \subseteq {{}, Held(s)}

\* Servants the distribution loop has not come to hold nothing.
Unserved ==
  /\ pc[MASTER] \in {"start", "send_job", "send_opt"} => \A t \in Servants : Held(t) = {}
  /\ pc[MASTER] = "send_work" => \A t \in Servants : t >= servant => Held(t) = {}
  /\ pc[MASTER] = "send_exit" => \A t \in Servants : t > servant => Held(t) = {}

\* The master distributes and collects for a job it knows.
JobKnown ==
  pc[MASTER] \in {"send_job", "send_opt", "send_work", "send_exit", "collect"}
    => job_type[MASTER] # "INVALID_JOB"

FarmInvariant == (\A s \in Servants : Whole(s)) /\ Unserved /\ JobKnown

----------------------------------------------------------------------------
(***************************************************************************)
(* The samples of a servant move together.                                 *)
(***************************************************************************)
\* Held is the union of the cells.
LEMMA HeldIsCells ==
  ASSUME NEW s \in Servants
  PROVE  Held(s) = UNION Cells(s)
BY DEF Held, Cells, Carried

\* The cells of a channel to which a message is added, and from which one is taken.
LEMMA CellsOfChannel ==
  ASSUME NEW q \in Seq(Message)
  PROVE  /\ \A m \in Message :
              {Append(q, m)[i].pop : i \in 1 .. Len(Append(q, m))}
                = {q[i].pop : i \in 1 .. Len(q)} \cup {m.pop}
         /\ q # <<>> => /\ Head(q).pop \in {q[i].pop : i \in 1 .. Len(q)}
                        /\ {Tail(q)[i].pop : i \in 1 .. Len(Tail(q))}
                             \subseteq {q[i].pop : i \in 1 .. Len(q)}
<1>1. ASSUME NEW m \in Message
      PROVE  {Append(q, m)[i].pop : i \in 1 .. Len(Append(q, m))}
               = {q[i].pop : i \in 1 .. Len(q)} \cup {m.pop}
  <2> DEFINE a == Append(q, m)
  <2>1. /\ Len(q) \in Nat /\ Len(a) = Len(q) + 1
        /\ \A i \in 1 .. Len(q) : a[i] = q[i]
        /\ a[Len(q) + 1] = m
    OBVIOUS
  <2>2. 1 .. Len(a) = (1 .. Len(q)) \cup {Len(q) + 1}
    BY <2>1
  <2> HIDE DEF a
  <2>3. {a[i].pop : i \in 1 .. Len(a)} = {q[i].pop : i \in 1 .. Len(q)} \cup {m.pop}
    BY <2>1, <2>2
  <2> QED
    BY <2>3 DEF a
<1>2. ASSUME q # <<>>
      PROVE  /\ Head(q).pop \in {q[i].pop : i \in 1 .. Len(q)}
             /\ {Tail(q)[i].pop : i \in 1 .. Len(Tail(q))} \subseteq {q[i].pop : i \in 1 .. Len(q)}
  <2>1. /\ Len(q) \in Nat /\ Len(q) > 0 /\ Len(Tail(q)) = Len(q) - 1
        /\ \A i \in 1 .. Len(Tail(q)) : Tail(q)[i] = q[i + 1]
        /\ Head(q) = q[1]
    <3>1. Len(q) \in Nat \ {0}
      BY <1>2, EmptySeq
    <3> QED
      BY <1>2, <3>1, HeadTailProperties
  <2>2. 1 \in 1 .. Len(q) /\ \A i \in 1 .. Len(Tail(q)) : i + 1 \in 1 .. Len(q)
    BY <2>1
  <2> QED
    BY <2>1, <2>2
<1> QED
  BY <1>1, <1>2

\* A step adds to the cells of a servant the empty one and the next subset at most.
NewCells == {{}, next .. (next' - 1)}

\* A step that leaves the messages of t alone, and at most empties its population.
LEMMA CellsUntouched ==
  ASSUME NEW t \in Servants, channel'[t] = channel[t], reply'[t] = reply[t],
         pop'[t] \in {pop[t], {}}
  PROVE  Cells(t)' \subseteq Cells(t) \cup NewCells
BY DEF Cells, NewCells

\* The master sends a message with the next subset, or with none.
LEMMA CellsSend ==
  ASSUME TypeOK, NEW m \in Message, m.pop \in NewCells, SendTo(servant, m), UNCHANGED pop,
         NEW t \in Servants
  PROVE  Cells(t)' \subseteq Cells(t) \cup NewCells
<1>1. channel[t] \in Seq(Message) /\ reply'[t] = reply[t] /\ pop'[t] = pop[t]
  BY DEF TypeOK, SendTo
<1>2. CASE t = servant
  <2>1. channel'[t] = Append(channel[t], m)
    BY <1>2 DEF SendTo, TypeOK
  <2>2. {channel'[t][i].pop : i \in 1 .. Len(channel'[t])}
          = {channel[t][i].pop : i \in 1 .. Len(channel[t])} \cup {m.pop}
    BY <1>1, <2>1, CellsOfChannel
  <2> QED
    BY <1>1, <2>2 DEF Cells
<1>3. CASE t # servant
  <2>1. channel'[t] = channel[t]
    BY <1>3 DEF SendTo, TypeOK
  <2> QED
    BY <1>1, <2>1, CellsUntouched
<1> QED
  BY <1>2, <1>3

\* A servant takes a message and keeps its samples, or the message has none.
LEMMA CellsReceive ==
  ASSUME TypeOK, NEW s \in Servants, channel[s] # <<>>, RecvFrom(s),
         pop' \in {pop, [pop EXCEPT ![s] = Head(channel[s]).pop]},
         NEW t \in Servants
  PROVE  Cells(t)' \subseteq Cells(t) \cup NewCells
<1>1. channel[t] \in Seq(Message) /\ reply'[t] = reply[t]
  BY DEF TypeOK, RecvFrom
<1>2. CASE t = s
  <2>1. channel'[t] = Tail(channel[t]) /\ pop'[t] \in {pop[t], Head(channel[t]).pop}
    BY <1>2 DEF RecvFrom, TypeOK
  <2>2. /\ Head(channel[t]).pop \in {channel[t][i].pop : i \in 1 .. Len(channel[t])}
        /\ {channel'[t][i].pop : i \in 1 .. Len(channel'[t])}
             \subseteq {channel[t][i].pop : i \in 1 .. Len(channel[t])}
    BY <1>1, <1>2, <2>1, CellsOfChannel
  <2> QED
    BY <1>1, <2>1, <2>2 DEF Cells
<1>3. CASE t # s
  <2>1. channel'[t] = channel[t] /\ pop'[t] = pop[t]
    BY <1>3 DEF RecvFrom, TypeOK
  <2> QED
    BY <1>1, <2>1, CellsUntouched
<1> QED
  BY <1>2, <1>3

\* Every step of the master adds those cells at most.
LEMMA CellsMaster ==
  ASSUME TypeOK, Master, NEW t \in Servants
  PROVE  Cells(t)' \subseteq Cells(t) \cup NewCells
<1> USE DEF servantVars
<1>a. ASSUME UNCHANGED <<channel, reply, pop>>
      PROVE  Cells(t)' \subseteq Cells(t) \cup NewCells
  BY <1>a, CellsUntouched
<1>1. CASE ReadOptFileFails \/ ReadOptFileWithoutJob \/ GeneratePopulation \/ WaitForResults
             \/ Optimize \/ MasterReturns
  BY <1>1, <1>a DEF ReadOptFileFails, ReadOptFileWithoutJob, GeneratePopulation, Generate,
     WaitForResults, WaitFor, Optimize, MasterReturns
<1>2. CASE SendJobType
  <2>1. PICK m \in Modes("JOB_DATATYPE") : SendTo(servant, JobMsg(job_type[MASTER], m))
    BY <1>2 DEF SendJobType
  <2>2. job_type[MASTER] \in JOB_TYPE
    BY QuicAssumption DEF TypeOK, MASTER, Proc
  <2>3. JobMsg(job_type[MASTER], m) \in Message
    BY <2>2, ModesType, MessageTypes
  <2>4. JobMsg(job_type[MASTER], m).pop \in NewCells
    BY DEF JobMsg, Msg, NewCells
  <2> QED
    BY <1>2, <2>1, <2>3, <2>4, CellsSend DEF SendJobType
<1>3. CASE SendOptParams \/ IsendExit \/ SendExit
  <2>1. PICK tag \in {"OPT_PARAMS", "EXIT"}, m \in {"eager", "rendezvous"} : SendTo(servant, Msg(tag, m))
    BY <1>3, ModesType DEF SendOptParams, IsendExit, SendExit
  <2>2. Msg(tag, m) \in Message
    BY MessageTypes DEF MESSAGE_TYPE
  <2>3. Msg(tag, m).pop \in NewCells
    BY DEF Msg, NewCells
  <2>4. UNCHANGED pop
    BY <1>3 DEF SendOptParams, IsendExit, SendExit
  <2> QED
    BY <2>1, <2>2, <2>3, <2>4, CellsSend
<1>4. CASE SendPopulation
  <2> DEFINE S == next .. (next_subset_start - 1)
  <2>1. PICK m \in Modes("POPULATION") : SendTo(servant, PopMsg(S, m))
    BY <1>4 DEF SendPopulation, Distribute
  <2>2. S \in SUBSET SampleIds /\ next' = next_subset_start
    BY <1>4, GetSubsetBounds DEF SendPopulation, Distribute
  <2>3. S \in NewCells
    BY <2>2 DEF NewCells
  <2> HIDE DEF S
  <2>4. PopMsg(S, m) \in Message /\ PopMsg(S, m).pop = S
    BY <2>2, ModesType, MessageTypes DEF PopMsg, Msg
  <2> QED
    BY <1>4, <2>1, <2>3, <2>4, CellsSend DEF SendPopulation, Distribute
<1>5. ASSUME NEW s \in Servants, CollectResults(s)
      PROVE  Cells(t)' \subseteq Cells(t) \cup NewCells
  <2>1. /\ reply[s] # <<>> /\ reply' = [reply EXCEPT ![s] = Tail(@)]
        /\ UNCHANGED <<channel, pop>>
    BY <1>5 DEF CollectResults, Collect
  <2>2. reply[t] \in Seq(Message)
    BY DEF TypeOK
  <2>3. CASE t = s
    <3>1. reply'[t] = Tail(reply[t])
      BY <2>1, <2>3 DEF TypeOK
    <3>2. {reply'[t][i].pop : i \in 1 .. Len(reply'[t])}
            \subseteq {reply[t][i].pop : i \in 1 .. Len(reply[t])}
      BY <2>1, <2>2, <2>3, <3>1, CellsOfChannel
    <3> QED
      BY <2>1, <3>2 DEF Cells
  <2>4. CASE t # s
    <3>1. reply'[t] = reply[t]
      BY <2>1, <2>4 DEF TypeOK
    <3> QED
      BY <2>1, <3>1, CellsUntouched
  <2> QED
    BY <2>3, <2>4
<1> QED
  BY <1>1, <1>2, <1>3, <1>4, <1>5 DEF Master

\* Every step of a servant adds the empty cell at most.
LEMMA CellsServant ==
  ASSUME TypeOK, NEW s \in Servants, Servant(s), NEW t \in Servants
  PROVE  Cells(t)' \subseteq Cells(t) \cup NewCells
<1> USE DEF masterVars, servantVars
<1>1. CASE ServantExits(s) \/ SetupEnvironment(s) \/ EvalSample(s) \/ EvalExits(s)
  BY <1>1, CellsUntouched DEF ServantExits, SetupEnvironment, EvalSample, EvalExits
<1>2. CASE RecvJobType(s) \/ RecvOptParams(s)
  BY <1>2, CellsReceive DEF RecvJobType, RecvOptParams, Probes
<1>3. CASE RecvPopulation(s)
  BY <1>3, CellsReceive DEF RecvPopulation, StartWork, Probes
<1>4. CASE SendResults(s)
  <2>1. PICK m \in {"eager", "rendezvous"} :
          reply' = [reply EXCEPT ![s] = Append(@, ResultsMsg(pop[s], fitness[s], m))]
    BY <1>4, ModesType DEF SendResults, ReturnResults
  <2>2. channel' = channel /\ pop' = [pop EXCEPT ![s] = {}]
    BY <1>4 DEF SendResults, ReturnResults
  <2>3. reply[t] \in Seq(Message)
    BY DEF TypeOK
  <2>4. CASE t = s
    <3> DEFINE m1 == ResultsMsg(pop[t], fitness[t], m)
    <3>1. pop[t] \in SUBSET SampleIds /\ fitness[t] \in SUBSET SampleIds
      BY DEF TypeOK
    <3>2. m1 \in Message
      BY <3>1, MessageTypes
    <3>3. m1.pop = pop[t]
      BY DEF ResultsMsg, Msg
    <3>4. reply'[t] = Append(reply[t], m1)
      BY <2>1, <2>4 DEF TypeOK
    <3> HIDE DEF m1
    <3>5. {reply'[t][i].pop : i \in 1 .. Len(reply'[t])}
            = {reply[t][i].pop : i \in 1 .. Len(reply[t])} \cup {pop[t]}
      BY <2>3, <3>2, <3>3, <3>4, CellsOfChannel
    <3>6. channel'[t] = channel[t] /\ pop'[t] = {}
      BY <2>2, <2>4 DEF TypeOK
    <3> QED
      BY <3>5, <3>6 DEF Cells, NewCells
  <2>5. CASE t # s
    <3>1. reply'[t] = reply[t] /\ pop'[t] = pop[t]
      BY <2>1, <2>2, <2>5 DEF TypeOK
    <3> QED
      BY <2>2, <3>1, CellsUntouched
  <2> QED
    BY <2>4, <2>5
<1>5. CASE WithholdResults(s)
  <2>1. pop'[t] \in {pop[t], {}} /\ UNCHANGED <<channel, reply>>
    BY <1>5 DEF WithholdResults, TypeOK
  <2> QED
    BY <2>1, CellsUntouched
<1> QED
  BY <1>1, <1>2, <1>3, <1>4, <1>5 DEF Servant

\* So does every step of the program.
LEMMA CellsStep ==
  ASSUME TypeOK, [Next]_vars, NEW t \in Servants
  PROVE  Cells(t)' \subseteq Cells(t) \cup NewCells
<1>1. CASE Abort \/ UNCHANGED vars
  BY <1>1, CellsUntouched DEF Abort, vars, masterVars, servantVars
<1> QED
  BY <1>1, CellsMaster, CellsServant DEF Next, Terminated

----------------------------------------------------------------------------
(***************************************************************************)
(* What a step does to the samples, and at what place of the master.       *)
(***************************************************************************)
\* A step that collects nothing, withholds nothing and hands nothing out leaves
\* every servant its samples.
LEMMA NothingMoves ==
  ASSUME TypeOK, Conservation, [Next]_vars, UNCHANGED <<results, withheld, next>>
  PROVE  \A t \in Servants : Held(t)' = Held(t)
<1>1. ASSUME NEW s \in Servants, Assigned(s)
      PROVE  \A t \in Servants : Held(t)' = Held(t)
  <2>1. next .. (next' - 1) = {}
    BY DEF TypeOK
  <2> QED
    BY <1>1, <2>1 DEF Assigned, KeptExcept
<1>2. ASSUME NEW s \in Servants, NEW S \in SUBSET SampleIds, Collected(s, S) \/ Dropped(s, S)
      PROVE  \A t \in Servants : Held(t)' = Held(t)
  <2>1. S \subseteq Held(s) /\ S \subseteq results \cup withheld
    BY <1>2 DEF Collected, Dropped
  <2>2. S = {}
    BY <2>1 DEF Conservation, OneHolder
  <2>3. Held(s)' = Held(s) /\ \A t \in Servants : t # s => Held(t)' = Held(t)
    BY <1>2, <2>2 DEF Collected, Dropped, KeptExcept
  <2> QED
    BY <2>3
<1> QED
  BY <1>1, <1>2, Movement DEF Conservation, Internal

\* Sending a subset gives it to one servant, which had nothing, and to no other.
LEMMA SendMoves ==
  ASSUME TypeOK, Conservation, Unserved, SendPopulation, NEW s, s = servant
  PROVE  /\ s \in Servants /\ Held(s) = {} /\ Held(s)' = next .. (next' - 1)
         /\ \A t \in Servants : t # s => Held(t)' = Held(t)
         /\ next \in Nat /\ next < population_size /\ next' \in next .. population_size
         /\ UNCHANGED <<population_size, servant, job_type, results, withheld>>
<1>1. /\ next < population_size /\ next' = next_subset_start
      /\ next' \in next .. population_size
      /\ UNCHANGED <<population_size, servant, job_type, results, withheld, pop>>
      /\ pc[MASTER] = "send_work"
  BY GetSubsetBounds DEF SendPopulation, Distribute, servantVars, Running
<1>2. s \in Servants
  BY <1>1, SubsetHasServant DEF Conservation
<1>3. Held(s) = {}
  BY <1>1, <1>2 DEF Unserved, TypeOK, Servants
<1>4. ASSUME NEW t \in Servants, t # s
      PROVE  Held(t)' = Held(t)
  <2>1. channel'[t] = channel[t] /\ reply'[t] = reply[t]
    BY <1>4 DEF SendPopulation, Distribute, SendTo, TypeOK
  <2> QED
    BY <1>1, <2>1 DEF Held
<1>5. Held(s)' = next .. (next' - 1)
  <2> DEFINE S == next .. (next_subset_start - 1)
  <2>1. PICK m \in Modes("POPULATION") : SendTo(s, PopMsg(S, m))
    BY DEF SendPopulation, Distribute
  <2>2. S \in SUBSET SampleIds
    BY GetSubsetBounds DEF SendPopulation, Distribute
  <2>3. S = next .. (next' - 1)
    BY <1>1
  <2> HIDE DEF S
  <2>4. PopMsg(S, m) \in Message /\ PopMsg(S, m).pop = S
    BY <2>2, ModesType, MessageTypes DEF PopMsg, Msg
  <2>5. channel[s] \in Seq(Message)
    BY <1>2 DEF TypeOK
  <2>6. channel'[s] = Append(channel[s], PopMsg(S, m)) /\ reply'[s] = reply[s]
    BY <1>2, <2>1 DEF SendTo, TypeOK
  <2>7. Carried(channel'[s]) = Carried(channel[s]) \cup S
    BY <2>4, <2>5, <2>6, CarriedAppend
  <2>8. Held(s)' = S
    BY <1>1, <1>3, <2>6, <2>7 DEF Held
  <2> QED
    BY <2>3, <2>8
<1> QED
  BY <1>1, <1>2, <1>3, <1>4, <1>5 DEF TypeOK

\* Collecting takes the oldest results, all the servant has.
LEMMA CollectMoves ==
  ASSUME TypeOK, Conservation, NEW s \in Servants, Whole(s), CollectResults(s)
  PROVE  /\ \A t \in Servants : t # s => Held(t)' = Held(t)
         /\ \/ Held(s)' = Held(s) /\ UNCHANGED results
            \/ Held(s)' = {} /\ results' = results \cup Held(s)
         /\ UNCHANGED <<pc, job_type, population_size, next, withheld>>
<1> DEFINE S == Head(reply[s]).pop
<1>1. /\ reply[s] # <<>> /\ reply' = [reply EXCEPT ![s] = Tail(@)]
      /\ results' = results \cup S
      /\ UNCHANGED <<pc, job_type, channel, pop, population_size, next, withheld>>
  BY DEF CollectResults, Collect, servantVars
<1>2. /\ reply[s] \in Seq(Message) /\ reply'[s] = Tail(reply[s])
      /\ \A t \in Servants : t # s => reply'[t] = reply[t]
  BY <1>1 DEF TypeOK
<1>3. S \subseteq Held(s) /\ Held(s)' = Held(s) \ S
  BY <1>1, <1>2, ResultsCollect DEF Conservation
<1>4. S \in {{}, Held(s)}
  <2>1. S \in {reply[s][i].pop : i \in 1 .. Len(reply[s])}
    BY <1>1, <1>2, CellsOfChannel
  <2> QED
    BY <2>1 DEF Whole, Cells
<1>5. \A t \in Servants : t # s => Held(t)' = Held(t)
  BY <1>1, <1>2 DEF Held
<1> HIDE DEF S
<1> QED
  BY <1>1, <1>3, <1>4, <1>5

\* A step of a servant moves nothing, or drops all the servant has.
LEMMA ServantMoves ==
  ASSUME TypeOK, Conservation, NEW s \in Servants, Whole(s), Servant(s)
  PROVE  /\ \A t \in Servants : t # s => Held(t)' = Held(t)
         /\ \/ Held(s)' = Held(s) /\ UNCHANGED withheld
            \/ Held(s)' = {} /\ withheld' = withheld \cup Held(s)
         /\ UNCHANGED <<results, next>>
<1>1. CASE Internal
  BY <1>1 DEF Internal
<1>2. CASE Dropped(s, pop[s])
  <2>1. pop[s] \in {{}, Held(s)}
    BY DEF Whole, Cells
  <2> QED
    BY <1>2, <2>1 DEF Dropped, KeptExcept
<1> QED
  BY <1>1, <1>2, ServantMovement DEF Conservation

----------------------------------------------------------------------------
(***************************************************************************)
(* The invariant of the farm is inductive.                                 *)
(***************************************************************************)
\* The steps that move samples are those of three kinds.
LEMMA MovingSteps ==
  ASSUME [Next]_vars
  PROVE  \/ UNCHANGED <<results, withheld, next>>
         \/ SendPopulation
         \/ \E s \in Servants : CollectResults(s) \/ Servant(s)
BY DEF Next, Master, Abort, Terminated, vars, masterVars, servantVars, ReadOptFileFails,
   ReadOptFileWithoutJob, GeneratePopulation, Generate, SendJobType, SendOptParams, IsendExit,
   WaitForResults, WaitFor, Optimize, SendExit, MasterReturns

\* A servant that keeps or gives up all its samples, and gets none.
LEMMA WholeKept ==
  ASSUME NEW t \in Servants, Whole(t), Cells(t)' \subseteq Cells(t) \cup {{}},
         Held(t)' \in {Held(t), {}}
  PROVE  Whole(t)'
<1>1. Held(t)' = UNION Cells(t)'
  BY DEF Held, Cells, Carried
<1>2. Cells(t)' \subseteq {{}, Held(t)}
  BY DEF Whole
<1>3. Cells(t)' \subseteq {{}, Held(t)'}
  BY <1>1, <1>2
<1> QED
  BY <1>3 DEF Whole

\* The samples of a servant keep moving together.
LEMMA WholeStep ==
  ASSUME TypeOK, Conservation, FarmInvariant, [Next]_vars, NEW t \in Servants
  PROVE  Whole(t)'
<1>0. /\ Whole(t) /\ Cells(t)' \subseteq Cells(t) \cup NewCells
      /\ Held(t)' = UNION Cells(t)' /\ next \in Int
  <2>1. Whole(t) /\ next \in Int
    BY DEF FarmInvariant, TypeOK
  <2>2. Cells(t)' \subseteq Cells(t) \cup NewCells
    BY CellsStep
  <2>3. Held(t)' = UNION Cells(t)'
    BY DEF Held, Cells, Carried
  <2> QED
    BY <2>1, <2>2, <2>3
<1>1. ASSUME UNCHANGED next, Held(t)' \in {Held(t), {}}
      PROVE  Whole(t)'
  <2>1. NewCells = {{}}
    BY <1>0, <1>1 DEF NewCells
  <2> QED
    BY <1>0, <1>1, <2>1, WholeKept
<1>2. CASE UNCHANGED <<results, withheld, next>>
  BY <1>1, <1>2, NothingMoves
<1>3. CASE SendPopulation
  <2> DEFINE A == next .. (next' - 1)
  <2>1. PICK s : s = servant
    OBVIOUS
  <2>2. /\ s \in Servants /\ Held(s) = {} /\ Held(s)' = A
        /\ \A u \in Servants : u # s => Held(u)' = Held(u)
        /\ next \in Nat /\ next' \in Int
    BY <1>3, <2>1, SendMoves DEF FarmInvariant
  <2>3. Cells(t)' \subseteq {{}, Held(t), A}
    BY <1>0 DEF Whole, NewCells
  <2>4. CASE t = s
    BY <2>2, <2>3, <2>4 DEF Whole
  <2>5. CASE t # s
    <3>1. Held(t) \subseteq 0 .. (next - 1)
      BY HeldBeforeNext DEF Conservation
    <3>2. A \cap Held(t) = {}
      BY <2>2, <3>1
    <3>3. A \in Cells(t)' => A = {}
      BY <1>0, <2>2, <2>5, <3>2
    <3> QED
      BY <2>2, <2>3, <2>5, <3>3 DEF Whole
  <2> QED
    BY <2>4, <2>5
<1>4. ASSUME NEW s \in Servants, CollectResults(s)
      PROVE  Whole(t)'
  <2>1. UNCHANGED next /\ Held(t)' \in {Held(t), {}}
    BY <1>4, CollectMoves DEF FarmInvariant
  <2> QED
    BY <1>1, <2>1
<1>5. ASSUME NEW s \in Servants, Servant(s)
      PROVE  Whole(t)'
  <2>1. UNCHANGED next /\ Held(t)' \in {Held(t), {}}
    BY <1>5, ServantMoves DEF FarmInvariant
  <2> QED
    BY <1>1, <2>1
<1> QED
  BY <1>2, <1>3, <1>4, <1>5, MovingSteps

\* No servant has samples before the loop comes to it, and a job is known.
LEMMA PlaceStep ==
  ASSUME TypeOK, Conservation, FarmInvariant, [Next]_vars
  PROVE  Unserved' /\ JobKnown'
<1>0. /\ MASTER \in Proc /\ MASTER \notin Servants /\ servant \in Nat \ {0}
      /\ Servants \subseteq Nat /\ 1 \in Servants
  BY QuicAssumption DEF MASTER, Proc, Servants, TypeOK
<1>a. ASSUME NEW label, Goto(MASTER, label)
      PROVE  pc'[MASTER] = label
  BY <1>0, <1>a DEF Goto, TypeOK
<1>1. CASE SendPopulation
  <2>1. PICK s : s = servant
    OBVIOUS
  <2>2. /\ \A t \in Servants : t # s => Held(t)' = Held(t)
        /\ servant' = s /\ job_type' = job_type
    BY <1>1, <2>1, SendMoves DEF FarmInvariant
  <2>3. pc[MASTER] = "send_work" /\ pc'[MASTER] = "send_exit"
    BY <1>1, <1>a DEF SendPopulation, Distribute, Running
  <2>4. \A t \in Servants : t > s => Held(t)' = {}
    BY <1>0, <2>1, <2>2, <2>3 DEF FarmInvariant, Unserved
  <2> QED
    BY <2>2, <2>3, <2>4 DEF FarmInvariant, Unserved, JobKnown
<1>2. ASSUME NEW s \in Servants, CollectResults(s)
      PROVE  Unserved' /\ JobKnown'
  <2>1. pc' = pc /\ job_type' = job_type /\ pc[MASTER] = "collect"
    BY <1>2, CollectMoves DEF FarmInvariant, CollectResults, Collect, Running
  <2> QED
    BY <2>1 DEF FarmInvariant, Unserved, JobKnown
<1>3. ASSUME NEW s \in Servants, Servant(s)
      PROVE  Unserved' /\ JobKnown'
  <2>1. /\ pc'[MASTER] \in {pc[MASTER], "killed"} /\ servant' = servant
        /\ job_type'[MASTER] = job_type[MASTER]
    BY <1>3, MasterUntouched DEF masterVars
  <2>2. \A t \in Servants : Held(t)' \in {Held(t), {}}
    BY <1>3, ServantMoves DEF FarmInvariant
  <2> QED
    BY <2>1, <2>2 DEF FarmInvariant, Unserved, JobKnown
<1>4. ASSUME UNCHANGED <<results, withheld, next>>
      PROVE  Unserved' /\ JobKnown'
  <2>0. \A t \in Servants : Held(t)' = Held(t)
    BY <1>4, NothingMoves
  <2>1. CASE ReadOptFileFails \/ ReadOptFileWithoutJob \/ Optimize \/ SendExit \/ MasterReturns
    <3>1. pc'[MASTER] \in {"failed", "send_final_exit", "returning", "done"}
      BY <2>1, <1>a DEF ReadOptFileFails, ReadOptFileWithoutJob, Optimize, SendExit, MasterReturns, NextServant
    <3> QED
      BY <3>1 DEF Unserved, JobKnown
  <2>2. CASE GeneratePopulation
    <3>1. pc[MASTER] = "start" /\ pc'[MASTER] = "send_job" /\ job_type'[MASTER] # "INVALID_JOB"
      BY <2>2, <1>0, <1>a DEF GeneratePopulation, Generate, Running, TypeOK
    <3> QED
      BY <2>0, <3>1 DEF FarmInvariant, Unserved, JobKnown
  <2>3. CASE SendJobType \/ SendOptParams
    <3>1. /\ pc[MASTER] \in {"send_job", "send_opt"} /\ job_type' = job_type
          /\ pc'[MASTER] \in {"send_job", "send_opt", "send_work"}
      BY <2>3, <1>a DEF SendJobType, SendOptParams, NextServant, Running
    <3> QED
      BY <2>0, <3>1 DEF FarmInvariant, Unserved, JobKnown
  <2>4. CASE IsendExit
    <3>1. /\ pc[MASTER] = "send_exit" /\ job_type' = job_type
          /\ pc'[MASTER] = "send_work" /\ servant' = servant + 1
      BY <2>4, <1>a DEF IsendExit, Running
    <3>2. \A t \in Servants : t >= servant' => t > servant
      BY <1>0, <3>1
    <3> QED
      BY <2>0, <3>1, <3>2 DEF FarmInvariant, Unserved, JobKnown
  <2>5. CASE WaitForResults
    <3>1. /\ pc[MASTER] = "send_work" /\ job_type' = job_type /\ pc'[MASTER] = "collect"
      BY <2>5, <1>a DEF WaitForResults, WaitFor, Running
    <3> QED
      BY <3>1 DEF FarmInvariant, Unserved, JobKnown
  <2>6. CASE Abort \/ UNCHANGED vars
    <3>1. /\ pc'[MASTER] \in {pc[MASTER], "killed"} /\ servant' = servant
          /\ job_type'[MASTER] = job_type[MASTER]
      BY <2>6, MasterUntouched DEF masterVars
    <3> QED
      BY <2>0, <3>1 DEF FarmInvariant, Unserved, JobKnown
  <2> QED
    BY <1>1, <1>2, <1>3, <2>1, <2>2, <2>3, <2>4, <2>5, <2>6 DEF Next, Master, Terminated
<1> QED
  BY <1>1, <1>2, <1>3, <1>4, MovingSteps

\* Nothing is held when the program starts.
LEMMA InitFarm == Init => FarmInvariant /\ \A t \in Servants : Held(t) = {}
<1> SUFFICES ASSUME Init PROVE FarmInvariant /\ \A t \in Servants : Held(t) = {}
  OBVIOUS
<1>1. MASTER \in Proc /\ pc[MASTER] = "start"
  BY QuicAssumption DEF Init, MASTER, Proc
<1>2. ASSUME NEW t \in Servants
      PROVE  Held(t) = {} /\ Whole(t)
  <2>1. channel[t] = <<>> /\ reply[t] = <<>> /\ pop[t] = {} /\ 1 .. 0 = {}
    BY DEF Init
  <2>2. Cells(t) = {{}}
    BY <2>1 DEF Cells
  <2> QED
    BY <2>2, HeldIsCells DEF Whole
<1> QED
  BY <1>1, <1>2 DEF FarmInvariant, Unserved, JobKnown

\* The samples of a servant always move together, in the order of the distribution.
THEOREM FarmInvariantHolds == Spec => []FarmInvariant
<1>1. Init => FarmInvariant
  BY InitFarm
<1>2. TypeOK /\ Conservation /\ FarmInvariant /\ [Next]_vars => FarmInvariant'
  BY WholeStep, PlaceStep DEF FarmInvariant
<1> QED
  BY <1>1, <1>2, TypeCorrect, Conserved, PTL DEF Spec

----------------------------------------------------------------------------
(***************************************************************************)
(* Every step of the protocol is a step of the farm or leaves it as it is. *)
(***************************************************************************)
\* The program starts as an idle farm.
LEMMA InitIsIdle == Init => Farm!Init
<1> SUFFICES ASSUME Init PROVE Farm!Init
  OBVIOUS
<1>1. MASTER \in Proc /\ pc[MASTER] = "start" /\ next = 0 /\ population_size = 0
      /\ results = {} /\ withheld = {}
  BY QuicAssumption DEF Init, MASTER, Proc
<1>2. Undistributed = {}
  BY <1>1 DEF Undistributed
<1>3. farm_phase = "idle"
  BY <1>1 DEF farm_phase
<1> QED
  BY <1>1, <1>2, <1>3, InitFarm DEF Farm!Init

\* A step that moves no sample and does not change the phase.
LEMMA FarmRests ==
  ASSUME \A t \in Servants : Held(t)' = Held(t), farm_phase' = farm_phase,
         UNCHANGED <<next, population_size, results, withheld>>
  PROVE  UNCHANGED Farm!vars
BY DEF Farm!vars, Undistributed

\* A step that moves no sample and ends the run.
LEMMA FarmStops ==
  ASSUME \A t \in Servants : Held(t)' = Held(t), farm_phase' = "stopped",
         UNCHANGED <<next, population_size, results, withheld>>
  PROVE  Farm!Next
BY DEF Farm!Next, Farm!Stop, Undistributed

\* Only servant s lost its samples, all of them.
LEMMA OnlyEmptied ==
  ASSUME NEW s \in Servants, Held(s)' = {},
         \A t \in Servants : t # s => Held(t)' = Held(t)
  PROVE  [t \in Servants |-> Held(t)]' = [[t \in Servants |-> Held(t)] EXCEPT ![s] = {}]
OBVIOUS

\* Sending a subset assigns it.
LEMMA SendAssigns ==
  ASSUME TypeOK, Conservation, FarmInvariant, SendPopulation
  PROVE  Farm!Next
<1>1. PICK s : s = servant
  OBVIOUS
<1>2. /\ s \in Servants /\ Held(s) = {} /\ Held(s)' = next .. (next' - 1)
      /\ \A t \in Servants : t # s => Held(t)' = Held(t)
      /\ next \in Nat /\ next' \in next .. population_size
      /\ UNCHANGED <<population_size, job_type, results, withheld>>
  BY <1>1, SendMoves DEF FarmInvariant
<1>3. pc[MASTER] = "send_work" /\ pc'[MASTER] = "send_exit"
  BY QuicAssumption DEF SendPopulation, Distribute, Running, Goto, TypeOK, MASTER, Proc
<1>4. farm_phase = "working" /\ farm_phase' = "working"
  BY <1>2, <1>3 DEF farm_phase, FarmInvariant, JobKnown
<1> DEFINE S == next .. (next' - 1)
<1>5. S \subseteq Undistributed /\ Undistributed' = Undistributed \ S
  <2>1. Undistributed' = next' .. (population_size - 1)
    BY <1>2 DEF Undistributed
  <2>2. population_size \in Nat /\ next' \in Nat /\ next <= next' /\ next' <= population_size
    BY <1>2, QuicAssumption DEF TypeOK
  <2>3. Undistributed = next .. (population_size - 1)
    BY DEF Undistributed
  <2> HIDE DEF Undistributed
  <2>4. \A k : k \in Undistributed <=> k \in Int /\ next <= k /\ k <= population_size - 1
    BY <1>2, <2>2, <2>3
  <2>5. \A k : k \in Undistributed' <=> k \in Int /\ next' <= k /\ k <= population_size - 1
    BY <2>1, <2>2
  <2>6. \A k : k \in S <=> k \in Int /\ next <= k /\ k <= next' - 1
    BY <1>2, <2>2
  <2> HIDE DEF S
  <2> QED
    BY <1>2, <2>2, <2>4, <2>5, <2>6
<1>6. [t \in Servants |-> Held(t)]' = [[t \in Servants |-> Held(t)] EXCEPT ![s] = S]
  BY <1>2
<1> HIDE DEF S
<1>7. Farm!Assign(s)
  BY <1>2, <1>4, <1>5, <1>6 DEF Farm!Assign
<1> QED
  BY <1>2, <1>7 DEF Farm!Next

\* Taking a message of results collects what its servant had, or nothing.
LEMMA CollectCollects ==
  ASSUME TypeOK, Conservation, FarmInvariant, NEW s \in Servants, CollectResults(s)
  PROVE  [Farm!Next]_(Farm!vars)
<1>1. /\ \A t \in Servants : t # s => Held(t)' = Held(t)
      /\ \/ Held(s)' = Held(s) /\ UNCHANGED results
         \/ Held(s)' = {} /\ results' = results \cup Held(s)
      /\ UNCHANGED <<pc, job_type, population_size, next, withheld>>
  BY CollectMoves DEF FarmInvariant
<1>2. farm_phase = "working" /\ farm_phase' = farm_phase
  BY <1>1 DEF CollectResults, Collect, Running, farm_phase, FarmInvariant, JobKnown
<1>3. CASE Held(s)' = Held(s) /\ UNCHANGED results
  BY <1>1, <1>2, <1>3, FarmRests
<1>4. CASE Held(s)' = {} /\ results' = results \cup Held(s)
  <2>1. Undistributed' = Undistributed
    BY <1>1 DEF Undistributed
  <2>2. Farm!Collect(s)
    BY <1>1, <1>2, <1>4, <2>1, OnlyEmptied DEF Farm!Collect
  <2> QED
    BY <2>2 DEF Farm!Next
<1> QED
  BY <1>1, <1>3, <1>4

\* A servant loses all it had, or the farm does not notice its step.
LEMMA ServantLoses ==
  ASSUME TypeOK, Conservation, FarmInvariant, NEW s \in Servants, Servant(s)
  PROVE  [Farm!Next]_(Farm!vars)
<1>1. /\ \A t \in Servants : t # s => Held(t)' = Held(t)
      /\ \/ Held(s)' = Held(s) /\ UNCHANGED withheld
         \/ Held(s)' = {} /\ withheld' = withheld \cup Held(s)
      /\ UNCHANGED <<results, next>>
  BY ServantMoves DEF FarmInvariant
<1>2. /\ pc'[MASTER] = pc[MASTER] /\ job_type'[MASTER] = job_type[MASTER]
      /\ UNCHANGED population_size
  <2>1. MASTER # s /\ MASTER \in Proc /\ s \in Proc
    BY QuicAssumption DEF MASTER, Proc, Servants
  <2> QED
    BY <2>1 DEF Servant, ServantExits, RecvJobType, RecvOptParams, RecvPopulation, StartWork,
       SetupEnvironment, EvalSample, EvalExits, SendResults, ReturnResults, WithholdResults,
       Goto, masterVars, TypeOK
<1>3. farm_phase' = farm_phase
  BY <1>2 DEF farm_phase
<1>4. CASE Held(s)' = Held(s) /\ UNCHANGED withheld
  BY <1>1, <1>2, <1>3, <1>4, FarmRests
<1>5. CASE Held(s)' = {} /\ withheld' = withheld \cup Held(s)
  <2>1. Undistributed' = Undistributed
    BY <1>1, <1>2 DEF Undistributed
  <2>2. Farm!Lose(s)
    BY <1>1, <1>3, <1>5, <2>1, OnlyEmptied DEF Farm!Lose
  <2> QED
    BY <2>2 DEF Farm!Next
<1> QED
  BY <1>1, <1>4, <1>5

\* The best samples are announced when nothing is out any more.
LEMMA OptimizeAnnounces ==
  ASSUME TypeOK, Conservation, FarmInvariant, [Next]_vars, Optimize
  PROVE  Farm!Next
<1>1. /\ pc[MASTER] = "collect" /\ pc'[MASTER] = "send_final_exit"
      /\ UNCHANGED <<job_type, population_size, next, results, withheld>>
  BY QuicAssumption DEF Optimize, Running, Goto, TypeOK, MASTER, Proc, servantVars
<1>2. job_type[MASTER] # "INVALID_JOB"
  BY <1>1 DEF FarmInvariant, JobKnown
<1>3. farm_phase = "working" /\ farm_phase' = "announced"
  BY <1>1, <1>2 DEF farm_phase
<1>4. next = population_size /\ next \in Nat
  BY <1>1 DEF Conservation, SendingLoops, TypeOK
<1>5. results = 0 .. (next - 1)
  <2>1. CompleteAtReduction'
    BY NextConservation DEF Conservation
  <2>2. results' = 0 .. (population_size' - 1)
    BY <1>1, <1>2, <2>1 DEF CompleteAtReduction, Samples
  <2> QED
    BY <1>1, <1>4, <2>2
<1>6. Undistributed = {} /\ Undistributed' = {}
  BY <1>1, <1>4 DEF Undistributed
<1>7. withheld = {} /\ \A t \in Servants : Held(t) = {}
  BY <1>5 DEF Conservation, AllAccounted, OneHolder
<1>8. \A t \in Servants : Held(t)' = Held(t)
  BY <1>1, NothingMoves
<1>9. Farm!Announce
  BY <1>1, <1>3, <1>6, <1>7, <1>8 DEF Farm!Announce
<1> QED
  BY <1>9 DEF Farm!Next

\* The steps that move no sample.
LEMMA QuietStep ==
  ASSUME TypeOK, Conservation, FarmInvariant, [Next]_vars, UNCHANGED <<results, withheld, next>>
  PROVE  [Farm!Next]_(Farm!vars) \/ (\E s \in Servants : CollectResults(s) \/ Servant(s))
                                 \/ SendPopulation
<1>0. MASTER \in Proc
  BY QuicAssumption DEF MASTER, Proc
<1>a. ASSUME NEW label, Goto(MASTER, label)
      PROVE  pc'[MASTER] = label
  BY <1>0, <1>a DEF Goto, TypeOK
<1>b. \A t \in Servants : Held(t)' = Held(t)
  BY NothingMoves
<1>1. CASE ReadOptFileFails \/ ReadOptFileWithoutJob
  <2>1. /\ pc[MASTER] = "start" /\ pc'[MASTER] \in {"failed", "send_final_exit"}
        /\ UNCHANGED <<job_type, population_size>>
    BY <1>1, <1>a DEF ReadOptFileFails, ReadOptFileWithoutJob, Running, masterVars
  <2>2. job_type[MASTER] = "INVALID_JOB"
    BY <2>1 DEF Conservation, SendingLoops
  <2>3. farm_phase' = "stopped"
    BY <2>1, <2>2 DEF farm_phase
  <2> QED
    BY <1>b, <2>1, <2>3, FarmStops
<1>2. CASE GeneratePopulation
  <2>1. /\ pc[MASTER] = "start" /\ pc'[MASTER] = "send_job"
        /\ job_type'[MASTER] # "INVALID_JOB" /\ population_size' \in 1 .. MaxPopulation
    BY <1>0, <1>2, <1>a DEF GeneratePopulation, Generate, Running, TypeOK
  <2>2. farm_phase = "idle" /\ farm_phase' = "working"
    BY <2>1 DEF farm_phase
  <2>3. Undistributed' = 0 .. (population_size' - 1)
    BY <2>1 DEF Undistributed, Conservation, SendingLoops
  <2>4. population_size' \in 0 .. MaxPopulation
    BY <2>1, QuicAssumption
  <2>5. Farm!Load
    BY <1>b, <2>2, <2>3, <2>4 DEF Farm!Load
  <2> QED
    BY <2>5 DEF Farm!Next
<1>3. CASE SendJobType \/ SendOptParams \/ IsendExit \/ WaitForResults
  <2>1. /\ pc[MASTER] \in {"send_job", "send_opt", "send_work", "send_exit"}
        /\ pc'[MASTER] \in {"send_job", "send_opt", "send_work", "collect"}
        /\ UNCHANGED <<job_type, population_size>>
    BY <1>3, <1>a DEF SendJobType, SendOptParams, IsendExit, WaitForResults, WaitFor, NextServant, Running
  <2>2. farm_phase = "working" /\ farm_phase' = "working"
    BY <2>1 DEF farm_phase, FarmInvariant, JobKnown
  <2> QED
    BY <1>b, <2>1, <2>2, FarmRests
<1>4. CASE SendExit \/ MasterReturns
  <2>1. /\ pc[MASTER] \in {"send_final_exit", "returning"}
        /\ pc'[MASTER] \in {"send_final_exit", "returning", "done"}
        /\ UNCHANGED <<job_type, population_size>>
    BY <1>4, <1>a DEF SendExit, MasterReturns, NextServant, Running, masterVars
  <2>2. farm_phase' = farm_phase
    BY <2>1 DEF farm_phase
  <2> QED
    BY <1>b, <2>1, <2>2, FarmRests
<1>5. CASE Abort \/ UNCHANGED vars
  <2>1. /\ pc'[MASTER] \in {pc[MASTER], "killed"} /\ job_type'[MASTER] = job_type[MASTER]
        /\ UNCHANGED population_size
    BY <1>5, MasterUntouched DEF masterVars
  <2>2. farm_phase' \in {farm_phase, "stopped"}
    BY <2>1 DEF farm_phase
  <2> QED
    BY <1>b, <2>1, <2>2, FarmRests, FarmStops
<1>6. CASE Optimize
  BY <1>6, OptimizeAnnounces
<1> QED
  BY <1>1, <1>2, <1>3, <1>4, <1>5, <1>6 DEF Next, Master, Terminated

\* FarmSpec for any number of servants, population, job file and fault: each sample
\* is handed out once, comes back once, and the best are announced only when all
\* are back.
THEOREM ImplementsFarm == Spec => FarmSpec
<1>1. Init => Farm!Init
  BY InitIsIdle
<1>2. TypeOK /\ Conservation /\ FarmInvariant /\ [Next]_vars => [Farm!Next]_(Farm!vars)
  BY MovingSteps, QuietStep, SendAssigns, CollectCollects, ServantLoses
<1> QED
  BY <1>1, <1>2, TypeCorrect, Conserved, FarmInvariantHolds, PTL DEF Spec, FarmSpec, Farm!Spec
=============================================================================
