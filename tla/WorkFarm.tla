------------------------------ MODULE WorkFarm ------------------------------
(***************************************************************************)
(* What the distributed evaluation of src/quic.cpp promises, without       *)
(* messages: every sample of the population is handed to one worker, comes *)
(* back once, and the best samples are announced when all are back.  A     *)
(* worker may lose what it was given, and the whole run may stop.          *)
(***************************************************************************)
EXTENDS Integers

CONSTANTS Workers, MaxPopulation

VARIABLES phase, unassigned, assigned, collected, lost

vars == <<phase, unassigned, assigned, collected, lost>>

Init ==
  /\ phase = "idle"
  /\ unassigned = {}
  /\ assigned = [w \in Workers |-> {}]
  /\ collected = {}
  /\ lost = {}

Load ==
  /\ phase = "idle"
  /\ phase' = "working"
  /\ \E n \in 0 .. MaxPopulation : unassigned' = 0 .. (n - 1)
  /\ UNCHANGED <<assigned, collected, lost>>

Assign(w) ==
  /\ phase = "working"
  /\ assigned[w] = {}
  /\ \E S \in SUBSET unassigned :
       /\ unassigned' = unassigned \ S
       /\ assigned' = [assigned EXCEPT ![w] = S]
  /\ UNCHANGED <<phase, collected, lost>>

Collect(w) ==
  /\ phase = "working"
  /\ collected' = collected \cup assigned[w]
  /\ assigned' = [assigned EXCEPT ![w] = {}]
  /\ UNCHANGED <<phase, unassigned, lost>>

Lose(w) ==
  /\ lost' = lost \cup assigned[w]
  /\ assigned' = [assigned EXCEPT ![w] = {}]
  /\ UNCHANGED <<phase, unassigned, collected>>

Announce ==
  /\ phase = "working"
  /\ unassigned = {} /\ lost = {}
  /\ \A w \in Workers : assigned[w] = {}
  /\ phase' = "announced"
  /\ UNCHANGED <<unassigned, assigned, collected, lost>>

Stop ==
  /\ phase' = "stopped"
  /\ UNCHANGED <<unassigned, assigned, collected, lost>>

Next ==
  \/ Load \/ Announce \/ Stop
  \/ \E w \in Workers : Assign(w) \/ Collect(w) \/ Lose(w)

Spec == Init /\ [][Next]_vars
=============================================================================
