-------------------------------- MODULE Trial --------------------------------
(***************************************************************************)
(* What trying out rules promises, with or without a memo: each rule goes   *)
(* to where it stops, or fails, and the end of a trial is where it began.   *)
(* RuleMemo implements it.                                                  *)
(***************************************************************************)
EXTENDS Integers, SequencesExt

CONSTANT Rules

VARIABLES
  ends,    \* for each rule and place, where it was found to stop
  place,   \* of the stream; Fails when a rule has failed
  failed,
  marks    \* where each trial began

vars == <<ends, place, failed, marks>>

Fails   == -1
Unknown == -2

Init == place = 0 /\ failed = FALSE /\ marks = <<>>

Begin == ~ failed /\ marks' = Append(marks, place) /\ UNCHANGED <<ends, place, failed>>

\* The first time it chooses where to stop, and fails only in a trial.
Parse ==
  /\ ~ failed
  /\ \E rule \in Rules :
       LET end == ends'[rule][place]
       IN  /\ ends[rule][place] \in {Unknown, end}
           /\ ends' = [ends EXCEPT ![rule][place] = end]
           /\ place' = end
           /\ \/ end = Fails /\ marks # <<>> /\ failed' = TRUE
              \/ end >= place /\ failed' = FALSE
  /\ UNCHANGED marks

End ==
  /\ marks # <<>>
  /\ place' = Last(marks) /\ marks' = Front(marks) /\ failed' = FALSE
  /\ UNCHANGED ends

Next == Begin \/ Parse \/ End

Spec == Init /\ [][Next]_vars
=============================================================================
