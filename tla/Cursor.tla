------------------------------- MODULE Cursor -------------------------------
(***************************************************************************)
(* What the input streams of a lexer promise: a cursor in each text, places *)
(* that are marked and returned to in the order of a stack, and an included *)
(* text that gives way to the one it was included from at the place of the  *)
(* inclusion.  CharStream implements it.                                    *)
(***************************************************************************)
EXTENDS Integers, SequencesExt

CONSTANT Streams  \* the input streams

VARIABLES
  text,     \* for each stream, the text it reads
  pos,      \* and how many of its characters are behind the cursor
  marks,    \* and the places that are marked, the latest last
  included  \* the streams being read, each from within the one before

vars == <<text, pos, marks, included>>

current == Last(included)

Init ==
  /\ marks = [s \in Streams |-> <<>>]
  /\ \E s \in Streams : included = <<s>>

\* A stream that nothing waits on is given another text; no place in it is marked.
Restart ==
  \E s \in Streams :
    /\ included = <<s>>
    /\ pos'[s] <= Len(text'[s])
    /\ text' = [text EXCEPT ![s] = text'[s]]
    /\ pos' = [pos EXCEPT ![s] = pos'[s]]
    /\ marks' = [marks EXCEPT ![s] = <<>>]
    /\ UNCHANGED included

Advance ==
  /\ pos'[current] \in pos[current] .. Len(text[current])
  /\ pos' = [pos EXCEPT ![current] = pos'[current]]
  /\ UNCHANGED <<text, marks, included>>

Mark ==
  /\ marks' = [marks EXCEPT ![current] = Append(@, pos[current])]
  /\ UNCHANGED <<text, pos, included>>

\* The cursor goes back to a marked place; that one and later ones are forgotten.
Return ==
  \E k \in DOMAIN marks[current] :
    /\ pos' = [pos EXCEPT ![current] = marks[current][k]]
    /\ marks' = [marks EXCEPT ![current] = SubSeq(@, 1, k - 1)]
    /\ UNCHANGED <<text, included>>

Include ==
  \E s \in Streams :
    /\ ~ Contains(included, s)
    /\ included' = Append(included, s)
    /\ text' = [text EXCEPT ![s] = text'[s]]
    /\ pos' = [pos EXCEPT ![s] = pos'[s]]
    /\ marks' = [marks EXCEPT ![current] = Append(@, pos[current]), ![s] = <<>>]

\* The text that was included from goes on where the latest mark is.
GiveWay ==
  /\ Len(included) > 1
  /\ included' = Front(included)
  /\ LET s == Last(Front(included))
     IN  /\ pos' = [pos EXCEPT ![s] = Last(marks[s])]
         /\ marks' = [marks EXCEPT ![s] = Front(@)]
  /\ UNCHANGED text

Next == Restart \/ Advance \/ Mark \/ Return \/ Include \/ GiveWay

Spec == Init /\ [][Next]_vars
=============================================================================
