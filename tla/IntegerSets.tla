----------------------------- MODULE IntegerSets -----------------------------
(***************************************************************************)
(* What bit sets promise: sets of integers, changed one at a time.  Bitset  *)
(* implements it.                                                           *)
(***************************************************************************)
CONSTANTS
  Handles,  \* what the sets are known by
  Bits      \* the integers

VARIABLE members  \* the integers of each set

Init == members = [h \in Handles |-> {}]

Include(h, bit) == members' = [members EXCEPT ![h] = @ \cup {bit}]
Exclude(h, bit) == members' = [members EXCEPT ![h] = @ \ {bit}]
Join(h, g)      == members' = [members EXCEPT ![h] = @ \cup members[g]]
Replace(h, s)   == members' = [members EXCEPT ![h] = s]

Next ==
  \E h \in Handles :
    \/ \E bit \in Bits : Include(h, bit) \/ Exclude(h, bit) \/ Replace(h, {bit})
    \/ \E g \in Handles : Join(h, g)
    \/ \E g, k \in Handles : Replace(h, members[g] \cup members[k])

Spec == Init /\ [][Next]_members
=============================================================================
