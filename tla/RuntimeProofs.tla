---------------------------- MODULE RuntimeProofs ----------------------------
(***************************************************************************)
(* The collections of the parser runtime, whatever their size.  Bit sets    *)
(* are sets of integers.  The tries are Patricia tries, so that what was    *)
(* added is found and each node is deleted once, and the memo of rules that *)
(* is made of them changes nothing.                                        *)
(***************************************************************************)
EXTENDS Bitset, RuleMemo, Induction, FiniteSetTheorems, SequenceTheorems, TLAPS

----------------------------------------------------------------------------
(***************************************************************************)
(* Bit sets: Bitset implements IntegerSets, and members are seen.          *)
(***************************************************************************)
\* A bit set as the operations leave it: the words reach to its last bit, and
\* there are 8 at least.
BitsetType == [length : Nat, bits : SUBSET Bits]

Reaches(s) == s.length >= MinWords /\ \A bit \in s.bits : WordNumber(bit) < s.length

Good(s) == s \in BitsetType /\ Reaches(s)

\* The inductive invariant.
AllGood == sets \in [Handles -> BitsetType] /\ \A h \in Handles : Reaches(sets[h])

\* What is known of a bit: 16 words hold it.
LEMMA BitFits ==
  ASSUME NEW bit \in Bits
  PROVE  bit \in Nat /\ WordNumber(bit) \in 0 .. 15
<1>1. bit \in 0 .. 1023
  BY BitsAssumption
<1> QED
  BY <1>1 DEF WordNumber, WordBits

\* A new set is good and empty.
LEMMA NewIsGood == Good(New) /\ New.bits = {}
BY DEF Good, BitsetType, Reaches, New, MinWords

\* add (antlr3bitset.inl:215-224) adds the bit and no other.
LEMMA AddIsGood ==
  ASSUME NEW s, Good(s), NEW bit \in Bits
  PROVE  Good(add(s, bit)) /\ add(s, bit).bits = s.bits \cup {bit}
<1>1. s.length \in Nat /\ s.length >= 8 /\ s.bits \subseteq Bits
  BY DEF Good, BitsetType, Reaches, MinWords
<1>2. bit \in Nat /\ WordNumber(bit) \in 0 .. 15 /\ NumWordsToHold(bit) = WordNumber(bit) + 1
  BY BitFits DEF NumWordsToHold, WordNumber
<1> DEFINE g == IF WordNumber(bit) >= s.length THEN growToInclude(s, bit) ELSE s
<1>3. g.bits = s.bits /\ g.length \in Nat /\ g.length >= s.length /\ WordNumber(bit) < g.length
  BY <1>1, <1>2 DEF growToInclude, grow, Larger
<1>4. add(s, bit) = [length |-> g.length, bits |-> g.bits \cup {bit}]
  BY DEF add
<1>5. \A b \in s.bits : WordNumber(b) < g.length
  <2> SUFFICES ASSUME NEW b \in s.bits PROVE WordNumber(b) < g.length
    OBVIOUS
  <2>1. WordNumber(b) < s.length
    BY DEF Good, Reaches
  <2>2. WordNumber(b) \in 0 .. 15
    BY <1>1, BitFits
  <2> QED
    BY <2>1, <2>2, <1>1, <1>3
<1> HIDE DEF g
<1>6. g.bits \cup {bit} \in SUBSET Bits /\ g.length >= 8
  BY <1>1, <1>3
<1>7. add(s, bit) \in BitsetType /\ add(s, bit).length = g.length
          /\ add(s, bit).bits = s.bits \cup {bit}
  BY <1>3, <1>4, <1>6 DEF BitsetType
<1>8. \A b \in s.bits \cup {bit} : WordNumber(b) < g.length
  BY <1>3, <1>5
<1> QED
  BY <1>6, <1>7, <1>8 DEF Good, Reaches, MinWords

\* remove (antlr3bitset.inl:331-340) takes the bit away and no other.
LEMMA RemoveIsGood ==
  ASSUME NEW s, Good(s), NEW bit \in Bits
  PROVE  Good(remove(s, bit)) /\ remove(s, bit).bits = s.bits \ {bit}
BY DEF Good, BitsetType, Reaches, remove

\* borInPlace (antlr3bitset.inl:155-182) loses no word: a set that is shorter is
\* given 16 words at least, which hold every bit.
LEMMA OrIsGood ==
  ASSUME NEW s, Good(s), NEW t, Good(t)
  PROVE  Good(borInPlace(s, t)) /\ borInPlace(s, t).bits = s.bits \cup t.bits
<1>1. /\ s.length \in Nat /\ s.length >= 8 /\ s.bits \subseteq Bits
      /\ t.length \in Nat /\ t.length >= 8 /\ t.bits \subseteq Bits
  BY DEF Good, BitsetType, Reaches, MinWords
<1> DEFINE g == IF s.length < t.length THEN growToInclude(s, t.length * WordBytes) ELSE s
           m == Smaller(g.length, t.length)
<1>2. g.bits = s.bits
  BY DEF growToInclude, grow
<1>3. g.length \in Nat /\ g.length >= s.length /\ (g.length >= 16 \/ g.length >= t.length)
  <2>1. CASE s.length < t.length
    <3>1. NumWordsToHold(t.length * WordBytes) \in Nat
      BY <1>1 DEF NumWordsToHold, WordBytes, WordBits
    <3>2. g.length = Larger(2 * s.length, NumWordsToHold(t.length * WordBytes))
      BY <2>1 DEF growToInclude, grow
    <3> QED
      BY <3>1, <3>2, <1>1 DEF Larger
  <2>2. CASE ~ (s.length < t.length)
    BY <2>2, <1>1
  <2> QED
    BY <2>1, <2>2
<1>4. borInPlace(s, t) = [length |-> g.length, bits |-> g.bits \cup InWords(t, m)]
  BY DEF borInPlace
<1> HIDE DEF g
<1>5. InWords(t, m) = t.bits
  <2>1. ASSUME NEW b \in t.bits PROVE WordNumber(b) < m
    <3>1. WordNumber(b) < t.length
      BY DEF Good, Reaches
    <3>2. WordNumber(b) \in 0 .. 15
      BY <1>1, BitFits
    <3> QED
      BY <3>1, <3>2, <1>1, <1>3 DEF Smaller
  <2> QED
    BY <2>1 DEF InWords
<1>6. \A b \in s.bits \cup t.bits : WordNumber(b) < g.length
  <2> SUFFICES ASSUME NEW b \in s.bits \cup t.bits PROVE WordNumber(b) < g.length
    OBVIOUS
  <2>1. WordNumber(b) \in 0 .. 15
    BY <1>1, BitFits
  <2>2. (b \in s.bits => WordNumber(b) < s.length) /\ (b \in t.bits => WordNumber(b) < t.length)
    BY DEF Good, Reaches
  <2> QED
    BY <2>1, <2>2, <1>1, <1>3
<1> HIDE DEF m
<1> QED
  BY <1>1, <1>2, <1>3, <1>4, <1>5, <1>6 DEF Good, BitsetType, Reaches, MinWords

\* bor (antlr3bitset.inl:139-155) joins into a copy.
LEMMA BorIsGood ==
  ASSUME NEW s, Good(s), NEW t, Good(t)
  PROVE  Good(bor(s, t)) /\ bor(s, t).bits = s.bits \cup t.bits
<1>1. Good(clone(s)) /\ clone(s).bits = s.bits
  BY DEF Good, BitsetType, Reaches, clone, Larger, MinWords
<1> QED
  BY <1>1, OrIsGood DEF bor

\* bitsetLoad (antlr3bitset.inl:41-73) makes room for every word of the list.
LEMMA LoadIsGood ==
  ASSUME NEW bit \in Bits
  PROVE  LET l == bitsetLoad(NumWordsToHold(bit), {bit})
         IN  Good(l) /\ l.bits = {bit}
<1>1. WordNumber(bit) \in 0 .. 15 /\ NumWordsToHold(bit) = WordNumber(bit) + 1
  BY BitFits DEF NumWordsToHold, WordNumber
<1> QED
  BY <1>1 DEF bitsetLoad, grow, New, Good, BitsetType, Reaches, MinWords

LEMMA InitGood == Init => AllGood /\ S!Init
BY NewIsGood DEF Init, AllGood, Good, S!Init, members

\* One handle is given a good set: the others stay as they are.
LEMMA OneChanges ==
  ASSUME AllGood, NEW h \in Handles, NEW s, Good(s), sets' = [sets EXCEPT ![h] = s]
  PROVE  /\ AllGood'
         /\ members' = [members EXCEPT ![h] = s.bits]
BY DEF AllGood, Good, members

LEMMA NextGood == AllGood /\ [Next]_sets => AllGood' /\ [S!Next]_members
<1> SUFFICES ASSUME AllGood, [Next]_sets
             PROVE  AllGood' /\ [S!Next]_members
  OBVIOUS
<1>0. \A k \in Handles : Good(sets[k]) /\ members[k] = sets[k].bits
  BY DEF AllGood, Good, members
<1>1. CASE UNCHANGED sets
  BY <1>1 DEF AllGood, Reaches, BitsetType, members
<1>2. ASSUME NEW h \in Handles, NEW bit \in Bits, Add(h, bit)
      PROVE  AllGood' /\ S!Next
  <2>1. Good(add(sets[h], bit)) /\ add(sets[h], bit).bits = sets[h].bits \cup {bit}
    BY <1>0, AddIsGood
  <2>2. sets' = [sets EXCEPT ![h] = add(sets[h], bit)]
    BY <1>2 DEF Add
  <2>3. AllGood' /\ members' = [members EXCEPT ![h] = sets[h].bits \cup {bit}]
    BY <2>1, <2>2, OneChanges
  <2>4. S!Include(h, bit)
    BY <2>3, <1>0 DEF S!Include
  <2> QED
    BY <2>3, <2>4 DEF S!Next
<1>3. ASSUME NEW h \in Handles, NEW bit \in Bits, RemoveBit(h, bit)
      PROVE  AllGood' /\ S!Next
  <2>1. Good(remove(sets[h], bit)) /\ remove(sets[h], bit).bits = sets[h].bits \ {bit}
    BY <1>0, RemoveIsGood
  <2>2. sets' = [sets EXCEPT ![h] = remove(sets[h], bit)]
    BY <1>3 DEF RemoveBit
  <2>3. AllGood' /\ members' = [members EXCEPT ![h] = sets[h].bits \ {bit}]
    BY <2>1, <2>2, OneChanges
  <2>4. S!Exclude(h, bit)
    BY <2>3, <1>0 DEF S!Exclude
  <2> QED
    BY <2>3, <2>4 DEF S!Next
<1>4. ASSUME NEW h \in Handles, NEW bit \in Bits, Of(h, bit) \/ Load(h, bit)
      PROVE  AllGood' /\ S!Next
  <2>1. Good(BitsetOf(bit)) /\ BitsetOf(bit).bits = {bit}
    BY NewIsGood, AddIsGood DEF BitsetOf
  <2>2. PICK s : Good(s) /\ s.bits = {bit} /\ sets' = [sets EXCEPT ![h] = s]
    BY <1>4, <2>1, LoadIsGood DEF Of, Load
  <2>3. AllGood' /\ members' = [members EXCEPT ![h] = {bit}]
    BY <2>2, OneChanges
  <2>4. S!Replace(h, {bit})
    BY <2>3 DEF S!Replace
  <2> QED
    BY <2>3, <2>4 DEF S!Next
<1>5. ASSUME NEW h \in Handles, NEW g \in Handles, Or(h, g)
      PROVE  AllGood' /\ S!Next
  <2>1. /\ Good(borInPlace(sets[h], sets[g]))
        /\ borInPlace(sets[h], sets[g]).bits = sets[h].bits \cup sets[g].bits
    BY <1>0, OrIsGood
  <2>2. sets' = [sets EXCEPT ![h] = borInPlace(sets[h], sets[g])]
    BY <1>5 DEF Or
  <2>3. AllGood' /\ members' = [members EXCEPT ![h] = sets[h].bits \cup sets[g].bits]
    BY <2>1, <2>2, OneChanges
  <2>4. S!Join(h, g)
    BY <2>3, <1>0 DEF S!Join
  <2> QED
    BY <2>3, <2>4 DEF S!Next
<1>6. ASSUME NEW h \in Handles, NEW g \in Handles, NEW k \in Handles, Bor(h, g, k)
      PROVE  AllGood' /\ S!Next
  <2>1. /\ Good(bor(sets[g], sets[k]))
        /\ bor(sets[g], sets[k]).bits = sets[g].bits \cup sets[k].bits
    BY <1>0, BorIsGood
  <2>2. sets' = [sets EXCEPT ![h] = bor(sets[g], sets[k])]
    BY <1>6 DEF Bor
  <2>3. AllGood' /\ members' = [members EXCEPT ![h] = sets[g].bits \cup sets[k].bits]
    BY <2>1, <2>2, OneChanges
  <2>4. members' = [members EXCEPT ![h] = members[g] \cup members[k]]
    BY <2>3, <1>0
  <2>5. \E i, j \in Handles : members' = [members EXCEPT ![h] = members[i] \cup members[j]]
    BY <2>4
  <2> QED
    BY <2>3, <2>5, Zenon DEF S!Next, S!Replace
<1> QED
  BY <1>1, <1>2, <1>3, <1>4, <1>5, <1>6 DEF Next

\* BitsetSpec for any handles and any bits below 1024: no operation of
\* antlr3bitset.inl loses or adds a member.
THEOREM BitsetsAreIntegerSets == Spec => BitsetSpec
<1>1. Init => AllGood /\ S!Init
  BY InitGood
<1>2. AllGood /\ [Next]_sets => AllGood' /\ [S!Next]_members
  BY NextGood
<1> QED
  BY <1>1, <1>2, PTL DEF Spec, BitsetSpec, S!Spec

LEMMA AlwaysGood == Spec => []AllGood
<1>1. Init => AllGood
  BY InitGood
<1>2. AllGood /\ [Next]_sets => AllGood'
  BY NextGood
<1> QED
  BY <1>1, <1>2, PTL DEF Spec

LEMMA BitsFinite == ASSUME NEW s, Good(s) PROVE IsFiniteSet(s.bits)
<1> DEFINE top == 1023
<1>1. s.bits \subseteq 0 .. top
  <2>1. s.bits \subseteq Bits
    BY DEF Good, BitsetType
  <2>2. Bits \subseteq 0 .. top
    BY BitsAssumption
  <2> HIDE DEF top
  <2> QED BY <2>1, <2>2
<1>2. 0 \in Int /\ top \in Int
  OBVIOUS
<1> HIDE DEF top
<1>3. IsFiniteSet(0 .. top)
  BY <1>2, FS_Interval
<1> QED
  BY <1>1, <1>3, FS_Subset

\* MembersAreSeen: isMember, size, isNilNode and equals answer by what a set
\* holds (antlr3bitset.inl:185-212, 253-301, 304-353).
THEOREM MembersSeen == Spec => []MembersAreSeen
<1>1. AllGood => MembersAreSeen
  <2> SUFFICES ASSUME AllGood, NEW h \in Handles
               PROVE  /\ HoldsWhatItHas(sets[h])
                      /\ \A g \in Handles : sets[h].length >= sets[g].length =>
                           (equals(sets[h], sets[g]) <=> sets[h].bits = sets[g].bits)
    BY DEF MembersAreSeen
  <2>0. \A k \in Handles : Good(sets[k])
    BY DEF AllGood, Good
  <2>1. HoldsWhatItHas(sets[h])
    <3>1. sets[h].length \in Nat /\ sets[h].bits \subseteq Bits
      BY <2>0 DEF Good, BitsetType
    <3>2. \A bit \in sets[h].bits : WordNumber(bit) < sets[h].length
      BY <2>0 DEF Good, Reaches
    <3>3. \A bit \in sets[h].bits : bit < numBits(sets[h])
      <4> SUFFICES ASSUME NEW bit \in sets[h].bits PROVE bit < numBits(sets[h])
        OBVIOUS
      <4>1. bit \in Nat
        BY <3>1, BitFits
      <4>2. bit \div 64 < sets[h].length
        BY <3>2 DEF WordNumber, WordBits
      <4> QED
        BY <4>1, <4>2, <3>1 DEF numBits, WordBits
    <3>4. isNilNode(sets[h]) <=> size(sets[h]) = 0
      BY <2>0, BitsFinite, FS_EmptySet DEF isNilNode, size
    <3>5. \A bit \in Bits : isMember(sets[h], bit) <=> bit \in sets[h].bits
      BY <3>2 DEF isMember
    <3> QED
      BY <3>3, <3>4, <3>5 DEF HoldsWhatItHas
  <2>2. ASSUME NEW g \in Handles, sets[h].length >= sets[g].length
        PROVE  equals(sets[h], sets[g]) <=> sets[h].bits = sets[g].bits
    <3>1. sets[h].length \in Nat /\ sets[g].length \in Nat
      BY <2>0 DEF Good, BitsetType
    <3>2. Smaller(sets[h].length, sets[g].length) = sets[g].length
      BY <3>1, <2>2 DEF Smaller
    <3>3. InWords(sets[g], sets[g].length) = sets[g].bits
      BY <2>0 DEF Good, Reaches, InWords
    <3>4. CASE sets[h].length > sets[g].length
      <4>1. sets[h].bits = sets[g].bits => InWords(sets[h], sets[g].length) = sets[g].bits
        BY <3>3 DEF InWords
      <4> QED
        BY <3>2, <3>3, <3>4, <4>1 DEF equals
    <3>5. CASE sets[h].length = sets[g].length
      <4>1. InWords(sets[h], sets[g].length) = sets[h].bits
        BY <2>0, <3>5 DEF Good, Reaches, InWords
      <4> QED
        BY <3>1, <3>2, <3>3, <3>5, <4>1 DEF equals
    <3> QED
      BY <3>1, <2>2, <3>4, <3>5
  <2> QED
    BY <2>1, <2>2
<1> QED
  BY <1>1, AlwaysGood, PTL
----------------------------------------------------------------------------
(***************************************************************************)
(* The tries, as the bits their nodes test, their keys and their children   *)
(* on the left (0) and on the right (1).                                    *)
(***************************************************************************)
BitOf(b, key) == IF b \in key THEN 1 ELSE 0

\* The root tests the highest bit, which no key has.
Wired(N, bit, key, kid) ==
  /\ N \in Nat /\ 1 <= N
  /\ bit \in [1 .. N -> Nat]
  /\ key \in [1 .. N -> SUBSET Nat]
  /\ kid \in [{0, 1} -> [1 .. N -> 1 .. N]]
  /\ \A m \in 1 .. N : (m # 1 => bit[m] < bit[1]) /\ \A b \in key[m] : b < bit[1]
  /\ kid[1][1] = 1

\* under[m] are the nodes whose keys lead through m.  From m the key of such a node leads to
\* the next lower node on its way, or back to the node it is.
Leads(N, bit, key, kid, under) ==
  \A m \in 1 .. N : \A x \in under[m] :
    LET c == kid[BitOf(bit[m], key[x])][m]
    IN  IF bit[c] < bit[m]
          THEN x \in under[c] /\ \A q \in 1 .. N : x \in under[q] /\ bit[q] < bit[m]
                    => bit[q] <= bit[c]
          ELSE c = x /\ \A q \in 1 .. N : x \in under[q] => bit[m] <= bit[q]

\* No way tests a bit twice, and what is under a node differs in no higher bit.
Once(N, bit, under) ==
  \A q, r \in 1 .. N : \A x \in under[q] : x \in under[r] /\ bit[q] = bit[r] => q = r

Alike(N, bit, key, under) ==
  \A m \in 1 .. N : \A x, y \in under[m] :
    \A b \in Nat : b > bit[m] => BitOf(b, key[x]) = BitOf(b, key[y])

\* What a child leads to comes through its parent, on its side.
Gathers(N, bit, key, kid, under) ==
  \A m \in 1 .. N : \A s \in {0, 1} : (m = 1 => s = 0) =>
    LET c == kid[s][m]
    IN  IF bit[c] < bit[m]
          THEN \A x \in under[c] : x \in under[m] /\ BitOf(bit[m], key[x]) = s
          ELSE c \in under[m] /\ BitOf(bit[m], key[c]) = s

Patricia(N, bit, key, kid, under) ==
  /\ Wired(N, bit, key, kid)
  /\ under \in [1 .. N -> SUBSET (1 .. N)] /\ under[1] = 1 .. N /\ \A m \in 1 .. N : m \in under[m]
  /\ Leads(N, bit, key, kid, under) /\ Once(N, bit, under)
  /\ Alike(N, bit, key, under) /\ Gathers(N, bit, key, kid, under)

\* Where a new node goes: key leads through p to c, near is under them, and the highest bit in
\* which it differs from key is tested between them.
Between(N, bit, key, kid, under, new, depth, near, p, c) ==
  /\ new \in SUBSET Nat /\ (\A b \in new : b < bit[1])
  /\ depth \in Nat /\ near \in 1 .. N /\ p \in 1 .. N
  /\ BitOf(depth, new) # BitOf(depth, key[near])
  /\ \A b \in Nat : b > depth => BitOf(b, new) = BitOf(b, key[near])
  /\ depth < bit[p] /\ near \in under[p]
  /\ c = kid[BitOf(bit[p], new)][p]
  /\ IF bit[c] < bit[p] THEN near \in under[c] /\ bit[c] < depth ELSE c = near

\* The trie with the new node between p and c.
Under1(N, bit, key, under, new, depth, near, p) ==
  [m \in 1 .. N + 1 |->
     IF m = N + 1 THEN {x \in under[p] : BitOf(bit[p], key[x]) = BitOf(bit[p], new)} \cup {N + 1}
     ELSE under[m] \cup (IF near \in under[m] /\ depth < bit[m] THEN {N + 1} ELSE {})]

Bit1(N, bit, depth) == [m \in 1 .. N + 1 |-> IF m = N + 1 THEN depth ELSE bit[m]]

Key1(N, key, new) == [m \in 1 .. N + 1 |-> IF m = N + 1 THEN new ELSE key[m]]

Kid1(N, bit, kid, new, depth, p, c) ==
  [s \in {0, 1} |-> [m \in 1 .. N + 1 |->
     IF m = N + 1 THEN (IF s = BitOf(depth, new) THEN N + 1 ELSE c)
     ELSE IF m = p /\ s = BitOf(bit[p], new) THEN N + 1
     ELSE kid[s][m]]]

\* It is a Patricia trie again.
LEMMA Inserted ==
  ASSUME NEW N, NEW bit, NEW key, NEW kid, NEW under, Patricia(N, bit, key, kid, under),
         NEW new, NEW depth, NEW near, NEW p, NEW c,
         Between(N, bit, key, kid, under, new, depth, near, p, c)
  PROVE  Patricia(N + 1, Bit1(N, bit, depth), Key1(N, key, new),
                  Kid1(N, bit, kid, new, depth, p, c), Under1(N, bit, key, under, new, depth,
                            near, p))
<1> DEFINE M == 1 .. N
           n == N + 1
           b1 == Bit1(N, bit, depth)
           k1 == Key1(N, key, new)
           d1 == Kid1(N, bit, kid, new, depth, p, c)
           u1 == Under1(N, bit, key, under, new, depth, near, p)
           s == BitOf(bit[p], new)
           Through(x) == x \in under[p] /\ BitOf(bit[p], key[x]) = s
<1>1. /\ N \in Nat /\ 1 \in M /\ n \notin M /\ 1 .. n = M \cup {n} /\ n \in 1 .. n /\ 1 # n
      /\ \A m \in M : m \in 1 .. n /\ m # n
  BY DEF Patricia, Wired
<1>2. /\ \A m \in M : bit[m] \in Nat /\ key[m] \in SUBSET Nat /\ (m # 1 => bit[m] < bit[1])
      /\ \A m \in M : \A b \in key[m] : b < bit[1]
      /\ \A m \in M : \A a \in {0, 1} : kid[a][m] \in M
      /\ kid[1][1] = 1
  BY DEF Patricia, Wired
<1>3. /\ \A m \in M : under[m] \in SUBSET M /\ m \in under[m]
      /\ under[1] = M
  BY DEF Patricia
<1>4. /\ new \in SUBSET Nat /\ depth \in Nat /\ near \in M /\ p \in M /\ c \in M
      /\ depth < bit[p] /\ near \in under[p]
      /\ \A b \in new : b < bit[1]
  <2>1. BitOf(bit[p], new) \in {0, 1}
    BY DEF BitOf
  <2> QED BY <1>2, <2>1 DEF Between
<1>5. \A b, y : BitOf(b, y) \in {0, 1}
  BY DEF BitOf
<1>6. \A b \in Nat : b > depth => BitOf(b, new) = BitOf(b, key[near])
  BY DEF Between
<1>7. BitOf(depth, new) # BitOf(depth, key[near])
  BY DEF Between
<1>8. c = kid[s][p] /\ s \in {0, 1}
  BY <1>5 DEF Between
<1>9. Through(near)
  BY <1>2, <1>4, <1>6
<1>10. IF bit[c] < bit[p] THEN near \in under[c] /\ bit[c] < depth ELSE c = near
  BY DEF Between
\* What is added.
<1>11. /\ \A m \in M : b1[m] = bit[m] /\ k1[m] = key[m]
       /\ b1[n] = depth /\ k1[n] = new
  BY <1>1 DEF Bit1, Key1
<1>12. /\ \A m \in M : \A a \in {0, 1} : ~ (m = p /\ a = s) => d1[a][m] = kid[a][m]
       /\ d1[s][p] = n
       /\ d1[BitOf(depth, new)][n] = n
       /\ \A a \in {0, 1} : a # BitOf(depth, new) => d1[a][n] = c
  <2>1. \A a \in {0, 1} : \A m \in 1 .. n : d1[a][m] =
          IF m = n THEN (IF a = BitOf(depth, new) THEN n ELSE c)
          ELSE IF m = p /\ a = s THEN n ELSE kid[a][m]
    BY DEF Kid1
  <2> HIDE DEF d1
  <2> QED BY <1>1, <1>4, <1>5, <1>8, <2>1
<1>13. /\ \A m, x \in M : x \in u1[m] <=> x \in under[m]
       /\ \A m \in M : n \in u1[m] <=> near \in under[m] /\ depth < bit[m]
       /\ \A x \in M : x \in u1[n] <=> Through(x)
       /\ n \in u1[n]
       /\ \A m \in 1 .. n : u1[m] \in SUBSET (1 .. n)
  <2>1. \A m \in M : u1[m] = under[m] \cup (IF near \in under[m] /\ depth < bit[m] THEN {n} ELSE {})
    BY <1>1 DEF Under1
  <2>2. u1[n] = {x \in under[p] : BitOf(bit[p], key[x]) = s} \cup {n}
    BY <1>1 DEF Under1
  <2> HIDE DEF u1, s
  <2>3. \A m \in M : under[m] \in SUBSET M /\ n \notin under[m]
    BY <1>1, <1>3
  <2> QED BY <1>1, <1>4, <2>1, <2>2, <2>3
\* The way of what goes through.
<1>14. ASSUME NEW x \in M, Through(x)
       PROVE  IF bit[c] < bit[p]
                THEN x \in under[c] /\ bit[c] < depth
                     /\ \A q \in M : x \in under[q] /\ bit[q] < bit[p] => bit[q] <= bit[c]
                ELSE c = x /\ x = near /\ \A q \in M : x \in under[q] => bit[p] <= bit[q]
  <2>1. LET k == kid[BitOf(bit[p], key[x])][p]
        IN  IF bit[k] < bit[p]
              THEN x \in under[k] /\ \A q \in M : x \in under[q] /\ bit[q] < bit[p]
                        => bit[q] <= bit[k]
              ELSE k = x /\ \A q \in M : x \in under[q] => bit[p] <= bit[q]
    BY <1>4, <1>14 DEF Patricia, Leads
  <2>2. kid[BitOf(bit[p], key[x])][p] = c
    BY <1>8, <1>14
  <2> HIDE DEF s
  <2> QED BY <1>10, <2>1, <2>2
<1>15. ASSUME NEW x \in M, Through(x), NEW q \in M, x \in under[q]
       PROVE  bit[q] >= bit[p] \/ (bit[q] <= bit[c] /\ bit[c] < depth)
  BY <1>2, <1>4, <1>14, <1>15
<1>16. ASSUME NEW x \in M, Through(x)
       PROVE  BitOf(depth, key[x]) # BitOf(depth, new)
  <2>1. CASE bit[c] < bit[p]
    <3>1. x \in under[c] /\ near \in under[c] /\ bit[c] < depth
      BY <1>10, <1>14, <1>16, <2>1
    <3>2. BitOf(depth, key[x]) = BitOf(depth, key[near])
      BY <1>4, <3>1 DEF Patricia, Alike
    <3> QED BY <1>7, <3>2
  <2>2. CASE ~ bit[c] < bit[p]
    BY <1>7, <1>14, <1>16, <2>2
  <2> QED BY <2>1, <2>2
<1>17. \A m \in M : near \in under[m] /\ depth < bit[m] => bit[m] >= bit[p]
  <2> TAKE m \in M
  <2> HAVE near \in under[m] /\ depth < bit[m]
  <2>1. bit[m] >= bit[p] \/ (bit[m] <= bit[c] /\ bit[c] < depth)
    BY <1>4, <1>9, <1>15
  <2> QED BY <1>2, <1>4, <2>1
<1> HIDE DEF M, n, b1, k1, d1, u1, s, Through
<1>18. Wired(n, b1, k1, d1)
  <2>0. \A m \in 1 .. N + 1 : m # N + 1 => m \in M
    BY <1>1 DEF M
  <2>1. b1 \in [1 .. n -> Nat]
    <3>1. \A m \in 1 .. N + 1 : (IF m = N + 1 THEN depth ELSE bit[m]) \in Nat
      BY <1>2, <1>4, <2>0
    <3> QED BY <3>1 DEF b1, Bit1, n
  <2>2. k1 \in [1 .. n -> SUBSET Nat]
    <3>1. \A m \in 1 .. N + 1 : (IF m = N + 1 THEN new ELSE key[m]) \in SUBSET Nat
      BY <1>2, <1>4, <2>0
    <3> QED BY <3>1 DEF k1, Key1, n
  <2>3. \A a \in {0, 1} : d1[a] \in [1 .. n -> 1 .. n]
    <3> TAKE a \in {0, 1}
    <3>1. d1[a] = [m \in 1 .. N + 1 |->
                     IF m = N + 1 THEN (IF a = BitOf(depth, new) THEN N + 1 ELSE c)
                     ELSE IF m = p /\ a = s THEN N + 1
                     ELSE kid[a][m]]
      BY DEF d1, Kid1, s
    <3>2. c \in 1 .. n /\ N + 1 \in 1 .. n /\ \A m \in 1 .. N + 1 : m # N + 1
              => kid[a][m] \in 1 .. n
      BY <1>1, <1>2, <1>4 DEF n, M
    <3> QED BY <3>1, <3>2 DEF n
  <2>4. d1 \in [{0, 1} -> [1 .. n -> 1 .. n]]
    <3>1. d1 = [a \in {0, 1} |-> d1[a]]
      BY DEF d1, Kid1
    <3> QED BY <2>3, <3>1
  <2>5. \A m \in 1 .. n : (m # 1 => b1[m] < b1[1]) /\ \A b \in k1[m] : b < b1[1]
    <3> TAKE m \in 1 .. n
    <3>1. b1[1] = bit[1]
      BY <1>1, <1>11
    <3>2. depth < bit[1]
      BY <1>1, <1>2, <1>4
    <3>3. CASE m \in M
      BY <1>2, <1>11, <3>1, <3>3
    <3>4. CASE m = n
      BY <1>4, <1>11, <3>1, <3>2, <3>4
    <3> QED BY <1>1, <3>3, <3>4
  <2>6. d1[1][1] = 1
    <3>1. s = 0 \/ p # 1
      <4>1. bit[1] \notin new
        BY <1>1, <1>2, <1>4
      <4> QED BY <4>1 DEF s, BitOf
    <3> QED BY <1>1, <1>2, <1>12, <3>1
  <2>7. n \in Nat /\ 1 <= n
    BY <1>1 DEF n
  <2> QED BY <2>1, <2>2, <2>4, <2>5, <2>6, <2>7 DEF Wired
<1>19. /\ u1 \in [1 .. n -> SUBSET (1 .. n)] /\ u1[1] = 1 .. n
       /\ \A m \in 1 .. n : m \in u1[m]
  <2>1. u1 = [m \in 1 .. n |-> u1[m]]
    BY DEF u1, Under1, n
  <2>2. u1[1] = 1 .. n
    <3>1. depth < bit[1]
      BY <1>1, <1>2, <1>4
    <3>2. \A x \in M : x \in u1[1]
      BY <1>1, <1>3, <1>13
    <3>3. n \in u1[1]
      BY <1>1, <1>3, <1>4, <1>13, <3>1
    <3> QED BY <1>1, <1>13, <3>2, <3>3
  <2>3. \A m \in 1 .. n : m \in u1[m]
    BY <1>1, <1>3, <1>13
  <2> QED BY <1>13, <2>1, <2>2, <2>3
<1>20. Once(n, b1, u1)
  <2> SUFFICES ASSUME NEW q \in 1 .. n, NEW r \in 1 .. n, NEW x \in u1[q], x \in u1[r],
            b1[q] = b1[r]
               PROVE  q = r
    BY DEF Once
  <2>0. x \in 1 .. n
    BY <1>13
  <2>1. ASSUME NEW m \in M, x \in u1[m], x \in u1[n], bit[m] = depth PROVE FALSE
    <3>1. CASE x = n
      BY <1>2, <1>4, <1>13, <2>1, <3>1
    <3>2. CASE x \in M
      <4>1. Through(x) /\ x \in under[m]
        BY <1>13, <2>1, <3>2
      <4>2. bit[m] >= bit[p] \/ (bit[m] <= bit[c] /\ bit[c] < depth)
        BY <1>15, <3>2, <4>1
      <4> QED BY <1>2, <1>4, <2>1, <4>2
    <3> QED BY <1>1, <2>0, <3>1, <3>2
  <2>2. CASE q \in M /\ r \in M
    <3>1. \E y \in under[q] : y \in under[r]
      BY <1>1, <1>13, <2>0, <2>2
    <3>2. bit[q] = bit[r]
      BY <1>11, <2>2
    <3> QED BY <2>2, <3>1, <3>2 DEF Patricia, Once, M
  <2>3. CASE q \in M /\ r = n
    BY <1>11, <2>1, <2>3
  <2>4. CASE q = n /\ r \in M
    BY <1>11, <2>1, <2>4
  <2> QED BY <1>1, <2>2, <2>3, <2>4
<1>21. Alike(n, b1, k1, u1)
  <2>0. \A m \in M : \A x, y \in under[m] : \A b \in Nat : b > bit[m]
            => BitOf(b, key[x]) = BitOf(b, key[y])
    BY DEF Patricia, Alike, M
  <2>1. ASSUME NEW m \in M, NEW x \in u1[m], NEW b \in Nat, b > bit[m]
        PROVE  \E y \in under[m] : BitOf(b, k1[x]) = BitOf(b, key[y])
    <3>1. CASE x \in M
      BY <1>11, <1>13, <3>1
    <3>2. CASE x = n
      <4>1. near \in under[m] /\ depth < bit[m]
        BY <1>13, <3>2
      <4>2. b > depth
        BY <1>2, <1>4, <2>1, <4>1
      <4> QED BY <1>6, <1>11, <2>1, <3>2, <4>1, <4>2
    <3> QED BY <1>1, <1>13, <3>1, <3>2
  <2>2. ASSUME NEW x \in u1[n], NEW b \in Nat, b > depth
        PROVE  BitOf(b, k1[x]) = BitOf(b, key[near])
    <3>1. CASE x \in M
      <4>1. Through(x)
        BY <1>13, <3>1
      <4>2. CASE bit[c] < bit[p]
        <5>1. x \in under[c] /\ near \in under[c] /\ bit[c] < depth
          BY <1>10, <1>14, <3>1, <4>1, <4>2
        <5>2. b > bit[c]
          BY <1>2, <1>4, <2>2, <5>1
        <5> QED BY <1>4, <1>11, <2>0, <3>1, <5>1, <5>2
      <4>3. CASE ~ bit[c] < bit[p]
        BY <1>11, <1>14, <3>1, <4>1, <4>3
      <4> QED BY <4>2, <4>3
    <3>2. CASE x = n
      BY <1>6, <1>11, <2>2, <3>2
    <3> QED BY <1>1, <1>13, <3>1, <3>2
  <2> SUFFICES ASSUME NEW m \in 1 .. n, NEW x \in u1[m], NEW y \in u1[m], NEW b \in Nat, b > b1[m]
               PROVE  BitOf(b, k1[x]) = BitOf(b, k1[y])
    BY DEF Alike
  <2>3. CASE m \in M
    <3>1. b > bit[m]
      BY <1>11, <2>3
    <3>2. PICK z \in under[m] : BitOf(b, k1[x]) = BitOf(b, key[z])
      BY <2>1, <2>3, <3>1
    <3>3. PICK w \in under[m] : BitOf(b, k1[y]) = BitOf(b, key[w])
      BY <2>1, <2>3, <3>1
    <3> QED BY <2>0, <2>3, <3>1, <3>2, <3>3
  <2>4. CASE m = n
    BY <1>11, <2>2, <2>4
  <2> QED BY <1>1, <2>3, <2>4
<1>22. Leads(n, b1, k1, d1, u1)
  <2>0. \A m \in M : \A x \in under[m] :
          LET k == kid[BitOf(bit[m], key[x])][m]
          IN  IF bit[k] < bit[m]
                THEN x \in under[k] /\ \A q \in M : x \in under[q] /\ bit[q] < bit[m]
                          => bit[q] <= bit[k]
                ELSE k = x /\ \A q \in M : x \in under[q] => bit[m] <= bit[q]
    BY DEF Patricia, Leads, M
  <2> DEFINE Follows(m, x, k) ==
               IF b1[k] < b1[m]
                 THEN x \in u1[k] /\ \A q \in 1 .. n : x \in u1[q] /\ b1[q] < b1[m]
                           => b1[q] <= b1[k]
                 ELSE k = x /\ \A q \in 1 .. n : x \in u1[q] => b1[m] <= b1[q]
  \* The new node itself.
  <2>1. ASSUME NEW x \in u1[n] PROVE Follows(n, x, d1[BitOf(b1[n], k1[x])][n])
    <3>1. CASE x = n
      <4>1. d1[BitOf(b1[n], k1[x])][n] = n
        BY <1>11, <1>12, <3>1
      <4>2. \A q \in 1 .. n : n \in u1[q] => b1[n] <= b1[q]
        BY <1>1, <1>2, <1>4, <1>11, <1>13
      <4>3. ~ b1[n] < b1[n]
        BY <1>4, <1>11
      <4> QED BY <3>1, <4>1, <4>2, <4>3
    <3>2. CASE x \in M
      <4>1. Through(x)
        BY <1>13, <3>2
      <4>2. d1[BitOf(b1[n], k1[x])][n] = c /\ b1[c] = bit[c] /\ b1[n] = depth
        BY <1>4, <1>5, <1>11, <1>12, <1>16, <3>2, <4>1
      <4>3. ASSUME NEW q \in 1 .. n, x \in u1[q]
            PROVE  b1[q] >= depth \/ (b1[q] <= bit[c] /\ bit[c] < depth)
        <5>1. CASE q = n
          BY <1>4, <1>11, <5>1
        <5>2. CASE q \in M
          <6>1. bit[q] >= bit[p] \/ (bit[q] <= bit[c] /\ bit[c] < depth)
            BY <1>13, <1>15, <3>2, <4>1, <4>3, <5>2
          <6> QED BY <1>2, <1>4, <1>11, <5>2, <6>1
        <5> QED BY <1>1, <5>1, <5>2
      <4>4. CASE bit[c] < bit[p]
        <5>1. x \in u1[c] /\ bit[c] < depth
          BY <1>4, <1>13, <1>14, <3>2, <4>1, <4>4
        <5>2. \A q \in 1 .. n : b1[q] \in Nat
          BY <1>18 DEF Wired
        <5> QED BY <1>4, <4>2, <4>3, <5>1, <5>2
      <4>5. CASE ~ bit[c] < bit[p]
        <5>1. c = x /\ bit[c] \in Nat /\ bit[p] \in Nat /\ ~ bit[c] < depth
          BY <1>2, <1>4, <1>14, <3>2, <4>1, <4>5
        <5>2. \A q \in 1 .. n : x \in u1[q] => depth <= b1[q]
          <6>1. \A q \in 1 .. n : b1[q] \in Nat
            BY <1>18 DEF Wired
          <6> QED BY <1>4, <4>3, <5>1, <6>1
        <5> QED BY <4>2, <5>1, <5>2
      <4> QED BY <4>4, <4>5
    <3> QED BY <1>1, <1>13, <3>1, <3>2
  \* What goes through p to the new node.
  <2>2. ASSUME NEW x \in u1[p], BitOf(bit[p], k1[x]) = s
        PROVE Follows(p, x, d1[BitOf(b1[p], k1[x])][p])
    <3>1. d1[BitOf(b1[p], k1[x])][p] = n /\ b1[p] = bit[p] /\ b1[n] = depth /\ depth < bit[p]
      BY <1>4, <1>11, <1>12, <2>2
    <3>2. x \in u1[n] /\ (x # n => x \in M /\ Through(x))
      BY <1>1, <1>4, <1>11, <1>13, <2>2 DEF Through
    <3>3. ASSUME NEW q \in 1 .. n, x \in u1[q], b1[q] < bit[p] PROVE b1[q] <= depth
      <4>1. CASE q = n
        BY <1>4, <1>11, <4>1
      <4>2. CASE q \in M /\ x = n
        <5>1. near \in under[q] /\ depth < bit[q]
          BY <1>13, <3>3, <4>2
        <5>2. bit[q] >= bit[p]
          BY <1>17, <4>2, <5>1
        <5>3. bit[q] \in Nat /\ bit[p] \in Nat /\ b1[q] = bit[q]
          BY <1>2, <1>4, <1>11, <4>2
        <5> QED BY <3>3, <5>2, <5>3
      <4>3. CASE q \in M /\ x # n
        <5>1. bit[q] >= bit[p] \/ (bit[q] <= bit[c] /\ bit[c] < depth)
          BY <1>13, <1>15, <3>2, <3>3, <4>3
        <5>2. bit[q] \in Nat /\ bit[p] \in Nat /\ bit[c] \in Nat /\ b1[q] = bit[q]
          BY <1>2, <1>4, <1>11, <4>3
        <5> QED BY <1>4, <3>3, <5>1, <5>2
      <4> QED BY <1>1, <4>1, <4>2, <4>3
    <3> QED BY <3>1, <3>2, <3>3
  \* What goes elsewhere.
  <2>3. ASSUME NEW m \in M, NEW x \in u1[m], ~ (m = p /\ BitOf(bit[p], k1[x]) = s)
        PROVE  Follows(m, x, d1[BitOf(b1[m], k1[x])][m])
    <3>1. CASE x \in M
      <4> DEFINE k == kid[BitOf(bit[m], key[x])][m]
      <4>1. d1[BitOf(b1[m], k1[x])][m] = k /\ k \in M /\ x \in under[m] /\ b1[m] = bit[m]
                /\ b1[k] = bit[k]
        BY <1>2, <1>5, <1>11, <1>12, <1>13, <2>3, <3>1
      <4>2. IF bit[k] < bit[m]
              THEN x \in under[k] /\ \A q \in M : x \in under[q] /\ bit[q] < bit[m]
                        => bit[q] <= bit[k]
              ELSE k = x /\ \A q \in M : x \in under[q] => bit[m] <= bit[q]
        BY <2>0, <4>1
      <4> HIDE DEF k
      \* The new node is above no child but p's.
      <4>3. ASSUME x \in u1[n] PROVE m = p \/ bit[m] > bit[p] \/ bit[m] < depth
        <5>1. Through(x)
          BY <1>13, <3>1, <4>3
        <5>2. bit[m] >= bit[p] \/ (bit[m] <= bit[c] /\ bit[c] < depth)
          BY <1>15, <3>1, <4>1, <5>1
        <5>3. bit[m] = bit[p] => m = p
          BY <1>4, <4>1, <5>1 DEF Patricia, Once, M, Through
        <5> QED BY <1>2, <1>4, <5>2, <5>3
      <4>4. x \in u1[n] => m # p
        BY <1>11, <1>13, <2>3, <3>1 DEF Through
      <4>5. x \in u1[n] => Through(x) /\ x \in under[p]
        BY <1>13, <3>1 DEF Through
      <4>6. CASE bit[k] < bit[m]
        <5>1. x \in u1[k]
          BY <1>13, <3>1, <4>1, <4>2, <4>6
        <5>2. ASSUME NEW q \in 1 .. n, x \in u1[q], b1[q] < bit[m] PROVE b1[q] <= bit[k]
          <6>1. CASE q \in M
            BY <1>11, <1>13, <3>1, <4>2, <4>6, <5>2, <6>1
          <6>2. CASE q = n
            <7>1. b1[q] = depth /\ depth < bit[m]
              BY <1>11, <5>2, <6>2
            <7>2. bit[m] > bit[p]
              BY <1>2, <1>4, <4>3, <4>4, <5>2, <6>2, <7>1
            <7>3. bit[p] <= bit[k]
              BY <1>4, <4>2, <4>5, <4>6, <5>2, <6>2, <7>2
            <7> QED BY <1>2, <1>4, <4>1, <7>1, <7>3
          <6> QED BY <1>1, <6>1, <6>2
        <5> QED BY <4>1, <4>6, <5>1, <5>2
      <4>7. CASE ~ bit[k] < bit[m]
        <5>1. k = x
          BY <4>2, <4>7
        <5>2. ASSUME NEW q \in 1 .. n, x \in u1[q] PROVE bit[m] <= b1[q]
          <6>1. CASE q \in M
            BY <1>11, <1>13, <3>1, <4>2, <4>7, <5>2, <6>1
          <6>2. CASE q = n
            <7>1. bit[m] <= bit[p]
              BY <1>4, <4>2, <4>5, <4>7, <5>2, <6>2
            <7>2. bit[m] < depth
              BY <1>2, <1>4, <4>3, <4>4, <5>2, <6>2, <7>1
            <7> QED BY <1>2, <1>4, <1>11, <6>2, <7>2
          <6> QED BY <1>1, <6>1, <6>2
        <5> QED BY <4>1, <4>7, <5>1, <5>2
      <4> QED BY <4>6, <4>7
    <3>2. CASE x = n
      <4>1. near \in under[m] /\ depth < bit[m] /\ b1[m] = bit[m] /\ k1[x] = new
        BY <1>11, <1>13, <3>2
      <4>2. BitOf(bit[m], new) = BitOf(bit[m], key[near])
        BY <1>2, <1>6, <4>1
      <4> DEFINE k == kid[BitOf(bit[m], key[near])][m]
      <4>3. d1[BitOf(b1[m], k1[x])][m] = k /\ k \in M /\ b1[k] = bit[k]
        BY <1>2, <1>5, <1>11, <1>12, <2>3, <4>1, <4>2
      <4>4. IF bit[k] < bit[m]
              THEN near \in under[k] /\ \A q \in M : near \in under[q] /\ bit[q] < bit[m]
                        => bit[q] <= bit[k]
              ELSE k = near /\ \A q \in M : near \in under[q] => bit[m] <= bit[q]
        BY <2>0, <4>1
      <4> HIDE DEF k
      <4>5. bit[m] > bit[p]
        <5>1. bit[m] >= bit[p]
          BY <1>17, <4>1
        <5>2. m # p
          BY <2>3, <4>1, <4>2, <1>9 DEF Through
        <5>3. bit[m] # bit[p]
          BY <1>4, <4>1, <5>2 DEF Patricia, Once, M
        <5> QED BY <1>2, <1>4, <5>1, <5>3
      <4>6. bit[k] < bit[m] /\ near \in under[k] /\ bit[p] <= bit[k]
        BY <1>2, <1>4, <4>4, <4>5
      <4>7. x \in u1[k]
        BY <1>2, <1>4, <1>13, <3>2, <4>3, <4>6
      <4>8. ASSUME NEW q \in 1 .. n, x \in u1[q], b1[q] < bit[m] PROVE b1[q] <= bit[k]
        <5>1. CASE q \in M
          BY <1>11, <1>13, <3>2, <4>4, <4>6, <4>8, <5>1
        <5>2. CASE q = n
          BY <1>2, <1>4, <1>11, <4>3, <4>6, <5>2
        <5> QED BY <1>1, <5>1, <5>2
      <4> QED BY <4>1, <4>3, <4>6, <4>7, <4>8
    <3> QED BY <1>1, <1>13, <3>1, <3>2
  <2>4. ASSUME NEW m \in 1 .. n, NEW x \in u1[m] PROVE Follows(m, x, d1[BitOf(b1[m], k1[x])][m])
    <3> HIDE DEF Follows
    <3>1. CASE m = n
      BY <2>1, <3>1
    <3>2. CASE m \in M
      <4>1. CASE m = p /\ BitOf(bit[p], k1[x]) = s
        BY <2>2, <4>1
      <4>2. CASE ~ (m = p /\ BitOf(bit[p], k1[x]) = s)
        BY <2>3, <3>2, <4>2
      <4> QED BY <4>1, <4>2
    <3> QED BY <1>1, <3>1, <3>2
  <2> QED BY <2>4 DEF Leads
<1>23. Gathers(n, b1, k1, d1, u1)
  <2>0. \A m \in M : \A a \in {0, 1} : (m = 1 => a = 0) =>
          LET k == kid[a][m]
          IN  IF bit[k] < bit[m]
                THEN \A x \in under[k] : x \in under[m] /\ BitOf(bit[m], key[x]) = a
                ELSE k \in under[m] /\ BitOf(bit[m], key[k]) = a
    BY DEF Patricia, Gathers, M
  <2> DEFINE From(m, a, k) ==
               IF b1[k] < b1[m]
                 THEN \A x \in u1[k] : x \in u1[m] /\ BitOf(b1[m], k1[x]) = a
                 ELSE k \in u1[m] /\ BitOf(b1[m], k1[k]) = a
  <2>1. From(n, BitOf(depth, new), d1[BitOf(depth, new)][n])
    BY <1>4, <1>11, <1>12, <1>13
  <2>2. ASSUME NEW a \in {0, 1}, a # BitOf(depth, new) PROVE From(n, a, d1[a][n])
    <3>1. d1[a][n] = c /\ b1[n] = depth /\ b1[c] = bit[c]
      BY <1>4, <1>11, <1>12, <2>2
    <3>2. ASSUME NEW x \in M, Through(x) PROVE x \in u1[n] /\ BitOf(depth, k1[x]) = a
      <4>1. BitOf(depth, key[x]) # BitOf(depth, new)
        BY <1>16, <3>2
      <4> QED BY <1>5, <1>11, <1>13, <2>2, <3>2, <4>1
    <3>3. CASE bit[c] < depth
      <4>1. bit[c] < bit[p]
        BY <1>2, <1>4, <3>3
      <4>2. p = 1 => s = 0
        <5>1. bit[1] \notin new
          BY <1>1, <1>2, <1>4
        <5> QED BY <5>1 DEF s, BitOf
      <4>3. \A x \in under[c] : x \in M /\ Through(x)
        BY <1>3, <1>4, <1>8, <2>0, <4>1, <4>2 DEF Through
      <4>4. \A x \in u1[c] : x \in under[c]
        <5>1. n \notin u1[c]
          BY <1>2, <1>4, <1>13, <3>3
        <5> QED BY <1>1, <1>4, <1>13, <5>1
      <4> QED BY <3>1, <3>2, <3>3, <4>3, <4>4
    <3>4. CASE ~ bit[c] < depth
      <4>1. c = near
        BY <1>10, <3>4
      <4> QED BY <1>4, <1>9, <3>1, <3>2, <3>4, <4>1
    <3> QED BY <3>3, <3>4
  <2>3. From(p, s, d1[s][p])
    <3>1. d1[s][p] = n /\ b1[n] = depth /\ b1[p] = bit[p] /\ depth < bit[p]
      BY <1>4, <1>11, <1>12
    <3>2. ASSUME NEW x \in u1[n] PROVE x \in u1[p] /\ BitOf(bit[p], k1[x]) = s
      <4>1. CASE x = n
        BY <1>4, <1>11, <1>13, <4>1 DEF s
      <4>2. CASE x \in M
        BY <1>4, <1>11, <1>13, <4>2 DEF Through
      <4> QED BY <1>1, <1>13, <4>1, <4>2
    <3> QED BY <3>1, <3>2
  <2>4. ASSUME NEW m \in M, NEW a \in {0, 1}, m = 1 => a = 0, ~ (m = p /\ a = s)
        PROVE From(m, a, d1[a][m])
    <3> DEFINE k == kid[a][m]
    <3>1. d1[a][m] = k /\ k \in M /\ b1[k] = bit[k] /\ b1[m] = bit[m]
      BY <1>2, <1>11, <1>12, <2>4
    <3>2. IF bit[k] < bit[m]
            THEN \A x \in under[k] : x \in under[m] /\ BitOf(bit[m], key[x]) = a
            ELSE k \in under[m] /\ BitOf(bit[m], key[k]) = a
      BY <2>0, <2>4
    <3> HIDE DEF k
    <3>3. CASE bit[k] < bit[m]
      <4>1. ASSUME NEW x \in u1[k] PROVE x \in u1[m] /\ BitOf(bit[m], k1[x]) = a
        <5>1. CASE x \in M
          BY <1>11, <1>13, <3>1, <3>2, <3>3, <4>1, <5>1
        <5>2. CASE x = n
          <6>1. near \in under[k] /\ depth < bit[k]
            BY <1>13, <3>1, <4>1, <5>2
          <6>2. near \in under[m] /\ BitOf(bit[m], key[near]) = a /\ depth < bit[m]
                    /\ bit[m] \in Nat
            BY <1>2, <1>4, <3>1, <3>2, <3>3, <6>1
          <6>3. BitOf(bit[m], new) = a
            BY <1>6, <6>2
          <6> QED BY <1>11, <1>13, <5>2, <6>2, <6>3
        <5> QED BY <1>1, <1>13, <3>1, <5>1, <5>2
      <4> QED BY <3>1, <3>3, <4>1
    <3>4. CASE ~ bit[k] < bit[m]
      BY <1>11, <1>13, <3>1, <3>2, <3>4
    <3> QED BY <3>3, <3>4
  <2>5. ASSUME NEW m \in 1 .. n, NEW a \in {0, 1}, m = 1 => a = 0 PROVE From(m, a, d1[a][m])
    <3> HIDE DEF From
    <3>1. CASE m = n
      BY <2>1, <2>2, <3>1
    <3>2. CASE m \in M
      BY <2>3, <2>4, <2>5, <3>2
    <3> QED BY <1>1, <3>1, <3>2
  <2> QED BY <2>5 DEF Gathers
<1> QED
  BY <1>18, <1>19, <1>20, <1>21, <1>22, <1>23 DEF Patricia, n, b1, k1, d1, u1
----------------------------------------------------------------------------
(***************************************************************************)
(* The search.                                                             *)
(***************************************************************************)
Node == [bitNum : Nat, key : SUBSET Nat, buckets : Int, leftN : Nat, rightN : Nat]

BitNums(nodes) == [m \in 1 .. Len(nodes) |-> nodes[m].bitNum]

Keys(nodes) == [m \in 1 .. Len(nodes) |-> nodes[m].key]

Kids(nodes) ==
  [s \in {0, 1} |-> [m \in 1 .. Len(nodes) |-> IF s = 1 THEN nodes[m].rightN ELSE nodes[m].leftN]]

IsWired(nodes) == nodes \in Seq(Node) /\ Wired(Len(nodes), BitNums(nodes), Keys(nodes), Kids(nodes))

\* What a wired trie is made of.
LEMMA NodesAre ==
  ASSUME NEW nodes, IsWired(nodes)
  PROVE  /\ Len(nodes) \in Nat /\ 1 \in 1 .. Len(nodes) /\ DOMAIN nodes = 1 .. Len(nodes)
         /\ \A m \in 1 .. Len(nodes) :
              /\ nodes[m] \in Node
              /\ nodes[m].bitNum = BitNums(nodes)[m] /\ nodes[m].key = Keys(nodes)[m]
              /\ nodes[m].leftN = Kids(nodes)[0][m] /\ nodes[m].rightN = Kids(nodes)[1][m]
              /\ BitNums(nodes)[m] \in Nat /\ Keys(nodes)[m] \in SUBSET Nat
              /\ \A a \in {0, 1} : Kids(nodes)[a][m] \in 1 .. Len(nodes)
              /\ \A key : Child(nodes, m, key) = Kids(nodes)[BitOf(BitNums(nodes)[m], key)][m]
<1>1. Len(nodes) \in Nat /\ 1 \in 1 .. Len(nodes) /\ DOMAIN nodes = 1 .. Len(nodes)
  BY DEF IsWired, Wired
<1>2. /\ BitNums(nodes) \in [1 .. Len(nodes) -> Nat]
          /\ Keys(nodes) \in [1 .. Len(nodes) -> SUBSET Nat]
      /\ Kids(nodes) \in [{0, 1} -> [1 .. Len(nodes) -> 1 .. Len(nodes)]]
  BY DEF IsWired, Wired
<1>3. ASSUME NEW m \in 1 .. Len(nodes)
      PROVE  /\ nodes[m] \in Node
             /\ nodes[m].bitNum = BitNums(nodes)[m] /\ nodes[m].key = Keys(nodes)[m]
             /\ nodes[m].leftN = Kids(nodes)[0][m] /\ nodes[m].rightN = Kids(nodes)[1][m]
  <2>1. nodes[m] \in Node
    BY <1>1 DEF IsWired
  <2> QED BY <2>1 DEF BitNums, Keys, Kids
<1>4. ASSUME NEW m \in 1 .. Len(nodes), NEW key
      PROVE  Child(nodes, m, key) = Kids(nodes)[BitOf(BitNums(nodes)[m], key)][m]
  BY <1>3 DEF Child, BitOf
<1> QED
  BY <1>1, <1>2, <1>3, <1>4

\* A way is a set of pairs of nodes with the root's and, with each pair from which the search
\* goes on, the next.
IsWay(nodes, key, above, way) ==
  LET bit == BitNums(nodes)
      kid == Kids(nodes)
  IN  /\ way \in SUBSET ((1 .. Len(nodes)) \X (1 .. Len(nodes)))
      /\ <<1, kid[0][1]>> \in way
      /\ \A m, c \in 1 .. Len(nodes) :
           <<m, c>> \in way /\ bit[m] > bit[c] /\ bit[c] > above
             => <<c, kid[BitOf(bit[c], key)][c]>> \in way

\* The search stays on each way and ends where it cannot go on.
LEMMA SearchEnds ==
  ASSUME NEW nodes, IsWired(nodes), NEW key, NEW above \in Int,
         NEW way, IsWay(nodes, key, above, way)
  PROVE  LET r == Reached(nodes, key, above)
         IN  /\ r \in way /\ r[1] \in 1 .. Len(nodes) /\ r[2] \in 1 .. Len(nodes)
             /\ ~ (BitNums(nodes)[r[1]] > BitNums(nodes)[r[2]] /\ BitNums(nodes)[r[2]] > above)
<1> DEFINE N == Len(nodes)
           bit == BitNums(nodes)
           kid == Kids(nodes)
           U == (1 .. N) \X (1 .. N)
           Down(e) == bit[e[1]] > bit[e[2]] /\ bit[e[2]] > above
           After(e) == <<e[2], kid[BitOf(bit[e[2]], key)][e[2]]>>
           rank == [e \in U |-> bit[e[1]]]
           value == [e \in U |-> [f \in [U -> U] |-> IF Down(e) THEN f[After(e)] ELSE e]]
           n == bit[1] + 1
<1>1. /\ N \in Nat /\ 1 \in 1 .. N /\ DOMAIN nodes = 1 .. N
      /\ \A m \in 1 .. N : bit[m] \in Nat /\ nodes[m].bitNum = bit[m]
                           /\ \A a \in {0, 1} : kid[a][m] \in 1 .. N
                           /\ Child(nodes, m, key) = kid[BitOf(bit[m], key)][m]
      /\ nodes[1].leftN = kid[0][1]
  BY NodesAre
<1>2. \A m \in 1 .. N : bit[m] < n
  <2>1. \A m \in 1 .. N : m # 1 => bit[m] < bit[1]
    BY DEF IsWired, Wired
  <2>2. bit[1] \in Nat /\ \A m \in 1 .. N : bit[m] \in Nat
    BY <1>1
  <2> HIDE DEF bit, N
  <2>3. \A m \in 1 .. N : m = 1 \/ bit[m] < bit[1]
    BY <2>1 DEF N
  <2> QED BY <2>2, <2>3
<1>3. /\ way \in SUBSET U /\ <<1, kid[0][1]>> \in way
      /\ \A m, c \in 1 .. N : <<m, c>> \in way /\ bit[m] > bit[c] /\ bit[c] > above
                                => <<c, kid[BitOf(bit[c], key)][c]>> \in way
  BY DEF IsWay
<1> HIDE DEF N, bit, kid
<1>4. \A e \in U : /\ e[1] \in 1 .. N /\ e[2] \in 1 .. N /\ e = <<e[1], e[2]>>
                   /\ bit[e[1]] \in Nat /\ bit[e[2]] \in Nat /\ bit[e[1]] < n /\ After(e) \in U
  <2> TAKE e \in U
  <2>1. e[1] \in 1 .. N /\ e[2] \in 1 .. N /\ e = <<e[1], e[2]>>
    OBVIOUS
  <2>2. BitOf(bit[e[2]], key) \in {0, 1}
    BY DEF BitOf
  <2>3. kid[BitOf(bit[e[2]], key)][e[2]] \in 1 .. N
    BY <1>1, <2>1, <2>2
  <2>4. After(e) \in U
    BY <2>1, <2>3
  <2> QED BY <1>1, <1>2, <2>1, <2>4
<1>5. n \in Nat /\ <<1, kid[0][1]>> \in U
  BY <1>1
<1>6. \A e \in U : Down(e) => rank[After(e)] < rank[e]
  BY <1>4
<1>7. Shrinks(U, U, value, rank, n)
  <2>1. rank \in [U -> Nat] /\ \A e \in U : rank[e] < n
    BY <1>4
  <2>2. value \in [U -> [[U -> U] -> U]]
    <3>1. \A e \in U : \A f \in [U -> U] : (IF Down(e) THEN f[After(e)] ELSE e) \in U
      <4> HIDE DEF U, Down, After
      <4> QED BY <1>4
    <3> HIDE DEF U, Down, After
    <3> QED BY <3>1
  <2>3. \A e \in U : \A f, g \in [U -> U] :
          (\A d \in U : rank[d] < rank[e] => f[d] = g[d]) => value[e][f] = value[e][g]
    <3> HIDE DEF U, Down, After, rank
    <3> QED BY <1>4, <1>6
  <2> HIDE DEF U, value, rank, n
  <2> QED BY <1>5, <2>1, <2>2, <2>3 DEF Shrinks
<1> DEFINE path == CHOOSE p : p = [e \in U |-> IF Down(e) THEN p[After(e)] ELSE e]
<1>8. \E p : p = [e \in U |-> IF Down(e) THEN p[After(e)] ELSE e]
  <2>1. PICK f : BySize(f, U, U, value)
    <3> HIDE DEF U, value, rank, n
    <3> QED BY <1>5, <1>7, SizeRecursion
  <2> HIDE DEF U, Down, After
  <2>2. f \in [U -> U] /\ \A e \in U : f[e] = IF Down(e) THEN f[After(e)] ELSE e
    BY <2>1 DEF BySize
  <2>3. f = [e \in U |-> f[e]]
    BY <2>2
  <2>4. f = [e \in U |-> IF Down(e) THEN f[After(e)] ELSE e]
    BY <2>2, <2>3
  <2> QED BY <2>4
<1>9. path = [e \in U |-> IF Down(e) THEN path[After(e)] ELSE e]
  <2> HIDE DEF U, Down, After
  <2> QED BY <1>8
<1>10. Reached(nodes, key, above) = path[<<1, kid[0][1]>>]
  <2> DEFINE Goes(e) == nodes[e[1]].bitNum > nodes[e[2]].bitNum /\ nodes[e[2]].bitNum > above
             Onward(e) == <<e[2], Child(nodes, e[2], key)>>
             Same(p) == p = [e \in U |-> IF Down(e) THEN p[After(e)] ELSE e]
             Read(p) == p = [e \in (DOMAIN nodes) \X (DOMAIN nodes) |->
                               IF Goes(e) THEN p[Onward(e)] ELSE e]
  <2>1. \A e \in U : (Goes(e) <=> Down(e)) /\ Onward(e) = After(e)
    BY <1>1, <1>4
  <2>2. \A p : Same(p) <=> Read(p)
    <3>1. (DOMAIN nodes) \X (DOMAIN nodes) = U
      BY <1>1
    <3> HIDE DEF U, Down, After, Goes, Onward
    <3> QED BY <2>1, <3>1
  <2>3. (CHOOSE p : Same(p)) = (CHOOSE p : Read(p))
    <3> HIDE DEF Same, Read
    <3> QED BY <2>2
  <2>4. Reached(nodes, key, above) = (CHOOSE p : Read(p))[<<1, nodes[1].leftN>>]
    BY DEF Reached, rootNode
  <2> QED BY <1>1, <2>3, <2>4
<1> HIDE DEF path
<1> DEFINE Ends(e) == path[e] \in way /\ ~ Down(path[e])
           G == {k \in 0 .. n : \A e \in U : e \in way /\ rank[e] < k => Ends(e)}
<1>11. 0 \in G
  <2>1. \A e \in U : ~ rank[e] < 0
    <3> TAKE e \in U
    <3>1. rank[e] = bit[e[1]] /\ bit[e[1]] \in Nat
      BY <1>4
    <3> QED BY <3>1
  <2> HIDE DEF U, rank, Ends
  <2> QED BY <1>5, <2>1
<1>12. ASSUME NEW k \in 1 .. n, k - 1 \in G PROVE k \in G
  <2>1. ASSUME NEW e \in U, e \in way, rank[e] < k PROVE Ends(e)
    <3>1. CASE Down(e)
      <4>1. path[e] = path[After(e)]
        <5> HIDE DEF U, Down, After
        <5> QED BY <1>9, <3>1
      <4>2. After(e) \in U /\ After(e) \in way
        <5>1. e[1] \in 1 .. N /\ e[2] \in 1 .. N /\ <<e[1], e[2]>> \in way
          BY <1>4, <2>1
        <5>2. After(e) \in way
          BY <1>3, <3>1, <5>1
        <5> QED BY <1>4, <5>2
      <4>3. rank[After(e)] < k - 1
        <5>1. rank[After(e)] < rank[e]
          BY <1>6, <3>1
        <5>2. rank[After(e)] \in Nat /\ rank[e] \in Nat
          BY <1>4, <4>2
        <5> HIDE DEF U, rank, After
        <5> QED BY <1>5, <2>1, <5>1, <5>2
      <4>4. Ends(After(e))
        <5> HIDE DEF U, rank, After, Ends
        <5> QED BY <1>12, <4>2, <4>3
      <4> QED BY <4>1, <4>4
    <3>2. CASE ~ Down(e)
      <4>1. path[e] = e
        <5> HIDE DEF U, Down, After
        <5> QED BY <1>9, <3>2
      <4> QED BY <2>1, <3>2, <4>1
    <3> QED BY <3>1, <3>2
  <2> HIDE DEF U, rank, Ends
  <2> QED BY <2>1
<1>13. G \in SUBSET (0 .. n)
  OBVIOUS
<1>14. G = 0 .. n
  <2> HIDE DEF G, n
  <2> QED BY <1>5, <1>11, <1>12, <1>13, StepByStep
<1>15. Ends(<<1, kid[0][1]>>)
  <2>1. n \in G
    <3> HIDE DEF G, n
    <3> QED BY <1>5, <1>14
  <2>2. rank[<<1, kid[0][1]>>] < n
    BY <1>4, <1>5
  <2> HIDE DEF U, rank, Ends
  <2> QED BY <1>3, <1>5, <2>1, <2>2
<1> DEFINE r == Reached(nodes, key, above)
<1>16. r \in way /\ r \in U /\ ~ Down(r)
  <2>1. r = path[<<1, kid[0][1]>>]
    BY <1>10
  <2> HIDE DEF r
  <2>2. r \in way /\ ~ Down(r)
    BY <1>15, <2>1
  <2> QED BY <1>3, <2>2
<1> QED
  <2> HIDE DEF r
  <2>1. r[1] \in 1 .. N /\ r[2] \in 1 .. N
    BY <1>4, <1>16
  <2> QED BY <1>16, <2>1 DEF N, bit, r

\* What a key of a trie is: its bits are below the one the root tests.
FitsIn(key, top) == key \in SUBSET Nat /\ \A b \in key : b < top

IsPatricia(nodes, under) == Patricia(Len(nodes), BitNums(nodes), Keys(nodes), Kids(nodes), under)

\* And a Patricia trie is one.
LEMMA PatriciaIsWired ==
  ASSUME NEW nodes \in Seq(Node), NEW under, IsPatricia(nodes, under)
  PROVE  IsWired(nodes)
BY DEF IsPatricia, Patricia, IsWired

\* A key that is there is found.
LEMMA KeyIsFound ==
  ASSUME NEW nodes \in Seq(Node), NEW under, IsPatricia(nodes, under),
         NEW key, FitsIn(key, BitNums(nodes)[1]), NEW x \in 1 .. Len(nodes), Keys(nodes)[x] = key
  PROVE  Nearest(nodes, key) = x
<1> DEFINE N == Len(nodes)
           bit == BitNums(nodes)
           kid == Kids(nodes)
           way == {e \in (1 .. N) \X (1 .. N) :
                     e[2] = kid[BitOf(bit[e[1]], key)][e[1]] /\ x \in under[e[1]]}
           r == Reached(nodes, key, -1)
<1>1. IsWired(nodes)
  BY PatriciaIsWired
<1>2. 1 \in 1 .. N /\ \A m \in 1 .. N : bit[m] \in Nat /\ \A a \in {0, 1} : kid[a][m] \in 1 .. N
  BY <1>1, NodesAre
<1>3. \A b, y : BitOf(b, y) \in {0, 1}
  BY DEF BitOf
<1>4. \A m \in 1 .. N : x \in under[m] =>
        LET c == kid[BitOf(bit[m], key)][m]
        IN  IF bit[c] < bit[m] THEN x \in under[c] ELSE c = x
  BY DEF IsPatricia, Patricia, Leads
<1>5. under[1] = 1 .. N
  BY DEF IsPatricia, Patricia
<1>6. BitOf(bit[1], key) = 0
  BY <1>2 DEF FitsIn, BitOf
<1>7. IsWay(nodes, key, -1, way)
  <2> HIDE DEF N, bit, kid
  <2>1. <<1, kid[0][1]>> \in way
    BY <1>2, <1>5, <1>6 DEF N
  <2>2. ASSUME NEW m \in 1 .. N, NEW c \in 1 .. N, <<m, c>> \in way, bit[m] > bit[c]
        PROVE  <<c, kid[BitOf(bit[c], key)][c]>> \in way
    <3>1. c = kid[BitOf(bit[m], key)][m] /\ x \in under[m]
      BY <2>2
    <3>2. x \in under[c]
      BY <1>2, <1>4, <2>2, <3>1
    <3>3. kid[BitOf(bit[c], key)][c] \in 1 .. N
      BY <1>2, <1>3
    <3> QED BY <3>2, <3>3
  <2>3. way \in SUBSET ((1 .. N) \X (1 .. N))
    OBVIOUS
  <2> HIDE DEF way
  <2> QED BY <2>1, <2>2, <2>3 DEF IsWay, N, bit, kid
<1> HIDE DEF way
<1>8. /\ r \in way /\ r[1] \in 1 .. N /\ r[2] \in 1 .. N
          /\ ~ (bit[r[1]] > bit[r[2]] /\ bit[r[2]] > -1)
  BY <1>1, <1>7, SearchEnds
<1> HIDE DEF r, N, bit, kid
<1>9. ~ bit[r[2]] < bit[r[1]]
  BY <1>2, <1>8
<1>10. r[2] = kid[BitOf(bit[r[1]], key)][r[1]] /\ x \in under[r[1]]
  BY <1>8 DEF way
<1>11. r[2] = x
  BY <1>4, <1>8, <1>9, <1>10
<1> QED
  BY <1>11 DEF Nearest, r

\* The nearest key agrees with what is searched for wherever the way to it tests a bit above
\* which they agree.
LEMMA NearestAgrees ==
  ASSUME NEW nodes \in Seq(Node), NEW under, IsPatricia(nodes, under),
         NEW key, FitsIn(key, BitNums(nodes)[1])
  PROVE  /\ Nearest(nodes, key) \in 1 .. Len(nodes)
         /\ \A q \in 1 .. Len(nodes) :
              /\ Nearest(nodes, key) \in under[q]
              /\ \A b \in Nat : b > BitNums(nodes)[q]
                                  => BitOf(b, key) = BitOf(b, Keys(nodes)[Nearest(nodes, key)])
              => BitOf(BitNums(nodes)[q], key)
                   = BitOf(BitNums(nodes)[q], Keys(nodes)[Nearest(nodes, key)])
<1> DEFINE N == Len(nodes)
           bit == BitNums(nodes)
           keys == Keys(nodes)
           kid == Kids(nodes)
           near == Nearest(nodes, key)
           r == Reached(nodes, key, -1)
           Step(e) == e[2] = kid[BitOf(bit[e[1]], key)][e[1]]
<1>1. IsWired(nodes)
  BY PatriciaIsWired
<1>2. 1 \in 1 .. N /\ \A m \in 1 .. N : bit[m] \in Nat /\ \A a \in {0, 1} : kid[a][m] \in 1 .. N
  BY <1>1, NodesAre
<1>3. \A b, y : BitOf(b, y) \in {0, 1}
  BY DEF BitOf
<1>4. /\ under[1] = 1 .. N /\ \A m \in 1 .. N : under[m] \in SUBSET (1 .. N)
      /\ \A m \in 1 .. N : m # 1 => bit[m] < bit[1]
  BY DEF IsPatricia, Patricia, Wired
<1>5. BitOf(bit[1], key) = 0
  BY <1>2 DEF FitsIn, BitOf
<1>6. \A m \in 1 .. N : \A x \in under[m] :
        LET c == kid[BitOf(bit[m], keys[x])][m]
        IN  IF bit[c] < bit[m]
              THEN x \in under[c] /\ \A q \in 1 .. N : x \in under[q] /\ bit[q] < bit[m]
                        => bit[q] <= bit[c]
              ELSE c = x /\ \A q \in 1 .. N : x \in under[q] => bit[m] <= bit[q]
  BY DEF IsPatricia, Patricia, Leads
<1>7. \A m \in 1 .. N :
        LET c == kid[BitOf(bit[m], key)][m]
        IN  IF bit[c] < bit[m]
              THEN \A x \in under[c] : x \in under[m] /\ BitOf(bit[m], keys[x]) = BitOf(bit[m], key)
              ELSE c \in under[m] /\ BitOf(bit[m], keys[c]) = BitOf(bit[m], key)
  <2>1. \A m \in 1 .. N : \A s \in {0, 1} : (m = 1 => s = 0) =>
          LET c == kid[s][m]
          IN  IF bit[c] < bit[m]
                THEN \A x \in under[c] : x \in under[m] /\ BitOf(bit[m], keys[x]) = s
                ELSE c \in under[m] /\ BitOf(bit[m], keys[c]) = s
    BY DEF IsPatricia, Patricia, Gathers
  <2> HIDE DEF N, bit, keys, kid
  <2> QED BY <1>3, <1>5, <2>1
<1>8. \A q, m \in 1 .. N : \A x \in under[q] : x \in under[m] /\ bit[q] = bit[m] => q = m
  BY DEF IsPatricia, Patricia, Once
<1>9. near \in 1 .. N
  <2> DEFINE way == (1 .. N) \X (1 .. N)
  <2>1. IsWay(nodes, key, -1, way)
    <3>1. \A m \in 1 .. N : kid[BitOf(bit[m], key)][m] \in 1 .. N
      BY <1>2, <1>3
    <3>2. kid[0][1] \in 1 .. N
      BY <1>2
    <3> QED BY <1>2, <3>1, <3>2 DEF IsWay
  <2> HIDE DEF way
  <2> QED BY <1>1, <2>1, SearchEnds DEF Nearest
<1>10. ASSUME NEW q \in 1 .. N, near \in under[q],
              \A b \in Nat : b > bit[q] => BitOf(b, key) = BitOf(b, keys[near])
       PROVE  BitOf(bit[q], key) = BitOf(bit[q], keys[near])
  <2> DEFINE Before(m) == bit[q] <= bit[m] /\ near \in under[m]
             After(m) == \A x \in under[m] : BitOf(bit[q], keys[x]) = BitOf(bit[q], key)
             way == {e \in (1 .. N) \X (1 .. N) : Step(e) /\ (Before(e[1]) \/ After(e[1]))}
  <2>1. IsWay(nodes, key, -1, way)
    <3> HIDE DEF N, bit, kid, keys, near
    <3>1. <<1, kid[0][1]>> \in way
      <4>1. bit[q] <= bit[1]
        BY <1>2, <1>4
      <4> QED BY <1>2, <1>4, <1>5, <1>9, <4>1
    <3>2. ASSUME NEW m \in 1 .. N, NEW c \in 1 .. N, <<m, c>> \in way, bit[m] > bit[c]
          PROVE  <<c, kid[BitOf(bit[c], key)][c]>> \in way
      <4>1. c = kid[BitOf(bit[m], key)][m] /\ (Before(m) \/ After(m))
        BY <3>2
      <4>2. \A x \in under[c] : x \in under[m] /\ BitOf(bit[m], keys[x]) = BitOf(bit[m], key)
        BY <1>2, <1>7, <3>2, <4>1
      <4>3. Before(c) \/ After(c)
        <5>1. CASE After(m)
          BY <4>2, <5>1
        <5>2. CASE Before(m) /\ bit[m] = bit[q]
          BY <4>2, <5>2
        <5>3. CASE Before(m) /\ bit[m] # bit[q]
          <6>1. bit[m] > bit[q] /\ BitOf(bit[m], key) = BitOf(bit[m], keys[near])
            BY <1>2, <1>10, <5>3
          <6>2. near \in under[c] /\ bit[q] <= bit[c]
            BY <1>2, <1>6, <1>10, <3>2, <4>1, <5>3, <6>1
          <6> QED BY <6>2
        <5> QED BY <4>1, <5>1, <5>2, <5>3
      <4>4. kid[BitOf(bit[c], key)][c] \in 1 .. N
        BY <1>2, <1>3
      <4> QED BY <4>3, <4>4
    <3>3. way \in SUBSET ((1 .. N) \X (1 .. N))
      OBVIOUS
    <3> HIDE DEF way
    <3> QED BY <3>1, <3>2, <3>3 DEF IsWay, N, bit, kid
  <2> HIDE DEF way
  <2>2. r \in way /\ r[1] \in 1 .. N /\ r[2] \in 1 .. N
            /\ ~ (bit[r[1]] > bit[r[2]] /\ bit[r[2]] > -1)
    BY <1>1, <2>1, SearchEnds
  <2>3. r[2] = near
    BY DEF Nearest
  <2> HIDE DEF r, N, bit, kid, keys, near
  <2>4. ~ bit[near] < bit[r[1]] /\ near = kid[BitOf(bit[r[1]], key)][r[1]]
            /\ (Before(r[1]) \/ After(r[1]))
    BY <1>2, <2>2, <2>3 DEF way
  <2>5. near \in under[r[1]] /\ BitOf(bit[r[1]], keys[near]) = BitOf(bit[r[1]], key)
    BY <1>7, <2>2, <2>4
  <2>6. CASE After(r[1])
    BY <2>5, <2>6
  <2>7. CASE Before(r[1])
    <3>1. bit[r[1]] <= bit[q]
      BY <1>6, <1>10, <2>2, <2>4, <2>5
    <3>2. bit[r[1]] = bit[q]
      BY <1>2, <1>10, <2>2, <2>7, <3>1
    <3> QED BY <2>5, <3>2
  <2> QED BY <2>4, <2>6, <2>7
<1> QED
  BY <1>9, <1>10
----------------------------------------------------------------------------
(***************************************************************************)
(* What is added.                                                          *)
(***************************************************************************)
\* Different keys differ in a highest bit.
LEMMA DifferenceIsHighest ==
  ASSUME NEW top, top \in Nat, NEW a, NEW b, FitsIn(a, top), FitsIn(b, top), a # b
  PROVE  /\ HighestDifference(a, b) \in Nat /\ HighestDifference(a, b) < top
         /\ BitOf(HighestDifference(a, b), a) # BitOf(HighestDifference(a, b), b)
         /\ \A x \in Nat : x > HighestDifference(a, b) => BitOf(x, a) = BitOf(x, b)
<1> DEFINE D == (a \ b) \cup (b \ a)
           U == {x + 1 : x \in D}
           d == HighestDifference(a, b)
<1>1. D # {} /\ \A x \in D : x \in Nat /\ x < top /\ x + 1 \in 1 .. top
  BY DEF FitsIn
<1>2. \E m \in D : \A x \in D : m >= x
  <2> HIDE DEF D
  <2>1. U \in SUBSET (1 .. top) /\ U # {}
    BY <1>1
  <2>2. PICK u \in U : \A k \in U : k <= u
    <3> HIDE DEF U
    <3> QED BY <2>1, GreatestNumber
  <2>3. PICK m \in D : u = m + 1
    BY <2>2
  <2>4. \A x \in D : m >= x
    <3> TAKE x \in D
    <3>1. x + 1 <= m + 1
      BY <2>2, <2>3
    <3> QED BY <1>1, <3>1
  <2> QED BY <2>4
<1>3. d = CHOOSE m \in D : \A x \in D : m >= x
  BY DEF HighestDifference, Max
<1>4. d \in D /\ \A x \in D : d >= x
  <2> HIDE DEF D, d
  <2> QED BY <1>2, <1>3
<1> HIDE DEF d
<1>5. \A x \in Nat : x > d => x \notin D
  BY <1>1, <1>4
<1>6. BitOf(d, a) # BitOf(d, b)
  BY <1>4 DEF BitOf
<1>7. \A x \in Nat : x \notin D => BitOf(x, a) = BitOf(x, b)
  BY DEF BitOf
<1> HIDE DEF D
<1> QED
  BY <1>1, <1>4, <1>5, <1>6, <1>7 DEF d

\* A new key has its place on the way to the nearest.
LEMMA PlaceIsBetween ==
  ASSUME NEW nodes \in Seq(Node), NEW under, IsPatricia(nodes, under),
         NEW key, FitsIn(key, BitNums(nodes)[1]),
         NEW near, near = Nearest(nodes, key), Keys(nodes)[near] # key,
         NEW depth, depth = HighestDifference(key, Keys(nodes)[near]),
         NEW place, place = Place(nodes, key, depth)
  PROVE  Between(Len(nodes), BitNums(nodes), Keys(nodes), Kids(nodes), under,
                 key, depth, near, place[1], place[2])
<1> DEFINE N == Len(nodes)
           bit == BitNums(nodes)
           keys == Keys(nodes)
           kid == Kids(nodes)
           Step(e) == e[2] = kid[BitOf(bit[e[1]], key)][e[1]]
           way == {e \in (1 .. N) \X (1 .. N) : Step(e) /\ depth < bit[e[1]]
                     /\ near \in under[e[1]]}
<1>1. IsWired(nodes)
  BY PatriciaIsWired
<1>2. /\ 1 \in 1 .. N /\ bit[1] \in Nat
      /\ \A m \in 1 .. N : bit[m] \in Nat /\ \A a \in {0, 1} : kid[a][m] \in 1 .. N
  BY <1>1, NodesAre
<1>3. \A b, y : BitOf(b, y) \in {0, 1}
  BY DEF BitOf
<1>4. /\ under[1] = 1 .. N /\ \A m \in 1 .. N : under[m] \in SUBSET (1 .. N)
      /\ \A m \in 1 .. N : FitsIn(keys[m], bit[1])
  BY DEF IsPatricia, Patricia, Wired, FitsIn
<1>5. BitOf(bit[1], key) = 0
  BY <1>2 DEF FitsIn, BitOf
<1>6. \A m \in 1 .. N : \A x \in under[m] :
        LET c == kid[BitOf(bit[m], keys[x])][m]
        IN  IF bit[c] < bit[m]
              THEN x \in under[c]
              ELSE c = x
  BY DEF IsPatricia, Patricia, Leads
<1>7. /\ near \in 1 .. N
      /\ \A q \in 1 .. N :
           /\ near \in under[q]
           /\ \A b \in Nat : b > bit[q] => BitOf(b, key) = BitOf(b, keys[near])
           => BitOf(bit[q], key) = BitOf(bit[q], keys[near])
  BY NearestAgrees
<1>8. /\ depth \in Nat /\ depth < bit[1] /\ BitOf(depth, key) # BitOf(depth, keys[near])
      /\ \A b \in Nat : b > depth => BitOf(b, key) = BitOf(b, keys[near])
  <2> HIDE DEF bit, keys
  <2> QED BY <1>2, <1>4, <1>7, DifferenceIsHighest DEF bit, keys
<1> HIDE DEF N, bit, keys, kid
<1>9. ASSUME NEW m \in 1 .. N, NEW c, c = kid[BitOf(bit[m], key)][m], depth < bit[m],
          near \in under[m]
      PROVE  c \in 1 .. N /\ IF bit[c] < bit[m] THEN near \in under[c] ELSE c = near
  <2>1. BitOf(bit[m], key) = BitOf(bit[m], keys[near])
    BY <1>2, <1>8, <1>9
  <2> QED BY <1>2, <1>3, <1>6, <1>9, <2>1
<1>10. IsWay(nodes, key, depth, way)
  <2>1. <<1, kid[0][1]>> \in way
    BY <1>2, <1>4, <1>5, <1>7, <1>8
  <2>2. ASSUME NEW m \in 1 .. N, NEW c \in 1 .. N, <<m, c>> \in way, bit[m] > bit[c], bit[c] > depth
        PROVE  <<c, kid[BitOf(bit[c], key)][c]>> \in way
    <3>1. c = kid[BitOf(bit[m], key)][m] /\ near \in under[m] /\ depth < bit[m]
      BY <2>2
    <3>2. near \in under[c]
      BY <1>2, <1>9, <2>2, <3>1
    <3>3. kid[BitOf(bit[c], key)][c] \in 1 .. N
      BY <1>2, <1>3
    <3> QED BY <1>2, <1>8, <2>2, <3>2, <3>3
  <2>3. way \in SUBSET ((1 .. N) \X (1 .. N))
    OBVIOUS
  <2> HIDE DEF way
  <2> QED BY <2>1, <2>2, <2>3 DEF IsWay, N, bit, kid
<1> HIDE DEF way
<1>11. /\ place \in way /\ place[1] \in 1 .. N /\ place[2] \in 1 .. N
       /\ ~ (bit[place[1]] > bit[place[2]] /\ bit[place[2]] > depth)
  <2>1. depth \in Int
    BY <1>8
  <2> QED BY <1>1, <1>10, <2>1, SearchEnds DEF Place, N, bit
<1>12. /\ place[2] = kid[BitOf(bit[place[1]], key)][place[1]]
       /\ depth < bit[place[1]] /\ near \in under[place[1]]
  BY <1>11 DEF way
<1>13. IF bit[place[2]] < bit[place[1]] THEN near \in under[place[2]] ELSE place[2] = near
  BY <1>9, <1>11, <1>12
<1>14. bit[place[2]] < bit[place[1]] => bit[place[2]] < depth
  <2>1. bit[place[2]] = depth => ~ near \in under[place[2]]
    BY <1>7, <1>8, <1>11
  <2> QED BY <1>2, <1>8, <1>11, <1>13, <2>1
<1>15. key \in SUBSET Nat /\ \A b \in key : b < bit[1]
  BY DEF FitsIn, bit
<1> HIDE DEF Step
<1>16. Between(N, bit, keys, kid, under, key, depth, near, place[1], place[2])
  BY <1>7, <1>8, <1>11, <1>12, <1>13, <1>14, <1>15 DEF Between
<1> QED
  BY <1>16 DEF N, bit, keys, kid

\* A trie whose root tests a bit, and the empty one.
IsTrie(t, top) ==
  /\ t \in [nodes : Seq(Node), count : Nat] /\ t.count + 1 = Len(t.nodes)
  /\ BitNums(t.nodes)[1] = top /\ Keys(t.nodes)[1] = {} /\ t.nodes[1].buckets = NoEntry
  /\ \E under : IsPatricia(t.nodes, under)

\* What it holds of each key.
Holds(t, key) == \E m \in 1 .. Len(t.nodes) : Keys(t.nodes)[m] = key

\* What get finds.
LEMMA TrieHolds ==
  ASSUME NEW t, NEW top, top \in Nat, IsTrie(t, top), NEW key, FitsIn(key, top)
  PROVE  /\ \A m \in 1 .. Len(t.nodes) : Keys(t.nodes)[m] = key => get(t, key) = t.nodes[m].buckets
         /\ ~ Holds(t, key) => get(t, key) = NoEntry
         /\ Nearest(t.nodes, key) \in 1 .. Len(t.nodes)
         /\ Holds(t, key) <=> t.nodes[Nearest(t.nodes, key)].key = key
<1>1. PICK under : IsPatricia(t.nodes, under)
  BY DEF IsTrie
<1>2. t.nodes \in Seq(Node) /\ BitNums(t.nodes)[1] = top /\ t.count \in Nat
  BY DEF IsTrie
<1>3. Nearest(t.nodes, key) \in 1 .. Len(t.nodes)
  BY <1>1, <1>2, NearestAgrees
<1>4. \A m \in 1 .. Len(t.nodes) : t.nodes[m].key = Keys(t.nodes)[m]
  BY <1>1, <1>2, PatriciaIsWired, NodesAre
<1>5. \A m \in 1 .. Len(t.nodes) : Keys(t.nodes)[m] = key => Nearest(t.nodes, key) = m
  BY <1>1, <1>2, KeyIsFound
<1>6. ASSUME NEW m \in 1 .. Len(t.nodes), Keys(t.nodes)[m] = key
      PROVE get(t, key) = t.nodes[m].buckets
  <2>1. Nearest(t.nodes, key) = m /\ t.nodes[m].key = key
    BY <1>4, <1>5, <1>6
  <2>2. ~ t.count > 0 => t.nodes[m].buckets = NoEntry
    <3>1. ~ t.count > 0 => m = 1
      BY <1>2, <1>6 DEF IsTrie
    <3> QED BY <3>1 DEF IsTrie
  <2> QED BY <2>1, <2>2 DEF get
<1>7. ~ Holds(t, key) => get(t, key) = NoEntry
  BY <1>3, <1>4 DEF Holds, get
<1> QED
  BY <1>3, <1>4, <1>5, <1>6, <1>7 DEF Holds

\* Nothing is in a new one.
LEMMA NewTrieHolds ==
  ASSUME NEW top, top \in Nat
  PROVE  IsTrie(NewTrie(top), top) /\ \A key : get(NewTrie(top), key) = NoEntry
<1> DEFINE node == [bitNum |-> top, key |-> {}, buckets |-> NoEntry, leftN |-> 1, rightN |-> 1]
           nodes == <<node>>
           under == [m \in 1 .. 1 |-> 1 .. 1]
<1>1. NewTrie(top) = [nodes |-> nodes, count |-> 0]
  BY DEF NewTrie, rootNode
<1>2. node \in Node /\ nodes \in Seq(Node) /\ Len(nodes) = 1 /\ nodes[1] = node
  BY DEF Node, NoEntry
<1>3. /\ \A m \in 1 .. 1 : BitNums(nodes)[m] = top /\ Keys(nodes)[m] = {}
      /\ \A m \in 1 .. 1 : \A s \in {0, 1} : Kids(nodes)[s][m] = 1
      /\ BitNums(nodes) = [m \in 1 .. 1 |-> top] /\ Keys(nodes) = [m \in 1 .. 1 |-> {}]
      /\ Kids(nodes) = [s \in {0, 1} |-> [m \in 1 .. 1 |-> 1]]
  BY <1>2 DEF BitNums, Keys, Kids
<1>4. 1 \in 1 .. 1 /\ \A m \in 1 .. 1 : m = 1
  OBVIOUS
<1> HIDE DEF nodes
<1>5. Wired(1, BitNums(nodes), Keys(nodes), Kids(nodes))
  BY <1>3, <1>4 DEF Wired
<1>6. /\ under \in [1 .. 1 -> SUBSET (1 .. 1)] /\ \A m \in 1 .. 1 : under[m] = {1}
      /\ under[1] = 1 .. 1
  OBVIOUS
<1> HIDE DEF under
<1>7. \A s : BitOf(s, {}) = 0
  BY DEF BitOf
<1>8. Leads(1, BitNums(nodes), Keys(nodes), Kids(nodes), under)
  BY <1>3, <1>4, <1>6, <1>7 DEF Leads
<1>9. Once(1, BitNums(nodes), under) /\ Alike(1, BitNums(nodes), Keys(nodes), under)
  BY <1>3, <1>4, <1>6, <1>7 DEF Once, Alike
<1>10. Gathers(1, BitNums(nodes), Keys(nodes), Kids(nodes), under)
  BY <1>3, <1>4, <1>6, <1>7 DEF Gathers
<1>11. IsPatricia(nodes, under)
  BY <1>2, <1>5, <1>6, <1>8, <1>9, <1>10 DEF IsPatricia, Patricia
<1>12. IsTrie(NewTrie(top), top)
  BY <1>1, <1>2, <1>3, <1>11 DEF IsTrie
<1>13. \A key : get(NewTrie(top), key) = NoEntry
  BY <1>1 DEF get
<1> QED
  BY <1>12, <1>13

\* A node's child is replaced.
LeftTo(nodes, p, n) == [nodes EXCEPT ![p].leftN = n]

RightTo(nodes, p, n) == [nodes EXCEPT ![p].rightN = n]

HasLeft(linked, nodes, p, n) ==
  /\ linked \in Seq(Node) /\ Len(linked) = Len(nodes)
  /\ \A m \in 1 .. Len(nodes) :
       /\ linked[m].bitNum = nodes[m].bitNum /\ linked[m].key = nodes[m].key
       /\ linked[m].buckets = nodes[m].buckets /\ linked[m].rightN = nodes[m].rightN
       /\ linked[m].leftN = IF m = p THEN n ELSE nodes[m].leftN

LEMMA LinkedLeft ==
  ASSUME NEW nodes, nodes \in Seq(Node), NEW p, p \in 1 .. Len(nodes), NEW n, n \in Nat
  PROVE  HasLeft(LeftTo(nodes, p, n), nodes, p, n)
<1> DEFINE linked == LeftTo(nodes, p, n)
<1>1. nodes[p] \in Node
  OBVIOUS
<1>2. PICK x : x = [nodes[p] EXCEPT !.leftN = n]
  OBVIOUS
<1>3. /\ x \in Node /\ x.bitNum = nodes[p].bitNum /\ x.key = nodes[p].key
      /\ x.buckets = nodes[p].buckets /\ x.leftN = n /\ x.rightN = nodes[p].rightN
  BY <1>1, <1>2 DEF Node
<1>4. linked = [nodes EXCEPT ![p] = x]
  BY <1>2 DEF LeftTo
<1>5. /\ linked \in Seq(Node) /\ Len(linked) = Len(nodes)
      /\ \A m \in 1 .. Len(nodes) : linked[m] = IF m = p THEN x ELSE nodes[m]
  BY <1>3, <1>4, ExceptSeq
<1> QED
  BY <1>3, <1>5 DEF HasLeft

HasRight(linked, nodes, p, n) ==
  /\ linked \in Seq(Node) /\ Len(linked) = Len(nodes)
  /\ \A m \in 1 .. Len(nodes) :
       /\ linked[m].bitNum = nodes[m].bitNum /\ linked[m].key = nodes[m].key
       /\ linked[m].buckets = nodes[m].buckets /\ linked[m].leftN = nodes[m].leftN
       /\ linked[m].rightN = IF m = p THEN n ELSE nodes[m].rightN

LEMMA LinkedRight ==
  ASSUME NEW nodes, nodes \in Seq(Node), NEW p, p \in 1 .. Len(nodes), NEW n, n \in Nat
  PROVE  HasRight(RightTo(nodes, p, n), nodes, p, n)
<1> DEFINE linked == RightTo(nodes, p, n)
<1>1. nodes[p] \in Node
  OBVIOUS
<1>2. PICK x : x = [nodes[p] EXCEPT !.rightN = n]
  OBVIOUS
<1>3. /\ x \in Node /\ x.bitNum = nodes[p].bitNum /\ x.key = nodes[p].key
      /\ x.buckets = nodes[p].buckets /\ x.rightN = n /\ x.leftN = nodes[p].leftN
  BY <1>1, <1>2 DEF Node
<1>4. linked = [nodes EXCEPT ![p] = x]
  BY <1>2 DEF RightTo
<1>5. /\ linked \in Seq(Node) /\ Len(linked) = Len(nodes)
      /\ \A m \in 1 .. Len(nodes) : linked[m] = IF m = p THEN x ELSE nodes[m]
  BY <1>3, <1>4, ExceptSeq
<1> QED
  BY <1>3, <1>5 DEF HasRight

\* A key that is not there is added with its datum, and all else stays.
LEMMA AddHolds ==
  ASSUME NEW t, NEW top, top \in Nat, IsTrie(t, top),
         NEW key, FitsIn(key, top), NEW data \in Int
  PROVE  /\ IsTrie(addEntry(t, key, data), top)
         /\ Holds(t, key) => addEntry(t, key, data) = t
         /\ ~ Holds(t, key) => get(addEntry(t, key, data), key) = data
         /\ \A k : FitsIn(k, top) /\ k # key => get(addEntry(t, key, data), k) = get(t, k)
<1> DEFINE nodes == t.nodes
           N == Len(nodes)
           near == Nearest(nodes, key)
           depth == HighestDifference(key, nodes[near].key)
           place == Place(nodes, key, depth)
           p == place[1]
           c == place[2]
           node == [bitNum |-> depth, key |-> key, buckets |-> data,
                    leftN  |-> IF depth \in key THEN c ELSE N + 1,
                    rightN |-> IF depth \in key THEN N + 1 ELSE c]
           linked == IF nodes[p].bitNum \in key THEN [nodes EXCEPT ![p].rightN = N + 1]
                                                ELSE [nodes EXCEPT ![p].leftN = N + 1]
           after == Append(linked, node)
<1>1. PICK under : IsPatricia(nodes, under)
  BY DEF IsTrie
<1>2. nodes \in Seq(Node) /\ BitNums(nodes)[1] = top /\ t.count \in Nat /\ t.count + 1 = N
  BY DEF IsTrie
<1>3. IsWired(nodes)
  BY <1>1, <1>2, PatriciaIsWired
<1>4. /\ near \in 1 .. N /\ (Holds(t, key) <=> nodes[near].key = key)
  BY TrieHolds
<1>5. addEntry(t, key, data) = IF nodes[near].key = key THEN t
          ELSE [nodes |-> after, count |-> t.count + 1]
  BY DEF addEntry
<1>6. CASE Holds(t, key)
  <2>1. addEntry(t, key, data) = t
    BY <1>4, <1>5, <1>6
  <2> QED BY <1>6, <2>1
<1>7. CASE ~ Holds(t, key)
  <2> DEFINE bit == BitNums(nodes)
             keys == Keys(nodes)
             kid == Kids(nodes)
  <2>1. addEntry(t, key, data) = [nodes |-> after, count |-> t.count + 1]
    BY <1>4, <1>5, <1>7
  <2>2. keys[near] = nodes[near].key /\ keys[near] # key
    BY <1>3, <1>4, <1>7, NodesAre
  <2>3. Between(N, bit, keys, kid, under, key, depth, near, p, c)
    <3> HIDE DEF nodes, near, depth, place
    <3>1. depth = HighestDifference(key, keys[near]) /\ near = Nearest(nodes, key)
      BY <2>2 DEF depth, near
    <3>2. place = Place(nodes, key, depth)
      BY DEF place
    <3> QED BY <1>1, <1>2, <2>2, <3>1, <3>2, PlaceIsBetween
  <2>4. Patricia(N + 1, Bit1(N, bit, depth), Key1(N, keys, key),
                 Kid1(N, bit, kid, key, depth, p, c),
                 Under1(N, bit, keys, under, key, depth, near, p))
    <3> HIDE DEF nodes, near, depth, place
    <3> QED BY <1>1, <2>3, Inserted DEF IsPatricia
  <2>5. /\ N \in Nat /\ 1 \in 1 .. N /\ DOMAIN nodes = 1 .. N
        /\ \A m \in 1 .. N :
             /\ nodes[m] \in Node
             /\ nodes[m].bitNum = bit[m] /\ nodes[m].key = keys[m]
             /\ nodes[m].leftN = kid[0][m] /\ nodes[m].rightN = kid[1][m]
             /\ \A a \in {0, 1} : kid[a][m] \in 1 .. N
    BY <1>3, NodesAre
  <2>6. p \in 1 .. N /\ depth \in Nat /\ c \in 1 .. N /\ BitOf(bit[p], key) \in {0, 1}
    <3> HIDE DEF nodes, near, depth, place
    <3>1. BitOf(bit[p], key) \in {0, 1}
      BY DEF BitOf
    <3> QED BY <2>3, <2>5, <3>1 DEF Between
  <2> HIDE DEF nodes, N, near, depth, place, bit, keys, kid
  <2>7. /\ linked \in Seq(Node) /\ Len(linked) = N
        /\ \A m \in 1 .. N :
             /\ linked[m].bitNum = bit[m] /\ linked[m].key = keys[m]
             /\ linked[m].buckets = nodes[m].buckets
             /\ linked[m].leftN = IF m = p /\ BitOf(bit[p], key) = 0 THEN N + 1 ELSE kid[0][m]
             /\ linked[m].rightN = IF m = p /\ BitOf(bit[p], key) = 1 THEN N + 1 ELSE kid[1][m]
    <3>1. N + 1 \in Nat
      BY <2>5
    <3>2. nodes \in Seq(Node) /\ N = Len(nodes) /\ p \in 1 .. Len(nodes)
      BY <1>2, <2>6 DEF N
    <3>3. CASE bit[p] \in key
      <4>1. linked = RightTo(nodes, p, N + 1) /\ BitOf(bit[p], key) = 1
        BY <2>5, <2>6, <3>3 DEF BitOf, RightTo
      <4> HIDE DEF p, linked
      <4>2. /\ linked \in Seq(Node) /\ Len(linked) = Len(nodes)
            /\ \A m \in 1 .. Len(nodes) :
                 /\ linked[m].bitNum = nodes[m].bitNum /\ linked[m].key = nodes[m].key
                 /\ linked[m].buckets = nodes[m].buckets
                 /\ linked[m].leftN = nodes[m].leftN
                 /\ linked[m].rightN = IF m = p THEN N + 1 ELSE nodes[m].rightN
        <5>1. HasRight(RightTo(nodes, p, N + 1), nodes, p, N + 1)
          BY <3>1, <3>2, LinkedRight
        <5>2. HasRight(linked, nodes, p, N + 1)
          BY <4>1, <5>1
        <5> QED BY <5>2 DEF HasRight
      <4> QED BY <2>5, <3>2, <4>1, <4>2
    <3>4. CASE bit[p] \notin key
      <4>1. linked = LeftTo(nodes, p, N + 1) /\ BitOf(bit[p], key) = 0
        BY <2>5, <2>6, <3>4 DEF BitOf, LeftTo
      <4> HIDE DEF p, linked
      <4>2. /\ linked \in Seq(Node) /\ Len(linked) = Len(nodes)
            /\ \A m \in 1 .. Len(nodes) :
                 /\ linked[m].bitNum = nodes[m].bitNum /\ linked[m].key = nodes[m].key
                 /\ linked[m].buckets = nodes[m].buckets
                 /\ linked[m].leftN = IF m = p THEN N + 1 ELSE nodes[m].leftN
                 /\ linked[m].rightN = nodes[m].rightN
        <5>1. HasLeft(LeftTo(nodes, p, N + 1), nodes, p, N + 1)
          BY <3>1, <3>2, LinkedLeft
        <5>2. HasLeft(linked, nodes, p, N + 1)
          BY <4>1, <5>1
        <5> QED BY <5>2 DEF HasLeft
      <4> QED BY <2>5, <3>2, <4>1, <4>2
    <3> QED BY <3>3, <3>4
  <2>8. node \in Node
    <3>1. N + 1 \in Nat /\ c \in Nat /\ depth \in Nat /\ key \in SUBSET Nat /\ data \in Int
      BY <2>5, <2>6 DEF FitsIn
    <3> QED BY <3>1 DEF Node
  <2> HIDE DEF linked, node
  <2>9. /\ after \in Seq(Node) /\ Len(after) = N + 1 /\ after[N + 1] = node
        /\ \A m \in 1 .. N : after[m] = linked[m]
    BY <2>5, <2>7, <2>8
  <2> HIDE DEF after
  <2>10. /\ BitNums(after) = Bit1(N, bit, depth) /\ Keys(after) = Key1(N, keys, key)
    <3>1. \A m \in 1 .. N + 1 : m # N + 1 => m \in 1 .. N
      BY <2>5
    <3>2. node.bitNum = depth /\ node.key = key
      BY DEF node
    <3>3. \A m \in 1 .. N + 1 : /\ after[m].bitNum = IF m = N + 1 THEN depth ELSE bit[m]
                                /\ after[m].key = IF m = N + 1 THEN key ELSE keys[m]
      BY <2>7, <2>9, <3>1, <3>2
    <3> QED BY <2>9, <3>3 DEF BitNums, Keys, Bit1, Key1
  <2>11. Kids(after) = Kid1(N, bit, kid, key, depth, p, c)
    <3>1. \A m \in 1 .. N + 1 : m # N + 1 => m \in 1 .. N
      BY <2>5
    <3>2. node.leftN = (IF BitOf(depth, key) = 0 THEN N + 1 ELSE c)
          /\ node.rightN = (IF BitOf(depth, key) = 1 THEN N + 1 ELSE c)
      BY DEF node, BitOf
    <3>3. ASSUME NEW s \in {0, 1}, NEW m \in 1 .. N + 1
          PROVE  (IF s = 1 THEN after[m].rightN ELSE after[m].leftN) =
                 (IF m = N + 1 THEN (IF s = BitOf(depth, key) THEN N + 1 ELSE c)
                  ELSE IF m = p /\ s = BitOf(bit[p], key) THEN N + 1
                  ELSE kid[s][m])
      <4>1. CASE m = N + 1
        BY <2>9, <3>2, <4>1
      <4>2. CASE m # N + 1
        BY <2>7, <2>9, <3>1, <4>2
      <4> QED BY <4>1, <4>2
    <3> QED BY <2>9, <3>3 DEF Kids, Kid1
  <2> DEFINE u == Under1(N, bit, keys, under, key, depth, near, p)
  <2>12. IsPatricia(after, u)
    BY <2>4, <2>9, <2>10, <2>11 DEF IsPatricia
  <2> HIDE DEF u
  <2>13. \A m \in 1 .. N : m # N + 1 /\ m \in 1 .. N + 1
    BY <2>5
  <2>14. /\ \A m \in 1 .. N : Keys(after)[m] = keys[m] /\ BitNums(after)[m] = bit[m]
         /\ Keys(after)[N + 1] = key
    <3>1. N + 1 \in 1 .. N + 1
      BY <2>5
    <3> QED BY <2>10, <2>13, <3>1 DEF Bit1, Key1
  <2> DEFINE t1 == addEntry(t, key, data)
  <2>15. t1 = [nodes |-> after, count |-> t.count + 1] /\ t1.nodes = after /\ t1.count = t.count + 1
    BY <2>1
  <2> HIDE DEF t1
  <2>16. IsTrie(t1, top)
    <3>1. keys[1] = {} /\ nodes[1].buckets = NoEntry /\ bit[1] = top
      BY DEF IsTrie, keys, nodes, bit
    <3>2. t1 \in [nodes : Seq(Node), count : Nat]
      BY <1>2, <2>9, <2>15
    <3>3. t1.count + 1 = Len(t1.nodes)
      BY <1>2, <2>9, <2>15
    <3>4. after[1].buckets = NoEntry
      BY <2>5, <2>7, <2>9, <3>1
    <3> QED BY <2>5, <2>12, <2>14, <2>15, <3>1, <3>2, <3>3, <3>4 DEF IsTrie
  <2>17. get(t1, key) = data
    <3>1. N + 1 \in 1 .. Len(t1.nodes) /\ Keys(t1.nodes)[N + 1] = key
              /\ t1.nodes[N + 1].buckets = data
      BY <2>5, <2>9, <2>14, <2>15 DEF node
    <3> QED BY <2>16, <3>1, TrieHolds
  <2>18. ASSUME NEW k, FitsIn(k, top), k # key PROVE get(t1, k) = get(t, k)
    <3>1. CASE Holds(t, k)
      <4>1. PICK m \in 1 .. N : keys[m] = k
        BY <3>1 DEF Holds, N, nodes, keys
      <4>2. get(t, k) = nodes[m].buckets
        BY <2>18, <4>1, TrieHolds DEF N, nodes, keys
      <4>3. m \in 1 .. Len(t1.nodes) /\ Keys(t1.nodes)[m] = k
                /\ t1.nodes[m].buckets = nodes[m].buckets
        BY <2>7, <2>9, <2>13, <2>14, <2>15, <4>1
      <4>4. get(t1, k) = nodes[m].buckets
        BY <2>16, <2>18, <4>3, TrieHolds
      <4> QED BY <4>2, <4>4
    <3>2. CASE ~ Holds(t, k)
      <4>1. get(t, k) = NoEntry
        BY <2>18, <3>2, TrieHolds
      <4>2. ~ Holds(t1, k)
        <5> SUFFICES ASSUME NEW m \in 1 .. N + 1, Keys(after)[m] = k PROVE FALSE
          BY <2>9, <2>15 DEF Holds
        <5>1. m # N + 1
          BY <2>14, <2>18
        <5>2. m \in 1 .. N
          BY <2>5, <5>1
        <5>3. keys[m] = k
          BY <2>14, <5>2
        <5> QED BY <3>2, <5>2, <5>3 DEF Holds, N, nodes, keys
      <4>3. get(t1, k) = NoEntry
        BY <2>16, <2>18, <4>2, TrieHolds
      <4> QED BY <4>1, <4>3
    <3> QED BY <3>1, <3>2
  <2> QED BY <1>7, <2>16, <2>17, <2>18 DEF t1
<1> QED
  BY <1>6, <1>7
----------------------------------------------------------------------------
(***************************************************************************)
(* Deleting tries.                                                         *)
(***************************************************************************)
\* Each node but the root is owned by one node, and what is under a node comes to it.
LEMMA OneOwner ==
  ASSUME NEW nodes \in Seq(Node), NEW under, IsPatricia(nodes, under)
  PROVE  /\ \A m, n \in 1 .. Len(nodes) :
              n \in Owned(nodes, m) =>
                BitNums(nodes)[n] < BitNums(nodes)[m] /\ \A x \in under[n] : x \in under[m]
                /\ \A q \in 1 .. Len(nodes) : x \in under[q]
                          /\ BitNums(nodes)[q] < BitNums(nodes)[m]
                                                => BitNums(nodes)[q] <= BitNums(nodes)[n]
         /\ \A m : 1 \notin Owned(nodes, m) \/ m \notin 1 .. Len(nodes)
         /\ \A n \in 2 .. Len(nodes) : \E m \in 1 .. Len(nodes) :
              \A k \in 1 .. Len(nodes) : n \in Owned(nodes, k) <=> k = m
<1> DEFINE N == Len(nodes)
           bit == BitNums(nodes)
           keys == Keys(nodes)
           kid == Kids(nodes)
<1>1. IsWired(nodes)
  BY PatriciaIsWired
<1>2. /\ N \in Nat /\ 1 \in 1 .. N
      /\ \A m \in 1 .. N : bit[m] \in Nat /\ \A a \in {0, 1} : kid[a][m] \in 1 .. N
      /\ \A m \in 1 .. N : nodes[m].bitNum = bit[m]
                           /\ nodes[m].leftN = kid[0][m] /\ nodes[m].rightN = kid[1][m]
  BY <1>1, NodesAre
<1>3. \A b, y : BitOf(b, y) \in {0, 1}
  BY DEF BitOf
<1>4. /\ under[1] = 1 .. N /\ \A m \in 1 .. N : under[m] \in SUBSET (1 .. N) /\ m \in under[m]
      /\ \A m \in 1 .. N : m # 1 => bit[m] < bit[1]
      /\ kid[1][1] = 1
  BY DEF IsPatricia, Patricia, Wired
<1>5. \A m \in 1 .. N : \A x \in under[m] :
        LET c == kid[BitOf(bit[m], keys[x])][m]
        IN  IF bit[c] < bit[m]
              THEN x \in under[c] /\ \A q \in 1 .. N : x \in under[q] /\ bit[q] < bit[m]
                        => bit[q] <= bit[c]
              ELSE c = x /\ \A q \in 1 .. N : x \in under[q] => bit[m] <= bit[q]
  BY DEF IsPatricia, Patricia, Leads
<1>6. \A m \in 1 .. N : \A s \in {0, 1} : (m = 1 => s = 0) =>
        LET c == kid[s][m]
        IN  IF bit[c] < bit[m]
              THEN \A x \in under[c] : x \in under[m] /\ BitOf(bit[m], keys[x]) = s
              ELSE c \in under[m] /\ BitOf(bit[m], keys[c]) = s
  BY DEF IsPatricia, Patricia, Gathers
<1>7. \A q, m \in 1 .. N : \A x \in under[q] : x \in under[m] /\ bit[q] = bit[m] => q = m
  BY DEF IsPatricia, Patricia, Once
<1> HIDE DEF N, bit, keys, kid
<1>8. \A m, n \in 1 .. N : n \in Owned(nodes, m) <=> bit[n] < bit[m]
          /\ \E s \in {0, 1} : kid[s][m] = n
  BY <1>2 DEF Owned
<1>9. ASSUME NEW m \in 1 .. N, NEW n \in 1 .. N, n \in Owned(nodes, m)
      PROVE  /\ bit[n] < bit[m]
             /\ \A x \in under[n] : /\ x \in under[m]
                                    /\ \A q \in 1 .. N : x \in under[q] /\ bit[q] < bit[m]
                                              => bit[q] <= bit[n]
  <2>1. PICK s \in {0, 1} : kid[s][m] = n
    BY <1>8, <1>9
  <2>2. bit[n] < bit[m]
    BY <1>8, <1>9
  <2>3. m = 1 => s = 0
    BY <1>2, <1>4, <2>1, <2>2
  <2>4. \A x \in under[n] : x \in under[m] /\ kid[BitOf(bit[m], keys[x])][m] = n
    BY <1>6, <2>1, <2>2, <2>3
  <2> QED BY <1>5, <2>2, <2>4
<1>10. \A m \in 1 .. N : 1 \notin Owned(nodes, m)
  BY <1>2, <1>4, <1>8
<1>11. ASSUME NEW n \in 2 .. N
       PROVE  \E m \in 1 .. N : \A k \in 1 .. N : n \in Owned(nodes, k) <=> k = m
  <2>1. n \in 1 .. N /\ n # 1 /\ n \in under[n] /\ n \in under[1] /\ bit[n] < bit[1]
    BY <1>2, <1>4
  <2> DEFINE Above == {m \in 1 .. N : n \in under[m] /\ bit[n] < bit[m]}
             Tested == {bit[m] : m \in Above}
  <2>2. PICK b \in Tested : \A k \in Tested : b <= k
    <3>1. Tested \in SUBSET Nat /\ Tested # {}
      BY <1>2, <2>1
    <3> HIDE DEF Tested
    <3> QED BY <3>1, LeastNumber
  <2>3. PICK m \in Above : b = bit[m]
    BY <2>2
  <2>4. m \in 1 .. N /\ n \in under[m] /\ bit[n] < bit[m]
    BY <2>3
  <2>5. \A k \in 1 .. N : n \in under[k] /\ bit[n] < bit[k] => bit[m] <= bit[k]
    BY <2>2, <2>3
  <2> DEFINE c == kid[BitOf(bit[m], keys[n])][m]
  <2>6. c \in 1 .. N
    <3>1. BitOf(bit[m], keys[n]) \in {0, 1}
      BY <1>3
    <3> QED BY <1>2, <2>4, <3>1
  <2>7. bit[c] < bit[m] /\ n \in under[c] /\ bit[n] <= bit[c]
    BY <1>2, <1>5, <2>1, <2>4
  <2>8. c = n
    <3> HIDE DEF c
    <3>1. bit[c] = bit[n]
      <4>1. bit[c] \in Nat /\ bit[n] \in Nat /\ bit[m] \in Nat
        BY <1>2, <2>1, <2>4, <2>6
      <4>2. ~ bit[n] < bit[c]
        BY <2>5, <2>6, <2>7, <4>1
      <4> QED BY <2>7, <4>1, <4>2
    <3> QED BY <1>7, <2>1, <2>6, <2>7, <3>1
  <2>9. n \in Owned(nodes, m)
    BY <1>3, <1>8, <2>1, <2>4, <2>8
  <2>10. ASSUME NEW k \in 1 .. N, n \in Owned(nodes, k) PROVE k = m
    <3>1. n \in under[k] /\ bit[n] < bit[k] /\ (bit[m] < bit[k] => bit[m] <= bit[n])
      BY <1>9, <2>1, <2>4, <2>10
    <3>2. bit[k] = bit[m]
      BY <1>2, <2>1, <2>4, <2>5, <3>1
    <3> QED BY <1>7, <2>4, <3>1, <3>2
  <2> QED BY <2>4, <2>9, <2>10
<1> QED
  BY <1>9, <1>10, <1>11 DEF N, bit

\* What is read when a trie is deleted is there.
LEMMA TrieOwnedOnce ==
  ASSUME NEW t, NEW top, top \in Nat, IsTrie(t, top)
  PROVE  OwnedOnce(t)
<1> DEFINE nodes == t.nodes
           N == Len(nodes)
           bit == BitNums(nodes)
           kid == Kids(nodes)
           Owners(n) == {m \in 1 .. N : n \in Owned(nodes, m)}
<1>1. PICK under : IsPatricia(nodes, under)
  BY DEF IsTrie
<1>2. nodes \in Seq(Node)
  BY DEF IsTrie
<1>3. /\ N \in Nat /\ 1 \in 1 .. N /\ DOMAIN nodes = 1 .. N
      /\ \A m \in 1 .. N : bit[m] \in Nat /\ \A a \in {0, 1} : kid[a][m] \in 1 .. N
      /\ \A m \in 1 .. N : nodes[m].bitNum = bit[m]
                           /\ nodes[m].leftN = kid[0][m] /\ nodes[m].rightN = kid[1][m]
  BY <1>1, <1>2, PatriciaIsWired, NodesAre
<1>4. /\ \A m, n \in 1 .. N :
           n \in Owned(nodes, m) =>
             bit[n] < bit[m] /\ \A x \in under[n] : x \in under[m]
             /\ \A q \in 1 .. N : x \in under[q] /\ bit[q] < bit[m] => bit[q] <= bit[n]
      /\ \A m : 1 \notin Owned(nodes, m) \/ m \notin 1 .. N
      /\ \A n \in 2 .. N : \E m \in 1 .. N : \A k \in 1 .. N : n \in Owned(nodes, k) <=> k = m
  BY <1>1, <1>2, OneOwner
<1>5. /\ \A m \in 1 .. N : under[m] \in SUBSET (1 .. N) /\ m \in under[m]
      /\ \A m \in 1 .. N : m = 1 \/ bit[m] < bit[1]
      /\ kid[1][1] = 1
  BY <1>1 DEF IsPatricia, Patricia, Wired
<1>6. \A m \in 1 .. N : \A s \in {0, 1} : (m = 1 => s = 0) /\ ~ bit[kid[s][m]] < bit[m]
          => kid[s][m] \in under[m]
  BY <1>1 DEF IsPatricia, Patricia, Gathers
<1>7. \A q, m \in 1 .. N : \A x \in under[q] : x \in under[m] /\ bit[q] = bit[m] => q = m
  BY <1>1 DEF IsPatricia, Patricia, Once
<1> HIDE DEF nodes, N, bit, kid
<1>8. \A n \in 1 .. N : Cardinality(Owners(n)) = IF n = rootNode THEN 0 ELSE 1
  <2> TAKE n \in 1 .. N
  <2>1. CASE n = 1
    <3>1. Owners(n) = {}
      BY <1>4, <2>1
    <3> QED BY <2>1, <3>1, FS_EmptySet DEF rootNode
  <2>2. CASE n # 1
    <3>1. n \in 2 .. N
      BY <1>3, <2>2
    <3>2. PICK m \in 1 .. N : \A k \in 1 .. N : n \in Owned(nodes, k) <=> k = m
      BY <1>4, <3>1
    <3>3. Owners(n) = {m}
      BY <3>2
    <3> QED BY <2>2, <3>3, FS_Singleton DEF rootNode
  <2> QED BY <2>1, <2>2
\* The nodes on the way up.
<1> DEFINE U == 1 .. N
           V == SUBSET U
           value == [n \in U |-> [f \in [U -> V] |-> {n} \cup UNION {f[m] : m \in Owners(n)}]]
           rank == [n \in U |-> bit[1] - bit[n]]
           Up == CHOOSE f : f = [n \in U |-> {n} \cup UNION {f[m] : m \in Owners(n)}]
<1>9. \A n \in U : bit[1] - bit[n] \in Nat /\ bit[1] - bit[n] < bit[1] + 1
  <2> TAKE n \in U
  <2>1. bit[1] \in Nat /\ bit[n] \in Nat /\ (n = 1 \/ bit[n] < bit[1])
    BY <1>3, <1>5
  <2> QED BY <2>1
<1>10. \A n \in U : \A m \in Owners(n) : m \in U /\ bit[n] < bit[m] /\ bit[m] \in Nat
          /\ bit[n] \in Nat
                                         /\ rank[m] < rank[n]
  <2> TAKE n \in U
  <2> TAKE m \in Owners(n)
  <2>1. m \in U /\ bit[n] < bit[m] /\ bit[m] \in Nat /\ bit[n] \in Nat /\ bit[1] \in Nat
    BY <1>3, <1>4
  <2> QED BY <2>1
<1>11. Shrinks(U, V, value, rank, bit[1] + 1)
  <2>1. bit[1] + 1 \in Nat /\ rank \in [U -> Nat] /\ \A e \in U : rank[e] < bit[1] + 1
    BY <1>3, <1>9
  <2>2. value \in [U -> [[U -> V] -> V]]
    <3>1. \A n \in U : \A f \in [U -> V] : {n} \cup UNION {f[m] : m \in Owners(n)} \in V
      <4> TAKE n \in U
      <4> TAKE f \in [U -> V]
      <4>1. \A m \in Owners(n) : f[m] \in V
        OBVIOUS
      <4> HIDE DEF Owners
      <4> QED BY <4>1
    <3> HIDE DEF U, V, Owners
    <3> QED BY <3>1
  <2>3. ASSUME NEW n \in U, NEW f \in [U -> V], NEW g \in [U -> V],
               \A m \in U : rank[m] < rank[n] => f[m] = g[m]
        PROVE  value[n][f] = value[n][g]
    <3>1. \A m \in Owners(n) : f[m] = g[m]
      BY <1>10, <2>3
    <3> HIDE DEF U, V, Owners
    <3>2. {f[m] : m \in Owners(n)} = {g[m] : m \in Owners(n)}
      BY <3>1
    <3> QED BY <3>2
  <2> HIDE DEF U, V, value, rank
  <2> QED BY <2>1, <2>2, <2>3 DEF Shrinks
<1>12. \E f : f = [n \in U |-> {n} \cup UNION {f[m] : m \in Owners(n)}]
  <2>1. {} \in V
    OBVIOUS
  <2>2. PICK f : BySize(f, U, V, value)
    <3> HIDE DEF U, V, value, rank
    <3> QED BY <1>11, <2>1, SizeRecursion
  <2> HIDE DEF U, V, Owners
  <2>3. f \in [U -> V] /\ \A n \in U : f[n] = {n} \cup UNION {f[m] : m \in Owners(n)}
    BY <2>2 DEF BySize
  <2>4. f = [n \in U |-> f[n]]
    BY <2>3
  <2> QED BY <2>3, <2>4
<1>13. \A n \in U : Up[n] = {n} \cup UNION {Up[m] : m \in Owners(n)}
  <2>1. Up = [n \in U |-> {n} \cup UNION {Up[m] : m \in Owners(n)}]
    <3> HIDE DEF U, Owners
    <3> QED BY <1>12
  <2> HIDE DEF U, Owners, Up
  <2> QED BY <2>1
<1> HIDE DEF Up
\* A node whose key goes back to a node below which it is reaches it.
<1>14. ASSUME NEW c \in U PROVE \A n \in U : c \in under[n] /\ bit[n] <= bit[c] => c \in Up[n]
  <2> DEFINE Comes(n) == c \in under[n] /\ bit[n] <= bit[c] => c \in Up[n]
             G == {k \in 0 .. bit[1] : \A n \in U : bit[1] - bit[n] <= k => Comes(n)}
  <2>1. ASSUME NEW n \in U, c \in under[n], bit[n] <= bit[c], n # c,
               \A m \in Owners(n) : Comes(m)
        PROVE  c \in Up[n]
    <3>1. c \in under[c] /\ bit[c] \in Nat /\ bit[n] \in Nat
      BY <1>3, <1>5
    <3>2. bit[n] < bit[c]
      BY <1>7, <2>1, <3>1
    <3>3. n \in 2 .. N
      BY <1>3, <1>5, <3>1, <3>2
    <3>4. PICK m \in 1 .. N : n \in Owned(nodes, m)
      BY <1>4, <3>3
    <3>5. m \in Owners(n)
      BY <3>4
    <3>6. c \in under[m] /\ bit[m] \in Nat /\ (bit[c] < bit[m] => bit[c] <= bit[n])
      BY <1>3, <1>4, <2>1, <3>1, <3>4
    <3>7. bit[m] <= bit[c]
      BY <3>1, <3>2, <3>6
    <3>8. c \in Up[m]
      BY <2>1, <3>5, <3>6, <3>7
    <3> HIDE DEF Owners
    <3> QED BY <1>13, <3>5, <3>8
  <2>2. ASSUME NEW n \in U, \A m \in Owners(n) : Comes(m) PROVE Comes(n)
    <3>1. c = n => c \in Up[n]
      <4> HIDE DEF Owners
      <4> QED BY <1>13
    <3> QED BY <2>1, <2>2, <3>1
  <2> HIDE DEF Comes
  <2>3. ASSUME NEW k \in Nat, k <= bit[1], \A n \in U : bit[1] - bit[n] < k => Comes(n)
        PROVE  \A n \in U : bit[1] - bit[n] <= k => Comes(n)
    <3> TAKE n \in U
    <3> HAVE bit[1] - bit[n] <= k
    <3>1. \A m \in Owners(n) : m \in U /\ bit[1] - bit[m] < k
      <4> TAKE m \in Owners(n)
      <4>1. m \in U /\ bit[n] < bit[m] /\ bit[m] \in Nat /\ bit[n] \in Nat
        BY <1>10
      <4> QED BY <1>3, <4>1
    <3> QED BY <2>2, <2>3, <3>1
  <2>4. bit[1] \in Nat /\ \A n \in U : bit[1] - bit[n] \in Nat /\ bit[1] - bit[n] <= bit[1]
    BY <1>3, <1>9
  <2>5. 0 \in G
    <3>1. \A n \in U : ~ bit[1] - bit[n] < 0
      BY <2>4
    <3> HIDE DEF U
    <3> QED BY <2>3, <2>4, <3>1
  <2>6. ASSUME NEW k \in 1 .. bit[1], k - 1 \in G PROVE k \in G
    <3>1. \A n \in U : bit[1] - bit[n] < k => Comes(n)
      BY <2>4, <2>6
    <3> HIDE DEF U
    <3> QED BY <2>3, <2>4, <3>1
  <2>7. G \in SUBSET (0 .. bit[1])
    OBVIOUS
  <2>8. G = 0 .. bit[1]
    <3> HIDE DEF G
    <3> QED BY <2>4, <2>5, <2>6, <2>7, StepByStep
  <2>9. bit[1] \in G
    BY <2>4, <2>8
  <2> HIDE DEF U
  <2> QED BY <2>4, <2>9 DEF Comes
<1>15. \A n \in U : {nodes[n].leftN, nodes[n].rightN} \ Owned(nodes, n) \subseteq Up[n]
  <2> SUFFICES ASSUME NEW n \in U, NEW s \in {0, 1}, kid[s][n] \notin Owned(nodes, n)
               PROVE  kid[s][n] \in Up[n]
    BY <1>3
  <2> DEFINE c == kid[s][n]
  <2>1. c \in U /\ ~ bit[c] < bit[n] /\ bit[c] \in Nat /\ bit[n] \in Nat
    BY <1>3 DEF Owned
  <2>2. CASE n = 1 /\ s = 1
    <3>1. c = n
      BY <1>5, <2>2
    <3> HIDE DEF Owners
    <3> QED BY <1>13, <3>1
  <2>3. CASE n = 1 => s = 0
    <3>1. c \in under[n]
      BY <1>6, <2>1, <2>3
    <3> HIDE DEF c, U
    <3>2. c \in Up[n]
      BY <1>14, <2>1, <3>1
    <3> QED BY <3>2 DEF c
  <2> QED BY <2>2, <2>3
<1>16. Up = CHOOSE f : f = [n \in DOMAIN nodes |->
              {n} \cup UNION {f[m] : m \in {k \in DOMAIN nodes : n \in Owned(nodes, k)}}]
  BY <1>3 DEF Up
<1> QED
  BY <1>3, <1>8, <1>15, <1>16 DEF OwnedOnce, nodes
----------------------------------------------------------------------------
(***************************************************************************)
(* Keys.                                                                   *)
(***************************************************************************)
\* A number and its halves.
Halving(f, n, N) == f \in [0 .. N -> Nat] /\ f[0] = n /\ \A b \in 1 .. N : f[b] = f[b - 1] \div 2

LEMMA Half ==
  ASSUME NEW n, n \in Nat
  PROVE  /\ n \div 2 \in Nat /\ n % 2 \in {0, 1} /\ n = 2 * (n \div 2) + (n % 2)
         /\ n # 0 => n \div 2 < n
         /\ n = 0 => n \div 2 = 0
<1>1. n \div 2 \in Nat /\ n % 2 \in Nat /\ n % 2 < 2 /\ n = (n \div 2) * 2 + (n % 2)
  BY Division
<1> QED
  BY <1>1

\* The bits of a number, of as many as it has at least.
IsBits(f, n, N) == Halving(f, n, N) /\ f[N] = 0 /\ Key(n) = {b \in 0 .. N : f[b] % 2 = 1}

LEMMA KeyBits ==
  ASSUME NEW n, n \in Nat, NEW N, N \in Nat, n <= N
  PROVE  \E f : IsBits(f, n, N)
<1> DEFINE next == [k \in 1 .. N |-> [v \in Nat |-> v \div 2]]
<1>1. PICK f : Recursive(f, N, Nat, n, next)
  <2>1. next \in [1 .. N -> [Nat -> Nat]]
    <3>1. \A v \in Nat : v \div 2 \in Nat
      BY Half
    <3> QED BY <3>1
  <2> HIDE DEF next
  <2> QED BY <2>1, Recursion
<1>2. f \in [0 .. N -> Nat] /\ f[0] = n
  BY <1>1 DEF Recursive
<1>3. \A b \in 1 .. N : b - 1 \in 0 .. N /\ f[b - 1] \in Nat /\ f[b] = f[b - 1] \div 2
  <2> TAKE b \in 1 .. N
  <2>1. b - 1 \in 0 .. N
    OBVIOUS
  <2>2. f[b - 1] \in Nat
    BY <1>2, <2>1
  <2>3. f[b] = next[b][f[b - 1]]
    BY <1>1 DEF Recursive
  <2> QED BY <2>1, <2>2, <2>3
<1>4. Halving(f, n, N)
  BY <1>2, <1>3 DEF Halving
\* No number is left when as many bits are taken as it is large.
<1> DEFINE G == {b \in 0 .. N : f[b] = 0 \/ f[b] + b <= n}
<1>5. G = 0 .. N
  <2>1. 0 \in G
    BY <1>2
  <2>2. ASSUME NEW b \in 1 .. N, b - 1 \in G PROVE b \in G
    <3>1. f[b - 1] = 0 \/ f[b - 1] + (b - 1) <= n
      BY <2>2
    <3>2. f[b] = f[b - 1] \div 2 /\ f[b - 1] \in Nat
      BY <1>3
    <3>3. f[b] \in Nat /\ (f[b - 1] # 0 => f[b] < f[b - 1]) /\ (f[b - 1] = 0 => f[b] = 0)
      BY <3>2, Half
    <3>4. f[b] = 0 \/ f[b] + b <= n
      BY <3>1, <3>2, <3>3
    <3> QED BY <3>4
  <2>3. G \in SUBSET (0 .. N)
    OBVIOUS
  <2> HIDE DEF G
  <2> QED BY <2>1, <2>2, <2>3, StepByStep
<1>6. \A b \in n .. N : f[b] = 0
  <2> TAKE b \in n .. N
  <2>1. b \in G
    BY <1>5
  <2>2. f[b] \in Nat
    BY <1>2
  <2> QED BY <2>1, <2>2
<1> HIDE DEF G, next
<1> DEFINE shifted == CHOOSE g : g = [b \in 0 .. n |-> IF b = 0 THEN n ELSE g[b - 1] \div 2]
<1>7. shifted = [b \in 0 .. n |-> IF b = 0 THEN n ELSE shifted[b - 1] \div 2]
  <2> DEFINE g == [b \in 0 .. n |-> f[b]]
  <2>1. \A b \in 0 .. n : f[b] = IF b = 0 THEN n ELSE g[b - 1] \div 2
    <3> TAKE b \in 0 .. n
    <3>1. CASE b = 0
      BY <1>2, <3>1
    <3>2. CASE b # 0
      <4>1. b \in 1 .. N /\ b - 1 \in 0 .. n
        BY <3>2
      <4> QED BY <1>3, <3>2, <4>1
    <3> QED BY <3>1, <3>2
  <2>2. g = [b \in 0 .. n |-> IF b = 0 THEN n ELSE g[b - 1] \div 2]
    BY <2>1
  <2> HIDE DEF g
  <2> QED BY <2>2
<1> HIDE DEF shifted
<1> DEFINE H == {b \in 0 .. n : shifted[b] = f[b]}
<1>8. H = 0 .. n
  <2>1. 0 \in H
    BY <1>2, <1>7
  <2>2. ASSUME NEW b \in 1 .. n, b - 1 \in H PROVE b \in H
    <3>1. b \in 1 .. N /\ b \in 0 .. n /\ b # 0
      OBVIOUS
    <3>2. shifted[b] = shifted[b - 1] \div 2
      BY <1>7, <3>1
    <3>3. shifted[b - 1] = f[b - 1]
      BY <2>2
    <3> QED BY <1>3, <3>1, <3>2, <3>3
  <2>3. H \in SUBSET (0 .. n)
    OBVIOUS
  <2> HIDE DEF H
  <2> QED BY <2>1, <2>2, <2>3, StepByStep
<1>9. Key(n) = {b \in 0 .. n : shifted[b] % 2 = 1}
  BY DEF Key, shifted
<1>10. Key(n) = {b \in 0 .. N : f[b] % 2 = 1}
  <2>1. \A b \in 0 .. N : b \notin 0 .. n => f[b] = 0
    BY <1>6
  <2>2. \A b \in 0 .. n : shifted[b] = f[b] /\ b \in 0 .. N
    BY <1>8
  <2> QED BY <1>9, <2>1, <2>2
<1>11. f[N] = 0
  BY <1>6
<1> QED
  BY <1>4, <1>10, <1>11 DEF IsBits

\* Numbers with the same bits are the same.
LEMMA KeysDiffer ==
  ASSUME NEW n, n \in Nat, NEW m, m \in Nat, Key(n) = Key(m)
  PROVE  n = m
<1> DEFINE N == n + m
<1>1. N \in Nat /\ n <= N /\ m <= N
  OBVIOUS
<1> HIDE DEF N
<1>2. PICK f : IsBits(f, n, N)
  BY <1>1, KeyBits
<1>3. PICK g : IsBits(g, m, N)
  BY <1>1, KeyBits
<1> USE DEF IsBits
<1>4. \A b \in 0 .. N : f[b] \in Nat /\ g[b] \in Nat
  BY <1>2, <1>3 DEF Halving
<1>5. \A b \in 0 .. N : f[b] % 2 = g[b] % 2
  <2> TAKE b \in 0 .. N
  <2>1. f[b] % 2 \in {0, 1} /\ g[b] % 2 \in {0, 1}
    BY <1>4, Half
  <2>2. f[b] % 2 = 1 <=> g[b] % 2 = 1
    BY <1>2, <1>3
  <2> QED BY <2>1, <2>2
<1> DEFINE G == {k \in 0 .. N : f[N - k] = g[N - k]}
<1>6. G = 0 .. N
  <2>1. 0 \in G
    BY <1>1, <1>2, <1>3
  <2>2. ASSUME NEW k \in 1 .. N, k - 1 \in G PROVE k \in G
    <3> DEFINE b == N - k
    <3>1. b \in 0 .. N /\ b + 1 \in 1 .. N /\ (b + 1) - 1 = b /\ N - (k - 1) = b + 1
      BY <1>1
    <3>2. f[b + 1] = g[b + 1]
      BY <2>2, <3>1
    <3> HIDE DEF b
    <3>3. f[b] \div 2 = g[b] \div 2
      BY <1>2, <1>3, <3>1, <3>2 DEF Halving
    <3>4. f[b] = g[b]
      <4>1. f[b] = 2 * (f[b] \div 2) + (f[b] % 2) /\ g[b] = 2 * (g[b] \div 2) + (g[b] % 2)
        BY <1>4, <3>1, Half
      <4> QED BY <1>5, <3>1, <3>3, <4>1
    <3> QED BY <3>4 DEF b
  <2>3. G \in SUBSET (0 .. N)
    OBVIOUS
  <2> HIDE DEF G
  <2> QED BY <1>1, <2>1, <2>2, <2>3, StepByStep
<1>7. N \in G /\ N - N = 0
  BY <1>1, <1>6
<1>8. f[0] = g[0]
  BY <1>7
<1> QED
  BY <1>2, <1>3, <1>8 DEF Halving

\* The keys of rules and places have no bits that are too high.
LEMMA KeysFit ==
  /\ \A rule \in Rules : rule \in Nat /\ FitsIn(Key(rule), 15)
  /\ \A place \in Places : place \in Nat /\ FitsIn(Key(place), 63)
<1>1. \A place \in Places : place \in Nat
  BY MemoAssumption DEF Places
<1> QED
  BY <1>1, MemoAssumption DEF FitsIn
----------------------------------------------------------------------------
(***************************************************************************)
(* The memo of rules.  The inductive invariant: no two rules have the same  *)
(* list, and what a list holds of a place is where the rule was found to    *)
(* stop from there.                                                        *)
(***************************************************************************)
Trie == [nodes : Seq(Node), count : Nat]

Known == {Unknown, Fails} \cup Places

MemoTyped ==
  /\ ends \in [Rules -> [Places -> Known]]
  /\ \A rule \in Rules : \A place \in Places :
       ends[rule][place] \in {Unknown, Fails} \/ ends[rule][place] >= place
  /\ index \in Places /\ failed \in BOOLEAN /\ marks \in Seq(Places)

TriesAreTries ==
  /\ IsTrie(ruleMemo, 15)
  /\ ruleLists \in Seq(Trie)
  /\ \A l \in 1 .. Len(ruleLists) : IsTrie(ruleLists[l], 63)

ListsAreOwn ==
  /\ \A rule \in Rules : ListOf(rule) = NoEntry \/ ListOf(rule) \in 1 .. Len(ruleLists)
  /\ \A r, q \in Rules : ListOf(r) = ListOf(q) => r = q \/ ListOf(r) = NoEntry

IsStop(where, stop, rule, place) ==
  stop = NoEntry \/ (where[rule][place] # Unknown /\ stop = StopIndex(where[rule][place]))

StopsAreFound ==
  \A rule \in Rules : \A place \in Places :
    ListOf(rule) # NoEntry => IsStop(ends, get(ruleLists[ListOf(rule)], Key(place)), rule, place)

MemoInvariant == MemoTyped /\ TriesAreTries /\ ListsAreOwn /\ StopsAreFound

\* The invariant holds at first, and each step keeps it.
LEMMA MemoInitHolds == MemoInit => MemoInvariant
<1> SUFFICES ASSUME MemoInit PROVE MemoInvariant
  OBVIOUS
<1>1. IsTrie(ruleMemo, 15) /\ \A rule : ListOf(rule) = NoEntry
  BY NewTrieHolds DEF MemoInit, ListOf
<1>2. Size \in Nat /\ 0 \in Places
  BY MemoAssumption DEF Places
<1>3. MemoTyped
  <2>1. /\ ends = [rule \in Rules |-> [place \in Places |-> Unknown]]
        /\ index = 0 /\ failed = FALSE /\ marks = <<>>
    BY DEF MemoInit
  <2>2. ends \in [Rules -> [Places -> Known]]
    BY <2>1 DEF Known
  <2>3. \A rule \in Rules : \A place \in Places : ends[rule][place] = Unknown
    BY <2>1
  <2>4. failed \in BOOLEAN /\ index \in Places /\ marks \in Seq(Places)
    <3>1. <<>> \in Seq(Places) /\ FALSE \in BOOLEAN
      OBVIOUS
    <3> QED BY <1>2, <2>1, <3>1
  <2>5. \A rule \in Rules : \A place \in Places :
          ends[rule][place] \in {Unknown, Fails} \/ ends[rule][place] >= place
    BY <2>3
  <2> QED BY <2>2, <2>4, <2>5 DEF MemoTyped
<1>4. TriesAreTries
  BY <1>1 DEF MemoInit, TriesAreTries
<1> QED
  BY <1>1, <1>3, <1>4 DEF MemoInvariant, ListsAreOwn, StopsAreFound

\* What is known of where rules stop stays.
LEMMA EndsStay ==
  ASSUME MemoTyped, NEW rule \in Rules, NEW end \in Stops(rule, index),
         ends' = [ends EXCEPT ![rule][index] = end]
  PROVE  /\ end \in {Fails} \cup Places /\ (end = Fails \/ end >= index)
         /\ ends' \in [Rules -> [Places -> Known]]
         /\ ends'[rule][index] = end /\ end # Unknown
         /\ \A r \in Rules : \A place \in Places : ends'[r][place] = ends[r][place]
                                                   \/ (r = rule /\ place = index)
         /\ \A r \in Rules : \A place \in Places :
              ends[r][place] # Unknown => ends'[r][place] = ends[r][place]
<1>1. Size \in Nat /\ Places = 0 .. Size /\ index \in Places
  BY MemoAssumption DEF MemoTyped, Places
<1>2. ends[rule] \in [Places -> Known] /\ ends[rule][index] \in Known
  BY <1>1 DEF MemoTyped
<1>3. /\ end \in {Fails} \cup Places /\ (end = Fails \/ end >= index)
      /\ ends[rule][index] # Unknown => end = ends[rule][index]
  <2>1. CASE ends[rule][index] = Unknown
    <3>1. end \in {Fails} \cup (index .. Size)
      BY <2>1 DEF Stops
    <3> QED BY <1>1, <2>1, <3>1 DEF Fails
  <2>2. CASE ends[rule][index] # Unknown
    <3>1. end = ends[rule][index]
      BY <2>2 DEF Stops
    <3> QED BY <1>1, <1>2, <2>2, <3>1 DEF MemoTyped, Known
  <2> QED BY <2>1, <2>2
<1>4. end # Unknown /\ end \in Known
  BY <1>1, <1>3 DEF Fails, Unknown, Known
<1>5. \A r \in Rules : \A place \in Places :
        ends'[r][place] = IF r = rule /\ place = index THEN end ELSE ends[r][place]
  BY <1>1, <1>2 DEF MemoTyped
<1>6. ends' \in [Rules -> [Places -> Known]]
  <2>1. [ends[rule] EXCEPT ![index] = end] \in [Places -> Known]
    BY <1>2, <1>4
  <2> QED BY <2>1 DEF MemoTyped
<1> QED
  BY <1>1, <1>3, <1>4, <1>5, <1>6

\* What a rule that is parsed leaves in the memo.
LEMMA MemoizeHolds ==
  ASSUME MemoInvariant, NEW rule \in Rules, NEW end \in Stops(rule, index),
         ends' = [ends EXCEPT ![rule][index] = end], Memoize(rule, StopIndex(end))
  PROVE  TriesAreTries' /\ ListsAreOwn' /\ StopsAreFound'
<1> DEFINE stop == StopIndex(end)
           L == Len(ruleLists)
           l == ListOf(rule)
<1>1. /\ MemoTyped /\ TriesAreTries /\ ListsAreOwn /\ StopsAreFound /\ index \in Places
      /\ IsTrie(ruleMemo, 15) /\ ruleLists \in Seq(Trie) /\ L \in Nat /\ Size \in Nat
      /\ \A k \in 1 .. L : IsTrie(ruleLists[k], 63)
  BY MemoAssumption DEF MemoInvariant, MemoTyped, TriesAreTries
<1>2. /\ end \in {Fails} \cup Places
      /\ ends'[rule][index] = end /\ end # Unknown
      /\ \A r \in Rules : \A place \in Places :
           ends[r][place] # Unknown => ends'[r][place] = ends[r][place]
  BY <1>1, EndsStay
<1>3. stop \in Int
  BY <1>1, <1>2 DEF StopIndex, Fails, MEMO_RULE_FAILED, Places
<1>4. /\ \A r \in Rules : r \in Nat /\ FitsIn(Key(r), 15)
      /\ \A place \in Places : place \in Nat /\ FitsIn(Key(place), 63)
  BY KeysFit
<1>5. /\ \A r \in Rules : Key(r) = Key(rule) => r = rule
      /\ \A place \in Places : Key(place) = Key(index) => place = index
  BY <1>1, <1>4, KeysDiffer
<1>6. \A s : \A r \in Rules : \A place \in Places : IsStop(ends, s, r, place)
          => IsStop(ends', s, r, place)
  BY <1>2 DEF IsStop
<1>7. \A s : s = stop => IsStop(ends', s, rule, index)
  BY <1>2 DEF IsStop
<1> HIDE DEF stop, L, l
\* A list with the stop is as good as it was.
<1>8. ASSUME NEW list, IsTrie(list, 63),
             \A place \in Places : IsStop(ends, get(list, Key(place)), rule, place)
      PROVE  /\ IsTrie(addEntry(list, Key(index), stop), 63)
             /\ \A place \in Places :
                  IsStop(ends', get(addEntry(list, Key(index), stop), Key(place)), rule, place)
  <2>1. /\ FitsIn(Key(index), 63) /\ IsTrie(addEntry(list, Key(index), stop), 63)
        /\ Holds(list, Key(index)) => addEntry(list, Key(index), stop) = list
        /\ ~ Holds(list, Key(index)) => get(addEntry(list, Key(index), stop), Key(index)) = stop
        /\ \A k : FitsIn(k, 63) /\ k # Key(index) =>
                    get(addEntry(list, Key(index), stop), k) = get(list, k)
    BY <1>1, <1>3, <1>4, <1>8, AddHolds
  <2>2. ASSUME NEW place \in Places
        PROVE  IsStop(ends', get(addEntry(list, Key(index), stop), Key(place)), rule, place)
    <3> DEFINE added == get(addEntry(list, Key(index), stop), Key(place))
    <3>1. CASE place # index \/ Holds(list, Key(index))
      <4>1. added = get(list, Key(place))
        BY <1>4, <1>5, <2>1, <3>1
      <4> HIDE DEF added
      <4>2. IsStop(ends, added, rule, place)
        BY <1>8, <4>1
      <4>3. IsStop(ends', added, rule, place)
        BY <1>6, <4>2
      <4> QED BY <4>3 DEF added
    <3>2. CASE place = index /\ ~ Holds(list, Key(index))
      <4>1. added = stop
        BY <2>1, <3>2
      <4> HIDE DEF added
      <4>2. IsStop(ends', added, rule, index)
        BY <1>7, <4>1
      <4> QED BY <3>2, <4>2 DEF added
    <3> QED BY <3>1, <3>2
  <2> QED BY <2>1, <2>2
<1>9. CASE l = NoEntry
  <2> DEFINE key == Key(rule)
             rulesAfter == addEntry(ruleMemo, key, L + 1)
             list == IF get(rulesAfter, key) = NoEntry THEN NewTrie(63)
                                                       ELSE addEntry(NewTrie(63), Key(index), stop)
  <2>1. ruleMemo' = rulesAfter /\ ruleLists' = Append(ruleLists, list)
    BY <1>9 DEF Memoize, l, L, stop
  <2>2. /\ FitsIn(key, 15) /\ IsTrie(rulesAfter, 15)
        /\ Holds(ruleMemo, key) => rulesAfter = ruleMemo
        /\ ~ Holds(ruleMemo, key) => get(rulesAfter, key) = L + 1
        /\ \A k : FitsIn(k, 15) /\ k # key => get(rulesAfter, k) = get(ruleMemo, k)
    <3>1. L + 1 \in Int /\ FitsIn(key, 15) /\ 15 \in Nat
      BY <1>1, <1>4
    <3> QED BY <1>1, <3>1, AddHolds
  <2>3. IsTrie(NewTrie(63), 63) /\ \A k : get(NewTrie(63), k) = NoEntry
    BY NewTrieHolds
  <2>4. /\ IsTrie(list, 63)
        /\ \A place \in Places : IsStop(ends', get(list, Key(place)), rule, place)
    <3>1. \A place \in Places : /\ IsStop(ends, get(NewTrie(63), Key(place)), rule, place)
                                /\ IsStop(ends', get(NewTrie(63), Key(place)), rule, place)
      BY <2>3 DEF IsStop
    <3>2. /\ IsTrie(addEntry(NewTrie(63), Key(index), stop), 63)
          /\ \A place \in Places :
               IsStop(ends', get(addEntry(NewTrie(63), Key(index), stop), Key(place)), rule, place)
      BY <1>8, <2>3, <3>1
    <3> QED BY <2>3, <3>1, <3>2
  <2> HIDE DEF list, rulesAfter
  <2>5. list \in Trie
    BY <2>4 DEF IsTrie, Trie
  <2>6. /\ ruleLists' \in Seq(Trie) /\ Len(ruleLists') = L + 1 /\ ruleLists'[L + 1] = list
        /\ \A k \in 1 .. L : ruleLists'[k] = ruleLists[k]
    <3>1. ruleLists' = Append(ruleLists, list)
      BY <2>1
    <3> QED BY <1>1, <2>5, <3>1, AppendProperties DEF L
  <2>7. TriesAreTries'
    <3>1. \A k \in 1 .. L + 1 : IsTrie(ruleLists'[k], 63)
      <4> TAKE k \in 1 .. L + 1
      <4>1. CASE k = L + 1
        BY <2>4, <2>6, <4>1
      <4>2. CASE k # L + 1
        <5>1. k \in 1 .. L
          BY <1>1, <4>2
        <5> QED BY <1>1, <2>6, <5>1
      <4> QED BY <4>1, <4>2
    <3> QED BY <2>1, <2>2, <2>6, <3>1 DEF TriesAreTries
  <2>8. \A r \in Rules : ListOf(r)' = IF r = rule /\ ~ Holds(ruleMemo, key) THEN L + 1
            ELSE ListOf(r)
    <3> TAKE r \in Rules
    <3>1. ListOf(r)' = get(rulesAfter, Key(r)) /\ ListOf(r) = get(ruleMemo, Key(r))
      BY <2>1 DEF ListOf
    <3>2. CASE r = rule
      BY <2>2, <3>1, <3>2
    <3>3. CASE r # rule
      <4>1. FitsIn(Key(r), 15) /\ Key(r) # key
        BY <1>4, <1>5, <3>3
      <4> QED BY <2>2, <3>1, <3>3, <4>1
    <3> QED BY <3>2, <3>3
  <2>9. \A r \in Rules : ListOf(r) = NoEntry \/ ListOf(r) \in 1 .. L
    BY <1>1 DEF ListsAreOwn, L
  <2>10. L + 1 \notin 1 .. L /\ L + 1 # NoEntry /\ L + 1 \in 1 .. L + 1
            /\ \A k \in 1 .. L : k \in 1 .. L + 1
    BY <1>1 DEF NoEntry
  <2>11. ListsAreOwn'
    <3>1. \A r \in Rules : ListOf(r)' = NoEntry \/ ListOf(r)' \in 1 .. Len(ruleLists')
      BY <2>6, <2>8, <2>9, <2>10
    <3>2. ASSUME NEW r \in Rules, NEW q \in Rules, ListOf(r)' = ListOf(q)'
          PROVE  r = q \/ ListOf(r)' = NoEntry
      <4>1. r = rule /\ q # rule => ListOf(r)' # ListOf(q)' \/ ListOf(r)' = NoEntry
        BY <1>9, <2>8, <2>9, <2>10 DEF l
      <4>2. q = rule /\ r # rule => ListOf(r)' # ListOf(q)' \/ ListOf(r)' = NoEntry
        BY <1>9, <2>8, <2>9, <2>10 DEF l
      <4>3. r # rule /\ q # rule => r = q \/ ListOf(r)' = NoEntry
        BY <1>1, <2>8, <3>2 DEF ListsAreOwn
      <4> QED BY <3>2, <4>1, <4>2, <4>3
    <3> QED BY <3>1, <3>2 DEF ListsAreOwn
  <2>12. StopsAreFound'
    <3> SUFFICES ASSUME NEW r \in Rules, NEW place \in Places, ListOf(r)' # NoEntry
                 PROVE  IsStop(ends', get(ruleLists'[ListOf(r)'], Key(place)), r, place)
      BY DEF StopsAreFound, Places
    <3>1. CASE r = rule
      <4>1. ListOf(r)' = L + 1
        BY <1>9, <2>8, <3>1 DEF l
      <4> QED BY <2>4, <2>6, <3>1, <4>1
    <3>2. CASE r # rule
      <4>1. ListOf(r)' = ListOf(r) /\ ListOf(r) \in 1 .. L
        BY <2>8, <2>9, <3>2
      <4>2. IsStop(ends, get(ruleLists[ListOf(r)], Key(place)), r, place)
        BY <1>1, <4>1 DEF StopsAreFound
      <4> QED BY <1>6, <2>6, <4>1, <4>2
    <3> QED BY <3>1, <3>2
  <2> QED BY <2>7, <2>11, <2>12
<1>10. CASE l # NoEntry
  <2> DEFINE list == addEntry(ruleLists[l], Key(index), stop)
  <2>1. ruleMemo' = ruleMemo /\ ruleLists' = [ruleLists EXCEPT ![l] = list]
    BY <1>10 DEF Memoize, l, stop
  <2>2. l \in 1 .. L
    BY <1>1, <1>10 DEF ListsAreOwn, l, L
  <2>3. \A place \in Places : IsStop(ends, get(ruleLists[l], Key(place)), rule, place)
    BY <1>1, <1>10 DEF StopsAreFound, l
  <2>4. /\ IsTrie(list, 63)
        /\ \A place \in Places : IsStop(ends', get(list, Key(place)), rule, place)
    BY <1>1, <1>8, <2>2, <2>3
  <2> HIDE DEF list
  <2>5. list \in Trie
    BY <2>4 DEF IsTrie, Trie
  <2>6. /\ ruleLists' \in Seq(Trie) /\ Len(ruleLists') = L
        /\ \A k \in 1 .. L : ruleLists'[k] = IF k = l THEN list ELSE ruleLists[k]
    <3>1. ruleLists' = [ruleLists EXCEPT ![l] = list]
      BY <2>1
    <3> QED BY <1>1, <2>2, <2>5, <3>1, ExceptSeq DEF L
  <2>7. TriesAreTries'
    <3>1. IsTrie(ruleMemo, 15)' /\ \A k \in 1 .. L : IsTrie(ruleLists'[k], 63)
      BY <1>1, <2>1, <2>4, <2>6
    <3> QED BY <2>1, <2>6, <3>1, <1>1 DEF TriesAreTries
  <2>8. \A r : ListOf(r)' = ListOf(r)
    BY <2>1 DEF ListOf
  <2>9. ListsAreOwn'
    BY <1>1, <2>6, <2>8 DEF ListsAreOwn, L
  <2>10. StopsAreFound'
    <3> SUFFICES ASSUME NEW r \in Rules, NEW place \in Places, ListOf(r)' # NoEntry
                 PROVE  IsStop(ends', get(ruleLists'[ListOf(r)'], Key(place)), r, place)
      BY DEF StopsAreFound, Places
    <3>1. ListOf(r) # NoEntry /\ ListOf(r)' = ListOf(r) /\ ListOf(r) \in 1 .. L
      BY <1>1, <2>8 DEF ListsAreOwn, L
    <3>2. CASE r = rule
      <4>1. ruleLists'[ListOf(r)'] = list
        BY <2>2, <2>6, <3>1, <3>2 DEF l
      <4> QED BY <2>4, <3>2, <4>1
    <3>3. CASE r # rule
      <4>1. ListOf(r) # l
        BY <1>1, <3>1, <3>3 DEF ListsAreOwn, l
      <4>2. ruleLists'[ListOf(r)'] = ruleLists[ListOf(r)]
        BY <2>6, <3>1, <4>1
      <4>3. IsStop(ends, get(ruleLists[ListOf(r)], Key(place)), r, place)
        BY <1>1, <3>1 DEF StopsAreFound
      <4> QED BY <1>6, <4>2, <4>3
    <3> QED BY <3>2, <3>3
  <2> QED BY <2>7, <2>9, <2>10
<1> QED
  BY <1>9, <1>10

\* What the memo knows is where the rule stops.
LEMMA MemoKnows ==
  ASSUME MemoInvariant, NEW rule \in Rules, getRuleMemoization(rule, index) # MEMO_RULE_UNKNOWN
  PROVE  /\ ends[rule][index] \in {Fails} \cup Places
         /\ ends[rule][index] = Fails \/ ends[rule][index] >= index
         /\ getRuleMemoization(rule, index) = StopIndex(ends[rule][index])
         /\ getRuleMemoization(rule, index) = MEMO_RULE_FAILED <=> ends[rule][index] = Fails
<1> DEFINE stop == getRuleMemoization(rule, index)
           end == ends[rule][index]
<1>1. MemoTyped /\ index \in Places /\ Size \in Nat
  BY MemoAssumption DEF MemoInvariant, MemoTyped
<1>2. ListOf(rule) # NoEntry /\ stop = get(ruleLists[ListOf(rule)], Key(index)) /\ stop # NoEntry
  BY DEF getRuleMemoization
<1>3. IsStop(ends, stop, rule, index)
  BY <1>1, <1>2 DEF MemoInvariant, StopsAreFound
<1>4. end # Unknown /\ stop = StopIndex(end)
  BY <1>2, <1>3 DEF IsStop
<1>5. end \in {Fails} \cup Places /\ (end = Fails \/ end >= index)
  <2>1. end \in Known /\ (end \in {Unknown, Fails} \/ end >= index)
    BY <1>1 DEF MemoTyped
  <2> QED BY <1>4, <2>1 DEF Known
<1>6. stop = MEMO_RULE_FAILED <=> end = Fails
  <2>1. end \in Places => end - 1 # MEMO_RULE_FAILED /\ end # Fails
    BY <1>1 DEF Places, MEMO_RULE_FAILED, Fails
  <2> HIDE DEF stop, end
  <2> QED BY <1>4, <1>5, <2>1 DEF StopIndex
<1> QED
  BY <1>4, <1>5, <1>6

LEMMA MemoNextHolds == MemoInvariant /\ [MemoNext]_memo => MemoInvariant'
<1> SUFFICES ASSUME MemoInvariant, [MemoNext]_memo PROVE MemoInvariant'
  OBVIOUS
<1>1. /\ MemoTyped /\ TriesAreTries /\ ListsAreOwn /\ StopsAreFound
      /\ index \in Places /\ marks \in Seq(Places) /\ failed \in BOOLEAN /\ Size \in Nat
  BY MemoAssumption DEF MemoInvariant, MemoTyped
<1>2. ASSUME UNCHANGED <<ends, ruleMemo, ruleLists>>,
             index' \in Places, failed' \in BOOLEAN, marks' \in Seq(Places)
      PROVE  MemoInvariant'
  <2>1. MemoTyped'
    BY <1>1, <1>2 DEF MemoTyped, Places
  <2>2. TriesAreTries'
    BY <1>1, <1>2 DEF TriesAreTries
  <2>3. ListsAreOwn' /\ StopsAreFound'
    BY <1>1, <1>2 DEF ListsAreOwn, StopsAreFound, ListOf, Places
  <2> QED BY <2>1, <2>2, <2>3 DEF MemoInvariant
<1>3. CASE BeginPredicate
  <2>1. marks' \in Seq(Places)
    BY <1>1, <1>3 DEF BeginPredicate
  <2> QED BY <1>1, <1>2, <1>3, <2>1 DEF BeginPredicate
<1>4. CASE EndPredicate
  <2>1. index' \in Places /\ marks' \in Seq(Places)
    BY <1>1, <1>4 DEF EndPredicate, backtracking, Last, Front
  <2> QED BY <1>2, <1>4, <2>1 DEF EndPredicate
<1>5. ASSUME NEW rule \in Rules, SkipRule(rule) PROVE MemoInvariant'
  <2>1. getRuleMemoization(rule, index) # MEMO_RULE_UNKNOWN
    BY <1>5 DEF SkipRule
  <2>2. /\ ends[rule][index] \in {Fails} \cup Places
        /\ getRuleMemoization(rule, index) = StopIndex(ends[rule][index])
        /\ getRuleMemoization(rule, index) = MEMO_RULE_FAILED <=> ends[rule][index] = Fails
    BY <2>1, MemoKnows
  <2>3. index' \in Places
    <3>1. index' = IF ends[rule][index] = Fails THEN index ELSE StopIndex(ends[rule][index]) + 1
      BY <1>5, <2>2 DEF SkipRule
    <3> QED BY <1>1, <2>2, <3>1 DEF StopIndex, Places
  <2> QED BY <1>1, <1>2, <1>5, <2>3 DEF SkipRule
<1>6. ASSUME NEW rule \in Rules, NEW end \in Stops(rule, index),
             ends' = [ends EXCEPT ![rule][index] = end], failed' \in BOOLEAN, marks' = marks,
             index' = IF end = Fails THEN index ELSE end
      PROVE  MemoTyped'
  <2>1. /\ end \in {Fails} \cup Places /\ (end = Fails \/ end >= index)
        /\ ends' \in [Rules -> [Places -> Known]]
        /\ ends'[rule][index] = end
        /\ \A r \in Rules : \A place \in Places : ends'[r][place] = ends[r][place]
                                                  \/ (r = rule /\ place = index)
    BY <1>1, <1>6, EndsStay
  <2>2. \A r \in Rules : \A place \in Places :
          ends'[r][place] \in {Unknown, Fails} \/ ends'[r][place] >= place
    BY <1>1, <2>1 DEF MemoTyped
  <2>3. index' \in Places
    BY <1>1, <1>6, <2>1
  <2> QED BY <1>1, <1>6, <2>1, <2>2, <2>3 DEF MemoTyped, Places, Known
<1>7. ASSUME NEW rule \in Rules, ParseRule(rule) PROVE MemoInvariant'
  <2>1. PICK end \in Stops(rule, index) :
          /\ ends' = [ends EXCEPT ![rule][index] = end]
          /\ failed' = (end = Fails)
          /\ index' = IF end = Fails THEN index ELSE end
          /\ Memoize(rule, StopIndex(end))
    BY <1>7 DEF ParseRule
  <2>2. TriesAreTries' /\ ListsAreOwn' /\ StopsAreFound'
    BY <2>1, MemoizeHolds
  <2>3. MemoTyped'
    <3>1. failed' \in BOOLEAN /\ marks' = marks
      BY <1>7, <2>1 DEF ParseRule
    <3> QED BY <1>6, <2>1, <3>1
  <2> QED BY <2>2, <2>3 DEF MemoInvariant
<1>8. ASSUME NEW rule \in Rules, ParsePlain(rule) PROVE MemoInvariant'
  <2>1. PICK end \in Stops(rule, index) \ {Fails} :
          ends' = [ends EXCEPT ![rule][index] = end] /\ index' = end
    BY <1>8 DEF ParsePlain
  <2>2. UNCHANGED <<failed, marks, ruleMemo, ruleLists>>
    BY <1>8 DEF ParsePlain
  <2>3. MemoTyped'
    BY <1>1, <1>6, <2>1, <2>2
  <2>4. TriesAreTries' /\ ListsAreOwn'
    BY <1>1, <2>2 DEF TriesAreTries, ListsAreOwn, ListOf
  <2>5. \A r \in Rules : \A place \in Places :
          ends[r][place] # Unknown => ends'[r][place] = ends[r][place]
    BY <1>1, <2>1, EndsStay
  <2>6. StopsAreFound'
    BY <1>1, <2>2, <2>5 DEF StopsAreFound, IsStop, ListOf, Places
  <2> QED BY <2>3, <2>4, <2>6 DEF MemoInvariant
<1>9. CASE UNCHANGED memo
  BY <1>1, <1>2, <1>9 DEF memo
<1> QED
  BY <1>3, <1>4, <1>5, <1>7, <1>8, <1>9 DEF MemoNext

\* The invariant: no two rules have the same list of stops, what a list holds is where the
\* rule stops, and each trie is a Patricia trie (antlr3collections.inl:3-544).
THEOREM MemoKeepsInvariant == MemoSpec => []MemoInvariant
<1> QED
  BY MemoInitHolds, MemoNextHolds, PTL DEF MemoSpec

\* Each step is one of a trial.
LEMMA MemoStepIsTrial == MemoInvariant /\ [MemoNext]_memo => [T!Next]_(T!vars)
<1> SUFFICES ASSUME MemoInvariant, [MemoNext]_memo PROVE [T!Next]_(T!vars)
  OBVIOUS
<1> DEFINE place == IF failed THEN Fails ELSE index
<1>1. /\ MemoTyped /\ index \in Places /\ marks \in Seq(Places) /\ failed \in BOOLEAN
          /\ Size \in Nat
  BY MemoAssumption DEF MemoInvariant, MemoTyped
<1>2. backtracking > 0 <=> marks # <<>>
  BY <1>1 DEF backtracking
<1>3. CASE BeginPredicate
  <2>1. T!Begin
    BY <1>3 DEF BeginPredicate, T!Begin
  <2> QED BY <2>1 DEF T!Next
<1>4. CASE EndPredicate
  <2>1. T!End
    BY <1>2, <1>4 DEF EndPredicate, T!End, T!Last, T!Front, Last, Front
  <2> QED BY <2>1 DEF T!Next
<1>5. ASSUME NEW rule \in Rules, NEW end, ~ failed, UNCHANGED marks,
             ends[rule][index] \in {Unknown, end}, ends'[rule][index] = end,
             ends' = [ends EXCEPT ![rule][index] = end],
             place' = end,
             (end = Fails /\ marks # <<>> /\ failed') \/ (end >= index /\ ~ failed'),
             failed' \in BOOLEAN
      PROVE  T!Parse
  <2>1. place = index
    BY <1>5
  <2>2. failed' = TRUE \/ failed' = FALSE
    BY <1>5
  <2> QED BY <1>5, <2>1, <2>2 DEF T!Parse, T!Fails, T!Unknown, Fails, Unknown
<1>6. ASSUME NEW rule \in Rules, SkipRule(rule) PROVE T!Parse
  <2> DEFINE end == ends[rule][index]
             stop == getRuleMemoization(rule, index)
  <2>1. stop # MEMO_RULE_UNKNOWN
    BY <1>6 DEF SkipRule
  <2>2. /\ end \in {Fails} \cup Places /\ (end = Fails \/ end >= index)
        /\ stop = StopIndex(end) /\ (stop = MEMO_RULE_FAILED <=> end = Fails)
    BY <2>1, MemoKnows
  <2>3. /\ ~ failed /\ marks # <<>> /\ UNCHANGED <<ends, marks>>
        /\ failed' = (stop = MEMO_RULE_FAILED)
        /\ index' = IF stop = MEMO_RULE_FAILED THEN index ELSE stop + 1
    BY <1>2, <1>6 DEF SkipRule
  <2>4. ends' = [ends EXCEPT ![rule][index] = end]
    BY <1>1, <2>3 DEF MemoTyped
  <2> HIDE DEF end, stop
  <2>5. failed' = (end = Fails)
    BY <2>2, <2>3
  <2>6. place' = end
    <3>1. CASE end = Fails
      BY <2>5, <3>1
    <3>2. CASE end # Fails
      <4>1. end \in Int /\ stop = end - 1 /\ stop # MEMO_RULE_FAILED
        BY <1>1, <2>2, <3>2 DEF StopIndex, Places
      <4>2. index' = stop + 1 /\ stop + 1 = end
        BY <2>3, <4>1
      <4>3. ~ failed'
        BY <2>5, <3>2
      <4> QED BY <4>2, <4>3
    <3> QED BY <3>1, <3>2
  <2>7. (end = Fails /\ marks # <<>> /\ failed') \/ (end >= index /\ ~ failed')
    <3>1. CASE end = Fails
      BY <2>3, <2>5, <3>1
    <3>2. CASE end # Fails
      BY <2>2, <2>5, <3>2
    <3> QED BY <3>1, <3>2
  <2>8. end = ends[rule][index] /\ ends'[rule][index] = end /\ failed' \in BOOLEAN
    BY <2>3, <2>5 DEF end
  <2> QED BY <1>5, <2>3, <2>4, <2>6, <2>7, <2>8
<1>7. ASSUME NEW rule \in Rules, ParseRule(rule) PROVE T!Parse
  <2>1. PICK end \in Stops(rule, index) :
          /\ ends' = [ends EXCEPT ![rule][index] = end]
          /\ failed' = (end = Fails)
          /\ index' = IF end = Fails THEN index ELSE end
    BY <1>7 DEF ParseRule
  <2>2. ~ failed /\ marks # <<>> /\ UNCHANGED marks
    BY <1>2, <1>7 DEF ParseRule
  <2>3. /\ end \in {Fails} \cup Places /\ (end = Fails \/ end >= index)
        /\ ends'[rule][index] = end
    BY <1>1, <2>1, EndsStay
  <2>4. ends[rule][index] \in {Unknown, end}
    BY DEF Stops
  <2>5. place' = end /\ failed' \in BOOLEAN
    BY <2>1
  <2>6. (end = Fails /\ marks # <<>> /\ failed') \/ (end >= index /\ ~ failed')
    <3>1. CASE end = Fails
      BY <2>1, <2>2, <3>1
    <3>2. CASE end # Fails
      BY <2>1, <2>3, <3>2
    <3> QED BY <3>1, <3>2
  <2> QED BY <1>5, <2>1, <2>2, <2>3, <2>4, <2>5, <2>6
<1>8. ASSUME NEW rule \in Rules, ParsePlain(rule) PROVE T!Parse
  <2>1. PICK end \in Stops(rule, index) \ {Fails} :
          ends' = [ends EXCEPT ![rule][index] = end] /\ index' = end
    BY <1>8 DEF ParsePlain
  <2>2. ~ failed /\ UNCHANGED <<failed, marks>>
    BY <1>8 DEF ParsePlain
  <2>3. end >= index /\ ends'[rule][index] = end
    BY <1>1, <2>1, EndsStay
  <2>4. ends[rule][index] \in {Unknown, end}
    BY DEF Stops
  <2>5. place' = end /\ ~ failed' /\ failed' \in BOOLEAN
    BY <1>1, <2>1, <2>2
  <2> QED BY <1>5, <2>1, <2>2, <2>3, <2>4, <2>5
<1>9. CASE UNCHANGED memo
  BY <1>9 DEF memo, T!vars
<1> QED
  BY <1>3, <1>4, <1>6, <1>7, <1>8, <1>9 DEF MemoNext, T!Next

\* And so is the beginning.
LEMMA MemoInitIsTrial == MemoInit => T!Init
BY DEF MemoInit, T!Init

\* The memo changes nothing but the time, and no trie is deleted twice, for whatever rules
\* and places (antlr3baserecognizer.inl:700-754, 801-836, antlr3collections.inl:497-540).
THEOREM MemoChangesNothing == MemoSpec => MemoIsTransparent
<1>1. MemoInvariant => TriesAreFreedOnce
  <2>1. ASSUME MemoInvariant PROVE TriesAreFreedOnce
    <3>1. /\ IsTrie(ruleMemo, 15) /\ DOMAIN ruleLists = 1 .. Len(ruleLists)
          /\ \A l \in 1 .. Len(ruleLists) : IsTrie(ruleLists[l], 63)
      BY <2>1 DEF MemoInvariant, TriesAreTries
    <3> QED BY <3>1, TrieOwnedOnce DEF TriesAreFreedOnce
  <2> QED BY <2>1
<1> QED
  BY <1>1, MemoInitHolds, MemoNextHolds, MemoInitIsTrial, MemoStepIsTrial, PTL
  DEF MemoSpec, MemoIsTransparent, T!Spec
=============================================================================
