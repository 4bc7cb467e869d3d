------------------------------- MODULE Bitset -------------------------------
(***************************************************************************)
(* The bit sets of the parser runtime (opt_grammar/antlr/antlr3bitset.inl), *)
(* which hold follow sets: arrays of 64 bit words that grow when a bit is   *)
(* added past their end and are joined word by word.                        *)
(*                                                                         *)
(* A bit set is its number of words and the numbers of its bits.  The token *)
(* types of a grammar are small; Bits bounds them.                          *)
(***************************************************************************)
EXTENDS Integers, FiniteSets

CONSTANTS
  Handles,  \* the bit sets that exist
  Bits,     \* the bits that are added to them
  MaxWords  \* bound on their length: two sets joined in turns grow for ever

\* A bit set has 8 words at least, and twice as many after it has grown once.
ASSUME BitsAssumption == Bits \subseteq 0 .. 1023

VARIABLE sets

WordBits  == 64  \* ANTLR_BITSET_BITS
WordBytes == 8   \* sizeof(ANTLR_BITWORD)
MinWords  == 8

WordNumber(bit)     == bit \div WordBits
NumWordsToHold(bit) == bit \div WordBits + 1

Larger(a, b)  == IF a > b THEN a ELSE b
Smaller(a, b) == IF a < b THEN a ELSE b

New == [length |-> MinWords, bits |-> {}]

grow(s, words) == [length |-> words, bits |-> s.bits]

growToInclude(s, bit) == grow(s, Larger(2 * s.length, NumWordsToHold(bit)))

add(s, bit) ==
  LET g == IF WordNumber(bit) >= s.length THEN growToInclude(s, bit) ELSE s
  IN  [length |-> g.length, bits |-> g.bits \cup {bit}]

remove(s, bit) == [length |-> s.length, bits |-> s.bits \ {bit}]

isMember(s, bit) == WordNumber(bit) < s.length /\ bit \in s.bits

\* The bits of the first words of a set.
InWords(s, words) == {bit \in s.bits : WordNumber(bit) < words}

\* Mutant: the set is not grown before the words are joined.
OrTogether(s, t) ==
  [length |-> s.length, bits |-> s.bits \cup InWords(t, Smaller(s.length, t.length))]

\* The set is grown to include a bit that is the other's length in bytes, which
\* doubles it; what still does not fit is left out.
borInPlace(s, t) ==
  LET g == IF s.length < t.length THEN growToInclude(s, t.length * WordBytes) ELSE s
  IN  [length |-> g.length, bits |-> g.bits \cup InWords(t, Smaller(g.length, t.length))]

clone(s) == [length |-> Larger(s.length, MinWords), bits |-> s.bits]

bor(s, t) == borInPlace(clone(s), t)

\* A generated list of words, each put into its place.
bitsetLoad(words, bits) ==
  LET g == IF words > MinWords THEN grow(New, words) ELSE New
  IN  [length |-> g.length, bits |-> bits]

BitsetOf(bit) == add(New, bit)

isNilNode(s) == s.bits = {}

size(s) == Cardinality(s.bits)

numBits(s) == s.length * WordBits

\* Past its own end the shorter first operand reads what it does not have.
equals(s, t) ==
  /\ InWords(s, Smaller(s.length, t.length)) = InWords(t, Smaller(s.length, t.length))
  /\ s.length > t.length => s.bits = InWords(s, t.length)

Init == sets = [h \in Handles |-> New]

Add(h, bit)    == sets' = [sets EXCEPT ![h] = add(@, bit)]
RemoveBit(h, bit) == sets' = [sets EXCEPT ![h] = remove(@, bit)]
Of(h, bit)     == sets' = [sets EXCEPT ![h] = BitsetOf(bit)]

Or(h, g) ==
  /\ borInPlace(sets[h], sets[g]).length <= MaxWords
  /\ sets' = [sets EXCEPT ![h] = borInPlace(@, sets[g])]

Bor(h, g, k) ==
  /\ bor(sets[g], sets[k]).length <= MaxWords
  /\ sets' = [sets EXCEPT ![h] = bor(sets[g], sets[k])]

\* The lists of a grammar have a word for each 64 token types, up to the last
\* one that is in the set.
Load(h, bit) == sets' = [sets EXCEPT ![h] = bitsetLoad(NumWordsToHold(bit), {bit})]

Next ==
  \E h \in Handles :
    \/ \E bit \in Bits : Add(h, bit) \/ RemoveBit(h, bit) \/ Of(h, bit) \/ Load(h, bit)
    \/ \E g \in Handles : Or(h, g)
    \/ \E g, k \in Handles : Bor(h, g, k)

Spec == Init /\ [][Next]_sets
----------------------------------------------------------------------------
\* However the sets were grown, no bit is lost or added by joining them
\* (antlr3bitset.inl:155-182, 427-452): they are sets of integers.  This is so
\* because no set is more than twice as long as another.
members == [h \in Handles |-> sets[h].bits]

S == INSTANCE IntegerSets

BitsetSpec == S!Spec

\* A set is told from another and counted by what it holds, whatever their
\* lengths (antlr3bitset.inl:185-212, 253-301, 304-353): stated for a first operand of
\* equals that is not the shorter one, since that one reads past its end.
HoldsWhatItHas(s) ==
  /\ \A bit \in Bits : isMember(s, bit) <=> bit \in s.bits
  /\ \A bit \in s.bits : bit < numBits(s)
  /\ isNilNode(s) <=> size(s) = 0

MembersAreSeen ==
  \A h \in Handles :
    /\ HoldsWhatItHas(sets[h])
    /\ \A g \in Handles :
         sets[h].length >= sets[g].length => (equals(sets[h], sets[g]) <=> sets[h].bits = sets[g].bits)
=============================================================================
