------------------------------ MODULE RuleMemo ------------------------------
(***************************************************************************)
(* Trying out rules: syntactic predicates and the memo of the rules that    *)
(* were parsed before (opt_grammar/antlr/antlr3baserecognizer.inl:647-754,  *)
(* 801-836).  The memo is a trie of rules, each with a trie of the places   *)
(* it was started at, and holds where it stopped, or that it failed.        *)
(*                                                                         *)
(* Where a rule stops from a place is chosen when it is first parsed there  *)
(* and is the same ever after: ends remembers it.                           *)
(***************************************************************************)
EXTENDS IntTrie

CONSTANTS
  Rules,     \* rule indexes
  Size,      \* the number of tokens
  MaxDepth,  \* bound on predicates within predicates
  MaxParses  \* bound on the rules that are parsed

VARIABLES
  ends,          \* for each rule and place, where it was found to stop
  index,         \* the place of the token stream
  failed,
  marks,         \* where each predicate began: backtracking is their number
  ruleMemo,      \* the rules that have a list
  ruleLists,     \* the lists
  parses

memo == <<ends, index, failed, marks, ruleMemo, ruleLists, parses>>

MEMO_RULE_FAILED  == -2  \* 0xFFFFFFFE and 0xFFFFFFFF in the code: no place in a
MEMO_RULE_UNKNOWN == -3  \* stream, and not -1, which is the place before the first

Fails   == -1
Unknown == -2

Places == 0 .. Size

\* Where a rule that is parsed at a place may stop.
Stops(rule, place) ==
  IF ends[rule][place] = Unknown THEN {Fails} \cup place .. Size ELSE {ends[rule][place]}

\* A number as the set of its bits, of which n has less than n + 1.
Key(n) ==
  LET shifted[b \in 0 .. n] == IF b = 0 THEN n ELSE shifted[b - 1] \div 2
  IN  {b \in 0 .. n : shifted[b] % 2 = 1}

\* Rules and places have no bits that the roots of the tries test, or that add does not
\* compare where it compares 32.
ASSUME MemoAssumption ==
  /\ Size \in Nat
  /\ \A rule \in Rules : rule \in Nat /\ Key(rule) \subseteq 0 .. 14
  /\ \A place \in Places : Key(place) \subseteq 0 .. 31

backtracking == Len(marks)

\* The list of a rule, by its number.
ListOf(rule) == get(ruleMemo, Key(rule))

getRuleMemoization(rule, start) ==
  IF ListOf(rule) = NoEntry THEN MEMO_RULE_UNKNOWN
  ELSE LET stop == get(ruleLists[ListOf(rule)], Key(start))
       IN  IF stop \in {NoEntry, 0} THEN MEMO_RULE_UNKNOWN ELSE stop

MemoInit ==
  /\ ends = [rule \in Rules |-> [place \in Places |-> Unknown]]
  /\ index = 0
  /\ failed = FALSE
  /\ marks = <<>>
  /\ ruleMemo = NewTrie(15)
  /\ ruleLists = <<>>
  /\ parses = 0

\* synpred marks the place and tries its rules out.
BeginPredicate ==
  /\ ~ failed
  /\ backtracking < MaxDepth
  /\ marks' = Append(marks, index)
  /\ UNCHANGED <<ends, index, failed, ruleMemo, ruleLists, parses>>

\* And goes back, whatever they came to.
EndPredicate ==
  /\ backtracking > 0
  /\ index' = Last(marks)
  /\ marks' = Front(marks)
  /\ failed' = FALSE
  /\ UNCHANGED <<ends, ruleMemo, ruleLists, parses>>

\* alreadyParsedRule: what the memo knows is not parsed again.
SkipRule(rule) ==
  /\ ~ failed /\ backtracking > 0
  /\ LET stop == getRuleMemoization(rule, index)
     IN  /\ stop # MEMO_RULE_UNKNOWN
         /\ failed' = (stop = MEMO_RULE_FAILED)
         /\ index' = IF stop = MEMO_RULE_FAILED THEN index ELSE stop + 1
  /\ UNCHANGED <<ends, marks, ruleMemo, ruleLists, parses>>

\* Mutant: the memo is given the place after the last token of the rule.
StopAfter(end) == IF end = Fails THEN MEMO_RULE_FAILED ELSE end

\* The last token the rule took.
StopIndex(end) == IF end = Fails THEN MEMO_RULE_FAILED ELSE end - 1

\* getRuleMemoization makes a list for a rule that has none, memoize puts the stop
\* into it.  Rule 0 and place 0 are keys the tries do not take.
Memoize(rule, stop) ==
  LET rulesAfter == addEntry(ruleMemo, Key(rule), Len(ruleLists) + 1)
      list == IF get(rulesAfter, Key(rule)) = NoEntry THEN NewTrie(63)
                                                ELSE addEntry(NewTrie(63), Key(index), stop)
  IN  IF ListOf(rule) = NoEntry
        THEN ruleMemo' = rulesAfter /\ ruleLists' = Append(ruleLists, list)
        ELSE /\ ruleLists' = [ruleLists EXCEPT ![ListOf(rule)] = addEntry(@, Key(index), stop)]
             /\ UNCHANGED ruleMemo

\* What the memo does not know is parsed and memoized.
ParseRule(rule) ==
  /\ ~ failed /\ backtracking > 0
  /\ parses < MaxParses
  /\ getRuleMemoization(rule, index) = MEMO_RULE_UNKNOWN
  /\ parses' = parses + 1
  /\ \E end \in Stops(rule, index) :
       /\ ends' = [ends EXCEPT ![rule][index] = end]
       /\ failed' = (end = Fails)
       /\ index' = IF end = Fails THEN index ELSE end
       /\ Memoize(rule, StopIndex(end))
  /\ UNCHANGED marks

\* Outside predicates a rule is parsed and the memo not asked.
ParsePlain(rule) ==
  /\ ~ failed /\ backtracking = 0
  /\ parses < MaxParses
  /\ parses' = parses + 1
  /\ \E end \in Stops(rule, index) \ {Fails} :
       /\ ends' = [ends EXCEPT ![rule][index] = end]
       /\ index' = end
  /\ UNCHANGED <<failed, marks, ruleMemo, ruleLists>>

MemoNext ==
  \/ BeginPredicate \/ EndPredicate
  \/ \E rule \in Rules : SkipRule(rule) \/ ParseRule(rule) \/ ParsePlain(rule)

MemoSpec == MemoInit /\ [][MemoNext]_memo
----------------------------------------------------------------------------
\* Deleting a trie deletes each node once, and no node reads one that was deleted
\* before: each is owned by one other, and a child that is not owned is the node
\* itself or above it (antlr3collections.inl:497-540).
OwnedOnce(t) ==
  LET nodes == t.nodes
      Above[n \in DOMAIN nodes] ==
        {n} \cup UNION {Above[m] : m \in {k \in DOMAIN nodes : n \in Owned(nodes, k)}}
  IN  \A n \in DOMAIN nodes :
        /\ Cardinality({m \in DOMAIN nodes : n \in Owned(nodes, m)}) = IF n = rootNode THEN 0 ELSE 1
        /\ {nodes[n].leftN, nodes[n].rightN} \ Owned(nodes, n) \subseteq Above[n]

TriesAreFreedOnce == OwnedOnce(ruleMemo) /\ \A k \in DOMAIN ruleLists : OwnedOnce(ruleLists[k])

\* The memo changes nothing but the time: with it, trying out rules comes to the
\* places and the failures it comes to without it, and a predicate leaves the
\* stream where it was (antlr3baserecognizer.inl:700-754, 801-836).  After a
\* failure the place does not matter, since the predicate goes back.
T == INSTANCE Trial WITH place <- IF failed THEN Fails ELSE index

MemoIsTransparent == T!Spec /\ []TriesAreFreedOnce
=============================================================================
