------------------------------- MODULE IntTrie -------------------------------
(***************************************************************************)
(* The maps of the parser runtime: IntTrie of                               *)
(* opt_grammar/antlr/antlr3collections.inl:3-544, a Patricia trie.  A node  *)
(* tests one bit of a key, lower nodes test lower bits, and a child that    *)
(* does not test a lower bit is a node further up, reached by its key.      *)
(*                                                                         *)
(* A key is the set of the bits that are 1, so that keys of 64 bits need no *)
(* arithmetic.                                                              *)
(***************************************************************************)
EXTENDS Integers, SequencesExt, FiniteSetsExt

NoEntry == -9  \* a NULL bucket; no datum is this number

rootNode == 1

\* The root's key is 0; both its children are the root.
NewTrie(depth) ==
  [nodes |-> <<[bitNum |-> depth, key |-> {}, buckets |-> NoEntry, leftN |-> rootNode,
              rightN |-> rootNode]>>,
   count |-> 0]

Child(nodes, n, key) == IF nodes[n].bitNum \in key THEN nodes[n].rightN ELSE nodes[n].leftN

\* Down from the root by the bits of the key, as long as the bits tested go down
\* and are above the given one: the last two nodes.
Reached(nodes, key, above) ==
  LET Down(e) == /\ nodes[e[1]].bitNum > nodes[e[2]].bitNum
                 /\ nodes[e[2]].bitNum > above
      path[e \in (DOMAIN nodes) \X (DOMAIN nodes)] ==
        IF Down(e) THEN path[<<e[2], Child(nodes, e[2], key)>>] ELSE e
  IN  path[<<rootNode, nodes[rootNode].leftN>>]

Nearest(nodes, key) == Reached(nodes, key, -1)[2]

get(t, key) ==
  LET n == Nearest(t.nodes, key)
  IN  IF t.count > 0 /\ t.nodes[n].key = key THEN t.nodes[n].buckets ELSE NoEntry

\* The highest bit in which the keys differ.
HighestDifference(a, b) == Max((a \ b) \cup (b \ a))

\* Where the new node goes: above the nodes that test lower bits.
Place(nodes, key, depth) == Reached(nodes, key, depth)

\* A key that is there is left alone; the key 0 is the root's, and never added.
addEntry(t, key, data) ==
  LET near  == t.nodes[Nearest(t.nodes, key)].key
      depth == HighestDifference(key, near)
      place == Place(t.nodes, key, depth)
      new   == Len(t.nodes) + 1
      node  == [bitNum |-> depth, key |-> key, buckets |-> data,
                leftN  |-> IF depth \in key THEN place[2] ELSE new,
                rightN |-> IF depth \in key THEN new ELSE place[2]]
      linked == IF t.nodes[place[1]].bitNum \in key THEN [t.nodes EXCEPT ![place[1]].rightN = new]
                                                     ELSE [t.nodes EXCEPT ![place[1]].leftN = new]
  IN  IF near = key THEN t
                    ELSE [nodes |-> Append(linked, node), count |-> t.count + 1]

\* The children a node deletes: those that test a lower bit.
Owned(nodes, n) ==
  {c \in {nodes[n].leftN, nodes[n].rightN} : nodes[n].bitNum > nodes[c].bitNum}
=============================================================================
