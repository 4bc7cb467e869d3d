----------------------------- MODULE CommonTree -----------------------------
(***************************************************************************)
(* The trees a parser builds: CommonTree and CommonTreeAdaptor of the       *)
(* parser runtime (opt_grammar/antlr/antlr3commontree.inl,                  *)
(* antlr3commontreeadaptor.inl), as operators on a heap of nodes.  A node   *)
(* is its place in the heap, 0 the null pointer.                            *)
(*                                                                         *)
(* The program's grammar builds no tree, so the compiler has seen these     *)
(* templates uninstantiated only: a call of a member that is not there      *)
(* (setParent, setChildIndex) is read as the one that is (set_parent,       *)
(* set_childIndex).                                                         *)
(***************************************************************************)
EXTENDS Integers, SequencesExt

Null == 0

\* A nil node, the root of a list, has no token.
NoToken == 0

Node(token) == [token |-> token, children |-> <<>>, parent |-> Null, childIndex |-> 0,
                start |-> 0, stop |-> 0, deleted |-> FALSE]

\* What an operation leaves: the heap, and the node it returns.
Result(heap, node) == [heap |-> heap, node |-> node]

create(h, token) == Result(Append(h, Node(token)), Len(h) + 1)

nilNode(h) == create(h, NoToken)

isNilNode(h, t) == h[t].token = NoToken

getChild(h, t, i) == IF i < Len(h[t].children) THEN h[t].children[i + 1] ELSE Null

freshenPACIndexes(h, t, offset) ==
  FoldLeft(LAMBDA x, c : [x EXCEPT ![h[t].children[c]].childIndex = c - 1,
                                   ![h[t].children[c]].parent = t],
           h, [k \in 1 .. Len(h[t].children) - offset |-> offset + k])

\* The children of a list become those of an empty node.
SwappedInto(h, t, child) ==
  freshenPACIndexes([h EXCEPT ![t].children = h[child].children, ![child].children = <<>>], t, 0)

\* Parent and index of a child are set in the case of an empty node only.
addChild(h, t, child) ==
  IF child = Null THEN h
  ELSE IF ~ isNilNode(h, child) THEN [h EXCEPT ![t].children = Append(@, child)]
  ELSE IF h[child].children \in {<<>>, h[t].children} THEN h
  ELSE IF h[t].children = <<>> THEN SwappedInto(h, t, child)
  ELSE [h EXCEPT ![t].children = @ \o SelectSeq(h[child].children, LAMBDA c : c # Null)]

reuse(h, t) == [h EXCEPT ![t].deleted = TRUE]

\* A list of one node gives way to that node; one of more stays a list, and the
\* old root is lost.
becomeRoot(h, newRoot, oldRoot) ==
  IF newRoot = Null THEN Result(h, oldRoot)
  ELSE IF oldRoot = Null \/ (isNilNode(h, newRoot) /\ Len(h[newRoot].children) > 1)
    THEN Result(h, newRoot)
  ELSE LET r == IF isNilNode(h, newRoot) THEN Result(reuse(h, newRoot), getChild(h, newRoot, 0))
                                         ELSE Result(h, newRoot)
           added == addChild(r.heap, r.node, oldRoot)
       IN  Result(IF isNilNode(added, oldRoot) THEN reuse(added, oldRoot) ELSE added, r.node)

becomeRootToken(h, token, oldRoot) ==
  LET new == create(h, token) IN becomeRoot(new.heap, new.node, oldRoot)

addChildToken(h, t, token) ==
  LET new == create(h, token) IN addChild(new.heap, t, new.node)

\* Nothing, the only child of a list, or the tree as it is.
rulePostProcessing(h, root) ==
  IF ~ isNilNode(h, root) \/ Len(h[root].children) > 1 THEN Result(h, root)
  ELSE IF h[root].children = <<>> THEN Result(h, Null)
  ELSE LET child == getChild(h, root, 0)
       IN  Result([reuse(h, root) EXCEPT ![child].parent = Null, ![child].childIndex = -1], child)

setTokenBoundaries(h, t, start, stop) ==
  IF t = Null THEN h ELSE [h EXCEPT ![t].start = start, ![t].stop = stop]

dupNode(h, t) == IF t = Null THEN Result(h, Null) ELSE create(h, h[t].token)

\* The copy of a child gets the original as its parent.
RECURSIVE dupTreeTT(_, _, _)
dupTreeTT(h, t, parent) ==
  IF t = Null THEN Result(h, Null)
  ELSE LET new == dupNode(h, t)
           placed == [new.heap EXCEPT ![new.node].childIndex = h[t].childIndex,
                                      ![new.node].parent = parent]
       IN  FoldLeft(LAMBDA r, child : LET sub == dupTreeTT(r.heap, child, t)
                                      IN  Result(addChild(sub.heap, r.node, sub.node), r.node),
                    Result(placed, new.node), h[t].children)

\* The same of the tree itself, which leaves parents and indexes to addChild.
RECURSIVE dupTree(_, _)
dupTree(h, t) ==
  FoldLeft(LAMBDA r, child : LET sub == dupTree(r.heap, child)
                             IN  Result(addChild(sub.heap, r.node, sub.node), r.node),
           dupNode(h, t), h[t].children)

deleteChild(h, t, i) == [h EXCEPT ![t].children = RemoveAt(@, i + 1)]

\* The children behind the one that is set are dropped.
setChild(h, t, i, child) == [h EXCEPT ![t].children = Append(SubSeq(@, 1, i), child)]

\* With as many new children as old ones each place gets the first of them, and
\* those in excess are put behind all children.
replaceChildren(h, t, startChildIndex, stopChildIndex, newTree) ==
  LET new == IF isNilNode(h, newTree) THEN h[newTree].children ELSE <<newTree>>
      old == h[t].children
      howMany == stopChildIndex - startChildIndex + 1
      direct == IF howMany < Len(new) THEN howMany ELSE Len(new)
      kept == SubSeq(old, 1, startChildIndex)
      after == SubSeq(old, stopChildIndex + 2, Len(old))
  IN  IF old = <<>> THEN h
      ELSE IF howMany = Len(new)
        THEN [h EXCEPT ![t].children = kept \o [k \in 1 .. howMany |-> new[1]] \o after,
                       ![new[1]].parent = t, ![new[1]].childIndex = stopChildIndex]
      ELSE freshenPACIndexes(
             [h EXCEPT ![t].children =
                kept \o SubSeq(new, 1, direct) \o after \o SubSeq(new, direct + 1, Len(new))],
             t, startChildIndex)
\* The line of a list is that of its first child; a token is on a line of its own.
RECURSIVE getLine(_, _)
getLine(h, t) ==
  IF ~ isNilNode(h, t) THEN h[t].token
  ELSE IF h[t].children = <<>> THEN 0
  ELSE getLine(h, getChild(h, t, 0))

OPEN  == -5
CLOSE == -6

\* The tree in brackets.
RECURSIVE toStringTree(_, _)
toStringTree(h, t) ==
  LET below == FlattenSeq([c \in DOMAIN h[t].children |-> toStringTree(h, h[t].children[c])])
  IN  IF h[t].children = <<>> THEN <<h[t].token>>
      ELSE IF isNilNode(h, t) THEN below
      ELSE <<OPEN, h[t].token>> \o below \o <<CLOSE>>
----------------------------------------------------------------------------
(* The drawing of a tree: the nodes that are defined and the edges.          *)
RECURSIVE defineDotNodes(_, _)
defineDotNodes(h, t) ==
  FlattenSeq([c \in DOMAIN h[t].children |->
                <<h[t].children[c]>> \o defineDotNodes(h, h[t].children[c])])

RECURSIVE defineDotEdges(_, _)
defineDotEdges(h, t) ==
  FlattenSeq([c \in DOMAIN h[t].children |->
                <<<<t, h[t].children[c]>>>> \o defineDotEdges(h, h[t].children[c])])

makeDot(h, t) == [nodes |-> <<t>> \o defineDotNodes(h, t), edges |-> defineDotEdges(h, t)]
=============================================================================
