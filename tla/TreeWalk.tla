------------------------------ MODULE TreeWalk ------------------------------
(***************************************************************************)
(* How trees are built and walked: the rules of a parser that build trees   *)
(* with the adaptor (CommonTree), the streams a rewriting rule collects its *)
(* elements in (antlr3rewritestreams.inl), and the stream of nodes a tree   *)
(* parser reads (antlr3commontreenodestream.inl, antlr3intstream.inl).      *)
(* The tokens are numbered as they come.                                    *)
(***************************************************************************)
EXTENDS CommonTree

CONSTANTS
  MaxTreeTokens,  \* bound on the tokens
  MaxRules,       \* bound on the rules within each other
  MaxUses,        \* bound on how often a rewriting uses its elements
  MaxNodes        \* no rule is entered with more nodes

VARIABLES
  heap,
  rules,      \* for each rule being parsed: what it builds, or collects to rewrite
  next,       \* the token to be matched
  root,       \* the tree of the outermost rule, once it is there
  replaced,   \* the children a tree grammar has replaced: from, to, and by how many
  copied,     \* the tree is a copy
  nodes,      \* m_nodes and m_p of the node stream, -1 as long as it is not filled
  p,
  ast         \* the tree the rules describe, as a value

built == <<heap, rules, next, root, replaced, copied, ast>>
walk  == <<nodes, p>>
vars  == <<built, walk>>

DOWN == -1
UP   == -2
EOF_NODE == -3
INVALID_NODE == -4

\* A tree as a value: a token, none for a list, and trees.
Ast(token, kids) == [token |-> token, kids |-> kids]

Kids(a) == IF a.token = NoToken THEN a.kids ELSE <<a>>

\* What a rule that is done hands on: nothing, a tree, or a list of several.
Done(a) == IF a.token = NoToken /\ Len(a.kids) = 1 THEN a.kids[1] ELSE a
----------------------------------------------------------------------------
(* The streams of a rewriting rule.                                         *)
Empty == [single |-> Null, elements |-> <<>>, cursor |-> 0, dirty |-> FALSE]

reset(s) == [s EXCEPT !.cursor = 0, !.dirty = TRUE]

add(s, el) ==
  IF el = Null THEN s
  ELSE IF s.elements # <<>> THEN [s EXCEPT !.elements = Append(@, el)]
  ELSE IF s.single = Null THEN [s EXCEPT !.single = el]
  ELSE [s EXCEPT !.elements = <<s.single, el>>, !.single = Null]

size(s) == IF s.single # Null THEN 1 ELSE Len(s.elements)

hasNext(s) == s.cursor < size(s)

\* The element at the cursor, a single one again and again; none when they ran out.
_next(s) ==
  IF s.cursor >= size(s) THEN [stream |-> s, el |-> s.single]
  ELSE [stream |-> [s EXCEPT !.cursor = @ + 1],
        el |-> IF s.single # Null THEN s.single ELSE s.elements[s.cursor + 1]]

\* A tree that was used before is copied: its root node, without its children.
dup(h, el) == dupNode(h, el)

\* Mutant: only a tree that ran out is copied, not one after a reset.
TreeWhileClean(h, s) ==
  LET n == _next(s)
      r == IF s.cursor >= size(s) /\ size(s) = 1 THEN dup(h, n.el) ELSE Result(h, n.el)
  IN  [heap |-> r.heap, stream |-> n.stream, el |-> r.node]

nextTree(h, s) ==
  LET n == _next(s)
      r == IF s.dirty \/ (s.cursor >= size(s) /\ size(s) = 1) THEN dup(h, n.el) ELSE Result(h, n.el)
  IN  [heap |-> r.heap, stream |-> n.stream, el |-> r.node]

nextNode(h, s) ==
  LET n == _next(s)
      r == create(h, n.el)
  IN  [heap |-> r.heap, stream |-> n.stream, el |-> r.node]
----------------------------------------------------------------------------
(* The rules.  The code a grammar generates is not in the repository; it     *)
(* calls the adaptor as the comments of the adaptor and the streams say.     *)
Rule(nil, rewrites) ==
  [root |-> nil, rewrites |-> rewrites, start |-> next, tokens |-> Empty, trees |-> Empty]

Top == Last(rules)
SetTop(r) == rules' = [rules EXCEPT ![Len(rules)] = r]
SetAst(a) == ast' = [ast EXCEPT ![Len(rules)] = a]

Building == root = Null /\ rules # <<>>

Init ==
  LET nil == nilNode(<<>>)
  IN  /\ heap = nil.heap
      /\ next = 1
      /\ \E rewrites \in BOOLEAN : rules = <<Rule(nil.node, rewrites)>>
      /\ ast = <<Ast(NoToken, <<>>)>>
      /\ root = Null
      /\ replaced = <<>> /\ copied = FALSE
      /\ nodes = <<>> /\ p = -1

EnterRule(rewrites) ==
  LET nil == nilNode(heap)
  IN  /\ Building
      /\ Len(rules) < MaxRules /\ next <= MaxTreeTokens /\ Len(heap) <= MaxNodes
      /\ heap' = nil.heap
      /\ rules' = Append(rules, Rule(nil.node, rewrites))
      /\ ast' = Append(ast, Ast(NoToken, <<>>))
      /\ UNCHANGED <<next, root, replaced, copied, walk>>

\* A token becomes a child of what the rule builds so far.
MatchToken ==
  /\ Building /\ ~ Top.rewrites
  /\ next <= MaxTreeTokens
  /\ heap' = addChildToken(heap, Top.root, next)
  /\ next' = next + 1
  /\ SetAst(Ast(Last(ast).token, Append(Last(ast).kids, Ast(next, <<>>))))
  /\ UNCHANGED <<rules, root, replaced, copied, walk>>

\* ... or its root (ID^).
MatchRoot ==
  /\ Building /\ ~ Top.rewrites
  /\ next <= MaxTreeTokens
  /\ LET r == becomeRootToken(heap, next, Top.root)
     IN  heap' = r.heap /\ SetTop([Top EXCEPT !.root = r.node])
  /\ next' = next + 1
  /\ SetAst(Ast(next, Kids(Last(ast))))
  /\ UNCHANGED <<root, replaced, copied, walk>>

\* ... or is collected.
CollectToken ==
  /\ Building /\ Top.rewrites
  /\ next <= MaxTreeTokens
  /\ SetTop([Top EXCEPT !.tokens = add(@, next)])
  /\ next' = next + 1
  /\ SetAst([Last(ast) EXCEPT !.kids = Append(@, Ast(next, <<>>))])
  /\ UNCHANGED <<heap, root, replaced, copied, walk>>

\* One use of -> ^(TOKEN trees*): a root, and under it the trees that are left.
RECURSIVE AllTrees(_, _, _)
AllTrees(h, t, s) ==
  IF ~ hasNext(s) THEN [heap |-> h, stream |-> s]
  ELSE LET n == nextTree(h, s) IN AllTrees(addChild(n.heap, t, n.el), t, n.stream)

Rewritten(r, rule) ==
  LET nil  == nilNode(r.heap)
      id   == nextNode(nil.heap, r.tokens)
      top  == becomeRoot(id.heap, id.el, nil.node)
      kids == AllTrees(top.heap, top.node, r.trees)
  IN  [heap |-> addChild(kids.heap, rule.root, top.node), tokens |-> id.stream,
       trees |-> reset(kids.stream)]

\* The rule is rewritten to one such tree, or to several: a token for each, or
\* the only one again, and the trees each time.
Rewrite(uses) ==
  /\ Building /\ Top.rewrites
  /\ uses \in 1 .. MaxUses
  /\ size(Top.tokens) = 1 \/ uses <= size(Top.tokens)
  /\ LET r == FoldLeft(LAMBDA x, k : Rewritten(x, Top),
                       [heap |-> heap, tokens |-> Top.tokens, trees |-> Top.trees],
                       [k \in 1 .. uses |-> k])
         IsTok(a) == a.token \in ({Top.tokens.single} \cup ToSet(Top.tokens.elements)) \ {NoToken}
         toks  == SelectSeq(Last(ast).kids, IsTok)
         trees == SelectSeq(Last(ast).kids, LAMBDA a : ~ IsTok(a))
         Tok(k) == IF Len(toks) = 1 THEN toks[1].token ELSE toks[k].token
         Copies == [j \in DOMAIN trees |-> Ast(trees[j].token, <<>>)]
         Listed == SelectSeq(Copies, LAMBDA a : a.token # NoToken)
     IN  /\ heap' = r.heap
         /\ SetTop([Top EXCEPT !.rewrites = FALSE, !.tokens = Empty, !.trees = Empty])
         /\ SetAst(Ast(NoToken, [k \in 1 .. uses |->
                      Ast(Tok(k), IF k = 1 THEN FlattenSeq([j \in DOMAIN trees |-> Kids(trees[j])])
                                           ELSE Listed)]))
  /\ UNCHANGED <<next, root, replaced, copied, walk>>

\* The tree of a rule goes into that of the rule around it.
LeaveRule ==
  /\ Building /\ ~ Top.rewrites
  /\ LET r == rulePostProcessing(heap, Top.root)
         h == setTokenBoundaries(r.heap, r.node, Top.start, next - 1)
         outer == Len(rules) - 1
         a == Done(Last(ast))
     IN  IF outer = 0
           THEN /\ heap' = h /\ root' = r.node
                /\ rules' = <<>> /\ ast' = <<a>>
         ELSE IF rules[outer].rewrites
           THEN /\ heap' = h /\ UNCHANGED root
                /\ rules' = [Front(rules) EXCEPT ![outer].trees = add(@, r.node)]
                /\ ast' = [Front(ast) EXCEPT ![outer].kids =
                             IF r.node = Null THEN @ ELSE Append(@, a)]
         ELSE   /\ heap' = addChild(h, rules[outer].root, r.node) /\ UNCHANGED root
                /\ rules' = Front(rules)
                /\ ast' = [Front(ast) EXCEPT ![outer].kids = @ \o Kids(a)]
  /\ UNCHANGED <<next, replaced, copied, walk>>

\* A tree is changed once, or copied, before it is walked again.
Changeable == root # Null /\ p = -1 /\ replaced = <<>> /\ ~ copied

\* A tree grammar that rewrites puts new nodes into the place of some children.
ReplaceChildren(from, to, count) ==
  /\ Changeable
  /\ from \in 0 .. to /\ to < Len(heap[root].children)
  /\ LET nil == nilNode(heap)
         h == FoldLeft(LAMBDA x, k : addChildToken(x, nil.node, next + k - 1),
                       nil.heap, [k \in 1 .. count |-> k])
     IN  heap' = replaceChildren(h, root, from, to, nil.node)
  /\ ast' = <<[ast[1] EXCEPT !.kids =
                SubSeq(@, 1, from) \o [k \in 1 .. count |-> Ast(next + k - 1, <<>>)]
                  \o SubSeq(@, to + 2, Len(@))]>>
  /\ replaced' = [from |-> from, to |-> to, of |-> Len(heap[root].children), by |-> count]
  /\ UNCHANGED <<rules, next, root, copied, walk>>

\* One child is deleted ...
DeleteChild(i) ==
  /\ Changeable
  /\ i < Len(heap[root].children)
  /\ heap' = deleteChild(heap, root, i)
  /\ ast' = <<[ast[1] EXCEPT !.kids = RemoveAt(@, i + 1)]>>
  /\ replaced' = [from |-> i, to |-> i, of |-> Len(heap[root].children), by |-> 0]
  /\ UNCHANGED <<rules, next, root, copied, walk>>

\* ... or set.
SetChild(i) ==
  /\ Changeable
  /\ i < Len(heap[root].children)
  /\ LET new == create(heap, next) IN heap' = setChild(new.heap, root, i, new.node)
  /\ ast' = <<[ast[1] EXCEPT !.kids = Append(SubSeq(@, 1, i), Ast(next, <<>>))]>>
  /\ replaced' = [from |-> i, to |-> Len(heap[root].children) - 1,
                  of |-> Len(heap[root].children), by |-> 1]
  /\ UNCHANGED <<rules, next, root, copied, walk>>

\* A tree is copied to be walked in its place, by the adaptor or by itself.
CopyTree ==
  /\ Changeable
  /\ \E r \in {dupTreeTT(heap, root, Null), dupTree(heap, root)} :
       heap' = r.heap /\ root' = r.node
  /\ copied' = TRUE
  /\ UNCHANGED <<rules, next, replaced, ast, walk>>
----------------------------------------------------------------------------
(* The stream of nodes.                                                      *)
RECURSIVE fillBuffer(_, _)
fillBuffer(h, t) ==
  LET below == FlattenSeq([c \in DOMAIN h[t].children |-> fillBuffer(h, h[t].children[c])])
  IN  IF isNilNode(h, t) THEN below
      ELSE IF below = <<>> THEN <<t>>
      ELSE <<t, DOWN>> \o below \o <<UP>>

fillBufferRoot == /\ nodes' = IF p = -1 THEN fillBuffer(heap, root) ELSE nodes
                  /\ p' = IF p = -1 THEN 0 ELSE p

\* The node k places from index i, counted from where the cursor is.
LB(buf, i, k) == IF k = 0 \/ i - k < 0 THEN INVALID_NODE ELSE buf[i - k + 1]

_LT(buf, i, k) ==
  IF k < 0 THEN LB(buf, i, -k)
  ELSE IF k = 0 THEN INVALID_NODE
  ELSE IF i + k - 1 >= Len(buf) THEN EOF_NODE
  ELSE buf[i + k]

Walking == root # Null

\* The first lookahead, mark or question for the size fills the stream.
Fill == Walking /\ p = -1 /\ fillBufferRoot /\ UNCHANGED built

\* A tree parser does not go past the end.
Consume ==
  /\ Walking
  /\ p = -1 \/ p < Len(nodes)
  /\ nodes' = IF p = -1 THEN fillBuffer(heap, root) ELSE nodes
  /\ p' = IF p = -1 THEN 1 ELSE p + 1
  /\ UNCHANGED built

Seek(index) ==
  /\ Walking /\ p # -1
  /\ p' = index
  /\ UNCHANGED <<built, nodes>>

\* Back to a place that was marked: the stream keeps the last one, a marker may be
\* any it was at.
Rewind(marker) == marker < p /\ Seek(marker)

\* To a node and back to a place on the stack.
PushOrPop(index) == index # p /\ Seek(index)

resetStream == Seek(0)

Next ==
  \/ \E rewrites \in BOOLEAN : EnterRule(rewrites)
  \/ MatchToken \/ MatchRoot \/ CollectToken \/ LeaveRule
  \/ \E uses \in 1 .. MaxUses : Rewrite(uses)
  \/ \E from \in 0 .. MaxTreeTokens, to \in 0 .. MaxTreeTokens, count \in 1 .. 2 :
       ReplaceChildren(from, to, count)
  \/ \E i \in 0 .. MaxTreeTokens : DeleteChild(i) \/ SetChild(i)
  \/ CopyTree
  \/ Fill \/ Consume
  \/ \E index \in 0 .. Len(nodes) : Rewind(index) \/ PushOrPop(index)
  \/ resetStream

Spec == Init /\ [][Next]_vars
----------------------------------------------------------------------------
\* The tree as its symbols in order, with the ways down and up.
RECURSIVE Symbols(_)
Symbols(a) ==
  LET below == FlattenSeq([c \in DOMAIN a.kids |-> Symbols(a.kids[c])])
  IN  IF a.token = NoToken THEN below
      ELSE IF below = <<>> THEN <<a.token>>
      ELSE <<a.token, DOWN>> \o below \o <<UP>>

SymbolAt(symbols, i, k) ==
  LET place == IF k < 0 THEN i + k + 1 ELSE i + k
  IN  IF k = 0 \/ place < 1 THEN INVALID_NODE
      ELSE IF place > Len(symbols) THEN EOF_NODE
      ELSE symbols[place]

Symbol(node) == IF node < 0 THEN node ELSE heap[node].token

\* One child in place of one, fewer in place of more, or any number at the end.
PlacedRight == \/ replaced = <<>>
               \/ replaced.by = 1 /\ replaced.to = replaced.from
               \/ replaced.by < replaced.to - replaced.from + 1
               \/ replaced.by > replaced.to - replaced.from + 1 /\ replaced.to = replaced.of - 1

\* What a tree parser looks at is the tree the rules describe, its symbols in
\* order (antlr3commontreenodestream.inl:104-128, 365-420).
WalkIsInOrder ==
  p # -1 /\ PlacedRight =>
    LET symbols == Symbols(ast[1])
    IN  \A k \in -Len(nodes) .. Len(nodes) : Symbol(_LT(nodes, p, k)) = SymbolAt(symbols, p, k)

\* A tree in brackets.
RECURSIVE Text(_)
Text(a) ==
  LET below == FlattenSeq([c \in DOMAIN a.kids |-> Text(a.kids[c])])
  IN  IF a.kids = <<>> THEN <<a.token>>
      ELSE IF a.token = NoToken THEN below
      ELSE <<OPEN, a.token>> \o below \o <<CLOSE>>

\* What is written of a tree has its structure, and its line is its first symbol's
\* (antlr3commontree.inl:408-446, 469-510).
TextIsTheTree ==
  root # Null /\ p = -1 /\ PlacedRight =>
    /\ toStringTree(heap, root) = Text(ast[1])
    /\ getLine(heap, root) = SymbolAt(Symbols(ast[1]) \o <<0>>, 0, 1)

\* No node is in two places of a tree, none of its nodes is freed, and the tokens
\* below a node are those of its rule (antlr3commontreeadaptor.inl:98-166, 340-374,
\* 466-640).
TreeIsATree ==
  root # Null /\ p = -1 /\ PlacedRight =>
    LET dot   == makeDot(heap, root)
        names == ToSet(dot.nodes)
    IN  /\ IsInjective(dot.nodes)
        /\ \A n \in names : ~ heap[n].deleted
        /\ \A n \in names \ {root} : Cardinality({e \in ToSet(dot.edges) : e[2] = n}) = 1
        /\ \A n \in names : heap[n].start # 0 /\ replaced = <<>> =>
             \A m \in ToSet(makeDot(heap, n).nodes) :
               heap[m].token \in {NoToken} \cup heap[n].start .. heap[n].stop

TreeIsWalked == WalkIsInOrder /\ TextIsTheTree /\ TreeIsATree
=============================================================================
