-------------------------------- MODULE Topo --------------------------------
(***************************************************************************)
(* The topological sorter of the parser runtime                             *)
(* (opt_grammar/antlr/antlr3collections.inl:546-992): nodes are numbers, a  *)
(* node's edges lead to what it depends on, and a depth first search puts   *)
(* each node behind those, or finds a cycle.                                *)
(***************************************************************************)
EXTENDS Integers, SequencesExt, FiniteSetsExt

CONSTANTS
  MaxNode,  \* nodes are numbered from 0
  MaxEdges  \* bound on the edges that are added

VARIABLES
  edges,    \* for each node below the limit, what it depends on
  added,    \* the number of edges that were added
  result,   \* what the search leaves, or NotSorted
  vector    \* the entries of a vector, sorted along

vars == <<edges, added, result, vector>>

NotSorted == [visited |-> {}, cycle |-> <<>>, sorted |-> <<>>, hasCycle |-> FALSE]

limit == Cardinality(DOMAIN edges)

Entries == [k \in 1 .. MaxNode + 1 |-> k - 1]

Init ==
  /\ edges = [n \in {} |-> {}]
  /\ added = 0
  /\ result = NotSorted
  /\ vector = Entries

\* The array reaches to the larger of the nodes; an edge to itself only makes room.
AddEdge(edge, dependency) ==
  /\ result = NotSorted
  /\ added < MaxEdges
  /\ added' = added + 1
  /\ LET nodes == 0 .. Max({limit - 1, edge, dependency})
         deps(n) == IF n \in DOMAIN edges THEN edges[n] ELSE {}
     IN  edges' = [n \in nodes |-> deps(n) \cup (IF n = edge THEN {dependency} \ {edge} ELSE {})]
  /\ UNCHANGED <<result, vector>>

\* Mutant: a node is put into the list before what it depends on.
RECURSIVE Preorder(_, _)
Preorder(s, node) ==
  LET at == {i \in DOMAIN s.cycle : s.cycle[i] = node}
      entered == [s EXCEPT !.cycle = Append(@, node), !.visited = @ \cup {node}, !.sorted = Append(@, node)]
      below == FoldLeft(LAMBDA r, n : Preorder(r, n), entered, SetToSortSeq(edges[node], <))
  IN  CASE s.hasCycle -> s
        [] ~ s.hasCycle /\ node \in s.visited ->
             IF at = {} THEN s ELSE [s EXCEPT !.cycle = SubSeq(@, Min(at), Len(@)), !.hasCycle = TRUE]
        [] OTHER -> [below EXCEPT !.cycle = IF below.hasCycle THEN @ ELSE Front(@)]

\* A node that is met again while it is being searched closes a cycle, and the
\* stack of those being searched is cut to it.
RECURSIVE DFS(_, _)
DFS(s, node) ==
  LET at == {i \in DOMAIN s.cycle : s.cycle[i] = node}
      entered == [s EXCEPT !.cycle = Append(@, node), !.visited = @ \cup {node}]
      below == FoldLeft(LAMBDA r, n : DFS(r, n), entered, SetToSortSeq(edges[node], <))
  IN  CASE s.hasCycle -> s
        [] ~ s.hasCycle /\ node \in s.visited ->
             IF at = {} THEN s ELSE [s EXCEPT !.cycle = SubSeq(@, Min(at), Len(@)), !.hasCycle = TRUE]
        [] OTHER -> [below EXCEPT !.sorted = Append(@, node),
                                  !.cycle = IF below.hasCycle THEN @ ELSE Front(@)]

sortToArray == FoldLeft(LAMBDA s, v : DFS(s, v), NotSorted, SetToSortSeq(DOMAIN edges, <))

\* Entry i is swapped with the one that belongs there, found through vIndex; the
\* one swapped out is noted as entry i, which it is only if nothing was swapped
\* into its place before.
Swapped(s, sorted, i) ==
  LET ind == s.vIndex[sorted[i + 1]]
  IN  IF ind = i THEN s
      ELSE [v |-> [s.v EXCEPT ![i + 1] = s.v[ind + 1], ![ind + 1] = s.v[i + 1]],
            vIndex |-> [s.vIndex EXCEPT ![sorted[i + 1]] = i, ![i] = ind]]

sortVector(sorted) ==
  LET n == Len(sorted)
      start == [v |-> vector, vIndex |-> [i \in 0 .. n - 1 |-> i]]
  IN  FoldLeft(LAMBDA s, i : Swapped(s, sorted, i), start, [k \in 1 .. n |-> k - 1]).v

\* Nothing is moved when there is a cycle.
Sort ==
  /\ result = NotSorted
  /\ edges # [n \in {} |-> {}]
  /\ result' = sortToArray
  /\ vector' = IF result'.hasCycle THEN vector ELSE sortVector(result'.sorted)
  /\ UNCHANGED <<edges, added>>

Next == Sort \/ \E e, d \in 0 .. MaxNode : AddEdge(e, d)

Spec == Init /\ [][Next]_vars
----------------------------------------------------------------------------
Place(seq, n) == CHOOSE i \in DOMAIN seq : seq[i] = n

\* A cycle that is reported is one of the edges.
IsCycle(seq) ==
  /\ seq # <<>>
  /\ \A i \in DOMAIN seq : seq[1 + (i % Len(seq))] \in edges[seq[i]]

\* Every node once, behind all it depends on.
IsOrder(seq) ==
  /\ ToSet(seq) = DOMAIN edges /\ Len(seq) = limit
  /\ \A n \in DOMAIN edges : \A d \in edges[n] : Place(seq, d) < Place(seq, n)

\* Two entries are exchanged, never copied: no entry of the vector gets lost.
EntriesAreKept == ToSet(vector) = ToSet(Entries)

\* "any node is sorted after all its dependent nodes" (antlr3collections.inl:550):
\* the search ends with an order of all nodes, or with nodes that depend on each
\* other in a circle, in the order in which they do.
SortedOrCycle ==
  /\ result # NotSorted =>
       IF result.hasCycle THEN IsCycle(result.cycle) ELSE IsOrder(result.sorted)
  /\ EntriesAreKept
=============================================================================
