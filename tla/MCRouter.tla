------------------------------ MODULE MCRouter ------------------------------
(* Graphs for checking Router: all small simple graphs with weights of      *)
(* choice, graphs with parallel edges and self-loops, and graphs with a     *)
(* negative edge.                                                           *)
EXTENDS Router, FiniteSetsExt

CONSTANT MaxEdges    \* no graph of WeightlessGraphs has more edges

AsEdge(p, w) == [from |-> p[1], to |-> p[2], weight |-> w]

\* All pairs of distinct vertices, in the order their edges are added:
\* identifiers only break ties between parallel edges, which the family
\* MultiGraphs has.
Pairs ==
  [k \in 1 .. VertexCount * (VertexCount - 1) |->
     LET f == (k - 1) \div (VertexCount - 1)
         r == (k - 1) % (VertexCount - 1)
     IN <<f, IF r < f THEN r ELSE r + 1>>]

\* At most one edge for a pair; ws[k] < 0 stands for none.
GraphOf(ws) ==
  LET present == SelectSeq([k \in DOMAIN Pairs |-> k], LAMBDA k : ws[k] >= 0)
  IN [n \in DOMAIN present |-> AsEdge(Pairs[present[n]], ws[present[n]])]

SimpleGraphs == {GraphOf(ws) : ws \in [DOMAIN Pairs -> {-1, 0, 1, 3}]}

\* The self-loop of every vertex the transport router adds first, then up to
\* three edges in every order, parallel ones among them.
Loops == [v \in 1 .. VertexCount |-> AsEdge(<<v - 1, v - 1>>, 0)]

MultiEdge ==
  {AsEdge(p, w) : p \in {<<0, 1>>, <<1, 0>>, <<1, 2>>, <<2, 0>>, <<2, 2>>}, w \in {0, 2}}

MultiGraphs == {Loops \o s : s \in UNION {[1 .. n -> MultiEdge] : n \in 0 .. 3}}

\* Every edge weighs nothing (stops at one place, no time to wait).
WeightlessGraphs ==
  {GraphOf([k \in DOMAIN Pairs |-> IF k \in P THEN 0 ELSE -1]) :
     P \in UNION {kSubset(n, DOMAIN Pairs) : n \in 0 .. MaxEdges}}

\* A negative weight somewhere among the edges.
NegativeGraphs ==
  {s \in [1 .. 3 -> {AsEdge(p, w) : p \in {<<0, 1>>, <<1, 2>>, <<2, 0>>}, w \in {-2, 0, 1}}] :
     \E k \in 1 .. 3 : s[k].weight < 0}

TiesAndNegatives == WeightlessGraphs \cup MultiGraphs \cup NegativeGraphs
=============================================================================
