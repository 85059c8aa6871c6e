---------------------------- MODULE RouterProofs ----------------------------
(***************************************************************************)
(* Proofs about Router, for every number of vertices and every set of       *)
(* graphs: the type invariant; the invariants of the in-place relaxation    *)
(* and of the stored last edges; that the routes BuildRoute reads back are  *)
(* routes of least weight among all walks of the graph; and that the router *)
(* implements RoutePlanner step by step.                                    *)
(***************************************************************************)
EXTENDS Router, DataLemmas

-----------------------------------------------------------------------------
(* Operators the model is built from.                                       *)

\* What an update of one cell of a matrix leaves in every cell.
LEMMA CellUpdate ==
  ASSUME NEW S, NEW V, NEW M \in [S -> [S -> V]], NEW a \in S, NEW b \in S,
         NEW c \in V
  PROVE  /\ [M EXCEPT ![a][b] = c] \in [S -> [S -> V]]
         /\ \A i, j \in S :
              [M EXCEPT ![a][b] = c][i][j] =
                IF i = a /\ j = b THEN c ELSE M[i][j]
  OBVIOUS

\* Reversing a sequence keeps what its elements are.
LEMMA ReverseType ==
  ASSUME NEW S, NEW s \in Seq(S)
  PROVE  Reverse(s) \in Seq(S)
<1>1. \A k \in 1 .. Len(s) : s[(Len(s) - k) + 1] \in S
  OBVIOUS
<1> QED
  BY <1>1 DEF Reverse

\* An edge of the graph joins vertices of the graph.
LEMMA EdgeType ==
  ASSUME TypeOK
  PROVE  \A e \in DOMAIN edges :
           /\ edges[e].from \in Vertex
           /\ edges[e].to \in Vertex
           /\ edges[e].weight \in Int
           /\ e \in Nat \ {0}
<1>1. IsGraph(edges)
  BY DEF TypeOK
<1>2. \A e \in DOMAIN edges : e \in Nat \ {0}
  BY <1>1 DEF IsGraph
<1> QED
  BY <1>1, <1>2 DEF IsGraph

\* The loop variables of the relaxation stay in range when they advance.
LEMMA LoopType ==
  ASSUME TypeOK, through < VertexCount
  PROVE  /\ from \in Vertex /\ to \in Vertex /\ through \in Vertex
         /\ NextRow => /\ through' \in 0 .. VertexCount
                       /\ from' \in Vertex /\ to' \in Vertex
         /\ NextCell => /\ through' \in 0 .. VertexCount
                        /\ from' \in Vertex /\ to' \in Vertex
  BY VertexCountAssumption DEF TypeOK, Vertex, NextRow, NextCell

-----------------------------------------------------------------------------
(* The type invariant.                                                      *)

\* The constructor begins with everything of its type, whatever the graph.
LEMMA TypeStart ==
  ASSUME NEW graph, IsGraph(graph), Start(graph)
  PROVE  TypeOK
<1>1. IsGraph(edges)
  BY DEF Start
<1> QED
  BY <1>1, VertexCountAssumption
  DEF Start, TypeOK, Vertex, Phases, NoRoute, NoEdge, NoAnswer

\* The types are right at the beginning.
LEMMA TypeInit == Init => TypeOK
  BY GraphsAssumption, TypeStart DEF Init

\* Every step of the constructor and of BuildRoute keeps the types.
LEMMA TypeNext == TypeOK /\ [Next]_vars => TypeOK'
<1> SUFFICES ASSUME TypeOK, [Next]_vars
             PROVE  TypeOK'
  OBVIOUS
<1> USE VertexCountAssumption
<1>0. ASSUME UNCHANGED vars PROVE TypeOK'
  BY <1>0 DEF TypeOK, vars, matrix, loops, building
<1>1. ASSUME EnterVertex PROVE TypeOK'
  <2>1. vertex \in Vertex
    BY <1>1 DEF EnterVertex, TypeOK, Vertex
  <2>2. /\ weight' \in [Vertex -> [Vertex -> Nat \cup {NoRoute}]]
        /\ prev_edge' \in [Vertex -> [Vertex -> DOMAIN edges \cup {NoEdge}]]
    BY <1>1, <2>1, CellUpdate DEF EnterVertex, TypeOK
  <2> QED
    BY <1>1, <2>2 DEF EnterVertex, TypeOK, Phases, building
<1>2. ASSUME NEW e \in Unvisited, VisitEdge(e) PROVE TypeOK'
  <2>1. /\ e \in DOMAIN edges /\ edges[e].from = vertex
        /\ edges[e].to \in Vertex /\ edges[e].weight \in Int
        /\ vertex \in Vertex
    BY EdgeType DEF Unvisited
  <2>2. ASSUME ~(edges[e].weight < 0)
        PROVE  /\ [weight EXCEPT ![vertex][edges[e].to] = edges[e].weight]
                    \in [Vertex -> [Vertex -> Nat \cup {NoRoute}]]
               /\ [prev_edge EXCEPT ![vertex][edges[e].to] = e]
                    \in [Vertex -> [Vertex -> DOMAIN edges \cup {NoEdge}]]
    BY <2>1, <2>2, CellUpdate DEF TypeOK
  <2>3. /\ weight' \in [Vertex -> [Vertex -> Nat \cup {NoRoute}]]
        /\ prev_edge' \in [Vertex -> [Vertex -> DOMAIN edges \cup {NoEdge}]]
        /\ pc' \in Phases
    BY <1>2, <2>2 DEF VisitEdge, TypeOK, matrix, Phases
  <2> QED
    BY <1>2, <2>1, <2>3 DEF VisitEdge, TypeOK, building
<1>3. ASSUME LeaveVertex PROVE TypeOK'
  <2>1. vertex + 1 \in 0 .. VertexCount
    BY <1>3 DEF LeaveVertex, TypeOK, Vertex
  <2> QED
    BY <1>3, <2>1 DEF LeaveVertex, TypeOK, Phases, matrix, building
<1>4. ASSUME BeginRelaxation PROVE TypeOK'
  BY <1>4 DEF BeginRelaxation, TypeOK, Phases, matrix, loops, building
<1>5. ASSUME SkipRow PROVE TypeOK'
  BY <1>5, LoopType DEF SkipRow, TypeOK, matrix, building
<1>6. ASSUME RelaxRoute PROVE TypeOK'
  <2>1. from \in Vertex /\ to \in Vertex /\ through \in Vertex
    BY <1>6, LoopType DEF RelaxRoute
  <2>2. ASSUME Known(through, to)
        PROVE  /\ [weight EXCEPT ![from][to] = Candidate]
                    \in [Vertex -> [Vertex -> Nat \cup {NoRoute}]]
               /\ [prev_edge EXCEPT ![from][to] = LastEdge]
                    \in [Vertex -> [Vertex -> DOMAIN edges \cup {NoEdge}]]
    <3>1. Candidate \in Nat
      BY <1>6, <2>1, <2>2 DEF RelaxRoute, Candidate, Known, TypeOK
    <3>2. LastEdge \in DOMAIN edges \cup {NoEdge}
      BY <2>1 DEF LastEdge, TypeOK
    <3> QED
      BY <2>1, <3>1, <3>2, CellUpdate DEF TypeOK
  <2>3. /\ weight' \in [Vertex -> [Vertex -> Nat \cup {NoRoute}]]
        /\ prev_edge' \in [Vertex -> [Vertex -> DOMAIN edges \cup {NoEdge}]]
    BY <1>6, <2>2 DEF RelaxRoute, TypeOK, matrix
  <2> QED
    BY <1>6, <2>3, LoopType DEF RelaxRoute, TypeOK, building
<1>7. ASSUME FinishRelaxation PROVE TypeOK'
  BY <1>7 DEF FinishRelaxation, TypeOK, Phases, matrix, loops, building
<1>8. ASSUME NEW f \in Vertex, NEW t \in Vertex, Ask(f, t) PROVE TypeOK'
  BY <1>8 DEF Ask, TypeOK, Phases, matrix, loops, NoAnswer
<1>9. ASSUME ReturnNothing PROVE TypeOK'
  BY <1>9 DEF ReturnNothing, TypeOK, Phases, matrix, loops, NoAnswer
<1>10. ASSUME PushEdge PROVE TypeOK'
  <2>1. edge_id \in DOMAIN edges /\ edges[edge_id].from \in Vertex
    BY <1>10, EdgeType DEF PushEdge, TypeOK
  <2>2. query.from \in Vertex
    BY <1>10 DEF PushEdge, TypeOK
  <2>3. path' \in Seq(DOMAIN edges)
    BY <1>10, <2>1 DEF PushEdge, TypeOK
  <2>4. edge_id' \in DOMAIN edges \cup {NoEdge}
    BY <1>10, <2>1, <2>2 DEF PushEdge, TypeOK
  <2> QED
    BY <1>10, <2>3, <2>4 DEF PushEdge, TypeOK, matrix, loops
<1>11. ASSUME ReturnRoute PROVE TypeOK'
  <2>1. Reverse(path) \in Seq(DOMAIN edges)
    BY ReverseType DEF TypeOK
  <2>2. query.from \in Vertex /\ query.to \in Vertex
    BY <1>11 DEF ReturnRoute, TypeOK
  <2>3. weight[query.from][query.to] \in Nat
    BY <1>11, <2>2 DEF ReturnRoute, TypeOK, Known
  <2> QED
    BY <1>11, <2>1, <2>3 DEF ReturnRoute, TypeOK, Phases, matrix, loops
<1> QED
  BY <1>0, <1>1, <1>2, <1>3, <1>4, <1>5, <1>6, <1>7, <1>8, <1>9, <1>10, <1>11
  DEF Next, Construct, BuildRoute

\* Every variable of the router keeps its type: the loops stay within the
\* matrix and the numbers stored in it are numbers of edges of the graph.
THEOREM TypeCorrect == Spec => []TypeOK
  BY TypeInit, TypeNext, PTL DEF Spec

-----------------------------------------------------------------------------
(* The matrix. One step of a pass is split in two: what the write does to   *)
(* the matrix while the pass is still through the same vertex (PassWrite),  *)
(* and what the advance of the loop variables makes of it (PassAdvance).    *)

\* The next state stores a route from i to j of weight x or less.
NextWithin(i, j, x) == weight'[i][j] # NoRoute /\ weight'[i][j] <= x

\* The loops are past the cell <<i, j>> after the step, in this pass.
NextPast(i, j) == through' # through \/ i < from' \/ (i = from' /\ j < to')

\* What a step within a pass establishes, with the routes through the
\* vertex of the pass still those of the state before.
PassStep ==
  /\ \A i \in Vertex : /\ weight'[i][through] = weight[i][through]
                       /\ weight'[through][i] = weight[through][i]
  /\ \A i, j \in Vertex :
       NextPast(i, j) /\ Known(i, through) /\ Known(through, j)
         => NextWithin(i, j, weight[i][through] + weight[through][j])
  /\ \A m, i, j \in Vertex :
       m < through /\ weight'[i][m] # NoRoute /\ weight'[m][j] # NoRoute
         => \/ NextWithin(i, j, weight'[i][m] + weight'[m][j])
            \/ Joins(i, j, weight'[i][m] + weight'[m][j])
  /\ \A i, j \in Vertex :
       /\ prev_edge'[i][j] # NoEdge =>
            /\ i # j /\ weight'[i][j] # NoRoute
            /\ edges[prev_edge'[i][j]].to = j
            /\ \/ NextWithin(i, edges[prev_edge'[i][j]].from,
                             weight'[i][j] - edges[prev_edge'[i][j]].weight)
               \/ Joins(i, edges[prev_edge'[i][j]].from,
                        weight'[i][j] - edges[prev_edge'[i][j]].weight)
       /\ weight'[i][j] # NoRoute /\ prev_edge'[i][j] = NoEdge => i = j

\* Advancing the loops: within a pass nothing else changes, and at its end
\* every join the pass was to make has been made.
LEMMA PassAdvance ==
  ASSUME TypeOK, TypeOK', through \in Vertex,
         through' = through \/ (through' = through + 1 /\ from' = 0 /\ to' = 0),
         edges' = edges, PassStep
  PROVE  TriangleInv' /\ PredecessorInv' /\ PassInv'
<1>0. \A i, j \in Vertex :
        /\ weight'[i][j] \in Nat \cup {NoRoute}
        /\ prev_edge'[i][j] # NoEdge =>
             /\ edges[prev_edge'[i][j]].from \in Vertex
             /\ edges[prev_edge'[i][j]].weight \in Int
  <2>1. /\ weight' \in [Vertex -> [Vertex -> Nat \cup {NoRoute}]]
        /\ prev_edge' \in [Vertex -> [Vertex -> DOMAIN edges \cup {NoEdge}]]
    BY DEF TypeOK
  <2>2. \A i, j \in Vertex : prev_edge'[i][j] # NoEdge => prev_edge'[i][j] \in DOMAIN edges
    BY <2>1
  <2> QED
    BY <2>1, <2>2, EdgeType
<1>1. CASE through' = through
  <2>1. TriangleInv'
    BY <1>1 DEF TriangleInv, PassStep, Promised, Joins, Within, Known, NextWithin
  <2>2. PredecessorInv'
    <3> SUFFICES ASSUME NEW i \in Vertex, NEW j \in Vertex
                 PROVE  /\ prev_edge'[i][j] # NoEdge =>
                             /\ i # j /\ weight'[i][j] # NoRoute
                             /\ edges[prev_edge'[i][j]].to = j
                             /\ Promised(i, edges[prev_edge[i][j]].from,
                                         weight[i][j] - edges[prev_edge[i][j]].weight)'
                        /\ weight'[i][j] # NoRoute /\ prev_edge'[i][j] = NoEdge
                             => i = j
      BY DEF PredecessorInv, Known
    <3>1. prev_edge'[i][j] # NoEdge => edges[prev_edge'[i][j]].from \in Vertex
      BY <1>0
    <3> QED
      BY <1>1, <3>1 DEF PassStep, Promised, Joins, Within, Known, NextWithin
  <2>3. PassInv'
    BY <1>1 DEF PassInv, PassStep, Within, Known, NextWithin, NextPast
  <2> QED
    BY <2>1, <2>2, <2>3
<1>2. CASE through' = through + 1
  <2>1. \A i, j \in Vertex, x \in Int : Joins(i, j, x) => NextWithin(i, j, x)
    BY <1>2, SMTT(30) DEF PassStep, NextPast, NextWithin, Joins, TypeOK, Known
  <2>2. TriangleInv'
    <3> SUFFICES ASSUME NEW m \in Vertex, NEW i \in Vertex, NEW j \in Vertex,
                        m < through',
                        weight'[i][m] # NoRoute, weight'[m][j] # NoRoute
                 PROVE  NextWithin(i, j, weight'[i][m] + weight'[m][j])
      BY DEF TriangleInv, Promised, Within, Known, NextWithin
    <3>1. weight'[i][m] + weight'[m][j] \in Int
      BY <1>0 DEF NoRoute
    <3>2. CASE m < through
      BY <2>1, <3>1, <3>2 DEF PassStep
    <3>3. CASE m = through
      BY <1>2, <3>3 DEF PassStep, NextPast, Known
    <3> QED
      BY <1>2, <3>2, <3>3 DEF Vertex
  <2>3. PredecessorInv'
    <3> SUFFICES ASSUME NEW i \in Vertex, NEW j \in Vertex
                 PROVE  /\ prev_edge'[i][j] # NoEdge =>
                             /\ i # j /\ weight'[i][j] # NoRoute
                             /\ edges[prev_edge'[i][j]].to = j
                             /\ NextWithin(i, edges[prev_edge'[i][j]].from,
                                  weight'[i][j] - edges[prev_edge'[i][j]].weight)
                        /\ weight'[i][j] # NoRoute /\ prev_edge'[i][j] = NoEdge
                             => i = j
      BY <1>0 DEF PredecessorInv, Promised, Within, Known, NextWithin
    <3>1. prev_edge'[i][j] # NoEdge =>
            /\ edges[prev_edge'[i][j]].from \in Vertex
            /\ weight'[i][j] - edges[prev_edge'[i][j]].weight \in Int
      BY <1>0 DEF NoRoute
    <3> QED
      BY <2>1, <3>1 DEF PassStep
  <2>4. PassInv'
    BY <1>2 DEF PassInv, Vertex
  <2> QED
    BY <2>2, <2>3, <2>4
<1> QED
  BY <1>1, <1>2

\* The loop variables after a step: the same pass, or the next one from its
\* first cell, and exactly the cells up to the present one left behind.
LEMMA NextCellPast ==
  ASSUME TypeOK, through < VertexCount
  PROVE  /\ NextCell \/ NextRow => \/ through' = through
                                   \/ through' = through + 1 /\ from' = 0 /\ to' = 0
         /\ NextCell => \A i, j \in Vertex :
              NextPast(i, j) => i < from \/ (i = from /\ j < to) \/ (i = from /\ j = to)
         /\ NextRow => \A i, j \in Vertex :
              NextPast(i, j) => i < from \/ i = from
<1>1. from \in Vertex /\ to \in Vertex /\ through \in Vertex
  BY LoopType
<1> QED
  BY <1>1, VertexCountAssumption DEF NextCell, NextRow, NextPast, Vertex

\* What RelaxRoute writes: at most the cell it is at, never one in the row or
\* column of the pass and never one of the diagonal, and then the join.
LEMMA RelaxWrites ==
  ASSUME TypeOK, PhaseInv, DiagonalInv, PredecessorInv, RelaxRoute
  PROVE  /\ from \in Vertex /\ to \in Vertex /\ through \in Vertex
         /\ \A i, j \in Vertex :
              \/ weight'[i][j] = weight[i][j] /\ prev_edge'[i][j] = prev_edge[i][j]
              \/ /\ i = from /\ j = to
                 /\ i # j /\ i # through /\ j # through
                 /\ Known(i, through) /\ Known(through, j)
                 /\ weight'[i][j] = weight[i][through] + weight[through][j]
                 /\ Known(i, j) => weight'[i][j] < weight[i][j]
                 /\ prev_edge'[i][j] = prev_edge[through][j]
                 /\ prev_edge[through][j] # NoEdge
         /\ Known(through, to) =>
              NextWithin(from, to, weight[from][through] + weight[through][to])
<1>1. from \in Vertex /\ to \in Vertex /\ through \in Vertex
  BY LoopType DEF RelaxRoute
<1>2. \A i \in Vertex : weight[i][i] = 0
  BY VertexCountAssumption DEF RelaxRoute, PhaseInv, DiagonalInv, Vertex
<1>3. \A i, j \in Vertex : weight[i][j] \in Nat \cup {NoRoute}
  BY DEF TypeOK
<1>4. CASE Known(through, to) /\ Improves(from, to, Candidate)
  <2>1. /\ from # to /\ from # through /\ to # through
        /\ Known(from, to) => Candidate < weight[from][to]
        /\ Candidate = weight[from][through] + weight[through][to]
        /\ Candidate \in Nat
    BY <1>1, <1>2, <1>3, <1>4
    DEF RelaxRoute, Improves, Candidate, Known, NoRoute
  <2>2. prev_edge[through][to] # NoEdge /\ LastEdge = prev_edge[through][to]
    BY <1>1, <1>4, <2>1 DEF PredecessorInv, LastEdge
  <2>3. LastEdge \in DOMAIN edges \cup {NoEdge}
    BY <1>1, <2>2 DEF TypeOK
  <2>4. \A i, j \in Vertex :
          /\ weight'[i][j] = IF i = from /\ j = to THEN Candidate ELSE weight[i][j]
          /\ prev_edge'[i][j] = IF i = from /\ j = to THEN LastEdge ELSE prev_edge[i][j]
    <3>1. /\ weight' = [weight EXCEPT ![from][to] = Candidate]
          /\ prev_edge' = [prev_edge EXCEPT ![from][to] = LastEdge]
      BY <1>4 DEF RelaxRoute
    <3>2. /\ weight \in [Vertex -> [Vertex -> Nat \cup {NoRoute}]]
          /\ prev_edge \in [Vertex -> [Vertex -> DOMAIN edges \cup {NoEdge}]]
      BY DEF TypeOK
    <3> QED
      BY <1>1, <2>1, <2>3, <3>1, <3>2
  <2> QED
    BY <1>1, <1>4, <2>1, <2>2, <2>4 DEF RelaxRoute, NextWithin, NoRoute
<1>5. CASE ~(Known(through, to) /\ Improves(from, to, Candidate))
  <2>1. weight' = weight /\ prev_edge' = prev_edge
    BY <1>5 DEF RelaxRoute, matrix
  <2>2. Known(through, to) =>
          NextWithin(from, to, weight[from][through] + weight[through][to])
    BY <1>1, <1>3, <1>5, <2>1
    DEF RelaxRoute, Improves, Candidate, Known, NextWithin, NoRoute
  <2> QED
    BY <1>1, <2>1, <2>2
<1> QED
  BY <1>4, <1>5

\* RelaxRoute is a step of its pass.
LEMMA RelaxPass ==
  ASSUME TypeOK, MatrixInv, RelaxRoute
  PROVE  PassStep
<1>1. /\ from \in Vertex /\ to \in Vertex /\ through \in Vertex
      /\ \A i, j \in Vertex :
           \/ weight'[i][j] = weight[i][j] /\ prev_edge'[i][j] = prev_edge[i][j]
           \/ /\ i = from /\ j = to
              /\ i # j /\ i # through /\ j # through
              /\ Known(i, through) /\ Known(through, j)
              /\ weight'[i][j] = weight[i][through] + weight[through][j]
              /\ Known(i, j) => weight'[i][j] < weight[i][j]
              /\ prev_edge'[i][j] = prev_edge[through][j]
              /\ prev_edge[through][j] # NoEdge
      /\ Known(through, to) =>
           NextWithin(from, to, weight[from][through] + weight[through][to])
  BY RelaxWrites DEF MatrixInv
<1>2. through < VertexCount /\ pc = "relax" /\ Known(from, through) /\ NextCell
  BY DEF RelaxRoute
<1>3. \A i, j \in Vertex : weight[i][j] \in Nat \cup {NoRoute}
  BY DEF TypeOK
<1>4. \A i \in Vertex : weight[i][i] = 0
  BY <1>2, VertexCountAssumption DEF MatrixInv, PhaseInv, DiagonalInv, Vertex
<1>5. \A i, j \in Vertex :
        Known(i, j) => weight'[i][j] # NoRoute /\ weight'[i][j] <= weight[i][j]
  BY <1>1, <1>3 DEF Known, NoRoute
<1>6. \A i \in Vertex : /\ weight'[i][through] = weight[i][through]
                        /\ weight'[through][i] = weight[through][i]
  BY <1>1
<1>7. \A i, j \in Vertex :
        NextPast(i, j) /\ Known(i, through) /\ Known(through, j)
          => NextWithin(i, j, weight[i][through] + weight[through][j])
  <2> SUFFICES ASSUME NEW i \in Vertex, NEW j \in Vertex,
                      NextPast(i, j), Known(i, through), Known(through, j)
               PROVE  NextWithin(i, j, weight[i][through] + weight[through][j])
    OBVIOUS
  <2>1. CASE i = from /\ j = to
    BY <1>1, <2>1
  <2>2. CASE i < from \/ (i = from /\ j < to)
    <3>1. Within(i, j, weight[i][through] + weight[through][j])
      BY <1>2, <2>2 DEF MatrixInv, PassInv
    <3> QED
      BY <1>1, <1>3, <1>5, <3>1 DEF Within, NextWithin, Known, NoRoute
  <2> QED
    BY <1>2, <2>1, <2>2, NextCellPast
<1>8. \A m, i, j \in Vertex :
        m < through /\ weight'[i][m] # NoRoute /\ weight'[m][j] # NoRoute
          => \/ NextWithin(i, j, weight'[i][m] + weight'[m][j])
             \/ Joins(i, j, weight'[i][m] + weight'[m][j])
  <2> SUFFICES ASSUME NEW m \in Vertex, NEW i \in Vertex, NEW j \in Vertex,
                      m < through, weight'[i][m] # NoRoute, weight'[m][j] # NoRoute
               PROVE  \/ NextWithin(i, j, weight'[i][m] + weight'[m][j])
                      \/ Joins(i, j, weight'[i][m] + weight'[m][j])
    OBVIOUS
  <2>0. \A a, b \in Vertex :
          Known(a, m) /\ Known(m, b) => Promised(a, b, weight[a][m] + weight[m][b])
    BY DEF MatrixInv, TriangleInv
  <2>1. CASE weight'[i][m] = weight[i][m] /\ weight'[m][j] = weight[m][j]
    <3>1. Promised(i, j, weight[i][m] + weight[m][j])
      BY <2>0, <2>1 DEF Known
    <3> QED
      BY <1>1, <1>3, <1>5, <2>1, <3>1 DEF Promised, Within, NextWithin, Known, NoRoute
  <2>2. CASE weight'[i][m] # weight[i][m]
    <3>1. /\ i = from /\ m = to /\ Known(i, through) /\ Known(through, m)
          /\ weight'[i][m] = weight[i][through] + weight[through][m]
      BY <1>1, <2>2
    <3>2. CASE j = m
      BY <1>1, <1>3, <1>4, <3>1, <3>2 DEF Joins, Known, NoRoute, Vertex
    <3>3. CASE j # m
      <4>1. weight'[m][j] = weight[m][j]
        BY <1>1, <3>1, <3>3
      <4>2. Known(through, j) /\ weight[through][j] <= weight[through][m] + weight[m][j]
        BY <1>1, <1>3, <1>4, <2>0, <3>1, <4>1
        DEF Promised, Within, Joins, Known, NoRoute
      <4> QED
        BY <1>1, <1>2, <1>3, <3>1, <4>1, <4>2 DEF Joins, Known, NoRoute
    <3> QED
      BY <3>2, <3>3
  <2>3. CASE weight'[m][j] # weight[m][j]
    <3>1. /\ m = from /\ j = to /\ Known(m, through) /\ Known(through, j)
          /\ weight'[m][j] = weight[m][through] + weight[through][j]
      BY <1>1, <2>3
    <3>2. CASE i = m
      BY <1>1, <1>2, <1>3, <1>4, <3>1, <3>2 DEF Joins, Known, NoRoute
    <3>3. CASE i # m
      <4>1. weight'[i][m] = weight[i][m]
        BY <1>1, <3>1, <3>3
      <4>2. Known(i, through) /\ weight[i][through] <= weight[i][m] + weight[m][through]
        BY <1>1, <1>3, <1>4, <2>0, <3>1, <4>1
        DEF Promised, Within, Joins, Known, NoRoute
      <4> QED
        BY <1>1, <1>2, <1>3, <3>1, <4>1, <4>2 DEF Joins, Known, NoRoute
    <3> QED
      BY <3>2, <3>3
  <2> QED
    BY <2>1, <2>2, <2>3
<1>9. \A i, j \in Vertex :
        /\ prev_edge'[i][j] # NoEdge =>
             /\ i # j /\ weight'[i][j] # NoRoute
             /\ edges[prev_edge'[i][j]].to = j
             /\ \/ NextWithin(i, edges[prev_edge'[i][j]].from,
                              weight'[i][j] - edges[prev_edge'[i][j]].weight)
                \/ Joins(i, edges[prev_edge'[i][j]].from,
                         weight'[i][j] - edges[prev_edge'[i][j]].weight)
        /\ weight'[i][j] # NoRoute /\ prev_edge'[i][j] = NoEdge => i = j
  <2> SUFFICES ASSUME NEW i \in Vertex, NEW j \in Vertex
               PROVE  /\ prev_edge'[i][j] # NoEdge =>
                           /\ i # j /\ weight'[i][j] # NoRoute
                           /\ edges[prev_edge'[i][j]].to = j
                           /\ \/ NextWithin(i, edges[prev_edge'[i][j]].from,
                                   weight'[i][j] - edges[prev_edge'[i][j]].weight)
                              \/ Joins(i, edges[prev_edge'[i][j]].from,
                                   weight'[i][j] - edges[prev_edge'[i][j]].weight)
                      /\ weight'[i][j] # NoRoute /\ prev_edge'[i][j] = NoEdge => i = j
    OBVIOUS
  <2>1. \A a, b \in Vertex : prev_edge[a][b] # NoEdge =>
          /\ edges[prev_edge[a][b]].from \in Vertex
          /\ edges[prev_edge[a][b]].weight \in Int
    <3>1. \A a, b \in Vertex : prev_edge[a][b] # NoEdge => prev_edge[a][b] \in DOMAIN edges
      BY DEF TypeOK
    <3> QED
      BY <3>1, EdgeType
  <2>2. \A a, b \in Vertex :
          /\ prev_edge[a][b] # NoEdge =>
               /\ a # b /\ Known(a, b)
               /\ edges[prev_edge[a][b]].to = b
               /\ Promised(a, edges[prev_edge[a][b]].from,
                           weight[a][b] - edges[prev_edge[a][b]].weight)
          /\ Known(a, b) /\ prev_edge[a][b] = NoEdge => a = b
    BY DEF MatrixInv, PredecessorInv
  <2>3. CASE weight'[i][j] = weight[i][j] /\ prev_edge'[i][j] = prev_edge[i][j]
    <3>1. CASE prev_edge[i][j] = NoEdge
      BY <2>2, <2>3, <3>1 DEF Known
    <3>2. CASE prev_edge[i][j] # NoEdge
      <4> DEFINE e == prev_edge[i][j]
                 u == edges[e].from
                 x == weight[i][j] - edges[e].weight
      <4>1. u \in Vertex /\ x \in Int
        BY <1>3, <2>1, <3>2 DEF NoRoute
      <4>2. i # j /\ Known(i, j) /\ edges[e].to = j /\ Promised(i, u, x)
        BY <2>2, <3>2
      <4>3. NextWithin(i, u, x) \/ Joins(i, u, x)
        <5> HIDE DEF u, x
        <5>1. weight'[i][u] \in Nat \cup {NoRoute}
          BY <1>1, <1>3, <4>1 DEF Known, NoRoute
        <5> QED
          BY <1>3, <1>5, <4>1, <4>2, <5>1
          DEF Promised, Within, NextWithin, Known, NoRoute
      <4> QED
        BY <2>3, <3>2, <4>2, <4>3 DEF Known
    <3> QED
      BY <3>1, <3>2
  <2>4. CASE ~(weight'[i][j] = weight[i][j] /\ prev_edge'[i][j] = prev_edge[i][j])
    <3>1. /\ i # j /\ Known(i, through) /\ Known(through, j)
          /\ weight'[i][j] = weight[i][through] + weight[through][j]
          /\ prev_edge'[i][j] = prev_edge[through][j]
          /\ prev_edge[through][j] # NoEdge
      BY <1>1, <2>4
    <3> DEFINE e == prev_edge[through][j]
               u == edges[e].from
    <3>2. /\ u \in Vertex /\ edges[e].weight \in Int /\ edges[e].to = j
          /\ Promised(through, u, weight[through][j] - edges[e].weight)
      BY <1>1, <2>1, <2>2, <3>1
    <3>3. Known(through, u) /\ weight[through][u] <= weight[through][j] - edges[e].weight
      BY <1>1, <1>3, <1>4, <3>2 DEF Promised, Within, Joins, Known, NoRoute
    <3>4. Joins(i, u, weight'[i][j] - edges[e].weight)
      BY <1>1, <1>2, <1>3, <3>1, <3>2, <3>3 DEF Joins, Known, NoRoute
    <3> QED
      BY <1>1, <1>3, <3>1, <3>2, <3>4 DEF Known, NoRoute
  <2> QED
    BY <2>3, <2>4
<1> QED
  BY <1>6, <1>7, <1>8, <1>9 DEF PassStep

\* So is SkipRow: no route of the row leads to the vertex of the pass.
LEMMA SkipPass ==
  ASSUME TypeOK, MatrixInv, SkipRow
  PROVE  PassStep
<1>1. /\ weight' = weight /\ prev_edge' = prev_edge
      /\ pc = "relax" /\ through < VertexCount /\ ~Known(from, through) /\ NextRow
  BY DEF SkipRow, matrix
<1>2. from \in Vertex /\ through \in Vertex
  BY <1>1, LoopType
<1>3. \A i, j \in Vertex :
        NextPast(i, j) /\ Known(i, through) /\ Known(through, j)
          => NextWithin(i, j, weight[i][through] + weight[through][j])
  <2> SUFFICES ASSUME NEW i \in Vertex, NEW j \in Vertex,
                      NextPast(i, j), Known(i, through), Known(through, j)
               PROVE  NextWithin(i, j, weight[i][through] + weight[through][j])
    OBVIOUS
  <2>1. i < from
    BY <1>1, NextCellPast
  <2>2. Within(i, j, weight[i][through] + weight[through][j])
    BY <1>1, <2>1 DEF MatrixInv, PassInv
  <2> QED
    BY <1>1, <2>2 DEF Within, NextWithin, Known
<1>4. \A m, i, j \in Vertex :
        m < through /\ weight'[i][m] # NoRoute /\ weight'[m][j] # NoRoute
          => \/ NextWithin(i, j, weight'[i][m] + weight'[m][j])
             \/ Joins(i, j, weight'[i][m] + weight'[m][j])
  BY <1>1 DEF MatrixInv, TriangleInv, Promised, Within, NextWithin, Known
<1>5. \A i, j \in Vertex :
        /\ prev_edge'[i][j] # NoEdge =>
             /\ i # j /\ weight'[i][j] # NoRoute
             /\ edges[prev_edge'[i][j]].to = j
             /\ \/ NextWithin(i, edges[prev_edge'[i][j]].from,
                              weight'[i][j] - edges[prev_edge'[i][j]].weight)
                \/ Joins(i, edges[prev_edge'[i][j]].from,
                         weight'[i][j] - edges[prev_edge'[i][j]].weight)
        /\ weight'[i][j] # NoRoute /\ prev_edge'[i][j] = NoEdge => i = j
  BY <1>1 DEF MatrixInv, PredecessorInv, Promised, Within, NextWithin, Known
<1> QED
  BY <1>1, <1>3, <1>4, <1>5 DEF PassStep

-----------------------------------------------------------------------------
(* The first loop.                                                          *)

\* What the stored last edges promise speaks of the edges, of the matrix and
\* of the pass, and of nothing else.
LEMMA PromisesUntouched ==
  ASSUME PredecessorInv, UNCHANGED <<edges, weight, prev_edge, through>>
  PROVE  PredecessorInv'
<1>1. edges' = edges /\ weight' = weight /\ prev_edge' = prev_edge /\ through' = through
  OBVIOUS
<1>2. ASSUME NEW i, NEW j
      PROVE  Known(i, j)' <=> Known(i, j)
  BY <1>1 DEF Known
<1>3. ASSUME NEW i, NEW j, NEW x
      PROVE  Promised(i, j, x)' <=> Promised(i, j, x)
  BY <1>1 DEF Promised, Within, Joins, Known
<1>4. SUFFICES ASSUME NEW i \in Vertex, NEW j \in Vertex
               PROVE  LET edge == edges[prev_edge[i][j]] IN
                      /\ prev_edge[i][j] # NoEdge =>
                           /\ i # j /\ Known(i, j)'
                           /\ edge.to = j
                           /\ Promised(i, edge.from, weight[i][j] - edge.weight)'
                      /\ Known(i, j)' /\ prev_edge[i][j] = NoEdge => i = j
  BY <1>1 DEF PredecessorInv
<1> QED
  BY <1>2, <1>3 DEF PredecessorInv

\* A write to the matrix before any pass keeps what the stored last edges
\* promise, if it only ever shortens routes and stores an edge for what it
\* is: the route from its source.
LEMMA ScanKeepsPredecessors ==
  ASSUME TypeOK, PredecessorInv, through = 0, through' = through, edges' = edges,
         NEW a \in Vertex, NEW b \in Vertex, NEW w \in Nat,
         NEW p \in DOMAIN edges \cup {NoEdge},
         weight' = [weight EXCEPT ![a][b] = w],
         prev_edge' = [prev_edge EXCEPT ![a][b] = p],
         ~Known(a, b) \/ w <= weight[a][b],
         p = NoEdge => a = b,
         p # NoEdge => /\ a # b
                       /\ edges[p].to = b /\ edges[p].from = a
                       /\ edges[p].weight = w /\ weight[a][a] = 0
  PROVE  PredecessorInv'
<1>1. \A i, j \in Vertex :
        /\ weight[i][j] \in Nat \cup {NoRoute}
        /\ weight'[i][j] = IF i = a /\ j = b THEN w ELSE weight[i][j]
        /\ prev_edge'[i][j] = IF i = a /\ j = b THEN p ELSE prev_edge[i][j]
        /\ prev_edge[i][j] \in DOMAIN edges \cup {NoEdge}
  BY DEF TypeOK
<1>2. \A i, j \in Vertex :
        Known(i, j) => weight'[i][j] # NoRoute /\ weight'[i][j] <= weight[i][j]
  BY <1>1 DEF Known, NoRoute
<1>3. ASSUME NEW i \in Vertex, NEW j \in Vertex, NEW x \in Int, Promised(i, j, x)
      PROVE  Promised(i, j, x)'
  <2>1. CASE Within(i, j, x)
    BY <1>1, <1>2, <2>1 DEF Promised, Within, Known, NoRoute
  <2>2. CASE Joins(i, j, x)
    <3>1. 0 \in Vertex
      BY <2>2, VertexCountAssumption DEF Joins, Vertex
    <3> QED
      BY <1>1, <1>2, <2>2, <3>1 DEF Promised, Joins, Known, NoRoute
  <2> QED
    BY <1>3, <2>1, <2>2 DEF Promised
<1> SUFFICES ASSUME NEW i \in Vertex, NEW j \in Vertex
             PROVE  /\ prev_edge'[i][j] # NoEdge =>
                         /\ i # j /\ weight'[i][j] # NoRoute
                         /\ edges[prev_edge'[i][j]].to = j
                         /\ Promised(i, edges[prev_edge[i][j]].from,
                                     weight[i][j] - edges[prev_edge[i][j]].weight)'
                    /\ weight'[i][j] # NoRoute /\ prev_edge'[i][j] = NoEdge => i = j
  BY DEF PredecessorInv, Known
<1>4. CASE i = a /\ j = b
  <2>1. p # NoEdge => weight'[a][a] = 0
    BY <1>1
  <2>2. p # NoEdge => Within(a, edges[p].from, 0)'
    BY <2>1 DEF Within, Known, NoRoute
  <2> QED
    BY <1>1, <1>4, <2>2 DEF NoRoute, Promised
<1>5. CASE ~(i = a /\ j = b)
  <2>1. CASE prev_edge[i][j] = NoEdge
    BY <1>1, <1>5, <2>1 DEF PredecessorInv, Known
  <2>2. CASE prev_edge[i][j] # NoEdge
    <3> DEFINE e == prev_edge[i][j]
    <3>1. edges[e].from \in Vertex /\ edges[e].weight \in Int
      BY <1>1, <2>2, EdgeType
    <3>2. weight[i][j] - edges[e].weight \in Int
      BY <1>1, <3>1 DEF NoRoute
    <3>3. /\ i # j /\ Known(i, j) /\ edges[e].to = j
          /\ Promised(i, edges[e].from, weight[i][j] - edges[e].weight)
      BY <2>2 DEF PredecessorInv
    <3>4. weight'[i][j] = weight[i][j] /\ prev_edge'[i][j] = e
      BY <1>1, <1>5
    <3>5. Promised(i, edges[e].from, weight[i][j] - edges[e].weight)'
      BY <1>3, <3>1, <3>2, <3>3, <3>4
    <3> QED
      BY <2>2, <3>3, <3>4, <3>5 DEF Known
  <2> QED
    BY <2>1, <2>2
<1> QED
  BY <1>4, <1>5

-----------------------------------------------------------------------------
(* The invariant of the matrix, and what it implies.                        *)

\* The constructor begins with nothing stored and nothing done.
LEMMA MatrixStart ==
  ASSUME NEW graph, IsGraph(graph), Start(graph)
  PROVE  MatrixInv
<1>1. PhaseInv /\ PassInv
  BY DEF Start, PhaseInv, PassInv
<1>2. DiagonalInv /\ TriangleInv
  BY VertexCountAssumption DEF Start, DiagonalInv, TriangleInv, Vertex
<1>3. EdgesInv
  BY TypeStart, EdgeType, VertexCountAssumption DEF Start, EdgesInv, Vertex
<1>4. PredecessorInv
  BY DEF Start, PredecessorInv, Known
<1> QED
  BY <1>1, <1>2, <1>3, <1>4 DEF MatrixInv

\* The matrix is right before the constructor has begun.
LEMMA MatrixInit == Init => MatrixInv
  BY GraphsAssumption, MatrixStart DEF Init

\* A step that leaves the matrix and the loops alone keeps the invariant.
LEMMA MatrixUntouched ==
  ASSUME MatrixInv, UNCHANGED <<edges, matrix, loops>>,
         pc = "edges" <=> pc' = "edges",
         pc' = "relax" => pc = "relax",
         PhaseInv'
  PROVE  MatrixInv'
<1>1. edges' = edges /\ UNCHANGED <<weight, prev_edge, vertex, cursor, through, from, to>>
  BY DEF matrix, loops
<1>2. PredecessorInv'
  BY <1>1, PromisesUntouched DEF MatrixInv
<1>3. DiagonalInv' /\ EdgesInv'
  BY <1>1 DEF MatrixInv, DiagonalInv, EdgesInv, Within, Known
<1>4. PassInv'
  BY <1>1 DEF MatrixInv, PassInv, Within, Known
<1>5. TriangleInv'
  BY <1>1 DEF MatrixInv, TriangleInv, Promised, Within, Joins, Known
<1> QED
  BY <1>2, <1>3, <1>4, <1>5 DEF MatrixInv

\* The first loop comes to a vertex: its route to itself weighs nothing.
LEMMA EnterKeepsMatrix ==
  ASSUME TypeOK, MatrixInv, EnterVertex
  PROVE  MatrixInv'
<1> USE VertexCountAssumption
<1>1. vertex \in Vertex
  BY DEF EnterVertex, TypeOK, Vertex
<1>2. \A i, j \in Vertex :
        /\ weight[i][j] \in Nat \cup {NoRoute}
        /\ weight'[i][j] = IF i = vertex /\ j = vertex THEN 0 ELSE weight[i][j]
  BY <1>1 DEF TypeOK, EnterVertex
<1>3. PhaseInv'
  BY DEF EnterVertex, MatrixInv, PhaseInv
<1>4. DiagonalInv'
  BY <1>1, <1>2 DEF EnterVertex, MatrixInv, DiagonalInv
<1>5. EdgesInv'
  BY <1>1, <1>2, EdgeType
  DEF EnterVertex, MatrixInv, EdgesInv, Within, Known, NoRoute, Vertex
<1>6. PassInv' /\ TriangleInv'
  BY DEF EnterVertex, MatrixInv, PhaseInv, PassInv, TriangleInv, Vertex
<1>7. PredecessorInv'
  <2>1. ~Known(vertex, vertex) \/ 0 <= weight[vertex][vertex]
    BY <1>1, <1>2 DEF Known, NoRoute
  <2>2. NoEdge \in DOMAIN edges \cup {NoEdge}
    OBVIOUS
  <2>3. /\ weight' = [weight EXCEPT ![vertex][vertex] = 0]
        /\ prev_edge' = [prev_edge EXCEPT ![vertex][vertex] = NoEdge]
        /\ PredecessorInv /\ through = 0 /\ through' = through /\ edges' = edges
    BY DEF EnterVertex, MatrixInv, PhaseInv
  <2>4. 0 \in Nat
    OBVIOUS
  <2> QED
    BY <1>1, <2>1, <2>2, <2>3, <2>4, ScanKeepsPredecessors
<1> QED
  BY <1>3, <1>4, <1>5, <1>6, <1>7 DEF MatrixInv

\* The first loop goes over an edge: it may lighten one cell.
LEMMA VisitKeepsMatrix ==
  ASSUME TypeOK, MatrixInv, NEW e \in Unvisited, VisitEdge(e)
  PROVE  MatrixInv'
<1> USE VertexCountAssumption
<1> DEFINE v == vertex
           u == edges[e].to
           w == edges[e].weight
<1>1. /\ e \in DOMAIN edges /\ edges[e].from = v /\ cursor < e
      /\ v \in Vertex /\ u \in Vertex /\ w \in Int
      /\ pc = "edges" /\ through = 0 /\ edges' = edges /\ cursor' = e
      /\ UNCHANGED <<vertex, through, from, to>>
      /\ \A f \in Unvisited : e <= f
  BY EdgeType DEF Unvisited, VisitEdge, MatrixInv, PhaseInv, TypeOK
<1>2. weight[v][v] = 0
  BY <1>1 DEF MatrixInv, DiagonalInv
<1>3. PhaseInv' /\ PassInv' /\ TriangleInv'
  BY <1>1 DEF VisitEdge, MatrixInv, PhaseInv, PassInv, TriangleInv, Vertex
<1>4. CASE w < 0
  <2>1. UNCHANGED matrix /\ pc' = "error"
    BY <1>4 DEF VisitEdge
  <2>2. PredecessorInv'
    BY <1>1, <2>1, PromisesUntouched DEF MatrixInv, matrix
  <2>3. DiagonalInv' /\ EdgesInv'
    BY <1>1, <2>1 DEF MatrixInv, matrix, DiagonalInv, EdgesInv, Within, Known
  <2> QED
    BY <1>3, <2>2, <2>3 DEF MatrixInv
<1>5. CASE ~(w < 0) /\ Improves(v, u, w)
  <2>1. /\ weight' = [weight EXCEPT ![v][u] = w]
        /\ prev_edge' = [prev_edge EXCEPT ![v][u] = e]
        /\ pc' = pc
    BY <1>5 DEF VisitEdge
  <2>2. \A i, j \in Vertex :
          /\ weight[i][j] \in Nat \cup {NoRoute}
          /\ weight'[i][j] = IF i = v /\ j = u THEN w ELSE weight[i][j]
    BY <1>1, <2>1 DEF TypeOK
  <2>3. w \in Nat /\ u # v /\ (~Known(v, u) \/ w <= weight[v][u])
    BY <1>1, <1>2, <1>5, <2>2 DEF Improves, Known, NoRoute
  <2>4. DiagonalInv'
    BY <1>1, <2>1, <2>2, <2>3 DEF MatrixInv, DiagonalInv
  <2>5. EdgesInv'
    <3> SUFFICES ASSUME NEW f \in DOMAIN edges,
                        \/ edges[f].from < v
                        \/ edges[f].from = v /\ f <= e
                 PROVE  /\ weight'[edges[f].from][edges[f].to] # NoRoute
                        /\ weight'[edges[f].from][edges[f].to] <= edges[f].weight
      BY <1>1, <2>1 DEF EdgesInv, Within, Known
    <3>1. edges[f].from \in Vertex /\ edges[f].to \in Vertex /\ edges[f].weight \in Int
          /\ f \in Nat /\ e \in Nat
      BY <1>1, EdgeType
    <3>2. CASE f = e
      BY <1>1, <2>2, <2>3, <3>2 DEF NoRoute
    <3>3. CASE f # e
      <4>1. ASSUME edges[f].from = v, f <= e
            PROVE  f <= cursor
        <5>1. f \notin Unvisited
          BY <1>1, <3>1, <3>3, <4>1
        <5>2. cursor \in Int
          BY <1>1, <3>1, EdgeType DEF TypeOK
        <5> QED
          BY <3>1, <4>1, <5>1, <5>2 DEF Unvisited
      <4>2. Within(edges[f].from, edges[f].to, edges[f].weight)
        BY <1>1, <4>1 DEF MatrixInv, EdgesInv
      <4> QED
        BY <1>1, <2>2, <2>3, <3>1, <4>2 DEF Within, Known, NoRoute
    <3> QED
      BY <3>2, <3>3
  <2>6. PredecessorInv'
    <3>1. e \in DOMAIN edges \cup {NoEdge} /\ e # NoEdge
      BY <1>1, EdgeType DEF NoEdge
    <3>2. PredecessorInv /\ through' = through
      BY <1>1 DEF MatrixInv
    <3> HIDE DEF v, u, w
    <3> QED
      BY <1>1, <1>2, <2>1, <2>3, <3>1, <3>2, ScanKeepsPredecessors DEF v, u, w
  <2> QED
    BY <1>3, <2>4, <2>5, <2>6 DEF MatrixInv
<1>6. CASE ~(w < 0) /\ ~Improves(v, u, w)
  <2>1. UNCHANGED matrix /\ pc' = pc
    BY <1>6 DEF VisitEdge
  <2>2. Within(v, u, w)
    <3>1. weight[v][u] \in Nat \cup {NoRoute}
      <4>1. weight \in [Vertex -> [Vertex -> Nat \cup {NoRoute}]]
        BY DEF TypeOK
      <4> QED
        BY <1>1, <4>1
    <3> QED
      BY <1>1, <1>6, <3>1 DEF Improves, Within, Known, NoRoute
  <2>3. EdgesInv'
    <3> SUFFICES ASSUME NEW f \in DOMAIN edges,
                        \/ edges[f].from < v
                        \/ edges[f].from = v /\ f <= e
                 PROVE  Within(edges[f].from, edges[f].to, edges[f].weight)
      BY <1>1, <2>1 DEF EdgesInv, Within, Known, matrix
    <3>1. f \in Nat /\ e \in Nat /\ edges[f].from \in Vertex /\ vertex \in Vertex
      BY <1>1, EdgeType DEF TypeOK
    <3>2. CASE f = e
      BY <1>1, <2>2, <3>2
    <3>3. CASE f # e
      <4>1. ASSUME edges[f].from = v, f <= e
            PROVE  f <= cursor
        <5>1. f \notin Unvisited
          BY <1>1, <3>1, <3>3, <4>1
        <5>2. cursor \in Int
          BY <1>1, <3>1, EdgeType DEF TypeOK
        <5> QED
          BY <3>1, <4>1, <5>1, <5>2 DEF Unvisited
      <4>2. EdgesInv
        BY <1>1 DEF MatrixInv
      <4> QED
        BY <1>1, <4>1, <4>2 DEF EdgesInv
    <3> QED
      BY <3>2, <3>3
  <2>4. PredecessorInv'
    BY <1>1, <2>1, PromisesUntouched DEF MatrixInv, matrix
  <2>5. DiagonalInv'
    BY <1>1, <2>1 DEF MatrixInv, matrix, DiagonalInv
  <2> QED
    BY <1>3, <2>3, <2>4, <2>5 DEF MatrixInv
<1> QED
  BY <1>4, <1>5, <1>6

\* The first loop is done with the edges of a vertex.
LEMMA LeaveKeepsMatrix ==
  ASSUME TypeOK, MatrixInv, LeaveVertex
  PROVE  MatrixInv'
<1> USE VertexCountAssumption
<1>1. /\ pc = "edges" /\ pc' = "vertex" /\ vertex' = vertex + 1 /\ Unvisited = {}
      /\ UNCHANGED <<edges, weight, prev_edge, through, from, to>>
      /\ vertex \in Vertex /\ through = 0
  BY DEF LeaveVertex, matrix, TypeOK, MatrixInv, PhaseInv
<1>2. PhaseInv' /\ PassInv' /\ TriangleInv'
  BY <1>1 DEF MatrixInv, PhaseInv, PassInv, TriangleInv, Vertex
<1>3. DiagonalInv'
  BY <1>1 DEF MatrixInv, DiagonalInv, Vertex
<1>4. EdgesInv'
  <2> SUFFICES ASSUME NEW f \in DOMAIN edges, edges[f].from < vertex + 1
               PROVE  Within(edges[f].from, edges[f].to, edges[f].weight)
    BY <1>1 DEF EdgesInv, Within, Known
  <2>1. edges[f].from \in Vertex /\ f \in Nat
    BY EdgeType
  <2>2. edges[f].from < vertex \/ (edges[f].from = vertex /\ f <= cursor)
    <3>1. cursor \in Int /\ vertex \in Int
      BY EdgeType DEF TypeOK
    <3>2. edges[f].from = vertex => f <= cursor
      BY <1>1, <2>1, <3>1 DEF Unvisited
    <3> QED
      BY <1>1, <2>1, <3>1, <3>2 DEF Vertex
  <2> QED
    BY <1>1, <2>2 DEF MatrixInv, EdgesInv
<1>5. PredecessorInv'
  BY <1>1 DEF MatrixInv, PredecessorInv, Promised, Within, Joins, Known
<1> QED
  BY <1>2, <1>3, <1>4, <1>5 DEF MatrixInv

\* A step of the relaxation, whether it writes a cell or skips a row.
LEMMA RelaxKeepsMatrix ==
  ASSUME TypeOK, TypeOK', MatrixInv, RelaxRoute \/ SkipRow
  PROVE  MatrixInv'
<1> USE VertexCountAssumption
<1>1. /\ pc = "relax" /\ pc' = "relax" /\ through < VertexCount
      /\ UNCHANGED <<edges, vertex, cursor>> /\ (NextCell \/ NextRow)
  BY DEF RelaxRoute, SkipRow
<1>2. /\ through \in Vertex
      /\ through' = through \/ (through' = through + 1 /\ from' = 0 /\ to' = 0)
  BY <1>1, LoopType, NextCellPast
<1>3. PassStep
  BY RelaxPass, SkipPass
<1>4. TriangleInv' /\ PredecessorInv' /\ PassInv'
  BY <1>1, <1>2, <1>3, PassAdvance
<1>5. PhaseInv'
  BY <1>1 DEF MatrixInv, PhaseInv
<1>6. \A i, j \in Vertex :
        Known(i, j) => weight'[i][j] # NoRoute /\ weight'[i][j] <= weight[i][j]
  <2>1. \A i, j \in Vertex : weight[i][j] \in Nat \cup {NoRoute}
    BY DEF TypeOK
  <2>2. CASE RelaxRoute
    <3>1. \A i, j \in Vertex :
            \/ weight'[i][j] = weight[i][j]
            \/ /\ Known(i, through) /\ Known(through, j)
               /\ weight'[i][j] = weight[i][through] + weight[through][j]
               /\ Known(i, j) => weight'[i][j] < weight[i][j]
      BY <2>2, RelaxWrites DEF MatrixInv
    <3> QED
      BY <1>2, <2>1, <3>1 DEF Known, NoRoute
  <2>3. CASE SkipRow
    BY <2>1, <2>3 DEF SkipRow, matrix, Known, NoRoute
  <2> QED
    BY <2>2, <2>3
<1>7. DiagonalInv'
  <2> SUFFICES ASSUME NEW i \in Vertex
               PROVE  weight'[i][i] = 0
    BY DEF DiagonalInv
  <2>1. weight[i][i] = 0
    BY <1>1 DEF MatrixInv, PhaseInv, DiagonalInv, Vertex
  <2>2. weight'[i][i] \in Nat \cup {NoRoute}
    BY DEF TypeOK
  <2> QED
    BY <1>6, <2>1, <2>2 DEF Known, NoRoute
<1>8. EdgesInv'
  <2> SUFFICES ASSUME NEW f \in DOMAIN edges, edges[f].from < vertex
               PROVE  NextWithin(edges[f].from, edges[f].to, edges[f].weight)
    BY <1>1 DEF EdgesInv, Within, Known, NextWithin
  <2>1. /\ edges[f].from \in Vertex /\ edges[f].to \in Vertex
        /\ edges[f].weight \in Int
    BY EdgeType
  <2>2. Within(edges[f].from, edges[f].to, edges[f].weight)
    BY DEF MatrixInv, EdgesInv
  <2>3. /\ weight[edges[f].from][edges[f].to] \in Nat \cup {NoRoute}
        /\ weight'[edges[f].from][edges[f].to] \in Nat \cup {NoRoute}
    <3>1. \A i, j \in Vertex : /\ weight[i][j] \in Nat \cup {NoRoute}
                              /\ weight'[i][j] \in Nat \cup {NoRoute}
      BY SMTT(30) DEF TypeOK
    <3> QED
      BY <2>1, <3>1
  <2> QED
    BY <1>6, <2>1, <2>2, <2>3 DEF Within, Known, NextWithin, NoRoute
<1> QED
  BY <1>4, <1>5, <1>7, <1>8 DEF MatrixInv

\* Every step keeps the invariant of the matrix.
LEMMA MatrixNext == TypeOK /\ TypeOK' /\ MatrixInv /\ [Next]_vars => MatrixInv'
<1> SUFFICES ASSUME TypeOK, TypeOK', MatrixInv, [Next]_vars
             PROVE  MatrixInv'
  OBVIOUS
<1>0. CASE UNCHANGED vars
  BY <1>0, MatrixUntouched DEF vars, MatrixInv, PhaseInv, loops
<1>1. CASE EnterVertex
  BY <1>1, EnterKeepsMatrix
<1>2. CASE \E e \in Unvisited : VisitEdge(e)
  BY <1>2, VisitKeepsMatrix
<1>3. CASE LeaveVertex
  BY <1>3, LeaveKeepsMatrix
<1>4. CASE BeginRelaxation
  <2>1. /\ pc = "vertex" /\ pc' = "relax" /\ through = 0 /\ from = 0 /\ to = 0
        /\ UNCHANGED <<edges, weight, prev_edge, vertex, cursor, through, from, to>>
        /\ vertex = VertexCount
    BY <1>4 DEF BeginRelaxation, matrix, loops, MatrixInv, PhaseInv
  <2>2. PhaseInv' /\ DiagonalInv' /\ EdgesInv'
    BY <2>1 DEF MatrixInv, PhaseInv, DiagonalInv, EdgesInv, Within, Known
  <2>3. PassInv' /\ TriangleInv'
    BY <2>1, VertexCountAssumption DEF PassInv, TriangleInv, Vertex
  <2>4. PredecessorInv'
    BY <2>1, PromisesUntouched DEF MatrixInv
  <2> QED
    BY <2>2, <2>3, <2>4 DEF MatrixInv
<1>5. CASE RelaxRoute \/ SkipRow
  BY <1>5, RelaxKeepsMatrix
<1>6. CASE FinishRelaxation
  BY <1>6, MatrixUntouched DEF FinishRelaxation, MatrixInv, PhaseInv, loops
<1>7. CASE \E f, t \in Vertex : Ask(f, t)
  BY <1>7, MatrixUntouched DEF Ask, MatrixInv, PhaseInv, loops
<1>8. CASE BuildRoute
  BY <1>8, MatrixUntouched
  DEF BuildRoute, ReturnNothing, PushEdge, ReturnRoute, MatrixInv, PhaseInv, loops
<1> QED
  BY <1>0, <1>1, <1>2, <1>3, <1>4, <1>5, <1>6, <1>7, <1>8 DEF Next, Construct

\* The inductive invariant: type correctness and what the loops have done.
THEOREM MatrixCorrect == Spec => [](TypeOK /\ MatrixInv)
<1>1. Init => TypeOK /\ MatrixInv
  BY TypeInit, MatrixInit
<1>2. TypeOK /\ MatrixInv /\ [Next]_vars => (TypeOK /\ MatrixInv)'
  BY TypeNext, MatrixNext
<1> QED
  BY <1>1, <1>2, PTL DEF Spec

\* No two stored routes join into one lighter than the one stored or about to
\* be stored; once the constructor is done, than the one stored.
THEOREM TriangleCorrect == Spec => []TriangleInv
<1>1. TypeOK /\ MatrixInv => TriangleInv
  BY DEF MatrixInv
<1> QED
  BY <1>1, MatrixCorrect, PTL

\* The walk back along the stored last edges never leaves the matrix's known
\* part: BuildRoute never dereferences an empty optional.
THEOREM PredecessorCorrect == Spec => []PredecessorInv
<1>1. TypeOK /\ MatrixInv => PredecessorInv
  BY DEF MatrixInv
<1> QED
  BY <1>1, MatrixCorrect, PTL

\* During a pass the row and the column the references of RelaxRoute point
\* into are not written: reading through them before or after the write of
\* the cell gives the same.
THEOREM PassReadsStable == Spec => PassReadsAreStable
<1>1. TypeOK /\ MatrixInv /\ [Next]_vars =>
        [pc = "relax" /\ through < VertexCount =>
           \A i \in Vertex :
             /\ weight'[i][through] = weight[i][through]
             /\ weight'[through][i] = weight[through][i]
             /\ prev_edge'[through][i] = prev_edge[through][i]
             /\ prev_edge'[i][through] = prev_edge[i][through]]_vars
  <2> SUFFICES ASSUME TypeOK, MatrixInv, Next,
                      pc = "relax", through < VertexCount, NEW i \in Vertex
               PROVE  /\ weight'[i][through] = weight[i][through]
                      /\ weight'[through][i] = weight[through][i]
                      /\ prev_edge'[through][i] = prev_edge[through][i]
                      /\ prev_edge'[i][through] = prev_edge[i][through]
    OBVIOUS
  <2>1. CASE RelaxRoute
    BY <2>1, RelaxWrites DEF MatrixInv
  <2>2. CASE SkipRow
    BY <2>2 DEF SkipRow, matrix
  <2>3. RelaxRoute \/ SkipRow
    BY VertexCountAssumption
    DEF Next, Construct, BuildRoute, EnterVertex, VisitEdge, LeaveVertex,
        BeginRelaxation, FinishRelaxation, Ask, ReturnNothing, PushEdge, ReturnRoute
  <2> QED
    BY <2>1, <2>2, <2>3
<1> QED
  BY <1>1, MatrixCorrect, PTL DEF PassReadsAreStable, Spec

\* A finished matrix solves Bellman's equations for the graph: no pass is left
\* to keep a promise.
LEMMA BellmanFromMatrix == TypeOK /\ MatrixInv => BellmanInv
<1> SUFFICES ASSUME TypeOK, MatrixInv, pc \in {"ready", "walk"}
             PROVE  BellmanInv
  BY DEF BellmanInv
<1>1. through = VertexCount /\ vertex = VertexCount
  BY DEF MatrixInv, PhaseInv
<1>2. \A i, j \in Vertex : weight[i][j] \in Nat \cup {NoRoute}
  BY DEF TypeOK
<1>3. \A i, j \in Vertex, x \in Int : Promised(i, j, x) => Within(i, j, x)
  BY <1>1, VertexCountAssumption DEF Promised, Joins
<1>4. ASSUME NEW i \in Vertex, NEW e \in DOMAIN edges, Known(i, edges[e].from)
      PROVE  Within(i, edges[e].to, weight[i][edges[e].from] + edges[e].weight)
  <2> DEFINE u == edges[e].from
             v == edges[e].to
             w == edges[e].weight
  <2>1. u \in Vertex /\ v \in Vertex /\ w \in Int
    BY EdgeType
  <2> HIDE DEF u, v, w
  <2>2. Within(u, v, w)
    BY <1>1, <2>1, VertexCountAssumption DEF u, v, w, MatrixInv, EdgesInv, Vertex
  <2>3. Known(i, u) /\ Known(u, v) /\ weight[i][u] + weight[u][v] \in Int
    BY <1>2, <1>4, <2>1, <2>2 DEF Within, u, NoRoute
  <2>4. Within(i, v, weight[i][u] + weight[u][v])
    BY <1>1, <1>3, <2>1, <2>3, VertexCountAssumption DEF MatrixInv, TriangleInv, Vertex
  <2>5. Within(i, v, weight[i][u] + w)
    BY <1>2, <2>1, <2>2, <2>3, <2>4 DEF Within, Known, NoRoute
  <2> QED
    BY <2>5 DEF u, v, w
<1>5. ASSUME NEW i \in Vertex, NEW j \in Vertex, Known(i, j), i # j
      PROVE  /\ edges[prev_edge[i][j]].to = j
             /\ Known(i, edges[prev_edge[i][j]].from)
             /\ weight[i][j] = weight[i][edges[prev_edge[i][j]].from]
                                 + edges[prev_edge[i][j]].weight
  <2> DEFINE e == prev_edge[i][j]
             u == edges[e].from
             w == edges[e].weight
  <2>1. e \in DOMAIN edges /\ e # NoEdge
    BY <1>5 DEF MatrixInv, PredecessorInv, TypeOK
  <2>2. u \in Vertex /\ w \in Int
    BY <2>1, EdgeType
  <2>3. edges[e].to = j /\ Promised(i, u, weight[i][j] - w)
    BY <2>1 DEF MatrixInv, PredecessorInv
  <2>4. weight[i][j] - w \in Int
    BY <1>2, <2>2 DEF NoRoute
  <2>5. Within(i, u, weight[i][j] - w)
    BY <1>3, <2>2, <2>3, <2>4
  <2>6. Within(i, j, weight[i][u] + w)
    BY <1>4, <2>1, <2>3, <2>5 DEF Within
  <2> HIDE DEF e, u, w
  <2>7. weight[i][j] = weight[i][u] + w
    BY <1>2, <2>2, <2>5, <2>6 DEF Within, NoRoute
  <2> QED
    BY <2>3, <2>5, <2>7 DEF Within, e, u, w
<1> QED
  BY <1>4, <1>5 DEF BellmanInv

\* Once built, the matrix solves Bellman's equations for the graph.
THEOREM BellmanCorrect == Spec => []BellmanInv
  BY BellmanFromMatrix, MatrixCorrect, PTL

-----------------------------------------------------------------------------
(* Walks and what they weigh.                                               *)

Walk == Seq(DOMAIN edges)

IsWalk(w, f, t) == Planner!IsWalk(w, f, t)

Cost(w) == Planner!Cost(w)

Weights(w) == [k \in 1 .. Len(w) |-> edges[w[k]].weight]

\* Weights are numbers.
LEMMA WeightsType ==
  ASSUME TypeOK, NEW w \in Walk
  PROVE  \A k \in 1 .. Len(w) : w[k] \in DOMAIN edges /\ Weights(w)[k] \in Int
                                /\ Weights(w)[k] = edges[w[k]].weight
  BY EdgeType DEF Walk, Weights

\* The cost of a walk is the running sum of its weights.
LEMMA CostIsSum ==
  ASSUME TypeOK, NEW w \in Walk
  PROVE  IsRunningSum(Planner!CostUpTo(w), Len(w), Weights(w))
<1> DEFINE n == Len(w)
           d == Weights(w)
           cost == Planner!CostUpTo(w)
<1>1. n \in Nat
  BY DEF Walk
<1>2. PICK s : IsRunningSum(s, n, d)
  BY <1>1, RunningSum
<1>3. \A k \in 0 .. n : k # 0 => d[k] = edges[w[k]].weight
  BY DEF Weights
<1>4. s = [k \in 0 .. Len(w) |-> IF k = 0 THEN 0 ELSE s[k - 1] + edges[w[k]].weight]
  BY <1>2, <1>3 DEF IsRunningSum
<1>5. cost = [k \in 0 .. Len(w) |->
                IF k = 0 THEN 0 ELSE cost[k - 1] + edges[w[k]].weight]
  BY <1>4, Zenon DEF Planner!CostUpTo
<1> HIDE DEF cost
<1>6. cost = [k \in 0 .. Len(w) |-> IF k = 0 THEN 0 ELSE cost[k - 1] + d[k]]
  BY <1>3, <1>5
<1> QED
  BY <1>6 DEF IsRunningSum, cost

\* A cost is a number; the walk that stays costs nothing.
LEMMA CostType ==
  ASSUME TypeOK, NEW w \in Walk
  PROVE  Cost(w) \in Int /\ (w = <<>> => Cost(w) = 0)
<1>1. Len(w) \in Nat /\ (w = <<>> => Len(w) = 0)
  BY DEF Walk
<1>2. /\ Planner!CostUpTo(w)[0] = 0
      /\ \A k \in 0 .. Len(w) : Planner!CostUpTo(w)[k] \in Int
  BY <1>1, CostIsSum, WeightsType, RunningSumIs
<1> QED
  BY <1>1, <1>2 DEF Cost, Planner!Cost

\* An edge in front of a walk.
LEMMA EdgeInFront ==
  ASSUME TypeOK, NEW e \in DOMAIN edges, NEW w \in Walk
  PROVE  LET longer == <<e>> \o w IN
         /\ longer \in Walk
         /\ Cost(longer) = edges[e].weight + Cost(w)
         /\ \A f, t : edges[e].from = f /\ IsWalk(w, edges[e].to, t)
                        => IsWalk(longer, f, t)
<1> DEFINE longer == <<e>> \o w
           n == Len(w)
<1>1. /\ longer \in Walk /\ n \in Nat /\ Len(longer) = n + 1
      /\ longer[1] = e
      /\ \A k \in 1 .. n : longer[k + 1] = w[k]
  BY DEF Walk
<1> HIDE DEF longer, n
<1>2. Cost(longer) = edges[e].weight + Cost(w)
  <2>1. \A k \in 1 .. n : Weights(w)[k] \in Int /\ Weights(w)[k] = edges[w[k]].weight
    BY WeightsType DEF n
  <2>2. \A k \in 1 .. n + 1 : Weights(longer)[k] = edges[longer[k]].weight
    BY <1>1 DEF Weights
  <2>3. /\ Weights(longer)[1] = edges[e].weight
        /\ \A k \in 1 .. n : Weights(longer)[k + 1] = Weights(w)[k]
    BY <1>1, <2>1, <2>2
  <2>4. edges[e].weight \in Int
    BY EdgeType
  <2>5. /\ IsRunningSum(Planner!CostUpTo(w), n, Weights(w))
        /\ IsRunningSum(Planner!CostUpTo(longer), n + 1, Weights(longer))
    BY <1>1, CostIsSum DEF n
  <2>6. Planner!CostUpTo(longer)[n + 1] = edges[e].weight + Planner!CostUpTo(w)[n]
    <3> DEFINE s == Planner!CostUpTo(w)
               t == Planner!CostUpTo(longer)
               d == Weights(w)
               f == Weights(longer)
               x == edges[e].weight
    <3>1. /\ n \in Nat /\ x \in Int
          /\ \A k \in 1 .. n : d[k] \in Int
          /\ \A k \in 1 .. n : f[k + 1] = d[k]
          /\ f[1] = x
          /\ IsRunningSum(s, n, d) /\ IsRunningSum(t, n + 1, f)
      BY <1>1, <2>1, <2>3, <2>4, <2>5
    <3> HIDE DEF s, t, d, f, x
    <3>2. t[n + 1] = x + s[n]
      BY <3>1, RunningSumInFront
    <3> QED
      BY <3>2 DEF s, t, x
  <2> QED
    BY <1>1, <2>6 DEF Cost, Planner!Cost, n
<1>3. ASSUME NEW f, NEW t, edges[e].from = f, IsWalk(w, edges[e].to, t)
      PROVE  IsWalk(longer, f, t)
  <2>1. longer # <<>> /\ edges[longer[1]].from = f
    BY <1>1, <1>3
  <2>2. CASE w = <<>>
    <3>1. n = 0 /\ edges[e].to = t
      BY <1>3, <2>2 DEF n, IsWalk, Planner!IsWalk
    <3> QED
      BY <1>1, <2>1, <3>1 DEF IsWalk, Planner!IsWalk
  <2>3. CASE w # <<>>
    <3>1. /\ n > 0
          /\ edges[w[1]].from = edges[e].to
          /\ edges[w[n]].to = t
          /\ \A k \in 1 .. n - 1 : edges[w[k]].to = edges[w[k + 1]].from
      BY <1>1, <1>3, <2>3 DEF n, IsWalk, Planner!IsWalk, Walk
    <3>2. edges[longer[n + 1]].to = t
      BY <1>1, <3>1
    <3>3. ASSUME NEW k \in 1 .. n
          PROVE  edges[longer[k]].to = edges[longer[k + 1]].from
      <4>1. CASE k = 1
        BY <1>1, <3>1, <4>1
      <4>2. CASE k # 1
        <5>1. k - 1 \in 1 .. n - 1 /\ k = (k - 1) + 1
          BY <1>1, <4>2
        <5>2. longer[k] = w[k - 1] /\ longer[k + 1] = w[k]
          BY <1>1, <5>1
        <5> QED
          BY <3>1, <5>1, <5>2
      <4> QED
        BY <4>1, <4>2
    <3> QED
      BY <1>1, <2>1, <3>2, <3>3 DEF IsWalk, Planner!IsWalk
  <2> QED
    BY <2>2, <2>3
<1> QED
  BY <1>1, <1>2, <1>3 DEF longer

\* The list of edges met on the way back, the other way round: the edge met
\* last goes in front.
LEMMA ReverseAppend ==
  ASSUME NEW S, NEW p \in Seq(S), NEW e \in S
  PROVE  Reverse(Append(p, e)) = <<e>> \o Reverse(p)
<1> DEFINE n == Len(p)
           q == Append(p, e)
           r == Reverse(p)
<1>1. /\ n \in Nat /\ q \in Seq(S) /\ Len(q) = n + 1
      /\ \A k \in 1 .. n : q[k] = p[k]
      /\ q[n + 1] = e
  OBVIOUS
<1>2. r \in Seq(S) /\ Len(r) = n /\ \A k \in 1 .. n : r[k] = p[(n - k) + 1]
  <2>1. \A k \in 1 .. n : p[(n - k) + 1] \in S
    BY <1>1
  <2> QED
    BY <1>1, <2>1 DEF Reverse
<1> HIDE DEF q, r
<1> DEFINE longer == <<e>> \o r
<1>3. /\ longer \in Seq(S) /\ Len(longer) = n + 1
      /\ longer[1] = e
      /\ \A k \in 1 .. n : longer[k + 1] = r[k]
  BY <1>1, <1>2
<1> HIDE DEF longer
<1>4. Reverse(q) \in Seq(S) /\ Len(Reverse(q)) = n + 1
      /\ \A k \in 1 .. n + 1 : Reverse(q)[k] = q[((n + 1) - k) + 1]
  <2> HIDE DEF n
  <2>1. \A k \in 1 .. n + 1 : q[((n + 1) - k) + 1] \in S
    BY <1>1
  <2>2. Reverse(q) = [k \in 1 .. n + 1 |-> q[((n + 1) - k) + 1]]
    BY <1>1 DEF Reverse
  <2> QED
    BY <1>1, <2>1, <2>2
<1>5. \A k \in 1 .. n + 1 : Reverse(q)[k] = longer[k]
  <2> HIDE DEF n
  <2> TAKE k \in 1 .. n + 1
  <2>1. CASE k = 1
    BY <1>1, <1>3, <1>4, <2>1
  <2>2. CASE k # 1
    <3>1. k - 1 \in 1 .. n /\ k = (k - 1) + 1
      BY <1>1, <2>2
    <3>2. longer[k] = p[(n - (k - 1)) + 1]
      BY <1>2, <1>3, <3>1
    <3>3. (n - (k - 1)) + 1 \in 1 .. n /\ (n - (k - 1)) + 1 = ((n + 1) - k) + 1
      BY <1>1, <3>1
    <3>4. Reverse(q)[k] = q[((n + 1) - k) + 1]
      BY <1>4
    <3> QED
      BY <1>1, <3>2, <3>3, <3>4
  <2> QED
    BY <2>1, <2>2
<1> HIDE DEF n
<1>6. Reverse(q) = longer
  BY <1>1, <1>3, <1>4, <1>5
<1> QED
  BY <1>6 DEF q, r, longer

-----------------------------------------------------------------------------
(* No walk beats the matrix.                                                *)

\* By Bellman's equations, edge by edge along the walk.
LEMMA NoWalkIsLighter ==
  ASSUME TypeOK, MatrixInv, pc \in {"ready", "walk"},
         NEW f \in Vertex, NEW t \in Vertex, NEW w \in Walk, IsWalk(w, f, t)
  PROVE  Within(f, t, Cost(w))
<1> DEFINE n == Len(w)
           cost == Planner!CostUpTo(w)
           reached == [k \in 0 .. Len(w) |-> IF k = 0 THEN f ELSE edges[w[k]].to]
           Good == {k \in Nat : k <= n => Within(f, reached[k], cost[k])}
<1>1. /\ n \in Nat
      /\ \A k \in 1 .. n : /\ w[k] \in DOMAIN edges
                           /\ Weights(w)[k] \in Int
                           /\ Weights(w)[k] = edges[w[k]].weight
  BY WeightsType DEF Walk
<1>2. /\ cost[0] = 0
      /\ \A k \in 1 .. n : cost[k] = cost[k - 1] + edges[w[k]].weight
      /\ \A k \in 0 .. n : cost[k] \in Int
  <2> DEFINE d == Weights(w)
  <2>1. IsRunningSum(cost, n, d) /\ \A k \in 1 .. n : d[k] \in Int
    BY <1>1, CostIsSum
  <2> HIDE DEF cost, n, d
  <2>2. /\ cost[0] = 0
        /\ \A k \in 1 .. n : cost[k] = cost[k - 1] + d[k]
        /\ \A k \in 0 .. n : cost[k] \in Int
    BY <1>1, <2>1, RunningSumIs
  <2> QED
    BY <1>1, <2>2 DEF d
<1>3. /\ reached[0] = f
      /\ reached[n] = t
      /\ \A k \in 0 .. n - 1 : edges[w[k + 1]].from = reached[k]
      /\ \A k \in 0 .. n - 1 : edges[w[k + 1]].to = reached[k + 1]
  <2>1. CASE w = <<>>
    BY <2>1 DEF IsWalk, Planner!IsWalk
  <2>2. CASE w # <<>>
    <3>1. /\ n > 0
          /\ edges[w[1]].from = f
          /\ edges[w[n]].to = t
          /\ \A k \in 1 .. n - 1 : edges[w[k]].to = edges[w[k + 1]].from
      BY <1>1, <2>2 DEF IsWalk, Planner!IsWalk, Walk
    <3>2. ASSUME NEW k \in 0 .. n - 1
          PROVE  edges[w[k + 1]].from = reached[k] /\ edges[w[k + 1]].to = reached[k + 1]
      <4>1. CASE k = 0
        BY <1>1, <3>1, <4>1
      <4>2. CASE k # 0
        BY <1>1, <3>1, <4>2
      <4> QED
        BY <4>1, <4>2
    <3> QED
      BY <1>1, <3>1, <3>2
  <2> QED
    BY <2>1, <2>2
<1>4. BellmanInv
  BY BellmanFromMatrix
<1>5. 0 \in Good
  <2>1. weight[f][f] = 0
    BY VertexCountAssumption DEF MatrixInv, PhaseInv, DiagonalInv, Vertex
  <2> HIDE DEF cost, reached, n
  <2> QED
    BY <1>2, <1>3, <2>1 DEF Within, Known, NoRoute
<1>6. \A k \in Nat : k \in Good => k + 1 \in Good
  <2> TAKE k \in Nat
  <2> SUFFICES ASSUME k \in Good, k + 1 <= n
               PROVE  Within(f, reached[k + 1], cost[k + 1])
    OBVIOUS
  <2> HIDE DEF cost, reached, n
  <2> DEFINE e == w[k + 1]
  <2>1. k \in 0 .. n - 1 /\ k + 1 \in 1 .. n /\ (k + 1) - 1 = k
    BY <1>1
  <2>2. Within(f, edges[e].from, cost[k])
    BY <1>1, <1>3, <2>1
  <2>3. Within(f, edges[e].to, weight[f][edges[e].from] + edges[e].weight)
    BY <1>1, <1>4, <2>1, <2>2 DEF BellmanInv, Within
  <2>4. /\ weight[f][edges[e].from] \in Int
        /\ weight[f][edges[e].to] \in Int
        /\ edges[e].weight \in Int
    BY <1>1, <2>1, EdgeType, SMTT(30) DEF TypeOK, NoRoute
  <2>5. cost[k + 1] = cost[k] + edges[e].weight /\ cost[k] \in Int
    BY <1>1, <1>2, <2>1
  <2>6. Within(f, edges[e].to, cost[k + 1])
    BY <2>2, <2>3, <2>4, <2>5 DEF Within
  <2> QED
    BY <1>3, <2>1, <2>6
<1> HIDE DEF Good
<1>7. Nat \subseteq Good
  BY <1>5, <1>6, Induction
<1>8. Within(f, reached[n], cost[n])
  <2> HIDE DEF n, cost, reached
  <2> QED
    BY <1>1, <1>7 DEF Good
<1> QED
  BY <1>3, <1>8 DEF Cost, Planner!Cost

-----------------------------------------------------------------------------
(* BuildRoute.                                                              *)

\* The vertex BuildRoute has come back to.
Current == IF path = <<>> THEN query.to ELSE edges[path[Len(path)]].from

\* What has been collected is a walk from there to the target, and accounts
\* for exactly the weight that the stored route to there leaves.
WalkInv ==
  pc = "walk" /\ Known(query.from, query.to) =>
    /\ Current \in Vertex
    /\ edge_id = prev_edge[query.from][Current]
    /\ Known(query.from, Current)
    /\ IsWalk(Reverse(path), Current, query.to)
    /\ weight[query.from][query.to] =
         weight[query.from][Current] + Cost(Reverse(path))

RouterInv == TypeOK /\ MatrixInv /\ WalkInv

\* A question begins with nothing collected.
LEMMA AskBegins ==
  ASSUME RouterInv, NEW f \in Vertex, NEW t \in Vertex, Ask(f, t)
  PROVE  WalkInv'
<1>1. /\ query' = [from |-> f, to |-> t]
      /\ edge_id' = prev_edge[f][t]
      /\ path' = <<>>
      /\ UNCHANGED <<edges, weight, prev_edge>>
  BY DEF Ask, matrix
<1>2. query'.from = f /\ query'.to = t /\ Current' = t
  BY <1>1 DEF Current
<1>3. Reverse(path') = <<>> /\ <<>> \in Walk
  BY <1>1 DEF Reverse, Walk
<1>4. Cost(<<>>) = 0 /\ Cost(<<>>)' = Cost(<<>>)
  BY <1>1, <1>3, CostType, ZenonT(30) DEF RouterInv, Cost, Planner!Cost, Planner!CostUpTo
<1>5. IsWalk(<<>>, t, t)'
  BY DEF IsWalk, Planner!IsWalk
<1>6. weight[f][t] \in Int
  BY DEF RouterInv, TypeOK, NoRoute
<1>7. Cost(Reverse(path))' = 0
  BY <1>3, <1>4
<1>8. IsWalk(Reverse(path), Current, query.to)'
  BY <1>2, <1>3, <1>5
<1> QED
  BY <1>1, <1>2, <1>6, <1>7, <1>8 DEF WalkInv, Known

\* One edge further back.
LEMMA PushKeepsWalk ==
  ASSUME RouterInv, PushEdge
  PROVE  WalkInv'
<1> DEFINE f == query.from
           t == query.to
           v == Current
           e == edge_id
           u == edges[edge_id].from
           back == Reverse(path)
<1>1. /\ pc = "walk" /\ Known(f, t) /\ e # NoEdge
      /\ path' = Append(path, e)
      /\ edge_id' = prev_edge[f][u]
      /\ UNCHANGED <<edges, weight, prev_edge, query>>
  BY DEF PushEdge, matrix
<1>2. TypeOK /\ MatrixInv
  BY DEF RouterInv
<1>3. /\ v \in Vertex
      /\ e = prev_edge[f][v]
      /\ Known(f, v)
      /\ IsWalk(back, v, t)
      /\ weight[f][t] = weight[f][v] + Cost(back)
  BY <1>1 DEF RouterInv, WalkInv
<1>4. e \in DOMAIN edges /\ path \in Seq(DOMAIN edges) /\ f \in Vertex
  BY <1>1, <1>2 DEF TypeOK
<1>5. u \in Vertex /\ edges[e].weight \in Int
  BY <1>2, <1>4, EdgeType
<1>6. edges[e].to = v /\ f # v
  BY <1>1, <1>2, <1>3, <1>4 DEF MatrixInv, PredecessorInv
<1>7. Known(f, u) /\ weight[f][v] = weight[f][u] + edges[e].weight
  BY <1>1, <1>2, <1>3, <1>4, <1>6, BellmanFromMatrix DEF BellmanInv
<1>8. path' # <<>> /\ path'[Len(path')] = e
  BY <1>1, <1>4
<1>9. Current' = u
  BY <1>1, <1>8 DEF Current
<1>10. back \in Walk
  BY <1>4, ReverseType DEF Walk
<1>11. Reverse(path') = <<e>> \o back
  BY <1>1, <1>4, ReverseAppend
<1> HIDE DEF back
<1>12. /\ <<e>> \o back \in Walk
       /\ Cost(<<e>> \o back) = edges[e].weight + Cost(back)
       /\ IsWalk(<<e>> \o back, u, t)
  BY <1>2, <1>3, <1>4, <1>6, <1>10, EdgeInFront
<1>13. Cost(back) \in Int /\ weight[f][u] \in Int
  BY <1>2, <1>4, <1>5, <1>10, CostType DEF TypeOK, NoRoute
<1>14. weight[f][t] = weight[f][u] + Cost(<<e>> \o back)
  <2>1. weight[f][t] = (weight[f][u] + edges[e].weight) + Cost(back)
    BY <1>3, <1>7
  <2>2. \A a, b, c \in Int : (a + b) + c = a + (b + c)
    OBVIOUS
  <2>3. (weight[f][u] + edges[e].weight) + Cost(back)
          = weight[f][u] + (edges[e].weight + Cost(back))
    BY <1>5, <1>13, <2>2, Zenon
  <2> QED
    BY <1>12, <2>1, <2>3, Zenon
<1>15. /\ IsWalk(Reverse(path), Current, query.to)' = IsWalk(<<e>> \o back, u, t)
       /\ Cost(Reverse(path))' = Cost(<<e>> \o back)
  BY <1>1, <1>9, <1>11
  DEF IsWalk, Cost, Planner!IsWalk, Planner!Cost, Planner!CostUpTo
<1> QED
  BY <1>1, <1>5, <1>7, <1>9, <1>12, <1>14, <1>15 DEF WalkInv, Known

\* The invariant of the matrix with that of BuildRoute's walk.
LEMMA RouterStarts ==
  ASSUME NEW graph, IsGraph(graph), Start(graph)
  PROVE  RouterInv
<1>1. TypeOK /\ MatrixInv
  BY TypeStart, MatrixStart
<1>2. pc = "vertex"
  BY DEF Start
<1> QED
  BY <1>1, <1>2 DEF RouterInv, WalkInv

\* Every step keeps the router's invariants.
LEMMA RouterSteps ==
  ASSUME RouterInv, [Next]_vars
  PROVE  RouterInv'
<1>1. TypeOK' /\ MatrixInv'
  BY TypeNext, MatrixNext DEF RouterInv
<1> SUFFICES WalkInv'
  BY <1>1 DEF RouterInv
<1>2. CASE \E f, t \in Vertex : Ask(f, t)
  BY <1>2, AskBegins
<1>3. CASE PushEdge
  BY <1>3, PushKeepsWalk
<1>4. CASE Construct \/ ReturnNothing \/ ReturnRoute
  <2>1. pc' # "walk"
    BY <1>4 DEF Construct, EnterVertex, VisitEdge, LeaveVertex, BeginRelaxation,
                SkipRow, RelaxRoute, FinishRelaxation, ReturnNothing, ReturnRoute
  <2> QED
    BY <2>1 DEF WalkInv
<1>5. CASE UNCHANGED vars
  <2>1. UNCHANGED <<edges, pc, weight, prev_edge, query, edge_id, path>>
    BY <1>5 DEF vars, matrix, building
  <2> QED
    BY <2>1 DEF RouterInv, WalkInv, Current, Known, IsWalk, Cost,
                Planner!IsWalk, Planner!Cost, Planner!CostUpTo
<1> QED
  BY <1>2, <1>3, <1>4, <1>5 DEF Next, BuildRoute

\* The inductive invariant of the router with BuildRoute's walk.
THEOREM RouterCorrect == Spec => []RouterInv
<1>1. Init => RouterInv
  BY GraphsAssumption, RouterStarts DEF Init
<1>2. RouterInv /\ [Next]_vars => RouterInv'
  BY RouterSteps
<1> QED
  BY <1>1, <1>2, PTL DEF Spec

-----------------------------------------------------------------------------
(* What is answered.                                                        *)

\* A route of least weight among all the walks of the graph, or none because
\* the graph has no walk.
IsLightest(a, f, t) ==
  IF a.found
  THEN /\ a.edges \in Walk
       /\ IsWalk(a.edges, f, t)
       /\ a.weight = Cost(a.edges)
       /\ \A w \in Walk : IsWalk(w, f, t) => a.weight <= Cost(w)
  ELSE /\ a = NoAnswer
       /\ \A w \in Walk : ~ IsWalk(w, f, t)

\* What BuildRoute returns.
LEMMA LightestReturned ==
  ASSUME RouterInv, ReturnRoute \/ ReturnNothing
  PROVE  IsLightest(answer', query.from, query.to)
<1> DEFINE f == query.from
           t == query.to
<1>1. TypeOK /\ MatrixInv /\ pc = "walk" /\ f \in Vertex /\ t \in Vertex
  BY DEF RouterInv, ReturnRoute, ReturnNothing, TypeOK
<1>2. \A w \in Walk : IsWalk(w, f, t) => Within(f, t, Cost(w))
  BY <1>1, NoWalkIsLighter
<1>3. CASE ReturnNothing
  <2>1. answer' = NoAnswer /\ ~ Known(f, t)
    BY <1>3 DEF ReturnNothing
  <2>2. \A w \in Walk : ~ IsWalk(w, f, t)
    BY <1>2, <2>1 DEF Within
  <2> QED
    BY <2>1, <2>2 DEF IsLightest, NoAnswer
<1>4. CASE ReturnRoute
  <2> DEFINE route == Reverse(path)
  <2>1. /\ Known(f, t) /\ edge_id = NoEdge
        /\ answer' = [found |-> TRUE, weight |-> weight[f][t], edges |-> route]
    BY <1>4 DEF ReturnRoute
  <2>2. /\ Current \in Vertex
        /\ edge_id = prev_edge[f][Current]
        /\ Known(f, Current)
        /\ IsWalk(route, Current, t)
        /\ weight[f][t] = weight[f][Current] + Cost(route)
    BY <1>1, <2>1 DEF RouterInv, WalkInv
  <2>3. Current = f
    BY <1>1, <2>1, <2>2 DEF MatrixInv, PredecessorInv
  <2>4. weight[f][f] = 0
    BY <1>1, VertexCountAssumption DEF MatrixInv, PhaseInv, DiagonalInv, Vertex
  <2>5. route \in Walk
    BY <1>1, ReverseType DEF TypeOK, Walk
  <2> HIDE DEF route
  <2>6. Cost(route) \in Int
    BY <1>1, <2>5, CostType
  <2>7. weight[f][t] = Cost(route)
    BY <2>2, <2>3, <2>4, <2>6
  <2>8. \A w \in Walk : IsWalk(w, f, t) => weight[f][t] <= Cost(w)
    BY <1>2 DEF Within
  <2> HIDE DEF f, t
  <2>9. answer'.found /\ answer'.weight = weight[f][t] /\ answer'.edges = route
    BY <2>1
  <2>10. IsLightest(answer', f, t)
    BY <2>2, <2>3, <2>5, <2>7, <2>8, <2>9 DEF IsLightest
  <2> QED
    BY <2>10 DEF f, t
<1> QED
  BY <1>3, <1>4

\* Every call of BuildRoute returns a lightest route, or nothing if there is no
\* route at all: walks of any length are no competition.
THEOREM AnswersAreLightest ==
  Spec => [][pc = "walk" /\ pc' # "walk" => IsLightest(answer', query.from, query.to)]_vars
<1>1. RouterInv /\ [Next]_vars =>
        [pc = "walk" /\ pc' # "walk" => IsLightest(answer', query.from, query.to)]_vars
  <2> SUFFICES ASSUME RouterInv, Next, pc = "walk", pc' # "walk"
               PROVE  IsLightest(answer', query.from, query.to)
    OBVIOUS
  <2>1. ReturnRoute \/ ReturnNothing
    BY DEF Next, Construct, BuildRoute, EnterVertex, VisitEdge, LeaveVertex,
           BeginRelaxation, SkipRow, RelaxRoute, FinishRelaxation, Ask, PushEdge
  <2> QED
    BY <2>1, LightestReturned
<1> QED
  BY <1>1, RouterCorrect, PTL DEF Spec

-----------------------------------------------------------------------------
(* The refinement.                                                          *)

\* A lightest answer is a correct one: short walks are walks.
LEMMA LightestIsCorrect ==
  ASSUME TypeOK, NEW a, NEW f, NEW t, IsLightest(a, f, t)
  PROVE  Planner!IsCorrectAnswer(a, f, t)
<1>1. \A w \in Planner!ShortWalks(f, t) : w \in Walk /\ IsWalk(w, f, t)
  <2> TAKE w \in Planner!ShortWalks(f, t)
  <2>1. PICK n \in 0 .. VertexCount - 1 : w \in [1 .. n -> DOMAIN edges]
    BY DEF Planner!ShortWalks
  <2>2. n \in Nat
    BY VertexCountAssumption
  <2>3. w \in Walk
    BY <2>1, <2>2 DEF Walk
  <2> QED
    BY <2>3 DEF Planner!ShortWalks, IsWalk
<1> QED
  BY <1>1 DEF IsLightest, Planner!IsCorrectAnswer, IsWalk, Cost, NoAnswer, Planner!NoAnswer

\* The constructor ends only if no weight is negative.
LEMMA NoNegativeEdge ==
  ASSUME TypeOK, MatrixInv, pc = "relax"
  PROVE  /\ ~ Planner!HasNegativeEdge
         /\ \A e \in DOMAIN edges : edges[e].weight >= 0
<1> SUFFICES ASSUME NEW e \in DOMAIN edges PROVE edges[e].weight >= 0
  BY EdgeType DEF Planner!HasNegativeEdge
<1>1. TypeOK /\ MatrixInv
  OBVIOUS
<1>2. /\ edges[e].from \in Vertex /\ edges[e].to \in Vertex
      /\ edges[e].weight \in Int
  BY <1>1, EdgeType
<1>3. Within(edges[e].from, edges[e].to, edges[e].weight)
  BY <1>1, <1>2, VertexCountAssumption DEF MatrixInv, PhaseInv, EdgesInv, Vertex
<1>4. weight[edges[e].from][edges[e].to] \in Nat
  BY <1>1, <1>2, <1>3 DEF TypeOK, Within, Known
<1> QED
  BY <1>2, <1>3, <1>4 DEF Within

\* What the constructor does is invisible until it is done or throws.
LEMMA ConstructRefines ==
  ASSUME RouterInv, Construct
  PROVE  [Planner!Next]_(Planner!vars)
<1>1. UNCHANGED <<edges, query, answer>>
  BY DEF Construct, EnterVertex, VisitEdge, LeaveVertex, BeginRelaxation,
         SkipRow, RelaxRoute, FinishRelaxation, building
<1>2. CASE EnterVertex \/ LeaveVertex \/ BeginRelaxation \/ SkipRow \/ RelaxRoute
  <2>1. Status = "building" /\ Status' = "building"
    BY <1>2 DEF EnterVertex, LeaveVertex, BeginRelaxation, SkipRow, RelaxRoute, Status
  <2> QED
    BY <1>1, <2>1 DEF Planner!vars
<1>3. CASE \E e \in Unvisited : VisitEdge(e)
  <2>1. PICK e \in Unvisited : VisitEdge(e)
    BY <1>3
  <2>2. Status = "building"
    BY <2>1 DEF VisitEdge, Status
  <2>3. CASE edges[e].weight < 0
    <3>1. Status' = "rejected"
      BY <2>1, <2>3 DEF VisitEdge, Status
    <3>2. Planner!HasNegativeEdge
      BY <2>3 DEF Unvisited, Planner!HasNegativeEdge
    <3> QED
      BY <1>1, <2>2, <3>1, <3>2 DEF Planner!Next, Planner!Reject
  <2>4. CASE ~ (edges[e].weight < 0)
    <3>1. Status' = "building"
      BY <2>1, <2>4 DEF VisitEdge, Status
    <3> QED
      BY <1>1, <2>2, <3>1 DEF Planner!vars
  <2> QED
    BY <2>3, <2>4
<1>4. CASE FinishRelaxation
  <2>1. pc = "relax" /\ Status = "building" /\ Status' = "idle"
    BY <1>4 DEF FinishRelaxation, Status
  <2> QED
    BY <1>1, <2>1, NoNegativeEdge DEF RouterInv, Planner!Next, Planner!Accept
<1> QED
  BY <1>2, <1>3, <1>4 DEF Construct

\* Every step of BuildRoute but the last is invisible.
LEMMA BuildRefines ==
  ASSUME RouterInv, BuildRoute
  PROVE  [Planner!Next]_(Planner!vars)
<1>1. UNCHANGED <<edges, query>> /\ Status = "asked"
  BY DEF BuildRoute, ReturnNothing, PushEdge, ReturnRoute, Status
<1>2. CASE PushEdge
  <2>1. Status' = "asked" /\ answer' = answer
    BY <1>2 DEF PushEdge, Status
  <2> QED
    BY <1>1, <2>1 DEF Planner!vars
<1>3. CASE ReturnNothing \/ ReturnRoute
  <2>1. Status' = "idle"
    BY <1>3 DEF ReturnNothing, ReturnRoute, Status
  <2>2. TypeOK
    BY DEF RouterInv
  <2>3. Planner!IsCorrectAnswer(answer', query.from, query.to)
    BY <1>3, <2>2, LightestReturned, LightestIsCorrect
  <2> QED
    BY <1>1, <2>1, <2>3 DEF Planner!Next, Planner!Answer
<1> QED
  BY <1>2, <1>3 DEF BuildRoute

\* The router keeps the promise of RoutePlanner: it accepts a graph or throws
\* on a negative weight, and answers every question correctly.
THEOREM RouterImplementsPlanner == Spec => PlannerSpec
<1>1. Init => Planner!Init
  BY DEF Init, Start, Planner!Init, Status, NoAnswer, Planner!NoAnswer
<1>2. RouterInv /\ [Next]_vars => [Planner!Next]_(Planner!vars)
  <2> SUFFICES ASSUME RouterInv, [Next]_vars
               PROVE  [Planner!Next]_(Planner!vars)
    OBVIOUS
  <2>1. CASE Construct
    BY <2>1, ConstructRefines
  <2>2. CASE \E f, t \in Vertex : Ask(f, t)
    <3>1. /\ Status = "idle" /\ Status' = "asked"
          /\ query' \in [from : Vertex, to : Vertex]
          /\ answer' = NoAnswer
          /\ UNCHANGED edges
      BY <2>2 DEF Ask, Status
    <3> QED
      BY <3>1 DEF Planner!Next, Planner!Ask, Planner!Vertex, Vertex,
                  NoAnswer, Planner!NoAnswer
  <2>3. CASE BuildRoute
    BY <2>3, BuildRefines
  <2>4. CASE UNCHANGED vars
    BY <2>4 DEF vars, building, Planner!vars, Status
  <2> QED
    BY <2>1, <2>2, <2>3, <2>4 DEF Next
<1> QED
  BY <1>1, <1>2, RouterCorrect, PTL DEF Spec, PlannerSpec, Planner!Spec

-----------------------------------------------------------------------------
(* BuildRoute does not go in circles. The last edges stored for one source  *)
(* form a tree: no vertices, each with a last edge, have their predecessors *)
(* among themselves. Edges of weight zero make this more than a matter of   *)
(* weights.                                                                 *)

GoesOn(row, G, C) == \A j \in C : row[j] # NoEdge /\ G[row[j]].from \in C

IsTree(row, G) == \A C \in SUBSET Vertex : GoesOn(row, G, C) => C = {}

\* Going back along last edges never makes the way longer.
Downhill(w, row, G) ==
  \A j \in Vertex : row[j] # NoEdge =>
    /\ G[row[j]].from \in Vertex
    /\ w[j] # NoRoute /\ w[G[row[j]].from] # NoRoute
    /\ w[G[row[j]].from] <= w[j]

\* The way to k and on to j, in the row of k, is lighter than the one stored.
Joined(wi, wk, k, j) ==
  /\ wi[k] # NoRoute /\ wk[j] # NoRoute
  /\ wi[j] = NoRoute \/ wi[k] + wk[j] < wi[j]

\* Taking the last edges of the lighter ways from the row of k makes a tree of
\* two trees. On a circle the weights could not change; a vertex that keeps its
\* last edge would have a predecessor that keeps its own, and so the circle
\* would lie in one of the two.
LEMMA JoinTrees ==
  ASSUME NEW G, NEW k \in Vertex, NEW wi, NEW wk, NEW pi, NEW pk,
         \A j \in Vertex : wi[j] \in Nat \cup {NoRoute} /\ wk[j] \in Nat \cup {NoRoute},
         Downhill(wi, pi, G), Downhill(wk, pk, G),
         IsTree(pi, G), IsTree(pk, G)
  PROVE  IsTree([j \in Vertex |-> IF Joined(wi, wk, k, j) THEN pk[j] ELSE pi[j]], G)
<1> DEFINE row == [j \in Vertex |-> IF Joined(wi, wk, k, j) THEN pk[j] ELSE pi[j]]
           best == [j \in Vertex |-> IF Joined(wi, wk, k, j) THEN wi[k] + wk[j] ELSE wi[j]]
           before(j) == G[row[j]].from
<1> SUFFICES ASSUME NEW C \in SUBSET Vertex, GoesOn(row, G, C), C # {}
             PROVE  FALSE
  BY DEF IsTree
<1>1. ASSUME NEW j \in C
      PROVE  /\ before(j) \in C
             /\ best[j] \in Nat
             /\ best[before(j)] <= best[j]
  <2> DEFINE u == before(j)
  <2>1. row[j] # NoEdge /\ u \in C /\ u \in Vertex /\ j \in Vertex
    BY DEF GoesOn
  <2>2. /\ best[j] = IF Joined(wi, wk, k, j) THEN wi[k] + wk[j] ELSE wi[j]
        /\ best[u] = IF Joined(wi, wk, k, u) THEN wi[k] + wk[u] ELSE wi[u]
    BY <2>1
  <2>3. CASE Joined(wi, wk, k, j)
    <3>1. row[j] = pk[j]
      BY <2>1, <2>3
    <3>2. wk[j] # NoRoute /\ wk[u] # NoRoute /\ wk[u] <= wk[j]
      BY <2>1, <3>1 DEF Downhill
    <3> HIDE DEF u, best
    <3>3. wi[k] \in Nat /\ wk[j] \in Nat /\ wk[u] \in Nat /\ best[j] = wi[k] + wk[j]
      BY <2>1, <2>2, <2>3, <3>2 DEF Joined
    <3>4. \/ best[u] = wi[k] + wk[u]
          \/ wi[u] \in Nat /\ best[u] = wi[u] /\ ~ (wi[k] + wk[u] < wi[u])
      <4>1. CASE Joined(wi, wk, k, u)
        BY <2>2, <4>1
      <4>2. CASE ~ Joined(wi, wk, k, u)
        <5>1. best[u] = wi[u] /\ wi[u] \in Nat \cup {NoRoute}
          BY <2>1, <2>2, <4>2
        <5>2. wi[k] # NoRoute
          BY <3>3 DEF NoRoute
        <5> QED
          BY <3>2, <4>2, <5>1, <5>2 DEF Joined
      <4> QED
        BY <4>1, <4>2
    <3>5. best[j] \in Nat /\ best[u] <= best[j]
      BY <3>2, <3>3, <3>4
    <3> QED
      BY <2>1, <3>5 DEF u
  <2>4. CASE ~ Joined(wi, wk, k, j)
    <3>1. row[j] = pi[j]
      BY <2>1, <2>4
    <3>2. wi[j] # NoRoute /\ wi[u] # NoRoute /\ wi[u] <= wi[j]
      BY <2>1, <3>1 DEF Downhill
    <3> HIDE DEF u, best
    <3>3. wi[j] \in Nat /\ wi[u] \in Nat /\ best[j] = wi[j]
      BY <2>1, <2>2, <2>4, <3>2
    <3>4. \/ best[u] = wi[u]
          \/ best[u] = wi[k] + wk[u] /\ wi[k] + wk[u] < wi[u]
      <4>1. CASE Joined(wi, wk, k, u)
        BY <2>2, <3>2, <4>1 DEF Joined
      <4>2. CASE ~ Joined(wi, wk, k, u)
        BY <2>2, <4>2
      <4> QED
        BY <4>1, <4>2
    <3>5. best[u] \in Int /\ best[u] <= wi[u]
      BY <2>1, <2>2, <3>3, <3>4 DEF Joined
    <3>6. best[j] \in Nat /\ best[u] <= best[j]
      BY <3>2, <3>3, <3>5
    <3> QED
      BY <2>1, <3>6 DEF u
  <2> QED
    BY <2>3, <2>4
<1>2. \A j \in Vertex : /\ Joined(wi, wk, k, j) => row[j] = pk[j] /\ best[j] = wi[k] + wk[j]
                        /\ ~ Joined(wi, wk, k, j) => row[j] = pi[j] /\ best[j] = wi[j]
  OBVIOUS
<1>3. \A j \in C : row[j] # NoEdge
  BY DEF GoesOn
<1> HIDE DEF row, best
<1>4. PICK m \in {best[j] : j \in C} : \A x \in {best[j] : j \in C} : m <= x
  <2> DEFINE S == {best[j] : j \in C}
  <2>1. S \in SUBSET Nat /\ S # {}
    BY <1>1
  <2> HIDE DEF S
  <2>2. \E n \in S : \A x \in S : n <= x
    BY <2>1, LeastNumber
  <2> QED
    BY <2>2 DEF S
<1> DEFINE M == {j \in C : best[j] = m}
           A == {j \in M : ~ Joined(wi, wk, k, j)}
<1>5. M # {} /\ m \in Nat
  BY <1>1, <1>4
<1>6. ASSUME NEW j \in M
      PROVE  before(j) \in M
  <2>1. /\ before(j) \in C /\ best[before(j)] \in Nat
        /\ best[before(j)] <= m /\ m <= best[before(j)]
    BY <1>1, <1>4
  <2> QED
    BY <1>5, <2>1
<1>7. GoesOn(pi, G, A)
  <2> SUFFICES ASSUME NEW j \in A
               PROVE  pi[j] # NoEdge /\ G[pi[j]].from \in A
    BY DEF GoesOn
  <2> DEFINE u == before(j)
  <2>1. j \in Vertex /\ row[j] = pi[j] /\ row[j] # NoEdge /\ wi[j] = m
    BY <1>2, <1>3
  <2>2. u \in M /\ u \in Vertex /\ best[u] = m
    BY <1>6
  <2>3. wi[u] # NoRoute /\ wi[u] <= m
    BY <2>1 DEF Downhill
  <2>4. Joined(wi, wk, k, u) => m < wi[u]
    BY <1>2, <2>2, <2>3 DEF Joined
  <2>5. wi[u] \in Int
    BY <2>2 DEF NoRoute
  <2>6. ~ Joined(wi, wk, k, u)
    BY <1>5, <2>3, <2>4, <2>5
  <2> QED
    BY <2>1, <2>2, <2>6
<1>8. A = {}
  BY <1>7 DEF IsTree
<1>9. GoesOn(pk, G, M)
  <2> SUFFICES ASSUME NEW j \in M
               PROVE  pk[j] # NoEdge /\ G[pk[j]].from \in M
    BY DEF GoesOn
  <2>1. j \in Vertex /\ row[j] = pk[j] /\ row[j] # NoEdge
    BY <1>2, <1>3, <1>8
  <2> QED
    BY <1>6, <2>1
<1>10. M = {}
  BY <1>9 DEF IsTree
<1> QED
  BY <1>5, <1>10

\* The cells the running pass has yet to write.
Pending(i, j) ==
  through < VertexCount /\ Joined(weight[i], weight[through], through, j)

\* The last edges of a row as the running pass will leave them.
LastEdges(i) ==
  [j \in Vertex |-> IF Pending(i, j) THEN prev_edge[through][j] ELSE prev_edge[i][j]]

\* The first loop stores single edges; from then on every row is a tree, up to
\* the cells the running pass will still write.
TreeInv ==
  /\ pc \in {"vertex", "edges", "error"} =>
       \A i, j \in Vertex : prev_edge[i][j] # NoEdge => edges[prev_edge[i][j]].from = i
  /\ pc \in {"relax", "ready", "walk"} => \A i \in Vertex : IsTree(LastEdges(i), edges)

\* Two rows of the same last edges are trees together.
LEMMA SameTree ==
  ASSUME NEW G, NEW p, NEW q, \A j \in Vertex : p[j] = q[j], IsTree(p, G)
  PROVE  IsTree(q, G)
<1> SUFFICES ASSUME NEW C \in SUBSET Vertex, GoesOn(q, G, C)
             PROVE  C = {}
  BY DEF IsTree
<1>1. GoesOn(p, G, C)
  BY DEF GoesOn
<1> QED
  BY <1>1 DEF IsTree

\* The first loop.
LEMMA ScanKeepsTrees ==
  ASSUME TypeOK, TreeInv, EnterVertex \/ LeaveVertex \/ \E e \in Unvisited : VisitEdge(e)
  PROVE  TreeInv'
<1>1. /\ pc \in {"vertex", "edges"} /\ pc' \in {"vertex", "edges", "error"}
      /\ edges' = edges
  BY DEF EnterVertex, LeaveVertex, VisitEdge
<1> SUFFICES ASSUME NEW i \in Vertex, NEW j \in Vertex, prev_edge'[i][j] # NoEdge
             PROVE  edges[prev_edge'[i][j]].from = i
  BY <1>1 DEF TreeInv
<1>2. prev_edge[i][j] # NoEdge => edges[prev_edge[i][j]].from = i
  BY <1>1 DEF TreeInv
<1>3. prev_edge \in [Vertex -> [Vertex -> DOMAIN edges \cup {NoEdge}]]
  BY DEF TypeOK
<1>4. CASE EnterVertex
  <2>1. vertex \in Vertex
    BY <1>4, VertexCountAssumption DEF EnterVertex, TypeOK, Vertex
  <2>2. prev_edge'[i][j] = IF i = vertex /\ j = vertex THEN NoEdge ELSE prev_edge[i][j]
    BY <1>3, <1>4, <2>1 DEF EnterVertex
  <2> QED
    BY <1>2, <2>2
<1>5. CASE LeaveVertex
  BY <1>2, <1>5 DEF LeaveVertex, matrix
<1>6. CASE \E e \in Unvisited : VisitEdge(e)
  <2>1. PICK e \in Unvisited : VisitEdge(e)
    BY <1>6
  <2>2. /\ e \in DOMAIN edges /\ edges[e].from = vertex
        /\ vertex \in Vertex /\ edges[e].to \in Vertex
    BY <2>1, EdgeType DEF Unvisited, VisitEdge, TypeOK
  <2>3. \/ prev_edge' = prev_edge
        \/ prev_edge' = [prev_edge EXCEPT ![vertex][edges[e].to] = e]
    BY <2>1 DEF VisitEdge, matrix
  <2>4. \/ prev_edge'[i][j] = prev_edge[i][j]
        \/ prev_edge'[i][j] = e /\ i = vertex
    BY <1>3, <2>2, <2>3
  <2> QED
    BY <1>2, <2>2, <2>4
<1> QED
  BY <1>4, <1>5, <1>6

\* The pass through vertex 0 begins with rows of single edges.
LEMMA BeginKeepsTrees ==
  ASSUME TypeOK, MatrixInv, TreeInv, BeginRelaxation
  PROVE  TreeInv'
<1>1. /\ pc = "vertex" /\ pc' = "relax" /\ vertex = VertexCount /\ through = 0
      /\ UNCHANGED <<edges, weight, prev_edge, through>>
  BY DEF BeginRelaxation, matrix, loops, MatrixInv, PhaseInv
<1> SUFFICES ASSUME NEW i \in Vertex
             PROVE  IsTree(LastEdges(i), edges)
  BY <1>1 DEF TreeInv, LastEdges, Pending
<1>2. through \in Vertex /\ through < VertexCount
  BY <1>1, VertexCountAssumption DEF Vertex
<1>3. \A r, j \in Vertex : weight[r][j] \in Nat \cup {NoRoute}
  BY DEF TypeOK
<1>4. \A r \in Vertex : weight[r][r] = 0 /\ prev_edge[r][r] = NoEdge
  <2>1. \A r \in Vertex : weight[r][r] = 0
    BY <1>1, VertexCountAssumption DEF MatrixInv, DiagonalInv, Vertex
  <2>2. \A r \in Vertex : prev_edge[r][r] = NoEdge
    BY DEF MatrixInv, PredecessorInv
  <2> QED
    BY <2>1, <2>2
<1>5. ASSUME NEW r \in Vertex
      PROVE  Downhill(weight[r], prev_edge[r], edges) /\ IsTree(prev_edge[r], edges)
  <2>1. \A j \in Vertex : prev_edge[r][j] # NoEdge =>
          edges[prev_edge[r][j]].from = r /\ Known(r, j)
    BY <1>1 DEF TreeInv, MatrixInv, PredecessorInv
  <2>2. Downhill(weight[r], prev_edge[r], edges)
    BY <1>3, <1>4, <2>1 DEF Downhill, Known, NoRoute
  <2>3. IsTree(prev_edge[r], edges)
    BY <1>4, <2>1 DEF IsTree, GoesOn
  <2> QED
    BY <2>2, <2>3
<1>6. IsTree([j \in Vertex |-> IF Joined(weight[i], weight[through], through, j)
                              THEN prev_edge[through][j] ELSE prev_edge[i][j]], edges)
  <2> DEFINE wi == weight[i]
             wk == weight[through]
             pi == prev_edge[i]
             pk == prev_edge[through]
  <2>1. /\ \A j \in Vertex : wi[j] \in Nat \cup {NoRoute} /\ wk[j] \in Nat \cup {NoRoute}
        /\ Downhill(wi, pi, edges) /\ Downhill(wk, pk, edges)
        /\ IsTree(pi, edges) /\ IsTree(pk, edges)
    BY <1>2, <1>3, <1>5
  <2> HIDE DEF wi, wk, pi, pk
  <2>2. IsTree([j \in Vertex |-> IF Joined(wi, wk, through, j) THEN pk[j] ELSE pi[j]], edges)
    BY <1>2, <2>1, JoinTrees
  <2> QED
    BY <2>2 DEF wi, wk, pi, pk
<1> QED
  BY <1>2, <1>6 DEF LastEdges, Pending

\* A step of a pass writes what was pending, and the last one leaves nothing
\* pending: the trees of the pass are the rows the next pass begins with.
LEMMA RelaxKeepsTrees ==
  ASSUME TypeOK, TypeOK', MatrixInv, TreeInv, RelaxRoute \/ SkipRow
  PROVE  TreeInv'
<1> DEFINE k == through
           sum(i, j) == weight[i][k] + weight[k][j]
<1>1. /\ pc = "relax" /\ pc' = "relax" /\ through < VertexCount /\ edges' = edges
      /\ NextCell \/ NextRow
  BY DEF RelaxRoute, SkipRow
<1>2. /\ k \in Vertex
      /\ k' = k \/ k' = k + 1
      /\ k' # k => \A i, j \in Vertex : NextPast(i, j)
  BY <1>1, LoopType, NextCellPast DEF NextPast
<1>3. PassStep
  BY RelaxPass, SkipPass
<1>4. \A i, j \in Vertex : /\ weight[i][j] \in Nat \cup {NoRoute}
                          /\ weight'[i][j] \in Nat \cup {NoRoute}
                          /\ prev_edge'[i][j] \in DOMAIN edges \cup {NoEdge}
  BY <1>1 DEF TypeOK
<1>5. \A i, j \in Vertex :
        \/ weight'[i][j] = weight[i][j] /\ prev_edge'[i][j] = prev_edge[i][j]
        \/ /\ i # k
           /\ Joined(weight[i], weight[k], k, j)
           /\ weight'[i][j] = sum(i, j)
           /\ prev_edge'[i][j] = prev_edge[k][j]
  <2>1. CASE SkipRow
    BY <2>1 DEF SkipRow, matrix
  <2>2. CASE RelaxRoute
    <3>1. \A i, j \in Vertex :
            \/ weight'[i][j] = weight[i][j] /\ prev_edge'[i][j] = prev_edge[i][j]
            \/ /\ i # k /\ Known(i, k) /\ Known(k, j)
               /\ weight'[i][j] = sum(i, j)
               /\ Known(i, j) => weight'[i][j] < weight[i][j]
               /\ prev_edge'[i][j] = prev_edge[k][j]
      BY <2>2, RelaxWrites DEF MatrixInv
    <3> QED
      BY <3>1 DEF Joined, Known
  <2> QED
    BY <2>1, <2>2
<1>6. \A i, j \in Vertex : /\ weight'[i][k] = weight[i][k]
                          /\ weight'[k][j] = weight[k][j]
                          /\ prev_edge'[k][j] = prev_edge[k][j]
  BY <1>2, <1>3, <1>5 DEF PassStep
<1>7. ASSUME NEW i \in Vertex, NEW j \in Vertex
      PROVE  LastEdges(i)[j] = IF Joined(weight'[i], weight'[k], k, j)
                               THEN prev_edge'[k][j] ELSE prev_edge'[i][j]
  <2>1. LastEdges(i)[j] = IF Joined(weight[i], weight[k], k, j)
                          THEN prev_edge[k][j] ELSE prev_edge[i][j]
    BY <1>1 DEF LastEdges, Pending
  <2>2. CASE weight'[i][j] = weight[i][j] /\ prev_edge'[i][j] = prev_edge[i][j]
    BY <1>2, <1>6, <2>1, <2>2 DEF Joined
  <2>3. CASE /\ Joined(weight[i], weight[k], k, j)
             /\ weight'[i][j] = sum(i, j)
             /\ prev_edge'[i][j] = prev_edge[k][j]
    <3>1. ~ Joined(weight'[i], weight'[k], k, j)
      BY <1>2, <1>4, <1>6, <2>3 DEF Joined, NoRoute
    <3> QED
      BY <2>1, <2>3, <3>1
  <2> QED
    BY <1>5, <2>2, <2>3
<1>8. ASSUME NEW i \in Vertex
      PROVE  IsTree(LastEdges(i), edges)
  BY <1>1 DEF TreeInv
<1> SUFFICES ASSUME NEW i \in Vertex
             PROVE  IsTree(LastEdges(i), edges)'
  BY <1>1 DEF TreeInv
<1>9. CASE k' = k
  <2>1. \A j \in Vertex : LastEdges(i)[j] = LastEdges(i)'[j]
    BY <1>1, <1>7, <1>9 DEF LastEdges, Pending
  <2>2. IsTree(LastEdges(i)', edges)
    BY <1>8, <2>1, SameTree
  <2> QED
    BY <1>1, <2>2
<1>10. CASE k' # k
  <2>1. \A r, j \in Vertex : Known(r, k) /\ Known(k, j) => NextWithin(r, j, sum(r, j))
    BY <1>2, <1>3, <1>10 DEF PassStep
  <2>2. \A r, j \in Vertex : ~ Joined(weight'[r], weight'[k], k, j)
    BY <1>2, <1>4, <1>6, <2>1 DEF Joined, Known, NextWithin, NoRoute
  <2>3. ASSUME NEW r \in Vertex
        PROVE  IsTree(prev_edge'[r], edges)
    <3>1. \A j \in Vertex : LastEdges(r)[j] = prev_edge'[r][j]
      BY <1>7, <2>2
    <3> QED
      BY <1>8, <3>1, SameTree
  <2>4. ASSUME NEW r \in Vertex
        PROVE  Downhill(weight'[r], prev_edge'[r], edges)
    <3> SUFFICES ASSUME NEW j \in Vertex, prev_edge'[r][j] # NoEdge
                 PROVE  LET u == edges[prev_edge'[r][j]].from IN
                        /\ u \in Vertex
                        /\ weight'[r][j] # NoRoute /\ weight'[r][u] # NoRoute
                        /\ weight'[r][u] <= weight'[r][j]
      BY DEF Downhill
    <3> DEFINE e == prev_edge'[r][j]
               u == edges[e].from
               x == weight'[r][j] - edges[e].weight
    <3>1. e \in DOMAIN edges /\ u \in Vertex /\ edges[e].weight \in Int
          /\ edges[e].weight >= 0
      BY <1>1, <1>4, EdgeType, NoNegativeEdge
    <3>2. weight'[r][j] # NoRoute /\ (NextWithin(r, u, x) \/ Joins(r, u, x))
      BY <1>3 DEF PassStep
    <3>3. weight'[r][j] \in Nat
      BY <1>4, <3>2
    <3>4. NextWithin(r, u, x)
      <4>1. CASE Joins(r, u, x)
        <5>1. Known(r, k) /\ Known(k, u) /\ sum(r, u) <= x
          BY <4>1 DEF Joins
        <5>2. NextWithin(r, u, sum(r, u))
          BY <2>1, <3>1, <5>1
        <5>3. sum(r, u) \in Int /\ x \in Int /\ weight'[r][u] \in Int
          BY <1>2, <1>4, <3>1, <3>3 DEF NoRoute
        <5> HIDE DEF sum, x, u
        <5> QED
          BY <5>1, <5>2, <5>3 DEF NextWithin
      <4> QED
        BY <3>2, <4>1
    <3>5. weight'[r][u] \in Int
      BY <1>4, <3>1 DEF NoRoute
    <3> QED
      BY <3>1, <3>3, <3>4, <3>5 DEF NextWithin, NoRoute
  <2>5. CASE k' < VertexCount
    <3> DEFINE n  == k'
               wi == weight'[i]
               wk == weight'[k']
               pi == prev_edge'[i]
               pk == prev_edge'[k']
    <3>1. n \in Vertex
      BY <1>2, <2>5, VertexCountAssumption DEF Vertex
    <3>2. /\ \A j \in Vertex : wi[j] \in Nat \cup {NoRoute} /\ wk[j] \in Nat \cup {NoRoute}
          /\ Downhill(wi, pi, edges) /\ Downhill(wk, pk, edges)
          /\ IsTree(pi, edges) /\ IsTree(pk, edges)
      BY <1>4, <2>3, <2>4, <3>1
    <3>3. LastEdges(i)' = [j \in Vertex |-> IF Joined(wi, wk, n, j) THEN pk[j] ELSE pi[j]]
      BY <2>5 DEF LastEdges, Pending
    <3> HIDE DEF n, wi, wk, pi, pk
    <3>4. IsTree([j \in Vertex |-> IF Joined(wi, wk, n, j) THEN pk[j] ELSE pi[j]], edges)
      BY <3>1, <3>2, JoinTrees
    <3> QED
      BY <1>1, <3>3, <3>4
  <2>6. CASE ~ (k' < VertexCount)
    <3>1. \A j \in Vertex : prev_edge'[i][j] = LastEdges(i)'[j]
      BY <2>6 DEF LastEdges, Pending
    <3>2. IsTree(LastEdges(i)', edges)
      BY <2>3, <3>1, SameTree
    <3> QED
      BY <1>1, <3>2
  <2> QED
    BY <2>5, <2>6
<1> QED
  BY <1>9, <1>10

\* Nothing but the constructor's two loops touches what a tree is made of.
LEMMA TreesUntouched ==
  ASSUME TreeInv, UNCHANGED <<edges, weight, prev_edge, through>>,
         pc = pc' \/ {pc, pc'} \subseteq {"relax", "ready", "walk"}
  PROVE  TreeInv'
  BY DEF TreeInv, LastEdges, Pending

\* The edges collected so far are the last edges of the vertices BuildRoute has
\* come back through.
BackInv ==
  pc = "walk" =>
    /\ edge_id = prev_edge[query.from][WalkedBack[Len(path) + 1]]
    /\ \A k \in 1 .. Len(path) :
         path[k] # NoEdge /\ path[k] = prev_edge[query.from][WalkedBack[k]]

\* A vertex, and the sources of some edges.
LEMMA VerticesBack ==
  ASSUME NEW t, NEW G, NEW p \in Seq(DOMAIN G)
  PROVE  LET W == <<t>> \o [k \in DOMAIN p |-> G[p[k]].from] IN
         /\ Len(p) \in Nat /\ \A k \in 1 .. Len(p) : p[k] \in DOMAIN G
         /\ DOMAIN W = 1 .. Len(p) + 1
         /\ W[1] = t
         /\ \A k \in 1 .. Len(p) : W[k + 1] = G[p[k]].from
<1> DEFINE n == Len(p)
           S == {t} \cup {G[p[k]].from : k \in DOMAIN p}
           tail == [k \in DOMAIN p |-> G[p[k]].from]
<1>1. n \in Nat /\ DOMAIN p = 1 .. n /\ \A k \in 1 .. n : p[k] \in DOMAIN G
  OBVIOUS
<1>2. <<t>> \in Seq(S) /\ Len(<<t>>) = 1 /\ <<t>>[1] = t
  OBVIOUS
<1>3. tail \in Seq(S) /\ Len(tail) = n
  BY <1>1
<1>4. \A k \in 1 .. n : tail[k] = G[p[k]].from
  BY <1>1
<1> HIDE DEF n, S, tail
<1> DEFINE all == <<t>> \o tail
<1>5. /\ all \in Seq(S) /\ Len(all) = n + 1
      /\ all[1] = t
      /\ \A k \in 1 .. n : all[k + 1] = tail[k]
  BY <1>1, <1>2, <1>3
<1>6. DOMAIN all = 1 .. n + 1
  BY <1>1, <1>5
<1> HIDE DEF all
<1> QED
  BY <1>1, <1>4, <1>5, <1>6 DEF n, all, tail

\* The vertices BuildRoute has come back through, one by one.
LEMMA WalkedBackIs ==
  ASSUME TypeOK
  PROVE  /\ Len(path) \in Nat /\ \A k \in 1 .. Len(path) : path[k] \in DOMAIN edges
         /\ DOMAIN WalkedBack = 1 .. Len(path) + 1
         /\ WalkedBack[1] = query.to
         /\ \A k \in 1 .. Len(path) : WalkedBack[k + 1] = edges[path[k]].from
<1>1. path \in Seq(DOMAIN edges)
  BY DEF TypeOK
<1> QED
  BY <1>1, VerticesBack DEF WalkedBack

\* One edge further back, and the vertices so far stay as they are.
LEMMA PushKeepsBack ==
  ASSUME TypeOK, TypeOK', BackInv, PushEdge
  PROVE  BackInv'
<1> DEFINE n == Len(path)
           W == WalkedBack
<1>1. /\ pc = "walk" /\ edge_id # NoEdge
      /\ path' = Append(path, edge_id)
      /\ edge_id' = prev_edge[query.from][edges[edge_id].from]
      /\ UNCHANGED <<edges, weight, prev_edge, query>>
  BY DEF PushEdge, matrix
<1>2. /\ n \in Nat
      /\ W[1] = query.to
      /\ \A k \in 1 .. n : W[k + 1] = edges[path[k]].from
  BY WalkedBackIs
<1>3. /\ edge_id = prev_edge[query.from][W[n + 1]]
      /\ \A k \in 1 .. n : path[k] # NoEdge /\ path[k] = prev_edge[query.from][W[k]]
  BY <1>1 DEF BackInv
<1>4. Len(path') = n + 1 /\ path'[n + 1] = edge_id /\ \A k \in 1 .. n : path'[k] = path[k]
  BY <1>1 DEF TypeOK
<1>5. W'[1] = query.to /\ \A k \in 1 .. n + 1 : W'[k + 1] = edges[path'[k]].from
  <2>1. /\ WalkedBack'[1] = query'.to
        /\ \A k \in 1 .. Len(path') : WalkedBack'[k + 1] = edges'[path'[k]].from
    <3>1. path' \in Seq(DOMAIN edges')
      BY DEF TypeOK
    <3> QED
      BY <3>1, VerticesBack DEF WalkedBack
  <2> QED
    BY <1>1, <1>4, <2>1
<1> HIDE DEF n, W
<1>6. \A k \in 1 .. n + 1 : W'[k] = W[k]
  <2> TAKE k \in 1 .. n + 1
  <2>1. CASE k = 1
    BY <1>2, <1>5, <2>1
  <2>2. CASE k # 1
    <3>1. k - 1 \in 1 .. n /\ k = (k - 1) + 1 /\ k - 1 \in 1 .. n + 1
      BY <1>2, <2>2
    <3> QED
      BY <1>2, <1>4, <1>5, <3>1
  <2> QED
    BY <2>1, <2>2
<1>7. W'[(n + 1) + 1] = edges[edge_id].from
  BY <1>2, <1>4, <1>5
<1>8. \A k \in 1 .. n + 1 :
        path'[k] # NoEdge /\ path'[k] = prev_edge[query.from][W'[k]]
  <2> TAKE k \in 1 .. n + 1
  <2>1. CASE k = n + 1
    BY <1>1, <1>3, <1>4, <1>6, <2>1
  <2>2. CASE k # n + 1
    <3>1. k \in 1 .. n
      BY <1>2, <2>2
    <3> QED
      BY <1>3, <1>4, <1>6, <3>1
  <2> QED
    BY <2>1, <2>2
<1>9. W' = WalkedBack'
  BY DEF W
<1> QED
  BY <1>1, <1>4, <1>7, <1>8, <1>9 DEF BackInv

RouteInv == TypeOK /\ MatrixInv /\ TreeInv /\ BackInv

\* The trees and the walk along them at the beginning, and step by step.
LEMMA TreesStart ==
  ASSUME NEW graph, IsGraph(graph), Start(graph)
  PROVE  RouteInv
<1>1. TypeOK /\ MatrixInv
  BY TypeStart, MatrixStart
<1>2. pc = "vertex" /\ \A i, j \in Vertex : prev_edge[i][j] = NoEdge
  BY DEF Start
<1> QED
  BY <1>1, <1>2 DEF RouteInv, TreeInv, BackInv

\* Every step keeps the trees of routes and the walk back through them.
LEMMA TreesStep ==
  ASSUME RouteInv, [Next]_vars
  PROVE  RouteInv'
<1>1. TypeOK /\ TypeOK' /\ MatrixInv /\ MatrixInv' /\ TreeInv /\ BackInv
  BY TypeNext, MatrixNext DEF RouteInv
<1> SUFFICES TreeInv' /\ BackInv'
  BY <1>1 DEF RouteInv
<1>2. CASE Construct
  <2>1. pc' # "walk"
    BY <1>2 DEF Construct, EnterVertex, VisitEdge, LeaveVertex, BeginRelaxation,
                SkipRow, RelaxRoute, FinishRelaxation
  <2>2. CASE FinishRelaxation
    <3>1. /\ UNCHANGED <<edges, weight, prev_edge, through>>
          /\ pc = "relax" /\ pc' = "ready"
      BY <2>2 DEF FinishRelaxation, matrix, loops
    <3> QED
      BY <1>1, <3>1, TreesUntouched DEF BackInv
  <2>3. TreeInv'
    BY <1>1, <1>2, <2>2, ScanKeepsTrees, BeginKeepsTrees, RelaxKeepsTrees DEF Construct
  <2> QED
    BY <2>1, <2>3 DEF BackInv
<1>3. CASE \E f, t \in Vertex : Ask(f, t)
  <2>1. PICK f \in Vertex, t \in Vertex : Ask(f, t)
    BY <1>3
  <2>2. /\ UNCHANGED <<edges, weight, prev_edge, through>>
        /\ pc = "ready" /\ pc' = "walk"
        /\ query' = [from |-> f, to |-> t]
        /\ edge_id' = prev_edge[f][t]
        /\ path' = <<>>
    BY <2>1 DEF Ask, matrix, loops
  <2>3. TreeInv'
    BY <1>1, <2>2, TreesUntouched
  <2>4. WalkedBack'[1] = query'.to
    <3>1. path' \in Seq(DOMAIN edges')
      BY <1>1 DEF TypeOK
    <3> QED
      BY <3>1, VerticesBack DEF WalkedBack
  <2>5. Len(path') = 0
    BY <2>2
  <2>6. edge_id' = prev_edge'[query'.from][WalkedBack'[Len(path') + 1]]
    BY <2>2, <2>4, <2>5
  <2>7. \A k \in 1 .. Len(path') : FALSE
    BY <2>5
  <2> QED
    BY <2>3, <2>6, <2>7 DEF BackInv
<1>4. CASE BuildRoute
  <2>1. /\ UNCHANGED <<edges, weight, prev_edge, through>>
        /\ pc = "walk" /\ pc' \in {"ready", "walk"}
        /\ pc' = "walk" => PushEdge
    BY <1>4 DEF BuildRoute, ReturnNothing, PushEdge, ReturnRoute, matrix, loops
  <2>2. TreeInv'
    BY <1>1, <2>1, TreesUntouched
  <2>3. BackInv'
    <3>1. CASE PushEdge
      BY <1>1, <3>1, PushKeepsBack
    <3>2. CASE pc' # "walk"
      BY <3>2 DEF BackInv
    <3> QED
      BY <2>1, <3>1, <3>2
  <2> QED
    BY <2>2, <2>3
<1>5. CASE UNCHANGED vars
  <2>1. UNCHANGED <<edges, pc, weight, prev_edge, through, query, edge_id, path>>
    BY <1>5 DEF vars, matrix, loops, building
  <2>2. TreeInv'
    BY <1>1, <2>1, TreesUntouched
  <2> QED
    BY <1>1, <2>1, <2>2 DEF BackInv, WalkedBack
<1> QED
  BY <1>2, <1>3, <1>4, <1>5 DEF Next

\* The inductive invariant of the trees and of the walk along them.
THEOREM TreesCorrect == Spec => []RouteInv
<1>1. Init => RouteInv
  BY GraphsAssumption, TreesStart DEF Init
<1>2. RouteInv /\ [Next]_vars => RouteInv'
  BY TreesStep
<1> QED
  BY <1>1, <1>2, PTL DEF Spec

\* A vertex met twice would make the vertices in between go on among
\* themselves.
LEMMA SimpleWalk ==
  ASSUME RouteInv
  PROVE  WalkIsSimple
<1> DEFINE f == query.from
           n == Len(path)
           W == WalkedBack
<1> SUFFICES ASSUME pc = "walk", NEW k \in DOMAIN W, NEW l \in DOMAIN W, W[k] = W[l]
             PROVE  k = l
  BY DEF WalkIsSimple
<1>1. /\ TypeOK /\ MatrixInv /\ TreeInv
      /\ \A m \in 1 .. n : path[m] # NoEdge /\ path[m] = prev_edge[f][W[m]]
  BY DEF RouteInv, BackInv
<1>2. /\ n \in Nat /\ DOMAIN W = 1 .. n + 1
      /\ W[1] = query.to
      /\ \A m \in 1 .. n : path[m] \in DOMAIN edges /\ W[m + 1] = edges[path[m]].from
  BY <1>1, WalkedBackIs
<1>3. f \in Vertex /\ query.to \in Vertex
  BY <1>1 DEF TypeOK
<1>4. \A m \in 1 .. n + 1 : W[m] \in Vertex
  <2> TAKE m \in 1 .. n + 1
  <2>1. CASE m = 1
    BY <1>2, <1>3, <2>1
  <2>2. CASE m # 1
    <3>1. m - 1 \in 1 .. n /\ m = (m - 1) + 1
      BY <1>2, <2>2
    <3> HIDE DEF n, W
    <3> QED
      BY <1>1, <1>2, <3>1, EdgeType, ZenonT(60)
  <2> QED
    BY <2>1, <2>2
<1>5. IsTree(prev_edge[f], edges)
  <2>1. through = VertexCount
    BY <1>1 DEF MatrixInv, PhaseInv
  <2>2. \A j \in Vertex : LastEdges(f)[j] = prev_edge[f][j]
    BY <2>1, VertexCountAssumption DEF LastEdges, Pending
  <2>3. IsTree(LastEdges(f), edges)
    BY <1>1, <1>3 DEF TreeInv
  <2> QED
    BY <2>2, <2>3, SameTree
<1> HIDE DEF n, W, f
<1>6. ASSUME NEW a \in 1 .. n + 1, NEW b \in 1 .. n + 1, W[a] = W[b], a < b
      PROVE  FALSE
  <2> DEFINE C == {W[m] : m \in a .. b - 1}
  <2>1. \A m \in a .. b - 1 : m \in 1 .. n /\ m \in 1 .. n + 1
    BY <1>2
  <2>2. C \in SUBSET Vertex
    BY <1>4, <2>1
  <2>3. C # {}
    BY <1>6
  <2>4. ASSUME NEW m \in a .. b - 1
        PROVE  prev_edge[f][W[m]] # NoEdge /\ edges[prev_edge[f][W[m]]].from \in C
    <3>1. /\ prev_edge[f][W[m]] # NoEdge
          /\ edges[prev_edge[f][W[m]]].from = W[m + 1]
      BY <1>1, <1>2, <2>1
    <3>2. CASE m + 1 = b
      <4>1. W[m + 1] = W[a] /\ a \in a .. b - 1
        BY <1>2, <1>6, <3>2, SMTT(30)
      <4> QED
        BY <3>1, <4>1
    <3>3. CASE m + 1 # b
      <4>1. m + 1 \in a .. b - 1
        BY <1>2, <3>3
      <4> QED
        BY <3>1, <4>1
    <3> QED
      BY <3>2, <3>3
  <2>5. GoesOn(prev_edge[f], edges, C)
    BY <2>4 DEF GoesOn
  <2> HIDE DEF C
  <2> QED
    BY <1>5, <2>2, <2>3, <2>5 DEF IsTree
<1>7. k \in 1 .. n + 1 /\ l \in 1 .. n + 1
  BY <1>2
<1>8. k < l \/ l < k \/ k = l
  BY <1>2, <1>7
<1> QED
  BY <1>6, <1>7, <1>8

\* BuildRoute's walk back never returns to a vertex it has been to, whatever
\* edges of weight zero the graph has.
THEOREM WalksAreSimple == Spec => []WalkIsSimple
  BY SimpleWalk, TreesCorrect, PTL

\* So no edge of the walk stays where it is.
LEMMA EdgesLeadOn ==
  ASSUME RouteInv, pc = "walk"
  PROVE  \A m \in 1 .. Len(path) : edges[path[m]].from # edges[path[m]].to
<1> DEFINE W == WalkedBack
<1>1. /\ TypeOK /\ PredecessorInv /\ WalkIsSimple
      /\ \A m \in 1 .. Len(path) :
           path[m] # NoEdge /\ path[m] = prev_edge[query.from][W[m]]
  BY SimpleWalk DEF RouteInv, MatrixInv, BackInv
<1>2. /\ Len(path) \in Nat /\ DOMAIN W = 1 .. Len(path) + 1
      /\ W[1] = query.to
      /\ \A m \in 1 .. Len(path) : path[m] \in DOMAIN edges /\ W[m + 1] = edges[path[m]].from
  BY <1>1, WalkedBackIs
<1>3. query.from \in Vertex /\ query.to \in Vertex
  BY <1>1 DEF TypeOK
<1>4. \A k, l \in 1 .. Len(path) + 1 : W[k] = W[l] => k = l
  BY <1>1, <1>2 DEF WalkIsSimple
<1> HIDE DEF W
<1>5. ASSUME NEW m \in 1 .. Len(path)
      PROVE  edges[path[m]].from # edges[path[m]].to
  <2>1. W[m] \in Vertex
    <3>1. CASE m = 1
      BY <1>2, <1>3, <3>1
    <3>2. CASE m # 1
      <4>1. m - 1 \in 1 .. Len(path) /\ m = (m - 1) + 1
        BY <1>2, <3>2
      <4>2. W[m] = edges[path[m - 1]].from /\ path[m - 1] \in DOMAIN edges
        BY <1>2, <4>1
      <4> QED
        BY <1>1, <4>2, EdgeType
    <3> QED
      BY <3>1, <3>2
  <2>2. edges[path[m]].to = W[m]
    BY <1>1, <1>3, <2>1 DEF PredecessorInv
  <2>3. edges[path[m]].from = W[m + 1] /\ m \in 1 .. Len(path) + 1
        /\ m + 1 \in 1 .. Len(path) + 1 /\ m # m + 1
    BY <1>2
  <2> QED
    BY <1>4, <2>2, <2>3
<1> QED
  BY <1>5

\* So its loop ends: it collects fewer edges than there are vertices.
THEOREM WalksAreShort == Spec => [](pc = "walk" => Len(path) < VertexCount)
<1>1. ASSUME RouteInv, pc = "walk"
      PROVE  Len(path) < VertexCount
  <2> DEFINE n == Len(path)
             W == WalkedBack
  <2>1. TypeOK /\ WalkIsSimple
    BY <1>1, SimpleWalk DEF RouteInv
  <2>2. /\ n \in Nat /\ DOMAIN W = 1 .. n + 1
        /\ W[1] = query.to
        /\ \A m \in 1 .. n : path[m] \in DOMAIN edges /\ W[m + 1] = edges[path[m]].from
    BY <2>1, WalkedBackIs
  <2>3. \A m \in 1 .. n + 1 : W[m] \in Vertex
    <3> TAKE m \in 1 .. n + 1
    <3>1. CASE m = 1
      BY <1>1, <2>1, <2>2, <3>1 DEF TypeOK
    <3>2. CASE m # 1
      <4>1. m - 1 \in 1 .. n /\ m = (m - 1) + 1
        BY <2>2, <3>2
      <4> HIDE DEF n, W
      <4> QED
        BY <2>1, <2>2, <4>1, EdgeType
    <3> QED
      BY <3>1, <3>2
  <2>4. \A k, l \in 1 .. n + 1 : W[k] = W[l] => k = l
    BY <1>1, <2>1, <2>2 DEF WalkIsSimple
  <2> HIDE DEF n, W
  <2> DEFINE g == [m \in 1 .. n + 1 |-> W[m]]
  <2>5. g \in Injection(1 .. n + 1, Vertex)
    BY <2>3, <2>4 DEF Injection, IsInjective
  <2>6. /\ IsFiniteSet(1 .. n + 1) /\ Cardinality(1 .. n + 1) = n + 1
        /\ IsFiniteSet(Vertex) /\ Cardinality(Vertex) = VertexCount
    BY <2>2, FS_Interval, VertexCountAssumption DEF Vertex
  <2> HIDE DEF g
  <2>7. n + 1 <= VertexCount
    BY <2>5, <2>6, FS_Injection
  <2> QED
    BY <2>2, <2>7, VertexCountAssumption DEF n
<1> QED
  BY <1>1, TreesCorrect, PTL
=============================================================================
