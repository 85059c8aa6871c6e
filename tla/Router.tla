------------------------------- MODULE Router -------------------------------
(***************************************************************************)
(* graph::Router (inc/router.h): all-pairs shortest routes by               *)
(* Floyd-Warshall, computed once in the constructor, and BuildRoute, which  *)
(* reads a route back by following the last edge of every stored route.     *)
(*                                                                          *)
(* The constructor's loops are taken one body at a time, because the matrix *)
(* is relaxed in place: RelaxRoute writes a cell of the matrix whose other  *)
(* cells (reached through references) it is reading.                        *)
(*                                                                          *)
(* An edge identifier of the code is the index in `edges' minus one.        *)
(* Weights are integers; only their order and their sums matter here.       *)
(***************************************************************************)
EXTENDS Integers, Sequences, SequencesExt

CONSTANTS
  VertexCount,   \* graph.GetVertexCount()
  Graphs         \* the edge sequences the constructor may be given

Vertex == 0 .. VertexCount - 1

\* AddEdge puts every edge in the list of its source and the matrix is
\* indexed by its target: both are vertices of the graph. A weight may carry
\* more than its number (Road).
IsGraph(graph) ==
  /\ graph \in Seq(Range(graph))
  /\ \A e \in DOMAIN graph :
       graph[e].from \in Vertex /\ graph[e].to \in Vertex /\ graph[e].weight \in Int

ASSUME VertexCountAssumption == VertexCount \in Nat

ASSUME GraphsAssumption == \A graph \in Graphs : IsGraph(graph)

VARIABLES
  edges,         \* graph_: the edges in the order they were added
  pc,            \* where the code is: see Phases
  weight,        \* routes_internal_data_[from][to]->weight, or NoRoute
  prev_edge,     \* routes_internal_data_[from][to]->prev_edge, or NoEdge
  vertex,        \* loop variable of InitializeRoutesInternalData
  cursor,        \* the incident edge of `vertex' looked at last, 0 for none
  through,       \* vertex_through, the loop variable of the constructor
  from, to,      \* loop variables of RelaxRoutesInternalDataThroughVertex
  query,         \* the arguments of BuildRoute
  edge_id,       \* loop variable of BuildRoute
  path,          \* its local vector `edges'
  answer         \* what it returned last

matrix   == <<weight, prev_edge>>
loops    == <<vertex, cursor, through, from, to>>
building == <<query, edge_id, path, answer>>
vars     == <<edges, pc, matrix, loops, building>>

NoRoute == -1
NoEdge  == 0

Phases == {"vertex", "edges", "relax", "ready", "walk", "error"}

NoAnswer == [found |-> FALSE, weight |-> 0, edges |-> <<>>]

Known(i, j) == weight[i][j] # NoRoute

-----------------------------------------------------------------------------
(* The constructor, first loop: InitializeRoutesInternalData.               *)

Unvisited == {e \in DOMAIN edges : edges[e].from = vertex /\ e > cursor}

Start(graph) ==
  /\ edges = graph
  /\ pc = "vertex"
  /\ weight = [i \in Vertex |-> [j \in Vertex |-> NoRoute]]
  /\ prev_edge = [i \in Vertex |-> [j \in Vertex |-> NoEdge]]
  /\ vertex = 0 /\ cursor = 0
  /\ through = 0 /\ from = 0 /\ to = 0
  /\ query = [from |-> 0, to |-> 0]
  /\ edge_id = NoEdge
  /\ path = <<>>
  /\ answer = NoAnswer

Init == \E graph \in Graphs : Start(graph)

\* (A slip the checks catch: a vertex is given no route to itself.)
EnterVertex_NoDiagonal ==
  /\ pc = "vertex"
  /\ vertex < VertexCount
  /\ cursor' = 0
  /\ pc' = "edges"
  /\ UNCHANGED <<edges, matrix, vertex, through, from, to, building>>

EnterVertex ==
  /\ pc = "vertex"
  /\ vertex < VertexCount
  /\ weight' = [weight EXCEPT ![vertex][vertex] = 0]
  /\ prev_edge' = [prev_edge EXCEPT ![vertex][vertex] = NoEdge]
  /\ cursor' = 0
  /\ pc' = "edges"
  /\ UNCHANGED <<edges, vertex, through, from, to, building>>

\* (Slips: never looking for a lighter route; replacing one of equal weight.)
Improves_First(i, j, w) == ~Known(i, j)

Improves_OrTies(i, j, w) == ~Known(i, j) \/ w <= weight[i][j]

\* An edge replaces what is stored only when it is strictly lighter: of
\* parallel edges of one weight the first one added stays.
Improves(i, j, w) == ~Known(i, j) \/ w < weight[i][j]

\* (A slip: no edge is refused.)
VisitEdge_AnyWeight(e) ==
  /\ pc = "edges"
  /\ e \in Unvisited
  /\ \A f \in Unvisited : e <= f
  /\ cursor' = e
  /\ IF Improves(vertex, edges[e].to, edges[e].weight)
     THEN /\ weight' = [weight EXCEPT ![vertex][edges[e].to] = edges[e].weight]
          /\ prev_edge' = [prev_edge EXCEPT ![vertex][edges[e].to] = e]
     ELSE UNCHANGED matrix
  /\ UNCHANGED <<edges, pc, vertex, through, from, to, building>>

VisitEdge(e) ==
  /\ pc = "edges"
  /\ e \in Unvisited
  /\ \A f \in Unvisited : e <= f
  /\ cursor' = e
  /\ LET edge == edges[e] IN
     IF edge.weight < 0
     THEN pc' = "error" /\ UNCHANGED matrix
     ELSE /\ pc' = pc
          /\ IF Improves(vertex, edge.to, edge.weight)
             THEN /\ weight' = [weight EXCEPT ![vertex][edge.to] = edge.weight]
                  /\ prev_edge' = [prev_edge EXCEPT ![vertex][edge.to] = e]
             ELSE UNCHANGED matrix
  /\ UNCHANGED <<edges, vertex, through, from, to, building>>

LeaveVertex ==
  /\ pc = "edges"
  /\ Unvisited = {}
  /\ vertex' = vertex + 1
  /\ pc' = "vertex"
  /\ UNCHANGED <<edges, matrix, cursor, through, from, to, building>>

BeginRelaxation ==
  /\ pc = "vertex"
  /\ vertex = VertexCount
  /\ pc' = "relax"
  /\ UNCHANGED <<edges, matrix, loops, building>>

-----------------------------------------------------------------------------
(* The constructor, second loop: RelaxRoutesInternalDataThroughVertex for   *)
(* every vertex.                                                            *)

\* (A slip: one row too many.)
NextRow_OneMore ==
  /\ to' = 0
  /\ IF from < VertexCount
     THEN from' = from + 1 /\ through' = through
     ELSE from' = 0 /\ through' = through + 1

NextRow ==
  /\ to' = 0
  /\ IF from + 1 < VertexCount
     THEN from' = from + 1 /\ through' = through
     ELSE from' = 0 /\ through' = through + 1

NextCell ==
  IF to + 1 < VertexCount
  THEN to' = to + 1 /\ UNCHANGED <<from, through>>
  ELSE NextRow

Candidate == weight[from][through] + weight[through][to]

\* (A slip: the other half of the route is asked first.)
LastEdge_OfFirstHalf ==
  IF prev_edge[from][through] # NoEdge
  THEN prev_edge[from][through]
  ELSE prev_edge[through][to]

\* route_to.prev_edge ? route_to.prev_edge : route_from.prev_edge
LastEdge ==
  IF prev_edge[through][to] # NoEdge
  THEN prev_edge[through][to]
  ELSE prev_edge[from][through]

\* (A slip: `continue' without going on to the next row.)
SkipRow_Stays ==
  /\ pc = "relax"
  /\ through < VertexCount
  /\ ~Known(from, through)
  /\ UNCHANGED vars

SkipRow ==
  /\ pc = "relax"
  /\ through < VertexCount
  /\ ~Known(from, through)
  /\ NextRow
  /\ UNCHANGED <<edges, pc, matrix, vertex, cursor, building>>

\* (A slip: the last edge of a lighter route is not recorded.)
RelaxRoute_WeightOnly ==
  /\ pc = "relax"
  /\ through < VertexCount
  /\ Known(from, through)
  /\ IF Known(through, to) /\ Improves(from, to, Candidate)
     THEN weight' = [weight EXCEPT ![from][to] = Candidate] /\ UNCHANGED prev_edge
     ELSE UNCHANGED matrix
  /\ NextCell
  /\ UNCHANGED <<edges, pc, vertex, cursor, building>>

RelaxRoute ==
  /\ pc = "relax"
  /\ through < VertexCount
  /\ Known(from, through)
  /\ IF Known(through, to) /\ Improves(from, to, Candidate)
     THEN /\ weight' = [weight EXCEPT ![from][to] = Candidate]
          /\ prev_edge' = [prev_edge EXCEPT ![from][to] = LastEdge]
     ELSE UNCHANGED matrix
  /\ NextCell
  /\ UNCHANGED <<edges, pc, vertex, cursor, building>>

FinishRelaxation ==
  /\ pc = "relax"
  /\ through = VertexCount
  /\ pc' = "ready"
  /\ UNCHANGED <<edges, matrix, loops, building>>

-----------------------------------------------------------------------------
(* BuildRoute                                                               *)

Ask(f, t) ==
  /\ pc = "ready"
  /\ query' = [from |-> f, to |-> t]
  /\ edge_id' = prev_edge[f][t]
  /\ path' = <<>>
  /\ answer' = NoAnswer
  /\ pc' = "walk"
  /\ UNCHANGED <<edges, matrix, loops>>

ReturnNothing ==
  /\ pc = "walk"
  /\ ~Known(query.from, query.to)
  /\ answer' = NoAnswer
  /\ pc' = "ready"
  /\ UNCHANGED <<edges, matrix, loops, query, edge_id, path>>

PushEdge ==
  /\ pc = "walk"
  /\ Known(query.from, query.to)
  /\ edge_id # NoEdge
  /\ path' = Append(path, edge_id)
  /\ edge_id' = prev_edge[query.from][edges[edge_id].from]
  /\ UNCHANGED <<edges, pc, matrix, loops, query, answer>>

\* (A slip: the edges are returned as they were met, last one first.)
ReturnRoute_Backwards ==
  /\ pc = "walk"
  /\ Known(query.from, query.to)
  /\ edge_id = NoEdge
  /\ answer' = [found |-> TRUE, weight |-> weight[query.from][query.to], edges |-> path]
  /\ pc' = "ready"
  /\ UNCHANGED <<edges, matrix, loops, query, edge_id, path>>

ReturnRoute ==
  /\ pc = "walk"
  /\ Known(query.from, query.to)
  /\ edge_id = NoEdge
  /\ answer' = [found  |-> TRUE,
                weight |-> weight[query.from][query.to],
                edges  |-> Reverse(path)]
  /\ pc' = "ready"
  /\ UNCHANGED <<edges, matrix, loops, query, edge_id, path>>

-----------------------------------------------------------------------------
Construct ==
  \/ EnterVertex
  \/ \E e \in Unvisited : VisitEdge(e)
  \/ LeaveVertex
  \/ BeginRelaxation
  \/ SkipRow
  \/ RelaxRoute
  \/ FinishRelaxation

BuildRoute == ReturnNothing \/ PushEdge \/ ReturnRoute

Next ==
  \/ Construct
  \/ \E f, t \in Vertex : Ask(f, t)
  \/ BuildRoute

Spec == Init /\ [][Next]_vars

\* The constructor and BuildRoute are plain loops: once entered they run. When
\* a question is asked is up to the caller, so Ask has no fairness.
FairSpec == Spec /\ WF_vars(Construct) /\ WF_vars(BuildRoute)

-----------------------------------------------------------------------------
(* Properties                                                               *)

\* Every variable keeps its type: edge numbers stay within the graph, loop
\* variables within their loops, and every stored weight is a weight.
TypeOK ==
  /\ IsGraph(edges)
  /\ pc \in Phases
  /\ weight \in [Vertex -> [Vertex -> Nat \cup {NoRoute}]]
  /\ prev_edge \in [Vertex -> [Vertex -> DOMAIN edges \cup {NoEdge}]]
  /\ vertex \in 0 .. VertexCount
  /\ pc = "edges" => vertex \in Vertex
  /\ cursor \in DOMAIN edges \cup {0}
  /\ through \in 0 .. VertexCount
  /\ from \in Vertex \cup {0}
  /\ to \in Vertex \cup {0}
  /\ query \in [from : Vertex \cup {0}, to : Vertex \cup {0}]
  /\ pc = "walk" => query \in [from : Vertex, to : Vertex]
  /\ edge_id \in DOMAIN edges \cup {NoEdge}
  /\ path \in Seq(DOMAIN edges)
  /\ answer \in [found : BOOLEAN, weight : Nat, edges : Seq(DOMAIN edges)]

\* The matrix stores a route from i to j of weight x or less.
Within(i, j, x) == Known(i, j) /\ weight[i][j] <= x

\* The current pass joins two stored routes into one of weight x or less.
Joins(i, j, x) ==
  /\ through < VertexCount
  /\ Known(i, through) /\ Known(through, j)
  /\ weight[i][through] + weight[through][j] <= x

\* Such a route is stored, or will be once the pass has reached the cell.
Promised(i, j, x) == Within(i, j, x) \/ Joins(i, j, x)

\* In the middle of the in-place relaxation, with some cells of the pass
\* already overwritten and others not: no two stored routes that meet in a
\* vertex the constructor has finished join into one lighter than what is
\* stored or is about to be. With all passes done this is the triangle
\* inequality of the whole matrix (RelaxRoutesInternalDataThroughVertex).
TriangleInv ==
  \A m, i, j \in Vertex :
    m < through /\ Known(i, m) /\ Known(m, j)
      => Promised(i, j, weight[i][m] + weight[m][j])

\* The last edge stored for a route enters its target, and the route to that
\* edge's source is stored, or is about to be, with the weight that remains:
\* the optional BuildRoute dereferences while it walks back is never empty,
\* and the weights along its walk never exceed the weight it reports. Only
\* the empty route from a vertex to itself has no last edge.
PredecessorInv ==
  \A i, j \in Vertex :
    /\ prev_edge[i][j] # NoEdge =>
         LET edge == edges[prev_edge[i][j]] IN
         /\ i # j /\ Known(i, j)
         /\ edge.to = j
         /\ Promised(i, edge.from, weight[i][j] - edge.weight)
    /\ Known(i, j) /\ prev_edge[i][j] = NoEdge => i = j

\* The strengthening that makes the two invariants inductive: what the loops
\* have done so far.
PhaseInv ==
  /\ pc \in {"vertex", "edges", "error"} => through = 0 /\ from = 0 /\ to = 0
  /\ pc \in {"relax", "ready", "walk"} => vertex = VertexCount
  /\ pc \in {"ready", "walk"} => through = VertexCount

DiagonalInv ==
  \A i \in Vertex : i < vertex \/ (i = vertex /\ pc = "edges") => weight[i][i] = 0

\* An edge the first loop has visited is never cheaper than what is stored.
EdgesInv ==
  \A e \in DOMAIN edges :
    \/ edges[e].from < vertex
    \/ edges[e].from = vertex /\ pc = "edges" /\ e <= cursor
    => Within(edges[e].from, edges[e].to, edges[e].weight)

\* A cell the current pass has gone over is settled for this pass.
PassInv ==
  pc = "relax" /\ through < VertexCount =>
    \A i, j \in Vertex :
      /\ i < from \/ (i = from /\ j < to)
      /\ Known(i, through) /\ Known(through, j)
      => Within(i, j, weight[i][through] + weight[through][j])

\* The inductive invariant of the router's matrix.
MatrixInv ==
  /\ PhaseInv
  /\ DiagonalInv
  /\ EdgesInv
  /\ PassInv
  /\ TriangleInv
  /\ PredecessorInv

\* Bellman's equations, once the constructor is done: no edge makes a stored
\* route lighter, and the last edge of a stored route accounts for exactly the
\* weight it adds to the route before it. So the weights along the walk of
\* BuildRoute add up to the weight it returns.
BellmanInv ==
  pc \in {"ready", "walk"} =>
    /\ \A i \in Vertex, e \in DOMAIN edges :
         Known(i, edges[e].from) =>
           Within(i, edges[e].to, weight[i][edges[e].from] + edges[e].weight)
    /\ \A i, j \in Vertex :
         Known(i, j) /\ i # j =>
           LET edge == edges[prev_edge[i][j]] IN
           /\ edge.to = j
           /\ Known(i, edge.from)
           /\ weight[i][j] = weight[i][edge.from] + edge.weight

\* RelaxRoute holds references to two cells of the matrix it writes. During
\* the pass through a vertex, that vertex's row and column do not change, so
\* what the references denote is the same before and after every write.
PassReadsAreStable ==
  [][pc = "relax" /\ through < VertexCount =>
       \A i \in Vertex :
         /\ weight'[i][through] = weight[i][through]
         /\ weight'[through][i] = weight[through][i]
         /\ prev_edge'[through][i] = prev_edge[through][i]
         /\ prev_edge'[i][through] = prev_edge[i][through]]_vars

\* The vertices BuildRoute has come back through, its target first.
WalkedBack ==
  <<query.to>> \o [k \in DOMAIN path |-> edges[path[k]].from]

\* BuildRoute's walk back never returns to a vertex it has been to, although
\* edges of weight zero give it no progress to count on: this is what makes
\* its loop end.
WalkIsSimple ==
  pc = "walk" => \A k, l \in DOMAIN WalkedBack :
                   WalkedBack[k] = WalkedBack[l] => k = l

\* The promise of RoutePlanner, kept step by step.
Status ==
  CASE pc \in {"vertex", "edges", "relax"} -> "building"
    [] pc = "error" -> "rejected"
    [] pc = "ready" -> "idle"
    [] pc = "walk"  -> "asked"

Planner == INSTANCE RoutePlanner WITH status <- Status

\* Every step of the router is a step of the planner or invisible to it: the
\* routes returned are lightest routes, "no route" is said only when there is
\* none, and the constructor throws exactly when a weight is negative.
PlannerSpec == Planner!Spec

\* The constructor ends, and every question asked is answered.
EveryQuestionIsAnswered ==
  /\ <>(pc \in {"ready", "error"})
  /\ (pc = "walk") ~> (pc = "ready")
=============================================================================
