---------------------------- MODULE RoutePlanner ----------------------------
(***************************************************************************)
(* What the routing engine promises to its caller, without saying how the   *)
(* routes are computed: it accepts a graph, or rejects one that has an edge *)
(* of negative weight; afterwards every question <<from, to>> is answered,  *)
(* with a route of least weight when `to' can be reached and with "no       *)
(* route" when it cannot.                                                   *)
(*                                                                          *)
(* The promise is the interface of graph::Router (inc/router.h): its        *)
(* constructor, and BuildRoute with its std::optional<RouteInfo>.           *)
(***************************************************************************)
EXTENDS Integers, Sequences

CONSTANTS
  VertexCount,   \* number of vertices of the graph
  Graphs         \* the edge sequences the engine may be given

VARIABLES
  edges,         \* the graph, a sequence of [from, to, weight]
  status,        \* "building", "rejected", "idle" or "asked"
  query,         \* the question last asked
  answer         \* the answer last given

vars == <<edges, status, query, answer>>

Vertex == 0 .. VertexCount - 1

NoAnswer == [found |-> FALSE, weight |-> 0, edges |-> <<>>]

HasNegativeEdge == \E e \in DOMAIN edges : edges[e].weight < 0

-----------------------------------------------------------------------------
(* A walk is a sequence of edge numbers, each edge leaving the vertex the   *)
(* previous one enters; the empty walk stays where it is.                   *)
IsWalk(w, f, t) ==
  IF w = <<>> THEN f = t
  ELSE /\ edges[w[1]].from = f
       /\ edges[w[Len(w)]].to = t
       /\ \A k \in 1 .. Len(w) - 1 : edges[w[k]].to = edges[w[k + 1]].from

\* What the first k edges of a walk weigh together.
CostUpTo(w) ==
  LET cost[k \in 0 .. Len(w)] == IF k = 0 THEN 0 ELSE cost[k - 1] + edges[w[k]].weight
  IN cost

Cost(w) == CostUpTo(w)[Len(w)]

(* No weight is negative, so a walk that repeats a vertex is never cheaper  *)
(* than the walk without the loop: comparing with the walks of fewer than   *)
(* VertexCount edges is comparing with all of them.                         *)
ShortWalks(f, t) ==
  {w \in UNION {[1 .. n -> DOMAIN edges] : n \in 0 .. VertexCount - 1} :
     IsWalk(w, f, t)}

IsCorrectAnswer(a, f, t) ==
  IF a.found
  THEN /\ IsWalk(a.edges, f, t)
       /\ a.weight = Cost(a.edges)
       /\ \A w \in ShortWalks(f, t) : a.weight <= Cost(w)
  ELSE /\ a = NoAnswer
       /\ ShortWalks(f, t) = {}

-----------------------------------------------------------------------------
Init ==
  /\ edges \in Graphs
  /\ status = "building"
  /\ query = [from |-> 0, to |-> 0]
  /\ answer = NoAnswer

Accept ==
  /\ status = "building"
  /\ ~HasNegativeEdge
  /\ status' = "idle"
  /\ UNCHANGED <<edges, query, answer>>

Reject ==
  /\ status = "building"
  /\ HasNegativeEdge
  /\ status' = "rejected"
  /\ UNCHANGED <<edges, query, answer>>

Ask ==
  /\ status = "idle"
  /\ query' \in [from : Vertex, to : Vertex]
  /\ status' = "asked"
  /\ answer' = NoAnswer
  /\ UNCHANGED edges

Answer ==
  /\ status = "asked"
  /\ IsCorrectAnswer(answer', query.from, query.to)
  /\ status' = "idle"
  /\ UNCHANGED <<edges, query>>

Next == Accept \/ Reject \/ Ask \/ Answer

Spec == Init /\ [][Next]_vars
=============================================================================
