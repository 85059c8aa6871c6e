--------------------------- MODULE TransportRouter ---------------------------
(***************************************************************************)
(* transport_router::TransportRouter (src/transport_router.cpp,             *)
(* inc/transport_router.h) on top of Router: it numbers the stops, turns    *)
(* every bus into edges of the graph, lets graph::Router compute the routes *)
(* and tells a route as waits and rides.                                    *)
(*                                                                          *)
(* Graph: a self-loop of weight zero for each stop, then for each bus and   *)
(* each pair of positions on its route one edge, from the earlier stop to   *)
(* the later, that weighs a wait and the ride. Minutes are integers here:   *)
(* the unit is the time a bus takes for one unit of distance, so that       *)
(* CalculateWeightEdge is the distance itself.                              *)
(***************************************************************************)
EXTENDS Rides, SequencesExt

CONSTANTS
  Bases,           \* the catalogues the router may be built for
  WaitTimes,       \* the values bus_wait_time may have
  VertexCount,     \* the vertex count given to SetVertexCount, if one is given
  Names            \* the stop names a Route request may give

ASSUME SettingsAssumption == VertexCount \in Nat /\ WaitTimes \subseteq Int

\* The catalogue has been filled (BaseRequests) and has come back (Program); its
\* distances are ints. What comes back of a base that was not written to its end
\* has no vertex count: building ends at its first stop.
ASSUME BasesAssumption ==
  \A d \in Bases :
    /\ IsFilled(d)
    /\ \A road \in DOMAIN d.stops_to_dist : d.stops_to_dist[road] \in Int

VARIABLES
  db, bus_wait_time,
  room,            \* graph_.GetVertexCount()
  stage,           \* "stops", "buses", "router", "serving" or "terminated"
  at,              \* stops or buses the present loop is done with
  name_id,         \* the vertex of a stop name; id_name_ is its inverse
  request,         \* the arguments of GetRouteResponse
  response,        \* what it returned last
  \* the variables of graph::Router, `edges' being graph_.edges_
  edges, pc, weight, prev_edge, vertex, cursor, through, from, to,
  query, edge_id, path, answer

R == INSTANCE Router WITH Graphs <- {}
NoVertices == INSTANCE Router WITH Graphs <- {}, VertexCount <- 0

own     == <<db, bus_wait_time, room, stage, at, name_id, request, response>>
routing == <<pc, weight, prev_edge, vertex, cursor, through, from, to,
             query, edge_id, path, answer>>
vars    == <<own, edges, routing>>

NoResponse == [found |-> FALSE, total_time |-> 0, items |-> <<>>]

-----------------------------------------------------------------------------
(* CreateRouter: FillingGraphWithStops and FillingGraphWithBuses            *)

\* (A slip: the number is taken after the name has been inserted, as before
\* C++17 the compiler was free to do.)
CreateVertexId_AfterInsert(ids, stop) ==
  IF stop \in DOMAIN ids THEN ids ELSE Put(ids, stop, Cardinality(DOMAIN ids) + 1)

\* The number of a stop: the one it has, or the next free one.
CreateVertexId(ids, stop) ==
  IF stop \in DOMAIN ids THEN ids ELSE Put(ids, stop, Cardinality(DOMAIN ids))

RideTime(route, i, j) == RideLength(db, route, i, j)

\* The edge from position i of the route of a bus to position j. The road it
\* carries names the bus and counts the hops. Stops of a bus are stops of the
\* catalogue: they have their numbers already.
RideEdge(bus, i, j) ==
  [from       |-> name_id[bus.stops[i]],
   to         |-> name_id[bus.stops[j]],
   weight     |-> bus_wait_time + RideTime(bus.stops, i, j),
   name       |-> bus.name,
   span_count |-> j - i]

\* For every position of the part first .. last of the route, all later ones.
AddEdgesGraph(bus, first, last) ==
  FlattenSeq([i \in 1 .. last |->
    IF i < first THEN <<>> ELSE [k \in 1 .. last - i |-> RideEdge(bus, i, i + k)]])

EdgesOfBus(bus) ==
  FlattenSeq([l \in DOMAIN Legs(bus) |->
                AddEdgesGraph(bus, Legs(bus)[l][1], Legs(bus)[l][2])])

\* SetVertexCount leaves the graph without vertices when it is given none,
\* as it is by a base file that was not written to its end.
Init ==
  /\ db \in Bases
  /\ bus_wait_time \in WaitTimes
  /\ room \in {0, VertexCount}
  /\ stage = "stops"
  /\ at = 0
  /\ name_id = <<>>
  /\ request = <<>>
  /\ response = NoResponse
  /\ IF room = 0 THEN NoVertices!Start(<<>>) ELSE R!Start(<<>>)

\* AddEdgeGraph. The vertices there is room for are those of the graph:
\* incidence_lists_.at(edge.from) throws when they have run out.
FillStop ==
  /\ stage = "stops"
  /\ at < Len(db.stops)
  /\ LET stop == db.stops[at + 1].name
         ids  == CreateVertexId(name_id, stop)
     IN /\ name_id' = ids
        /\ edges' = Append(edges, [from |-> ids[stop], to |-> ids[stop], weight |-> 0,
                                   name |-> "", span_count |-> 0])
        /\ stage' = IF ids[stop] < room THEN stage ELSE "terminated"
  /\ at' = at + 1
  /\ UNCHANGED <<db, bus_wait_time, room, request, response, routing>>

EndStops ==
  /\ stage = "stops"
  /\ at = Len(db.stops)
  /\ stage' = "buses"
  /\ at' = 0
  /\ UNCHANGED <<db, bus_wait_time, room, name_id, request, response, edges, routing>>

\* (A slip: a round trip without stops is refused as well.)
FillBus_NoEmptyRoute ==
  /\ stage = "buses"
  /\ at < Len(db.buses)
  /\ LET bus == db.buses[at + 1] IN
     IF bus.stops = <<>>
     THEN stage' = "terminated" /\ UNCHANGED edges
     ELSE stage' = stage /\ edges' = edges \o EdgesOfBus(bus)
  /\ at' = at + 1
  /\ UNCHANGED <<db, bus_wait_time, room, name_id, request, response, routing>>

\* The way there of a bus without stops would end one past the end of its
\* empty vector: reading there kills the process.
FillBus ==
  /\ stage = "buses"
  /\ at < Len(db.buses)
  /\ LET bus == db.buses[at + 1] IN
     IF bus.stops = <<>> /\ ~bus.is_roundtrip
     THEN stage' = "terminated" /\ UNCHANGED edges
     ELSE stage' = stage /\ edges' = edges \o EdgesOfBus(bus)
  /\ at' = at + 1
  /\ UNCHANGED <<db, bus_wait_time, room, name_id, request, response, routing>>

\* The graph is complete: graph::Router is constructed for it.
CreateRouter ==
  /\ stage = "buses"
  /\ at = Len(db.buses)
  /\ stage' = "router"
  /\ UNCHANGED <<db, bus_wait_time, room, at, name_id, request, response, edges, routing>>

-----------------------------------------------------------------------------
(* graph::Router at work: its constructor, and BuildRoute once asked. An    *)
(* exception it throws is not caught.                                       *)

ConstructRouter ==
  /\ stage = "router"
  /\ IF room = 0 THEN NoVertices!Construct ELSE R!Construct
  /\ stage' = CASE pc' = "ready" -> "serving"
                [] pc' = "error" -> "terminated"
                [] OTHER         -> stage
  /\ UNCHANGED <<db, bus_wait_time, room, at, name_id, request, response>>

\* GetRouteResponse, up to the call of BuildRoute. name_id_.at throws for a
\* name that no stop has.
AskRoute(f, t) ==
  /\ pc = "ready"
  /\ stage = "serving"
  /\ request' = <<f, t>>
  /\ response' = NoResponse
  /\ IF f \in DOMAIN name_id /\ t \in DOMAIN name_id
     THEN R!Ask(name_id[f], name_id[t]) /\ stage' = stage
     ELSE stage' = "terminated" /\ UNCHANGED <<edges, routing>>
  /\ UNCHANGED <<db, bus_wait_time, room, at, name_id>>

WalkRoute ==
  /\ R!PushEdge
  /\ UNCHANGED own

StopOf(id) == CHOOSE s \in DOMAIN name_id : name_id[s] = id

Wait(edge) ==
  [type |-> "Wait", stop_name |-> StopOf(edge.from), time |-> bus_wait_time]

\* (A slip: the wait is counted into the ride.)
Travel_WithWait(edge) ==
  [type |-> "Bus", bus |-> edge.name, span_count |-> edge.span_count, time |-> edge.weight]

Travel(edge) ==
  [type |-> "Bus", bus |-> edge.name, span_count |-> edge.span_count,
   time |-> edge.weight - bus_wait_time]

\* (A slip: "no route" is not handled.)
Respond_FoundOnly ==
  /\ R!ReturnRoute
  /\ response' = [NoResponse EXCEPT !.found = TRUE, !.total_time = answer'.weight]
  /\ UNCHANGED <<db, bus_wait_time, room, stage, at, name_id, request>>

\* The rest of GetRouteResponse, from what BuildRoute returns.
Respond ==
  /\ R!ReturnRoute \/ R!ReturnNothing
  /\ response' =
       IF answer'.found
       THEN [found      |-> TRUE,
             total_time |-> answer'.weight,
             items      |-> FlattenSeq([k \in DOMAIN answer'.edges |->
                              LET edge == edges[answer'.edges[k]]
                              IN <<Wait(edge), Travel(edge)>>])]
       ELSE NoResponse
  /\ UNCHANGED <<db, bus_wait_time, room, stage, at, name_id, request>>

-----------------------------------------------------------------------------
Build == FillStop \/ EndStops \/ FillBus \/ CreateRouter \/ ConstructRouter

Next ==
  \/ Build
  \/ \E f, t \in Names : AskRoute(f, t)
  \/ WalkRoute
  \/ Respond

Spec == Init /\ [][Next]_vars

\* CreateRouter and GetRouteResponse run once they are called.
FairSpec == Spec /\ WF_vars(Build) /\ WF_vars(WalkRoute \/ Respond)

-----------------------------------------------------------------------------
(* A passenger, independently of the graph: waiting for a bus at a stop     *)
(* costs bus_wait_time, riding to the next stop of its route the distance,  *)
(* getting off nothing. At the stop in the middle of its route a bus that   *)
(* is no round trip turns and everybody gets off.                           *)

Ways(bus) ==
  LET n == Len(bus.stops) IN
  IF bus.is_roundtrip THEN {1 .. n} ELSE {1 .. (n + 1) \div 2, (n + 1) \div 2 .. n}

Seats ==
  UNION {UNION {{<<b, way, p>> : p \in way} : way \in Ways(db.buses[b])} :
           b \in DOMAIN db.buses}

Stops == {<<s>> : s \in DOMAIN db.stop_by_name}

StopAt(seat) == db.buses[seat[1]].stops[seat[3]]

\* Where a passenger can get to in one move, and what the move costs.
Moves(place) ==
  IF place \in Stops
  THEN {<<seat, bus_wait_time>> : seat \in {s \in Seats : StopAt(s) = place[1]}}
  ELSE {<<<<StopAt(place)>>, 0>>} \cup
       {<<seat, GetActualDistanceBetweenStops(db, StopAt(place), StopAt(seat))>> :
          seat \in Seats \cap {<<place[1], place[2], place[3] + 1>>}}

\* The places reached, each with the earliest time, after one more move.
Reach(reached) ==
  LET later == reached \cup
        UNION {{<<move[1], r[2] + move[2]>> : move \in Moves(r[1])} : r \in reached}
  IN {r \in later : \A q \in later : q[1] = r[1] => r[2] <= q[2]}

\* The times a passenger who starts at stop f can be at stop t: the earliest
\* one, or none. More moves than there are places bring nothing new.
PassengerTimes(f, t) ==
  LET moves == Cardinality(Stops \cup Seats)
      reached[n \in 0 .. moves] ==
        IF n = 0 THEN {<<<<f>>, 0>>} ELSE Reach(reached[n - 1])
  IN {r[2] : r \in {q \in reached[moves] : q[1] = <<t>>}}

-----------------------------------------------------------------------------
(* Properties                                                               *)

Answered == stage = "serving" /\ pc = "ready" /\ request # <<>>

\* The stops are numbered from zero without gaps, and every edge, whether the
\* adjacency lists or the matrix of routes are indexed with it, joins vertices
\* the graph has.
VerticesInv ==
  /\ Range(name_id) = 0 .. Cardinality(DOMAIN name_id) - 1
  /\ stage # "terminated" =>
       /\ Range(name_id) \subseteq 0 .. room - 1
       /\ \A e \in DOMAIN edges : {edges[e].from, edges[e].to} \subseteq Range(name_id)

\* The time answered is the least a passenger needs, and a route is found
\* exactly when a passenger can get there: the pairs of positions of every
\* route are exactly the rides, for every way the bus turns round. (A waiting
\* time below zero means nothing to a passenger.)
RoutesAreQuickest ==
  Answered /\ bus_wait_time >= 0 =>
    PassengerTimes(request[1], request[2]) =
      IF response.found THEN {response.total_time} ELSE {}

\* The ride told by a wait at stop s and the travel after it can be taken and
\* ends at stop t: a bus of that name goes there in so many hops and in that
\* time without turning.
CanRide(travel, s, t) ==
  \E b \in DOMAIN db.buses : \E way \in Ways(db.buses[b]) : \E i \in way :
    LET bus == db.buses[b]
        j   == i + travel.span_count
    IN /\ bus.name = travel.bus
       /\ j \in way
       /\ bus.stops[i] = s
       /\ bus.stops[j] = t
       /\ RideTime(bus.stops, i, j) = travel.time

\* The items are an itinerary: a wait and a ride in turn, each ride leading to
\* the stop of the next wait and the last to the stop asked for, and the times
\* of the items add up to the total.
ItemsAreAnItinerary ==
  Answered /\ response.found =>
    LET items == response.items
        rides == Len(items) \div 2
        Place(k) == IF k > rides THEN request[2] ELSE items[2 * k - 1].stop_name
    IN /\ Len(items) = 2 * rides
       /\ Place(1) = request[1]
       /\ \A k \in 1 .. rides :
            /\ items[2 * k - 1].type = "Wait"
            /\ items[2 * k].type = "Bus"
            /\ items[2 * k].span_count > 0
            /\ CanRide(items[2 * k], Place(k), Place(k + 1))
       /\ response.total_time =
            MapThenSumSet(LAMBDA k : items[k].time, DOMAIN items)

\* The process only dies when the vertices run out, for a bus without stops
\* that is no round trip, for a ride that takes, with the wait for it, less than
\* no time, or for a question about a stop that does not exist.
TerminatesOnlyFor ==
  stage = "terminated" =>
    \/ room < Cardinality(DOMAIN db.stop_by_name)
    \/ \E b \in DOMAIN db.buses : db.buses[b].stops = <<>> /\ ~db.buses[b].is_roundtrip
    \/ \E b \in DOMAIN db.buses : \E way \in Ways(db.buses[b]) :
         \E i, j \in way : i < j /\ bus_wait_time + RideTime(db.buses[b].stops, i, j) < 0
    \/ request # <<>> /\ ~(Range(request) \subseteq DOMAIN db.stop_by_name)

\* The router gets built or the process dies, and every Route request of known
\* stops is answered.
RouteRequestsAreAnswered ==
  /\ <>(stage \in {"serving", "terminated"})
  /\ (stage = "serving" /\ pc = "walk") ~> Answered
=============================================================================
