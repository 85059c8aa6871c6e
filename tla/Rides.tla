-------------------------------- MODULE Rides --------------------------------
(***************************************************************************)
(* The rides of the graph that transport_router::TransportRouter builds     *)
(* (src/transport_router.cpp, inc/transport_router.h): which pairs of       *)
(* positions of a route get an edge, and how long the ride is. The router   *)
(* itself is in TransportRouter; Program only asks whether it would take    *)
(* the graph.                                                               *)
(***************************************************************************)
EXTENDS Catalogue

\* (A slip: the way there ends before the turning stop.)
Legs_ShortWayThere(bus) ==
  LET n == Len(bus.stops) IN
  IF bus.is_roundtrip THEN <<<<1, n>>>>
  ELSE <<<<1, n \div 2>>, <<n \div 2 + 1, n>>>>

\* The parts of its route a passenger can stay on the bus for: all of a round
\* trip, otherwise the way there and the way back, which share the turning
\* stop, at position size / 2 counted from zero.
Legs(bus) ==
  LET n == Len(bus.stops) IN
  IF bus.is_roundtrip THEN <<<<1, n>>>>
  ELSE <<<<1, n \div 2 + 1>>, <<n \div 2 + 1, n>>>>

\* The way from position i of a route to position j.
RideLength(d, route, i, j) ==
  MapThenSumSet(LAMBDA k : GetActualDistanceBetweenStops(d, route[k], route[k + 1]),
                i .. j - 1)

\* The weight of the edge is wait + way / velocity, in minutes. Without a
\* velocity each hop is a quotient by 0: an infinity, which has the sign of the
\* distance, or no number; a sum of them is below zero only if each of them is.
WeighsBelowZero(d, route, i, j, wait, velocity) ==
  \/ velocity > 0 /\ RideLength(d, route, i, j) + wait * velocity < 0
  \/ velocity < 0 /\ RideLength(d, route, i, j) + wait * velocity > 0
  \/ velocity = 0 /\ \A k \in i .. j - 1 :
       GetActualDistanceBetweenStops(d, route[k], route[k + 1]) < 0

\* graph::Router refuses a graph with an edge that weighs less than nothing.
HasNegativeRide(d, wait, velocity) ==
  \E bus \in Range(d.buses) : \E l \in DOMAIN Legs(bus) :
    \E i, j \in Legs(bus)[l][1] .. Legs(bus)[l][2] :
      i < j /\ WeighsBelowZero(d, bus.stops, i, j, wait, velocity)
=============================================================================
