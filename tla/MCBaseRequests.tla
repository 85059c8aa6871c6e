--------------------------- MODULE MCBaseRequests ---------------------------
(* Documents for checking BaseRequests: requests drawn from a small pool, in *)
(* every order and with repetitions, so that stops and buses of one name,    *)
(* forward references, one-way distances and unknown stops all occur, and    *)
(* shorter ones with requests that cannot be read.                           *)
EXTENDS BaseRequests, TLC

CONSTANTS A, B, C, bus1, bus2, MaxRequests

MCStopName == {A, B, C}
MCBusName == {bus1, bus2}

Stop(name, coordinates, road_distances) ==
  [type |-> "Stop", name |-> name, coordinates |-> coordinates,
   road_distances |-> road_distances]

Bus(name, route, is_roundtrip) ==
  [type |-> "Bus", name |-> name, stops |-> route, is_roundtrip |-> is_roundtrip]

Pool ==
  {Stop(A, 0, B :> 10 @@ C :> 20), Stop(A, 5, B :> 11), Stop(B, 2, A :> 30),
   [type |-> "Stop", name |-> B, coordinates |-> 2], Stop(C, 7, C :> 4 @@ A :> 21),
   Bus(bus1, <<A, B>>, FALSE), Bus(bus1, <<A, B, C, A>>, TRUE),
   Bus(bus2, <<B>>, FALSE), Bus(bus2, <<>>, FALSE), [Bus(bus2, <<C, A, B>>, FALSE) EXCEPT !.type = "Tram"]}

\* A distance that is no int, a stop that is no string, no type, no shape.
Unreadable ==
  {Stop(C, 7, A :> 21 @@ B :> Other), Bus(bus1, <<A, Other>>, TRUE), [name |-> A],
   [type |-> "Bus", name |-> bus1, stops |-> <<A, B>>]}

MCDocuments ==
  UNION {[1 .. n -> Pool] : n \in 0 .. MaxRequests}
  \cup UNION {[1 .. n -> Pool \cup Unreadable] : n \in 1 .. MaxRequests - 1}
=============================================================================
