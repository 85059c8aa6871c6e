-------------------------- MODULE MCTransportRouter --------------------------
(* Catalogues for checking TransportRouter: three stops, up to two buses    *)
(* from a pool of shapes (round trips closed and open, there and back,      *)
(* stops visited twice in a row, a single stop, none) in every order, and   *)
(* road distances given for one direction, for both and differently, or     *)
(* not at all. In some catalogues a stop is defined twice, in one none is.  *)
(* The wait may be below zero, so that short rides weigh less than nothing. *)
EXTENDS TransportRouter, TLC

CONSTANTS A, B, C, Nowhere, bus1, bus2

MCNames == {A, B, C, Nowhere}

MCWaitTimes == {-2, 0, 3}

ThreeStops == AddStop(AddStop(AddStop(EmptyCatalogue, A, 0), B, 1), C, 2)

Roads ==
  {<<A, B>> :> 4 @@ <<B, C>> :> 2,
   <<A, B>> :> 5 @@ <<B, A>> :> 1 @@ <<C, B>> :> 1 @@ <<A, A>> :> 2,
   <<A, C>> :> 1}

RECURSIVE WithRoads(_, _, _)
WithRoads(d, roads, ps) ==
  IF ps = {} THEN d
  ELSE LET p == CHOOSE p \in ps : TRUE IN
       WithRoads(SetDistanceBetweenStops(d, p[1], p[2], roads[p]), roads, ps \ {p})

Shapes ==
  {[stops |-> <<A, B, A>>, is_roundtrip |-> TRUE],
   [stops |-> <<A, B, C, A>>, is_roundtrip |-> TRUE],
   [stops |-> <<C, A, A>>, is_roundtrip |-> TRUE],
   [stops |-> <<>>, is_roundtrip |-> TRUE],
   [stops |-> <<A, B, C, B, A>>, is_roundtrip |-> FALSE],
   [stops |-> <<C, A, C>>, is_roundtrip |-> FALSE],
   [stops |-> <<B>>, is_roundtrip |-> FALSE],
   [stops |-> <<>>, is_roundtrip |-> FALSE]}

WithBus(d, name, shape) == AddBus(d, name, shape.stops, shape.is_roundtrip)

MCBases ==
  LET bare == {WithRoads(ThreeStops, roads, DOMAIN roads) : roads \in Roads} IN
  bare
  \cup {WithBus(d, bus1, s) : d \in bare, s \in Shapes}
  \cup {WithBus(WithBus(d, bus1, s), bus2, t) : d \in bare, s, t \in Shapes}
  \cup {WithBus(WithRoads(AddStop(ThreeStops, A, 9), roads, DOMAIN roads), bus1, s) :
           roads \in Roads, s \in Shapes}
  \cup {EmptyCatalogue}
=============================================================================
