----------------------------- MODULE MCProgram -----------------------------
(* Bases for checking Program: a line with distances in both directions and *)
(* a stop with the empty name; a stop and a bus defined twice, with a       *)
(* distance below zero, which the wait outweighs or not, depending on what  *)
(* the processor makes of it; no stops at all; and an empty palette.        *)
EXTENDS Program

CONSTANTS A, Empty, Nowhere, bus1, bus2

MCName == {A, Empty}

InMemory(db_, velocity, colors) ==
  [db |-> db_, colors |-> colors,
   settings |-> [bus_wait_time |-> 2, bus_velocity |-> velocity]]

Two == AddStop(AddStop(EmptyCatalogue, A, 3), Empty, 1)

Line ==
  AddBus(SetDistanceBetweenStops(SetDistanceBetweenStops(Two, A, Empty, 7), Empty, A, 9),
         bus1, <<A, Empty, A>>, FALSE)

Twice ==
  AddBus(AddBus(SetDistanceBetweenStops(AddStop(AddStop(EmptyCatalogue, A, 3), A, 5), A, A, -4),
                bus1, <<A, A>>, TRUE),
         bus1, <<>>, TRUE)

Stopless == AddBus(EmptyCatalogue, bus2, <<>>, FALSE)

MCBases ==
  {InMemory(Line, 1, 1), InMemory(Line, 1, 0), InMemory(Twice, 1, 2), InMemory(Stopless, 0, 0)}

Ask(id, type, members) == [id |-> id, type |-> type] @@ members

Named(name) == [name |-> name]
Way(from, to) == [from |-> from, to |-> to]

MCRequestLists ==
  {<<Ask(1, "Stop", Named(A)), Ask(2, "Other", <<>>), Ask(3, "Map", <<>>)>>,
   <<Ask(4, "Bus", Named(bus1)), Ask(5, "Route", [to |-> A]), Ask(6, "Route", Way(A, Nowhere))>>,
   <<[type |-> "Map"], Ask(7, "Stop", Named(Other))>>}
=============================================================================
