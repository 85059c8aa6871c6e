---------------------------- MODULE BaseRequests ----------------------------
(***************************************************************************)
(* JsonReader::FillingCatalogue (src/json_reader.cpp): the base_requests of *)
(* a document, stops and buses in any order and free to name stops that     *)
(* come later, are turned into a catalogue in three loops: stops are added  *)
(* while the requests are read, then the road distances, then the buses.    *)
(*                                                                          *)
(* A request is a dict of members. A Stop request has type, name and        *)
(* coordinates and may have road_distances, a function from stop names; a   *)
(* Bus request has type, name, stops and is_roundtrip. The document is      *)
(* taken after JSON parsing; a request that is no dict, or a document       *)
(* without base_requests, is like a request without members: at() or As*    *)
(* throws.                                                                  *)
(***************************************************************************)
EXTENDS Catalogue, SequencesExt

CONSTANTS
  StopName, BusName,
  Documents,        \* the sequences of base requests that may be read
  Other             \* a member, or part of one, that is not of its kind

-----------------------------------------------------------------------------
HasMembers(request, members) ==
  \A m \in members : m \in DOMAIN request /\ request[m] # Other

Roads(request) == Find(request, "road_distances", <<>>)

\* Reading the request throws no exception: every member is there, and of its
\* kind. Whatever is not a Stop is taken for a Bus.
CanRead(request) ==
  /\ HasMembers(request, {"type"})
  /\ IF request.type = "Stop"
     THEN /\ HasMembers(request, {"name", "coordinates"})
          /\ Roads(request) # Other
          /\ Other \notin Range(Roads(request))
     ELSE /\ HasMembers(request, {"name", "is_roundtrip", "stops"})
          /\ Other \notin Range(request.stops)

ASSUME RequestsAssumption ==
  \A doc \in Documents :
    /\ doc \in Seq(Range(doc))
    /\ \A i \in DOMAIN doc : CanRead(doc[i]) =>
         IF doc[i].type = "Stop"
         THEN doc[i].name \in StopName /\ DOMAIN Roads(doc[i]) \subseteq StopName
         ELSE /\ doc[i].name \in BusName
              /\ doc[i].stops \in Seq(StopName)
              /\ doc[i].is_roundtrip \in BOOLEAN

VARIABLES
  base_requests,    \* the document
  db,               \* db_
  pc,               \* "read", "distances", "buses", "filled", "crashed" or
                    \* "threw"
  at,               \* elements the present loop is done with
  stops, buses,     \* the local vectors of FillingCatalogue
  unset             \* stop_to_dist of the stop whose distances are being set,
                    \* less the names it has been through

vars == <<base_requests, db, pc, at, stops, buses, unset>>

-----------------------------------------------------------------------------
\* (A slip: the stop at which the bus turns is appended again.)
ReadBusFromJson_TurnsTwice(request) ==
  [request EXCEPT !.stops = IF request.is_roundtrip THEN @ ELSE @ \o Reverse(@)]

\* A bus that is no round trip goes back the way it came: the stops before
\* the last are appended again, from the last but one to the first.
ReadBusFromJson(request) ==
  LET given == request.stops IN
  [request EXCEPT !.stops =
     IF request.is_roundtrip \/ given = <<>> THEN given
     ELSE given \o Reverse(Front(given))]

Init ==
  /\ base_requests \in Documents
  /\ db = EmptyCatalogue
  /\ pc = "read"
  /\ at = 0
  /\ stops = <<>>
  /\ buses = <<>>
  /\ unset = {}

ReadStop ==
  /\ pc = "read"
  /\ at < Len(base_requests)
  /\ LET request == base_requests[at + 1] IN
     /\ CanRead(request)
     /\ request.type = "Stop"
     /\ stops' = Append(stops, request)
     /\ db' = AddStop(db, request.name, request.coordinates)
  /\ at' = at + 1
  /\ UNCHANGED <<base_requests, pc, buses, unset>>

\* (Slips: the bus is pushed on the wrong vector; the bus is added, or found to
\* have an unknown stop, at once.)
ReadBus_AsStop ==
  /\ pc = "read"
  /\ at < Len(base_requests)
  /\ CanRead(base_requests[at + 1])
  /\ base_requests[at + 1].type # "Stop"
  /\ stops' = Append(stops, ReadBusFromJson(base_requests[at + 1]))
  /\ at' = at + 1
  /\ UNCHANGED <<base_requests, db, pc, buses, unset>>

ReadBus_AtOnce ==
  /\ pc = "read"
  /\ at < Len(base_requests)
  /\ LET request == base_requests[at + 1]
         bus     == ReadBusFromJson(request)
     IN /\ CanRead(request)
        /\ request.type # "Stop"
        /\ IF \E s \in Range(bus.stops) : GetStop(db, s) = NullPtr
           THEN pc' = "crashed" /\ UNCHANGED <<db, at>>
           ELSE /\ db' = AddBus(db, bus.name, bus.stops, bus.is_roundtrip)
                /\ at' = at + 1
                /\ pc' = pc
  /\ UNCHANGED <<base_requests, stops, buses, unset>>

ReadBus ==
  /\ pc = "read"
  /\ at < Len(base_requests)
  /\ LET request == base_requests[at + 1] IN
     /\ CanRead(request)
     /\ request.type # "Stop"
     /\ buses' = Append(buses, ReadBusFromJson(request))
  /\ at' = at + 1
  /\ UNCHANGED <<base_requests, db, pc, stops, unset>>

\* The exception ends the process.
ReadThrows ==
  /\ pc = "read"
  /\ at < Len(base_requests)
  /\ ~CanRead(base_requests[at + 1])
  /\ pc' = "threw"
  /\ UNCHANGED <<base_requests, db, at, stops, buses, unset>>

\* The names whose distance the k-th stop gives.
Listed(k) == IF k <= Len(stops) THEN DOMAIN Roads(stops[k]) ELSE {}

\* stop_to_dist is an unordered_map: its elements come in any order.
SetDistance(stop_to) ==
  /\ pc = "distances"
  /\ stop_to \in unset
  /\ LET stop == stops[at + 1] IN
     db' = SetDistanceBetweenStops(db, stop.name, stop_to, Roads(stop)[stop_to])
  /\ unset' = unset \ {stop_to}
  /\ UNCHANGED <<base_requests, pc, at, stops, buses>>

NextStop ==
  /\ pc = "distances"
  /\ unset = {}
  /\ at < Len(stops)
  /\ at' = at + 1
  /\ unset' = Listed(at + 2)
  /\ UNCHANGED <<base_requests, db, pc, stops, buses>>

\* (A slip: a bus at an unknown stop is left out without a word.)
AddBusOfRequest_LeavesOut ==
  /\ pc = "buses"
  /\ at < Len(buses)
  /\ LET bus == buses[at + 1] IN
     db' = IF \E s \in Range(bus.stops) : GetStop(db, s) = NullPtr THEN db
           ELSE AddBus(db, bus.name, bus.stops, bus.is_roundtrip)
  /\ at' = at + 1
  /\ UNCHANGED <<base_requests, pc, stops, buses, unset>>

AddBusOfRequest ==
  /\ pc = "buses"
  /\ at < Len(buses)
  /\ LET bus == buses[at + 1] IN
     IF \E s \in Range(bus.stops) : GetStop(db, s) = NullPtr
     THEN \* db_.GetStop(stop_name)->name through a null pointer
          /\ pc' = "crashed"
          /\ UNCHANGED <<db, at>>
     ELSE /\ db' = AddBus(db, bus.name, bus.stops, bus.is_roundtrip)
          /\ at' = at + 1
          /\ pc' = pc
  /\ UNCHANGED <<base_requests, stops, buses, unset>>

EndReading ==
  /\ pc = "read"
  /\ at = Len(base_requests)
  /\ pc' = "distances"
  /\ at' = 0
  /\ unset' = Listed(1)
  /\ UNCHANGED <<base_requests, db, stops, buses>>

EndDistances ==
  /\ pc = "distances"
  /\ at = Len(stops)
  /\ pc' = "buses"
  /\ at' = 0
  /\ UNCHANGED <<base_requests, db, stops, buses, unset>>

EndBuses ==
  /\ pc = "buses"
  /\ at = Len(buses)
  /\ pc' = "filled"
  /\ UNCHANGED <<base_requests, db, at, stops, buses, unset>>

Next ==
  \/ ReadStop
  \/ ReadBus
  \/ ReadThrows
  \/ EndReading
  \/ \E stop_to \in unset : SetDistance(stop_to)
  \/ NextStop
  \/ EndDistances
  \/ AddBusOfRequest
  \/ EndBuses

Spec == Init /\ [][Next]_vars

\* FillingCatalogue is one call: it runs until it returns or dies.
FairSpec == Spec /\ WF_vars(Next)

-----------------------------------------------------------------------------
(* Properties                                                               *)

\* Every variable keeps its type.
TypeOK ==
  /\ base_requests \in Documents
  /\ pc \in {"read", "distances", "buses", "filled", "crashed", "threw"}
  /\ at \in Nat
  /\ stops \in Seq(Range(base_requests))
  /\ unset \subseteq StopName
  /\ \A k \in DOMAIN buses : buses[k].stops \in Seq(StopName)

\* The indexes agree with the deques at every moment of the loading, names
\* that occur twice included: a name is bound to the last stop (or bus) that
\* has it, the buses of a stop are those that have it on their route, and a
\* distance never hangs on a stop that its own name no longer leads to.
StopIndexInv ==
  /\ DOMAIN db.stop_by_name = NamesOf(db.stops)
  /\ \A name \in DOMAIN db.stop_by_name :
       db.stop_by_name[name] = LastNamed(db.stops, name)

BusIndexInv ==
  /\ DOMAIN db.bus_by_name = NamesOf(db.buses)
  /\ \A name \in DOMAIN db.bus_by_name :
       db.bus_by_name[name] = LastNamed(db.buses, name)

BusesByStopInv ==
  \A s \in StopName :
    GetBusesThroughStop(db, s) =
      {db.buses[p].name : p \in {q \in DOMAIN db.buses : s \in Range(db.buses[q].stops)}}

DistanceIndexInv ==
  \A k \in DOMAIN db.stops_to_dist : \A i \in {1, 2} :
    /\ k[i] \in DOMAIN db.stops
    /\ db.stop_by_name[db.stops[k[i]].name] = k[i]

IndexInv == StopIndexInv /\ BusIndexInv /\ BusesByStopInv /\ DistanceIndexInv

\* What the document says, whatever the order of its requests.
StopRequests(name) ==
  {i \in DOMAIN base_requests :
     base_requests[i].type = "Stop" /\ base_requests[i].name = name}

Listings(a, b) ==
  {i \in StopRequests(a) : b \in DOMAIN Roads(base_requests[i])}

Given(a, b) == Roads(base_requests[Max(Listings(a, b))])[b]

RequestedDistance(a, b) ==
  IF StopRequests(a) = {} \/ StopRequests(b) = {} THEN 0
  ELSE IF Listings(a, b) # {} THEN Given(a, b)
  ELSE IF Listings(b, a) # {} THEN Given(b, a)
  ELSE 0

\* The catalogue answers as the document says, wherever in it the requests
\* stand: a stop is known if some request defines it, with the coordinates of
\* the last that does, and a road has the length last given for its direction,
\* or else for the other one, also when the stop it leads to came later.
FilledAsRequested ==
  pc = "filled" =>
    /\ \A a \in StopName :
         /\ GetStop(db, a) # NullPtr <=> StopRequests(a) # {}
         /\ GetStop(db, a) # NullPtr =>
              db.stops[GetStop(db, a)].coordinates =
                base_requests[Max(StopRequests(a))].coordinates
    /\ \A a, b \in StopName :
         GetActualDistanceBetweenStops(db, a, b) = RequestedDistance(a, b)

BusRequests == {i \in DOMAIN base_requests : base_requests[i].type # "Stop"}

\* The buses are those requested, in the order of the requests, and the route
\* of each starts as requested; without a round trip it reads the same forwards
\* and backwards and turns round at the last stop given.
RoutesAsRequested ==
  pc = "filled" =>
    /\ Len(db.buses) = Cardinality(BusRequests)
    /\ \A i \in BusRequests :
         LET asked == base_requests[i]
             given == asked.stops
             bus   == db.buses[Cardinality(BusRequests \cap (1 .. i))]
             route == bus.stops
         IN /\ bus.name = asked.name
            /\ IsPrefix(given, route)
            /\ IF asked.is_roundtrip THEN route = given
               ELSE /\ Len(route) = IF given = <<>> THEN 0 ELSE 2 * Len(given) - 1
                    /\ \A p \in DOMAIN route : route[p] = route[Len(route) + 1 - p]

\* GetInfoOnRoute looks at every stop but the last, so it counts each stop of
\* the route once if the last is also an earlier one. One that is not, that of
\* an open round trip or the only one of its route, is left out of the count.
UniqueStopsCounted ==
  pc = "filled" =>
    \A name \in DOMAIN db.bus_by_name :
      LET route  == db.buses[GetBus(db, name)].stops
          last   == Len(route)
          passed == \E i \in 1 .. last - 1 : route[i] = route[last]
      IN InfoIsDefined(db, name) =>
           GetInfoOnRoute(db, name).unique_bus_stops =
             Cardinality(Range(route)) - IF passed THEN 0 ELSE 1

\* Loading throws exactly on a document with a request it cannot read, and dies
\* otherwise exactly on one with a bus at a stop that no request defines: where
\* the request stands in the document does not matter.
Readable == \A i \in DOMAIN base_requests : CanRead(base_requests[i])

NamesUnknownStop ==
  \E i \in DOMAIN base_requests :
    /\ base_requests[i].type # "Stop"
    /\ \E s \in Range(base_requests[i].stops) : StopRequests(s) = {}

CrashesOnUnknownStop ==
  /\ pc = "crashed" => Readable /\ NamesUnknownStop
  /\ pc = "filled" => Readable /\ ~NamesUnknownStop
  /\ pc = "threw" => ~Readable

\* Loading ends: with the catalogue filled, if the document can be read and
\* defines its stops.
LoadingEnds ==
  <>(pc = IF ~Readable THEN "threw" ELSE IF NamesUnknownStop THEN "crashed" ELSE "filled")
=============================================================================
