----------------------------- MODULE Catalogue -----------------------------
(***************************************************************************)
(* TransportCatalogue (src/transport_catalogue.cpp) as a value: the record  *)
(* of its six containers, one operator for each member function.            *)
(*                                                                          *)
(* The two deques are sequences. A `const Stop*' or `const Bus*' is a       *)
(* position in its deque (elements of a deque do not move when one is       *)
(* pushed), and 0 is nullptr. The maps are functions on the keys they hold. *)
(* Coordinates are positions on a line, which keeps what the catalogue      *)
(* does with them: it stores them and sums distances between neighbours.    *)
(***************************************************************************)
EXTENDS Integers, Sequences, FiniteSetsExt, Functions

NullPtr == 0

EmptyCatalogue ==
  [stops |-> <<>>, buses |-> <<>>,              \* bus_stops_, buses_
   stop_by_name |-> <<>>, bus_by_name |-> <<>>,
   buses_by_stop_name |-> <<>>,
   stops_to_dist |-> <<>>]

\* m[k] = v
Put(m, k, v) == [x \in DOMAIN m \cup {k} |-> IF x = k THEN v ELSE m[x]]

Find(m, k, default) == IF k \in DOMAIN m THEN m[k] ELSE default

-----------------------------------------------------------------------------
GetStop(db, name) == Find(db.stop_by_name, name, NullPtr)

GetBus(db, name) == Find(db.bus_by_name, name, NullPtr)

GetBusesThroughStop(db, stop) == Find(db.buses_by_stop_name, stop, {})

\* (A slip: emplace, which leaves an older stop of that name in place.)
AddStop_Emplace(db, name, coordinates) ==
  [db EXCEPT !.stops = Append(@, [name |-> name, coordinates |-> coordinates]),
             !.stop_by_name =
               IF name \in DOMAIN @ THEN @ ELSE Put(@, name, Len(db.stops) + 1)]

\* The name is bound to the new stop even when an older stop has it.
AddStop(db, name, coordinates) ==
  [db EXCEPT !.stops = Append(@, [name |-> name, coordinates |-> coordinates]),
             !.stop_by_name = Put(@, name, Len(db.stops) + 1)]

AddBus(db, name, stops, is_roundtrip) ==
  [db EXCEPT
     !.buses = Append(@, [name |-> name, is_roundtrip |-> is_roundtrip, stops |-> stops]),
     !.bus_by_name = Put(@, name, Len(db.buses) + 1),
     !.buses_by_stop_name =
       [s \in DOMAIN @ \cup Range(stops) |->
          Find(@, s, {}) \cup IF s \in Range(stops) THEN {name} ELSE {}]]

\* A distance to or from a stop that does not exist is dropped silently.
SetDistanceBetweenStops(db, from, to, distance) ==
  IF GetStop(db, from) = NullPtr \/ GetStop(db, to) = NullPtr THEN db
  ELSE [db EXCEPT !.stops_to_dist =
          Put(@, <<GetStop(db, from), GetStop(db, to)>>, distance)]

\* (A slip: the distance of the other direction is not looked up.)
GetActualDistanceBetweenStops_OneWay(db, from, to) ==
  Find(db.stops_to_dist, <<GetStop(db, from), GetStop(db, to)>>, 0)

\* The distance given for this direction, or else for the other one.
GetActualDistanceBetweenStops(db, from, to) ==
  LET there == <<GetStop(db, from), GetStop(db, to)>>
      back  == <<GetStop(db, to), GetStop(db, from)>>
  IN IF GetStop(db, from) = NullPtr \/ GetStop(db, to) = NullPtr THEN 0
     ELSE Find(db.stops_to_dist, there, Find(db.stops_to_dist, back, 0))

GetGeographicDistanceBetweenStops(db, from, to) ==
  LET p == GetStop(db, from)
      q == GetStop(db, to)
      d == db.stops[p].coordinates - db.stops[q].coordinates
  IN IF p = NullPtr \/ q = NullPtr THEN 0 ELSE IF d < 0 THEN -d ELSE d

-----------------------------------------------------------------------------
(* What the containers have to say about each other.                        *)

NamesOf(seq) == {seq[p].name : p \in DOMAIN seq}

LastNamed(seq, name) == Max({p \in DOMAIN seq : seq[p].name = name})

StopsOnRoutes(buses) == UNION {Range(buses[p].stops) : p \in DOMAIN buses}

BusesThrough(buses, s) ==
  {buses[p].name : p \in {q \in DOMAIN buses : s \in Range(buses[q].stops)}}

\* The tables by name say what the deques say, names that occur twice included:
\* a name is bound to the last stop (or bus) that has it, and the buses of a
\* stop are those that have it on their route.
TablesAgree(db) ==
  /\ db.stop_by_name = [n \in NamesOf(db.stops) |-> LastNamed(db.stops, n)]
  /\ db.bus_by_name = [n \in NamesOf(db.buses) |-> LastNamed(db.buses, n)]
  /\ db.buses_by_stop_name =
       [s \in StopsOnRoutes(db.buses) |-> BusesThrough(db.buses, s)]

\* A distance never hangs on a stop that its own name no longer leads to.
DistancesHang(db) ==
  /\ DOMAIN db.stops_to_dist \subseteq (DOMAIN db.stops) \X (DOMAIN db.stops)
  /\ \A road \in DOMAIN db.stops_to_dist : \A i \in {1, 2} :
       db.stop_by_name[db.stops[road[i]].name] = road[i]

\* A catalogue as JsonReader::FillingCatalogue leaves it: buses only stop where
\* there are stops, and one that is no round trip turns at the stop in the
\* middle of its route.
IsFilled(db) ==
  /\ DOMAIN db = DOMAIN EmptyCatalogue
  /\ db.stops \in Seq(Range(db.stops)) /\ db.buses \in Seq(Range(db.buses))
  /\ \A p \in DOMAIN db.stops :
       db.stops[p] = [name |-> db.stops[p].name, coordinates |-> db.stops[p].coordinates]
  /\ \A p \in DOMAIN db.buses :
       /\ db.buses[p] = [name |-> db.buses[p].name, stops |-> db.buses[p].stops,
                         is_roundtrip |-> db.buses[p].is_roundtrip]
       /\ db.buses[p].stops \in Seq(NamesOf(db.stops))
       /\ db.buses[p].is_roundtrip \in BOOLEAN
       /\ ~db.buses[p].is_roundtrip /\ db.buses[p].stops # <<>> =>
            Len(db.buses[p].stops) % 2 = 1
  /\ TablesAgree(db)
  /\ DistancesHang(db)

-----------------------------------------------------------------------------
(* GetInfoOnRoute. The curvature is the quotient of the two lengths; it is  *)
(* kept as the pair. The loop bound `size() - 1' is unsigned: for a bus     *)
(* without stops it wraps round and the loop reads past the vector.         *)

NoInfo == [total_bus_stops |-> 0, unique_bus_stops |-> 0,
           lenght_route |-> 0, geographic_lenght |-> 0]

InfoIsDefined(db, name) ==
  GetBus(db, name) # NullPtr => db.buses[GetBus(db, name)].stops # <<>>

\* (A slip: the last two stops are not looked at.)
GetInfoOnRoute_ShortLoop(db, name) ==
  IF GetBus(db, name) = NullPtr THEN NoInfo
  ELSE LET stops == db.buses[GetBus(db, name)].stops
       IN [NoInfo EXCEPT
             !.total_bus_stops = Len(stops),
             !.unique_bus_stops = Cardinality({stops[i] : i \in 1 .. Len(stops) - 2})]

GetInfoOnRoute(db, name) ==
  IF GetBus(db, name) = NullPtr THEN NoInfo
  ELSE LET stops == db.buses[GetBus(db, name)].stops
           Hops  == 1 .. Len(stops) - 1
       IN [total_bus_stops   |-> Len(stops),
           \* the last stop is not looked at
           unique_bus_stops  |-> Cardinality({stops[i] : i \in Hops}),
           lenght_route      |->
             MapThenSumSet(LAMBDA i :
               GetActualDistanceBetweenStops(db, stops[i], stops[i + 1]), Hops),
           geographic_lenght |->
             MapThenSumSet(LAMBDA i :
               GetGeographicDistanceBetweenStops(db, stops[i], stops[i + 1]), Hops)]
=============================================================================
