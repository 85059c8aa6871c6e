--------------------------- MODULE Serialization ---------------------------
(***************************************************************************)
(* Serialization (src/serialization.cpp, protofiles/): the base as it is    *)
(* written to the file and as it is parsed back.                            *)
(*                                                                          *)
(* On the wire the base is a sequence of items, in the order of the field   *)
(* numbers: the stops, the distances and the buses of the catalogue, then   *)
(* the map, the routing settings and the vertex count. A file that was not  *)
(* written to its end holds a prefix of them, the last one perhaps cut.     *)
(***************************************************************************)
EXTENDS Rides, SequencesExt

CONSTANTS
  Name,            \* names of stops and buses, the empty name among them
  Unsigned,        \* 2^64
  IntRange         \* 2^32

-----------------------------------------------------------------------------
(* FillingBase                                                              *)

SerializeStop(stop) ==
  [field |-> "stops", name |-> stop.name, coordinates |-> stop.coordinates]

\* What a double becomes as uint64_t. A negative one has no value there: on one
\* processor it wraps round, on another it becomes the largest there is, on a
\* third zero.
Below == {"wraps", "largest", "zero"}

AsUnsigned(d, below) ==
  IF d >= 0 THEN d
  ELSE [wraps |-> Unsigned + d, largest |-> Unsigned - 1, zero |-> 0][below]

\* The two stops are written by their names.
SerializeFromToDistance(db, key, below) ==
  [field |-> "stops_distance", from |-> db.stops[key[1]].name,
   to |-> db.stops[key[2]].name, distance |-> AsUnsigned(db.stops_to_dist[key], below)]

SerializeBus(bus) ==
  [field |-> "buses", name |-> bus.name, is_roundtrip |-> bus.is_roundtrip,
   stop_names |-> bus.stops]

\* SerializeTransportCatalogue, with the distances in the order in which the
\* unordered_map happens to hold them.
SerializeTransportCatalogue(db, keys, below) ==
  [p \in DOMAIN db.stops |-> SerializeStop(db.stops[p])]
  \o [p \in DOMAIN keys |-> SerializeFromToDistance(db, keys[p], below)]
  \o [p \in DOMAIN db.buses |-> SerializeBus(db.buses[p])]

SerializeParameters(settings, vertex_count) ==
  << [field |-> "routing_settings", bus_wait_time |-> settings.bus_wait_time,
      bus_velocity |-> settings.bus_velocity],
     [field |-> "vertex_count", count |-> vertex_count] >>

\* The map is rendered when the base is made; the vertex count goes last.
FillingBase(db, keys, below, description, settings, vertex_count) ==
  SerializeTransportCatalogue(db, keys, below)
  \o << [field |-> "map", description |-> description] >>
  \o SerializeParameters(settings, vertex_count)

-----------------------------------------------------------------------------
(* ParseFromIstream, whose result nobody looks at: what it has parsed when  *)
(* the input ends stays in the message. Of an item that is cut the fields   *)
(* before the cut are set, a name that is cut may have become any name, and *)
(* the fields after it have their default values.                           *)

CutStop(item) == {[item EXCEPT !.name = n, !.coordinates = 0] : n \in Name}

CutFromToDistance(item) ==
  {[item EXCEPT !.from = ends[1], !.to = ends[2], !.distance = 0] : ends \in Name \X Name}

CutNames(names) ==
  {SubSeq(names, 1, k) \o rest :
     k \in 0 .. Len(names) - 1, rest \in {<<>>} \cup {<<n>> : n \in Name}}

CutBus(item) ==
  {[item EXCEPT !.is_roundtrip = start[1], !.name = start[2], !.stop_names = <<>>] :
     start \in {FALSE, item.is_roundtrip} \X Name}
  \cup {[item EXCEPT !.stop_names = names] : names \in CutNames(item.stop_names)}

CutItems(item) ==
  CASE item.field = "stops"            -> CutStop(item)
    [] item.field = "stops_distance"   -> CutFromToDistance(item)
    [] item.field = "buses"            -> CutBus(item)
    [] item.field = "map"              -> {[item EXCEPT !.description = ""]}
    [] item.field = "routing_settings" ->
         {[item EXCEPT !.bus_wait_time = wait, !.bus_velocity = 0] :
            wait \in {0, item.bus_wait_time}}
    [] item.field = "vertex_count"     -> {[item EXCEPT !.count = 0]}

\* What a message may be whose last item has only been read in part.
CutMessages(message) ==
  {[message EXCEPT ![Len(message)] = rest] : rest \in CutItems(Last(message))}

PositionsOf(message, field) == {k \in DOMAIN message : message[k].field = field}

\* The items of a repeated field, in their order.
ItemsOf(message, field) ==
  LET positions == PositionsOf(message, field) IN
  [r \in 1 .. Cardinality(positions) |->
     message[CHOOSE k \in positions : Cardinality(positions \cap (1 .. k)) = r]]

\* A member of a field that is not repeated. A member that has its default value
\* is not written, and one that is not there reads as its default value; of
\* several items of the field, which are merged, the last that has it counts.
FieldOf(message, field, member, default) ==
  LET given == {k \in PositionsOf(message, field) : message[k][member] # default} IN
  IF given = {} THEN default ELSE message[Max(given)][member]

-----------------------------------------------------------------------------
(* Deserialization of one element. A stop the catalogue does not have is    *)
(* reached through a null pointer.                                          *)

DeserializeStop(db, item) == AddStop(db, item.name, item.coordinates)

CanDeserializeFromToDistance(db, item) ==
  GetStop(db, item.from) # NullPtr /\ GetStop(db, item.to) # NullPtr

\* (A slip: a parameter as wide as the number in the file.)
DeserializeFromToDistance_Wide(db, item) ==
  SetDistanceBetweenStops(db, item.from, item.to, item.distance)

\* What a uint64_t becomes as the int that SetDistanceBetweenStops takes: its
\* last 32 bits, in two's complement.
AsInt(u) == LET r == u % IntRange IN IF r < IntRange \div 2 THEN r ELSE r - IntRange

DeserializeFromToDistance(db, item) ==
  SetDistanceBetweenStops(db, item.from, item.to, AsInt(item.distance))

CanDeserializeBus(db, item) ==
  \A s \in Range(item.stop_names) : GetStop(db, s) # NullPtr

DeserializeBus(db, item) == AddBus(db, item.name, item.stop_names, item.is_roundtrip)
=============================================================================
