--------------------------- MODULE CatalogueProofs ---------------------------
(***************************************************************************)
(* What the operations of Catalogue do to each of its containers, for every *)
(* catalogue.                                                               *)
(***************************************************************************)
EXTENDS Catalogue, DataLemmas

\* The value has the containers of a catalogue.
IsCatalogue(c) == DOMAIN c = DOMAIN EmptyCatalogue

\* A catalogue is six containers.
LEMMA Containers ==
  DOMAIN EmptyCatalogue = {"stops", "buses", "stop_by_name", "bus_by_name",
                           "buses_by_stop_name", "stops_to_dist"}
  BY DEF EmptyCatalogue

\* AddStop appends a stop and binds its name to it.
LEMMA AddStopEffect ==
  ASSUME NEW c, IsCatalogue(c), NEW name, NEW coordinates
  PROVE  LET d == AddStop(c, name, coordinates) IN
         /\ IsCatalogue(d)
         /\ d.stops = Append(c.stops, [name |-> name, coordinates |-> coordinates])
         /\ d.stop_by_name = Put(c.stop_by_name, name, Len(c.stops) + 1)
         /\ d.buses = c.buses
         /\ d.bus_by_name = c.bus_by_name
         /\ d.buses_by_stop_name = c.buses_by_stop_name
         /\ d.stops_to_dist = c.stops_to_dist
  BY Containers DEF AddStop, IsCatalogue

\* AddBus appends a bus, binds its name to it and enters it at its stops.
LEMMA AddBusEffect ==
  ASSUME NEW c, IsCatalogue(c), NEW name, NEW route, NEW is_roundtrip
  PROVE  LET d == AddBus(c, name, route, is_roundtrip) IN
         /\ IsCatalogue(d)
         /\ d.buses = Append(c.buses, [name |-> name, is_roundtrip |-> is_roundtrip,
                                       stops |-> route])
         /\ d.bus_by_name = Put(c.bus_by_name, name, Len(c.buses) + 1)
         /\ \A s : GetBusesThroughStop(d, s) =
                     GetBusesThroughStop(c, s) \cup IF s \in Range(route) THEN {name} ELSE {}
         /\ d.stops = c.stops
         /\ d.stop_by_name = c.stop_by_name
         /\ d.stops_to_dist = c.stops_to_dist
<1> DEFINE d == AddBus(c, name, route, is_roundtrip)
<1>1. /\ IsCatalogue(d)
      /\ d.buses = Append(c.buses, [name |-> name, is_roundtrip |-> is_roundtrip,
                                    stops |-> route])
      /\ d.bus_by_name = Put(c.bus_by_name, name, Len(c.buses) + 1)
      /\ d.stops = c.stops
      /\ d.stop_by_name = c.stop_by_name
      /\ d.stops_to_dist = c.stops_to_dist
  BY Containers DEF AddBus, IsCatalogue
<1>2. d.buses_by_stop_name =
        [s \in DOMAIN c.buses_by_stop_name \cup Range(route) |->
           Find(c.buses_by_stop_name, s, {}) \cup IF s \in Range(route) THEN {name} ELSE {}]
  BY Containers DEF AddBus, IsCatalogue
<1> HIDE DEF d
<1>3. ASSUME NEW s
      PROVE  GetBusesThroughStop(d, s) =
               GetBusesThroughStop(c, s) \cup IF s \in Range(route) THEN {name} ELSE {}
  <2>1. CASE s \in DOMAIN c.buses_by_stop_name \cup Range(route)
    BY <1>2, <2>1 DEF GetBusesThroughStop, Find
  <2>2. CASE s \notin DOMAIN c.buses_by_stop_name \cup Range(route)
    BY <1>2, <2>2 DEF GetBusesThroughStop, Find
  <2> QED
    BY <2>1, <2>2
<1> QED
  BY <1>1, <1>3 DEF d

\* SetDistanceBetweenStops sets the distance between two stops there are, and
\* otherwise does nothing.
LEMMA SetDistanceEffect ==
  ASSUME NEW c, IsCatalogue(c), NEW f, NEW t, NEW distance
  PROVE  LET d == SetDistanceBetweenStops(c, f, t, distance) IN
         /\ IsCatalogue(d)
         /\ d.stops = c.stops
         /\ d.stop_by_name = c.stop_by_name
         /\ d.buses = c.buses
         /\ d.bus_by_name = c.bus_by_name
         /\ d.buses_by_stop_name = c.buses_by_stop_name
         /\ d.stops_to_dist =
              IF GetStop(c, f) = NullPtr \/ GetStop(c, t) = NullPtr THEN c.stops_to_dist
              ELSE Put(c.stops_to_dist, <<GetStop(c, f), GetStop(c, t)>>, distance)
  BY Containers DEF SetDistanceBetweenStops, IsCatalogue

-----------------------------------------------------------------------------
(* The tables of names.                                                     *)

\* Appending an element moves the last one of its name, and no other.
LEMMA LastNamedAppend ==
  ASSUME NEW s, IsSeq(s), NEW e
  PROVE  LET t == Append(s, e) IN
         /\ NamesOf(t) = NamesOf(s) \cup {e.name}
         /\ LastNamed(t, e.name) = Len(s) + 1
         /\ \A name \in NamesOf(s) :
              name # e.name => LastNamed(t, name) = LastNamed(s, name)
<1> DEFINE t == Append(s, e)
           n == Len(s)
<1>1. /\ n \in Nat
      /\ DOMAIN s = 1 .. n
      /\ DOMAIN t = 1 .. n + 1
      /\ \A i \in 1 .. n : t[i] = s[i]
      /\ t[n + 1] = e
  BY AppendToSeq
<1> HIDE DEF t, n
<1>2. 1 .. n + 1 = (1 .. n) \cup {n + 1} /\ n + 1 \notin 1 .. n
  BY <1>1
<1>3. NamesOf(t) = NamesOf(s) \cup {e.name}
  BY <1>1, <1>2 DEF NamesOf
<1>4. LastNamed(t, e.name) = n + 1
  <2> DEFINE P == {p \in DOMAIN t : t[p].name = e.name}
  <2>1. /\ n + 1 \in Nat /\ P \in SUBSET (1 .. n + 1)
        /\ n + 1 \in P /\ \A p \in P : p <= n + 1
    BY <1>1, <1>2
  <2> HIDE DEF P
  <2>2. Max(P) = n + 1
    BY <1>1, <2>1, MaxUnique
  <2> QED
    BY <2>2 DEF LastNamed, P
<1>5. ASSUME NEW name \in NamesOf(s), name # e.name
      PROVE  LastNamed(t, name) = LastNamed(s, name)
  <2>1. {p \in DOMAIN t : t[p].name = name} = {p \in DOMAIN s : s[p].name = name}
    BY <1>1, <1>2, <1>5
  <2> QED
    BY <2>1 DEF LastNamed
<1> QED
  BY <1>3, <1>4, <1>5 DEF t, n

\* The last element of a name has the name.
LEMMA LastNamedIs ==
  ASSUME NEW s, IsSeq(s), NEW name \in NamesOf(s)
  PROVE  /\ LastNamed(s, name) \in 1 .. Len(s)
         /\ s[LastNamed(s, name)].name = name
<1> DEFINE P == {p \in DOMAIN s : s[p].name = name}
<1>1. Len(s) \in Nat /\ DOMAIN s = 1 .. Len(s)
  BY DEF IsSeq
<1>2. P \in SUBSET (1 .. Len(s)) /\ P # {}
  BY <1>1 DEF NamesOf
<1>3. Max(P) \in P
  <2> HIDE DEF P
  <2> QED
    BY <1>1, <1>2, MaxProperties
<1> QED
  BY <1>1, <1>3 DEF LastNamed

\* Appending an element binds its name to it in the table of names.
LEMMA TableAppend ==
  ASSUME NEW s, IsSeq(s), NEW e
  PROVE  [n \in NamesOf(Append(s, e)) |-> LastNamed(Append(s, e), n)]
           = Put([n \in NamesOf(s) |-> LastNamed(s, n)], e.name, Len(s) + 1)
<1> DEFINE t == Append(s, e)
           m == [n \in NamesOf(s) |-> LastNamed(s, n)]
<1>1. /\ NamesOf(t) = NamesOf(s) \cup {e.name}
      /\ LastNamed(t, e.name) = Len(s) + 1
      /\ \A name \in NamesOf(s) :
           name # e.name => LastNamed(t, name) = LastNamed(s, name)
  BY LastNamedAppend
<1> HIDE DEF t
<1>2. DOMAIN m = NamesOf(s) /\ \A n \in NamesOf(s) : m[n] = LastNamed(s, n)
  OBVIOUS
<1> HIDE DEF m
<1>3. Put(m, e.name, Len(s) + 1)
        = [n \in NamesOf(t) |-> IF n = e.name THEN Len(s) + 1 ELSE m[n]]
  BY <1>1, <1>2 DEF Put
<1>4. ASSUME NEW n \in NamesOf(t)
      PROVE  LastNamed(t, n) = IF n = e.name THEN Len(s) + 1 ELSE m[n]
  BY <1>1, <1>2
<1>5. [n \in NamesOf(t) |-> LastNamed(t, n)]
        = [n \in NamesOf(t) |-> IF n = e.name THEN Len(s) + 1 ELSE m[n]]
  BY <1>4
<1> QED
  BY <1>3, <1>5 DEF t, m

-----------------------------------------------------------------------------
(* The tables agree with the deques from the first to the last operation.   *)

\* An empty catalogue says nothing, in every table.
LEMMA EmptyTables ==
  /\ IsCatalogue(EmptyCatalogue)
  /\ IsSeq(EmptyCatalogue.stops) /\ IsSeq(EmptyCatalogue.buses)
  /\ TablesAgree(EmptyCatalogue)
<1>1. /\ EmptyCatalogue.stops = <<>> /\ EmptyCatalogue.buses = <<>>
      /\ EmptyCatalogue.stop_by_name = <<>> /\ EmptyCatalogue.bus_by_name = <<>>
      /\ EmptyCatalogue.buses_by_stop_name = <<>>
  BY DEF EmptyCatalogue
<1>2. NamesOf(<<>>) = {} /\ StopsOnRoutes(<<>>) = {}
  BY DEF NamesOf, StopsOnRoutes
<1>3. IsSeq(<<>>)
  BY DEF IsSeq
<1>4. /\ <<>> = [n \in {} |-> LastNamed(<<>>, n)]
      /\ <<>> = [n \in {} |-> BusesThrough(<<>>, n)]
  OBVIOUS
<1> QED
  BY <1>1, <1>2, <1>3, <1>4 DEF TablesAgree, IsCatalogue

\* AddStop keeps the tables in agreement.
LEMMA TablesAfterStop ==
  ASSUME NEW c, IsCatalogue(c), IsSeq(c.stops), TablesAgree(c),
         NEW name, NEW coordinates
  PROVE  TablesAgree(AddStop(c, name, coordinates))
<1> DEFINE e == [name |-> name, coordinates |-> coordinates]
           d == AddStop(c, name, coordinates)
<1>1. /\ d.stops = Append(c.stops, e)
      /\ d.stop_by_name = Put(c.stop_by_name, name, Len(c.stops) + 1)
      /\ d.buses = c.buses
      /\ d.bus_by_name = c.bus_by_name
      /\ d.buses_by_stop_name = c.buses_by_stop_name
  BY AddStopEffect
<1>2. e.name = name
  OBVIOUS
<1> HIDE DEF e, d
<1>3. [n \in NamesOf(Append(c.stops, e)) |-> LastNamed(Append(c.stops, e), n)]
        = Put([n \in NamesOf(c.stops) |-> LastNamed(c.stops, n)], e.name,
              Len(c.stops) + 1)
  BY TableAppend
<1> QED
  BY <1>1, <1>2, <1>3 DEF TablesAgree, d

\* AddBus keeps the tables in agreement.
LEMMA TablesAfterBus ==
  ASSUME NEW c, IsCatalogue(c), IsSeq(c.buses), TablesAgree(c),
         NEW name, NEW route, NEW is_roundtrip
  PROVE  TablesAgree(AddBus(c, name, route, is_roundtrip))
<1> DEFINE e == [name |-> name, is_roundtrip |-> is_roundtrip, stops |-> route]
           d == AddBus(c, name, route, is_roundtrip)
           t == Append(c.buses, e)
           m == c.buses_by_stop_name
<1>1. /\ d.buses = t
      /\ d.bus_by_name = Put(c.bus_by_name, name, Len(c.buses) + 1)
      /\ d.stops = c.stops
      /\ d.stop_by_name = c.stop_by_name
  BY AddBusEffect
<1>2. d.buses_by_stop_name =
        [s \in DOMAIN m \cup Range(route) |->
           Find(m, s, {}) \cup IF s \in Range(route) THEN {name} ELSE {}]
  BY Containers DEF AddBus, IsCatalogue
<1>3. e.name = name /\ e.stops = route
  OBVIOUS
<1>4. /\ Len(c.buses) \in Nat
      /\ DOMAIN c.buses = 1 .. Len(c.buses)
      /\ DOMAIN t = (1 .. Len(c.buses)) \cup {Len(c.buses) + 1}
      /\ \A p \in 1 .. Len(c.buses) : t[p] = c.buses[p]
      /\ t[Len(c.buses) + 1] = e
  <2> HIDE DEF e
  <2> QED
    BY AppendToSeq
<1>5. /\ DOMAIN m = StopsOnRoutes(c.buses)
      /\ \A s \in DOMAIN m : m[s] = BusesThrough(c.buses, s)
  BY DEF TablesAgree
<1>6. [n \in NamesOf(t) |-> LastNamed(t, n)]
        = Put([n \in NamesOf(c.buses) |-> LastNamed(c.buses, n)], e.name,
              Len(c.buses) + 1)
  <2> HIDE DEF e
  <2> QED
    BY TableAppend
<1> HIDE DEF e, d, t, m
<1>7. StopsOnRoutes(t) = StopsOnRoutes(c.buses) \cup Range(route)
  BY <1>3, <1>4 DEF StopsOnRoutes
<1>8. ASSUME NEW s
      PROVE  /\ BusesThrough(t, s) = BusesThrough(c.buses, s)
                                     \cup IF s \in Range(route) THEN {name} ELSE {}
             /\ s \notin StopsOnRoutes(c.buses) => BusesThrough(c.buses, s) = {}
  <2>1. BusesThrough(t, s) = BusesThrough(c.buses, s)
                              \cup IF s \in Range(route) THEN {name} ELSE {}
    BY <1>3, <1>4 DEF BusesThrough
  <2>2. s \notin StopsOnRoutes(c.buses) => BusesThrough(c.buses, s) = {}
    BY DEF BusesThrough, StopsOnRoutes
  <2> QED
    BY <2>1, <2>2
<1>9. ASSUME NEW s \in DOMAIN m \cup Range(route)
      PROVE  Find(m, s, {}) \cup (IF s \in Range(route) THEN {name} ELSE {})
               = BusesThrough(t, s)
  BY <1>5, <1>8 DEF Find
<1>10. d.buses_by_stop_name = [s \in StopsOnRoutes(t) |-> BusesThrough(t, s)]
  BY <1>2, <1>5, <1>7, <1>9
<1> QED
  BY <1>1, <1>3, <1>6, <1>10 DEF TablesAgree, d

\* SetDistanceBetweenStops touches none of these tables.
LEMMA TablesAfterDistance ==
  ASSUME NEW c, IsCatalogue(c), TablesAgree(c), NEW f, NEW t, NEW distance
  PROVE  TablesAgree(SetDistanceBetweenStops(c, f, t, distance))
<1> DEFINE d == SetDistanceBetweenStops(c, f, t, distance)
<1>1. /\ d.stops = c.stops
      /\ d.stop_by_name = c.stop_by_name
      /\ d.buses = c.buses
      /\ d.bus_by_name = c.bus_by_name
      /\ d.buses_by_stop_name = c.buses_by_stop_name
  BY Containers DEF SetDistanceBetweenStops, IsCatalogue
<1> HIDE DEF d
<1> QED
  BY <1>1 DEF TablesAgree, d
=============================================================================
