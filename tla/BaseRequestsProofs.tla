------------------------- MODULE BaseRequestsProofs -------------------------
(***************************************************************************)
(* Proofs about BaseRequests, for every set of documents: the catalogue     *)
(* that FillingCatalogue makes says what the document says, its tables      *)
(* agree with each other, and only unknown stops and requests that cannot   *)
(* be read are refused.                                                     *)
(***************************************************************************)
EXTENDS BaseRequests, CatalogueProofs

-----------------------------------------------------------------------------
(* The inductive invariant.                                                 *)

StopPositions == {i \in DOMAIN base_requests : base_requests[i].type = "Stop"}

\* How many requests have been read.
SoFar == IF pc \in {"read", "threw"} THEN at ELSE Len(base_requests)

\* What each request is once it has been read as a Bus.
AsBuses == [i \in DOMAIN base_requests |-> ReadBusFromJson(base_requests[i])]

\* The two local vectors hold the requests of their kind read so far, in the
\* order of the document; only the one that threw cannot be read.
ReadInv ==
  /\ SoFar <= Len(base_requests)
  /\ \A i \in 1 .. SoFar : CanRead(base_requests[i])
  /\ pc = "threw" => at < Len(base_requests) /\ ~CanRead(base_requests[at + 1])
  /\ IsSeq(buses)
  /\ Collects(stops, StopPositions, SoFar, base_requests)
  /\ Collects(buses, BusRequests, SoFar, AsBuses)

\* Where the loops stand.
LoopInv ==
  /\ pc \in {"read", "threw"} => DOMAIN db.stops_to_dist = {}
  /\ pc = "distances" => at <= Len(stops) /\ unset \subseteq Listed(at + 1)
  /\ pc \in {"buses", "crashed"} => at <= Len(buses)
  /\ pc = "filled" => at = Len(buses)

\* The deques of the catalogue: a stop for each Stop request read, a bus for
\* each Bus request that has been added.
BusesAdded == IF pc \in {"read", "threw", "distances"} THEN 0 ELSE at

DequesInv ==
  /\ IsCatalogue(db)
  /\ IsSeq(db.stops) /\ IsSeq(db.buses)
  /\ Len(db.stops) = Len(stops)
  /\ \A k \in 1 .. Len(stops) :
       db.stops[k] = [name |-> stops[k].name, coordinates |-> stops[k].coordinates]
  /\ Len(db.buses) = BusesAdded
  /\ \A k \in 1 .. Len(db.buses) :
       db.buses[k] = [name |-> buses[k].name, is_roundtrip |-> buses[k].is_roundtrip,
                      stops |-> buses[k].stops]

\* The names the k-th stop gives a distance for that have been dealt with.
Done(k) ==
  IF pc \in {"read", "threw"} THEN {}
  ELSE IF pc # "distances" \/ k <= at THEN DOMAIN Roads(stops[k])
  ELSE IF k = at + 1 THEN Listed(k) \ unset
  ELSE {}

DoneListings(a, b) == {k \in DOMAIN stops : stops[k].name = a /\ b \in Done(k)}

\* Between two stops of the catalogue there is the distance last given, and
\* none if none has been given yet.
DistancesInv ==
  \A a, b \in StopName :
    GetStop(db, a) # NullPtr /\ GetStop(db, b) # NullPtr =>
      LET road == <<GetStop(db, a), GetStop(db, b)>> IN
      /\ road \in DOMAIN db.stops_to_dist <=> DoneListings(a, b) # {}
      /\ road \in DOMAIN db.stops_to_dist =>
           db.stops_to_dist[road] = Roads(stops[Max(DoneListings(a, b))])[b]

\* The buses in the catalogue are at stops it has; the one that was refused is
\* not.
KnownStopsInv ==
  /\ \A k \in 1 .. Len(db.buses) : \A s \in Range(db.buses[k].stops) :
       GetStop(db, s) # NullPtr
  /\ pc = "crashed" =>
       /\ at < Len(buses)
       /\ \E s \in Range(buses[at + 1].stops) : GetStop(db, s) = NullPtr

LoadingInv ==
  /\ TypeOK
  /\ ReadInv
  /\ LoopInv
  /\ DequesInv
  /\ IndexInv
  /\ DistancesInv
  /\ KnownStopsInv

-----------------------------------------------------------------------------
(* Requests and routes.                                                     *)

\* A Bus request that can be read.
IsBusRequest(r) ==
  /\ {"name", "stops", "is_roundtrip"} \subseteq DOMAIN r
  /\ r.name \in BusName
  /\ r.stops \in Seq(StopName)
  /\ r.is_roundtrip \in BOOLEAN

\* A document is a list of requests, and `stops' one of those that can be read.
LEMMA RequestType ==
  ASSUME TypeOK
  PROVE  /\ IsSeq(base_requests)
         /\ Len(base_requests) \in Nat
         /\ DOMAIN base_requests = 1 .. Len(base_requests)
         /\ \A i \in DOMAIN base_requests : CanRead(base_requests[i]) =>
              /\ base_requests[i].type = "Stop" =>
                   /\ base_requests[i].name \in StopName
                   /\ DOMAIN Roads(base_requests[i]) \subseteq StopName
              /\ base_requests[i].type # "Stop" => IsBusRequest(base_requests[i])
         /\ IsSeq(stops) /\ Len(stops) \in Nat /\ DOMAIN stops = 1 .. Len(stops)
<1>1. base_requests \in Documents /\ base_requests \in Seq(Range(base_requests))
  BY RequestsAssumption DEF TypeOK
<1>2. /\ IsSeq(base_requests)
      /\ Len(base_requests) \in Nat
      /\ DOMAIN base_requests = 1 .. Len(base_requests)
  BY <1>1, SeqIsSeq
<1>3. ASSUME NEW i \in DOMAIN base_requests, CanRead(base_requests[i])
      PROVE  /\ base_requests[i].type = "Stop" =>
                  /\ base_requests[i].name \in StopName
                  /\ DOMAIN Roads(base_requests[i]) \subseteq StopName
             /\ base_requests[i].type # "Stop" => IsBusRequest(base_requests[i])
  <2> DEFINE request == base_requests[i]
  <2>1. IF request.type = "Stop"
        THEN request.name \in StopName /\ DOMAIN Roads(request) \subseteq StopName
        ELSE /\ request.name \in BusName
             /\ request.stops \in Seq(StopName)
             /\ request.is_roundtrip \in BOOLEAN
    BY <1>1, <1>3, RequestsAssumption
  <2>2. request.type # "Stop" => {"name", "stops", "is_roundtrip"} \subseteq DOMAIN request
    BY <1>3 DEF CanRead, HasMembers
  <2> HIDE DEF request
  <2>3. request.type # "Stop" => IsBusRequest(request)
    BY <2>1, <2>2 DEF IsBusRequest
  <2> QED
    BY <2>1, <2>3 DEF request
<1>4. stops \in Seq(Range(base_requests))
  BY DEF TypeOK
<1>5. IsSeq(stops) /\ Len(stops) \in Nat /\ DOMAIN stops = 1 .. Len(stops)
  BY <1>4, SeqIsSeq
<1> QED
  BY <1>2, <1>3, <1>5

\* What ReadBusFromJson makes of a route: it visits the same stops, begins as
\* requested and, unless it is a round trip, comes back the way it went.
LEMMA BusRoute ==
  ASSUME NEW r, IsBusRequest(r)
  PROVE  LET b == ReadBusFromJson(r) IN
         /\ b.name = r.name
         /\ b.is_roundtrip = r.is_roundtrip
         /\ b.stops \in Seq(StopName)
         /\ Range(b.stops) = Range(r.stops)
         /\ Len(r.stops) <= Len(b.stops)
         /\ \A i \in 1 .. Len(r.stops) : b.stops[i] = r.stops[i]
         /\ IF r.is_roundtrip THEN b.stops = r.stops
            ELSE /\ Len(b.stops) = IF r.stops = <<>> THEN 0 ELSE 2 * Len(r.stops) - 1
                 /\ \A i \in DOMAIN b.stops : b.stops[i] = b.stops[Len(b.stops) + 1 - i]
<1> DEFINE given == r.stops
           b == ReadBusFromJson(r)
<1>1. given \in Seq(StopName) /\ Len(given) \in Nat
  BY DEF IsBusRequest
<1>2. /\ b.name = r.name
      /\ b.is_roundtrip = r.is_roundtrip
      /\ b.stops = IF r.is_roundtrip \/ given = <<>> THEN given
                   ELSE given \o Reverse(Front(given))
  BY DEF IsBusRequest, ReadBusFromJson
<1> HIDE DEF b, given
<1>3. CASE r.is_roundtrip \/ given = <<>>
  <2>1. b.stops = given
    BY <1>2, <1>3
  <2>2. DOMAIN given = 1 .. Len(given) /\ Len(<<>>) = 0
    BY <1>1
  <2>3. ~ r.is_roundtrip => Len(given) = 0 /\ \A i \in DOMAIN given : FALSE
    BY <1>3, <2>2
  <2>4. /\ Range(b.stops) = Range(given)
        /\ Len(given) <= Len(b.stops)
        /\ \A i \in 1 .. Len(given) : b.stops[i] = given[i]
        /\ b.stops \in Seq(StopName)
    BY <1>1, <2>1
  <2>5. ASSUME ~ r.is_roundtrip
        PROVE  /\ Len(b.stops) = IF given = <<>> THEN 0 ELSE 2 * Len(given) - 1
               /\ \A i \in DOMAIN b.stops : b.stops[i] = b.stops[Len(b.stops) + 1 - i]
    BY <1>3, <2>1, <2>2, <2>3, <2>5
  <2> QED
    BY <1>2, <2>1, <2>4, <2>5 DEF given, b
<1>4. CASE ~ (r.is_roundtrip \/ given = <<>>)
  <2> DEFINE t == given \o Reverse(Front(given))
  <2>1. b.stops = t
    BY <1>2, <1>4
  <2>2. /\ t \in Seq(StopName)
        /\ Len(t) = 2 * Len(given) - 1
        /\ \A i \in 1 .. Len(given) : t[i] = given[i]
        /\ \A i \in 1 .. Len(t) : t[i] = t[Len(t) + 1 - i]
        /\ Range(t) = Range(given)
    BY <1>1, <1>4, ThereAndBack
  <2> HIDE DEF t
  <2>3. DOMAIN t = 1 .. Len(t) /\ Len(given) > 0
    BY <1>1, <1>4, <2>2
  <2>4. Len(given) <= Len(t)
    BY <1>1, <2>2, <2>3
  <2> QED
    BY <1>2, <1>4, <2>1, <2>2, <2>3, <2>4 DEF given, b
<1> QED
  BY <1>3, <1>4

-----------------------------------------------------------------------------
(* What the invariant says in every state.                                  *)

\* The pointer a name leads to: null if no stop of the catalogue has the name,
\* otherwise a stop that has it, a different one for each name.
LEMMA KnownStops ==
  ASSUME LoadingInv
  PROVE  /\ DOMAIN db.stops = 1 .. Len(stops)
         /\ \A a : GetStop(db, a) # NullPtr <=> a \in NamesOf(db.stops)
         /\ \A a \in NamesOf(db.stops) :
              /\ GetStop(db, a) = LastNamed(db.stops, a)
              /\ GetStop(db, a) = db.stop_by_name[a]
              /\ GetStop(db, a) \in 1 .. Len(stops)
              /\ db.stops[GetStop(db, a)].name = a
<1>1. IsSeq(db.stops) /\ Len(db.stops) = Len(stops) /\ Len(stops) \in Nat
  BY RequestType DEF LoadingInv, DequesInv
<1>2. DOMAIN db.stops = 1 .. Len(stops)
  BY <1>1 DEF IsSeq
<1>3. \A a \in NamesOf(db.stops) :
        /\ LastNamed(db.stops, a) \in 1 .. Len(stops)
        /\ db.stops[LastNamed(db.stops, a)].name = a
  BY <1>1, LastNamedIs
<1>4. /\ DOMAIN db.stop_by_name = NamesOf(db.stops)
      /\ \A a \in NamesOf(db.stops) : db.stop_by_name[a] = LastNamed(db.stops, a)
  BY DEF LoadingInv, IndexInv, StopIndexInv
<1>5. \A a : GetStop(db, a) = IF a \in NamesOf(db.stops) THEN LastNamed(db.stops, a)
                             ELSE NullPtr
  BY <1>4 DEF GetStop, Find
<1> QED
  BY <1>1, <1>2, <1>3, <1>4, <1>5 DEF NullPtr

\* A stop is a Stop request of the document, a bus what a Bus request is read
\* as, and the deque of stops has the names of the former.
LEMMA ReadElements ==
  ASSUME LoadingInv
  PROVE  /\ \A k \in 1 .. Len(stops) : \E i \in StopPositions :
              /\ i <= SoFar
              /\ k = Rank(StopPositions, i)
              /\ stops[k] = base_requests[i]
              /\ stops[k].name \in StopName
              /\ DOMAIN Roads(stops[k]) \subseteq StopName
              /\ stops[k].name \in NamesOf(db.stops)
         /\ DOMAIN buses = 1 .. Len(buses) /\ Len(buses) \in Nat
         /\ \A k \in 1 .. Len(buses) : \E i \in BusRequests :
              /\ k = Rank(BusRequests, i)
              /\ i \in DOMAIN base_requests
              /\ IsBusRequest(base_requests[i])
              /\ buses[k] = ReadBusFromJson(base_requests[i])
<1>1. /\ Collects(stops, StopPositions, SoFar, base_requests)
      /\ Collects(buses, BusRequests, SoFar, AsBuses)
      /\ IsSeq(buses)
      /\ \A i \in 1 .. SoFar : CanRead(base_requests[i])
  BY DEF LoadingInv, ReadInv
<1>2. TypeOK
  BY DEF LoadingInv
<1>3. SoFar \in Nat
  BY <1>2, RequestType DEF SoFar, TypeOK
<1>4. ASSUME NEW k \in 1 .. Len(stops)
      PROVE  \E i \in StopPositions :
               /\ i <= SoFar
               /\ k = Rank(StopPositions, i)
               /\ stops[k] = base_requests[i]
               /\ stops[k].name \in StopName
               /\ DOMAIN Roads(stops[k]) \subseteq StopName
               /\ stops[k].name \in NamesOf(db.stops)
  <2>1. PICK i \in StopPositions \cap (1 .. SoFar) : Rank(StopPositions, i) = k
    BY <1>1 DEF Collects
  <2>2. stops[k] = base_requests[i] /\ i <= SoFar
    BY <1>1, <1>3, <2>1 DEF Collects
  <2>3. stops[k].name \in StopName /\ DOMAIN Roads(stops[k]) \subseteq StopName
    BY <1>1, <1>2, <2>1, <2>2, RequestType DEF StopPositions
  <2>4. stops[k].name \in NamesOf(db.stops)
    <3>1. db.stops[k] = [name |-> stops[k].name, coordinates |-> stops[k].coordinates]
      BY DEF LoadingInv, DequesInv
    <3>2. k \in DOMAIN db.stops
      BY KnownStops
    <3> QED
      BY <3>1, <3>2 DEF NamesOf
  <2> QED
    BY <2>1, <2>2, <2>3, <2>4
<1>5. ASSUME NEW k \in 1 .. Len(buses)
      PROVE  \E i \in BusRequests :
               /\ k = Rank(BusRequests, i)
               /\ i \in DOMAIN base_requests
               /\ IsBusRequest(base_requests[i])
               /\ buses[k] = ReadBusFromJson(base_requests[i])
  <2>1. PICK i \in BusRequests \cap (1 .. SoFar) : Rank(BusRequests, i) = k
    BY <1>1 DEF Collects
  <2>2. buses[k] = AsBuses[i]
    BY <1>1, <2>1 DEF Collects
  <2>3. i \in DOMAIN base_requests /\ base_requests[i].type # "Stop"
    BY <2>1 DEF BusRequests
  <2>4. IsBusRequest(base_requests[i]) /\ AsBuses[i] = ReadBusFromJson(base_requests[i])
    BY <1>1, <1>2, <2>1, <2>3, RequestType DEF AsBuses
  <2> QED
    BY <2>1, <2>2, <2>3, <2>4
<1> QED
  BY <1>1, <1>4, <1>5 DEF IsSeq

-----------------------------------------------------------------------------
(* The invariant holds initially, and every step keeps it.                  *)

\* It holds before the first request.
LEMMA LoadingInit == Init => LoadingInv
<1> SUFFICES ASSUME Init PROVE LoadingInv
  OBVIOUS
<1> USE DEF Init
<1>1. TypeOK
  BY DEF TypeOK
<1>2. IsSeq(<<>>) /\ Len(<<>>) = 0 /\ DOMAIN <<>> = {}
  BY DEF IsSeq
<1>3. Len(base_requests) \in Nat
  BY <1>1, RequestType
<1>4. ReadInv
  BY <1>2, <1>3, RankType DEF ReadInv, SoFar, Collects
<1>5. LoopInv
  BY <1>2 DEF LoopInv, EmptyCatalogue
<1>6. DequesInv
  BY <1>2 DEF DequesInv, EmptyCatalogue, IsCatalogue, BusesAdded
<1>7. IndexInv
  BY <1>2 DEF IndexInv, StopIndexInv, BusIndexInv, BusesByStopInv, DistanceIndexInv,
              NamesOf, GetBusesThroughStop, Find, EmptyCatalogue
<1>8. DistancesInv
  BY <1>2 DEF DistancesInv, GetStop, Find, EmptyCatalogue, NullPtr
<1>9. KnownStopsInv
  BY <1>2 DEF KnownStopsInv, EmptyCatalogue
<1> QED
  BY <1>1, <1>4, <1>5, <1>6, <1>7, <1>8, <1>9 DEF LoadingInv

\* A stop is read: the vector, the deque and the name index grow together.
LEMMA ReadStopKeeps == LoadingInv /\ ReadStop => LoadingInv'
<1> SUFFICES ASSUME LoadingInv, ReadStop PROVE LoadingInv'
  OBVIOUS
<1> DEFINE request == base_requests[at + 1]
           stop == [name |-> request.name, coordinates |-> request.coordinates]
<1>1. /\ pc = "read" /\ pc' = "read"
      /\ at < Len(base_requests) /\ at' = at + 1
      /\ CanRead(request)
      /\ request.type = "Stop"
      /\ stops' = Append(stops, request)
      /\ db' = AddStop(db, request.name, request.coordinates)
      /\ UNCHANGED <<base_requests, buses, unset>>
  BY DEF ReadStop
<1>2. TypeOK /\ ReadInv /\ LoopInv /\ DequesInv /\ IndexInv /\ KnownStopsInv
  BY DEF LoadingInv
<1>3. /\ at \in Nat /\ at + 1 \in DOMAIN base_requests
      /\ Len(base_requests) \in Nat
      /\ IsSeq(stops)
      /\ SoFar = at /\ SoFar' = at + 1
  BY <1>1, <1>2, RequestType DEF TypeOK, SoFar
<1>4. /\ IsCatalogue(db')
      /\ db'.stops = Append(db.stops, stop)
      /\ db'.stop_by_name = Put(db.stop_by_name, request.name, Len(db.stops) + 1)
      /\ db'.buses = db.buses
      /\ db'.bus_by_name = db.bus_by_name
      /\ db'.buses_by_stop_name = db.buses_by_stop_name
      /\ db'.stops_to_dist = db.stops_to_dist
  <2>1. IsCatalogue(db)
    BY <1>2 DEF DequesInv
  <2> HIDE DEF request
  <2> QED
    BY <1>1, <2>1, AddStopEffect
<1>5. StopPositions' = StopPositions /\ BusRequests' = BusRequests /\ AsBuses' = AsBuses
  BY <1>1 DEF StopPositions, BusRequests, AsBuses
<1>6. at + 1 \in StopPositions /\ at + 1 \notin BusRequests
  BY <1>1, <1>3 DEF StopPositions, BusRequests
<1>7. TypeOK'
  <2>1. request \in Range(base_requests) /\ stops \in Seq(Range(base_requests))
    BY <1>2, <1>3 DEF TypeOK, Range
  <2>2. stops' \in Seq(Range(base_requests))
    BY <1>1, <2>1
  <2> QED
    BY <1>1, <1>2, <1>3, <2>2 DEF TypeOK
<1>8. ReadInv'
  <2>1. Collects(stops, StopPositions, at, base_requests) /\ Collects(buses, BusRequests, at, AsBuses)
    BY <1>2, <1>3 DEF ReadInv
  <2>2. Collects(stops', StopPositions, at + 1, base_requests)
    BY <1>1, <1>3, <1>6, <2>1, CollectNext
  <2>3. Collects(buses, BusRequests, at + 1, AsBuses)
    BY <1>2, <1>3, <1>6, <2>1, CollectNext DEF ReadInv
  <2> QED
    BY <1>1, <1>2, <1>3, <1>5, <2>2, <2>3 DEF ReadInv
<1>9. LoopInv'
  BY <1>1, <1>2, <1>4 DEF LoopInv
<1>10. /\ IsSeq(db.stops) /\ Len(db.stops) = Len(stops)
       /\ Len(db.buses) = 0 /\ Len(stops) \in Nat
  BY <1>1, <1>2, RequestType DEF DequesInv, BusesAdded
<1>11. DequesInv'
  <2>1. /\ Len(stops') = Len(stops) + 1
        /\ \A i \in 1 .. Len(stops) : stops'[i] = stops[i]
        /\ stops'[Len(stops) + 1] = request
    BY <1>1, <1>3, AppendToSeq
  <2>2. /\ IsSeq(db'.stops)
        /\ Len(db'.stops) = Len(stops) + 1
        /\ \A i \in 1 .. Len(stops) : db'.stops[i] = db.stops[i]
        /\ db'.stops[Len(stops) + 1] = stop
    BY <1>4, <1>10, AppendToSeq
  <2>3. ASSUME NEW k \in 1 .. Len(stops')
        PROVE  db'.stops[k] = [name |-> stops'[k].name, coordinates |-> stops'[k].coordinates]
    <3>1. CASE k = Len(stops) + 1
      BY <2>1, <2>2, <3>1
    <3>2. CASE k \in 1 .. Len(stops)
      BY <1>2, <2>1, <2>2, <3>2 DEF DequesInv
    <3> QED
      BY <1>10, <2>1, <3>1, <3>2
  <2>4. /\ IsSeq(db'.buses) /\ Len(db'.buses) = 0 /\ BusesAdded' = 0
    <3>1. BusesAdded' = 0
      BY <1>1 DEF BusesAdded
    <3>2. db'.buses = db.buses
      BY <1>4
    <3> QED
      BY <1>2, <1>10, <3>1, <3>2 DEF DequesInv
  <2>5. \A k \in 1 .. Len(db'.buses) :
          db'.buses[k] = [name |-> buses'[k].name, is_roundtrip |-> buses'[k].is_roundtrip,
                          stops |-> buses'[k].stops]
    BY <2>4
  <2>6. Len(db'.stops) = Len(stops')
    BY <2>1, <2>2
  <2> HIDE DEF stop, request
  <2> QED
    BY <1>4, <2>2, <2>3, <2>4, <2>5, <2>6 DEF DequesInv
<1>12. IndexInv'
  <2>1. StopIndexInv'
    <3>1. stop.name = request.name
      OBVIOUS
    <3> HIDE DEF stop, request
    <3>2. /\ NamesOf(db'.stops) = NamesOf(db.stops) \cup {request.name}
          /\ LastNamed(db'.stops, request.name) = Len(db.stops) + 1
          /\ \A name \in NamesOf(db.stops) : name # request.name =>
               LastNamed(db'.stops, name) = LastNamed(db.stops, name)
      BY <1>4, <1>10, <3>1, LastNamedAppend
    <3>3. /\ DOMAIN db'.stop_by_name = DOMAIN db.stop_by_name \cup {request.name}
          /\ db'.stop_by_name[request.name] = Len(db.stops) + 1
          /\ \A name \in DOMAIN db.stop_by_name : name # request.name =>
               db'.stop_by_name[name] = db.stop_by_name[name]
      BY <1>4 DEF Put
    <3>4. StopIndexInv
      BY <1>2 DEF IndexInv
    <3> QED
      BY <3>2, <3>3, <3>4 DEF StopIndexInv
  <2>2. BusIndexInv'
    BY <1>2, <1>4 DEF IndexInv, BusIndexInv
  <2>3. BusesByStopInv'
    BY <1>2, <1>4 DEF IndexInv, BusesByStopInv, GetBusesThroughStop
  <2>4. DistanceIndexInv'
    BY <1>1, <1>2, <1>4 DEF LoopInv, DistanceIndexInv
  <2> QED
    BY <2>1, <2>2, <2>3, <2>4 DEF IndexInv
<1>13. DistancesInv'
  BY <1>1, <1>9 DEF LoopInv, DistancesInv, DoneListings, Done
<1>14. KnownStopsInv'
  BY <1>1, <1>4, <1>10 DEF KnownStopsInv
<1> QED
  BY <1>7, <1>8, <1>9, <1>11, <1>12, <1>13, <1>14 DEF LoadingInv

\* Steps that leave the catalogue alone leave its tables in agreement.
LEMMA TablesKept ==
  ASSUME LoadingInv, UNCHANGED <<base_requests, db, stops>>
  PROVE  /\ IndexInv'
         /\ IsCatalogue(db') /\ IsSeq(db'.stops) /\ IsSeq(db'.buses)
         /\ Len(db'.stops) = Len(stops')
         /\ \A k \in 1 .. Len(stops') :
              db'.stops[k] = [name |-> stops'[k].name, coordinates |-> stops'[k].coordinates]
         /\ (\A k \in DOMAIN stops : Done(k)' = Done(k)) => DistancesInv'
         /\ StopPositions' = StopPositions /\ BusRequests' = BusRequests
         /\ AsBuses' = AsBuses
<1>1. IndexInv'
  BY DEF LoadingInv, IndexInv, StopIndexInv, BusIndexInv, BusesByStopInv, DistanceIndexInv,
         GetBusesThroughStop
<1>2. ASSUME \A k \in DOMAIN stops : Done(k)' = Done(k)
      PROVE  DistancesInv'
  <2>1. ASSUME NEW a, NEW b
        PROVE  DoneListings(a, b)' = DoneListings(a, b)
    BY <1>2 DEF DoneListings
  <2> QED
    BY <2>1 DEF LoadingInv, DistancesInv, GetStop
<1> QED
  BY <1>1, <1>2 DEF LoadingInv, DequesInv, StopPositions, BusRequests, AsBuses

\* A bus is read: only its vector grows.
LEMMA ReadBusKeeps == LoadingInv /\ ReadBus => LoadingInv'
<1> SUFFICES ASSUME LoadingInv, ReadBus PROVE LoadingInv'
  OBVIOUS
<1> DEFINE request == base_requests[at + 1]
           bus == ReadBusFromJson(request)
<1>1. /\ pc = "read" /\ pc' = "read"
      /\ at < Len(base_requests) /\ at' = at + 1
      /\ CanRead(request)
      /\ request.type # "Stop"
      /\ buses' = Append(buses, bus)
      /\ UNCHANGED <<base_requests, db, stops, unset>>
  BY DEF ReadBus
<1>2. TypeOK /\ ReadInv /\ LoopInv /\ DequesInv /\ IndexInv /\ KnownStopsInv
  BY DEF LoadingInv
<1>3. /\ at \in Nat /\ at + 1 \in DOMAIN base_requests
      /\ Len(base_requests) \in Nat
      /\ IsSeq(stops) /\ IsSeq(buses)
      /\ SoFar = at /\ SoFar' = at + 1
  BY <1>1, <1>2, RequestType DEF TypeOK, SoFar, ReadInv
<1>4. request.type # "Stop" /\ IsBusRequest(request)
  BY <1>1, <1>2, <1>3, RequestType
<1>5. at + 1 \notin StopPositions /\ at + 1 \in BusRequests /\ bus = AsBuses[at + 1]
  BY <1>3, <1>4 DEF StopPositions, BusRequests, AsBuses
<1>6. bus.stops \in Seq(StopName)
  BY <1>4, BusRoute
<1> HIDE DEF bus
<1>7. /\ IsSeq(buses')
      /\ DOMAIN buses = 1 .. Len(buses) /\ DOMAIN buses' = 1 .. Len(buses) + 1
      /\ Len(buses) \in Nat
      /\ \A i \in 1 .. Len(buses) : buses'[i] = buses[i]
      /\ buses'[Len(buses) + 1] = bus
  BY <1>1, <1>3, AppendToSeq
<1>8. TypeOK'
  <2>1. \A k \in DOMAIN buses' : buses'[k].stops \in Seq(StopName)
    BY <1>2, <1>6, <1>7 DEF TypeOK
  <2> QED
    BY <1>1, <1>2, <1>3, <2>1 DEF TypeOK
<1>9. ReadInv'
  <2>1. Collects(stops, StopPositions, at, base_requests) /\ Collects(buses, BusRequests, at, AsBuses)
    BY <1>2, <1>3 DEF ReadInv
  <2>2. Collects(stops, StopPositions, at + 1, base_requests)
    BY <1>3, <1>5, <2>1, CollectNext
  <2>3. Collects(buses', BusRequests, at + 1, AsBuses)
    BY <1>1, <1>3, <1>5, <2>1, CollectNext
  <2>4. StopPositions' = StopPositions /\ BusRequests' = BusRequests /\ AsBuses' = AsBuses
    BY <1>1, TablesKept
  <2> QED
    BY <1>1, <1>2, <1>3, <1>7, <2>2, <2>3, <2>4 DEF ReadInv
<1>10. LoopInv'
  BY <1>1, <1>2 DEF LoopInv
<1>11. Len(db.buses) = 0
  BY <1>1, <1>2 DEF DequesInv, BusesAdded
<1>12. DequesInv'
  BY <1>1, <1>11, TablesKept DEF DequesInv, BusesAdded
<1>13. IndexInv' /\ DistancesInv'
  <2>1. \A k \in DOMAIN stops : Done(k)' = Done(k)
    BY <1>1 DEF Done
  <2> QED
    BY <1>1, <2>1, TablesKept
<1>14. KnownStopsInv'
  BY <1>1, <1>11 DEF KnownStopsInv
<1> QED
  BY <1>8, <1>9, <1>10, <1>12, <1>13, <1>14 DEF LoadingInv

\* Steps between the loops, and from one stop to the next, change no more than
\* where the loops stand.
LEMMA ControlKeeps ==
  LoadingInv /\ (ReadThrows \/ EndReading \/ NextStop \/ EndDistances \/ EndBuses \/ UNCHANGED vars)
    => LoadingInv'
<1> SUFFICES ASSUME LoadingInv,
                    ReadThrows \/ EndReading \/ NextStop \/ EndDistances \/ EndBuses \/ UNCHANGED vars
             PROVE  LoadingInv'
  OBVIOUS
<1>1. UNCHANGED <<base_requests, db, stops, buses>>
  BY DEF ReadThrows, EndReading, NextStop, EndDistances, EndBuses, vars
<1>2. TypeOK /\ ReadInv /\ LoopInv /\ DequesInv /\ IndexInv /\ KnownStopsInv
  BY DEF LoadingInv
<1>3. /\ at \in Nat
      /\ Len(base_requests) \in Nat
      /\ Len(stops) \in Nat /\ DOMAIN stops = 1 .. Len(stops)
  BY <1>2, RequestType DEF TypeOK
<1>4. /\ Len(buses) \in Nat
      /\ \A k \in 1 .. Len(stops) : DOMAIN Roads(stops[k]) \subseteq StopName
  BY ReadElements
<1>5. \A k \in Nat : Listed(k) = IF k <= Len(stops) THEN DOMAIN Roads(stops[k]) ELSE {}
  BY DEF Listed
<1>6. \A k \in Nat \ {0} : Listed(k) \subseteq StopName
  BY <1>3, <1>4, <1>5
<1>7. \A k : Listed(k)' = Listed(k)
  BY <1>1 DEF Listed
<1>8. ASSUME EndReading PROVE LoadingInv'
  <2>1. /\ pc = "read" /\ pc' = "distances"
        /\ at = Len(base_requests) /\ at' = 0 /\ unset' = Listed(1)
    BY <1>8 DEF EndReading
  <2>2. TypeOK'
    BY <1>1, <1>2, <1>6, <2>1 DEF TypeOK
  <2>3. ReadInv'
    BY <1>1, <1>2, <1>3, <2>1, TablesKept DEF ReadInv, SoFar
  <2>4. LoopInv'
    BY <1>1, <1>3, <1>7, <2>1 DEF LoopInv
  <2>5. DequesInv'
    BY <1>1, <1>2, <2>1, TablesKept DEF DequesInv, BusesAdded
  <2>6. \A k \in DOMAIN stops : Done(k)' = Done(k)
    BY <1>1, <1>3, <1>7, <2>1 DEF Done
  <2>7. KnownStopsInv'
    BY <1>1, <1>2, <2>1 DEF KnownStopsInv
  <2> QED
    BY <1>1, <2>2, <2>3, <2>4, <2>5, <2>6, <2>7, TablesKept DEF LoadingInv
<1>9. ASSUME NextStop PROVE LoadingInv'
  <2>1. /\ pc = "distances" /\ pc' = "distances"
        /\ at < Len(stops) /\ at' = at + 1 /\ unset = {} /\ unset' = Listed(at + 2)
    BY <1>9 DEF NextStop
  <2>2. TypeOK'
    BY <1>1, <1>2, <1>3, <1>6, <2>1 DEF TypeOK
  <2>3. ReadInv'
    BY <1>1, <1>2, <1>3, <2>1, TablesKept DEF ReadInv, SoFar
  <2>4. LoopInv'
    <3>1. Listed(at + 1)' = Listed(at + 2)
      <4>1. at' + 1 = at + 2
        BY <1>3, <2>1
      <4> QED
        BY <1>1, <4>1 DEF Listed
    <3> QED
      BY <1>1, <1>3, <2>1, <3>1 DEF LoopInv
  <2>5. DequesInv'
    BY <1>1, <1>2, <2>1, TablesKept DEF DequesInv, BusesAdded
  <2>6. ASSUME NEW k \in DOMAIN stops
        PROVE  Done(k)' = Done(k)
    <3>1. k \in 1 .. Len(stops) /\ Listed(k) = DOMAIN Roads(stops[k])
          /\ Listed(k)' = Listed(k)
      BY <1>1, <1>3, <1>5 DEF Listed
    <3>2. CASE k <= at
      BY <1>1, <1>3, <2>1, <3>1, <3>2 DEF Done
    <3>3. CASE k = at + 1
      BY <1>1, <1>3, <2>1, <3>1, <3>3 DEF Done
    <3>4. CASE k = at + 2
      BY <1>1, <1>3, <1>7, <2>1, <3>1, <3>4 DEF Done
    <3>5. CASE k > at + 2
      BY <1>1, <1>3, <2>1, <3>1, <3>5 DEF Done
    <3> QED
      BY <1>3, <3>1, <3>2, <3>3, <3>4, <3>5
  <2>7. KnownStopsInv'
    BY <1>1, <1>2, <2>1 DEF KnownStopsInv
  <2> QED
    BY <1>1, <2>2, <2>3, <2>4, <2>5, <2>6, <2>7, TablesKept DEF LoadingInv
<1>10. ASSUME EndDistances PROVE LoadingInv'
  <2>1. /\ pc = "distances" /\ pc' = "buses"
        /\ at = Len(stops) /\ at' = 0 /\ unset' = unset
    BY <1>10 DEF EndDistances
  <2>2. TypeOK'
    BY <1>1, <1>2, <2>1 DEF TypeOK
  <2>3. ReadInv'
    BY <1>1, <1>2, <1>3, <2>1, TablesKept DEF ReadInv, SoFar
  <2>4. LoopInv'
    BY <1>1, <1>4, <2>1 DEF LoopInv
  <2>5. DequesInv'
    BY <1>1, <1>2, <2>1, TablesKept DEF DequesInv, BusesAdded
  <2>6. \A k \in DOMAIN stops : Done(k)' = Done(k)
    BY <1>1, <1>3, <2>1 DEF Done
  <2>7. KnownStopsInv'
    BY <1>1, <1>2, <2>1 DEF KnownStopsInv
  <2> QED
    BY <1>1, <2>2, <2>3, <2>4, <2>5, <2>6, <2>7, TablesKept DEF LoadingInv
<1>11. ASSUME EndBuses PROVE LoadingInv'
  <2>1. /\ pc = "buses" /\ pc' = "filled"
        /\ at = Len(buses) /\ at' = at /\ unset' = unset
    BY <1>11 DEF EndBuses
  <2>2. TypeOK'
    BY <1>1, <1>2, <2>1 DEF TypeOK
  <2>3. ReadInv'
    BY <1>1, <1>2, <1>3, <2>1, TablesKept DEF ReadInv, SoFar
  <2>4. LoopInv'
    BY <1>1, <1>4, <2>1 DEF LoopInv
  <2>5. DequesInv'
    BY <1>1, <1>2, <2>1, TablesKept DEF DequesInv, BusesAdded
  <2>6. \A k \in DOMAIN stops : Done(k)' = Done(k)
    BY <1>1, <1>3, <2>1 DEF Done
  <2>7. KnownStopsInv'
    BY <1>1, <1>2, <2>1 DEF KnownStopsInv
  <2> QED
    BY <1>1, <2>2, <2>3, <2>4, <2>5, <2>6, <2>7, TablesKept DEF LoadingInv
<1>12. ASSUME UNCHANGED vars PROVE LoadingInv'
  <2>1. UNCHANGED <<pc, at, unset>>
    BY <1>12 DEF vars
  <2>2. TypeOK'
    BY <1>1, <1>2, <2>1 DEF TypeOK
  <2>3. ReadInv'
    BY <1>1, <1>2, <2>1, TablesKept DEF ReadInv, SoFar
  <2>4. LoopInv'
    BY <1>1, <1>2, <2>1 DEF LoopInv, Listed
  <2>5. DequesInv'
    BY <1>1, <1>2, <2>1, TablesKept DEF DequesInv, BusesAdded
  <2>6. \A k \in DOMAIN stops : Done(k)' = Done(k)
    BY <1>1, <2>1 DEF Done, Listed
  <2>7. KnownStopsInv'
    BY <1>1, <1>2, <2>1 DEF KnownStopsInv, GetStop
  <2> QED
    BY <1>1, <2>2, <2>3, <2>4, <2>5, <2>6, <2>7, TablesKept DEF LoadingInv
<1>13. ASSUME ReadThrows PROVE LoadingInv'
  <2>1. /\ pc = "read" /\ pc' = "threw" /\ UNCHANGED <<at, unset>>
        /\ at < Len(base_requests) /\ ~CanRead(base_requests[at + 1])
    BY <1>13 DEF ReadThrows
  <2>2. TypeOK'
    BY <1>1, <1>2, <2>1 DEF TypeOK
  <2>3. ReadInv'
    <3>1. SoFar = at /\ SoFar' = at
      BY <2>1 DEF SoFar
    <3> QED
      BY <1>1, <1>2, <2>1, <3>1, TablesKept DEF ReadInv
  <2>4. LoopInv'
    BY <1>1, <1>2, <2>1 DEF LoopInv
  <2>5. DequesInv'
    BY <1>1, <1>2, <2>1, TablesKept DEF DequesInv, BusesAdded
  <2>6. \A k \in DOMAIN stops : Done(k)' = Done(k)
    BY <2>1 DEF Done
  <2>7. KnownStopsInv'
    BY <1>1, <1>2, <2>1 DEF KnownStopsInv
  <2> QED
    BY <1>1, <2>2, <2>3, <2>4, <2>5, <2>6, <2>7, TablesKept DEF LoadingInv
<1> QED
  BY <1>8, <1>9, <1>10, <1>11, <1>12, <1>13

\* A distance is set: it is the last one given so far for its road, and the
\* stops it hangs on are those their names lead to.
LEMMA SetDistanceKeeps ==
  ASSUME LoadingInv, NEW b, SetDistance(b)
  PROVE  LoadingInv'
<1> DEFINE k0 == at + 1
           a == stops[k0].name
           v == Roads(stops[k0])[b]
           road == <<GetStop(db, a), GetStop(db, b)>>
           known == GetStop(db, a) # NullPtr /\ GetStop(db, b) # NullPtr
<1>1. /\ pc = "distances" /\ b \in unset
      /\ db' = SetDistanceBetweenStops(db, a, b, v)
      /\ unset' = unset \ {b}
      /\ UNCHANGED <<base_requests, pc, at, stops, buses>>
  BY DEF SetDistance
<1>2. TypeOK /\ ReadInv /\ LoopInv /\ DequesInv /\ IndexInv /\ DistancesInv /\ KnownStopsInv
  BY DEF LoadingInv
<1>3. /\ at \in Nat /\ k0 \in Nat
      /\ Len(stops) \in Nat /\ DOMAIN stops = 1 .. Len(stops)
      /\ unset \subseteq Listed(k0) /\ unset \subseteq StopName
  BY <1>1, <1>2, RequestType DEF TypeOK, LoopInv
<1>4. /\ k0 \in 1 .. Len(stops)
      /\ Listed(k0) = DOMAIN Roads(stops[k0])
  BY <1>1, <1>3 DEF Listed
<1>5. a \in StopName /\ b \in StopName /\ a \in NamesOf(db.stops)
  BY <1>1, <1>3, <1>4, ReadElements
<1>6. /\ IsCatalogue(db')
      /\ db'.stops = db.stops
      /\ db'.stop_by_name = db.stop_by_name
      /\ db'.buses = db.buses
      /\ db'.bus_by_name = db.bus_by_name
      /\ db'.buses_by_stop_name = db.buses_by_stop_name
      /\ db'.stops_to_dist = IF known THEN Put(db.stops_to_dist, road, v) ELSE db.stops_to_dist
  <2>1. IsCatalogue(db)
    BY <1>2 DEF DequesInv
  <2> HIDE DEF a, v
  <2> QED
    BY <1>1, <2>1, SetDistanceEffect
<1>7. \A x : GetStop(db, x)' = GetStop(db, x)
  BY <1>6 DEF GetStop
<1>8. UNCHANGED <<StopPositions, BusRequests, AsBuses, SoFar, BusesAdded>>
  BY <1>1 DEF StopPositions, BusRequests, AsBuses, SoFar, BusesAdded
<1>9. TypeOK'
  BY <1>1, <1>2 DEF TypeOK
<1>10. ReadInv'
  BY <1>1, <1>2, <1>8 DEF ReadInv
<1>11. LoopInv'
  BY <1>1, <1>2 DEF LoopInv, Listed
<1>12. DequesInv'
  BY <1>1, <1>2, <1>6, <1>8 DEF DequesInv
<1>13. KnownStopsInv'
  BY <1>1, <1>2, <1>6, <1>7 DEF KnownStopsInv
<1>14. IndexInv'
  <2>1. StopIndexInv' /\ BusIndexInv' /\ BusesByStopInv'
    BY <1>2, <1>6 DEF IndexInv, StopIndexInv, BusIndexInv, BusesByStopInv, GetBusesThroughStop
  <2>2. ASSUME NEW r \in DOMAIN db'.stops_to_dist, NEW i \in {1, 2}
        PROVE  r[i] \in DOMAIN db.stops /\ db.stop_by_name[db.stops[r[i]].name] = r[i]
    <3>1. CASE r \in DOMAIN db.stops_to_dist
      BY <1>2, <3>1 DEF IndexInv, DistanceIndexInv
    <3>2. CASE known /\ r = road
      <4>1. r[i] = GetStop(db, a) \/ r[i] = GetStop(db, b)
        BY <3>2
      <4>2. PICK x : x \in NamesOf(db.stops) /\ r[i] = GetStop(db, x)
        BY <3>2, <4>1, KnownStops
      <4> QED
        BY <4>2, KnownStops
    <3> QED
      BY <1>6, <3>1, <3>2 DEF Put
  <2> QED
    BY <1>6, <2>1, <2>2 DEF IndexInv, DistanceIndexInv
<1>15. DistancesInv'
  <2>1. /\ \A k \in DOMAIN stops : k # k0 => Done(k)' = Done(k)
        /\ Done(k0)' = Done(k0) \cup {b}
        /\ \A k \in DOMAIN stops : k > k0 => Done(k) = {}
    <3>1. ASSUME NEW k \in DOMAIN stops
          PROVE  Listed(k)' = Listed(k)
      BY <1>1 DEF Listed
    <3>2. Done(k0) = Listed(k0) \ unset /\ Done(k0)' = Listed(k0) \ unset'
      BY <1>1, <1>3, <1>4, <3>1 DEF Done
    <3>3. ASSUME NEW k \in DOMAIN stops, k # k0
          PROVE  Done(k)' = Done(k)
      BY <1>1, <1>3, <3>3 DEF Done
    <3>4. ASSUME NEW k \in DOMAIN stops, k > k0
          PROVE  Done(k) = {}
      BY <1>1, <1>3, <3>4 DEF Done
    <3> QED
      BY <1>1, <1>3, <3>2, <3>3, <3>4
  <2>2. ASSUME NEW x \in StopName, NEW y \in StopName,
               GetStop(db, x) # NullPtr, GetStop(db, y) # NullPtr
        PROVE  LET r == <<GetStop(db, x), GetStop(db, y)>> IN
               /\ r \in DOMAIN db'.stops_to_dist <=> DoneListings(x, y)' # {}
               /\ r \in DOMAIN db'.stops_to_dist =>
                    db'.stops_to_dist[r] = Roads(stops[Max(DoneListings(x, y)')])[y]
    <3> DEFINE r == <<GetStop(db, x), GetStop(db, y)>>
    <3>1. /\ r \in DOMAIN db.stops_to_dist <=> DoneListings(x, y) # {}
          /\ r \in DOMAIN db.stops_to_dist =>
               db.stops_to_dist[r] = Roads(stops[Max(DoneListings(x, y))])[y]
      BY <1>2, <2>2 DEF DistancesInv
    <3>2. DoneListings(x, y)' =
            {k \in DOMAIN stops : stops[k].name = x /\ y \in Done(k)'}
      BY <1>1 DEF DoneListings
    <3>3. CASE x = a /\ y = b
      <4>1. known /\ r = road
        BY <2>2, <3>3
      <4>2. db'.stops_to_dist = Put(db.stops_to_dist, r, v)
        BY <1>6, <4>1
      <4>3. k0 \in DoneListings(x, y)'
        BY <1>1, <1>3, <1>4, <2>1, <3>2, <3>3
      <4>4. \A k \in DoneListings(x, y)' : k <= k0
        BY <1>3, <2>1, <3>2
      <4>5. DoneListings(x, y)' \in SUBSET (1 .. Len(stops))
        BY <1>3, <3>2
      <4>6. Max(DoneListings(x, y)') = k0
        BY <1>3, <4>3, <4>4, <4>5, MaxUnique
      <4> QED
        BY <3>3, <4>2, <4>3, <4>6 DEF Put
    <3>4. CASE ~ (x = a /\ y = b)
      <4>1. DoneListings(x, y)' = DoneListings(x, y)
        <5>1. \A k \in DOMAIN stops : stops[k].name = x => (y \in Done(k)' <=> y \in Done(k))
          BY <1>1, <2>1, <3>4
        <5> QED
          BY <3>2, <5>1 DEF DoneListings
      <4>2. known => r # road
        BY <2>2, <3>4, KnownStops
      <4>3. /\ r \in DOMAIN db'.stops_to_dist <=> r \in DOMAIN db.stops_to_dist
            /\ r \in DOMAIN db.stops_to_dist => db'.stops_to_dist[r] = db.stops_to_dist[r]
        BY <1>6, <4>2 DEF Put
      <4> QED
        BY <3>1, <4>1, <4>3
    <3> QED
      BY <3>3, <3>4
  <2> QED
    BY <1>1, <1>7, <2>2 DEF DistancesInv
<1> QED
  BY <1>9, <1>10, <1>11, <1>12, <1>13, <1>14, <1>15 DEF LoadingInv

\* A bus is added with its name and at its stops, or refused because one of
\* them does not exist.
LEMMA AddBusKeeps == LoadingInv /\ AddBusOfRequest => LoadingInv'
<1> SUFFICES ASSUME LoadingInv, AddBusOfRequest PROVE LoadingInv'
  OBVIOUS
<1> DEFINE bus == buses[at + 1]
           unknown == \E s \in Range(bus.stops) : GetStop(db, s) = NullPtr
           added == [name |-> bus.name, is_roundtrip |-> bus.is_roundtrip,
                     stops |-> bus.stops]
<1>1. /\ pc = "buses" /\ at < Len(buses)
      /\ UNCHANGED <<base_requests, stops, buses, unset>>
      /\ IF unknown THEN pc' = "crashed" /\ UNCHANGED <<db, at>>
         ELSE /\ db' = AddBus(db, bus.name, bus.stops, bus.is_roundtrip)
              /\ at' = at + 1
              /\ pc' = pc
  BY DEF AddBusOfRequest
<1>2. TypeOK /\ ReadInv /\ LoopInv /\ DequesInv /\ IndexInv /\ DistancesInv /\ KnownStopsInv
  BY DEF LoadingInv
<1>3. /\ at \in Nat
      /\ Len(buses) \in Nat /\ DOMAIN buses = 1 .. Len(buses)
      /\ at + 1 \in DOMAIN buses
  BY <1>1, <1>2, ReadElements DEF TypeOK
<1>4. UNCHANGED <<StopPositions, BusRequests, AsBuses, SoFar>>
  BY <1>1 DEF StopPositions, BusRequests, AsBuses, SoFar
<1>5. pc' \in {"buses", "crashed"}
  BY <1>1
<1>6. ReadInv'
  BY <1>1, <1>2, <1>4 DEF ReadInv
<1>7. \A k \in DOMAIN stops : Done(k)' = Done(k)
  BY <1>1, <1>5 DEF Done
<1>8. CASE unknown
  <2>1. pc' = "crashed" /\ UNCHANGED <<db, at>>
    BY <1>1, <1>8
  <2>2. TypeOK'
    BY <1>1, <1>2, <2>1 DEF TypeOK
  <2>3. LoopInv'
    BY <1>1, <1>3, <2>1 DEF LoopInv
  <2>4. DequesInv'
    BY <1>1, <1>2, <2>1 DEF DequesInv, BusesAdded
  <2>5. IndexInv' /\ DistancesInv'
    BY <1>1, <1>7, <2>1, TablesKept
  <2>6. KnownStopsInv'
    BY <1>1, <1>2, <1>8, <2>1 DEF KnownStopsInv, GetStop
  <2> QED
    BY <1>6, <2>2, <2>3, <2>4, <2>5, <2>6 DEF LoadingInv
<1>9. CASE ~ unknown
  <2>1. /\ db' = AddBus(db, bus.name, bus.stops, bus.is_roundtrip)
        /\ at' = at + 1 /\ pc' = "buses"
    BY <1>1, <1>9
  <2>2. /\ IsSeq(db.buses) /\ Len(db.buses) = at
        /\ \A k \in 1 .. at : db.buses[k] = [name |-> buses[k].name,
             is_roundtrip |-> buses[k].is_roundtrip, stops |-> buses[k].stops]
        /\ IsCatalogue(db)
    BY <1>1, <1>2 DEF DequesInv, BusesAdded
  <2>3. /\ IsCatalogue(db')
        /\ db'.buses = Append(db.buses, added)
        /\ db'.bus_by_name = Put(db.bus_by_name, bus.name, Len(db.buses) + 1)
        /\ \A s : GetBusesThroughStop(db', s) =
                    GetBusesThroughStop(db, s) \cup
                      IF s \in Range(bus.stops) THEN {bus.name} ELSE {}
        /\ db'.stops = db.stops
        /\ db'.stop_by_name = db.stop_by_name
        /\ db'.stops_to_dist = db.stops_to_dist
    <3> HIDE DEF bus
    <3> QED
      BY <2>1, <2>2, AddBusEffect, SMTT(30)
  <2>4. /\ IsSeq(db'.buses)
        /\ Len(db'.buses) = at + 1
        /\ DOMAIN db'.buses = 1 .. at + 1 /\ DOMAIN db.buses = 1 .. at
        /\ \A k \in 1 .. at : db'.buses[k] = db.buses[k]
        /\ db'.buses[at + 1] = added
    <3> HIDE DEF added
    <3> QED
      BY <2>2, <2>3, AppendToSeq
  <2>5. 1 .. at + 1 = (1 .. at) \cup {at + 1} /\ at + 1 \notin 1 .. at
    BY <1>3
  <2>6. added.name = bus.name /\ added.stops = bus.stops
    OBVIOUS
  <2>7. \A x : GetStop(db, x)' = GetStop(db, x)
    BY <2>3 DEF GetStop
  <2>8. TypeOK'
    BY <1>1, <1>2, <1>3, <2>1 DEF TypeOK
  <2>9. LoopInv'
    BY <1>1, <1>3, <2>1 DEF LoopInv
  <2>10. DequesInv'
    <3>1. \A k \in 1 .. at + 1 : db'.buses[k] = [name |-> buses[k].name,
             is_roundtrip |-> buses[k].is_roundtrip, stops |-> buses[k].stops]
      BY <2>2, <2>4, <2>5
    <3> QED
      BY <1>1, <1>2, <2>1, <2>3, <2>4, <3>1 DEF DequesInv, BusesAdded
  <2> HIDE DEF bus, added
  <2>11. BusIndexInv'
    <3>1. BusIndexInv
      BY <1>2 DEF IndexInv
    <3>2. /\ NamesOf(db'.buses) = NamesOf(db.buses) \cup {bus.name}
          /\ LastNamed(db'.buses, bus.name) = Len(db.buses) + 1
          /\ \A name \in NamesOf(db.buses) : name # bus.name =>
               LastNamed(db'.buses, name) = LastNamed(db.buses, name)
      BY <2>2, <2>3, <2>6, LastNamedAppend
    <3>3. /\ DOMAIN db'.bus_by_name = DOMAIN db.bus_by_name \cup {bus.name}
          /\ db'.bus_by_name[bus.name] = Len(db.buses) + 1
          /\ \A name \in DOMAIN db.bus_by_name : name # bus.name =>
               db'.bus_by_name[name] = db.bus_by_name[name]
      BY <2>3 DEF Put
    <3> QED
      BY <3>1, <3>2, <3>3 DEF BusIndexInv
  <2>12. BusesByStopInv'
    <3> SUFFICES ASSUME NEW s \in StopName
                 PROVE  GetBusesThroughStop(db', s) =
                          {db'.buses[p].name :
                             p \in {q \in DOMAIN db'.buses : s \in Range(db'.buses[q].stops)}}
      BY DEF BusesByStopInv
    <3> DEFINE Old == {q \in DOMAIN db.buses : s \in Range(db.buses[q].stops)}
               New == {q \in DOMAIN db'.buses : s \in Range(db'.buses[q].stops)}
    <3>1. New = Old \cup IF s \in Range(bus.stops) THEN {at + 1} ELSE {}
      BY <2>4, <2>5, <2>6
    <3>2. \A p \in Old : db'.buses[p].name = db.buses[p].name
      BY <2>4
    <3>3. GetBusesThroughStop(db, s) = {db.buses[p].name : p \in Old}
      BY <1>2 DEF IndexInv, BusesByStopInv
    <3> HIDE DEF Old, New
    <3>4. GetBusesThroughStop(db', s) = {db'.buses[p].name : p \in New}
      <4>1. {db'.buses[p].name : p \in Old} = {db.buses[p].name : p \in Old}
        BY <3>2
      <4>2. db'.buses[at + 1].name = bus.name
        BY <2>4, <2>6
      <4>3. CASE s \in Range(bus.stops)
        <5>1. New = Old \cup {at + 1}
          BY <3>1, <4>3
        <5>2. {db'.buses[p].name : p \in New} =
                {db'.buses[p].name : p \in Old} \cup {db'.buses[at + 1].name}
          BY <5>1
        <5>3. GetBusesThroughStop(db', s) = GetBusesThroughStop(db, s) \cup {bus.name}
          BY <2>3, <4>3
        <5> QED
          BY <3>3, <4>1, <4>2, <5>2, <5>3
      <4>4. CASE s \notin Range(bus.stops)
        <5>1. New = Old
          BY <3>1, <4>4
        <5>2. GetBusesThroughStop(db', s) = GetBusesThroughStop(db, s)
          BY <2>3, <4>4
        <5> QED
          BY <3>3, <4>1, <5>1, <5>2
      <4> QED
        BY <4>3, <4>4
    <3> QED
      BY <3>4 DEF New
  <2>13. IndexInv'
    <3>1. StopIndexInv' /\ DistanceIndexInv'
      BY <1>2, <2>3 DEF IndexInv, StopIndexInv, DistanceIndexInv
    <3> QED
      BY <2>11, <2>12, <3>1 DEF IndexInv
  <2>14. DistancesInv'
    <3>1. ASSUME NEW x, NEW y
          PROVE  DoneListings(x, y)' = DoneListings(x, y)
      BY <1>1, <1>7 DEF DoneListings
    <3> QED
      BY <1>1, <1>2, <2>3, <2>7, <3>1 DEF DistancesInv
  <2>15. KnownStopsInv'
    <3>1. \A s \in Range(bus.stops) : GetStop(db, s) # NullPtr
      BY <1>9 DEF bus
    <3>2. \A k \in 1 .. at : \A s \in Range(db.buses[k].stops) : GetStop(db, s) # NullPtr
      BY <1>2, <2>2 DEF KnownStopsInv
    <3>3. \A k \in 1 .. at + 1 : \A s \in Range(db'.buses[k].stops) : GetStop(db, s) # NullPtr
      BY <2>4, <2>5, <2>6, <3>1, <3>2
    <3> QED
      BY <2>1, <2>4, <2>7, <3>3 DEF KnownStopsInv
  <2> QED
    BY <1>6, <2>8, <2>9, <2>10, <2>13, <2>14, <2>15 DEF LoadingInv
<1> QED
  BY <1>8, <1>9

-----------------------------------------------------------------------------
(* The theorems.                                                            *)

\* The inductive invariant of FillingCatalogue holds for every document.
THEOREM LoadingCorrect == Spec => []LoadingInv
<1>1. LoadingInv /\ [Next]_vars => LoadingInv'
  <2> SUFFICES ASSUME LoadingInv, [Next]_vars PROVE LoadingInv'
    OBVIOUS
  <2>1. CASE ReadStop
    BY <2>1, ReadStopKeeps
  <2>2. CASE ReadBus
    BY <2>2, ReadBusKeeps
  <2>3. CASE \E stop_to \in unset : SetDistance(stop_to)
    BY <2>3, SetDistanceKeeps
  <2>4. CASE AddBusOfRequest
    BY <2>4, AddBusKeeps
  <2>5. CASE ReadThrows \/ EndReading \/ NextStop \/ EndDistances \/ EndBuses \/ UNCHANGED vars
    BY <2>5, ControlKeeps
  <2> QED
    BY <2>1, <2>2, <2>3, <2>4, <2>5 DEF Next
<1> QED
  BY <1>1, LoadingInit, PTL DEF Spec

\* Every variable of the loading keeps its type.
THEOREM LoadingTypeCorrect == Spec => []TypeOK
<1>1. LoadingInv => TypeOK
  BY DEF LoadingInv
<1> QED
  BY <1>1, LoadingCorrect, PTL

\* The tables of the catalogue agree with its deques at every moment of the
\* loading, names that occur twice included.
THEOREM IndexCorrect == Spec => []IndexInv
<1>1. LoadingInv => IndexInv
  BY DEF LoadingInv
<1> QED
  BY <1>1, LoadingCorrect, PTL

-----------------------------------------------------------------------------
(* What the loading makes of a document.                                    *)

\* The elements of the deques are those of the two vectors.
LEMMA DequesRead ==
  ASSUME LoadingInv
  PROVE  /\ \A k \in 1 .. Len(stops) :
              /\ db.stops[k].name = stops[k].name
              /\ db.stops[k].coordinates = stops[k].coordinates
         /\ \A k \in 1 .. Len(db.buses) :
              /\ db.buses[k].name = buses[k].name
              /\ db.buses[k].stops = buses[k].stops
<1>1. ASSUME NEW k \in 1 .. Len(stops)
      PROVE  /\ db.stops[k].name = stops[k].name
             /\ db.stops[k].coordinates = stops[k].coordinates
  <2>1. db.stops[k] = [name |-> stops[k].name, coordinates |-> stops[k].coordinates]
    BY DEF LoadingInv, DequesInv
  <2> QED
    BY <2>1
<1>2. ASSUME NEW k \in 1 .. Len(db.buses)
      PROVE  /\ db.buses[k].name = buses[k].name
             /\ db.buses[k].stops = buses[k].stops
  <2>1. db.buses[k] = [name |-> buses[k].name, is_roundtrip |-> buses[k].is_roundtrip,
                       stops |-> buses[k].stops]
    BY DEF LoadingInv, DequesInv
  <2> QED
    BY <2>1
<1> QED
  BY <1>1, <1>2

\* Once everything is read, a name leads to the stop of the last request that
\* defines it, and to none if no request does.
LEMMA KnownAsRequested ==
  ASSUME LoadingInv, pc \notin {"read", "threw"}, NEW s
  PROVE  /\ GetStop(db, s) # NullPtr <=> StopRequests(s) # {}
         /\ StopRequests(s) # {} =>
              /\ Max(StopRequests(s)) \in StopRequests(s)
              /\ GetStop(db, s) = Rank(StopPositions, Max(StopRequests(s)))
              /\ GetStop(db, s) \in 1 .. Len(stops)
              /\ stops[GetStop(db, s)] = base_requests[Max(StopRequests(s))]
<1> DEFINE n == Len(base_requests)
           P == StopRequests(s)
           Q == {k \in DOMAIN db.stops : db.stops[k].name = s}
<1>1. /\ n \in Nat /\ DOMAIN base_requests = 1 .. n
      /\ Collects(stops, StopPositions, n, base_requests)
  BY RequestType DEF LoadingInv, ReadInv, SoFar
<1>2. /\ DOMAIN db.stops = 1 .. Len(stops)
      /\ \A k \in 1 .. Len(stops) : db.stops[k].name = stops[k].name
  BY KnownStops, DequesRead
<1>3. P \in SUBSET (StopPositions \cap (1 .. n)) /\ Q \in SUBSET (1 .. Len(stops))
  BY <1>1, <1>2 DEF StopRequests, StopPositions
<1>4. ASSUME NEW i \in StopPositions \cap (1 .. n)
      PROVE  i \in P <=> Rank(StopPositions, i) \in Q
  <2>1. Rank(StopPositions, i) \in 1 .. Len(stops)
    BY <1>1, CollectRank
  <2>2. stops[Rank(StopPositions, i)] = base_requests[i]
    BY <1>1 DEF Collects
  <2>3. base_requests[i].type = "Stop" /\ i \in DOMAIN base_requests
    BY DEF StopPositions
  <2> QED
    BY <1>2, <2>1, <2>2, <2>3 DEF StopRequests
<1>5. /\ GetStop(db, s) # NullPtr <=> Q # {}
      /\ Q # {} => GetStop(db, s) = Max(Q) /\ GetStop(db, s) \in 1 .. Len(stops)
  BY KnownStops DEF NamesOf, LastNamed
<1> HIDE DEF n, P, Q
<1>6. /\ P = {} <=> Q = {}
      /\ P # {} => /\ Max(P) \in P
                   /\ Max(Q) = Rank(StopPositions, Max(P))
                   /\ stops[Max(Q)] = base_requests[Max(P)]
  BY <1>1, <1>3, <1>4, CollectLast
<1> QED
  BY <1>5, <1>6 DEF P

\* In the end the deque of buses holds what was read.
LEMMA FilledBuses ==
  ASSUME LoadingInv, pc = "filled"
  PROVE  /\ Len(db.buses) = Len(buses)
         /\ \A k \in 1 .. Len(buses) :
              /\ db.buses[k].name = buses[k].name
              /\ db.buses[k].stops = buses[k].stops
<1>1. Len(db.buses) = Len(buses)
  BY DEF LoadingInv, LoopInv, DequesInv, BusesAdded
<1> QED
  BY <1>1, DequesRead

\* Loading throws exactly on a document with a request it cannot read, and dies
\* otherwise exactly on one with a bus at a stop that no request defines,
\* wherever in the document the request stands.
THEOREM OnlyUnknownStopsCrash == Spec => []CrashesOnUnknownStop
<1>1. ASSUME LoadingInv
      PROVE  CrashesOnUnknownStop
  <2>1. pc \in {"crashed", "filled"} => Readable
    BY <1>1, RequestType DEF LoadingInv, ReadInv, SoFar, Readable
  <2>2. \A i \in BusRequests : IsBusRequest(base_requests[i]) =>
          Range(ReadBusFromJson(base_requests[i]).stops) = Range(base_requests[i].stops)
    BY BusRoute
  <2>3. ASSUME pc = "crashed"
        PROVE  NamesUnknownStop
    <3>1. PICK s \in Range(buses[at + 1].stops) : at < Len(buses) /\ GetStop(db, s) = NullPtr
      BY <1>1, <2>3 DEF LoadingInv, KnownStopsInv
    <3>2. at + 1 \in 1 .. Len(buses)
      BY <1>1, <3>1, ReadElements DEF LoadingInv, TypeOK
    <3>3. PICK i \in BusRequests : /\ IsBusRequest(base_requests[i])
                                   /\ buses[at + 1] = ReadBusFromJson(base_requests[i])
      BY <1>1, <3>2, ReadElements
    <3>4. s \in Range(base_requests[i].stops)
      BY <2>2, <3>1, <3>3
    <3>5. StopRequests(s) = {}
      BY <1>1, <2>3, <3>1, KnownAsRequested
    <3> QED
      BY <3>3, <3>4, <3>5 DEF NamesUnknownStop, BusRequests
  <2>4. ASSUME pc = "filled"
        PROVE  ~ NamesUnknownStop
    <3> SUFFICES ASSUME NEW i \in DOMAIN base_requests, base_requests[i].type # "Stop",
                        NEW s \in Range(base_requests[i].stops)
                 PROVE  StopRequests(s) # {}
      BY DEF NamesUnknownStop
    <3>1. /\ Collects(buses, BusRequests, Len(base_requests), AsBuses)
          /\ Len(base_requests) \in Nat
          /\ DOMAIN base_requests = 1 .. Len(base_requests)
      BY <1>1, <2>4, RequestType DEF LoadingInv, ReadInv, SoFar
    <3>2. i \in BusRequests \cap (1 .. Len(base_requests)) /\ IsBusRequest(base_requests[i])
      BY <1>1, <2>1, <2>4, <3>1, RequestType DEF LoadingInv, BusRequests, Readable
    <3> DEFINE k == Rank(BusRequests, i)
    <3>3. k \in 1 .. Len(buses) /\ buses[k] = AsBuses[i]
      BY <3>1, <3>2, CollectRank DEF Collects
    <3>4. Len(db.buses) = Len(buses) /\ db.buses[k].stops = buses[k].stops
      BY <1>1, <2>4, <3>3, FilledBuses
    <3>5. buses[k].stops = ReadBusFromJson(base_requests[i]).stops
      BY <3>3 DEF AsBuses
    <3> HIDE DEF k
    <3>6. s \in Range(db.buses[k].stops)
      BY <2>2, <3>2, <3>4, <3>5
    <3>7. GetStop(db, s) # NullPtr
      BY <1>1, <3>3, <3>4, <3>6 DEF LoadingInv, KnownStopsInv
    <3> QED
      BY <1>1, <2>4, <3>7, KnownAsRequested
  <2>5. ASSUME pc = "threw"
        PROVE  ~ Readable
    <3>1. at + 1 \in DOMAIN base_requests /\ ~ CanRead(base_requests[at + 1])
      BY <1>1, <2>5, RequestType DEF LoadingInv, ReadInv, TypeOK
    <3> QED
      BY <3>1 DEF Readable
  <2> QED
    BY <2>1, <2>3, <2>4, <2>5 DEF CrashesOnUnknownStop
<1> QED
  BY <1>1, LoadingCorrect, PTL

\* In the end there is a road between two stops if the document lists one, and
\* it has the length last listed.
LEMMA RoadsAsRequested ==
  ASSUME LoadingInv, pc = "filled", NEW a \in StopName, NEW b \in StopName,
         GetStop(db, a) # NullPtr, GetStop(db, b) # NullPtr
  PROVE  LET road == <<GetStop(db, a), GetStop(db, b)>> IN
         /\ road \in DOMAIN db.stops_to_dist <=> Listings(a, b) # {}
         /\ Listings(a, b) # {} => db.stops_to_dist[road] = Given(a, b)
<1> DEFINE n == Len(base_requests)
           P == Listings(a, b)
           Q == DoneListings(a, b)
           road == <<GetStop(db, a), GetStop(db, b)>>
<1>1. /\ n \in Nat /\ DOMAIN base_requests = 1 .. n /\ DOMAIN stops = 1 .. Len(stops)
      /\ Collects(stops, StopPositions, n, base_requests)
  BY RequestType DEF LoadingInv, ReadInv, SoFar
<1>2. Q = {k \in DOMAIN stops : stops[k].name = a /\ b \in DOMAIN Roads(stops[k])}
  BY DEF DoneListings, Done
<1>3. P \in SUBSET (StopPositions \cap (1 .. n)) /\ Q \in SUBSET (1 .. Len(stops))
  BY <1>1, <1>2 DEF Listings, StopRequests, StopPositions
<1>4. ASSUME NEW i \in StopPositions \cap (1 .. n)
      PROVE  i \in P <=> Rank(StopPositions, i) \in Q
  <2>1. Rank(StopPositions, i) \in 1 .. Len(stops)
    BY <1>1, CollectRank
  <2>2. stops[Rank(StopPositions, i)] = base_requests[i]
    BY <1>1 DEF Collects
  <2>3. base_requests[i].type = "Stop" /\ i \in DOMAIN base_requests
    BY DEF StopPositions
  <2> HIDE DEF Q
  <2> QED
    BY <1>1, <1>2, <2>1, <2>2, <2>3 DEF Listings, StopRequests
<1>5. /\ road \in DOMAIN db.stops_to_dist <=> Q # {}
      /\ Q # {} => db.stops_to_dist[road] = Roads(stops[Max(Q)])[b]
  BY DEF LoadingInv, DistancesInv
<1>6. Given(a, b) = Roads(base_requests[Max(P)])[b]
  BY DEF Given
<1> HIDE DEF n, P, Q, road
<1>7. /\ P = {} <=> Q = {}
      /\ P # {} => stops[Max(Q)] = base_requests[Max(P)]
  BY <1>1, <1>3, <1>4, CollectLast, SMTT(30)
<1> QED
  BY <1>5, <1>6, <1>7 DEF P, road

\* The catalogue answers as the document says, wherever in it the requests
\* stand: its stops, where they are, and how long the roads between them are.
THEOREM CatalogueSaysTheDocument == Spec => []FilledAsRequested
<1>1. ASSUME LoadingInv
      PROVE  FilledAsRequested
  <2> SUFFICES ASSUME pc = "filled"
               PROVE  /\ \A a \in StopName :
                           /\ GetStop(db, a) # NullPtr <=> StopRequests(a) # {}
                           /\ GetStop(db, a) # NullPtr =>
                                db.stops[GetStop(db, a)].coordinates =
                                  base_requests[Max(StopRequests(a))].coordinates
                      /\ \A a, b \in StopName :
                           GetActualDistanceBetweenStops(db, a, b) = RequestedDistance(a, b)
    BY DEF FilledAsRequested
  <2>1. ASSUME NEW a \in StopName
        PROVE  /\ GetStop(db, a) # NullPtr <=> StopRequests(a) # {}
               /\ GetStop(db, a) # NullPtr =>
                    db.stops[GetStop(db, a)].coordinates =
                      base_requests[Max(StopRequests(a))].coordinates
    BY <1>1, KnownAsRequested, DequesRead
  <2>2. ASSUME NEW a \in StopName, NEW b \in StopName
        PROVE  GetActualDistanceBetweenStops(db, a, b) = RequestedDistance(a, b)
    <3>1. CASE GetStop(db, a) = NullPtr \/ GetStop(db, b) = NullPtr
      BY <2>1, <3>1 DEF GetActualDistanceBetweenStops, RequestedDistance
    <3>2. CASE GetStop(db, a) # NullPtr /\ GetStop(db, b) # NullPtr
      <4> DEFINE there == <<GetStop(db, a), GetStop(db, b)>>
                 back  == <<GetStop(db, b), GetStop(db, a)>>
      <4>1. GetActualDistanceBetweenStops(db, a, b) =
              Find(db.stops_to_dist, there, Find(db.stops_to_dist, back, 0))
        BY <3>2 DEF GetActualDistanceBetweenStops
      <4>2. /\ there \in DOMAIN db.stops_to_dist <=> Listings(a, b) # {}
            /\ Listings(a, b) # {} => db.stops_to_dist[there] = Given(a, b)
            /\ back \in DOMAIN db.stops_to_dist <=> Listings(b, a) # {}
            /\ Listings(b, a) # {} => db.stops_to_dist[back] = Given(b, a)
        BY <1>1, <3>2, RoadsAsRequested
      <4>3. StopRequests(a) # {} /\ StopRequests(b) # {}
        BY <2>1, <3>2
      <4> HIDE DEF there, back
      <4> QED
        BY <4>1, <4>2, <4>3 DEF Find, RequestedDistance
    <3> QED
      BY <3>1, <3>2
  <2> QED
    BY <2>1, <2>2
<1> QED
  BY <1>1, LoadingCorrect, PTL

\* The buses are those requested, in the order of the requests, and each goes
\* the way it was asked to.
THEOREM BusesGoAsRequested == Spec => []RoutesAsRequested
<1>1. ASSUME LoadingInv
      PROVE  RoutesAsRequested
  <2> DEFINE n == Len(base_requests)
             BusAt(i) == db.buses[Cardinality(BusRequests \cap (1 .. i))]
             AsAsked(i) ==
               /\ BusAt(i).name = base_requests[i].name
               /\ IsPrefix(base_requests[i].stops, BusAt(i).stops)
               /\ IF base_requests[i].is_roundtrip
                  THEN BusAt(i).stops = base_requests[i].stops
                  ELSE /\ Len(BusAt(i).stops) =
                            IF base_requests[i].stops = <<>> THEN 0
                            ELSE 2 * Len(base_requests[i].stops) - 1
                       /\ \A p \in DOMAIN BusAt(i).stops :
                            BusAt(i).stops[p] =
                              BusAt(i).stops[Len(BusAt(i).stops) + 1 - p]
  <2> SUFFICES ASSUME pc = "filled"
               PROVE  /\ Len(db.buses) = Cardinality(BusRequests)
                      /\ \A i \in BusRequests : AsAsked(i)
    BY DEF RoutesAsRequested
  <2>1. /\ Collects(buses, BusRequests, n, AsBuses)
        /\ n \in Nat
        /\ DOMAIN base_requests = 1 .. n
    BY <1>1, RequestType DEF LoadingInv, ReadInv, SoFar
  <2>2. BusRequests \cap (1 .. n) = BusRequests
    BY <2>1 DEF BusRequests
  <2>3. Len(db.buses) = Cardinality(BusRequests)
    BY <1>1, <2>1, <2>2, FilledBuses DEF Collects, Rank
  <2>4. ASSUME NEW i \in BusRequests
        PROVE  AsAsked(i)
    <3> DEFINE request == base_requests[i]
               given == request.stops
               route == BusAt(i).stops
    <3>1. IsBusRequest(request)
      BY <1>1, <2>1, RequestType DEF LoadingInv, ReadInv, SoFar, BusRequests
    <3>2. /\ Rank(BusRequests, i) \in 1 .. Len(buses)
          /\ buses[Rank(BusRequests, i)] = ReadBusFromJson(request)
      <4>1. i \in BusRequests \cap (1 .. n) /\ i \in DOMAIN base_requests
        BY <2>2 DEF BusRequests
      <4> QED
        BY <2>1, <4>1, CollectRank DEF Collects, AsBuses
    <3>3. BusAt(i).name = ReadBusFromJson(request).name
          /\ route = ReadBusFromJson(request).stops
      BY <1>1, <3>2, FilledBuses DEF Rank
    <3>4. given \in Seq(StopName)
      BY <3>1 DEF IsBusRequest
    <3> HIDE DEF request
    <3>5. /\ BusAt(i).name = request.name
          /\ route \in Seq(StopName)
          /\ Len(given) <= Len(route)
          /\ \A p \in 1 .. Len(given) : route[p] = given[p]
          /\ IF request.is_roundtrip THEN route = given
             ELSE /\ Len(route) = IF given = <<>> THEN 0 ELSE 2 * Len(given) - 1
                  /\ \A p \in DOMAIN route : route[p] = route[Len(route) + 1 - p]
      BY <3>1, <3>3, BusRoute
    <3>6. IsPrefix(given, route)
      <4> HIDE DEF given, route
      <4> QED
        BY <3>4, <3>5 DEF IsPrefix
    <3> QED
      BY <3>5, <3>6 DEF request
  <2> QED
    BY <2>3, <2>4
<1> QED
  BY <1>1, LoadingCorrect, PTL

\* All stops but the last are all the stops, or one less if the last is only
\* there.
LEMMA AllButTheLast ==
  ASSUME NEW S, NEW route \in Seq(S), route # <<>>
  PROVE  LET last == Len(route) IN
         Cardinality({route[i] : i \in 1 .. last - 1}) =
           Cardinality(Range(route))
             - IF \E i \in 1 .. last - 1 : route[i] = route[last] THEN 0 ELSE 1
<1> DEFINE last == Len(route)
           looked == {route[i] : i \in 1 .. last - 1}
           passed == \E i \in 1 .. last - 1 : route[i] = route[last]
<1>1. last \in Nat /\ last >= 1 /\ DOMAIN route = 1 .. last
  OBVIOUS
<1>2. IsFiniteSet(Range(route))
  <2>1. IsFiniteSet(DOMAIN route)
    BY <1>1, FS_Interval
  <2>2. route \in Surjection(DOMAIN route, Range(route))
    BY <1>1 DEF Surjection, Range
  <2> QED
    BY <2>1, <2>2, FS_Surjection
<1>3. Range(route) = looked \cup {route[last]}
  <2>1. 1 .. last = (1 .. last - 1) \cup {last}
    BY <1>1
  <2> QED
    BY <1>1, <2>1 DEF Range
<1>4. passed <=> route[last] \in looked
  OBVIOUS
<1> HIDE DEF looked, passed, last
<1>5. CASE passed
  <2>1. looked = Range(route)
    BY <1>3, <1>4, <1>5
  <2>2. Cardinality(looked) = Cardinality(Range(route)) - 0
    BY <1>2, <2>1, FS_CardinalityType
  <2> QED
    BY <1>5, <2>2 DEF looked, passed, last
<1>6. CASE ~passed
  <2>1. looked = Range(route) \ {route[last]} /\ route[last] \in Range(route)
    BY <1>3, <1>4, <1>6
  <2>2. Cardinality(looked) = Cardinality(Range(route)) - 1
    BY <1>2, <2>1, FS_RemoveElement
  <2> QED
    BY <1>6, <2>2 DEF looked, passed, last
<1> QED
  BY <1>5, <1>6

\* GetInfoOnRoute counts each stop of a route once, but leaves out the last if
\* the route has not passed it before.
THEOREM StopsAreCounted == Spec => []UniqueStopsCounted
<1>1. ASSUME LoadingInv
      PROVE  UniqueStopsCounted
  <2> SUFFICES
        ASSUME pc = "filled", NEW name \in DOMAIN db.bus_by_name, InfoIsDefined(db, name)
        PROVE  LET route  == db.buses[GetBus(db, name)].stops
                   last   == Len(route)
                   passed == \E i \in 1 .. last - 1 : route[i] = route[last]
               IN GetInfoOnRoute(db, name).unique_bus_stops =
                    Cardinality(Range(route)) - IF passed THEN 0 ELSE 1
    BY DEF UniqueStopsCounted
  <2> DEFINE p == GetBus(db, name)
             route == db.buses[p].stops
  <2>1. p \in 1 .. Len(db.buses)
    <3>1. name \in NamesOf(db.buses) /\ p = LastNamed(db.buses, name)
      BY <1>1 DEF LoadingInv, IndexInv, BusIndexInv, GetBus, Find
    <3>2. IsSeq(db.buses)
      BY <1>1 DEF LoadingInv, DequesInv
    <3> QED
      BY <3>1, <3>2, LastNamedIs
  <2>2. route \in Seq(StopName)
    <3>1. p \in 1 .. Len(buses) /\ route = buses[p].stops
      BY <1>1, <2>1, FilledBuses
    <3>2. DOMAIN buses = 1 .. Len(buses)
      BY <1>1, ReadElements
    <3> QED
      BY <1>1, <3>1, <3>2 DEF LoadingInv, TypeOK
  <2>3. p # NullPtr
    BY <2>1 DEF NullPtr
  <2>4. GetInfoOnRoute(db, name).unique_bus_stops =
          Cardinality({route[i] : i \in 1 .. Len(route) - 1})
    BY <2>3, Zenon DEF GetInfoOnRoute
  <2>5. route # <<>>
    BY <2>3 DEF InfoIsDefined
  <2> HIDE DEF p, route
  <2>6. GetInfoOnRoute(db, name).unique_bus_stops =
          Cardinality(Range(route))
            - IF \E i \in 1 .. Len(route) - 1 : route[i] = route[Len(route)] THEN 0 ELSE 1
    BY <2>2, <2>4, <2>5, AllButTheLast
  <2> QED
    BY <2>6 DEF p, route
<1> QED
  BY <1>1, LoadingCorrect, PTL

-----------------------------------------------------------------------------
(* The catalogue that is handed on.                                         *)

\* The tables of names agree with the deques, and a distance is one between two
\* stops.
TablesInv ==
  /\ TablesAgree(db)
  /\ DOMAIN db.stops_to_dist \subseteq (DOMAIN db.stops) \X (DOMAIN db.stops)

\* Every step keeps the tables in agreement.
LEMMA TablesKeep ==
  ASSUME LoadingInv, TablesInv, [Next]_vars
  PROVE  TablesInv'
<1>1. /\ IsCatalogue(db) /\ IsSeq(db.stops) /\ IsSeq(db.buses)
      /\ TablesAgree(db)
      /\ DOMAIN db.stops_to_dist \subseteq (DOMAIN db.stops) \X (DOMAIN db.stops)
  BY DEF LoadingInv, DequesInv, TablesInv
<1>2. CASE ReadStop
  <2> DEFINE name == base_requests[at + 1].name
             coordinates == base_requests[at + 1].coordinates
  <2>1. db' = AddStop(db, name, coordinates)
    BY <1>2 DEF ReadStop
  <2> HIDE DEF name, coordinates
  <2> DEFINE d == AddStop(db, name, coordinates)
             e == [name |-> name, coordinates |-> coordinates]
  <2>2. /\ d.stops = Append(db.stops, e)
        /\ d.stops_to_dist = db.stops_to_dist
    BY <1>1, AddStopEffect
  <2>3. TablesAgree(d)
    BY <1>1, TablesAfterStop
  <2>4. db' = d
    BY <2>1
  <2> HIDE DEF d, e
  <2>5. DOMAIN db.stops \subseteq DOMAIN d.stops
    BY <1>1, <2>2, AppendToSeq
  <2>6. (DOMAIN db.stops) \X (DOMAIN db.stops) \subseteq (DOMAIN d.stops) \X (DOMAIN d.stops)
    BY <2>5, Pairs
  <2> QED
    BY <1>1, <2>2, <2>3, <2>4, <2>6 DEF TablesInv
<1>3. ASSUME NEW b, SetDistance(b)
      PROVE  TablesInv'
  <2> DEFINE a == stops[at + 1].name
             v == Roads(stops[at + 1])[b]
  <2>1. db' = SetDistanceBetweenStops(db, a, b, v)
    BY <1>3 DEF SetDistance
  <2> HIDE DEF a, v
  <2>2. TablesAgree(db')
    BY <1>1, <2>1, TablesAfterDistance
  <2>3. /\ db'.stops = db.stops
        /\ db'.stops_to_dist =
             IF GetStop(db, a) = NullPtr \/ GetStop(db, b) = NullPtr
             THEN db.stops_to_dist
             ELSE Put(db.stops_to_dist, <<GetStop(db, a), GetStop(db, b)>>, v)
    BY <1>1, <2>1, SetDistanceEffect
  <2>4. \A x : GetStop(db, x) # NullPtr => GetStop(db, x) \in DOMAIN db.stops
    BY KnownStops
  <2> DEFINE road == <<GetStop(db, a), GetStop(db, b)>>
             known == ~(GetStop(db, a) = NullPtr \/ GetStop(db, b) = NullPtr)
  <2>5. /\ known => road \in (DOMAIN db.stops) \X (DOMAIN db.stops)
        /\ db'.stops_to_dist = IF known THEN Put(db.stops_to_dist, road, v)
                               ELSE db.stops_to_dist
    <3>1. known => GetStop(db, a) \in DOMAIN db.stops /\ GetStop(db, b) \in DOMAIN db.stops
      BY <2>4
    <3>2. known => road \in (DOMAIN db.stops) \X (DOMAIN db.stops)
      BY <3>1, Pairs
    <3> QED
      BY <2>3, <3>2
  <2> HIDE DEF road, known
  <2>6. DOMAIN db'.stops_to_dist \subseteq (DOMAIN db.stops) \X (DOMAIN db.stops)
    BY <1>1, <2>5 DEF Put
  <2> QED
    BY <2>2, <2>3, <2>6 DEF TablesInv
<1>4. CASE AddBusOfRequest
  <2>1. CASE db' = db
    BY <1>1, <2>1 DEF TablesInv
  <2>2. CASE db' # db
    <3> DEFINE name == buses[at + 1].name
               route == buses[at + 1].stops
               is_roundtrip == buses[at + 1].is_roundtrip
               d == AddBus(db, name, route, is_roundtrip)
    <3>1. db' = d
      BY <1>4, <2>2 DEF AddBusOfRequest
    <3> HIDE DEF name, route, is_roundtrip
    <3>2. d.stops = db.stops /\ d.stops_to_dist = db.stops_to_dist
      BY <1>1, Containers DEF AddBus, IsCatalogue
    <3>3. TablesAgree(d)
      BY <1>1, TablesAfterBus
    <3> HIDE DEF d
    <3> QED
      BY <1>1, <3>1, <3>2, <3>3 DEF TablesInv
  <2> QED
    BY <2>1, <2>2
<1>5. CASE ReadBus \/ ReadThrows \/ EndReading \/ NextStop \/ EndDistances \/ EndBuses \/ UNCHANGED vars
  <2>1. db' = db
    BY <1>5 DEF ReadBus, ReadThrows, EndReading, NextStop, EndDistances, EndBuses, vars
  <2> QED
    BY <1>1, <2>1 DEF TablesInv
<1> QED
  BY <1>2, <1>3, <1>4, <1>5 DEF Next

\* Every bus read is that of some request.
LEMMA BusIsOfRequest ==
  ASSUME LoadingInv, pc = "filled", NEW p \in 1 .. Len(buses)
  PROVE  \E i \in BusRequests : i \in DOMAIN base_requests /\ buses[p] = AsBuses[i]
<1> DEFINE n == Len(base_requests)
           P == {i \in BusRequests \cap (1 .. n) : Rank(BusRequests, i) = p}
           Q == {p}
<1>1. /\ Collects(buses, BusRequests, n, AsBuses)
      /\ n \in Nat
      /\ DOMAIN base_requests = 1 .. n
  BY RequestType DEF LoadingInv, ReadInv, SoFar
<1>2. P \in SUBSET (BusRequests \cap (1 .. n)) /\ Q \in SUBSET (1 .. Len(buses)) /\ Q # {}
  OBVIOUS
<1>3. \A i \in BusRequests \cap (1 .. n) : i \in P <=> Rank(BusRequests, i) \in Q
  OBVIOUS
<1> HIDE DEF P, Q, n
<1>4. P # {}
  <2>1. P = {} <=> Q = {}
    BY <1>1, <1>2, <1>3, CollectLast
  <2> QED
    BY <1>2, <2>1
<1>5. PICK i \in P : TRUE
  BY <1>4
<1>6. i \in BusRequests \cap (1 .. n) /\ Rank(BusRequests, i) = p
  BY DEF P
<1> QED
  BY <1>1, <1>6 DEF Collects, n

\* A bus that is no round trip passes every stop twice but the one it turns at.
LEMMA RouteIsOdd ==
  ASSUME NEW request, IsBusRequest(request)
  PROVE  LET bus == ReadBusFromJson(request) IN
         /\ bus.is_roundtrip \in BOOLEAN
         /\ ~bus.is_roundtrip /\ bus.stops # <<>> => Len(bus.stops) % 2 = 1
<1> DEFINE bus == ReadBusFromJson(request)
           given == request.stops
<1>1. /\ bus.is_roundtrip = request.is_roundtrip /\ request.is_roundtrip \in BOOLEAN
      /\ given \in Seq(StopName)
  BY DEF ReadBusFromJson, IsBusRequest
<1> SUFFICES ASSUME ~bus.is_roundtrip, bus.stops # <<>>
             PROVE  Len(bus.stops) % 2 = 1
  BY <1>1
<1>2. bus.stops = IF given = <<>> THEN given ELSE given \o Reverse(Front(given))
  BY <1>1 DEF ReadBusFromJson, IsBusRequest
<1>3. given # <<>> /\ bus.stops = given \o Reverse(Front(given))
  BY <1>2
<1> HIDE DEF bus, given
<1>4. Len(bus.stops) = 2 * Len(given) - 1
  BY <1>1, <1>3, ThereAndBack
<1>5. Len(given) \in Nat
  BY <1>1
<1>6. \A k \in Nat : (2 * k - 1) % 2 = 1
  OBVIOUS
<1> QED
  BY <1>4, <1>5, <1>6

\* What FillingCatalogue hands on is a catalogue the other components can rely
\* on: its tables agree with its deques, no distance hangs on a stop that a
\* later one of its name has replaced, and no bus stops where there is no stop.
THEOREM CatalogueIsFilled == Spec => [](pc = "filled" => IsFilled(db))
<1>1. Init => TablesInv
  <2> SUFFICES ASSUME Init PROVE TablesInv
    OBVIOUS
  <2>1. db = EmptyCatalogue
    BY DEF Init
  <2>2. DOMAIN EmptyCatalogue.stops_to_dist = {}
    BY DEF EmptyCatalogue
  <2> QED
    BY <2>1, <2>2, EmptyTables DEF TablesInv
<1>2. LoadingInv /\ TablesInv /\ [Next]_vars => TablesInv'
  BY TablesKeep
<1>3. ASSUME LoadingInv, TablesInv, pc = "filled"
      PROVE  IsFilled(db)
  <2>1. /\ IsCatalogue(db)
        /\ db.stops \in Seq(Range(db.stops))
        /\ db.buses \in Seq(Range(db.buses))
        /\ TablesAgree(db)
        /\ DOMAIN db.stops_to_dist \subseteq (DOMAIN db.stops) \X (DOMAIN db.stops)
        /\ \A road \in DOMAIN db.stops_to_dist : \A i \in {1, 2} :
             db.stop_by_name[db.stops[road[i]].name] = road[i]
    BY <1>3 DEF LoadingInv, DequesInv, TablesInv, IndexInv, DistanceIndexInv, IsSeq
  <2>2. \A p \in DOMAIN db.stops :
          db.stops[p] = [name |-> db.stops[p].name, coordinates |-> db.stops[p].coordinates]
    <3>1. /\ DOMAIN db.stops = 1 .. Len(stops)
          /\ \A k \in 1 .. Len(stops) :
               db.stops[k] = [name |-> stops[k].name, coordinates |-> stops[k].coordinates]
      BY <1>3, KnownStops DEF LoadingInv, DequesInv
    <3> SUFFICES ASSUME NEW p \in DOMAIN db.stops
                 PROVE  db.stops[p] = [name        |-> db.stops[p].name,
                                       coordinates |-> db.stops[p].coordinates]
      OBVIOUS
    <3>2. db.stops[p] = [name |-> stops[p].name, coordinates |-> stops[p].coordinates]
      BY <3>1
    <3> QED
      BY <3>2
  <2>3. ASSUME NEW p \in DOMAIN db.buses
        PROVE  /\ db.buses[p] = [name |-> db.buses[p].name, stops |-> db.buses[p].stops,
                                 is_roundtrip |-> db.buses[p].is_roundtrip]
               /\ db.buses[p].stops \in Seq(NamesOf(db.stops))
               /\ db.buses[p].is_roundtrip \in BOOLEAN
               /\ ~db.buses[p].is_roundtrip /\ db.buses[p].stops # <<>> =>
                    Len(db.buses[p].stops) % 2 = 1
    <3>1. /\ IsSeq(db.buses)
          /\ db.buses[p] = [name |-> buses[p].name, is_roundtrip |-> buses[p].is_roundtrip,
                            stops |-> buses[p].stops]
          /\ p \in 1 .. Len(buses)
      <4>1. IsSeq(db.buses) /\ DOMAIN db.buses = 1 .. Len(db.buses)
        BY <1>3 DEF LoadingInv, DequesInv, IsSeq
      <4>2. Len(db.buses) = Len(buses)
        BY <1>3, FilledBuses
      <4> QED
        BY <1>3, <4>1, <4>2 DEF LoadingInv, DequesInv
    <3>2. db.buses[p].stops = buses[p].stops /\ p \in DOMAIN buses
      BY <1>3, <3>1, ReadElements
    <3>3. db.buses[p].stops \in Seq(StopName)
      BY <1>3, <3>2 DEF LoadingInv, TypeOK
    <3>4. \A s \in Range(db.buses[p].stops) : s \in NamesOf(db.stops)
      <4>1. p \in 1 .. Len(db.buses)
        BY <1>3, <3>1, FilledBuses
      <4> QED
        BY <1>3, <4>1, KnownStops DEF LoadingInv, KnownStopsInv
    <3>5. db.buses[p].stops \in Seq(NamesOf(db.stops))
      BY <3>3, <3>4 DEF Range
    <3>6. db.buses[p].is_roundtrip = buses[p].is_roundtrip
      BY <3>1
    <3>7. PICK i \in BusRequests : i \in DOMAIN base_requests /\ buses[p] = AsBuses[i]
      BY <1>3, <3>1, BusIsOfRequest
    <3>8. /\ IsBusRequest(base_requests[i])
          /\ buses[p] = ReadBusFromJson(base_requests[i])
      BY <1>3, <3>7, RequestType DEF LoadingInv, ReadInv, SoFar, BusRequests, AsBuses
    <3>9. /\ buses[p].is_roundtrip \in BOOLEAN
          /\ ~buses[p].is_roundtrip /\ buses[p].stops # <<>> => Len(buses[p].stops) % 2 = 1
      BY <3>8, RouteIsOdd
    <3> QED
      BY <3>1, <3>2, <3>5, <3>6, <3>9
  <2> QED
    BY <2>1, <2>2, <2>3 DEF IsFilled, IsCatalogue, DistancesHang
<1> QED
  BY <1>1, <1>2, <1>3, LoadingCorrect, PTL DEF Spec
=============================================================================
