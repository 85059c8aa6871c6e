------------------------ MODULE TransportRouterProofs ------------------------
(***************************************************************************)
(* Proofs about TransportRouter, for every catalogue that has been filled,  *)
(* every wait and every vertex count.                                       *)
(***************************************************************************)
EXTENDS TransportRouter, CatalogueProofs

\* The router inside, for which RouterProofs has been written.
P == INSTANCE RouterProofs WITH Graphs <- {}

-----------------------------------------------------------------------------
(* What the graph is to be, as a matter of values.                          *)

SumTime(d, route, i, j) ==
  MapThenSumSet(LAMBDA k : GetActualDistanceBetweenStops(d, route[k], route[k + 1]),
                i .. j - 1)

Ride(d, ids, wait, bus, i, j) ==
  [from       |-> ids[bus.stops[i]],
   to         |-> ids[bus.stops[j]],
   weight     |-> wait + SumTime(d, bus.stops, i, j),
   name       |-> bus.name,
   span_count |-> j - i]

Loop(id) == [from |-> id, to |-> id, weight |-> 0, name |-> "", span_count |-> 0]

\* A passenger can ride from position i to position j without turning.
OnTheWay(bus, i, j) ==
  /\ i \in 1 .. Len(bus.stops) /\ j \in 1 .. Len(bus.stops) /\ i < j
  /\ \E way \in Ways(bus) : i \in way /\ j \in way

IsRide(edge, d, ids, wait) ==
  \E b \in DOMAIN d.buses : \E i, j \in Nat :
    OnTheWay(d.buses[b], i, j) /\ edge = Ride(d, ids, wait, d.buses[b], i, j)

IsLoop(edge, ids) == \E s \in DOMAIN ids : edge = Loop(ids[s])

\* Every edge is the self-loop of a stop or a ride.
IsPlan(graph, d, ids, wait) ==
  /\ IsSeq(graph)
  /\ \A e \in DOMAIN graph : IsLoop(graph[e], ids) \/ IsRide(graph[e], d, ids, wait)

\* The edges the code adds are these.
LEMMA RideIs ==
  ASSUME NEW bus, NEW i, NEW j
  PROVE  RideEdge(bus, i, j) = Ride(db, name_id, bus_wait_time, bus, i, j)
  BY Zenon DEF RideEdge, Ride, RideTime, RideLength, SumTime

-----------------------------------------------------------------------------
(* Numbers.                                                                 *)

\* The stops of a finite set, numbered from zero without gaps.
IsNumbering(ids) ==
  /\ IsFiniteSet(DOMAIN ids)
  /\ Range(ids) = 0 .. Cardinality(DOMAIN ids) - 1
  /\ \A s, t \in DOMAIN ids : ids[s] = ids[t] => s = t

\* CreateVertexId keeps the numbers it has given and gives the next one.
LEMMA NumberingGrows ==
  ASSUME NEW ids, IsNumbering(ids), NEW stop
  PROVE  LET more == CreateVertexId(ids, stop)
             n    == Cardinality(DOMAIN ids)
         IN /\ IsNumbering(more)
            /\ n \in Nat
            /\ DOMAIN more = DOMAIN ids \cup {stop}
            /\ \A s \in DOMAIN ids : more[s] = ids[s] /\ ids[s] \in 0 .. n - 1
            /\ stop \notin DOMAIN ids =>
                 more[stop] = n /\ Cardinality(DOMAIN more) = n + 1
            /\ stop \in DOMAIN ids => more = ids
<1> DEFINE more == CreateVertexId(ids, stop)
           n    == Cardinality(DOMAIN ids)
<1>1. n \in Nat
  BY FS_CardinalityType DEF IsNumbering
<1>2. \A s \in DOMAIN ids : ids[s] \in 0 .. n - 1
  BY DEF IsNumbering, Range
<1>3. CASE stop \in DOMAIN ids
  <2>1. more = ids /\ DOMAIN ids = DOMAIN ids \cup {stop}
    BY <1>3 DEF CreateVertexId
  <2> QED
    BY <1>1, <1>2, <1>3, <2>1
<1>4. CASE stop \notin DOMAIN ids
  <2>1. /\ DOMAIN more = DOMAIN ids \cup {stop}
        /\ \A s \in DOMAIN ids : more[s] = ids[s]
        /\ more[stop] = n
    BY <1>4 DEF CreateVertexId, Put
  <2> HIDE DEF more
  <2>2. IsFiniteSet(DOMAIN more) /\ Cardinality(DOMAIN more) = n + 1
    BY <1>4, <2>1, FS_AddElement DEF IsNumbering
  <2>3. \A s, t \in DOMAIN more : more[s] = more[t] => s = t
    <3> SUFFICES ASSUME NEW s \in DOMAIN more, NEW t \in DOMAIN more, more[s] = more[t]
                 PROVE  s = t
      OBVIOUS
    <3>1. \A r \in DOMAIN ids : more[r] # n
      BY <1>1, <1>2, <2>1
    <3>2. s \in DOMAIN ids /\ t \in DOMAIN ids => s = t
      BY <2>1 DEF IsNumbering
    <3> QED
      BY <2>1, <3>1, <3>2
  <2>4. Range(more) = 0 .. (n + 1) - 1
    <3>1. Range(more) = Range(ids) \cup {n}
      BY <2>1 DEF Range
    <3>2. Range(ids) = 0 .. n - 1
      BY DEF IsNumbering
    <3> QED
      BY <1>1, <3>1, <3>2
  <2> QED
    BY <1>1, <1>2, <1>4, <2>1, <2>2, <2>3, <2>4 DEF IsNumbering, more
<1> HIDE DEF more, n
<1> QED
  BY <1>3, <1>4 DEF more, n

\* The names of the first n stops.
FirstNames(d, n) == {d.stops[p].name : p \in 1 .. n}

\* All names are known to the table, and there are finitely many.
LEMMA KnownNames ==
  ASSUME NEW d, IsFilled(d)
  PROVE  /\ Len(d.stops) \in Nat
         /\ DOMAIN d.stops = 1 .. Len(d.stops)
         /\ DOMAIN d.stop_by_name = NamesOf(d.stops)
         /\ FirstNames(d, 0) = {}
         /\ \A n \in 0 .. Len(d.stops) : FirstNames(d, n) \subseteq DOMAIN d.stop_by_name
         /\ FirstNames(d, Len(d.stops)) = DOMAIN d.stop_by_name
         /\ \A n \in Nat : FirstNames(d, n + 1) = FirstNames(d, n) \cup {d.stops[n + 1].name}
         /\ IsFiniteSet(DOMAIN d.stop_by_name)
<1> DEFINE n == Len(d.stops)
<1>1. n \in Nat /\ DOMAIN d.stops = 1 .. n
  BY DEF IsFilled
<1>2. DOMAIN d.stop_by_name = NamesOf(d.stops)
  BY DEF IsFilled, TablesAgree
<1>3. NamesOf(d.stops) = FirstNames(d, n)
  BY <1>1 DEF NamesOf, FirstNames
<1>4. \A m \in 0 .. n : FirstNames(d, m) \subseteq FirstNames(d, n)
  BY <1>1 DEF FirstNames
<1>5. \A m \in Nat : FirstNames(d, m + 1) = FirstNames(d, m) \cup {d.stops[m + 1].name}
  <2> TAKE m \in Nat
  <2>1. 1 .. m + 1 = (1 .. m) \cup {m + 1}
    OBVIOUS
  <2> QED
    BY <2>1 DEF FirstNames
<1>6. IsFiniteSet(FirstNames(d, n))
  <2> DEFINE f == [p \in 1 .. n |-> d.stops[p].name]
  <2>1. f \in Surjection(1 .. n, FirstNames(d, n))
    BY DEF Surjection, FirstNames
  <2> QED
    BY <1>1, <2>1, FS_Interval, FS_Surjection
<1>7. FirstNames(d, 0) = {}
  BY DEF FirstNames
<1> QED
  BY <1>1, <1>2, <1>3, <1>4, <1>5, <1>6, <1>7

-----------------------------------------------------------------------------
(* The edges of a bus.                                                      *)

\* How far it is from each of these positions of a route to the next.
Hops(d, route, S) ==
  [k \in S |-> GetActualDistanceBetweenStops(d, route[k], route[k + 1])]

\* What a ride takes is summed up by g, over the positions S.
SumsHops(d, route, i, j, S, g) ==
  /\ S = i .. j - 1
  /\ IsFiniteSet(S)
  /\ \A k \in S : Hops(d, route, S)[k] \in Int
  /\ IsSetSum(g, S, Hops(d, route, S))
  /\ SumTime(d, route, i, j) = g[S]

\* A ride takes the sum of the distances between neighbours, which are integers.
LEMMA RideIsSum ==
  ASSUME NEW d \in Bases, NEW route, NEW i \in Nat, NEW j \in Nat
  PROVE  \E S, g : SumsHops(d, route, i, j, S, g)
<1> DEFINE S == i .. j - 1
           dist == Hops(d, route, S)
           g == CHOOSE f : f = [s \in SUBSET S |->
                  IF s = {} THEN 0
                  ELSE GetActualDistanceBetweenStops(d, route[CHOOSE x \in s : TRUE],
                                                     route[(CHOOSE x \in s : TRUE) + 1])
                       + f[s \ {CHOOSE x \in s : TRUE}]]
<1>1. IsFiniteSet(S)
  BY FS_Interval
<1>2. \A k \in S : dist[k] \in Int
  <2> TAKE k \in S
  <2>1. GetActualDistanceBetweenStops(d, route[k], route[k + 1]) \in Int
    BY BasesAssumption DEF GetActualDistanceBetweenStops, Find
  <2> QED
    BY <2>1 DEF Hops
<1>3. PICK f : IsSetSum(f, S, dist)
  BY <1>1, SetSum
<1>4. \A s \in SUBSET S : s # {} =>
        dist[OneOf(s)] = GetActualDistanceBetweenStops(d, route[OneOf(s)], route[OneOf(s) + 1])
  <2> TAKE s \in SUBSET S
  <2> HAVE s # {}
  <2>1. OneOf(s) \in S
    BY DEF OneOf
  <2> QED
    BY <2>1 DEF Hops
<1> HIDE DEF dist, S
<1>5. ASSUME NEW h
      PROVE  IsSetSum(h, S, dist) <=>
               h = [s \in SUBSET S |->
                 IF s = {} THEN 0
                 ELSE GetActualDistanceBetweenStops(d, route[OneOf(s)], route[OneOf(s) + 1])
                      + h[s \ {OneOf(s)}]]
  BY <1>4 DEF IsSetSum, AddsUp
<1>6. f = [s \in SUBSET S |->
             IF s = {} THEN 0
             ELSE GetActualDistanceBetweenStops(d, route[CHOOSE x \in s : TRUE],
                                                route[(CHOOSE x \in s : TRUE) + 1])
                  + f[s \ {CHOOSE x \in s : TRUE}]]
  BY <1>3, <1>5, Zenon DEF OneOf
<1>7. g = [s \in SUBSET S |->
             IF s = {} THEN 0
             ELSE GetActualDistanceBetweenStops(d, route[CHOOSE x \in s : TRUE],
                                                route[(CHOOSE x \in s : TRUE) + 1])
                  + g[s \ {CHOOSE x \in s : TRUE}]]
  BY <1>6, ZenonT(40)
<1>8. SumTime(d, route, i, j) = g[S]
  BY Zenon DEF SumTime, MapThenSumSet, MapThenFoldSet, S
<1> HIDE DEF g
<1>9. IsSetSum(g, S, dist)
  BY <1>5, <1>7, Zenon DEF OneOf
<1>10. SumsHops(d, route, i, j, S, g)
  BY <1>1, <1>2, <1>8, <1>9 DEF SumsHops, dist, S
<1> QED
  BY <1>10

\* It takes an integer time.
LEMMA RideTakes ==
  ASSUME NEW d \in Bases, NEW route, NEW i \in Nat, NEW j \in Nat
  PROVE  SumTime(d, route, i, j) \in Int
<1>1. PICK S, g : SumsHops(d, route, i, j, S, g)
  BY RideIsSum
<1>2. \A s \in SUBSET S : g[s] \in Int
  BY <1>1, SetSumIs DEF SumsHops
<1> QED
  BY <1>1, <1>2 DEF SumsHops

\* Two sums over positions agree on the positions both have.
LEMMA HopsAgree ==
  ASSUME NEW d, NEW route, NEW i, NEW j, NEW next, NEW S, NEW T, NEW g, NEW h,
         SumsHops(d, route, i, next, S, g), SumsHops(d, route, i, j, T, h), T \subseteq S
  PROVE  g[T] = h[T]
<1>1. IsFiniteSet(S) /\ IsSetSum(g, S, Hops(d, route, S)) /\ IsSetSum(h, T, Hops(d, route, T))
  BY DEF SumsHops
<1>2. \A k \in T : Hops(d, route, S)[k] = Hops(d, route, T)[k]
  BY DEF Hops
<1> DEFINE far == Hops(d, route, S)
           near == Hops(d, route, T)
<1>3. \A k \in T : far[k] = near[k]
  BY <1>2
<1>4. IsSetSum(g, S, far) /\ IsSetSum(h, T, near)
  BY <1>1
<1> HIDE DEF far, near
<1>5. T \subseteq S
  OBVIOUS
<1> QED
  BY <1>1, <1>3, <1>4, <1>5, SumsAgree

\* To stay where one is takes no time, and to ride on the next distance more.
LEMMA RideGrows ==
  ASSUME NEW d \in Bases, NEW route, NEW i \in Nat, NEW j \in Nat, i <= j
  PROVE  /\ SumTime(d, route, i, i) = 0
         /\ SumTime(d, route, i, j + 1)
              = SumTime(d, route, i, j) + GetActualDistanceBetweenStops(d, route[j], route[j + 1])
<1>1. SumTime(d, route, i, i) = 0
  <2>1. PICK S, g : SumsHops(d, route, i, i, S, g)
    BY RideIsSum
  <2>2. S = {} /\ SumTime(d, route, i, i) = g[S] /\ IsSetSum(g, S, Hops(d, route, S))
    BY <2>1 DEF SumsHops
  <2>3. g[{}] = 0
    BY <2>2 DEF IsSetSum, AddsUp
  <2> QED
    BY <2>2, <2>3
<1> DEFINE next == j + 1
<1>2. next \in Nat /\ next - 1 = j
  OBVIOUS
<1> HIDE DEF next
<1>3. PICK S, g : SumsHops(d, route, i, next, S, g)
  BY <1>2, RideIsSum
<1>4. PICK T, h : SumsHops(d, route, i, j, T, h)
  BY RideIsSum
<1>5. T = S \ {j} /\ j \in S /\ T \in SUBSET S
  BY <1>2, <1>3, <1>4 DEF SumsHops
<1> DEFINE far == Hops(d, route, S)
           near == Hops(d, route, T)
<1>6. far[j] = GetActualDistanceBetweenStops(d, route[j], route[j + 1])
  BY <1>5 DEF Hops
<1>7. \A k \in T : far[k] = near[k]
  BY <1>5 DEF Hops
<1>8. IsFiniteSet(S) /\ (\A k \in S : far[k] \in Int) /\ IsSetSum(g, S, far) /\ IsSetSum(h, T, near)
  BY <1>3, <1>4 DEF SumsHops
<1> HIDE DEF far, near
<1>9. g[T] = h[T]
  BY <1>3, <1>4, <1>5, HopsAgree
<1>10. InAnyOrder(g, S, far) /\ \A s \in SUBSET S : g[s] \in Int
  BY <1>8, SetSumIs
<1>11. g[S] = far[j] + g[T] /\ g[T] \in Int /\ far[j] \in Int
  BY <1>5, <1>8, <1>10 DEF InAnyOrder
<1> QED
  BY <1>1, <1>3, <1>4, <1>6, <1>9, <1>11 DEF next, SumsHops

\* The positions of one part of the route, and the edges added for it.
LEMMA EdgesOfPart ==
  ASSUME NEW bus, NEW S, NEW first \in Nat \ {0}, NEW last \in Nat,
         \A i, j \in first .. last : i < j => RideEdge(bus, i, j) \in S
  PROVE  AddEdgesGraph(bus, first, last) \in Seq(S)
<1> DEFINE rides(i) == [k \in 1 .. last - i |-> RideEdge(bus, i, i + k)]
           row(i) == IF i < first THEN <<>> ELSE rides(i)
           rows == [i \in 1 .. last |-> row(i)]
<1>1. ASSUME NEW i \in 1 .. last
      PROVE  row(i) \in Seq(S)
  <2>1. CASE i < first
    BY <2>1
  <2>2. CASE i >= first
    <3>1. last - i \in Nat
      OBVIOUS
    <3>2. \A k \in 1 .. last - i : RideEdge(bus, i, i + k) \in S
      <4> TAKE k \in 1 .. last - i
      <4>1. i \in first .. last /\ i + k \in first .. last /\ i < i + k
        BY <2>2
      <4> QED
        BY <4>1
    <3>3. rides(i) \in Seq(S)
      BY <3>1, <3>2
    <3>4. row(i) = rides(i)
      BY <2>2
    <3> QED
      BY <3>3, <3>4
  <2> QED
    BY <2>1, <2>2
<1> HIDE DEF row
<1>2. rows \in Seq(Seq(S))
  BY <1>1
<1>3. FlattenSeq(rows) \in Seq(S)
  BY <1>2, FlattenSeqType
<1> QED
  BY <1>3, Zenon DEF AddEdgesGraph, rows, row, rides

\* The parts the code goes through are those a passenger can ride along.
LEMMA LegsAreWays ==
  ASSUME NEW bus, NEW S, bus.stops \in Seq(S), bus.is_roundtrip \in BOOLEAN,
         ~bus.is_roundtrip => Len(bus.stops) % 2 = 1
  PROVE  /\ Legs(bus) \in Seq(Nat \X Nat)
         /\ \A l \in DOMAIN Legs(bus) :
              /\ Legs(bus)[l][1] \in Nat \ {0} /\ Legs(bus)[l][2] \in Nat
              /\ \A i, j \in Legs(bus)[l][1] .. Legs(bus)[l][2] :
                   i < j => OnTheWay(bus, i, j)
<1> DEFINE n == Len(bus.stops)
           h == n \div 2 + 1
<1>1. n \in Nat
  OBVIOUS
<1>2. CASE bus.is_roundtrip
  <2>1. Legs(bus) = <<<<1, n>>>> /\ Ways(bus) = {1 .. n}
    BY <1>2 DEF Legs, Ways
  <2>2. \A i, j \in 1 .. n : i < j => OnTheWay(bus, i, j)
    BY <2>1 DEF OnTheWay
  <2> HIDE DEF n
  <2>3. <<<<1, n>>>> \in Seq(Nat \X Nat)
    BY <1>1
  <2> QED
    BY <1>1, <2>1, <2>2, <2>3
<1>3. CASE ~bus.is_roundtrip
  <2>1. n % 2 = 1
    BY <1>3
  <2>2. Legs(bus) = <<<<1, h>>, <<h, n>>>> /\ Ways(bus) = {1 .. (n + 1) \div 2, (n + 1) \div 2 .. n}
    BY <1>3 DEF Legs, Ways
  <2> DEFINE m == n
  <2>3. m \in Nat /\ m % 2 = 1 => (m + 1) \div 2 = m \div 2 + 1 /\ m \div 2 + 1 \in 1 .. m
    <3> HIDE DEF m
    <3> QED
      OBVIOUS
  <2>4. (n + 1) \div 2 = h /\ h \in 1 .. n
    BY <1>1, <2>1, <2>3
  <2> HIDE DEF h
  <2>5. Ways(bus) = {1 .. h, h .. n}
    BY <2>2, <2>4
  <2>6. \A i, j \in 1 .. h : i < j => OnTheWay(bus, i, j)
    <3> TAKE i, j \in 1 .. h
    <3>1. i \in 1 .. n /\ j \in 1 .. n
      BY <1>1, <2>4
    <3> QED
      BY <2>5, <3>1 DEF OnTheWay
  <2>7. \A i, j \in h .. n : i < j => OnTheWay(bus, i, j)
    <3> TAKE i, j \in h .. n
    <3>1. i \in 1 .. n /\ j \in 1 .. n
      BY <1>1, <2>4
    <3> QED
      BY <2>5, <3>1 DEF OnTheWay
  <2>8. <<<<1, h>>, <<h, n>>>> \in Seq(Nat \X Nat)
    BY <1>1, <2>4
  <2>9. h \in Nat \ {0}
    BY <2>4
  <2> HIDE DEF n, m
  <2>10. DOMAIN Legs(bus) = {1, 2} /\ Legs(bus)[1] = <<1, h>> /\ Legs(bus)[2] = <<h, n>>
    BY <2>2
  <2> QED
    BY <1>1, <2>2, <2>6, <2>7, <2>8, <2>9, <2>10
<1> QED
  BY <1>2, <1>3

\* All edges the code adds for a bus are rides along its route.
LEMMA EdgesOfBusAreRides ==
  ASSUME db \in Bases, NEW b \in DOMAIN db.buses,
         db.buses[b].stops = <<>> => db.buses[b].is_roundtrip
  PROVE  /\ IsSeq(EdgesOfBus(db.buses[b]))
         /\ \A edge \in Range(EdgesOfBus(db.buses[b])) :
              IsRide(edge, db, name_id, bus_wait_time)
<1> DEFINE bus == db.buses[b]
           on == {q \in Nat \X Nat : OnTheWay(bus, q[1], q[2])}
           S == {Ride(db, name_id, bus_wait_time, bus, q[1], q[2]) : q \in on}
           parts == [l \in DOMAIN Legs(bus) |->
                       AddEdgesGraph(bus, Legs(bus)[l][1], Legs(bus)[l][2])]
<1>1. /\ bus.stops \in Seq(NamesOf(db.stops))
      /\ bus.is_roundtrip \in BOOLEAN
      /\ ~bus.is_roundtrip => Len(bus.stops) % 2 = 1
  BY BasesAssumption DEF IsFilled
<1>2. /\ Legs(bus) \in Seq(Nat \X Nat)
      /\ \A l \in DOMAIN Legs(bus) :
           /\ Legs(bus)[l][1] \in Nat \ {0} /\ Legs(bus)[l][2] \in Nat
           /\ \A i, j \in Legs(bus)[l][1] .. Legs(bus)[l][2] :
                i < j => OnTheWay(bus, i, j)
  BY <1>1, LegsAreWays
<1>3. ASSUME NEW i \in Nat, NEW j \in Nat, OnTheWay(bus, i, j)
      PROVE  RideEdge(bus, i, j) \in S
  <2>1. <<i, j>> \in on
    BY <1>3
  <2>2. Ride(db, name_id, bus_wait_time, bus, i, j) \in S
    BY <2>1
  <2> QED
    BY <2>2, RideIs
<1>4. \A edge \in S : IsRide(edge, db, name_id, bus_wait_time)
  <2> TAKE edge \in S
  <2>1. PICK q \in on : edge = Ride(db, name_id, bus_wait_time, bus, q[1], q[2])
    OBVIOUS
  <2>2. q[1] \in Nat /\ q[2] \in Nat /\ OnTheWay(bus, q[1], q[2])
    OBVIOUS
  <2> QED
    BY <2>1, <2>2 DEF IsRide
<1> HIDE DEF S
<1>5. ASSUME NEW l \in DOMAIN Legs(bus)
      PROVE  AddEdgesGraph(bus, Legs(bus)[l][1], Legs(bus)[l][2]) \in Seq(S)
  <2> DEFINE first == Legs(bus)[l][1]
             last == Legs(bus)[l][2]
  <2>1. /\ first \in Nat \ {0} /\ last \in Nat
        /\ \A i, j \in first .. last : i < j => OnTheWay(bus, i, j)
    BY <1>2
  <2> HIDE DEF first, last, bus
  <2>2. \A i, j \in first .. last : i \in Nat /\ j \in Nat
    BY <2>1
  <2>3. \A i, j \in first .. last : i < j => RideEdge(bus, i, j) \in S
    BY <1>3, <2>1, <2>2
  <2>4. AddEdgesGraph(bus, first, last) \in Seq(S)
    BY <2>1, <2>3, EdgesOfPart
  <2> QED
    BY <2>4 DEF first, last
<1>6. parts \in Seq(Seq(S))
  <2> HIDE DEF bus
  <2>1. DOMAIN Legs(bus) = 1 .. Len(Legs(bus)) /\ Len(Legs(bus)) \in Nat
    BY <1>2
  <2> QED
    BY <1>5, <2>1
<1>7. EdgesOfBus(bus) \in Seq(S)
  <2>1. FlattenSeq(parts) \in Seq(S)
    BY <1>6, FlattenSeqType
  <2> QED
    BY <2>1, Zenon DEF EdgesOfBus
<1>8. IsSeq(EdgesOfBus(bus)) /\ Range(EdgesOfBus(bus)) \subseteq S
  BY <1>7, SeqIsSeq
<1> QED
  BY <1>4, <1>8

-----------------------------------------------------------------------------
(* The plan grows.                                                          *)

\* What holds of the elements of two sequences holds of both joined.
LEMMA JoinedElements ==
  ASSUME NEW g, IsSeq(g), NEW h, IsSeq(h)
  PROVE  /\ IsSeq(g \o h)
         /\ \A e \in DOMAIN (g \o h) : (g \o h)[e] \in Range(g) \cup Range(h)
<1> DEFINE S == Range(g) \cup Range(h)
<1>1. g \in Seq(S) /\ h \in Seq(S)
  BY DEF IsSeq
<1>2. g \o h \in Seq(S)
  BY <1>1, ConcatProperties
<1>3. \A e \in DOMAIN (g \o h) : (g \o h)[e] \in S
  BY <1>2
<1> QED
  BY <1>2, <1>3, SeqIsSeq

\* One more stop is one more self-loop; numbers given before stay.
LEMMA PlanWithStop ==
  ASSUME NEW graph, NEW d, NEW ids, NEW wait,
         IsSeq(graph), \A e \in DOMAIN graph : IsLoop(graph[e], ids),
         NEW more, DOMAIN ids \subseteq DOMAIN more,
         \A s \in DOMAIN ids : more[s] = ids[s],
         NEW stop \in DOMAIN more
  PROVE  LET longer == Append(graph, Loop(more[stop])) IN
         /\ IsSeq(longer)
         /\ \A e \in DOMAIN longer : IsLoop(longer[e], more)
<1> DEFINE longer == Append(graph, Loop(more[stop]))
           n == Len(graph)
<1>1. /\ IsSeq(longer)
      /\ n \in Nat
      /\ DOMAIN graph = 1 .. n
      /\ DOMAIN longer = 1 .. n + 1
      /\ \A i \in 1 .. n : longer[i] = graph[i]
      /\ longer[n + 1] = Loop(more[stop])
  BY AppendToSeq
<1> HIDE DEF longer, n
<1>2. \A e \in 1 .. n : IsLoop(longer[e], more)
  BY <1>1 DEF IsLoop
<1>3. IsLoop(longer[n + 1], more)
  BY <1>1 DEF IsLoop
<1>4. \A e \in 1 .. n + 1 : e \in 1 .. n \/ e = n + 1
  BY <1>1
<1> QED
  BY <1>1, <1>2, <1>3, <1>4 DEF longer

\* The edges of a bus are added behind.
LEMMA PlanWithBus ==
  ASSUME NEW graph, NEW d, NEW ids, NEW wait, IsPlan(graph, d, ids, wait),
         NEW new, IsSeq(new), \A edge \in Range(new) : IsRide(edge, d, ids, wait)
  PROVE  IsPlan(graph \o new, d, ids, wait)
<1>1. /\ IsSeq(graph \o new)
      /\ \A e \in DOMAIN (graph \o new) : (graph \o new)[e] \in Range(graph) \cup Range(new)
  BY JoinedElements DEF IsPlan
<1>2. \A edge \in Range(graph) : IsLoop(edge, ids) \/ IsRide(edge, d, ids, wait)
  BY DEF IsPlan, Range
<1> QED
  BY <1>1, <1>2 DEF IsPlan

\* A self-loop stays at a numbered stop.
LEMMA LoopEnds ==
  ASSUME NEW ids, NEW edge, IsLoop(edge, ids)
  PROVE  /\ edge.from \in Range(ids) /\ edge.to \in Range(ids)
         /\ edge.from = edge.to /\ edge.weight = 0
<1>1. PICK s \in DOMAIN ids : edge = Loop(ids[s])
  BY DEF IsLoop
<1>2. edge.from = ids[s] /\ edge.to = ids[s] /\ edge.weight = 0
  BY <1>1 DEF Loop
<1> QED
  BY <1>2 DEF Range

\* What a plan has for edges: they join numbered stops, and weigh a number.
\* Only a ride weighs anything.
LEMMA PlanEdges ==
  ASSUME NEW d \in Bases, NEW ids, NEW wait \in Int, NEW edge,
         DOMAIN ids = DOMAIN d.stop_by_name,
         IsLoop(edge, ids) \/ IsRide(edge, d, ids, wait)
  PROVE  /\ edge.from \in Range(ids) /\ edge.to \in Range(ids) /\ edge.weight \in Int
         /\ edge.weight # 0 => IsRide(edge, d, ids, wait)
         /\ edge.from # edge.to => IsRide(edge, d, ids, wait)
<1>1. CASE IsLoop(edge, ids)
  BY <1>1, LoopEnds
<1>2. CASE IsRide(edge, d, ids, wait)
  <2>1. PICK b \in DOMAIN d.buses, i \in Nat, j \in Nat :
          OnTheWay(d.buses[b], i, j) /\ edge = Ride(d, ids, wait, d.buses[b], i, j)
    BY <1>2 DEF IsRide
  <2> DEFINE stops == d.buses[b].stops
  <2>2. stops \in Seq(NamesOf(d.stops)) /\ NamesOf(d.stops) = DOMAIN ids
    BY BasesAssumption, KnownNames DEF IsFilled
  <2>3. i \in 1 .. Len(stops) /\ j \in 1 .. Len(stops)
    BY <2>1 DEF OnTheWay
  <2>4. stops[i] \in DOMAIN ids /\ stops[j] \in DOMAIN ids
    <3> HIDE DEF stops
    <3> QED
      BY <2>2, <2>3
  <2>5. SumTime(d, stops, i, j) \in Int
    BY RideTakes
  <2>6. /\ edge.from = ids[stops[i]] /\ edge.to = ids[stops[j]]
        /\ edge.weight = wait + SumTime(d, stops, i, j)
    BY <2>1 DEF Ride
  <2> QED
    BY <1>2, <2>4, <2>5, <2>6 DEF Range
<1> QED
  BY <1>1, <1>2

-----------------------------------------------------------------------------
(* The inductive invariant.                                                 *)

StageInv ==
  /\ db \in Bases /\ bus_wait_time \in WaitTimes /\ room \in {0, VertexCount}
  /\ stage \in {"stops", "buses", "router", "serving", "terminated"}
  /\ stage = "stops" => at \in 0 .. Len(db.stops)
  /\ stage = "buses" => at \in 0 .. Len(db.buses)
  /\ stage = "router" => pc \notin {"ready", "error"}
  /\ stage = "serving" => pc \in {"ready", "walk"}
  /\ pc = "walk" => stage = "serving"
  /\ request # <<>> => stage \in {"serving", "terminated"}

\* The stops met so far have numbers, later all stops, and there is room.
NumbersInv ==
  /\ IsNumbering(name_id)
  /\ stage = "stops" => DOMAIN name_id = FirstNames(db, at)
  /\ stage \in {"buses", "router", "serving"} => DOMAIN name_id = DOMAIN db.stop_by_name
  /\ stage # "terminated" => Cardinality(DOMAIN name_id) <= room

PlanInv ==
  /\ stage = "stops" => IsSeq(edges) /\ \A e \in DOMAIN edges : IsLoop(edges[e], name_id)
  /\ stage \in {"buses", "router", "serving"} =>
       IsPlan(edges, db, name_id, bus_wait_time)

\* Without vertices the constructor has nothing to do.
Idle == pc \in {"vertex", "relax", "ready"} /\ vertex = 0 /\ through = 0

\* The router has not started yet, or has its own invariants.
RoutingInv ==
  /\ stage \in {"stops", "buses"} =>
       IF room = 0 THEN NoVertices!Start(edges) ELSE P!Start(edges)
  /\ stage \in {"router", "serving"} =>
       IF room = 0 THEN Idle ELSE P!RouterInv /\ P!RouteInv

Refused(d, wait) ==
  \E b \in DOMAIN d.buses : \E way \in Ways(d.buses[b]) :
    \E i, j \in way : i < j /\ wait + SumTime(d, d.buses[b].stops, i, j) < 0

\* TerminatesOnlyFor, as a matter of values.
Explained(stg, rm, d, wait, req) ==
  stg = "terminated" =>
    \/ rm < Cardinality(DOMAIN d.stop_by_name)
    \/ \E b \in DOMAIN d.buses : d.buses[b].stops = <<>> /\ ~d.buses[b].is_roundtrip
    \/ Refused(d, wait)
    \/ req # <<>> /\ ~(Range(req) \subseteq DOMAIN d.stop_by_name)

\* The two are the same in every state.
LEMMA ExplainedNow ==
  TerminatesOnlyFor <=> Explained(stage, room, db, bus_wait_time, request)
  BY Zenon DEF TerminatesOnlyFor, Explained, Refused, SumTime, RideTime, RideLength

\* And so they are before and after a step.
LEMMA ExplainedIs ==
  /\ TerminatesOnlyFor <=> Explained(stage, room, db, bus_wait_time, request)
  /\ TerminatesOnlyFor' <=> Explained(stage', room', db', bus_wait_time', request')
<1>1. (TerminatesOnlyFor <=> Explained(stage, room, db, bus_wait_time, request))'
  BY ExplainedNow, PTL
<1> QED
  BY <1>1, ExplainedNow

ServiceInv == StageInv /\ NumbersInv /\ PlanInv /\ RoutingInv /\ TerminatesOnlyFor

\* The catalogue and the settings are what they are assumed to be.
LEMMA Given ==
  ASSUME StageInv
  PROVE  /\ IsFilled(db)
         /\ bus_wait_time \in Int
         /\ room \in Nat /\ VertexCount \in Nat
         /\ Len(db.stops) \in Nat /\ Len(db.buses) \in Nat
         /\ DOMAIN db.stops = 1 .. Len(db.stops)
         /\ DOMAIN db.buses = 1 .. Len(db.buses)
<1>1. IsFilled(db)
  BY BasesAssumption DEF StageInv
<1>2. bus_wait_time \in Int /\ room \in Nat /\ VertexCount \in Nat
  BY SettingsAssumption DEF StageInv
<1>3. db.stops \in Seq(Range(db.stops)) /\ db.buses \in Seq(Range(db.buses))
  BY <1>1 DEF IsFilled
<1> QED
  BY <1>1, <1>2, <1>3

\* At the beginning there is nothing.
LEMMA ServiceStarts == Init => ServiceInv
<1> SUFFICES ASSUME Init
             PROVE  ServiceInv
  OBVIOUS
<1>1. /\ db \in Bases /\ bus_wait_time \in WaitTimes /\ room \in {0, VertexCount}
      /\ stage = "stops" /\ at = 0 /\ name_id = <<>> /\ request = <<>>
      /\ edges = <<>> /\ pc = "vertex"
  BY DEF Init, R!Start, NoVertices!Start
<1>2. IsFilled(db)
  BY <1>1, BasesAssumption
<1>3. StageInv
  <2>1. Len(db.stops) \in Nat
    BY <1>2 DEF IsFilled
  <2> QED
    BY <1>1, <2>1 DEF StageInv
<1>4. NumbersInv
  <2>1. DOMAIN name_id = {} /\ Range(name_id) = {}
    BY <1>1 DEF Range
  <2>2. IsNumbering(name_id) /\ Cardinality(DOMAIN name_id) = 0
    BY <2>1, FS_EmptySet DEF IsNumbering
  <2>3. FirstNames(db, at) = {}
    BY <1>1, <1>2, KnownNames
  <2>4. room \in Nat
    BY <1>1, SettingsAssumption
  <2> QED
    BY <1>1, <2>1, <2>2, <2>3, <2>4 DEF NumbersInv
<1>5. PlanInv
  BY <1>1 DEF PlanInv, IsSeq
<1>6. RoutingInv
  BY <1>1
  DEF RoutingInv, Init, NoVertices!Start, R!Start, P!Start, NoVertices!Vertex,
      R!Vertex, P!Vertex, R!NoRoute, P!NoRoute, R!NoEdge, P!NoEdge,
      R!NoAnswer, P!NoAnswer, NoVertices!NoRoute, NoVertices!NoEdge, NoVertices!NoAnswer
<1>7. TerminatesOnlyFor
  BY <1>1 DEF TerminatesOnlyFor
<1> QED
  BY <1>3, <1>4, <1>5, <1>6, <1>7 DEF ServiceInv

\* One stop more has its number and its self-loop, or there is no room for it.
LEMMA FillStopKeeps == ServiceInv /\ FillStop => ServiceInv'
<1> SUFFICES ASSUME ServiceInv, FillStop
             PROVE  ServiceInv'
  OBVIOUS
<1> DEFINE stop == db.stops[at + 1].name
           ids  == CreateVertexId(name_id, stop)
           n    == Cardinality(DOMAIN name_id)
<1>1. StageInv /\ NumbersInv /\ PlanInv /\ RoutingInv
  BY DEF ServiceInv
<1>2. /\ stage = "stops" /\ at < Len(db.stops) /\ at' = at + 1
      /\ name_id' = ids
      /\ edges' = Append(edges, Loop(ids[stop]))
      /\ stage' = IF ids[stop] < room THEN stage ELSE "terminated"
      /\ UNCHANGED <<db, bus_wait_time, room, request, response>>
      /\ UNCHANGED <<pc, weight, prev_edge, vertex, cursor, through, from, to,
                     query, edge_id, path, answer>>
  BY DEF FillStop, Loop, routing
<1>3. /\ IsFilled(db) /\ room \in Nat /\ Len(db.stops) \in Nat
      /\ at \in 0 .. Len(db.stops) /\ at \in Nat
      /\ pc # "walk" /\ request = <<>>
  BY <1>1, <1>2, Given DEF StageInv
<1>4. DOMAIN name_id = FirstNames(db, at) /\ IsNumbering(name_id) /\ n <= room
  BY <1>1, <1>2 DEF NumbersInv
<1>5. /\ IsNumbering(ids) /\ n \in Nat
      /\ DOMAIN ids = DOMAIN name_id \cup {stop}
      /\ \A s \in DOMAIN name_id : ids[s] = name_id[s] /\ name_id[s] \in 0 .. n - 1
      /\ stop \notin DOMAIN name_id => ids[stop] = n /\ Cardinality(DOMAIN ids) = n + 1
      /\ stop \in DOMAIN name_id => ids = name_id
  BY <1>4, NumberingGrows
<1>6. DOMAIN ids = FirstNames(db, at + 1) /\ FirstNames(db, at + 1) \subseteq DOMAIN db.stop_by_name
  <2>1. FirstNames(db, at + 1) = FirstNames(db, at) \cup {stop}
    BY <1>3, KnownNames
  <2>2. at + 1 \in 0 .. Len(db.stops)
    BY <1>2, <1>3
  <2>3. FirstNames(db, at + 1) \subseteq DOMAIN db.stop_by_name
    BY <1>3, <2>2, KnownNames
  <2> QED
    BY <1>4, <1>5, <2>1, <2>3
<1> HIDE DEF ids, stop, n
<1>7. StageInv'
  BY <1>1, <1>2, <1>3 DEF StageInv
<1>8. NumbersInv'
  <2>1. stage' # "terminated" => Cardinality(DOMAIN ids) <= room
    <3>1. CASE stop \in DOMAIN name_id
      BY <1>4, <1>5, <3>1 DEF n
    <3>2. CASE stop \notin DOMAIN name_id
      BY <1>2, <1>3, <1>5, <3>2
    <3> QED
      BY <3>1, <3>2
  <2>2. stage' \in {"stops", "terminated"}
    BY <1>2
  <2> QED
    BY <1>2, <1>5, <1>6, <2>1, <2>2 DEF NumbersInv
<1>9. PlanInv'
  <2>1. IsSeq(edges) /\ \A e \in DOMAIN edges : IsLoop(edges[e], name_id)
    BY <1>1, <1>2 DEF PlanInv
  <2>2. IsSeq(edges') /\ \A e \in DOMAIN edges' : IsLoop(edges'[e], ids)
    <3>1. DOMAIN name_id \subseteq DOMAIN ids /\ stop \in DOMAIN ids
      BY <1>5
    <3> QED
      BY <1>2, <1>5, <2>1, <3>1, PlanWithStop, SMTT(40)
  <2>3. stage' \in {"stops", "terminated"}
    BY <1>2
  <2> QED
    BY <1>2, <2>2, <2>3 DEF PlanInv
<1>10. RoutingInv'
  <2>1. IF room = 0 THEN NoVertices!Start(edges) ELSE P!Start(edges)
    BY <1>1, <1>2 DEF RoutingInv
  <2>2. IF room' = 0 THEN NoVertices!Start(edges)' ELSE P!Start(edges)'
    BY <1>2, <2>1 DEF NoVertices!Start, P!Start
  <2>3. stage' \in {"stops", "terminated"}
    BY <1>2
  <2> QED
    BY <2>2, <2>3 DEF RoutingInv
<1>11. TerminatesOnlyFor'
  <2> SUFFICES ASSUME stage' = "terminated"
               PROVE  room < Cardinality(DOMAIN db.stop_by_name)
    BY <1>2 DEF TerminatesOnlyFor
  <2>1. ~ (ids[stop] < room)
    BY <1>2
  <2>2. stop \notin DOMAIN name_id
    BY <1>3, <1>4, <1>5, <2>1
  <2>3. Cardinality(DOMAIN ids) = n + 1 /\ room <= n
    BY <1>3, <1>5, <2>1, <2>2
  <2>4. /\ IsFiniteSet(DOMAIN db.stop_by_name)
        /\ Cardinality(DOMAIN ids) <= Cardinality(DOMAIN db.stop_by_name)
    BY <1>3, <1>6, KnownNames, FS_Subset
  <2>5. Cardinality(DOMAIN db.stop_by_name) \in Nat
    BY <2>4, FS_CardinalityType
  <2> QED
    BY <1>3, <1>5, <2>3, <2>4, <2>5
<1> QED
  BY <1>7, <1>8, <1>9, <1>10, <1>11 DEF ServiceInv

\* After the last stop all of them have numbers.
LEMMA EndStopsKeeps == ServiceInv /\ EndStops => ServiceInv'
<1> SUFFICES ASSUME ServiceInv, EndStops
             PROVE  ServiceInv'
  OBVIOUS
<1>1. StageInv /\ NumbersInv /\ PlanInv /\ RoutingInv
  BY DEF ServiceInv
<1>2. /\ stage = "stops" /\ at = Len(db.stops) /\ stage' = "buses" /\ at' = 0
      /\ UNCHANGED <<db, bus_wait_time, room, name_id, request, response, edges>>
      /\ UNCHANGED <<pc, weight, prev_edge, vertex, cursor, through, from, to,
                     query, edge_id, path, answer>>
  BY DEF EndStops, routing
<1>3. IsFilled(db) /\ Len(db.buses) \in Nat
  BY <1>1, Given
<1>4. StageInv'
  BY <1>1, <1>2, <1>3 DEF StageInv
<1>5. NumbersInv'
  <2>1. DOMAIN name_id = DOMAIN db.stop_by_name
    BY <1>1, <1>2, <1>3, KnownNames DEF NumbersInv
  <2> QED
    BY <1>1, <1>2, <2>1 DEF NumbersInv
<1>6. PlanInv'
  BY <1>1, <1>2 DEF PlanInv, IsPlan
<1>7. RoutingInv'
  <2>1. IF room = 0 THEN NoVertices!Start(edges) ELSE P!Start(edges)
    BY <1>1, <1>2 DEF RoutingInv
  <2>2. IF room' = 0 THEN NoVertices!Start(edges)' ELSE P!Start(edges)'
    BY <1>2, <2>1 DEF NoVertices!Start, P!Start
  <2> QED
    BY <1>2, <2>2 DEF RoutingInv
<1>8. TerminatesOnlyFor'
  BY <1>2 DEF TerminatesOnlyFor
<1> QED
  BY <1>4, <1>5, <1>6, <1>7, <1>8 DEF ServiceInv

\* One bus more has its rides, or the process dies of a bus without stops.
LEMMA FillBusKeeps == ServiceInv /\ FillBus => ServiceInv'
<1> SUFFICES ASSUME ServiceInv, FillBus
             PROVE  ServiceInv'
  OBVIOUS
<1> DEFINE b   == at + 1
           bus == db.buses[b]
<1>1. StageInv /\ NumbersInv /\ PlanInv /\ RoutingInv
  BY DEF ServiceInv
<1>2. /\ stage = "buses" /\ at < Len(db.buses) /\ at' = at + 1
      /\ IF bus.stops = <<>> /\ ~bus.is_roundtrip
         THEN stage' = "terminated" /\ UNCHANGED edges
         ELSE stage' = stage /\ edges' = edges \o EdgesOfBus(bus)
      /\ UNCHANGED <<db, bus_wait_time, room, name_id, request, response>>
      /\ UNCHANGED <<pc, weight, prev_edge, vertex, cursor, through, from, to,
                     query, edge_id, path, answer>>
  BY DEF FillBus, routing
<1>3. b \in DOMAIN db.buses /\ at' \in 0 .. Len(db.buses) /\ request = <<>> /\ pc # "walk"
  BY <1>1, <1>2, Given DEF StageInv
<1> HIDE DEF b
<1>4. StageInv'
  BY <1>1, <1>2, <1>3 DEF StageInv
<1>5. NumbersInv'
  BY <1>1, <1>2 DEF NumbersInv
<1>6. PlanInv'
  <2> SUFFICES ASSUME stage' = "buses"
               PROVE  IsPlan(edges', db, name_id, bus_wait_time)
    BY <1>2 DEF PlanInv
  <2>1. edges' = edges \o EdgesOfBus(bus) /\ (bus.stops = <<>> => bus.is_roundtrip)
    BY <1>2
  <2>2. /\ IsSeq(EdgesOfBus(bus))
        /\ \A edge \in Range(EdgesOfBus(bus)) : IsRide(edge, db, name_id, bus_wait_time)
    BY <1>1, <1>3, <2>1, EdgesOfBusAreRides DEF StageInv
  <2>3. IsPlan(edges, db, name_id, bus_wait_time)
    BY <1>1, <1>2 DEF PlanInv
  <2> HIDE DEF bus
  <2> QED
    BY <2>1, <2>2, <2>3, PlanWithBus
<1>7. RoutingInv'
  <2>1. IF room = 0 THEN NoVertices!Start(edges) ELSE P!Start(edges)
    BY <1>1, <1>2 DEF RoutingInv
  <2>2. IF room' = 0 THEN NoVertices!Start(edges)' ELSE P!Start(edges)'
    BY <1>2, <2>1 DEF NoVertices!Start, P!Start
  <2>3. stage' \in {"buses", "terminated"}
    BY <1>2
  <2> QED
    BY <2>2, <2>3 DEF RoutingInv
<1>8. TerminatesOnlyFor'
  BY <1>2, <1>3 DEF TerminatesOnlyFor
<1> QED
  BY <1>4, <1>5, <1>6, <1>7, <1>8 DEF ServiceInv

\* A complete plan is a graph for the router.
LEMMA PlanIsGraph ==
  ASSUME StageInv, NumbersInv, PlanInv, stage \in {"buses", "router", "serving"},
         room # 0
  PROVE  P!IsGraph(edges)
<1>1. /\ db \in Bases /\ bus_wait_time \in Int /\ room = VertexCount
      /\ IsSeq(edges)
      /\ DOMAIN name_id = DOMAIN db.stop_by_name
      /\ \A e \in DOMAIN edges : IsLoop(edges[e], name_id)
                                 \/ IsRide(edges[e], db, name_id, bus_wait_time)
  BY SettingsAssumption DEF StageInv, NumbersInv, PlanInv, IsPlan
<1>2. Range(name_id) \subseteq 0 .. VertexCount - 1
  <2>1. /\ Range(name_id) = 0 .. Cardinality(DOMAIN name_id) - 1
        /\ Cardinality(DOMAIN name_id) <= VertexCount
        /\ Cardinality(DOMAIN name_id) \in Nat
    BY <1>1, FS_CardinalityType DEF NumbersInv, IsNumbering
  <2> QED
    BY <2>1, SettingsAssumption
<1>3. ASSUME NEW e \in DOMAIN edges
      PROVE  /\ edges[e].from \in Range(name_id) /\ edges[e].to \in Range(name_id)
             /\ edges[e].weight \in Int
  BY <1>1, PlanEdges
<1> QED
  BY <1>1, <1>2, <1>3 DEF P!IsGraph, P!Vertex, IsSeq, P!Range, Range

\* The router starts as the proofs about it expect.
LEMMA CreateRouterKeeps == ServiceInv /\ CreateRouter => ServiceInv'
<1> SUFFICES ASSUME ServiceInv, CreateRouter
             PROVE  ServiceInv'
  OBVIOUS
<1>1. StageInv /\ NumbersInv /\ PlanInv /\ RoutingInv
  BY DEF ServiceInv
<1>2. /\ stage = "buses" /\ stage' = "router"
      /\ UNCHANGED <<db, bus_wait_time, room, at, name_id, request, response, edges>>
      /\ UNCHANGED <<pc, weight, prev_edge, vertex, cursor, through, from, to,
                     query, edge_id, path, answer>>
  BY DEF CreateRouter, routing
<1>3. IF room = 0 THEN NoVertices!Start(edges) ELSE P!Start(edges)
  BY <1>1, <1>2 DEF RoutingInv
<1>4. pc = "vertex"
  BY <1>3 DEF NoVertices!Start, P!Start
<1>5. StageInv'
  BY <1>1, <1>2, <1>4 DEF StageInv
<1>6. NumbersInv' /\ PlanInv' /\ TerminatesOnlyFor'
  BY <1>1, <1>2 DEF NumbersInv, PlanInv, TerminatesOnlyFor
<1>7. CASE room = 0
  <2>1. Idle'
    BY <1>2, <1>3, <1>7 DEF Idle, NoVertices!Start
  <2> QED
    BY <1>2, <1>5, <1>6, <1>7, <2>1 DEF ServiceInv, RoutingInv
<1>8. CASE room # 0
  <2>1. P!IsGraph(edges) /\ P!Start(edges)
    BY <1>1, <1>2, <1>3, <1>8, PlanIsGraph
  <2>2. P!VertexCountAssumption /\ P!GraphsAssumption
    BY SettingsAssumption DEF P!VertexCountAssumption, P!GraphsAssumption
  <2>3. P!RouterInv /\ P!RouteInv
    BY <2>1, <2>2, P!RouterStarts, P!TreesStart
  <2>4. P!vars' = P!vars
    BY <1>2 DEF P!vars, P!matrix, P!loops, P!building
  <2>5. P!RouterInv' /\ P!RouteInv'
    BY <2>2, <2>3, <2>4, P!RouterSteps, P!TreesStep
  <2> QED
    BY <1>2, <1>5, <1>6, <1>8, <2>5 DEF ServiceInv, RoutingInv
<1> QED
  BY <1>7, <1>8

\* The router inside and the one the proofs are about take the same steps.
LEMMA SameConstruct ==
  ASSUME R!Construct
  PROVE  /\ P!Construct
         /\ pc' \in {"vertex", "edges", "relax", "ready", "error"}
         /\ UNCHANGED <<edges, query, edge_id, path, answer>>
         /\ pc' = "error" =>
              \/ pc = "error"
              \/ \E e \in DOMAIN edges : edges[e].weight < 0
<1>1. CASE R!EnterVertex
  BY <1>1 DEF R!EnterVertex, P!EnterVertex, P!Construct, R!building, P!building,
              R!NoEdge, P!NoEdge
<1>2. CASE R!LeaveVertex
  BY <1>2 DEF R!LeaveVertex, P!LeaveVertex, P!Construct, R!building, P!building,
              R!matrix, P!matrix, R!Unvisited, P!Unvisited
<1>3. CASE R!BeginRelaxation \/ R!FinishRelaxation
  BY <1>3 DEF R!BeginRelaxation, P!BeginRelaxation, R!FinishRelaxation,
              P!FinishRelaxation, P!Construct, R!building, P!building,
              R!matrix, P!matrix, R!loops, P!loops
<1>4. CASE R!SkipRow
  BY <1>4 DEF R!SkipRow, P!SkipRow, P!Construct, R!building, P!building,
              R!matrix, P!matrix, R!Known, P!Known, R!NoRoute, P!NoRoute,
              R!NextRow, P!NextRow
<1>5. CASE R!RelaxRoute
  BY <1>5 DEF R!RelaxRoute, P!RelaxRoute, P!Construct, R!building, P!building,
              R!matrix, P!matrix, R!Known, P!Known, R!NoRoute, P!NoRoute,
              R!NextRow, P!NextRow, R!NextCell, P!NextCell, R!Improves, P!Improves,
              R!Candidate, P!Candidate, R!LastEdge, P!LastEdge, R!NoEdge, P!NoEdge
<1>6. CASE \E e \in R!Unvisited : R!VisitEdge(e)
  <2>1. PICK e \in R!Unvisited : R!VisitEdge(e)
    BY <1>6
  <2>2. P!VisitEdge(e) /\ e \in P!Unvisited
    BY <2>1 DEF R!VisitEdge, P!VisitEdge, R!Unvisited, P!Unvisited, R!Improves,
                P!Improves, R!Known, P!Known, R!NoRoute, P!NoRoute, R!matrix,
                P!matrix, R!building, P!building
  <2>3. e \in DOMAIN edges
    BY <2>1 DEF R!Unvisited
  <2>4. pc' = "error" => edges[e].weight < 0
    BY <2>1 DEF R!VisitEdge
  <2>5. pc' \in {"edges", "error"} /\ UNCHANGED <<edges, query, edge_id, path, answer>>
    BY <2>1 DEF R!VisitEdge, R!building
  <2> QED
    BY <2>2, <2>3, <2>4, <2>5 DEF P!Construct
<1> QED
  BY <1>1, <1>2, <1>3, <1>4, <1>5, <1>6 DEF R!Construct

\* A ride the constructor refuses takes, with the wait, less than no time.
LEMMA RefusedRide ==
  ASSUME StageInv, IsPlan(edges, db, name_id, bus_wait_time),
         DOMAIN name_id = DOMAIN db.stop_by_name,
         NEW e \in DOMAIN edges, edges[e].weight < 0
  PROVE  Refused(db, bus_wait_time)
<1>1. db \in Bases /\ bus_wait_time \in Int
  BY Given DEF StageInv
<1>2. IsLoop(edges[e], name_id) \/ IsRide(edges[e], db, name_id, bus_wait_time)
  BY DEF IsPlan
<1>3. IsRide(edges[e], db, name_id, bus_wait_time)
  <2>1. edges[e].weight # 0 => IsRide(edges[e], db, name_id, bus_wait_time)
    BY <1>1, <1>2, PlanEdges
  <2> QED
    BY <2>1
<1>4. PICK b \in DOMAIN db.buses, i \in Nat, j \in Nat :
        OnTheWay(db.buses[b], i, j)
        /\ edges[e] = Ride(db, name_id, bus_wait_time, db.buses[b], i, j)
  BY <1>3 DEF IsRide
<1>5. edges[e].weight = bus_wait_time + SumTime(db, db.buses[b].stops, i, j)
  BY <1>4 DEF Ride
<1>6. PICK way \in Ways(db.buses[b]) : i \in way /\ j \in way /\ i < j
  BY <1>4 DEF OnTheWay
<1>7. bus_wait_time + SumTime(db, db.buses[b].stops, i, j) < 0
  BY <1>5
<1> QED
  BY <1>6, <1>7 DEF Refused

\* The router at work: it goes on, is ready, or refuses a ride.
LEMMA ConstructRouterKeeps == ServiceInv /\ ConstructRouter => ServiceInv'
<1> SUFFICES ASSUME ServiceInv, ConstructRouter
             PROVE  ServiceInv'
  OBVIOUS
<1>1. StageInv /\ NumbersInv /\ PlanInv /\ RoutingInv
  BY DEF ServiceInv
<1>2. /\ stage = "router"
      /\ UNCHANGED <<db, bus_wait_time, room, at, name_id, request, response>>
      /\ IF room = 0 THEN NoVertices!Construct ELSE R!Construct
  BY DEF ConstructRouter
<1>3. /\ pc' = "ready" => stage' = "serving"
      /\ pc' = "error" => stage' = "terminated"
      /\ pc' \notin {"ready", "error"} => stage' = "router"
  BY <1>2 DEF ConstructRouter
<1>4. pc \notin {"ready", "error", "walk"} /\ request = <<>>
  BY <1>1, <1>2 DEF StageInv
<1>5. IsPlan(edges, db, name_id, bus_wait_time) /\ DOMAIN name_id = DOMAIN db.stop_by_name
  BY <1>1, <1>2 DEF PlanInv, NumbersInv
<1>6. CASE room = 0
  <2>1. Idle
    BY <1>1, <1>2, <1>6 DEF RoutingInv
  <2>2. /\ pc' \in {"relax", "ready"} /\ vertex' = vertex /\ through' = through
        /\ edges' = edges
    BY <1>2, <1>6, <2>1
    DEF Idle, NoVertices!Construct, NoVertices!EnterVertex, NoVertices!VisitEdge,
        NoVertices!LeaveVertex, NoVertices!BeginRelaxation, NoVertices!SkipRow,
        NoVertices!RelaxRoute, NoVertices!FinishRelaxation, NoVertices!loops
  <2>3. stage' \in {"router", "serving"} /\ (stage' = "router" <=> pc' = "relax")
    BY <1>3, <2>2
  <2>4. StageInv'
    BY <1>1, <1>2, <1>4, <2>2, <2>3 DEF StageInv
  <2>5. NumbersInv' /\ PlanInv' /\ TerminatesOnlyFor'
    BY <1>1, <1>2, <1>5, <2>2, <2>3 DEF NumbersInv, PlanInv, TerminatesOnlyFor
  <2>6. RoutingInv'
    BY <1>2, <1>6, <2>1, <2>2, <2>3 DEF RoutingInv, Idle
  <2> QED
    BY <2>4, <2>5, <2>6 DEF ServiceInv
<1>7. CASE room # 0
  <2>1. P!RouterInv /\ P!RouteInv
    BY <1>1, <1>2, <1>7 DEF RoutingInv
  <2>2. /\ P!Construct
        /\ pc' \in {"vertex", "edges", "relax", "ready", "error"}
        /\ edges' = edges
        /\ pc' = "error" => \E e \in DOMAIN edges : edges[e].weight < 0
    BY <1>2, <1>4, <1>7, SameConstruct
  <2>3. P!VertexCountAssumption /\ P!GraphsAssumption
    BY SettingsAssumption DEF P!VertexCountAssumption, P!GraphsAssumption
  <2>4. P!RouterInv' /\ P!RouteInv'
    BY <2>1, <2>2, <2>3, P!RouterSteps, P!TreesStep DEF P!Next
  <2>5. /\ stage' \in {"router", "serving", "terminated"}
        /\ stage' = "router" => pc' \notin {"ready", "error"}
        /\ stage' = "serving" => pc' = "ready"
        /\ stage' = "terminated" => pc' = "error"
        /\ pc' # "walk"
    BY <1>3, <2>2
  <2>6. StageInv'
    BY <1>1, <1>2, <1>4, <2>5 DEF StageInv
  <2>7. NumbersInv' /\ PlanInv'
    BY <1>1, <1>2, <1>5, <2>2, <2>5 DEF NumbersInv, PlanInv
  <2>8. RoutingInv'
    BY <1>2, <1>7, <2>4, <2>5 DEF RoutingInv
  <2>9. TerminatesOnlyFor'
    <3>1. CASE stage' = "terminated"
      <4>1. PICK e \in DOMAIN edges : edges[e].weight < 0
        BY <2>2, <2>5, <3>1
      <4>2. Refused(db, bus_wait_time)
        BY <1>1, <1>5, <4>1, RefusedRide
      <4>3. Explained(stage', room', db', bus_wait_time', request')
        BY <1>2, <4>2 DEF Explained
      <4> QED
        BY <4>3, ExplainedIs
    <3>2. CASE stage' # "terminated"
      BY <3>2 DEF TerminatesOnlyFor
    <3> QED
      BY <3>1, <3>2
  <2> QED
    BY <2>6, <2>7, <2>8, <2>9 DEF ServiceInv
<1> QED
  BY <1>6, <1>7

\* A question is put to the router, or the process dies of an unknown name.
LEMMA AskRouteKeeps ==
  ASSUME ServiceInv, NEW f, NEW t, AskRoute(f, t)
  PROVE  ServiceInv'
<1>1. StageInv /\ NumbersInv /\ PlanInv /\ RoutingInv
  BY DEF ServiceInv
<1>2. /\ pc = "ready" /\ stage = "serving"
      /\ request' = <<f, t>> /\ response' = NoResponse
      /\ UNCHANGED <<db, bus_wait_time, room, at, name_id>>
  BY DEF AskRoute
<1>3. DOMAIN name_id = DOMAIN db.stop_by_name /\ IsNumbering(name_id)
      /\ Cardinality(DOMAIN name_id) <= room
  BY <1>1, <1>2 DEF NumbersInv
<1>4. CASE f \in DOMAIN name_id /\ t \in DOMAIN name_id
  <2>1. R!Ask(name_id[f], name_id[t]) /\ stage' = stage
    BY <1>4 DEF AskRoute
  <2>2. room # 0 /\ room = VertexCount /\ name_id[f] \in 0 .. VertexCount - 1
        /\ name_id[t] \in 0 .. VertexCount - 1
    <3>1. /\ name_id[f] \in 0 .. Cardinality(DOMAIN name_id) - 1
          /\ name_id[t] \in 0 .. Cardinality(DOMAIN name_id) - 1
      BY <1>3, <1>4 DEF IsNumbering, Range
    <3>2. Cardinality(DOMAIN name_id) \in Nat /\ room \in {0, VertexCount} /\ VertexCount \in Nat
      BY <1>1, <1>3, Given, FS_CardinalityType DEF IsNumbering, StageInv
    <3> QED
      BY <1>3, <3>1, <3>2
  <2>3. P!Ask(name_id[f], name_id[t])
    BY <2>1 DEF R!Ask, P!Ask, R!matrix, P!matrix, R!loops, P!loops, R!NoAnswer, P!NoAnswer
  <2>4. P!Next
    <3>1. \E v, w \in P!Vertex : P!Ask(v, w)
      BY <2>2, <2>3 DEF P!Vertex
    <3> QED
      BY <3>1 DEF P!Next
  <2>5. P!VertexCountAssumption /\ P!GraphsAssumption
    BY SettingsAssumption DEF P!VertexCountAssumption, P!GraphsAssumption
  <2>6. P!RouterInv /\ P!RouteInv
    BY <1>1, <1>2, <2>2 DEF RoutingInv
  <2>7. P!RouterInv' /\ P!RouteInv'
    BY <2>4, <2>5, <2>6, P!RouterSteps, P!TreesStep
  <2>8. pc' = "walk" /\ edges' = edges
    BY <2>3 DEF P!Ask
  <2>9. StageInv'
    BY <1>1, <1>2, <2>1, <2>8 DEF StageInv
  <2>10. NumbersInv' /\ PlanInv' /\ TerminatesOnlyFor'
    BY <1>1, <1>2, <2>1, <2>8 DEF NumbersInv, PlanInv, TerminatesOnlyFor
  <2>11. RoutingInv'
    BY <1>2, <2>1, <2>2, <2>7 DEF RoutingInv
  <2> QED
    BY <2>9, <2>10, <2>11 DEF ServiceInv
<1>5. CASE ~ (f \in DOMAIN name_id /\ t \in DOMAIN name_id)
  <2>1. stage' = "terminated" /\ pc' = pc
    BY <1>5 DEF AskRoute, routing
  <2>2. StageInv' /\ NumbersInv' /\ PlanInv' /\ RoutingInv'
    BY <1>1, <1>2, <2>1 DEF StageInv, NumbersInv, PlanInv, RoutingInv
  <2>3. request' # <<>> /\ ~ (Range(request') \subseteq DOMAIN db'.stop_by_name)
    BY <1>2, <1>3, <1>5 DEF Range
  <2>4. TerminatesOnlyFor'
    BY <2>3 DEF TerminatesOnlyFor
  <2> QED
    BY <2>2, <2>4 DEF ServiceInv
<1> QED
  BY <1>4, <1>5

\* BuildRoute takes a step.
LEMMA BuildRouteKeeps ==
  ASSUME ServiceInv, R!PushEdge \/ R!ReturnRoute \/ R!ReturnNothing,
         UNCHANGED <<db, bus_wait_time, room, stage, at, name_id, request>>
  PROVE  ServiceInv'
<1>1. StageInv /\ NumbersInv /\ PlanInv /\ RoutingInv
  BY DEF ServiceInv
<1>2. P!BuildRoute /\ pc = "walk" /\ pc' \in {"walk", "ready"} /\ edges' = edges
  BY DEF P!BuildRoute, R!PushEdge, P!PushEdge, R!ReturnRoute, P!ReturnRoute,
         R!ReturnNothing, P!ReturnNothing, R!Known, P!Known, R!NoRoute, P!NoRoute,
         R!NoEdge, P!NoEdge, R!NoAnswer, P!NoAnswer, R!matrix, P!matrix,
         R!loops, P!loops, R!Reverse, P!Reverse
<1>3. stage = "serving" /\ room # 0
  BY <1>1, <1>2 DEF StageInv, RoutingInv, Idle
<1>4. P!VertexCountAssumption /\ P!GraphsAssumption
  BY SettingsAssumption DEF P!VertexCountAssumption, P!GraphsAssumption
<1>5. P!RouterInv' /\ P!RouteInv'
  BY <1>1, <1>2, <1>3, <1>4, P!RouterSteps, P!TreesStep DEF P!Next, RoutingInv
<1>6. StageInv'
  BY <1>1, <1>2, <1>3 DEF StageInv
<1>7. NumbersInv' /\ PlanInv' /\ TerminatesOnlyFor'
  BY <1>1, <1>2, <1>3 DEF NumbersInv, PlanInv, TerminatesOnlyFor
<1>8. RoutingInv'
  BY <1>3, <1>5 DEF RoutingInv
<1> QED
  BY <1>6, <1>7, <1>8 DEF ServiceInv

\* Nothing happens.
LEMMA ServiceStutters == ServiceInv /\ UNCHANGED vars => ServiceInv'
<1> SUFFICES ASSUME ServiceInv, UNCHANGED vars
             PROVE  ServiceInv'
  OBVIOUS
<1>1. /\ UNCHANGED <<db, bus_wait_time, room, stage, at, name_id, request, response, edges>>
      /\ UNCHANGED <<pc, weight, prev_edge, vertex, cursor, through, from, to,
                     query, edge_id, path, answer>>
  BY DEF vars, own, routing
<1>2. StageInv' /\ NumbersInv' /\ PlanInv'
  BY <1>1 DEF ServiceInv, StageInv, NumbersInv, PlanInv
<1>3. TerminatesOnlyFor'
  BY <1>1, ExplainedIs DEF ServiceInv
<1>4. RoutingInv'
  <2>1. RoutingInv
    BY DEF ServiceInv
  <2>2. CASE stage \in {"stops", "buses"}
    BY <1>1, <2>1, <2>2 DEF RoutingInv, NoVertices!Start, P!Start
  <2>3. CASE room = 0 /\ stage \in {"router", "serving"}
    BY <1>1, <2>1, <2>3 DEF RoutingInv, Idle
  <2>4. CASE room # 0 /\ stage \in {"router", "serving"}
    <3>1. P!vars' = P!vars
      BY <1>1 DEF P!vars, P!matrix, P!loops, P!building
    <3>2. P!VertexCountAssumption /\ P!GraphsAssumption
      BY SettingsAssumption DEF P!VertexCountAssumption, P!GraphsAssumption
    <3>3. P!RouterInv' /\ P!RouteInv'
      BY <2>1, <2>4, <3>1, <3>2, P!RouterSteps, P!TreesStep DEF RoutingInv
    <3> QED
      BY <1>1, <2>4, <3>3 DEF RoutingInv
  <2>5. CASE stage \notin {"stops", "buses", "router", "serving"}
    BY <1>1, <2>5 DEF RoutingInv
  <2> QED
    BY <2>2, <2>3, <2>4, <2>5
<1> QED
  BY <1>2, <1>3, <1>4 DEF ServiceInv

\* Every step keeps the invariant.
LEMMA ServiceSteps == ServiceInv /\ [Next]_vars => ServiceInv'
<1> SUFFICES ASSUME ServiceInv, [Next]_vars
             PROVE  ServiceInv'
  OBVIOUS
<1>1. CASE Build
  BY <1>1, FillStopKeeps, EndStopsKeeps, FillBusKeeps, CreateRouterKeeps,
     ConstructRouterKeeps DEF Build
<1>2. CASE \E f, t \in Names : AskRoute(f, t)
  BY <1>2, AskRouteKeeps
<1>3. CASE WalkRoute \/ Respond
  <2>1. UNCHANGED <<db, bus_wait_time, room, stage, at, name_id, request>>
    BY <1>3 DEF WalkRoute, Respond, own
  <2>2. R!PushEdge \/ R!ReturnRoute \/ R!ReturnNothing
    BY <1>3 DEF WalkRoute, Respond
  <2> QED
    BY <2>1, <2>2, BuildRouteKeeps
<1>4. CASE UNCHANGED vars
  BY <1>4, ServiceStutters
<1> QED
  BY <1>1, <1>2, <1>3, <1>4 DEF Next

\* The inductive invariant of the transport router, the router inside included.
THEOREM ServiceCorrect == Spec => []ServiceInv
  BY ServiceStarts, ServiceSteps, PTL DEF Spec

\* The process only dies for one of the reasons listed.
THEOREM TerminationsExplained == Spec => []TerminatesOnlyFor
<1>1. ServiceInv => TerminatesOnlyFor
  BY DEF ServiceInv
<1> QED
  BY <1>1, ServiceCorrect, PTL

\* The stops are numbered without gaps, and every edge joins vertices the
\* graph has.
THEOREM VerticesCorrect == Spec => []VerticesInv
<1>1. ASSUME ServiceInv
      PROVE  VerticesInv
  <2>1. StageInv /\ NumbersInv /\ PlanInv /\ IsNumbering(name_id)
    BY <1>1 DEF ServiceInv, NumbersInv
  <2>2. Range(name_id) = 0 .. Cardinality(DOMAIN name_id) - 1
    BY <2>1 DEF IsNumbering
  <2> SUFFICES ASSUME stage # "terminated"
               PROVE  /\ Range(name_id) \subseteq 0 .. room - 1
                      /\ \A e \in DOMAIN edges :
                           {edges[e].from, edges[e].to} \subseteq Range(name_id)
    BY <2>2 DEF VerticesInv
  <2>3. Range(name_id) \subseteq 0 .. room - 1
    <3>1. Cardinality(DOMAIN name_id) <= room /\ Cardinality(DOMAIN name_id) \in Nat
          /\ room \in Nat
      BY <2>1, Given, FS_CardinalityType DEF NumbersInv, IsNumbering
    <3> QED
      BY <2>2, <3>1
  <2>4. ASSUME NEW e \in DOMAIN edges
        PROVE  edges[e].from \in Range(name_id) /\ edges[e].to \in Range(name_id)
    <3>1. CASE stage = "stops"
      <4>1. IsLoop(edges[e], name_id)
        BY <2>1, <3>1 DEF PlanInv
      <4> QED
        BY <4>1, LoopEnds
    <3>2. CASE stage # "stops"
      <4>1. stage \in {"buses", "router", "serving"}
        BY <2>1, <3>2 DEF StageInv
      <4>2. /\ IsLoop(edges[e], name_id) \/ IsRide(edges[e], db, name_id, bus_wait_time)
            /\ DOMAIN name_id = DOMAIN db.stop_by_name
            /\ db \in Bases /\ bus_wait_time \in Int
        BY <2>1, <4>1, Given DEF PlanInv, IsPlan, NumbersInv, StageInv
      <4> QED
        BY <4>2, PlanEdges
    <3> QED
      BY <3>1, <3>2
  <2> QED
    BY <2>3, <2>4
<1> QED
  BY <1>1, ServiceCorrect, PTL

-----------------------------------------------------------------------------
(* Itineraries.                                                             *)

\* The items told for the edges of a walk, as a matter of values.
WaitAt(ids, wait, edge) ==
  [type |-> "Wait", stop_name |-> CHOOSE s \in DOMAIN ids : ids[s] = edge.from,
   time |-> wait]

TravelBy(wait, edge) ==
  [type |-> "Bus", bus |-> edge.name, span_count |-> edge.span_count,
   time |-> edge.weight - wait]

ItemsOf(graph, ids, wait, w) ==
  FlattenSeq([k \in DOMAIN w |-> <<WaitAt(ids, wait, graph[w[k]]), TravelBy(wait, graph[w[k]])>>])

TotalOf(items) == MapThenSumSet(LAMBDA k : items[k].time, DOMAIN items)

\* CanRide and ItemsAreAnItinerary, as a matter of values.
Rideable(d, travel, s, t) ==
  \E b \in DOMAIN d.buses : \E way \in Ways(d.buses[b]) : \E i \in way :
    LET bus == d.buses[b]
        j   == i + travel.span_count
    IN /\ bus.name = travel.bus
       /\ j \in way
       /\ bus.stops[i] = s
       /\ bus.stops[j] = t
       /\ SumTime(d, bus.stops, i, j) = travel.time

PlaceOf(items, t, k) == IF k > Len(items) \div 2 THEN t ELSE items[2 * k - 1].stop_name

IsItinerary(d, items, total, s, t) ==
  /\ Len(items) = 2 * (Len(items) \div 2)
  /\ PlaceOf(items, t, 1) = s
  /\ \A k \in 1 .. Len(items) \div 2 :
       /\ items[2 * k - 1].type = "Wait"
       /\ items[2 * k].type = "Bus"
       /\ items[2 * k].span_count > 0
       /\ Rideable(d, items[2 * k], PlaceOf(items, t, k), PlaceOf(items, t, k + 1))
  /\ total = TotalOf(items)

\* An itinerary a passenger can take who waits so long for every bus.
IsTrip(d, wait, items, total, s, t) ==
  /\ IsSeq(items)
  /\ IsItinerary(d, items, total, s, t)
  /\ \A k \in 1 .. Len(items) \div 2 :
       items[2 * k - 1].time = wait /\ items[2 * k].span_count \in Nat

\* A walk along edges that lead on, from one number to another.
LeadsOn(graph, w, f, t) ==
  /\ w = <<>> => f = t
  /\ w # <<>> => graph[w[1]].from = f /\ graph[w[Len(w)]].to = t
  /\ \A k \in 1 .. Len(w) - 1 : graph[w[k]].to = graph[w[k + 1]].from
  /\ \A k \in 1 .. Len(w) : graph[w[k]].from # graph[w[k]].to

\* The sum of the times of some items is the sum of a function.
LEMMA TotalIsSum ==
  ASSUME NEW items, IsFiniteSet(DOMAIN items),
         NEW tm, \A k \in DOMAIN items : tm[k] = items[k].time
  PROVE  \E f : IsSetSum(f, DOMAIN items, tm) /\ TotalOf(items) = f[DOMAIN items]
<1> DEFINE S == DOMAIN items
           g == CHOOSE f : f = [s \in SUBSET S |->
                  IF s = {} THEN 0
                  ELSE items[CHOOSE x \in s : TRUE].time + f[s \ {CHOOSE x \in s : TRUE}]]
<1>1. PICK f : IsSetSum(f, S, tm)
  BY SetSum
<1>2. \A s \in SUBSET S : s # {} => tm[OneOf(s)] = items[OneOf(s)].time
  BY DEF OneOf
<1>3. TotalOf(items) = g[S]
  BY Zenon DEF TotalOf, MapThenSumSet, MapThenFoldSet
<1> HIDE DEF S
<1>4. ASSUME NEW h
      PROVE  IsSetSum(h, S, tm) <=>
               h = [s \in SUBSET S |->
                 IF s = {} THEN 0 ELSE items[OneOf(s)].time + h[s \ {OneOf(s)}]]
  BY <1>2 DEF IsSetSum, AddsUp
<1>5. f = [s \in SUBSET S |->
             IF s = {} THEN 0
             ELSE items[CHOOSE x \in s : TRUE].time + f[s \ {CHOOSE x \in s : TRUE}]]
  BY <1>1, <1>4, Zenon DEF OneOf
<1>6. g = [s \in SUBSET S |->
             IF s = {} THEN 0
             ELSE items[CHOOSE x \in s : TRUE].time + g[s \ {CHOOSE x \in s : TRUE}]]
  BY <1>5, ZenonT(40)
<1> HIDE DEF g
<1>7. IsSetSum(g, S, tm)
  BY <1>4, <1>6, Zenon DEF OneOf
<1> QED
  BY <1>3, <1>7 DEF S

\* The numbers up to q, but for q.
LEMMA ButTheLast ==
  ASSUME NEW q \in Nat
  PROVE  (1 .. q) \ {q} = 1 .. q - 1
  OBVIOUS

\* n waits and rides in turn, a wait and the ride after it taking d[k] together.
TakeInTurn(items, n, wait, d) ==
  /\ DOMAIN items = 1 .. 2 * n
  /\ \A k \in 1 .. n : /\ d[k] \in Int
                       /\ items[2 * k - 1].time = wait
                       /\ items[2 * k].time = d[k] - wait

\* Waits and rides in turn add up to the sum of the weights.
LEMMA TimesAddUp ==
  ASSUME NEW n \in Nat, NEW wait \in Int, NEW d, NEW sum, IsRunningSum(sum, n, d),
         NEW items, TakeInTurn(items, n, wait, d)
  PROVE  TotalOf(items) = sum[n]
<1>0. /\ DOMAIN items = 1 .. 2 * n
      /\ \A k \in 1 .. n : /\ d[k] \in Int
                           /\ items[2 * k - 1].time = wait
                           /\ items[2 * k].time = d[k] - wait
  BY DEF TakeInTurn
<1> DEFINE tm == [k \in 1 .. 2 * n |-> items[k].time]
<1>1. /\ IsFiniteSet(DOMAIN items)
      /\ \A k \in DOMAIN items : tm[k] = items[k].time
  <2>1. IsFiniteSet(DOMAIN items)
    BY <1>0, FS_Interval, SMTT(40)
  <2> QED
    BY <1>0, <2>1
<1> HIDE DEF tm
<1>2a. \E f : IsSetSum(f, DOMAIN items, tm) /\ TotalOf(items) = f[DOMAIN items]
  BY <1>1, TotalIsSum
<1>2. PICK f : IsSetSum(f, 1 .. 2 * n, tm) /\ TotalOf(items) = f[1 .. 2 * n]
  BY <1>0, <1>2a
<1> USE DEF tm
<1>3. \A k \in 1 .. n : tm[2 * k - 1] = wait /\ tm[2 * k] = d[k] - wait
  <2> TAKE k \in 1 .. n
  <2>1. 2 * k - 1 \in 1 .. 2 * n /\ 2 * k \in 1 .. 2 * n
    OBVIOUS
  <2> QED
    BY <1>0, <2>1
<1> HIDE DEF tm
<1>4. \A k \in 1 .. 2 * n : tm[k] \in Int
  <2> TAKE k \in 1 .. 2 * n
  <2>1. PICK j \in 1 .. n : k = 2 * j - 1 \/ k = 2 * j
    <3>1. (k + 1) \div 2 \in 1 .. n /\ (k = 2 * ((k + 1) \div 2) - 1 \/ k = 2 * ((k + 1) \div 2))
      OBVIOUS
    <3> QED
      BY <3>1
  <2>2. d[j] \in Int
    BY <1>0
  <2>3. tm[2 * j - 1] = wait /\ tm[2 * j] = d[j] - wait
    BY <1>3
  <2>4. CASE k = 2 * j - 1
    BY <2>3, <2>4
  <2>5. CASE k = 2 * j
    BY <2>2, <2>3, <2>5
  <2> QED
    BY <2>1, <2>4, <2>5
<1> DEFINE All == 1 .. 2 * n
<1>5. /\ f[{}] = 0
      /\ \A s \in SUBSET All : f[s] \in Int
      /\ \A s \in SUBSET All : \A x \in s : f[s] = tm[x] + f[s \ {x}]
  <2>1. IsFiniteSet(All) /\ IsSetSum(f, All, tm) /\ \A x \in All : tm[x] \in Int
    BY <1>0, <1>1, <1>2, <1>4
  <2> HIDE DEF All
  <2>2. f[{}] = 0
    BY <2>1, SetSumIs
  <2>3. \A s \in SUBSET All : f[s] \in Int
    BY <2>1, SetSumIs
  <2>4. InAnyOrder(f, All, tm)
    BY <2>1, SetSumIs
  <2> QED
    BY <2>2, <2>3, <2>4 DEF InAnyOrder
<1>6. /\ sum[0] = 0
      /\ \A k \in 1 .. n : sum[k] = sum[k - 1] + d[k]
      /\ \A k \in 0 .. n : sum[k] \in Int
  BY <1>0, RunningSumIs
<1> DEFINE Good == {m \in Nat : m <= n => f[1 .. 2 * m] = sum[m]}
<1>7. 0 \in Good
  <2>1. 1 .. 2 * 0 = {}
    OBVIOUS
  <2> QED
    BY <1>5, <1>6, <2>1
<1>8. ASSUME NEW m \in Nat, m \in Good
      PROVE  m + 1 \in Good
  <2> SUFFICES ASSUME m + 1 <= n PROVE f[1 .. 2 * (m + 1)] = sum[m + 1]
    OBVIOUS
  <2> DEFINE p == 2 * m + 1
             q == 2 * m + 2
  <2>1. 2 * (m + 1) - 1 = p /\ 2 * (m + 1) = q /\ m + 1 \in 1 .. n /\ (m + 1) - 1 = m
    OBVIOUS
  <2>2. (1 .. q) \ {q} = 1 .. p /\ (1 .. p) \ {p} = 1 .. 2 * m
    <3>1. p \in Nat /\ q \in Nat /\ q - 1 = p /\ p - 1 = 2 * m
      OBVIOUS
    <3> HIDE DEF p, q
    <3> QED
      BY <3>1, ButTheLast
  <2>3. q \in 1 .. q /\ p \in 1 .. p /\ 1 .. q \in SUBSET All /\ 1 .. p \in SUBSET All
    OBVIOUS
  <2> HIDE DEF p, q, All
  <2>4. f[1 .. q] = tm[q] + f[1 .. p] /\ f[1 .. p] = tm[p] + f[1 .. 2 * m]
    <3>1. f[1 .. q] = tm[q] + f[(1 .. q) \ {q}]
      BY <1>5, <2>3
    <3>2. f[1 .. p] = tm[p] + f[(1 .. p) \ {p}]
      BY <1>5, <2>3
    <3> QED
      BY <2>2, <3>1, <3>2
  <2>5. tm[p] = wait /\ tm[q] = d[m + 1] - wait
    BY <1>3, <2>1
  <2>6. f[1 .. 2 * m] = sum[m] /\ sum[m] \in Int /\ d[m + 1] \in Int
        /\ sum[m + 1] = sum[m] + d[m + 1]
    <3>1. m <= n /\ m \in 0 .. n
      BY <2>1
    <3>2. f[1 .. 2 * m] = sum[m]
      BY <1>8, <3>1
    <3> QED
      BY <1>0, <1>6, <2>1, <3>1, <3>2
  <2> QED
    BY <2>1, <2>4, <2>5, <2>6
<1> HIDE DEF Good
<1>9. Nat \subseteq Good
  BY <1>7, <1>8, Induction
<1> QED
  BY <1>2, <1>9 DEF Good

\* The items of a walk, one wait and one ride for each edge.
LEMMA ItemsAre ==
  ASSUME NEW graph, NEW ids, NEW wait, NEW w, NEW n \in Nat, DOMAIN w = 1 .. n
  PROVE  InPairs(ItemsOf(graph, ids, wait, w), n,
                 [k \in 1 .. n |-> WaitAt(ids, wait, graph[w[k]])],
                 [k \in 1 .. n |-> TravelBy(wait, graph[w[k]])])
<1> DEFINE a == [k \in 1 .. n |-> WaitAt(ids, wait, graph[w[k]])]
           b == [k \in 1 .. n |-> TravelBy(wait, graph[w[k]])]
           seqs == [k \in DOMAIN w |->
                      <<WaitAt(ids, wait, graph[w[k]]), TravelBy(wait, graph[w[k]])>>]
<1>1. seqs = [k \in 1 .. n |-> <<a[k], b[k]>>]
  <2>1. \A k \in 1 .. n : /\ a[k] = WaitAt(ids, wait, graph[w[k]])
                         /\ b[k] = TravelBy(wait, graph[w[k]])
    OBVIOUS
  <2> HIDE DEF a, b
  <2> QED
    BY <2>1
<1>2. ItemsOf(graph, ids, wait, w) = FlattenSeq(seqs)
  BY DEF ItemsOf
<1> HIDE DEF seqs, a, b
<1>3. InPairs(FlattenSeq(seqs), n, a, b)
  BY <1>1, FlattenPairs
<1> QED
  BY <1>2, <1>3 DEF a, b

\* One edge of the walk: its wait is at the stop with the number it leaves, and
\* its ride can be taken from there to the stop with the number it enters.
LEMMA OneRide ==
  ASSUME NEW d \in Bases, NEW ids, IsNumbering(ids), DOMAIN ids = DOMAIN d.stop_by_name,
         NEW wait \in Int, NEW edge, IsRide(edge, d, ids, wait),
         NEW t \in DOMAIN ids, ids[t] = edge.to
  PROVE  /\ WaitAt(ids, wait, edge).stop_name \in DOMAIN ids
         /\ ids[WaitAt(ids, wait, edge).stop_name] = edge.from
         /\ WaitAt(ids, wait, edge).type = "Wait"
         /\ TravelBy(wait, edge).type = "Bus"
         /\ TravelBy(wait, edge).span_count \in Nat \ {0}
         /\ Rideable(d, TravelBy(wait, edge), WaitAt(ids, wait, edge).stop_name, t)
<1>1. PICK b \in DOMAIN d.buses, i \in Nat, j \in Nat :
        OnTheWay(d.buses[b], i, j) /\ edge = Ride(d, ids, wait, d.buses[b], i, j)
  BY DEF IsRide
<1> DEFINE bus == d.buses[b]
           stops == bus.stops
<1>2. /\ edge.from = ids[stops[i]] /\ edge.to = ids[stops[j]]
      /\ edge.weight = wait + SumTime(d, stops, i, j)
      /\ edge.name = bus.name /\ edge.span_count = j - i
  BY <1>1 DEF Ride
<1>3. PICK way \in Ways(bus) : i \in way /\ j \in way /\ i < j
  BY <1>1 DEF OnTheWay
<1>4. stops[i] \in DOMAIN ids /\ stops[j] \in DOMAIN ids
  <2>1. stops \in Seq(NamesOf(d.stops)) /\ NamesOf(d.stops) = DOMAIN ids
    BY BasesAssumption, KnownNames DEF IsFilled
  <2>2. i \in 1 .. Len(stops) /\ j \in 1 .. Len(stops)
    BY <1>1 DEF OnTheWay
  <2> HIDE DEF stops
  <2> QED
    BY <2>1, <2>2
<1>5. \A r, s \in DOMAIN ids : ids[r] = ids[s] => r = s
  BY DEF IsNumbering
<1> DEFINE s == WaitAt(ids, wait, edge).stop_name
<1>6. s = CHOOSE r \in DOMAIN ids : ids[r] = edge.from
  BY DEF WaitAt
<1> HIDE DEF s
<1>7. s \in DOMAIN ids /\ ids[s] = edge.from
  BY <1>2, <1>4, <1>6
<1>8. s = stops[i] /\ t = stops[j]
  BY <1>2, <1>4, <1>5, <1>7
<1>9. SumTime(d, stops, i, j) \in Int
  BY RideTakes
<1> DEFINE travel == TravelBy(wait, edge)
<1>10. /\ travel.type = "Bus" /\ travel.bus = bus.name /\ travel.span_count = j - i
       /\ travel.time = edge.weight - wait
  BY <1>2 DEF TravelBy
<1> HIDE DEF travel
<1>11. travel.time = SumTime(d, stops, i, j) /\ i + travel.span_count = j
       /\ travel.span_count \in Nat \ {0}
  BY <1>1, <1>2, <1>3, <1>9, <1>10
<1>12. Rideable(d, travel, s, t)
  <2>1. /\ bus.name = travel.bus
        /\ i + travel.span_count \in way
        /\ bus.stops[i] = s
        /\ bus.stops[i + travel.span_count] = t
        /\ SumTime(d, bus.stops, i, i + travel.span_count) = travel.time
    BY <1>3, <1>8, <1>10, <1>11
  <2> HIDE DEF bus, stops
  <2> QED
    BY <1>3, <2>1 DEF Rideable, bus
<1>13. WaitAt(ids, wait, edge).type = "Wait"
  BY DEF WaitAt
<1> QED
  BY <1>7, <1>10, <1>11, <1>12, <1>13 DEF s, travel

\* A walk that leads on from stop s to stop t is told as a trip.
LEMMA WalkIsTrip ==
  ASSUME NEW d \in Bases, NEW ids, IsNumbering(ids), DOMAIN ids = DOMAIN d.stop_by_name,
         NEW wait \in Int, NEW graph, IsPlan(graph, d, ids, wait),
         NEW w \in Seq(DOMAIN graph), NEW s \in DOMAIN ids, NEW t \in DOMAIN ids,
         LeadsOn(graph, w, ids[s], ids[t]),
         NEW sum, IsRunningSum(sum, Len(w), [k \in 1 .. Len(w) |-> graph[w[k]].weight])
  PROVE  IsTrip(d, wait, ItemsOf(graph, ids, wait, w), sum[Len(w)], s, t)
<1> DEFINE n == Len(w)
           items == ItemsOf(graph, ids, wait, w)
           weights == [k \in 1 .. n |-> graph[w[k]].weight]
<1>1. n \in Nat /\ DOMAIN w = 1 .. n /\ \A k \in 1 .. n : w[k] \in DOMAIN graph
  OBVIOUS
<1>2. n = 0 => ids[s] = ids[t]
  BY DEF LeadsOn
<1>3. n # 0 => graph[w[1]].from = ids[s] /\ graph[w[n]].to = ids[t]
  <2>1. w = <<>> => n = 0
    OBVIOUS
  <2> QED
    BY <2>1 DEF LeadsOn
<1>4. /\ \A k \in 1 .. n - 1 : graph[w[k]].to = graph[w[k + 1]].from
      /\ \A k \in 1 .. n : graph[w[k]].from # graph[w[k]].to
  BY DEF LeadsOn
<1>5. IsRunningSum(sum, n, weights)
  OBVIOUS
<1> HIDE DEF n
<1>6. /\ IsSeq(items) /\ Len(items) = 2 * n
      /\ \A k \in 1 .. n :
           /\ items[2 * k - 1] = WaitAt(ids, wait, graph[w[k]])
           /\ items[2 * k] = TravelBy(wait, graph[w[k]])
  <2> DEFINE a == [k \in 1 .. n |-> WaitAt(ids, wait, graph[w[k]])]
             b == [k \in 1 .. n |-> TravelBy(wait, graph[w[k]])]
  <2>1. InPairs(items, n, a, b)
    BY <1>1, ItemsAre
  <2>2. \A k \in 1 .. n : /\ a[k] = WaitAt(ids, wait, graph[w[k]])
                         /\ b[k] = TravelBy(wait, graph[w[k]])
    OBVIOUS
  <2> HIDE DEF a, b, items
  <2> QED
    BY <2>1, <2>2 DEF InPairs
<1> HIDE DEF items
<1>7. Len(items) \div 2 = n
  BY <1>1, <1>6
<1>8. \A k \in 1 .. n : /\ graph[w[k]].weight \in Int
                       /\ IsRide(graph[w[k]], d, ids, wait)
  <2> TAKE k \in 1 .. n
  <2>1. w[k] \in DOMAIN graph /\ graph[w[k]].from # graph[w[k]].to
    BY <1>1, <1>4
  <2>2. IsLoop(graph[w[k]], ids) \/ IsRide(graph[w[k]], d, ids, wait)
    BY <2>1 DEF IsPlan
  <2> QED
    BY <2>1, <2>2, PlanEdges
<1> DEFINE place(k) == PlaceOf(items, t, k)
<1>9. place(n + 1) = t /\ \A k \in 1 .. n : place(k) = WaitAt(ids, wait, graph[w[k]]).stop_name
  BY <1>1, <1>6, <1>7, SMTT(40) DEF PlaceOf
<1> HIDE DEF place
<1>10. \A k \in 1 .. n : place(k) \in DOMAIN ids /\ ids[place(k)] = graph[w[k]].from
  <2> TAKE k \in 1 .. n
  <2> DEFINE edge == graph[w[k]]
  <2>1. IsRide(edge, d, ids, wait)
    BY <1>8
  <2>2. edge.from \in Range(ids)
    <3> HIDE DEF edge
    <3> QED
      BY <2>1, PlanEdges
  <2>3. \E r \in DOMAIN ids : ids[r] = edge.from
    BY <2>2 DEF Range
  <2>4. WaitAt(ids, wait, edge).stop_name = CHOOSE r \in DOMAIN ids : ids[r] = edge.from
    BY DEF WaitAt
  <2> QED
    BY <1>9, <2>3, <2>4
<1>11. ASSUME NEW k \in 1 .. n
       PROVE  place(k + 1) \in DOMAIN ids /\ ids[place(k + 1)] = graph[w[k]].to
  <2>1. CASE k = n
    BY <1>1, <1>3, <1>9, <2>1
  <2>2. CASE k # n
    <3>1. k \in 1 .. n - 1 /\ k + 1 \in 1 .. n
      BY <1>1, <2>2
    <3> QED
      BY <1>4, <1>10, <3>1
  <2> QED
    BY <2>1, <2>2
<1>12. ASSUME NEW k \in 1 .. n
       PROVE  /\ items[2 * k - 1].type = "Wait"
              /\ items[2 * k].type = "Bus"
              /\ items[2 * k].span_count \in Nat \ {0}
              /\ Rideable(d, items[2 * k], place(k), place(k + 1))
  <2> DEFINE edge == graph[w[k]]
             next == place(k + 1)
  <2>1. IsRide(edge, d, ids, wait) /\ next \in DOMAIN ids /\ ids[next] = edge.to
    BY <1>8, <1>11
  <2>2. /\ items[2 * k - 1] = WaitAt(ids, wait, edge) /\ items[2 * k] = TravelBy(wait, edge)
        /\ place(k) = WaitAt(ids, wait, edge).stop_name
    BY <1>6, <1>9
  <2> HIDE DEF edge, next
  <2>3. /\ WaitAt(ids, wait, edge).type = "Wait"
        /\ TravelBy(wait, edge).type = "Bus"
        /\ TravelBy(wait, edge).span_count \in Nat \ {0}
        /\ Rideable(d, TravelBy(wait, edge), WaitAt(ids, wait, edge).stop_name, next)
    BY <2>1, OneRide
  <2> QED
    BY <2>2, <2>3 DEF next
<1>13. place(1) = s
  <2>1. \A r, q \in DOMAIN ids : ids[r] = ids[q] => r = q
    BY DEF IsNumbering
  <2>2. CASE n = 0
    BY <1>2, <1>9, <2>1, <2>2
  <2>3. CASE n # 0
    <3>1. 1 \in 1 .. n
      BY <1>1, <2>3
    <3> QED
      BY <1>3, <1>10, <2>1, <2>3, <3>1
  <2> QED
    BY <2>2, <2>3
<1>14. \A k \in 1 .. n : items[2 * k - 1].time = wait
  <2> TAKE k \in 1 .. n
  <2>1. items[2 * k - 1] = WaitAt(ids, wait, graph[w[k]])
    BY <1>6
  <2>2. WaitAt(ids, wait, graph[w[k]]).time = wait
    BY DEF WaitAt
  <2> QED
    BY <2>1, <2>2
<1>15. TotalOf(items) = sum[n]
  <2>1. \A k \in 1 .. n : weights[k] = graph[w[k]].weight
    OBVIOUS
  <2> HIDE DEF weights
  <2>2. \A k \in 1 .. n : weights[k] \in Int
    BY <1>8, <2>1
  <2>3. DOMAIN items = 1 .. 2 * n
    BY <1>6 DEF IsSeq
  <2>4. \A k \in 1 .. n : /\ items[2 * k - 1].time = wait
                         /\ items[2 * k].time = weights[k] - wait
    <3> TAKE k \in 1 .. n
    <3>1. /\ items[2 * k - 1] = WaitAt(ids, wait, graph[w[k]])
          /\ items[2 * k] = TravelBy(wait, graph[w[k]])
      BY <1>6
    <3>2. WaitAt(ids, wait, graph[w[k]]).time = wait
      BY DEF WaitAt
    <3>3. TravelBy(wait, graph[w[k]]).time = graph[w[k]].weight - wait
      BY DEF TravelBy
    <3> QED
      BY <2>1, <3>1, <3>2, <3>3
  <2>5. n \in Nat /\ IsRunningSum(sum, n, weights)
    BY <1>1, <1>5 DEF weights
  <2>6. TakeInTurn(items, n, wait, weights)
    BY <2>2, <2>3, <2>4 DEF TakeInTurn
  <2> QED
    BY <2>5, <2>6, TimesAddUp
<1>16. IsItinerary(d, items, sum[n], s, t)
  BY <1>6, <1>7, <1>12, <1>13, <1>15 DEF IsItinerary, place
<1>17. IsTrip(d, wait, items, sum[n], s, t)
  BY <1>6, <1>7, <1>12, <1>14, <1>16 DEF IsTrip
<1> QED
  BY <1>17 DEF items, n

-----------------------------------------------------------------------------
(* Answers.                                                                 *)

Told == Answered /\ response.found

\* The property, as a matter of values.
LEMMA ItemsNow ==
  ItemsAreAnItinerary <=>
    (Told => IsItinerary(db, response.items, response.total_time, request[1], request[2]))
  BY Zenon DEF ItemsAreAnItinerary, Told, IsItinerary, PlaceOf, CanRide, Rideable, RideTime, RideLength,
               SumTime, TotalOf

\* Response to a route found, as a matter of values.
LEMMA RespondIs ==
  ASSUME Respond, answer'.found
  PROVE  /\ response'.found
         /\ response'.total_time = answer'.weight
         /\ response'.items = ItemsOf(edges, name_id, bus_wait_time, answer'.edges)
<1>1. ItemsOf(edges, name_id, bus_wait_time, answer'.edges)
        = FlattenSeq([k \in DOMAIN answer'.edges |->
            <<Wait(edges[answer'.edges[k]]), Travel(edges[answer'.edges[k]])>>])
  BY Zenon DEF ItemsOf, WaitAt, TravelBy, Wait, Travel, StopOf
<1>2. response' = [found      |-> TRUE,
                   total_time |-> answer'.weight,
                   items      |-> FlattenSeq([k \in DOMAIN answer'.edges |->
                     <<Wait(edges[answer'.edges[k]]), Travel(edges[answer'.edges[k]])>>])]
  BY Zenon DEF Respond
<1> DEFINE items == FlattenSeq([k \in DOMAIN answer'.edges |->
                      <<Wait(edges[answer'.edges[k]]), Travel(edges[answer'.edges[k]])>>])
<1> HIDE DEF items
<1>3. response' = [found |-> TRUE, total_time |-> answer'.weight, items |-> items]
  BY <1>2 DEF items
<1> QED
  BY <1>1, <1>3 DEF items

\* While the router walks back, what it was asked is about the stops of the
\* request.
AskedInv ==
  pc = "walk" =>
    /\ request[1] \in DOMAIN name_id /\ query.from = name_id[request[1]]
    /\ request[2] \in DOMAIN name_id /\ query.to = name_id[request[2]]

ToldInv ==
  Told => IsTrip(db, bus_wait_time, response.items, response.total_time, request[1], request[2])

\* The route returned leads on from the one stop to the other.
LEMMA RouteLeadsOn ==
  ASSUME P!RouterInv, P!RouteInv, P!ReturnRoute
  PROVE  /\ answer'.found
         /\ answer'.edges \in Seq(DOMAIN edges)
         /\ LeadsOn(edges, answer'.edges, query.from, query.to)
         /\ \E sum : /\ IsRunningSum(sum, Len(answer'.edges),
                                    [k \in 1 .. Len(answer'.edges) |->
                                       edges[answer'.edges[k]].weight])
                    /\ answer'.weight = sum[Len(answer'.edges)]
<1> DEFINE w == answer'.edges
<1>1. /\ P!TypeOK /\ pc = "walk" /\ answer'.found /\ w = P!Reverse(path)
      /\ path \in Seq(DOMAIN edges)
  BY DEF P!RouterInv, P!ReturnRoute, P!TypeOK
<1>2. P!VertexCountAssumption /\ P!GraphsAssumption
  BY SettingsAssumption DEF P!VertexCountAssumption, P!GraphsAssumption
<1>3. P!IsLightest(answer', query.from, query.to)
  BY <1>2, P!LightestReturned
<1>4. /\ w \in P!Walk /\ P!IsWalk(w, query.from, query.to)
      /\ answer'.weight = P!Cost(w)
  BY <1>1, <1>3 DEF P!IsLightest
<1>5. \A m \in 1 .. Len(path) : edges[path[m]].from # edges[path[m]].to
  BY <1>1, <1>2, P!EdgesLeadOn
<1>6. Len(w) = Len(path) /\ \A k \in 1 .. Len(w) : w[k] = path[(Len(path) - k) + 1]
  BY <1>1 DEF P!Reverse
<1>7. w \in Seq(DOMAIN edges)
  BY <1>4 DEF P!Walk
<1> HIDE DEF w
<1>8. \A k \in 1 .. Len(w) : edges[w[k]].from # edges[w[k]].to
  <2> TAKE k \in 1 .. Len(w)
  <2>1. (Len(path) - k) + 1 \in 1 .. Len(path)
    BY <1>1, <1>6
  <2> QED
    BY <1>5, <1>6, <2>1
<1>9. LeadsOn(edges, w, query.from, query.to)
  BY <1>4, <1>7, <1>8 DEF P!IsWalk, P!Planner!IsWalk, LeadsOn
<1>10. P!IsRunningSum(P!Planner!CostUpTo(w), Len(w), P!Weights(w))
  BY <1>1, <1>2, <1>4, P!CostIsSum
<1>11. IsRunningSum(P!Planner!CostUpTo(w), Len(w), [k \in 1 .. Len(w) |-> edges[w[k]].weight])
  BY <1>10, Zenon DEF P!IsRunningSum, IsRunningSum, P!Weights
<1>12. answer'.weight = P!Planner!CostUpTo(w)[Len(w)]
  BY <1>4 DEF P!Cost, P!Planner!Cost
<1> QED
  BY <1>1, <1>7, <1>9, <1>11, <1>12 DEF w

\* What is told of a route found is a trip.
LEMMA RespondTells ==
  ASSUME ServiceInv, AskedInv, Respond
  PROVE  AskedInv' /\ ToldInv'
<1>1. /\ StageInv /\ NumbersInv /\ PlanInv /\ RoutingInv
      /\ UNCHANGED <<db, bus_wait_time, room, stage, at, name_id, request>>
  BY DEF ServiceInv, Respond
<1>2. pc = "walk" /\ pc' = "ready"
  BY DEF Respond, R!ReturnRoute, R!ReturnNothing
<1>3. /\ stage = "serving" /\ room # 0
      /\ IsPlan(edges, db, name_id, bus_wait_time)
      /\ IsNumbering(name_id) /\ DOMAIN name_id = DOMAIN db.stop_by_name
      /\ db \in Bases /\ bus_wait_time \in Int
      /\ P!RouterInv /\ P!RouteInv
  BY <1>1, <1>2, Given DEF StageInv, NumbersInv, PlanInv, RoutingInv, Idle
<1>4. CASE response'.found
  <2>1. answer'.found
    BY <1>4 DEF Respond, NoResponse
  <2>2. P!ReturnRoute
    BY <2>1
    DEF Respond, R!ReturnRoute, R!ReturnNothing, R!NoAnswer, P!ReturnRoute, R!Known, P!Known,
        R!NoRoute, P!NoRoute, R!NoEdge, P!NoEdge, R!matrix, P!matrix, R!loops, P!loops,
        R!Reverse, P!Reverse
  <2> DEFINE w == answer'.edges
             s == request[1]
             t == request[2]
  <2>3. /\ w \in Seq(DOMAIN edges)
        /\ LeadsOn(edges, w, query.from, query.to)
    BY <1>3, <2>2, RouteLeadsOn
  <2>4. PICK sum : /\ IsRunningSum(sum, Len(w), [k \in 1 .. Len(w) |-> edges[w[k]].weight])
                   /\ answer'.weight = sum[Len(w)]
    BY <1>3, <2>2, RouteLeadsOn
  <2>5. s \in DOMAIN name_id /\ t \in DOMAIN name_id
        /\ LeadsOn(edges, w, name_id[s], name_id[t])
    BY <1>2, <2>3 DEF AskedInv
  <2>6. /\ response'.total_time = answer'.weight
        /\ response'.items = ItemsOf(edges, name_id, bus_wait_time, w)
    BY <2>1, RespondIs
  <2> HIDE DEF w, s, t
  <2>7. IsTrip(db, bus_wait_time, ItemsOf(edges, name_id, bus_wait_time, w), sum[Len(w)], s, t)
    BY <1>3, <2>3, <2>4, <2>5, WalkIsTrip
  <2>8. IsTrip(db', bus_wait_time', response'.items, response'.total_time,
               request'[1], request'[2])
    BY <1>1, <2>4, <2>6, <2>7 DEF s, t, w
  <2> QED
    BY <1>2, <2>8 DEF ToldInv, AskedInv
<1>5. CASE ~ response'.found
  BY <1>2, <1>5 DEF ToldInv, Told, AskedInv
<1> QED
  BY <1>4, <1>5

\* Nothing else is ever told.
LEMMA OthersTellNothing ==
  ASSUME ServiceInv, AskedInv, ToldInv,
         Build \/ (\E f, t \in Names : AskRoute(f, t)) \/ WalkRoute \/ UNCHANGED vars
  PROVE  AskedInv' /\ ToldInv'
<1>1. StageInv
  BY DEF ServiceInv
<1>2. CASE Build
  <2>1. CASE FillStop
    <3>1. stage' # "serving" /\ pc' = pc /\ stage # "serving"
      BY <2>1 DEF FillStop, routing
    <3> QED
      BY <1>1, <3>1 DEF AskedInv, ToldInv, Told, Answered, StageInv
  <2>2. CASE EndStops
    <3>1. stage' # "serving" /\ pc' = pc /\ stage # "serving"
      BY <2>2 DEF EndStops, routing
    <3> QED
      BY <1>1, <3>1 DEF AskedInv, ToldInv, Told, Answered, StageInv
  <2>3. CASE FillBus
    <3>1. stage' # "serving" /\ pc' = pc /\ stage # "serving"
      BY <2>3 DEF FillBus, routing
    <3> QED
      BY <1>1, <3>1 DEF AskedInv, ToldInv, Told, Answered, StageInv
  <2>4. CASE CreateRouter
    <3>1. stage' # "serving" /\ pc' = pc /\ stage # "serving"
      BY <2>4 DEF CreateRouter, routing
    <3> QED
      BY <1>1, <3>1 DEF AskedInv, ToldInv, Told, Answered, StageInv
  <2>5. CASE ConstructRouter
    <3>1. stage = "router" /\ UNCHANGED request
      BY <2>5 DEF ConstructRouter
    <3>2. request' = <<>>
      BY <1>1, <3>1 DEF StageInv
    <3>3. ServiceInv'
      BY <2>5, ConstructRouterKeeps
    <3>4. pc' # "walk"
      BY <2>5
      DEF ConstructRouter, R!Construct, R!EnterVertex, R!VisitEdge, R!LeaveVertex,
          R!BeginRelaxation, R!SkipRow, R!RelaxRoute, R!FinishRelaxation,
          NoVertices!Construct, NoVertices!EnterVertex, NoVertices!VisitEdge,
          NoVertices!LeaveVertex, NoVertices!BeginRelaxation, NoVertices!SkipRow,
          NoVertices!RelaxRoute, NoVertices!FinishRelaxation
    <3> QED
      BY <3>2, <3>4 DEF AskedInv, ToldInv, Told, Answered
  <2> QED
    BY <1>2, <2>1, <2>2, <2>3, <2>4, <2>5 DEF Build
<1>3. CASE \E f, t \in Names : AskRoute(f, t)
  <2>1. PICK f \in Names, t \in Names : AskRoute(f, t)
    BY <1>3
  <2>2. /\ pc = "ready" /\ stage = "serving" /\ request' = <<f, t>> /\ name_id' = name_id
        /\ response' = NoResponse
    BY <2>1 DEF AskRoute
  <2>3. ~ response'.found
    BY <2>2 DEF NoResponse
  <2>4. CASE f \in DOMAIN name_id /\ t \in DOMAIN name_id
    <3>1. query' = [from |-> name_id[f], to |-> name_id[t]]
      BY <2>1, <2>4 DEF AskRoute, R!Ask
    <3> QED
      BY <2>2, <2>3, <2>4, <3>1 DEF AskedInv, ToldInv, Told
  <2>5. CASE ~ (f \in DOMAIN name_id /\ t \in DOMAIN name_id)
    <3>1. pc' = "ready"
      BY <2>1, <2>2, <2>5 DEF AskRoute, routing
    <3> QED
      BY <2>3, <3>1 DEF AskedInv, ToldInv, Told
  <2> QED
    BY <2>4, <2>5
<1>4. CASE WalkRoute
  <2>1. pc' = "walk" /\ pc = "walk" /\ UNCHANGED <<request, name_id, query>>
    BY <1>4 DEF WalkRoute, R!PushEdge, own
  <2> QED
    BY <2>1 DEF AskedInv, ToldInv, Told, Answered
<1>5. CASE UNCHANGED vars
  <2>1. UNCHANGED <<db, bus_wait_time, stage, name_id, request, response, pc, query>>
    BY <1>5 DEF vars, own, routing
  <2> QED
    BY <2>1 DEF AskedInv, ToldInv, Told, Answered
<1> QED
  BY <1>2, <1>3, <1>4, <1>5

ToldCorrectly == ServiceInv /\ AskedInv /\ ToldInv

\* At the beginning nothing has been told.
LEMMA TellingStarts == Init => ToldCorrectly
<1> SUFFICES ASSUME Init
             PROVE  ToldCorrectly
  OBVIOUS
<1>1. ServiceInv
  BY ServiceStarts
<1>2. stage = "stops"
  BY DEF Init
<1>3. pc # "walk"
  BY <1>1, <1>2 DEF ServiceInv, StageInv
<1> QED
  BY <1>1, <1>2, <1>3 DEF ToldCorrectly, AskedInv, ToldInv, Told, Answered

\* Every step keeps it so.
LEMMA TellingSteps == ToldCorrectly /\ [Next]_vars => ToldCorrectly'
<1> SUFFICES ASSUME ToldCorrectly, [Next]_vars
             PROVE  ToldCorrectly'
  OBVIOUS
<1>1. ServiceInv'
  BY ServiceSteps DEF ToldCorrectly
<1>2. CASE Respond
  BY <1>1, <1>2, RespondTells DEF ToldCorrectly
<1>3. CASE ~ Respond
  <2>1. Build \/ (\E f, t \in Names : AskRoute(f, t)) \/ WalkRoute \/ UNCHANGED vars
    BY <1>3 DEF Next
  <2> QED
    BY <1>1, <2>1, OthersTellNothing DEF ToldCorrectly
<1> QED
  BY <1>2, <1>3

\* Whatever the catalogue, the waits, the vertex count and the questions: every
\* route told is an itinerary a passenger can take, and its times add up to the
\* total time told.
THEOREM ItinerariesCorrect == Spec => []ItemsAreAnItinerary
<1>1. Spec => []ToldCorrectly
  BY TellingStarts, TellingSteps, PTL DEF Spec
<1>2. ToldCorrectly => ItemsAreAnItinerary
  BY ItemsNow DEF ToldCorrectly, ToldInv, IsTrip
<1> QED
  BY <1>1, <1>2, PTL

-----------------------------------------------------------------------------
(* The graph is complete.                                                   *)

\* Every ride of bus b is among the edges.
HasRides(graph, d, ids, wait, b) ==
  \A i, j \in Nat :
    OnTheWay(d.buses[b], i, j) => Ride(d, ids, wait, d.buses[b], i, j) \in Range(graph)

HasAllRides(graph, d, ids, wait) ==
  \A b \in DOMAIN d.buses : HasRides(graph, d, ids, wait, b)

\* For every pair of positions of a part there is an edge.
LEMMA PartHasRides ==
  ASSUME NEW bus, NEW first \in Nat \ {0}, NEW last \in Nat,
         NEW i \in first .. last, NEW j \in first .. last, i < j
  PROVE  RideEdge(bus, i, j) \in Range(AddEdgesGraph(bus, first, last))
<1> DEFINE rides(p) == [k \in 1 .. last - p |-> RideEdge(bus, p, p + k)]
           row(p) == IF p < first THEN <<>> ELSE rides(p)
           rows == [p \in 1 .. last |-> row(p)]
           S == {RideEdge(bus, q[1], q[2]) : q \in Nat \X Nat}
<1>1. \A p, k \in Nat : RideEdge(bus, p, k) \in S
  <2> TAKE p, k \in Nat
  <2>1. <<p, k>> \in Nat \X Nat /\ <<p, k>>[1] = p /\ <<p, k>>[2] = k
    OBVIOUS
  <2> QED
    BY <2>1
<1> HIDE DEF S
<1>2. ASSUME NEW p \in 1 .. last
      PROVE  row(p) \in Seq(S)
  <2>1. last - p \in Nat /\ \A k \in 1 .. last - p : RideEdge(bus, p, p + k) \in S
    BY <1>1
  <2>2. rides(p) \in Seq(S)
    BY <2>1
  <2> QED
    BY <2>2
<1>3. i \in 1 .. last /\ i >= first /\ j - i \in 1 .. last - i /\ i + (j - i) = j
  OBVIOUS
<1>4. RideEdge(bus, i, j) \in Range(row(i))
  <2>1. row(i) = rides(i)
    BY <1>3
  <2>2. j - i \in DOMAIN rides(i) /\ rides(i)[j - i] = RideEdge(bus, i, j)
    BY <1>3
  <2> QED
    BY <2>1, <2>2 DEF Range
<1> HIDE DEF row
<1>5. rows \in Seq(Seq(S)) /\ i \in DOMAIN rows /\ rows[i] = row(i)
  BY <1>2, <1>3
<1> HIDE DEF rows
<1>6. Range(rows[i]) \subseteq Range(FlattenSeq(rows))
  BY <1>5, FlattenSeqHas
<1>7. FlattenSeq(rows) = AddEdgesGraph(bus, first, last)
  BY Zenon DEF AddEdgesGraph, rows, row, rides
<1> QED
  BY <1>4, <1>5, <1>6, <1>7

\* Wherever a passenger can ride, the code goes through in one part.
LEMMA WaysAreLegs ==
  ASSUME NEW bus, NEW S, bus.stops \in Seq(S), bus.is_roundtrip \in BOOLEAN,
         ~bus.is_roundtrip => Len(bus.stops) % 2 = 1,
         NEW i \in Nat, NEW j \in Nat, OnTheWay(bus, i, j)
  PROVE  \E l \in DOMAIN Legs(bus) : i \in Legs(bus)[l][1] .. Legs(bus)[l][2]
                                     /\ j \in Legs(bus)[l][1] .. Legs(bus)[l][2]
<1> DEFINE n == Len(bus.stops)
           h == n \div 2 + 1
<1>1. n \in Nat
  OBVIOUS
<1>2. PICK way \in Ways(bus) : i \in way /\ j \in way
  BY DEF OnTheWay
<1>3. CASE bus.is_roundtrip
  <2>1. Legs(bus) = <<<<1, n>>>> /\ Ways(bus) = {1 .. n}
    BY <1>3 DEF Legs, Ways
  <2> HIDE DEF n
  <2>2. 1 \in DOMAIN Legs(bus) /\ Legs(bus)[1][1] = 1 /\ Legs(bus)[1][2] = n
    BY <2>1
  <2>3. i \in 1 .. n /\ j \in 1 .. n
    BY <1>2, <2>1
  <2> QED
    BY <2>2, <2>3
<1>4. CASE ~bus.is_roundtrip
  <2>1. n % 2 = 1
    BY <1>4
  <2>2. Legs(bus) = <<<<1, h>>, <<h, n>>>> /\ Ways(bus) = {1 .. (n + 1) \div 2, (n + 1) \div 2 .. n}
    BY <1>4 DEF Legs, Ways
  <2> DEFINE m == n
  <2>3. m \in Nat /\ m % 2 = 1 => (m + 1) \div 2 = m \div 2 + 1
    <3> HIDE DEF m
    <3> QED
      OBVIOUS
  <2>4. (n + 1) \div 2 = h
    BY <1>1, <2>1, <2>3
  <2> HIDE DEF h, n, m
  <2>5. /\ 1 \in DOMAIN Legs(bus) /\ Legs(bus)[1][1] = 1 /\ Legs(bus)[1][2] = h
        /\ 2 \in DOMAIN Legs(bus) /\ Legs(bus)[2][1] = h /\ Legs(bus)[2][2] = n
    BY <2>2
  <2>6. way = 1 .. h \/ way = h .. n
    BY <2>2, <2>4
  <2> QED
    BY <1>2, <2>5, <2>6
<1> QED
  BY <1>3, <1>4

\* The edges of a bus are all its rides.
LEMMA BusHasRides ==
  ASSUME db \in Bases, NEW b \in DOMAIN db.buses,
         db.buses[b].stops = <<>> => db.buses[b].is_roundtrip
  PROVE  HasRides(EdgesOfBus(db.buses[b]), db, name_id, bus_wait_time, b)
<1> DEFINE bus == db.buses[b]
           S == {RideEdge(bus, q[1], q[2]) : q \in Nat \X Nat}
           parts == [l \in DOMAIN Legs(bus) |->
                       AddEdgesGraph(bus, Legs(bus)[l][1], Legs(bus)[l][2])]
<1>1. /\ bus.stops \in Seq(NamesOf(db.stops))
      /\ bus.is_roundtrip \in BOOLEAN
      /\ ~bus.is_roundtrip => Len(bus.stops) % 2 = 1
  BY BasesAssumption DEF IsFilled
<1>2. /\ Legs(bus) \in Seq(Nat \X Nat)
      /\ \A l \in DOMAIN Legs(bus) : Legs(bus)[l][1] \in Nat \ {0} /\ Legs(bus)[l][2] \in Nat
  BY <1>1, LegsAreWays
<1>3. \A p, k \in Nat : RideEdge(bus, p, k) \in S
  <2> TAKE p, k \in Nat
  <2>1. <<p, k>> \in Nat \X Nat /\ <<p, k>>[1] = p /\ <<p, k>>[2] = k
    OBVIOUS
  <2> QED
    BY <2>1
<1> HIDE DEF S, bus
<1>4. ASSUME NEW l \in DOMAIN Legs(bus)
      PROVE  AddEdgesGraph(bus, Legs(bus)[l][1], Legs(bus)[l][2]) \in Seq(S)
  <2> DEFINE first == Legs(bus)[l][1]
             last == Legs(bus)[l][2]
  <2>1. first \in Nat \ {0} /\ last \in Nat
    BY <1>2
  <2> HIDE DEF first, last
  <2>2. \A i, j \in first .. last : i < j => RideEdge(bus, i, j) \in S
    BY <1>3, <2>1
  <2>3. AddEdgesGraph(bus, first, last) \in Seq(S)
    BY <2>1, <2>2, EdgesOfPart
  <2> QED
    BY <2>3 DEF first, last
<1>5. parts \in Seq(Seq(S))
  <2>1. DOMAIN Legs(bus) = 1 .. Len(Legs(bus)) /\ Len(Legs(bus)) \in Nat
    BY <1>2
  <2> QED
    BY <1>4, <2>1
<1>6. FlattenSeq(parts) = EdgesOfBus(bus)
  BY Zenon DEF EdgesOfBus
<1>7. ASSUME NEW i \in Nat, NEW j \in Nat, OnTheWay(bus, i, j)
      PROVE  Ride(db, name_id, bus_wait_time, bus, i, j) \in Range(EdgesOfBus(bus))
  <2>1. PICK l \in DOMAIN Legs(bus) : i \in Legs(bus)[l][1] .. Legs(bus)[l][2]
                                      /\ j \in Legs(bus)[l][1] .. Legs(bus)[l][2]
    BY <1>1, <1>7, WaysAreLegs DEF bus
  <2>2. i < j
    BY <1>7 DEF OnTheWay
  <2>3. RideEdge(bus, i, j) \in Range(AddEdgesGraph(bus, Legs(bus)[l][1], Legs(bus)[l][2]))
    BY <1>2, <2>1, <2>2, PartHasRides
  <2>4. l \in DOMAIN parts /\ parts[l] = AddEdgesGraph(bus, Legs(bus)[l][1], Legs(bus)[l][2])
    BY <2>1
  <2> HIDE DEF parts
  <2>5. Range(parts[l]) \subseteq Range(FlattenSeq(parts))
    BY <1>5, <2>4, FlattenSeqHas
  <2> QED
    BY <1>6, <2>3, <2>4, <2>5, RideIs
<1> QED
  BY <1>7 DEF HasRides, bus

\* Once a bus has been gone through, all its rides are edges.
CompleteInv ==
  /\ stage = "buses" => \A b \in 1 .. at : HasRides(edges, db, name_id, bus_wait_time, b)
  /\ stage \in {"router", "serving"} =>
       HasAllRides(edges, db, name_id, bus_wait_time)

\* One more bus is complete, and those before it stay complete.
LEMMA FillBusCompletes ==
  ASSUME ServiceInv, CompleteInv, FillBus
  PROVE  CompleteInv'
<1> DEFINE b   == at + 1
           bus == db.buses[b]
           new == EdgesOfBus(bus)
<1>1. StageInv /\ PlanInv
  BY DEF ServiceInv
<1>2. /\ stage = "buses" /\ at < Len(db.buses) /\ at' = at + 1
      /\ IF bus.stops = <<>> /\ ~bus.is_roundtrip
         THEN stage' = "terminated" /\ UNCHANGED edges
         ELSE stage' = stage /\ edges' = edges \o EdgesOfBus(bus)
      /\ UNCHANGED <<db, bus_wait_time, name_id>>
  BY DEF FillBus
<1>3. CASE stage' = "terminated"
  BY <1>3 DEF CompleteInv
<1>4. CASE stage' # "terminated"
  <2>1. /\ bus.stops = <<>> => bus.is_roundtrip
        /\ stage' = "buses" /\ edges' = edges \o new
    BY <1>2, <1>4
  <2>2. b \in DOMAIN db.buses /\ at \in Nat /\ db \in Bases
    BY <1>1, <1>2, Given DEF StageInv
  <2>3. /\ IsSeq(new)
        /\ HasRides(new, db, name_id, bus_wait_time, b)
    BY <2>1, <2>2, EdgesOfBusAreRides, BusHasRides
  <2>4. IsSeq(edges)
    BY <1>1, <1>2 DEF PlanInv, IsPlan
  <2> DEFINE S == Range(edges) \cup Range(new)
  <2> HIDE DEF new, bus
  <2>5. edges \in Seq(S) /\ new \in Seq(S)
    BY <2>3, <2>4 DEF IsSeq
  <2> HIDE DEF S
  <2>6. Range(edges) \subseteq Range(edges') /\ Range(new) \subseteq Range(edges')
    BY <2>1, <2>5, JoinedHas
  <2>7. ASSUME NEW c \in 1 .. at + 1
        PROVE  HasRides(edges', db, name_id, bus_wait_time, c)
    <3>1. CASE c = b
      BY <2>3, <2>6, <3>1 DEF HasRides
    <3>2. CASE c # b
      <4>1. c \in 1 .. at
        BY <2>2, <3>2
      <4>2. HasRides(edges, db, name_id, bus_wait_time, c)
        BY <1>2, <4>1 DEF CompleteInv
      <4> QED
        BY <2>6, <4>2 DEF HasRides
    <3> QED
      BY <3>1, <3>2
  <2> QED
    BY <1>2, <2>1, <2>7 DEF CompleteInv
<1> QED
  BY <1>3, <1>4

\* Every other step leaves the edges of complete buses alone.
LEMMA CompletenessKept ==
  ASSUME ServiceInv, CompleteInv, [Next]_vars
  PROVE  CompleteInv'
<1>1. StageInv
  BY DEF ServiceInv
<1>2. CASE FillStop
  BY <1>2 DEF FillStop, CompleteInv
<1>3. CASE EndStops
  BY <1>3 DEF EndStops, CompleteInv
<1>4. CASE FillBus
  BY <1>4, FillBusCompletes
<1>5. CASE CreateRouter
  <2>1. /\ stage = "buses" /\ at = Len(db.buses) /\ stage' = "router"
        /\ UNCHANGED <<db, bus_wait_time, name_id, edges>>
    BY <1>5 DEF CreateRouter
  <2>2. DOMAIN db.buses = 1 .. at
    BY <1>1, <2>1, Given
  <2> QED
    BY <2>1, <2>2 DEF CompleteInv, HasAllRides
<1>6. CASE ConstructRouter
  <2>1. stage = "router" /\ UNCHANGED <<db, bus_wait_time, name_id>>
    BY <1>6 DEF ConstructRouter
  <2>2. stage' \in {"router", "serving", "terminated"}
    BY <1>6, <2>1 DEF ConstructRouter
  <2>3. edges' = edges
    BY <1>6
    DEF ConstructRouter, R!Construct, R!EnterVertex, R!VisitEdge, R!LeaveVertex,
        R!BeginRelaxation, R!SkipRow, R!RelaxRoute, R!FinishRelaxation,
        NoVertices!Construct, NoVertices!EnterVertex, NoVertices!VisitEdge,
        NoVertices!LeaveVertex, NoVertices!BeginRelaxation, NoVertices!SkipRow,
        NoVertices!RelaxRoute, NoVertices!FinishRelaxation
  <2> QED
    BY <2>1, <2>2, <2>3 DEF CompleteInv
<1>7. CASE \E f, t \in Names : AskRoute(f, t)
  <2>1. PICK f \in Names, t \in Names : AskRoute(f, t)
    BY <1>7
  <2>2. /\ stage = "serving" /\ stage' \in {"serving", "terminated"}
        /\ UNCHANGED <<db, bus_wait_time, name_id, edges>>
    BY <2>1 DEF AskRoute, R!Ask
  <2> QED
    BY <2>2 DEF CompleteInv
<1>8. CASE WalkRoute \/ Respond
  <2>1. UNCHANGED <<db, bus_wait_time, stage, at, name_id, edges>>
    BY <1>8 DEF WalkRoute, Respond, own, R!PushEdge, R!ReturnRoute, R!ReturnNothing
  <2> QED
    BY <2>1 DEF CompleteInv
<1>9. CASE UNCHANGED vars
  <2>1. UNCHANGED <<db, bus_wait_time, stage, at, name_id, edges>>
    BY <1>9 DEF vars, own
  <2> QED
    BY <2>1 DEF CompleteInv
<1> QED
  BY <1>2, <1>3, <1>4, <1>5, <1>6, <1>7, <1>8, <1>9 DEF Next, Build

-----------------------------------------------------------------------------
(* No trip is quicker.                                                      *)

WeightsOf(graph, w) == [k \in 1 .. Len(w) |-> graph[w[k]].weight]

\* A walk, its edges of any kind, from one number to another.
Joined(graph, w, f, t) ==
  IF w = <<>> THEN f = t
  ELSE /\ graph[w[1]].from = f
       /\ graph[w[Len(w)]].to = t
       /\ \A k \in 1 .. Len(w) - 1 : graph[w[k]].to = graph[w[k + 1]].from

\* No walk from f to t weighs less than the total; without a total there is none.
NoneLighter(graph, f, t, found, total) ==
  \A w \in Seq(DOMAIN graph) :
    Joined(graph, w, f, t) =>
      /\ found
      /\ \E sum : IsRunningSum(sum, Len(w), WeightsOf(graph, w)) /\ total <= sum[Len(w)]

\* A passenger rides along the route.
LEMMA RidesWithin ==
  ASSUME NEW bus, NEW S, bus.stops \in Seq(S), NEW way \in Ways(bus),
         NEW i \in way, NEW hops \in Nat \ {0}, i + hops \in way
  PROVE  i \in 1 .. Len(bus.stops) /\ i + hops \in 1 .. Len(bus.stops)
<1> DEFINE n == Len(bus.stops)
           h == (n + 1) \div 2
<1>1. n \in Nat
  OBVIOUS
<1>2. way \in {1 .. n, 1 .. h, h .. n}
  BY DEF Ways
<1> HIDE DEF n
<1>3. h \in Nat /\ h <= n + 1 /\ (n # 0 => h >= 1 /\ h <= n) /\ (n = 0 => h = 0)
  BY <1>1
<1> HIDE DEF h
<1>4. i \in 1 .. n /\ i + hops \in 1 .. n
  BY <1>1, <1>2, <1>3
<1> QED
  BY <1>4 DEF n

\* What BuildRoute returns is not beaten.
LEMMA AnswerIsLeast ==
  ASSUME P!RouterInv, P!ReturnRoute \/ P!ReturnNothing
  PROVE  NoneLighter(edges, query.from, query.to, answer'.found, answer'.weight)
<1>1. P!VertexCountAssumption /\ P!GraphsAssumption
  BY SettingsAssumption DEF P!VertexCountAssumption, P!GraphsAssumption
<1>2. P!IsLightest(answer', query.from, query.to)
  BY <1>1, P!LightestReturned
<1>3. ASSUME NEW w \in Seq(DOMAIN edges), Joined(edges, w, query.from, query.to)
      PROVE  /\ answer'.found
             /\ \E sum : /\ IsRunningSum(sum, Len(w), WeightsOf(edges, w))
                        /\ answer'.weight <= sum[Len(w)]
  <2>1. w \in P!Walk /\ P!IsWalk(w, query.from, query.to)
    BY <1>3 DEF P!Walk, P!IsWalk, P!Planner!IsWalk, Joined
  <2>2. answer'.found /\ answer'.weight <= P!Cost(w)
    BY <1>2, <2>1 DEF P!IsLightest
  <2>3. P!IsRunningSum(P!Planner!CostUpTo(w), Len(w), P!Weights(w))
    BY <1>1, <2>1, P!CostIsSum DEF P!RouterInv
  <2>4. IsRunningSum(P!Planner!CostUpTo(w), Len(w), WeightsOf(edges, w))
    BY <2>3, Zenon DEF P!IsRunningSum, IsRunningSum, P!Weights, WeightsOf
  <2>5. P!Cost(w) = P!Planner!CostUpTo(w)[Len(w)]
    BY DEF P!Cost, P!Planner!Cost
  <2> QED
    BY <2>2, <2>4, <2>5
<1> QED
  BY <1>3 DEF NoneLighter

\* A walk that weighs so much.
Takes(graph, w, f, t, total) ==
  /\ Joined(graph, w, f, t)
  /\ \A sum : IsRunningSum(sum, Len(w), WeightsOf(graph, w)) => total = sum[Len(w)]

\* The rides of a trip are edges, and make a walk that weighs what the trip takes.
LEMMA TripIsWalk ==
  ASSUME NEW d \in Bases, NEW ids, NEW wait \in Int, NEW graph,
         HasAllRides(graph, d, ids, wait),
         NEW items, NEW total, NEW s, NEW t, IsTrip(d, wait, items, total, s, t)
  PROVE  \E w \in Seq(DOMAIN graph) : Takes(graph, w, ids[s], ids[t], total)
<1> DEFINE n == Len(items) \div 2
           place(k) == PlaceOf(items, t, k)
<1>1. /\ IsSeq(items)
      /\ Len(items) = 2 * n
      /\ place(1) = s
      /\ total = TotalOf(items)
  BY DEF IsTrip, IsItinerary
<1>2. n \in Nat /\ DOMAIN items = 1 .. 2 * n
  <2>1. Len(items) \in Nat /\ DOMAIN items = 1 .. Len(items)
    BY <1>1 DEF IsSeq
  <2> QED
    BY <1>1, <2>1
<1>3. \A k \in 1 .. n :
        /\ items[2 * k - 1].time = wait
        /\ items[2 * k].span_count \in Nat /\ items[2 * k].span_count > 0
        /\ Rideable(d, items[2 * k], place(k), place(k + 1))
  BY DEF IsTrip, IsItinerary
<1>4. \A k \in Nat : k > n => place(k) = t
  BY DEF PlaceOf
<1> HIDE DEF n, place
<1> DEFINE Fits(e, k) == /\ graph[e].from = ids[place(k)]
                         /\ graph[e].to = ids[place(k + 1)]
                         /\ graph[e].weight = wait + items[2 * k].time
<1>5. ASSUME NEW k \in 1 .. n
      PROVE  (\E e \in DOMAIN graph : Fits(e, k)) /\ items[2 * k].time \in Int
  <2> DEFINE travel == items[2 * k]
             here   == place(k)
             there  == place(k + 1)
  <2>1. travel.span_count \in Nat /\ travel.span_count > 0 /\ Rideable(d, travel, here, there)
    BY <1>3
  <2> HIDE DEF travel, here, there
  <2>2. PICK b \in DOMAIN d.buses : \E way \in Ways(d.buses[b]) : \E i \in way :
            /\ d.buses[b].name = travel.bus
            /\ i + travel.span_count \in way
            /\ d.buses[b].stops[i] = here
            /\ d.buses[b].stops[i + travel.span_count] = there
            /\ SumTime(d, d.buses[b].stops, i, i + travel.span_count) = travel.time
    BY <2>1 DEF Rideable
  <2> DEFINE bus == d.buses[b]
  <2>3. PICK way \in Ways(bus) : \E i \in way :
            /\ i + travel.span_count \in way
            /\ bus.stops[i] = here
            /\ bus.stops[i + travel.span_count] = there
            /\ SumTime(d, bus.stops, i, i + travel.span_count) = travel.time
    BY <2>2
  <2>4. PICK i \in way :
            /\ i + travel.span_count \in way
            /\ bus.stops[i] = here
            /\ bus.stops[i + travel.span_count] = there
            /\ SumTime(d, bus.stops, i, i + travel.span_count) = travel.time
    BY <2>3
  <2> DEFINE j == i + travel.span_count
  <2>5. bus.stops \in Seq(NamesOf(d.stops))
    BY BasesAssumption DEF IsFilled
  <2>6. i \in 1 .. Len(bus.stops) /\ j \in 1 .. Len(bus.stops)
    <3> HIDE DEF bus
    <3> QED
      BY <2>1, <2>4, <2>5, RidesWithin
  <2>7. i \in Nat /\ j \in Nat /\ i < j
    BY <2>1, <2>6
  <2>8. OnTheWay(bus, i, j)
    BY <2>4, <2>6, <2>7 DEF OnTheWay
  <2>9. /\ bus.stops[i] = here /\ bus.stops[j] = there
        /\ SumTime(d, bus.stops, i, j) = travel.time
    BY <2>4
  <2> HIDE DEF j, bus
  <2>10. Ride(d, ids, wait, bus, i, j) \in Range(graph)
    BY <2>2, <2>7, <2>8 DEF HasAllRides, HasRides, bus
  <2>11. PICK e \in DOMAIN graph : graph[e] = Ride(d, ids, wait, bus, i, j)
    BY <2>10 DEF Range
  <2>12. /\ graph[e].from = ids[here]
         /\ graph[e].to = ids[there]
         /\ graph[e].weight = wait + travel.time
    BY <2>9, <2>11 DEF Ride
  <2>13. travel.time \in Int
    BY <2>7, <2>9, RideTakes
  <2> QED
    BY <2>12, <2>13 DEF travel, here, there
<1> DEFINE w == [k \in 1 .. n |-> CHOOSE e \in DOMAIN graph : Fits(e, k)]
<1>6. \A k \in 1 .. n : w[k] \in DOMAIN graph /\ Fits(w[k], k)
  <2> TAKE k \in 1 .. n
  <2>1. \E e \in DOMAIN graph : Fits(e, k)
    BY <1>5
  <2>2. w[k] = CHOOSE e \in DOMAIN graph : Fits(e, k)
    OBVIOUS
  <2> HIDE DEF Fits, w
  <2> QED
    BY <2>1, <2>2
<1>7. DOMAIN w = 1 .. n /\ w = [k \in 1 .. n |-> w[k]]
  OBVIOUS
<1> HIDE DEF w
<1>8. w \in Seq(DOMAIN graph) /\ Len(w) = n
  BY <1>2, <1>6, <1>7
<1>9. Joined(graph, w, ids[s], ids[t])
  <2>1. CASE n = 0
    <3>1. place(1) = t
      BY <1>4, <2>1
    <3>2. w = <<>>
      BY <1>8, <2>1
    <3> QED
      BY <1>1, <3>1, <3>2 DEF Joined
  <2>2. CASE n # 0
    <3>1. w # <<>>
      BY <1>8, <2>2
    <3>2. 1 \in 1 .. n /\ n \in 1 .. n /\ place(n + 1) = t
      BY <1>2, <1>4, <2>2
    <3>3. graph[w[1]].from = ids[s] /\ graph[w[n]].to = ids[t]
      BY <1>1, <1>6, <3>2
    <3>4. \A k \in 1 .. n - 1 : graph[w[k]].to = graph[w[k + 1]].from
      <4> TAKE k \in 1 .. n - 1
      <4>1. k \in 1 .. n /\ k + 1 \in 1 .. n
        BY <1>2
      <4>2. graph[w[k]].to = ids[place(k + 1)]
        BY <1>6, <4>1
      <4>3. graph[w[k + 1]].from = ids[place(k + 1)]
        BY <1>6, <4>1
      <4> QED
        BY <4>2, <4>3
    <3> QED
      BY <1>8, <3>1, <3>3, <3>4 DEF Joined
  <2> QED
    BY <2>1, <2>2
<1> DEFINE weights == WeightsOf(graph, w)
<1>10. \A k \in 1 .. n : weights[k] = wait + items[2 * k].time
  BY <1>6, <1>8 DEF WeightsOf
<1> HIDE DEF weights, Fits
<1>11. TakeInTurn(items, n, wait, weights)
  <2> SUFFICES ASSUME NEW k \in 1 .. n
               PROVE  /\ weights[k] \in Int
                      /\ items[2 * k - 1].time = wait
                      /\ items[2 * k].time = weights[k] - wait
    BY <1>2 DEF TakeInTurn
  <2> DEFINE tm == items[2 * k].time
  <2>1. tm \in Int /\ weights[k] = wait + tm /\ items[2 * k - 1].time = wait
    BY <1>3, <1>5, <1>10
  <2> HIDE DEF tm
  <2>2. weights[k] \in Int /\ tm = weights[k] - wait
    BY <2>1
  <2> QED
    BY <2>1, <2>2 DEF tm
<1>12. ASSUME NEW sum, IsRunningSum(sum, Len(w), weights)
       PROVE  total = sum[Len(w)]
  <2>1. IsRunningSum(sum, n, weights)
    BY <1>8, <1>12
  <2>2. TotalOf(items) = sum[n]
    BY <1>2, <1>11, <2>1, TimesAddUp
  <2> QED
    BY <1>1, <1>8, <2>2
<1> QED
  BY <1>8, <1>9, <1>12 DEF weights, Takes

\* What has been answered is not beaten by any walk of the graph.
LeastInv ==
  Answered =>
    /\ request[1] \in DOMAIN name_id /\ request[2] \in DOMAIN name_id
    /\ NoneLighter(edges, name_id[request[1]], name_id[request[2]],
                   response.found, response.total_time)

\* Only Respond makes an answer.
LEMMA AnswersOnlyFromRespond ==
  ASSUME ServiceInv, [Next]_vars, ~ Respond, Answered'
  PROVE  Answered /\ UNCHANGED <<request, response, name_id, edges>>
<1>1. StageInv
  BY DEF ServiceInv
<1>2. CASE FillStop \/ EndStops \/ FillBus \/ CreateRouter
  <2>1. stage' # "serving"
    BY <1>2 DEF FillStop, EndStops, FillBus, CreateRouter
  <2> QED
    BY <2>1 DEF Answered
<1>3. CASE ConstructRouter
  <2>1. request' = <<>>
    BY <1>1, <1>3 DEF ConstructRouter, StageInv
  <2> QED
    BY <2>1 DEF Answered
<1>4. CASE \E f, t \in Names : AskRoute(f, t)
  <2>1. PICK f \in Names, t \in Names : AskRoute(f, t)
    BY <1>4
  <2>2. pc' = "walk" \/ stage' = "terminated"
    BY <2>1 DEF AskRoute, R!Ask
  <2> QED
    BY <2>2 DEF Answered
<1>5. CASE WalkRoute
  BY <1>5 DEF WalkRoute, R!PushEdge, Answered
<1>6. CASE UNCHANGED vars
  BY <1>6 DEF vars, own, routing, Answered
<1> QED
  BY <1>2, <1>3, <1>4, <1>5, <1>6 DEF Next, Build

\* Respond passes on what BuildRoute returns.
LEMMA RespondIsLeast ==
  ASSUME ServiceInv, AskedInv, Respond
  PROVE  LeastInv'
<1>1. /\ StageInv /\ RoutingInv
      /\ UNCHANGED <<room, stage, name_id, request>>
  BY DEF ServiceInv, Respond
<1>2. pc = "walk" /\ edges' = edges
  BY DEF Respond, R!ReturnRoute, R!ReturnNothing
<1>3. P!RouterInv
  BY <1>1, <1>2 DEF StageInv, RoutingInv, Idle
<1>4. P!ReturnRoute \/ P!ReturnNothing
  BY DEF Respond, R!ReturnRoute, P!ReturnRoute, R!ReturnNothing, P!ReturnNothing, R!NoAnswer,
         P!NoAnswer, R!Known, P!Known, R!NoRoute, P!NoRoute, R!NoEdge, P!NoEdge,
         R!matrix, P!matrix, R!loops, P!loops, R!Reverse, P!Reverse
<1>5. NoneLighter(edges, query.from, query.to, answer'.found, answer'.weight)
  BY <1>3, <1>4, AnswerIsLeast
<1>6. /\ request[1] \in DOMAIN name_id /\ query.from = name_id[request[1]]
      /\ request[2] \in DOMAIN name_id /\ query.to = name_id[request[2]]
  BY <1>2 DEF AskedInv
<1>7. CASE answer'.found
  <2>1. response'.found /\ response'.total_time = answer'.weight
    BY <1>7, RespondIs
  <2> QED
    BY <1>1, <1>2, <1>5, <1>6, <1>7, <2>1 DEF LeastInv, NoneLighter
<1>8. CASE ~ answer'.found
  <2>1. \A w \in Seq(DOMAIN edges) : ~ Joined(edges, w, query.from, query.to)
    BY <1>5, <1>8 DEF NoneLighter
  <2>2. NoneLighter(edges, query.from, query.to, response'.found, response'.total_time)
    BY <2>1 DEF NoneLighter
  <2> QED
    BY <1>1, <1>2, <1>6, <2>2 DEF LeastInv
<1> QED
  BY <1>7, <1>8

\* The answer is the quickest trip from stop s to stop t, or there is no trip.
IsQuickest(d, wait, answered, s, t) ==
  /\ answered.found => IsTrip(d, wait, answered.items, answered.total_time, s, t)
  /\ \A items, total :
       IsTrip(d, wait, items, total, s, t) => answered.found /\ answered.total_time <= total

\* Every Route request answered has been answered with the quickest trip.
AnswersAreQuickest ==
  Answered => IsQuickest(db, bus_wait_time, response, request[1], request[2])

AnswersInv == ToldCorrectly /\ CompleteInv /\ LeastInv

\* At the beginning there are no answers.
LEMMA AnswersStart == Init => AnswersInv
<1> SUFFICES ASSUME Init
             PROVE  AnswersInv
  OBVIOUS
<1>1. ToldCorrectly /\ stage = "stops"
  BY TellingStarts DEF Init
<1> QED
  BY <1>1 DEF AnswersInv, CompleteInv, LeastInv, Answered

\* Every step keeps the answers right.
LEMMA AnswersStep == AnswersInv /\ [Next]_vars => AnswersInv'
<1> SUFFICES ASSUME AnswersInv, [Next]_vars
             PROVE  AnswersInv'
  OBVIOUS
<1>1. ToldCorrectly' /\ ServiceInv /\ AskedInv
  BY TellingSteps DEF AnswersInv, ToldCorrectly
<1>2. CompleteInv'
  BY <1>1, CompletenessKept DEF AnswersInv
<1>3. LeastInv'
  <2>1. CASE Respond
    BY <1>1, <2>1, RespondIsLeast
  <2>2. CASE ~ Respond /\ Answered'
    <3>1. Answered /\ UNCHANGED <<request, response, name_id, edges>>
      BY <1>1, <2>2, AnswersOnlyFromRespond
    <3> QED
      BY <3>1 DEF AnswersInv, LeastInv
  <2>3. CASE ~ Answered'
    BY <2>3 DEF LeastInv
  <2> QED
    BY <2>1, <2>2, <2>3
<1> QED
  BY <1>1, <1>2, <1>3 DEF AnswersInv

\* The invariant makes every answer the quickest trip.
LEMMA QuickestOfAll == AnswersInv => AnswersAreQuickest
<1> SUFFICES ASSUME AnswersInv, Answered
             PROVE  IsQuickest(db, bus_wait_time, response, request[1], request[2])
  BY DEF AnswersAreQuickest
<1> DEFINE s == request[1]
           t == request[2]
<1>1. /\ StageInv /\ ToldInv /\ stage = "serving"
      /\ HasAllRides(edges, db, name_id, bus_wait_time)
      /\ NoneLighter(edges, name_id[s], name_id[t], response.found, response.total_time)
  BY DEF AnswersInv, ToldCorrectly, ServiceInv, CompleteInv, LeastInv, Answered
<1>2. db \in Bases /\ bus_wait_time \in Int
  BY <1>1, Given DEF StageInv
<1>3. response.found => IsTrip(db, bus_wait_time, response.items, response.total_time, s, t)
  BY <1>1 DEF ToldInv, Told
<1> HIDE DEF s, t
<1>4. ASSUME NEW items, NEW total, IsTrip(db, bus_wait_time, items, total, s, t)
      PROVE  response.found /\ response.total_time <= total
  <2>1. PICK w \in Seq(DOMAIN edges) : Takes(edges, w, name_id[s], name_id[t], total)
    BY <1>1, <1>2, <1>4, TripIsWalk
  <2>2. PICK sum : IsRunningSum(sum, Len(w), WeightsOf(edges, w))
                   /\ response.total_time <= sum[Len(w)]
    BY <1>1, <2>1 DEF NoneLighter, Takes
  <2>3. response.found
    BY <1>1, <2>1 DEF NoneLighter, Takes
  <2>4. total = sum[Len(w)]
    BY <2>1, <2>2 DEF Takes
  <2> QED
    BY <2>2, <2>3, <2>4
<1> QED
  BY <1>3, <1>4 DEF IsQuickest, s, t

\* Whatever the catalogue, the waits, the vertex count and the questions: a
\* route told is a trip a passenger can take, no trip the buses offer takes
\* less time, and "not found" is said only where the buses offer none.
THEOREM QuickestCorrect == Spec => []AnswersAreQuickest
<1>1. Spec => []AnswersInv
  BY AnswersStart, AnswersStep, PTL DEF Spec
<1> QED
  BY <1>1, QuickestOfAll, PTL

-----------------------------------------------------------------------------
(* The passenger.                                                           *)

\* A set is finite when each of its elements comes from one of a finite set.
LEMMA FromFinite ==
  ASSUME NEW S, IsFiniteSet(S), NEW f, NEW T, \A y \in T : \E x \in S : y = f[x]
  PROVE  IsFiniteSet(T)
<1> DEFINE U == {x \in S : f[x] \in T}
           g == [x \in U |-> f[x]]
<1>1. g \in Surjection(U, T)
  BY DEF Surjection
<1>2. IsFiniteSet(U)
  BY FS_Subset
<1> QED
  BY <1>1, <1>2, FS_Surjection

\* A seat is a bus, a way and a position; it is not a stop.
LEMMA SeatsAre ==
  /\ \A b, way, p :
       <<b, way, p>> \in Seats <=> b \in DOMAIN db.buses /\ way \in Ways(db.buses[b]) /\ p \in way
  /\ \A seat \in Seats :
       /\ seat = <<seat[1], seat[2], seat[3]>>
       /\ seat[1] \in DOMAIN db.buses /\ seat[2] \in Ways(db.buses[seat[1]]) /\ seat[3] \in seat[2]
       /\ seat \notin Stops
<1>1. ASSUME NEW seat \in Seats
      PROVE  \E b, way, p : /\ seat = <<b, way, p>>
                            /\ b \in DOMAIN db.buses /\ way \in Ways(db.buses[b]) /\ p \in way
  BY DEF Seats
<1>2. \A b, way, p :
        b \in DOMAIN db.buses /\ way \in Ways(db.buses[b]) /\ p \in way => <<b, way, p>> \in Seats
  BY DEF Seats
<1>3. ASSUME NEW b, NEW way, NEW p
      PROVE  <<b, way, p>> \notin Stops
  BY DEF Stops
<1> QED
  BY <1>1, <1>2, <1>3

\* The ways are intervals of natural numbers.
LEMMA WaysAre ==
  ASSUME NEW bus, NEW S, bus.stops \in Seq(S)
  PROVE  /\ IsFiniteSet(Ways(bus))
         /\ \A way \in Ways(bus) : \E first, last \in Nat : way = first .. last
<1> DEFINE n == Len(bus.stops)
           h == (n + 1) \div 2
<1>1. n \in Nat
  OBVIOUS
<1>2. Ways(bus) \in {{1 .. n}, {1 .. h, h .. n}}
  BY DEF Ways
<1> HIDE DEF n
<1>3. h \in Nat
  BY <1>1
<1> HIDE DEF h
<1>4. \A way \in Ways(bus) : way \in {1 .. n, 1 .. h, h .. n}
  BY <1>2
<1>5. IsFiniteSet({1 .. n}) /\ IsFiniteSet({1 .. h, h .. n})
  <2>1. IsFiniteSet({1 .. n}) /\ IsFiniteSet({1 .. h} \cup {h .. n})
    BY FS_AddElement, FS_Singleton
  <2>2. {1 .. h} \cup {h .. n} = {1 .. h, h .. n}
    OBVIOUS
  <2> QED
    BY <2>1, <2>2
<1> QED
  BY <1>3, <1>1, <1>2, <1>4, <1>5

\* There are finitely many places.
LEMMA PlacesFinite ==
  ASSUME IsFilled(db)
  PROVE  IsFiniteSet(Stops \cup Seats)
<1> DEFINE seats(b, way) == {<<b, way, p>> : p \in way}
           onBus(b) == UNION {seats(b, way) : way \in Ways(db.buses[b])}
<1>1. IsFiniteSet(Stops)
  <2> DEFINE f == [s \in DOMAIN db.stop_by_name |-> <<s>>]
  <2>1. \A p \in Stops : \E s \in DOMAIN db.stop_by_name : p = f[s]
    BY DEF Stops
  <2>2. IsFiniteSet(DOMAIN db.stop_by_name)
    BY KnownNames
  <2> HIDE DEF f
  <2> QED
    BY <2>1, <2>2, FromFinite
<1>2. ASSUME NEW b \in DOMAIN db.buses
      PROVE  IsFiniteSet(onBus(b))
  <2> DEFINE bus == db.buses[b]
  <2>1. bus.stops \in Seq(NamesOf(db.stops))
    BY DEF IsFilled
  <2>2. IsFiniteSet(Ways(bus)) /\ \A way \in Ways(bus) : IsFiniteSet(way)
    <3>1. /\ IsFiniteSet(Ways(bus))
          /\ \A way \in Ways(bus) : \E first, last \in Nat : way = first .. last
      BY <2>1, WaysAre
    <3>2. \A first, last \in Nat : IsFiniteSet(first .. last)
      BY FS_Interval
    <3> QED
      BY <3>1, <3>2
  <2>3. ASSUME NEW way \in Ways(bus)
        PROVE  IsFiniteSet(seats(b, way))
    <3> DEFINE f == [p \in way |-> <<b, way, p>>]
    <3>1. \A seat \in seats(b, way) : \E p \in way : seat = f[p]
      OBVIOUS
    <3> HIDE DEF f, seats
    <3> QED
      BY <2>2, <3>1, FromFinite
  <2> DEFINE g == [way \in Ways(bus) |-> seats(b, way)]
             all == {seats(b, way) : way \in Ways(bus)}
  <2>4. \A T \in all : \E way \in Ways(bus) : T = g[way]
    OBVIOUS
  <2>5. \A T \in all : IsFiniteSet(T)
    BY <2>3
  <2> HIDE DEF g, all
  <2>6. IsFiniteSet(all)
    BY <2>2, <2>4, FromFinite
  <2> USE DEF all
  <2> QED
    BY <2>6, <2>5, FS_UNION
<1> DEFINE h == [b \in DOMAIN db.buses |-> onBus(b)]
<1>3. Seats = UNION {onBus(b) : b \in DOMAIN db.buses}
  BY Zenon DEF Seats
<1> HIDE DEF onBus
<1> DEFINE all == {onBus(b) : b \in DOMAIN db.buses}
<1>4. \A T \in all : \E b \in DOMAIN db.buses : T = h[b]
  OBVIOUS
<1>5. IsFiniteSet(DOMAIN db.buses)
  <2>1. Len(db.buses) \in Nat /\ DOMAIN db.buses = 1 .. Len(db.buses)
    BY DEF IsFilled
  <2> QED
    BY <2>1, FS_Interval
<1> HIDE DEF h
<1>6. (\A T \in all : IsFiniteSet(T)) /\ Seats = UNION all
  BY <1>2, <1>3
<1> HIDE DEF all
<1>7. IsFiniteSet(all)
  BY <1>4, <1>5, FromFinite
<1>8. IsFiniteSet(Seats)
  BY <1>6, <1>7, FS_UNION
<1> QED
  BY <1>1, <1>8, FS_Union

\* The places from which all moves are known to lead somewhere.
Places == {p \in Stops \cup Seats : p \in Seats => <<StopAt(p)>> \in Stops}

MovesFrom == [p \in Places |-> Moves(p)]

\* How far it is between two stops is an integer.
LEMMA DistanceIs ==
  ASSUME NEW d \in Bases, NEW s, NEW t
  PROVE  GetActualDistanceBetweenStops(d, s, t) \in Int
  BY BasesAssumption DEF GetActualDistanceBetweenStops, Find

\* A seat that is not the first of its way is at a known stop.
LEMMA SeatAhead ==
  ASSUME db \in Bases, NEW b, NEW way, NEW p, <<b, way, p>> \in Seats,
         NEW i \in way, i < p
  PROVE  /\ i \in Nat /\ p \in Nat
         /\ OnTheWay(db.buses[b], i, p)
         /\ db.buses[b].stops[i] \in DOMAIN db.stop_by_name
         /\ db.buses[b].stops[p] \in DOMAIN db.stop_by_name
         /\ <<b, way, p>> \in Places
<1> DEFINE bus == db.buses[b]
<1>1. b \in DOMAIN db.buses /\ way \in Ways(bus) /\ p \in way
  BY SeatsAre
<1>2. bus.stops \in Seq(DOMAIN db.stop_by_name)
  BY <1>1, BasesAssumption DEF IsFilled, TablesAgree
<1>3. i \in Nat /\ p \in Nat
  <2>1. PICK first \in Nat, last \in Nat : way = first .. last
    BY <1>1, <1>2, WaysAre
  <2> QED
    BY <1>1, <2>1
<1> DEFINE hops == p - i
<1>4. hops \in Nat \ {0} /\ i + hops = p
  BY <1>3
<1>5. i \in 1 .. Len(bus.stops) /\ i + hops \in 1 .. Len(bus.stops)
  <2> HIDE DEF hops, bus
  <2> QED
    BY <1>1, <1>2, <1>4, RidesWithin
<1>6. i \in 1 .. Len(bus.stops) /\ p \in 1 .. Len(bus.stops)
  BY <1>4, <1>5
<1>7. OnTheWay(bus, i, p)
  BY <1>1, <1>6 DEF OnTheWay
<1>8. bus.stops[i] \in DOMAIN db.stop_by_name /\ bus.stops[p] \in DOMAIN db.stop_by_name
  BY <1>2, <1>6
<1>9. <<b, way, p>> \in Places
  BY <1>8 DEF Places, StopAt, Stops
<1> QED
  BY <1>3, <1>7, <1>8, <1>9

\* Every move leads from a place to a place and takes an integer time.
LEMMA MovesLead ==
  ASSUME db \in Bases, bus_wait_time \in Int
  PROVE  IsMap(Places, MovesFrom)
<1>1. IsFiniteSet(Places)
  <2>1. IsFiniteSet(Stops \cup Seats)
    BY BasesAssumption, PlacesFinite
  <2> QED
    BY <2>1, FS_Subset DEF Places
<1>2. ASSUME NEW place \in Places, NEW m \in Moves(place)
      PROVE  m \in Places \X Int
  <2>1. CASE place \in Stops
    <3>1. PICK seat \in Seats : StopAt(seat) = place[1] /\ m = <<seat, bus_wait_time>>
      BY <2>1 DEF Moves
    <3>2. <<place[1]>> = place
      BY <2>1 DEF Stops
    <3>3. seat \in Places
      BY <2>1, <3>1, <3>2 DEF Places
    <3> QED
      BY <3>1, <3>3
  <2>2. CASE place \notin Stops
    <3>1. place \in Seats /\ <<StopAt(place)>> \in Stops
      BY <2>2 DEF Places
    <3>2. <<StopAt(place)>> \in Places
      BY <3>1, SeatsAre DEF Places
    <3>3. CASE m = <<<<StopAt(place)>>, 0>>
      BY <3>2, <3>3
    <3>4. CASE m # <<<<StopAt(place)>>, 0>>
      <4> DEFINE seat == <<place[1], place[2], place[3] + 1>>
      <4>1. /\ seat \in Seats
            /\ m = <<seat, GetActualDistanceBetweenStops(db, StopAt(place), StopAt(seat))>>
        BY <2>2, <3>4 DEF Moves
      <4>2. /\ place[3] \in place[2] /\ place[2] \in Ways(db.buses[place[1]])
            /\ place[1] \in DOMAIN db.buses
        BY <3>1, SeatsAre
      <4>3. place[3] \in Nat
        <5>1. db.buses[place[1]].stops \in Seq(NamesOf(db.stops))
          BY <4>2, BasesAssumption DEF IsFilled
        <5>2. PICK first \in Nat, last \in Nat : place[2] = first .. last
          BY <4>2, <5>1, WaysAre
        <5> QED
          BY <4>2, <5>2
      <4>4. seat \in Places
        BY <4>1, <4>2, <4>3, SeatAhead
      <4> HIDE DEF seat
      <4> QED
        BY <4>1, <4>4, DistanceIs
    <3> QED
      BY <3>3, <3>4
  <2> QED
    BY <2>1, <2>2
<1> QED
  BY <1>1, <1>2 DEF IsMap, MovesFrom

\* Along the edges stop s can be reached from stop f by that time.
Arrives(f, s, time) ==
  \E w \in Seq(DOMAIN edges) :
    /\ Joined(edges, w, name_id[f], name_id[s])
    /\ \A sum : IsRunningSum(sum, Len(w), WeightsOf(edges, w)) => sum[Len(w)] <= time

\* One edge more takes one to its end.
LEMMA ArriveByEdge ==
  ASSUME IsSeq(edges), \A e \in DOMAIN edges : edges[e].weight \in Nat,
         NEW f, NEW s, NEW t, NEW time \in Int, Arrives(f, s, time),
         NEW e \in DOMAIN edges, edges[e].from = name_id[s], edges[e].to = name_id[t]
  PROVE  Arrives(f, t, time + edges[e].weight)
<1>1. PICK w \in Seq(DOMAIN edges) :
        /\ Joined(edges, w, name_id[f], name_id[s])
        /\ \A sum : IsRunningSum(sum, Len(w), WeightsOf(edges, w)) => sum[Len(w)] <= time
  BY DEF Arrives
<1> DEFINE n == Len(w)
           v == Append(w, e)
           d == WeightsOf(edges, w)
           c == WeightsOf(edges, v)
<1>2. /\ n \in Nat /\ v \in Seq(DOMAIN edges) /\ Len(v) = n + 1
      /\ \A k \in 1 .. n : v[k] = w[k] /\ w[k] \in DOMAIN edges
      /\ v[n + 1] = e
      /\ w = <<>> <=> n = 0
  OBVIOUS
<1>3. /\ \A k \in 1 .. n : c[k] = d[k] /\ d[k] \in Nat
      /\ c[n + 1] = edges[e].weight
  <2>1. \A k \in 1 .. n : c[k] = edges[v[k]].weight /\ d[k] = edges[w[k]].weight
    BY <1>2 DEF WeightsOf
  <2>2. c[n + 1] = edges[e].weight
    BY <1>2 DEF WeightsOf
  <2> QED
    BY <1>2, <2>1, <2>2
<1>4. Joined(edges, v, name_id[f], name_id[t])
  <2>1. v # <<>>
    BY <1>2
  <2>2. edges[v[Len(v)]].to = name_id[t]
    BY <1>2
  <2>3. edges[v[1]].from = name_id[f]
    <3>1. CASE n = 0
      BY <1>1, <1>2, <3>1 DEF Joined
    <3>2. CASE n # 0
      BY <1>1, <1>2, <3>2 DEF Joined
    <3> QED
      BY <3>1, <3>2
  <2>4. ASSUME NEW k \in 1 .. Len(v) - 1
        PROVE  edges[v[k]].to = edges[v[k + 1]].from
    <3>1. CASE k = n
      <4>1. w # <<>> /\ v[k] = w[Len(w)] /\ v[k + 1] = e
        BY <1>2, <3>1
      <4>2. edges[w[Len(w)]].to = name_id[s]
        BY <1>1, <4>1 DEF Joined
      <4> QED
        BY <4>1, <4>2
    <3>2. CASE k # n
      <4>1. k \in 1 .. n - 1 /\ v[k] = w[k] /\ v[k + 1] = w[k + 1] /\ w # <<>>
        BY <1>2, <3>2
      <4>2. edges[w[k]].to = edges[w[k + 1]].from
        BY <1>1, <4>1 DEF Joined
      <4> QED
        BY <4>1, <4>2
    <3> QED
      BY <3>1, <3>2
  <2> HIDE DEF v
  <2> QED
    BY <2>1, <2>2, <2>3, <2>4 DEF Joined
<1>5. PICK sum : IsRunningSum(sum, n, d)
  BY <1>2, RunningSum
<1>6. sum[n] <= time
  BY <1>1, <1>5
<1>7. ASSUME NEW total, IsRunningSum(total, n + 1, c)
      PROVE  total[n + 1] <= time + edges[e].weight
  <2>1. edges[e].weight \in Int
    OBVIOUS
  <2>2. total[n + 1] = sum[n] + c[n + 1] /\ sum[n] \in Int
    <3> HIDE DEF n, d, c
    <3>1. \A k \in 1 .. n : c[k] = d[k] /\ d[k] \in Int
      BY <1>3
    <3>2. c[n + 1] \in Int
      BY <1>3, <2>1
    <3> QED
      BY <1>2, <1>5, <1>7, <3>1, <3>2, RunningSumGrows
  <2> QED
    BY <1>3, <1>6, <2>1, <2>2
<1> HIDE DEF v, c
<1>8. \A total : IsRunningSum(total, Len(v), c) => total[Len(v)] <= time + edges[e].weight
  BY <1>2, <1>7
<1> QED
  BY <1>2, <1>4, <1>8 DEF Arrives, c

\* A passenger in that seat at that time has waited for the bus at a stop that
\* the edges lead to.
Boarded(f, seat, time) ==
  \E i, early \in Nat :
    LET stops == db.buses[seat[1]].stops IN
    /\ i \in seat[2] /\ i <= seat[3]
    /\ stops[i] \in DOMAIN name_id
    /\ Arrives(f, stops[i], early)
    /\ time = early + bus_wait_time + SumTime(db, stops, i, seat[3])

\* Where the edges allow a passenger to be, and when.
Timely(f) ==
  {r \in Places \X Nat :
     /\ r[1] \in Stops => Arrives(f, r[1][1], r[2])
     /\ r[1] \in Seats => Boarded(f, r[1], r[2])}

\* What the passenger relies on once the router serves.
GraphServes ==
  /\ db \in Bases /\ bus_wait_time \in Nat
  /\ DOMAIN name_id = DOMAIN db.stop_by_name
  /\ HasAllRides(edges, db, name_id, bus_wait_time)
  /\ IsSeq(edges) /\ \A e \in DOMAIN edges : edges[e].weight \in Nat

\* To ride from position i to position p is an edge.
LEMMA RideArrives ==
  ASSUME GraphServes, NEW f, NEW b, NEW way, NEW p, <<b, way, p>> \in Seats,
         NEW i \in way, i < p,
         NEW early \in Nat, Arrives(f, db.buses[b].stops[i], early)
  PROVE  /\ bus_wait_time + SumTime(db, db.buses[b].stops, i, p) \in Nat
         /\ Arrives(f, db.buses[b].stops[p],
                    early + (bus_wait_time + SumTime(db, db.buses[b].stops, i, p)))
<1> DEFINE bus == db.buses[b]
<1>1. i \in Nat /\ p \in Nat /\ OnTheWay(bus, i, p) /\ b \in DOMAIN db.buses
  BY SeatAhead, SeatsAre DEF GraphServes
<1>2. Ride(db, name_id, bus_wait_time, bus, i, p) \in Range(edges)
  BY <1>1 DEF GraphServes, HasAllRides, HasRides
<1>3. PICK e \in DOMAIN edges : edges[e] = Ride(db, name_id, bus_wait_time, bus, i, p)
  BY <1>2 DEF Range
<1>4. /\ edges[e].from = name_id[bus.stops[i]]
      /\ edges[e].to = name_id[bus.stops[p]]
      /\ edges[e].weight = bus_wait_time + SumTime(db, bus.stops, i, p)
  BY <1>3 DEF Ride
<1>5. edges[e].weight \in Nat
  BY DEF GraphServes
<1> HIDE DEF bus
<1>6. Arrives(f, bus.stops[p], early + edges[e].weight)
  BY <1>4, ArriveByEdge DEF GraphServes, bus
<1> QED
  BY <1>4, <1>5, <1>6 DEF bus

\* The edges of a walk weigh an integer together.
LEMMA WalkSums ==
  ASSUME GraphServes, NEW w \in Seq(DOMAIN edges)
  PROVE  \A sum : IsRunningSum(sum, Len(w), WeightsOf(edges, w)) => sum[Len(w)] \in Int
<1> DEFINE n == Len(w)
           d == WeightsOf(edges, w)
<1>1. n \in Nat /\ \A k \in 1 .. n : d[k] \in Int
  <2>1. \A k \in 1 .. n : w[k] \in DOMAIN edges
    OBVIOUS
  <2>2. \A k \in 1 .. n : edges[w[k]].weight \in Int
    BY <2>1 DEF GraphServes
  <2> QED
    BY <2>2 DEF WeightsOf
<1> HIDE DEF n, d
<1>2. ASSUME NEW sum, IsRunningSum(sum, n, d)
      PROVE  sum[n] \in Int
  BY <1>1, <1>2, RunningSumIs
<1> QED
  BY <1>2 DEF n, d

\* Who arrives by some time arrives by a later one.
LEMMA ArriveLater ==
  ASSUME GraphServes, NEW f, NEW s, NEW early \in Int, NEW time \in Int, early <= time,
         Arrives(f, s, early)
  PROVE  Arrives(f, s, time)
<1>1. PICK w \in Seq(DOMAIN edges) :
        /\ Joined(edges, w, name_id[f], name_id[s])
        /\ \A sum : IsRunningSum(sum, Len(w), WeightsOf(edges, w)) => sum[Len(w)] <= early
  BY DEF Arrives
<1>2. ASSUME NEW sum, IsRunningSum(sum, Len(w), WeightsOf(edges, w))
      PROVE  sum[Len(w)] <= time
  <2>1. sum[Len(w)] \in Int
    BY <1>2, WalkSums
  <2>2. sum[Len(w)] <= early
    BY <1>1, <1>2
  <2> QED
    BY <2>1, <2>2
<1> QED
  BY <1>1, <1>2 DEF Arrives

\* The edges lead wherever a passenger can get, and as early.
LEMMA TimelyOnward ==
  ASSUME GraphServes, NEW f
  PROVE  Onward(MovesFrom, Timely(f))
<1> SUFFICES ASSUME NEW r \in Timely(f), NEW m \in MovesFrom[r[1]]
             PROVE  <<m[1], r[2] + m[2]>> \in Timely(f)
  BY DEF Onward
<1> DEFINE place == r[1]
           time  == r[2]
<1>1. /\ place \in Places /\ time \in Nat
      /\ place \in Stops => Arrives(f, place[1], time)
      /\ place \in Seats => Boarded(f, place, time)
      /\ m \in Moves(place)
  BY DEF Timely, MovesFrom
<1>2. m \in Places \X Int
  BY <1>1, MovesLead DEF GraphServes, IsMap, MovesFrom
<1> HIDE DEF place, time
<1>3. SUFFICES /\ time + m[2] \in Nat
               /\ m[1] \in Stops => Arrives(f, m[1][1], time + m[2])
               /\ m[1] \in Seats => Boarded(f, m[1], time + m[2])
  BY <1>2 DEF Timely, time
<1>4. CASE place \in Stops
  <2>1. PICK seat \in Seats : StopAt(seat) = place[1] /\ m = <<seat, bus_wait_time>>
    BY <1>1, <1>4 DEF Moves
  <2>2. /\ seat[1] \in DOMAIN db.buses /\ seat[2] \in Ways(db.buses[seat[1]])
        /\ seat[3] \in seat[2] /\ seat \notin Stops
    BY SeatsAre
  <2>3. place[1] \in DOMAIN name_id
    BY <1>4 DEF Stops, GraphServes
  <2>4. /\ seat[3] \in Nat /\ db \in Bases
        /\ SumTime(db, db.buses[seat[1]].stops, seat[3], seat[3]) = 0
    <3>1. db.buses[seat[1]].stops \in Seq(NamesOf(db.stops))
      BY <2>2, BasesAssumption DEF GraphServes, IsFilled
    <3>2. PICK first \in Nat, last \in Nat : seat[2] = first .. last
      BY <2>2, <3>1, WaysAre
    <3>3. seat[3] \in Nat /\ db \in Bases
      BY <2>2, <3>2 DEF GraphServes
    <3> QED
      BY <3>3, RideGrows
  <2>5. Boarded(f, seat, time + bus_wait_time)
    <3>1. Arrives(f, db.buses[seat[1]].stops[seat[3]], time)
      BY <1>1, <1>4, <2>1 DEF StopAt
    <3>2. db.buses[seat[1]].stops[seat[3]] \in DOMAIN name_id
      BY <2>1, <2>3 DEF StopAt
    <3>3. time + bus_wait_time
            = time + bus_wait_time + SumTime(db, db.buses[seat[1]].stops, seat[3], seat[3])
      BY <1>1, <2>4 DEF GraphServes
    <3> QED
      BY <1>1, <2>2, <2>4, <3>1, <3>2, <3>3 DEF Boarded
  <2> QED
    BY <1>1, <2>1, <2>2, <2>5 DEF GraphServes
<1>5. CASE place \notin Stops
  <2>1. place \in Seats
    BY <1>1, <1>5 DEF Places
  <2> DEFINE b == place[1]
             way == place[2]
             p == place[3]
             stops == db.buses[b].stops
  <2>2. /\ place = <<b, way, p>> /\ b \in DOMAIN db.buses
        /\ way \in Ways(db.buses[b]) /\ p \in way
    BY <2>1, SeatsAre
  <2>3. PICK i \in Nat, early \in Nat :
          /\ i \in way /\ i <= p
          /\ stops[i] \in DOMAIN name_id
          /\ Arrives(f, stops[i], early)
          /\ time = early + bus_wait_time + SumTime(db, stops, i, p)
    BY <1>1, <2>1 DEF Boarded
  <2>4. p \in Nat /\ db \in Bases /\ bus_wait_time \in Nat
    <3>1. db.buses[b].stops \in Seq(NamesOf(db.stops))
      BY <2>2, BasesAssumption DEF GraphServes, IsFilled
    <3>2. PICK first \in Nat, last \in Nat : way = first .. last
      BY <2>2, <3>1, WaysAre
    <3> QED
      BY <2>2, <3>2 DEF GraphServes
  <2>5. SumTime(db, stops, i, p) \in Int /\ SumTime(db, stops, i, i) = 0
    BY <2>3, <2>4, RideTakes, RideGrows
  <2>6. CASE m = <<<<StopAt(place)>>, 0>>
    <3>1. m[1] = <<stops[p]>> /\ m[2] = 0 /\ m[1] \in Stops
      <4>1. <<stops[p]>> \in Stops
        BY <1>1, <2>1 DEF Places, StopAt
      <4> QED
        BY <2>6, <4>1 DEF StopAt
    <3>2. m[1] \notin Seats
      BY <3>1, SeatsAre
    <3>3. Arrives(f, stops[p], time)
      <4>1. CASE i = p
        <5>1. early <= time
          BY <2>3, <2>4, <2>5, <4>1
        <5> QED
          BY <1>1, <2>3, <2>4, <4>1, <5>1, ArriveLater
      <4>2. CASE i # p
        <5>1. i < p
          BY <2>3, <2>4, <4>2
        <5> DEFINE ride == SumTime(db, stops, i, p)
        <5>2. Arrives(f, stops[p], early + (bus_wait_time + ride))
          BY <2>1, <2>2, <2>3, <5>1, RideArrives
        <5>3. early + (bus_wait_time + ride) = time
          BY <2>3, <2>4, <2>5
        <5> QED
          BY <5>2, <5>3
      <4> QED
        BY <4>1, <4>2
    <3>4. time + m[2] = time
      BY <1>1, <3>1
    <3> QED
      BY <1>1, <3>1, <3>2, <3>3, <3>4
  <2>7. CASE m # <<<<StopAt(place)>>, 0>>
    <3> DEFINE seat == <<b, way, p + 1>>
               dist == GetActualDistanceBetweenStops(db, stops[p], stops[p + 1])
    <3>1. seat \in Seats /\ m = <<seat, dist>>
      <4>1. /\ seat \in Seats
            /\ m = <<seat, GetActualDistanceBetweenStops(db, StopAt(place), StopAt(seat))>>
        BY <1>1, <1>5, <2>7 DEF Moves
      <4> QED
        BY <4>1 DEF StopAt
    <3>2. /\ SumTime(db, stops, i, p + 1) = SumTime(db, stops, i, p) + dist
          /\ dist \in Int
      BY <2>3, <2>4, RideGrows, DistanceIs
    <3>3. time + dist = early + bus_wait_time + SumTime(db, stops, i, p + 1)
      BY <2>3, <2>4, <2>5, <3>2
    <3>4. i < p + 1
      BY <2>3, <2>4
    <3>5. bus_wait_time + SumTime(db, stops, i, p + 1) \in Nat
      BY <2>3, <3>1, <3>4, RideArrives
    <3>6. time + dist \in Nat
      BY <2>3, <2>4, <2>5, <3>2, <3>3, <3>5
    <3>7. Boarded(f, seat, time + dist)
      <4>1. i <= p + 1
        BY <2>3, <2>4
      <4> QED
        BY <2>3, <3>3, <4>1 DEF Boarded
    <3>8. seat \notin Stops
      BY <3>1, SeatsAre
    <3> QED
      BY <3>1, <3>6, <3>7, <3>8
  <2> QED
    BY <2>6, <2>7
<1> QED
  BY <1>4, <1>5

\* The start is as early as can be.
LEMMA TimelyStart ==
  ASSUME GraphServes, NEW f \in DOMAIN name_id
  PROVE  <<<<f>>, 0>> \in Timely(f) /\ <<f>> \in Places
<1>1. <<f>> \in Stops
  BY DEF GraphServes, Stops
<1>2. <<f>> \notin Seats
  BY <1>1, SeatsAre
<1>3. Arrives(f, f, 0)
  <2> DEFINE w == <<>>
  <2>1. w \in Seq(DOMAIN edges) /\ Len(w) = 0
    OBVIOUS
  <2>2. Joined(edges, w, name_id[f], name_id[f])
    BY DEF Joined
  <2>3. \A sum : IsRunningSum(sum, 0, WeightsOf(edges, w)) => sum[0] <= 0
    BY DEF IsRunningSum
  <2> QED
    BY <2>1, <2>2, <2>3 DEF Arrives
<1>4. <<f>> \in Places
  BY <1>1, <1>2 DEF Places
<1> QED
  BY <1>1, <1>2, <1>3, <1>4 DEF Timely

\* What can be reached, in however many moves.
CanReach(f) == Reachable(Places, MovesFrom, <<f>>)

\* A passenger who is at a stop can wait for a bus and ride along its way.
LEMMA RideReachable ==
  ASSUME db \in Bases, bus_wait_time \in Int,
         NEW can \in SUBSET (Places \X Int), Onward(MovesFrom, can),
         NEW s, NEW time \in Int, <<<<s>>, time>> \in can, <<s>> \in Stops,
         NEW b \in DOMAIN db.buses, NEW way \in Ways(db.buses[b]),
         NEW i \in way, NEW hops \in Nat, i + hops \in way,
         db.buses[b].stops[i] = s
  PROVE  <<<<db.buses[b].stops[i + hops]>>,
           time + (bus_wait_time + SumTime(db, db.buses[b].stops, i, i + hops))>> \in can
<1> DEFINE stops == db.buses[b].stops
           seat(h) == <<b, way, i + h>>
           ride(h) == SumTime(db, stops, i, i + h)
           then(h) == time + (bus_wait_time + ride(h))
<1>1. i \in Nat /\ \A h \in 0 .. hops : i + h \in way
  <2>1. stops \in Seq(NamesOf(db.stops))
    BY BasesAssumption DEF IsFilled
  <2>2. PICK first \in Nat, last \in Nat : way = first .. last
    BY <2>1, WaysAre
  <2> QED
    BY <2>2
<1>2. \A r \in can : \A m \in Moves(r[1]) : <<m[1], r[2] + m[2]>> \in can
  BY DEF Onward, MovesFrom
<1>3. \A h \in 0 .. hops : seat(h) \in Seats /\ StopAt(seat(h)) = stops[i + h] /\ seat(h) \notin Stops
  BY <1>1, SeatsAre DEF StopAt
<1>4. ride(0) = 0 /\ \A h \in Nat : ride(h) \in Int
  <2>1. i + 0 = i /\ SumTime(db, stops, i, i) = 0
    BY <1>1, RideGrows
  <2>2. ASSUME NEW h \in Nat
        PROVE  ride(h) \in Int
    <3>1. i + h \in Nat
      BY <1>1
    <3> QED
      BY <1>1, <3>1, RideTakes
  <2> QED
    BY <2>1, <2>2
<1> HIDE DEF seat, ride
<1> DEFINE Good == {h \in Nat : h <= hops => <<seat(h), then(h)>> \in can}
<1>5. 0 \in Good
  <2>1. 0 \in 0 .. hops /\ i + 0 = i
    BY <1>1
  <2>2. seat(0) \in Seats /\ StopAt(seat(0)) = s
    BY <1>3, <2>1
  <2>3. <<seat(0), bus_wait_time>> \in Moves(<<s>>)
    BY <2>2 DEF Moves
  <2>4. <<seat(0), time + bus_wait_time>> \in can
    BY <1>2, <2>3
  <2>5. then(0) = time + bus_wait_time
    BY <1>4
  <2> QED
    BY <2>4, <2>5
<1>6. ASSUME NEW h \in Nat, h \in Good
      PROVE  h + 1 \in Good
  <2> SUFFICES ASSUME h + 1 <= hops
               PROVE  <<seat(h + 1), then(h + 1)>> \in can
    OBVIOUS
  <2> DEFINE dist == GetActualDistanceBetweenStops(db, stops[i + h], stops[i + (h + 1)])
  <2>1. h \in 0 .. hops /\ h + 1 \in 0 .. hops /\ <<seat(h), then(h)>> \in can
    BY <1>6
  <2>2. <<seat(h + 1), dist>> \in Moves(seat(h))
    <3>1. /\ seat(h) \notin Stops /\ seat(h + 1) \in Seats
          /\ StopAt(seat(h)) = stops[i + h] /\ StopAt(seat(h + 1)) = stops[i + (h + 1)]
      BY <1>3, <2>1
    <3>2. seat(h + 1) = <<seat(h)[1], seat(h)[2], seat(h)[3] + 1>>
      BY <1>1 DEF seat
    <3> QED
      BY <3>1, <3>2 DEF Moves
  <2>3. <<seat(h + 1), then(h) + dist>> \in can
    BY <1>2, <2>1, <2>2
  <2>4. ride(h + 1) = ride(h) + dist /\ dist \in Int
    <3>1. i + h \in Nat /\ i <= i + h /\ i + (h + 1) = (i + h) + 1
      BY <1>1
    <3> DEFINE p == i + h
    <3>2. SumTime(db, stops, i, p + 1)
            = SumTime(db, stops, i, p) + GetActualDistanceBetweenStops(db, stops[p], stops[p + 1])
      <4> HIDE DEF p, stops
      <4> QED
        BY <1>1, <3>1, RideGrows DEF p
    <3>3. dist \in Int
      BY DistanceIs
    <3> QED
      BY <3>1, <3>2, <3>3 DEF ride
  <2>5. then(h) + dist = then(h + 1)
    BY <1>4, <2>4
  <2> QED
    BY <2>3, <2>5
<1> HIDE DEF Good
<1>7. hops \in Good
  BY <1>5, <1>6, Induction
<1>8. <<seat(hops), then(hops)>> \in can
  BY <1>7 DEF Good
<1>9. <<<<stops[i + hops]>>, 0>> \in Moves(seat(hops))
  <2>1. hops \in 0 .. hops
    OBVIOUS
  <2>2. seat(hops) \notin Stops /\ StopAt(seat(hops)) = stops[i + hops]
    BY <1>3, <2>1
  <2> QED
    BY <2>2 DEF Moves
<1>10. <<<<stops[i + hops]>>, then(hops) + 0>> \in can
  BY <1>2, <1>8, <1>9
<1>11. then(hops) + 0 = then(hops)
  BY <1>4
<1> QED
  BY <1>10, <1>11 DEF ride

\* Where a trip ends a passenger can get, in the time it takes.
LEMMA TripReachable ==
  ASSUME db \in Bases, bus_wait_time \in Int,
         NEW f, <<f>> \in Stops, <<f>> \in Places,
         NEW t, NEW items, NEW total, IsTrip(db, bus_wait_time, items, total, f, t)
  PROVE  <<<<t>>, total>> \in CanReach(f)
<1> DEFINE can == CanReach(f)
           n == Len(items) \div 2
           place(k) == PlaceOf(items, t, k)
           d == [k \in 1 .. n |-> bus_wait_time + items[2 * k].time]
<1>1. /\ can \subseteq Places \X Int /\ <<<<f>>, 0>> \in can /\ Onward(MovesFrom, can)
  BY MovesLead, ReachableIs DEF CanReach
<1> HIDE DEF can
<1>2. /\ IsSeq(items)
      /\ Len(items) = 2 * n
      /\ place(1) = f
      /\ total = TotalOf(items)
  BY DEF IsTrip, IsItinerary
<1>3. n \in Nat /\ DOMAIN items = 1 .. 2 * n
  <2>1. Len(items) \in Nat /\ DOMAIN items = 1 .. Len(items)
    BY <1>2 DEF IsSeq
  <2> QED
    BY <1>2, <2>1
<1>4. \A k \in 1 .. n :
        /\ items[2 * k - 1].time = bus_wait_time
        /\ items[2 * k].span_count \in Nat
        /\ Rideable(db, items[2 * k], place(k), place(k + 1))
  BY DEF IsTrip, IsItinerary
<1>5. place(n + 1) = t
  BY <1>3 DEF PlaceOf
<1> HIDE DEF n, place
<1> DEFINE Leads(k, b, way, i) ==
             LET hops == items[2 * k].span_count
                 stops == db.buses[b].stops
             IN /\ b \in DOMAIN db.buses /\ way \in Ways(db.buses[b]) /\ i \in way
                /\ hops \in Nat /\ i \in Nat
                /\ i + hops \in way
                /\ stops[i] = place(k) /\ stops[i + hops] = place(k + 1)
                /\ items[2 * k].time = SumTime(db, stops, i, i + hops)
<1>6. ASSUME NEW k \in 1 .. n
      PROVE  \E b, way, i : Leads(k, b, way, i)
  <2>1. Rideable(db, items[2 * k], place(k), place(k + 1)) /\ items[2 * k].span_count \in Nat
    BY <1>4
  <2>2. PICK b \in DOMAIN db.buses : \E way \in Ways(db.buses[b]) : \E i \in way :
          /\ i + items[2 * k].span_count \in way
          /\ db.buses[b].stops[i] = place(k)
          /\ db.buses[b].stops[i + items[2 * k].span_count] = place(k + 1)
          /\ SumTime(db, db.buses[b].stops, i, i + items[2 * k].span_count) = items[2 * k].time
    BY <2>1 DEF Rideable
  <2>3. PICK way \in Ways(db.buses[b]) : \E i \in way :
          /\ i + items[2 * k].span_count \in way
          /\ db.buses[b].stops[i] = place(k)
          /\ db.buses[b].stops[i + items[2 * k].span_count] = place(k + 1)
          /\ SumTime(db, db.buses[b].stops, i, i + items[2 * k].span_count) = items[2 * k].time
    BY <2>2
  <2>4. db.buses[b].stops \in Seq(NamesOf(db.stops))
    BY BasesAssumption DEF IsFilled
  <2>5. \A i \in way : i \in Nat
    <3>1. PICK first \in Nat, last \in Nat : way = first .. last
      BY <2>4, WaysAre
    <3> QED
      BY <3>1
  <2> QED
    BY <2>1, <2>3, <2>5
<1>7. \A k \in 1 .. n : items[2 * k].time \in Int /\ d[k] = bus_wait_time + items[2 * k].time
  <2> TAKE k \in 1 .. n
  <2>1. PICK b, way, i : Leads(k, b, way, i)
    BY <1>6
  <2>2. i \in Nat /\ i + items[2 * k].span_count \in Nat
    BY <2>1
  <2>3. SumTime(db, db.buses[b].stops, i, i + items[2 * k].span_count) \in Int
    BY <2>2, RideTakes
  <2> QED
    BY <2>1, <2>3
<1> HIDE DEF d
<1>8. \A k \in 1 .. n : items[2 * k].time = d[k] - bus_wait_time
  <2> TAKE k \in 1 .. n
  <2> DEFINE tm == items[2 * k].time
  <2>1. tm \in Int /\ d[k] = bus_wait_time + tm
    BY <1>7
  <2> HIDE DEF tm
  <2>2. tm = d[k] - bus_wait_time
    BY <2>1
  <2> QED
    BY <2>2 DEF tm
<1>9. \A k \in 1 .. n : d[k] \in Int
  BY <1>7
<1>10. PICK sum : IsRunningSum(sum, n, d)
  BY <1>3, RunningSum
<1>11. total = sum[n]
  <2>1. TakeInTurn(items, n, bus_wait_time, d)
    BY <1>3, <1>4, <1>8, <1>9 DEF TakeInTurn
  <2> QED
    BY <1>2, <1>3, <1>10, <2>1, TimesAddUp
<1>12. /\ sum[0] = 0
       /\ \A k \in 1 .. n : sum[k] = sum[k - 1] + d[k]
       /\ \A k \in 0 .. n : sum[k] \in Int
  BY <1>3, <1>10, <1>9, RunningSumIs
<1> DEFINE Good == {k \in Nat : k <= n => <<<<place(k + 1)>>, sum[k]>> \in can}
<1>13. 0 \in Good
  BY <1>1, <1>2, <1>12
<1>14. ASSUME NEW k \in Nat, k \in Good
       PROVE  k + 1 \in Good
  <2> SUFFICES ASSUME k + 1 <= n
               PROVE  <<<<place((k + 1) + 1)>>, sum[k + 1]>> \in can
    OBVIOUS
  <2> DEFINE m == k + 1
  <2>1. m \in 1 .. n /\ m - 1 = k /\ k \in 0 .. n
    BY <1>3
  <2>2. <<<<place(m)>>, sum[k]>> \in can /\ sum[k] \in Int /\ sum[m] = sum[k] + d[m]
    BY <1>12, <1>14, <2>1
  <2> HIDE DEF m
  <2>3. PICK b, way, i : Leads(m, b, way, i)
    BY <1>6, <2>1
  <2> DEFINE hops == items[2 * m].span_count
  <2>4. <<place(m)>> \in Stops
    <3>1. <<place(m)>> \in Places
      BY <1>1, <2>2
    <3>2. <<place(m)>> \notin Seats
      <4>1. \A seat \in Seats : seat # <<place(m)>>
        BY DEF Seats
      <4> QED
        BY <4>1
    <3> QED
      BY <3>1, <3>2 DEF Places
  <2>5. hops \in Nat /\ i + hops \in way
    BY <2>3
  <2> HIDE DEF hops
  <2>6. <<<<db.buses[b].stops[i + hops]>>,
          sum[k] + (bus_wait_time + SumTime(db, db.buses[b].stops, i, i + hops))>> \in can
    <3>1. /\ b \in DOMAIN db.buses /\ way \in Ways(db.buses[b]) /\ i \in way
          /\ db.buses[b].stops[i] = place(m)
      BY <2>3
    <3> HIDE DEF Leads
    <3> QED
      BY <1>1, <2>2, <2>4, <2>5, <3>1, RideReachable
  <2>7. d[m] = bus_wait_time + SumTime(db, db.buses[b].stops, i, i + hops)
    BY <1>7, <2>1, <2>3 DEF hops
  <2>8. db.buses[b].stops[i + hops] = place(m + 1)
    BY <2>3 DEF hops
  <2> HIDE DEF Leads
  <2>9. <<<<place(m + 1)>>, sum[m]>> \in can
    BY <2>2, <2>6, <2>7, <2>8
  <2> QED
    BY <2>9 DEF m
<1> HIDE DEF Good
<1>15. n \in Good
  BY <1>3, <1>13, <1>14, Induction
<1> QED
  BY <1>5, <1>11, <1>15 DEF Good, can

\* One more move is one more round.
LEMMA RoundIs ==
  ASSUME NEW S \in SUBSET (Places \X Int)
  PROVE  Reach(S) = Earliest(Later(MovesFrom, S))
<1>1. \A r \in S : MovesFrom[r[1]] = Moves(r[1])
  BY DEF MovesFrom
<1>2. S \cup UNION {{<<move[1], r[2] + move[2]>> : move \in Moves(r[1])} : r \in S}
        = Later(MovesFrom, S)
  BY <1>1 DEF Later
<1> QED
  BY <1>2, Zenon DEF Reach, Earliest

IsRounds(g, f, m) ==
  g = [n \in 0 .. m |-> IF n = 0 THEN {<<<<f>>, 0>>} ELSE Reach(g[n - 1])]

\* The rounds can be given as a function of their number.
LEMMA Rounds ==
  ASSUME NEW m \in Nat, NEW f
  PROVE  \E g : IsRounds(g, f, m)
<1> DEFINE Good == {k \in Nat : \E g : IsRounds(g, f, k)}
<1>1. 0 \in Good
  <2> DEFINE g == [n \in 0 .. 0 |-> {<<<<f>>, 0>>}]
  <2>1. \A n \in 0 .. 0 : n = 0
    OBVIOUS
  <2>2. g = [n \in 0 .. 0 |-> IF n = 0 THEN {<<<<f>>, 0>>} ELSE Reach(g[n - 1])]
    BY <2>1
  <2> HIDE DEF g
  <2> QED
    BY <2>2 DEF IsRounds
<1>2. ASSUME NEW k \in Nat, k \in Good
      PROVE  k + 1 \in Good
  <2>1. PICK g : IsRounds(g, f, k)
    BY <1>2
  <2> DEFINE longer == [n \in 0 .. k + 1 |-> IF n <= k THEN g[n] ELSE Reach(g[k])]
  <2>2. ASSUME NEW n \in 0 .. k + 1
        PROVE  longer[n] = IF n = 0 THEN {<<<<f>>, 0>>} ELSE Reach(longer[n - 1])
    <3>1. CASE n = 0
      BY <2>1, <3>1 DEF IsRounds
    <3>2. CASE n \in 1 .. k
      <4>1. longer[n] = g[n] /\ longer[n - 1] = g[n - 1]
        BY <3>2
      <4>2. g[n] = Reach(g[n - 1])
        <5>1. n \in 0 .. k /\ n # 0
          BY <3>2
        <5> QED
          BY <2>1, <5>1, Zenon DEF IsRounds
      <4> QED
        BY <3>2, <4>1, <4>2
    <3>3. CASE n = k + 1
      <4>1. longer[n] = Reach(g[k]) /\ longer[n - 1] = g[k]
        BY <3>3
      <4> QED
        BY <3>3, <4>1
    <3> QED
      BY <3>1, <3>2, <3>3
  <2>3. longer = [n \in 0 .. k + 1 |-> IF n = 0 THEN {<<<<f>>, 0>>} ELSE Reach(longer[n - 1])]
    BY <2>2
  <2> HIDE DEF longer
  <2> QED
    BY <2>3 DEF IsRounds
<1> HIDE DEF Good
<1>3. m \in Good
  BY <1>1, <1>2, Induction
<1> QED
  BY <1>3 DEF Good

\* The times the rounds end with are the earliest of all that can be reached.
LEMMA PassengerTimesAre ==
  ASSUME db \in Bases, bus_wait_time \in Int, NEW f, <<f>> \in Places,
         CanReach(f) \subseteq Places \X Nat, NEW t
  PROVE  PassengerTimes(f, t) = {r[2] : r \in {q \in Earliest(CanReach(f)) : q[1] = <<t>>}}
<1> DEFINE N == Cardinality(Stops \cup Seats)
           can == CanReach(f)
           g == CHOOSE h : h = [n \in 0 .. N |->
                  IF n = 0 THEN {<<<<f>>, 0>>} ELSE Reach(h[n - 1])]
<1>1. N \in Nat /\ Cardinality(Places) <= N
  <2>1. IsFiniteSet(Stops \cup Seats)
    BY BasesAssumption, PlacesFinite
  <2>2. Places \subseteq Stops \cup Seats
    BY DEF Places
  <2> QED
    BY <2>1, <2>2, FS_Subset, FS_CardinalityType
<1>2. PassengerTimes(f, t) = {r[2] : r \in {q \in g[N] : q[1] = <<t>>}}
  BY Zenon DEF PassengerTimes
<1> HIDE DEF N
<1>3. PICK h : h = [n \in 0 .. N |-> IF n = 0 THEN {<<<<f>>, 0>>} ELSE Reach(h[n - 1])]
  BY <1>1, Rounds, Zenon DEF IsRounds
<1>4. g = [n \in 0 .. N |-> IF n = 0 THEN {<<<<f>>, 0>>} ELSE Reach(g[n - 1])]
  BY <1>3, ZenonT(40)
<1> HIDE DEF g
<1>5. g[0] = {<<<<f>>, 0>>} /\ \A n \in 1 .. N : g[n] = Reach(g[n - 1])
  <2>1. 0 \in 0 .. N /\ \A n \in 1 .. N : n \in 0 .. N /\ n # 0
    BY <1>1
  <2>2. \A n \in 0 .. N : g[n] = IF n = 0 THEN {<<<<f>>, 0>>} ELSE Reach(g[n - 1])
    BY <1>4, Zenon
  <2> QED
    BY <2>1, <2>2, Zenon
<1>6. IsMap(Places, MovesFrom)
  BY MovesLead
<1>7. \A S \in SUBSET (Places \X Int) : Earliest(Later(MovesFrom, S)) \in SUBSET (Places \X Int)
  <2> SUFFICES ASSUME NEW S \in SUBSET (Places \X Int), NEW r \in S, NEW m \in MovesFrom[r[1]]
               PROVE  <<m[1], r[2] + m[2]>> \in Places \X Int
    BY DEF Earliest, Later
  <2>1. r \in Places \X Int
    OBVIOUS
  <2>2. m \in Places \X Int
    BY <1>6, <2>1 DEF IsMap
  <2> QED
    BY <2>1, <2>2
<1> DEFINE Good == {n \in Nat : n <= N => g[n] \in SUBSET (Places \X Int)}
<1>8. 0 \in Good
  BY <1>5
<1>9. ASSUME NEW n \in Nat, n \in Good
      PROVE  n + 1 \in Good
  <2> SUFFICES ASSUME n + 1 <= N
               PROVE  g[n + 1] \in SUBSET (Places \X Int)
    OBVIOUS
  <2>1. g[n] \in SUBSET (Places \X Int)
    BY <1>1, <1>9
  <2>2. n + 1 \in 1 .. N /\ (n + 1) - 1 = n
    BY <1>1
  <2>3. g[n + 1] = Reach(g[n])
    BY <1>5, <2>2
  <2> QED
    BY <1>7, <2>1, <2>3, RoundIs
<1> HIDE DEF Good
<1>10. \A n \in Nat : n \in Good
  BY <1>8, <1>9, Induction
<1>11. \A n \in 1 .. N : g[n] = Earliest(Later(MovesFrom, g[n - 1]))
  <2> TAKE n \in 1 .. N
  <2>1. n - 1 \in Nat /\ n - 1 <= N
    BY <1>1
  <2>2. g[n - 1] \in SUBSET (Places \X Int)
    BY <1>10, <2>1 DEF Good
  <2> QED
    BY <1>5, <2>2, RoundIs
<1>12. can = Reachable(Places, MovesFrom, <<f>>) /\ can \subseteq Places \X Nat
  BY DEF CanReach
<1> HIDE DEF can
<1>13. g[N] = Earliest(can)
  BY <1>1, <1>5, <1>6, <1>11, <1>12, RoundsBringEarliest
<1> QED
  BY <1>2, <1>13 DEF can

\* The answer is what a passenger needs at least: by the edges nobody is
\* earlier, and the trip told gets one there in that time.
LEMMA PassengerIsAnswered ==
  ASSUME GraphServes, NEW f \in DOMAIN name_id, NEW t \in DOMAIN name_id, NEW found, NEW total,
         NoneLighter(edges, name_id[f], name_id[t], found, total),
         NEW items, found => IsTrip(db, bus_wait_time, items, total, f, t)
  PROVE  PassengerTimes(f, t) = IF found THEN {total} ELSE {}
<1> DEFINE can == CanReach(f)
<1>1. db \in Bases /\ bus_wait_time \in Nat /\ bus_wait_time \in Int
  BY DEF GraphServes
<1>2. <<f>> \in Places /\ <<f>> \in Stops /\ <<t>> \in Stops
  BY TimelyStart DEF GraphServes, Stops
<1>3. can \subseteq Timely(f)
  <2>1. Onward(MovesFrom, Timely(f)) /\ <<<<f>>, 0>> \in Timely(f)
    BY TimelyOnward, TimelyStart
  <2>2. Timely(f) \in SUBSET (Places \X Int)
    BY DEF Timely
  <2> QED
    BY <1>1, <1>2, <2>1, <2>2, MovesLead, ReachableIs DEF CanReach
<1>4. can \subseteq Places \X Nat
  BY <1>3 DEF Timely
<1>5. PassengerTimes(f, t) = {r[2] : r \in {q \in Earliest(can) : q[1] = <<t>>}}
  BY <1>1, <1>2, <1>4, PassengerTimesAre
<1> HIDE DEF can
<1>6. found => <<<<t>>, total>> \in can
  BY <1>1, <1>2, TripReachable DEF can
<1>7. ASSUME NEW r \in can, r[1] = <<t>>
      PROVE  found /\ total <= r[2]
  <2>1. Arrives(f, t, r[2])
    BY <1>2, <1>3, <1>7 DEF Timely
  <2>2. PICK w \in Seq(DOMAIN edges) :
          /\ Joined(edges, w, name_id[f], name_id[t])
          /\ \A sum : IsRunningSum(sum, Len(w), WeightsOf(edges, w)) => sum[Len(w)] <= r[2]
    BY <2>1 DEF Arrives
  <2>3. PICK sum : IsRunningSum(sum, Len(w), WeightsOf(edges, w)) /\ total <= sum[Len(w)]
    BY <2>2 DEF NoneLighter
  <2>4. found /\ sum[Len(w)] <= r[2]
    BY <2>2, <2>3 DEF NoneLighter
  <2>5. sum[Len(w)] \in Int
    BY <2>3, WalkSums
  <2>6. r[2] \in Int /\ total \in Int
    BY <1>4, <1>6, <2>4
  <2> QED
    BY <2>3, <2>4, <2>5, <2>6
<1>8. CASE found
  <2>1. <<<<t>>, total>> \in can
    BY <1>8, <1>6
  <2>2. <<<<t>>, total>> \in Earliest(can)
    BY <1>7, <2>1 DEF Earliest
  <2>3. ASSUME NEW q \in Earliest(can), q[1] = <<t>>
        PROVE  q[2] = total
    <3>1. q \in can
      BY DEF Earliest
    <3>2. q[2] <= total
      BY <2>1, <2>3 DEF Earliest
    <3>3. total <= q[2]
      BY <1>7, <2>3, <3>1
    <3>4. q[2] \in Nat /\ total \in Nat
      BY <1>4, <2>1, <3>1
    <3> QED
      BY <3>2, <3>3, <3>4
  <2>4. {r[2] : r \in {q \in Earliest(can) : q[1] = <<t>>}} = {total}
    BY <2>2, <2>3
  <2> QED
    BY <1>5, <1>8, <2>4
<1>9. CASE ~ found
  <2>1. {q \in Earliest(can) : q[1] = <<t>>} = {}
    BY <1>7, <1>9 DEF Earliest
  <2> QED
    BY <1>5, <1>9, <2>1
<1> QED
  BY <1>8, <1>9

\* Once a question has been answered the graph has all rides, and no edge has a
\* weight below zero: the router would have refused it.
LEMMA GraphServesNow ==
  ASSUME AnswersInv, Answered, bus_wait_time >= 0
  PROVE  GraphServes
<1>1. /\ StageInv /\ NumbersInv /\ PlanInv /\ RoutingInv /\ stage = "serving" /\ pc = "ready"
      /\ HasAllRides(edges, db, name_id, bus_wait_time)
      /\ request[1] \in DOMAIN name_id
  BY DEF AnswersInv, ToldCorrectly, ServiceInv, CompleteInv, LeastInv, Answered
<1>2. /\ db \in Bases /\ bus_wait_time \in Int /\ room \in Nat
      /\ DOMAIN name_id = DOMAIN db.stop_by_name
      /\ IsSeq(edges)
  BY <1>1, Given DEF StageInv, NumbersInv, PlanInv, IsPlan
<1>3. room # 0
  <2>1. IsFiniteSet(DOMAIN name_id) /\ Cardinality(DOMAIN name_id) <= room
    BY <1>1 DEF NumbersInv, IsNumbering
  <2>2. Cardinality(DOMAIN name_id) \in Nat /\ Cardinality(DOMAIN name_id) # 0
    BY <1>1, <2>1, FS_CardinalityType, FS_EmptySet
  <2> QED
    BY <1>2, <2>1, <2>2
<1>4. P!TypeOK /\ P!MatrixInv
  BY <1>1, <1>3 DEF RoutingInv, P!RouterInv
<1>5. /\ vertex = VertexCount /\ P!EdgesInv
      /\ P!IsGraph(edges)
      /\ weight \in [P!Vertex -> [P!Vertex -> Nat \cup {P!NoRoute}]]
  BY <1>1, <1>4 DEF P!MatrixInv, P!PhaseInv, P!TypeOK
<1>6. ASSUME NEW e \in DOMAIN edges
      PROVE  edges[e].weight \in Nat
  <2>1. /\ edges[e].from \in P!Vertex /\ edges[e].to \in P!Vertex
        /\ edges[e].weight \in Int
    BY <1>5 DEF P!IsGraph
  <2>2. edges[e].from < vertex
    BY <1>5, <2>1, SettingsAssumption DEF P!Vertex
  <2>3. P!Within(edges[e].from, edges[e].to, edges[e].weight)
    BY <1>5, <2>2 DEF P!EdgesInv
  <2>4. weight[edges[e].from][edges[e].to] \in Nat \cup {P!NoRoute}
    BY <1>5, <2>1
  <2> QED
    BY <2>1, <2>3, <2>4 DEF P!Within, P!Known, P!NoRoute
<1> QED
  BY <1>1, <1>2, <1>6 DEF GraphServes

\* Whatever the catalogue, the waits, the vertex count and the questions: the
\* total time answered is the earliest a passenger can be there who moves from
\* stop to bus, along the route and off again, and "not found" is said exactly
\* when no number of moves leads there.
THEOREM PassengersAnswered == Spec => []RoutesAreQuickest
<1>1. Spec => []AnswersInv
  BY AnswersStart, AnswersStep, PTL DEF Spec
<1>2. AnswersInv => RoutesAreQuickest
  <2> SUFFICES ASSUME AnswersInv, Answered, bus_wait_time >= 0
               PROVE  PassengerTimes(request[1], request[2])
                        = IF response.found THEN {response.total_time} ELSE {}
    BY DEF RoutesAreQuickest
  <2>1. GraphServes
    BY GraphServesNow
  <2>2. /\ request[1] \in DOMAIN name_id /\ request[2] \in DOMAIN name_id
        /\ NoneLighter(edges, name_id[request[1]], name_id[request[2]],
                       response.found, response.total_time)
    BY DEF AnswersInv, LeastInv
  <2>3. response.found =>
          IsTrip(db, bus_wait_time, response.items, response.total_time, request[1], request[2])
    BY DEF AnswersInv, ToldCorrectly, ToldInv, Told
  <2> DEFINE f == request[1]
             t == request[2]
             found == response.found
             total == response.total_time
             items == response.items
  <2>4. /\ f \in DOMAIN name_id /\ t \in DOMAIN name_id
        /\ NoneLighter(edges, name_id[f], name_id[t], found, total)
        /\ found => IsTrip(db, bus_wait_time, items, total, f, t)
    BY <2>2, <2>3
  <2> HIDE DEF f, t, found, total, items
  <2>5. PassengerTimes(f, t) = IF found THEN {total} ELSE {}
    BY <2>1, <2>4, PassengerIsAnswered
  <2> QED
    BY <2>5 DEF f, t, found, total
<1> QED
  BY <1>1, <1>2, PTL
=============================================================================
