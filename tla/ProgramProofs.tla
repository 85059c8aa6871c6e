--------------------------- MODULE ProgramProofs ---------------------------
(***************************************************************************)
(* Proofs about Program, for every set of bases and of requests and any     *)
(* number of processes: what process_requests serves has been written to    *)
(* its end and comes back as it was, and requests are answered in order.    *)
(***************************************************************************)
EXTENDS Program, CatalogueProofs

-----------------------------------------------------------------------------
(* Messages: the items of a field.                                          *)

\* The items of a repeated field that follow each other are the elements of
\* the field.
LEMMA ItemsInARow ==
  ASSUME NEW items, NEW field, NEW lo \in Nat, NEW m \in Nat,
         PositionsOf(items, field) = lo + 1 .. lo + m
  PROVE  ItemsOf(items, field) = [r \in 1 .. m |-> items[lo + r]]
<1> DEFINE P == PositionsOf(items, field)
<1>1. P = lo + 1 .. lo + m
  OBVIOUS
<1> HIDE DEF P
<1>2. Cardinality(P) = m
  <2>1. lo + 1 \in Int /\ lo + m \in Int
    OBVIOUS
  <2> QED
    BY <1>1, <2>1, FS_Interval
<1>3. ASSUME NEW r \in 1 .. m
      PROVE  (CHOOSE k \in P : Cardinality(P \cap (1 .. k)) = r) = lo + r
  <2>1. ASSUME NEW k \in P
        PROVE  Cardinality(P \cap (1 .. k)) = k - lo
    <3>1. P \cap (1 .. k) = lo + 1 .. k /\ lo + 1 \in Int /\ k \in Int /\ lo + 1 <= k
      BY <1>1
    <3>2. Cardinality(lo + 1 .. k) = k - (lo + 1) + 1
      BY <3>1, FS_Interval
    <3>3. k - (lo + 1) + 1 = k - lo
      BY <3>1
    <3> QED
      BY <3>1, <3>2, <3>3
  <2>2. lo + r \in P /\ (lo + r) - lo = r
    BY <1>1
  <2>3. \A k \in P : Cardinality(P \cap (1 .. k)) = r => k = lo + r
    BY <1>1, <2>1
  <2>4. Cardinality(P \cap (1 .. lo + r)) = r
    BY <2>1, <2>2
  <2> QED
    BY <2>2, <2>3, <2>4
<1>4. ItemsOf(items, field)
        = [r \in 1 .. m |-> items[CHOOSE k \in P : Cardinality(P \cap (1 .. k)) = r]]
  BY <1>2 DEF ItemsOf, P
<1> QED
  BY <1>3, <1>4

\* What \o does to two sequences, whatever their elements.
LEMMA Joined ==
  ASSUME NEW s, NEW t, IsSeq(s), IsSeq(t)
  PROVE  /\ IsSeq(s \o t)
         /\ Len(s \o t) = Len(s) + Len(t)
         /\ \A k \in 1 .. Len(s) : (s \o t)[k] = s[k]
         /\ \A k \in 1 .. Len(t) : (s \o t)[Len(s) + k] = t[k]
<1> DEFINE S == Range(s) \cup Range(t)
<1>1. s \in Seq(S) /\ t \in Seq(S)
  BY DEF IsSeq
<1> HIDE DEF S
<1>2. s \o t \in Seq(S)
  BY <1>1
<1>3. IsSeq(s \o t)
  BY <1>2, SeqIsSeq
<1> QED
  BY <1>1, <1>2, <1>3

\* A function on the first numbers is a sequence.
LEMMA ListIsSeq ==
  ASSUME NEW n \in Nat, NEW s, s = [k \in 1 .. n |-> s[k]]
  PROVE  IsSeq(s) /\ Len(s) = n /\ DOMAIN s = 1 .. n
<1> DEFINE S == {s[k] : k \in 1 .. n}
<1>1. s \in Seq(S)
  OBVIOUS
<1> HIDE DEF S
<1>2. IsSeq(s)
  BY <1>1, SeqIsSeq
<1> QED
  BY <1>1, <1>2

-----------------------------------------------------------------------------
(* What a base looks like in the file.                                      *)

\* The items of a base: stops, distances, buses, the map, the routing settings
\* and at the end the vertex count.
IsBase(items, c, st, keys, below, count, n, m, l) ==
  /\ n = Len(c.stops) /\ m = Len(keys) /\ l = Len(c.buses)
  /\ n \in Nat /\ m \in Nat /\ l \in Nat
  /\ IsSeq(items)
  /\ Len(items) = n + m + l + 3
  /\ \A k \in 1 .. n : items[k] = SerializeStop(c.stops[k])
  /\ \A k \in 1 .. m : items[n + k] = SerializeFromToDistance(c, keys[k], below)
  /\ \A k \in 1 .. l : items[n + m + k] = SerializeBus(c.buses[k])
  /\ \E description :
       items[n + m + l + 1] = [field |-> "map", description |-> description]
  /\ items[n + m + l + 2] =
       [field |-> "routing_settings", bus_wait_time |-> st.bus_wait_time,
        bus_velocity |-> st.bus_velocity]
  /\ items[n + m + l + 3] = [field |-> "vertex_count", count |-> count]

\* FillingBase writes such a base.
LEMMA BaseItems ==
  ASSUME NEW c, IsSeq(c.stops), IsSeq(c.buses), NEW keys, IsSeq(keys), NEW below,
         NEW description, NEW st, NEW count
  PROVE  IsBase(FillingBase(c, keys, below, description, st, count),
                c, st, keys, below, count, Len(c.stops), Len(keys), Len(c.buses))
<1> DEFINE n == Len(c.stops)
           m == Len(keys)
           l == Len(c.buses)
           s == [p \in DOMAIN c.stops |-> SerializeStop(c.stops[p])]
           d == [p \in DOMAIN keys |-> SerializeFromToDistance(c, keys[p], below)]
           b == [p \in DOMAIN c.buses |-> SerializeBus(c.buses[p])]
           map == <<[field |-> "map", description |-> description]>>
           params == SerializeParameters(st, count)
           items == FillingBase(c, keys, below, description, st, count)
<1>1. /\ n \in Nat /\ m \in Nat /\ l \in Nat
      /\ DOMAIN c.stops = 1 .. n /\ DOMAIN keys = 1 .. m /\ DOMAIN c.buses = 1 .. l
  BY DEF IsSeq
<1>2. items = ((((s \o d) \o b) \o map) \o params)
  BY DEF FillingBase, SerializeTransportCatalogue
<1>3. /\ IsSeq(s) /\ Len(s) = n /\ \A k \in 1 .. n : s[k] = SerializeStop(c.stops[k])
      /\ IsSeq(d) /\ Len(d) = m
      /\ \A k \in 1 .. m : d[k] = SerializeFromToDistance(c, keys[k], below)
      /\ IsSeq(b) /\ Len(b) = l /\ \A k \in 1 .. l : b[k] = SerializeBus(c.buses[k])
  <2>1. /\ s = [k \in 1 .. n |-> s[k]]
        /\ d = [k \in 1 .. m |-> d[k]]
        /\ b = [k \in 1 .. l |-> b[k]]
    BY <1>1
  <2>2. /\ \A k \in 1 .. n : s[k] = SerializeStop(c.stops[k])
        /\ \A k \in 1 .. m : d[k] = SerializeFromToDistance(c, keys[k], below)
        /\ \A k \in 1 .. l : b[k] = SerializeBus(c.buses[k])
    BY <1>1
  <2> HIDE DEF n, m, l, s, d, b
  <2> QED
    BY <1>1, <2>1, <2>2, ListIsSeq
<1>4. /\ IsSeq(map) /\ Len(map) = 1
      /\ map[1] = [field |-> "map", description |-> description]
  BY DEF IsSeq, Range
<1>5. /\ IsSeq(params) /\ Len(params) = 2
      /\ params[1] = [field |-> "routing_settings", bus_wait_time |-> st.bus_wait_time,
                      bus_velocity |-> st.bus_velocity]
      /\ params[2] = [field |-> "vertex_count", count |-> count]
  BY DEF IsSeq, Range, SerializeParameters
<1> HIDE DEF n, m, l, s, d, b, map, params, items
<1> DEFINE x1 == s \o d
           x2 == x1 \o b
           x3 == x2 \o map
           q1 == n + m
           q2 == q1 + l
           q3 == q2 + 1
<1> HIDE DEF x1, x2, x3, q1, q2, q3
<1>6. /\ IsSeq(x1) /\ Len(x1) = q1
      /\ \A k \in 1 .. n : x1[k] = s[k]
      /\ \A k \in 1 .. m : x1[n + k] = d[k]
  <2>1. IsSeq(s) /\ IsSeq(d)
    BY <1>3
  <2>2. /\ IsSeq(s \o d)
        /\ Len(s \o d) = Len(s) + Len(d)
        /\ \A k \in 1 .. Len(s) : (s \o d)[k] = s[k]
        /\ \A k \in 1 .. Len(d) : (s \o d)[Len(s) + k] = d[k]
    BY <2>1, Joined
  <2> QED
    BY <1>3, <2>2 DEF x1, q1
<1>7. /\ IsSeq(x2) /\ Len(x2) = q2
      /\ \A k \in 1 .. q1 : x2[k] = x1[k]
      /\ \A k \in 1 .. l : x2[q1 + k] = b[k]
  <2>1. IsSeq(x1) /\ IsSeq(b)
    BY <1>3, <1>6
  <2>2. /\ IsSeq(x1 \o b)
        /\ Len(x1 \o b) = Len(x1) + Len(b)
        /\ \A k \in 1 .. Len(x1) : (x1 \o b)[k] = x1[k]
        /\ \A k \in 1 .. Len(b) : (x1 \o b)[Len(x1) + k] = b[k]
    BY <2>1, Joined
  <2> QED
    BY <1>3, <1>6, <2>2 DEF x2, q2
<1>8. /\ IsSeq(x3) /\ Len(x3) = q3
      /\ \A k \in 1 .. q2 : x3[k] = x2[k]
      /\ \A k \in 1 .. 1 : x3[q2 + k] = map[k]
  <2>1. IsSeq(x2) /\ IsSeq(map)
    BY <1>4, <1>7
  <2>2. /\ IsSeq(x2 \o map)
        /\ Len(x2 \o map) = Len(x2) + Len(map)
        /\ \A k \in 1 .. Len(x2) : (x2 \o map)[k] = x2[k]
        /\ \A k \in 1 .. Len(map) : (x2 \o map)[Len(x2) + k] = map[k]
    BY <2>1, Joined
  <2> QED
    BY <1>4, <1>7, <2>2 DEF x3, q3
<1>9. items = x3 \o params
  BY <1>2 DEF x1, x2, x3
<1>10. /\ IsSeq(items) /\ Len(items) = q3 + 2
       /\ \A k \in 1 .. q3 : items[k] = x3[k]
       /\ \A k \in 1 .. 2 : items[q3 + k] = params[k]
  <2>1. IsSeq(x3) /\ IsSeq(params)
    BY <1>5, <1>8
  <2>2. /\ IsSeq(x3 \o params)
        /\ Len(x3 \o params) = Len(x3) + Len(params)
        /\ \A k \in 1 .. Len(x3) : (x3 \o params)[k] = x3[k]
        /\ \A k \in 1 .. Len(params) : (x3 \o params)[Len(x3) + k] = params[k]
    BY <2>1, Joined
  <2> QED
    BY <1>5, <1>8, <1>9, <2>2
<1>11. items[q3 + 1] = params[1] /\ items[q3 + 2] = params[2]
  BY <1>10
<1> USE DEF q1, q2, q3
<1>12. IsSeq(items) /\ Len(items) = n + m + l + 3
  BY <1>1, <1>10, <1>9
<1>13. \A k \in 1 .. n : items[k] = SerializeStop(c.stops[k])
  <2> TAKE k \in 1 .. n
  <2>1. /\ k \in 1 .. n + m /\ k \in 1 .. n + m + l
        /\ k \in 1 .. n + m + l + 1
    BY <1>1
  <2>2. items[k] = x3[k] /\ x3[k] = x2[k] /\ x2[k] = x1[k]
    BY <1>7, <1>8, <1>10, <2>1
  <2>3. x1[k] = SerializeStop(c.stops[k])
    BY <1>3, <1>6
  <2> QED
    BY <2>2, <2>3
<1>14. \A k \in 1 .. m : items[n + k] = SerializeFromToDistance(c, keys[k], below)
  <2> TAKE k \in 1 .. m
  <2>1. /\ n + k \in 1 .. n + m /\ n + k \in 1 .. n + m + l
        /\ n + k \in 1 .. n + m + l + 1
    BY <1>1
  <2>2. /\ items[n + k] = x3[n + k]
        /\ x3[n + k] = x2[n + k] /\ x2[n + k] = x1[n + k]
    BY <1>7, <1>8, <1>10, <2>1
  <2>3. x1[n + k] = SerializeFromToDistance(c, keys[k], below)
    BY <1>3, <1>6
  <2> QED
    BY <2>2, <2>3
<1>15. \A k \in 1 .. l : items[n + m + k] = SerializeBus(c.buses[k])
  <2> TAKE k \in 1 .. l
  <2>1. n + m + k \in 1 .. n + m + l /\ n + m + k \in 1 .. n + m + l + 1
    BY <1>1
  <2> QED
    BY <1>3, <1>7, <1>8, <1>10, <1>9, <2>1
<1>16. items[n + m + l + 1] = map[1]
  <2>1. n + m + l + 1 \in 1 .. n + m + l + 1
    BY <1>1
  <2> QED
    BY <1>4, <1>8, <1>10, <1>9, <2>1
<1>17. items[n + m + l + 2] = params[1] /\ items[n + m + l + 3] = params[2]
  <2>1. /\ n + m + l + 2 = (n + m + l + 1) + 1
        /\ n + m + l + 3 = (n + m + l + 1) + 2
    BY <1>1
  <2> QED
    BY <1>11, <2>1
<1> QED
  BY <1>1, <1>4, <1>5, <1>12, <1>13, <1>14, <1>15, <1>16, <1>17 DEF n, m, l, items, IsBase

\* The field of the k-th item of a base of n stops, m distances and l buses.
FieldAt(k, n, m, l) ==
  IF k <= n THEN "stops"
  ELSE IF k <= n + m THEN "stops_distance"
  ELSE IF k <= n + m + l THEN "buses"
  ELSE IF k = n + m + l + 1 THEN "map"
  ELSE IF k = n + m + l + 2 THEN "routing_settings"
  ELSE "vertex_count"

\* Which field each item belongs to.
LEMMA BaseFields ==
  ASSUME NEW items, NEW c, NEW st, NEW keys, NEW below, NEW count, NEW n, NEW m, NEW l,
         IsBase(items, c, st, keys, below, count, n, m, l)
  PROVE  /\ DOMAIN items = 1 .. n + m + l + 3
         /\ \A k \in DOMAIN items : /\ "field" \in DOMAIN items[k]
                                    /\ items[k].field = FieldAt(k, n, m, l)
<1>1. /\ n \in Nat /\ m \in Nat /\ l \in Nat
      /\ IsSeq(items)
      /\ Len(items) = n + m + l + 3
      /\ \A k \in 1 .. n : items[k] = SerializeStop(c.stops[k])
      /\ \A k \in 1 .. m : items[n + k] = SerializeFromToDistance(c, keys[k], below)
      /\ \A k \in 1 .. l : items[n + m + k] = SerializeBus(c.buses[k])
  BY DEF IsBase
<1>2. DOMAIN items = 1 .. n + m + l + 3
  BY <1>1 DEF IsSeq
<1>3. ASSUME NEW k \in DOMAIN items
      PROVE  "field" \in DOMAIN items[k] /\ items[k].field = FieldAt(k, n, m, l)
  <2>1. CASE k <= n
    <3>1. items[k] = SerializeStop(c.stops[k])
      BY <1>1, <1>2, <2>1
    <3> QED
      BY <2>1, <3>1 DEF FieldAt, SerializeStop
  <2>2. CASE n < k /\ k <= n + m
    <3>1. k - n \in 1 .. m /\ n + (k - n) = k
      BY <1>1, <1>2, <2>2
    <3>2. items[n + (k - n)] = SerializeFromToDistance(c, keys[k - n], below)
      BY <1>1, <3>1
    <3>3. FieldAt(k, n, m, l) = "stops_distance"
      BY <1>1, <1>2, <2>2 DEF FieldAt
    <3> QED
      BY <3>1, <3>2, <3>3 DEF SerializeFromToDistance
  <2>3. CASE n + m < k /\ k <= n + m + l
    <3>1. k - (n + m) \in 1 .. l /\ n + m + (k - (n + m)) = k
      BY <1>1, <1>2, <2>3
    <3>2. items[n + m + (k - (n + m))] = SerializeBus(c.buses[k - (n + m)])
      BY <1>1, <3>1
    <3>3. FieldAt(k, n, m, l) = "buses"
      BY <1>1, <1>2, <2>3 DEF FieldAt
    <3> QED
      BY <3>1, <3>2, <3>3 DEF SerializeBus
  <2>4. CASE k > n + m + l
    <3>1. k = n + m + l + 1 \/ k = n + m + l + 2 \/ k = n + m + l + 3
      BY <1>1, <1>2, <2>4
    <3>2. /\ FieldAt(n + m + l + 1, n, m, l) = "map"
          /\ FieldAt(n + m + l + 2, n, m, l) = "routing_settings"
          /\ FieldAt(n + m + l + 3, n, m, l) = "vertex_count"
      BY <1>1 DEF FieldAt
    <3>3. /\ \E description : items[n + m + l + 1] =
                               [field |-> "map", description |-> description]
          /\ items[n + m + l + 2] =
               [field |-> "routing_settings", bus_wait_time |-> st.bus_wait_time,
                bus_velocity |-> st.bus_velocity]
          /\ items[n + m + l + 3] = [field |-> "vertex_count", count |-> count]
      BY DEF IsBase
    <3> QED
      BY <3>1, <3>2, <3>3
  <2> QED
    BY <1>1, <1>2, <2>1, <2>2, <2>3, <2>4
<1> QED
  BY <1>1, <1>2, <1>3

\* The item at z is the only one of its field.
IsTheOnly(items, field, z) == z \in Nat \ {0} /\ PositionsOf(items, field) = {z}

\* The member of a field of which there is one item.
LEMMA OnlyOne ==
  ASSUME NEW items, NEW field, NEW z, IsTheOnly(items, field, z), NEW member, NEW default
  PROVE  FieldOf(items, field, member, default) = items[z][member]
<1>1. z \in Nat \ {0} /\ PositionsOf(items, field) = {z}
  BY DEF IsTheOnly
<1> DEFINE given == {k \in PositionsOf(items, field) : items[k][member] # default}
<1>2. FieldOf(items, field, member, default)
        = IF given = {} THEN default ELSE items[Max(given)][member]
  BY DEF FieldOf
<1>3. CASE items[z][member] = default
  <2>1. given = {}
    BY <1>1, <1>3
  <2> QED
    BY <1>2, <1>3, <2>1
<1>4. CASE items[z][member] # default
  <2>1. given = {z}
    BY <1>1, <1>4
  <2>2. {z} \in SUBSET (1 .. z) /\ z \in {z} /\ \A y \in {z} : y <= z
    BY <1>1
  <2>3. Max({z}) = z
    BY <1>1, <2>2, MaxUnique
  <2> QED
    BY <1>2, <2>1, <2>3
<1> QED
  BY <1>3, <1>4

\* A base that was written to its end parses into its elements.
LEMMA WholeMessage ==
  ASSUME NEW items, NEW c, NEW st, NEW keys, NEW below, NEW count, NEW n, NEW m, NEW l,
         IsBase(items, c, st, keys, below, count, n, m, l)
  PROVE  /\ ItemsOf(items, "stops") = [r \in 1 .. n |-> SerializeStop(c.stops[r])]
         /\ ItemsOf(items, "stops_distance") =
              [r \in 1 .. m |-> SerializeFromToDistance(c, keys[r], below)]
         /\ ItemsOf(items, "buses") = [r \in 1 .. l |-> SerializeBus(c.buses[r])]
         /\ FieldOf(items, "routing_settings", "bus_wait_time", 0) = st.bus_wait_time
         /\ FieldOf(items, "routing_settings", "bus_velocity", 0) = st.bus_velocity
         /\ FieldOf(items, "vertex_count", "count", 0) = count
<1> DEFINE q == n + m
           y == n + m + l + 2
           z == n + m + l + 3
<1>1. /\ n \in Nat /\ m \in Nat /\ l \in Nat
      /\ \A k \in 1 .. n : items[k] = SerializeStop(c.stops[k])
      /\ \A k \in 1 .. m : items[n + k] = SerializeFromToDistance(c, keys[k], below)
      /\ \A k \in 1 .. l : items[n + m + k] = SerializeBus(c.buses[k])
      /\ items[y]["bus_wait_time"] = st.bus_wait_time
      /\ items[y]["bus_velocity"] = st.bus_velocity
      /\ items[z]["count"] = count
  <2>1. /\ items[y] = [field |-> "routing_settings", bus_wait_time |-> st.bus_wait_time,
                       bus_velocity |-> st.bus_velocity]
        /\ items[z] = [field |-> "vertex_count", count |-> count]
    BY DEF IsBase
  <2>2. /\ items[y]["bus_wait_time"] = st.bus_wait_time
        /\ items[y]["bus_velocity"] = st.bus_velocity
        /\ items[z]["count"] = count
    <3> HIDE DEF y, z
    <3> QED
      BY <2>1
  <2> HIDE DEF y, z
  <2> QED
    BY <2>2 DEF IsBase
<1>2. /\ DOMAIN items = 1 .. z
      /\ \A k \in DOMAIN items : items[k].field = FieldAt(k, n, m, l)
  BY BaseFields
<1>3. /\ PositionsOf(items, "stops") = 0 + 1 .. 0 + n
      /\ PositionsOf(items, "stops_distance") = n + 1 .. n + m
      /\ PositionsOf(items, "buses") = q + 1 .. q + l
      /\ PositionsOf(items, "routing_settings") = {y}
      /\ PositionsOf(items, "vertex_count") = {z}
  <2> SUFFICES ASSUME NEW k \in 1 .. z
               PROVE  /\ FieldAt(k, n, m, l) = "stops" <=> k \in 0 + 1 .. 0 + n
                      /\ FieldAt(k, n, m, l) = "stops_distance" <=> k \in n + 1 .. n + m
                      /\ FieldAt(k, n, m, l) = "buses" <=> k \in q + 1 .. q + l
                      /\ FieldAt(k, n, m, l) = "routing_settings" <=> k = y
                      /\ FieldAt(k, n, m, l) = "vertex_count" <=> k = z
    <3>1. /\ 0 + 1 .. 0 + n \subseteq 1 .. z
          /\ n + 1 .. n + m \subseteq 1 .. z
          /\ q + 1 .. q + l \subseteq 1 .. z
          /\ y \in 1 .. z /\ z \in 1 .. z
      BY <1>1
    <3> QED
      BY <1>2, <3>1 DEF PositionsOf
  <2> QED
    BY <1>1 DEF FieldAt
<1>4. q \in Nat /\ y \in Nat \ {0} /\ z \in Nat \ {0}
  BY <1>1
<1> HIDE DEF q, y, z
<1>5. ItemsOf(items, "stops") = [r \in 1 .. n |-> items[0 + r]]
  <2> DEFINE lo == 0
  <2>1. lo \in Nat /\ n \in Nat /\ PositionsOf(items, "stops") = lo + 1 .. lo + n
    BY <1>1, <1>3
  <2> HIDE DEF lo
  <2>2. ItemsOf(items, "stops") = [r \in 1 .. n |-> items[lo + r]]
    BY <2>1, ItemsInARow
  <2> QED
    BY <2>2 DEF lo
<1>6. ItemsOf(items, "stops_distance") = [r \in 1 .. m |-> items[n + r]]
  <2>1. n \in Nat /\ m \in Nat /\ PositionsOf(items, "stops_distance") = n + 1 .. n + m
    BY <1>1, <1>3
  <2> QED
    BY <2>1, ItemsInARow
<1>7. ItemsOf(items, "buses") = [r \in 1 .. l |-> items[q + r]]
  <2>1. q \in Nat /\ l \in Nat /\ PositionsOf(items, "buses") = q + 1 .. q + l
    BY <1>1, <1>3, <1>4
  <2> QED
    BY <2>1, ItemsInARow
<1>8. ItemsOf(items, "stops") = [r \in 1 .. n |-> SerializeStop(c.stops[r])]
  BY <1>1, <1>5
<1>9. /\ ItemsOf(items, "stops_distance") =
           [r \in 1 .. m |-> SerializeFromToDistance(c, keys[r], below)]
      /\ ItemsOf(items, "buses") = [r \in 1 .. l |-> SerializeBus(c.buses[r])]
  BY <1>1, <1>6, <1>7 DEF q
<1>10. /\ FieldOf(items, "routing_settings", "bus_wait_time", 0) = st.bus_wait_time
       /\ FieldOf(items, "routing_settings", "bus_velocity", 0) = st.bus_velocity
       /\ FieldOf(items, "vertex_count", "count", 0) = count
  <2>1. IsTheOnly(items, "routing_settings", y) /\ IsTheOnly(items, "vertex_count", z)
    BY <1>3, <1>4 DEF IsTheOnly
  <2>2. /\ FieldOf(items, "routing_settings", "bus_wait_time", 0) = items[y]["bus_wait_time"]
        /\ FieldOf(items, "routing_settings", "bus_velocity", 0) = items[y]["bus_velocity"]
        /\ FieldOf(items, "vertex_count", "count", 0) = items[z]["count"]
    BY <2>1, OnlyOne
  <2> QED
    BY <1>1, <2>2
<1> QED
  BY <1>8, <1>9, <1>10

\* Cutting an item does not change its field, and leaves no count.
LEMMA CutItem ==
  ASSUME NEW item, "field" \in DOMAIN item,
         item.field \in {"stops", "stops_distance", "buses", "map", "routing_settings",
                         "vertex_count"},
         item.field = "vertex_count" => "count" \in DOMAIN item,
         NEW rest \in CutItems(item)
  PROVE  /\ rest.field = item.field
         /\ item.field = "vertex_count" => rest.count = 0
<1>1. CASE item.field = "stops"
  <2>1. rest \in CutStop(item)
    BY <1>1 DEF CutItems
  <2>2. \A p \in CutStop(item) : p.field = item.field
    BY Zenon DEF CutStop
  <2> QED
    BY <1>1, <2>1, <2>2
<1>2. CASE item.field = "stops_distance"
  <2>1. rest \in CutFromToDistance(item)
    BY <1>2 DEF CutItems
  <2>2. PICK ends : rest = [item EXCEPT !.from = ends[1], !.to = ends[2], !.distance = 0]
    BY <2>1 DEF CutFromToDistance
  <2> QED
    BY <1>2, <2>2
<1>3. CASE item.field = "buses"
  <2>1. rest \in CutBus(item)
    BY <1>3 DEF CutItems
  <2>2. \/ \E start : rest = [item EXCEPT !.is_roundtrip = start[1], !.name = start[2],
                                          !.stop_names = <<>>]
        \/ \E names : rest = [item EXCEPT !.stop_names = names]
    BY <2>1 DEF CutBus
  <2> QED
    BY <1>3, <2>2
<1>4. CASE item.field = "map"
  <2>1. rest = [item EXCEPT !.description = ""]
    BY <1>4 DEF CutItems
  <2> QED
    BY <1>4, <2>1
<1>5. CASE item.field = "routing_settings"
  <2>1. PICK wait : rest = [item EXCEPT !.bus_wait_time = wait, !.bus_velocity = 0]
    BY <1>5 DEF CutItems
  <2> QED
    BY <1>5, <2>1
<1>6. CASE item.field = "vertex_count"
  <2>1. rest = [item EXCEPT !.count = 0]
    BY <1>6 DEF CutItems
  <2> QED
    BY <1>6, <2>1
<1> QED
  BY <1>1, <1>2, <1>3, <1>4, <1>5, <1>6

\* The message has no vertex count, or one of zero.
NoCount(msg) == FieldOf(msg, "vertex_count", "count", 0) = 0

\* Counts of zero are no counts.
LEMMA CountsOfZero ==
  ASSUME NEW msg, \A k \in DOMAIN msg : msg[k].field = "vertex_count" => msg[k].count = 0
  PROVE  NoCount(msg)
<1>1. {k \in PositionsOf(msg, "vertex_count") : msg[k]["count"] # 0} = {}
  BY DEF PositionsOf
<1> QED
  BY <1>1 DEF NoCount, FieldOf

\* msg holds the first items of a list.
BeginsLike(msg, items) ==
  /\ IsSeq(msg)
  /\ Len(msg) <= Len(items)
  /\ \A k \in 1 .. Len(msg) : msg[k] = items[k]

\* A message that has not all of a base has not its vertex count.
LEMMA WhatIsParsed ==
  ASSUME NEW items, NEW c, NEW st, NEW keys, NEW below, NEW count, NEW n, NEW m, NEW l,
         IsBase(items, c, st, keys, below, count, n, m, l),
         NEW msg, BeginsLike(msg, items), NEW torn \in BOOLEAN,
         torn \/ Len(msg) < Len(items), torn => Len(msg) > 0,
         NEW res \in IF torn THEN CutMessages(msg) ELSE {msg}
  PROVE  NoCount(res)
<1> DEFINE z == n + m + l + 3
           last == Len(msg)
<1>1. n \in Nat /\ m \in Nat /\ l \in Nat /\ Len(items) = z
  BY DEF IsBase
<1>2. /\ DOMAIN items = 1 .. z
      /\ \A k \in DOMAIN items : "field" \in DOMAIN items[k]
                                 /\ items[k].field = FieldAt(k, n, m, l)
  BY BaseFields
<1>3. items[z] = [field |-> "vertex_count", count |-> count]
  BY DEF IsBase
<1>4. \A k \in 1 .. z : /\ FieldAt(k, n, m, l) = "vertex_count" => k = z
                        /\ FieldAt(k, n, m, l) \in
                             {"stops", "stops_distance", "buses", "map",
                              "routing_settings", "vertex_count"}
  BY <1>1 DEF FieldAt
<1>5. z \in Nat
  BY <1>1
<1> HIDE DEF z
<1>6. /\ last \in Nat /\ last <= z /\ DOMAIN msg = 1 .. last
      /\ \A k \in 1 .. last : msg[k] = items[k] /\ k \in 1 .. z
  BY <1>1, <1>5 DEF BeginsLike, IsSeq
<1>7. CASE ~torn
  <2>1. res = msg /\ last < z
    BY <1>1, <1>7
  <2>2. \A k \in DOMAIN msg : msg[k].field # "vertex_count"
    BY <1>2, <1>4, <1>5, <1>6, <2>1
  <2> QED
    BY <2>1, <2>2, CountsOfZero
<1>8. CASE torn
  <2> DEFINE item == items[last]
  <2>1. last \in 1 .. z /\ last \in DOMAIN msg /\ Last(msg) = item
    BY <1>6, <1>8 DEF Last
  <2>2. PICK rest \in CutItems(item) : res = [msg EXCEPT ![last] = rest]
    BY <1>8, <2>1 DEF CutMessages
  <2>3. /\ "field" \in DOMAIN item
        /\ item.field \in {"stops", "stops_distance", "buses", "map", "routing_settings",
                           "vertex_count"}
        /\ item.field = "vertex_count" => "count" \in DOMAIN item
    BY <1>2, <1>3, <1>4, <2>1
  <2> HIDE DEF item, last
  <2>4. rest.field = item.field /\ (item.field = "vertex_count" => rest.count = 0)
    BY <2>2, <2>3, CutItem
  <2>5. ASSUME NEW k \in DOMAIN res, res[k].field = "vertex_count"
        PROVE  res[k].count = 0
    <3>1. k \in DOMAIN msg
      BY <2>2, <2>5
    <3>2. CASE k = last
      <4>1. res[k] = rest
        BY <2>2, <3>1, <3>2
      <4> QED
        BY <2>4, <2>5, <4>1
    <3>3. CASE k # last
      <4>1. res[k] = items[k] /\ k \in 1 .. z /\ k # z
        BY <1>5, <1>6, <2>1, <2>2, <3>1, <3>3
      <4> QED
        BY <1>2, <1>4, <2>5, <4>1
    <3> QED
      BY <3>2, <3>3
  <2> QED
    BY <2>5, CountsOfZero
<1> QED
  BY <1>7, <1>8

-----------------------------------------------------------------------------
(* Distances: ints that are written as uint64_t and read as ints.           *)

\* Between a number and its negative there is no other multiple of it than zero.
LEMMA NoMultipleBetween ==
  ASSUME NEW n \in Nat \ {0}, NEW a \in Int, -n < n * a, n * a < n
  PROVE  a = 0
<1>1. CASE a >= 1
  <2>1. PICK b \in Nat : a = b + 1
    BY <1>1
  <2>2. n * (b + 1) = n * b + n /\ n * b >= 0
    OBVIOUS
  <2> QED
    BY <2>1, <2>2
<1>2. CASE a <= -1
  <2>1. PICK b \in Nat : a = -(b + 1)
    <3>1. -(a + 1) \in Nat /\ a = -(-(a + 1) + 1)
      BY <1>2
    <3> QED
      BY <3>1
  <2>2. n * (-(b + 1)) = -(n * b) - n /\ n * b >= 0
    OBVIOUS
  <2> QED
    BY <2>1, <2>2
<1> QED
  BY <1>1, <1>2

\* What is left over is the remainder.
LEMMA Remainder ==
  ASSUME NEW n \in Nat \ {0}, NEW q \in Int, NEW r \in 0 .. n - 1
  PROVE  (q * n + r) % n = r
<1> DEFINE u == q * n + r
           p == u \div n
           s == u % n
<1>1. u \in Int /\ p \in Int /\ s \in 0 .. n - 1 /\ u = n * p + s
  OBVIOUS
<1>2. n * (q - p) = n * q - n * p /\ q * n = n * q
  BY <1>1
<1>3. n * (q - p) = s - r
  BY <1>1, <1>2
<1>4. q - p \in Int /\ -n < n * (q - p) /\ n * (q - p) < n
  BY <1>1, <1>3
<1>5. q - p = 0
  BY <1>4, NoMultipleBetween
<1> QED
  BY <1>1, <1>3, <1>5

\* An int comes back as itself or, below zero, as -1 or 0.
LEMMA IntsComeBack ==
  ASSUME NEW d \in -(IntRange \div 2) .. IntRange \div 2 - 1, NEW below \in Below
  PROVE  LET back == AsInt(AsUnsigned(d, below)) IN
         back = d \/ (d < 0 /\ back \in {-1, 0})
<1> DEFINE n == IntRange
           h == IntRange \div 2
           back == AsInt(AsUnsigned(d, below))
<1>1. n \in Nat \ {0} /\ h \in Int /\ n = 2 * h /\ d \in -h .. h - 1
  BY UnsignedAssumption
<1>2. PICK k \in 1 .. Unsigned : Unsigned = k * n
  BY UnsignedAssumption
<1>3. k \in Int
  BY <1>2, UnsignedAssumption
<1>4. ASSUME NEW q \in Int, NEW r \in 0 .. n - 1
      PROVE  AsInt(q * n + r) = IF r < h THEN r ELSE r - n
  <2>1. (q * n + r) % n = r
    BY <1>1, <1>4, Remainder
  <2> QED
    BY <2>1 DEF AsInt
<1> HIDE DEF n, h
<1>5. CASE d >= 0
  <2>1. d \in 0 .. n - 1 /\ d = 0 * n + d /\ d < h
    BY <1>1, <1>5
  <2>2. AsUnsigned(d, below) = d
    BY <1>5 DEF AsUnsigned
  <2>3. AsInt(0 * n + d) = d
    BY <1>4, <2>1
  <2> QED
    BY <2>1, <2>2, <2>3
<1>6. CASE d < 0 /\ below = "wraps"
  <2>1. AsUnsigned(d, below) = k * n + d
    BY <1>1, <1>2, <1>6 DEF AsUnsigned
  <2> DEFINE q == k - 1
             r == n + d
  <2>2. q \in Int /\ k * n + d = q * n + r
    BY <1>1, <1>3
  <2>3. r \in 0 .. n - 1 /\ ~(r < h) /\ r - n = d
    BY <1>1, <1>6
  <2> HIDE DEF q, r
  <2>4. AsInt(q * n + r) = d
    BY <1>4, <2>2, <2>3
  <2> QED
    BY <2>1, <2>2, <2>4
<1>7. CASE d < 0 /\ below = "largest"
  <2>1. AsUnsigned(d, below) = k * n - 1
    BY <1>1, <1>2, <1>7 DEF AsUnsigned
  <2>2. k - 1 \in Int /\ k * n - 1 = (k - 1) * n + (n - 1)
    BY <1>1, <1>3
  <2>3. n - 1 \in 0 .. n - 1 /\ ~(n - 1 < h) /\ n - 1 - n = -1
    BY <1>1
  <2>4. AsInt((k - 1) * n + (n - 1)) = n - 1 - n
    BY <1>4, <2>2, <2>3
  <2> QED
    BY <1>7, <2>1, <2>2, <2>3, <2>4
<1>8. CASE d < 0 /\ below = "zero"
  <2>1. AsUnsigned(d, below) = 0
    BY <1>1, <1>8 DEF AsUnsigned
  <2>2. 0 \in 0 .. n - 1 /\ 0 = 0 * n + 0 /\ 0 < h
    BY <1>1
  <2>3. AsInt(0 * n + 0) = 0
    BY <1>4, <2>2
  <2> QED
    BY <1>8, <2>1, <2>2, <2>3
<1> QED
  BY <1>1, <1>5, <1>6, <1>7, <1>8 DEF Below

-----------------------------------------------------------------------------
(* The catalogue comes back, element by element.                            *)

\* What the catalogue of process_requests is at any time.
IsDb(d) == IsCatalogue(d) /\ IsSeq(d.stops) /\ IsSeq(d.buses) /\ TablesAgree(d)

\* The first i elements of one list are the other list.
FirstAre(list, back, i) ==
  /\ IsSeq(back) /\ Len(back) = i
  /\ \A p \in 1 .. i : back[p] = list[p]

\* How a distance comes back.
Returned(c, road, below) == AsInt(AsUnsigned(c.stops_to_dist[road], below))

\* d has the first i stops, j distances and k buses of the catalogue c.
Back(c, d, keys, below, i, j, k) ==
  /\ IsDb(d)
  /\ FirstAre(c.stops, d.stops, i)
  /\ d.stops_to_dist =
       [road \in {keys[p] : p \in 1 .. j} |-> Returned(c, road, below)]
  /\ FirstAre(c.buses, d.buses, k)

\* The keys of the distances, each of them once.
AreKeys(c, keys) ==
  /\ IsSeq(keys)
  /\ {keys[p] : p \in 1 .. Len(keys)} = DOMAIN c.stops_to_dist

\* One more element.
LEMMA OneMore ==
  ASSUME NEW list, NEW back, NEW i \in Nat, FirstAre(list, back, i), NEW e, e = list[i + 1]
  PROVE  FirstAre(list, Append(back, e), i + 1)
<1>1. /\ IsSeq(Append(back, e))
      /\ Len(Append(back, e)) = i + 1
      /\ \A p \in 1 .. i : Append(back, e)[p] = back[p]
      /\ Append(back, e)[i + 1] = e
  BY AppendToSeq DEF FirstAre
<1>2. \A p \in 1 .. i : back[p] = list[p]
  BY DEF FirstAre
<1>3. \A p \in 1 .. i + 1 : p \in 1 .. i \/ p = i + 1
  OBVIOUS
<1> DEFINE t == Append(back, e)
<1> HIDE DEF t
<1>4. \A p \in 1 .. i + 1 : t[p] = list[p]
  BY <1>1, <1>2, <1>3 DEF t
<1> QED
  BY <1>1, <1>4 DEF FirstAre, t

\* All of the elements are the list.
LEMMA AllOfThem ==
  ASSUME NEW list, IsSeq(list), NEW back, FirstAre(list, back, Len(list))
  PROVE  back = list
<1> DEFINE n == Len(list)
<1>1. /\ n \in Nat /\ list \in Seq(Range(list)) /\ back \in Seq(Range(back))
      /\ Len(back) = n /\ \A p \in 1 .. n : back[p] = list[p]
  BY DEF FirstAre, IsSeq
<1> HIDE DEF n
<1>2. DOMAIN back = 1 .. n /\ back = [p \in 1 .. n |-> back[p]]
  BY <1>1
<1>3. DOMAIN list = 1 .. n /\ list = [p \in 1 .. n |-> list[p]]
  BY <1>1 DEF n
<1> QED
  BY <1>1, <1>2, <1>3

\* A catalogue whose stops are back binds the names of its stops as the saved
\* one does.
LEMMA StopsAreBack ==
  ASSUME NEW c, IsFilled(c), NEW d, NEW keys, NEW below, NEW j, NEW k,
         Back(c, d, keys, below, Len(c.stops), j, k)
  PROVE  d.stops = c.stops /\ d.stop_by_name = c.stop_by_name
<1>1. IsSeq(c.stops) /\ FirstAre(c.stops, d.stops, Len(c.stops))
  BY DEF IsFilled, Back, IsSeq
<1>2. d.stops = c.stops
  BY <1>1, AllOfThem
<1>3. TablesAgree(c) /\ TablesAgree(d)
  BY DEF IsFilled, Back, IsDb
<1> QED
  BY <1>2, <1>3 DEF TablesAgree

\* It begins with nothing.
LEMMA NothingBack ==
  ASSUME NEW c, NEW keys, NEW below
  PROVE  Back(c, EmptyCatalogue, keys, below, 0, 0, 0)
<1>1. IsDb(EmptyCatalogue)
  BY EmptyTables DEF IsDb
<1>2. /\ EmptyCatalogue.stops = <<>> /\ EmptyCatalogue.buses = <<>>
      /\ EmptyCatalogue.stops_to_dist = <<>>
  BY DEF EmptyCatalogue
<1>3. \A list : FirstAre(list, <<>>, 0)
  BY DEF FirstAre, IsSeq
<1>4. {keys[p] : p \in 1 .. 0} = {}
  OBVIOUS
<1>5. <<>> = [road \in {keys[p] : p \in 1 .. 0} |-> Returned(c, road, below)]
  BY <1>4
<1> QED
  BY <1>1, <1>2, <1>3, <1>5 DEF Back

\* DeserializeStop brings back a stop.
LEMMA StopBack ==
  ASSUME NEW c, IsFilled(c), NEW d, NEW keys, NEW below, NEW i \in Nat, i < Len(c.stops),
         Back(c, d, keys, below, i, 0, 0)
  PROVE  Back(c, DeserializeStop(d, SerializeStop(c.stops[i + 1])), keys, below, i + 1, 0, 0)
<1> DEFINE e == c.stops[i + 1]
           x == DeserializeStop(d, SerializeStop(e))
<1>1. e = [name |-> e.name, coordinates |-> e.coordinates]
  <2>1. Len(c.stops) \in Nat /\ DOMAIN c.stops = 1 .. Len(c.stops)
    BY DEF IsFilled
  <2>2. i + 1 \in DOMAIN c.stops
    BY <2>1
  <2> QED
    BY <2>2 DEF IsFilled
<1>2. x = AddStop(d, e.name, e.coordinates)
  BY DEF DeserializeStop, SerializeStop
<1>3. /\ IsDb(d) /\ FirstAre(c.stops, d.stops, i) /\ FirstAre(c.buses, d.buses, 0)
      /\ d.stops_to_dist =
           [road \in {keys[p] : p \in 1 .. 0} |-> Returned(c, road, below)]
  BY DEF Back
<1> HIDE DEF e, x
<1>4. IsCatalogue(d) /\ IsSeq(d.stops) /\ IsSeq(d.buses) /\ TablesAgree(d)
  BY <1>3 DEF IsDb
<1>5. /\ IsCatalogue(x)
      /\ x.stops = Append(d.stops, e)
      /\ x.buses = d.buses
      /\ x.stops_to_dist = d.stops_to_dist
  <2>1. LET y == AddStop(d, e.name, e.coordinates) IN
        /\ IsCatalogue(y)
        /\ y.stops = Append(d.stops, [name |-> e.name, coordinates |-> e.coordinates])
        /\ y.buses = d.buses
        /\ y.stops_to_dist = d.stops_to_dist
    BY <1>4, AddStopEffect
  <2> QED
    BY <1>1, <1>2, <2>1
<1>6. TablesAgree(x)
  BY <1>2, <1>4, TablesAfterStop
<1>7. FirstAre(c.stops, x.stops, i + 1)
  BY <1>3, <1>5, OneMore DEF e
<1>8. IsDb(x)
  BY <1>4, <1>5, <1>6, <1>7 DEF IsDb, FirstAre
<1> QED
  BY <1>3, <1>5, <1>7, <1>8 DEF Back, x, e

\* The ends of a road are stops, and their names lead to them.
LEMMA EndsOfARoad ==
  ASSUME NEW c, IsFilled(c), NEW road \in DOMAIN c.stops_to_dist, NEW i \in {1, 2}
  PROVE  GetStop(c, c.stops[road[i]].name) = road[i] /\ road[i] # NullPtr
<1>1. road[i] \in DOMAIN c.stops /\ c.stop_by_name[c.stops[road[i]].name] = road[i]
  BY DEF IsFilled, DistancesHang
<1>2. DOMAIN c.stop_by_name = NamesOf(c.stops)
  BY DEF IsFilled, TablesAgree
<1>3. c.stops[road[i]].name \in DOMAIN c.stop_by_name
  BY <1>1, <1>2 DEF NamesOf
<1>4. DOMAIN c.stops = 1 .. Len(c.stops) /\ Len(c.stops) \in Nat
  BY DEF IsFilled
<1>5. road[i] # 0
  BY <1>1, <1>4
<1> QED
  BY <1>1, <1>3, <1>5 DEF GetStop, Find, NullPtr

\* DeserializeFromToDistance goes through no null pointer and brings back a
\* distance.
LEMMA DistanceBack ==
  ASSUME NEW c, IsFilled(c), NEW d, NEW keys, AreKeys(c, keys), NEW below,
         NEW j \in Nat, j < Len(keys), Back(c, d, keys, below, Len(c.stops), j, 0)
  PROVE  LET item == SerializeFromToDistance(c, keys[j + 1], below) IN
         /\ CanDeserializeFromToDistance(d, item)
         /\ Back(c, DeserializeFromToDistance(d, item), keys, below, Len(c.stops), j + 1, 0)
<1> DEFINE item == SerializeFromToDistance(c, keys[j + 1], below)
           x == DeserializeFromToDistance(d, item)
           road == keys[j + 1]
           v == Returned(c, road, below)
           R == {keys[p] : p \in 1 .. j}
           Q == {keys[p] : p \in 1 .. j + 1}
<1>1. road \in DOMAIN c.stops_to_dist
  <2>1. Len(keys) \in Nat
    BY DEF AreKeys, IsSeq
  <2>2. j + 1 \in 1 .. Len(keys)
    BY <2>1
  <2> QED
    BY <2>2 DEF AreKeys
<1>2. /\ item.from = c.stops[road[1]].name
      /\ item.to = c.stops[road[2]].name
      /\ AsInt(item.distance) = v
  BY DEF SerializeFromToDistance, Returned
<1>3. Q = R \cup {road}
  <2>1. 1 .. j + 1 = (1 .. j) \cup {j + 1}
    OBVIOUS
  <2> QED
    BY <2>1
<1>4. /\ IsDb(d) /\ FirstAre(c.stops, d.stops, Len(c.stops))
      /\ FirstAre(c.buses, d.buses, 0)
      /\ d.stops_to_dist = [r \in R |-> Returned(c, r, below)]
  BY DEF Back
<1>5. <<road[1], road[2]>> = road
  <2>1. DOMAIN c.stops_to_dist \subseteq (DOMAIN c.stops) \X (DOMAIN c.stops)
    BY DEF IsFilled, DistancesHang
  <2>2. road \in (DOMAIN c.stops) \X (DOMAIN c.stops)
    BY <1>1, <2>1
  <2> HIDE DEF road
  <2> QED
    BY <2>2
<1> HIDE DEF item, x, road, v, R, Q
<1>6. /\ GetStop(d, item.from) = road[1] /\ road[1] # NullPtr
      /\ GetStop(d, item.to) = road[2] /\ road[2] # NullPtr
  <2>1. d.stop_by_name = c.stop_by_name
    BY StopsAreBack
  <2>2. \A i \in {1, 2} :
          GetStop(c, c.stops[road[i]].name) = road[i] /\ road[i] # NullPtr
    BY <1>1, EndsOfARoad
  <2>3. \A name : GetStop(d, name) = GetStop(c, name)
    BY <2>1 DEF GetStop
  <2> QED
    BY <1>2, <2>2, <2>3
<1>7. CanDeserializeFromToDistance(d, item)
  BY <1>6 DEF CanDeserializeFromToDistance
<1>8. IsCatalogue(d) /\ IsSeq(d.stops) /\ IsSeq(d.buses) /\ TablesAgree(d)
  BY <1>4 DEF IsDb
<1>9. /\ IsCatalogue(x)
      /\ x.stops = d.stops
      /\ x.buses = d.buses
      /\ x.stops_to_dist = Put(d.stops_to_dist, road, v)
  <2>1. LET y == SetDistanceBetweenStops(d, item.from, item.to, AsInt(item.distance)) IN
        /\ IsCatalogue(y)
        /\ y.stops = d.stops
        /\ y.buses = d.buses
        /\ y.stops_to_dist =
             IF GetStop(d, item.from) = NullPtr \/ GetStop(d, item.to) = NullPtr
             THEN d.stops_to_dist
             ELSE Put(d.stops_to_dist, <<GetStop(d, item.from), GetStop(d, item.to)>>,
                      AsInt(item.distance))
    BY <1>8, SetDistanceEffect
  <2> QED
    BY <1>2, <1>5, <1>6, <2>1 DEF DeserializeFromToDistance, x
<1>10. TablesAgree(x)
  BY <1>8, TablesAfterDistance DEF DeserializeFromToDistance, x
<1>11. x.stops_to_dist = [r \in Q |-> Returned(c, r, below)]
  <2>1. Put(d.stops_to_dist, road, v)
          = [r \in Q |-> IF r = road THEN v ELSE d.stops_to_dist[r]]
    BY <1>3, <1>4 DEF Put
  <2>2. ASSUME NEW r \in Q
        PROVE  (IF r = road THEN v ELSE d.stops_to_dist[r])
                 = Returned(c, r, below)
    BY <1>3, <1>4 DEF v
  <2> QED
    BY <1>9, <2>1, <2>2
<1>12. IsDb(x)
  BY <1>8, <1>9, <1>10 DEF IsDb
<1>13. Back(c, x, keys, below, Len(c.stops), j + 1, 0)
  BY <1>4, <1>9, <1>11, <1>12 DEF Back, Q
<1> QED
  BY <1>7, <1>13 DEF item, x

\* DeserializeBus finds all the stops of a bus and brings it back.
LEMMA BusBack ==
  ASSUME NEW c, IsFilled(c), NEW d, NEW keys, NEW below, NEW j \in Nat,
         NEW k \in Nat, k < Len(c.buses), Back(c, d, keys, below, Len(c.stops), j, k)
  PROVE  LET item == SerializeBus(c.buses[k + 1]) IN
         /\ CanDeserializeBus(d, item)
         /\ Back(c, DeserializeBus(d, item), keys, below, Len(c.stops), j, k + 1)
<1> DEFINE e == c.buses[k + 1]
           item == SerializeBus(e)
           x == DeserializeBus(d, item)
<1>1. /\ e = [name |-> e.name, stops |-> e.stops, is_roundtrip |-> e.is_roundtrip]
      /\ e.stops \in Seq(NamesOf(c.stops))
  <2>1. Len(c.buses) \in Nat /\ DOMAIN c.buses = 1 .. Len(c.buses)
    BY DEF IsFilled
  <2>2. k + 1 \in DOMAIN c.buses
    BY <2>1
  <2> QED
    BY <2>2 DEF IsFilled
<1>2. /\ item.name = e.name /\ item.stop_names = e.stops
      /\ item.is_roundtrip = e.is_roundtrip
  BY DEF SerializeBus
<1>3. x = AddBus(d, e.name, e.stops, e.is_roundtrip)
  BY <1>2 DEF DeserializeBus
<1>4. /\ IsDb(d) /\ FirstAre(c.stops, d.stops, Len(c.stops))
      /\ FirstAre(c.buses, d.buses, k)
      /\ d.stops_to_dist =
           [road \in {keys[p] : p \in 1 .. j} |-> Returned(c, road, below)]
  BY DEF Back
<1> HIDE DEF e, item, x
<1>5. IsCatalogue(d) /\ IsSeq(d.stops) /\ IsSeq(d.buses) /\ TablesAgree(d)
  BY <1>4 DEF IsDb
<1>6. CanDeserializeBus(d, item)
  <2> SUFFICES ASSUME NEW s \in Range(e.stops)
               PROVE  GetStop(d, s) # NullPtr
    BY <1>2 DEF CanDeserializeBus
  <2>1. s \in NamesOf(c.stops)
    <3> DEFINE N == NamesOf(c.stops)
    <3>1. e.stops \in Seq(N)
      BY <1>1
    <3> HIDE DEF N
    <3>2. Range(e.stops) \subseteq N
      BY <3>1, SeqIsSeq
    <3> QED
      BY <3>2 DEF N
  <2>2. d.stop_by_name = c.stop_by_name
    BY StopsAreBack
  <2>3. c.stop_by_name = [n \in NamesOf(c.stops) |-> LastNamed(c.stops, n)]
    BY DEF IsFilled, TablesAgree
  <2>4. IsSeq(c.stops)
    BY DEF IsFilled, IsSeq
  <2>5. LastNamed(c.stops, s) \in 1 .. Len(c.stops)
    BY <2>1, <2>4, LastNamedIs
  <2>6. GetStop(d, s) = LastNamed(c.stops, s)
    BY <2>1, <2>2, <2>3 DEF GetStop, Find
  <2>7. Len(c.stops) \in Nat
    BY <2>4 DEF IsSeq
  <2> QED
    BY <2>5, <2>6, <2>7 DEF NullPtr
<1>7. /\ IsCatalogue(x)
      /\ x.stops = d.stops
      /\ x.buses = Append(d.buses, e)
      /\ x.stops_to_dist = d.stops_to_dist
  <2> DEFINE y == AddBus(d, e.name, e.stops, e.is_roundtrip)
  <2>1. /\ IsCatalogue(y)
        /\ y.stops = d.stops
        /\ y.buses = Append(d.buses, [name |-> e.name, is_roundtrip |-> e.is_roundtrip,
                                      stops |-> e.stops])
        /\ y.stops_to_dist = d.stops_to_dist
    BY <1>5, Containers DEF AddBus, IsCatalogue
  <2>2. [name |-> e.name, is_roundtrip |-> e.is_roundtrip, stops |-> e.stops] = e
    BY <1>1
  <2> QED
    BY <1>3, <2>1, <2>2
<1>8. TablesAgree(x)
  BY <1>3, <1>5, TablesAfterBus
<1>9. FirstAre(c.buses, x.buses, k + 1)
  BY <1>4, <1>7, OneMore DEF e
<1>10. IsDb(x)
  BY <1>5, <1>7, <1>8, <1>9 DEF IsDb, FirstAre
<1>11. Back(c, x, keys, below, Len(c.stops), j, k + 1)
  BY <1>4, <1>7, <1>9, <1>10 DEF Back
<1> QED
  BY <1>6, <1>11 DEF x, item, e

\* In whatever order the hash table gives the distances, it gives each once.
LEMMA EveryKeyOnce ==
  ASSUME NEW c, IsFilled(c), NEW keys \in SetToSeqs(DOMAIN c.stops_to_dist)
  PROVE  AreKeys(c, keys)
<1> DEFINE D == DOMAIN c.stops_to_dist
           n == Cardinality(D)
<1>1. IsFiniteSet(D)
  <2>1. Len(c.stops) \in Nat /\ DOMAIN c.stops = 1 .. Len(c.stops)
    BY DEF IsFilled
  <2> DEFINE P == DOMAIN c.stops
  <2>2. IsFiniteSet(P)
    <3>1. 1 \in Int /\ Len(c.stops) \in Int
      BY <2>1
    <3> QED
      BY <2>1, <3>1, FS_Interval
  <2>3. D \in SUBSET (P \X P)
    BY DEF IsFilled, DistancesHang
  <2> HIDE DEF P, D
  <2>4. IsFiniteSet(P \X P)
    BY <2>2, FS_Product
  <2> QED
    BY <2>3, <2>4, FS_Subset
<1>2. n \in Nat
  <2> HIDE DEF D
  <2> QED
    BY <1>1, FS_CardinalityType
<1>3. /\ keys \in [1 .. n -> D]
      /\ \A i, j \in 1 .. n : i # j => keys[i] # keys[j]
  BY DEF SetToSeqs
<1> HIDE DEF n
<1>4. keys \in Injection(1 .. n, D)
  BY <1>3 DEF Injection, IsInjective
<1>5. Cardinality(1 .. n) = Cardinality(D)
  <2>1. 1 \in Int /\ n \in Int
    BY <1>2
  <2>2. Cardinality(1 .. n) = IF 1 > n THEN 0 ELSE n - 1 + 1
    BY <2>1, FS_Interval
  <2> QED
    BY <1>2, <2>2 DEF n
<1> DEFINE I == 1 .. n
<1>6. keys \in Surjection(I, D)
  <2> HIDE DEF D, I
  <2>1. keys \in Injection(I, D) /\ Cardinality(I) = Cardinality(D)
    BY <1>4, <1>5 DEF I
  <2> QED
    BY <1>1, <2>1, FS_Injection
<1>7. \A road \in D : \E p \in 1 .. n : keys[p] = road
  BY <1>6 DEF Surjection
<1>8. IsSeq(keys) /\ Len(keys) = n
  <2>1. keys = [p \in 1 .. n |-> keys[p]]
    BY <1>3
  <2> QED
    BY <1>2, <2>1, ListIsSeq
<1> QED
  BY <1>3, <1>7, <1>8 DEF AreKeys

\* The catalogue d is as it was saved, but for the distances below zero.
AsSaved(c, d) ==
  /\ \A x \in DOMAIN EmptyCatalogue \ {"stops_to_dist"} : d[x] = c[x]
  /\ DOMAIN d.stops_to_dist = DOMAIN c.stops_to_dist
  /\ \A k \in DOMAIN d.stops_to_dist :
       \/ d.stops_to_dist[k] = c.stops_to_dist[k]
       \/ c.stops_to_dist[k] < 0 /\ d.stops_to_dist[k] \in {-1, 0}

\* When everything is back, the catalogue is as it was saved.
LEMMA EverythingIsBack ==
  ASSUME NEW b \in Bases, NEW d, NEW keys, AreKeys(b.db, keys), NEW below \in Below,
         Back(b.db, d, keys, below, Len(b.db.stops), Len(keys), Len(b.db.buses))
  PROVE  AsSaved(b.db, d)
<1> DEFINE c == b.db
<1>1. /\ IsFilled(c)
      /\ \A road \in DOMAIN c.stops_to_dist :
           c.stops_to_dist[road] \in -(IntRange \div 2) .. IntRange \div 2 - 1
  BY BasesAssumption
<1>2. AreKeys(c, keys) /\ Back(c, d, keys, below, Len(c.stops), Len(keys), Len(c.buses))
  OBVIOUS
<1> HIDE DEF c
<1>3. d.stops = c.stops /\ d.stop_by_name = c.stop_by_name
  BY <1>1, <1>2, StopsAreBack
<1>4. d.buses = c.buses
  <2>1. IsSeq(c.buses) /\ FirstAre(c.buses, d.buses, Len(c.buses))
    BY <1>1, <1>2 DEF IsFilled, Back, IsSeq
  <2> QED
    BY <2>1, AllOfThem
<1>5. d.bus_by_name = c.bus_by_name /\ d.buses_by_stop_name = c.buses_by_stop_name
  <2>1. TablesAgree(c) /\ TablesAgree(d)
    BY <1>1, <1>2 DEF IsFilled, Back, IsDb
  <2> QED
    BY <1>4, <2>1 DEF TablesAgree
<1>6. \A x \in DOMAIN EmptyCatalogue \ {"stops_to_dist"} : d[x] = c[x]
  BY <1>3, <1>4, <1>5, Containers
<1>7. d.stops_to_dist =
        [road \in DOMAIN c.stops_to_dist |-> Returned(c, road, below)]
  BY <1>2 DEF Back, AreKeys
<1>8. ASSUME NEW k \in DOMAIN c.stops_to_dist
      PROVE  \/ d.stops_to_dist[k] = c.stops_to_dist[k]
             \/ c.stops_to_dist[k] < 0 /\ d.stops_to_dist[k] \in {-1, 0}
  <2> DEFINE v == c.stops_to_dist[k]
  <2>1. v \in -(IntRange \div 2) .. IntRange \div 2 - 1
    BY <1>1
  <2>2. d.stops_to_dist[k] = AsInt(AsUnsigned(v, below))
    BY <1>7 DEF Returned
  <2> HIDE DEF v
  <2>3. LET back == AsInt(AsUnsigned(v, below)) IN
        back = v \/ (v < 0 /\ back \in {-1, 0})
    BY <2>1, IntsComeBack
  <2> QED
    BY <2>2, <2>3 DEF v
<1> QED
  BY <1>6, <1>7, <1>8 DEF AsSaved, c

\* There are no more names than stops, and none only without stops.
LEMMA NamesAndStops ==
  ASSUME NEW d, IsDb(d)
  PROVE  /\ Len(d.stops) \in Nat
         /\ Cardinality(DOMAIN d.stop_by_name) \in 0 .. Len(d.stops)
         /\ Cardinality(DOMAIN d.stop_by_name) = 0 => d.stops = <<>>
<1> DEFINE s == d.stops
           n == Len(s)
           N == NamesOf(s)
           f == [p \in 1 .. n |-> s[p].name]
<1>1. n \in Nat /\ DOMAIN s = 1 .. n /\ s \in Seq(Range(s))
  BY DEF IsDb, IsSeq
<1>2. DOMAIN d.stop_by_name = N
  BY DEF IsDb, TablesAgree
<1>3. f \in Surjection(1 .. n, N)
  <2>1. N = {s[p].name : p \in 1 .. n}
    BY <1>1 DEF NamesOf
  <2> HIDE DEF N, n, s
  <2> QED
    BY <2>1 DEF Surjection
<1>4. IsFiniteSet(1 .. n) /\ Cardinality(1 .. n) = n
  <2>1. 1 \in Int /\ n \in Int
    BY <1>1
  <2>2. IsFiniteSet(1 .. n) /\ Cardinality(1 .. n) = IF 1 > n THEN 0 ELSE n - 1 + 1
    BY <2>1, FS_Interval
  <2> QED
    BY <1>1, <2>2
<1> DEFINE I == 1 .. n
<1>5. IsFiniteSet(N) /\ Cardinality(N) <= n
  <2> HIDE DEF f, N
  <2>1. f \in Surjection(I, N) /\ IsFiniteSet(I) /\ Cardinality(I) = n
    BY <1>3, <1>4
  <2> HIDE DEF I, n
  <2> QED
    BY <2>1, FS_Surjection
<1>6. Cardinality(N) \in Nat /\ (Cardinality(N) = 0 => N = {})
  <2> HIDE DEF N
  <2> QED
    BY <1>5, FS_CardinalityType, FS_EmptySet
<1>7. N = {} => s = <<>>
  <2>1. N = {} => n = 0
    <3>1. n # 0 => 1 \in DOMAIN s
      BY <1>1
    <3> QED
      BY <3>1 DEF NamesOf
  <2>2. n = 0 => s = <<>>
    <3> DEFINE S == Range(s)
    <3>1. s \in Seq(S)
      BY <1>1
    <3> HIDE DEF S, s
    <3> QED
      BY <3>1
  <2> QED
    BY <2>1, <2>2
<1> QED
  BY <1>1, <1>2, <1>5, <1>6, <1>7

-----------------------------------------------------------------------------
(* The file, and who writes it.                                             *)

\* The items are those of the base, in one of the forms they may have.
Written(items, b) ==
  \E keys, below :
    /\ below \in Below
    /\ AreKeys(b.db, keys)
    /\ IsBase(items, b.db, b.settings, keys, below, 2 * Len(b.db.stops),
              Len(b.db.stops), Len(keys), Len(b.db.buses))

\* The file holds a part of a base, or nothing.
FileInv ==
  /\ DOMAIN file = {"exists", "base", "items", "whole", "cut"}
  /\ file.exists \in BOOLEAN
  /\ file.base \in Bases \cup {NoBase}
  /\ IF file.base = NoBase THEN file.items = <<>> ELSE Written(file.items, file.base)
  /\ file.whole \in 0 .. Len(file.items)
  /\ file.cut \in BOOLEAN
  /\ file.cut => file.whole < Len(file.items)

\* Between emptying the file and filling it make_base has written nothing.
MakerInv ==
  /\ maker \in {"idle", "filled", "opened", "writing"}
  /\ maker = "opened" => file.base = NoBase /\ file.whole = 0 /\ file.cut = FALSE
  /\ builds \in 0 .. MaxBuilds

\* A base is not the lack of one.
LEMMA BasesAreBases == \A b \in Bases : b # NoBase
<1>1. DOMAIN NoBase # {"db", "settings", "colors"}
  <2>1. DOMAIN NoBase = {}
    BY DEF NoBase
  <2>2. "db" \in {"db", "settings", "colors"}
    OBVIOUS
  <2> QED
    BY <2>1, <2>2
<1> QED
  BY <1>1, BasesAssumption

\* What FillBase puts into the file is a base.
LEMMA FillingIsWritten ==
  ASSUME NEW b \in Bases, NEW keys \in SetToSeqs(DOMAIN b.db.stops_to_dist),
         NEW below \in Below
  PROVE  Written(FillingBase(b.db, keys, below, "map", b.settings, 2 * Len(b.db.stops)), b)
<1> DEFINE c == b.db
           st == b.settings
<1>1. IsFilled(c) /\ IsSeq(c.stops) /\ IsSeq(c.buses)
  BY BasesAssumption DEF IsFilled, IsSeq
<1>2. keys \in SetToSeqs(DOMAIN c.stops_to_dist)
  OBVIOUS
<1> HIDE DEF c
<1>3. AreKeys(c, keys)
  BY <1>1, <1>2, EveryKeyOnce
<1>4. IsSeq(keys)
  BY <1>3 DEF AreKeys
<1> DEFINE count == 2 * Len(c.stops)
<1> HIDE DEF count, st
<1>5. IsBase(FillingBase(c, keys, below, "map", st, count),
             c, st, keys, below, count, Len(c.stops), Len(keys), Len(c.buses))
  BY <1>1, <1>4, BaseItems
<1> QED
  BY <1>3, <1>5 DEF Written, c, st, count

\* A base is a list of items.
LEMMA WrittenIsSeq ==
  ASSUME NEW items, NEW b, Written(items, b)
  PROVE  IsSeq(items) /\ Len(items) \in Nat
<1>1. IsSeq(items)
  BY DEF Written, IsBase
<1> QED
  BY <1>1 DEF IsSeq

\* Nobody but make_base touches the file, and it writes one item after the
\* other.
LEMMA FileKeeps ==
  ASSUME FileInv, MakerInv, [Next]_vars
  PROVE  FileInv' /\ MakerInv'
<1> USE DEF FileInv, MakerInv
<1>1. CASE MakeBase
  BY <1>1, BoundsAssumption DEF MakeBase, read, parse
<1>2. CASE OpenBase
  <2>1. /\ file'.base = NoBase /\ file'.items = <<>> /\ file'.whole = 0 /\ file'.cut = FALSE
        /\ DOMAIN file' = {"exists", "base", "items", "whole", "cut"}
        /\ file'.exists = TRUE
    BY <1>2 DEF OpenBase, NoFile
  <2>2. UNCHANGED builds /\ maker' = "opened"
    BY <1>2 DEF OpenBase
  <2>3. FileInv'
    <3>1. Len(<<>>) = 0 /\ 0 \in 0 .. 0
      OBVIOUS
    <3> QED
      BY <2>1, <3>1
  <2> QED
    BY <2>1, <2>2, <2>3
<1>3. CASE FillBase
  <2>1. maker = "opened" /\ UNCHANGED builds
    BY <1>3 DEF FillBase
  <2>2. CASE maker' = "idle" /\ UNCHANGED file
    BY <2>1, <2>2
  <2>3. CASE /\ maker' = "writing"
             /\ \E b \in Bases : \E keys \in SetToSeqs(DOMAIN b.db.stops_to_dist), below \in Below :
                  file' = [file EXCEPT
                    !.base = b,
                    !.items = FillingBase(b.db, keys, below, "map", b.settings,
                                          2 * Len(b.db.stops))]
    <3>1. PICK b \in Bases :
            \E keys \in SetToSeqs(DOMAIN b.db.stops_to_dist), below \in Below :
              file' = [file EXCEPT
                !.base = b,
                !.items = FillingBase(b.db, keys, below, "map", b.settings,
                                      2 * Len(b.db.stops))]
      BY <2>3
    <3>2. PICK keys \in SetToSeqs(DOMAIN b.db.stops_to_dist), below \in Below :
            file' = [file EXCEPT
              !.base = b,
              !.items = FillingBase(b.db, keys, below, "map", b.settings,
                                    2 * Len(b.db.stops))]
      BY <3>1
    <3> DEFINE items == FillingBase(b.db, keys, below, "map", b.settings, 2 * Len(b.db.stops))
    <3>3. Written(items, b) /\ b # NoBase
      BY FillingIsWritten, BasesAreBases
    <3>4. /\ DOMAIN file' = DOMAIN file /\ file'.exists = file.exists
          /\ file'.base = b /\ file'.items = items
          /\ file'.whole = 0 /\ file'.cut = FALSE
      <4> HIDE DEF items
      <4>1. file' = [file EXCEPT !.base = b, !.items = items]
        BY <3>2 DEF items
      <4>2. /\ DOMAIN file = {"exists", "base", "items", "whole", "cut"}
            /\ file.whole = 0 /\ file.cut = FALSE
        BY <2>1
      <4> QED
        BY <4>1, <4>2
    <3> HIDE DEF items
    <3>5. Len(items) \in Nat
      BY <3>3, WrittenIsSeq
    <3>6. FileInv'
      <4>1. Written(file'.items, file'.base) /\ file'.base # NoBase
        BY <3>3, <3>4
      <4>2. file'.whole \in 0 .. Len(file'.items)
        BY <3>4, <3>5
      <4> QED
        BY <3>4, <4>1, <4>2
    <3> QED
      BY <2>1, <2>3, <3>6
  <2> QED
    BY <1>3, <2>2, <2>3 DEF FillBase
<1>4. CASE WriteItem
  <2>1. /\ DOMAIN file' = DOMAIN file /\ file'.exists = file.exists
        /\ file'.base = file.base /\ file'.items = file.items
        /\ IF file.cut THEN file'.whole = file.whole + 1 /\ file'.cut = FALSE
           ELSE file'.whole = file.whole /\ file'.cut = TRUE
    BY <1>4 DEF WriteItem
  <2>2. Len(file.items) \in Nat
    <3>1. CASE file.base = NoBase
      BY <3>1
    <3>2. CASE file.base # NoBase
      BY <3>2, WrittenIsSeq
    <3> QED
      BY <3>1, <3>2
  <2>3. file.whole < Len(file.items) /\ maker = "writing" /\ UNCHANGED <<maker, builds>>
    BY <1>4 DEF WriteItem
  <2>4. /\ file'.whole \in 0 .. Len(file'.items)
        /\ file'.cut \in BOOLEAN
        /\ file'.cut => file'.whole < Len(file'.items)
    <3> DEFINE size == Len(file.items)
               w == file.whole
    <3>1. size \in Nat /\ w \in 0 .. size /\ w < size /\ Len(file'.items) = size
      BY <2>1, <2>2, <2>3
    <3> HIDE DEF size, w
    <3>2. CASE file.cut
      <4>1. file'.whole = w + 1 /\ file'.cut = FALSE
        BY <2>1, <3>2 DEF w
      <4>2. file'.whole \in 0 .. Len(file'.items)
        BY <3>1, <4>1
      <4> QED
        BY <4>1, <4>2, Zenon
    <3>3. CASE ~file.cut
      <4>1. file'.whole = w /\ file'.cut = TRUE
        BY <2>1, <3>3 DEF w
      <4>2. file'.whole \in 0 .. Len(file'.items) /\ file'.whole < Len(file'.items)
        BY <3>1, <4>1
      <4> QED
        BY <4>1, <4>2, Zenon
    <3> QED
      BY <3>2, <3>3
  <2>5. FileInv'
    BY <2>1, <2>4
  <2> QED
    BY <2>3, <2>5
<1>5. CASE CloseBase
  BY <1>5 DEF CloseBase
<1>6. CASE Die
  BY <1>6 DEF Die
<1>7. CASE UNCHANGED made
  BY <1>7 DEF made
<1>8. CASE OpenFile
  BY <1>7, <1>8 DEF OpenFile
<1>9. CASE Process
  BY <1>7, <1>9 DEF Process, ReadItem, ReadOn, EndOfFile, DeserializeStops, DeserializeFromToDistances, DeserializeBuses,
                    Restore, DeserializeParameters, GetInfoRequests, Serve, PrintResponses
<1>10. CASE UNCHANGED vars
  BY <1>7, <1>10 DEF vars
<1> QED
  BY <1>1, <1>2, <1>3, <1>4, <1>5, <1>6, <1>8, <1>9, <1>10 DEF Next, Make

-----------------------------------------------------------------------------
(* process_requests: the catalogue.                                         *)

\* How far the catalogue of phase r is back after i elements of the phase.
Phase(c, d, keys, below, r, i) ==
  /\ r = "stops" =>
       i <= Len(c.stops) /\ Back(c, d, keys, below, i, 0, 0)
  /\ r = "distances" =>
       i <= Len(keys) /\ Back(c, d, keys, below, Len(c.stops), i, 0)
  /\ r = "buses" =>
       i <= Len(c.buses) /\ Back(c, d, keys, below, Len(c.stops), Len(keys), i)
  /\ r \in {"parameters", "requests", "serving", "printed"} =>
       Back(c, d, keys, below, Len(c.stops), Len(keys), Len(c.buses))

\* The message is that of the catalogue, and d what has come back of it.
Progress(c, st, msg, d, r, i) ==
  \E keys, below :
    /\ below \in Below
    /\ AreKeys(c, keys)
    /\ IsBase(msg, c, st, keys, below, 2 * Len(c.stops), Len(c.stops), Len(keys), Len(c.buses))
    /\ Phase(c, d, keys, below, r, i)

\* What has been read are the first of the items of b, and all of them when b is
\* the source. Unless the file has been emptied since, they are those in it.
ReadsFrom(items, b) ==
  /\ IF b = NoBase THEN items = <<>> ELSE b \in Bases /\ Written(items, b)
  /\ BeginsLike(message, items)
  /\ part => Len(message) > 0
  /\ IF source = NoBase THEN part \/ Len(message) < Len(items) \/ items = <<>>
     ELSE source = b /\ ~part /\ Len(message) = Len(items)
  /\ ~seam => /\ items = file.items /\ b = file.base
              /\ Len(message) = IF part THEN at + 1 ELSE at
              /\ at <= file.whole
              /\ part => at < file.whole \/ file.cut

\* What has been read comes from one base, unless it is mixed; so it has all of
\* that base, or no count. The tables of the catalogue agree in any case.
SourceInv ==
  /\ source \in Bases \cup {NoBase}
  /\ part \in BOOLEAN /\ seam \in BOOLEAN /\ mixed \in BOOLEAN
  /\ mixed => source = NoBase
  /\ reader = "reading" => /\ db = EmptyCatalogue
                           /\ ~mixed => \E items, b : ReadsFrom(items, b)
  /\ reader # "reading" => IF source = NoBase THEN ~mixed => NoCount(message)
                           ELSE Progress(source.db, source.settings, message, db, reader, at)
  /\ IsDb(db)
  /\ at \in Nat

\* What the router was built for has room for all the stops.
RoomInv == reader \in {"requests", "serving", "printed"} => HasRoom

\* A base is filled.
LEMMA BasesAreFilled == \A b \in Bases : IsFilled(b.db)
  BY BasesAssumption

\* One pass of DeserializeStops, DeserializeFromToDistances and DeserializeBuses:
\* what Restore says when its parameters are put in.
LEMMA RestoreSteps ==
  /\ DeserializeStops =>
       LET items == ItemsOf(message, "stops") IN
       /\ reader = "stops"
       /\ \/ at = Len(items) /\ reader' = "distances" /\ at' = 0 /\ db' = db
          \/ at # Len(items) /\ reader' = reader /\ at' = at + 1
             /\ db' = DeserializeStop(db, items[at + 1])
       /\ UNCHANGED <<made, reads, parse, requests, responses, output>>
  /\ DeserializeFromToDistances =>
       LET items == ItemsOf(message, "stops_distance") IN
       /\ reader = "distances"
       /\ \/ at = Len(items) /\ reader' = "buses" /\ at' = 0 /\ db' = db
          \/ at # Len(items) /\ reader' = reader /\ at' = at + 1
             /\ db' = DeserializeFromToDistance(db, items[at + 1])
          \/ at # Len(items) /\ ~CanDeserializeFromToDistance(db, items[at + 1])
             /\ reader' = "terminated" /\ at' = at /\ db' = db
       /\ UNCHANGED <<made, reads, parse, requests, responses, output>>
  /\ DeserializeBuses =>
       LET items == ItemsOf(message, "buses") IN
       /\ reader = "buses"
       /\ \/ at = Len(items) /\ reader' = "parameters" /\ at' = 0 /\ db' = db
          \/ at # Len(items) /\ reader' = reader /\ at' = at + 1
             /\ db' = DeserializeBus(db, items[at + 1])
          \/ at # Len(items) /\ ~CanDeserializeBus(db, items[at + 1])
             /\ reader' = "terminated" /\ at' = at /\ db' = db
       /\ UNCHANGED <<made, reads, parse, requests, responses, output>>
<1>1. ASSUME DeserializeStops
      PROVE  LET items == ItemsOf(message, "stops") IN
             /\ reader = "stops"
             /\ \/ at = Len(items) /\ reader' = "distances" /\ at' = 0 /\ db' = db
                \/ at # Len(items) /\ reader' = reader /\ at' = at + 1
                   /\ db' = DeserializeStop(db, items[at + 1])
             /\ UNCHANGED <<made, reads, parse, requests, responses, output>>
  BY <1>1 DEF DeserializeStops, Restore
<1>2. ASSUME DeserializeFromToDistances
      PROVE  LET items == ItemsOf(message, "stops_distance") IN
             /\ reader = "distances"
             /\ \/ at = Len(items) /\ reader' = "buses" /\ at' = 0 /\ db' = db
                \/ at # Len(items) /\ reader' = reader /\ at' = at + 1
                   /\ db' = DeserializeFromToDistance(db, items[at + 1])
                \/ at # Len(items) /\ ~CanDeserializeFromToDistance(db, items[at + 1])
                   /\ reader' = "terminated" /\ at' = at /\ db' = db
             /\ UNCHANGED <<made, reads, parse, requests, responses, output>>
  BY <1>2 DEF DeserializeFromToDistances, Restore
<1>3. ASSUME DeserializeBuses
      PROVE  LET items == ItemsOf(message, "buses") IN
             /\ reader = "buses"
             /\ \/ at = Len(items) /\ reader' = "parameters" /\ at' = 0 /\ db' = db
                \/ at # Len(items) /\ reader' = reader /\ at' = at + 1
                   /\ db' = DeserializeBus(db, items[at + 1])
                \/ at # Len(items) /\ ~CanDeserializeBus(db, items[at + 1])
                   /\ reader' = "terminated" /\ at' = at /\ db' = db
             /\ UNCHANGED <<made, reads, parse, requests, responses, output>>
  BY <1>3 DEF DeserializeBuses, Restore
<1> QED
  BY <1>1, <1>2, <1>3

\* Whatever element is deserialized, the tables go on to agree.
LEMMA DbKeeps ==
  ASSUME NEW d, IsDb(d), NEW item
  PROVE  /\ IsDb(DeserializeStop(d, item))
         /\ IsDb(DeserializeFromToDistance(d, item))
         /\ IsDb(DeserializeBus(d, item))
<1>1. IsCatalogue(d) /\ IsSeq(d.stops) /\ IsSeq(d.buses) /\ TablesAgree(d)
  BY DEF IsDb
<1>2. IsDb(DeserializeStop(d, item))
  <2> DEFINE x == AddStop(d, item.name, item.coordinates)
             e == [name |-> item.name, coordinates |-> item.coordinates]
  <2>1. IsCatalogue(x) /\ x.stops = Append(d.stops, e) /\ x.buses = d.buses
    BY <1>1, Containers DEF AddStop, IsCatalogue
  <2>2. TablesAgree(x)
    BY <1>1, TablesAfterStop
  <2> HIDE DEF e, x
  <2>3. IsSeq(Append(d.stops, e))
    BY <1>1, AppendToSeq
  <2> QED
    BY <1>1, <2>1, <2>2, <2>3 DEF IsDb, DeserializeStop, x
<1>3. IsDb(DeserializeFromToDistance(d, item))
  <2> DEFINE x == SetDistanceBetweenStops(d, item.from, item.to, AsInt(item.distance))
  <2>1. IsCatalogue(x) /\ x.stops = d.stops /\ x.buses = d.buses
    BY <1>1, Containers DEF SetDistanceBetweenStops, IsCatalogue
  <2>2. TablesAgree(x)
    BY <1>1, TablesAfterDistance
  <2> HIDE DEF x
  <2> QED
    BY <1>1, <2>1, <2>2 DEF IsDb, DeserializeFromToDistance, x
<1>4. IsDb(DeserializeBus(d, item))
  <2> DEFINE x == AddBus(d, item.name, item.stop_names, item.is_roundtrip)
             e == [name |-> item.name, is_roundtrip |-> item.is_roundtrip,
                   stops |-> item.stop_names]
  <2>1. IsCatalogue(x) /\ x.stops = d.stops /\ x.buses = Append(d.buses, e)
    BY <1>1, Containers DEF AddBus, IsCatalogue
  <2>2. TablesAgree(x)
    BY <1>1, TablesAfterBus
  <2> HIDE DEF e, x
  <2>3. IsSeq(Append(d.buses, e))
    BY <1>1, AppendToSeq
  <2> QED
    BY <1>1, <2>1, <2>2, <2>3 DEF IsDb, DeserializeBus, x
<1> QED
  BY <1>2, <1>3, <1>4

\* A pass of DeserializeStops over the message of a whole base.
LEMMA StopsProgress ==
  ASSUME NEW c, IsFilled(c), NEW st, NEW msg, NEW d, NEW i \in Nat,
         Progress(c, st, msg, d, "stops", i)
  PROVE  LET items == ItemsOf(msg, "stops") IN
         /\ i = Len(items) => Progress(c, st, msg, d, "distances", 0)
         /\ i # Len(items) =>
              Progress(c, st, msg, DeserializeStop(d, items[i + 1]), "stops", i + 1)
<1> DEFINE items == ItemsOf(msg, "stops")
           n == Len(c.stops)
<1>1. PICK keys, below :
        /\ below \in Below /\ AreKeys(c, keys)
        /\ IsBase(msg, c, st, keys, below, 2 * n, n, Len(keys), Len(c.buses))
        /\ Phase(c, d, keys, below, "stops", i)
  BY DEF Progress
<1>2. /\ items = [r \in 1 .. n |-> SerializeStop(c.stops[r])]
      /\ n \in Nat /\ Len(keys) \in Nat
  <2> DEFINE count == 2 * n
  <2>1. IsBase(msg, c, st, keys, below, count, n, Len(keys), Len(c.buses))
    BY <1>1
  <2> HIDE DEF count, n
  <2>2. items = [r \in 1 .. n |-> SerializeStop(c.stops[r])]
    BY <2>1, WholeMessage
  <2> QED
    BY <2>1, <2>2 DEF IsBase
<1>3. i <= n /\ Back(c, d, keys, below, i, 0, 0)
  BY <1>1 DEF Phase
<1> HIDE DEF items, n
<1>4. Len(items) = n
  BY <1>2
<1>5. CASE i = n
  <2>1. Phase(c, d, keys, below, "distances", 0)
    BY <1>2, <1>3, <1>5 DEF Phase, n
  <2> QED
    BY <1>1, <1>4, <1>5, <2>1 DEF Progress, items, n
<1>6. CASE i # n
  <2>1. i < n /\ i + 1 \in 1 .. n /\ i + 1 <= n
    BY <1>2, <1>3, <1>6
  <2>2. items[i + 1] = SerializeStop(c.stops[i + 1])
    BY <1>2, <2>1
  <2>3. Back(c, DeserializeStop(d, items[i + 1]), keys, below, i + 1, 0, 0)
    BY <1>3, <2>1, <2>2, StopBack DEF n
  <2>4. Phase(c, DeserializeStop(d, items[i + 1]), keys, below, "stops", i + 1)
    BY <2>1, <2>3 DEF Phase, n
  <2> QED
    BY <1>1, <1>4, <1>6, <2>4 DEF Progress, items, n
<1> QED
  BY <1>5, <1>6

\* A pass of DeserializeFromToDistances over the message of a whole base.
LEMMA DistancesProgress ==
  ASSUME NEW c, IsFilled(c), NEW st, NEW msg, NEW d, NEW i \in Nat,
         Progress(c, st, msg, d, "distances", i)
  PROVE  LET items == ItemsOf(msg, "stops_distance") IN
         /\ i = Len(items) => Progress(c, st, msg, d, "buses", 0)
         /\ i # Len(items) =>
              /\ CanDeserializeFromToDistance(d, items[i + 1])
              /\ Progress(c, st, msg, DeserializeFromToDistance(d, items[i + 1]),
                          "distances", i + 1)
<1> DEFINE items == ItemsOf(msg, "stops_distance")
           n == Len(c.stops)
<1>1. PICK keys, below :
        /\ below \in Below /\ AreKeys(c, keys)
        /\ IsBase(msg, c, st, keys, below, 2 * n, n, Len(keys), Len(c.buses))
        /\ Phase(c, d, keys, below, "distances", i)
  BY DEF Progress
<1> DEFINE m == Len(keys)
<1>2. /\ items = [r \in 1 .. m |-> SerializeFromToDistance(c, keys[r], below)]
      /\ n \in Nat /\ m \in Nat /\ Len(c.buses) \in Nat
  <2> DEFINE count == 2 * n
  <2>1. IsBase(msg, c, st, keys, below, count, n, m, Len(c.buses))
    BY <1>1
  <2> HIDE DEF count, n, m
  <2>2. items = [r \in 1 .. m |-> SerializeFromToDistance(c, keys[r], below)]
    BY <2>1, WholeMessage
  <2> QED
    BY <2>1, <2>2 DEF IsBase
<1>3. i <= m /\ Back(c, d, keys, below, n, i, 0)
  BY <1>1 DEF Phase
<1> HIDE DEF items, n, m
<1>4. Len(items) = m
  BY <1>2
<1>5. CASE i = m
  <2>1. Phase(c, d, keys, below, "buses", 0)
    BY <1>2, <1>3, <1>5 DEF Phase, n, m
  <2> QED
    BY <1>1, <1>4, <1>5, <2>1 DEF Progress, items, n
<1>6. CASE i # m
  <2> DEFINE item == SerializeFromToDistance(c, keys[i + 1], below)
  <2>1. i < m /\ i + 1 \in 1 .. m /\ i + 1 <= m
    BY <1>2, <1>3, <1>6
  <2>2. items[i + 1] = item
    BY <1>2, <2>1
  <2>3. /\ CanDeserializeFromToDistance(d, item)
        /\ Back(c, DeserializeFromToDistance(d, item), keys, below, n, i + 1, 0)
    BY <1>1, <1>3, <2>1, DistanceBack DEF n, m
  <2> HIDE DEF item
  <2>4. Phase(c, DeserializeFromToDistance(d, item), keys, below, "distances", i + 1)
    BY <2>1, <2>3 DEF Phase, n, m
  <2>5. Progress(c, st, msg, DeserializeFromToDistance(d, item), "distances", i + 1)
    BY <1>1, <2>4 DEF Progress, n
  <2> QED
    BY <1>4, <1>6, <2>2, <2>3, <2>5 DEF items
<1> QED
  BY <1>5, <1>6

\* A pass of DeserializeBuses over the message of a whole base.
LEMMA BusesProgress ==
  ASSUME NEW c, IsFilled(c), NEW st, NEW msg, NEW d, NEW i \in Nat,
         Progress(c, st, msg, d, "buses", i)
  PROVE  LET items == ItemsOf(msg, "buses") IN
         /\ i = Len(items) => Progress(c, st, msg, d, "parameters", 0)
         /\ i # Len(items) =>
              /\ CanDeserializeBus(d, items[i + 1])
              /\ Progress(c, st, msg, DeserializeBus(d, items[i + 1]), "buses", i + 1)
<1> DEFINE items == ItemsOf(msg, "buses")
           n == Len(c.stops)
           l == Len(c.buses)
<1>1. PICK keys, below :
        /\ below \in Below /\ AreKeys(c, keys)
        /\ IsBase(msg, c, st, keys, below, 2 * n, n, Len(keys), l)
        /\ Phase(c, d, keys, below, "buses", i)
  BY DEF Progress
<1> DEFINE m == Len(keys)
<1>2. /\ items = [r \in 1 .. l |-> SerializeBus(c.buses[r])]
      /\ n \in Nat /\ m \in Nat /\ l \in Nat
  <2> DEFINE count == 2 * n
  <2>1. IsBase(msg, c, st, keys, below, count, n, m, l)
    BY <1>1
  <2> HIDE DEF count, n, m, l
  <2>2. items = [r \in 1 .. l |-> SerializeBus(c.buses[r])]
    BY <2>1, WholeMessage
  <2> QED
    BY <2>1, <2>2 DEF IsBase
<1>3. i <= l /\ Back(c, d, keys, below, n, m, i)
  BY <1>1 DEF Phase
<1> HIDE DEF items, n, m, l
<1>4. Len(items) = l
  BY <1>2
<1>5. CASE i = l
  <2>1. Phase(c, d, keys, below, "parameters", 0)
    BY <1>3, <1>5 DEF Phase, n, m, l
  <2> QED
    BY <1>1, <1>4, <1>5, <2>1 DEF Progress, items, n, l
<1>6. CASE i # l
  <2> DEFINE item == SerializeBus(c.buses[i + 1])
  <2>1. i < l /\ i + 1 \in 1 .. l /\ i + 1 <= l
    BY <1>2, <1>3, <1>6
  <2>2. items[i + 1] = item
    BY <1>2, <2>1
  <2>3. /\ CanDeserializeBus(d, item)
        /\ Back(c, DeserializeBus(d, item), keys, below, n, m, i + 1)
    BY <1>2, <1>3, <2>1, BusBack DEF n, l
  <2> HIDE DEF item
  <2>4. Phase(c, DeserializeBus(d, item), keys, below, "buses", i + 1)
    BY <2>1, <2>3 DEF Phase, n, m, l
  <2>5. Progress(c, st, msg, DeserializeBus(d, item), "buses", i + 1)
    BY <1>1, <2>4 DEF Progress, n, l
  <2> QED
    BY <1>4, <1>6, <2>2, <2>3, <2>5 DEF items
<1> QED
  BY <1>5, <1>6

\* When all is back, the later phases neither read nor change it.
LEMMA LaterProgress ==
  ASSUME NEW c, NEW st, NEW msg, NEW d, NEW i, NEW r \in {"parameters", "requests", "serving", "printed"},
         Progress(c, st, msg, d, r, i), NEW j,
         NEW next \in {"parameters", "requests", "serving", "printed", "terminated"}
  PROVE  Progress(c, st, msg, d, next, j)
<1>1. PICK keys, below :
        /\ below \in Below /\ AreKeys(c, keys)
        /\ IsBase(msg, c, st, keys, below, 2 * Len(c.stops), Len(c.stops), Len(keys),
                  Len(c.buses))
        /\ Phase(c, d, keys, below, r, i)
  BY DEF Progress
<1>2. Phase(c, d, keys, below, next, j)
  BY <1>1 DEF Phase
<1> QED
  BY <1>1, <1>2 DEF Progress

\* A base has items.
LEMMA WrittenIsLong ==
  ASSUME NEW items, NEW b, Written(items, b)
  PROVE  Len(items) \in Nat \ {0}
<1>1. PICK n \in Nat, m \in Nat, l \in Nat : Len(items) = n + m + l + 3
  BY DEF Written, IsBase
<1> QED
  BY <1>1

\* OpenFile: nothing has been read yet.
LEMMA OpenFileKeeps ==
  ASSUME FileInv, OpenFile
  PROVE  SourceInv'
<1>1. /\ reader' = IF file.exists THEN "reading" ELSE "stops"
      /\ message' = <<>> /\ part' = FALSE /\ seam' = FALSE /\ mixed' = FALSE
      /\ source' = NoBase /\ db' = EmptyCatalogue /\ at' = 0 /\ UNCHANGED file
  BY DEF OpenFile, made
<1>2. IsDb(EmptyCatalogue)
  BY EmptyTables DEF IsDb
<1>3. IsSeq(<<>>) /\ Len(<<>>) = 0 /\ DOMAIN <<>> = {}
  BY DEF IsSeq, Range
<1>4. NoCount(<<>>)
  BY <1>3, CountsOfZero
<1>5. ReadsFrom(file.items, file.base)'
  <2> DEFINE items == file.items
             b == file.base
  <2>1. IF b = NoBase THEN items = <<>> ELSE b \in Bases /\ Written(items, b)
    BY DEF FileInv
  <2>2. Len(items) \in Nat /\ (b # NoBase => 0 < Len(items))
    BY <1>3, <2>1, WrittenIsLong
  <2>3. 0 <= file.whole
    BY DEF FileInv
  <2> HIDE DEF items, b
  <2>4. \A k \in 1 .. 0 : FALSE
    OBVIOUS
  <2>5. BeginsLike(<<>>, items)
    BY <1>3, <2>2, <2>4 DEF BeginsLike
  <2>6. Len(message') = 0 /\ BeginsLike(message', items)
    BY <1>1, <1>3, <2>5
  <2>7. items = <<>> \/ Len(message') < Len(items)
    BY <2>1, <2>2, <2>6
  <2> QED
    BY <1>1, <2>1, <2>3, <2>6, <2>7 DEF ReadsFrom, items, b
<1> QED
  BY <1>1, <1>2, <1>4, <1>5 DEF SourceInv

\* What make_base does to the file while it is read.
LEMMA MakerKeepsSource ==
  ASSUME FileInv, MakerInv, FileInv', SourceInv, MakeBase \/ Make \/ Die \/ UNCHANGED vars
  PROVE  SourceInv'
<1>1. /\ UNCHANGED <<reader, message, part, mixed, source, db, at>>
      /\ OpenBase \/ UNCHANGED seam
  BY DEF MakeBase, Make, OpenBase, FillBase, WriteItem, CloseBase, Die, vars, read, parse
<1>2. seam' \in BOOLEAN /\ (~seam' => ~seam)
  BY <1>1 DEF OpenBase, SourceInv
<1>3. ASSUME NEW items, NEW b, ReadsFrom(items, b), reader = "reading"
      PROVE  \E items2, b2 : ReadsFrom(items2, b2)'
  <2>1. /\ IF b = NoBase THEN items = <<>> ELSE b \in Bases /\ Written(items, b)
        /\ BeginsLike(message, items)
        /\ part => Len(message) > 0
        /\ IF source = NoBase THEN part \/ Len(message) < Len(items) \/ items = <<>>
           ELSE source = b /\ ~part /\ Len(message) = Len(items)
        /\ ~seam => /\ items = file.items /\ b = file.base
                    /\ Len(message) = IF part THEN at + 1 ELSE at
                    /\ at <= file.whole
                    /\ part => at < file.whole \/ file.cut
    BY <1>3 DEF ReadsFrom
  <2>2. CASE seam'
    <3>1. ReadsFrom(items, b)'
      BY <1>1, <2>1, <2>2 DEF ReadsFrom
    <3> QED
      BY <3>1
  <2>3. CASE ~seam' /\ UNCHANGED file
    <3>1. ~seam
      BY <1>2, <2>3
    <3>2. ReadsFrom(items, b)'
      BY <1>1, <2>1, <2>3, <3>1 DEF ReadsFrom
    <3> QED
      BY <3>2
  <2>4. ASSUME message = <<>>, ~seam, ~seam', at <= file'.whole,
               IF file'.base = NoBase THEN file'.items = <<>>
               ELSE file'.base \in Bases /\ Written(file'.items, file'.base)
        PROVE  ReadsFrom(file.items, file.base)'
    <3>1. IsSeq(<<>>) /\ Len(<<>>) = 0 /\ \A k \in 1 .. 0 : FALSE
      BY DEF IsSeq, Range
    <3>2. ~part /\ Len(message) = 0 /\ at = 0
      BY <2>1, <2>4, <3>1
    <3>3. source = NoBase
      <4>1. CASE b = NoBase
        BY <2>1, <4>1
      <4>2. CASE b # NoBase
        <5>1. Len(items) # 0
          BY <2>1, <4>2, WrittenIsLong
        <5> QED
          BY <2>1, <3>2, <5>1
      <4> QED
        BY <4>1, <4>2
    <3> DEFINE items2 == file'.items
    <3>4. items2 = <<>> \/ Len(items2) \in Nat \ {0}
      BY <2>4, WrittenIsLong
    <3> HIDE DEF items2
    <3>5. BeginsLike(<<>>, items2) /\ (items2 = <<>> \/ Len(<<>>) < Len(items2))
      <4>1. CASE items2 = <<>>
        BY <3>1, <4>1 DEF BeginsLike
      <4>2. CASE Len(items2) \in Nat \ {0}
        BY <3>1, <4>2 DEF BeginsLike
      <4> QED
        BY <3>4, <4>1, <4>2
    <3>6. BeginsLike(message', file'.items)
          /\ (file'.items = <<>> \/ Len(message') < Len(file'.items))
      BY <1>1, <2>4, <3>5 DEF items2
    <3> QED
      BY <1>1, <2>4, <3>2, <3>3, <3>6 DEF ReadsFrom
  <2>5. CASE ~seam' /\ OpenBase
    <3>1. ~seam /\ message = <<>> /\ file'.items = <<>> /\ file'.base = NoBase /\ file'.whole = 0
      BY <1>3, <2>5 DEF OpenBase, NoFile
    <3>2. Len(<<>>) = 0
      OBVIOUS
    <3>3. ~part /\ at = 0
      BY <2>1, <3>1, <3>2
    <3> QED
      BY <2>4, <2>5, <3>1, <3>3
  <2>6. CASE ~seam' /\ FillBase /\ ~UNCHANGED file
    <3>1. ~seam /\ maker = "opened"
      BY <1>2, <2>6 DEF FillBase
    <3>2. items = <<>> /\ file.whole = 0
      BY <2>1, <3>1 DEF FileInv, MakerInv
    <3>3. message = <<>>
      <4>1. IsSeq(message) /\ Len(message) <= 0 /\ Len(message) \in Nat
        BY <2>1, <3>2 DEF BeginsLike, IsSeq
      <4> DEFINE S == Range(message)
      <4>2. message \in Seq(S)
        BY <4>1 DEF IsSeq
      <4> HIDE DEF S
      <4> QED
        BY <4>1, <4>2
    <3>4. file'.whole = file.whole
      BY <2>6 DEF FillBase, FileInv
    <3>5. at <= file'.whole
      BY <2>1, <3>1, <3>4
    <3>6. IF file'.base = NoBase THEN file'.items = <<>>
          ELSE file'.base \in Bases /\ Written(file'.items, file'.base)
      BY DEF FileInv
    <3> QED
      BY <2>4, <2>6, <3>1, <3>3, <3>5, <3>6
  <2>7. CASE ~seam' /\ WriteItem
    <3>1. ~seam
      BY <1>2, <2>7
    <3>2. /\ file'.base = file.base /\ file'.items = file.items
          /\ IF file.cut THEN file'.whole = file.whole + 1 /\ file'.cut = FALSE
             ELSE file'.whole = file.whole /\ file'.cut = TRUE
      BY <2>7 DEF WriteItem, FileInv
    <3>3. at \in Nat /\ file.whole \in Nat
      BY DEF SourceInv, FileInv
    <3>4. at <= file'.whole /\ (part => at < file'.whole \/ file'.cut)
      <4>1. at <= file.whole
        BY <2>1, <3>1
      <4>2. CASE file.cut
        BY <3>2, <3>3, <4>1, <4>2
      <4>3. CASE ~file.cut
        BY <3>2, <3>3, <4>1, <4>3
      <4> QED
        BY <4>2, <4>3
    <3>5. ReadsFrom(items, b)'
      BY <1>1, <2>1, <2>7, <3>1, <3>2, <3>4 DEF ReadsFrom
    <3> QED
      BY <3>5
  <2>8. UNCHANGED file \/ OpenBase \/ FillBase \/ WriteItem
    BY DEF MakeBase, Make, CloseBase, Die, vars, made
  <2> QED
    BY <2>2, <2>3, <2>5, <2>6, <2>7, <2>8
<1> QED
  BY <1>1, <1>2, <1>3 DEF SourceInv

\* ReadItem: the item is the next one of the base.
LEMMA ReadItemKeeps ==
  ASSUME FileInv, SourceInv, ReadItem
  PROVE  SourceInv'
<1>1. /\ reader = "reading" /\ ~seam /\ UNCHANGED <<file, reader, seam, mixed, db>>
      /\ at \in Nat /\ part \in BOOLEAN
  BY DEF ReadItem, SourceInv, made
<1>2. CASE mixed
  <2>1. source = NoBase /\ db = EmptyCatalogue /\ IsDb(db)
    BY <1>1, <1>2 DEF SourceInv
  <2>2. source' = NoBase /\ at' \in Nat /\ part' \in BOOLEAN
    <3>1. \/ source' = IF ~mixed /\ at + 1 = Len(file.items) THEN file.base ELSE source
          \/ source' = source
      BY DEF ReadItem
    <3>2. source' = source
      BY <1>2, <3>1
    <3>3. (at' = at + 1 \/ at' = at) /\ (part' = TRUE \/ part' = FALSE)
      BY DEF ReadItem
    <3>4. at' \in Nat
      BY <1>1, <3>3
    <3>5. part' \in BOOLEAN
      BY <3>3, Zenon
    <3> QED
      BY <2>1, <3>2, <3>4, <3>5, Zenon
  <2> QED
    BY <1>1, <1>2, <2>1, <2>2 DEF SourceInv
<1>3. CASE ~mixed
  <2> DEFINE items == file.items
             b == file.base
             whole == file.whole
  <2>1. PICK i, c : ReadsFrom(i, c)
    BY <1>1, <1>3 DEF SourceInv
  <2>2. ReadsFrom(items, b)
    BY <1>1, <2>1 DEF ReadsFrom
  <2>3. /\ IF b = NoBase THEN items = <<>> ELSE b \in Bases /\ Written(items, b)
        /\ BeginsLike(message, items)
        /\ IF source = NoBase THEN part \/ Len(message) < Len(items) \/ items = <<>>
           ELSE source = b /\ ~part /\ Len(message) = Len(items)
        /\ Len(message) = IF part THEN at + 1 ELSE at
        /\ at <= whole
        /\ part => at < whole \/ file.cut
    BY <1>1, <2>2 DEF ReadsFrom
  <2>4. Len(items) \in Nat /\ whole \in 0 .. Len(items) /\ (file.cut => whole < Len(items))
    <3>1. Len(items) \in Nat
      BY <2>3, WrittenIsLong
    <3> QED
      BY <3>1 DEF FileInv
  <2>5. source = NoBase \/ source \in Bases
    BY DEF SourceInv
  <2>6. ASSUME part, at < whole, at' = at + 1, part' = FALSE, UNCHANGED message,
               source' = IF at + 1 = Len(items) THEN b ELSE source
        PROVE  SourceInv'
    <3> HIDE DEF items, b, whole
    <3>1. source = NoBase /\ Len(message) = at + 1 /\ at + 1 <= whole
      BY <1>1, <2>3, <2>4, <2>6
    <3>2. b # NoBase
      <4>1. Len(<<>>) = 0
        OBVIOUS
      <4>2. items # <<>>
        BY <1>1, <2>4, <2>6, <4>1
      <4> QED
        BY <2>3, <4>2
    <3>3. IF source' = NoBase THEN Len(message') < Len(items)
          ELSE source' = b /\ Len(message') = Len(items)
      BY <1>1, <2>4, <2>6, <3>1, <3>2
    <3>4. ReadsFrom(items, b)'
      BY <1>1, <2>3, <2>6, <3>1, <3>3 DEF ReadsFrom, items, b, whole
    <3>5. source' \in Bases \cup {NoBase} /\ at' \in Nat
      BY <1>1, <2>3, <2>5, <2>6, <3>2
    <3> QED
      BY <1>1, <1>3, <2>6, <3>4, <3>5 DEF SourceInv
  <2>7. ASSUME ~part, at < whole \/ file.cut, part' = TRUE,
               message' = Append(message, items[at + 1]), UNCHANGED <<at, source>>
        PROVE  SourceInv'
    <3> HIDE DEF items, b, whole
    <3>1. IsSeq(message) /\ Len(message) = at /\ at < Len(items) /\ at + 1 <= Len(items)
      BY <1>1, <2>3, <2>4, <2>7 DEF BeginsLike
    <3>2. source = NoBase
      BY <1>1, <2>3, <2>4, <3>1
    <3> DEFINE e == items[at + 1]
               t == Append(message, e)
    <3>3. /\ IsSeq(t) /\ Len(t) = at + 1
          /\ \A k \in 1 .. at : t[k] = message[k]
          /\ t[at + 1] = e
      <4> HIDE DEF e
      <4> QED
        BY <3>1, AppendToSeq
    <3> HIDE DEF t
    <3>4. \A k \in 1 .. at + 1 : t[k] = items[k]
      <4>1. \A k \in 1 .. at + 1 : k \in 1 .. at \/ k = at + 1
        BY <1>1
      <4>2. \A k \in 1 .. at : message[k] = items[k]
        BY <2>3, <3>1 DEF BeginsLike
      <4> QED
        BY <3>3, <4>1, <4>2
    <3>5. BeginsLike(t, items) /\ Len(t) > 0
      BY <1>1, <3>1, <3>3, <3>4 DEF BeginsLike
    <3>6. message' = t
      BY <2>7 DEF t
    <3>7. ReadsFrom(items, b)'
      BY <1>1, <2>3, <2>7, <3>2, <3>3, <3>5, <3>6 DEF ReadsFrom, items, b, whole
    <3> QED
      BY <1>1, <1>3, <2>7, <3>7 DEF SourceInv
  <2> QED
    BY <1>3, <2>6, <2>7 DEF ReadItem
<1> QED
  BY <1>2, <1>3

\* ReadOn: from here on it is mixed.
LEMMA ReadOnKeeps ==
  ASSUME FileInv, SourceInv, ReadOn
  PROVE  SourceInv'
<1>1. /\ source' = NoBase /\ mixed' = TRUE /\ seam' = FALSE /\ part' = FALSE
      /\ reader = "reading" /\ UNCHANGED <<reader, db>>
      /\ at' \in 1 .. file.whole
  BY DEF ReadOn
<1>2. file.whole \in Int
  <2>1. Len(file.items) \in Nat
    BY WrittenIsLong DEF FileInv
  <2> QED
    BY <2>1 DEF FileInv
<1>3. at' \in Nat
  BY <1>1, <1>2
<1> QED
  BY <1>1, <1>3 DEF SourceInv

\* EndOfFile: the message has all of a base, or not its vertex count.
LEMMA EndOfFileKeeps ==
  ASSUME SourceInv, EndOfFile
  PROVE  SourceInv'
<1>1. /\ reader = "reading" /\ reader' = "stops" /\ part' = FALSE /\ at' = 0
      /\ message' \in IF part THEN CutMessages(message) ELSE {message}
      /\ UNCHANGED <<seam, mixed, source, db>>
      /\ db = EmptyCatalogue /\ part \in BOOLEAN
  BY DEF EndOfFile, SourceInv
<1>2. CASE mixed
  BY <1>1, <1>2 DEF SourceInv
<1>3. CASE ~mixed
  <2>1. PICK items, b : ReadsFrom(items, b)
    BY <1>1, <1>3 DEF SourceInv
  <2>2. /\ IF b = NoBase THEN items = <<>> ELSE b \in Bases /\ Written(items, b)
        /\ BeginsLike(message, items)
        /\ part => Len(message) > 0
        /\ IF source = NoBase THEN part \/ Len(message) < Len(items) \/ items = <<>>
           ELSE source = b /\ ~part /\ Len(message) = Len(items)
    BY <2>1 DEF ReadsFrom
  <2>3. CASE b = NoBase
    <3>1. Len(message) \in Nat /\ DOMAIN message = 1 .. Len(message) /\ Len(message) <= 0
      BY <2>2, <2>3 DEF BeginsLike, IsSeq
    <3>2. message' = message /\ DOMAIN message = {} /\ source = NoBase
      BY <1>1, <2>2, <2>3, <3>1
    <3>3. NoCount(message')
      BY <3>2, CountsOfZero
    <3> QED
      BY <1>1, <3>2, <3>3 DEF SourceInv
  <2>4. CASE b # NoBase
    <3> DEFINE c == b.db
               st == b.settings
               n == Len(c.stops)
               l == Len(c.buses)
               count == 2 * n
    <3>1. b \in Bases /\ Written(items, b) /\ IsFilled(c)
      BY <2>2, <2>4, BasesAreFilled
    <3>2. PICK keys, below :
            /\ below \in Below /\ AreKeys(c, keys)
            /\ IsBase(items, c, st, keys, below, count, n, Len(keys), l)
      BY <3>1 DEF Written
    <3> DEFINE m == Len(keys)
    <3>3. IsBase(items, c, st, keys, below, count, n, m, l)
      BY <3>2
    <3>4. n \in Nat
      BY <3>1 DEF IsFilled
    <3>5. Len(items) \in Nat \ {0} /\ IsSeq(items)
      BY <3>1, WrittenIsLong, WrittenIsSeq
    <3>6. items # <<>>
      BY <3>5
    <3> HIDE DEF count, n, m, l, st
    <3>7. CASE source = NoBase
      <4>1. part \/ Len(message) < Len(items)
        BY <2>2, <3>6, <3>7
      <4>2. NoCount(message')
        BY <1>1, <2>2, <3>3, <4>1, WhatIsParsed
      <4> QED
        BY <1>1, <3>7, <4>2 DEF SourceInv
    <3>8. CASE source # NoBase
      <4>1. source = b /\ message' = message /\ Len(message) = Len(items)
        BY <1>1, <2>2, <3>8
      <4>2. FirstAre(items, message, Len(items))
        BY <2>2, <4>1 DEF FirstAre, BeginsLike
      <4>3. message = items
        BY <3>5, <4>2, AllOfThem
      <4>4. Phase(c, EmptyCatalogue, keys, below, "stops", 0)
        BY <3>4, NothingBack DEF Phase, n
      <4>5. Progress(c, st, items, EmptyCatalogue, "stops", 0)
        BY <3>2, <4>4 DEF Progress, count, n, l
      <4>6. Progress(source.db, source.settings, message', db', reader', at')
        BY <1>1, <4>1, <4>3, <4>5 DEF c, st
      <4> QED
        BY <1>1, <1>3, <3>8, <4>6 DEF SourceInv
    <3> QED
      BY <3>7, <3>8
  <2> QED
    BY <2>3, <2>4
<1> QED
  BY <1>2, <1>3

\* The catalogue of process_requests comes back from a whole base, and its
\* tables agree in any case.
LEMMA SourceKeeps ==
  ASSUME FileInv, MakerInv, FileInv', SourceInv, [Next]_vars
  PROVE  SourceInv'
<1>1. /\ source \in Bases \cup {NoBase}
      /\ part \in BOOLEAN /\ seam \in BOOLEAN /\ mixed \in BOOLEAN
      /\ mixed => source = NoBase
      /\ reader # "reading" =>
           IF source = NoBase THEN ~mixed => NoCount(message)
           ELSE Progress(source.db, source.settings, message, db, reader, at)
      /\ IsDb(db)
      /\ at \in Nat
  BY DEF SourceInv
<1>2. ASSUME source # NoBase
      PROVE  IsFilled(source.db)
  BY <1>1, <1>2, BasesAreFilled
<1>3. ASSUME UNCHANGED parse, reader # "reading", reader' # "reading",
             source # NoBase =>
               Progress(source.db, source.settings, message, db', reader', at'),
             IsDb(db'), at' \in Nat
      PROVE  SourceInv'
  BY <1>1, <1>3 DEF SourceInv, parse
<1>4. CASE OpenFile
  BY <1>4, OpenFileKeeps
<1>5. CASE DeserializeStops
  <2> DEFINE items == ItemsOf(message, "stops")
  <2>1. /\ reader = "stops" /\ UNCHANGED parse
        /\ \/ at = Len(items) /\ reader' = "distances" /\ at' = 0 /\ db' = db
           \/ at # Len(items) /\ reader' = reader /\ at' = at + 1
              /\ db' = DeserializeStop(db, items[at + 1])
    BY <1>5, RestoreSteps
  <2> HIDE DEF items
  <2>2. IsDb(db') /\ at' \in Nat
    BY <1>1, <2>1, DbKeeps
  <2>3. ASSUME source # NoBase
        PROVE  Progress(source.db, source.settings, message, db', reader', at')
    <3> DEFINE c == source.db
               st == source.settings
    <3>1. /\ at = Len(items) => Progress(c, st, message, db, "distances", 0)
          /\ at # Len(items) =>
               Progress(c, st, message, DeserializeStop(db, items[at + 1]), "stops", at + 1)
      BY <1>1, <1>2, <2>1, <2>3, StopsProgress DEF items
    <3> HIDE DEF c, st
    <3> QED
      BY <2>1, <3>1 DEF c, st
  <2> QED
    BY <1>3, <2>1, <2>2, <2>3
<1>6. CASE DeserializeFromToDistances
  <2> DEFINE items == ItemsOf(message, "stops_distance")
  <2>1. /\ reader = "distances" /\ UNCHANGED parse
        /\ \/ at = Len(items) /\ reader' = "buses" /\ at' = 0 /\ db' = db
           \/ at # Len(items) /\ reader' = reader /\ at' = at + 1
              /\ db' = DeserializeFromToDistance(db, items[at + 1])
           \/ at # Len(items) /\ ~CanDeserializeFromToDistance(db, items[at + 1])
              /\ reader' = "terminated" /\ at' = at /\ db' = db
    BY <1>6, RestoreSteps
  <2> HIDE DEF items
  <2>2. IsDb(db') /\ at' \in Nat
    BY <1>1, <2>1, DbKeeps
  <2>3. ASSUME source # NoBase
        PROVE  Progress(source.db, source.settings, message, db', reader', at')
    <3> DEFINE c == source.db
               st == source.settings
    <3>1. /\ at = Len(items) => Progress(c, st, message, db, "buses", 0)
          /\ at # Len(items) =>
               /\ CanDeserializeFromToDistance(db, items[at + 1])
               /\ Progress(c, st, message, DeserializeFromToDistance(db, items[at + 1]),
                           "distances", at + 1)
      BY <1>1, <1>2, <2>1, <2>3, DistancesProgress DEF items
    <3> HIDE DEF c, st
    <3> QED
      BY <2>1, <3>1 DEF c, st
  <2> QED
    BY <1>3, <2>1, <2>2, <2>3
<1>7. CASE DeserializeBuses
  <2> DEFINE items == ItemsOf(message, "buses")
  <2>1. /\ reader = "buses" /\ UNCHANGED parse
        /\ \/ at = Len(items) /\ reader' = "parameters" /\ at' = 0 /\ db' = db
           \/ at # Len(items) /\ reader' = reader /\ at' = at + 1
              /\ db' = DeserializeBus(db, items[at + 1])
           \/ at # Len(items) /\ ~CanDeserializeBus(db, items[at + 1])
              /\ reader' = "terminated" /\ at' = at /\ db' = db
    BY <1>7, RestoreSteps
  <2> HIDE DEF items
  <2>2. IsDb(db') /\ at' \in Nat
    BY <1>1, <2>1, DbKeeps
  <2>3. ASSUME source # NoBase
        PROVE  Progress(source.db, source.settings, message, db', reader', at')
    <3> DEFINE c == source.db
               st == source.settings
    <3>1. /\ at = Len(items) => Progress(c, st, message, db, "parameters", 0)
          /\ at # Len(items) =>
               /\ CanDeserializeBus(db, items[at + 1])
               /\ Progress(c, st, message, DeserializeBus(db, items[at + 1]), "buses", at + 1)
      BY <1>1, <1>2, <2>1, <2>3, BusesProgress DEF items
    <3> HIDE DEF c, st
    <3> QED
      BY <2>1, <3>1 DEF c, st
  <2> QED
    BY <1>3, <2>1, <2>2, <2>3
<1>8. ASSUME UNCHANGED <<parse, db>>, at' \in Nat,
             reader \in {"parameters", "requests", "serving", "printed"},
             reader' \in {"parameters", "requests", "serving", "printed", "terminated"}
      PROVE  SourceInv'
  <2>1. ASSUME source # NoBase
        PROVE  Progress(source.db, source.settings, message, db, reader', at')
    <3>1. Progress(source.db, source.settings, message, db, reader, at)
      BY <1>1, <1>8, <2>1
    <3> QED
      BY <1>8, <3>1, LaterProgress
  <2> QED
    BY <1>1, <1>8, <2>1 DEF SourceInv, parse
<1>9. CASE DeserializeParameters
  BY <1>1, <1>8, <1>9 DEF DeserializeParameters, SourceInv
<1>10. CASE GetInfoRequests
  BY <1>1, <1>8, <1>10 DEF GetInfoRequests, SourceInv
<1>11. CASE Serve
  BY <1>1, <1>8, <1>11 DEF Serve, SourceInv
<1>12. CASE PrintResponses
  BY <1>1, <1>8, <1>12 DEF PrintResponses, SourceInv
<1>13. CASE MakeBase \/ Make \/ Die \/ UNCHANGED vars
  BY <1>13, MakerKeepsSource
<1>14. CASE ReadItem
  BY <1>14, ReadItemKeeps
<1>15. CASE ReadOn
  BY <1>15, ReadOnKeeps
<1>16. CASE EndOfFile
  BY <1>16, EndOfFileKeeps
<1> QED
  BY <1>4, <1>5, <1>6, <1>7, <1>9, <1>10, <1>11, <1>12, <1>13, <1>14, <1>15, <1>16
     DEF Next, Process

\* The graph of a whole base, which has two vertices for each of its stops, has
\* room for those that came back, and its rides take the time they took.
LEMMA RoomForBase ==
  ASSUME SourceInv, source # NoBase, reader = "parameters"
  PROVE  /\ HasRoom
         /\ IsRefused <=> HasNegativeRide(db, source.settings.bus_wait_time,
                                          source.settings.bus_velocity)
<1> DEFINE c == source.db
           st == source.settings
           n == Len(c.stops)
           l == Len(c.buses)
           count == 2 * n
<1>1. PICK keys, below :
        /\ IsBase(message, c, st, keys, below, count, n, Len(keys), l)
        /\ Phase(c, db, keys, below, reader, at)
  <2>1. Progress(c, st, message, db, reader, at)
    BY DEF SourceInv
  <2> HIDE DEF c, st
  <2> QED
    BY <2>1 DEF Progress
<1> DEFINE m == Len(keys)
<1>2. IsBase(message, c, st, keys, below, count, n, m, l)
  BY <1>1
<1>3. FirstAre(c.stops, db.stops, n)
  BY <1>1 DEF Phase, Back
<1>4. IsDb(db)
  BY DEF SourceInv
<1> HIDE DEF count, st, n, m, l
<1>5. /\ FieldOf(message, "vertex_count", "count", 0) = count
      /\ FieldOf(message, "routing_settings", "bus_wait_time", 0) = st.bus_wait_time
      /\ FieldOf(message, "routing_settings", "bus_velocity", 0) = st.bus_velocity
  BY <1>2, WholeMessage
<1>6. /\ Len(db.stops) \in Nat
      /\ Cardinality(DOMAIN db.stop_by_name) \in 0 .. Len(db.stops)
  BY <1>4, NamesAndStops
<1>7. Len(db.stops) = n
  BY <1>3 DEF FirstAre
<1>8. HasRoom
  BY <1>5, <1>6, <1>7 DEF HasRoom, count
<1>9. IsRefused <=> HasNegativeRide(db, st.bus_wait_time, st.bus_velocity)
  BY <1>5, Zenon DEF IsRefused
<1> QED
  BY <1>8, <1>9 DEF st

\* There is room wherever the router has been built.
LEMMA RoomKeeps ==
  ASSUME RoomInv, [Next]_vars
  PROVE  RoomInv'
<1>1. CASE UNCHANGED <<message, db>> /\ (reader' \in {"requests", "serving", "printed"} =>
                                         reader \in {"requests", "serving", "printed"})
  BY <1>1 DEF RoomInv, HasRoom
<1>2. CASE reader' \in {"reading", "stops"}
  BY <1>2 DEF RoomInv
<1>3. CASE DeserializeStops
  BY <1>3, RestoreSteps DEF RoomInv
<1>4. CASE DeserializeFromToDistances
  BY <1>4, RestoreSteps DEF RoomInv
<1>5. CASE DeserializeBuses
  BY <1>5, RestoreSteps DEF RoomInv
<1>6. CASE DeserializeParameters
  BY <1>6 DEF DeserializeParameters, RoomInv, HasRoom, parse
<1>7. CASE GetInfoRequests \/ Serve \/ PrintResponses
  BY <1>1, <1>7 DEF GetInfoRequests, Serve, PrintResponses, parse
<1>8. CASE UNCHANGED vars
  BY <1>1, <1>8 DEF vars, read, parse
<1>9. CASE MakeBase \/ Make \/ Die
  BY <1>1, <1>9 DEF MakeBase, Make, OpenBase, FillBase, WriteItem, CloseBase, Die, read, parse
<1>10. CASE OpenFile \/ ReadItem \/ ReadOn \/ EndOfFile
  BY <1>2, <1>10 DEF OpenFile, ReadItem, ReadOn, EndOfFile
<1> QED
  BY <1>3, <1>4, <1>5, <1>6, <1>7, <1>8, <1>9, <1>10 DEF Next, Process

\* Only a bus without stops, a ride that takes less than no time or a request
\* ends a process that reads a whole base.
LEMMA ServedKeeps ==
  ASSUME SourceInv, WholeBaseIsServed, [Next]_vars
  PROVE  WholeBaseIsServed'
<1>1. CASE UNCHANGED <<reader, source, db, at, requests>>
  BY <1>1 DEF WholeBaseIsServed, Kills
<1>2. CASE reader' # "terminated"
  BY <1>2 DEF WholeBaseIsServed
<1>3. ASSUME source # NoBase
      PROVE  /\ IsFilled(source.db) /\ at \in Nat
             /\ reader # "reading" =>
                  Progress(source.db, source.settings, message, db, reader, at)
  BY <1>3, BasesAreFilled DEF SourceInv
<1>4. CASE DeserializeFromToDistances /\ source # NoBase
  <2> DEFINE c == source.db
             st == source.settings
             items == ItemsOf(message, "stops_distance")
  <2>1. reader = "distances"
        /\ \/ reader' = "buses"
           \/ reader' = reader
           \/ at # Len(items) /\ ~CanDeserializeFromToDistance(db, items[at + 1])
    BY <1>4, RestoreSteps
  <2>2. IsFilled(c) /\ at \in Nat /\ Progress(c, st, message, db, "distances", at)
    BY <1>3, <1>4, <2>1
  <2> HIDE DEF c, st
  <2>3. at # Len(items) => CanDeserializeFromToDistance(db, items[at + 1])
    BY <2>2, DistancesProgress
  <2> QED
    BY <1>2, <2>1, <2>3
<1>5. CASE DeserializeBuses /\ source # NoBase
  <2> DEFINE c == source.db
             st == source.settings
             items == ItemsOf(message, "buses")
  <2>1. reader = "buses"
        /\ \/ reader' = "parameters"
           \/ reader' = reader
           \/ at # Len(items) /\ ~CanDeserializeBus(db, items[at + 1])
    BY <1>5, RestoreSteps
  <2>2. IsFilled(c) /\ at \in Nat /\ Progress(c, st, message, db, "buses", at)
    BY <1>3, <1>5, <2>1
  <2> HIDE DEF c, st
  <2>3. at # Len(items) => CanDeserializeBus(db, items[at + 1])
    BY <2>2, BusesProgress
  <2> QED
    BY <1>2, <2>1, <2>3
<1>6. CASE source' = NoBase
  BY <1>6 DEF WholeBaseIsServed
<1>7. CASE DeserializeFromToDistances \/ DeserializeBuses
  <2>1. source' = source
    BY <1>7, RestoreSteps DEF parse
  <2> QED
    BY <1>4, <1>5, <1>6, <1>7, <2>1
<1>8. CASE DeserializeStops
  BY <1>2, <1>8, RestoreSteps
<1>9. CASE OpenFile \/ ReadItem \/ ReadOn \/ EndOfFile
  BY <1>2, <1>9 DEF OpenFile, ReadItem, ReadOn, EndOfFile
<1>10. CASE DeserializeParameters
  <2>1. reader = "parameters" /\ UNCHANGED <<source, db>>
        /\ reader' = IF ~HasRoom \/ HasStoplessLine(db) \/ IsRefused THEN "terminated"
                     ELSE "requests"
    BY <1>10 DEF DeserializeParameters, parse
  <2>2. CASE source # NoBase
    <3> DEFINE refused == HasNegativeRide(db, source.settings.bus_wait_time,
                                          source.settings.bus_velocity)
    <3>1. HasRoom /\ (IsRefused <=> refused)
      BY <2>1, <2>2, RoomForBase
    <3>2. reader' # "terminated" \/ HasStoplessLine(db) \/ refused
      BY <2>1, <3>1
    <3>3. HasStoplessLine(db') <=> HasStoplessLine(db)
      BY <2>1
    <3>4. refused' <=> refused
      BY <2>1
    <3> HIDE DEF refused
    <3> QED
      BY <1>2, <3>2, <3>3, <3>4 DEF WholeBaseIsServed, refused
  <2> QED
    BY <1>6, <2>1, <2>2
<1>11. CASE GetInfoRequests
  BY <1>2, <1>11 DEF GetInfoRequests, WholeBaseIsServed, IsReadable
<1>12. CASE Serve
  <2>1. \/ reader' = reader
        \/ at < Len(requests) /\ Kills(requests[at + 1]) /\ UNCHANGED at
    BY <1>12 DEF Serve
  <2>2. reader = "serving" /\ UNCHANGED <<requests, db>>
    BY <1>12 DEF Serve
  <2> QED
    BY <1>2, <2>1, <2>2 DEF WholeBaseIsServed, Kills, InfoIsDefined
<1>13. CASE PrintResponses
  BY <1>2, <1>13 DEF PrintResponses
<1>14. CASE MakeBase \/ Make \/ Die
  BY <1>1, <1>14 DEF MakeBase, Make, OpenBase, FillBase, WriteItem, CloseBase, Die, read, parse
<1>15. CASE UNCHANGED vars
  BY <1>1, <1>15 DEF vars, read, parse
<1> QED
  BY <1>7, <1>8, <1>9, <1>10, <1>11, <1>12, <1>13, <1>14, <1>15 DEF Next, Process

-----------------------------------------------------------------------------
(* process_requests: the answers.                                           *)

\* The answer to each request.
Answers ==
  [k \in DOMAIN requests |-> [request_id |-> requests[k].id, answer |-> Response(requests[k])]]

\* The answers to the requests that are done with are collected in order, and
\* printed when they all are.
AnswerInv ==
  /\ reader \in {"idle", "reading", "stops", "distances", "buses", "parameters",
                 "requests", "serving", "printed", "terminated"}
  /\ reads \in 0 .. MaxReads
  /\ at \in Nat
  /\ reader \in {"parameters", "requests"} => at = 0
  /\ reader \in {"serving", "printed"} =>
       /\ IsSeq(requests)
       /\ at <= Len(requests)
       /\ Collects(responses, KnownRequests, at, Answers)
  /\ IsSeq(responses)
  /\ Len(responses) <= at
  /\ reader \notin {"serving", "printed", "terminated"} => responses = <<>>
  /\ reader = "printed" => output = responses /\ at = Len(requests)
  /\ reader # "printed" => output = <<>>

\* The requests that are known, and their answers, stay what they are as long
\* as requests, catalogue and message do.
LEMMA SameAnswers ==
  ASSUME UNCHANGED <<requests, db, message>>
  PROVE  KnownRequests' = KnownRequests /\ Answers' = Answers
  BY DEF KnownRequests, Answers, Response, GetStopResponse, GetBusResponse, GetRouteResponse,
         NotFound

\* Nothing is collected at the beginning.
LEMMA NoAnswers ==
  ASSUME NEW T, NEW f
  PROVE  Collects(<<>>, T, 0, f) /\ IsSeq(<<>>) /\ Len(<<>>) = 0
<1>1. Rank(T, 0) = 0
  BY RankType
<1>2. Len(<<>>) = 0 /\ T \cap (1 .. 0) = {} /\ 1 .. 0 = {}
  OBVIOUS
<1>3. Collects(<<>>, T, 0, f)
  BY <1>1, <1>2 DEF Collects
<1> QED
  BY <1>2, <1>3 DEF IsSeq

\* Every step keeps the answers in order.
LEMMA AnswersKeep ==
  ASSUME FileInv, AnswerInv, [Next]_vars
  PROVE  AnswerInv'
<1>1. CASE UNCHANGED <<reads, reader, message, db, at, requests, responses, output>>
  <2>1. KnownRequests' = KnownRequests /\ Answers' = Answers
    BY <1>1, SameAnswers
  <2> QED
    BY <1>1, <2>1 DEF AnswerInv
<1>2. CASE OpenFile
  <2>1. /\ reader' \in {"reading", "stops"} /\ at' = 0 /\ responses' = <<>> /\ output' = <<>>
        /\ reads < MaxReads /\ reads' = reads + 1
    BY <1>2 DEF OpenFile
  <2>2. reads' \in 0 .. MaxReads
    BY <2>1, BoundsAssumption DEF AnswerInv
  <2>3. IsSeq(responses') /\ Len(responses') = 0
    BY <2>1, NoAnswers
  <2> QED
    BY <2>1, <2>2, <2>3 DEF AnswerInv
<1>3. ASSUME UNCHANGED <<reads, responses, output>>,
             reader \in {"reading", "stops", "distances", "buses", "parameters"},
             reader' \in {"reading", "stops", "distances", "buses", "parameters", "requests",
                          "terminated"},
             at' \in Nat, reader' \in {"parameters", "requests"} => at' = 0
      PROVE  AnswerInv'
  <2>1. responses = <<>>
    BY <1>3 DEF AnswerInv
  <2>2. IsSeq(responses) /\ Len(responses) = 0
    BY <2>1, NoAnswers
  <2> QED
    BY <1>3, <2>1, <2>2 DEF AnswerInv
<1>4. CASE DeserializeStops
  <2>1. /\ UNCHANGED <<reads, responses, output>> /\ reader = "stops"
        /\ reader' \in {"stops", "distances"} /\ at' \in {0, at + 1}
    BY <1>4, RestoreSteps
  <2> QED
    BY <1>3, <2>1 DEF AnswerInv
<1>5. CASE DeserializeFromToDistances
  <2>1. /\ UNCHANGED <<reads, responses, output>> /\ reader = "distances"
        /\ reader' \in {"distances", "buses", "terminated"} /\ at' \in {0, at, at + 1}
    BY <1>5, RestoreSteps
  <2> QED
    BY <1>3, <2>1 DEF AnswerInv
<1>6. CASE DeserializeBuses
  <2>1. /\ UNCHANGED <<reads, responses, output>> /\ reader = "buses"
        /\ reader' \in {"buses", "parameters", "terminated"} /\ at' \in {0, at, at + 1}
        /\ reader' = "parameters" => at' = 0
    BY <1>6, RestoreSteps
  <2> QED
    BY <1>3, <2>1 DEF AnswerInv
<1>7. CASE DeserializeParameters
  BY <1>3, <1>7 DEF DeserializeParameters, AnswerInv
<1>8. CASE GetInfoRequests
  <2>1. /\ reader = "requests" /\ UNCHANGED <<reads, at, responses, output>>
        /\ \/ reader' = "terminated"
           \/ reader' = "serving" /\ \E contents \in RequestLists :
                requests' = [k \in DOMAIN contents |->
                   contents[k] @@ [name |-> EmptyName, from |-> EmptyName, to |-> EmptyName]]
    BY <1>8 DEF GetInfoRequests
  <2>2. at = 0 /\ responses = <<>> /\ output = <<>>
    BY <2>1 DEF AnswerInv
  <2>3. IsSeq(responses) /\ Len(responses) = 0
    BY <2>2, NoAnswers
  <2>4. CASE reader' = "terminated"
    BY <2>1, <2>2, <2>3, <2>4 DEF AnswerInv
  <2>5. CASE reader' = "serving"
    <3>1. PICK contents \in RequestLists :
            requests' = [k \in DOMAIN contents |->
               contents[k] @@ [name |-> EmptyName, from |-> EmptyName, to |-> EmptyName]]
      BY <2>1, <2>5
    <3>2. contents \in Seq(Range(contents))
      BY RequestsAssumption
    <3>3. Len(contents) \in Nat /\ DOMAIN contents = 1 .. Len(contents)
      BY <3>2
    <3>4. requests' = [k \in 1 .. Len(contents) |-> requests'[k]]
      BY <3>1, <3>3
    <3>5. IsSeq(requests') /\ Len(requests') = Len(contents)
      BY <3>3, <3>4, ListIsSeq
    <3>6. Collects(responses, KnownRequests', 0, Answers')
      BY <2>2, NoAnswers
    <3> QED
      BY <2>1, <2>2, <2>3, <2>5, <3>3, <3>5, <3>6 DEF AnswerInv
  <2> QED
    BY <2>1, <2>4, <2>5
<1>9. CASE Serve
  <2> DEFINE request == requests[at + 1]
             T == KnownRequests
  <2>1. /\ reader = "serving" /\ at < Len(requests)
        /\ UNCHANGED <<requests, db, message, reads, output>>
    BY <1>9 DEF Serve, parse
  <2>2. /\ at \in Nat /\ at + 1 \in Nat /\ IsSeq(requests) /\ IsSeq(responses)
        /\ Len(responses) <= at /\ output = <<>> /\ reads \in 0 .. MaxReads
        /\ Collects(responses, T, at, Answers)
    BY <2>1 DEF AnswerInv
  <2>3. at + 1 \in DOMAIN requests /\ Len(requests) \in Nat /\ at + 1 <= Len(requests)
    BY <2>1, <2>2 DEF IsSeq
  <2>4. T' = T /\ Answers' = Answers
    BY <2>1, SameAnswers
  <2>5. at + 1 \in T <=> request.type \in {"Stop", "Bus", "Map", "Route"}
    BY <2>3 DEF KnownRequests
  <2>6. Answers[at + 1] = [request_id |-> request.id, answer |-> Response(request)]
    BY <2>3 DEF Answers
  <2>7. CASE reader' = "terminated" /\ UNCHANGED <<at, responses>>
    BY <2>1, <2>2, <2>7 DEF AnswerInv
  <2>8. CASE /\ UNCHANGED reader /\ at' = at + 1
             /\ responses' = IF request.type \in {"Stop", "Bus", "Map", "Route"}
                             THEN Append(responses, [request_id |-> request.id,
                                                     answer |-> Response(request)])
                             ELSE responses
    <3> DEFINE F == Answers
    <3>1. responses' = IF at + 1 \in T THEN Append(responses, F[at + 1]) ELSE responses
      BY <2>5, <2>6, <2>8
    <3>2. Collects(responses, T, at, F)
      BY <2>2
    <3> HIDE DEF T, F
    <3>3. /\ at + 1 \in T => Collects(Append(responses, F[at + 1]), T, at + 1, F)
          /\ at + 1 \notin T => Collects(responses, T, at + 1, F)
      BY <2>2, <3>2, CollectNext
    <3>4. Collects(responses', T, at + 1, F)
      BY <3>1, <3>3
    <3>5. /\ IsSeq(Append(responses, F[at + 1])) /\ Len(responses) \in Nat
          /\ Len(Append(responses, F[at + 1])) = Len(responses) + 1
      BY <2>2, AppendToSeq
    <3>6. IsSeq(responses') /\ Len(responses') <= at + 1
      BY <2>2, <3>1, <3>5
    <3>7. Collects(responses', T', at', Answers')
      BY <2>4, <2>8, <3>4 DEF F
    <3> QED
      BY <2>1, <2>2, <2>3, <2>8, <3>6, <3>7 DEF AnswerInv, T
  <2> QED
    BY <1>9, <2>7, <2>8 DEF Serve
<1>10. CASE PrintResponses
  <2>1. /\ reader = "serving" /\ at = Len(requests) /\ output' = responses
        /\ reader' = "printed"
        /\ UNCHANGED <<requests, db, message, reads, at, responses>>
    BY <1>10 DEF PrintResponses, parse
  <2>2. KnownRequests' = KnownRequests /\ Answers' = Answers
    BY <2>1, SameAnswers
  <2> QED
    BY <2>1, <2>2 DEF AnswerInv
<1>11. CASE MakeBase \/ Make \/ Die
  BY <1>1, <1>11 DEF MakeBase, Make, OpenBase, FillBase, WriteItem, CloseBase, Die, read, parse
<1>12. CASE UNCHANGED vars
  BY <1>1, <1>12 DEF vars, read, parse
<1>13. CASE ReadItem
  <2>1. /\ UNCHANGED <<reads, responses, output>> /\ reader = "reading" /\ reader' = "reading"
        /\ at' \in {at, at + 1}
    BY <1>13 DEF ReadItem
  <2> QED
    BY <1>3, <2>1 DEF AnswerInv
<1>14. CASE EndOfFile
  <2>1. /\ UNCHANGED <<reads, responses, output>> /\ reader = "reading" /\ reader' = "stops"
        /\ at' = 0
    BY <1>14 DEF EndOfFile
  <2> QED
    BY <1>3, <2>1
<1>15. CASE ReadOn
  <2>1. /\ UNCHANGED <<reads, responses, output>> /\ reader = "reading" /\ reader' = "reading"
        /\ at' \in 1 .. file.whole
    BY <1>15 DEF ReadOn
  <2>2. at' \in Nat
    <3>1. Len(file.items) \in Nat
      BY WrittenIsLong DEF FileInv
    <3>2. file.whole \in Int
      BY <3>1 DEF FileInv
    <3> QED
      BY <2>1, <3>2
  <2> QED
    BY <1>3, <2>1, <2>2
<1> QED
  BY <1>13, <1>14, <1>15, <1>2, <1>4, <1>5, <1>6, <1>7, <1>8, <1>9, <1>10, <1>11, <1>12 DEF Next, Process

-----------------------------------------------------------------------------
(* The theorems.                                                            *)

ProgramInv ==
  /\ FileInv
  /\ MakerInv
  /\ SourceInv
  /\ RoomInv
  /\ WholeBaseIsServed
  /\ AnswerInv

\* The invariant holds before anything is started.
LEMMA ProgramStarts ==
  ASSUME Init
  PROVE  ProgramInv
<1>1. FileInv
  <2>1. /\ file.base = NoBase /\ file.items = <<>> /\ file.whole = 0 /\ file.cut = FALSE
        /\ DOMAIN file = {"exists", "base", "items", "whole", "cut"} /\ file.exists = FALSE
    BY DEF Init, NoFile
  <2>2. Len(<<>>) = 0 /\ 0 \in 0 .. 0
    OBVIOUS
  <2> QED
    BY <2>1, <2>2 DEF FileInv
<1>2. MakerInv
  BY BoundsAssumption DEF Init, MakerInv
<1>3. SourceInv
  <2>1. /\ message = <<>> /\ source = NoBase /\ db = EmptyCatalogue /\ at = 0
        /\ part = FALSE /\ seam = FALSE /\ mixed = FALSE /\ reader = "idle"
    BY DEF Init
  <2>2. DOMAIN message = {}
    BY <2>1
  <2>3. NoCount(message)
    BY <2>2, CountsOfZero
  <2>4. IsDb(db)
    BY <2>1, EmptyTables DEF IsDb
  <2> QED
    BY <2>1, <2>3, <2>4 DEF SourceInv
<1>4. RoomInv /\ WholeBaseIsServed
  BY DEF Init, RoomInv, WholeBaseIsServed
<1>5. AnswerInv
  <2>1. IsSeq(responses) /\ Len(responses) = 0
    BY NoAnswers DEF Init
  <2> QED
    BY <2>1, BoundsAssumption DEF Init, AnswerInv
<1> QED
  BY <1>1, <1>2, <1>3, <1>4, <1>5 DEF ProgramInv

\* The invariant of the two modes and the file between them: it holds of every
\* interleaving of make_base, which may die anywhere, and process_requests.
THEOREM ProgramCorrect == Spec => []ProgramInv
<1>1. Init => ProgramInv
  BY ProgramStarts
<1>2. ProgramInv /\ [Next]_vars => ProgramInv'
  BY FileKeeps, SourceKeeps, RoomKeeps, ServedKeeps, AnswersKeep DEF ProgramInv
<1> QED
  BY <1>1, <1>2, PTL DEF Spec

\* Every variable of the two modes keeps its type, whatever ends up in the file.
THEOREM ProgramTypeCorrect == Spec => []TypeOK
<1>1. ProgramInv => TypeOK
  BY DEF ProgramInv, FileInv, MakerInv, SourceInv, AnswerInv, TypeOK
<1> QED
  BY <1>1, ProgramCorrect, PTL

\* A base that was written to its end comes back exactly as it was, but for the
\* distances below zero, which come back as they were, as -1 or as 0
\* (SerializeTransportCatalogue against DeserializeTransportCatalogue).
THEOREM SavedComesBack == Spec => []RestoredIsSaved
<1>1. ASSUME ProgramInv, source # NoBase,
             reader \in {"parameters", "requests", "serving", "printed"}
      PROVE  AsSaved(source.db, db)
  <2>1. source \in Bases /\ Progress(source.db, source.settings, message, db, reader, at)
    BY <1>1 DEF ProgramInv, SourceInv
  <2>2. PICK keys, below :
          /\ below \in Below /\ AreKeys(source.db, keys)
          /\ Phase(source.db, db, keys, below, reader, at)
    BY <2>1 DEF Progress
  <2>3. Back(source.db, db, keys, below, Len(source.db.stops), Len(keys),
             Len(source.db.buses))
    BY <1>1, <2>2 DEF Phase
  <2> QED
    BY <2>1, <2>2, <2>3, EverythingIsBack
<1>2. ProgramInv => RestoredIsSaved
  BY <1>1 DEF RestoredIsSaved, AsSaved
<1> QED
  BY <1>2, ProgramCorrect, PTL

\* Reading a base that was written to its end goes through no null pointer and
\* finds room for every vertex (DeserializeBase); a bus without stops, a ride that
\* takes less than no time and the requests are all that can end it.
THEOREM WholeBasesAreServed == Spec => []WholeBaseIsServed
<1>1. ProgramInv => WholeBaseIsServed
  BY DEF ProgramInv
<1> QED
  BY <1>1, ProgramCorrect, PTL

\* A base that was not written to its end, or not read to its end, has no vertex
\* count, and none of its stops is ever served (FillingBase, DeserializeParameters),
\* as long as the process has not gone on to read in a base written anew.
THEOREM PartialBasesAreNotServed == Spec => []PartialBaseIsNotServed
<1>1. ASSUME ProgramInv, reader \in {"serving", "printed"}, source = NoBase, ~mixed
      PROVE  db.stops = <<>>
  <2>1. NoCount(message) /\ IsDb(db)
    BY <1>1 DEF ProgramInv, SourceInv
  <2>2. 0 >= Cardinality(DOMAIN db.stop_by_name)
    BY <1>1, <2>1 DEF ProgramInv, RoomInv, HasRoom, NoCount
  <2>3. /\ Len(db.stops) \in Nat
        /\ Cardinality(DOMAIN db.stop_by_name) \in 0 .. Len(db.stops)
        /\ Cardinality(DOMAIN db.stop_by_name) = 0 => db.stops = <<>>
    BY <2>1, NamesAndStops
  <2> QED
    BY <2>2, <2>3
<1>2. ProgramInv => PartialBaseIsNotServed
  BY <1>1 DEF PartialBaseIsNotServed
<1> QED
  BY <1>2, ProgramCorrect, PTL

\* What has been printed is, in the order of the requests, the answer to each
\* request of a type the program knows (GetInfoRequests, PrintResponses).
PrintedAnswers ==
  reader = "printed" =>
    /\ Len(output) = Cardinality(KnownRequests)
    /\ \A k \in KnownRequests : output[Rank(KnownRequests, k)] = Answers[k]

\* The answers printed are the answers asked for, each in its place.
THEOREM AnswersAreTheAnswers == Spec => []PrintedAnswers
<1>1. ASSUME ProgramInv, reader = "printed"
      PROVE  /\ Len(output) = Cardinality(KnownRequests)
             /\ \A k \in KnownRequests : output[Rank(KnownRequests, k)] = Answers[k]
  <2> DEFINE T == KnownRequests
             F == Answers
             n == Len(requests)
  <2>1. IsSeq(requests) /\ output = responses /\ Collects(responses, T, n, F)
    BY <1>1 DEF ProgramInv, AnswerInv
  <2>2. T \cap (1 .. n) = T
    BY <2>1 DEF KnownRequests, IsSeq
  <2> HIDE DEF T, F, n
  <2>3. Rank(T, n) = Cardinality(T)
    BY <2>2 DEF Rank
  <2>4. Len(output) = Cardinality(T) /\ \A k \in T : output[Rank(T, k)] = F[k]
    BY <2>1, <2>2, <2>3 DEF Collects
  <2> QED
    BY <2>4 DEF T, F
<1>2. ProgramInv => PrintedAnswers
  BY <1>1 DEF PrintedAnswers
<1> QED
  BY <1>2, ProgramCorrect, PTL

\* All the answers are printed or none, one for each request of a type the
\* program knows and in the order of the requests.
THEOREM AnswersComeInOrder == Spec => []AnswersInOrder
<1>1. ProgramInv /\ PrintedAnswers => AnswersInOrder
  <2> SUFFICES ASSUME ProgramInv, PrintedAnswers
               PROVE  AnswersInOrder
    OBVIOUS
  <2>1. CASE reader = "printed"
    <3>1. ASSUME NEW k \in KnownRequests
          PROVE  output[Cardinality(KnownRequests \cap (1 .. k))].request_id = requests[k].id
      <4>1. output[Rank(KnownRequests, k)] = Answers[k]
        BY <2>1 DEF PrintedAnswers
      <4>2. Answers[k].request_id = requests[k].id
        BY DEF Answers, KnownRequests
      <4> QED
        BY <4>1, <4>2 DEF Rank
    <3> QED
      BY <2>1, <3>1 DEF PrintedAnswers, AnswersInOrder
  <2>2. CASE reader # "printed"
    BY <2>2 DEF ProgramInv, AnswerInv, AnswersInOrder
  <2> QED
    BY <2>1, <2>2
<1> QED
  BY <1>1, ProgramCorrect, AnswersAreTheAnswers, PTL

\* Whatever file it has read, damaged or not, the tables of the catalogue that
\* process_requests serves agree with its deques (AddStop, AddBus).
THEOREM TablesAlwaysAgree == Spec => []TablesAgree(db)
<1>1. ProgramInv => TablesAgree(db)
  BY DEF ProgramInv, SourceInv, IsDb
<1> QED
  BY <1>1, ProgramCorrect, PTL
=============================================================================
