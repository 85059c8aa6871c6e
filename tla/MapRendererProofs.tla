-------------------------- MODULE MapRendererProofs --------------------------
(***************************************************************************)
(* Proofs about MapRenderer, for every catalogue that has been filled and   *)
(* all settings.                                                            *)
(***************************************************************************)
EXTENDS MapRenderer, CatalogueProofs

-----------------------------------------------------------------------------
(* Numbers in order.                                                        *)

UpTo(S, x) == {y \in S : y <= x}

\* The numbers of a finite set are counted from the least to the greatest.
LEMMA Counted ==
  ASSUME NEW S \in SUBSET Int, IsFiniteSet(S)
  PROVE  /\ Cardinality(S) \in Nat
         /\ \A x \in S : Cardinality(UpTo(S, x)) \in 1 .. Cardinality(S)
         /\ \A x, y \in S : x < y => Cardinality(UpTo(S, x)) < Cardinality(UpTo(S, y))
         /\ \A k \in 1 .. Cardinality(S) : \E x \in S : Cardinality(UpTo(S, x)) = k
<1> DEFINE n == Cardinality(S)
           rank == [x \in S |-> Cardinality(UpTo(S, x))]
<1>1. n \in Nat
  BY FS_CardinalityType
<1>2. \A x \in S : /\ IsFiniteSet(UpTo(S, x)) /\ x \in UpTo(S, x)
                   /\ Cardinality(UpTo(S, x)) \in Nat /\ Cardinality(UpTo(S, x)) <= n
  <2> TAKE x \in S
  <2>1. UpTo(S, x) \in SUBSET S /\ x \in UpTo(S, x)
    BY DEF UpTo
  <2> QED
    BY <2>1, FS_Subset, FS_CardinalityType
<1>3. \A x \in S : Cardinality(UpTo(S, x)) \in 1 .. n
  <2> TAKE x \in S
  <2>1. Cardinality(UpTo(S, x)) # 0
    BY <1>2, FS_EmptySet
  <2> QED
    BY <1>1, <1>2, <2>1
<1>4. \A x, y \in S : x < y => Cardinality(UpTo(S, x)) < Cardinality(UpTo(S, y))
  <2> TAKE x, y \in S
  <2> HAVE x < y
  <2>1. UpTo(S, x) \in SUBSET UpTo(S, y) /\ y \notin UpTo(S, x)
    <3>1. \A z \in S : z <= x => z <= y
      OBVIOUS
    <3>2. ~ (y <= x)
      OBVIOUS
    <3> QED
      BY <3>1, <3>2 DEF UpTo
  <2>2. UpTo(S, x) # UpTo(S, y)
    BY <1>2, <2>1
  <2>3. IsFiniteSet(UpTo(S, y))
    BY <1>2
  <2>4. /\ Cardinality(UpTo(S, x)) <= Cardinality(UpTo(S, y))
        /\ Cardinality(UpTo(S, x)) # Cardinality(UpTo(S, y))
    BY <2>1, <2>2, <2>3, FS_Subset
  <2> QED
    BY <1>2, <2>4
<1> HIDE DEF n
<1>5. rank \in Injection(S, 1 .. n)
  <2>1. rank \in [S -> 1 .. n]
    BY <1>3
  <2>2. \A x, y \in S : rank[x] = rank[y] => x = y
    <3> TAKE x, y \in S
    <3> HAVE rank[x] = rank[y]
    <3>1. Cardinality(UpTo(S, x)) = Cardinality(UpTo(S, y))
      OBVIOUS
    <3>2. Cardinality(UpTo(S, x)) \in Nat
      BY <1>2
    <3>3. ~ (x < y) /\ ~ (y < x)
      BY <1>4, <3>1, <3>2
    <3> QED
      BY <3>3
  <2> HIDE DEF rank
  <2> QED
    BY <2>1, <2>2 DEF Injection, IsInjective
<1>6. IsFiniteSet(1 .. n) /\ Cardinality(1 .. n) = n
  BY <1>1, FS_Interval
<1>7. rank \in Surjection(S, 1 .. n)
  <2>1. Cardinality(S) = Cardinality(1 .. n)
    BY <1>6 DEF n
  <2> HIDE DEF rank
  <2> QED
    BY <1>5, <1>6, <2>1, FS_Injection
<1>8. \A k \in 1 .. n : \E x \in S : rank[x] = k
  <2> HIDE DEF rank
  <2> QED
    BY <1>7 DEF Surjection
<1> QED
  BY <1>1, <1>3, <1>4, <1>8 DEF n

\* Ascending lists every number of a finite set once, in order.
LEMMA AscendingIs ==
  ASSUME NEW S \in SUBSET Int, IsFiniteSet(S)
  PROVE  LET s == Ascending(S) IN
         /\ s \in Seq(S)
         /\ Len(s) = Cardinality(S)
         /\ Range(s) = S
         /\ \A i, j \in 1 .. Len(s) : i < j => s[i] < s[j]
<1> DEFINE n == Cardinality(S)
           Nth(k, x) == x \in S /\ Cardinality(UpTo(S, x)) = k
           t == [k \in 1 .. n |-> CHOOSE x : Nth(k, x)]
           InOrder(s) == s \in SetToSeqs(S) /\ \A i, j \in DOMAIN s : i < j => s[i] < s[j]
<1>1. /\ n \in Nat
      /\ \A x \in S : Cardinality(UpTo(S, x)) \in 1 .. n
      /\ \A x, y \in S : x < y => Cardinality(UpTo(S, x)) < Cardinality(UpTo(S, y))
      /\ \A k \in 1 .. n : \E x : Nth(k, x)
  BY Counted
<1>2. \A k \in 1 .. n : Nth(k, t[k])
  <2> HIDE DEF Nth, n
  <2> QED
    BY <1>1
<1>3. t \in [1 .. n -> S]
  <2>1. DOMAIN t = 1 .. n /\ t = [k \in 1 .. n |-> t[k]]
    OBVIOUS
  <2> HIDE DEF t, n
  <2> QED
    BY <1>2, <2>1
<1> HIDE DEF t, n
<1>4. \A i, j \in 1 .. n : i < j => t[i] < t[j]
  <2> TAKE i, j \in 1 .. n
  <2> HAVE i < j
  <2>1. t[i] \in Int /\ t[j] \in Int /\ Nth(i, t[i]) /\ Nth(j, t[j])
    BY <1>2, <1>3
  <2>2. ~ (t[j] < t[i]) /\ t[j] # t[i]
    BY <1>1, <2>1
  <2> QED
    BY <2>1, <2>2
<1>5. InOrder(t)
  <2>1. \A i, j \in 1 .. n : i # j => t[i] # t[j]
    <3> TAKE i, j \in 1 .. n
    <3>1. Nth(i, t[i]) /\ Nth(j, t[j])
      BY <1>2
    <3> QED
      BY <3>1
  <2>2. t \in SetToSeqs(S)
    BY <1>3, <2>1 DEF SetToSeqs, n
  <2>3. DOMAIN t = 1 .. n
    BY <1>3
  <2> QED
    BY <1>4, <2>2, <2>3
<1> DEFINE s == Ascending(S)
<1>6. InOrder(s)
  <2>1. s = CHOOSE r \in SetToSeqs(S) : \A i, j \in DOMAIN r : i < j => r[i] < r[j]
    BY DEF Ascending
  <2> QED
    BY <1>5, <2>1, Zenon
<1> HIDE DEF s
<1>7. s \in [1 .. n -> S] /\ \A i, j \in 1 .. n : i # j => s[i] # s[j]
  BY <1>6 DEF SetToSeqs, n
<1>8. s \in Seq(S) /\ Len(s) = n /\ DOMAIN s = 1 .. n
  BY <1>1, <1>7
<1>9. Range(s) = S
  <2>1. s \in Injection(1 .. n, S)
    BY <1>7 DEF Injection, IsInjective
  <2>2. IsFiniteSet(1 .. n) /\ Cardinality(1 .. n) = Cardinality(S)
    BY <1>1, FS_Interval DEF n
  <2>3. s \in Surjection(1 .. n, S)
    BY <2>1, <2>2, FS_Injection
  <2> QED
    BY <1>8, <2>3 DEF Surjection, Range
<1> QED
  BY <1>6, <1>8, <1>9 DEF s, n

\* Where a number is in the order is how many are not greater.
LEMMA NthCounts ==
  ASSUME NEW S \in SUBSET Int, NEW s \in Seq(S), Range(s) = S,
         \A i, j \in 1 .. Len(s) : i < j => s[i] < s[j],
         NEW k \in 1 .. Len(s)
  PROVE  Cardinality(UpTo(S, s[k])) = k
<1> DEFINE n == Len(s)
           T == UpTo(S, s[k])
           f == [i \in 1 .. k |-> s[i]]
<1>1. n \in Nat /\ \A i \in 1 .. n : s[i] \in S /\ s[i] \in Int
  <2>1. n \in Nat /\ \A i \in 1 .. n : s[i] \in S
    OBVIOUS
  <2>2. \A x \in S : x \in Int
    OBVIOUS
  <2> QED
    BY <2>1, <2>2
<1>2. \A x \in S : \E i \in 1 .. n : s[i] = x
  BY DEF Range
<1>3. \A i, j \in 1 .. n : s[i] <= s[j] <=> i <= j
  <2> TAKE i, j \in 1 .. n
  <2>1. (i < j => s[i] < s[j]) /\ (j < i => s[j] < s[i])
    OBVIOUS
  <2>2. i < j \/ j < i \/ i = j
    OBVIOUS
  <2>3. s[i] \in Int /\ s[j] \in Int /\ i \in Int /\ j \in Int
    BY <1>1
  <2> QED
    BY <2>1, <2>2, <2>3
<1> HIDE DEF n
<1>4. k \in Nat /\ \A i \in 1 .. k : i \in 1 .. n
  BY <1>1 DEF n
<1>5. \A i \in 1 .. k : s[i] \in T
  <2>1. \A i \in 1 .. k : i \in 1 .. n /\ k \in 1 .. n /\ i <= k
    BY <1>4 DEF n
  <2>2. \A i \in 1 .. k : s[i] \in S /\ s[i] <= s[k]
    BY <1>1, <1>3, <2>1
  <2> QED
    BY <2>2 DEF UpTo
<1>6. \A x \in T : \E i \in 1 .. k : s[i] = x
  <2> TAKE x \in T
  <2>1. x \in S /\ x <= s[k]
    BY DEF UpTo
  <2>2. PICK i \in 1 .. n : s[i] = x
    BY <1>2, <2>1
  <2>3. i <= k
    BY <1>3, <2>1, <2>2 DEF n
  <2> QED
    BY <2>2, <2>3
<1>7. f \in [1 .. k -> T] /\ \A i \in 1 .. k : f[i] = s[i]
  BY <1>5
<1> HIDE DEF f, T
<1>8. f \in Surjection(1 .. k, T)
  BY <1>6, <1>7 DEF Surjection
<1>9. f \in Injection(1 .. k, T)
  <2>1. \A i, j \in 1 .. k : f[i] = f[j] => i = j
    <3> TAKE i, j \in 1 .. k
    <3> HAVE f[i] = f[j]
    <3>1. s[i] \in Int /\ s[j] \in Int /\ s[i] = s[j]
      BY <1>1, <1>4, <1>7
    <3>2. i <= j /\ j <= i
      BY <1>3, <1>4, <3>1
    <3> QED
      BY <3>2
  <2> QED
    BY <1>7, <2>1 DEF Injection, IsInjective
<1>10. IsFiniteSet(1 .. k) /\ Cardinality(1 .. k) = k
  BY <1>4, FS_Interval
<1>11. Cardinality(T) = k
  BY <1>8, <1>9, <1>10, FS_Surjection
<1> QED
  BY <1>11 DEF T

\* The first numbers are in order as they are.
LEMMA AscendingInterval ==
  ASSUME NEW n \in Nat
  PROVE  /\ Len(Ascending(1 .. n)) = n
         /\ \A k \in 1 .. n : Ascending(1 .. n)[k] = k
<1> DEFINE S == 1 .. n
           s == Ascending(S)
<1>1. S \in SUBSET Int /\ IsFiniteSet(S) /\ Cardinality(S) = n
  BY FS_Interval
<1>2. \A x \in S : Cardinality(UpTo(S, x)) = x
  <2> TAKE x \in S
  <2>1. UpTo(S, x) = 1 .. x
    BY DEF UpTo
  <2> QED
    BY <2>1, FS_Interval
<1> HIDE DEF S
<1>3. /\ s \in Seq(S) /\ Len(s) = n /\ Range(s) = S
      /\ \A i, j \in 1 .. Len(s) : i < j => s[i] < s[j]
  BY <1>1, AscendingIs
<1> HIDE DEF s
<1>4. ASSUME NEW k \in 1 .. n
      PROVE  s[k] = k
  <2>1. s[k] \in S
    BY <1>3
  <2>2. Cardinality(UpTo(S, s[k])) = k
    BY <1>1, <1>3, NthCounts
  <2> QED
    BY <1>2, <2>1, <2>2
<1> QED
  BY <1>3, <1>4 DEF s, S

\* A finite set of numbers has a least and a greatest.
LEMMA Extremes ==
  ASSUME NEW S \in SUBSET Int, IsFiniteSet(S), S # {}
  PROVE  /\ Min(S) \in S /\ \A x \in S : Min(S) <= x
         /\ Max(S) \in S /\ \A x \in S : x <= Max(S)
<1> DEFINE s == Ascending(S)
           n == Len(s)
<1>1. /\ s \in Seq(S) /\ Range(s) = S
      /\ \A i, j \in 1 .. n : i < j => s[i] < s[j]
  BY AscendingIs
<1> HIDE DEF s
<1>2. n \in Nat /\ \A k \in 1 .. n : s[k] \in S
  BY <1>1
<1>3. \A x \in S : \E k \in 1 .. n : s[k] = x
  BY <1>1 DEF Range
<1> HIDE DEF n
<1>4. 1 \in 1 .. n /\ n \in 1 .. n
  <2>1. PICK x \in S : TRUE
    OBVIOUS
  <2>2. PICK k \in 1 .. n : s[k] = x
    BY <1>3, <2>1
  <2> QED
    BY <1>2, <2>2
<1>5. \A x \in S : s[1] <= x /\ x <= s[n]
  <2> TAKE x \in S
  <2>1. PICK k \in 1 .. n : s[k] = x
    BY <1>3
  <2>2. (k = 1 \/ 1 < k) /\ (k = n \/ k < n)
    BY <1>2
  <2>3. s[1] \in Int /\ s[n] \in Int /\ x \in Int
    BY <1>2, <1>4
  <2>4. s[1] <= s[k]
    <3>1. k = 1 \/ s[1] < s[k]
      BY <1>1, <1>4, <2>2 DEF n
    <3> QED
      BY <2>1, <2>3, <3>1
  <2>5. s[k] <= s[n]
    <3>1. k = n \/ s[k] < s[n]
      BY <1>1, <1>4, <2>2 DEF n
    <3> QED
      BY <2>1, <2>3, <3>1
  <2> QED
    BY <2>1, <2>4, <2>5
<1>6. Min(S) \in S /\ \A x \in S : Min(S) <= x
  BY <1>2, <1>4, <1>5 DEF Min
<1>7. Max(S) \in S /\ \A x \in S : Max(S) >= x
  <2>1. s[n] \in S /\ \A x \in S : s[n] >= x
    BY <1>2, <1>4, <1>5
  <2> QED
    BY <2>1 DEF Max
<1>8. \A x \in S : x <= Max(S)
  BY <1>7
<1> QED
  BY <1>6, <1>7, <1>8

\* What a function makes of a finite set is finite.
LEMMA ImageIsFinite ==
  ASSUME NEW S, IsFiniteSet(S), NEW f
  PROVE  IsFiniteSet({f[x] : x \in S}) /\ Cardinality({f[x] : x \in S}) <= Cardinality(S)
<1> DEFINE T == {f[x] : x \in S}
           g == [x \in S |-> f[x]]
<1>1. g \in Surjection(S, T)
  BY DEF Surjection
<1> HIDE DEF g, T
<1>2. IsFiniteSet(T) /\ Cardinality(T) <= Cardinality(S)
  BY <1>1, FS_Surjection
<1> QED
  BY <1>2 DEF T

-----------------------------------------------------------------------------
(* The settings.                                                            *)

Outcomes == {"ok", "threw", "undefined"}

\* Reads made in turn give their values if they all do, and otherwise end as one
\* of them ends.
LEMMA InTurnIs ==
  ASSUME NEW n \in Nat, NEW reads, DOMAIN reads = 1 .. n
  PROVE  LET all == InTurn(reads) IN
         /\ all.outcome = "ok" <=> \A k \in 1 .. n : reads[k].outcome = "ok"
         /\ all.outcome = "ok" => all.value = [k \in 1 .. n |-> reads[k].value]
         /\ all.outcome # "ok" => \E k \in 1 .. n : all.outcome = reads[k].outcome
<1> DEFINE all == InTurn(reads)
           failed == {k \in 1 .. n : reads[k].outcome # "ok"}
           Fine == /\ all.outcome = "ok" <=> \A k \in 1 .. n : reads[k].outcome = "ok"
                   /\ all.outcome = "ok" => all.value = [k \in 1 .. n |-> reads[k].value]
                   /\ all.outcome # "ok" => \E k \in 1 .. n : all.outcome = reads[k].outcome
<1> SUFFICES Fine
  OBVIOUS
<1>1. all = IF failed = {} THEN Ok([k \in 1 .. n |-> reads[k].value]) ELSE reads[Min(failed)]
  BY DEF InTurn
<1>2. failed \in SUBSET (1 .. n)
  OBVIOUS
<1> HIDE DEF all
<1>3. CASE failed = {}
  <2>1. all = Ok([k \in 1 .. n |-> reads[k].value])
    BY <1>1, <1>3
  <2>2. all.outcome = "ok" /\ all.value = [k \in 1 .. n |-> reads[k].value]
    BY <2>1 DEF Ok
  <2> QED
    BY <1>3, <2>2
<1>4. CASE failed # {}
  <2>1. Min(failed) \in failed
    <3> HIDE DEF failed
    <3>1. IsFiniteSet(1 .. n) /\ failed \in SUBSET Int
      BY <1>2, FS_Interval
    <3>2. IsFiniteSet(failed)
      BY <1>2, <3>1, FS_Subset
    <3> QED
      BY <1>4, <3>1, <3>2, Extremes
  <2>2. all = reads[Min(failed)]
    BY <1>1, <1>4
  <2> QED
    BY <2>1, <2>2
<1> QED
  BY <1>3, <1>4

\* A number is read as it is.
LEMMA NumbersRead ==
  ASSUME NEW node
  PROVE  /\ AsInt(node).outcome \in Outcomes /\ AsDouble(node).outcome \in Outcomes
         /\ AsInt(node).outcome = "ok" => node[1] = "int" /\ AsInt(node).value = node[2]
         /\ AsDouble(node).outcome = "ok" =>
              node[1] \in {"int", "double"} /\ AsDouble(node).value = node[2]
  BY DEF AsInt, AsDouble, Ok, Throws, Outcomes

\* A colour is read, or not.
LEMMA ColorRead ==
  ASSUME NEW node
  PROVE  ParseColor(node).outcome \in Outcomes
<1> DEFINE array == node[2]
           reads == [k \in 1 .. 3 |-> IF k > Len(array) THEN Undefined ELSE AsInt(array[k])]
           rgb == InTurn(reads)
           opacity == AsDouble(array[4])
<1>1. rgb.outcome \in Outcomes
  <2>1. DOMAIN reads = 1 .. 3 /\ \A k \in 1 .. 3 : reads[k].outcome \in Outcomes
    BY NumbersRead DEF Undefined, Outcomes
  <2> HIDE DEF reads
  <2>2. rgb.outcome # "ok" => \E k \in 1 .. 3 : rgb.outcome = reads[k].outcome
    BY <2>1, InTurnIs
  <2> QED
    BY <2>1, <2>2 DEF Outcomes
<1>2. opacity.outcome \in Outcomes
  BY NumbersRead
<1>3. CASE node[1] = "string"
  BY <1>3 DEF ParseColor, Ok, Outcomes
<1>4. CASE node[1] \notin {"string", "array"}
  BY <1>4 DEF ParseColor, Throws, Outcomes
<1>5. CASE node[1] = "array"
  <2>1. ParseColor(node) =
          IF rgb.outcome # "ok" THEN rgb
          ELSE IF Len(array) = 3 THEN Ok(<<"rgb">> \o [k \in 1 .. 3 |-> rgb.value[k] % 256])
          ELSE IF Len(array) > 4 THEN Ok(NoneColor)
          ELSE IF opacity.outcome # "ok" THEN opacity
          ELSE Ok(<<"rgba">> \o [k \in 1 .. 3 |-> rgb.value[k] % 256] \o <<opacity.value>>)
    BY <1>5 DEF ParseColor
  <2> HIDE DEF rgb, opacity, array
  <2>2. \A v : Ok(v).outcome \in Outcomes
    BY DEF Ok, Outcomes
  <2> QED
    BY <1>1, <1>2, <2>1, <2>2
<1> QED
  BY <1>3, <1>4, <1>5

\* An offset is read, or not.
LEMMA OffsetRead ==
  ASSUME NEW node
  PROVE  ParseOffset(node).outcome \in Outcomes
<1> DEFINE reads == [k \in 1 .. 2 |-> AsDouble(node[2][k])]
<1>1. DOMAIN reads = 1 .. 2 /\ \A k \in 1 .. 2 : reads[k].outcome \in Outcomes
  BY NumbersRead
<1> HIDE DEF reads
<1>2. InTurn(reads).outcome # "ok" => \E k \in 1 .. 2 : InTurn(reads).outcome = reads[k].outcome
  BY <1>1, InTurnIs
<1>3. InTurn(reads).outcome \in Outcomes
  BY <1>1, <1>2 DEF Outcomes
<1>4. ParseOffset(node) = IF node[1] # "array" THEN Throws
                          ELSE IF Len(node[2]) < 2 THEN Undefined ELSE InTurn(reads)
  BY DEF ParseOffset, reads
<1> QED
  BY <1>3, <1>4 DEF Throws, Undefined, Outcomes

\* A palette is read colour by colour, or not.
LEMMA PaletteRead ==
  ASSUME NEW node, IsNode(node)
  PROVE  /\ ParsePalette(node).outcome \in Outcomes
         /\ ParsePalette(node).outcome = "ok" =>
              /\ node[1] = "array" /\ Len(node[2]) \in Nat
              /\ DOMAIN node[2] = 1 .. Len(node[2])
              /\ \A k \in 1 .. Len(node[2]) : ParseColor(node[2][k]).outcome = "ok"
              /\ ParsePalette(node).value
                   = [k \in 1 .. Len(node[2]) |-> ParseColor(node[2][k]).value]
<1>1. CASE node[1] # "array"
  BY <1>1 DEF ParsePalette, Throws, Outcomes
<1>2. CASE node[1] = "array"
  <2> DEFINE array == node[2]
             n == Len(array)
             reads == [k \in 1 .. n |-> ParseColor(array[k])]
             all == InTurn(reads)
  <2>1. array \in Seq(Range(array))
    BY <1>2 DEF IsNode, IsArray
  <2>2. n \in Nat /\ DOMAIN array = 1 .. n
    BY <2>1
  <2>3. ParsePalette(node) = all
    BY <1>2, <2>2 DEF ParsePalette
  <2>4. DOMAIN reads = 1 .. n /\ \A k \in 1 .. n : reads[k] = ParseColor(array[k])
    OBVIOUS
  <2>5. \A k \in 1 .. n : reads[k].outcome \in Outcomes
    BY <2>4, ColorRead
  <2> HIDE DEF n, reads
  <2>6. /\ all.outcome = "ok" <=> \A k \in 1 .. n : reads[k].outcome = "ok"
        /\ all.outcome = "ok" => all.value = [k \in 1 .. n |-> reads[k].value]
        /\ all.outcome # "ok" => \E k \in 1 .. n : all.outcome = reads[k].outcome
    BY <2>2, <2>4, InTurnIs
  <2> HIDE DEF all
  <2>7. all.outcome \in Outcomes
    BY <2>5, <2>6 DEF Outcomes
  <2>8. ASSUME all.outcome = "ok"
        PROVE  /\ \A k \in 1 .. n : ParseColor(array[k]).outcome = "ok"
               /\ all.value = [k \in 1 .. n |-> ParseColor(array[k]).value]
    BY <2>4, <2>6, <2>8
  <2> QED
    BY <1>2, <2>2, <2>3, <2>7, <2>8 DEF n
<1> QED
  BY <1>1, <1>2

\* Every member is read, or not.
LEMMA MemberRead ==
  ASSUME NEW dict \in RenderSettings, NEW m
  PROVE  ReadMember(dict, m).outcome \in Outcomes
<1> DEFINE node == dict[m]
<1>1. CASE m \notin DOMAIN dict
  BY <1>1 DEF ReadMember, Throws, Outcomes
<1>2. CASE m \in DOMAIN dict
  <2>1. IsNode(node)
    BY <1>2, SettingsAssumption
  <2>2. /\ AsInt(node).outcome \in Outcomes /\ AsDouble(node).outcome \in Outcomes
        /\ ParseOffset(node).outcome \in Outcomes /\ ParseColor(node).outcome \in Outcomes
        /\ ParsePalette(node).outcome \in Outcomes
    BY <2>1, NumbersRead, OffsetRead, ColorRead, PaletteRead
  <2>3. ReadMember(dict, m) \in {AsInt(node), AsDouble(node), ParseOffset(node),
                                ParseColor(node), ParsePalette(node)}
    BY <1>2 DEF ReadMember
  <2> QED
    BY <2>2, <2>3
<1> QED
  BY <1>1, <1>2

\* What is in the settings is what the document says.
ReadRight(dict, s) ==
  \A m \in Range(Members) : ReadMember(dict, m).outcome = "ok" /\ s[m] = ReadMember(dict, m).value

\* The members have names.
LEMMA MembersAre ==
  /\ DOMAIN Members = 1 .. 12
  /\ Range(Members) = {Members[k] : k \in 1 .. 12}
  /\ {"width", "height", "padding", "color_palette", "underlayer_color"} \subseteq Range(Members)
<1>1. DOMAIN Members = 1 .. 12
  BY DEF Members
<1>2. Range(Members) = {Members[k] : k \in 1 .. 12}
  BY <1>1 DEF Range
<1>3. /\ Members[1] = "width" /\ Members[2] = "height" /\ Members[3] = "padding"
      /\ Members[10] = "underlayer_color" /\ Members[12] = "color_palette"
  BY DEF Members
<1>4. {1, 2, 3, 10, 12} \subseteq 1 .. 12
  OBVIOUS
<1> QED
  BY <1>1, <1>2, <1>3, <1>4

\* Either all the settings are read, or one of them is not.
LEMMA SettingsRead ==
  ASSUME render_settings \in RenderSettings, GetRendererSettings
  PROVE  \/ pc' = "GetNonEmptyBuses" /\ ReadRight(render_settings, settings')
         \/ /\ pc' \in {"threw", "undefined"}
            /\ \E m \in Range(Members) : ReadMember(render_settings, m).outcome # "ok"
<1> DEFINE reads == [k \in 1 .. 12 |-> ReadMember(render_settings, Members[k])]
           read == InTurn(reads)
           IndexOf(m) == CHOOSE k \in 1 .. 12 : Members[k] = m
<1>1. /\ IF read.outcome = "ok"
         THEN /\ settings' = [m \in Range(Members) |-> read.value[IndexOf(m)]]
              /\ pc' = "GetNonEmptyBuses"
         ELSE pc' = read.outcome
  BY MembersAre DEF GetRendererSettings
<1>2. DOMAIN reads = 1 .. 12 /\ \A k \in 1 .. 12 : reads[k] = ReadMember(render_settings, Members[k])
  OBVIOUS
<1> HIDE DEF reads
<1>3. /\ read.outcome = "ok" <=> \A k \in 1 .. 12 : reads[k].outcome = "ok"
      /\ read.outcome = "ok" => read.value = [k \in 1 .. 12 |-> reads[k].value]
      /\ read.outcome # "ok" => \E k \in 1 .. 12 : read.outcome = reads[k].outcome
  BY <1>2, InTurnIs
<1> HIDE DEF read
<1>4. CASE read.outcome = "ok"
  <2>1. ASSUME NEW m \in Range(Members)
        PROVE  IndexOf(m) \in 1 .. 12 /\ Members[IndexOf(m)] = m
    <3>1. \E k \in 1 .. 12 : Members[k] = m
      BY MembersAre
    <3> QED
      BY <3>1
  <2> HIDE DEF IndexOf
  <2>2. ASSUME NEW m \in Range(Members)
        PROVE  /\ ReadMember(render_settings, m).outcome = "ok"
               /\ settings'[m] = ReadMember(render_settings, m).value
    <3>1. IndexOf(m) \in 1 .. 12 /\ Members[IndexOf(m)] = m
      BY <2>1
    <3>2. settings'[m] = read.value[IndexOf(m)]
      BY <1>1, <1>4
    <3>3. reads[IndexOf(m)] = ReadMember(render_settings, m) /\ reads[IndexOf(m)].outcome = "ok"
      BY <1>2, <1>3, <1>4, <3>1
    <3>4. read.value[IndexOf(m)] = reads[IndexOf(m)].value
      BY <1>3, <1>4, <3>1
    <3> QED
      BY <3>2, <3>3, <3>4
  <2> QED
    BY <1>1, <1>4, <2>2 DEF ReadRight
<1>5. CASE read.outcome # "ok"
  <2>1. PICK k \in 1 .. 12 : read.outcome = ReadMember(render_settings, Members[k]).outcome
    BY <1>2, <1>3, <1>5
  <2>2. Members[k] \in Range(Members)
    BY MembersAre
  <2>3. read.outcome \in Outcomes
    BY <2>1, MemberRead
  <2> QED
    BY <1>1, <1>5, <2>1, <2>2, <2>3 DEF Outcomes
<1> QED
  BY <1>4, <1>5

\* The palette that has been read.
LEMMA PaletteIs ==
  ASSUME NEW dict \in RenderSettings, NEW s, ReadRight(dict, s)
  PROVE  LET palette == dict.color_palette[2] IN
         /\ Len(palette) \in Nat /\ DOMAIN palette = 1 .. Len(palette)
         /\ palette \in Seq(Range(palette))
         /\ \A k \in 1 .. Len(palette) : ParseColor(palette[k]).outcome = "ok"
         /\ s.color_palette = [k \in 1 .. Len(palette) |-> ParseColor(palette[k]).value]
<1> DEFINE node == dict["color_palette"]
<1>1. /\ ReadMember(dict, "color_palette").outcome = "ok"
      /\ s["color_palette"] = ReadMember(dict, "color_palette").value
  BY MembersAre DEF ReadRight
<1>2. "color_palette" \in DOMAIN dict
  BY <1>1 DEF ReadMember, Throws
<1>3. ReadMember(dict, "color_palette") = ParsePalette(node)
  BY <1>2 DEF ReadMember
<1>4. IsNode(node)
  BY <1>2, SettingsAssumption
<1>5. ParsePalette(node).outcome = "ok"
  BY <1>1, <1>3
<1> HIDE DEF node
<1>6. /\ node[1] = "array" /\ Len(node[2]) \in Nat
      /\ DOMAIN node[2] = 1 .. Len(node[2])
      /\ \A k \in 1 .. Len(node[2]) : ParseColor(node[2][k]).outcome = "ok"
      /\ ParsePalette(node).value = [k \in 1 .. Len(node[2]) |-> ParseColor(node[2][k]).value]
  BY <1>4, <1>5, PaletteRead
<1>7. node[2] \in Seq(Range(node[2]))
  BY <1>4, <1>6 DEF IsNode, IsArray
<1> QED
  BY <1>1, <1>3, <1>6, <1>7 DEF node

\* The size of the picture is given in numbers.
LEMMA FrameIs ==
  ASSUME NEW dict \in RenderSettings, NEW s, ReadRight(dict, s)
  PROVE  s.width \in Int /\ s.height \in Int /\ s.padding \in Int
<1>1. ASSUME NEW m \in {"width", "height", "padding"}
      PROVE  s[m] \in Int
  <2>1. ReadMember(dict, m).outcome = "ok" /\ s[m] = ReadMember(dict, m).value
    BY MembersAre DEF ReadRight
  <2>2. m \in DOMAIN dict
    BY <2>1 DEF ReadMember, Throws
  <2>3. ReadMember(dict, m) = AsDouble(dict[m])
    BY <2>2 DEF ReadMember
  <2>4. IsNode(dict[m])
    BY <2>2, SettingsAssumption
  <2> QED
    BY <2>1, <2>3, <2>4, NumbersRead DEF IsNode, IsArray
<1> QED
  BY <1>1

-----------------------------------------------------------------------------
(* The catalogue that is drawn, and what is collected of it.                *)

DrawnOf(d) == {b \in DOMAIN d.buses : d.buses[b].stops # <<>>}

ShownOf(d) == UNION {Range(d.buses[b].stops) : b \in DrawnOf(d)}

StopOf(d, name) == d.stops[GetStop(d, name)]

\* The buses of a catalogue are a sequence of routes over its stops, and every
\* stop is found by its name.
LEMMA BaseIs ==
  ASSUME NEW d \in Bases
  PROVE  /\ Len(d.buses) \in Nat /\ DOMAIN d.buses = 1 .. Len(d.buses)
         /\ \A b \in DOMAIN d.buses :
              /\ d.buses[b].name \in Int
              /\ d.buses[b].stops \in Seq(NamesOf(d.stops))
              /\ d.buses[b].is_roundtrip \in BOOLEAN
              /\ ~d.buses[b].is_roundtrip /\ d.buses[b].stops # <<>> =>
                   Len(d.buses[b].stops) % 2 = 1
         /\ NamesOf(d.stops) \subseteq Int
         /\ \A name \in NamesOf(d.stops) :
              /\ StopOf(d, name).name = name
              /\ StopOf(d, name).coordinates \in [lat : Int, lng : Int]
<1>1. /\ d.stops \in Seq(Range(d.stops)) /\ d.buses \in Seq(Range(d.buses))
      /\ d.stop_by_name = [n \in NamesOf(d.stops) |-> LastNamed(d.stops, n)]
  BY BasesAssumption DEF IsFilled, TablesAgree
<1>2. /\ \A b \in DOMAIN d.buses : d.buses[b].name \in Int
      /\ NamesOf(d.stops) \subseteq Int
      /\ \A p \in DOMAIN d.stops : d.stops[p].coordinates \in [lat : Int, lng : Int]
  BY BasesAssumption DEF NamesOf
<1>3. \A b \in DOMAIN d.buses :
        /\ d.buses[b].stops \in Seq(NamesOf(d.stops))
        /\ d.buses[b].is_roundtrip \in BOOLEAN
        /\ ~d.buses[b].is_roundtrip /\ d.buses[b].stops # <<>> => Len(d.buses[b].stops) % 2 = 1
  BY BasesAssumption DEF IsFilled
<1>4. ASSUME NEW name \in NamesOf(d.stops)
      PROVE  /\ StopOf(d, name).name = name
             /\ StopOf(d, name).coordinates \in [lat : Int, lng : Int]
  <2>1. StopOf(d, name) = d.stops[LastNamed(d.stops, name)]
    BY <1>1 DEF StopOf, GetStop, Find
  <2>2. IsSeq(d.stops)
    BY <1>1 DEF IsSeq
  <2>3. LastNamed(d.stops, name) \in 1 .. Len(d.stops) /\ d.stops[LastNamed(d.stops, name)].name = name
    BY <2>2, LastNamedIs
  <2>4. DOMAIN d.stops = 1 .. Len(d.stops)
    BY <1>1
  <2> QED
    BY <1>2, <2>1, <2>3, <2>4
<1>5. Len(d.buses) \in Nat /\ DOMAIN d.buses = 1 .. Len(d.buses)
  BY <1>1
<1> QED
  BY <1>2, <1>3, <1>4, <1>5

\* They are finitely many.
LEMMA DrawnIs ==
  ASSUME NEW d \in Bases
  PROVE  IsFiniteSet(DrawnOf(d)) /\ Cardinality(DrawnOf(d)) \in Nat
<1> DEFINE n == Len(d.buses)
<1>1. n \in Nat /\ DOMAIN d.buses = 1 .. n
  BY BaseIs
<1>2. DrawnOf(d) \in SUBSET (1 .. n)
  BY <1>1 DEF DrawnOf
<1> HIDE DEF n
<1>3. IsFiniteSet(1 .. n)
  BY <1>1, FS_Interval
<1> QED
  BY <1>2, <1>3, FS_Subset, FS_CardinalityType

\* The buses in bs are those of the catalogue that have stops, in an order of their
\* names.
IsOrder(order, n, d, bs) ==
  /\ order \in [1 .. n -> DrawnOf(d)]
  /\ \A b \in DrawnOf(d) : \E k \in 1 .. n : order[k] = b
  /\ \A i, j \in 1 .. n : i # j => order[i] # order[j]
  /\ \A k \in 1 .. n : bs[k] = d.buses[order[k]]

BusesInOrder(d, bs) ==
  /\ IsSeq(bs)
  /\ \E order : IsOrder(order, Len(bs), d, bs)
  /\ \A i, j \in 1 .. Len(bs) : i < j => bs[i].name <= bs[j].name

\* GetNonEmptyBuses collects them.
LEMMA BusesRead ==
  ASSUME db \in Bases, GetNonEmptyBuses
  PROVE  BusesInOrder(db, buses')
<1> DEFINE S == DrawnOf(db)
           n == Cardinality(S)
<1>1. PICK order \in Sorted(S) : buses' = [k \in DOMAIN order |-> db.buses[order[k]]]
  BY DEF GetNonEmptyBuses, DrawnOf
<1>2. IsFiniteSet(S) /\ n \in Nat
  BY DrawnIs
<1> HIDE DEF S, n
<1>3. /\ order \in [1 .. n -> S] /\ \A i, j \in 1 .. n : i # j => order[i] # order[j]
      /\ \A i, j \in 1 .. n : i < j => db.buses[order[i]].name <= db.buses[order[j]].name
  <2>1. /\ order \in SetToSeqs(S)
        /\ \A i, j \in DOMAIN order : i < j => db.buses[order[i]].name <= db.buses[order[j]].name
    BY <1>1 DEF Sorted
  <2>2. order \in [1 .. n -> S] /\ \A i, j \in 1 .. n : i # j => order[i] # order[j]
    BY <2>1 DEF SetToSeqs, n
  <2> QED
    BY <2>1, <2>2
<1>4. \A b \in S : \E k \in 1 .. n : order[k] = b
  <2>1. order \in Injection(1 .. n, S)
    BY <1>3 DEF Injection, IsInjective
  <2>2. IsFiniteSet(1 .. n) /\ Cardinality(1 .. n) = Cardinality(S)
    BY <1>2, FS_Interval DEF n
  <2>3. order \in Surjection(1 .. n, S)
    BY <1>2, <2>1, <2>2, FS_Injection
  <2> QED
    BY <2>3 DEF Surjection
<1>5. DOMAIN order = 1 .. n
  BY <1>3
<1>6. /\ buses' \in Seq({db.buses[b] : b \in S})
      /\ Len(buses') = n
      /\ \A k \in 1 .. n : buses'[k] = db.buses[order[k]]
  BY <1>1, <1>2, <1>3, <1>5
<1>7. IsSeq(buses')
  BY <1>6, SeqIsSeq
<1>8. IsOrder(order, Len(buses'), db, buses')
  BY <1>3, <1>4, <1>6 DEF IsOrder, S
<1>9. \A i, j \in 1 .. Len(buses') : i < j => buses'[i].name <= buses'[j].name
  BY <1>3, <1>6
<1> QED
  BY <1>7, <1>8, <1>9 DEF BusesInOrder

\* A bus of the catalogue that has stops.
IsDrawn(d, bus) ==
  /\ bus.name \in Int
  /\ bus.stops \in Seq(NamesOf(d.stops))
  /\ Range(bus.stops) \subseteq ShownOf(d)
  /\ bus.stops # <<>>
  /\ bus.is_roundtrip \in BOOLEAN
  /\ ~bus.is_roundtrip => Len(bus.stops) % 2 = 1

\* The buses that are drawn are such buses.
LEMMA DrawnBus ==
  ASSUME NEW d \in Bases, NEW b \in DrawnOf(d)
  PROVE  IsDrawn(d, d.buses[b])
<1>1. b \in DOMAIN d.buses /\ d.buses[b].stops # <<>>
  BY DEF DrawnOf
<1>2. Range(d.buses[b].stops) \subseteq ShownOf(d)
  BY DEF ShownOf
<1> QED
  BY <1>1, <1>2, BaseIs DEF IsDrawn

\* What BusesInOrder says of single buses.
LEMMA BusIs ==
  ASSUME NEW d \in Bases, NEW bs, BusesInOrder(d, bs)
  PROVE  /\ Len(bs) \in Nat /\ DOMAIN bs = 1 .. Len(bs)
         /\ \A k \in 1 .. Len(bs) : IsDrawn(d, bs[k])
         /\ \A k \in 1 .. Len(bs) : \E b \in DrawnOf(d) : bs[k] = d.buses[b]
         /\ \A b \in DrawnOf(d) : \E k \in 1 .. Len(bs) : bs[k] = d.buses[b]
<1>1. PICK order : IsOrder(order, Len(bs), d, bs)
  BY DEF BusesInOrder
<1>2. Len(bs) \in Nat /\ DOMAIN bs = 1 .. Len(bs)
  BY DEF BusesInOrder, IsSeq
<1>3. \A k \in 1 .. Len(bs) : \E b \in DrawnOf(d) : bs[k] = d.buses[b]
  BY <1>1 DEF IsOrder
<1>4. \A b \in DrawnOf(d) : \E k \in 1 .. Len(bs) : bs[k] = d.buses[b]
  BY <1>1 DEF IsOrder
<1>5. \A k \in 1 .. Len(bs) : IsDrawn(d, bs[k])
  BY <1>3, DrawnBus
<1> QED
  BY <1>2, <1>3, <1>4, <1>5

\* The stops that are shown are finitely many stops of the catalogue.
LEMMA ShownIs ==
  ASSUME NEW d \in Bases
  PROVE  /\ IsFiniteSet(ShownOf(d))
         /\ ShownOf(d) \subseteq NamesOf(d.stops)
         /\ ShownOf(d) \in SUBSET Int
         /\ ShownOf(d) # {} <=> DrawnOf(d) # {}
<1> DEFINE calls == [b \in DrawnOf(d) |-> Range(d.buses[b].stops)]
           visited == {calls[b] : b \in DrawnOf(d)}
<1>1. \A b \in DrawnOf(d) : /\ d.buses[b].stops \in Seq(NamesOf(d.stops))
                            /\ d.buses[b].stops # <<>>
  BY BaseIs DEF DrawnOf
<1>2. ASSUME NEW b \in DrawnOf(d)
      PROVE  /\ IsFiniteSet(Range(d.buses[b].stops))
             /\ Range(d.buses[b].stops) \subseteq NamesOf(d.stops)
             /\ Range(d.buses[b].stops) # {}
  <2> DEFINE s == d.buses[b].stops
  <2>1. s \in Seq(NamesOf(d.stops)) /\ s # <<>>
    BY <1>1
  <2> HIDE DEF s
  <2>2. Len(s) \in Nat \ {0} /\ \A i \in 1 .. Len(s) : s[i] \in NamesOf(d.stops)
    BY <2>1
  <2>3. Range(s) = {s[i] : i \in 1 .. Len(s)}
    BY <2>1, SeqIsSeq
  <2>4. IsFiniteSet(1 .. Len(s)) /\ 1 \in 1 .. Len(s)
    BY <2>2, FS_Interval
  <2>5. IsFiniteSet({s[i] : i \in 1 .. Len(s)})
    BY <2>4, ImageIsFinite
  <2> QED
    BY <2>2, <2>3, <2>4, <2>5 DEF s
<1>3. IsFiniteSet(DrawnOf(d))
  BY DrawnIs
<1>4. IsFiniteSet(visited) /\ \A T \in visited : IsFiniteSet(T)
  <2>1. \A b \in DrawnOf(d) : IsFiniteSet(calls[b])
    BY <1>2
  <2>2. IsFiniteSet(visited)
    <3> HIDE DEF calls
    <3> QED
      BY <1>3, ImageIsFinite
  <2> QED
    BY <2>1, <2>2
<1>5. IsFiniteSet(UNION visited)
  <2> HIDE DEF visited
  <2> QED
    BY <1>4, FS_UNION
<1>6. ShownOf(d) = UNION visited
  BY DEF ShownOf
<1>7. ShownOf(d) \subseteq NamesOf(d.stops)
  BY <1>2 DEF ShownOf
<1>8. ShownOf(d) # {} <=> DrawnOf(d) # {}
  BY <1>2 DEF ShownOf
<1> QED
  BY <1>5, <1>6, <1>7, <1>8, BaseIs

\* The stops in their order.
StopsFor(d) ==
  [k \in 1 .. Len(Ascending(ShownOf(d))) |-> StopOf(d, Ascending(ShownOf(d))[k])]

\* GetStopsOnRoutes collects them.
LEMMA StopsRead ==
  ASSUME db \in Bases, BusesInOrder(db, buses), GetStopsOnRoutes
  PROVE  stops' = StopsFor(db)
<1>1. UNION {Range(buses[b].stops) : b \in DOMAIN buses} = ShownOf(db)
  <2>1. DOMAIN buses = 1 .. Len(buses)
    BY BusIs
  <2>2. \A k \in 1 .. Len(buses) : Range(buses[k].stops) \subseteq ShownOf(db)
    <3>1. \A k \in 1 .. Len(buses) : IsDrawn(db, buses[k])
      BY BusIs
    <3> QED
      BY <3>1 DEF IsDrawn
  <2>3. \A b \in DrawnOf(db) : \E k \in 1 .. Len(buses) : buses[k] = db.buses[b]
    BY BusIs
  <2> QED
    BY <2>1, <2>2, <2>3 DEF ShownOf
<1> DEFINE names == Ascending(ShownOf(db))
<1>2. DOMAIN names = 1 .. Len(names)
  <2>1. names \in Seq(ShownOf(db))
    BY ShownIs, AscendingIs
  <2> HIDE DEF names
  <2> QED
    BY <2>1
<1>3. stops' = [k \in DOMAIN names |-> StopNamed(names[k])]
  BY <1>1 DEF GetStopsOnRoutes
<1> HIDE DEF names
<1>4. stops' = [k \in 1 .. Len(names) |-> StopOf(db, names[k])]
  BY <1>2, <1>3 DEF StopNamed, StopOf
<1> QED
  BY <1>4 DEF StopsFor, names

\* There is one stop for every name that is shown.
LEMMA StopsAre ==
  ASSUME NEW d \in Bases
  PROVE  LET s == StopsFor(d) IN
         /\ IsSeq(s) /\ Len(s) = Cardinality(ShownOf(d))
         /\ Len(s) \in Nat /\ DOMAIN s = 1 .. Len(s)
         /\ \A k \in 1 .. Len(s) : /\ s[k].name \in ShownOf(d)
                                 /\ s[k].name = Ascending(ShownOf(d))[k]
                                 /\ s[k] = StopOf(d, s[k].name)
         /\ \A name \in ShownOf(d) : \E k \in 1 .. Len(s) : s[k] = StopOf(d, name)
<1> DEFINE names == Ascending(ShownOf(d))
           n == Len(names)
           s == StopsFor(d)
<1>1. names \in Seq(ShownOf(d)) /\ n = Cardinality(ShownOf(d)) /\ Range(names) = ShownOf(d)
  BY ShownIs, AscendingIs
<1>2. s = [k \in 1 .. n |-> StopOf(d, names[k])]
  BY DEF StopsFor
<1> HIDE DEF names
<1>3. /\ n \in Nat /\ \A k \in 1 .. n : names[k] \in ShownOf(d)
      /\ \A name \in ShownOf(d) : \E k \in 1 .. n : names[k] = name
  <2>1. n \in Nat /\ \A k \in 1 .. n : names[k] \in ShownOf(d)
    BY <1>1
  <2>2. \A name \in Range(names) : \E k \in 1 .. n : names[k] = name
    BY <1>1 DEF Range
  <2> QED
    BY <1>1, <2>1, <2>2
<1> HIDE DEF n, s
<1>4. \A name \in ShownOf(d) : StopOf(d, name).name = name
  BY ShownIs, BaseIs
<1>5. /\ s \in Seq({StopOf(d, name) : name \in ShownOf(d)})
      /\ Len(s) = n /\ DOMAIN s = 1 .. n
      /\ \A k \in 1 .. n : s[k] = StopOf(d, names[k])
  BY <1>2, <1>3
<1>6. IsSeq(s)
  BY <1>5, SeqIsSeq
<1>7. \A k \in 1 .. n : s[k].name = names[k] /\ s[k] = StopOf(d, s[k].name)
  BY <1>3, <1>4, <1>5
<1>8. \A name \in ShownOf(d) : \E k \in 1 .. n : s[k] = StopOf(d, name)
  BY <1>3, <1>5
<1>9. \A k \in 1 .. n : s[k].name \in ShownOf(d)
  BY <1>3, <1>7
<1> QED
  BY <1>1, <1>3, <1>5, <1>6, <1>7, <1>8, <1>9 DEF s, names

-----------------------------------------------------------------------------
(* The projector, from the catalogue and the settings alone.                *)

LngsOf(d) == {StopOf(d, name).coordinates.lng : name \in ShownOf(d)}

LatsOf(d) == {StopOf(d, name).coordinates.lat : name \in ShownOf(d)}

ZoomsOf(d, s) ==
  (IF Extent(LngsOf(d)) < EPSILON THEN {} ELSE {<<s.width - 2 * s.padding, Extent(LngsOf(d))>>})
  \cup
  (IF Extent(LatsOf(d)) < EPSILON THEN {} ELSE {<<s.height - 2 * s.padding, Extent(LatsOf(d))>>})

ZoomOf(d, s) ==
  IF ZoomsOf(d, s) = {} THEN <<0, 1>>
  ELSE CHOOSE z \in ZoomsOf(d, s) : \A y \in ZoomsOf(d, s) : z[1] * y[2] <= y[1] * z[2]

PointOf(d, s, name) ==
  LET c == StopOf(d, name).coordinates  z == ZoomOf(d, s) IN
  <<(c.lng - Min(LngsOf(d))) * z[1] + s.padding * z[2],
    (Max(LatsOf(d)) - c.lat) * z[1] + s.padding * z[2],
    z[2]>>

\* With the stops collected the projector is this one.
LEMMA ProjectIs ==
  ASSUME db \in Bases, stops = StopsFor(db)
  PROVE  /\ Lngs = LngsOf(db) /\ Lats = LatsOf(db)
         /\ \A name : Project(name) = PointOf(db, settings, name)
<1>1. /\ DOMAIN stops = 1 .. Len(stops)
      /\ \A k \in 1 .. Len(stops) :
           stops[k].name \in ShownOf(db) /\ stops[k] = StopOf(db, stops[k].name)
      /\ \A name \in ShownOf(db) : \E k \in 1 .. Len(stops) : stops[k] = StopOf(db, name)
  BY StopsAre
<1>2. Lngs = LngsOf(db)
  BY <1>1 DEF Lngs, LngsOf
<1>3. Lats = LatsOf(db)
  BY <1>1 DEF Lats, LatsOf
<1>4. Zooms = ZoomsOf(db, settings)
  BY <1>2, <1>3 DEF Zooms, ZoomsOf
<1>5. Zoom = ZoomOf(db, settings)
  BY <1>4 DEF Zoom, ZoomOf
<1>6. ASSUME NEW name
      PROVE  Project(name) = PointOf(db, settings, name)
  <2>1. StopNamed(name) = StopOf(db, name)
    BY DEF StopNamed, StopOf
  <2> QED
    BY <1>2, <1>3, <1>5, <2>1 DEF Project, PointOf
<1> QED
  BY <1>2, <1>3, <1>6

-----------------------------------------------------------------------------
(* The routes that are drawn.                                               *)

PointsOf(d, s, route) == [i \in 1 .. Len(route) |-> PointOf(d, s, route[i])]

LineOf(d, s, bus, last) == [bus |-> bus, points |-> PointsOf(d, s, last.stops)]

\* Of every name one bus is drawn, with the points of one that may be another.
\* Where no two buses have one name, every bus is drawn with its own.
RoutesInOrder(d, s, bs, rt) ==
  /\ IsSeq(rt)
  /\ \A k \in 1 .. Len(rt) : \E i, j \in 1 .. Len(bs) :
       bs[i].name = bs[j].name /\ rt[k] = LineOf(d, s, bs[i], bs[j])
  /\ (\A i, j \in 1 .. Len(bs) : i < j => bs[i].name < bs[j].name) =>
       Len(rt) = Len(bs) /\ \A k \in 1 .. Len(bs) : rt[k] = LineOf(d, s, bs[k], bs[k])

\* GetRouteToProjectoredPoints collects them.
LEMMA RoutesRead ==
  ASSUME db \in Bases, BusesInOrder(db, buses), stops = StopsFor(db),
         GetRouteToProjectoredPoints
  PROVE  RoutesInOrder(db, settings, buses, routes')
<1> DEFINE n == Len(buses)
           Keys == {k \in 1 .. n : \A j \in 1 .. k - 1 : buses[j].name < buses[k].name}
           Same(k) == {j \in 1 .. n : buses[j].name = buses[k].name}
           keys == Ascending(Keys)
           m == Len(keys)
           Line(k) == LineOf(db, settings, buses[keys[k]], buses[Max(Same(keys[k]))])
<1>1. /\ n \in Nat /\ DOMAIN buses = 1 .. n
      /\ \A k \in 1 .. n : IsDrawn(db, buses[k])
  BY BusIs
<1>2. Keys \in SUBSET (1 .. n)
  OBVIOUS
<1>3. Keys \in SUBSET Int /\ IsFiniteSet(Keys)
  <2> HIDE DEF Keys, n
  <2>1. IsFiniteSet(1 .. n)
    BY <1>1, FS_Interval
  <2>2. IsFiniteSet(Keys)
    BY <1>2, <2>1, FS_Subset
  <2>3. \A k \in 1 .. n : k \in Int
    OBVIOUS
  <2>4. Keys \in SUBSET Int
    BY <1>2, <2>3
  <2> QED
    BY <2>2, <2>4
<1>4. keys \in Seq(Keys) /\ DOMAIN keys = 1 .. m /\ m \in Nat
  <2> HIDE DEF Keys
  <2>1. keys \in Seq(Keys)
    BY <1>3, AscendingIs
  <2> HIDE DEF keys
  <2> QED
    BY <2>1
<1>5. \A k \in 1 .. m : keys[k] \in 1 .. n
  <2> HIDE DEF Keys, keys, m, n
  <2>1. \A k \in 1 .. m : keys[k] \in Keys
    BY <1>4 DEF m
  <2> QED
    BY <1>2, <2>1
<1>6. \A k \in 1 .. n : Max(Same(k)) \in Same(k)
  <2> TAKE k \in 1 .. n
  <2>1. Same(k) \in SUBSET (1 .. n) /\ k \in Same(k)
    OBVIOUS
  <2> HIDE DEF Same, n
  <2> QED
    BY <1>1, <2>1, MaxProperties
<1>7. routes' = [k \in 1 .. m |-> Line(k)]
  <2>1. routes' =
          [k \in DOMAIN keys |->
             [bus    |-> buses[keys[k]],
              points |-> [i \in DOMAIN buses[Max(Same(keys[k]))].stops |->
                            Project(buses[Max(Same(keys[k]))].stops[i])]]]
    BY <1>1 DEF GetRouteToProjectoredPoints
  <2>2. ASSUME NEW k \in 1 .. m
        PROVE  [i \in DOMAIN buses[Max(Same(keys[k]))].stops |->
                  Project(buses[Max(Same(keys[k]))].stops[i])]
                 = PointsOf(db, settings, buses[Max(Same(keys[k]))].stops)
    <3> DEFINE j == Max(Same(keys[k]))
    <3>1. j \in 1 .. n
      BY <1>5, <1>6
    <3> HIDE DEF j
    <3>2. IsDrawn(db, buses[j])
      BY <1>1, <3>1
    <3>3. buses[j].stops \in Seq(NamesOf(db.stops))
      BY <3>2 DEF IsDrawn
    <3>4. DOMAIN buses[j].stops = 1 .. Len(buses[j].stops)
      BY <3>3
    <3>5. \A name : Project(name) = PointOf(db, settings, name)
      BY ProjectIs
    <3>6. [i \in DOMAIN buses[j].stops |-> Project(buses[j].stops[i])]
            = PointsOf(db, settings, buses[j].stops)
      BY <3>4, <3>5 DEF PointsOf
    <3> QED
      BY <3>6 DEF j
  <2> HIDE DEF keys, Same, m
  <2> QED
    BY <1>4, <2>1, <2>2 DEF LineOf
<1> HIDE DEF Line, keys, m, Keys
<1>8. /\ routes' \in Seq({Line(k) : k \in 1 .. m}) /\ Len(routes') = m
      /\ \A k \in 1 .. m : routes'[k] = Line(k)
  BY <1>4, <1>7
<1>9. IsSeq(routes')
  BY <1>8, SeqIsSeq
<1>10. ASSUME NEW k \in 1 .. m
       PROVE  \E i, j \in 1 .. n :
                buses[i].name = buses[j].name
                /\ routes'[k] = LineOf(db, settings, buses[i], buses[j])
  <2>1. keys[k] \in 1 .. n
    BY <1>5
  <2>2. Max(Same(keys[k])) \in 1 .. n /\ buses[Max(Same(keys[k]))].name = buses[keys[k]].name
    BY <1>6, <2>1
  <2>3. routes'[k] = LineOf(db, settings, buses[keys[k]], buses[Max(Same(keys[k]))])
    BY <1>8 DEF Line
  <2> HIDE DEF Same
  <2> QED
    BY <2>1, <2>2, <2>3
<1>11. ASSUME \A i, j \in 1 .. n : i < j => buses[i].name < buses[j].name
       PROVE  m = n /\ \A k \in 1 .. n : routes'[k] = LineOf(db, settings, buses[k], buses[k])
  <2>1. Keys = 1 .. n
    <3>1. \A k \in 1 .. n : \A j \in 1 .. k - 1 : j \in 1 .. n /\ j < k
      BY <1>1
    <3> QED
      BY <1>11, <3>1 DEF Keys
  <2>2. m = n /\ \A k \in 1 .. n : keys[k] = k
    BY <1>1, <2>1, AscendingInterval DEF keys, m
  <2>3. \A k \in 1 .. n : Max(Same(k)) = k
    <3> TAKE k \in 1 .. n
    <3>1. Max(Same(k)) \in 1 .. n /\ buses[Max(Same(k))].name = buses[k].name
      BY <1>6
    <3> DEFINE j == Max(Same(k))
    <3>2. buses[k].name \in Int
      BY <1>1 DEF IsDrawn
    <3> HIDE DEF j
    <3>3. j \in 1 .. n /\ buses[j].name = buses[k].name
      BY <3>1 DEF j
    <3>4. ~ (j < k) /\ ~ (k < j)
      BY <1>11, <3>2, <3>3
    <3>5. j = k
      BY <3>3, <3>4
    <3> QED
      BY <3>5 DEF j
  <2> HIDE DEF Same
  <2>4. \A k \in 1 .. n : Line(k) = LineOf(db, settings, buses[k], buses[k])
    BY <2>2, <2>3 DEF Line
  <2> QED
    BY <1>8, <2>2, <2>4
<1> QED
  BY <1>8, <1>9, <1>10, <1>11 DEF RoutesInOrder

-----------------------------------------------------------------------------
(* What objects look like when they are written.                            *)

Object(class, members, props) == [class |-> class, members |-> members, props |-> props]

\* What the setters do to an object.
LEMMA Setters ==
  ASSUME NEW class, NEW members, NEW props, NEW values
  PROVE  /\ Set(Object(class, members, props), values)
              = Object(class, Over(values, members), props)
         /\ SetProps(Object(class, members, props), values)
              = Object(class, members, Over(values, props))
<1> DEFINE o == Object(class, members, props)
<1>1. o.members = members /\ o.props = props
  BY DEF Object
<1>2. ASSUME NEW v
      PROVE  /\ [o EXCEPT !.members = v] = Object(class, v, props)
             /\ [o EXCEPT !.props = v] = Object(class, members, v)
  BY DEF Object
<1> HIDE DEF o
<1>3. Set(o, values) = [o EXCEPT !.members = Over(values, members)]
  BY <1>1 DEF Set
<1>4. SetProps(o, values) = [o EXCEPT !.props = Over(values, props)]
  BY <1>1 DEF SetProps
<1> QED
  BY <1>2, <1>3, <1>4 DEF o

\* A member is written under its name, unless it is a font that has none.
IsMentioned(members, m) == m \in {"font_weight", "font_family"} => members[m] # ""

\* RenderObject writes the properties and the members of an object.
LEMMA ElementIs ==
  ASSUME NEW class, NEW members, NEW props,
         DOMAIN members \cap DOMAIN props = {}
  PROVE  LET e == RenderObject(Object(class, members, props)) IN
         /\ e.tag = class
         /\ \A x : x \in DOMAIN e.attributes <=>
             (x \in DOMAIN props \/ (x \in DOMAIN members /\ IsMentioned(members, x)))
         /\ \A x \in DOMAIN props : e.attributes[x] = IF x \in {"fill", "stroke"}
                                                     THEN ColorPrinter(props[x]) ELSE props[x]
         /\ \A x \in DOMAIN members : IsMentioned(members, x) => e.attributes[x] = members[x]
<1> DEFINE o == Object(class, members, props)
           written == {m \in DOMAIN members : IsMentioned(members, m)}
           own == [m \in written |-> members[m]]
           path == RenderAttrs(props)
           all == Over(path, own)
           e == RenderObject(o)
<1>1. e = [tag |-> class, attributes |-> all]
  BY DEF RenderObject, IsMentioned, Object
<1>2. /\ DOMAIN path = DOMAIN props
      /\ \A x \in DOMAIN props : path[x] = IF x \in {"fill", "stroke"}
                                          THEN ColorPrinter(props[x]) ELSE props[x]
  BY DEF RenderAttrs
<1>3. DOMAIN own = written /\ \A x \in written : own[x] = members[x]
  OBVIOUS
<1> HIDE DEF own, path
<1>4. /\ DOMAIN all = DOMAIN path \cup DOMAIN own
      /\ \A x \in DOMAIN path : all[x] = path[x]
      /\ \A x \in DOMAIN own \ DOMAIN path : all[x] = own[x]
  BY DEF Over
<1> HIDE DEF all
<1>5. \A x : x \in DOMAIN all <=>
             (x \in DOMAIN props \/ (x \in DOMAIN members /\ IsMentioned(members, x)))
  BY <1>2, <1>3, <1>4
<1>6. \A x \in DOMAIN props : all[x] = IF x \in {"fill", "stroke"}
                                     THEN ColorPrinter(props[x]) ELSE props[x]
  BY <1>2, <1>4
<1>7. \A x \in DOMAIN members : IsMentioned(members, x) => all[x] = members[x]
  BY <1>2, <1>3, <1>4
<1>8. e.tag = class /\ e.attributes = all
  BY <1>1
<1> HIDE DEF e
<1>9. /\ e.tag = class
      /\ \A x : x \in DOMAIN e.attributes <=>
             (x \in DOMAIN props \/ (x \in DOMAIN members /\ IsMentioned(members, x)))
      /\ \A x \in DOMAIN props : e.attributes[x] = IF x \in {"fill", "stroke"}
                                                  THEN ColorPrinter(props[x]) ELSE props[x]
      /\ \A x \in DOMAIN members : IsMentioned(members, x) => e.attributes[x] = members[x]
  BY <1>5, <1>6, <1>7, <1>8
<1> QED
  BY <1>9 DEF e

\* A line through points, a circle at a point, and a text that is written twice:
\* as a shade, and without an outline over it.
IsLine(e, points, color) ==
  /\ e.tag = "polyline"
  /\ e.attributes.points = points
  /\ e.attributes.stroke = color
  /\ e.attributes.fill = <<"none">>

IsCircle(e, point) == e.tag = "circle" /\ e.attributes.center = point

IsText(e, point, text, is_bold) ==
  /\ e.tag = "text"
  /\ e.attributes.point = point
  /\ e.attributes.content = <<text>>
  /\ "font_weight" \in DOMAIN e.attributes <=> is_bold

IsShade(e, point, text, is_bold) ==
  IsText(e, point, text, is_bold) /\ "stroke" \in DOMAIN e.attributes

IsName(e, point, text, color, is_bold) ==
  /\ IsText(e, point, text, is_bold)
  /\ "stroke" \notin DOMAIN e.attributes
  /\ e.attributes.fill = color

ColorOf(s, k) == s.color_palette[((k - 1) % Len(s.color_palette)) + 1]

\* RenderRoutes draws lines.
LEMMA LineIs ==
  ASSUME NEW points, NEW color, NEW width
  PROVE  IsLine(RenderObject(Set(SetProps(Polyline, Over([fill |-> NoneColor, stroke |-> color,
                                                          stroke_width |-> width], Round)),
                                 [points |-> points])),
                points, ColorPrinter(color))
<1> DEFINE props == Over(Over([fill |-> NoneColor, stroke |-> color, stroke_width |-> width],
                              Round), <<>>)
           members == Over([points |-> points], [points |-> <<>>])
<1>1. Set(SetProps(Polyline, Over([fill |-> NoneColor, stroke |-> color, stroke_width |-> width],
                                  Round)), [points |-> points])
        = Object("polyline", members, props)
  <2> DEFINE path == Over([fill |-> NoneColor, stroke |-> color, stroke_width |-> width], Round)
             own == [points |-> points]
             none == [points |-> <<>>]
  <2>1. Polyline = Object("polyline", none, <<>>)
    BY DEF Polyline, Object
  <2> HIDE DEF path, own, none
  <2>2. SetProps(Polyline, path)
          = Object("polyline", none, Over(path, <<>>))
    BY <2>1, Setters
  <2>3. Set(SetProps(Polyline, path), own)
          = Object("polyline", Over(own, none), Over(path, <<>>))
    BY <2>2, Setters
  <2> QED
    BY <2>3 DEF path, own, none
<1>2. DOMAIN members = {"points"} /\ members["points"] = points
  BY DEF Over
<1>3. /\ DOMAIN props = {"fill", "stroke", "stroke_width", "stroke_linecap", "stroke_linejoin"}
      /\ props["fill"] = NoneColor /\ props["stroke"] = color
  BY DEF Over, Round
<1> HIDE DEF members, props
<1>4. DOMAIN members \cap DOMAIN props = {}
  BY <1>2, <1>3
<1> DEFINE e == RenderObject(Object("polyline", members, props))
<1>5. /\ e.tag = "polyline"
      /\ \A x \in DOMAIN props : e.attributes[x] = IF x \in {"fill", "stroke"}
                                                  THEN ColorPrinter(props[x]) ELSE props[x]
      /\ \A x \in DOMAIN members : IsMentioned(members, x) => e.attributes[x] = members[x]
  BY <1>4, ElementIs
<1> HIDE DEF e
<1>6. /\ e.attributes["fill"] = ColorPrinter(NoneColor)
      /\ e.attributes["stroke"] = ColorPrinter(color)
  BY <1>3, <1>5
<1>7. e.attributes["points"] = points
  BY <1>2, <1>5 DEF IsMentioned
<1>8. ColorPrinter(NoneColor) = <<"none">>
  BY DEF ColorPrinter, NoneColor
<1>9. IsLine(e, points, ColorPrinter(color))
  BY <1>5, <1>6, <1>7, <1>8 DEF IsLine
<1> QED
  BY <1>1, <1>9 DEF e

\* RenderStopCircles draws circles.
LEMMA CircleIs ==
  ASSUME NEW point, NEW radius, NEW color
  PROVE  IsCircle(RenderObject(Set(SetProps(Circle, [fill |-> color]),
                                   [center |-> point, radius |-> radius])), point)
<1> DEFINE props == Over([fill |-> color], <<>>)
           members == Over([center |-> point, radius |-> radius], [center |-> Origin, radius |-> 1])
<1>1. Set(SetProps(Circle, [fill |-> color]), [center |-> point, radius |-> radius])
        = Object("circle", members, props)
  <2> DEFINE path == [fill |-> color]
             own == [center |-> point, radius |-> radius]
             first == [center |-> Origin, radius |-> 1]
  <2>1. Circle = Object("circle", first, <<>>)
    BY DEF Circle, Object
  <2> HIDE DEF path, own, first
  <2>2. SetProps(Circle, path) = Object("circle", first, Over(path, <<>>))
    BY <2>1, Setters
  <2>3. Set(SetProps(Circle, path), own)
          = Object("circle", Over(own, first), Over(path, <<>>))
    BY <2>2, Setters
  <2> QED
    BY <2>3 DEF path, own, first
<1>2. DOMAIN members = {"center", "radius"} /\ members["center"] = point
  BY DEF Over
<1>3. DOMAIN props = {"fill"}
  BY DEF Over
<1> HIDE DEF members, props
<1>4. DOMAIN members \cap DOMAIN props = {}
  BY <1>2, <1>3
<1> DEFINE e == RenderObject(Object("circle", members, props))
<1>5. /\ e.tag = "circle"
      /\ \A x \in DOMAIN members : IsMentioned(members, x) => e.attributes[x] = members[x]
  BY <1>4, ElementIs
<1> HIDE DEF e
<1>6. e.attributes["center"] = point
  BY <1>2, <1>5 DEF IsMentioned
<1>7. IsCircle(e, point)
  BY <1>5, <1>6 DEF IsCircle
<1> QED
  BY <1>1, <1>7 DEF e

\* What the setters have made of a text.
TextObject(members) == Object("text", members, <<>>)

IsTextOf(members, point, text, is_bold) ==
  /\ DOMAIN members = DOMAIN Text.members
  /\ members.point = point
  /\ members.content = <<text>>
  /\ members.font_weight # "" <=> is_bold

\* Shaded gives a shade and the text.
LEMMA ShadedIs ==
  ASSUME NEW members, NEW point, NEW text, NEW is_bold \in BOOLEAN, NEW color,
         IsTextOf(members, point, text, is_bold)
  PROVE  LET q == Shaded(TextObject(members), color) IN
         /\ Len(q) = 2 /\ q \in Seq(Range(q)) /\ q = <<q[1], q[2]>>
         /\ IsShade(RenderObject(q[1]), point, text, is_bold)
         /\ IsName(RenderObject(q[2]), point, text, ColorPrinter(color), is_bold)
<1> DEFINE shade == Over(Over([fill |-> settings.underlayer_color,
                               stroke |-> settings.underlayer_color,
                               stroke_width |-> settings.underlayer_width], Round), <<>>)
           plain == Over([fill |-> color], <<>>)
           q == Shaded(TextObject(members), color)
<1>1. q = <<Object("text", members, shade), Object("text", members, plain)>>
  BY Setters DEF Shaded, TextObject
<1>2. DOMAIN shade = {"fill", "stroke", "stroke_width", "stroke_linecap", "stroke_linejoin"}
  BY DEF Over, Round
<1>3. DOMAIN plain = {"fill"} /\ plain["fill"] = color
  BY DEF Over
<1> HIDE DEF shade, plain, q
<1>4. /\ DOMAIN members = {"point", "offset", "font_size", "font_weight", "font_family", "content"}
      /\ members["point"] = point /\ members["content"] = <<text>>
      /\ members["font_weight"] # "" <=> is_bold
  BY DEF IsTextOf, Text
<1>5. ASSUME NEW props, DOMAIN props \cap DOMAIN members = {}
      PROVE  /\ IsText(RenderObject(Object("text", members, props)), point, text, is_bold)
             /\ \A x \in {"fill", "stroke"} :
                  x \in DOMAIN RenderObject(Object("text", members, props)).attributes <=> x \in DOMAIN props
             /\ "fill" \in DOMAIN props =>
                  RenderObject(Object("text", members, props)).attributes["fill"] = ColorPrinter(props["fill"])
  <2> DEFINE e == RenderObject(Object("text", members, props))
  <2>1. DOMAIN members \cap DOMAIN props = {}
    BY <1>5
  <2>2. /\ e.tag = "text"
        /\ \A x : x \in DOMAIN e.attributes <=>
             (x \in DOMAIN props \/ (x \in DOMAIN members /\ IsMentioned(members, x)))
        /\ \A x \in DOMAIN props : e.attributes[x] = IF x \in {"fill", "stroke"}
                                                    THEN ColorPrinter(props[x]) ELSE props[x]
        /\ \A x \in DOMAIN members : IsMentioned(members, x) => e.attributes[x] = members[x]
    BY <2>1, ElementIs
  <2> HIDE DEF e
  <2>3. e.attributes["point"] = point /\ e.attributes["content"] = <<text>>
    BY <1>4, <2>2 DEF IsMentioned
  <2>4. "font_weight" \in DOMAIN e.attributes <=> is_bold
    <3>1. IsMentioned(members, "font_weight") <=> is_bold
      BY <1>4 DEF IsMentioned
    <3>2. "font_weight" \in DOMAIN members /\ "font_weight" \notin DOMAIN props
      BY <1>4, <2>1
    <3> QED
      BY <2>2, <3>1, <3>2
  <2>5. \A x \in {"fill", "stroke"} : x \in DOMAIN e.attributes <=> x \in DOMAIN props
    <3>1. "fill" \notin DOMAIN members /\ "stroke" \notin DOMAIN members
      BY <1>4
    <3> QED
      BY <2>2, <3>1
  <2>6. "fill" \in DOMAIN props => e.attributes["fill"] = ColorPrinter(props["fill"])
    BY <2>2
  <2>7. IsText(e, point, text, is_bold)
    BY <2>2, <2>3, <2>4 DEF IsText
  <2> QED
    BY <2>5, <2>6, <2>7 DEF e
<1>6. DOMAIN shade \cap DOMAIN members = {} /\ DOMAIN plain \cap DOMAIN members = {}
  BY <1>2, <1>3, <1>4
<1>7. IsShade(RenderObject(Object("text", members, shade)), point, text, is_bold)
  BY <1>2, <1>5, <1>6 DEF IsShade
<1>8. IsName(RenderObject(Object("text", members, plain)), point, text, ColorPrinter(color), is_bold)
  BY <1>3, <1>5, <1>6 DEF IsName
<1>9. Len(q) = 2 /\ q[1] = Object("text", members, shade) /\ q[2] = Object("text", members, plain) /\ q \in Seq(Range(q))
  <2>1. q \in Seq({Object("text", members, shade), Object("text", members, plain)})
    BY <1>1
  <2>2. q \in Seq(Range(q))
    BY <2>1, SeqIsSeq DEF IsSeq
  <2> QED
    BY <1>1, <2>2
<1>10. q = <<q[1], q[2]>>
  BY <1>1, <1>9
<1> QED
  BY <1>7, <1>8, <1>9, <1>10 DEF q

-----------------------------------------------------------------------------
(* Where the parts of a joined sequence begin.                              *)

\* f holds the first m of seqs, one after the other, and off says where each ends.
InBlocks(f, seqs, m, off) ==
  /\ Len(f) = off[m]
  /\ \A k \in 1 .. m : \A j \in 1 .. Len(seqs[k]) : f[off[k - 1] + j] = seqs[k][j]
  /\ \A i \in 1 .. Len(f) : \E k \in 1 .. m : off[k - 1] < i /\ i <= off[k]

\* The ends of the parts.
IsEnds(off, seqs) ==
  /\ off[0] = 0
  /\ \A k \in 1 .. Len(seqs) : off[k] = off[k - 1] + Len(seqs[k])
  /\ \A k \in 0 .. Len(seqs) : off[k] \in Nat
  /\ \A j, k \in 0 .. Len(seqs) : j <= k => off[j] <= off[k]

LEMMA EndsExist ==
  ASSUME NEW S, NEW seqs \in Seq(Seq(S))
  PROVE  \E off : IsEnds(off, seqs)
<1> DEFINE n == Len(seqs)
           d == [k \in 1 .. n |-> Len(seqs[k])]
<1>1. n \in Nat /\ \A k \in 1 .. n : d[k] \in Nat
  <2>1. n \in Nat /\ \A k \in 1 .. n : seqs[k] \in Seq(S)
    OBVIOUS
  <2> QED
    BY <2>1
<1>2. \A k \in 1 .. n : d[k] = Len(seqs[k])
  OBVIOUS
<1> HIDE DEF n, d
<1>3. PICK off : IsRunningSum(off, n, d)
  BY <1>1, RunningSum
<1>4. /\ off[0] = 0
      /\ \A k \in 1 .. n : off[k] = off[k - 1] + d[k]
      /\ \A k \in 0 .. n : off[k] \in Int
  <2>1. \A k \in 1 .. n : d[k] \in Int
    BY <1>1
  <2> QED
    BY <1>1, <1>3, <2>1, RunningSumIs
<1> DEFINE Good == {k \in Nat : k <= n => off[k] \in Nat /\ \A j \in 0 .. k : off[j] <= off[k]}
<1>5. 0 \in Good
  BY <1>4
<1>6. ASSUME NEW k \in Nat, k \in Good
      PROVE  k + 1 \in Good
  <2> SUFFICES ASSUME k + 1 <= n
               PROVE  off[k + 1] \in Nat /\ \A j \in 0 .. k + 1 : off[j] <= off[k + 1]
    OBVIOUS
  <2>1. k + 1 \in 1 .. n /\ k <= n /\ (k + 1) - 1 = k
    BY <1>1
  <2>2. off[k + 1] = off[k] + d[k + 1] /\ d[k + 1] \in Nat
    BY <1>1, <1>4, <2>1
  <2>3. off[k] \in Nat /\ \A j \in 0 .. k : off[j] <= off[k]
    BY <1>6, <2>1
  <2>4. off[k + 1] \in Nat /\ off[k] <= off[k + 1]
    BY <2>2, <2>3
  <2>5. ASSUME NEW j \in 0 .. k + 1
        PROVE  off[j] <= off[k + 1]
    <3>1. CASE j = k + 1
      BY <2>4, <3>1
    <3>2. CASE j # k + 1
      <4>1. j \in 0 .. k /\ j \in 0 .. n
        <5>1. j \in 0 .. k
          BY <3>2
        <5>2. k \in Int /\ n \in Int /\ k <= n
          BY <1>1, <2>1
        <5> QED
          BY <5>1, <5>2
      <4>2. off[j] \in Int /\ off[j] <= off[k]
        BY <1>4, <2>3, <4>1
      <4> QED
        BY <2>3, <2>4, <4>2
    <3> QED
      BY <3>1, <3>2
  <2> QED
    BY <2>4, <2>5
<1> HIDE DEF Good
<1>7. Nat \subseteq Good
  BY <1>5, <1>6, Induction
<1>8. \A k \in 0 .. n : off[k] \in Nat /\ \A j \in 0 .. k : off[j] <= off[k]
  <2> TAKE k \in 0 .. n
  <2>1. k \in Nat /\ k <= n
    BY <1>1
  <2> QED
    BY <1>7, <2>1 DEF Good
<1>9. \A j, k \in 0 .. n : j <= k => off[j] <= off[k]
  <2> TAKE j, k \in 0 .. n
  <2> HAVE j <= k
  <2>1. j \in 0 .. k
    BY <1>1
  <2> QED
    BY <1>8, <2>1
<1>10. \A k \in 1 .. n : off[k] = off[k - 1] + Len(seqs[k])
  BY <1>2, <1>4
<1> QED
  BY <1>4, <1>8, <1>9, <1>10 DEF IsEnds, n

\* One more part.
LEMMA BlockNext ==
  ASSUME NEW S, NEW seqs \in Seq(Seq(S)), NEW off, IsEnds(off, seqs),
         NEW m \in Nat, m + 1 <= Len(seqs),
         NEW f \in Seq(S), InBlocks(f, seqs, m, off)
  PROVE  f \o seqs[m + 1] \in Seq(S) /\ InBlocks(f \o seqs[m + 1], seqs, m + 1, off)
<1> DEFINE n == Len(seqs)
           h == seqs[m + 1]
           g == f \o h
<1>1. n \in Nat /\ m + 1 \in 1 .. n /\ \A k \in 1 .. n : seqs[k] \in Seq(S)
  OBVIOUS
<1>2. h \in Seq(S) /\ Len(h) \in Nat /\ Len(f) \in Nat
  BY <1>1
<1> HIDE DEF n
<1>3. /\ Len(f) = off[m] /\ off[m + 1] = off[m] + Len(h)
      /\ \A k \in 0 .. n : off[k] \in Nat
      /\ \A j, k \in 0 .. n : j <= k => off[j] <= off[k]
  <2>1. Len(f) = off[m]
    BY DEF InBlocks
  <2>2. off[m + 1] = off[(m + 1) - 1] + Len(h)
    BY <1>1 DEF IsEnds, n
  <2>3. (m + 1) - 1 = m
    OBVIOUS
  <2>4. /\ \A k \in 0 .. n : off[k] \in Nat
        /\ \A j, k \in 0 .. n : j <= k => off[j] <= off[k]
    BY DEF IsEnds, n
  <2> QED
    BY <2>1, <2>2, <2>3, <2>4
<1> HIDE DEF h
<1>4. /\ g \in Seq(S) /\ Len(g) = Len(f) + Len(h)
      /\ \A i \in 1 .. Len(f) + Len(h) : g[i] = IF i <= Len(f) THEN f[i] ELSE h[i - Len(f)]
  BY <1>2, ConcatProperties
<1> HIDE DEF g
<1>5. Len(g) = off[m + 1]
  BY <1>3, <1>4
<1>6. ASSUME NEW k \in 1 .. m + 1, NEW j \in 1 .. Len(seqs[k])
      PROVE  g[off[k - 1] + j] = seqs[k][j]
  <2>1. CASE k = m + 1
    <3>1. k - 1 = m /\ seqs[k] = h
      BY <2>1 DEF h
    <3> DEFINE x == off[m] + j
    <3>2. x \in 1 .. Len(f) + Len(h) /\ ~ (x <= Len(f)) /\ x - Len(f) = j
      <4>1. j \in 1 .. Len(h) /\ x = Len(f) + j
        BY <1>3, <3>1
      <4> HIDE DEF x
      <4> QED
        BY <1>2, <4>1
    <3> HIDE DEF x
    <3>3. g[x] = h[j]
      BY <1>4, <3>2
    <3> QED
      BY <3>1, <3>3 DEF x
  <2>2. CASE k # m + 1
    <3>1. k \in 1 .. m /\ k \in 1 .. n /\ k - 1 \in 0 .. n /\ k \in 0 .. n /\ m \in 0 .. n /\ k <= m
      BY <1>1, <2>2
    <3>2. f[off[k - 1] + j] = seqs[k][j]
      BY <3>1 DEF InBlocks
    <3>3. off[k] = off[k - 1] + Len(seqs[k])
      BY <3>1 DEF IsEnds, n
    <3>4. off[k] <= off[m] /\ off[k - 1] \in Nat /\ off[k] \in Nat /\ off[m] \in Nat
      BY <1>3, <3>1
    <3>5. Len(seqs[k]) \in Nat
      BY <1>1, <3>1
    <3>6. off[k - 1] + j \in 1 .. Len(f) + Len(h) /\ off[k - 1] + j <= Len(f)
      <4> DEFINE l == Len(seqs[k])
                 before == off[k - 1]
      <4>1. l \in Nat /\ j \in 1 .. l /\ before \in Nat /\ off[k] = before + l
        BY <3>3, <3>4, <3>5
      <4>2. off[k] <= Len(f) /\ Len(f) \in Nat /\ Len(h) \in Nat
        BY <1>2, <1>3, <3>4
      <4> HIDE DEF l, before
      <4>3. before + j \in 1 .. Len(f) + Len(h) /\ before + j <= Len(f)
        BY <4>1, <4>2
      <4> QED
        BY <4>3 DEF before
    <3> QED
      BY <1>4, <3>2, <3>6
  <2> QED
    BY <2>1, <2>2
<1>7. ASSUME NEW i \in 1 .. Len(g)
      PROVE  \E k \in 1 .. m + 1 : off[k - 1] < i /\ i <= off[k]
  <2>1. CASE i <= Len(f)
    <3>1. i \in 1 .. Len(f)
      BY <2>1
    <3>2. PICK k \in 1 .. m : off[k - 1] < i /\ i <= off[k]
      BY <3>1 DEF InBlocks
    <3> QED
      BY <3>2
  <2>2. CASE ~ (i <= Len(f))
    <3>1. (m + 1) - 1 = m /\ m + 1 \in 1 .. m + 1
      OBVIOUS
    <3>2. off[m] < i /\ i <= off[m + 1]
      BY <1>2, <1>3, <1>5, <2>2
    <3> QED
      BY <3>1, <3>2
  <2> QED
    BY <2>1, <2>2
<1> QED
  BY <1>4, <1>5, <1>6, <1>7 DEF InBlocks, g, h

\* What FlattenSeq makes of them.
LEMMA FlattenBlocks ==
  ASSUME NEW S, NEW seqs \in Seq(Seq(S)), NEW off, IsEnds(off, seqs)
  PROVE  FlattenSeq(seqs) \in Seq(S) /\ InBlocks(FlattenSeq(seqs), seqs, Len(seqs), off)
<1> DEFINE n == Len(seqs)
<1>1. n \in Nat /\ \A k \in 1 .. n : seqs[k] \in Seq(S)
  OBVIOUS
<1>2. off[0] = 0 /\ \A k \in 1 .. n : off[k] = off[k - 1] + Len(seqs[k])
  BY DEF IsEnds
<1>3. InBlocks(<<>>, seqs, 0, off) /\ <<>> \in Seq(S)
  <2>1. Len(<<>>) = off[0] /\ \A k \in 1 .. 0 : FALSE
    BY <1>2
  <2>2. \A i \in 1 .. Len(<<>>) : FALSE
    OBVIOUS
  <2> QED
    BY <2>1, <2>2 DEF InBlocks
<1>4. CASE n = 0
  <2>1. FlattenSeq(seqs) = seqs
    BY <1>4, Zenon DEF FlattenSeq
  <2>2. seqs = <<>>
    BY <1>4
  <2> QED
    BY <1>3, <1>4, <2>1, <2>2
<1>5. CASE n # 0
  <2>1. n \in Nat \ {0}
    BY <1>1, <1>5
  <2>2. PICK f : IsFlattening(f, seqs) /\ FlattenSeq(seqs) = f[n]
    BY <2>1, FlattenSeqIs
  <2>3. \A m \in 1 .. n : f[m] = IF m = 1 THEN seqs[m] ELSE f[m - 1] \o seqs[m]
    BY <2>2 DEF IsFlattening
  <2> DEFINE Fine(m) == f[m] \in Seq(S) /\ InBlocks(f[m], seqs, m, off)
             Good == {m \in Nat : m \in 1 .. n => Fine(m)}
  <2>4. 0 \in Good
    OBVIOUS
  <2>5. ASSUME NEW m \in Nat, m \in Good
        PROVE  m + 1 \in Good
    <3> SUFFICES ASSUME m + 1 \in 1 .. n PROVE Fine(m + 1)
      OBVIOUS
    <3>1. f[m + 1] = IF m + 1 = 1 THEN seqs[m + 1] ELSE f[(m + 1) - 1] \o seqs[m + 1]
      BY <2>3
    <3>2. CASE m = 0
      <4>1. <<>> \o seqs[1] \in Seq(S) /\ InBlocks(<<>> \o seqs[1], seqs, 1, off)
        <5>1. 0 \in Nat /\ 0 + 1 <= Len(seqs) /\ 0 + 1 = 1
          BY <3>2
        <5> QED
          BY <1>3, <5>1, BlockNext
      <4>2. <<>> \o seqs[1] = seqs[1]
        BY <1>1, <3>2
      <4>3. f[1] = seqs[1]
        BY <3>1, <3>2
      <4> QED
        BY <3>2, <4>1, <4>2, <4>3
    <3>3. CASE m # 0
      <4>1. Fine(m)
        BY <2>5, <3>3
      <4>2. m + 1 # 1 /\ (m + 1) - 1 = m
        BY <3>3
      <4>3. f[m + 1] = f[m] \o seqs[m + 1]
        BY <3>1, <4>2, Zenon
      <4>4. m + 1 <= Len(seqs)
        OBVIOUS
      <4>5. f[m] \o seqs[m + 1] \in Seq(S) /\ InBlocks(f[m] \o seqs[m + 1], seqs, m + 1, off)
        BY <4>1, <4>4, BlockNext
      <4> QED
        BY <4>3, <4>5
    <3> QED
      BY <3>2, <3>3
  <2> HIDE DEF Good, Fine
  <2>6. Nat \subseteq Good
    BY <2>4, <2>5, Induction
  <2>7. Fine(n)
    BY <1>1, <1>5, <2>6 DEF Good
  <2> QED
    BY <2>2, <2>7 DEF Fine
<1> QED
  BY <1>4, <1>5

-----------------------------------------------------------------------------
(* The layers.                                                              *)

\* A text with its shade, after the first o objects of q.
IsPair(q, o, point, text, color, is_bold) ==
  /\ IsShade(RenderObject(q[o + 1]), point, text, is_bold)
  /\ IsName(RenderObject(q[o + 2]), point, text, color, is_bold)

\* One line for each route.
LinesDrawn(s, rt, q) ==
  /\ IsSeq(q)
  /\ Len(q) = Len(rt)
  /\ \A k \in 1 .. Len(rt) :
       IsLine(RenderObject(q[k]), rt[k].points, ColorPrinter(ColorOf(s, k)))

\* RenderRoutes adds them.
LEMMA LinesRead ==
  ASSUME RenderRoutes, document = <<>>, IsSeq(routes), pc' # "undefined"
  PROVE  /\ pc' = "RenderRouteNames"
         /\ LinesDrawn(settings, routes, document')
<1> DEFINE n == Len(routes)
           Drawing(k) == Set(SetProps(Polyline, Over([fill |-> NoneColor, stroke |-> Color(k),
                                                      stroke_width |-> settings.line_width], Round)),
                             [points |-> routes[k].points])
           q == [k \in 1 .. n |-> Drawing(k)]
<1>1. n \in Nat /\ DOMAIN routes = 1 .. n
  BY DEF IsSeq
<1>2. pc' = "RenderRouteNames" /\ document' = document \o q
  BY <1>1 DEF RenderRoutes
<1>3. ASSUME NEW k
      PROVE  IsLine(RenderObject(Drawing(k)), routes[k].points, ColorPrinter(ColorOf(settings, k)))
  <2>1. Color(k) = ColorOf(settings, k)
    BY DEF Color, ColorOf
  <2> QED
    BY <2>1, LineIs
<1> HIDE DEF Drawing
<1>4. q \in Seq({Drawing(k) : k \in 1 .. n}) /\ Len(q) = n /\ \A k \in 1 .. n : q[k] = Drawing(k)
  BY <1>1
<1> HIDE DEF q, n
<1>5. document' = q
  BY <1>2, <1>4
<1>6. IsSeq(q)
  BY <1>4, SeqIsSeq
<1> QED
  BY <1>2, <1>3, <1>4, <1>5, <1>6 DEF LinesDrawn, n

\* What the setters make of a text.
LEMMA SetText ==
  ASSUME NEW values
  PROVE  Set(Text, values) = TextObject(Over(values, Text.members))
<1> DEFINE first == Text.members
<1>1. Text = Object("text", first, <<>>)
  BY DEF Text, Object
<1> HIDE DEF first
<1>2. Set(Text, values) = Object("text", Over(values, first), <<>>)
  BY <1>1, Setters
<1> QED
  BY <1>2 DEF TextObject, first

\* The name of a bus at a point.
LEMMA RouteNameIs ==
  ASSUME NEW point, NEW color, NEW name
  PROVE  LET q == RenderRouteName(point, color, name) IN
         /\ Len(q) = 2 /\ IsSeq(q)
         /\ IsPair(q, 0, point, name, ColorPrinter(color), TRUE)
<1> DEFINE values == [content |-> <<name>>, point |-> point, offset |-> settings.bus_label_offset,
                      font_size |-> settings.bus_label_font_size,
                      font_family |-> "Verdana", font_weight |-> "bold"]
           members == Over(values, Text.members)
           q == Shaded(TextObject(members), color)
<1>1. RenderRouteName(point, color, name) = q
  BY SetText DEF RenderRouteName
<1>2. IsTextOf(members, point, name, TRUE)
  <2>1. DOMAIN values \subseteq DOMAIN Text.members
    BY DEF Text
  <2>2. DOMAIN members = DOMAIN Text.members
    BY <2>1 DEF Over
  <2>3. members.point = point /\ members.content = <<name>> /\ members.font_weight # ""
    BY DEF Over
  <2> QED
    BY <2>2, <2>3 DEF IsTextOf
<1> HIDE DEF members
<1>3. /\ Len(q) = 2 /\ q \in Seq(Range(q))
      /\ IsShade(RenderObject(q[1]), point, name, TRUE)
      /\ IsName(RenderObject(q[2]), point, name, ColorPrinter(color), TRUE)
  BY <1>2, ShadedIs
<1> HIDE DEF q
<1>4. IsPair(q, 0, point, name, ColorPrinter(color), TRUE)
  <2>1. 0 + 1 = 1 /\ 0 + 2 = 2
    OBVIOUS
  <2> QED
    BY <1>3, <2>1 DEF IsPair
<1> QED
  BY <1>1, <1>3, <1>4 DEF IsSeq

\* The names of the k-th route, after the first o objects of q.
HasLabels(s, rt, q, k, o) ==
  /\ IsPair(q, o, rt[k].points[1], rt[k].bus.name, ColorPrinter(ColorOf(s, k)), TRUE)
  /\ HasSecondName(rt[k].bus) =>
       IsPair(q, o + 2, rt[k].points[Middle(rt[k].bus)], rt[k].bus.name,
              ColorPrinter(ColorOf(s, k)), TRUE)

LabelCount(bus) == IF HasSecondName(bus) THEN 4 ELSE 2

\* Each route has its names in a block of their own.
LabelsEnd(off, rt) ==
  /\ off[0] = 0
  /\ \A k \in 1 .. Len(rt) : off[k] = off[k - 1] + LabelCount(rt[k].bus)
  /\ \A k \in 0 .. Len(rt) : off[k] \in Nat
  /\ \A j, k \in 0 .. Len(rt) : j <= k => off[j] <= off[k]

LabelsAt(s, rt, q, off) ==
  /\ Len(q) = off[Len(rt)]
  /\ \A k \in 1 .. Len(rt) : HasLabels(s, rt, q, k, off[k - 1])
  /\ \A i \in 1 .. Len(q) : \E k \in 1 .. Len(rt) : off[k - 1] < i /\ i <= off[k]

\* The points that the names of a route are put at are there.
HasPoints(route) ==
  /\ route.points # <<>>
  /\ HasSecondName(route.bus) => ~ (Middle(route.bus) > Len(route.points))

LabelsDrawn(s, rt, q) ==
  /\ IsSeq(q)
  /\ \A k \in 1 .. Len(rt) : HasPoints(rt[k])
  /\ \E off : LabelsEnd(off, rt) /\ LabelsAt(s, rt, q, off)

\* What RenderRouteNames writes for one route.
Labels(k) ==
  RenderRouteName(routes[k].points[1], Color(k), routes[k].bus.name)
  \o IF HasSecondName(routes[k].bus)
     THEN RenderRouteName(routes[k].points[Middle(routes[k].bus)], Color(k), routes[k].bus.name)
     ELSE <<>>

\* A pair stays a pair where its sequence becomes part of another.
LEMMA PairMoves ==
  ASSUME NEW q, NEW o, NEW r, NEW p, q[o + 1] = r[p + 1], q[o + 2] = r[p + 2],
         NEW point, NEW text, NEW color, NEW is_bold,
         IsPair(r, p, point, text, color, is_bold)
  PROVE  IsPair(q, o, point, text, color, is_bold)
  BY DEF IsPair

\* They are one name, or two.
LEMMA LabelsAre ==
  ASSUME NEW k
  PROVE  /\ IsSeq(Labels(k)) /\ Len(Labels(k)) = LabelCount(routes[k].bus)
         /\ HasLabels(settings, routes, Labels(k), k, 0)
<1> DEFINE bus == routes[k].bus
           color == ColorPrinter(ColorOf(settings, k))
           place == routes[k].points[1]
           turn == routes[k].points[Middle(bus)]
           g == RenderRouteName(place, Color(k), bus.name)
           h == RenderRouteName(turn, Color(k), bus.name)
           q == Labels(k)
           Fine == /\ IsSeq(q) /\ Len(q) = LabelCount(bus)
                   /\ HasLabels(settings, routes, q, k, 0)
<1> SUFFICES Fine
  OBVIOUS
<1>1. Color(k) = ColorOf(settings, k)
  BY DEF Color, ColorOf
<1>2. /\ Len(g) = 2 /\ IsSeq(g) /\ IsPair(g, 0, place, bus.name, color, TRUE)
      /\ Len(h) = 2 /\ IsSeq(h) /\ IsPair(h, 0, turn, bus.name, color, TRUE)
  BY <1>1, RouteNameIs
<1>3. q = g \o IF HasSecondName(bus) THEN h ELSE <<>>
  BY DEF Labels
<1> HIDE DEF g, h, q
<1>4. CASE ~HasSecondName(bus)
  <2>1. q = g
    BY <1>2, <1>3, <1>4 DEF IsSeq
  <2> QED
    BY <1>2, <1>4, <2>1 DEF HasLabels, LabelCount
<1>5. CASE HasSecondName(bus)
  <2> DEFINE S == Range(g) \cup Range(h)
  <2>1. g \in Seq(S) /\ h \in Seq(S)
    BY <1>2 DEF IsSeq
  <2>2. /\ q \in Seq(S) /\ Len(q) = 4
        /\ q[1] = g[1] /\ q[2] = g[2] /\ q[3] = h[1] /\ q[4] = h[2]
    <3>1. q = g \o h
      BY <1>3, <1>5
    <3> HIDE DEF S
    <3>2. /\ q \in Seq(S) /\ Len(q) = Len(g) + Len(h)
          /\ \A i \in 1 .. Len(g) + Len(h) : q[i] = IF i <= Len(g) THEN g[i] ELSE h[i - Len(g)]
      BY <2>1, <3>1, ConcatProperties
    <3>3. \A i \in 1 .. 4 : q[i] = IF i <= 2 THEN g[i] ELSE h[i - 2]
      BY <1>2, <3>2
    <3> QED
      BY <1>2, <3>2, <3>3
  <2>3. IsPair(q, 0, place, bus.name, color, TRUE)
    <3>1. q[0 + 1] = g[0 + 1] /\ q[0 + 2] = g[0 + 2]
      BY <2>2
    <3> QED
      BY <1>2, <3>1, PairMoves
  <2>4. IsPair(q, 0 + 2, turn, bus.name, color, TRUE)
    <3>1. q[(0 + 2) + 1] = h[0 + 1] /\ q[(0 + 2) + 2] = h[0 + 2]
      BY <2>2
    <3> QED
      BY <1>2, <3>1, PairMoves
  <2>5. IsSeq(q)
    BY <2>2, SeqIsSeq
  <2> QED
    BY <1>5, <2>2, <2>3, <2>4, <2>5 DEF HasLabels, LabelCount
<1> QED
  BY <1>4, <1>5

\* RenderRouteNames adds them, unless it reads past the end of the points.
LEMMA LabelsRead ==
  ASSUME RenderRouteNames, IsSeq(routes), IsSeq(document)
  PROVE  \/ pc' = "undefined" /\ \E k \in 1 .. Len(routes) :
              \/ routes[k].points = <<>>
              \/ /\ HasSecondName(routes[k].bus)
                 /\ Middle(routes[k].bus) > Len(routes[k].points)
         \/ /\ pc' = "RenderStopCircles"
            /\ \E q : document' = document \o q /\ LabelsDrawn(settings, routes, q)
<1> DEFINE n == Len(routes)
           seqs == [k \in 1 .. n |-> Labels(k)]
           q == FlattenSeq(seqs)
           S == UNION {Range(Labels(k)) : k \in 1 .. n}
<1>1. n \in Nat /\ DOMAIN routes = 1 .. n
  BY DEF IsSeq
<1>2. CASE pc' = "undefined"
  <2>1. \E k \in DOMAIN routes :
             \/ routes[k].points = <<>>
             \/ /\ HasSecondName(routes[k].bus)
                /\ Middle(routes[k].bus) > Len(routes[k].points)
    BY <1>2 DEF RenderRouteNames
  <2> QED
    BY <1>1, <1>2, <2>1
<1>3. CASE pc' # "undefined"
  <2>1. pc' = "RenderStopCircles" /\ document' = document \o q
    BY <1>1, <1>3 DEF RenderRouteNames, Labels
  <2>2. seqs \in Seq(Seq(S))
    <3>1. \A k \in 1 .. n : Labels(k) \in Seq(S)
      <4> TAKE k \in 1 .. n
      <4>1. Labels(k) \in Seq(Range(Labels(k)))
        BY LabelsAre DEF IsSeq
      <4>2. Range(Labels(k)) \subseteq S
        OBVIOUS
      <4> HIDE DEF S
      <4> QED
        BY <4>1, <4>2
    <3> HIDE DEF S, n
    <3> QED
      BY <1>1, <3>1
  <2>3. Len(seqs) = n /\ \A k \in 1 .. n : seqs[k] = Labels(k)
    BY <1>1
  <2> HIDE DEF seqs, S
  <2>4. PICK off : IsEnds(off, seqs)
    BY <2>2, EndsExist
  <2>5. q \in Seq(S) /\ InBlocks(q, seqs, Len(seqs), off)
    BY <2>2, <2>4, FlattenBlocks
  <2> HIDE DEF q, n
  <2>6. LabelsEnd(off, routes)
    <3>1. \A k \in 1 .. n : Len(seqs[k]) = LabelCount(routes[k].bus)
      BY <2>3, LabelsAre
    <3> QED
      BY <2>3, <2>4, <3>1 DEF IsEnds, LabelsEnd, n
  <2>7. ASSUME NEW k \in 1 .. n
        PROVE  HasLabels(settings, routes, q, k, off[k - 1])
    <3> DEFINE o == off[k - 1]
               r == Labels(k)
               bus == routes[k].bus
    <3>1. /\ IsSeq(r) /\ Len(r) = LabelCount(bus)
          /\ HasLabels(settings, routes, r, k, 0)
      BY LabelsAre
    <3>2. \A j \in 1 .. Len(r) : q[o + j] = r[j]
      BY <2>3, <2>5 DEF InBlocks
    <3>3. o \in Nat
      <4>1. k - 1 \in 0 .. n
        BY <1>1
      <4> QED
        BY <2>3, <2>4, <4>1 DEF IsEnds
    <3> HIDE DEF o, r
    <3>4. IsPair(q, o, routes[k].points[1], bus.name, ColorPrinter(ColorOf(settings, k)), TRUE)
      <4>1. 1 \in 1 .. Len(r) /\ 2 \in 1 .. Len(r)
        BY <3>1 DEF LabelCount
      <4>2. q[o + 1] = r[0 + 1] /\ q[o + 2] = r[0 + 2]
        BY <3>2, <4>1
      <4>3. IsPair(r, 0, routes[k].points[1], bus.name, ColorPrinter(ColorOf(settings, k)), TRUE)
        BY <3>1 DEF HasLabels
      <4> QED
        BY <4>2, <4>3, PairMoves
    <3>5. ASSUME HasSecondName(bus)
          PROVE  IsPair(q, o + 2, routes[k].points[Middle(bus)], bus.name,
                        ColorPrinter(ColorOf(settings, k)), TRUE)
      <4>1. 3 \in 1 .. Len(r) /\ 4 \in 1 .. Len(r)
        BY <3>1, <3>5 DEF LabelCount
      <4>2. q[o + 3] = r[3] /\ q[o + 4] = r[4]
        BY <3>2, <4>1
      <4>3. (o + 2) + 1 = o + 3 /\ (o + 2) + 2 = o + 4 /\ (0 + 2) + 1 = 3 /\ (0 + 2) + 2 = 4
        BY <3>3
      <4>4. q[(o + 2) + 1] = r[(0 + 2) + 1] /\ q[(o + 2) + 2] = r[(0 + 2) + 2]
        BY <4>2, <4>3
      <4>5. IsPair(r, 0 + 2, routes[k].points[Middle(bus)], bus.name,
                   ColorPrinter(ColorOf(settings, k)), TRUE)
        BY <3>1, <3>5 DEF HasLabels
      <4> QED
        BY <4>4, <4>5, PairMoves
    <3> QED
      BY <3>4, <3>5 DEF HasLabels, o
  <2>8. LabelsAt(settings, routes, q, off)
    <3>1. /\ Len(q) = off[n]
          /\ \A i \in 1 .. Len(q) : \E k \in 1 .. n : off[k - 1] < i /\ i <= off[k]
      BY <2>3, <2>5 DEF InBlocks
    <3> QED
      BY <2>7, <3>1 DEF LabelsAt, n
  <2>9. IsSeq(q)
    BY <2>5, SeqIsSeq
  <2>10. \A k \in 1 .. n : HasPoints(routes[k])
    BY <1>1, <1>3 DEF RenderRouteNames, HasPoints, n
  <2> QED
    BY <2>1, <2>6, <2>8, <2>9, <2>10 DEF LabelsDrawn, n
<1> QED
  BY <1>2, <1>3

\* One circle for each stop, and one name.
CirclesDrawn(d, s, st, q) ==
  /\ IsSeq(q)
  /\ Len(q) = Len(st)
  /\ \A k \in 1 .. Len(st) : IsCircle(RenderObject(q[k]), PointOf(d, s, st[k].name))

NamesDrawn(d, s, st, q) ==
  /\ IsSeq(q)
  /\ Len(q) = 2 * Len(st)
  /\ \A k \in 1 .. Len(st) :
       IsPair(q, 2 * (k - 1), PointOf(d, s, st[k].name), st[k].name, <<"black">>, FALSE)

\* RenderStopCircles adds the circles.
LEMMA CirclesRead ==
  ASSUME db \in Bases, stops = StopsFor(db), RenderStopCircles
  PROVE  /\ pc' = "RenderStopNames"
         /\ \E q : document' = document \o q /\ CirclesDrawn(db, settings, stops, q)
<1> DEFINE n == Len(stops)
           Drawing(k) == Set(SetProps(Circle, [fill |-> <<"string", "white">>]),
                             [center |-> Project(stops[k].name), radius |-> settings.stop_radius])
           q == [k \in 1 .. n |-> Drawing(k)]
<1>1. n \in Nat /\ DOMAIN stops = 1 .. n
  BY StopsAre
<1>2. pc' = "RenderStopNames" /\ document' = document \o q
  BY <1>1 DEF RenderStopCircles
<1>3. ASSUME NEW k
      PROVE  IsCircle(RenderObject(Drawing(k)), PointOf(db, settings, stops[k].name))
  <2>1. Project(stops[k].name) = PointOf(db, settings, stops[k].name)
    BY ProjectIs
  <2> QED
    BY <2>1, CircleIs
<1> HIDE DEF Drawing
<1>4. q \in Seq({Drawing(k) : k \in 1 .. n}) /\ Len(q) = n /\ \A k \in 1 .. n : q[k] = Drawing(k)
  BY <1>1
<1> HIDE DEF q, n
<1>5. IsSeq(q)
  BY <1>4, SeqIsSeq
<1>6. CirclesDrawn(db, settings, stops, q)
  BY <1>3, <1>4, <1>5 DEF CirclesDrawn, n
<1> QED
  BY <1>2, <1>6

\* What RenderStopNames writes for one stop.
StopName(k) ==
  Shaded(Set(Text, [content |-> <<stops[k].name>>, point |-> Project(stops[k].name),
                    offset |-> settings.stop_label_offset,
                    font_size |-> settings.stop_label_font_size,
                    font_family |-> "Verdana"]), <<"string", "black">>)

\* It is the name of the stop, at its place.
LEMMA StopNameIs ==
  ASSUME NEW k
  PROVE  /\ Len(StopName(k)) = 2 /\ IsSeq(StopName(k))
         /\ IsPair(StopName(k), 0, Project(stops[k].name), stops[k].name, <<"black">>, FALSE)
<1> DEFINE name == stops[k].name
           point == Project(name)
           values == [content |-> <<name>>, point |-> point, offset |-> settings.stop_label_offset,
                      font_size |-> settings.stop_label_font_size, font_family |-> "Verdana"]
           members == Over(values, Text.members)
           color == <<"string", "black">>
           q == Shaded(TextObject(members), color)
           Fine == /\ Len(q) = 2 /\ IsSeq(q)
                   /\ IsPair(q, 0, point, name, <<"black">>, FALSE)
<1>1. StopName(k) = q
  BY SetText DEF StopName
<1> SUFFICES Fine
  BY <1>1
<1> HIDE DEF name, point
<1>2. IsTextOf(members, point, name, FALSE)
  <2>1. DOMAIN values \subseteq DOMAIN Text.members
    BY DEF Text
  <2>2. DOMAIN members = DOMAIN Text.members
    BY <2>1 DEF Over
  <2>3. members.point = point /\ members.content = <<name>> /\ members.font_weight = ""
    BY DEF Over, Text
  <2> QED
    BY <2>2, <2>3 DEF IsTextOf
<1>3. ColorPrinter(color) = <<"black">>
  BY DEF ColorPrinter
<1> HIDE DEF members, color
<1>4. /\ Len(q) = 2 /\ q \in Seq(Range(q))
      /\ IsShade(RenderObject(q[1]), point, name, FALSE)
      /\ IsName(RenderObject(q[2]), point, name, ColorPrinter(color), FALSE)
  BY <1>2, ShadedIs
<1> HIDE DEF q
<1>5. IsPair(q, 0, point, name, <<"black">>, FALSE)
  <2>1. 0 + 1 = 1 /\ 0 + 2 = 2
    OBVIOUS
  <2> QED
    BY <1>3, <1>4, <2>1 DEF IsPair
<1> QED
  BY <1>4, <1>5 DEF IsSeq

\* RenderStopNames adds the names.
LEMMA NamesRead ==
  ASSUME db \in Bases, stops = StopsFor(db), RenderStopNames
  PROVE  /\ pc' = "SerializeMapRender"
         /\ \E q : document' = document \o q /\ NamesDrawn(db, settings, stops, q)
<1> DEFINE n == Len(stops)
           seqs == [k \in 1 .. n |-> StopName(k)]
           q == FlattenSeq(seqs)
           S == UNION {Range(StopName(k)) : k \in 1 .. n}
           off == [k \in 0 .. n |-> 2 * k]
<1>1. n \in Nat /\ DOMAIN stops = 1 .. n
  BY StopsAre
<1>2. pc' = "SerializeMapRender" /\ document' = document \o q
  BY <1>1 DEF RenderStopNames, StopName
<1>3. seqs \in Seq(Seq(S))
  <2>1. \A k \in 1 .. n : StopName(k) \in Seq(S)
    <3> TAKE k \in 1 .. n
    <3>1. StopName(k) \in Seq(Range(StopName(k)))
      BY StopNameIs DEF IsSeq
    <3>2. Range(StopName(k)) \subseteq S
      OBVIOUS
    <3> HIDE DEF S
    <3> QED
      BY <3>1, <3>2
  <2> HIDE DEF S, n
  <2> QED
    BY <1>1, <2>1
<1>4. Len(seqs) = n /\ \A k \in 1 .. n : seqs[k] = StopName(k)
  BY <1>1
<1>5. \A k \in 0 .. n : off[k] = 2 * k
  OBVIOUS
<1> HIDE DEF seqs, S, off, n
<1>6. \A k \in 1 .. n : Len(seqs[k]) = 2
  BY <1>4, StopNameIs
<1>7. IsEnds(off, seqs)
  <2>1. \A k \in 1 .. n : k \in 0 .. n /\ k - 1 \in 0 .. n
    BY <1>1
  <2>2. \A k \in 1 .. n : off[k] = off[k - 1] + 2
    BY <1>5, <2>1
  <2>3. 0 \in 0 .. n /\ off[0] = 0
    BY <1>1, <1>5
  <2>4. \A k \in 0 .. n : off[k] \in Nat
    BY <1>1, <1>5
  <2>5. \A j, k \in 0 .. n : j <= k => off[j] <= off[k]
    BY <1>1, <1>5
  <2> QED
    BY <1>4, <1>6, <2>2, <2>3, <2>4, <2>5 DEF IsEnds
<1>8. q \in Seq(S) /\ InBlocks(q, seqs, n, off)
  BY <1>3, <1>4, <1>7, FlattenBlocks
<1> HIDE DEF q
<1>9. Len(q) = 2 * n
  BY <1>1, <1>5, <1>8 DEF InBlocks
<1>10. ASSUME NEW k \in 1 .. n
       PROVE  IsPair(q, 2 * (k - 1), PointOf(db, settings, stops[k].name), stops[k].name,
                     <<"black">>, FALSE)
  <2> DEFINE o == off[k - 1]
             r == StopName(k)
             name == stops[k].name
  <2>1. o = 2 * (k - 1)
    <3>1. k - 1 \in 0 .. n
      BY <1>1
    <3> QED
      BY <1>5, <3>1
  <2>2. \A j \in 1 .. 2 : q[o + j] = r[j]
    <3>1. Len(seqs[k]) = 2 /\ seqs[k] = r
      BY <1>4, <1>6
    <3> HIDE DEF r, o
    <3> QED
      BY <1>8, <3>1 DEF InBlocks, o
  <2>3. IsPair(r, 0, Project(name), name, <<"black">>, FALSE)
    BY StopNameIs
  <2>4. Project(name) = PointOf(db, settings, name)
    BY ProjectIs
  <2> HIDE DEF o, r, name
  <2>5. q[o + 1] = r[0 + 1] /\ q[o + 2] = r[0 + 2]
    BY <2>2
  <2> DEFINE point == PointOf(db, settings, name)
             black == <<"black">>
  <2>6. IsPair(r, 0, point, name, black, FALSE)
    BY <2>3, <2>4
  <2> HIDE DEF point, black
  <2>7. IsPair(q, o, point, name, black, FALSE)
    BY <2>5, <2>6, PairMoves
  <2> QED
    BY <2>1, <2>7 DEF name, o, point, black
<1>11. IsSeq(q)
  BY <1>8, SeqIsSeq
<1>12. NamesDrawn(db, settings, stops, q)
  BY <1>9, <1>10, <1>11 DEF NamesDrawn, n
<1> QED
  BY <1>2, <1>12

-----------------------------------------------------------------------------
(* The inductive invariant.                                                 *)

\* The picture layer by layer, as far as it has been drawn.
LabelsOn(s, rt, q) ==
  \E a, b : q = a \o b /\ LinesDrawn(s, rt, a) /\ LabelsDrawn(s, rt, b)

CirclesOn(d, s, rt, st, q) ==
  \E a, b : q = a \o b /\ LabelsOn(s, rt, a) /\ CirclesDrawn(d, s, st, b)

NamesOn(d, s, rt, st, q) ==
  \E a, b : q = a \o b /\ CirclesOn(d, s, rt, st, a) /\ NamesDrawn(d, s, st, b)

\* The functions of RenderMap that run with the routes, the stops, the buses
\* and the settings collected, and those that run before anything is drawn.
HasRoutes ==
  {"RenderRoutes", "RenderRouteNames", "RenderStopCircles", "RenderStopNames",
   "SerializeMapRender", "done"}

HasStops == {"GetRouteToProjectoredPoints"} \cup HasRoutes

HasBuses == {"GetStopsOnRoutes"} \cup HasStops

HasSettings == {"GetNonEmptyBuses"} \cup HasBuses

IsBlank ==
  {"GetRendererSettings", "GetNonEmptyBuses", "GetStopsOnRoutes",
   "GetRouteToProjectoredPoints", "RenderRoutes"}

CollectedInv ==
  /\ db \in Bases
  /\ render_settings \in RenderSettings
  /\ pc \in HasSettings => ReadRight(render_settings, settings)
  /\ pc \in HasBuses => BusesInOrder(db, buses)
  /\ pc \in HasStops => stops = StopsFor(db)
  /\ pc \in HasRoutes => RoutesInOrder(db, settings, buses, routes)

DrawnInv ==
  /\ pc \in IsBlank => document = <<>>
  /\ pc \in HasRoutes \ IsBlank => routes = <<>> \/ settings.color_palette # <<>>
  /\ pc = "RenderRouteNames" => LinesDrawn(settings, routes, document)
  /\ pc = "RenderStopCircles" => LabelsOn(settings, routes, document)
  /\ pc = "RenderStopNames" => CirclesOn(db, settings, routes, stops, document)
  /\ pc \in {"SerializeMapRender", "done"} => NamesOn(db, settings, routes, stops, document)
  /\ pc = "done" => map = RenderDocument(document)

\* Joined sequences are sequences.
LEMMA JoinedIsSeq ==
  ASSUME NEW a, NEW b, IsSeq(a), IsSeq(b)
  PROVE  /\ IsSeq(a \o b) /\ Len(a) \in Nat /\ Len(b) \in Nat
         /\ Len(a \o b) = Len(a) + Len(b)
         /\ \A i \in 1 .. Len(a) : (a \o b)[i] = a[i]
         /\ \A i \in 1 .. Len(b) : (a \o b)[Len(a) + i] = b[i]
<1> DEFINE S == Range(a) \cup Range(b)
           g == a \o b
<1>1. a \in Seq(S) /\ b \in Seq(S)
  BY DEF IsSeq
<1>2. Len(a) \in Nat /\ Len(b) \in Nat
  BY <1>1
<1> HIDE DEF S
<1>3. /\ g \in Seq(S) /\ Len(g) = Len(a) + Len(b)
      /\ \A i \in 1 .. Len(a) + Len(b) : g[i] = IF i <= Len(a) THEN a[i] ELSE b[i - Len(a)]
  BY <1>1, ConcatProperties
<1> HIDE DEF g
<1>4. IsSeq(g)
  BY <1>3, SeqIsSeq
<1>5. \A i \in 1 .. Len(a) : g[i] = a[i]
  BY <1>2, <1>3
<1>6. ASSUME NEW i \in 1 .. Len(b)
      PROVE  g[Len(a) + i] = b[i]
  <2> DEFINE x == Len(a) + i
  <2>1. x \in 1 .. Len(a) + Len(b) /\ ~ (x <= Len(a)) /\ x - Len(a) = i
    BY <1>2
  <2> HIDE DEF x
  <2>2. g[x] = b[i]
    BY <1>3, <2>1
  <2> QED
    BY <2>2 DEF x
<1> QED
  BY <1>2, <1>3, <1>4, <1>5, <1>6 DEF g

\* What is collected stays as it was read.
LEMMA CollectedStep ==
  ASSUME CollectedInv, [Next]_vars
  PROVE  CollectedInv'
<1> USE DEF HasSettings, HasBuses, HasStops, HasRoutes
<1>1. db \in Bases /\ render_settings \in RenderSettings
  BY DEF CollectedInv
<1>2. db' = db /\ render_settings' = render_settings
  BY DEF Next, vars, input, RenderMap, GetRendererSettings, GetNonEmptyBuses, GetStopsOnRoutes,
         GetRouteToProjectoredPoints, RenderRoutes, RenderRouteNames, RenderStopCircles,
         RenderStopNames, SerializeMapRender
<1>3. CASE GetRendererSettings
  <2>1. \/ pc' = "GetNonEmptyBuses" /\ ReadRight(render_settings, settings')
        \/ pc' \in {"threw", "undefined"}
    BY <1>1, <1>3, SettingsRead
  <2> QED
    BY <1>1, <1>2, <2>1 DEF CollectedInv
<1>4. CASE GetNonEmptyBuses
  <2>1. pc = "GetNonEmptyBuses" /\ pc' = "GetStopsOnRoutes" /\ settings' = settings
    BY <1>4 DEF GetNonEmptyBuses
  <2>2. BusesInOrder(db, buses')
    BY <1>1, <1>4, BusesRead
  <2> QED
    BY <1>1, <1>2, <2>1, <2>2 DEF CollectedInv
<1>5. CASE GetStopsOnRoutes
  <2>1. /\ pc = "GetStopsOnRoutes" /\ pc' = "GetRouteToProjectoredPoints"
        /\ settings' = settings /\ buses' = buses
    BY <1>5 DEF GetStopsOnRoutes
  <2>2. BusesInOrder(db, buses)
    BY <2>1 DEF CollectedInv
  <2>3. stops' = StopsFor(db)
    BY <1>1, <1>5, <2>2, StopsRead
  <2> QED
    BY <1>1, <1>2, <2>1, <2>3 DEF CollectedInv
<1>6. CASE GetRouteToProjectoredPoints
  <2>1. /\ pc = "GetRouteToProjectoredPoints" /\ pc' = "RenderRoutes"
        /\ settings' = settings /\ buses' = buses /\ stops' = stops
    BY <1>6 DEF GetRouteToProjectoredPoints
  <2>2. BusesInOrder(db, buses) /\ stops = StopsFor(db)
    BY <2>1 DEF CollectedInv
  <2>3. RoutesInOrder(db, settings, buses, routes')
    BY <1>1, <1>6, <2>2, RoutesRead
  <2> QED
    BY <1>1, <1>2, <2>1, <2>3 DEF CollectedInv
<1>7. CASE RenderRoutes \/ RenderRouteNames \/ RenderStopCircles \/ RenderStopNames
           \/ SerializeMapRender \/ UNCHANGED vars
  <2>1. /\ settings' = settings /\ buses' = buses /\ stops' = stops /\ routes' = routes
        /\ \/ pc \in HasRoutes /\ pc' \in HasRoutes \cup {"undefined"}
           \/ pc' = pc
    BY <1>7 DEF RenderRoutes, RenderRouteNames, RenderStopCircles, RenderStopNames,
                SerializeMapRender, vars
  <2> QED
    BY <1>1, <1>2, <2>1 DEF CollectedInv
<1> QED
  BY <1>3, <1>4, <1>5, <1>6, <1>7 DEF Next, RenderMap

\* The layers are drawn one over the other.
LEMMA DrawnStep ==
  ASSUME CollectedInv, DrawnInv, [Next]_vars
  PROVE  DrawnInv'
<1> USE DEF HasRoutes, IsBlank
<1>1. db \in Bases /\ db' = db
  BY DEF CollectedInv, Next, vars, input, RenderMap, GetRendererSettings, GetNonEmptyBuses,
         GetStopsOnRoutes, GetRouteToProjectoredPoints, RenderRoutes, RenderRouteNames,
         RenderStopCircles, RenderStopNames, SerializeMapRender
<1>2. CASE GetRendererSettings
  <2>1. pc' \in {"GetNonEmptyBuses", "threw", "undefined"}
    BY <1>2, SettingsRead DEF CollectedInv
  <2>2. pc = "GetRendererSettings" /\ document' = document
    BY <1>2 DEF GetRendererSettings
  <2> QED
    BY <2>1, <2>2 DEF DrawnInv
<1>3. CASE GetNonEmptyBuses \/ GetStopsOnRoutes \/ GetRouteToProjectoredPoints
  <2>1. pc \in IsBlank /\ pc' \in IsBlank /\ document' = document
    BY <1>3 DEF GetNonEmptyBuses, GetStopsOnRoutes, GetRouteToProjectoredPoints
  <2> QED
    BY <2>1 DEF DrawnInv
<1>4. CASE RenderRoutes
  <2>1. /\ pc = "RenderRoutes" /\ settings' = settings /\ routes' = routes
        /\ document = <<>>
    BY <1>4 DEF RenderRoutes, DrawnInv
  <2>2. IsSeq(routes)
    BY <2>1 DEF CollectedInv, RoutesInOrder
  <2>3. CASE pc' = "undefined"
    BY <2>3 DEF DrawnInv
  <2>4. CASE pc' # "undefined"
    <3>1. pc' = "RenderRouteNames" /\ LinesDrawn(settings, routes, document')
      BY <1>4, <2>1, <2>2, <2>4, LinesRead
    <3>2. routes = <<>> \/ settings.color_palette # <<>>
      BY <1>4, <2>4 DEF RenderRoutes
    <3> QED
      BY <2>1, <3>1, <3>2 DEF DrawnInv
  <2> QED
    BY <2>3, <2>4
<1>5. CASE RenderRouteNames
  <2>1. /\ pc = "RenderRouteNames" /\ settings' = settings /\ routes' = routes
        /\ LinesDrawn(settings, routes, document)
        /\ routes = <<>> \/ settings.color_palette # <<>>
    BY <1>5 DEF RenderRouteNames, DrawnInv
  <2>2. IsSeq(routes) /\ IsSeq(document)
    BY <2>1 DEF CollectedInv, RoutesInOrder, LinesDrawn
  <2>3. \/ pc' = "undefined"
        \/ /\ pc' = "RenderStopCircles"
           /\ \E q : document' = document \o q /\ LabelsDrawn(settings, routes, q)
    BY <1>5, <2>2, LabelsRead
  <2>4. CASE pc' = "undefined"
    BY <2>4 DEF DrawnInv
  <2>5. CASE pc' = "RenderStopCircles"
    <3>1. LabelsOn(settings, routes, document')
      BY <2>1, <2>3, <2>5 DEF LabelsOn
    <3> QED
      BY <2>1, <2>5, <3>1 DEF DrawnInv
  <2> QED
    BY <2>3, <2>4, <2>5
<1>6. CASE RenderStopCircles
  <2>1. /\ pc = "RenderStopCircles" /\ settings' = settings /\ routes' = routes /\ stops' = stops
        /\ LabelsOn(settings, routes, document)
        /\ routes = <<>> \/ settings.color_palette # <<>>
    BY <1>6 DEF RenderStopCircles, DrawnInv
  <2>2. stops = StopsFor(db)
    BY <2>1 DEF CollectedInv, HasStops
  <2>3. /\ pc' = "RenderStopNames"
        /\ \E q : document' = document \o q /\ CirclesDrawn(db, settings, stops, q)
    BY <1>1, <1>6, <2>2, CirclesRead
  <2>4. CirclesOn(db, settings, routes, stops, document')
    BY <2>1, <2>3 DEF CirclesOn
  <2> QED
    BY <1>1, <2>1, <2>3, <2>4 DEF DrawnInv
<1>7. CASE RenderStopNames
  <2>1. /\ pc = "RenderStopNames" /\ settings' = settings /\ routes' = routes /\ stops' = stops
        /\ CirclesOn(db, settings, routes, stops, document)
        /\ routes = <<>> \/ settings.color_palette # <<>>
    BY <1>7 DEF RenderStopNames, DrawnInv
  <2>2. stops = StopsFor(db)
    BY <2>1 DEF CollectedInv, HasStops
  <2>3. /\ pc' = "SerializeMapRender"
        /\ \E q : document' = document \o q /\ NamesDrawn(db, settings, stops, q)
    BY <1>1, <1>7, <2>2, NamesRead
  <2>4. NamesOn(db, settings, routes, stops, document')
    BY <2>1, <2>3 DEF NamesOn
  <2> QED
    BY <1>1, <2>1, <2>3, <2>4 DEF DrawnInv
<1>8. CASE SerializeMapRender
  <2>1. /\ pc = "SerializeMapRender" /\ pc' = "done" /\ settings' = settings /\ routes' = routes
        /\ stops' = stops /\ document' = document /\ map' = RenderDocument(document)
    BY <1>8 DEF SerializeMapRender
  <2> QED
    BY <1>1, <2>1 DEF DrawnInv
<1>9. CASE UNCHANGED vars
  BY <1>1, <1>9 DEF DrawnInv, vars
<1> QED
  BY <1>2, <1>3, <1>4, <1>5, <1>6, <1>7, <1>8, <1>9 DEF Next, RenderMap

\* The map is drawn of what has been collected, layer by layer.
THEOREM MapDrawn == Spec => [](CollectedInv /\ DrawnInv)
<1>1. Init => CollectedInv /\ DrawnInv
  BY DEF Init, CollectedInv, DrawnInv, HasSettings, HasBuses, HasStops, HasRoutes, IsBlank
<1>2. CollectedInv /\ DrawnInv /\ [Next]_vars => (CollectedInv /\ DrawnInv)'
  BY CollectedStep, DrawnStep
<1> QED
  BY <1>1, <1>2, PTL DEF Spec

-----------------------------------------------------------------------------
(* When there is no picture.                                                *)

\* Drawing routes takes colours.
LEMMA NoColor ==
  ASSUME CollectedInv, RenderRoutes, pc' = "undefined"
  PROVE  Palette = <<>> /\ Drawn # {}
<1>1. pc = "RenderRoutes" /\ routes # <<>> /\ settings.color_palette = <<>>
  BY DEF RenderRoutes
<1>2. /\ db \in Bases /\ render_settings \in RenderSettings
      /\ ReadRight(render_settings, settings)
      /\ BusesInOrder(db, buses) /\ RoutesInOrder(db, settings, buses, routes)
  BY <1>1 DEF CollectedInv, HasSettings, HasBuses, HasStops, HasRoutes
<1>3. Palette = <<>>
  <2>1. /\ Len(Palette) \in Nat /\ Palette \in Seq(Range(Palette))
        /\ settings.color_palette = [k \in 1 .. Len(Palette) |-> ParseColor(Palette[k]).value]
    BY <1>2, PaletteIs DEF Palette
  <2>2. DOMAIN settings.color_palette = 1 .. Len(Palette)
    BY <2>1
  <2>3. 1 .. Len(Palette) = {}
    <3>1. DOMAIN <<>> = {}
      OBVIOUS
    <3> QED
      BY <1>1, <2>2, <3>1
  <2> HIDE DEF Palette
  <2>4. Len(Palette) = 0
    <3>1. 1 \notin 1 .. Len(Palette)
      BY <2>3
    <3> QED
      BY <2>1, <3>1
  <2> QED
    BY <2>1, <2>4
<1>4. Drawn # {}
  <2>1. routes \in Seq(Range(routes))
    BY <1>2 DEF RoutesInOrder, IsSeq
  <2>2. 1 \in 1 .. Len(routes)
    BY <1>1, <2>1
  <2>3. \E i \in 1 .. Len(buses) : TRUE
    BY <1>2, <2>2 DEF RoutesInOrder
  <2>4. DrawnOf(db) # {}
    BY <1>2, <2>3, BusIs
  <2> QED
    BY <2>4 DEF Drawn, DrawnOf
<1> QED
  BY <1>3, <1>4

\* A name is put past the end of the points only where they are those of
\* another bus of that name, which has fewer stops.
LEMMA NoPoint ==
  ASSUME CollectedInv, RenderRouteNames, IsSeq(document), pc' = "undefined"
  PROVE  \E b, c \in Drawn :
           /\ db.buses[b].name = db.buses[c].name
           /\ Len(db.buses[b].stops) < Len(db.buses[c].stops)
<1>1. pc = "RenderRouteNames"
  BY DEF RenderRouteNames
<1>2. /\ db \in Bases /\ BusesInOrder(db, buses)
      /\ RoutesInOrder(db, settings, buses, routes)
  BY <1>1 DEF CollectedInv, HasSettings, HasBuses, HasStops, HasRoutes
<1>3. IsSeq(routes)
  BY <1>2 DEF RoutesInOrder
<1>4. PICK k \in 1 .. Len(routes) :
              \/ routes[k].points = <<>>
              \/ /\ HasSecondName(routes[k].bus)
                 /\ Middle(routes[k].bus) > Len(routes[k].points)
  BY <1>3, LabelsRead
<1>5. \E i, j \in 1 .. Len(buses) :
        buses[i].name = buses[j].name /\ routes[k] = LineOf(db, settings, buses[i], buses[j])
  BY <1>2 DEF RoutesInOrder
<1>6. PICK i \in 1 .. Len(buses) : \E j \in 1 .. Len(buses) :
        buses[i].name = buses[j].name /\ routes[k] = LineOf(db, settings, buses[i], buses[j])
  BY <1>5
<1>7. PICK j \in 1 .. Len(buses) :
        buses[i].name = buses[j].name /\ routes[k] = LineOf(db, settings, buses[i], buses[j])
  BY <1>6
<1> DEFINE bus == buses[i]
           last == buses[j]
<1>8. IsDrawn(db, bus) /\ IsDrawn(db, last)
  BY <1>2, BusIs
<1>9. PICK b \in DrawnOf(db) : last = db.buses[b]
  BY <1>2, BusIs
<1>10. PICK c \in DrawnOf(db) : bus = db.buses[c]
  BY <1>2, BusIs
<1>11. bus.name = last.name
  BY <1>7
<1>12. routes[k].bus = bus /\ routes[k].points = PointsOf(db, settings, last.stops)
  BY <1>7 DEF LineOf
<1> HIDE DEF bus, last
<1>13. /\ Len(last.stops) \in Nat \ {0} /\ Len(bus.stops) \in Nat \ {0}
       /\ Len(routes[k].points) = Len(last.stops)
  <2>1. /\ last.stops \in Seq(NamesOf(db.stops)) /\ last.stops # <<>>
        /\ bus.stops \in Seq(NamesOf(db.stops)) /\ bus.stops # <<>>
    BY <1>8 DEF IsDrawn
  <2>2. Len(last.stops) \in Nat \ {0} /\ Len(bus.stops) \in Nat \ {0}
    BY <2>1
  <2>3. Len(PointsOf(db, settings, last.stops)) = Len(last.stops)
    BY <2>2 DEF PointsOf
  <2> QED
    BY <1>12, <2>2, <2>3
<1>14. Len(last.stops) < Len(bus.stops)
  <2>1. routes[k].points # <<>>
    BY <1>13
  <2>2. HasSecondName(bus) /\ Middle(bus) > Len(last.stops)
    BY <1>4, <1>12, <1>13, <2>1
  <2>3. Len(bus.stops) % 2 = 1
    BY <1>8, <2>2 DEF IsDrawn, HasSecondName
  <2>4. Middle(bus) = Len(bus.stops) \div 2 + 1
    BY DEF Middle
  <2> DEFINE l == Len(bus.stops)
             m == Len(last.stops)
  <2>5. l \in Nat \ {0} /\ m \in Nat \ {0} /\ l \div 2 + 1 > m /\ l % 2 = 1
    BY <1>13, <2>2, <2>3, <2>4
  <2> HIDE DEF l, m
  <2>6. m < l \/ l = 1
    BY <2>5
  <2>7. l # 1
    <3>1. bus.stops[1] # bus.stops[Middle(bus)]
      BY <2>2 DEF HasSecondName
    <3>2. l = 1 => Middle(bus) = 1
      BY <2>4 DEF l
    <3> QED
      BY <3>1, <3>2
  <2> QED
    BY <2>6, <2>7 DEF l, m
<1> QED
  BY <1>9, <1>10, <1>11, <1>14 DEF Drawn, DrawnOf

\* For every catalogue and all settings: if the settings are there and of their
\* kinds the map is drawn, unless there is no colour to draw a line with or a
\* bus shares its name with a longer one.
THEOREM RenderingDefined == Spec => []RenderingIsDefined
<1>1. Init => RenderingIsDefined
  BY DEF Init, RenderingIsDefined
<1>2. ASSUME CollectedInv, DrawnInv, RenderingIsDefined, [Next]_vars
      PROVE  RenderingIsDefined'
  <2>1. /\ render_settings \in RenderSettings
        /\ db' = db /\ render_settings' = render_settings
    BY <1>2 DEF CollectedInv, Next, vars, input, RenderMap, GetRendererSettings, GetNonEmptyBuses,
           GetStopsOnRoutes, GetRouteToProjectoredPoints, RenderRoutes, RenderRouteNames,
           RenderStopCircles, RenderStopNames, SerializeMapRender
  <2>2. Palette' = Palette /\ Drawn' = Drawn
    BY <2>1 DEF Palette, Drawn
  <2>3. CASE GetRendererSettings
    <3>1. \/ pc' = "GetNonEmptyBuses"
          \/ \E m \in Range(Members) : ReadMember(render_settings, m).outcome # "ok"
      BY <2>1, <2>3, SettingsRead
    <3> QED
      BY <2>1, <3>1 DEF RenderingIsDefined
  <2>4. CASE RenderRoutes
    <3>1. CASE pc' = "undefined"
      BY <1>2, <2>2, <2>4, <3>1, NoColor DEF RenderingIsDefined
    <3>2. CASE pc' # "undefined"
      <4>1. pc' = "RenderRouteNames"
        BY <2>4, <3>2 DEF RenderRoutes
      <4> QED
        BY <4>1 DEF RenderingIsDefined
    <3> QED
      BY <3>1, <3>2
  <2>5. CASE RenderRouteNames
    <3>1. CASE pc' = "undefined"
      <4>1. IsSeq(document)
        <5>1. LinesDrawn(settings, routes, document)
          BY <1>2, <2>5 DEF DrawnInv, RenderRouteNames
        <5> QED
          BY <5>1 DEF LinesDrawn
      <4>2. \E b, c \in Drawn :
              /\ db.buses[b].name = db.buses[c].name
              /\ Len(db.buses[b].stops) < Len(db.buses[c].stops)
        BY <1>2, <2>5, <3>1, <4>1, NoPoint
      <4> QED
        BY <2>1, <2>2, <4>2 DEF RenderingIsDefined
    <3>2. CASE pc' # "undefined"
      <4>1. pc' = "RenderStopCircles"
        BY <2>5, <3>2 DEF RenderRouteNames
      <4> QED
        BY <4>1 DEF RenderingIsDefined
    <3> QED
      BY <3>1, <3>2
  <2>6. CASE GetNonEmptyBuses \/ GetStopsOnRoutes \/ GetRouteToProjectoredPoints
             \/ RenderStopCircles \/ RenderStopNames \/ SerializeMapRender
    <3>1. pc' \notin {"threw", "undefined"}
      BY <2>6 DEF GetNonEmptyBuses, GetStopsOnRoutes, GetRouteToProjectoredPoints,
                  RenderStopCircles, RenderStopNames, SerializeMapRender
    <3> QED
      BY <3>1 DEF RenderingIsDefined
  <2>7. CASE UNCHANGED vars
    <3>1. pc' = pc
      BY <2>7 DEF vars
    <3> QED
      BY <1>2, <2>1, <2>2, <3>1 DEF RenderingIsDefined
  <2> QED
    BY <1>2, <2>3, <2>4, <2>5, <2>6, <2>7 DEF Next, RenderMap
<1>3. CollectedInv /\ DrawnInv /\ RenderingIsDefined /\ [Next]_vars => RenderingIsDefined'
  BY <1>2
<1> QED
  BY <1>1, <1>3, MapDrawn, PTL DEF Spec

-----------------------------------------------------------------------------
(* The map part by part.                                                    *)

\* Numbers in ascending order are what Ascending makes of them.
LEMMA AscendingUnique ==
  ASSUME NEW S \in SUBSET Int, IsFiniteSet(S), NEW t \in Seq(S), Range(t) = S,
         \A i, j \in 1 .. Len(t) : i < j => t[i] < t[j]
  PROVE  /\ Len(t) = Cardinality(S)
         /\ DOMAIN Ascending(S) = 1 .. Len(t)
         /\ \A k \in 1 .. Len(t) : Ascending(S)[k] = t[k]
<1> DEFINE s == Ascending(S)
           n == Cardinality(S)
           m == Len(t)
<1>1. /\ s \in Seq(S) /\ Len(s) = n /\ Range(s) = S
      /\ \A i, j \in 1 .. Len(s) : i < j => s[i] < s[j]
  BY AscendingIs
<1>2. /\ n \in Nat
      /\ \A x \in S : Cardinality(UpTo(S, x)) \in 1 .. n
      /\ \A x, y \in S : x < y => Cardinality(UpTo(S, x)) < Cardinality(UpTo(S, y))
  BY Counted
<1> HIDE DEF s
<1>3. \A k \in 1 .. Len(s) : s[k] \in S /\ Cardinality(UpTo(S, s[k])) = k
  <2>1. \A k \in 1 .. Len(s) : s[k] \in S
    BY <1>1
  <2> QED
    BY <1>1, <2>1, NthCounts
<1>4. m \in Nat /\ \A k \in 1 .. m : t[k] \in S /\ Cardinality(UpTo(S, t[k])) = k
  <2>1. m \in Nat /\ \A k \in 1 .. m : t[k] \in S
    OBVIOUS
  <2> QED
    BY <2>1, NthCounts
<1>5. \A x \in S : \E k \in 1 .. m : t[k] = x
  BY DEF Range
<1> HIDE DEF m, n
<1>6. \A x, y \in S : Cardinality(UpTo(S, x)) = Cardinality(UpTo(S, y)) => x = y
  <2> TAKE x, y \in S
  <2> HAVE Cardinality(UpTo(S, x)) = Cardinality(UpTo(S, y))
  <2>1. Cardinality(UpTo(S, x)) \in Int /\ x \in Int /\ y \in Int
    BY <1>2
  <2>2. ~ (x < y) /\ ~ (y < x)
    BY <1>2, <2>1
  <2> QED
    BY <2>1, <2>2
<1>7. m = n
  <2>1. m <= n
    <3>1. CASE m = 0
      BY <1>2, <3>1
    <3>2. CASE m # 0
      <4>1. m \in 1 .. m
        BY <1>4, <3>2
      <4>2. m \in 1 .. n
        BY <1>2, <1>4, <4>1
      <4> QED
        BY <1>2, <4>2
    <3> QED
      BY <3>1, <3>2
  <2>2. n <= m
    <3>1. CASE n = 0
      BY <1>4, <3>1
    <3>2. CASE n # 0
      <4>1. n \in 1 .. Len(s)
        BY <1>1, <1>2, <3>2 DEF n
      <4>2. s[n] \in S /\ Cardinality(UpTo(S, s[n])) = n
        BY <1>3, <4>1
      <4>3. PICK k \in 1 .. m : t[k] = s[n]
        BY <1>5, <4>2
      <4>4. k = n
        BY <1>4, <4>2, <4>3
      <4> QED
        BY <1>4, <4>3, <4>4
    <3> QED
      BY <3>1, <3>2
  <2> QED
    BY <1>2, <1>4, <2>1, <2>2
<1>8. Len(s) = m
  BY <1>1, <1>7 DEF n
<1>9. DOMAIN s = 1 .. m
  BY <1>1, <1>8
<1>10. \A k \in 1 .. m : s[k] = t[k]
  <2> TAKE k \in 1 .. m
  <2>1. s[k] \in S /\ t[k] \in S /\ Cardinality(UpTo(S, s[k])) = Cardinality(UpTo(S, t[k]))
    BY <1>3, <1>4, <1>8
  <2> QED
    BY <1>6, <2>1
<1> QED
  BY <1>7, <1>9, <1>10 DEF s, m, n

\* The elements of a map at positions that are given in ascending order.
ElementsOf(m, positions) ==
  LET at == Ascending(positions) IN [k \in DOMAIN at |-> m[at[k]]]

IsListing(at, n, S) ==
  /\ n \in Nat /\ at \in [1 .. n -> Int]
  /\ \A i, j \in 1 .. n : i < j => at[i] < at[j]
  /\ S = {at[k] : k \in 1 .. n}

LEMMA ElementsAre ==
  ASSUME NEW m, NEW n, NEW at, NEW S, IsListing(at, n, S)
  PROVE  /\ Len(ElementsOf(m, S)) = n
         /\ \A k \in 1 .. n : ElementsOf(m, S)[k] = m[at[k]]
<1> USE DEF IsListing
<1>1. at \in Seq(S) /\ Len(at) = n
  BY SMT
<1>2. Range(at) = S
  BY <1>1 DEF Range
<1>3. S \in SUBSET Int
  OBVIOUS
<1>4. IsFiniteSet(S)
  <2>1. IsFiniteSet(1 .. n)
    BY FS_Interval
  <2> QED
    BY <2>1, ImageIsFinite
<1>5. DOMAIN Ascending(S) = 1 .. n /\ \A k \in 1 .. n : Ascending(S)[k] = at[k]
  BY <1>1, <1>2, <1>3, <1>4, AscendingUnique
<1> DEFINE f == Ascending(S)
<1> HIDE DEF f
<1>6. ElementsOf(m, S) = [k \in 1 .. n |-> m[f[k]]]
  BY <1>5 DEF ElementsOf, f
<1>7. \A k \in 1 .. n : f[k] = at[k]
  BY <1>5 DEF f
<1> DEFINE elements == ElementsOf(m, S)
<1>8. elements \in Seq({m[f[k]] : k \in 1 .. n}) /\ DOMAIN elements = 1 .. n
  BY <1>6
<1>9. \A k \in 1 .. n : elements[k] = m[at[k]]
  BY <1>6, <1>7
<1> HIDE DEF elements
<1>10. Len(elements) = n
  BY <1>8
<1> QED
  BY <1>9, <1>10 DEF elements

\* A text with its shade, after the first o elements of a map.
PairIn(m, o, point, text, color, is_bold) ==
  /\ IsShade(m[o + 1], point, text, is_bold)
  /\ IsName(m[o + 2], point, text, color, is_bold)

\* The lines, the names of the buses after them up to t, then the circles, and
\* after the first u elements the names of the stops.
LinesIn(m, s, rt) ==
  \A k \in 1 .. Len(rt) : IsLine(m[k], rt[k].points, ColorPrinter(ColorOf(s, k)))

LabelsIn(m, s, rt, off, t) ==
  /\ \A k \in 1 .. Len(rt) :
       LET o     == Len(rt) + off[k - 1]
           bus   == rt[k].bus
           color == ColorPrinter(ColorOf(s, k))
       IN /\ off[k - 1] \in Nat /\ o + LabelCount(bus) <= t
          /\ PairIn(m, o, rt[k].points[1], bus.name, color, TRUE)
          /\ HasSecondName(bus) =>
               PairIn(m, o + 2, rt[k].points[Middle(bus)], bus.name, color, TRUE)
  /\ \A i \in Len(rt) + 1 .. t : \E k \in 1 .. Len(rt) :
       Len(rt) + off[k - 1] < i /\ i <= Len(rt) + off[k - 1] + LabelCount(rt[k].bus)

CirclesIn(m, d, s, st, t) ==
  \A k \in 1 .. Len(st) : IsCircle(m[t + k], PointOf(d, s, st[k].name))

NamesIn(m, d, s, st, u) ==
  \A k \in 1 .. Len(st) :
    PairIn(m, u + 2 * (k - 1), PointOf(d, s, st[k].name), st[k].name, <<"black">>, FALSE)

IsPicture(m, d, s, rt, st, off, t, u) ==
  /\ Len(rt) \in Nat /\ t \in Nat /\ u \in Nat /\ Len(st) \in Nat
  /\ Len(rt) <= t /\ u = t + Len(st)
  /\ DOMAIN m = 1 .. u + 2 * Len(st)
  /\ LinesIn(m, s, rt)
  /\ LabelsIn(m, s, rt, off, t)
  /\ CirclesIn(m, d, s, st, t)
  /\ NamesIn(m, d, s, st, u)
  /\ \A k \in 1 .. Len(rt) : HasPoints(rt[k])

\* The map is such a picture.
LEMMA MapIsPicture ==
  ASSUME CollectedInv, DrawnInv, pc = "done"
  PROVE  \E off, t, u : IsPicture(map, db, settings, routes, stops, off, t, u)
<1>1. /\ db \in Bases /\ stops = StopsFor(db) /\ IsSeq(routes)
      /\ NamesOn(db, settings, routes, stops, document) /\ map = RenderDocument(document)
  BY DEF CollectedInv, DrawnInv, HasStops, HasRoutes, RoutesInOrder
<1>2. PICK abc, e : document = abc \o e /\ CirclesOn(db, settings, routes, stops, abc)
                    /\ NamesDrawn(db, settings, stops, e)
  BY <1>1 DEF NamesOn
<1>3. PICK ab, c : abc = ab \o c /\ LabelsOn(settings, routes, ab)
                   /\ CirclesDrawn(db, settings, stops, c)
  BY <1>2 DEF CirclesOn
<1>4. PICK a, b : ab = a \o b /\ LinesDrawn(settings, routes, a)
                  /\ LabelsDrawn(settings, routes, b)
  BY <1>3 DEF LabelsOn
<1>5. PICK off : LabelsEnd(off, routes) /\ LabelsAt(settings, routes, b, off)
  BY <1>4 DEF LabelsDrawn
<1> DEFINE l == Len(routes)
           n == Len(stops)
           t == l + Len(b)
           u == t + n
<1>6. IsSeq(a) /\ IsSeq(b) /\ IsSeq(c) /\ IsSeq(e)
  BY <1>2, <1>3, <1>4 DEF LinesDrawn, LabelsDrawn, CirclesDrawn, NamesDrawn
<1>7. Len(a) = l /\ Len(c) = n /\ Len(e) = 2 * n
  BY <1>2, <1>3, <1>4 DEF LinesDrawn, CirclesDrawn, NamesDrawn
<1>8. l \in Nat /\ n \in Nat /\ Len(b) \in Nat
  BY <1>6, <1>7 DEF IsSeq
<1>9. t \in Nat /\ u \in Nat /\ l <= t /\ u = t + n /\ t = l + Len(b)
  BY <1>8
<1> HIDE DEF l, n, t, u
<1>10. /\ IsSeq(ab) /\ Len(ab) = t
       /\ \A i \in 1 .. l : ab[i] = a[i]
       /\ \A i \in 1 .. Len(b) : ab[l + i] = b[i]
  <2>1. /\ IsSeq(ab) /\ Len(ab) = Len(a) + Len(b)
        /\ \A i \in 1 .. Len(a) : ab[i] = a[i]
        /\ \A i \in 1 .. Len(b) : ab[Len(a) + i] = b[i]
    BY <1>4, <1>6, JoinedIsSeq
  <2> QED
    BY <1>7, <1>9, <2>1
<1>11. /\ IsSeq(abc) /\ Len(abc) = u
       /\ \A i \in 1 .. t : abc[i] = ab[i]
       /\ \A i \in 1 .. n : abc[t + i] = c[i]
  <2>1. /\ IsSeq(abc) /\ Len(abc) = Len(ab) + Len(c)
        /\ \A i \in 1 .. Len(ab) : abc[i] = ab[i]
        /\ \A i \in 1 .. Len(c) : abc[Len(ab) + i] = c[i]
    <3>1. IsSeq(ab) /\ IsSeq(c) /\ abc = ab \o c
      BY <1>3, <1>6, <1>10
    <3> QED
      BY <3>1, JoinedIsSeq
  <2> QED
    BY <1>7, <1>10, <1>9, <2>1
<1>12. /\ IsSeq(document) /\ Len(document) = u + 2 * n
       /\ \A i \in 1 .. u : document[i] = abc[i]
       /\ \A i \in 1 .. 2 * n : document[u + i] = e[i]
  <2>1. /\ IsSeq(document) /\ Len(document) = Len(abc) + Len(e)
        /\ \A i \in 1 .. Len(abc) : document[i] = abc[i]
        /\ \A i \in 1 .. Len(e) : document[Len(abc) + i] = e[i]
    <3>1. IsSeq(abc) /\ IsSeq(e) /\ document = abc \o e
      BY <1>2, <1>6, <1>11
    <3> QED
      BY <3>1, JoinedIsSeq
  <2> QED
    BY <1>7, <1>11, <1>9, <2>1
<1>13. DOMAIN map = 1 .. u + 2 * n /\ \A i \in 1 .. u + 2 * n : map[i] = RenderObject(document[i])
  BY <1>1, <1>12 DEF RenderDocument, IsSeq
<1>14. \A i \in 1 .. l : map[i] = RenderObject(a[i])
  <2> TAKE i \in 1 .. l
  <2>1. i \in 1 .. t /\ i \in 1 .. u /\ i \in 1 .. u + 2 * n
    BY <1>8, <1>9
  <2> QED
    BY <1>10, <1>11, <1>12, <1>13, <2>1
<1>15. \A i \in 1 .. Len(b) : map[l + i] = RenderObject(b[i])
  <2> TAKE i \in 1 .. Len(b)
  <2> DEFINE j == l + i
  <2>1. j \in 1 .. t /\ j \in 1 .. u /\ j \in 1 .. u + 2 * n
    BY <1>8, <1>9
  <2>2. ab[j] = b[i]
    BY <1>10
  <2> HIDE DEF j
  <2>3. map[j] = RenderObject(b[i])
    BY <1>11, <1>12, <1>13, <2>1, <2>2
  <2> QED
    BY <2>3 DEF j
<1>16. \A i \in 1 .. n : map[t + i] = RenderObject(c[i])
  <2> TAKE i \in 1 .. n
  <2>1. t + i \in 1 .. u /\ t + i \in 1 .. u + 2 * n
    BY <1>8, <1>9
  <2> QED
    BY <1>11, <1>12, <1>13, <2>1
<1>17. \A i \in 1 .. 2 * n : map[u + i] = RenderObject(e[i])
  <2> TAKE i \in 1 .. 2 * n
  <2>1. u + i \in 1 .. u + 2 * n
    BY <1>8, <1>9
  <2> QED
    BY <1>12, <1>13, <2>1
<1>18. LinesIn(map, settings, routes)
  BY <1>4, <1>14 DEF LinesDrawn, LinesIn, l
<1>19. CirclesIn(map, db, settings, stops, t)
  BY <1>3, <1>16 DEF CirclesDrawn, CirclesIn, n
<1>20. NamesIn(map, db, settings, stops, u)
  <2>1. ASSUME NEW k \in 1 .. n
        PROVE  PairIn(map, u + 2 * (k - 1), PointOf(db, settings, stops[k].name), stops[k].name,
                      <<"black">>, FALSE)
    <3> DEFINE o == 2 * (k - 1)
               point == PointOf(db, settings, stops[k].name)
               name == stops[k].name
               black == <<"black">>
    <3>1. IsPair(e, o, point, name, black, FALSE)
      BY <1>2 DEF NamesDrawn, n
    <3>2. /\ o + 1 \in 1 .. 2 * n /\ o + 2 \in 1 .. 2 * n
          /\ u + (o + 1) = (u + o) + 1 /\ u + (o + 2) = (u + o) + 2
      BY <1>8, <1>9
    <3> HIDE DEF o, point, name, black
    <3>3. map[(u + o) + 1] = RenderObject(e[o + 1]) /\ map[(u + o) + 2] = RenderObject(e[o + 2])
      BY <1>17, <3>2
    <3>4. PairIn(map, u + o, point, name, black, FALSE)
      BY <3>1, <3>3 DEF IsPair, PairIn
    <3> QED
      BY <3>4 DEF o, point, name, black
  <2> QED
    BY <2>1 DEF NamesIn, n
<1>21. LabelsIn(map, settings, routes, off, t)
  <2>1. /\ Len(b) = off[l]
        /\ \A k \in 1 .. l : off[k] = off[k - 1] + LabelCount(routes[k].bus)
        /\ \A k \in 0 .. l : off[k] \in Nat
        /\ \A j, k \in 0 .. l : j <= k => off[j] <= off[k]
    BY <1>5 DEF LabelsEnd, LabelsAt, l
  <2>2. ASSUME NEW k \in 1 .. l
        PROVE  /\ off[k - 1] \in Nat /\ off[k] \in Nat
               /\ off[k] = off[k - 1] + LabelCount(routes[k].bus)
               /\ off[k] <= Len(b)
    <3>1. k - 1 \in 0 .. l /\ k \in 0 .. l /\ l \in 0 .. l /\ k <= l
      BY <1>8
    <3> QED
      BY <2>1, <3>1
  <2>3. ASSUME NEW k \in 1 .. l
        PROVE  LET o     == l + off[k - 1]
                   bus   == routes[k].bus
                   color == ColorPrinter(ColorOf(settings, k))
               IN /\ off[k - 1] \in Nat /\ o + LabelCount(bus) <= t
                  /\ PairIn(map, o, routes[k].points[1], bus.name, color, TRUE)
                  /\ HasSecondName(bus) =>
                       PairIn(map, o + 2, routes[k].points[Middle(bus)], bus.name, color, TRUE)
    <3> DEFINE p == off[k - 1]
               bus == routes[k].bus
               name == bus.name
               color == ColorPrinter(ColorOf(settings, k))
               first == routes[k].points[1]
               turn == routes[k].points[Middle(bus)]
               count == LabelCount(bus)
    <3>1. p \in Nat /\ p + count <= Len(b)
      BY <2>2
    <3>2. /\ IsPair(b, p, first, name, color, TRUE)
          /\ HasSecondName(bus) => IsPair(b, p + 2, turn, name, color, TRUE)
      BY <1>5 DEF LabelsAt, HasLabels, l
    <3>3. count \in {2, 4} /\ (HasSecondName(bus) => count = 4)
      BY DEF LabelCount
    <3> HIDE DEF p, name, color, first, turn, count
    <3>4. l + p + count <= t
      BY <1>8, <1>9, <3>1, <3>3
    <3>5. PairIn(map, l + p, first, name, color, TRUE)
      <4>1. /\ p + 1 \in 1 .. Len(b) /\ p + 2 \in 1 .. Len(b)
            /\ l + (p + 1) = (l + p) + 1 /\ l + (p + 2) = (l + p) + 2
        BY <1>8, <3>1, <3>3
      <4>2. map[(l + p) + 1] = RenderObject(b[p + 1]) /\ map[(l + p) + 2] = RenderObject(b[p + 2])
        BY <1>15, <4>1
      <4> QED
        BY <3>2, <4>2 DEF IsPair, PairIn
    <3>6. ASSUME HasSecondName(bus)
          PROVE  PairIn(map, (l + p) + 2, turn, name, color, TRUE)
      <4> DEFINE r == p + 2
      <4>1. /\ r + 1 \in 1 .. Len(b) /\ r + 2 \in 1 .. Len(b)
            /\ l + (r + 1) = ((l + p) + 2) + 1 /\ l + (r + 2) = ((l + p) + 2) + 2
        BY <1>8, <3>1, <3>3, <3>6
      <4>2. IsPair(b, r, turn, name, color, TRUE)
        BY <3>2, <3>6
      <4> HIDE DEF r
      <4>3. /\ map[((l + p) + 2) + 1] = RenderObject(b[r + 1])
            /\ map[((l + p) + 2) + 2] = RenderObject(b[r + 2])
        BY <1>15, <4>1
      <4> QED
        BY <4>2, <4>3 DEF IsPair, PairIn
    <3> QED
      BY <3>1, <3>4, <3>5, <3>6 DEF p, name, color, first, turn, count
  <2>4. ASSUME NEW i \in l + 1 .. t
        PROVE  \E k \in 1 .. l : l + off[k - 1] < i /\ i <= l + off[k - 1] + LabelCount(routes[k].bus)
    <3> DEFINE j == i - l
    <3>1. j \in 1 .. Len(b) /\ i = l + j
      BY <1>8, <1>9
    <3> HIDE DEF j
    <3>2. PICK k \in 1 .. l : off[k - 1] < j /\ j <= off[k]
      BY <1>5, <3>1 DEF LabelsAt, l
    <3>3. off[k - 1] \in Nat /\ off[k] \in Nat /\ off[k] = off[k - 1] + LabelCount(routes[k].bus)
      BY <2>2
    <3>4. LabelCount(routes[k].bus) \in Nat
      BY DEF LabelCount
    <3>5. l + off[k - 1] < i /\ i <= l + off[k - 1] + LabelCount(routes[k].bus)
      BY <1>8, <3>1, <3>2, <3>3, <3>4
    <3> QED
      BY <3>5
  <2> QED
    BY <2>3, <2>4 DEF LabelsIn, l
<1>22. \A k \in 1 .. l : HasPoints(routes[k])
  BY <1>4 DEF LabelsDrawn, l
<1>23. IsPicture(map, db, settings, routes, stops, off, t, u)
  BY <1>8, <1>13, <1>9, <1>18, <1>19, <1>20, <1>21, <1>22 DEF IsPicture, l, n
<1> QED
  BY <1>23

\* An element among the lines, the names of the buses, the circles, the names of
\* the stops. A name of a bus is that of the k-th route, after the first o elements.
IsOfLines(m, s, rt, i) ==
  i \in 1 .. Len(rt) /\ IsLine(m[i], rt[i].points, ColorPrinter(ColorOf(s, i)))

IsAfter(rt, off, k, o, point) ==
  /\ k \in 1 .. Len(rt)
  /\ \/ o = Len(rt) + off[k - 1] /\ point = rt[k].points[1]
     \/ /\ o = Len(rt) + off[k - 1] + 2 /\ point = rt[k].points[Middle(rt[k].bus)]
        /\ HasSecondName(rt[k].bus)

IsOfLabels(m, s, rt, off, t, i) ==
  /\ i \in Len(rt) + 1 .. t
  /\ \E k, o, point : 
       /\ IsAfter(rt, off, k, o, point) /\ i \in {o + 1, o + 2}
       /\ PairIn(m, o, point, rt[k].bus.name, ColorPrinter(ColorOf(s, k)), TRUE)

IsOfCircles(m, d, s, st, t, i) ==
  i \in t + 1 .. t + Len(st) /\ IsCircle(m[i], PointOf(d, s, st[i - t].name))

IsOfNames(m, d, s, st, u, i) ==
  \E k \in 1 .. Len(st) :
    /\ i \in {u + 2 * (k - 1) + 1, u + 2 * (k - 1) + 2}
    /\ PairIn(m, u + 2 * (k - 1), PointOf(d, s, st[k].name), st[k].name, <<"black">>, FALSE)

\* Each element of the map is of one of them.
LEMMA Zones ==
  ASSUME NEW m, NEW d, NEW s, NEW rt, NEW st, NEW off, NEW t, NEW u,
         IsPicture(m, d, s, rt, st, off, t, u), NEW i \in DOMAIN m
  PROVE  \/ IsOfLines(m, s, rt, i)
         \/ IsOfLabels(m, s, rt, off, t, i)
         \/ IsOfCircles(m, d, s, st, t, i)
         \/ IsOfNames(m, d, s, st, u, i)
<1> DEFINE l == Len(rt)
           n == Len(st)
<1>1. /\ l \in Nat /\ t \in Nat /\ u \in Nat /\ n \in Nat
      /\ l <= t /\ u = t + n /\ DOMAIN m = 1 .. u + 2 * n
  BY DEF IsPicture
<1> HIDE DEF l, n
<1>2. i \in 1 .. u + 2 * n
  BY <1>1
<1>3. CASE i \in 1 .. l
  <2>1. LinesIn(m, s, rt)
    BY DEF IsPicture
  <2> QED
    BY <1>3, <2>1 DEF LinesIn, IsOfLines, l
<1>4. CASE i \in l + 1 .. t
  <2>1. LabelsIn(m, s, rt, off, t)
    BY DEF IsPicture
  <2>2. PICK k \in 1 .. l : l + off[k - 1] < i /\ i <= l + off[k - 1] + LabelCount(rt[k].bus)
    BY <1>4, <2>1 DEF LabelsIn, l
  <2> DEFINE o == l + off[k - 1]
             bus == rt[k].bus
             color == ColorPrinter(ColorOf(s, k))
             first == rt[k].points[1]
             turn == rt[k].points[Middle(bus)]
  <2>3. off[k - 1] \in Nat /\ PairIn(m, o, first, bus.name, color, TRUE)
    BY <2>1, <2>2 DEF LabelsIn, l
  <2>4. HasSecondName(bus) => PairIn(m, o + 2, turn, bus.name, color, TRUE)
    BY <2>1, <2>2 DEF LabelsIn, l
  <2>5. o \in Nat /\ o < i /\ i <= o + LabelCount(bus)
    BY <1>1, <2>2, <2>3
  <2>6. /\ IsAfter(rt, off, k, o, first)
        /\ HasSecondName(bus) => IsAfter(rt, off, k, o + 2, turn)
    BY <2>2 DEF IsAfter, l
  <2> HIDE DEF o, color, first, turn
  <2>7. \/ i \in {o + 1, o + 2}
        \/ HasSecondName(bus) /\ i \in {(o + 2) + 1, (o + 2) + 2}
    <3>1. CASE HasSecondName(bus)
      <4>1. LabelCount(bus) = 4
        BY <3>1 DEF LabelCount
      <4> QED
        BY <1>2, <2>5, <3>1, <4>1
    <3>2. CASE ~HasSecondName(bus)
      <4>1. LabelCount(bus) = 2
        BY <3>2 DEF LabelCount
      <4> QED
        BY <1>2, <2>5, <4>1
    <3> QED
      BY <3>1, <3>2
  <2>8. \E x, point : /\ IsAfter(rt, off, k, x, point) /\ i \in {x + 1, x + 2}
                      /\ PairIn(m, x, point, bus.name, color, TRUE)
    BY <2>3, <2>4, <2>6, <2>7
  <2> QED
    BY <1>4, <2>8 DEF IsOfLabels, color, l
<1>5. CASE i \in t + 1 .. t + n
  <2>1. CirclesIn(m, d, s, st, t)
    BY DEF IsPicture
  <2> DEFINE k == i - t
  <2>2. k \in 1 .. n /\ i = t + k
    BY <1>1, <1>5
  <2> HIDE DEF k
  <2>3. IsCircle(m[i], PointOf(d, s, st[k].name))
    BY <2>1, <2>2 DEF CirclesIn, n
  <2> QED
    BY <1>5, <2>3 DEF IsOfCircles, k, n
<1>6. CASE i \in u + 1 .. u + 2 * n
  <2>1. NamesIn(m, d, s, st, u)
    BY DEF IsPicture
  <2> DEFINE j == i - u
             k == (j + 1) \div 2
  <2>2. j \in 1 .. 2 * n /\ i = u + j
    BY <1>1, <1>6
  <2>3. k \in 1 .. n /\ (j = 2 * k - 1 \/ j = 2 * k)
    <3> HIDE DEF j
    <3> QED
      BY <1>1, <2>2
  <2> HIDE DEF j, k
  <2>4. i \in {u + 2 * (k - 1) + 1, u + 2 * (k - 1) + 2}
    BY <1>1, <2>2, <2>3
  <2>5. PairIn(m, u + 2 * (k - 1), PointOf(d, s, st[k].name), st[k].name, <<"black">>, FALSE)
    BY <2>1, <2>3 DEF NamesIn, n
  <2> QED
    BY <2>3, <2>4, <2>5 DEF IsOfNames, n
<1> QED
  BY <1>1, <1>2, <1>3, <1>4, <1>5, <1>6

\* What kind of element each is.
LEMMA Kinds ==
  ASSUME NEW m, NEW d, NEW s, NEW rt, NEW st, NEW off, NEW t, NEW u, NEW i
  PROVE  /\ IsOfLines(m, s, rt, i) => m[i].tag = "polyline" /\ Layer(m[i]) = 1 /\ ~IsLabel(m[i])
         /\ IsOfLabels(m, s, rt, off, t, i) =>
              /\ m[i].tag = "text" /\ Layer(m[i]) = 2
              /\ IsLabel(m[i]) => IsBusLabel(m[i])
         /\ IsOfCircles(m, d, s, st, t, i) =>
              m[i].tag = "circle" /\ Layer(m[i]) = 3 /\ ~IsLabel(m[i])
         /\ IsOfNames(m, d, s, st, u, i) =>
              m[i].tag = "text" /\ Layer(m[i]) = 4 /\ ~IsBusLabel(m[i])
<1>1. ASSUME IsOfLines(m, s, rt, i)
      PROVE  m[i].tag = "polyline" /\ Layer(m[i]) = 1 /\ ~IsLabel(m[i])
  <2>1. m[i].tag = "polyline"
    BY <1>1 DEF IsOfLines, IsLine
  <2> QED
    BY <2>1 DEF Layer, IsLabel
<1>2. ASSUME IsOfCircles(m, d, s, st, t, i)
      PROVE  m[i].tag = "circle" /\ Layer(m[i]) = 3 /\ ~IsLabel(m[i])
  <2>1. m[i].tag = "circle"
    BY <1>2 DEF IsOfCircles, IsCircle
  <2> QED
    BY <2>1 DEF Layer, IsLabel
<1>3. ASSUME IsOfLabels(m, s, rt, off, t, i)
      PROVE  m[i].tag = "text" /\ Layer(m[i]) = 2 /\ (IsLabel(m[i]) => IsBusLabel(m[i]))
  <2>1. PICK k, o, point :
          /\ IsAfter(rt, off, k, o, point) /\ i \in {o + 1, o + 2}
          /\ PairIn(m, o, point, rt[k].bus.name, ColorPrinter(ColorOf(s, k)), TRUE)
    BY <1>3 DEF IsOfLabels
  <2>2. m[i].tag = "text" /\ "font_weight" \in DOMAIN m[i].attributes
    BY <2>1 DEF PairIn, IsShade, IsName, IsText
  <2> QED
    BY <2>2 DEF Layer, IsBusLabel
<1>4. ASSUME IsOfNames(m, d, s, st, u, i)
      PROVE  m[i].tag = "text" /\ Layer(m[i]) = 4 /\ ~IsBusLabel(m[i])
  <2>1. PICK k \in 1 .. Len(st) :
          /\ i \in {u + 2 * (k - 1) + 1, u + 2 * (k - 1) + 2}
          /\ PairIn(m, u + 2 * (k - 1), PointOf(d, s, st[k].name), st[k].name, <<"black">>, FALSE)
    BY <1>4 DEF IsOfNames
  <2>2. m[i].tag = "text" /\ "font_weight" \notin DOMAIN m[i].attributes
    BY <2>1 DEF PairIn, IsShade, IsName, IsText
  <2> QED
    BY <2>2 DEF Layer, IsBusLabel
<1> QED
  BY <1>1, <1>2, <1>3, <1>4

\* A text that can be read is the second of a pair, behind its shade.
LEMMA LabelIsSecond ==
  ASSUME NEW m, NEW o, NEW point, NEW text, NEW color, NEW is_bold \in BOOLEAN,
         PairIn(m, o, point, text, color, is_bold), NEW i \in {o + 1, o + 2}
  PROVE  /\ IsLabel(m[i]) => i = o + 2
         /\ IsLabel(m[o + 2]) /\ (IsBusLabel(m[o + 2]) <=> is_bold)
         /\ "stroke" \in DOMAIN m[o + 1].attributes
         /\ m[o + 1].attributes.point = m[o + 2].attributes.point
         /\ m[o + 1].attributes.content = m[o + 2].attributes.content
<1>1. IsShade(m[o + 1], point, text, is_bold) /\ IsName(m[o + 2], point, text, color, is_bold)
  BY DEF PairIn
<1>2. ~IsLabel(m[o + 1])
  BY <1>1 DEF IsLabel, IsShade
<1>3. IsLabel(m[i]) => i = o + 2
  BY <1>2
<1>4. IsLabel(m[o + 2])
  BY <1>1 DEF IsLabel, IsName, IsText
<1>5. IsBusLabel(m[o + 2]) <=> is_bold
  BY <1>1, <1>4 DEF IsBusLabel, IsName, IsText
<1> QED
  BY <1>1, <1>3, <1>4, <1>5 DEF IsShade, IsName, IsText

\* Where the elements of each kind are.
LinesOf(m) == {i \in DOMAIN m : m[i].tag = "polyline"}

CirclesOf(m) == {i \in DOMAIN m : m[i].tag = "circle"}

StopLabelsOf(m) == {i \in DOMAIN m : IsLabel(m[i]) /\ ~IsBusLabel(m[i])}

StopLabelsAt(m, st, u) ==
  \A i \in DOMAIN m : IsLabel(m[i]) /\ ~IsBusLabel(m[i]) <=>
                       \E k \in 1 .. Len(st) : i = u + 2 * (k - 1) + 2

\* The element at i is the name of the k-th route.
IsLabelOf(m, s, rt, off, k, o, point, i) ==
  /\ IsAfter(rt, off, k, o, point) /\ i = o + 2
  /\ PairIn(m, o, point, rt[k].bus.name, ColorPrinter(ColorOf(s, k)), TRUE)

LEMMA Positions ==
  ASSUME NEW m, NEW d, NEW s, NEW rt, NEW st, NEW off, NEW t, NEW u,
         IsPicture(m, d, s, rt, st, off, t, u)
  PROVE  /\ LinesOf(m) = 1 .. Len(rt)
         /\ CirclesOf(m) = t + 1 .. t + Len(st)
         /\ StopLabelsAt(m, st, u)
         /\ \A i \in DOMAIN m : IsBusLabel(m[i]) =>
              \E k, o, point : IsLabelOf(m, s, rt, off, k, o, point, i)
<1> DEFINE l == Len(rt)
           n == Len(st)
<1>1. /\ l \in Nat /\ t \in Nat /\ u \in Nat /\ n \in Nat
      /\ l <= t /\ u = t + n /\ DOMAIN m = 1 .. u + 2 * n
      /\ LinesIn(m, s, rt) /\ CirclesIn(m, d, s, st, t) /\ NamesIn(m, d, s, st, u)
  BY DEF IsPicture
<1>2. \A i \in DOMAIN m : \/ IsOfLines(m, s, rt, i)
                          \/ IsOfLabels(m, s, rt, off, t, i)
                          \/ IsOfCircles(m, d, s, st, t, i)
                          \/ IsOfNames(m, d, s, st, u, i)
  BY Zones
<1>3. /\ \A i : IsOfLines(m, s, rt, i) => m[i].tag = "polyline" /\ i \in 1 .. l /\ ~IsLabel(m[i])
      /\ \A i : IsOfLabels(m, s, rt, off, t, i) =>
                  m[i].tag = "text" /\ (IsLabel(m[i]) => IsBusLabel(m[i]))
      /\ \A i : IsOfCircles(m, d, s, st, t, i) =>
                  m[i].tag = "circle" /\ i \in t + 1 .. t + n /\ ~IsLabel(m[i])
      /\ \A i : IsOfNames(m, d, s, st, u, i) => m[i].tag = "text" /\ ~IsBusLabel(m[i])
  BY Kinds DEF IsOfLines, IsOfCircles
<1>4. {i \in DOMAIN m : m[i].tag = "polyline"} = 1 .. l
  <2>1. \A i \in 1 .. l : i \in DOMAIN m /\ m[i].tag = "polyline"
    <3>1. \A i \in 1 .. l : m[i].tag = "polyline"
      BY <1>1 DEF LinesIn, IsLine
    <3> HIDE DEF l, n
    <3> QED
      BY <1>1, <3>1
  <2> QED
    BY <1>2, <1>3, <2>1
<1>5. {i \in DOMAIN m : m[i].tag = "circle"} = t + 1 .. t + n
  <2>1. ASSUME NEW i \in t + 1 .. t + n
        PROVE  i \in DOMAIN m /\ m[i].tag = "circle"
    <3> DEFINE k == i - t
    <3> HIDE DEF l, n
    <3>1. k \in 1 .. n /\ i = t + k /\ i \in 1 .. u + 2 * n
      BY <1>1
    <3> HIDE DEF k
    <3>2. IsCircle(m[i], PointOf(d, s, st[k].name))
      BY <1>1, <3>1 DEF CirclesIn, n
    <3> QED
      BY <1>1, <3>1, <3>2 DEF IsCircle
  <2> QED
    BY <1>2, <1>3, <2>1
<1>6. ASSUME NEW i \in DOMAIN m
      PROVE  IsLabel(m[i]) /\ ~IsBusLabel(m[i]) <=> \E k \in 1 .. n : i = u + 2 * (k - 1) + 2
  <2>1. ASSUME IsLabel(m[i]), ~IsBusLabel(m[i])
        PROVE  \E k \in 1 .. n : i = u + 2 * (k - 1) + 2
    <3>1. IsOfNames(m, d, s, st, u, i)
      BY <1>2, <1>3, <2>1
    <3>2. PICK k \in 1 .. n :
            /\ i \in {u + 2 * (k - 1) + 1, u + 2 * (k - 1) + 2}
            /\ PairIn(m, u + 2 * (k - 1), PointOf(d, s, st[k].name), st[k].name, <<"black">>, FALSE)
      BY <3>1 DEF IsOfNames
    <3>3. i = u + 2 * (k - 1) + 2
      BY <2>1, <3>2, LabelIsSecond
    <3> QED
      BY <3>3
  <2>2. ASSUME NEW k \in 1 .. n, i = u + 2 * (k - 1) + 2
        PROVE  IsLabel(m[i]) /\ ~IsBusLabel(m[i])
    <3>1. PairIn(m, u + 2 * (k - 1), PointOf(d, s, st[k].name), st[k].name, <<"black">>, FALSE)
      BY <1>1 DEF NamesIn
    <3> QED
      BY <2>2, <3>1, LabelIsSecond
  <2> QED
    BY <2>1, <2>2
<1>7. ASSUME NEW i \in DOMAIN m, IsBusLabel(m[i])
      PROVE  \E k, o, point : IsLabelOf(m, s, rt, off, k, o, point, i)
  <2>1. IsLabel(m[i])
    BY <1>7 DEF IsBusLabel
  <2>2. IsOfLabels(m, s, rt, off, t, i)
    BY <1>2, <1>3, <1>7, <2>1
  <2>3. PICK k, o, point : 
          /\ IsAfter(rt, off, k, o, point) /\ i \in {o + 1, o + 2}
          /\ PairIn(m, o, point, rt[k].bus.name, ColorPrinter(ColorOf(s, k)), TRUE)
    BY <2>2 DEF IsOfLabels
  <2>4. i = o + 2
    BY <2>1, <2>3, LabelIsSecond
  <2> QED
    BY <2>3, <2>4 DEF IsLabelOf
<1> QED
  BY <1>4, <1>5, <1>6, <1>7 DEF LinesOf, CirclesOf, StopLabelsAt
\* Each name of a bus is there.
LEMMA LabelsStand ==
  ASSUME NEW m, NEW d, NEW s, NEW rt, NEW st, NEW off, NEW t, NEW u,
         IsPicture(m, d, s, rt, st, off, t, u), NEW k, NEW o, NEW point,
         IsAfter(rt, off, k, o, point)
  PROVE  /\ o \in Nat /\ o + 2 \in DOMAIN m
         /\ PairIn(m, o, point, rt[k].bus.name, ColorPrinter(ColorOf(s, k)), TRUE)
<1> DEFINE l == Len(rt)
           n == Len(st)
           bus == rt[k].bus
           before == l + off[k - 1]
<1>1. /\ l \in Nat /\ t \in Nat /\ u \in Nat /\ n \in Nat
      /\ l <= t /\ u = t + n /\ DOMAIN m = 1 .. u + 2 * n /\ LabelsIn(m, s, rt, off, t)
  BY DEF IsPicture
<1>2. k \in 1 .. l
  BY DEF IsAfter
<1>3. off[k - 1] \in Nat /\ before + LabelCount(bus) <= t
  BY <1>1, <1>2 DEF LabelsIn
<1>4. PairIn(m, before, rt[k].points[1], bus.name, ColorPrinter(ColorOf(s, k)), TRUE)
  BY <1>1, <1>2 DEF LabelsIn
<1>5. HasSecondName(bus) =>
        PairIn(m, before + 2, rt[k].points[Middle(bus)], bus.name, ColorPrinter(ColorOf(s, k)), TRUE)
  BY <1>1, <1>2 DEF LabelsIn
<1>6. \/ o = before /\ point = rt[k].points[1]
      \/ o = before + 2 /\ point = rt[k].points[Middle(bus)] /\ HasSecondName(bus)
  BY DEF IsAfter
<1>7. before \in Nat
  BY <1>1, <1>3
<1>8. LabelCount(bus) \in Nat /\ 2 <= LabelCount(bus) /\ (HasSecondName(bus) => LabelCount(bus) = 4)
  BY DEF LabelCount
<1> HIDE DEF l, n, before
<1>9. o \in Nat /\ o + 2 \in 1 .. u + 2 * n
  BY <1>1, <1>3, <1>6, <1>7, <1>8
<1> QED
  BY <1>1, <1>4, <1>5, <1>6, <1>9

\* Its lines, circles and names, each in their order.
ListsAre(m, d, s, rt, st) ==
  LET lines   == ElementsOf(m, LinesOf(m))
      circles == ElementsOf(m, CirclesOf(m))
      names   == ElementsOf(m, StopLabelsOf(m))
  IN /\ Len(lines) = Len(rt) /\ Len(circles) = Len(st) /\ Len(names) = Len(st)
     /\ \A k \in 1 .. Len(rt) : IsLine(lines[k], rt[k].points, ColorPrinter(ColorOf(s, k)))
     /\ \A k \in 1 .. Len(st) :
          /\ IsCircle(circles[k], PointOf(d, s, st[k].name))
          /\ IsName(names[k], PointOf(d, s, st[k].name), st[k].name, <<"black">>, FALSE)

LEMMA Lists ==
  ASSUME NEW m, NEW d, NEW s, NEW rt, NEW st, NEW off, NEW t, NEW u,
         IsPicture(m, d, s, rt, st, off, t, u)
  PROVE  ListsAre(m, d, s, rt, st)
<1> DEFINE l == Len(rt)
           n == Len(st)
           line == [k \in 1 .. l |-> k]
           circle == [k \in 1 .. n |-> t + k]
           name == [k \in 1 .. n |-> u + 2 * (k - 1) + 2]
           lines == ElementsOf(m, LinesOf(m))
           circles == ElementsOf(m, CirclesOf(m))
           names == ElementsOf(m, StopLabelsOf(m))
<1>1. /\ l \in Nat /\ t \in Nat /\ u \in Nat /\ n \in Nat
      /\ l <= t /\ u = t + n /\ DOMAIN m = 1 .. u + 2 * n
      /\ LinesIn(m, s, rt) /\ CirclesIn(m, d, s, st, t) /\ NamesIn(m, d, s, st, u)
  BY DEF IsPicture
<1> HIDE DEF l, n
<1>2. /\ line \in [1 .. l -> Int] /\ circle \in [1 .. n -> Int] /\ name \in [1 .. n -> Int]
      /\ \A i, j \in 1 .. l : i < j => line[i] < line[j]
      /\ \A i, j \in 1 .. n : i < j => circle[i] < circle[j] /\ name[i] < name[j]
  BY <1>1
<1>3. LinesOf(m) = {line[k] : k \in 1 .. l}
  <2>1. LinesOf(m) = 1 .. l
    BY Positions DEF l
  <2> QED
    BY <2>1
<1>4. CirclesOf(m) = {circle[k] : k \in 1 .. n}
  <2>1. CirclesOf(m) = t + 1 .. t + n
    BY Positions DEF n
  <2>2. t + 1 .. t + n = {circle[k] : k \in 1 .. n}
    <3>1. \A i \in t + 1 .. t + n : i - t \in 1 .. n /\ i = t + (i - t)
      BY <1>1
    <3>2. \A k \in 1 .. n : t + k \in t + 1 .. t + n
      BY <1>1
    <3> QED
      BY <3>1, <3>2
  <2> QED
    BY <2>1, <2>2
<1>5. StopLabelsOf(m) = {name[k] : k \in 1 .. n}
  <2>1. StopLabelsAt(m, st, u)
    BY Positions
  <2>2. \A i \in DOMAIN m : IsLabel(m[i]) /\ ~IsBusLabel(m[i]) <=>
                            \E k \in 1 .. n : i = u + 2 * (k - 1) + 2
    BY <2>1 DEF StopLabelsAt, n
  <2>3. \A k \in 1 .. n : u + 2 * (k - 1) + 2 \in DOMAIN m
    BY <1>1
  <2> QED
    BY <2>2, <2>3 DEF StopLabelsOf
<1> HIDE DEF line, circle, name
<1>6. Len(lines) = l /\ \A k \in 1 .. l : lines[k] = m[line[k]]
  <2>1. IsListing(line, l, LinesOf(m))
    BY <1>1, <1>2, <1>3 DEF IsListing
  <2> QED
    BY <2>1, ElementsAre
<1>7. Len(circles) = n /\ \A k \in 1 .. n : circles[k] = m[circle[k]]
  <2>1. IsListing(circle, n, CirclesOf(m))
    BY <1>1, <1>2, <1>4 DEF IsListing
  <2> QED
    BY <2>1, ElementsAre
<1>8. Len(names) = n /\ \A k \in 1 .. n : names[k] = m[name[k]]
  <2>1. IsListing(name, n, StopLabelsOf(m))
    BY <1>1, <1>2, <1>5 DEF IsListing
  <2> QED
    BY <2>1, ElementsAre
<1>9. \A k \in 1 .. l : IsLine(lines[k], rt[k].points, ColorPrinter(ColorOf(s, k)))
  <2> HIDE DEF lines
  <2> QED
    BY <1>1, <1>6 DEF LinesIn, line, l
<1>10. \A k \in 1 .. n : IsCircle(circles[k], PointOf(d, s, st[k].name))
  <2> HIDE DEF circles
  <2> QED
    BY <1>1, <1>7 DEF CirclesIn, circle, n
<1>11. \A k \in 1 .. n : IsName(names[k], PointOf(d, s, st[k].name), st[k].name, <<"black">>, FALSE)
  <2> HIDE DEF names
  <2> QED
    BY <1>1, <1>8 DEF NamesIn, PairIn, name, n
<1> QED
  BY <1>6, <1>7, <1>8, <1>9, <1>10, <1>11 DEF ListsAre, l, n

\* Layers are not mixed.
LEMMA LayersInOrder ==
  ASSUME NEW m, NEW d, NEW s, NEW rt, NEW st, NEW off, NEW t, NEW u,
         IsPicture(m, d, s, rt, st, off, t, u), NEW i \in DOMAIN m, NEW j \in DOMAIN m, i < j
  PROVE  Layer(m[i]) <= Layer(m[j])
<1> DEFINE l == Len(rt)
           n == Len(st)
           Above(x) == IF x <= l THEN 1 ELSE IF x <= t THEN 2 ELSE IF x <= u THEN 3 ELSE 4
<1>1. /\ l \in Nat /\ t \in Nat /\ u \in Nat /\ n \in Nat
      /\ l <= t /\ u = t + n /\ DOMAIN m = 1 .. u + 2 * n
  BY DEF IsPicture
<1>2. ASSUME NEW x \in DOMAIN m
      PROVE  Layer(m[x]) = Above(x)
  <2>1. CASE IsOfLines(m, s, rt, x)
    <3>1. Layer(m[x]) = 1 /\ x \in 1 .. l
      BY <2>1, Kinds DEF IsOfLines
    <3> HIDE DEF l, n
    <3> QED
      BY <1>1, <3>1
  <2>2. CASE IsOfLabels(m, s, rt, off, t, x)
    <3>1. Layer(m[x]) = 2 /\ x \in l + 1 .. t
      BY <2>2, Kinds DEF IsOfLabels
    <3> HIDE DEF l, n
    <3> QED
      BY <1>1, <3>1
  <2>3. CASE IsOfCircles(m, d, s, st, t, x)
    <3>1. Layer(m[x]) = 3 /\ x \in t + 1 .. t + n
      BY <2>3, Kinds DEF IsOfCircles
    <3> HIDE DEF l, n
    <3> QED
      BY <1>1, <3>1
  <2>4. CASE IsOfNames(m, d, s, st, u, x)
    <3>1. Layer(m[x]) = 4
      BY <2>4, Kinds
    <3>2. PICK k \in 1 .. n : x \in {u + 2 * (k - 1) + 1, u + 2 * (k - 1) + 2}
      BY <2>4 DEF IsOfNames
    <3> HIDE DEF l, n
    <3> QED
      BY <1>1, <3>1, <3>2
  <2> QED
    BY <2>1, <2>2, <2>3, <2>4, Zones
<1>3. Layer(m[i]) = Above(i) /\ Layer(m[j]) = Above(j)
  BY <1>2
<1> HIDE DEF l, n
<1> QED
  BY <1>1, <1>3

\* Each name lies over its shade.
LEMMA ShadesUnderNames ==
  ASSUME NEW m, NEW d, NEW s, NEW rt, NEW st, NEW off, NEW t, NEW u,
         IsPicture(m, d, s, rt, st, off, t, u), NEW i \in DOMAIN m, IsLabel(m[i])
  PROVE  /\ "stroke" \in DOMAIN m[i - 1].attributes
         /\ m[i - 1].attributes.point = m[i].attributes.point
         /\ m[i - 1].attributes.content = m[i].attributes.content
<1>1. PICK o \in Nat : /\ i = o + 2
                       /\ \E point, text, color : \E is_bold \in BOOLEAN :
                            PairIn(m, o, point, text, color, is_bold)
  <2>1. CASE IsBusLabel(m[i])
    <3>1. PICK k, o, point : IsLabelOf(m, s, rt, off, k, o, point, i)
      BY <2>1, Positions
    <3>2. o \in Nat
      BY <3>1, LabelsStand DEF IsLabelOf
    <3> QED
      BY <3>1, <3>2 DEF IsLabelOf
  <2>2. CASE ~IsBusLabel(m[i])
    <3>1. PICK k \in 1 .. Len(st) : i = u + 2 * (k - 1) + 2
      BY <2>2, Positions DEF StopLabelsAt
    <3>2. PairIn(m, u + 2 * (k - 1), PointOf(d, s, st[k].name), st[k].name, <<"black">>, FALSE)
      BY DEF IsPicture, NamesIn
    <3>3. u + 2 * (k - 1) \in Nat
      <4>1. u \in Nat /\ Len(st) \in Nat
        BY DEF IsPicture
      <4> QED
        BY <4>1
    <3> QED
      BY <3>1, <3>2, <3>3
  <2> QED
    BY <2>1, <2>2
<1>2. i - 1 = o + 1
  BY <1>1
<1> QED
  BY <1>1, <1>2, LabelIsSecond

-----------------------------------------------------------------------------
(* The frame.                                                               *)

\* Products keep the order of their factors.
LEMMA Products ==
  ASSUME NEW a \in Int, NEW b \in Int, NEW c \in Nat, a <= b
  PROVE  a * c <= b * c /\ a * c \in Int /\ b * c \in Int /\ (0 <= a => 0 <= a * c)
<1>1. a * c \in Int /\ b * c \in Int /\ (b - a) * c = b * c - a * c
  OBVIOUS
<1>2. \A x \in Nat : 0 <= x * c
  OBVIOUS
<1>3. b - a \in Nat /\ 0 <= (b - a) * c
  BY <1>2
<1> QED
  BY <1>1, <1>2, <1>3

\* The quotients to choose from, and the choice.
Quotients(X, w, Y, h) ==
  (IF w = 0 THEN {} ELSE {<<X, w>>}) \cup (IF h = 0 THEN {} ELSE {<<Y, h>>})

IsChosen(z, Z) ==
  z = IF Z = {} THEN <<0, 1>>
      ELSE CHOOSE x \in Z : \A y \in Z : x[1] * y[2] <= y[1] * x[2]

\* Of two quotients one is least; a direction without extent has none.
LEMMA LeastQuotient ==
  ASSUME NEW X \in Nat, NEW Y \in Nat, NEW w \in Nat, NEW h \in Nat,
         NEW Z, Z = Quotients(X, w, Y, h), NEW z, IsChosen(z, Z)
  PROVE  /\ z[1] \in Nat /\ z[2] \in Nat \ {0}
         /\ w * z[1] <= X * z[2] /\ h * z[1] <= Y * z[2]
         /\ \/ w = 0 /\ h = 0
            \/ w # 0 /\ z = <<X, w>>
            \/ h # 0 /\ z = <<Y, h>>
<1> DEFINE Least(x) == \A y \in Z : x[1] * y[2] <= y[1] * x[2]
<1>1. /\ <<X, w>>[1] = X /\ <<X, w>>[2] = w /\ <<Y, h>>[1] = Y /\ <<Y, h>>[2] = h
      /\ X * w \in Int /\ X * h \in Int /\ Y * w \in Int /\ Y * h \in Int
      /\ w * X = X * w /\ h * X = X * h /\ w * Y = Y * w /\ h * Y = Y * h
  OBVIOUS
<1>2. CASE w = 0 /\ h = 0
  <2>1. z = <<0, 1>>
    BY <1>2 DEF Quotients, IsChosen
  <2> QED
    BY <1>2, <2>1
<1>3. CASE w # 0 /\ h = 0
  <2>1. Z = {<<X, w>>}
    BY <1>3 DEF Quotients
  <2>2. Least(<<X, w>>)
    BY <1>1, <2>1
  <2>3. z \in Z
    BY <2>1, <2>2 DEF IsChosen
  <2>4. z = <<X, w>>
    BY <2>1, <2>3
  <2>5. z[1] = X /\ z[2] = w
    BY <1>1, <2>4
  <2>6. 0 * X = 0 /\ 0 <= Y * w
    OBVIOUS
  <2> QED
    BY <1>1, <1>3, <2>4, <2>5, <2>6
<1>4. CASE w = 0 /\ h # 0
  <2>1. Z = {<<Y, h>>}
    BY <1>4 DEF Quotients
  <2>2. Least(<<Y, h>>)
    BY <1>1, <2>1
  <2>3. z \in Z
    BY <2>1, <2>2 DEF IsChosen
  <2>4. z = <<Y, h>>
    BY <2>1, <2>3
  <2>5. z[1] = Y /\ z[2] = h
    BY <1>1, <2>4
  <2>6. 0 * Y = 0 /\ 0 <= X * h
    OBVIOUS
  <2> QED
    BY <1>1, <1>4, <2>4, <2>5, <2>6
<1>5. CASE w # 0 /\ h # 0
  <2>1. Z = {<<X, w>>, <<Y, h>>}
    BY <1>5 DEF Quotients
  <2>2. \E x \in Z : Least(x)
    <3>1. CASE X * h <= Y * w
      <4>1. Least(<<X, w>>)
        BY <1>1, <2>1, <3>1
      <4> QED
        BY <2>1, <4>1
    <3>2. CASE ~ (X * h <= Y * w)
      <4>1. Y * w <= X * h
        BY <1>1, <3>2
      <4>2. Least(<<Y, h>>)
        BY <1>1, <2>1, <4>1
      <4> QED
        BY <2>1, <4>2
    <3> QED
      BY <3>1, <3>2
  <2>3. z = CHOOSE x \in Z : Least(x)
    BY <2>1 DEF IsChosen
  <2> HIDE DEF Least
  <2>4. z \in Z /\ Least(z)
    BY <2>2, <2>3
  <2>5. z[1] * w <= X * z[2] /\ z[1] * h <= Y * z[2]
    BY <1>1, <2>1, <2>4 DEF Least
  <2>6. CASE z = <<X, w>>
    <3>1. z[1] = X /\ z[2] = w
      BY <1>1, <2>6
    <3> QED
      BY <1>1, <1>5, <2>5, <2>6, <3>1
  <2>7. CASE z = <<Y, h>>
    <3>1. z[1] = Y /\ z[2] = h
      BY <1>1, <2>7
    <3> QED
      BY <1>1, <1>5, <2>5, <2>7, <3>1
  <2> QED
    BY <2>1, <2>4, <2>6, <2>7
<1> QED
  BY <1>2, <1>3, <1>4, <1>5

\* The coordinates of the stops that are shown, and their extremes.
LEMMA CoordinatesAre ==
  ASSUME NEW d \in Bases, ShownOf(d) # {}
  PROVE  /\ \A name \in ShownOf(d) :
              LET c == StopOf(d, name).coordinates IN
              /\ c.lng \in Int /\ Min(LngsOf(d)) <= c.lng /\ c.lng <= Max(LngsOf(d))
              /\ c.lat \in Int /\ Min(LatsOf(d)) <= c.lat /\ c.lat <= Max(LatsOf(d))
         /\ \E name \in ShownOf(d) : StopOf(d, name).coordinates.lng = Min(LngsOf(d))
         /\ \E name \in ShownOf(d) : StopOf(d, name).coordinates.lng = Max(LngsOf(d))
         /\ \E name \in ShownOf(d) : StopOf(d, name).coordinates.lat = Min(LatsOf(d))
         /\ \E name \in ShownOf(d) : StopOf(d, name).coordinates.lat = Max(LatsOf(d))
         /\ {Min(LngsOf(d)), Max(LngsOf(d)), Min(LatsOf(d)), Max(LatsOf(d))} \subseteq Int
<1> DEFINE S == ShownOf(d)
           lng == [name \in S |-> StopOf(d, name).coordinates.lng]
           lat == [name \in S |-> StopOf(d, name).coordinates.lat]
<1>1. IsFiniteSet(S)
  BY ShownIs
<1>2. /\ LngsOf(d) = {lng[name] : name \in S}
      /\ LatsOf(d) = {lat[name] : name \in S}
  BY DEF LngsOf, LatsOf
<1>3. \A name \in S : StopOf(d, name).coordinates \in [lat : Int, lng : Int]
  BY ShownIs, BaseIs
<1>4. \A name \in S : /\ lng[name] = StopOf(d, name).coordinates.lng /\ lng[name] \in Int
                      /\ lat[name] = StopOf(d, name).coordinates.lat /\ lat[name] \in Int
  BY <1>3
<1>5. S # {}
  OBVIOUS
<1> HIDE DEF S, lng, lat
<1>6. IsFiniteSet(LngsOf(d)) /\ IsFiniteSet(LatsOf(d))
  BY <1>1, <1>2, ImageIsFinite
<1>7. LngsOf(d) \in SUBSET Int /\ LatsOf(d) \in SUBSET Int /\ LngsOf(d) # {} /\ LatsOf(d) # {}
  BY <1>2, <1>4, <1>5
<1>8. /\ Min(LngsOf(d)) \in LngsOf(d) /\ \A x \in LngsOf(d) : Min(LngsOf(d)) <= x
      /\ Max(LngsOf(d)) \in LngsOf(d) /\ \A x \in LngsOf(d) : x <= Max(LngsOf(d))
  BY <1>6, <1>7, Extremes
<1>9. /\ Min(LatsOf(d)) \in LatsOf(d) /\ \A x \in LatsOf(d) : Min(LatsOf(d)) <= x
      /\ Max(LatsOf(d)) \in LatsOf(d) /\ \A x \in LatsOf(d) : x <= Max(LatsOf(d))
  BY <1>6, <1>7, Extremes
<1>10. \A name \in S :
         /\ lng[name] \in Int /\ Min(LngsOf(d)) <= lng[name] /\ lng[name] <= Max(LngsOf(d))
         /\ lat[name] \in Int /\ Min(LatsOf(d)) <= lat[name] /\ lat[name] <= Max(LatsOf(d))
  BY <1>2, <1>4, <1>8, <1>9
<1>11. /\ \E name \in S : lng[name] = Min(LngsOf(d))
       /\ \E name \in S : lng[name] = Max(LngsOf(d))
       /\ \E name \in S : lat[name] = Min(LatsOf(d))
       /\ \E name \in S : lat[name] = Max(LatsOf(d))
  BY <1>2, <1>8, <1>9
<1>12. {Min(LngsOf(d)), Max(LngsOf(d)), Min(LatsOf(d)), Max(LatsOf(d))} \subseteq Int
  BY <1>7, <1>8, <1>9
<1>13. \A name \in S :
         LET c == StopOf(d, name).coordinates IN
         /\ c.lng \in Int /\ Min(LngsOf(d)) <= c.lng /\ c.lng <= Max(LngsOf(d))
         /\ c.lat \in Int /\ Min(LatsOf(d)) <= c.lat /\ c.lat <= Max(LatsOf(d))
  BY <1>4, <1>10
<1>14. /\ \E name \in S : StopOf(d, name).coordinates.lng = Min(LngsOf(d))
       /\ \E name \in S : StopOf(d, name).coordinates.lng = Max(LngsOf(d))
       /\ \E name \in S : StopOf(d, name).coordinates.lat = Min(LatsOf(d))
       /\ \E name \in S : StopOf(d, name).coordinates.lat = Max(LatsOf(d))
  BY <1>4, <1>11
<1> QED
  BY <1>12, <1>13, <1>14 DEF S

\* The padding leaves room for a picture, and no extent counts as none that is
\* not.
IsSound(d, s) ==
  /\ 2 * s.padding <= Min({s.width, s.height})
  /\ {Extent(LngsOf(d)), Extent(LatsOf(d))} \cap (1 .. EPSILON - 1) = {}

\* Where along one direction a stop is put that is a after the first.
Along(a, z, padding) == a * z[1] + padding * z[2]

\* Along a direction of this extent, the points are inside the padding.
LEMMA AlongFits ==
  ASSUME NEW size \in Int, NEW padding \in Int, NEW extent \in Nat, NEW z,
         z[1] \in Nat, z[2] \in Nat \ {0}, extent * z[1] <= (size - 2 * padding) * z[2],
         NEW a \in Nat, a <= extent
  PROVE  /\ padding * z[2] <= Along(a, z, padding)
         /\ Along(a, z, padding) <= (size - padding) * z[2]
         /\ \A b \in Nat : a <= b => Along(a, z, padding) <= Along(b, z, padding)
         /\ Along(0, z, padding) = padding * z[2]
         /\ z = <<size - 2 * padding, extent>> => Along(extent, z, padding) = (size - padding) * z[2]
<1> DEFINE x == z[1]
           y == z[2]
<1>1. x \in Nat /\ y \in Nat \ {0} /\ extent * x <= (size - 2 * padding) * y
  OBVIOUS
<1>2. z = <<size - 2 * padding, extent>> => x = size - 2 * padding /\ y = extent
  OBVIOUS
<1>3. \A b : Along(b, z, padding) = b * x + padding * y
  BY DEF Along
<1> HIDE DEF x, y
<1>4. a * x <= extent * x /\ 0 <= a * x /\ a * x \in Int /\ extent * x \in Int
  BY <1>1, Products
<1>5. padding * y \in Int /\ (size - 2 * padding) * y + padding * y = (size - padding) * y
      /\ (size - 2 * padding) * y \in Int /\ (size - padding) * y \in Int
  BY <1>1
<1>6. padding * y <= a * x + padding * y /\ a * x + padding * y <= (size - padding) * y
  BY <1>1, <1>4, <1>5
<1>7. ASSUME NEW b \in Nat, a <= b
      PROVE  a * x + padding * y <= b * x + padding * y
  <2>1. a * x <= b * x /\ b * x \in Int
    BY <1>1, <1>7, Products
  <2> QED
    BY <1>4, <1>5, <2>1
<1>8. 0 * x + padding * y = padding * y
  BY <1>1, <1>5
<1>9. ASSUME z = <<size - 2 * padding, extent>>
      PROVE  extent * x + padding * y = (size - padding) * y
  <2>1. x = size - 2 * padding /\ y = extent
    BY <1>2, <1>9
  <2>2. extent * x = (size - 2 * padding) * y
    BY <2>1
  <2> QED
    BY <1>5, <2>2
<1> QED
  BY <1>3, <1>6, <1>7, <1>8, <1>9 DEF y

PlacesOf(d, s) == {PointOf(d, s, name) : name \in ShownOf(d)}

\* The parts of PictureFillsTheFrame, from the catalogue and the settings.
IsInside(s, p) ==
  /\ s.padding * p[3] <= p[1] /\ p[1] <= (s.width - s.padding) * p[3]
  /\ s.padding * p[3] <= p[2] /\ p[2] <= (s.height - s.padding) * p[3]

KeepsDirections(d, s) ==
  \A n, m \in ShownOf(d) :
    LET a == StopOf(d, n).coordinates  b == StopOf(d, m).coordinates IN
    /\ a.lng <= b.lng => PointOf(d, s, n)[1] <= PointOf(d, s, m)[1]
    /\ a.lat <= b.lat => PointOf(d, s, n)[2] >= PointOf(d, s, m)[2]

ReachesTheEdges(d, s) ==
  /\ \E p \in PlacesOf(d, s) : p[1] = s.padding * p[3]
  /\ \E p \in PlacesOf(d, s) : p[2] = s.padding * p[3]
  /\ Cardinality(PlacesOf(d, s)) > 1 => \E p \in PlacesOf(d, s) :
       \/ p[1] = (s.width - s.padding) * p[3]
       \/ p[2] = (s.height - s.padding) * p[3]

\* What the zoom makes of the extents.
LEMMA ZoomFits ==
  ASSUME NEW d \in Bases, ShownOf(d) # {},
         NEW s, s.width \in Int, s.height \in Int, s.padding \in Int, IsSound(d, s)
  PROVE  LET z == ZoomOf(d, s)
             w == Extent(LngsOf(d))
             h == Extent(LatsOf(d))
         IN /\ w \in Nat /\ h \in Nat
            /\ z[1] \in Nat /\ z[2] \in Nat \ {0}
            /\ w * z[1] <= (s.width - 2 * s.padding) * z[2]
            /\ h * z[1] <= (s.height - 2 * s.padding) * z[2]
            /\ \/ w = 0 /\ h = 0
               \/ w # 0 /\ z = <<s.width - 2 * s.padding, w>>
               \/ h # 0 /\ z = <<s.height - 2 * s.padding, h>>
<1> DEFINE X == s.width - 2 * s.padding
           Y == s.height - 2 * s.padding
           w == Extent(LngsOf(d))
           h == Extent(LatsOf(d))
           Z == ZoomsOf(d, s)
           z == ZoomOf(d, s)
           Fine == /\ w \in Nat /\ h \in Nat
                   /\ z[1] \in Nat /\ z[2] \in Nat \ {0}
                   /\ w * z[1] <= X * z[2] /\ h * z[1] <= Y * z[2]
                   /\ \/ w = 0 /\ h = 0
                      \/ w # 0 /\ z = <<X, w>>
                      \/ h # 0 /\ z = <<Y, h>>
<1> SUFFICES Fine
  OBVIOUS
<1>1. w \in Nat /\ h \in Nat
  <2>1. PICK name \in ShownOf(d) : TRUE
    OBVIOUS
  <2>2. LET c == StopOf(d, name).coordinates IN
        /\ c.lng \in Int /\ Min(LngsOf(d)) <= c.lng /\ c.lng <= Max(LngsOf(d))
        /\ c.lat \in Int /\ Min(LatsOf(d)) <= c.lat /\ c.lat <= Max(LatsOf(d))
    BY <2>1, CoordinatesAre
  <2>3. {Min(LngsOf(d)), Max(LngsOf(d)), Min(LatsOf(d)), Max(LatsOf(d))} \subseteq Int
    BY CoordinatesAre
  <2> QED
    BY <2>2, <2>3 DEF Extent
<1>2. X \in Nat /\ Y \in Nat
  <2> DEFINE S == {s.width, s.height}
  <2>1. IsFiniteSet(S) /\ S \in SUBSET Int /\ S # {}
    <3>1. IsFiniteSet({}) /\ IsFiniteSet({} \cup {s.width})
          /\ IsFiniteSet(({} \cup {s.width}) \cup {s.height})
      BY FS_EmptySet, FS_AddElement
    <3>2. S = ({} \cup {s.width}) \cup {s.height}
      OBVIOUS
    <3> HIDE DEF S
    <3>3. IsFiniteSet(S)
      BY <3>1, <3>2
    <3> QED
      BY <3>3 DEF S
  <2>2. s.width \in S /\ s.height \in S
    OBVIOUS
  <2>3. 2 * s.padding <= Min(S)
    BY DEF IsSound
  <2> HIDE DEF S
  <2>4. Min(S) \in Int /\ Min(S) <= s.width /\ Min(S) <= s.height
    BY <2>1, <2>2, Extremes
  <2> QED
    BY <2>3, <2>4
<1>3. (w < EPSILON <=> w = 0) /\ (h < EPSILON <=> h = 0)
  <2>1. w \notin 1 .. EPSILON - 1 /\ h \notin 1 .. EPSILON - 1
    BY DEF IsSound
  <2>2. EPSILON \in Nat \ {0}
    BY EpsilonAssumption
  <2> HIDE DEF w, h
  <2> QED
    BY <1>1, <2>1, <2>2
<1>4. Z = Quotients(X, w, Y, h)
  BY <1>3 DEF ZoomsOf, Quotients
<1>5. IsChosen(z, Z)
  BY DEF ZoomOf, IsChosen
<1> HIDE DEF X, Y, w, h, Z, z
<1>6. /\ z[1] \in Nat /\ z[2] \in Nat \ {0}
      /\ w * z[1] <= X * z[2] /\ h * z[1] <= Y * z[2]
      /\ \/ w = 0 /\ h = 0
         \/ w # 0 /\ z = <<X, w>>
         \/ h # 0 /\ z = <<Y, h>>
  BY <1>1, <1>2, <1>4, <1>5, LeastQuotient
<1> QED
  BY <1>1, <1>6

\* The frame is filled.
LEMMA PlacesFit ==
  ASSUME NEW d \in Bases, ShownOf(d) # {},
         NEW s, s.width \in Int, s.height \in Int, s.padding \in Int, IsSound(d, s)
  PROVE  /\ \A p \in PlacesOf(d, s) : IsInside(s, p)
         /\ KeepsDirections(d, s)
         /\ ReachesTheEdges(d, s)
<1> DEFINE z == ZoomOf(d, s)
           w == Extent(LngsOf(d))
           h == Extent(LatsOf(d))
           west == Min(LngsOf(d))
           north == Max(LatsOf(d))
           lng(name) == StopOf(d, name).coordinates.lng
           lat(name) == StopOf(d, name).coordinates.lat
           P(name) == PointOf(d, s, name)
           a(name) == lng(name) - west
           b(name) == north - lat(name)
<1>1. /\ w \in Nat /\ h \in Nat
      /\ z[1] \in Nat /\ z[2] \in Nat \ {0}
      /\ w * z[1] <= (s.width - 2 * s.padding) * z[2]
      /\ h * z[1] <= (s.height - 2 * s.padding) * z[2]
      /\ \/ w = 0 /\ h = 0
         \/ w # 0 /\ z = <<s.width - 2 * s.padding, w>>
         \/ h # 0 /\ z = <<s.height - 2 * s.padding, h>>
  BY ZoomFits
<1>2. \A name \in ShownOf(d) :
         /\ lng(name) \in Int /\ Min(LngsOf(d)) <= lng(name) /\ lng(name) <= Max(LngsOf(d))
         /\ lat(name) \in Int /\ Min(LatsOf(d)) <= lat(name) /\ lat(name) <= Max(LatsOf(d))
  BY CoordinatesAre
<1>3. {Min(LngsOf(d)), Max(LngsOf(d)), Min(LatsOf(d)), Max(LatsOf(d))} \subseteq Int
  BY CoordinatesAre
<1>4. /\ \E name \in ShownOf(d) : lng(name) = Min(LngsOf(d))
      /\ \E name \in ShownOf(d) : lng(name) = Max(LngsOf(d))
      /\ \E name \in ShownOf(d) : lat(name) = Min(LatsOf(d))
      /\ \E name \in ShownOf(d) : lat(name) = Max(LatsOf(d))
  BY CoordinatesAre
<1>5. \A name : P(name) = <<Along(a(name), z, s.padding), Along(b(name), z, s.padding), z[2]>>
  BY DEF PointOf, Along
<1> HIDE DEF lng, lat, P
<1>6. \A name \in ShownOf(d) :
         /\ a(name) \in Nat /\ a(name) <= w
         /\ b(name) \in Nat /\ b(name) <= h
  BY <1>2, <1>3 DEF Extent
<1>7. /\ \E name \in ShownOf(d) : a(name) = 0
      /\ \E name \in ShownOf(d) : a(name) = w
      /\ \E name \in ShownOf(d) : b(name) = 0
      /\ \E name \in ShownOf(d) : b(name) = h
  BY <1>2, <1>3, <1>4 DEF Extent
<1>8. \A n, m \in ShownOf(d) : /\ lng(n) <= lng(m) => a(n) <= a(m)
                               /\ lat(n) <= lat(m) => b(m) <= b(n)
  BY <1>2, <1>3
<1>9. \A name : /\ P(name)[1] = Along(a(name), z, s.padding)
                /\ P(name)[2] = Along(b(name), z, s.padding)
                /\ P(name)[3] = z[2]
  BY <1>5
<1> HIDE DEF z, w, h, west, north, a, b
<1>10. ASSUME NEW name \in ShownOf(d)
       PROVE  IsInside(s, P(name))
  <2>1. /\ s.padding * z[2] <= Along(a(name), z, s.padding)
        /\ Along(a(name), z, s.padding) <= (s.width - s.padding) * z[2]
    BY <1>1, <1>6, AlongFits
  <2>2. /\ s.padding * z[2] <= Along(b(name), z, s.padding)
        /\ Along(b(name), z, s.padding) <= (s.height - s.padding) * z[2]
    BY <1>1, <1>6, AlongFits
  <2> QED
    BY <1>9, <2>1, <2>2 DEF IsInside
<1>11. \A p \in PlacesOf(d, s) : IsInside(s, p)
  BY <1>10 DEF PlacesOf, P
<1>12. ASSUME NEW n \in ShownOf(d), NEW m \in ShownOf(d)
       PROVE  /\ lng(n) <= lng(m) => P(n)[1] <= P(m)[1]
              /\ lat(n) <= lat(m) => P(n)[2] >= P(m)[2]
  <2>1. \A x, y \in Nat : x <= y /\ x <= w => Along(x, z, s.padding) <= Along(y, z, s.padding)
    BY <1>1, AlongFits
  <2>2. \A x, y \in Nat : x <= y /\ x <= h => Along(x, z, s.padding) <= Along(y, z, s.padding)
    BY <1>1, AlongFits
  <2>3. lng(n) <= lng(m) => Along(a(n), z, s.padding) <= Along(a(m), z, s.padding)
    BY <1>6, <1>8, <2>1
  <2>4. lat(n) <= lat(m) => Along(b(m), z, s.padding) <= Along(b(n), z, s.padding)
    BY <1>6, <1>8, <2>2
  <2>5. \A name \in ShownOf(d) : /\ Along(a(name), z, s.padding) \in Int
                                 /\ Along(b(name), z, s.padding) \in Int
    <3>1. \A x \in Nat : Along(x, z, s.padding) \in Int
      BY <1>1 DEF Along
    <3> QED
      BY <1>6, <3>1
  <2> QED
    BY <1>9, <2>3, <2>4, <2>5
<1>13. KeepsDirections(d, s)
  BY <1>12 DEF KeepsDirections, P, lng, lat
<1>14. \A name \in ShownOf(d) : P(name) \in PlacesOf(d, s)
  BY DEF PlacesOf, P
<1>15. Along(0, z, s.padding) = s.padding * z[2]
  <2>1. 0 \in Nat /\ 0 <= w
    BY <1>1
  <2> QED
    BY <1>1, <2>1, AlongFits
<1>16. (\E p \in PlacesOf(d, s) : p[1] = s.padding * p[3])
       /\ (\E p \in PlacesOf(d, s) : p[2] = s.padding * p[3])
  BY <1>7, <1>9, <1>14, <1>15
<1>17. ASSUME Cardinality(PlacesOf(d, s)) > 1
       PROVE  \E p \in PlacesOf(d, s) :
                \/ p[1] = (s.width - s.padding) * p[3]
                \/ p[2] = (s.height - s.padding) * p[3]
  <2>1. CASE w = 0 /\ h = 0
    <3>1. \A name \in ShownOf(d) : a(name) = 0 /\ b(name) = 0
      BY <1>6, <2>1
    <3>2. \A name \in ShownOf(d) : P(name) = <<Along(0, z, s.padding), Along(0, z, s.padding), z[2]>>
      BY <1>5, <3>1
    <3> DEFINE point == <<Along(0, z, s.padding), Along(0, z, s.padding), z[2]>>
    <3> HIDE DEF point
    <3>3. PlacesOf(d, s) = {point}
      BY <3>2 DEF PlacesOf, P, point
    <3>4. Cardinality({point}) = 1
      BY FS_Singleton
    <3> QED
      BY <1>17, <3>3, <3>4
  <2>2. CASE w # 0 /\ z = <<s.width - 2 * s.padding, w>>
    <3>1. Along(w, z, s.padding) = (s.width - s.padding) * z[2]
      <4>1. w <= w
        BY <1>1
      <4> QED
        BY <1>1, <2>2, <4>1, AlongFits
    <3>2. PICK name \in ShownOf(d) : a(name) = w
      BY <1>7
    <3>3. P(name)[1] = (s.width - s.padding) * P(name)[3]
      BY <1>9, <3>1, <3>2
    <3> QED
      BY <1>14, <3>3
  <2>3. CASE h # 0 /\ z = <<s.height - 2 * s.padding, h>>
    <3>1. Along(h, z, s.padding) = (s.height - s.padding) * z[2]
      <4>1. h <= h
        BY <1>1
      <4> QED
        BY <1>1, <2>3, <4>1, AlongFits
    <3>2. PICK name \in ShownOf(d) : b(name) = h
      BY <1>7
    <3>3. P(name)[2] = (s.height - s.padding) * P(name)[3]
      BY <1>9, <3>1, <3>2
    <3> QED
      BY <1>14, <3>3
  <2> QED
    BY <1>1, <2>1, <2>2, <2>3
<1>18. ReachesTheEdges(d, s)
  BY <1>16, <1>17 DEF ReachesTheEdges
<1> QED
  BY <1>11, <1>13, <1>18

\* A route that is drawn goes through stops that are shown.
LEMMA RouteIs ==
  ASSUME NEW d \in Bases, NEW s, NEW bs, NEW rt, BusesInOrder(d, bs),
         RoutesInOrder(d, s, bs, rt), NEW k \in 1 .. Len(rt)
  PROVE  /\ IsDrawn(d, rt[k].bus)
         /\ rt[k].points \in Seq(PlacesOf(d, s)) /\ rt[k].points # <<>>
<1>1. \E i, j \in 1 .. Len(bs) :
        bs[i].name = bs[j].name /\ rt[k] = LineOf(d, s, bs[i], bs[j])
  BY DEF RoutesInOrder
<1>2. PICK i \in 1 .. Len(bs) : \E j \in 1 .. Len(bs) :
        bs[i].name = bs[j].name /\ rt[k] = LineOf(d, s, bs[i], bs[j])
  BY <1>1
<1>3. PICK j \in 1 .. Len(bs) :
        bs[i].name = bs[j].name /\ rt[k] = LineOf(d, s, bs[i], bs[j])
  BY <1>2
<1>4. IsDrawn(d, bs[i]) /\ IsDrawn(d, bs[j])
  BY BusIs
<1> DEFINE route == bs[j].stops
           P == PlacesOf(d, s)
<1>5. rt[k].bus = bs[i] /\ rt[k].points = PointsOf(d, s, route)
  BY <1>3 DEF LineOf
<1>6. /\ route \in Seq(NamesOf(d.stops)) /\ route # <<>>
      /\ Range(route) \subseteq ShownOf(d)
  BY <1>4 DEF IsDrawn
<1> HIDE DEF route
<1>7. \A i1 \in 1 .. Len(route) : route[i1] \in ShownOf(d)
  BY <1>6, SeqIsSeq
<1>8. \A i1 \in 1 .. Len(route) : PointOf(d, s, route[i1]) \in P
  BY <1>7 DEF PlacesOf
<1> HIDE DEF P
<1>9. Len(route) \in Nat \ {0}
  BY <1>6
<1>10. PointsOf(d, s, route) \in Seq(P) /\ Len(PointsOf(d, s, route)) = Len(route)
  BY <1>8, <1>9 DEF PointsOf
<1>11. PointsOf(d, s, route) # <<>>
  BY <1>9, <1>10
<1> QED
  BY <1>4, <1>5, <1>10, <1>11 DEF P

\* An element is at one of the places, or goes through them.
IsPlaced(e, places) ==
  /\ e.tag \in {"polyline", "circle", "text"}
  /\ e.tag = "polyline" => Range(e.attributes.points) \subseteq places
  /\ e.tag = "circle" => e.attributes.center \in places
  /\ e.tag = "text" => e.attributes.point \in places

\* Everything in the map is placed.
LEMMA MapPlaced ==
  ASSUME CollectedInv, DrawnInv, pc = "done"
  PROVE  \A i \in DOMAIN map : IsPlaced(map[i], PlacesOf(db, settings))
<1> DEFINE P == PlacesOf(db, settings)
<1>1. /\ db \in Bases /\ BusesInOrder(db, buses) /\ stops = StopsFor(db)
      /\ RoutesInOrder(db, settings, buses, routes)
  BY DEF CollectedInv, HasBuses, HasStops, HasRoutes
<1>2. PICK off, t, u : IsPicture(map, db, settings, routes, stops, off, t, u)
  BY MapIsPicture
<1>3. ASSUME NEW k \in 1 .. Len(routes)
      PROVE  /\ Range(routes[k].points) \subseteq P /\ routes[k].points[1] \in P
             /\ HasSecondName(routes[k].bus) => routes[k].points[Middle(routes[k].bus)] \in P
  <2> DEFINE points == routes[k].points
             bus == routes[k].bus
             m == Middle(bus)
  <2>1. points \in Seq(P) /\ points # <<>> /\ IsDrawn(db, bus)
    BY <1>1, RouteIs
  <2>2. HasSecondName(bus) => ~ (m > Len(points))
    BY <1>2 DEF IsPicture, HasPoints
  <2>3. m \in Nat \ {0}
    <3> DEFINE l == Len(bus.stops)
    <3>1. bus.stops \in Seq(NamesOf(db.stops))
      BY <2>1 DEF IsDrawn
    <3>2. l \in Nat /\ m = l \div 2 + 1
      BY <3>1 DEF Middle
    <3> HIDE DEF l, m
    <3> QED
      BY <3>2
  <2> HIDE DEF P, points, m
  <2>4. points[1] \in P /\ (HasSecondName(bus) => points[m] \in P)
    BY <2>1, <2>2, <2>3
  <2> QED
    BY <2>1, <2>4, SeqIsSeq DEF points, m
<1> HIDE DEF P
<1>4. ASSUME NEW i \in DOMAIN map
      PROVE  IsPlaced(map[i], P)
  <2>1. CASE IsOfLines(map, settings, routes, i)
    BY <1>3, <2>1 DEF IsOfLines, IsLine, IsPlaced
  <2>2. CASE IsOfLabels(map, settings, routes, off, t, i)
    <3>1. PICK k, o, point :
            /\ IsAfter(routes, off, k, o, point) /\ i \in {o + 1, o + 2}
            /\ PairIn(map, o, point, routes[k].bus.name, ColorPrinter(ColorOf(settings, k)), TRUE)
      BY <2>2 DEF IsOfLabels
    <3>2. point \in P
      BY <1>3, <3>1 DEF IsAfter
    <3>3. map[i].tag = "text" /\ map[i].attributes.point = point
      BY <3>1 DEF PairIn, IsShade, IsName, IsText
    <3> QED
      BY <3>2, <3>3 DEF IsPlaced
  <2>3. \A k \in 1 .. Len(stops) : PointOf(db, settings, stops[k].name) \in P
    BY <1>1, StopsAre DEF PlacesOf, P
  <2>4. CASE IsOfCircles(map, db, settings, stops, t, i)
    <3>1. i - t \in 1 .. Len(stops)
      <4>1. t \in Nat /\ Len(stops) \in Nat
        BY <1>2 DEF IsPicture
      <4> QED
        BY <2>4, <4>1 DEF IsOfCircles
    <3> QED
      BY <2>3, <2>4, <3>1 DEF IsOfCircles, IsCircle, IsPlaced
  <2>5. CASE IsOfNames(map, db, settings, stops, u, i)
    <3>1. PICK k \in 1 .. Len(stops) :
            /\ i \in {u + 2 * (k - 1) + 1, u + 2 * (k - 1) + 2}
            /\ PairIn(map, u + 2 * (k - 1), PointOf(db, settings, stops[k].name), stops[k].name,
                      <<"black">>, FALSE)
      BY <2>5 DEF IsOfNames
    <3>2. map[i].tag = "text" /\ map[i].attributes.point = PointOf(db, settings, stops[k].name)
      BY <3>1 DEF PairIn, IsShade, IsName, IsText
    <3> QED
      BY <2>3, <3>2 DEF IsPlaced
  <2> QED
    BY <1>2, <2>1, <2>2, <2>4, <2>5, Zones
<1> QED
  BY <1>4 DEF P

\* For every catalogue and all settings: the picture stays inside the padding,
\* keeps the directions, is at the left and the upper edge of the frame and
\* reaches the right one or the lower.
THEOREM FrameFilled == Spec => []PictureFillsTheFrame
<1>1. ASSUME CollectedInv, DrawnInv
      PROVE  PictureFillsTheFrame
  <2> DEFINE places == {Project(name) : name \in Shown}
  <2>1. SUFFICES
          ASSUME pc = "done", Shown # {},
                 2 * settings.padding <= Min({settings.width, settings.height}),
                 {Extent(Lngs), Extent(Lats)} \cap (1 .. EPSILON - 1) = {}
          PROVE  /\ \A k \in DOMAIN map :
                      LET a == map[k].attributes IN
                      CASE map[k].tag = "polyline" -> Range(a.points) \subseteq places
                        [] map[k].tag = "circle"   -> a.center \in places
                        [] map[k].tag = "text"     -> a.point \in places
                 /\ \A p \in places : IsInside(settings, p)
                 /\ \A s, t \in Shown :
                      LET c == StopNamed(s).coordinates  d == StopNamed(t).coordinates IN
                      /\ c.lng <= d.lng => Project(s)[1] <= Project(t)[1]
                      /\ c.lat <= d.lat => Project(s)[2] >= Project(t)[2]
                 /\ \E p \in places : p[1] = settings.padding * p[3]
                 /\ \E p \in places : p[2] = settings.padding * p[3]
                 /\ Cardinality(places) > 1 => \E p \in places :
                      \/ p[1] = (settings.width - settings.padding) * p[3]
                      \/ p[2] = (settings.height - settings.padding) * p[3]
    BY DEF PictureFillsTheFrame, IsInside
  <2>2. /\ db \in Bases /\ render_settings \in RenderSettings
        /\ ReadRight(render_settings, settings) /\ stops = StopsFor(db)
    BY <1>1, <2>1 DEF CollectedInv, HasSettings, HasBuses, HasStops, HasRoutes
  <2>3. /\ Lngs = LngsOf(db) /\ Lats = LatsOf(db)
        /\ \A name : Project(name) = PointOf(db, settings, name)
        /\ \A name : StopNamed(name) = StopOf(db, name)
    BY <2>2, ProjectIs DEF StopNamed, StopOf
  <2>4. Shown = ShownOf(db)
    BY DEF Shown, ShownOf, Drawn, DrawnOf
  <2>5. places = PlacesOf(db, settings)
    BY <2>3, <2>4 DEF PlacesOf
  <2>6. settings.width \in Int /\ settings.height \in Int /\ settings.padding \in Int
    BY <2>2, FrameIs
  <2>7. IsSound(db, settings)
    BY <2>1, <2>3 DEF IsSound
  <2>8. /\ \A p \in PlacesOf(db, settings) : IsInside(settings, p)
        /\ KeepsDirections(db, settings)
        /\ ReachesTheEdges(db, settings)
    BY <2>1, <2>2, <2>4, <2>6, <2>7, PlacesFit
  <2>9. \A k \in DOMAIN map : IsPlaced(map[k], PlacesOf(db, settings))
    BY <1>1, <2>1, MapPlaced
  <2> HIDE DEF places
  <2>10. \A k \in DOMAIN map :
            LET a == map[k].attributes IN
            CASE map[k].tag = "polyline" -> Range(a.points) \subseteq places
              [] map[k].tag = "circle"   -> a.center \in places
              [] map[k].tag = "text"     -> a.point \in places
    BY <2>5, <2>9 DEF IsPlaced
  <2>11. \A s, t \in Shown :
            LET c == StopNamed(s).coordinates  d == StopNamed(t).coordinates IN
            /\ c.lng <= d.lng => Project(s)[1] <= Project(t)[1]
            /\ c.lat <= d.lat => Project(s)[2] >= Project(t)[2]
    BY <2>3, <2>4, <2>8 DEF KeepsDirections
  <2> QED
    BY <2>5, <2>8, <2>10, <2>11 DEF ReachesTheEdges
<1>2. CollectedInv /\ DrawnInv => PictureFillsTheFrame
  BY <1>1
<1> QED
  BY <1>2, MapDrawn, PTL

-----------------------------------------------------------------------------
(* What is shown.                                                           *)

UniqueIn(d) == \A b, c \in DrawnOf(d) : d.buses[b].name = d.buses[c].name => b = c

BusNames(d) == {d.buses[c].name : c \in DrawnOf(d)}

InNameOrder(bs) == \A i, j \in 1 .. Len(bs) : i < j => bs[i].name < bs[j].name

\* Where no two buses have one name, they are drawn once each, the k-th name at
\* the k-th place.
LEMMA BusesStand ==
  ASSUME NEW d \in Bases, NEW bs, BusesInOrder(d, bs), UniqueIn(d)
  PROVE  /\ InNameOrder(bs)
         /\ Len(bs) = Cardinality(DrawnOf(d))
         /\ \A k \in 1 .. Len(bs) : bs[k].name \in Int
         /\ \A b \in DrawnOf(d) :
              /\ PlaceAmong(d.buses[b].name, BusNames(d)) \in 1 .. Len(bs)
              /\ bs[PlaceAmong(d.buses[b].name, BusNames(d))] = d.buses[b]
<1> DEFINE n == Len(bs)
           S == BusNames(d)
<1>1. PICK order : IsOrder(order, n, d, bs)
  BY DEF BusesInOrder
<1>2. /\ order \in [1 .. n -> DrawnOf(d)]
      /\ \A b \in DrawnOf(d) : \E k \in 1 .. n : order[k] = b
      /\ \A i, j \in 1 .. n : i # j => order[i] # order[j]
      /\ \A k \in 1 .. n : bs[k] = d.buses[order[k]]
  BY <1>1 DEF IsOrder
<1>3. n \in Nat /\ \A k \in 1 .. n : bs[k].name \in Int
  BY BusIs DEF IsDrawn
<1>4. \A i, j \in 1 .. n : i < j => bs[i].name <= bs[j].name
  BY DEF BusesInOrder
<1> HIDE DEF n
<1>5. \A i, j \in 1 .. n : i < j => bs[i].name < bs[j].name
  <2> TAKE i, j \in 1 .. n
  <2> HAVE i < j
  <2>1. order[i] \in DrawnOf(d) /\ order[j] \in DrawnOf(d) /\ order[i] # order[j]
    BY <1>2, <1>3
  <2>2. d.buses[order[i]].name # d.buses[order[j]].name
    BY <2>1 DEF UniqueIn
  <2>3. bs[i].name # bs[j].name
    BY <1>2, <2>2
  <2> QED
    BY <1>3, <1>4, <2>3
<1>6. n = Cardinality(DrawnOf(d))
  <2>1. order \in Bijection(1 .. n, DrawnOf(d))
    <3>1. \A x, y \in 1 .. n : order[x] = order[y] => x = y
      BY <1>2
    <3> QED
      BY <1>2, <3>1 DEF Bijection, Injection, Surjection, IsInjective
  <2>2. IsFiniteSet(1 .. n) /\ Cardinality(1 .. n) = n
    BY <1>3, FS_Interval
  <2> QED
    BY <2>1, <2>2, FS_Bijection DEF ExistsBijection
<1> DEFINE f == [k \in 1 .. n |-> bs[k].name]
<1>7. /\ S \in SUBSET Int /\ f \in Seq(S) /\ Len(f) = n /\ Range(f) = S
      /\ \A k \in 1 .. n : f[k] = bs[k].name
  <2>1. \A k \in 1 .. n : bs[k].name \in S
    BY <1>2 DEF BusNames
  <2>2. \A x \in S : \E k \in 1 .. n : bs[k].name = x
    BY <1>2 DEF BusNames
  <2> HIDE DEF S
  <2>3. f \in Seq(S) /\ Len(f) = n
    BY <1>3, <2>1
  <2>4. Range(f) = S
    BY <1>3, <2>1, <2>2 DEF Range
  <2>5. S \in SUBSET Int
    BY <1>3, <2>2
  <2> QED
    BY <2>3, <2>4, <2>5
<1> HIDE DEF f, S
<1>8. \A k \in 1 .. n : Cardinality(UpTo(S, bs[k].name)) = k
  <2> TAKE k \in 1 .. n
  <2>1. \A i, j \in 1 .. Len(f) : i < j => f[i] < f[j]
    BY <1>5, <1>7
  <2>2. k \in 1 .. Len(f)
    BY <1>7
  <2>3. Cardinality(UpTo(S, f[k])) = k
    BY <1>7, <2>1, <2>2, NthCounts
  <2> QED
    BY <1>7, <2>3
<1>9. ASSUME NEW b \in DrawnOf(d)
      PROVE  /\ PlaceAmong(d.buses[b].name, S) \in 1 .. n
             /\ bs[PlaceAmong(d.buses[b].name, S)] = d.buses[b]
  <2>1. PICK k \in 1 .. n : order[k] = b
    BY <1>2
  <2>2. bs[k] = d.buses[b]
    BY <1>2, <2>1
  <2>3. PlaceAmong(d.buses[b].name, S) = k
    BY <1>8, <2>2 DEF PlaceAmong, UpTo
  <2> QED
    BY <2>2, <2>3
<1> QED
  BY <1>3, <1>5, <1>6, <1>9 DEF InNameOrder, n, S

\* The stops come in the order of their names, each at the place of its name.
LEMMA StopsStand ==
  ASSUME NEW d \in Bases, NEW name \in ShownOf(d)
  PROVE  /\ PlaceAmong(name, ShownOf(d)) \in 1 .. Len(StopsFor(d))
         /\ StopsFor(d)[PlaceAmong(name, ShownOf(d))].name = name
<1> DEFINE S == ShownOf(d)
           names == Ascending(S)
           st == StopsFor(d)
<1>1. S \in SUBSET Int /\ IsFiniteSet(S)
  BY ShownIs
<1>2. /\ Len(st) = Cardinality(S)
      /\ \A k \in 1 .. Len(st) : st[k].name = names[k]
  BY StopsAre
<1> HIDE DEF S, st
<1>3. /\ names \in Seq(S) /\ Len(names) = Cardinality(S) /\ Range(names) = S
      /\ \A i, j \in 1 .. Len(names) : i < j => names[i] < names[j]
  BY <1>1, AscendingIs
<1> HIDE DEF names
<1>4. PICK k \in 1 .. Len(names) : names[k] = name
  <2>1. name \in Range(names)
    BY <1>3 DEF S
  <2> QED
    BY <1>3, <2>1 DEF Range
<1>5. Cardinality(UpTo(S, names[k])) = k
  BY <1>1, <1>3, NthCounts
<1>6. PlaceAmong(name, S) = k
  BY <1>4, <1>5 DEF PlaceAmong, UpTo
<1>7. k \in 1 .. Len(st) /\ st[k].name = name
  BY <1>2, <1>3, <1>4
<1> QED
  BY <1>6, <1>7 DEF S, st

\* A colour of the palette is written as it was meant.
LEMMA ColorIsMeant ==
  ASSUME NEW node, node[1] = "array" => IsArray(node[2]), IsColor(node)
  PROVE  ColorPrinter(ParseColor(node).value) = Meant(node)
<1> DEFINE array == node[2]
<1>1. CASE node[1] = "string"
  <2>1. ParseColor(node) = Ok(node)
    BY <1>1 DEF ParseColor
  <2> QED
    BY <1>1, <2>1 DEF Ok, ColorPrinter, Meant
<1>2. CASE node[1] # "string"
  <2>1. /\ node[1] = "array" /\ Len(array) \in {3, 4} /\ array \in Seq(Range(array))
        /\ \A k \in DOMAIN array : \/ array[k][1] = "int" /\ array[k][2] \in 0 .. 255
                                   \/ array[k][1] = "double" /\ k = 4
    BY <1>2 DEF IsColor, IsArray
  <2> DEFINE reads == [k \in 1 .. 3 |-> IF k > Len(array) THEN Undefined ELSE AsInt(array[k])]
             rgb == InTurn(reads)
             bytes == [k \in 1 .. 3 |-> rgb.value[k] % 256]
             opacity == AsDouble(array[4])
             components == [k \in DOMAIN array |-> array[k][2]]
  <2>2. DOMAIN array = 1 .. Len(array)
    BY <2>1
  <2> HIDE DEF array
  <2>3. \A k \in 1 .. 3 : /\ reads[k].outcome = "ok" /\ reads[k].value = array[k][2]
                          /\ array[k][2] \in 0 .. 255
    <3> TAKE k \in 1 .. 3
    <3>1. k \in DOMAIN array /\ ~ (k > Len(array)) /\ k # 4
      BY <2>1, <2>2
    <3>2. array[k][1] = "int" /\ array[k][2] \in 0 .. 255
      BY <2>1, <3>1
    <3>3. reads[k] = AsInt(array[k])
      BY <3>1
    <3> QED
      BY <3>2, <3>3 DEF AsInt, Ok
  <2>4. DOMAIN reads = 1 .. 3
    OBVIOUS
  <2> HIDE DEF reads
  <2>5. rgb.outcome = "ok" /\ rgb.value = [k \in 1 .. 3 |-> reads[k].value]
    <3>1. 3 \in Nat /\ \A k \in 1 .. 3 : reads[k].outcome = "ok"
      BY <2>3
    <3>2. InTurn(reads).outcome = "ok" <=> \A k \in 1 .. 3 : reads[k].outcome = "ok"
      BY <2>4, <3>1, InTurnIs
    <3>3. InTurn(reads).outcome = "ok" => InTurn(reads).value = [k \in 1 .. 3 |-> reads[k].value]
      BY <2>4, <3>1, InTurnIs
    <3> QED
      BY <3>1, <3>2, <3>3
  <2>6. bytes = [k \in 1 .. 3 |-> array[k][2]]
    <3>1. \A k \in 1 .. 3 : rgb.value[k] = array[k][2]
      BY <2>3, <2>5
    <3>2. \A x \in 0 .. 255 : x % 256 = x
      OBVIOUS
    <3>3. ASSUME NEW k \in 1 .. 3
          PROVE  rgb.value[k] % 256 = array[k][2]
      <4>1. array[k][2] % 256 = array[k][2]
        BY <2>3, <3>2, Zenon
      <4> QED
        BY <3>1, <4>1, Zenon
    <3> QED
      BY <3>3
  <2> HIDE DEF bytes, rgb
  <2>7. Len(array) = 4 => opacity.outcome = "ok" /\ opacity.value = array[4][2]
    <3> HAVE Len(array) = 4
    <3>1. 4 \in DOMAIN array
      BY <2>2
    <3>2. array[4][1] \in {"int", "double"}
      BY <2>1, <3>1
    <3> QED
      BY <3>2 DEF AsDouble, Ok
  <2>8. CASE Len(array) = 3
    <3>1. ParseColor(node) = Ok(<<"rgb">> \o bytes)
      BY <2>1, <2>5, <2>8 DEF ParseColor, array, reads, rgb, bytes
    <3>2. components = bytes
      BY <2>2, <2>6, <2>8
    <3>3. Meant(node) = <<"rgb">> \o bytes
      BY <2>1, <2>8, <3>2 DEF Meant, array
    <3>4. (<<"rgb">> \o bytes)[1] = "rgb"
      BY <2>6
    <3> QED
      BY <3>1, <3>3, <3>4 DEF Ok, ColorPrinter
  <2>9. CASE Len(array) = 4
    <3> DEFINE color == <<"rgba">> \o bytes \o <<opacity.value>>
    <3>1. ParseColor(node) = Ok(color)
      BY <2>1, <2>5, <2>7, <2>9 DEF ParseColor, array, reads, rgb, bytes
    <3>2. Meant(node) = <<"rgba">> \o components
      BY <2>1, <2>9 DEF Meant, array
    <3>3. color = <<"rgba">> \o components /\ color[1] = "rgba"
      BY <2>2, <2>6, <2>7, <2>9
    <3> HIDE DEF color, components
    <3>4. ColorPrinter(color) = color
      BY <3>3 DEF ColorPrinter
    <3>5. ParseColor(node).value = color
      BY <3>1 DEF Ok
    <3> QED
      BY <3>2, <3>3, <3>4, <3>5
  <2> QED
    BY <2>1, <2>8, <2>9 DEF array
<1> QED
  BY <1>1, <1>2

\* A set of one or two.
LEMMA OneOrTwo ==
  ASSUME NEW a, NEW b
  PROVE  Cardinality({a}) = 1 /\ (a # b => Cardinality({a, b}) = 2)
<1>1. IsFiniteSet({a}) /\ Cardinality({a}) = 1
  BY FS_Singleton
<1>2. ASSUME a # b
      PROVE  Cardinality({a, b}) = 2
  <2>1. {a, b} = {a} \cup {b} /\ b \notin {a}
    BY <1>2
  <2>2. Cardinality({a} \cup {b}) = Cardinality({a}) + 1
    BY <1>1, <2>1, FS_AddElement
  <2> QED
    BY <1>1, <2>1, <2>2
<1> QED
  BY <1>1, <1>2

\* Where a bus begins and where it turns.
LEMMA TerminalsAre ==
  ASSUME NEW d, NEW bus, IsDrawn(d, bus)
  PROVE  /\ 1 \in 1 .. Len(bus.stops)
         /\ HasSecondName(bus) =>
              /\ Middle(bus) \in 1 .. Len(bus.stops)
              /\ Terminals(bus) = {bus.stops[1], bus.stops[Middle(bus)]}
              /\ bus.stops[1] # bus.stops[Middle(bus)]
         /\ ~HasSecondName(bus) => Terminals(bus) = {bus.stops[1]}
<1> DEFINE n == Len(bus.stops)
           h == n \div 2
<1>1. n \in Nat \ {0} /\ bus.is_roundtrip \in BOOLEAN /\ (~bus.is_roundtrip => n % 2 = 1)
  <2>1. bus.stops \in Seq(NamesOf(d.stops)) /\ bus.stops # <<>>
    BY DEF IsDrawn
  <2>2. n \in Nat \ {0}
    BY <2>1
  <2> QED
    BY <2>2 DEF IsDrawn
<1>2. Middle(bus) = h + 1
  BY DEF Middle
<1>3. Terminals(bus) = {bus.stops[1]} \cup IF bus.is_roundtrip THEN {} ELSE {bus.stops[(n + 1) \div 2]}
  BY DEF Terminals
<1> HIDE DEF n
<1>4. 1 \in 1 .. n
  BY <1>1
<1>5. ~bus.is_roundtrip => (n + 1) \div 2 = h + 1 /\ h + 1 \in 1 .. n
  BY <1>1
<1> HIDE DEF h
<1>6. ASSUME HasSecondName(bus)
      PROVE  /\ Middle(bus) \in 1 .. n /\ Terminals(bus) = {bus.stops[1], bus.stops[Middle(bus)]}
             /\ bus.stops[1] # bus.stops[Middle(bus)]
  <2>1. ~bus.is_roundtrip /\ bus.stops[1] # bus.stops[Middle(bus)]
    BY <1>6 DEF HasSecondName
  <2> QED
    BY <1>2, <1>3, <1>5, <2>1
<1>7. ASSUME ~HasSecondName(bus)
      PROVE  Terminals(bus) = {bus.stops[1]}
  <2>1. bus.is_roundtrip \/ bus.stops[1] = bus.stops[h + 1]
    BY <1>2, <1>7 DEF HasSecondName
  <2> QED
    BY <1>1, <1>3, <1>5, <2>1
<1> QED
  BY <1>4, <1>6, <1>7 DEF n

\* The names of one bus.
LabelsNamed(m, name) ==
  {i \in DOMAIN m : IsBusLabel(m[i]) /\ m[i].attributes.content = <<name>>}

IsLabelled(m, bus, points, color) ==
  LET labels == LabelsNamed(m, bus.name) IN
  /\ Cardinality(labels) = IF HasSecondName(bus) THEN 2 ELSE 1
  /\ {m[i].attributes.point : i \in labels}
       = IF HasSecondName(bus) THEN {points[1], points[Middle(bus)]} ELSE {points[1]}
  /\ \A i \in labels : m[i].attributes.fill = color

LEMMA LabelsOfOne ==
  ASSUME NEW m, NEW d, NEW s, NEW rt, NEW st, NEW off, NEW t, NEW u,
         IsPicture(m, d, s, rt, st, off, t, u), NEW k \in 1 .. Len(rt),
         \A j \in 1 .. Len(rt) : rt[j].bus.name = rt[k].bus.name => j = k
  PROVE  IsLabelled(m, rt[k].bus, rt[k].points, ColorPrinter(ColorOf(s, k)))
<1> DEFINE bus == rt[k].bus
           points == rt[k].points
           color == ColorPrinter(ColorOf(s, k))
           before == Len(rt) + off[k - 1]
           labels == LabelsNamed(m, bus.name)
           turn == points[Middle(bus)]
           Is(i, point) == /\ IsBusLabel(m[i]) /\ m[i].attributes.content = <<bus.name>>
                           /\ m[i].attributes.point = point /\ m[i].attributes.fill = color
<1>1. ASSUME NEW o, NEW point, IsAfter(rt, off, k, o, point)
      PROVE  o \in Nat /\ o + 2 \in labels /\ Is(o + 2, point)
  <2>1. o \in Nat /\ o + 2 \in DOMAIN m /\ PairIn(m, o, point, bus.name, color, TRUE)
    BY <1>1, LabelsStand
  <2>2. IsName(m[o + 2], point, bus.name, color, TRUE)
    BY <2>1 DEF PairIn
  <2>3. IsBusLabel(m[o + 2])
    BY <2>2 DEF IsBusLabel, IsLabel, IsName, IsText
  <2> QED
    BY <2>1, <2>2, <2>3 DEF IsName, IsText, LabelsNamed
<1>2. ASSUME NEW i \in labels
      PROVE  \E o, point : IsAfter(rt, off, k, o, point) /\ i = o + 2
  <2>1. i \in DOMAIN m /\ IsBusLabel(m[i]) /\ m[i].attributes.content = <<bus.name>>
    BY DEF LabelsNamed
  <2>2. PICK j, o, point : IsLabelOf(m, s, rt, off, j, o, point, i)
    BY <2>1, Positions
  <2>3. /\ IsAfter(rt, off, j, o, point) /\ i = o + 2
        /\ PairIn(m, o, point, rt[j].bus.name, ColorPrinter(ColorOf(s, j)), TRUE)
    BY <2>2 DEF IsLabelOf
  <2>4. m[i].attributes.content = <<rt[j].bus.name>>
    BY <2>3 DEF PairIn, IsName, IsText
  <2>5. j \in 1 .. Len(rt) /\ rt[j].bus.name = bus.name
    BY <2>1, <2>3, <2>4 DEF IsAfter
  <2>6. j = k
    BY <2>5
  <2> QED
    BY <2>3, <2>6
<1>3. IsAfter(rt, off, k, before, points[1])
  BY DEF IsAfter
<1>4. HasSecondName(bus) => IsAfter(rt, off, k, before + 2, turn)
  BY DEF IsAfter
<1>5. \A o, point : IsAfter(rt, off, k, o, point) =>
        \/ o = before /\ point = points[1]
        \/ o = before + 2 /\ point = turn /\ HasSecondName(bus)
  BY DEF IsAfter
<1> HIDE DEF before, turn, labels, color
<1>6. before \in Nat /\ before + 2 \in labels /\ Is(before + 2, points[1])
  BY <1>1, <1>3
<1>7. HasSecondName(bus) => (before + 2) + 2 \in labels /\ Is((before + 2) + 2, turn)
  BY <1>1, <1>4
<1> HIDE DEF Is
<1>8. \A i \in labels : \/ i = before + 2
                        \/ i = (before + 2) + 2 /\ HasSecondName(bus)
  BY <1>2, <1>5
<1>9. \A i \in labels : m[i].attributes.fill = color
  BY <1>6, <1>7, <1>8 DEF Is
<1>10. CASE HasSecondName(bus)
  <2>1. labels = {before + 2, (before + 2) + 2}
    BY <1>6, <1>7, <1>8, <1>10
  <2>2. before + 2 # (before + 2) + 2
    BY <1>6
  <2>3. Cardinality(labels) = 2
    BY <2>1, <2>2, OneOrTwo
  <2>4. {m[i].attributes.point : i \in labels} = {points[1], turn}
    BY <1>6, <1>7, <1>10, <2>1 DEF Is
  <2> QED
    BY <1>9, <1>10, <2>3, <2>4 DEF IsLabelled, labels, turn, color
<1>11. CASE ~HasSecondName(bus)
  <2>1. labels = {before + 2}
    BY <1>6, <1>8, <1>11
  <2>2. Cardinality(labels) = 1
    BY <2>1, OneOrTwo
  <2>3. {m[i].attributes.point : i \in labels} = {points[1]}
    BY <1>6, <2>1 DEF Is
  <2> QED
    BY <1>9, <1>11, <2>2, <2>3 DEF IsLabelled, labels, color
<1> QED
  BY <1>10, <1>11

\* Every colour that is drawn with is written as it was meant.
LEMMA ColorsAreMeant ==
  ASSUME NEW dict \in RenderSettings, NEW s, ReadRight(dict, s), s.color_palette # <<>>,
         \A k \in DOMAIN dict.color_palette[2] : IsColor(dict.color_palette[2][k]),
         NEW k \in Nat \ {0}
  PROVE  ColorPrinter(ColorOf(s, k))
           = Meant(dict.color_palette[2][((k - 1) % Len(dict.color_palette[2])) + 1])
<1> DEFINE palette == dict.color_palette[2]
           n == Len(palette)
           i == ((k - 1) % n) + 1
<1>1. /\ n \in Nat /\ DOMAIN palette = 1 .. n
      /\ s.color_palette = [j \in 1 .. n |-> ParseColor(palette[j]).value]
  BY PaletteIs
<1>2. \A j \in 1 .. n : palette[j][1] = "array" => IsArray(palette[j][2])
  <2>1. "color_palette" \in DOMAIN dict /\ dict["color_palette"][1] = "array"
    <3>1. /\ "color_palette" \in DOMAIN dict
          /\ ReadMember(dict, "color_palette") = ParsePalette(dict["color_palette"])
          /\ ReadMember(dict, "color_palette").outcome = "ok"
      BY MembersAre DEF ReadRight, ReadMember, Throws
    <3> QED
      BY <3>1 DEF ParsePalette, Throws
  <2>2. IsNode(dict["color_palette"])
    BY <2>1, SettingsAssumption
  <2> QED
    BY <1>1, <2>1, <2>2 DEF IsNode
<1> HIDE DEF palette
<1>3. n # 0
  <2> SUFFICES ASSUME n = 0
               PROVE  s.color_palette = <<>>
    OBVIOUS
  <2>1. 1 .. n = {}
    BY <1>1
  <2> QED
    BY <1>1, <2>1
<1> HIDE DEF n
<1>4. i \in 1 .. n
  BY <1>1, <1>3
<1>5. Len(s.color_palette) = n
  <2> DEFINE value(j) == ParseColor(palette[j]).value
             values == [j \in 1 .. n |-> value(j)]
  <2> HIDE DEF value
  <2>1. values \in Seq({value(j) : j \in 1 .. n}) /\ DOMAIN values = 1 .. n
    BY <1>1
  <2>2. s.color_palette = values
    BY <1>1 DEF value
  <2> HIDE DEF values
  <2> QED
    BY <1>1, <2>1, <2>2
<1>6. ColorOf(s, k) = ParseColor(palette[i]).value
  <2>1. ColorOf(s, k) = s.color_palette[i]
    BY <1>5 DEF ColorOf
  <2> HIDE DEF i
  <2> QED
    BY <1>1, <1>4, <2>1
<1> HIDE DEF i
<1>7. IsColor(palette[i])
  BY <1>1, <1>4 DEF palette
<1>8. ColorPrinter(ParseColor(palette[i]).value) = Meant(palette[i])
  BY <1>2, <1>4, <1>7, ColorIsMeant
<1> QED
  BY <1>6, <1>8 DEF i, n, palette

\* What the picture says of a bus and of a stop.
BusShown(b, lines) ==
  LET bus    == db.buses[b]
      k      == PlaceAmong(bus.name, {db.buses[c].name : c \in Drawn})
      line   == lines[k].attributes
      labels == {i \in DOMAIN map :
                   IsBusLabel(map[i]) /\ map[i].attributes.content = <<bus.name>>}
  IN /\ line.points = [i \in DOMAIN bus.stops |-> Project(bus.stops[i])]
     /\ line.stroke = Meant(Palette[((k - 1) % Len(Palette)) + 1])
     /\ line.fill = <<"none">>
     /\ Cardinality(labels) = Cardinality(Terminals(bus))
     /\ {map[i].attributes.point : i \in labels} = {Project(s) : s \in Terminals(bus)}
     /\ \A i \in labels : map[i].attributes.fill = line.stroke

StopShown(s, circles, names) ==
  LET k == PlaceAmong(s, Shown) IN
  /\ circles[k].attributes.center = Project(s)
  /\ names[k].attributes.point = Project(s)
  /\ names[k].attributes.content = <<s>>

\* There is a line for each bus.
LEMMA LinesCounted ==
  ASSUME CollectedInv, DrawnInv, pc = "done", NamesAreUnique
  PROVE  Len(Elements("polyline")) = Cardinality(Drawn)
<1>1. /\ db \in Bases /\ BusesInOrder(db, buses)
      /\ RoutesInOrder(db, settings, buses, routes)
  BY DEF CollectedInv, HasBuses, HasStops, HasRoutes
<1>2. PICK off, t, u : IsPicture(map, db, settings, routes, stops, off, t, u)
  BY MapIsPicture
<1>3. Drawn = DrawnOf(db) /\ UniqueIn(db)
  BY DEF Drawn, DrawnOf, NamesAreUnique, UniqueIn
<1>4. InNameOrder(buses) /\ Len(buses) = Cardinality(Drawn)
  BY <1>1, <1>3, BusesStand
<1>5. Len(routes) = Len(buses)
  BY <1>1, <1>4 DEF RoutesInOrder, InNameOrder
<1>6. ListsAre(map, db, settings, routes, stops)
  BY <1>2, Lists
<1>7. Elements("polyline") = ElementsOf(map, LinesOf(map))
  BY DEF Elements, ElementsAt, ElementsOf, LinesOf
<1> QED
  BY <1>4, <1>5, <1>6, <1>7 DEF ListsAre

\* The lines and the names of a bus are those of its place in the order of names.
LEMMA BusIsShown ==
  ASSUME CollectedInv, DrawnInv, pc = "done", NamesAreUnique,
         \A k \in DOMAIN Palette : IsColor(Palette[k]), NEW b \in Drawn
  PROVE  BusShown(b, Elements("polyline"))
<1>1. /\ db \in Bases /\ render_settings \in RenderSettings
      /\ ReadRight(render_settings, settings) /\ BusesInOrder(db, buses)
      /\ stops = StopsFor(db) /\ RoutesInOrder(db, settings, buses, routes)
      /\ (routes = <<>> \/ settings.color_palette # <<>>)
  BY DEF CollectedInv, DrawnInv, HasSettings, HasBuses, HasStops, HasRoutes, IsBlank
<1>2. PICK off, t, u : IsPicture(map, db, settings, routes, stops, off, t, u)
  BY MapIsPicture
<1>3. Drawn = DrawnOf(db) /\ UniqueIn(db)
  BY DEF Drawn, DrawnOf, NamesAreUnique, UniqueIn
<1> DEFINE bus == db.buses[b]
           k == PlaceAmong(bus.name, BusNames(db))
           n == Len(bus.stops)
           color == ColorPrinter(ColorOf(settings, k))
           lines == Elements("polyline")
           labels == LabelsNamed(map, bus.name)
<1>4. /\ InNameOrder(buses) /\ Len(buses) = Cardinality(Drawn)
      /\ \A i \in 1 .. Len(buses) : buses[i].name \in Int
      /\ k \in 1 .. Len(buses) /\ buses[k] = bus
  BY <1>1, <1>3, BusesStand
<1>5. IsDrawn(db, bus)
  BY <1>1, <1>3, DrawnBus
<1>6. /\ Len(routes) = Len(buses) /\ Len(buses) \in Nat
      /\ \A i \in 1 .. Len(buses) : routes[i] = LineOf(db, settings, buses[i], buses[i])
  BY <1>1, <1>4, BusIs DEF RoutesInOrder, InNameOrder
<1> HIDE DEF k
<1>7. /\ k \in 1 .. Len(routes) /\ routes[k].bus = bus
      /\ routes[k].points = PointsOf(db, settings, bus.stops)
  BY <1>4, <1>6 DEF LineOf
<1>8. \A j \in 1 .. Len(routes) : routes[j].bus.name = routes[k].bus.name => j = k
  <2> TAKE j \in 1 .. Len(routes)
  <2> HAVE routes[j].bus.name = routes[k].bus.name
  <2>1. routes[j].bus = buses[j] /\ routes[k].bus = buses[k]
    BY <1>4, <1>6 DEF LineOf
  <2>2. buses[j].name \in Int /\ buses[k].name \in Int
    BY <1>4, <1>6
  <2>3. ~ (j < k) /\ ~ (k < j)
    BY <1>4, <1>6, <2>1, <2>2 DEF InNameOrder
  <2>4. j \in Int /\ k \in Int
    BY <1>4
  <2> QED
    BY <2>3, <2>4
<1>9. Len(lines) = Len(routes) /\ IsLine(lines[k], routes[k].points, color)
  <2>1. lines = ElementsOf(map, LinesOf(map))
    BY DEF Elements, ElementsAt, ElementsOf, LinesOf
  <2> HIDE DEF lines
  <2>2. ListsAre(map, db, settings, routes, stops)
    BY <1>2, Lists
  <2>3. /\ Len(lines) = Len(routes)
        /\ \A i \in 1 .. Len(routes) :
             IsLine(lines[i], routes[i].points, ColorPrinter(ColorOf(settings, i)))
    BY <2>1, <2>2 DEF ListsAre
  <2> QED
    BY <1>7, <2>3
<1>10. IsLabelled(map, bus, routes[k].points, color)
  BY <1>2, <1>7, <1>8, LabelsOfOne
<1>11. color = Meant(Palette[((k - 1) % Len(Palette)) + 1])
  <2>1. k \in Nat \ {0}
    BY <1>4, <1>6
  <2>2. settings.color_palette # <<>>
    <3>1. routes # <<>>
      BY <1>7
    <3> QED
      BY <1>1, <3>1
  <2> QED
    BY <1>1, <2>1, <2>2, ColorsAreMeant DEF Palette
<1>12. \A name : Project(name) = PointOf(db, settings, name)
  BY <1>1, ProjectIs
<1>13. /\ bus.stops \in Seq(NamesOf(db.stops)) /\ n \in Nat /\ DOMAIN bus.stops = 1 .. n
  BY <1>5 DEF IsDrawn
<1> HIDE DEF color, lines, labels, bus, n
<1>14. /\ routes[k].points = [i \in DOMAIN bus.stops |-> Project(bus.stops[i])]
       /\ \A i \in 1 .. n : routes[k].points[i] = Project(bus.stops[i])
  BY <1>7, <1>12, <1>13 DEF PointsOf, n
<1>15. /\ Cardinality(labels) = Cardinality(Terminals(bus))
       /\ {map[i].attributes.point : i \in labels} = {Project(s) : s \in Terminals(bus)}
       /\ \A i \in labels : map[i].attributes.fill = color
  <2>1. /\ Cardinality(labels) = IF HasSecondName(bus) THEN 2 ELSE 1
        /\ {map[i].attributes.point : i \in labels}
             = IF HasSecondName(bus) THEN {routes[k].points[1], routes[k].points[Middle(bus)]}
               ELSE {routes[k].points[1]}
        /\ \A i \in labels : map[i].attributes.fill = color
    BY <1>10 DEF IsLabelled, labels
  <2>2. routes[k].points[1] = Project(bus.stops[1])
    BY <1>5, <1>14, TerminalsAre DEF n
  <2>3. CASE HasSecondName(bus)
    <3>1. /\ Middle(bus) \in 1 .. n /\ Terminals(bus) = {bus.stops[1], bus.stops[Middle(bus)]}
          /\ bus.stops[1] # bus.stops[Middle(bus)]
      BY <1>5, <2>3, TerminalsAre DEF n
    <3>2. routes[k].points[Middle(bus)] = Project(bus.stops[Middle(bus)])
      BY <1>14, <3>1
    <3>3. {Project(s) : s \in Terminals(bus)}
            = {Project(bus.stops[1]), Project(bus.stops[Middle(bus)])}
      BY <3>1
    <3>4. Cardinality(Terminals(bus)) = 2
      <4> DEFINE x == bus.stops[1]
                 y == bus.stops[Middle(bus)]
      <4>1. Terminals(bus) = {x, y} /\ x # y
        BY <3>1
      <4> HIDE DEF x, y
      <4>2. Cardinality({x, y}) = 2
        BY <4>1, OneOrTwo
      <4> QED
        BY <4>1, <4>2
    <3> QED
      BY <2>1, <2>2, <2>3, <3>2, <3>3, <3>4
  <2>4. CASE ~HasSecondName(bus)
    <3>1. Terminals(bus) = {bus.stops[1]}
      BY <1>5, <2>4, TerminalsAre
    <3>2. {Project(s) : s \in Terminals(bus)} = {Project(bus.stops[1])}
      BY <3>1
    <3>3. Cardinality(Terminals(bus)) = 1
      BY <3>1, OneOrTwo
    <3> QED
      BY <2>1, <2>2, <2>4, <3>2, <3>3
  <2> QED
    BY <2>3, <2>4
<1>16. BusShown(b, lines)
  <2>1. PlaceAmong(bus.name, {db.buses[c].name : c \in Drawn}) = k
    BY <1>3 DEF k, BusNames
  <2>2. labels = {i \in DOMAIN map :
                    IsBusLabel(map[i]) /\ map[i].attributes.content = <<bus.name>>}
    BY DEF labels, LabelsNamed
  <2>3. /\ lines[k].attributes.points = routes[k].points
        /\ lines[k].attributes.stroke = color /\ lines[k].attributes.fill = <<"none">>
    BY <1>9 DEF IsLine
  <2> QED
    BY <1>11, <1>14, <1>15, <2>1, <2>2, <2>3 DEF BusShown, bus
<1> QED
  BY <1>16 DEF lines

\* So are the circle and the name of a stop.
LEMMA StopIsShown ==
  ASSUME CollectedInv, DrawnInv, pc = "done"
  PROVE  LET circles == Elements("circle")
             names   == ElementsAt({i \in DOMAIN map : IsLabel(map[i]) /\ ~IsBusLabel(map[i])})
         IN /\ Len(circles) = Cardinality(Shown) /\ Len(names) = Cardinality(Shown)
            /\ \A s \in Shown : StopShown(s, circles, names)
<1> DEFINE circles == Elements("circle")
           names == ElementsAt({i \in DOMAIN map : IsLabel(map[i]) /\ ~IsBusLabel(map[i])})
<1>1. db \in Bases /\ stops = StopsFor(db)
  BY DEF CollectedInv, HasStops, HasRoutes
<1>2. PICK off, t, u : IsPicture(map, db, settings, routes, stops, off, t, u)
  BY MapIsPicture
<1>3. circles = ElementsOf(map, CirclesOf(map)) /\ names = ElementsOf(map, StopLabelsOf(map))
  BY DEF Elements, ElementsAt, ElementsOf, CirclesOf, StopLabelsOf
<1> HIDE DEF circles, names
<1>4. ListsAre(map, db, settings, routes, stops)
  BY <1>2, Lists
<1>5. /\ Len(circles) = Len(stops) /\ Len(names) = Len(stops)
      /\ \A k \in 1 .. Len(stops) :
           /\ IsCircle(circles[k], PointOf(db, settings, stops[k].name))
           /\ IsName(names[k], PointOf(db, settings, stops[k].name), stops[k].name,
                     <<"black">>, FALSE)
  BY <1>3, <1>4 DEF ListsAre
<1>6. Shown = ShownOf(db) /\ Len(stops) = Cardinality(Shown)
  <2>1. Shown = ShownOf(db)
    BY DEF Shown, ShownOf, Drawn, DrawnOf
  <2> QED
    BY <1>1, <2>1, StopsAre
<1>7. \A name : Project(name) = PointOf(db, settings, name)
  BY <1>1, ProjectIs
<1>8. ASSUME NEW s \in Shown
      PROVE  StopShown(s, circles, names)
  <2> DEFINE k == PlaceAmong(s, Shown)
  <2>1. k \in 1 .. Len(stops) /\ stops[k].name = s
    BY <1>1, <1>6, StopsStand
  <2> HIDE DEF k
  <2>2. /\ IsCircle(circles[k], PointOf(db, settings, s))
        /\ IsName(names[k], PointOf(db, settings, s), s, <<"black">>, FALSE)
    BY <1>5, <2>1
  <2> QED
    BY <1>7, <2>2 DEF StopShown, IsCircle, IsName, IsText, k
<1> QED
  BY <1>5, <1>6, <1>8 DEF circles, names

\* For every catalogue in which no two buses with stops have one name, and all
\* settings: the picture has one line for every bus and one circle and one name for
\* every stop, each at its place and in its colour, names over their shades, and
\* the layers one over the other.
THEOREM CatalogueShown == Spec => []PictureShowsTheCatalogue
<1>1. ASSUME CollectedInv, DrawnInv
      PROVE  PictureShowsTheCatalogue
  <2> DEFINE lines == Elements("polyline")
             circles == Elements("circle")
             names == ElementsAt({i \in DOMAIN map : IsLabel(map[i]) /\ ~IsBusLabel(map[i])})
             IsOverShade(i) == IsLabel(map[i]) =>
               LET a == map[i].attributes  shade == map[i - 1].attributes IN
               /\ "stroke" \in DOMAIN shade
               /\ shade.point = a.point /\ shade.content = a.content
  <2>1. SUFFICES
          ASSUME pc = "done", NamesAreUnique, \A k \in DOMAIN Palette : IsColor(Palette[k])
          PROVE  /\ Len(lines) = Cardinality(Drawn)
                 /\ \A b \in Drawn : BusShown(b, lines)
                 /\ Len(circles) = Cardinality(Shown) /\ Len(names) = Cardinality(Shown)
                 /\ \A s \in Shown : StopShown(s, circles, names)
                 /\ \A i \in DOMAIN map : IsOverShade(i)
                 /\ \A i, j \in DOMAIN map : i < j => Layer(map[i]) <= Layer(map[j])
    BY DEF PictureShowsTheCatalogue, BusShown, StopShown
  <2>2. PICK off, t, u : IsPicture(map, db, settings, routes, stops, off, t, u)
    BY <1>1, <2>1, MapIsPicture
  <2>3. \A b \in Drawn : BusShown(b, lines)
    BY <1>1, <2>1, BusIsShown
  <2>4. Len(lines) = Cardinality(Drawn)
    BY <1>1, <2>1, LinesCounted
  <2>5. /\ Len(circles) = Cardinality(Shown) /\ Len(names) = Cardinality(Shown)
        /\ \A s \in Shown : StopShown(s, circles, names)
    BY <1>1, <2>1, StopIsShown
  <2>6. \A i \in DOMAIN map : IsOverShade(i)
    BY <2>2, ShadesUnderNames
  <2>7. \A i, j \in DOMAIN map : i < j => Layer(map[i]) <= Layer(map[j])
    BY <2>2, LayersInOrder
  <2> QED
    BY <2>3, <2>4, <2>5, <2>6, <2>7
<1>2. CollectedInv /\ DrawnInv => PictureShowsTheCatalogue
  BY <1>1
<1> QED
  BY <1>2, MapDrawn, PTL
=============================================================================
