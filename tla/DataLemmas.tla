----------------------------- MODULE DataLemmas -----------------------------
(***************************************************************************)
(* Facts about numbers, finite sets and sequences that the proofs about the *)
(* program's modules cite. Induction is stated over sets of numbers: a set  *)
(* is an ordinary value, which the provers instantiate.                     *)
(***************************************************************************)
EXTENDS Integers, SequencesExt, FiniteSetTheorems, SequenceTheorems, TLAPS

-----------------------------------------------------------------------------
(* Induction.                                                               *)

\* A set of natural numbers that is not empty has a least element.
LEMMA LeastNumber ==
  ASSUME NEW S \in SUBSET Nat, S # {}
  PROVE  \E n \in S : \A m \in S : n <= m
<1> DEFINE R == {ss \in Nat \X Nat : ss[1] < ss[2]}
<1>1. R = OpToRel(<, Nat)
  BY DEF OpToRel
<1>2. IsWellFoundedOn(R, Nat)
  BY <1>1, NatLessThanWellFounded
<1>3. \A x, y \in Nat : y < x => <<y, x>> \in R
  OBVIOUS
<1> HIDE DEF R
<1>4. PICK n \in S : \A y \in S : ~ (<<y, n>> \in R)
  BY <1>2, WFMin
<1>5. \A m \in S : n <= m
  <2> TAKE m \in S
  <2>1. n \in Nat /\ m \in Nat
    OBVIOUS
  <2>2. ~ (m < n)
    BY <1>3, <1>4, <2>1
  <2> QED
    BY <2>1, <2>2
<1> QED
  BY <1>5

\* Induction over the natural numbers.
LEMMA Induction ==
  ASSUME NEW S, 0 \in S, \A n \in Nat : n \in S => n + 1 \in S
  PROVE  Nat \subseteq S
<1> SUFFICES ASSUME Nat \ S # {} PROVE FALSE
  OBVIOUS
<1>1. PICK n \in Nat \ S : \A m \in Nat \ S : n <= m
  BY LeastNumber
<1>2. n # 0 /\ n - 1 \in Nat
  BY <1>1
<1>3. n - 1 \in S
  BY <1>1, <1>2
<1> QED
  BY <1>1, <1>2, <1>3

-----------------------------------------------------------------------------
(* The greatest element of a set of numbers.                                *)

\* A set of positions that is not empty has a greatest, which Max chooses.
LEMMA MaxProperties ==
  ASSUME NEW n \in Nat, NEW S \in SUBSET (1 .. n), S # {}
  PROVE  /\ Max(S) \in S
         /\ \A y \in S : y <= Max(S)
<1> DEFINE T == {n - x : x \in S}
<1>0. \A x \in S : n - x \in Nat
  OBVIOUS
<1>1. T \in SUBSET Nat /\ T # {}
  BY <1>0
<1>2. PICK m \in T : \A k \in T : m <= k
  BY <1>1, LeastNumber
<1>3. PICK x \in S : m = n - x
  BY <1>2
<1>4. \A y \in S : x >= y
  <2> TAKE y \in S
  <2>1. m <= n - y
    BY <1>2
  <2>2. x \in 1 .. n /\ y \in 1 .. n
    OBVIOUS
  <2> QED
    BY <1>3, <2>1, <2>2
<1>5. Max(S) \in S /\ \A y \in S : Max(S) >= y
  BY <1>4 DEF Max
<1> QED
  BY <1>5

\* The greatest element is the only one of its kind.
LEMMA MaxUnique ==
  ASSUME NEW n \in Nat, NEW S \in SUBSET (1 .. n), NEW x \in S,
         \A y \in S : y <= x
  PROVE  Max(S) = x
<1>1. Max(S) \in S /\ \A y \in S : y <= Max(S)
  BY MaxProperties
<1>2. x <= Max(S) /\ Max(S) <= x /\ x \in 1 .. n /\ Max(S) \in 1 .. n
  BY <1>1
<1> QED
  BY <1>2

-----------------------------------------------------------------------------
(* Pairs.                                                                   *)

\* The pairs of elements of a set, and those of a larger set.
LEMMA Pairs ==
  ASSUME NEW A, NEW B, A \subseteq B
  PROVE  /\ A \X A \subseteq B \X B
         /\ \A x, y \in A : <<x, y>> \in A \X A
<1>1. ASSUME NEW q \in A \X A
      PROVE  q \in B \X B
  <2>1. PICK x \in A, y \in A : q = <<x, y>>
    OBVIOUS
  <2> QED
    BY <2>1
<1> QED
  BY <1>1

-----------------------------------------------------------------------------
(* Sequences, without a word about their elements.                          *)

IsSeq(s) == s \in Seq(Range(s))

\* A sequence of elements of some set is a sequence.
LEMMA SeqIsSeq ==
  ASSUME NEW S, NEW s \in Seq(S)
  PROVE  /\ IsSeq(s)
         /\ Range(s) \subseteq S
         /\ Range(s) = {s[i] : i \in 1 .. Len(s)}
  BY DEF IsSeq, Range

\* What Append does.
LEMMA AppendToSeq ==
  ASSUME NEW s, IsSeq(s), NEW e
  PROVE  /\ IsSeq(Append(s, e))
         /\ Len(s) \in Nat
         /\ DOMAIN s = 1 .. Len(s)
         /\ DOMAIN Append(s, e) = 1 .. Len(s) + 1
         /\ Len(Append(s, e)) = Len(s) + 1
         /\ \A i \in 1 .. Len(s) : Append(s, e)[i] = s[i]
         /\ Append(s, e)[Len(s) + 1] = e
<1> DEFINE S == Range(s) \cup {e}
<1>1. s \in Seq(S)
  BY DEF IsSeq
<1>2. Append(s, e) \in Seq(S) /\ e \in S
  BY <1>1
<1> HIDE DEF S
<1>3. IsSeq(Append(s, e))
  BY <1>2, SeqIsSeq
<1> QED
  BY <1>1, <1>2, <1>3

\* The sequence that goes there and back: what Reverse and Front make of it.
LEMMA ThereAndBack ==
  ASSUME NEW S, NEW s \in Seq(S), s # <<>>
  PROVE  LET t == s \o Reverse(Front(s)) IN
         /\ t \in Seq(S)
         /\ Len(t) = 2 * Len(s) - 1
         /\ \A i \in 1 .. Len(s) : t[i] = s[i]
         /\ \A i \in 1 .. Len(t) : t[i] = t[Len(t) + 1 - i]
         /\ Range(t) = Range(s)
<1> DEFINE f == Front(s)
           r == Reverse(f)
           n == Len(s)
           t == s \o r
<1>1. n \in Nat \ {0}
  OBVIOUS
<1>2. f \in Seq(S) /\ Len(f) = n - 1 /\ \A i \in 1 .. n - 1 : f[i] = s[i]
  <2>1. \A i \in 1 .. n - 1 : s[i] \in S
    BY <1>1
  <2>2. /\ f \in Seq(S)
        /\ Len(f) = IF 1 <= n - 1 THEN n - 1 - 1 + 1 ELSE 0
        /\ \A i \in 1 .. n - 1 - 1 + 1 : f[i] = s[1 + i - 1]
    BY <1>1, <2>1, SubSeqProperties DEF Front
  <2> HIDE DEF f
  <2>3. Len(f) = n - 1
    <3> HIDE DEF n
    <3>1. CASE n = 1
      BY <2>2, <3>1
    <3>2. CASE n # 1
      BY <1>1, <2>2, <3>2
    <3> QED
      BY <3>1, <3>2
  <2>4. \A i \in 1 .. n - 1 : f[i] = s[i]
    BY <1>1, <2>2
  <2> QED
    BY <2>2, <2>3, <2>4
<1> HIDE DEF f
<1>3. /\ r \in Seq(S)
      /\ Len(r) = n - 1
      /\ \A i \in 1 .. n - 1 : r[i] = s[n - i]
  <2>1. \A i \in 1 .. n - 1 : f[(Len(f) - i) + 1] = s[n - i]
    BY <1>1, <1>2
  <2>2. \A i \in 1 .. n - 1 : s[n - i] \in S
    BY <1>1
  <2>3. r = [i \in 1 .. n - 1 |-> s[n - i]]
    BY <1>2, <2>1 DEF Reverse
  <2> QED
    BY <1>1, <2>2, <2>3
<1> HIDE DEF r
<1>4. /\ t \in Seq(S)
      /\ Len(t) = 2 * n - 1
      /\ \A i \in 1 .. n : t[i] = s[i]
      /\ \A i \in n + 1 .. 2 * n - 1 : t[i] = s[2 * n - i]
  <2>1. \A i \in n + 1 .. 2 * n - 1 : t[i] = r[i - n] /\ i - n \in 1 .. n - 1
    BY <1>1, <1>3
  <2>2. \A i \in n + 1 .. 2 * n - 1 : n - (i - n) = 2 * n - i
    BY <1>1
  <2>3. \A i \in n + 1 .. 2 * n - 1 : r[i - n] = s[n - (i - n)]
    BY <1>3, <2>1
  <2>4. \A i \in n + 1 .. 2 * n - 1 : t[i] = s[2 * n - i]
    BY <2>1, <2>2, <2>3
  <2>5. t \in Seq(S) /\ Len(t) = 2 * n - 1
    <3>1. t \in Seq(S) /\ Len(t) = Len(s) + Len(r)
      BY <1>3, ConcatProperties
    <3> HIDE DEF t
    <3> QED
      BY <1>1, <1>3, <3>1
  <2>6. \A i \in 1 .. n : t[i] = s[i]
    BY <1>1, <1>3
  <2> QED
    BY <2>4, <2>5, <2>6
<1> HIDE DEF t, n
<1>5. \A i \in 1 .. Len(t) : t[i] = t[Len(t) + 1 - i]
  <2> TAKE i \in 1 .. Len(t)
  <2>1. Len(t) + 1 - i = 2 * n - i
    BY <1>1, <1>4
  <2>2. CASE i < n
    BY <1>1, <1>4, <2>1, <2>2
  <2>3. CASE i = n
    BY <1>1, <1>4, <2>1, <2>3
  <2>4. CASE i > n
    BY <1>1, <1>4, <2>1, <2>4
  <2> QED
    BY <1>1, <1>4, <2>2, <2>3, <2>4
<1>6. Range(t) = Range(s)
  <2>1. n = Len(s)
    BY DEF n
  <2>2. Range(t) = {t[i] : i \in 1 .. Len(t)} /\ Range(s) = {s[i] : i \in 1 .. n}
    BY <1>4, <2>1, SeqIsSeq
  <2>3. \A i \in 1 .. Len(t) : \E j \in 1 .. n : t[i] = s[j]
    <3> TAKE i \in 1 .. Len(t)
    <3>1. CASE i <= n
      BY <1>1, <1>4, <3>1
    <3>2. CASE i > n
      BY <1>1, <1>4, <3>2
    <3> QED
      BY <1>1, <1>4, <3>1, <3>2
  <2>4. \A j \in 1 .. n : j \in 1 .. Len(t) /\ t[j] = s[j]
    BY <1>1, <1>4
  <2> QED
    BY <2>2, <2>3, <2>4, SMTT(30)
<1> QED
  BY <1>4, <1>5, <1>6 DEF t, r, f, n

-----------------------------------------------------------------------------
(* Counting off: the positions T of some list are met in order, and the     *)
(* i-th met becomes the i-th element of another list.                       *)

Rank(T, n) == Cardinality(T \cap (1 .. n))

\* Ranks are numbers, no greater than the position, and begin at zero.
LEMMA RankType ==
  ASSUME NEW T, NEW n \in Nat
  PROVE  Rank(T, n) \in 0 .. n /\ Rank(T, 0) = 0 /\ IsFiniteSet(T \cap (1 .. n))
<1>1. IsFiniteSet(1 .. n) /\ Cardinality(1 .. n) = n
  BY FS_Interval
<1>2. /\ IsFiniteSet(T \cap (1 .. n))
      /\ Cardinality(T \cap (1 .. n)) <= n
  BY <1>1, FS_Intersection
<1>3. Cardinality(T \cap (1 .. n)) \in Nat
  BY <1>2, FS_CardinalityType
<1>4. T \cap (1 .. 0) = {}
  OBVIOUS
<1> QED
  BY <1>2, <1>3, <1>4, FS_EmptySet DEF Rank

\* A position of T raises the rank by one, another leaves it as it is.
LEMMA RankNext ==
  ASSUME NEW T, NEW n \in Nat
  PROVE  Rank(T, n + 1) = IF n + 1 \in T THEN Rank(T, n) + 1 ELSE Rank(T, n)
<1>1. CASE n + 1 \in T
  <2>1. T \cap (1 .. n + 1) = (T \cap (1 .. n)) \cup {n + 1}
    BY <1>1
  <2>2. n + 1 \notin T \cap (1 .. n)
    OBVIOUS
  <2>3. IsFiniteSet(T \cap (1 .. n))
    BY RankType
  <2> QED
    BY <1>1, <2>1, <2>2, <2>3, FS_AddElement DEF Rank
<1>2. CASE n + 1 \notin T
  <2>1. T \cap (1 .. n + 1) = T \cap (1 .. n)
    BY <1>2
  <2> QED
    BY <1>2, <2>1 DEF Rank
<1> QED
  BY <1>1, <1>2

\* Ranks keep the order of positions, strictly so up to a position of T.
LEMMA RankOrder ==
  ASSUME NEW T, NEW i \in Nat, NEW j \in Nat, i <= j
  PROVE  /\ Rank(T, i) <= Rank(T, j)
         /\ j \in T /\ i < j => Rank(T, i) < Rank(T, j)
<1>1. \A k \in Nat : i <= k => Rank(T, i) <= Rank(T, k)
  <2> TAKE k \in Nat
  <2> HAVE i <= k
  <2>1. T \cap (1 .. i) \in SUBSET (T \cap (1 .. k))
    OBVIOUS
  <2>2. IsFiniteSet(T \cap (1 .. k))
    BY RankType
  <2> QED
    BY <2>1, <2>2, FS_Subset DEF Rank
<1>2. ASSUME j \in T, i < j
      PROVE  Rank(T, i) < Rank(T, j)
  <2>1. j - 1 \in Nat /\ i <= j - 1 /\ (j - 1) + 1 = j
    BY <1>2
  <2>2. Rank(T, i) <= Rank(T, j - 1)
    BY <1>1, <2>1
  <2>3. Rank(T, (j - 1) + 1) = Rank(T, j - 1) + 1
    BY <1>2, <2>1, RankNext
  <2>4. Rank(T, i) \in 0 .. i /\ Rank(T, j - 1) \in 0 .. j - 1
    BY <2>1, RankType
  <2>5. Rank(T, j) = Rank(T, j - 1) + 1
    BY <2>1, <2>3
  <2> QED
    BY <2>1, <2>2, <2>4, <2>5
<1> QED
  BY <1>1, <1>2

\* seq holds, one after the other, what f says of the positions of T among
\* the first n.
Collects(seq, T, n, f) ==
  /\ Len(seq) = Rank(T, n)
  /\ \A i \in T \cap (1 .. n) : seq[Rank(T, i)] = f[i]
  /\ \A k \in 1 .. Len(seq) : \E i \in T \cap (1 .. n) : Rank(T, i) = k

\* The rank of a position that has been met is an index of the other list.
LEMMA CollectRank ==
  ASSUME NEW seq, NEW T, NEW n \in Nat, NEW f, Collects(seq, T, n, f)
  PROVE  \A i \in T \cap (1 .. n) : Rank(T, i) \in 1 .. Len(seq)
<1> TAKE i \in T \cap (1 .. n)
<1>1. i \in Nat /\ i \in T /\ 0 < i /\ i <= n
  OBVIOUS
<1>2. Rank(T, 0) < Rank(T, i) /\ Rank(T, i) <= Rank(T, n)
  BY <1>1, RankOrder
<1>3. Rank(T, 0) = 0 /\ Rank(T, i) \in 0 .. i /\ Rank(T, n) \in 0 .. n
  BY <1>1, RankType
<1>4. Len(seq) = Rank(T, n)
  BY DEF Collects
<1> QED
  BY <1>1, <1>2, <1>3, <1>4

\* One more position: it is appended if T has it.
LEMMA CollectNext ==
  ASSUME NEW seq, IsSeq(seq), NEW T, NEW n \in Nat, NEW f, Collects(seq, T, n, f)
  PROVE  /\ n + 1 \in T => Collects(Append(seq, f[n + 1]), T, n + 1, f)
         /\ n + 1 \notin T => Collects(seq, T, n + 1, f)
<1>1. \A i \in T \cap (1 .. n) : Rank(T, i) \in 1 .. Len(seq)
  BY CollectRank
<1>2. ASSUME n + 1 \in T
      PROVE  Collects(Append(seq, f[n + 1]), T, n + 1, f)
  <2> DEFINE longer == Append(seq, f[n + 1])
  <2>1. Rank(T, n + 1) = Rank(T, n) + 1
    BY <1>2, RankNext
  <2>2. /\ Len(seq) \in Nat
        /\ Len(longer) = Len(seq) + 1
        /\ \A k \in 1 .. Len(seq) : longer[k] = seq[k]
        /\ longer[Len(seq) + 1] = f[n + 1]
    BY AppendToSeq
  <2> HIDE DEF longer
  <2>3. T \cap (1 .. n + 1) = (T \cap (1 .. n)) \cup {n + 1}
    BY <1>2
  <2>4. Len(longer) = Rank(T, n + 1)
    BY <2>1, <2>2 DEF Collects
  <2>5. ASSUME NEW i \in T \cap (1 .. n + 1)
        PROVE  longer[Rank(T, i)] = f[i]
    <3>1. CASE i = n + 1
      BY <2>1, <2>2, <3>1 DEF Collects
    <3>2. CASE i \in T \cap (1 .. n)
      BY <1>1, <2>2, <3>2 DEF Collects
    <3> QED
      BY <2>3, <3>1, <3>2
  <2>6. ASSUME NEW k \in 1 .. Len(longer)
        PROVE  \E i \in T \cap (1 .. n + 1) : Rank(T, i) = k
    <3>1. CASE k = Len(seq) + 1
      BY <2>2, <2>3, <2>4, <3>1
    <3>2. CASE k \in 1 .. Len(seq)
      BY <2>3, <3>2 DEF Collects
    <3> QED
      BY <2>2, <3>1, <3>2
  <2> QED
    BY <2>4, <2>5, <2>6 DEF Collects, longer
<1>3. ASSUME n + 1 \notin T
      PROVE  Collects(seq, T, n + 1, f)
  <2>1. T \cap (1 .. n + 1) = T \cap (1 .. n)
    BY <1>3
  <2>2. Rank(T, n + 1) = Rank(T, n)
    BY <1>3, RankNext
  <2> QED
    BY <2>1, <2>2 DEF Collects
<1> QED
  BY <1>2, <1>3

\* The last position with some property is the one whose rank is last.
LEMMA CollectLast ==
  ASSUME NEW seq, NEW T, NEW n \in Nat, NEW f, Collects(seq, T, n, f),
         NEW P \in SUBSET (T \cap (1 .. n)), NEW Q \in SUBSET (1 .. Len(seq)),
         \A i \in T \cap (1 .. n) : i \in P <=> Rank(T, i) \in Q
  PROVE  /\ P = {} <=> Q = {}
         /\ P # {} => /\ Max(P) \in P
                      /\ Max(Q) = Rank(T, Max(P))
                      /\ seq[Max(Q)] = f[Max(P)]
<1>1. \A k \in Q : \E i \in P : Rank(T, i) = k
  BY DEF Collects
<1>2. P = {} <=> Q = {}
  BY <1>1
<1>3. ASSUME P # {}
      PROVE  /\ Max(P) \in P
             /\ Max(Q) = Rank(T, Max(P))
             /\ seq[Max(Q)] = f[Max(P)]
  <2>1. P \in SUBSET (1 .. n)
    OBVIOUS
  <2>2. Max(P) \in P /\ \A i \in P : i <= Max(P)
    BY <1>3, <2>1, MaxProperties
  <2>3. Rank(T, Max(P)) \in Q
    BY <2>2
  <2>4. ASSUME NEW k \in Q
        PROVE  k <= Rank(T, Max(P))
    <3>1. PICK i \in P : Rank(T, i) = k
      BY <1>1
    <3>2. i <= Max(P) /\ i \in 1 .. n /\ Max(P) \in 1 .. n
      <4>1. i \in 1 .. n
        BY <2>1
      <4>2. Max(P) \in 1 .. n
        BY <2>1, <2>2
      <4> QED
        BY <2>2, <4>1, <4>2
    <3> QED
      <4>1. i \in Nat /\ Max(P) \in Nat
        BY <3>2
      <4> QED
        BY <3>1, <3>2, <4>1, RankOrder
  <2>5. Len(seq) \in Nat
    <3>1. Rank(T, n) \in 0 .. n
      BY RankType
    <3> QED
      BY <3>1 DEF Collects
  <2>6. Max(Q) = Rank(T, Max(P))
    BY <2>3, <2>4, <2>5, MaxUnique
  <2>7. seq[Rank(T, Max(P))] = f[Max(P)]
    BY <2>2 DEF Collects
  <2> QED
    BY <2>2, <2>6, <2>7
<1> QED
  BY <1>2, <1>3

-----------------------------------------------------------------------------
(* Sums.                                                                    *)

IsRunningSum(s, n, d) == s = [k \in 0 .. n |-> IF k = 0 THEN 0 ELSE s[k - 1] + d[k]]

\* The sums of the first k of some numbers can be given as a function of k.
LEMMA RunningSum ==
  ASSUME NEW n \in Nat, NEW d
  PROVE  \E s : IsRunningSum(s, n, d)
<1> DEFINE Good == {m \in Nat : \E s : IsRunningSum(s, m, d)}
<1>1. 0 \in Good
  <2> DEFINE s == [k \in 0 .. 0 |-> 0]
  <2>1. \A k \in 0 .. 0 : k = 0
    OBVIOUS
  <2>2. s = [k \in 0 .. 0 |-> IF k = 0 THEN 0 ELSE s[k - 1] + d[k]]
    BY <2>1
  <2> QED
    BY <2>2 DEF IsRunningSum
<1>2. ASSUME NEW m \in Nat, m \in Good
      PROVE  m + 1 \in Good
  <2>1. PICK s : IsRunningSum(s, m, d)
    BY <1>2
  <2> DEFINE longer == [k \in 0 .. m + 1 |-> IF k <= m THEN s[k] ELSE s[m] + d[m + 1]]
  <2>2. ASSUME NEW k \in 0 .. m + 1
        PROVE  longer[k] = IF k = 0 THEN 0 ELSE longer[k - 1] + d[k]
    <3>1. CASE k = 0
      BY <2>1, <3>1 DEF IsRunningSum
    <3>2. CASE k \in 1 .. m
      <4>1. longer[k] = s[k] /\ longer[k - 1] = s[k - 1]
        BY <3>2
      <4>2. s[k] = s[k - 1] + d[k]
        BY <2>1, <3>2 DEF IsRunningSum
      <4> QED
        BY <3>2, <4>1, <4>2
    <3>3. CASE k = m + 1
      BY <3>3
    <3> QED
      BY <3>1, <3>2, <3>3
  <2>3. longer = [k \in 0 .. m + 1 |-> IF k = 0 THEN 0 ELSE longer[k - 1] + d[k]]
    BY <2>2
  <2> HIDE DEF longer
  <2> QED
    BY <2>3 DEF IsRunningSum
<1> HIDE DEF Good
<1>3. Nat \subseteq Good
  BY <1>1, <1>2, Induction
<1> QED
  BY <1>3 DEF Good

\* What such a function is, step by step.
LEMMA RunningSumIs ==
  ASSUME NEW n \in Nat, NEW d, \A k \in 1 .. n : d[k] \in Int,
         NEW s, IsRunningSum(s, n, d)
  PROVE  /\ s[0] = 0
         /\ \A k \in 1 .. n : s[k] = s[k - 1] + d[k]
         /\ \A k \in 0 .. n : s[k] \in Int
<1>1. s[0] = 0
  BY DEF IsRunningSum
<1>2. \A k \in 1 .. n : s[k] = s[k - 1] + d[k]
  BY DEF IsRunningSum
<1> DEFINE Good == {k \in Nat : k <= n => s[k] \in Int}
<1>3. \A k \in Nat : k \in Good => k + 1 \in Good
  <2> TAKE k \in Nat
  <2> SUFFICES ASSUME k \in Good, k + 1 <= n PROVE s[k + 1] \in Int
    OBVIOUS
  <2>1. s[k + 1] = s[(k + 1) - 1] + d[k + 1]
    BY <1>2
  <2> QED
    BY <2>1
<1>4. 0 \in Good
  BY <1>1
<1> HIDE DEF Good
<1>5. Nat \subseteq Good
  BY <1>3, <1>4, Induction
<1> QED
  BY <1>1, <1>2, <1>5 DEF Good

\* Putting a number in front adds it to every sum.
LEMMA RunningSumInFront ==
  ASSUME NEW n \in Nat, NEW d, \A k \in 1 .. n : d[k] \in Int,
         NEW x \in Int, NEW e, e[1] = x, \A k \in 1 .. n : e[k + 1] = d[k],
         NEW s, IsRunningSum(s, n, d), NEW t, IsRunningSum(t, n + 1, e)
  PROVE  t[n + 1] = x + s[n]
<1>1. /\ s[0] = 0
      /\ \A k \in 1 .. n : s[k] = s[k - 1] + d[k]
      /\ \A k \in 0 .. n : s[k] \in Int
  BY RunningSumIs
<1>2. \A k \in 1 .. n + 1 : e[k] \in Int
  <2> TAKE k \in 1 .. n + 1
  <2>1. CASE k = 1
    BY <2>1
  <2>2. CASE k # 1
    <3>1. k - 1 \in 1 .. n /\ k = (k - 1) + 1
      BY <2>2
    <3> QED
      BY <3>1
  <2> QED
    BY <2>1, <2>2
<1>3. t[0] = 0 /\ \A k \in 1 .. n + 1 : t[k] = t[k - 1] + e[k]
  BY <1>2, RunningSumIs
<1> DEFINE Good == {k \in Nat : k <= n => t[k + 1] = x + s[k]}
<1>4. 0 \in Good
  <2>1. t[1] = t[1 - 1] + e[1]
    BY <1>3
  <2> QED
    BY <1>1, <1>3, <2>1
<1>5. \A k \in Nat : k \in Good => k + 1 \in Good
  <2> TAKE k \in Nat
  <2> SUFFICES ASSUME k \in Good, k + 1 <= n PROVE t[(k + 1) + 1] = x + s[k + 1]
    OBVIOUS
  <2>1. t[(k + 1) + 1] = t[((k + 1) + 1) - 1] + e[(k + 1) + 1]
    BY <1>3
  <2>2. s[k + 1] = s[(k + 1) - 1] + d[k + 1] /\ s[k] \in Int /\ d[k + 1] \in Int
    BY <1>1
  <2>3. e[(k + 1) + 1] = d[k + 1] /\ t[k + 1] = x + s[k]
    OBVIOUS
  <2> QED
    BY <2>1, <2>2, <2>3
<1> HIDE DEF Good
<1>6. Nat \subseteq Good
  BY <1>4, <1>5, Induction
<1> QED
  BY <1>6 DEF Good

\* A number more makes the sum so much greater.
LEMMA RunningSumGrows ==
  ASSUME NEW n \in Nat, NEW d, NEW e, \A k \in 1 .. n : e[k] = d[k] /\ d[k] \in Int, e[n + 1] \in Int,
         NEW s, IsRunningSum(s, n, d), NEW t, IsRunningSum(t, n + 1, e)
  PROVE  t[n + 1] = s[n] + e[n + 1] /\ s[n] \in Int
<1>1. /\ s[0] = 0
      /\ \A k \in 1 .. n : s[k] = s[k - 1] + d[k]
      /\ s[n] \in Int
  BY RunningSumIs
<1>2. \A k \in 1 .. n + 1 : e[k] \in Int
  BY DEF IsRunningSum
<1>3. t[0] = 0 /\ \A k \in 1 .. n + 1 : t[k] = t[k - 1] + e[k]
  BY <1>2, RunningSumIs
<1> DEFINE Good == {k \in Nat : k <= n => t[k] = s[k]}
<1>4. 0 \in Good
  BY <1>1, <1>3
<1>5. \A k \in Nat : k \in Good => k + 1 \in Good
  <2> TAKE k \in Nat
  <2> SUFFICES ASSUME k \in Good, k + 1 <= n PROVE t[k + 1] = s[k + 1]
    OBVIOUS
  <2>1. t[k + 1] = t[(k + 1) - 1] + e[k + 1] /\ s[k + 1] = s[(k + 1) - 1] + d[k + 1]
    BY <1>1, <1>3
  <2> QED
    BY <2>1
<1> HIDE DEF Good
<1>6. t[n] = s[n]
  <2>1. n \in Good
    BY <1>4, <1>5, Induction
  <2> QED
    BY <2>1 DEF Good
<1>7. t[n + 1] = t[(n + 1) - 1] + e[n + 1]
  BY <1>3
<1> QED
  BY <1>1, <1>6, <1>7

OneOf(s) == CHOOSE x \in s : TRUE

\* f adds up d over subsets of S, always taking the element CHOOSE names.
AddsUp(f, D, d) ==
  f = [s \in D |-> IF s = {} THEN 0 ELSE d[OneOf(s)] + f[s \ {OneOf(s)}]]

IsSetSum(f, S, d) == AddsUp(f, SUBSET S, d)

\* The sums over the subsets of a finite set can be given as a function.
LEMMA SetSum ==
  ASSUME NEW S, IsFiniteSet(S), NEW d
  PROVE  \E f : IsSetSum(f, S, d)
<1> DEFINE Small(m) == {s \in SUBSET S : Cardinality(s) <= m}
           Good == {m \in Nat : \E f : AddsUp(f, Small(m), d)}
<1>1. \A s \in SUBSET S : IsFiniteSet(s) /\ Cardinality(s) \in Nat
  BY FS_Subset, FS_CardinalityType
<1>2. ASSUME NEW m \in Nat, NEW s \in Small(m + 1), s # {}
      PROVE  s \ {OneOf(s)} \in Small(m)
  <2>1. OneOf(s) \in s
    BY <1>2 DEF OneOf
  <2>2. Cardinality(s \ {OneOf(s)}) = Cardinality(s) - 1
    BY <1>1, <2>1, FS_RemoveElement
  <2>3. Cardinality(s) \in Nat /\ Cardinality(s) <= m + 1
    BY <1>1
  <2> QED
    BY <2>2, <2>3
<1>3. 0 \in Good
  <2> DEFINE f == [s \in Small(0) |-> 0]
  <2>1. \A s \in Small(0) : s = {}
    <3> TAKE s \in Small(0)
    <3>1. Cardinality(s) = 0 /\ IsFiniteSet(s)
      BY <1>1
    <3> QED
      BY <3>1, FS_EmptySet
  <2> HIDE DEF Small
  <2>2. AddsUp(f, Small(0), d)
    BY <2>1 DEF AddsUp
  <2> QED
    BY <2>2
<1>4. ASSUME NEW m \in Nat, m \in Good
      PROVE  m + 1 \in Good
  <2>1. PICK f : AddsUp(f, Small(m), d)
    BY <1>4
  <2>2. Small(m) \subseteq Small(m + 1)
    BY <1>1
  <2>3. \A s \in Small(m + 1) : s # {} => s \ {OneOf(s)} \in Small(m)
    BY <1>2
  <2> HIDE DEF Small
  <2> DEFINE g == [s \in Small(m + 1) |->
                     IF s = {} THEN 0 ELSE d[OneOf(s)] + f[s \ {OneOf(s)}]]
  <2>4. \A s \in Small(m) : g[s] = f[s]
    BY <2>1, <2>2 DEF AddsUp
  <2>5. \A s \in Small(m + 1) :
          g[s] = IF s = {} THEN 0 ELSE d[OneOf(s)] + g[s \ {OneOf(s)}]
    BY <2>3, <2>4
  <2>6. g = [s \in Small(m + 1) |-> g[s]]
    OBVIOUS
  <2> HIDE DEF g
  <2>7. AddsUp(g, Small(m + 1), d)
    BY <2>5, <2>6 DEF AddsUp
  <2> QED
    BY <2>7
<1> HIDE DEF Good
<1>5. Nat \subseteq Good
  BY <1>3, <1>4, Induction
<1>6. Cardinality(S) \in Nat /\ Small(Cardinality(S)) = SUBSET S
  <2>1. \A s \in SUBSET S : Cardinality(s) <= Cardinality(S)
    BY FS_Subset
  <2> QED
    BY <2>1, FS_CardinalityType
<1> HIDE DEF Small
<1>7. \E f : AddsUp(f, Small(Cardinality(S)), d)
  BY <1>5, <1>6 DEF Good
<1> QED
  BY <1>6, <1>7 DEF IsSetSum

\* It does not matter which element is taken.
InAnyOrder(f, S, d) == \A s \in SUBSET S : \A x \in s : f[s] = d[x] + f[s \ {x}]

\* Sums of numbers are numbers, and it does not matter which element is taken.
LEMMA SetSumIs ==
  ASSUME NEW S, IsFiniteSet(S), NEW d, \A x \in S : d[x] \in Int,
         NEW f, IsSetSum(f, S, d)
  PROVE  /\ f[{}] = 0
         /\ \A s \in SUBSET S : f[s] \in Int
         /\ InAnyOrder(f, S, d)
<1>1. \A s \in SUBSET S : IsFiniteSet(s) /\ Cardinality(s) \in Nat
  BY FS_Subset, FS_CardinalityType
<1>2. \A s \in SUBSET S : f[s] = IF s = {} THEN 0 ELSE d[OneOf(s)] + f[s \ {OneOf(s)}]
  BY DEF IsSetSum, AddsUp
<1>3. \A s : s # {} => OneOf(s) \in s
  BY DEF OneOf
<1> DEFINE Fine(s) == f[s] \in Int /\ \A x \in s : f[s] = d[x] + f[s \ {x}]
           Good == {m \in Nat : \A s \in SUBSET S : Cardinality(s) <= m => Fine(s)}
<1>4. Fine({})
  <2>1. {} \in SUBSET S
    OBVIOUS
  <2> QED
    BY <1>2, <2>1, SMTT(40)
<1>5. 0 \in Good
  <2>1. ASSUME NEW s \in SUBSET S, Cardinality(s) <= 0
        PROVE  s = {}
    <3>1. Cardinality(s) = 0
      BY <1>1, <2>1
    <3> QED
      BY <1>1, <3>1, FS_EmptySet
  <2> HIDE DEF Fine
  <2> QED
    BY <1>4, <2>1
<1>6. ASSUME NEW m \in Nat, m \in Good
      PROVE  m + 1 \in Good
  <2> SUFFICES ASSUME NEW s \in SUBSET S, Cardinality(s) <= m + 1, s # {}
               PROVE  Fine(s)
    <3> HIDE DEF Fine
    <3> QED
      BY <1>4
  <2>1. \A t \in SUBSET S : Cardinality(t) <= m => Fine(t)
    BY <1>6
  <2>2. ASSUME NEW x \in s
        PROVE  s \ {x} \in SUBSET S /\ Cardinality(s \ {x}) <= m /\ Fine(s \ {x})
    <3>1. Cardinality(s \ {x}) = Cardinality(s) - 1 /\ Cardinality(s) \in Nat
      BY <1>1, FS_RemoveElement
    <3>2. s \ {x} \in SUBSET S /\ Cardinality(s \ {x}) <= m
      BY <3>1
    <3> HIDE DEF Fine
    <3> QED
      BY <2>1, <3>2
  <2> DEFINE c == OneOf(s)
  <2>3. c \in s /\ f[s] = d[c] + f[s \ {c}]
    BY <1>2, <1>3
  <2> HIDE DEF c
  <2>4. d[c] \in Int /\ f[s \ {c}] \in Int
    BY <2>2, <2>3
  <2>5. ASSUME NEW x \in s
        PROVE  f[s] = d[x] + f[s \ {x}]
    <3>1. CASE x = c
      BY <2>3, <3>1
    <3>2. CASE x # c
      <4> DEFINE r == (s \ {c}) \ {x}
      <4>1. r = (s \ {x}) \ {c}
        OBVIOUS
      <4>2. x \in s \ {c} /\ c \in s \ {x}
        BY <2>3, <3>2
      <4>3. f[s \ {c}] = d[x] + f[r]
        BY <2>2, <2>3, <4>2
      <4>4. f[s \ {x}] = d[c] + f[r]
        BY <2>2, <4>1, <4>2
      <4>5. f[r] \in Int
        <5>1. (s \ {c}) \in SUBSET S /\ Cardinality(s \ {c}) <= m
          BY <2>2, <2>3
        <5>2. Cardinality(r) <= m /\ r \in SUBSET S
          BY <1>1, <4>2, <5>1, FS_RemoveElement, SMTT(40)
        <5> HIDE DEF r
        <5> QED
          BY <2>1, <5>2
      <4> QED
        BY <2>3, <2>4, <4>3, <4>4, <4>5
    <3> QED
      BY <3>1, <3>2
  <2>6. f[s] \in Int
    BY <2>3, <2>4
  <2> QED
    BY <2>5, <2>6
<1> HIDE DEF Good, Fine
<1>7. Nat \subseteq Good
  BY <1>5, <1>6, Induction
<1>8. \A s \in SUBSET S : Fine(s)
  BY <1>1, <1>7 DEF Good
<1> QED
  BY <1>2, <1>8 DEF Fine, InAnyOrder

\* Two sums of the same numbers agree, whatever else each of them adds up.
LEMMA SumsAgree ==
  ASSUME NEW S, NEW T, NEW d, NEW e, NEW f, NEW g,
         IsFiniteSet(S), T \subseteq S, IsSetSum(f, S, d), IsSetSum(g, T, e),
         \A x \in T : d[x] = e[x]
  PROVE  f[T] = g[T]
<1> DEFINE Good == {m \in Nat : \A s \in SUBSET T : Cardinality(s) = m => f[s] = g[s]}
<1>1. \A s \in SUBSET T : IsFiniteSet(s) /\ Cardinality(s) \in Nat /\ s \in SUBSET S
  BY FS_Subset, FS_CardinalityType
<1>2. 0 \in Good
  <2> SUFFICES ASSUME NEW s \in SUBSET T, Cardinality(s) = 0
               PROVE  f[s] = g[s]
    OBVIOUS
  <2>1. s = {}
    BY <1>1, FS_EmptySet
  <2> QED
    BY <1>1, <2>1 DEF IsSetSum, AddsUp
<1>3. ASSUME NEW m \in Nat, m \in Good
      PROVE  m + 1 \in Good
  <2> SUFFICES ASSUME NEW s \in SUBSET T, Cardinality(s) = m + 1
               PROVE  f[s] = g[s]
    OBVIOUS
  <2>1. s # {}
    BY FS_EmptySet
  <2>2. OneOf(s) \in s
    BY <2>1 DEF OneOf
  <2>3. Cardinality(s \ {OneOf(s)}) = m
    <3>1. Cardinality(s \ {OneOf(s)}) = Cardinality(s) - 1
      BY <1>1, <2>2, FS_RemoveElement
    <3> QED
      BY <3>1
  <2>4. f[s \ {OneOf(s)}] = g[s \ {OneOf(s)}]
    BY <1>3, <2>3
  <2>5. /\ f[s] = d[OneOf(s)] + f[s \ {OneOf(s)}]
        /\ g[s] = e[OneOf(s)] + g[s \ {OneOf(s)}]
    BY <1>1, <2>1 DEF IsSetSum, AddsUp
  <2> QED
    BY <2>2, <2>4, <2>5
<1> HIDE DEF Good
<1>4. Nat \subseteq Good
  BY <1>2, <1>3, Induction
<1>5. Cardinality(T) \in Good
  BY <1>1, <1>4
<1> QED
  BY <1>5 DEF Good

-----------------------------------------------------------------------------
(* Sequences joined.                                                        *)

IsFlattening(f, seqs) ==
  f = [i \in 1 .. Len(seqs) |-> IF i = 1 THEN seqs[i] ELSE f[i - 1] \o seqs[i]]

\* The first m sequences, joined, can be given as a function of m.
LEMMA Flattening ==
  ASSUME NEW seqs, Len(seqs) \in Nat
  PROVE  \E f : IsFlattening(f, seqs)
<1> DEFINE Joins(f, m) == f = [i \in 1 .. m |-> IF i = 1 THEN seqs[i] ELSE f[i - 1] \o seqs[i]]
           Good == {m \in Nat : \E f : Joins(f, m)}
<1>1. 0 \in Good
  <2>1. Joins(<<>>, 0)
    <3>1. \A i \in 1 .. 0 : FALSE
      OBVIOUS
    <3> QED
      BY <3>1
  <2> QED
    BY <2>1
<1>2. ASSUME NEW m \in Nat, m \in Good
      PROVE  m + 1 \in Good
  <2>1. PICK f : Joins(f, m)
    BY <1>2
  <2> DEFINE g == [i \in 1 .. m + 1 |-> IF i = 1 THEN seqs[i] ELSE f[i - 1] \o seqs[i]]
  <2>2. \A i \in 1 .. m : f[i] = IF i = 1 THEN seqs[i] ELSE f[i - 1] \o seqs[i]
    BY <2>1
  <2>3. \A i \in 1 .. m : g[i] = f[i]
    BY <2>2
  <2>4. \A i \in 1 .. m + 1 : i # 1 => f[i - 1] = g[i - 1]
    <3> HIDE DEF g
    <3> TAKE i \in 1 .. m + 1
    <3> HAVE i # 1
    <3>1. i - 1 \in 1 .. m
      OBVIOUS
    <3> QED
      BY <2>3, <3>1
  <2>5. \A i \in 1 .. m + 1 : g[i] = IF i = 1 THEN seqs[i] ELSE g[i - 1] \o seqs[i]
    BY <2>4
  <2>6. DOMAIN g = 1 .. m + 1 /\ g = [i \in DOMAIN g |-> g[i]]
    OBVIOUS
  <2> HIDE DEF g
  <2>7. Joins(g, m + 1)
    BY <2>5, <2>6
  <2> HIDE DEF Joins
  <2> QED
    BY <2>7
<1> HIDE DEF Good
<1>3. Nat \subseteq Good
  BY <1>1, <1>2, Induction
<1> HIDE DEF Joins
<1>4. \E f : Joins(f, Len(seqs))
  BY <1>3 DEF Good
<1> QED
  BY <1>4 DEF IsFlattening, Joins

\* FlattenSeq is the last value of that function.
LEMMA FlattenSeqIs ==
  ASSUME NEW seqs, Len(seqs) \in Nat \ {0}
  PROVE  \E f : IsFlattening(f, seqs) /\ FlattenSeq(seqs) = f[Len(seqs)]
<1> DEFINE g == CHOOSE f : f = [i \in 1 .. Len(seqs) |->
                                  IF i = 1 THEN seqs[i] ELSE f[i - 1] \o seqs[i]]
<1>1. PICK f : f = [i \in 1 .. Len(seqs) |->
                      IF i = 1 THEN seqs[i] ELSE f[i - 1] \o seqs[i]]
  BY Flattening DEF IsFlattening
<1>2. g = [i \in 1 .. Len(seqs) |-> IF i = 1 THEN seqs[i] ELSE g[i - 1] \o seqs[i]]
  BY <1>1, Zenon
<1>3. Len(seqs) # 0
  OBVIOUS
<1>4. FlattenSeq(seqs) = g[Len(seqs)]
  BY <1>3, Zenon DEF FlattenSeq
<1> HIDE DEF g
<1> QED
  BY <1>2, <1>4 DEF IsFlattening

\* What FlattenSeq makes of sequences over a set is a sequence over that set.
LEMMA FlattenSeqType ==
  ASSUME NEW S, NEW seqs \in Seq(Seq(S))
  PROVE  FlattenSeq(seqs) \in Seq(S)
<1>1. CASE Len(seqs) = 0
  <2>1. seqs = <<>>
    BY <1>1
  <2>2. FlattenSeq(seqs) = seqs
    BY <1>1, Zenon DEF FlattenSeq
  <2>3. <<>> \in Seq(S)
    OBVIOUS
  <2> QED
    BY <2>1, <2>2, <2>3, Zenon
<1>2. CASE Len(seqs) # 0
  <2> DEFINE n == Len(seqs)
  <2>1. n \in Nat \ {0} /\ \A i \in 1 .. n : seqs[i] \in Seq(S)
    BY <1>2
  <2>2. PICK f : IsFlattening(f, seqs) /\ FlattenSeq(seqs) = f[n]
    BY <2>1, FlattenSeqIs
  <2> DEFINE Good == {m \in Nat : m \in 1 .. n => f[m] \in Seq(S)}
  <2>3. \A m \in 1 .. n : f[m] = IF m = 1 THEN seqs[m] ELSE f[m - 1] \o seqs[m]
    BY <2>2 DEF IsFlattening
  <2> HIDE DEF n
  <2>4. 0 \in Good
    OBVIOUS
  <2>5. ASSUME NEW m \in Nat, m \in Good
        PROVE  m + 1 \in Good
    <3> SUFFICES ASSUME m + 1 \in 1 .. n PROVE f[m + 1] \in Seq(S)
      OBVIOUS
    <3>1. f[m + 1] = IF m + 1 = 1 THEN seqs[m + 1] ELSE f[(m + 1) - 1] \o seqs[m + 1]
      BY <2>3
    <3>2. CASE m = 0
      BY <2>1, <3>1, <3>2
    <3>3. CASE m # 0
      <4>1. f[m] \in Seq(S) /\ seqs[m + 1] \in Seq(S)
        BY <2>1, <2>5, <3>3
      <4>2. m + 1 # 1 /\ (m + 1) - 1 = m
        BY <3>3
      <4>3. f[m + 1] = f[m] \o seqs[m + 1]
        BY <3>1, <4>2, Zenon
      <4> QED
        BY <4>1, <4>3, ConcatProperties
    <3> QED
      BY <3>2, <3>3
  <2> HIDE DEF Good
  <2>6. Nat \subseteq Good
    BY <2>4, <2>5, Induction
  <2> QED
    BY <2>1, <2>2, <2>6 DEF Good
<1> QED
  BY <1>1, <1>2

\* The elements of two sequences are among those of the two joined.
LEMMA JoinedHas ==
  ASSUME NEW S, NEW g \in Seq(S), NEW h \in Seq(S)
  PROVE  Range(g) \subseteq Range(g \o h) /\ Range(h) \subseteq Range(g \o h)
<1> DEFINE j == g \o h
<1>1. /\ j \in Seq(S)
      /\ Len(j) = Len(g) + Len(h)
      /\ \A i \in 1 .. Len(g) + Len(h) : j[i] = IF i <= Len(g) THEN g[i] ELSE h[i - Len(g)]
  BY ConcatProperties
<1> HIDE DEF j
<1>2. ASSUME NEW i \in DOMAIN g
      PROVE  \E k \in DOMAIN j : j[k] = g[i]
  <2>1. i \in DOMAIN j /\ j[i] = g[i]
    BY <1>1
  <2> QED
    BY <2>1
<1>3. ASSUME NEW i \in DOMAIN h
      PROVE  \E k \in DOMAIN j : j[k] = h[i]
  <2>1. Len(g) + i \in DOMAIN j /\ j[Len(g) + i] = h[i]
    BY <1>1
  <2> QED
    BY <2>1
<1>4. Range(g) \subseteq Range(j)
  BY <1>2, ZenonT(40) DEF Range
<1>5. Range(h) \subseteq Range(j)
  BY <1>3, ZenonT(40) DEF Range
<1> QED
  BY <1>4, <1>5 DEF j

\* FlattenSeq leaves no element out.
LEMMA FlattenSeqHas ==
  ASSUME NEW S, NEW seqs \in Seq(Seq(S)), NEW l \in DOMAIN seqs
  PROVE  Range(seqs[l]) \subseteq Range(FlattenSeq(seqs))
<1> DEFINE n == Len(seqs)
<1>1. n \in Nat \ {0} /\ l \in 1 .. n /\ \A i \in 1 .. n : seqs[i] \in Seq(S)
  OBVIOUS
<1>2. PICK f : IsFlattening(f, seqs) /\ FlattenSeq(seqs) = f[n]
  BY <1>1, FlattenSeqIs
<1>3. \A m \in 1 .. n : f[m] = IF m = 1 THEN seqs[m] ELSE f[m - 1] \o seqs[m]
  BY <1>2 DEF IsFlattening
<1> HIDE DEF n
<1> DEFINE Fine(m) == /\ f[m] \in Seq(S)
                      /\ l <= m => Range(seqs[l]) \subseteq Range(f[m])
           Good == {m \in Nat : m \in 1 .. n => Fine(m)}
<1>4. 0 \in Good
  OBVIOUS
<1>5. ASSUME NEW m \in Nat, m \in Good
      PROVE  m + 1 \in Good
  <2> SUFFICES ASSUME m + 1 \in 1 .. n PROVE Fine(m + 1)
    OBVIOUS
  <2>1. f[m + 1] = IF m + 1 = 1 THEN seqs[m + 1] ELSE f[(m + 1) - 1] \o seqs[m + 1]
    BY <1>3
  <2>2. CASE m = 0
    <3>1. f[m + 1] = seqs[m + 1] /\ seqs[m + 1] \in Seq(S)
      BY <1>1, <2>1, <2>2
    <3>2. l <= m + 1 => l = m + 1
      BY <1>1, <2>2
    <3> QED
      BY <3>1, <3>2
  <2>3. CASE m # 0
    <3> DEFINE g == f[m]
               h == seqs[m + 1]
    <3>1. Fine(m) /\ h \in Seq(S)
      BY <1>1, <1>5, <2>3
    <3>2. m + 1 # 1 /\ (m + 1) - 1 = m
      BY <2>3
    <3>3. f[m + 1] = g \o h
      BY <2>1, <3>2, Zenon
    <3>4. g \in Seq(S) /\ (l <= m => Range(seqs[l]) \subseteq Range(g))
      BY <3>1
    <3>5. l <= m + 1 => l <= m \/ seqs[l] = h
      <4>1. l <= m + 1 => l <= m \/ l = m + 1
        BY <1>1
      <4> QED
        BY <4>1
    <3> HIDE DEF g, h, Fine
    <3>6. /\ g \o h \in Seq(S)
          /\ Range(g) \subseteq Range(g \o h) /\ Range(h) \subseteq Range(g \o h)
      BY <3>1, <3>4, JoinedHas, ConcatProperties
    <3>7. l <= m + 1 => Range(seqs[l]) \subseteq Range(g \o h)
      BY <3>4, <3>5, <3>6
    <3> QED
      BY <3>3, <3>6, <3>7 DEF Fine
  <2> QED
    BY <2>2, <2>3
<1> HIDE DEF Good, Fine
<1>6. Nat \subseteq Good
  BY <1>4, <1>5, Induction
<1>7. Fine(n) /\ l <= n
  BY <1>1, <1>6 DEF Good
<1> QED
  BY <1>2, <1>7 DEF Fine

\* A sequence of n pairs: a[k] and b[k] for each k in turn.
InPairs(seq, n, a, b) ==
  /\ IsSeq(seq)
  /\ Len(seq) = 2 * n
  /\ \A k \in 1 .. n : seq[2 * k - 1] = a[k] /\ seq[2 * k] = b[k]

\* FlattenSeq of pairs.
LEMMA FlattenPairs ==
  ASSUME NEW n \in Nat, NEW a, NEW b,
         NEW seqs, seqs = [k \in 1 .. n |-> <<a[k], b[k]>>]
  PROVE  InPairs(FlattenSeq(seqs), n, a, b)
<1> DEFINE S == {a[k] : k \in 1 .. n} \cup {b[k] : k \in 1 .. n}
<1>1. \A k \in 1 .. n : <<a[k], b[k]>> \in Seq(S)
  OBVIOUS
<1>2. seqs \in Seq(Seq(S)) /\ Len(seqs) = n
  BY <1>1
<1>3. \A k \in 1 .. n : seqs[k] = <<a[k], b[k]>>
  OBVIOUS
<1>4. CASE n = 0
  <2>1. FlattenSeq(seqs) = seqs /\ seqs = <<>>
    <3>1. FlattenSeq(seqs) = seqs
      BY <1>2, <1>4, Zenon DEF FlattenSeq
    <3> QED
      BY <1>2, <1>4, <3>1
  <2>2. IsSeq(<<>>) /\ Len(<<>>) = 2 * n
    BY <1>4 DEF IsSeq, Range
  <2>3. \A k \in 1 .. n : FALSE
    BY <1>4
  <2>4. FlattenSeq(seqs) = <<>>
    BY <2>1
  <2> QED
    BY <2>2, <2>3, <2>4 DEF InPairs
<1>5. CASE n # 0
  <2>1. PICK f : IsFlattening(f, seqs) /\ FlattenSeq(seqs) = f[n]
    BY <1>2, <1>5, FlattenSeqIs
  <2>2. \A m \in 1 .. n : f[m] = IF m = 1 THEN seqs[m] ELSE f[m - 1] \o seqs[m]
    BY <1>2, <2>1 DEF IsFlattening
  <2> DEFINE Fine(m) == /\ f[m] \in Seq(S) /\ Len(f[m]) = 2 * m
                        /\ \A k \in 1 .. m : f[m][2 * k - 1] = a[k] /\ f[m][2 * k] = b[k]
             Good == {m \in Nat : m \in 1 .. n => Fine(m)}
  <2>3. 0 \in Good
    OBVIOUS
  <2>4. ASSUME NEW m \in Nat, m \in Good
        PROVE  m + 1 \in Good
    <3> SUFFICES ASSUME m + 1 \in 1 .. n PROVE Fine(m + 1)
      OBVIOUS
    <3> DEFINE pair == seqs[m + 1]
    <3>1. pair = <<a[m + 1], b[m + 1]>>
      BY <1>3
    <3>2. pair \in Seq(S) /\ Len(pair) = 2 /\ pair[1] = a[m + 1] /\ pair[2] = b[m + 1]
      BY <1>1, <3>1
    <3>3. f[m + 1] = IF m + 1 = 1 THEN pair ELSE f[(m + 1) - 1] \o pair
      BY <2>2
    <3> HIDE DEF pair, S
    <3>4. CASE m = 0
      <4>1. f[1] = pair
        BY <3>3, <3>4
      <4> QED
        BY <3>2, <3>4, <4>1
    <3>5. CASE m # 0
      <4> DEFINE g == f[m]
      <4>1. Fine(m)
        BY <2>4, <3>5
      <4>2. f[m + 1] = g \o pair
        BY <3>3, <3>5
      <4>3. g \in Seq(S) /\ Len(g) = 2 * m
        BY <4>1
      <4>4. \A k \in 1 .. m : g[2 * k - 1] = a[k] /\ g[2 * k] = b[k]
        BY <4>1
      <4> HIDE DEF g, Fine
      <4> DEFINE h == g \o pair
      <4>5. /\ h \in Seq(S) /\ Len(h) = 2 * m + 2
            /\ \A i \in 1 .. 2 * m : h[i] = g[i]
            /\ h[2 * m + 1] = pair[1] /\ h[2 * m + 2] = pair[2]
        <5>1. /\ h \in Seq(S) /\ Len(h) = 2 * m + 2
              /\ \A i \in 1 .. 2 * m + 2 :
                   h[i] = IF i <= 2 * m THEN g[i] ELSE pair[i - 2 * m]
          <6>1. /\ h \in Seq(S)
                /\ Len(h) = Len(g) + Len(pair)
                /\ \A i \in 1 .. Len(g) + Len(pair) :
                     h[i] = IF i <= Len(g) THEN g[i] ELSE pair[i - Len(g)]
            BY <3>2, <4>3, ConcatProperties
          <6> HIDE DEF h
          <6> QED
            BY <3>2, <4>3, <6>1
        <5> HIDE DEF h
        <5>2. 2 * m + 1 - 2 * m = 1 /\ 2 * m + 2 - 2 * m = 2 /\ 2 * m \in Nat
          OBVIOUS
        <5>3. \A i \in 1 .. 2 * m : h[i] = g[i]
          BY <5>1, <5>2
        <5> QED
          BY <5>1, <5>2, <5>3
      <4> HIDE DEF h
      <4>6. \A k \in 1 .. m : 2 * k - 1 \in 1 .. 2 * m /\ 2 * k \in 1 .. 2 * m
        OBVIOUS
      <4>7. \A k \in 1 .. m + 1 : h[2 * k - 1] = a[k] /\ h[2 * k] = b[k]
        <5> TAKE k \in 1 .. m + 1
        <5>1. CASE k = m + 1
          <6>1. 2 * k - 1 = 2 * m + 1 /\ 2 * k = 2 * m + 2
            BY <5>1
          <6> QED
            BY <3>2, <4>5, <5>1, <6>1
        <5>2. CASE k # m + 1
          <6>1. k \in 1 .. m
            BY <5>2
          <6> QED
            BY <4>4, <4>5, <4>6, <6>1
        <5> QED
          BY <5>1, <5>2
      <4>8. f[m + 1] = h
        BY <4>2 DEF h
      <4>9. 2 * m + 2 = 2 * (m + 1)
        OBVIOUS
      <4> QED
        BY <4>5, <4>7, <4>8, <4>9 DEF Fine
    <3> QED
      BY <3>4, <3>5
  <2> HIDE DEF Good, Fine, S
  <2>5. Nat \subseteq Good
    BY <2>3, <2>4, Induction
  <2>6. Fine(n)
    BY <1>5, <2>5 DEF Good
  <2>7. IsSeq(f[n])
    BY <2>6, SeqIsSeq DEF Fine
  <2> QED
    BY <2>1, <2>6, <2>7 DEF Fine, InPairs
<1> QED
  BY <1>4, <1>5

-----------------------------------------------------------------------------
(* Places reached: a pair <<p, t>> says that place p can be reached at time *)
(* t, and moves[p] are the places one move from p leads to, with what each  *)
(* move costs.                                                              *)

IsMap(places, moves) ==
  /\ IsFiniteSet(places)
  /\ \A p \in places : moves[p] \subseteq places \X Int

\* The set is closed under moves.
Onward(moves, S) ==
  \A r \in S : \A m \in moves[r[1]] : <<m[1], r[2] + m[2]>> \in S

\* All that can be reached from the start, in however many moves.
Reachable(places, moves, start) ==
  {r \in places \X Int : \A S \in SUBSET (places \X Int) :
     <<start, 0>> \in S /\ Onward(moves, S) => r \in S}

\* What one more move can reach.
Later(moves, S) ==
  S \cup UNION {{<<m[1], r[2] + m[2]>> : m \in moves[r[1]]} : r \in S}

\* Of the times of a place only the earliest.
Earliest(S) == {r \in S : \A q \in S : q[1] = r[1] => r[2] <= q[2]}

\* What can be reached includes the start, is closed under moves, and lies in
\* every set that has these two properties.
LEMMA ReachableIs ==
  ASSUME NEW places, NEW moves, IsMap(places, moves), NEW start \in places
  PROVE  LET can == Reachable(places, moves, start)
         IN /\ can \subseteq places \X Int
            /\ <<start, 0>> \in can
            /\ Onward(moves, can)
            /\ \A S \in SUBSET (places \X Int) :
                 <<start, 0>> \in S /\ Onward(moves, S) => can \subseteq S
<1> DEFINE can == Reachable(places, moves, start)
<1>1. can \subseteq places \X Int
  BY DEF Reachable
<1>2. <<start, 0>> \in can
  BY DEF Reachable
<1>3. \A S \in SUBSET (places \X Int) : <<start, 0>> \in S /\ Onward(moves, S) => can \subseteq S
  BY DEF Reachable
<1>4. ASSUME NEW r \in can, NEW m \in moves[r[1]]
      PROVE  <<m[1], r[2] + m[2]>> \in can
  <2>1. r \in places \X Int
    BY <1>1
  <2>2. m \in places \X Int
    BY <2>1 DEF IsMap
  <2>3. <<m[1], r[2] + m[2]>> \in places \X Int
    BY <2>1, <2>2
  <2>4. ASSUME NEW S \in SUBSET (places \X Int), <<start, 0>> \in S, Onward(moves, S)
        PROVE  <<m[1], r[2] + m[2]>> \in S
    BY <1>3, <2>4 DEF Onward
  <2> QED
    BY <2>3, <2>4 DEF Reachable
<1> HIDE DEF can
<1>5. Onward(moves, can)
  BY <1>4 DEF Onward
<1> QED
  BY <1>1, <1>2, <1>3, <1>5 DEF can

\* A place that can be reached, and never before zero, can be reached earliest
\* at some time; there are no more such earliest times than places.
LEMMA EarliestIs ==
  ASSUME NEW places, IsFiniteSet(places), NEW can \in SUBSET (places \X Nat)
  PROVE  /\ \A r \in can : \E q \in Earliest(can) : q[1] = r[1]
         /\ \A r, q \in Earliest(can) : r[1] = q[1] => r = q
         /\ IsFiniteSet(Earliest(can))
         /\ Cardinality(Earliest(can)) <= Cardinality(places)
<1>1. ASSUME NEW r \in can
      PROVE  \E q \in Earliest(can) : q[1] = r[1]
  <2> DEFINE times == {n \in Nat : <<r[1], n>> \in can}
  <2>1. r[2] \in times /\ r = <<r[1], r[2]>>
    <3>1. r \in places \X Nat
      OBVIOUS
    <3>2. r = <<r[1], r[2]>> /\ r[2] \in Nat
      BY <3>1
    <3> QED
      BY <3>2
  <2>2. PICK n \in times : \A m \in times : n <= m
    BY <2>1, LeastNumber
  <2> DEFINE q == <<r[1], n>>
  <2>3. q \in can
    BY <2>2
  <2>4. ASSUME NEW p \in can, p[1] = q[1]
        PROVE  q[2] <= p[2]
    <3>1. p \in places \X Nat
      OBVIOUS
    <3>2. p[2] \in times
      BY <2>4, <3>1
    <3> QED
      BY <2>2, <3>2
  <2>5. q \in Earliest(can)
    BY <2>3, <2>4 DEF Earliest
  <2> QED
    BY <2>5
<1>2. ASSUME NEW r \in Earliest(can), NEW q \in Earliest(can), r[1] = q[1]
      PROVE  r = q
  <2>1. r \in places \X Nat /\ q \in places \X Nat
    BY DEF Earliest
  <2>2. r[2] <= q[2] /\ q[2] <= r[2]
    BY <1>2 DEF Earliest
  <2> QED
    BY <1>2, <2>1, <2>2
<1> DEFINE place == [r \in Earliest(can) |-> r[1]]
<1>3. place \in Injection(Earliest(can), places)
  <2>1. place \in [Earliest(can) -> places]
    BY DEF Earliest
  <2>2. \A r, q \in Earliest(can) : place[r] = place[q] => r = q
    BY <1>2
  <2> QED
    BY <2>1, <2>2 DEF Injection, IsInjective
<1>4. IsFiniteSet(Earliest(can)) /\ Cardinality(Earliest(can)) <= Cardinality(places)
  BY <1>3, FS_Injection
<1> QED
  BY <1>1, <1>2, <1>4

\* After n rounds: only what can be reached, each place at one time, and
\* either all the earliest times there are or more than n of them.
Grown(can, S, n) ==
  /\ S \subseteq can
  /\ \A r, q \in S : r[1] = q[1] => r[2] <= q[2]
  /\ \/ Earliest(can) \subseteq S
     \/ n < Cardinality(S \cap Earliest(can))

\* As long as earliest times are missing, one more move finds one: the times
\* that are later than the earliest of their place, with those found, would
\* otherwise be closed under moves.
LEMMA MoveFindsOne ==
  ASSUME NEW places, NEW moves, IsMap(places, moves), NEW start \in places,
         NEW can, can = Reachable(places, moves, start), can \subseteq places \X Nat,
         NEW S \in SUBSET can, <<start, 0>> \in S, ~ (Earliest(can) \subseteq S)
  PROVE  \E e \in Earliest(can) : e \notin S /\ e \in Later(moves, S)
<1> SUFFICES ASSUME \A e \in Earliest(can) : e \in Later(moves, S) => e \in S
             PROVE  Earliest(can) \subseteq S
  OBVIOUS
<1> DEFINE T == {r \in can : r \in S \/ r \notin Earliest(can)}
<1>1. Onward(moves, can)
  BY ReachableIs
<1>2. ASSUME NEW r \in T, NEW m \in moves[r[1]]
      PROVE  <<m[1], r[2] + m[2]>> \in T
  <2> DEFINE x == <<m[1], r[2] + m[2]>>
  <2>1. r \in can /\ x \in can /\ r \in places \X Nat /\ m \in places \X Int
    BY <1>1 DEF Onward, IsMap
  <2>2. SUFFICES ASSUME x \in Earliest(can)
                 PROVE  x \in S
    BY <2>1
  <2>3. CASE r \in S
    <3>1. x \in Later(moves, S)
      BY <2>3 DEF Later
    <3> QED
      BY <2>2, <3>1
  <2>4. CASE r \notin Earliest(can)
    <3>1. PICK q \in can : q[1] = r[1] /\ ~ (r[2] <= q[2])
      BY <2>1, <2>4 DEF Earliest
    <3>2. <<m[1], q[2] + m[2]>> \in can
      BY <1>1, <3>1 DEF Onward
    <3>3. q[2] \in Nat /\ r[2] \in Nat /\ m[2] \in Int
      BY <2>1, <3>1
    <3>4. r[2] + m[2] <= q[2] + m[2]
      BY <2>2, <3>2 DEF Earliest
    <3> QED
      BY <3>1, <3>3, <3>4
  <2> QED
    BY <2>3, <2>4
<1>3. Onward(moves, T)
  BY <1>2 DEF Onward
<1>4. T \in SUBSET (places \X Int) /\ <<start, 0>> \in T
  BY ReachableIs
<1>5. can \subseteq T
  BY <1>3, <1>4, ReachableIs
<1> QED
  BY <1>5 DEF Earliest

\* One round brings what can be reached with one more move, of every place the
\* earliest time.
LEMMA RoundGrows ==
  ASSUME NEW places, NEW moves, IsMap(places, moves), NEW start \in places,
         NEW can, can = Reachable(places, moves, start), can \subseteq places \X Nat,
         NEW S, <<start, 0>> \in S, NEW n \in Nat, Grown(can, S, n)
  PROVE  LET T == Earliest(Later(moves, S))
         IN <<start, 0>> \in T /\ Grown(can, T, n + 1)
<1> DEFINE L == Later(moves, S)
           T == Earliest(L)
<1>1. /\ <<start, 0>> \in can /\ Onward(moves, can)
      /\ S \subseteq can
  BY ReachableIs DEF Grown
<1>2. L \subseteq can /\ S \subseteq L
  <2>1. \A r \in S : \A m \in moves[r[1]] : <<m[1], r[2] + m[2]>> \in can
    BY <1>1 DEF Onward
  <2> QED
    BY <1>1, <2>1 DEF Later
<1> HIDE DEF L
<1>3. T \subseteq can /\ \A r, q \in T : r[1] = q[1] => r[2] <= q[2]
  BY <1>2 DEF Earliest
<1>4. \A e \in Earliest(can) : e \in L => e \in T
  BY <1>2 DEF Earliest
<1>5. S \cap Earliest(can) \subseteq T \cap Earliest(can)
  BY <1>2, <1>4
<1>6. <<start, 0>> \in T
  <2>1. \A r \in can : 0 <= r[2]
    <3> TAKE r \in can
    <3>1. r \in places \X Nat
      OBVIOUS
    <3> QED
      BY <3>1
  <2>2. <<start, 0>> \in Earliest(can)
    BY <1>1, <2>1 DEF Earliest
  <2> QED
    BY <1>2, <1>4, <2>2
<1>7. IsFiniteSet(Earliest(can))
  BY EarliestIs DEF IsMap
<1> HIDE DEF T
<1>8. SUFFICES Grown(can, T, n + 1)
  BY <1>6 DEF T, L
<1>9. CASE Earliest(can) \subseteq S
  <2>1. Earliest(can) \subseteq T
    BY <1>5, <1>9
  <2> QED
    BY <1>3, <1>6, <2>1 DEF Grown
<1>10. CASE ~ (Earliest(can) \subseteq S) /\ n < Cardinality(S \cap Earliest(can))
  <2>1. PICK e \in Earliest(can) : e \notin S /\ e \in L
    BY <1>1, <1>10, MoveFindsOne DEF L
  <2> DEFINE A == S \cap Earliest(can)
             B == T \cap Earliest(can)
  <2>2. e \in B /\ e \notin A /\ A \subseteq B
    BY <1>4, <1>5, <2>1
  <2>3. IsFiniteSet(B)
    BY <1>7, FS_Subset
  <2>4. IsFiniteSet(A) /\ Cardinality(A) <= Cardinality(B) /\ Cardinality(A) # Cardinality(B)
    BY <2>2, <2>3, FS_Subset
  <2>5. Cardinality(A) \in Nat /\ Cardinality(B) \in Nat
    BY <2>3, <2>4, FS_CardinalityType
  <2>6. n + 1 < Cardinality(B)
    BY <1>10, <2>4, <2>5
  <2> QED
    BY <1>3, <1>6, <2>6 DEF Grown
<1> QED
  BY <1>9, <1>10 DEF Grown

\* As many rounds as there are places, or more, bring the earliest time of
\* every place that can be reached, and nothing else.
LEMMA RoundsBringEarliest ==
  ASSUME NEW places, NEW moves, IsMap(places, moves), NEW start \in places,
         NEW can, can = Reachable(places, moves, start), can \subseteq places \X Nat,
         NEW N \in Nat, Cardinality(places) <= N,
         NEW reached, reached[0] = {<<start, 0>>},
         \A n \in 1 .. N : reached[n] = Earliest(Later(moves, reached[n - 1]))
  PROVE  reached[N] = Earliest(can)
<1> DEFINE Good == {n \in Nat : n <= N => <<start, 0>> \in reached[n] /\ Grown(can, reached[n], n)}
<1>1. 0 \in Good
  <2>1. <<start, 0>> \in can
    BY ReachableIs
  <2>2. \A r \in can : 0 <= r[2]
    <3> TAKE r \in can
    <3>1. r \in places \X Nat
      OBVIOUS
    <3> QED
      BY <3>1
  <2>3. <<start, 0>> \in Earliest(can)
    BY <2>1, <2>2 DEF Earliest
  <2>4. {<<start, 0>>} \cap Earliest(can) = {<<start, 0>>}
    BY <2>3
  <2>5. Cardinality({<<start, 0>>} \cap Earliest(can)) = 1
    BY <2>4, FS_Singleton, Zenon
  <2>6. 0 < Cardinality({<<start, 0>>} \cap Earliest(can))
    BY <2>5
  <2>7. \A r, q \in {<<start, 0>>} : r[1] = q[1] => r[2] <= q[2]
    OBVIOUS
  <2> QED
    BY <2>1, <2>6, <2>7 DEF Grown
<1>2. ASSUME NEW n \in Nat, n \in Good
      PROVE  n + 1 \in Good
  <2> SUFFICES ASSUME n + 1 <= N
               PROVE  <<start, 0>> \in reached[n + 1] /\ Grown(can, reached[n + 1], n + 1)
    OBVIOUS
  <2>1. <<start, 0>> \in reached[n] /\ Grown(can, reached[n], n)
    BY <1>2
  <2>2. reached[n + 1] = Earliest(Later(moves, reached[n]))
    <3>1. n + 1 \in 1 .. N /\ (n + 1) - 1 = n
      OBVIOUS
    <3> QED
      BY <3>1
  <2> QED
    BY <2>1, <2>2, RoundGrows
<1> HIDE DEF Good
<1>3. N \in Good
  BY <1>1, <1>2, Induction
<1>4. Grown(can, reached[N], N)
  BY <1>3 DEF Good
<1>5. /\ \A r \in can : \E q \in Earliest(can) : q[1] = r[1]
      /\ IsFiniteSet(Earliest(can)) /\ Cardinality(Earliest(can)) <= Cardinality(places)
  BY EarliestIs DEF IsMap
<1>6. Earliest(can) \subseteq reached[N]
  <2> SUFFICES ASSUME N < Cardinality(reached[N] \cap Earliest(can))
               PROVE  FALSE
    BY <1>4 DEF Grown
  <2> DEFINE A == reached[N] \cap Earliest(can)
  <2>1. Cardinality(A) <= Cardinality(Earliest(can)) /\ IsFiniteSet(A)
    BY <1>5, FS_Subset
  <2>2. Cardinality(A) \in Nat /\ Cardinality(Earliest(can)) \in Nat /\ Cardinality(places) \in Nat
    BY <1>5, <2>1, FS_CardinalityType DEF IsMap
  <2> QED
    BY <1>5, <2>1, <2>2
<1>7. ASSUME NEW r \in reached[N]
      PROVE  r \in Earliest(can)
  <2>1. r \in can
    BY <1>4 DEF Grown
  <2>2. ASSUME NEW q \in can, q[1] = r[1]
        PROVE  r[2] <= q[2]
    <3>1. PICK e \in Earliest(can) : e[1] = q[1]
      BY <1>5
    <3>2. r[2] <= e[2]
      BY <1>4, <1>6, <2>2, <3>1 DEF Grown
    <3>3. e[2] <= q[2]
      BY <3>1 DEF Earliest
    <3>4. r \in places \X Nat /\ e \in places \X Nat /\ q \in places \X Nat
      BY <2>1 DEF Earliest
    <3> QED
      BY <3>2, <3>3, <3>4
  <2> QED
    BY <2>1, <2>2 DEF Earliest
<1> QED
  BY <1>6, <1>7
=============================================================================
