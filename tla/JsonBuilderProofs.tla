------------------------- MODULE JsonBuilderProofs -------------------------
(***************************************************************************)
(* Proofs about JsonBuilder, for every set of keys and any number of calls, *)
(* and about Answers, for any number of rides.                              *)
(***************************************************************************)
EXTENDS Answers, DataLemmas

-----------------------------------------------------------------------------
(* Paths.                                                                   *)

\* The keys given at will, and those of the answers.
AllKeys == Keys \cup Names

Steps == AllKeys \cup Nat

Paths == Seq(Steps)

\* The value of key_ when none is waiting is not one of them.
LEMMA NoKeyIsNoKey == NoKey \notin AllKeys
<1>1. NoKey \notin Names
  BY DEF NoKey, Names
<1> QED
  BY <1>1, KeysAssumption DEF AllKeys

\* The front of a sequence is the sequence without its last element.
LEMMA FrontIs ==
  ASSUME NEW S, NEW s \in Seq(S), s # <<>>
  PROVE  /\ Front(s) \in Seq(S)
         /\ Len(Front(s)) = Len(s) - 1
         /\ \A i \in 1 .. Len(s) - 1 : Front(s)[i] = s[i]
<1> DEFINE n == Len(s)
<1>1. n \in Nat /\ n # 0
  OBVIOUS
<1> HIDE DEF n
<1>2. 1 \in 1 .. n + 1 /\ n - 1 \in 1 - 1 .. n
  BY <1>1
<1>3. /\ SubSeq(s, 1, n - 1) \in Seq(S)
      /\ Len(SubSeq(s, 1, n - 1)) = IF 1 <= n - 1 THEN (n - 1) - 1 + 1 ELSE 0
      /\ \A i \in 1 .. (n - 1) - 1 + 1 : SubSeq(s, 1, n - 1)[i] = s[1 + i - 1]
  BY <1>2, SubSeqProperties DEF n
<1>4. Front(s) = SubSeq(s, 1, n - 1)
  BY DEF Front, n
<1>5. Len(Front(s)) = n - 1 /\ \A i \in 1 .. n - 1 : Front(s)[i] = s[i]
  BY <1>1, <1>3, <1>4
<1> QED
  BY <1>3, <1>4, <1>5 DEF n

\* A path with one more step ends in that step and has the path in front of it.
LEMMA PathLonger ==
  ASSUME NEW p \in Paths, NEW x \in Steps
  PROVE  /\ Append(p, x) \in Paths
         /\ Append(p, x) # Root
         /\ Len(Append(p, x)) = Len(p) + 1
         /\ Front(Append(p, x)) = p
         /\ Last(Append(p, x)) = x
<1>1. Append(p, x) \in Seq(Steps) /\ Len(Append(p, x)) = Len(p) + 1
  BY DEF Paths
<1>2. Front(Append(p, x)) = p /\ Last(Append(p, x)) = x
  BY DEF Front, Last, Paths
<1>3. Append(p, x) # Root
  BY <1>1, Len(p) \in Nat DEF Root, Paths
<1> QED
  BY <1>1, <1>2, <1>3 DEF Paths

\* A path that is not empty is what stands in front, and one step.
LEMMA PathShorter ==
  ASSUME NEW p \in Paths, p # Root
  PROVE  /\ Front(p) \in Paths
         /\ Last(p) \in Steps
         /\ Len(Front(p)) = Len(p) - 1
         /\ p = Append(Front(p), Last(p))
<1>1. p \in Seq(Steps) /\ Len(p) \in Nat /\ Len(p) # 0
  BY DEF Paths, Root
<1>2. \A i \in 1 .. Len(p) - 1 : Front(p)[i] = p[i]
  BY <1>1, FrontIs
<1>3. Front(p) \in Seq(Steps) /\ Len(Front(p)) = Len(p) - 1
  BY <1>1, FrontIs
<1>4. Last(p) = p[Len(p)] /\ Last(p) \in Steps
  BY <1>1 DEF Last
<1>5. /\ Append(Front(p), Last(p)) \in Seq(Steps)
      /\ Len(Append(Front(p), Last(p))) = Len(p)
  BY <1>1, <1>3, <1>4
<1>6. ASSUME NEW i \in 1 .. Len(p)
      PROVE  p[i] = Append(Front(p), Last(p))[i]
  <2>1. CASE i = Len(p)
    BY <1>1, <1>3, <1>4, <2>1
  <2>2. CASE i # Len(p)
    BY <1>1, <1>2, <1>3, <1>4, <2>2
  <2> QED
    BY <2>1, <2>2
<1>7. p = Append(Front(p), Last(p))
  BY <1>1, <1>5, <1>6
<1> QED
  BY <1>3, <1>4, <1>7 DEF Paths

\* A path is one step longer than one it begins with when it lies right below.
LEMMA PathBelow ==
  ASSUME NEW a \in Paths, NEW p \in Paths
  PROVE  (Len(p) = Len(a) + 1 /\ IsPrefix(a, p)) <=> (p # Root /\ Front(p) = a)
<1>1. CASE Len(p) = Len(a) + 1
  <2>1. IsPrefix(a, p) <=> Front(p) = a
    BY <1>1 DEF Front, Last, IsPrefix, Paths
  <2>2. p # Root
    BY <1>1 DEF Root, Paths
  <2> QED
    BY <1>1, <2>1, <2>2
<1>2. CASE Len(p) # Len(a) + 1
  <2>1. ASSUME p # Root, Front(p) = a
        PROVE  FALSE
    <3>1. Len(Front(p)) = Len(p) - 1
      BY <2>1, PathShorter
    <3>2. Len(p) \in Nat /\ Len(a) \in Nat
      BY DEF Paths
    <3> QED
      BY <1>2, <2>1, <3>1, <3>2
  <2> QED
    BY <1>2, <2>1
<1> QED
  BY <1>1, <1>2

-----------------------------------------------------------------------------
(* Documents.                                                               *)

\* The nodes right below a path.
Below(d, a) == {p \in DOMAIN d : p # Root /\ Front(p) = a}

\* Every node but the root lies in a container, and the elements of an array
\* are numbered from one without gaps.
IsTree(d) ==
  /\ IsFiniteSet(DOMAIN d) /\ DOMAIN d \subseteq Paths /\ Root \in DOMAIN d
  /\ \A p \in DOMAIN d : d[p] \in Kinds
  /\ \A p \in DOMAIN d : p # Root => Front(p) \in DOMAIN d /\ d[Front(p)] \in {"array", "dict"}
  /\ \A a \in DOMAIN d : d[a] = "array" =>
       \E n \in Nat : Below(d, a) = {Append(a, i) : i \in 1 .. n}

\* The document with a node of some kind at a path.
WithNode(d, p, kind) == [q \in DOMAIN d \cup {p} |-> IF q = p THEN kind ELSE d[q]]

\* Length counts the nodes below.
LEMMA LengthIs ==
  ASSUME IsTree(doc), NEW a \in DOMAIN doc
  PROVE  Length(a) = Cardinality(Below(doc, a))
<1>1. \A p \in DOMAIN doc :
        (Len(p) = Len(a) + 1 /\ IsPrefix(a, p)) <=> (p # Root /\ Front(p) = a)
  <2> TAKE p \in DOMAIN doc
  <2>1. p \in Paths /\ a \in Paths
    BY DEF IsTree
  <2> QED
    BY <2>1, PathBelow
<1>2. {p \in DOMAIN doc : Len(p) = Len(a) + 1 /\ IsPrefix(a, p)} = Below(doc, a)
  BY <1>1 DEF Below
<1> QED
  BY <1>2 DEF Length

\* An array has as many elements as its last one says.
LEMMA ElementsCounted ==
  ASSUME NEW a \in Paths, NEW n \in Nat
  PROVE  /\ IsFiniteSet({Append(a, i) : i \in 1 .. n})
         /\ Cardinality({Append(a, i) : i \in 1 .. n}) = n
<1> DEFINE T == {Append(a, i) : i \in 1 .. n}
           f == [i \in 1 .. n |-> Append(a, i)]
<1>1. ASSUME NEW i \in 1 .. n, NEW j \in 1 .. n, f[i] = f[j]
      PROVE  i = j
  <2>1. i \in Steps /\ j \in Steps
    BY DEF Steps
  <2>2. Last(Append(a, i)) = i /\ Last(Append(a, j)) = j
    BY <2>1, PathLonger
  <2> QED
    BY <1>1, <2>2
<1>2. f \in [1 .. n -> T] /\ \A t \in T : \E i \in 1 .. n : f[i] = t
  OBVIOUS
<1>3. f \in Injection(1 .. n, T)
  <2>1. IsInjective(f)
    BY <1>1 DEF IsInjective
  <2> QED
    BY <1>2, <2>1 DEF Injection
<1>3a. f \in Bijection(1 .. n, T)
  <2>1. f \in Surjection(1 .. n, T)
    BY <1>2 DEF Surjection
  <2> QED
    BY <1>3, <2>1 DEF Bijection
<1>4. ExistsBijection(1 .. n, T)
  BY <1>3a DEF ExistsBijection
<1>5. IsFiniteSet(1 .. n) /\ Cardinality(1 .. n) = n
  BY FS_Interval
<1> HIDE DEF T, f
<1>6. IsFiniteSet(T) /\ Cardinality(T) = n
  BY <1>4, <1>5, FS_Bijection
<1> QED
  BY <1>6 DEF T

\* A document with an empty node filled is a document.
LEMMA FillTree ==
  ASSUME NEW d, IsTree(d), NEW p \in DOMAIN d, d[p] = "null", NEW kind \in Kinds
  PROVE  IsTree([d EXCEPT ![p] = kind])
<1> DEFINE e == [d EXCEPT ![p] = kind]
<1>1. DOMAIN e = DOMAIN d
  OBVIOUS
<1>2. /\ \A q \in DOMAIN d : e[q] = IF q = p THEN kind ELSE d[q]
      /\ \A q \in DOMAIN d : d[q] \in Kinds
  BY DEF IsTree
<1>3. ASSUME NEW q \in DOMAIN d, q # Root
      PROVE  /\ Front(q) \in DOMAIN d
             /\ Front(q) # p
             /\ d[Front(q)] \in {"array", "dict"}
  BY <1>3 DEF IsTree
<1> HIDE DEF e
<1>4. Below(e, p) = {} /\ \A a \in DOMAIN d : Below(e, a) = Below(d, a)
  BY <1>1, <1>3 DEF Below
<1>5. ASSUME NEW a \in DOMAIN e, e[a] = "array"
      PROVE  \E n \in Nat : Below(e, a) = {Append(a, i) : i \in 1 .. n}
  <2>1. CASE a = p
    <3>1. Below(e, a) = {Append(a, i) : i \in 1 .. 0}
      BY <1>4, <2>1
    <3> QED
      BY <3>1
  <2>2. CASE a # p
    <3>1. a \in DOMAIN d /\ d[a] = "array" /\ Below(e, a) = Below(d, a)
      BY <1>1, <1>2, <1>4, <1>5, <2>2
    <3> QED
      BY <3>1 DEF IsTree
  <2> QED
    BY <2>1, <2>2
<1>6. \A q \in DOMAIN e : q # Root => Front(q) \in DOMAIN e /\ e[Front(q)] \in {"array", "dict"}
  BY <1>1, <1>2, <1>3
<1>7. \A q \in DOMAIN e : e[q] \in Kinds
  BY <1>1, <1>2
<1>8. IsFiniteSet(DOMAIN e) /\ DOMAIN e \subseteq Paths /\ Root \in DOMAIN e
  BY <1>1 DEF IsTree
<1>9. IsTree(e)
  BY <1>5, <1>6, <1>7, <1>8 DEF IsTree
<1> QED
  BY <1>9 DEF e

\* A document with one more node in a container is a document.
LEMMA GrowTree ==
  ASSUME NEW d, IsTree(d), NEW a \in DOMAIN d, d[a] \in {"array", "dict"},
         NEW x \in Steps, Append(a, x) \notin DOMAIN d, NEW kind \in Kinds,
         d[a] = "array" => x = Cardinality(Below(d, a)) + 1
  PROVE  IsTree(WithNode(d, Append(a, x), kind))
<1> DEFINE p == Append(a, x)
           e == WithNode(d, p, kind)
<1>1. a \in Paths
  BY DEF IsTree
<1>2. p \in Paths /\ p # Root /\ Front(p) = a /\ p \notin DOMAIN d
  BY <1>1, PathLonger
<1> HIDE DEF p
<1>3. /\ DOMAIN e = DOMAIN d \cup {p}
      /\ e[p] = kind
      /\ \A q \in DOMAIN d : e[q] = d[q]
  BY <1>2 DEF WithNode
<1> HIDE DEF e
<1>4. ASSUME NEW q \in DOMAIN d
      PROVE  /\ d[q] \in Kinds
             /\ q # Root => Front(q) \in DOMAIN d /\ d[Front(q)] \in {"array", "dict"}
  BY DEF IsTree
<1>5. Below(e, p) = {}
  BY <1>2, <1>3, <1>4 DEF Below
<1>6. Below(e, a) = Below(d, a) \cup {p}
  BY <1>2, <1>3 DEF Below
<1>7. \A b \in DOMAIN d : b # a => Below(e, b) = Below(d, b)
  BY <1>2, <1>3 DEF Below
<1>8. ASSUME NEW b \in DOMAIN e, e[b] = "array"
      PROVE  \E n \in Nat : Below(e, b) = {Append(b, i) : i \in 1 .. n}
  <2>1. CASE b = p
    <3>1. Below(e, b) = {Append(b, i) : i \in 1 .. 0}
      BY <1>5, <2>1
    <3> QED
      BY <3>1
  <2>2. CASE b = a
    <3>1. d[a] = "array"
      BY <1>3, <1>8, <2>2
    <3>2. PICK n \in Nat : Below(d, a) = {Append(a, i) : i \in 1 .. n}
      BY <3>1 DEF IsTree
    <3>3. x = n + 1
      BY <1>1, <3>1, <3>2, ElementsCounted
    <3>4. Below(e, a) = {Append(a, i) : i \in 1 .. n + 1}
      BY <1>6, <3>2, <3>3 DEF p
    <3>5. Below(e, b) = {Append(b, i) : i \in 1 .. n + 1} /\ n + 1 \in Nat
      BY <2>2, <3>4
    <3> QED
      BY <3>5
  <2>3. CASE b # p /\ b # a
    <3>1. b \in DOMAIN d /\ d[b] = "array" /\ Below(e, b) = Below(d, b)
      BY <1>3, <1>7, <1>8, <2>3
    <3> QED
      BY <3>1 DEF IsTree
  <2> QED
    BY <2>1, <2>2, <2>3
<1>9. \A q \in DOMAIN e : q # Root => Front(q) \in DOMAIN e /\ e[Front(q)] \in {"array", "dict"}
  BY <1>2, <1>3, <1>4
<1>10. \A q \in DOMAIN e : e[q] \in Kinds
  BY <1>3, <1>4
<1>11. IsFiniteSet(DOMAIN e) /\ DOMAIN e \subseteq Paths /\ Root \in DOMAIN e
  <2>1. IsFiniteSet(DOMAIN d) /\ DOMAIN d \subseteq Paths /\ Root \in DOMAIN d
    BY DEF IsTree
  <2>2. IsFiniteSet(DOMAIN e)
    BY <1>3, <2>1, FS_AddElement
  <2> QED
    BY <1>2, <1>3, <2>1, <2>2
<1>12. IsTree(e)
  BY <1>8, <1>9, <1>10, <1>11 DEF IsTree
<1> QED
  BY <1>12 DEF e, p

-----------------------------------------------------------------------------
(* Steps.                                                                   *)

\* Any value, any key: what is made at will, and what makes the answers.
AnyCall ==
  \/ \E kind \in Kinds : Value(kind)
  \/ \E k \in AllKeys : Key(k)
  \/ StartDict
  \/ StartArray
  \/ EndDict
  \/ EndArray
  \/ Build

CallsAtLarge == Init /\ [][AnyCall]_vars

\* What is called at will is such a call.
LEMMA NextIsACall == Next => AnyCall
<1>1. ASSUME NEW kind \in Values, Value(kind)
      PROVE  AnyCall
  <2>1. kind \in Kinds
    BY ValuesAssumption
  <2> QED
    BY <1>1, <2>1 DEF AnyCall
<1>2. ASSUME NEW k \in Keys, Key(k)
      PROVE  AnyCall
  <2>1. k \in AllKeys
    BY DEF AllKeys
  <2> QED
    BY <1>2, <2>1 DEF AnyCall
<1>3. StartDict \/ StartArray \/ EndDict \/ EndArray \/ Build => AnyCall
  BY DEF AnyCall
<1> QED
  BY <1>1, <1>2, <1>3 DEF Next

\* The calls of JsonBuilder are such calls.
LEMMA SpecIsAtLarge == Spec => CallsAtLarge
<1>1. [Next]_vars => [AnyCall]_vars
  BY NextIsACall
<1> QED
  BY <1>1, PTL DEF Spec, CallsAtLarge

CallSet ==
  {Call("Value", kind) : kind \in Kinds} \cup {Call("Key", k) : k \in AllKeys}
  \cup {Call("StartDict", "dict"), Call("StartArray", "array"),
        Call("EndDict", "dict"), Call("EndArray", "array")}

\* What the calls there are look like.
LEMMA CallsAre ==
  ASSUME NEW c \in CallSet
  PROVE  /\ c.method \in {"Value", "Key", "StartDict", "StartArray", "EndDict", "EndArray"}
         /\ c.method = "Key" => c.arg \in AllKeys
         /\ IsItem(c) => c.arg \in Kinds
         /\ c.method = "StartDict" => c.arg = "dict"
         /\ c.method = "StartArray" => c.arg = "array"
         /\ IsItem(c) <=> c.method \in {"Value", "StartDict", "StartArray"}
         /\ c = Call(c.method, c.arg)
  BY DEF CallSet, Call, IsItem, Starts, Kinds

\* An item is added.
ItemAdded(c) ==
  /\ IsItem(c)
  /\ stack # <<>> /\ Top # Nil /\ ~Misplaced
  /\ AddItem(c.arg, c.method \in Starts)

\* A key is given.
KeyGiven(c) ==
  /\ c.method = "Key"
  /\ stack # <<>> /\ Top # Nil /\ key = NoKey /\ doc[Top] = "dict"
  /\ key' = c.arg
  /\ UNCHANGED <<doc, stack>>

\* A container is ended.
ContainerEnded(c) ==
  /\ stack # <<>> /\ Top # Nil
  /\ \/ c.method = "EndDict" /\ doc[Top] = "dict"
     \/ c.method = "EndArray" /\ doc[Top] = "array"
  /\ stack' = Front(stack)
  /\ UNCHANGED <<doc, key>>

\* A call has been made and has returned.
Made(c) ==
  /\ May(c.method) /\ Accept(c) /\ UNCHANGED outcome
  /\ ItemAdded(c) \/ KeyGiven(c) \/ ContainerEnded(c)

\* The builder has come to an end.
Ended ==
  /\ outcome = "building" /\ outcome' \in {"built", "threw", "crashed"}
  /\ UNCHANGED <<builder, chained, context, calls>>

\* Value makes a call or ends.
LEMMA ValueIs ==
  ASSUME NEW kind \in Kinds, Value(kind)
  PROVE  (\E c \in CallSet : Made(c)) \/ Ended
<1> DEFINE c == Call("Value", kind)
<1>1. c \in CallSet /\ c.method = "Value" /\ c.arg = kind /\ IsItem(c) /\ c.method \notin Starts
  BY DEF CallSet, Call, IsItem, Starts
<1>2. May("Value") /\ Add(c, kind, FALSE)
  BY DEF Value
<1> HIDE DEF c
<1>3. CASE stack = <<>> \/ Top = Nil \/ Misplaced
  BY <1>2, <1>3 DEF Add, Throw, Crash, Ended, May
<1>4. CASE ~(stack = <<>> \/ Top = Nil \/ Misplaced)
  <2>1. AddItem(kind, FALSE) /\ Accept(c) /\ UNCHANGED outcome
    BY <1>2, <1>4 DEF Add
  <2>2. (c.method \in Starts) = FALSE
    BY <1>1
  <2>3. AddItem(c.arg, c.method \in Starts)
    BY <1>1, <2>1, <2>2
  <2>4. Made(c)
    BY <1>1, <1>2, <1>4, <2>1, <2>3 DEF Made, ItemAdded
  <2> QED
    BY <1>1, <2>4
<1> QED
  BY <1>3, <1>4

\* StartDict and StartArray make a call or end.
LEMMA StartIs ==
  ASSUME StartDict \/ StartArray
  PROVE  (\E c \in CallSet : Made(c)) \/ Ended
<1>1. PICK c \in CallSet : /\ c.method \in Starts /\ IsItem(c)
                           /\ May(c.method) /\ Add(c, c.arg, TRUE)
  <2>1. CASE StartDict
    <3> DEFINE c == Call("StartDict", "dict")
    <3>1. c \in CallSet /\ c.method \in Starts /\ IsItem(c) /\ c.method = "StartDict" /\ c.arg = "dict"
      BY DEF CallSet, Call, IsItem, Starts
    <3>2. May("StartDict") /\ Add(c, "dict", TRUE)
      BY <2>1 DEF StartDict
    <3> HIDE DEF c
    <3>3. May(c.method) /\ Add(c, c.arg, TRUE)
      BY <3>1, <3>2
    <3> QED
      BY <3>1, <3>3
  <2>2. CASE StartArray
    <3> DEFINE c == Call("StartArray", "array")
    <3>1. c \in CallSet /\ c.method \in Starts /\ IsItem(c) /\ c.method = "StartArray" /\ c.arg = "array"
      BY DEF CallSet, Call, IsItem, Starts
    <3>2. May("StartArray") /\ Add(c, "array", TRUE)
      BY <2>2 DEF StartArray
    <3> HIDE DEF c
    <3>3. May(c.method) /\ Add(c, c.arg, TRUE)
      BY <3>1, <3>2
    <3> QED
      BY <3>1, <3>3
  <2> QED
    BY <2>1, <2>2
<1>2. CASE stack = <<>> \/ Top = Nil \/ Misplaced
  BY <1>1, <1>2 DEF Add, Throw, Crash, Ended, May
<1>3. CASE ~(stack = <<>> \/ Top = Nil \/ Misplaced)
  <2>1. AddItem(c.arg, TRUE) /\ Accept(c) /\ UNCHANGED outcome
    BY <1>1, <1>3 DEF Add
  <2>2. (c.method \in Starts) = TRUE
    BY <1>1
  <2>3. AddItem(c.arg, c.method \in Starts)
    BY <2>1, <2>2
  <2>4. Made(c)
    BY <1>1, <1>3, <2>1, <2>3 DEF Made, ItemAdded
  <2> QED
    BY <2>4
<1> QED
  BY <1>2, <1>3

\* Key makes a call or ends.
LEMMA KeyIs ==
  ASSUME NEW k \in AllKeys, Key(k)
  PROVE  (\E c \in CallSet : Made(c)) \/ Ended
<1> DEFINE c == Call("Key", k)
<1>1. c \in CallSet /\ c.method = "Key" /\ c.arg = k
  BY DEF CallSet, Call
<1>2. CASE Throw(c) \/ Crash(c)
  BY <1>2 DEF Key, May, Throw, Crash, Ended
<1>3. CASE ~(Throw(c) \/ Crash(c))
  <2>1. /\ May("Key") /\ stack # <<>> /\ key = NoKey /\ Top # Nil /\ doc[Top] = "dict"
        /\ key' = k /\ Accept(c) /\ UNCHANGED <<doc, stack, outcome>>
    BY <1>3 DEF Key
  <2> HIDE DEF c
  <2>2. Made(c)
    BY <1>1, <2>1 DEF Made, KeyGiven
  <2> QED
    BY <1>1, <2>2
<1> QED
  BY <1>2, <1>3

\* EndDict and EndArray make a call or end.
LEMMA EndIs ==
  ASSUME EndDict \/ EndArray
  PROVE  (\E c \in CallSet : Made(c)) \/ Ended
<1>1. PICK method \in {"EndDict", "EndArray"}, kind \in {"dict", "array"} :
        /\ (method = "EndDict" /\ kind = "dict") \/ (method = "EndArray" /\ kind = "array")
        /\ End(method, kind)
  BY DEF EndDict, EndArray
<1> DEFINE c == Call(method, kind)
<1>2. c \in CallSet /\ c.method = method
  BY <1>1 DEF CallSet, Call
<1>3. CASE Throw(c) \/ Crash(c)
  BY <1>1, <1>3 DEF End, May, Throw, Crash, Ended
<1>4. CASE ~(Throw(c) \/ Crash(c))
  <2>1. /\ May(method) /\ stack # <<>> /\ Top # Nil /\ doc[Top] = kind
        /\ stack' = Front(stack) /\ Accept(c) /\ UNCHANGED <<doc, key, outcome>>
    <3>1. /\ May(method)
          /\ IF stack = <<>> THEN Throw(c)
             ELSE IF Top = Nil THEN Crash(c)
             ELSE IF doc[Top] # kind THEN Throw(c)
             ELSE stack' = Front(stack) /\ Accept(c) /\ UNCHANGED <<doc, key, outcome>>
      BY <1>1 DEF End
    <3> HIDE DEF c
    <3> QED
      BY <1>4, <3>1
  <2> HIDE DEF c
  <2>2. Made(c)
    BY <1>1, <1>2, <2>1 DEF Made, ContainerEnded
  <2> QED
    BY <1>2, <2>2
<1> QED
  BY <1>3, <1>4

\* Build ends.
LEMMA BuildIs == Build => Ended
  BY DEF Build, May, Throw, Ended

\* A step makes a call that returns, or the last one.
LEMMA StepIs ==
  ASSUME AnyCall
  PROVE  (\E c \in CallSet : Made(c)) \/ Ended
  BY ValueIs, StartIs, KeyIs, EndIs, BuildIs DEF AnyCall

-----------------------------------------------------------------------------
(* Types.                                                                   *)

TypeInv ==
  /\ IsTree(doc)
  /\ stack \in Seq(DOMAIN doc \cup {Nil})
  /\ key \in AllKeys \cup {NoKey}
  /\ key # NoKey => Call("Key", key) \in Range(calls)
  /\ calls \in Seq(CallSet)
  /\ chained \in BOOLEAN /\ context \in DOMAIN Methods
  /\ outcome \in {"building", "built", "threw", "crashed"}

\* What is on top of the stack, and what lies below.
LEMMA TopIs ==
  ASSUME NEW S, NEW s \in Seq(S), s # <<>>
  PROVE  /\ Last(s) \in S /\ Last(s) = s[Len(s)]
         /\ Front(s) \in Seq(S) /\ Len(Front(s)) = Len(s) - 1
         /\ Len(s) \in Nat /\ Len(s) # 0
         /\ \A k \in 1 .. Len(s) - 1 : Front(s)[k] = s[k]
<1>1. Len(s) \in Nat /\ Len(s) # 0
  OBVIOUS
<1>2. \A k \in 1 .. Len(s) - 1 : Front(s)[k] = s[k]
  BY FrontIs
<1>3. Front(s) \in Seq(S) /\ Len(Front(s)) = Len(s) - 1
  BY FrontIs
<1>4. Last(s) = s[Len(s)] /\ Last(s) \in S
  BY <1>1 DEF Last
<1> QED
  BY <1>1, <1>2, <1>3, <1>4

\* AddItem keeps the document and the stack what they are.
LEMMA ItemTypes ==
  ASSUME TypeInv, NEW c \in CallSet, ItemAdded(c)
  PROVE  /\ IsTree(doc')
         /\ stack' \in Seq(DOMAIN doc' \cup {Nil})
         /\ key' \in {key, NoKey}
<1> DEFINE open == c.method \in Starts
           Pointers == DOMAIN doc \cup {Nil}
<1>1. /\ stack # <<>> /\ Top # Nil /\ ~Misplaced /\ AddItem(c.arg, open)
      /\ IsTree(doc) /\ stack \in Seq(Pointers) /\ key \in AllKeys \cup {NoKey}
  BY DEF ItemAdded, TypeInv
<1>2. Top \in DOMAIN doc /\ Front(stack) \in Seq(Pointers)
  BY <1>1, TopIs DEF Top
<1>3. Root \in DOMAIN doc /\ Top \in Paths /\ IsFiniteSet(DOMAIN doc)
  BY <1>1, <1>2 DEF IsTree
<1>4. c.arg \in Kinds
  BY CallsAre DEF ItemAdded
<1> HIDE DEF open
<1>5. ASSUME FillNull(c.arg, open)
      PROVE  /\ IsTree(doc') /\ DOMAIN doc' = DOMAIN doc
             /\ stack' \in Seq(Pointers) /\ key' = key
  <2>1. doc[Top] = "null" /\ doc' = [doc EXCEPT ![Top] = c.arg] /\ key' = key
    BY <1>5 DEF FillNull
  <2>2. IsTree([doc EXCEPT ![Top] = c.arg])
    BY <1>1, <1>2, <1>4, <2>1, FillTree
  <2>3. stack' = Front(stack) \/ stack' = Append(Front(stack), Root)
    BY <1>5 DEF FillNull
  <2>4. stack' \in Seq(Pointers)
    BY <1>2, <1>3, <2>3
  <2> QED
    BY <2>1, <2>2, <2>4
<1>6. ASSUME NEW path, NEW kind, NEW rest \in Seq(Pointers), Store(path, kind, rest, open)
      PROVE  doc' = WithNode(doc, path, kind) /\ stack' \in Seq(DOMAIN doc' \cup {Nil})
  <2>1. doc' = WithNode(doc, path, kind) /\ (stack' = rest \/ stack' = Append(rest, path))
    BY <1>6 DEF Store, WithNode
  <2>2. DOMAIN doc' = DOMAIN doc \cup {path}
    BY <2>1 DEF WithNode
  <2>3. rest \in Seq(DOMAIN doc' \cup {Nil}) /\ path \in DOMAIN doc' \cup {Nil}
    BY <2>2
  <2> QED
    BY <2>1, <2>3
<1>7. ASSUME AddToDict(c.arg, open)
      PROVE  /\ IsTree(doc')
             /\ stack' \in Seq(DOMAIN doc' \cup {Nil}) /\ key' = NoKey
  <2> DEFINE child == Append(Top, key)
  <2>1. /\ doc[Top] = "dict" /\ key # NoKey /\ key' = NoKey
        /\ IF child \in DOMAIN doc THEN Store(child, doc[child], stack, open)
           ELSE Store(child, c.arg, stack, open)
    BY <1>7 DEF AddToDict
  <2>2. key \in Steps
    BY <1>1, <2>1 DEF Steps
  <2> HIDE DEF child
  <2>3. CASE child \in DOMAIN doc
    <3>1. doc' = WithNode(doc, child, doc[child]) /\ stack' \in Seq(DOMAIN doc' \cup {Nil})
      BY <1>1, <1>6, <2>1, <2>3
    <3>2. WithNode(doc, child, doc[child]) = [q \in DOMAIN doc |-> doc[q]]
      BY <2>3 DEF WithNode
    <3>3. [q \in DOMAIN doc |-> doc[q]] \in [DOMAIN doc -> Kinds]
      BY <1>1 DEF IsTree
    <3>4. IsTree([q \in DOMAIN doc |-> doc[q]])
      BY <1>1 DEF IsTree, Below
    <3> QED
      BY <2>1, <3>1, <3>2, <3>4
  <2>4. CASE child \notin DOMAIN doc
    <3>1. doc' = WithNode(doc, child, c.arg) /\ stack' \in Seq(DOMAIN doc' \cup {Nil})
      BY <1>1, <1>6, <2>1, <2>4
    <3>2. IsTree(WithNode(doc, Append(Top, key), c.arg))
      BY <1>1, <1>2, <1>4, <2>1, <2>2, <2>4, GrowTree DEF child
    <3> QED
      BY <2>1, <3>1, <3>2 DEF child
  <2> QED
    BY <2>3, <2>4
<1>8. ASSUME AddToArray(c.arg, open)
      PROVE  /\ IsTree(doc')
             /\ stack' \in Seq(DOMAIN doc' \cup {Nil}) /\ key' = key
  <2> DEFINE x == Length(Top) + 1
  <2>1. /\ doc[Top] = "array" /\ key' = key
        /\ \E rest \in {stack, Moved(Top)} : Store(Append(Top, x), c.arg, rest, open)
    BY <1>8 DEF AddToArray
  <2>2. x = Cardinality(Below(doc, Top)) + 1
    BY <1>1, <1>2, LengthIs
  <2>3. PICK n \in Nat : Below(doc, Top) = {Append(Top, i) : i \in 1 .. n}
    BY <1>1, <1>2, <2>1 DEF IsTree
  <2>4. x = n + 1 /\ x \in Steps
    <3>1. Cardinality(Below(doc, Top)) = n
      BY <1>3, <2>3, ElementsCounted
    <3> HIDE DEF x
    <3> QED
      BY <2>2, <3>1 DEF Steps
  <2>5. PICK rest \in {stack, Moved(Top)} : Store(Append(Top, x), c.arg, rest, open)
    BY <2>1
  <2>6. rest \in Seq(Pointers)
    <3>1. Moved(Top) \in Seq(Pointers)
      BY <1>1 DEF Moved
    <3> QED
      BY <1>1, <2>5, <3>1
  <2> HIDE DEF x
  <2>7. Append(Top, x) \notin DOMAIN doc
    <3> SUFFICES ASSUME Append(Top, x) \in DOMAIN doc
                 PROVE  FALSE
      OBVIOUS
    <3>1. Append(Top, x) # Root /\ Front(Append(Top, x)) = Top /\ Last(Append(Top, x)) = x
      BY <1>3, <2>4, PathLonger
    <3>2. Append(Top, x) \in Below(doc, Top)
      BY <3>1 DEF Below
    <3>3. PICK i \in 1 .. n : Append(Top, x) = Append(Top, i)
      BY <2>3, <3>2
    <3>4. Last(Append(Top, i)) = i
      BY <1>3, PathLonger DEF Steps
    <3> QED
      BY <2>4, <3>1, <3>3, <3>4
  <2>8. doc' = WithNode(doc, Append(Top, x), c.arg) /\ stack' \in Seq(DOMAIN doc' \cup {Nil})
    BY <1>6, <2>5, <2>6
  <2>9. IsTree(WithNode(doc, Append(Top, x), c.arg))
    BY <1>1, <1>2, <1>4, <2>1, <2>2, <2>4, <2>7, GrowTree
  <2> QED
    BY <2>1, <2>8, <2>9
<1>9. ASSUME AddToScalar(open)
      PROVE  doc' = doc /\ stack' \in Seq(Pointers) /\ key' = key
  <2>1. doc' = doc /\ key' = key /\ (stack' = stack \/ stack' = Append(stack, Nil))
    BY <1>9 DEF AddToScalar
  <2> QED
    BY <1>1, <2>1
<1> QED
  BY <1>1, <1>5, <1>7, <1>8, <1>9 DEF AddItem

\* One call more, and those before.
LEMMA OneMore ==
  ASSUME NEW cs \in Seq(CallSet), NEW c \in CallSet
  PROVE  /\ Append(cs, c) \in Seq(CallSet)
         /\ Len(cs) \in Nat /\ DOMAIN cs = 1 .. Len(cs)
         /\ Len(Append(cs, c)) = Len(cs) + 1
         /\ DOMAIN Append(cs, c) = 1 .. Len(cs) + 1
         /\ Append(cs, c)[Len(cs) + 1] = c
         /\ \A i \in 1 .. Len(cs) : cs[i] \in CallSet /\ Append(cs, c)[i] = cs[i]
  OBVIOUS

\* The calls so far are among the calls and one more.
LEMMA RangeGrows ==
  ASSUME NEW cs \in Seq(CallSet), NEW c \in CallSet
  PROVE  Range(cs) \subseteq Range(Append(cs, c)) /\ c \in Range(Append(cs, c))
<1>1. \A i \in DOMAIN cs : i \in DOMAIN Append(cs, c) /\ Append(cs, c)[i] = cs[i]
  BY OneMore
<1>2. \E i \in DOMAIN Append(cs, c) : Append(cs, c)[i] = c
  <2>1. Len(cs) + 1 \in DOMAIN Append(cs, c) /\ Append(cs, c)[Len(cs) + 1] = c
    BY OneMore
  <2> QED
    BY <2>1
<1> QED
  BY <1>1, <1>2, Zenon DEF Range

\* A call keeps the types.
LEMMA CallTypes ==
  ASSUME TypeInv, NEW c \in CallSet, Made(c)
  PROVE  TypeInv'
<1>1. calls' = Append(calls, c) /\ calls \in Seq(CallSet)
  BY DEF Made, Accept, TypeInv
<1>2. /\ calls' \in Seq(CallSet)
      /\ Range(calls) \subseteq Range(calls') /\ c \in Range(calls')
  BY <1>1, OneMore, RangeGrows
<1>3. context' \in DOMAIN Methods
  <2>1. /\ c.method \in {"Value", "Key", "StartDict", "StartArray", "EndDict", "EndArray"}
        /\ context' = Result(c.method) /\ context \in DOMAIN Methods
    BY CallsAre DEF Made, Accept, TypeInv
  <2>2. Result(c.method) \in {"Builder", "Dict", "Array", "Key", context}
    BY <2>1 DEF Result
  <2> QED
    BY <2>1, <2>2 DEF Methods
<1>4. /\ IsTree(doc')
      /\ stack' \in Seq(DOMAIN doc' \cup {Nil})
      /\ key' \in AllKeys \cup {NoKey}
      /\ key' # NoKey => Call("Key", key') \in Range(calls')
  <2>1. CASE ItemAdded(c)
    <3>1. IsTree(doc') /\ stack' \in Seq(DOMAIN doc' \cup {Nil}) /\ key' \in {key, NoKey}
      BY <2>1, ItemTypes
    <3>2. key \in AllKeys \cup {NoKey} /\ (key # NoKey => Call("Key", key) \in Range(calls))
      BY DEF TypeInv
    <3> QED
      BY <1>2, <3>1, <3>2
  <2>2. CASE KeyGiven(c)
    <3>1. key' = c.arg /\ doc' = doc /\ stack' = stack /\ c.method = "Key"
      BY <2>2 DEF KeyGiven
    <3>2. c.arg \in AllKeys /\ c = Call("Key", c.arg)
      BY <3>1, CallsAre
    <3>3. Call("Key", key') \in Range(calls')
      BY <1>2, <3>1, <3>2
    <3>4. IsTree(doc) /\ stack \in Seq(DOMAIN doc \cup {Nil})
      BY DEF TypeInv
    <3> QED
      BY <3>1, <3>2, <3>3, <3>4
  <2>3. CASE ContainerEnded(c)
    <3>1. stack' = Front(stack) /\ doc' = doc /\ key' = key /\ stack # <<>>
      BY <2>3 DEF ContainerEnded
    <3>2. /\ IsTree(doc) /\ stack \in Seq(DOMAIN doc \cup {Nil})
          /\ key \in AllKeys \cup {NoKey}
          /\ key # NoKey => Call("Key", key) \in Range(calls)
      BY DEF TypeInv
    <3>3. Front(stack) \in Seq(DOMAIN doc \cup {Nil})
      BY <3>1, <3>2, TopIs
    <3> QED
      BY <1>2, <3>1, <3>2, <3>3
  <2> QED
    BY <2>1, <2>2, <2>3 DEF Made
<1>5. chained' \in BOOLEAN /\ outcome' = outcome /\ outcome \in {"building", "built", "threw", "crashed"}
  BY DEF Made, Accept, TypeInv
<1> QED
  BY <1>2, <1>3, <1>4, <1>5 DEF TypeInv

\* The types at the beginning and after every step.
LEMMA TypesHold == Init => TypeInv
<1> SUFFICES ASSUME Init
             PROVE  TypeInv
  OBVIOUS
<1>1. /\ DOMAIN doc = {Root} /\ doc[Root] = "null" /\ stack = <<Root>>
      /\ key = NoKey /\ calls = <<>> /\ chained \in BOOLEAN /\ context = "Builder"
      /\ outcome = "building"
  BY DEF Init
<1>2. IsTree(doc)
  <2>1. Root \in Paths
    BY DEF Root, Paths
  <2>2. IsFiniteSet(DOMAIN doc)
    BY <1>1, FS_Singleton
  <2>3. doc[Root] \in Kinds
    BY <1>1 DEF Kinds
  <2> QED
    BY <1>1, <2>1, <2>2, <2>3 DEF IsTree
<1>3. stack \in Seq(DOMAIN doc \cup {Nil})
  BY <1>1
<1> QED
  BY <1>1, <1>2, <1>3 DEF TypeInv, Methods

\* Every step keeps the types.
LEMMA TypesStep == TypeInv /\ [AnyCall]_vars => TypeInv'
<1> SUFFICES ASSUME TypeInv, [AnyCall]_vars
             PROVE  TypeInv'
  OBVIOUS
<1>1. CASE \E c \in CallSet : Made(c)
  BY <1>1, CallTypes
<1>2. CASE Ended
  BY <1>2 DEF Ended, TypeInv, builder
<1>3. CASE UNCHANGED vars
  BY <1>3 DEF vars, TypeInv, builder
<1> QED
  BY <1>1, <1>2, <1>3, StepIs

\* What the properties call types follows.
LEMMA TypesAreTypes == TypeInv => TypeOK
<1> SUFFICES ASSUME TypeInv
             PROVE  TypeOK
  OBVIOUS
<1>1. \A k \in DOMAIN stack : stack[k] \in DOMAIN doc \cup {Nil}
  BY DEF TypeInv
<1>2. \A p \in DOMAIN doc :
        /\ doc[p] \in Kinds
        /\ p # Root => Front(p) \in DOMAIN doc /\ doc[Front(p)] \in {"array", "dict"}
  BY DEF TypeInv, IsTree
<1> QED
  BY <1>1, <1>2 DEF TypeInv, TypeOK

\* Whatever calls are made, the types stay.
LEMMA TypesAlways == CallsAtLarge => []TypeOK
<1>1. CallsAtLarge => []TypeInv
  BY TypesHold, TypesStep, PTL DEF CallsAtLarge
<1> QED
  BY <1>1, TypesAreTypes, PTL

\* Every pointer on the stack points to a node or to none, and every node but
\* the root lies in a container.
THEOREM BuilderTypeCorrect == Spec => []TypeOK
  BY SpecIsAtLarge, TypesAlways, PTL

-----------------------------------------------------------------------------
(* The depth of a call, and the call that opened its container.             *)

Ends == {"EndDict", "EndArray"}

\* The calls of some methods before the i-th.
Before(cs, methods, i) == {j \in 1 .. i - 1 : cs[j].method \in methods}

\* The depth is how many of them there are.
LEMMA DepthIs ==
  ASSUME NEW cs, NEW i
  PROVE  Depth(cs, i) = Cardinality(Before(cs, Starts, i)) - Cardinality(Before(cs, Ends, i))
  BY DEF Depth, Before, Ends

\* Going on by one call adds it or does not.
LEMMA BeforeNext ==
  ASSUME NEW cs, NEW methods, NEW i \in Nat
  PROVE  /\ IsFiniteSet(Before(cs, methods, i))
         /\ Cardinality(Before(cs, methods, i)) \in Nat
         /\ i > 0 => Cardinality(Before(cs, methods, i + 1)) =
              Cardinality(Before(cs, methods, i)) + IF cs[i].method \in methods THEN 1 ELSE 0
<1>1. IsFiniteSet(Before(cs, methods, i))
  <2>1. IsFiniteSet(1 .. i - 1)
    BY FS_Interval
  <2>2. Before(cs, methods, i) \in SUBSET (1 .. i - 1)
    BY DEF Before
  <2> QED
    BY <2>1, <2>2, FS_Subset
<1>2. Cardinality(Before(cs, methods, i)) \in Nat
  BY <1>1, FS_CardinalityType
<1>3. ASSUME i > 0
      PROVE  Cardinality(Before(cs, methods, i + 1)) =
               Cardinality(Before(cs, methods, i)) + IF cs[i].method \in methods THEN 1 ELSE 0
  <2>1. i \notin Before(cs, methods, i)
    BY DEF Before
  <2>2. CASE cs[i].method \in methods
    <3>1. Before(cs, methods, i + 1) = Before(cs, methods, i) \cup {i}
      BY <1>3, <2>2 DEF Before
    <3>2. Cardinality(Before(cs, methods, i) \cup {i}) = Cardinality(Before(cs, methods, i)) + 1
      BY <1>1, <2>1, FS_AddElement
    <3> QED
      BY <2>2, <3>1, <3>2
  <2>3. CASE cs[i].method \notin methods
    <3>1. Before(cs, methods, i + 1) = Before(cs, methods, i)
      BY <1>3, <2>3 DEF Before
    <3> QED
      BY <1>2, <2>3, <3>1
  <2> QED
    BY <2>2, <2>3
<1> QED
  BY <1>1, <1>2, <1>3

\* By how much a call changes the depth.
Change(call) ==
  IF call.method \in Starts THEN 1 ELSE IF call.method \in Ends THEN -1 ELSE 0

\* The depth begins at zero and changes by one call after the other.
LEMMA DepthNext ==
  ASSUME NEW cs
  PROVE  /\ Depth(cs, 1) = 0
         /\ \A i \in Nat : Depth(cs, i) \in Int
         /\ \A i \in Nat \ {0} : Depth(cs, i + 1) = Depth(cs, i) + Change(cs[i])
<1>1. Depth(cs, 1) = 0
  <2>1. Before(cs, Starts, 1) = {} /\ Before(cs, Ends, 1) = {}
    BY DEF Before
  <2>2. Cardinality({}) = 0
    BY FS_EmptySet
  <2> QED
    BY <2>1, <2>2, DepthIs
<1>2. ASSUME NEW i \in Nat
      PROVE  /\ Depth(cs, i) \in Int
             /\ i # 0 => Depth(cs, i + 1) = Depth(cs, i) + Change(cs[i])
  <2> DEFINE s(k) == Cardinality(Before(cs, Starts, k))
             e(k) == Cardinality(Before(cs, Ends, k))
  <2>1. /\ Depth(cs, i) = s(i) - e(i)
        /\ Depth(cs, i + 1) = s(i + 1) - e(i + 1)
    BY DepthIs
  <2>2. /\ s(i) \in Nat
        /\ i > 0 => s(i + 1) = s(i) + IF cs[i].method \in Starts THEN 1 ELSE 0
    BY BeforeNext
  <2>3. /\ e(i) \in Nat
        /\ i > 0 => e(i + 1) = e(i) + IF cs[i].method \in Ends THEN 1 ELSE 0
    BY BeforeNext
  <2>4. cs[i].method \in Starts => cs[i].method \notin Ends
    BY DEF Starts, Ends
  <2> HIDE DEF s, e
  <2> QED
    BY <2>1, <2>2, <2>3, <2>4 DEF Change
<1> QED
  BY <1>1, <1>2

\* What comes later does not change a depth.
LEMMA DepthKept ==
  ASSUME NEW cs \in Seq(CallSet), NEW c \in CallSet, NEW i \in 1 .. Len(cs) + 1
  PROVE  Depth(Append(cs, c), i) = Depth(cs, i)
<1>1. \A j \in 1 .. i - 1 : Append(cs, c)[j] = cs[j]
  BY OneMore
<1>2. /\ Before(Append(cs, c), Starts, i) = Before(cs, Starts, i)
      /\ Before(Append(cs, c), Ends, i) = Before(cs, Ends, i)
  BY <1>1 DEF Before
<1> QED
  BY <1>2, DepthIs

\* A call leaves this depth behind.
LEMMA DepthAfter ==
  ASSUME NEW cs \in Seq(CallSet), NEW c \in CallSet
  PROVE  /\ Depth(Append(cs, c), Len(cs) + 2) = Depth(cs, Len(cs) + 1) + Change(c)
         /\ Depth(cs, Len(cs) + 1) \in Int
<1> DEFINE n == Len(cs)
           ds == Append(cs, c)
<1>1. n \in Nat /\ n + 1 \in Nat \ {0} /\ ds[n + 1] = c /\ n + 1 \in 1 .. n + 1
  BY OneMore
<1>2. Depth(ds, n + 1) = Depth(cs, n + 1)
  BY <1>1, DepthKept
<1> HIDE DEF n, ds
<1>3. Depth(ds, (n + 1) + 1) = Depth(ds, n + 1) + Change(ds[n + 1])
  BY <1>1, DepthNext
<1>4. Depth(cs, n + 1) \in Int
  BY <1>1, DepthNext
<1>5. (n + 1) + 1 = n + 2
  BY <1>1
<1> QED
  BY <1>1, <1>2, <1>3, <1>4, <1>5 DEF n, ds

\* The calls that may have opened the container of the i-th call.
OpenersOf(cs, i) ==
  {j \in 1 .. i - 1 : cs[j].method \in Starts /\ Depth(cs, j) = Depth(cs, i) - 1}

\* A call inside of something has an opener.
LEMMA OpenerExists ==
  ASSUME NEW cs, NEW i \in Nat \ {0}, Depth(cs, i) > 0
  PROVE  /\ Opener(cs, i) \in 1 .. i - 1
         /\ cs[Opener(cs, i)].method \in Starts
         /\ Depth(cs, Opener(cs, i)) = Depth(cs, i) - 1
<1> DEFINE d(k) == Depth(cs, k)
           S == {j \in 1 .. i : d(j) < d(i)}
<1>1. /\ d(1) = 0 /\ d(i) > 0
      /\ \A k \in 1 .. i : d(k) \in Int
      /\ \A k \in 1 .. i : d(k + 1) = d(k) + Change(cs[k])
  <2>1. /\ Depth(cs, 1) = 0
        /\ \A k \in Nat : Depth(cs, k) \in Int
        /\ \A k \in Nat \ {0} : Depth(cs, k + 1) = Depth(cs, k) + Change(cs[k])
    BY DepthNext
  <2>2. \A k \in 1 .. i : k \in Nat /\ k \in Nat \ {0}
    OBVIOUS
  <2> QED
    BY <2>1, <2>2
<1> HIDE DEF d
<1>2. S # {} /\ S \in SUBSET (1 .. i)
  BY <1>1
<1>3. Max(S) \in S /\ \A y \in S : y <= Max(S)
  BY <1>2, MaxProperties
<1>4. PICK m \in S : \A y \in S : y <= m
  BY <1>3
<1>5. m \in 1 .. i - 1 /\ d(m) < d(i) /\ d(m + 1) >= d(i)
  BY <1>1, <1>4
<1>6. d(m + 1) = d(m) + Change(cs[m]) /\ Change(cs[m]) \in {1, 0, -1}
  BY <1>1, <1>5 DEF Change
<1>7. Change(cs[m]) = 1 /\ d(m) = d(i) - 1
  BY <1>1, <1>5, <1>6
<1>8. cs[m].method \in Starts
  BY <1>7 DEF Change
<1>9. m \in OpenersOf(cs, i)
  BY <1>5, <1>7, <1>8 DEF OpenersOf, d
<1>10. OpenersOf(cs, i) \in SUBSET (1 .. i - 1)
  BY DEF OpenersOf
<1>11. Max(OpenersOf(cs, i)) \in OpenersOf(cs, i)
  BY <1>9, <1>10, MaxProperties, i - 1 \in Nat
<1>12. Opener(cs, i) = Max(OpenersOf(cs, i))
  BY DEF Opener, OpenersOf
<1> QED
  BY <1>11, <1>12 DEF OpenersOf

\* The last call after which the depth stayed above is the opener.
LEMMA OpenerIs ==
  ASSUME NEW cs, NEW i \in Nat \ {0}, NEW o \in 1 .. i - 1,
         cs[o].method \in Starts, Depth(cs, o) = Depth(cs, i) - 1,
         \A j \in o + 1 .. i - 1 : Depth(cs, j) >= Depth(cs, i)
  PROVE  Opener(cs, i) = o
<1>1. o \in OpenersOf(cs, i)
  BY DEF OpenersOf
<1>2. OpenersOf(cs, i) \in SUBSET (1 .. i - 1)
  BY DEF OpenersOf
<1>3. \A y \in OpenersOf(cs, i) : y <= o
  <2> SUFFICES ASSUME NEW y \in OpenersOf(cs, i), y > o
               PROVE  FALSE
    BY <1>2
  <2>1. y \in o + 1 .. i - 1 /\ Depth(cs, y) = Depth(cs, i) - 1
    BY DEF OpenersOf
  <2>2. Depth(cs, y) >= Depth(cs, i) /\ Depth(cs, i) \in Int
    BY <2>1, DepthNext
  <2> QED
    BY <2>1, <2>2
<1>4. Max(OpenersOf(cs, i)) = o
  BY <1>1, <1>2, <1>3, MaxUnique, i - 1 \in Nat
<1> QED
  BY <1>4 DEF Opener, OpenersOf

\* What comes later does not change an opener.
LEMMA OpenerKept ==
  ASSUME NEW cs \in Seq(CallSet), NEW c \in CallSet, NEW i \in 1 .. Len(cs) + 1
  PROVE  Opener(Append(cs, c), i) = Opener(cs, i)
<1>1. \A j \in 1 .. i - 1 : Append(cs, c)[j] = cs[j] /\ Depth(Append(cs, c), j) = Depth(cs, j)
  BY OneMore, DepthKept
<1>2. Depth(Append(cs, c), i) = Depth(cs, i)
  BY DepthKept
<1>3. OpenersOf(Append(cs, c), i) = OpenersOf(cs, i)
  BY <1>1, <1>2 DEF OpenersOf
<1> QED
  BY <1>3 DEF Opener, OpenersOf

-----------------------------------------------------------------------------
(* Where items belong.                                                      *)

ItemsIn(cs) == {i \in DOMAIN cs : IsItem(cs[i])}

KeysBefore(cs, i) == {j \in 1 .. i - 1 : cs[j].method = "Key"}

\* The items of the container of the i-th call, up to that call.
Siblings(cs, i) ==
  {j \in ItemsIn(cs) : j \in Opener(cs, i) + 1 .. i /\ Depth(cs, j) = Depth(cs, i)}

\* The last step of the place of an item.
Label(cs, i) ==
  IF cs[Opener(cs, i)].method = "StartDict" THEN cs[Max(KeysBefore(cs, i))].arg
  ELSE Cardinality(Siblings(cs, i))

\* The place of an item, by the place of the call that opened its container.
PlaceIn(cs, f, i) ==
  IF Depth(cs, i) = 0 THEN Root ELSE Append(f[Opener(cs, i)], Label(cs, i))

\* A function that has the places of all items.
IsPlacing(cs, f) == \A i \in ItemsIn(cs) : f[i] = PlaceIn(cs, f, i)

\* No call closes what has not been opened.
DepthsOK(cs) == \A i \in 1 .. Len(cs) + 1 : Depth(cs, i) >= 0

\* An item of a dict comes after some key.
ItemsHaveKeys(cs) ==
  \A i \in ItemsIn(cs) :
    Depth(cs, i) > 0 /\ cs[Opener(cs, i)].method = "StartDict" => KeysBefore(cs, i) # {}

\* The opener of an item is an item that comes before it.
LEMMA OpenerIsItem ==
  ASSUME NEW cs \in Seq(CallSet), NEW i \in 1 .. Len(cs) + 1, Depth(cs, i) > 0
  PROVE  /\ Opener(cs, i) \in ItemsIn(cs)
         /\ Opener(cs, i) \in 1 .. i - 1
         /\ Opener(cs, i) \in 1 .. Len(cs)
         /\ Depth(cs, Opener(cs, i)) = Depth(cs, i) - 1
         /\ cs[Opener(cs, i)].method \in Starts
<1>1. /\ Opener(cs, i) \in 1 .. i - 1
      /\ cs[Opener(cs, i)].method \in Starts
      /\ Depth(cs, Opener(cs, i)) = Depth(cs, i) - 1
  BY OpenerExists
<1>2. Opener(cs, i) \in 1 .. Len(cs) /\ DOMAIN cs = 1 .. Len(cs)
  BY <1>1
<1> QED
  BY <1>1, <1>2 DEF ItemsIn, IsItem

\* The items so far, and perhaps one more.
LEMMA ItemsNext ==
  ASSUME NEW cs \in Seq(CallSet), NEW c \in CallSet
  PROVE  ItemsIn(Append(cs, c)) =
           ItemsIn(cs) \cup IF IsItem(c) THEN {Len(cs) + 1} ELSE {}
<1>1. /\ Len(cs) \in Nat /\ DOMAIN cs = 1 .. Len(cs)
      /\ DOMAIN Append(cs, c) = 1 .. Len(cs) + 1
      /\ Append(cs, c)[Len(cs) + 1] = c
      /\ \A i \in 1 .. Len(cs) : Append(cs, c)[i] = cs[i]
  BY OneMore
<1> DEFINE ds == Append(cs, c)
<1> HIDE DEF ds
<1>2. /\ DOMAIN ds = 1 .. Len(cs) + 1 /\ ds[Len(cs) + 1] = c
      /\ \A i \in 1 .. Len(cs) : ds[i] = cs[i]
  BY <1>1 DEF ds
<1>3. 1 .. Len(cs) + 1 = 1 .. Len(cs) \cup {Len(cs) + 1}
  BY <1>1
<1>4. ItemsIn(ds) = ItemsIn(cs) \cup IF IsItem(c) THEN {Len(cs) + 1} ELSE {}
  BY <1>1, <1>2, <1>3 DEF ItemsIn
<1> QED
  BY <1>4 DEF ds

\* What comes later changes no keys before and no siblings.
LEMMA LabelKept ==
  ASSUME NEW cs \in Seq(CallSet), NEW c \in CallSet, NEW i \in ItemsIn(cs),
         Depth(cs, i) > 0,
         cs[Opener(cs, i)].method = "StartDict" => KeysBefore(cs, i) # {}
  PROVE  Label(Append(cs, c), i) = Label(cs, i)
<1> DEFINE ds == Append(cs, c)
<1>1. /\ Len(cs) \in Nat /\ i \in 1 .. Len(cs) /\ i \in 1 .. Len(cs) + 1
      /\ \A j \in 1 .. Len(cs) : ds[j] = cs[j]
  BY OneMore DEF ItemsIn
<1>2. \A j \in 1 .. Len(cs) : Depth(ds, j) = Depth(cs, j)
  BY DepthKept, <1>1
<1>3. /\ Opener(ds, i) = Opener(cs, i)
      /\ Opener(cs, i) \in 1 .. i - 1
  BY <1>1, OpenerKept, OpenerIsItem
<1>4. ItemsIn(ds) = ItemsIn(cs) \cup IF IsItem(c) THEN {Len(cs) + 1} ELSE {}
  BY ItemsNext
<1> HIDE DEF ds
<1>5. ds[Opener(ds, i)] = cs[Opener(cs, i)]
  BY <1>1, <1>3
<1>6. KeysBefore(ds, i) = KeysBefore(cs, i)
  BY <1>1 DEF KeysBefore
<1>7. Siblings(ds, i) = Siblings(cs, i)
  <2>1. \A j \in 1 .. i : j \in ItemsIn(ds) <=> j \in ItemsIn(cs)
    BY <1>1, <1>4
  <2>2. \A j \in 1 .. i : Depth(ds, j) = Depth(cs, j)
    BY <1>1, <1>2
  <2>3. \A j \in Opener(cs, i) + 1 .. i : j \in 1 .. i
    BY <1>3
  <2>4. i \in 1 .. i
    BY <1>1
  <2> QED
    BY <1>3, <2>1, <2>2, <2>3, <2>4 DEF Siblings
<1>8. CASE cs[Opener(cs, i)].method = "StartDict"
  <2>1. KeysBefore(cs, i) # {} /\ KeysBefore(cs, i) \in SUBSET (1 .. i - 1)
    BY <1>8 DEF KeysBefore
  <2>2. Max(KeysBefore(cs, i)) \in 1 .. i - 1
    BY <1>1, <2>1, MaxProperties, i - 1 \in Nat
  <2>3. ds[Max(KeysBefore(cs, i))] = cs[Max(KeysBefore(cs, i))]
    BY <1>1, <2>2
  <2> QED
    BY <1>5, <1>6, <1>8, <2>3 DEF Label, ds
<1>9. CASE cs[Opener(cs, i)].method # "StartDict"
  BY <1>5, <1>7, <1>9 DEF Label, ds
<1> QED
  BY <1>8, <1>9

\* The places with that of one more call.
NextPlacing(cs, c, f) ==
  [i \in 1 .. Len(cs) + 1 |->
     IF i \in 1 .. Len(cs) THEN f[i] ELSE PlaceIn(Append(cs, c), f, i)]

\* It has the places of all items again.
LEMMA PlacingNext ==
  ASSUME NEW cs \in Seq(CallSet), NEW c \in CallSet, NEW f, IsPlacing(cs, f),
         DepthsOK(cs), ItemsHaveKeys(cs)
  PROVE  /\ IsPlacing(Append(cs, c), NextPlacing(cs, c, f))
         /\ \A i \in 1 .. Len(cs) : NextPlacing(cs, c, f)[i] = f[i]
         /\ NextPlacing(cs, c, f)[Len(cs) + 1] = PlaceIn(Append(cs, c), f, Len(cs) + 1)
<1> DEFINE ds == Append(cs, c)
           g == NextPlacing(cs, c, f)
           n == Len(cs)
<1>1. n \in Nat /\ ds \in Seq(CallSet) /\ Len(ds) = n + 1 /\ \A i \in 1 .. n : ds[i] = cs[i]
  BY OneMore
<1>2. (\A i \in 1 .. n : g[i] = f[i]) /\ g[n + 1] = PlaceIn(ds, f, n + 1)
  BY <1>1 DEF NextPlacing
<1>3. \A i \in 1 .. n + 1 : Depth(ds, i) = Depth(cs, i) /\ Depth(cs, i) \in Int /\ Depth(cs, i) >= 0
  BY <1>1, DepthKept, DepthNext DEF DepthsOK
<1>4. \A i \in 1 .. n + 1 : Opener(ds, i) = Opener(cs, i)
  BY <1>1, OpenerKept
<1>5. \A i \in 1 .. n + 1 : Depth(cs, i) > 0 => Opener(cs, i) \in 1 .. n
  BY <1>1, OpenerIsItem
<1> HIDE DEF g
<1>6. \A i \in 1 .. n + 1 : PlaceIn(ds, g, i) = PlaceIn(ds, f, i)
  <2> TAKE i \in 1 .. n + 1
  <2>1. CASE Depth(ds, i) = 0
    BY <2>1 DEF PlaceIn
  <2>2. CASE Depth(ds, i) # 0
    <3>1. g[Opener(ds, i)] = f[Opener(ds, i)]
      BY <1>2, <1>3, <1>4, <1>5, <2>2
    <3> QED
      BY <2>2, <3>1 DEF PlaceIn
  <2> QED
    BY <2>1, <2>2
<1>7. ASSUME NEW i \in ItemsIn(cs)
      PROVE  g[i] = PlaceIn(ds, f, i)
  <2>1. i \in 1 .. n /\ i \in 1 .. n + 1
    BY DEF ItemsIn
  <2>2. g[i] = PlaceIn(cs, f, i)
    BY <1>2, <2>1 DEF IsPlacing
  <2>3. CASE Depth(cs, i) = 0
    <3>1. Depth(ds, i) = 0
      BY <1>3, <2>1, <2>3
    <3> QED
      BY <2>2, <2>3, <3>1 DEF PlaceIn
  <2>4. CASE Depth(cs, i) # 0
    <3>1. Depth(cs, i) > 0 /\ Depth(ds, i) # 0 /\ Opener(ds, i) = Opener(cs, i)
      BY <1>3, <1>4, <2>1, <2>4
    <3>2. cs[Opener(cs, i)].method = "StartDict" => KeysBefore(cs, i) # {}
      BY <3>1 DEF ItemsHaveKeys
    <3>3. Label(ds, i) = Label(cs, i)
      BY <3>1, <3>2, LabelKept
    <3> QED
      BY <2>2, <2>4, <3>1, <3>3 DEF PlaceIn
  <2> QED
    BY <2>3, <2>4
<1>8. \A i \in ItemsIn(ds) : i \in ItemsIn(cs) \/ i = n + 1
  BY ItemsNext
<1>9. \A i \in ItemsIn(ds) : i \in 1 .. n + 1
  BY <1>1 DEF ItemsIn
<1>10. \A i \in ItemsIn(ds) : g[i] = PlaceIn(ds, g, i)
  <2> TAKE i \in ItemsIn(ds)
  <2>1. PlaceIn(ds, g, i) = PlaceIn(ds, f, i)
    BY <1>6, <1>9
  <2>2. g[i] = PlaceIn(ds, f, i)
    BY <1>2, <1>7, <1>8
  <2> QED
    BY <2>1, <2>2
<1> HIDE DEF ds
<1>11. IsPlacing(ds, g)
  BY <1>10 DEF IsPlacing
<1> QED
  BY <1>2, <1>11 DEF g, ds

\* There is one place for each item.
LEMMA PlacingUnique ==
  ASSUME NEW cs \in Seq(CallSet), DepthsOK(cs),
         NEW f, IsPlacing(cs, f), NEW g, IsPlacing(cs, g)
  PROVE  \A i \in ItemsIn(cs) : f[i] = g[i]
<1> DEFINE D == {i \in ItemsIn(cs) : f[i] # g[i]}
<1> SUFFICES ASSUME D # {}
             PROVE  FALSE
  OBVIOUS
<1>1. D \in SUBSET Nat
  BY DEF ItemsIn
<1>2. PICK i \in D : \A j \in D : i <= j
  BY <1>1, LeastNumber
<1>3. i \in ItemsIn(cs) /\ i \in 1 .. Len(cs) /\ i \in 1 .. Len(cs) + 1 /\ f[i] # g[i]
  BY DEF ItemsIn
<1>4. f[i] = PlaceIn(cs, f, i) /\ g[i] = PlaceIn(cs, g, i)
  BY <1>3 DEF IsPlacing
<1>5. Depth(cs, i) # 0
  BY <1>3, <1>4 DEF PlaceIn
<1>6. Depth(cs, i) > 0
  <2>1. Depth(cs, i) \in Int
    BY <1>3, DepthNext
  <2>2. Depth(cs, i) >= 0
    BY <1>3 DEF DepthsOK
  <2> QED
    BY <1>5, <2>1, <2>2
<1>7. Opener(cs, i) \in ItemsIn(cs) /\ Opener(cs, i) \in 1 .. i - 1
  BY <1>3, <1>6, OpenerIsItem
<1>8. f[Opener(cs, i)] = g[Opener(cs, i)]
  BY <1>2, <1>3, <1>7
<1>9. f[i] = Append(f[Opener(cs, i)], Label(cs, i))
  BY <1>4, <1>5 DEF PlaceIn
<1>10. g[i] = Append(g[Opener(cs, i)], Label(cs, i))
  BY <1>4, <1>5 DEF PlaceIn
<1> HIDE DEF D
<1> QED
  BY <1>3, <1>8, <1>9, <1>10

\* PlaceOf has the places of all items.
LEMMA PlaceOfIs ==
  ASSUME calls \in Seq(CallSet), DepthsOK(calls), NEW f, IsPlacing(calls, f)
  PROVE  \A i \in ItemsIn(calls) : PlaceOf[i] = f[i]
<1> DEFINE D == DOMAIN calls
           Next_(h, i) ==
             IF Depth(calls, i) = 0 THEN Root
             ELSE LET o == Opener(calls, i) IN
                  Append(h[o],
                         IF calls[o].method = "StartDict"
                         THEN calls[Max({j \in 1 .. i - 1 : calls[j].method = "Key"})].arg
                         ELSE Cardinality({j \in ItemCalls : j \in o + 1 .. i
                                             /\ Depth(calls, j) = Depth(calls, i)}))
           g == [i \in D |-> PlaceIn(calls, f, i)]
<1>1. \A h : \A i \in D : Next_(h, i) = PlaceIn(calls, h, i)
  BY Zenon DEF PlaceIn, Label, KeysBefore, Siblings, ItemCalls, ItemsIn
<1> HIDE DEF Next_
<1>2. \A i \in D : PlaceIn(calls, g, i) = PlaceIn(calls, f, i)
  <2> TAKE i \in D
  <2>1. i \in 1 .. Len(calls) /\ i \in 1 .. Len(calls) + 1
    OBVIOUS
  <2>2. CASE Depth(calls, i) = 0
    BY <2>2 DEF PlaceIn
  <2>3. CASE Depth(calls, i) # 0
    <3>1. Depth(calls, i) > 0
      BY <2>1, <2>3, DepthNext DEF DepthsOK
    <3>2. Opener(calls, i) \in ItemsIn(calls)
      BY <2>1, <3>1, OpenerIsItem
    <3>3. g[Opener(calls, i)] = PlaceIn(calls, f, Opener(calls, i))
      BY <3>2 DEF ItemsIn
    <3>4. g[Opener(calls, i)] = f[Opener(calls, i)]
      BY <3>2, <3>3 DEF IsPlacing
    <3> HIDE DEF g
    <3> QED
      BY <2>3, <3>4 DEF PlaceIn
  <2> QED
    BY <2>2, <2>3
<1>3. \A i \in D : g[i] = Next_(g, i)
  <2> TAKE i \in D
  <2>1. g[i] = PlaceIn(calls, f, i)
    OBVIOUS
  <2> HIDE DEF g
  <2> QED
    BY <1>1, <1>2, <2>1
<1>4. g = [i \in D |-> Next_(g, i)]
  BY <1>3, Zenon
<1> HIDE DEF g
<1>5. PlaceOf = CHOOSE h : h = [i \in D |-> Next_(h, i)]
  BY Zenon DEF PlaceOf, Next_
<1>6. PlaceOf = [i \in D |-> Next_(PlaceOf, i)]
  BY <1>4, <1>5, Zenon
<1> HIDE DEF D
<1>7. \A i \in D : PlaceOf[i] = Next_(PlaceOf, i)
  BY <1>6, Zenon
<1>8. \A i \in ItemsIn(calls) : PlaceOf[i] = PlaceIn(calls, PlaceOf, i)
  BY <1>1, <1>7 DEF ItemsIn, D
<1>9. IsPlacing(calls, PlaceOf)
  BY <1>8 DEF IsPlacing
<1> QED
  BY <1>9, PlacingUnique

-----------------------------------------------------------------------------
(* What the builder has, as long as no key has been given twice.            *)

\* Two items of some depth have one place.
Repeated(cs, f) ==
  \E i, j \in ItemsIn(cs) : i < j /\ Depth(cs, i) > 0 /\ f[i] = f[j]

\* The calls that opened the containers on the stack, from the outermost on.
AreOpen(opens, st, cs, f) ==
  /\ Len(st) = Depth(cs, Len(cs) + 1)
  /\ \A k \in 1 .. Len(st) :
       /\ opens[k] \in 1 .. Len(cs)
       /\ cs[opens[k]].method \in Starts
       /\ Depth(cs, opens[k]) = k - 1
       /\ st[k] = f[opens[k]]
       /\ \A j \in opens[k] + 1 .. Len(cs) + 1 : Depth(cs, j) >= k

\* Every item has a place of its depth; only the first is outside of all.
PlacesOK(cs, f) ==
  \A i \in ItemsIn(cs) :
    /\ f[i] \in Paths
    /\ Len(f[i]) = Depth(cs, i)
    /\ Depth(cs, i) = 0 => i = 1

\* The document has the items at their places and nothing else.
DocumentIs(d, cs, f) ==
  /\ DOMAIN d = {f[i] : i \in ItemsIn(cs)}
  /\ \A i \in ItemsIn(cs) : d[f[i]] = cs[i].arg

\* A key that waits is the last one given.
KeyIsLast(k, cs) ==
  k # NoKey => /\ KeysBefore(cs, Len(cs) + 1) # {}
               /\ k = cs[Max(KeysBefore(cs, Len(cs) + 1))].arg

Sound(d, st, cs, f) ==
  /\ 1 \in ItemsIn(cs)
  /\ PlacesOK(cs, f)
  /\ DocumentIs(d, cs, f)
  /\ \E opens : AreOpen(opens, st, cs, f)

\* That is lost only by a key given twice.
SoundOrRepeated(d, st, cs, f) ==
  IF Repeated(cs, f) THEN KeysBefore(cs, Len(cs) + 1) # {} ELSE Sound(d, st, cs, f)

\* Before the first call.
Fresh(d, k, st, cs) ==
  /\ cs = <<>> /\ st = <<Root>> /\ k = NoKey
  /\ DOMAIN d = {Root} /\ d[Root] = "null"

BuilderInv ==
  /\ DepthsOK(calls)
  /\ ItemsHaveKeys(calls)
  /\ KeyIsLast(key, calls)
  /\ IF calls = <<>> THEN Fresh(doc, key, stack, calls)
     ELSE /\ Len(stack) <= Depth(calls, Len(calls) + 1)
          /\ \E f : /\ IsPlacing(calls, f)
                   /\ SoundOrRepeated(doc, stack, calls, f)

-----------------------------------------------------------------------------
(* The stack of a builder that is sound.                                    *)

\* A path is not a pointer to none.
LEMMA NilIsNoPath ==
  ASSUME NEW p \in Paths
  PROVE  p # Nil
  BY NamesAssumption DEF Paths, Steps, AllKeys

\* The node on top is that of the call which opened the container.
TopIsOpener(d, st, cs, f, o) ==
  /\ o = Opener(cs, Len(cs) + 1)
  /\ o \in ItemsIn(cs) /\ o \in 1 .. Len(cs) /\ cs[o].method \in Starts
  /\ Depth(cs, Len(cs) + 1) = Len(st) /\ Len(st) \in Nat /\ Len(st) > 0
  /\ Depth(cs, o) = Len(st) - 1
  /\ \A j \in o + 1 .. Len(cs) + 1 : Depth(cs, j) >= Len(st)
  /\ Last(st) = f[o] /\ Last(st) \in Paths /\ Last(st) # Nil
  /\ Len(Last(st)) = Len(st) - 1
  /\ Last(st) \in DOMAIN d
  /\ d[Last(st)] = IF cs[o].method = "StartDict" THEN "dict" ELSE "array"

\* That is so for what the invariant says of the stack.
LEMMA TopOfSound ==
  ASSUME NEW cs \in Seq(CallSet), NEW f, NEW d, NEW S, NEW st \in Seq(S), st # <<>>,
         PlacesOK(cs, f), DocumentIs(d, cs, f), NEW opens, AreOpen(opens, st, cs, f)
  PROVE  TopIsOpener(d, st, cs, f, opens[Len(st)])
<1> DEFINE m == Len(st)
           o == opens[Len(st)]
           n == Len(cs)
<1>1. m \in Nat /\ m > 0 /\ Last(st) = st[m] /\ n \in Nat
  <2>1. m \in Nat /\ m # 0 /\ Last(st) = st[m]
    BY TopIs
  <2>2. n \in Nat
    OBVIOUS
  <2> HIDE DEF m, n
  <2> QED
    BY <2>1, <2>2
<1>2. /\ o \in 1 .. n /\ cs[o].method \in Starts /\ Depth(cs, o) = m - 1 /\ st[m] = f[o]
      /\ Depth(cs, n + 1) = m
      /\ \A j \in o + 1 .. n + 1 : Depth(cs, j) >= m
  BY <1>1 DEF AreOpen
<1>3. o \in ItemsIn(cs) /\ cs[o] \in CallSet
  BY <1>2 DEF ItemsIn, IsItem
<1>4. Opener(cs, n + 1) = o
  <2>1. o \in 1 .. (n + 1) - 1 /\ n + 1 \in Nat \ {0}
    BY <1>1, <1>2
  <2>2. Depth(cs, o) = Depth(cs, n + 1) - 1
    BY <1>2
  <2>3. \A j \in o + 1 .. (n + 1) - 1 : Depth(cs, j) >= Depth(cs, n + 1)
    BY <1>1, <1>2
  <2> QED
    BY <1>2, <2>1, <2>2, <2>3, OpenerIs
<1>5. f[o] \in Paths /\ Len(f[o]) = m - 1 /\ f[o] # Nil
  BY <1>2, <1>3, NilIsNoPath DEF PlacesOK
<1>6. f[o] \in DOMAIN d /\ d[f[o]] = cs[o].arg
  BY <1>3 DEF DocumentIs
<1>7. cs[o].arg = IF cs[o].method = "StartDict" THEN "dict" ELSE "array"
  BY <1>2, <1>3, CallsAre DEF Starts
<1> HIDE DEF o, m, n
<1>8. TopIsOpener(d, st, cs, f, o)
  BY <1>1, <1>2, <1>3, <1>4, <1>5, <1>6, <1>7 DEF TopIsOpener, m, n
<1> QED
  BY <1>8 DEF o

\* The places of the calls so far are not touched.
Agree(n, f, g) == \A i \in 1 .. n : g[i] = f[i]

\* A call that opens and closes nothing leaves the stack as it is.
LEMMA OpenKept ==
  ASSUME NEW cs \in Seq(CallSet), NEW c \in CallSet, Change(c) = 0,
         NEW f, NEW g, Agree(Len(cs), f, g),
         NEW opens, NEW S, NEW st \in Seq(S), AreOpen(opens, st, cs, f)
  PROVE  AreOpen(opens, st, Append(cs, c), g)
<1> DEFINE n == Len(cs)
           ds == Append(cs, c)
<1>1. /\ n \in Nat /\ Len(ds) = n + 1 /\ ds[n + 1] = c
      /\ \A i \in 1 .. n : ds[i] = cs[i]
  BY OneMore
<1>2. \A i \in 1 .. n + 1 : Depth(ds, i) = Depth(cs, i)
  BY DepthKept
<1>3. Depth(ds, n + 2) = Depth(cs, n + 1) /\ Depth(cs, n + 1) \in Int
  <2>1. Depth(ds, n + 2) = Depth(cs, n + 1) + Change(c) /\ Depth(cs, n + 1) \in Int
    BY DepthAfter
  <2> HIDE DEF ds, n
  <2> QED
    BY <2>1
<1>4. /\ Len(st) = Depth(cs, n + 1) /\ Len(st) \in Nat
      /\ \A k \in 1 .. Len(st) :
           /\ opens[k] \in 1 .. n
           /\ cs[opens[k]].method \in Starts
           /\ Depth(cs, opens[k]) = k - 1
           /\ st[k] = f[opens[k]]
           /\ \A j \in opens[k] + 1 .. n + 1 : Depth(cs, j) >= k
  BY DEF AreOpen
<1> HIDE DEF ds, n
<1>5. ASSUME NEW k \in 1 .. Len(st)
      PROVE  /\ opens[k] \in 1 .. n + 1
             /\ ds[opens[k]].method \in Starts
             /\ Depth(ds, opens[k]) = k - 1
             /\ st[k] = g[opens[k]]
             /\ \A j \in opens[k] + 1 .. (n + 1) + 1 : Depth(ds, j) >= k
  <2>1. /\ opens[k] \in 1 .. n
        /\ cs[opens[k]].method \in Starts
        /\ Depth(cs, opens[k]) = k - 1
        /\ st[k] = f[opens[k]]
        /\ \A j \in opens[k] + 1 .. n + 1 : Depth(cs, j) >= k
    BY <1>4
  <2>2. opens[k] \in 1 .. n + 1 /\ g[opens[k]] = f[opens[k]] /\ ds[opens[k]] = cs[opens[k]]
    BY <1>1, <2>1 DEF Agree, n
  <2>3. \A j \in opens[k] + 1 .. (n + 1) + 1 : Depth(ds, j) >= k
    <3> TAKE j \in opens[k] + 1 .. (n + 1) + 1
    <3>1. CASE j = n + 2
      BY <1>3, <1>4, <3>1
    <3>2. CASE j # n + 2
      <4>1. j \in opens[k] + 1 .. n + 1 /\ j \in 1 .. n + 1
        BY <1>1, <2>1, <3>2
      <4> QED
        BY <1>2, <2>1, <4>1
    <3> QED
      BY <3>1, <3>2
  <2> QED
    BY <1>2, <2>1, <2>2, <2>3
<1>6. AreOpen(opens, st, ds, g)
  BY <1>1, <1>3, <1>4, <1>5 DEF AreOpen
<1> QED
  BY <1>6 DEF ds

\* A call that opens a container pushes its node.
LEMMA OpenPushed ==
  ASSUME NEW cs \in Seq(CallSet), NEW c \in CallSet, c.method \in Starts,
         NEW f, NEW g, Agree(Len(cs), f, g),
         NEW opens, NEW S, NEW st \in Seq(S), AreOpen(opens, st, cs, f)
  PROVE  AreOpen([k \in 1 .. Len(st) + 1 |-> IF k = Len(st) + 1 THEN Len(cs) + 1 ELSE opens[k]],
                 Append(st, g[Len(cs) + 1]), Append(cs, c), g)
<1> DEFINE n == Len(cs)
           ds == Append(cs, c)
           m == Len(st)
           more == [k \in 1 .. m + 1 |-> IF k = m + 1 THEN n + 1 ELSE opens[k]]
           new == Append(st, g[n + 1])
<1>1. /\ n \in Nat /\ Len(ds) = n + 1 /\ ds[n + 1] = c
      /\ \A i \in 1 .. n : ds[i] = cs[i]
  BY OneMore
<1>2. \A i \in 1 .. n + 1 : Depth(ds, i) = Depth(cs, i)
  BY DepthKept
<1>3. Depth(ds, n + 2) = Depth(cs, n + 1) + 1 /\ Depth(cs, n + 1) \in Int
  <2>1. Depth(ds, n + 2) = Depth(cs, n + 1) + Change(c) /\ Depth(cs, n + 1) \in Int
    BY DepthAfter
  <2> HIDE DEF ds, n
  <2> QED
    BY <2>1 DEF Change
<1>4. /\ m = Depth(cs, n + 1) /\ m \in Nat
      /\ \A k \in 1 .. m :
           /\ opens[k] \in 1 .. n
           /\ cs[opens[k]].method \in Starts
           /\ Depth(cs, opens[k]) = k - 1
           /\ st[k] = f[opens[k]]
           /\ \A j \in opens[k] + 1 .. n + 1 : Depth(cs, j) >= k
  BY DEF AreOpen
<1>5. /\ Len(new) = m + 1 /\ new[m + 1] = g[n + 1] /\ \A k \in 1 .. m : new[k] = st[k]
  BY <1>4
<1>6. more[m + 1] = n + 1 /\ \A k \in 1 .. m : more[k] = opens[k]
  BY <1>4
<1> HIDE DEF ds, n, m, more, new
<1>7. ASSUME NEW k \in 1 .. m + 1
      PROVE  /\ more[k] \in 1 .. n + 1
             /\ ds[more[k]].method \in Starts
             /\ Depth(ds, more[k]) = k - 1
             /\ new[k] = g[more[k]]
             /\ \A j \in more[k] + 1 .. (n + 1) + 1 : Depth(ds, j) >= k
  <2>1. CASE k = m + 1
    <3>1. n + 1 \in 1 .. n + 1 /\ Depth(ds, n + 1) = k - 1
      BY <1>1, <1>2, <1>4, <2>1
    <3>2. \A j \in (n + 1) + 1 .. (n + 1) + 1 : Depth(ds, j) >= k
      BY <1>1, <1>3, <1>4, <2>1
    <3> QED
      BY <1>1, <1>5, <1>6, <2>1, <3>1, <3>2
  <2>2. CASE k # m + 1
    <3>1. k \in 1 .. m
      BY <1>4, <2>2
    <3>2. /\ opens[k] \in 1 .. n
          /\ cs[opens[k]].method \in Starts
          /\ Depth(cs, opens[k]) = k - 1
          /\ st[k] = f[opens[k]]
          /\ \A j \in opens[k] + 1 .. n + 1 : Depth(cs, j) >= k
      BY <1>4, <3>1
    <3>3. /\ opens[k] \in 1 .. n + 1 /\ g[opens[k]] = f[opens[k]] /\ ds[opens[k]] = cs[opens[k]]
          /\ more[k] = opens[k] /\ new[k] = st[k]
      BY <1>1, <1>5, <1>6, <3>1, <3>2 DEF Agree, n
    <3>4. \A j \in opens[k] + 1 .. (n + 1) + 1 : Depth(ds, j) >= k
      <4> TAKE j \in opens[k] + 1 .. (n + 1) + 1
      <4>1. CASE j = n + 2
        BY <1>3, <1>4, <4>1
      <4>2. CASE j # n + 2
        <5>1. j \in opens[k] + 1 .. n + 1 /\ j \in 1 .. n + 1
          BY <1>1, <3>2, <4>2
        <5> QED
          BY <1>2, <3>2, <5>1
      <4> QED
        BY <4>1, <4>2
    <3> QED
      BY <1>2, <3>2, <3>3, <3>4
  <2> QED
    BY <2>1, <2>2
<1>8. AreOpen(more, new, ds, g)
  BY <1>1, <1>3, <1>4, <1>5, <1>7 DEF AreOpen
<1> QED
  BY <1>8 DEF ds, more, new, n, m

\* A call that closes a container pops its node.
LEMMA OpenPopped ==
  ASSUME NEW cs \in Seq(CallSet), NEW c \in CallSet, c.method \in Ends,
         NEW f, NEW g, Agree(Len(cs), f, g),
         NEW opens, NEW S, NEW st \in Seq(S), st # <<>>, AreOpen(opens, st, cs, f)
  PROVE  AreOpen(opens, Front(st), Append(cs, c), g)
<1> DEFINE n == Len(cs)
           ds == Append(cs, c)
           m == Len(st)
           less == Front(st)
<1>1. /\ n \in Nat /\ Len(ds) = n + 1 /\ ds[n + 1] = c
      /\ \A i \in 1 .. n : ds[i] = cs[i]
  BY OneMore
<1>2. \A i \in 1 .. n + 1 : Depth(ds, i) = Depth(cs, i)
  BY DepthKept
<1>3. Depth(ds, n + 2) = Depth(cs, n + 1) - 1 /\ Depth(cs, n + 1) \in Int
  <2>1. Depth(ds, n + 2) = Depth(cs, n + 1) + Change(c) /\ Depth(cs, n + 1) \in Int
    BY DepthAfter
  <2> HIDE DEF ds, n
  <2> QED
    BY <2>1 DEF Change, Starts, Ends
<1>4. /\ m = Depth(cs, n + 1) /\ m \in Nat
      /\ \A k \in 1 .. m :
           /\ opens[k] \in 1 .. n
           /\ cs[opens[k]].method \in Starts
           /\ Depth(cs, opens[k]) = k - 1
           /\ st[k] = f[opens[k]]
           /\ \A j \in opens[k] + 1 .. n + 1 : Depth(cs, j) >= k
  BY DEF AreOpen
<1>5. m # 0 /\ Len(less) = m - 1 /\ \A k \in 1 .. m - 1 : less[k] = st[k]
  BY TopIs
<1> HIDE DEF ds, n, m, less
<1>7. ASSUME NEW k \in 1 .. m - 1
      PROVE  /\ opens[k] \in 1 .. n + 1
             /\ ds[opens[k]].method \in Starts
             /\ Depth(ds, opens[k]) = k - 1
             /\ less[k] = g[opens[k]]
             /\ \A j \in opens[k] + 1 .. (n + 1) + 1 : Depth(ds, j) >= k
  <2>1. k \in 1 .. m
    BY <1>4
  <2>2. /\ opens[k] \in 1 .. n
        /\ cs[opens[k]].method \in Starts
        /\ Depth(cs, opens[k]) = k - 1
        /\ st[k] = f[opens[k]]
        /\ \A j \in opens[k] + 1 .. n + 1 : Depth(cs, j) >= k
    BY <1>4, <2>1
  <2>3. /\ opens[k] \in 1 .. n + 1 /\ g[opens[k]] = f[opens[k]] /\ ds[opens[k]] = cs[opens[k]]
        /\ less[k] = st[k]
    BY <1>1, <1>5, <2>2 DEF Agree, n
  <2>4. \A j \in opens[k] + 1 .. (n + 1) + 1 : Depth(ds, j) >= k
    <3> TAKE j \in opens[k] + 1 .. (n + 1) + 1
    <3>1. CASE j = n + 2
      BY <1>3, <1>4, <3>1
    <3>2. CASE j # n + 2
      <4>1. j \in opens[k] + 1 .. n + 1 /\ j \in 1 .. n + 1
        BY <1>1, <2>2, <3>2
      <4> QED
        BY <1>2, <2>2, <4>1
    <3> QED
      BY <3>1, <3>2
  <2> QED
    BY <1>2, <2>2, <2>3, <2>4
<1>8. AreOpen(opens, less, ds, g)
  BY <1>1, <1>3, <1>4, <1>5, <1>7 DEF AreOpen
<1> QED
  BY <1>8 DEF ds, less

-----------------------------------------------------------------------------
(* Items that are added where no key has been given twice.                  *)

\* What has been given twice has been given twice.
LEMMA RepeatedStays ==
  ASSUME NEW cs \in Seq(CallSet), NEW c \in CallSet, NEW f, NEW g, Agree(Len(cs), f, g),
         Repeated(cs, f)
  PROVE  Repeated(Append(cs, c), g)
<1>1. PICK i \in ItemsIn(cs) : \E j \in ItemsIn(cs) : i < j /\ Depth(cs, i) > 0 /\ f[i] = f[j]
  BY DEF Repeated
<1>2. PICK j \in ItemsIn(cs) : i < j /\ Depth(cs, i) > 0 /\ f[i] = f[j]
  BY <1>1
<1>3. i \in 1 .. Len(cs) /\ j \in 1 .. Len(cs) /\ i \in 1 .. Len(cs) + 1
  BY DEF ItemsIn
<1>4. i \in ItemsIn(Append(cs, c)) /\ j \in ItemsIn(Append(cs, c))
  BY ItemsNext
<1>5. g[i] = f[i] /\ g[j] = f[j]
  BY <1>3 DEF Agree
<1>6. Depth(Append(cs, c), i) = Depth(cs, i)
  BY <1>3, DepthKept
<1>7. i < j /\ Depth(Append(cs, c), i) > 0 /\ g[i] = g[j]
  BY <1>2, <1>5, <1>6
<1> QED
  BY <1>4, <1>7 DEF Repeated

\* No two items have one place.
LEMMA PlacesDiffer ==
  ASSUME NEW cs \in Seq(CallSet), NEW f, DepthsOK(cs), PlacesOK(cs, f), ~Repeated(cs, f),
         NEW i \in ItemsIn(cs), NEW j \in ItemsIn(cs), f[i] = f[j]
  PROVE  i = j
<1>1. i \in 1 .. Len(cs) /\ j \in 1 .. Len(cs)
  BY DEF ItemsIn
<1>2. /\ Depth(cs, i) = Depth(cs, j)
      /\ Depth(cs, i) = 0 => i = 1
      /\ Depth(cs, j) = 0 => j = 1
  BY DEF PlacesOK
<1>3. Depth(cs, i) >= 0 /\ Depth(cs, i) \in Int
  BY <1>1, DepthNext DEF DepthsOK
<1>4. CASE Depth(cs, i) = 0
  BY <1>2, <1>4
<1>5. CASE Depth(cs, i) > 0
  <2>1. ~(i < j) /\ ~(j < i)
    BY <1>2, <1>5 DEF Repeated
  <2> QED
    BY <1>1, <2>1
<1> QED
  BY <1>3, <1>4, <1>5

\* The keys before the next call, and the one after.
LEMMA KeysNext ==
  ASSUME NEW cs \in Seq(CallSet), NEW c \in CallSet
  PROVE  /\ KeysBefore(Append(cs, c), Len(cs) + 1) = KeysBefore(cs, Len(cs) + 1)
         /\ KeysBefore(Append(cs, c), Len(cs) + 2) =
              KeysBefore(cs, Len(cs) + 1) \cup IF c.method = "Key" THEN {Len(cs) + 1} ELSE {}
         /\ KeysBefore(cs, Len(cs) + 1) \in SUBSET (1 .. Len(cs))
<1> DEFINE n == Len(cs)
           ds == Append(cs, c)
<1>1. n \in Nat /\ ds[n + 1] = c /\ \A i \in 1 .. n : ds[i] = cs[i]
  BY OneMore
<1> HIDE DEF n, ds
<1>2. KeysBefore(ds, n + 1) = KeysBefore(cs, n + 1)
  BY <1>1 DEF KeysBefore
<1>3. KeysBefore(ds, n + 2) = KeysBefore(cs, n + 1) \cup IF c.method = "Key" THEN {n + 1} ELSE {}
  BY <1>1 DEF KeysBefore
<1>4. KeysBefore(cs, n + 1) \in SUBSET (1 .. n)
  BY <1>1 DEF KeysBefore
<1> QED
  BY <1>2, <1>3, <1>4 DEF n, ds

\* In a dict the label is the key that waits.
LEMMA DictLabel ==
  ASSUME NEW cs \in Seq(CallSet), NEW c \in CallSet, Depth(cs, Len(cs) + 1) > 0,
         cs[Opener(cs, Len(cs) + 1)].method = "StartDict",
         NEW k, KeyIsLast(k, cs), k # NoKey
  PROVE  Label(Append(cs, c), Len(cs) + 1) = k
<1> DEFINE n == Len(cs)
           ds == Append(cs, c)
           o == Opener(cs, Len(cs) + 1)
           last == Max(KeysBefore(cs, Len(cs) + 1))
<1>1. n \in Nat /\ n + 1 \in 1 .. n + 1 /\ \A i \in 1 .. n : ds[i] = cs[i]
  BY OneMore
<1>2. Opener(ds, n + 1) = o /\ o \in 1 .. n
  BY <1>1, OpenerKept, OpenerIsItem
<1>3. KeysBefore(ds, n + 1) = KeysBefore(cs, n + 1) /\ KeysBefore(cs, n + 1) \in SUBSET (1 .. n)
  BY KeysNext
<1>4. KeysBefore(cs, n + 1) # {} /\ k = cs[last].arg
  BY DEF KeyIsLast
<1>5. last \in 1 .. n
  BY <1>1, <1>3, <1>4, MaxProperties
<1>6. ds[o].method = "StartDict" /\ ds[last].arg = k
  BY <1>1, <1>2, <1>4, <1>5
<1> HIDE DEF ds
<1>7. Label(ds, n + 1) = ds[last].arg
  BY <1>2, <1>3, <1>6 DEF Label
<1> QED
  BY <1>6, <1>7 DEF ds

\* The elements of an array are the items in it.
LEMMA ArrayCount ==
  ASSUME NEW cs \in Seq(CallSet), NEW f, IsPlacing(cs, f), DepthsOK(cs), PlacesOK(cs, f),
         ItemsHaveKeys(cs), ~Repeated(cs, f), NEW d, IsFiniteSet(DOMAIN d), DOMAIN d \subseteq Paths,
         DocumentIs(d, cs, f), NEW S, NEW st \in Seq(S), NEW o, TopIsOpener(d, st, cs, f, o),
         cs[o].method # "StartDict"
  PROVE  Cardinality(Below(d, f[o])) = Cardinality(Siblings(cs, Len(cs) + 1))
<1> DEFINE n == Len(cs)
           m == Len(st)
           B == Below(d, f[o])
           J == {j \in ItemsIn(cs) : j \in o + 1 .. n /\ Depth(cs, j) = m}
<1>1. /\ o = Opener(cs, n + 1) /\ o \in ItemsIn(cs) /\ o \in 1 .. n /\ cs[o].method \in Starts
      /\ Depth(cs, n + 1) = m /\ m \in Nat /\ m > 0 /\ Depth(cs, o) = m - 1
      /\ \A j \in o + 1 .. n + 1 : Depth(cs, j) >= m
      /\ f[o] \in Paths /\ Len(f[o]) = m - 1
      /\ n \in Nat
  BY DEF TopIsOpener
<1>2. Siblings(cs, n + 1) = J
  <2>1. \A j \in ItemsIn(cs) : j \in 1 .. n
    BY DEF ItemsIn
  <2>2. \A j \in ItemsIn(cs) : j \in o + 1 .. n + 1 <=> j \in o + 1 .. n
    BY <1>1, <2>1
  <2> QED
    BY <1>1, <2>2 DEF Siblings
<1>3. ASSUME NEW i \in ItemsIn(cs), Depth(cs, i) > 0
      PROVE  /\ Opener(cs, i) \in ItemsIn(cs) /\ Opener(cs, i) \in 1 .. i - 1
             /\ Depth(cs, Opener(cs, i)) = Depth(cs, i) - 1
             /\ f[i] = Append(f[Opener(cs, i)], Label(cs, i))
  <2>1. i \in 1 .. n /\ i \in 1 .. n + 1
    BY DEF ItemsIn
  <2>2. f[i] = PlaceIn(cs, f, i)
    BY DEF IsPlacing
  <2>3. f[i] = Append(f[Opener(cs, i)], Label(cs, i))
    BY <1>3, <2>2 DEF PlaceIn
  <2> QED
    BY <1>3, <2>1, <2>3, OpenerIsItem
<1>4. ASSUME NEW i \in ItemsIn(cs), Depth(cs, i) > 0
      PROVE  f[i] # Root /\ Front(f[i]) = f[Opener(cs, i)]
  <2>1. /\ Opener(cs, i) \in ItemsIn(cs)
        /\ Depth(cs, Opener(cs, i)) = Depth(cs, i) - 1
        /\ f[i] = Append(f[Opener(cs, i)], Label(cs, i))
    BY <1>3, <1>4
  <2>2. f[i] \in Paths /\ f[Opener(cs, i)] \in Paths /\ Len(f[i]) = Depth(cs, i)
    BY <2>1 DEF PlacesOK
  <2>3. Depth(cs, i) \in Nat /\ f[i] # Root
    BY <1>4, <2>2 DEF Root, Paths
  <2>4. Front(f[i]) = f[Opener(cs, i)]
    BY <2>1, <2>2 DEF Front, Paths
  <2> QED
    BY <2>3, <2>4
<1>5. ASSUME NEW j \in J
      PROVE  f[j] \in B
  <2>1. j \in ItemsIn(cs) /\ j \in o + 1 .. n /\ Depth(cs, j) = m /\ Depth(cs, j) > 0
    BY <1>1
  <2>2. Opener(cs, j) = o
    <3>1. o \in 1 .. j - 1 /\ j \in Nat \ {0} /\ Depth(cs, o) = Depth(cs, j) - 1
      BY <1>1, <2>1
    <3>2. \A k \in o + 1 .. j - 1 : Depth(cs, k) >= Depth(cs, j)
      <4> TAKE k \in o + 1 .. j - 1
      <4>1. k \in o + 1 .. n + 1
        BY <1>1, <2>1
      <4> QED
        BY <1>1, <2>1, <4>1
    <3> QED
      BY <1>1, <3>1, <3>2, OpenerIs
  <2>3. f[j] # Root /\ Front(f[j]) = f[o]
    BY <1>4, <2>1, <2>2
  <2>4. f[j] \in DOMAIN d
    BY <2>1 DEF DocumentIs
  <2> QED
    BY <2>3, <2>4 DEF Below
<1>6. ASSUME NEW p \in B
      PROVE  \E j \in J : f[j] = p
  <2>1. p \in DOMAIN d /\ p # Root /\ Front(p) = f[o]
    BY DEF Below
  <2>2. PICK i \in ItemsIn(cs) : p = f[i]
    BY <2>1 DEF DocumentIs
  <2>3. i \in 1 .. n /\ f[i] \in Paths /\ Len(f[i]) = Depth(cs, i)
    BY DEF PlacesOK, ItemsIn
  <2>4. Len(f[i]) \in Nat /\ Len(f[i]) # 0
    BY <2>1, <2>2, <2>3 DEF Root, Paths
  <2>5. Depth(cs, i) > 0
    BY <2>3, <2>4
  <2>6. /\ Opener(cs, i) \in ItemsIn(cs) /\ Opener(cs, i) \in 1 .. i - 1
        /\ Depth(cs, Opener(cs, i)) = Depth(cs, i) - 1
    BY <1>3, <2>5
  <2>7. f[Opener(cs, i)] = f[o]
    BY <1>4, <2>1, <2>2, <2>5
  <2>8. Opener(cs, i) = o
    BY <1>1, <2>6, <2>7, PlacesDiffer
  <2>9. i \in o + 1 .. n /\ Depth(cs, i) = m
    BY <1>1, <2>3, <2>4, <2>6, <2>8
  <2> QED
    BY <2>2, <2>9
<1>7. ASSUME NEW i \in J, NEW j \in J, f[i] = f[j]
      PROVE  i = j
  BY <1>7, PlacesDiffer
<1> HIDE DEF B, J
<1> DEFINE h == [j \in J |-> f[j]]
<1>8. h \in [J -> B] /\ (\A i, j \in J : h[i] = h[j] => i = j) /\ \A p \in B : \E j \in J : h[j] = p
  BY <1>5, <1>6, <1>7
<1> HIDE DEF h
<1>9. h \in Bijection(J, B)
  <2>1. IsInjective(h)
    BY <1>8 DEF IsInjective
  <2>2. h \in Injection(J, B)
    BY <1>8, <2>1 DEF Injection
  <2>3. h \in Surjection(J, B)
    BY <1>8 DEF Surjection
  <2> QED
    BY <2>2, <2>3 DEF Bijection
<1>10. ExistsBijection(J, B)
  BY <1>9 DEF ExistsBijection
<1>11. IsFiniteSet(J)
  <2>1. IsFiniteSet(1 .. n)
    BY <1>1, FS_Interval
  <2>2. J \in SUBSET (1 .. n)
    BY DEF J, ItemsIn
  <2> QED
    BY <2>1, <2>2, FS_Subset
<1>12. Cardinality(B) = Cardinality(J)
  BY <1>10, <1>11, FS_Bijection
<1> QED
  BY <1>2, <1>12 DEF B

\* In an array the label is the number of its elements and this one.
LEMMA ArrayLabel ==
  ASSUME NEW cs \in Seq(CallSet), NEW c \in CallSet, IsItem(c), Depth(cs, Len(cs) + 1) > 0,
         cs[Opener(cs, Len(cs) + 1)].method # "StartDict"
  PROVE  Label(Append(cs, c), Len(cs) + 1) = Cardinality(Siblings(cs, Len(cs) + 1)) + 1
<1> DEFINE n == Len(cs)
           ds == Append(cs, c)
           o == Opener(cs, Len(cs) + 1)
           J == Siblings(cs, Len(cs) + 1)
<1>1. n \in Nat /\ n + 1 \in 1 .. n + 1 /\ \A i \in 1 .. n : ds[i] = cs[i]
  BY OneMore
<1>2. Opener(ds, n + 1) = o /\ o \in 1 .. n
  BY <1>1, OpenerKept, OpenerIsItem
<1>3. \A i \in 1 .. n + 1 : Depth(ds, i) = Depth(cs, i)
  BY DepthKept
<1>4. ItemsIn(ds) = ItemsIn(cs) \cup {n + 1}
  BY ItemsNext
<1>5. J \in SUBSET (1 .. n)
  BY DEF Siblings, ItemsIn
<1>6. n + 1 \notin J /\ IsFiniteSet(J)
  <2>1. IsFiniteSet(1 .. n)
    BY <1>1, FS_Interval
  <2>2. IsFiniteSet(J)
    BY <1>5, <2>1, FS_Subset
  <2> HIDE DEF J, n
  <2>3. n + 1 \notin J
    BY <1>1, <1>5
  <2> QED
    BY <2>2, <2>3
<1>7. Siblings(ds, n + 1) = J \cup {n + 1}
  <2>1. n + 1 \in o + 1 .. n + 1
    BY <1>1, <1>2
  <2>2. \A j \in ItemsIn(cs) : j \in 1 .. n + 1
    BY <1>1 DEF ItemsIn
  <2> HIDE DEF ds, o
  <2> QED
    BY <1>1, <1>2, <1>3, <1>4, <2>1, <2>2 DEF Siblings, o
<1>8. Cardinality(J \cup {n + 1}) = Cardinality(J) + 1
  BY <1>6, FS_AddElement
<1>9. ds[o].method # "StartDict"
  BY <1>1, <1>2
<1> HIDE DEF ds, J, n
<1>10. Label(ds, n + 1) = Cardinality(J) + 1
  BY <1>2, <1>7, <1>8, <1>9 DEF Label
<1> QED
  BY <1>10 DEF ds, J, n

\* The stack after a new node.
PushedIf(open, st, p) == IF open THEN Append(st, p) ELSE st

\* A new node at the place of its item leaves all as it is to be.
LEMMA NewItem ==
  ASSUME NEW cs \in Seq(CallSet), NEW c \in CallSet, IsItem(c),
         NEW f, IsPlacing(cs, f), DepthsOK(cs), ItemsHaveKeys(cs), ~Repeated(cs, f),
         1 \in ItemsIn(cs), PlacesOK(cs, f), NEW d, DocumentIs(d, cs, f),
         NEW S, NEW st \in Seq(S), NEW o, TopIsOpener(d, st, cs, f, o),
         NEW opens, AreOpen(opens, st, cs, f),
         NEW x \in Steps, Label(Append(cs, c), Len(cs) + 1) = x,
         Append(Last(st), x) \notin DOMAIN d
  PROVE  /\ ~Repeated(Append(cs, c), NextPlacing(cs, c, f))
         /\ Sound(WithNode(d, Append(Last(st), x), c.arg),
                  PushedIf(c.method \in Starts, st, Append(Last(st), x)),
                  Append(cs, c), NextPlacing(cs, c, f))
<1> DEFINE n == Len(cs)
           ds == Append(cs, c)
           g == NextPlacing(cs, c, f)
           m == Len(st)
           child == Append(Last(st), x)
           e == WithNode(d, child, c.arg)
<1>1. /\ n \in Nat /\ Len(ds) = n + 1 /\ ds[n + 1] = c /\ \A i \in 1 .. n : ds[i] = cs[i]
      /\ n + 1 \in 1 .. n + 1
  BY OneMore
<1>2. /\ \A i \in 1 .. n : g[i] = f[i]
      /\ g[n + 1] = PlaceIn(ds, f, n + 1)
  BY PlacingNext
<1>3. /\ o = Opener(cs, n + 1) /\ Depth(cs, n + 1) = m /\ m \in Nat /\ m > 0
      /\ Last(st) = f[o] /\ Last(st) \in Paths /\ Len(Last(st)) = m - 1
  BY DEF TopIsOpener
<1>4. \A i \in 1 .. n + 1 : Depth(ds, i) = Depth(cs, i)
  BY DepthKept
<1>5. ItemsIn(ds) = ItemsIn(cs) \cup {n + 1} /\ \A i \in ItemsIn(cs) : i \in 1 .. n
  BY ItemsNext DEF ItemsIn
<1>6. g[n + 1] = child
  <2>1. Depth(ds, n + 1) # 0 /\ Opener(ds, n + 1) = o
    BY <1>1, <1>3, <1>4, OpenerKept
  <2> HIDE DEF g, ds, n
  <2>2. PlaceIn(ds, f, n + 1) = Append(f[o], Label(ds, n + 1))
    BY <2>1 DEF PlaceIn
  <2> QED
    BY <1>2, <1>3, <2>2 DEF ds, n
<1>7. child \in Paths /\ Len(child) = m /\ Last(child) = x
  BY <1>3, PathLonger
<1> HIDE DEF g, ds, n, child
<1>8. \A i \in ItemsIn(cs) : /\ i \in 1 .. n /\ i \in 1 .. n + 1
                            /\ g[i] = f[i] /\ f[i] \in DOMAIN d /\ d[f[i]] = cs[i].arg
                            /\ ds[i] = cs[i] /\ Depth(ds, i) = Depth(cs, i)
  <2> TAKE i \in ItemsIn(cs)
  <2>1. i \in 1 .. n /\ i \in 1 .. n + 1
    BY <1>1, <1>5
  <2>2. f[i] \in DOMAIN d /\ d[f[i]] = cs[i].arg
    BY DEF DocumentIs
  <2> QED
    BY <1>1, <1>2, <1>4, <2>1, <2>2
<1>9. child \notin DOMAIN d
  BY DEF child
<1>10. ~Repeated(ds, g)
  <2> SUFFICES ASSUME NEW i \in ItemsIn(ds), NEW j \in ItemsIn(ds),
                      i < j, Depth(ds, i) > 0, g[i] = g[j]
               PROVE  FALSE
    BY DEF Repeated
  <2>1. i \in ItemsIn(cs)
    <3>1. i \in ItemsIn(cs) \/ i = n + 1
      BY <1>5
    <3>2. j \in 1 .. n + 1
      BY <1>1, <1>5, <1>8
    <3> QED
      BY <1>1, <3>1, <3>2
  <2>2. CASE j \in ItemsIn(cs)
    BY <1>8, <2>1, <2>2 DEF Repeated
  <2>3. CASE j = n + 1
    BY <1>6, <1>8, <1>9, <2>1, <2>3
  <2> QED
    BY <1>5, <2>2, <2>3
<1>11. PlacesOK(ds, g)
  <2>1. ASSUME NEW i \in ItemsIn(cs)
        PROVE  /\ g[i] \in Paths /\ Len(g[i]) = Depth(ds, i)
               /\ Depth(ds, i) = 0 => i = 1
    BY <1>8 DEF PlacesOK
  <2>2. /\ g[n + 1] \in Paths /\ Len(g[n + 1]) = Depth(ds, n + 1)
        /\ Depth(ds, n + 1) # 0
    BY <1>1, <1>3, <1>4, <1>6, <1>7
  <2> QED
    BY <1>5, <2>1, <2>2 DEF PlacesOK
<1>12. DocumentIs(e, ds, g)
  <2>1. DOMAIN e = DOMAIN d \cup {child} /\ e[child] = c.arg /\ \A q \in DOMAIN d : e[q] = d[q]
    BY <1>9 DEF WithNode
  <2> HIDE DEF e
  <2>2. DOMAIN d = {f[i] : i \in ItemsIn(cs)}
    BY DEF DocumentIs
  <2>3. DOMAIN e = {g[i] : i \in ItemsIn(ds)}
    <3>1. {g[i] : i \in ItemsIn(ds)} = {g[i] : i \in ItemsIn(cs)} \cup {g[n + 1]}
      BY <1>5
    <3>2. {g[i] : i \in ItemsIn(cs)} = {f[i] : i \in ItemsIn(cs)}
      BY <1>8
    <3> QED
      BY <1>6, <2>1, <2>2, <3>1, <3>2
  <2>4. \A i \in ItemsIn(ds) : e[g[i]] = ds[i].arg
    <3> TAKE i \in ItemsIn(ds)
    <3>1. CASE i \in ItemsIn(cs)
      BY <1>8, <2>1, <3>1
    <3>2. CASE i = n + 1
      BY <1>1, <1>6, <2>1, <3>2
    <3> QED
      BY <1>5, <3>1, <3>2
  <2> QED
    BY <2>3, <2>4 DEF DocumentIs
<1>13. \E more : AreOpen(more, PushedIf(c.method \in Starts, st, child), ds, g)
  <2>1. Agree(Len(cs), f, g)
    BY <1>2 DEF Agree, n
  <2>2. CASE c.method \in Starts
    <3> DEFINE more == [k \in 1 .. Len(st) + 1 |-> IF k = Len(st) + 1 THEN Len(cs) + 1 ELSE opens[k]]
    <3>1. AreOpen(more, Append(st, g[Len(cs) + 1]), Append(cs, c), g)
      BY <2>1, <2>2, OpenPushed
    <3> HIDE DEF more
    <3>2. AreOpen(more, PushedIf(c.method \in Starts, st, child), ds, g)
      BY <1>6, <2>2, <3>1 DEF PushedIf, ds, n
    <3> QED
      BY <3>2
  <2>3. CASE c.method \notin Starts
    <3>1. Change(c) = 0
      BY <2>3, CallsAre DEF Change, Starts, Ends
    <3>2. AreOpen(opens, st, Append(cs, c), g)
      BY <2>1, <3>1, OpenKept
    <3>3. AreOpen(opens, PushedIf(c.method \in Starts, st, child), ds, g)
      BY <2>3, <3>2 DEF PushedIf, ds
    <3> QED
      BY <3>3
  <2> QED
    BY <2>2, <2>3
<1>14. 1 \in ItemsIn(ds)
  BY <1>5
<1> HIDE DEF e
<1>15. Sound(e, PushedIf(c.method \in Starts, st, child), ds, g)
  BY <1>11, <1>12, <1>13, <1>14 DEF Sound
<1> QED
  BY <1>10, <1>15 DEF e, ds, g, child

-----------------------------------------------------------------------------
(* The parts of the invariant that hold whether keys are given twice or not. *)

\* No call closes what has not been opened.
LEMMA DepthsNext ==
  ASSUME NEW cs \in Seq(CallSet), NEW c \in CallSet, DepthsOK(cs),
         Depth(cs, Len(cs) + 1) + Change(c) >= 0
  PROVE  DepthsOK(Append(cs, c))
<1> DEFINE n == Len(cs)
           ds == Append(cs, c)
<1>1. n \in Nat /\ Len(ds) = n + 1
  BY OneMore
<1>2. \A i \in 1 .. n + 1 : Depth(ds, i) = Depth(cs, i) /\ Depth(cs, i) >= 0
  BY DepthKept DEF DepthsOK
<1>3. Depth(ds, n + 2) >= 0
  BY DepthAfter
<1> HIDE DEF ds, n
<1>4. ASSUME NEW i \in 1 .. (n + 1) + 1
      PROVE  Depth(ds, i) >= 0
  <2>1. i \in 1 .. n + 1 \/ i = n + 2
    BY <1>1
  <2> QED
    BY <1>2, <1>3, <2>1
<1>5. DepthsOK(ds)
  BY <1>1, <1>4 DEF DepthsOK
<1> QED
  BY <1>5 DEF ds

\* An item of a dict comes after some key.
LEMMA ItemsHaveKeysNext ==
  ASSUME NEW cs \in Seq(CallSet), NEW c \in CallSet, DepthsOK(cs), ItemsHaveKeys(cs),
         /\ IsItem(c) /\ Depth(cs, Len(cs) + 1) > 0
         /\ cs[Opener(cs, Len(cs) + 1)].method = "StartDict"
         => KeysBefore(cs, Len(cs) + 1) # {}
  PROVE  ItemsHaveKeys(Append(cs, c))
<1> DEFINE n == Len(cs)
           ds == Append(cs, c)
<1>1. n \in Nat /\ \A i \in 1 .. n : ds[i] = cs[i]
  BY OneMore
<1>2. \A i \in 1 .. n + 1 : Depth(ds, i) = Depth(cs, i) /\ Opener(ds, i) = Opener(cs, i)
  BY DepthKept, OpenerKept
<1>3. \A i \in 1 .. n + 1 : Depth(cs, i) > 0 => Opener(cs, i) \in 1 .. n
  BY OpenerIsItem
<1>4. ItemsIn(ds) = ItemsIn(cs) \cup IF IsItem(c) THEN {n + 1} ELSE {}
  BY ItemsNext
<1>5. \A i \in ItemsIn(cs) : i \in 1 .. n
  BY DEF ItemsIn
<1>6. KeysBefore(ds, n + 1) = KeysBefore(cs, n + 1)
  BY KeysNext
<1> HIDE DEF ds, n
<1>7. \A i \in ItemsIn(cs) : KeysBefore(ds, i) = KeysBefore(cs, i)
  BY <1>1, <1>5 DEF KeysBefore
<1>8. ASSUME NEW i \in ItemsIn(ds), Depth(ds, i) > 0, ds[Opener(ds, i)].method = "StartDict"
      PROVE  KeysBefore(ds, i) # {}
  <2>1. CASE i \in ItemsIn(cs)
    <3>1. i \in 1 .. n + 1
      BY <1>1, <1>5, <2>1
    <3>2. Depth(cs, i) > 0 /\ cs[Opener(cs, i)].method = "StartDict"
      BY <1>1, <1>2, <1>3, <1>8, <3>1
    <3>3. KeysBefore(cs, i) # {}
      BY <2>1, <3>2 DEF ItemsHaveKeys
    <3> QED
      BY <1>7, <2>1, <3>3
  <2>2. CASE i \notin ItemsIn(cs)
    <3>1. IsItem(c) /\ i = n + 1 /\ i \in 1 .. n + 1
      BY <1>1, <1>4, <2>2
    <3>2. Depth(cs, n + 1) > 0 /\ cs[Opener(cs, n + 1)].method = "StartDict"
      BY <1>1, <1>2, <1>3, <1>8, <3>1
    <3>3. KeysBefore(cs, n + 1) # {}
      BY <3>1, <3>2 DEF n
    <3> QED
      BY <1>6, <3>1, <3>3
  <2> QED
    BY <2>1, <2>2
<1>9. ItemsHaveKeys(ds)
  BY <1>8 DEF ItemsHaveKeys
<1> QED
  BY <1>9 DEF ds

\* A key that waits is the last one given.
LEMMA KeyIsLastNext ==
  ASSUME NEW cs \in Seq(CallSet), NEW c \in CallSet, NEW k, KeyIsLast(k, cs),
         NEW j, IF c.method = "Key" THEN j = c.arg ELSE j \in {k, NoKey}
  PROVE  KeyIsLast(j, Append(cs, c))
<1> DEFINE n == Len(cs)
           ds == Append(cs, c)
           K == KeysBefore(cs, Len(cs) + 1)
           L == KeysBefore(Append(cs, c), Len(cs) + 2)
<1>1. n \in Nat /\ Len(ds) = n + 1 /\ ds[n + 1] = c /\ \A i \in 1 .. n : ds[i] = cs[i]
  BY OneMore
<1>2. L = K \cup (IF c.method = "Key" THEN {n + 1} ELSE {}) /\ K \in SUBSET (1 .. n)
  BY KeysNext
<1>3. KeyIsLast(j, ds) <=> (j # NoKey => L # {} /\ j = ds[Max(L)].arg)
  <2>1. Len(ds) + 1 = n + 2
    BY <1>1
  <2> HIDE DEF ds, n
  <2> QED
    BY <2>1 DEF KeyIsLast, ds, n
<1>4. KeyIsLast(k, cs) <=> (k # NoKey => K # {} /\ k = cs[Max(K)].arg)
  BY DEF KeyIsLast
<1> HIDE DEF ds, n, K, L
<1>5. CASE c.method = "Key"
  <2>1. L \in SUBSET (1 .. n + 1) /\ n + 1 \in L /\ n + 1 \in Nat
    BY <1>1, <1>2, <1>5
  <2>2. \A y \in L : y <= n + 1
    BY <1>1, <2>1
  <2>3. Max(L) = n + 1
    BY <2>1, <2>2, MaxUnique
  <2>4. KeyIsLast(j, ds)
    BY <1>1, <1>3, <1>5, <2>1, <2>3
  <2> QED
    BY <2>4 DEF ds
<1>6. CASE c.method # "Key"
  <2>1. L = K
    BY <1>2, <1>6
  <2>2. CASE j = NoKey
    BY <1>3, <2>2 DEF ds
  <2>3. CASE j # NoKey
    <3>1. j = k /\ K # {} /\ k = cs[Max(K)].arg
      BY <1>4, <1>6, <2>3
    <3>2. Max(K) \in 1 .. n
      BY <1>1, <1>2, <3>1, MaxProperties
    <3>3. j = ds[Max(L)].arg
      BY <1>1, <2>1, <3>1, <3>2
    <3>4. KeyIsLast(j, ds)
      BY <1>3, <2>1, <3>1, <3>3
    <3> QED
      BY <3>4 DEF ds
  <2> QED
    BY <2>2, <2>3
<1> QED
  BY <1>5, <1>6

\* An item makes the stack at most as much longer as it opens.
LEMMA ItemLength ==
  ASSUME TypeInv, NEW c \in CallSet, ItemAdded(c)
  PROVE  /\ Len(stack') <= Len(stack) + Change(c)
         /\ Change(c) = IF c.method \in Starts THEN 1 ELSE 0
<1> DEFINE open == c.method \in Starts
           Pointers == DOMAIN doc \cup {Nil}
<1>1. stack \in Seq(Pointers) /\ stack # <<>> /\ AddItem(c.arg, open) /\ IsItem(c)
  BY DEF TypeInv, ItemAdded
<1>2. Change(c) = IF open THEN 1 ELSE 0
  BY <1>1, CallsAre DEF Change, Starts, Ends
<1>3. /\ Front(stack) \in Seq(Pointers) /\ Len(Front(stack)) = Len(stack) - 1
      /\ Len(stack) \in Nat
  BY <1>1, TopIs
<1>4. Moved(Top) \in Seq(Pointers) /\ Len(Moved(Top)) = Len(stack)
  BY <1>1 DEF Moved
<1>5. \E S : \E rest \in Seq(S) : \E p \in S :
        /\ Len(rest) \in Nat /\ Len(rest) <= Len(stack)
        /\ stack' = IF open THEN Append(rest, p) ELSE rest
  <2> HIDE DEF open
  <2>1. CASE FillNull(c.arg, open)
    <3>1. stack' = IF open THEN Append(Front(stack), Root) ELSE Front(stack)
      BY <2>1 DEF FillNull
    <3>2. Front(stack) \in Seq(Pointers \cup {Root}) /\ Root \in Pointers \cup {Root}
      BY <1>3
    <3>3. Len(Front(stack)) \in Nat /\ Len(Front(stack)) <= Len(stack)
      BY <1>3
    <3> QED
      BY <3>1, <3>2, <3>3
  <2>2. ASSUME NEW p, NEW k, NEW rest \in {stack, Moved(Top)}, Store(p, k, rest, open)
        PROVE  \E S : \E re \in Seq(S) : \E q \in S :
                 /\ Len(re) \in Nat /\ Len(re) <= Len(stack)
                 /\ stack' = IF open THEN Append(re, q) ELSE re
    <3>1. stack' = IF open THEN Append(rest, p) ELSE rest
      BY <2>2 DEF Store
    <3>2. rest \in Seq(Pointers) /\ Len(rest) = Len(stack)
      BY <1>1, <1>4
    <3>3. rest \in Seq(Pointers \cup {p}) /\ p \in Pointers \cup {p}
      BY <3>2
    <3>4. Len(rest) \in Nat /\ Len(rest) <= Len(stack)
      BY <1>3, <3>2
    <3> QED
      BY <3>1, <3>3, <3>4
  <2>3. CASE AddToDict(c.arg, open)
    <3>1. \E p, k : Store(p, k, stack, open)
      BY <2>3 DEF AddToDict
    <3> QED
      BY <2>2, <3>1
  <2>4. CASE AddToArray(c.arg, open)
    <3>1. \E p, k : \E rest \in {stack, Moved(Top)} : Store(p, k, rest, open)
      BY <2>4 DEF AddToArray
    <3> QED
      BY <2>2, <3>1
  <2>5. CASE AddToScalar(open)
    <3>1. stack' = IF open THEN Append(stack, Nil) ELSE stack
      BY <2>5 DEF AddToScalar
    <3>2. stack \in Seq(Pointers) /\ Nil \in Pointers /\ Len(stack) <= Len(stack)
      BY <1>1, <1>3
    <3> QED
      BY <1>3, <3>1, <3>2
  <2> QED
    BY <1>1, <2>1, <2>3, <2>4, <2>5 DEF AddItem
<1>6. PICK S : \E rest \in Seq(S) : \E p \in S :
        /\ Len(rest) \in Nat /\ Len(rest) <= Len(stack)
        /\ stack' = IF open THEN Append(rest, p) ELSE rest
  BY <1>5
<1>7. PICK rest \in Seq(S) : \E p \in S :
        /\ Len(rest) \in Nat /\ Len(rest) <= Len(stack)
        /\ stack' = IF open THEN Append(rest, p) ELSE rest
  BY <1>6
<1>8. PICK p \in S : /\ Len(rest) \in Nat /\ Len(rest) <= Len(stack)
                     /\ stack' = IF open THEN Append(rest, p) ELSE rest
  BY <1>7
<1>9. Len(Append(rest, p)) = Len(rest) + 1
  OBVIOUS
<1> HIDE DEF open
<1> QED
  BY <1>2, <1>3, <1>8, <1>9 DEF open

\* No element of an array is open while the array is on top.
LEMMA NothingMoves ==
  ASSUME TypeInv, stack # <<>>, NEW f, PlacesOK(calls, f), NEW opens, AreOpen(opens, stack, calls, f),
         NEW o, TopIsOpener(doc, stack, calls, f, o)
  PROVE  Moved(Top) = stack
<1> DEFINE m == Len(stack)
<1>1. stack \in Seq(DOMAIN doc \cup {Nil}) /\ m \in Nat /\ DOMAIN stack = 1 .. m
  BY DEF TypeInv
<1>2. Top = Last(stack) /\ Len(Top) = m - 1 /\ stack[m] = Top
  BY <1>1, TopIs DEF TopIsOpener, Top
<1>3. ASSUME NEW k \in 1 .. m
      PROVE  ~IsStrictPrefix(Top, stack[k])
  <2>1. /\ opens[k] \in 1 .. Len(calls) /\ calls[opens[k]].method \in Starts
        /\ Depth(calls, opens[k]) = k - 1 /\ stack[k] = f[opens[k]]
    BY DEF AreOpen
  <2>2. opens[k] \in ItemsIn(calls)
    BY <2>1 DEF ItemsIn, IsItem
  <2>3. Len(stack[k]) = k - 1
    BY <2>1, <2>2 DEF PlacesOK
  <2> HIDE DEF m
  <2>4. CASE k = m
    BY <1>2, <2>4 DEF IsStrictPrefix
  <2>5. CASE k # m
    <3>1. ~(Len(Top) <= Len(stack[k]))
      BY <1>1, <1>2, <2>3, <2>5
    <3> QED
      BY <3>1 DEF IsStrictPrefix, IsPrefix
  <2> QED
    BY <2>4, <2>5
<1>4. Moved(Top) = [k \in DOMAIN stack |-> stack[k]]
  BY <1>1, <1>3 DEF Moved
<1> QED
  BY <1>1, <1>4

\* An item in a dict takes the key that waits, and repeats it or is new.
LEMMA DictItem ==
  ASSUME TypeInv, DepthsOK(calls), ItemsHaveKeys(calls), KeyIsLast(key, calls),
         NEW f, IsPlacing(calls, f), ~Repeated(calls, f), Sound(doc, stack, calls, f),
         NEW c \in CallSet, IsItem(c), stack # <<>>, AddToDict(c.arg, c.method \in Starts),
         NEW opens, AreOpen(opens, stack, calls, f),
         NEW o, TopIsOpener(doc, stack, calls, f, o), calls[o].method = "StartDict"
  PROVE  SoundOrRepeated(doc', stack', Append(calls, c), NextPlacing(calls, c, f))
<1> DEFINE n == Len(calls)
           ds == Append(calls, c)
           g == NextPlacing(calls, c, f)
           child == Append(Top, key)
           open == c.method \in Starts
<1>1. /\ stack \in Seq(DOMAIN doc \cup {Nil}) /\ key \in AllKeys \cup {NoKey}
      /\ calls \in Seq(CallSet)
  BY DEF TypeInv
<1>2. /\ n \in Nat /\ Len(ds) = n + 1 /\ \A i \in 1 .. n : ds[i] = calls[i]
      /\ n + 1 \in 1 .. n + 1
  BY <1>1, OneMore
<1>3. /\ o = Opener(calls, n + 1) /\ Depth(calls, n + 1) = Len(stack) /\ Len(stack) \in Nat
      /\ Len(stack) > 0 /\ Top = f[o] /\ Top \in Paths /\ Len(Top) = Len(stack) - 1
      /\ Top = Last(stack)
  BY DEF TopIsOpener, Top
<1>4. /\ key # NoKey
      /\ IF child \in DOMAIN doc THEN Store(child, doc[child], stack, open)
         ELSE Store(child, c.arg, stack, open)
  BY DEF AddToDict
<1>5. key \in Steps
  BY <1>1, <1>4 DEF Steps
<1>6. Label(ds, n + 1) = key
  BY <1>1, <1>3, <1>4, DictLabel
<1>7. PlacesOK(calls, f) /\ DocumentIs(doc, calls, f) /\ 1 \in ItemsIn(calls)
  BY DEF Sound
<1>8. CASE child \notin DOMAIN doc
  <2>1. Append(Last(stack), key) \notin DOMAIN doc
    BY <1>3, <1>8
  <2>2. /\ ~Repeated(ds, g)
        /\ Sound(WithNode(doc, Append(Last(stack), key), c.arg),
                 PushedIf(open, stack, Append(Last(stack), key)), ds, g)
    BY <1>1, <1>5, <1>6, <1>7, <2>1, NewItem
  <2>3. /\ doc' = WithNode(doc, Append(Last(stack), key), c.arg)
        /\ stack' = PushedIf(open, stack, Append(Last(stack), key))
    BY <1>3, <1>4, <1>8 DEF Store, WithNode, PushedIf
  <2> HIDE DEF ds, g, open
  <2>4. SoundOrRepeated(doc', stack', ds, g)
    BY <2>2, <2>3 DEF SoundOrRepeated
  <2> QED
    BY <2>4 DEF ds, g
<1>9. CASE child \in DOMAIN doc
  <2>1. PICK i \in ItemsIn(calls) : f[i] = child
    BY <1>7, <1>9 DEF DocumentIs
  <2>2. i \in 1 .. n /\ i \in 1 .. n + 1 /\ i \in ItemsIn(ds)
    BY <1>1, ItemsNext DEF ItemsIn
  <2>3. n + 1 \in ItemsIn(ds)
    BY <1>1, ItemsNext
  <2>4. Len(child) = Len(stack)
    BY <1>3, <1>5, PathLonger
  <2>5. Depth(ds, i) > 0
    <3>1. Depth(ds, i) = Depth(calls, i)
      BY <1>1, <2>2, DepthKept
    <3>2. Depth(calls, i) = Len(child)
      BY <1>7, <2>1 DEF PlacesOK
    <3> QED
      BY <1>3, <2>4, <3>1, <3>2
  <2>6. g[i] = child /\ g[n + 1] = PlaceIn(ds, f, n + 1)
    BY <1>1, <2>1, <2>2, PlacingNext
  <2>7. PlaceIn(ds, f, n + 1) = child
    <3>1. Depth(ds, n + 1) = Depth(calls, n + 1) /\ Opener(ds, n + 1) = o
      BY <1>1, <1>2, <1>3, DepthKept, OpenerKept
    <3>2. Depth(ds, n + 1) # 0
      BY <1>3, <3>1
    <3> HIDE DEF ds, n
    <3> QED
      BY <1>3, <1>6, <3>1, <3>2 DEF PlaceIn
  <2> HIDE DEF ds, g, n, child
  <2>8. i < n + 1
    BY <1>2, <2>2
  <2>9. Repeated(ds, g)
    BY <2>2, <2>3, <2>5, <2>6, <2>7, <2>8 DEF Repeated
  <2>10. KeysBefore(ds, Len(ds) + 1) # {}
    <3>1. KeysBefore(calls, Len(calls) + 1) # {}
      BY <1>4 DEF KeyIsLast
    <3>2. KeysBefore(ds, n + 2) # {}
      BY <1>1, <3>1, KeysNext DEF ds, n
    <3>3. Len(ds) + 1 = n + 2
      BY <1>2
    <3> QED
      BY <3>2, <3>3
  <2>11. SoundOrRepeated(doc', stack', ds, g)
    BY <2>9, <2>10 DEF SoundOrRepeated
  <2> QED
    BY <2>11 DEF ds, g
<1> QED
  BY <1>8, <1>9

\* An item in an array is new.
LEMMA ArrayItem ==
  ASSUME TypeInv, DepthsOK(calls), ItemsHaveKeys(calls),
         NEW f, IsPlacing(calls, f), ~Repeated(calls, f), Sound(doc, stack, calls, f),
         NEW c \in CallSet, IsItem(c), stack # <<>>, AddToArray(c.arg, c.method \in Starts),
         NEW opens, AreOpen(opens, stack, calls, f),
         NEW o, TopIsOpener(doc, stack, calls, f, o), calls[o].method # "StartDict"
  PROVE  SoundOrRepeated(doc', stack', Append(calls, c), NextPlacing(calls, c, f))
<1> DEFINE n == Len(calls)
           ds == Append(calls, c)
           g == NextPlacing(calls, c, f)
           x == Length(Top) + 1
           child == Append(Top, x)
           open == c.method \in Starts
<1>1. /\ stack \in Seq(DOMAIN doc \cup {Nil}) /\ IsTree(doc)
      /\ calls \in Seq(CallSet)
  BY DEF TypeInv
<1>2. /\ o = Opener(calls, n + 1) /\ Depth(calls, n + 1) > 0
      /\ Top = f[o] /\ Top \in Paths /\ Top \in DOMAIN doc /\ doc[Top] = "array"
      /\ Top = Last(stack)
  BY DEF TopIsOpener, Top
<1>3. PlacesOK(calls, f) /\ DocumentIs(doc, calls, f) /\ 1 \in ItemsIn(calls)
  BY DEF Sound
<1>4. Store(child, c.arg, stack, open)
  <2>1. Moved(Top) = stack
    BY <1>3, NothingMoves
  <2> QED
    BY <2>1 DEF AddToArray
<1>5. IsFiniteSet(DOMAIN doc) /\ DOMAIN doc \subseteq Paths
  BY <1>1 DEF IsTree
<1>6. PICK k \in Nat : Below(doc, Top) = {Append(Top, i) : i \in 1 .. k}
  BY <1>1, <1>2 DEF IsTree
<1>7. Cardinality(Below(doc, Top)) = k
  BY <1>2, <1>6, ElementsCounted
<1>8. Length(Top) = k
  BY <1>1, <1>2, <1>7, LengthIs
<1>9. x = k + 1 /\ x \in Steps
  BY <1>8 DEF Steps
<1>10. Label(ds, n + 1) = x
  <2>1. Cardinality(Below(doc, f[o])) = Cardinality(Siblings(calls, n + 1))
    BY <1>1, <1>3, <1>5, ArrayCount
  <2>2. Label(ds, n + 1) = Cardinality(Siblings(calls, n + 1)) + 1
    BY <1>1, <1>2, ArrayLabel
  <2> HIDE DEF ds, n
  <2> QED
    BY <1>2, <1>7, <1>8, <2>1, <2>2
<1> HIDE DEF x
<1>11. child \notin DOMAIN doc
  <2> SUFFICES ASSUME child \in DOMAIN doc
               PROVE  FALSE
    OBVIOUS
  <2>1. child # Root /\ Front(child) = Top /\ Last(child) = x
    BY <1>2, <1>9, PathLonger
  <2>2. child \in Below(doc, Top)
    BY <2>1 DEF Below
  <2>3. PICK i \in 1 .. k : child = Append(Top, i)
    BY <1>6, <2>2
  <2>4. Last(Append(Top, i)) = i
    BY <1>2, PathLonger DEF Steps
  <2> QED
    BY <1>9, <2>1, <2>3, <2>4
<1>12. Append(Last(stack), x) \notin DOMAIN doc
  BY <1>2, <1>11
<1>13. /\ ~Repeated(ds, g)
       /\ Sound(WithNode(doc, Append(Last(stack), x), c.arg),
                PushedIf(open, stack, Append(Last(stack), x)), ds, g)
  BY <1>1, <1>3, <1>9, <1>10, <1>12, NewItem
<1>14. /\ doc' = WithNode(doc, Append(Last(stack), x), c.arg)
       /\ stack' = PushedIf(open, stack, Append(Last(stack), x))
  BY <1>2, <1>4 DEF Store, WithNode, PushedIf
<1> HIDE DEF ds, g, open
<1>15. SoundOrRepeated(doc', stack', ds, g)
  BY <1>13, <1>14 DEF SoundOrRepeated
<1> QED
  BY <1>15 DEF ds, g

\* An item leaves everything sound, but for a key given twice.
LEMMA SoundItem ==
  ASSUME TypeInv, DepthsOK(calls), ItemsHaveKeys(calls), KeyIsLast(key, calls),
         NEW f, IsPlacing(calls, f), ~Repeated(calls, f), Sound(doc, stack, calls, f),
         NEW c \in CallSet, ItemAdded(c)
  PROVE  SoundOrRepeated(doc', stack', Append(calls, c), NextPlacing(calls, c, f))
<1> DEFINE open == c.method \in Starts
<1>1. /\ stack \in Seq(DOMAIN doc \cup {Nil}) /\ stack # <<>> /\ calls \in Seq(CallSet)
      /\ IsItem(c) /\ AddItem(c.arg, open)
  BY DEF TypeInv, ItemAdded
<1>2. PICK opens : AreOpen(opens, stack, calls, f)
  BY DEF Sound
<1>3. PlacesOK(calls, f) /\ DocumentIs(doc, calls, f)
  BY DEF Sound
<1>4. PICK o : TopIsOpener(doc, stack, calls, f, o)
  BY <1>1, <1>2, <1>3, TopOfSound
<1>5. doc[Top] = IF calls[o].method = "StartDict" THEN "dict" ELSE "array"
  BY <1>4 DEF TopIsOpener, Top
<1> HIDE DEF open
<1>6. CASE calls[o].method = "StartDict"
  <2>1. AddToDict(c.arg, open)
    BY <1>1, <1>5, <1>6 DEF AddItem, FillNull, AddToArray, AddToScalar
  <2> QED
    BY <1>1, <1>2, <1>4, <1>6, <2>1, DictItem DEF open
<1>7. CASE calls[o].method # "StartDict"
  <2>1. AddToArray(c.arg, open)
    BY <1>1, <1>5, <1>7 DEF AddItem, FillNull, AddToDict, AddToScalar
  <2> QED
    BY <1>1, <1>2, <1>4, <1>7, <2>1, ArrayItem DEF open
<1> QED
  BY <1>6, <1>7

-----------------------------------------------------------------------------
(* The invariant.                                                           *)

\* The first call is that of an item, the root.
LEMMA FirstItem ==
  ASSUME TypeInv, Fresh(doc, key, stack, calls), NEW f, NEW c \in CallSet, ItemAdded(c)
  PROVE  /\ ~Repeated(Append(calls, c), NextPlacing(calls, c, f))
         /\ Sound(doc', stack', Append(calls, c), NextPlacing(calls, c, f))
         /\ key' = NoKey
<1> DEFINE ds == Append(calls, c)
           g == NextPlacing(calls, c, f)
           open == c.method \in Starts
<1>1. /\ calls = <<>> /\ stack = <<Root>> /\ key = NoKey /\ DOMAIN doc = {Root} /\ doc[Root] = "null"
      /\ IsItem(c) /\ AddItem(c.arg, open)
  BY DEF Fresh, ItemAdded
<1>2. Top = Root
  BY <1>1 DEF Top, Last
<1> HIDE DEF open
<1>3. FillNull(c.arg, open)
  BY <1>1, <1>2 DEF AddItem, AddToDict, AddToArray, AddToScalar
<1>4. /\ DOMAIN doc' = {Root} /\ doc'[Root] = c.arg /\ key' = NoKey
      /\ stack' = IF open THEN Append(Front(stack), Root) ELSE Front(stack)
  BY <1>1, <1>2, <1>3 DEF FillNull
<1>5. Front(stack) = <<>>
  BY <1>1 DEF Front
<1>6. /\ calls \in Seq(CallSet) /\ Len(calls) = 0 /\ Len(ds) = 1 /\ ds[1] = c
      /\ DOMAIN ds = 1 .. 1
  BY <1>1, OneMore
<1>7. Depth(ds, 1) = 0 /\ Depth(calls, 1) = 0
  BY DepthNext
<1>8. ItemsIn(ds) = {1}
  BY <1>1, <1>6 DEF ItemsIn
<1>9. g[1] = Root
  <2>1. g[1] = PlaceIn(ds, f, 1)
    BY <1>6 DEF NextPlacing
  <2> QED
    BY <1>7, <2>1 DEF PlaceIn
<1> HIDE DEF ds, g
<1>10. ~Repeated(ds, g)
  BY <1>8 DEF Repeated
<1>11. PlacesOK(ds, g)
  <2>1. Root \in Paths /\ Len(Root) = 0
    BY DEF Root, Paths
  <2> QED
    BY <1>7, <1>8, <1>9, <2>1 DEF PlacesOK
<1>12. DocumentIs(doc', ds, g)
  BY <1>4, <1>6, <1>8, <1>9 DEF DocumentIs
<1>13. Agree(Len(calls), f, g)
  BY <1>6 DEF Agree
<1>14. AreOpen(<<>>, <<>>, calls, f)
  BY <1>6, <1>7 DEF AreOpen
<1>15. <<>> \in Seq(Paths)
  OBVIOUS
<1>16. \E opens : AreOpen(opens, stack', ds, g)
  <2>1. CASE open
    <3> DEFINE more == [k \in 1 .. Len(<<>>) + 1 |->
                          IF k = Len(<<>>) + 1 THEN Len(calls) + 1 ELSE <<>>[k]]
    <3>1. AreOpen(more, Append(<<>>, g[Len(calls) + 1]), ds, g)
      BY <1>6, <1>13, <1>14, <1>15, <2>1, OpenPushed DEF ds, open
    <3>2. stack' = Append(<<>>, g[Len(calls) + 1])
      BY <1>4, <1>5, <1>6, <1>9, <2>1
    <3> HIDE DEF more
    <3> QED
      BY <3>1, <3>2
  <2>2. CASE ~open
    <3>1. Change(c) = 0
      BY <1>1, <2>2, CallsAre DEF Change, Starts, Ends, open
    <3>2. AreOpen(<<>>, <<>>, ds, g)
      BY <1>6, <1>13, <1>14, <1>15, <3>1, OpenKept DEF ds
    <3>3. stack' = <<>>
      BY <1>4, <1>5, <2>2
    <3> QED
      BY <3>2, <3>3
  <2> QED
    BY <2>1, <2>2
<1>17. Sound(doc', stack', ds, g)
  BY <1>8, <1>11, <1>12, <1>16 DEF Sound
<1> QED
  BY <1>4, <1>10, <1>17 DEF ds, g

\* A call that is none of an item leaves the items as they are.
LEMMA NoItemKept ==
  ASSUME NEW cs \in Seq(CallSet), NEW c \in CallSet, ~IsItem(c), NEW f, NEW g,
         Agree(Len(cs), f, g), ~Repeated(cs, f), NEW d, 1 \in ItemsIn(cs),
         PlacesOK(cs, f), DocumentIs(d, cs, f)
  PROVE  /\ ~Repeated(Append(cs, c), g)
         /\ 1 \in ItemsIn(Append(cs, c))
         /\ PlacesOK(Append(cs, c), g)
         /\ DocumentIs(d, Append(cs, c), g)
<1> DEFINE ds == Append(cs, c)
<1>1. ItemsIn(ds) = ItemsIn(cs)
  BY ItemsNext
<1>2. ASSUME NEW i \in ItemsIn(cs)
      PROVE  g[i] = f[i] /\ ds[i] = cs[i] /\ Depth(ds, i) = Depth(cs, i)
  <2>1. i \in 1 .. Len(cs) /\ i \in 1 .. Len(cs) + 1
    BY DEF ItemsIn
  <2> QED
    BY <2>1, OneMore, DepthKept DEF Agree
<1> HIDE DEF ds
<1>3. ~Repeated(ds, g)
  BY <1>1, <1>2 DEF Repeated
<1>4. PlacesOK(ds, g)
  BY <1>1, <1>2 DEF PlacesOK
<1>5. DocumentIs(d, ds, g)
  <2>1. {g[i] : i \in ItemsIn(ds)} = {f[i] : i \in ItemsIn(cs)}
    BY <1>1, <1>2
  <2>2. \A i \in ItemsIn(ds) : d[g[i]] = ds[i].arg
    BY <1>1, <1>2 DEF DocumentIs
  <2> QED
    BY <2>1, <2>2 DEF DocumentIs
<1> QED
  BY <1>1, <1>3, <1>4, <1>5 DEF ds

\* A key leaves everything sound.
LEMMA SoundKey ==
  ASSUME TypeInv, NEW f, ~Repeated(calls, f), Sound(doc, stack, calls, f),
         NEW g, Agree(Len(calls), f, g), NEW c \in CallSet, KeyGiven(c)
  PROVE  SoundOrRepeated(doc', stack', Append(calls, c), g)
<1> DEFINE ds == Append(calls, c)
<1>1. /\ stack \in Seq(DOMAIN doc \cup {Nil}) /\ calls \in Seq(CallSet)
      /\ doc' = doc /\ stack' = stack /\ c.method = "Key"
  BY DEF TypeInv, KeyGiven
<1>2. PICK opens : AreOpen(opens, stack, calls, f)
  BY DEF Sound
<1>3. 1 \in ItemsIn(calls) /\ PlacesOK(calls, f) /\ DocumentIs(doc, calls, f)
  BY DEF Sound
<1>4. ~IsItem(c) /\ Change(c) = 0
  BY <1>1 DEF IsItem, Change, Starts, Ends
<1>5. ~Repeated(ds, g) /\ 1 \in ItemsIn(ds) /\ PlacesOK(ds, g) /\ DocumentIs(doc, ds, g)
  BY <1>1, <1>3, <1>4, NoItemKept
<1>6. AreOpen(opens, stack, ds, g)
  BY <1>1, <1>2, <1>4, OpenKept
<1> HIDE DEF ds
<1>7. SoundOrRepeated(doc', stack', ds, g)
  BY <1>1, <1>5, <1>6 DEF SoundOrRepeated, Sound
<1> QED
  BY <1>7 DEF ds

\* So does the end of a container.
LEMMA SoundEnd ==
  ASSUME TypeInv, NEW f, ~Repeated(calls, f), Sound(doc, stack, calls, f),
         NEW g, Agree(Len(calls), f, g), NEW c \in CallSet, ContainerEnded(c)
  PROVE  SoundOrRepeated(doc', stack', Append(calls, c), g)
<1> DEFINE ds == Append(calls, c)
<1>1. /\ stack \in Seq(DOMAIN doc \cup {Nil}) /\ calls \in Seq(CallSet) /\ stack # <<>>
      /\ doc' = doc /\ stack' = Front(stack) /\ c.method \in Ends
  BY DEF TypeInv, ContainerEnded, Ends
<1>2. PICK opens : AreOpen(opens, stack, calls, f)
  BY DEF Sound
<1>3. 1 \in ItemsIn(calls) /\ PlacesOK(calls, f) /\ DocumentIs(doc, calls, f)
  BY DEF Sound
<1>4. ~IsItem(c)
  BY <1>1 DEF IsItem, Starts, Ends
<1>5. ~Repeated(ds, g) /\ 1 \in ItemsIn(ds) /\ PlacesOK(ds, g) /\ DocumentIs(doc, ds, g)
  BY <1>1, <1>3, <1>4, NoItemKept
<1>6. AreOpen(opens, Front(stack), ds, g)
  BY <1>1, <1>2, OpenPopped
<1> HIDE DEF ds
<1>7. SoundOrRepeated(doc', stack', ds, g)
  BY <1>1, <1>5, <1>6 DEF SoundOrRepeated, Sound
<1> QED
  BY <1>7 DEF ds

\* What a call does to the key and to the length of the stack.
LEMMA CallIs ==
  ASSUME TypeInv, NEW c \in CallSet, Made(c)
  PROVE  /\ calls' = Append(calls, c) /\ calls \in Seq(CallSet) /\ stack # <<>>
         /\ IF c.method = "Key" THEN key' = c.arg ELSE key' \in {key, NoKey}
         /\ Len(stack) \in Nat /\ Len(stack) > 0
         /\ Len(stack') <= Len(stack) + Change(c)
         /\ Change(c) \in {1, 0, -1} /\ (IsItem(c) => Change(c) >= 0)
<1>1. calls' = Append(calls, c) /\ calls \in Seq(CallSet)
  BY DEF Made, Accept, TypeInv
<1>2. stack \in Seq(DOMAIN doc \cup {Nil}) /\ stack # <<>>
  BY DEF Made, ItemAdded, KeyGiven, ContainerEnded, TypeInv
<1>3. Len(stack) \in Nat /\ Len(stack) > 0 /\ Len(Front(stack)) = Len(stack) - 1
  BY <1>2, TopIs
<1>4. CASE ItemAdded(c)
  <2>1. IsItem(c) /\ c.method # "Key"
    BY <1>4, CallsAre DEF ItemAdded
  <2>2. key' \in {key, NoKey}
    BY <1>4, ItemTypes
  <2>3. /\ Len(stack') <= Len(stack) + Change(c)
        /\ Change(c) = IF c.method \in Starts THEN 1 ELSE 0
    BY <1>4, ItemLength
  <2> QED
    BY <1>1, <1>2, <1>3, <2>1, <2>2, <2>3
<1>5. CASE KeyGiven(c)
  <2>1. c.method = "Key" /\ key' = c.arg /\ stack' = stack
    BY <1>5 DEF KeyGiven
  <2>2. Change(c) = 0 /\ ~IsItem(c)
    BY <2>1 DEF Change, Starts, Ends, IsItem
  <2> QED
    BY <1>1, <1>2, <1>3, <2>1, <2>2
<1>6. CASE ContainerEnded(c)
  <2>1. c.method \in Ends /\ key' = key /\ stack' = Front(stack)
    BY <1>6 DEF ContainerEnded, Ends
  <2>2. Change(c) = -1 /\ ~IsItem(c) /\ c.method # "Key"
    BY <2>1 DEF Change, Starts, Ends, IsItem
  <2> QED
    BY <1>1, <1>2, <1>3, <2>1, <2>2
<1> QED
  BY <1>4, <1>5, <1>6 DEF Made

\* In a dict an item is added only where a key waits.
LEMMA KeyWaits ==
  ASSUME TypeInv, KeyIsLast(key, calls), NEW f, SoundOrRepeated(doc, stack, calls, f),
         NEW c \in CallSet, ItemAdded(c),
         calls[Opener(calls, Len(calls) + 1)].method = "StartDict"
  PROVE  KeysBefore(calls, Len(calls) + 1) # {}
<1>1. CASE Repeated(calls, f)
  BY <1>1 DEF SoundOrRepeated
<1>2. CASE ~Repeated(calls, f)
  <2>1. Sound(doc, stack, calls, f)
    BY <1>2 DEF SoundOrRepeated
  <2>2. PICK opens : AreOpen(opens, stack, calls, f)
    BY <2>1 DEF Sound
  <2>3. /\ stack \in Seq(DOMAIN doc \cup {Nil}) /\ stack # <<>> /\ calls \in Seq(CallSet)
        /\ PlacesOK(calls, f) /\ DocumentIs(doc, calls, f) /\ ~Misplaced
    BY <2>1 DEF TypeInv, ItemAdded, Sound
  <2>4. PICK o : TopIsOpener(doc, stack, calls, f, o)
    BY <2>2, <2>3, TopOfSound
  <2>5. doc[Top] = "dict"
    BY <2>4 DEF TopIsOpener, Top
  <2>6. key # NoKey
    BY <2>3, <2>5 DEF Misplaced
  <2> QED
    BY <2>6 DEF KeyIsLast
<1> QED
  BY <1>1, <1>2

\* The first call that returns keeps the invariant.
LEMMA FirstCall ==
  ASSUME TypeInv, BuilderInv, calls = <<>>, NEW c \in CallSet, Made(c)
  PROVE  BuilderInv'
<1> DEFINE ds == Append(calls, c)
           g == NextPlacing(calls, c, <<>>)
<1>1. Fresh(doc, key, stack, calls) /\ DepthsOK(calls) /\ ItemsHaveKeys(calls) /\ KeyIsLast(key, calls)
  BY DEF BuilderInv
<1>2. ItemAdded(c)
  <2>1. doc[Top] = "null"
    BY <1>1 DEF Fresh, Top, Last
  <2> QED
    BY <2>1 DEF Made, KeyGiven, ContainerEnded
<1>3. calls' = ds /\ calls \in Seq(CallSet) /\ Len(calls) = 0 /\ IsItem(c)
  BY <1>2, CallIs DEF ItemAdded
<1>4. Depth(calls, 1) = 0
  BY DepthNext
<1>5. IsPlacing(calls, <<>>)
  BY DEF IsPlacing, ItemsIn
<1>6. IsPlacing(ds, g)
  BY <1>1, <1>3, <1>5, PlacingNext
<1>7. ~Repeated(ds, g) /\ Sound(doc', stack', ds, g) /\ key' = NoKey
  BY <1>1, <1>2, FirstItem
<1>8. DepthsOK(ds)
  <2>1. Depth(calls, Len(calls) + 1) + Change(c) >= 0
    BY <1>3, <1>4, CallIs
  <2> QED
    BY <1>1, <1>3, <2>1, DepthsNext
<1>9. ItemsHaveKeys(ds)
  <2>1. Depth(calls, Len(calls) + 1) = 0
    BY <1>3, <1>4
  <2>2. ~(Depth(calls, Len(calls) + 1) > 0)
    BY <2>1
  <2> QED
    BY <1>1, <1>3, <2>2, ItemsHaveKeysNext
<1>10. ds # <<>>
  BY <1>3, OneMore
<1>11. Len(stack') <= Depth(ds, Len(ds) + 1)
  <2>1. Len(stack') = Depth(ds, Len(ds) + 1)
    BY <1>7 DEF Sound, AreOpen
  <2>2. Depth(ds, Len(ds) + 1) \in Int
    <3>1. Len(ds) + 1 \in Nat
      BY <1>3, OneMore
    <3> HIDE DEF ds
    <3> QED
      BY <3>1, DepthNext
  <2> HIDE DEF ds
  <2> QED
    BY <2>1, <2>2
<1> HIDE DEF ds, g
<1>12. SoundOrRepeated(doc', stack', ds, g) /\ KeyIsLast(key', ds)
  BY <1>7 DEF SoundOrRepeated, KeyIsLast
<1> QED
  BY <1>3, <1>6, <1>8, <1>9, <1>10, <1>11, <1>12 DEF BuilderInv

\* So does every other.
LEMMA FurtherCall ==
  ASSUME TypeInv, BuilderInv, calls # <<>>, NEW c \in CallSet, Made(c)
  PROVE  BuilderInv'
<1> DEFINE n == Len(calls)
           ds == Append(calls, c)
<1>1. DepthsOK(calls) /\ ItemsHaveKeys(calls) /\ KeyIsLast(key, calls)
  BY DEF BuilderInv
<1>2. Len(stack) <= Depth(calls, n + 1)
  BY DEF BuilderInv
<1>3. PICK f : IsPlacing(calls, f) /\ SoundOrRepeated(doc, stack, calls, f)
  BY DEF BuilderInv
<1> DEFINE g == NextPlacing(calls, c, f)
<1>4. /\ calls' = ds /\ calls \in Seq(CallSet)
      /\ IF c.method = "Key" THEN key' = c.arg ELSE key' \in {key, NoKey}
      /\ Len(stack) \in Nat /\ Len(stack) > 0 /\ Len(stack') <= Len(stack) + Change(c)
      /\ Change(c) \in {1, 0, -1}
  BY CallIs
<1>5. /\ n \in Nat /\ n + 1 \in Nat /\ Len(ds) + 1 = n + 2 /\ ds # <<>>
      /\ Depth(ds, n + 2) = Depth(calls, n + 1) + Change(c)
      /\ Depth(calls, n + 1) \in Int
  BY <1>4, OneMore, DepthAfter
<1>6. IsPlacing(ds, g) /\ Agree(Len(calls), f, g)
  BY <1>1, <1>3, <1>4, PlacingNext DEF Agree
<1>7. DepthsOK(ds)
  <2>1. Depth(calls, n + 1) + Change(c) >= 0
    <3> HIDE DEF n
    <3> QED
      BY <1>2, <1>4, <1>5
  <2> QED
    BY <1>1, <1>4, <2>1, DepthsNext
<1>8. ItemsHaveKeys(ds)
  <2>1. ASSUME IsItem(c), calls[Opener(calls, n + 1)].method = "StartDict"
        PROVE  KeysBefore(calls, n + 1) # {}
    <3>1. ItemAdded(c)
      BY <2>1 DEF Made, KeyGiven, ContainerEnded, IsItem, Starts
    <3> QED
      BY <1>1, <1>3, <2>1, <3>1, KeyWaits
  <2> QED
    BY <1>1, <1>4, <2>1, ItemsHaveKeysNext
<1>9. KeyIsLast(key', ds)
  BY <1>1, <1>4, KeyIsLastNext
<1>10. Len(stack') <= Depth(ds, Len(ds) + 1)
  <2>1. Len(stack') \in Int
    BY TypesStep DEF Made, TypeInv
  <2> HIDE DEF n, ds
  <2> QED
    BY <1>2, <1>4, <1>5, <2>1
<1>11. SoundOrRepeated(doc', stack', ds, g)
  <2>1. CASE Repeated(calls, f)
    <3>1. Repeated(ds, g)
      BY <1>4, <1>6, <2>1, RepeatedStays
    <3>2. KeysBefore(calls, n + 1) # {}
      BY <1>3, <2>1 DEF SoundOrRepeated
    <3>3. KeysBefore(ds, n + 2) # {}
      BY <1>4, <3>2, KeysNext
    <3> HIDE DEF ds, g, n
    <3> QED
      BY <1>5, <3>1, <3>3 DEF SoundOrRepeated
  <2>2. CASE ~Repeated(calls, f)
    <3>1. Sound(doc, stack, calls, f)
      BY <1>3, <2>2 DEF SoundOrRepeated
    <3>2. CASE ItemAdded(c)
      BY <1>1, <1>3, <2>2, <3>1, <3>2, SoundItem
    <3>3. CASE KeyGiven(c)
      BY <1>6, <2>2, <3>1, <3>3, SoundKey
    <3>4. CASE ContainerEnded(c)
      BY <1>6, <2>2, <3>1, <3>4, SoundEnd
    <3> QED
      BY <3>2, <3>3, <3>4 DEF Made
  <2> QED
    BY <2>1, <2>2
<1> HIDE DEF ds, g
<1> QED
  BY <1>4, <1>5, <1>6, <1>7, <1>8, <1>9, <1>10, <1>11 DEF BuilderInv

\* The invariant holds at the beginning.
LEMMA InvHolds == Init => BuilderInv
<1> SUFFICES ASSUME Init
             PROVE  BuilderInv
  OBVIOUS
<1>1. /\ DOMAIN doc = {Root} /\ doc[Root] = "null" /\ stack = <<Root>> /\ key = NoKey
      /\ calls = <<>> /\ Len(calls) = 0
  BY DEF Init
<1>2. DepthsOK(calls)
  BY <1>1, DepthNext DEF DepthsOK
<1>3. ItemsHaveKeys(calls)
  BY <1>1 DEF ItemsHaveKeys, ItemsIn
<1> QED
  BY <1>1, <1>2, <1>3 DEF BuilderInv, Fresh, KeyIsLast

\* Every step keeps it.
LEMMA InvStep == TypeInv /\ BuilderInv /\ [AnyCall]_vars => BuilderInv'
<1> SUFFICES ASSUME TypeInv, BuilderInv, [AnyCall]_vars
             PROVE  BuilderInv'
  OBVIOUS
<1>1. CASE \E c \in CallSet : Made(c)
  BY <1>1, FirstCall, FurtherCall
<1>2. CASE Ended \/ UNCHANGED vars
  <2>1. doc' = doc /\ key' = key /\ stack' = stack /\ calls' = calls
    BY <1>2 DEF Ended, vars, builder
  <2> QED
    BY <2>1 DEF BuilderInv
<1> QED
  BY <1>1, <1>2, StepIs

\* So it is an invariant.
LEMMA InvAlways == CallsAtLarge => [](TypeInv /\ BuilderInv)
  BY TypesHold, TypesStep, InvHolds, InvStep, PTL DEF CallsAtLarge

-----------------------------------------------------------------------------
(* Keys given twice.                                                        *)

\* A key has been given twice, by the places of the items.
RepeatedIn(cs) == \E f : IsPlacing(cs, f) /\ Repeated(cs, f)

\* Which is what the properties mean by that.
LEMMA RepeatedKeyIs == TypeInv /\ BuilderInv => (RepeatedKey <=> RepeatedIn(calls))
<1> SUFFICES ASSUME TypeInv, BuilderInv
             PROVE  RepeatedKey <=> RepeatedIn(calls)
  OBVIOUS
<1>1. calls \in Seq(CallSet) /\ DepthsOK(calls)
  BY DEF TypeInv, BuilderInv
<1>2. ItemCalls = ItemsIn(calls)
  BY DEF ItemCalls, ItemsIn
<1>3. ASSUME NEW f, IsPlacing(calls, f)
      PROVE  RepeatedKey <=> Repeated(calls, f)
  <2>1. \A i \in ItemsIn(calls) : PlaceOf[i] = f[i]
    BY <1>1, <1>3, PlaceOfIs
  <2> QED
    BY <1>2, <2>1 DEF RepeatedKey, Repeated
<1>4. \E f : IsPlacing(calls, f)
  <2>1. CASE calls = <<>>
    <3>1. IsPlacing(calls, <<>>)
      BY <2>1 DEF IsPlacing, ItemsIn
    <3> QED
      BY <3>1
  <2>2. CASE calls # <<>>
    BY <2>2 DEF BuilderInv
  <2> QED
    BY <2>1, <2>2
<1> QED
  BY <1>3, <1>4 DEF RepeatedIn

\* What has been given twice has been given twice.
LEMMA RepeatedInStays ==
  ASSUME TypeInv, BuilderInv, NEW c \in CallSet, RepeatedIn(calls)
  PROVE  RepeatedIn(Append(calls, c))
<1>1. calls \in Seq(CallSet) /\ DepthsOK(calls) /\ ItemsHaveKeys(calls)
  BY DEF TypeInv, BuilderInv
<1>2. PICK f : IsPlacing(calls, f) /\ Repeated(calls, f)
  BY DEF RepeatedIn
<1> DEFINE g == NextPlacing(calls, c, f)
<1>3. IsPlacing(Append(calls, c), g) /\ Agree(Len(calls), f, g)
  BY <1>1, <1>2, PlacingNext DEF Agree
<1>4. Repeated(Append(calls, c), g)
  BY <1>1, <1>2, <1>3, RepeatedStays
<1> HIDE DEF g
<1> QED
  BY <1>3, <1>4 DEF RepeatedIn

\* As long as no key has been given twice, the builder stands where the calls
\* have led.
Stands ==
  /\ Depth(calls, Len(calls) + 1) = Len(stack)
  /\ stack = <<>> => Depth(calls, Len(calls) + 1) = 0
  /\ stack # <<>> =>
       /\ Depth(calls, Len(calls) + 1) > 0
       /\ Top # Nil
       /\ calls[Opener(calls, Len(calls) + 1)].method \in Starts
       /\ doc[Top] = IF calls[Opener(calls, Len(calls) + 1)].method = "StartDict"
                     THEN "dict" ELSE "array"

\* That is so after the first call.
LEMMA WhereItStands == TypeInv /\ BuilderInv /\ calls # <<>> /\ ~RepeatedIn(calls) => Stands
<1> SUFFICES ASSUME TypeInv, BuilderInv, calls # <<>>, ~RepeatedIn(calls)
             PROVE  Stands
  OBVIOUS
<1>1. PICK f : IsPlacing(calls, f) /\ SoundOrRepeated(doc, stack, calls, f)
  BY DEF BuilderInv
<1>2. Sound(doc, stack, calls, f)
  BY <1>1 DEF SoundOrRepeated, RepeatedIn
<1>3. PICK opens : AreOpen(opens, stack, calls, f)
  BY <1>2 DEF Sound
<1>4. /\ stack \in Seq(DOMAIN doc \cup {Nil}) /\ calls \in Seq(CallSet)
      /\ PlacesOK(calls, f) /\ DocumentIs(doc, calls, f)
  BY <1>2 DEF TypeInv, Sound
<1>5. Depth(calls, Len(calls) + 1) = Len(stack)
  BY <1>3 DEF AreOpen
<1>6. CASE stack = <<>>
  BY <1>5, <1>6 DEF Stands
<1>7. CASE stack # <<>>
  <2>1. PICK o : TopIsOpener(doc, stack, calls, f, o)
    BY <1>3, <1>4, <1>7, TopOfSound
  <2> QED
    BY <1>5, <1>7, <2>1 DEF TopIsOpener, Stands, Top
<1> QED
  BY <1>6, <1>7

-----------------------------------------------------------------------------
(* How the builder ends.                                                    *)

\* Why a call is refused.
Refused(c) ==
  /\ outcome' = "threw" /\ refused' = c
  /\ \/ c.method = "Build" /\ (stack # <<>> \/ doc[Root] = "null")
     \/ c \in CallSet /\ IsItem(c) /\ (stack = <<>> \/ Misplaced)
     \/ c \in CallSet /\ c.method = "Key"
        /\ (doc[Root] = "null" \/ stack = <<>> \/ key # NoKey \/ doc[Top] # "dict")
     \/ c \in CallSet /\ c.method \in Ends /\ (stack = <<>> \/ doc[Top] # c.arg)

\* The ends there are.
EndsWell ==
  \/ outcome' = "built" /\ stack = <<>> /\ doc[Root] # "null"
  \/ outcome' = "crashed" /\ stack # <<>> /\ Top = Nil
  \/ \E c : Refused(c)

\* A step that ends the building does it in one of these ways.
LEMMA EndsHow == AnyCall => outcome' = outcome \/ EndsWell
<1> SUFFICES ASSUME AnyCall
             PROVE  outcome' = outcome \/ EndsWell
  OBVIOUS
<1>1. ASSUME NEW c \in CallSet, IsItem(c), NEW kind, NEW open, Add(c, kind, open)
      PROVE  outcome' = outcome \/ EndsWell
  <2>1. CASE stack = <<>>
    <3>1. Refused(c)
      BY <1>1, <2>1 DEF Add, Throw, Refused
    <3> QED
      BY <3>1 DEF EndsWell
  <2>2. CASE stack # <<>> /\ Top = Nil
    BY <1>1, <2>2 DEF Add, Crash, EndsWell
  <2>3. CASE stack # <<>> /\ Top # Nil /\ Misplaced
    <3>1. Refused(c)
      BY <1>1, <2>3 DEF Add, Throw, Refused
    <3> QED
      BY <3>1 DEF EndsWell
  <2>4. CASE stack # <<>> /\ Top # Nil /\ ~Misplaced
    BY <1>1, <2>4 DEF Add
  <2> QED
    BY <2>1, <2>2, <2>3, <2>4
<1>2. ASSUME NEW kind \in Kinds, Value(kind)
      PROVE  outcome' = outcome \/ EndsWell
  <2>1. Call("Value", kind) \in CallSet /\ IsItem(Call("Value", kind))
    BY DEF CallSet, IsItem, Call
  <2> QED
    BY <1>1, <1>2, <2>1 DEF Value
<1>3. ASSUME StartDict \/ StartArray
      PROVE  outcome' = outcome \/ EndsWell
  <2>1. /\ Call("StartDict", "dict") \in CallSet /\ IsItem(Call("StartDict", "dict"))
        /\ Call("StartArray", "array") \in CallSet /\ IsItem(Call("StartArray", "array"))
    BY DEF CallSet, IsItem, Call, Starts
  <2> QED
    BY <1>1, <1>3, <2>1 DEF StartDict, StartArray
<1>4. ASSUME NEW k \in AllKeys, Key(k)
      PROVE  outcome' = outcome \/ EndsWell
  <2> DEFINE c == Call("Key", k)
  <2>1. c \in CallSet /\ c.method = "Key"
    BY DEF CallSet, Call
  <2> HIDE DEF c
  <2>2. IF doc[Root] = "null" \/ stack = <<>> \/ key # NoKey THEN Throw(c)
        ELSE IF Top = Nil THEN Crash(c)
        ELSE IF doc[Top] # "dict" THEN Throw(c)
        ELSE outcome' = outcome
    BY <1>4 DEF Key, c
  <2>3. CASE Throw(c) /\ (doc[Root] = "null" \/ stack = <<>> \/ key # NoKey \/ doc[Top] # "dict")
    <3>1. Refused(c)
      BY <2>1, <2>3 DEF Throw, Refused
    <3> QED
      BY <3>1 DEF EndsWell
  <2>4. CASE stack # <<>> /\ Top = Nil /\ Crash(c)
    BY <2>4 DEF Crash, EndsWell
  <2> QED
    BY <2>2, <2>3, <2>4
<1>5. ASSUME NEW c \in CallSet, c.method \in Ends, End(c.method, c.arg), c = Call(c.method, c.arg)
      PROVE  outcome' = outcome \/ EndsWell
  <2>1. IF stack = <<>> THEN Throw(c)
        ELSE IF Top = Nil THEN Crash(c)
        ELSE IF doc[Top] # c.arg THEN Throw(c)
        ELSE outcome' = outcome
    BY <1>5 DEF End
  <2>2. CASE Throw(c) /\ (stack = <<>> \/ doc[Top] # c.arg)
    <3>1. Refused(c)
      BY <1>5, <2>2 DEF Throw, Refused
    <3> QED
      BY <3>1 DEF EndsWell
  <2>3. CASE stack # <<>> /\ Top = Nil /\ Crash(c)
    BY <2>3 DEF Crash, EndsWell
  <2> QED
    BY <2>1, <2>2, <2>3
<1>6. ASSUME EndDict \/ EndArray
      PROVE  outcome' = outcome \/ EndsWell
  <2>1. /\ Call("EndDict", "dict") \in CallSet /\ Call("EndArray", "array") \in CallSet
        /\ Call("EndDict", "dict").method = "EndDict" /\ Call("EndDict", "dict").arg = "dict"
        /\ Call("EndArray", "array").method = "EndArray" /\ Call("EndArray", "array").arg = "array"
    BY DEF CallSet, Call
  <2>2. CASE EndDict
    BY <1>5, <2>1, <2>2 DEF EndDict, Ends
  <2>3. CASE EndArray
    BY <1>5, <2>1, <2>3 DEF EndArray, Ends
  <2> QED
    BY <1>6, <2>2, <2>3
<1>7. ASSUME Build
      PROVE  outcome' = outcome \/ EndsWell
  <2> DEFINE c == Call("Build", NoKey)
  <2>1. c.method = "Build"
    BY DEF Call
  <2> HIDE DEF c
  <2>2. IF stack # <<>> \/ doc[Root] = "null" THEN Throw(c) ELSE outcome' = "built"
    BY <1>7 DEF Build, c
  <2>3. CASE stack # <<>> \/ doc[Root] = "null"
    <3>1. Refused(c)
      BY <2>1, <2>2, <2>3 DEF Throw, Refused
    <3> QED
      BY <3>1 DEF EndsWell
  <2>4. CASE ~(stack # <<>> \/ doc[Root] = "null")
    BY <2>2, <2>4 DEF EndsWell
  <2> QED
    BY <2>3, <2>4
<1> QED
  BY <1>2, <1>3, <1>4, <1>6, <1>7 DEF AnyCall

\* A step goes on, or comes to an end and changes nothing else, or stutters.
LEMMA StepGoesOn ==
  ASSUME [AnyCall]_vars
  PROVE  \/ outcome' = "building"
         \/ UNCHANGED vars
         \/ EndsWell /\ UNCHANGED <<builder, chained, context, calls>>
<1>1. CASE \E c \in CallSet : Made(c)
  BY <1>1 DEF Made, May
<1>2. CASE AnyCall /\ Ended
  <2>1. outcome' # outcome /\ UNCHANGED <<builder, chained, context, calls>>
    BY <1>2 DEF Ended
  <2> QED
    BY <1>2, <2>1, EndsHow
<1> QED
  BY <1>1, <1>2, StepIs

\* A builder that has crashed has been given a key twice.
CrashedInv == outcome = "crashed" => RepeatedIn(calls)

\* Every step keeps that.
LEMMA CrashedStep == TypeInv /\ BuilderInv /\ CrashedInv /\ [AnyCall]_vars => CrashedInv'
<1> SUFFICES ASSUME TypeInv, BuilderInv, CrashedInv, [AnyCall]_vars, outcome' = "crashed"
             PROVE  RepeatedIn(calls')
  BY DEF CrashedInv
<1>1. CASE UNCHANGED vars
  BY <1>1 DEF vars, CrashedInv
<1>2. CASE EndsWell /\ UNCHANGED <<builder, chained, context, calls>>
  <2>1. stack # <<>> /\ Top = Nil /\ calls' = calls
    BY <1>2 DEF EndsWell, Refused
  <2>2. CASE calls = <<>>
    <3>1. Top = Root
      BY <2>2 DEF BuilderInv, Fresh, Top, Last
    <3>2. Root # Nil
      <4>1. Root \in Paths
        BY DEF Root, Paths
      <4> QED
        BY <4>1, NilIsNoPath
    <3> QED
      BY <2>1, <3>1, <3>2
  <2>3. CASE calls # <<>>
    <3>1. RepeatedIn(calls)
      BY <2>1, <2>3, WhereItStands DEF Stands
    <3> QED
      BY <2>1, <3>1
  <2> QED
    BY <2>2, <2>3
<1> QED
  BY <1>1, <1>2, StepGoesOn

\* Whatever calls are made, the pointers stay good.
LEMMA PointersAlways == CallsAtLarge => []CrashesOnlyForRepeatedKeys
<1>1. Init => CrashedInv
  BY DEF Init, CrashedInv
<1>2. TypeInv /\ BuilderInv /\ CrashedInv => CrashesOnlyForRepeatedKeys
  BY RepeatedKeyIs DEF CrashedInv, CrashesOnlyForRepeatedKeys
<1> QED
  BY <1>1, <1>2, InvAlways, CrashedStep, PTL DEF CallsAtLarge

\* However the calls are mixed and however deep they go, no method is called
\* through a pointer to none while no key is given twice in a dict: no array
\* grows while one of its elements is open.
THEOREM PointersStayGood == Spec => []CrashesOnlyForRepeatedKeys
  BY SpecIsAtLarge, PointersAlways, PTL

-----------------------------------------------------------------------------
(* What is built.                                                           *)

\* A builder that has built has closed everything and has something to return.
BuiltInv ==
  /\ doc = [p \in DOMAIN doc |-> doc[p]]
  /\ outcome = "built" => stack = <<>> /\ doc[Root] # "null"

\* A document is a function from paths, whatever is added to it.
LEMMA DocumentStays ==
  ASSUME TypeInv, doc = [p \in DOMAIN doc |-> doc[p]], NEW c \in CallSet, Made(c)
  PROVE  doc' = [p \in DOMAIN doc' |-> doc'[p]]
<1>1. ASSUME NEW path, NEW kind, NEW rest, NEW open, Store(path, kind, rest, open)
      PROVE  doc' = [p \in DOMAIN doc' |-> doc'[p]]
  BY <1>1, Zenon DEF Store
<1>2. CASE ItemAdded(c)
  <2>1. AddItem(c.arg, c.method \in Starts)
    BY <1>2 DEF ItemAdded
  <2>2. CASE FillNull(c.arg, c.method \in Starts)
    BY <2>2 DEF FillNull
  <2>3. CASE AddToDict(c.arg, c.method \in Starts)
    BY <1>1, <2>3 DEF AddToDict
  <2>4. CASE AddToArray(c.arg, c.method \in Starts)
    BY <1>1, <2>4 DEF AddToArray
  <2>5. CASE AddToScalar(c.method \in Starts)
    BY <2>5 DEF AddToScalar
  <2> QED
    BY <2>1, <2>2, <2>3, <2>4, <2>5 DEF AddItem
<1>3. CASE KeyGiven(c) \/ ContainerEnded(c)
  <2>1. doc' = doc
    BY <1>3 DEF KeyGiven, ContainerEnded
  <2> QED
    BY <2>1
<1> QED
  BY <1>2, <1>3 DEF Made

\* Every step keeps that.
LEMMA BuiltStep == TypeInv /\ BuiltInv /\ [AnyCall]_vars => BuiltInv'
<1> SUFFICES ASSUME TypeInv, BuiltInv, [AnyCall]_vars
             PROVE  BuiltInv'
  OBVIOUS
<1>1. doc' = [p \in DOMAIN doc' |-> doc'[p]]
  <2>1. doc = [p \in DOMAIN doc |-> doc[p]]
    BY DEF BuiltInv
  <2>2. CASE \E c \in CallSet : Made(c)
    BY <2>1, <2>2, DocumentStays
  <2>3. CASE Ended \/ UNCHANGED vars
    <3>1. doc' = doc
      BY <2>3 DEF Ended, vars, builder
    <3> QED
      BY <2>1, <3>1
  <2> QED
    BY <2>2, <2>3, StepIs
<1>2. outcome' = "built" => stack' = <<>> /\ doc'[Root] # "null"
  <2>1. CASE UNCHANGED vars
    BY <2>1 DEF vars, builder, BuiltInv
  <2>2. CASE EndsWell /\ UNCHANGED <<builder, chained, context, calls>>
    BY <2>2 DEF EndsWell, Refused, builder
  <2> QED
    BY <2>1, <2>2, StepGoesOn
<1> QED
  BY <1>1, <1>2 DEF BuiltInv

\* The document has the items, each at its place.
LEMMA DocumentIsWritten ==
  ASSUME TypeInv, BuilderInv, BuiltInv, calls # <<>>, ~RepeatedIn(calls)
  PROVE  doc = Written
<1>1. PICK f : IsPlacing(calls, f) /\ SoundOrRepeated(doc, stack, calls, f)
  BY DEF BuilderInv
<1>2. DocumentIs(doc, calls, f)
  BY <1>1 DEF SoundOrRepeated, RepeatedIn, Sound
<1>3. calls \in Seq(CallSet) /\ DepthsOK(calls)
  BY DEF TypeInv, BuilderInv
<1>4. \A i \in ItemsIn(calls) : PlaceOf[i] = f[i]
  BY <1>1, <1>3, PlaceOfIs
<1>5. ItemCalls = ItemsIn(calls)
  BY DEF ItemCalls, ItemsIn
<1>6. DOMAIN doc = {PlaceOf[i] : i \in ItemCalls}
  BY <1>2, <1>4, <1>5 DEF DocumentIs
<1>7. ASSUME NEW p \in DOMAIN doc
      PROVE  doc[p] = calls[CHOOSE i \in ItemCalls : PlaceOf[i] = p].arg
  <2>1. \E i \in ItemCalls : PlaceOf[i] = p
    BY <1>6
  <2> DEFINE j == CHOOSE i \in ItemCalls : PlaceOf[i] = p
  <2>2. j \in ItemCalls /\ PlaceOf[j] = p
    BY <2>1
  <2> HIDE DEF j
  <2>3. doc[p] = calls[j].arg
    BY <1>2, <1>4, <1>5, <2>2 DEF DocumentIs
  <2> QED
    BY <2>3 DEF j
<1>8. Written = [p \in DOMAIN doc |-> calls[CHOOSE i \in ItemCalls : PlaceOf[i] = p].arg]
  BY <1>6 DEF Written
<1>9. doc = [p \in DOMAIN doc |-> doc[p]]
  BY DEF BuiltInv
<1>10. [p \in DOMAIN doc |-> doc[p]] =
         [p \in DOMAIN doc |-> calls[CHOOSE i \in ItemCalls : PlaceOf[i] = p].arg]
  BY <1>7, Zenon
<1> QED
  BY <1>8, <1>9, <1>10

\* Whatever calls are made, what is built is what they spell.
LEMMA BuiltAlways == CallsAtLarge => []BuiltIsWritten
<1>1. Init => BuiltInv
  <2> SUFFICES ASSUME Init
               PROVE  BuiltInv
    OBVIOUS
  <2>1. doc = [p \in {Root} |-> "null"] /\ outcome = "building"
    BY DEF Init
  <2>2. doc = [p \in DOMAIN doc |-> doc[p]]
    BY <2>1
  <2> QED
    BY <2>1, <2>2 DEF BuiltInv
<1>2. TypeInv /\ BuilderInv /\ BuiltInv => BuiltIsWritten
  <2> SUFFICES ASSUME TypeInv, BuilderInv, BuiltInv, outcome = "built", ~RepeatedKey
               PROVE  Depth(calls, Len(calls) + 1) = 0 /\ doc = Written
    BY DEF BuiltIsWritten
  <2>1. stack = <<>> /\ ~RepeatedIn(calls)
    BY RepeatedKeyIs DEF BuiltInv
  <2>2. calls # <<>>
    <3>1. <<Root>> # <<>>
      OBVIOUS
    <3> QED
      BY <2>1, <3>1 DEF BuilderInv, Fresh
  <2>3. Depth(calls, Len(calls) + 1) = 0
    BY <2>1, <2>2, WhereItStands DEF Stands
  <2> QED
    BY <2>1, <2>2, <2>3, DocumentIsWritten
<1> QED
  BY <1>1, <1>2, InvAlways, BuiltStep, PTL DEF CallsAtLarge

\* What Build returns is the document that the calls spell, however many they
\* are: every container has been ended, every node is at its place and of its
\* kind, and there is nothing else; unless a key has been given twice.
THEOREM BuiltCorrect == Spec => []BuiltIsWritten
  BY SpecIsAtLarge, BuiltAlways, PTL

-----------------------------------------------------------------------------
(* Sentences.                                                               *)

LastIsKey(cs) == cs # <<>> /\ cs[Len(cs)].method = "Key"

\* What a call must be inside of a container; of a key, before it.
FitsIn(c, inside, keyed) ==
  /\ IsItem(c) => (keyed <=> inside = "StartDict")
  /\ c.method \in {"Key", "EndDict"} => inside = "StartDict" /\ ~keyed
  /\ c.method = "EndArray" => inside = "StartArray"

\* The call continues a sentence.
Fits(cs, c) ==
  IF Depth(cs, Len(cs) + 1) = 0 THEN cs = <<>> /\ IsItem(c)
  ELSE FitsIn(c, cs[Opener(cs, Len(cs) + 1)].method, LastIsKey(cs))

\* Which is what WellFormed asks of each call inside of a container.
LEMMA FitsInIs ==
  ASSUME NEW c \in CallSet, NEW inside, NEW keyed \in BOOLEAN
  PROVE  FitsIn(c, inside, keyed) <=>
           CASE IsItem(c)            -> keyed <=> inside = "StartDict"
             [] c.method = "Key"      -> inside = "StartDict" /\ ~keyed
             [] c.method = "EndDict"  -> inside = "StartDict" /\ ~keyed
             [] c.method = "EndArray" -> inside = "StartArray"
<1>1. /\ c.method \in {"Value", "Key", "StartDict", "StartArray", "EndDict", "EndArray"}
      /\ IsItem(c) <=> c.method \in {"Value", "StartDict", "StartArray"}
  BY CallsAre
<1>2. CASE IsItem(c)
  BY <1>1, <1>2 DEF FitsIn
<1>3. CASE c.method = "Key"
  BY <1>1, <1>3 DEF FitsIn
<1>4. CASE c.method = "EndDict"
  BY <1>1, <1>4 DEF FitsIn
<1>5. CASE c.method = "EndArray"
  BY <1>1, <1>5 DEF FitsIn
<1> QED
  BY <1>1, <1>2, <1>3, <1>4, <1>5

\* The i-th call is as WellFormed asks.
StandsWell(cs, i) ==
  IF Depth(cs, i) = 0 THEN i = 1 /\ IsItem(cs[i])
  ELSE FitsIn(cs[i], cs[Opener(cs, i)].method, cs[i - 1].method = "Key")

\* A sequence of calls is well formed when each of them is.
LEMMA WellFormedIs ==
  ASSUME NEW cs \in Seq(CallSet)
  PROVE  WellFormed(cs) <=> \A i \in 1 .. Len(cs) : StandsWell(cs, i)
<1> DEFINE Asked(i) ==
             IF Depth(cs, i) = 0 THEN i = 1 /\ IsItem(cs[i])
             ELSE LET inside == cs[Opener(cs, i)].method
                      keyed  == cs[i - 1].method = "Key"
                  IN CASE IsItem(cs[i])            -> keyed <=> inside = "StartDict"
                       [] cs[i].method = "Key"      -> inside = "StartDict" /\ ~keyed
                       [] cs[i].method = "EndDict"  -> inside = "StartDict" /\ ~keyed
                       [] cs[i].method = "EndArray" -> inside = "StartArray"
<1>1. WellFormed(cs) <=> \A i \in DOMAIN cs : Asked(i)
  BY DEF WellFormed
<1>2. ASSUME NEW i \in DOMAIN cs
      PROVE  Asked(i) <=> StandsWell(cs, i)
  <2>1. cs[i] \in CallSet /\ (cs[i - 1].method = "Key") \in BOOLEAN
    OBVIOUS
  <2>2. FitsIn(cs[i], cs[Opener(cs, i)].method, cs[i - 1].method = "Key") <=>
          CASE IsItem(cs[i])            -> cs[i - 1].method = "Key" <=> cs[Opener(cs, i)].method = "StartDict"
            [] cs[i].method = "Key"      -> cs[Opener(cs, i)].method = "StartDict" /\ ~(cs[i - 1].method = "Key")
            [] cs[i].method = "EndDict"  -> cs[Opener(cs, i)].method = "StartDict" /\ ~(cs[i - 1].method = "Key")
            [] cs[i].method = "EndArray" -> cs[Opener(cs, i)].method = "StartArray"
    BY <2>1, FitsInIs
  <2> QED
    BY <2>2 DEF StandsWell
<1> HIDE DEF Asked
<1>3. DOMAIN cs = 1 .. Len(cs)
  OBVIOUS
<1> QED
  BY <1>1, <1>2, <1>3

\* It stays so with a call that fits, and with no other.
LEMMA WellFormedNext ==
  ASSUME NEW cs \in Seq(CallSet), NEW c \in CallSet, DepthsOK(cs)
  PROVE  WellFormed(Append(cs, c)) <=> WellFormed(cs) /\ Fits(cs, c)
<1> DEFINE n == Len(cs)
           ds == Append(cs, c)
<1>1. /\ n \in Nat /\ ds \in Seq(CallSet) /\ Len(ds) = n + 1 /\ ds[n + 1] = c
      /\ \A i \in 1 .. n : ds[i] = cs[i]
  BY OneMore
<1>2. \A i \in 1 .. n + 1 : Depth(ds, i) = Depth(cs, i) /\ Opener(ds, i) = Opener(cs, i)
  BY DepthKept, OpenerKept
<1>3. Depth(cs, 1) = 0 /\ \A i \in 1 .. n + 1 : Depth(cs, i) \in Int /\ Depth(cs, i) >= 0
  BY <1>1, DepthNext DEF DepthsOK
<1>4. \A i \in 1 .. n + 1 : Depth(cs, i) > 0 => Opener(cs, i) \in 1 .. n
  BY OpenerIsItem
<1>5. cs = <<>> <=> n = 0
  OBVIOUS
<1> HIDE DEF n, ds
<1>6. \A i \in 1 .. n + 1 : Depth(ds, i) # 0 =>
        ds[Opener(ds, i)] = cs[Opener(cs, i)] /\ i - 1 \in 1 .. n /\ ds[i - 1] = cs[i - 1]
  <2> TAKE i \in 1 .. n + 1
  <2> HAVE Depth(ds, i) # 0
  <2>1. Depth(cs, i) # 0 /\ Depth(cs, i) > 0 /\ i # 1 /\ Opener(ds, i) = Opener(cs, i)
    BY <1>2, <1>3
  <2>2. i - 1 \in 1 .. n
    BY <1>1, <2>1
  <2> QED
    BY <1>1, <1>4, <2>1, <2>2
<1>7. ASSUME NEW i \in 1 .. n
      PROVE  StandsWell(ds, i) <=> StandsWell(cs, i)
  <2>1. i \in 1 .. n + 1 /\ ds[i] = cs[i] /\ Depth(ds, i) = Depth(cs, i)
    BY <1>1, <1>2
  <2>2. CASE Depth(cs, i) = 0
    BY <2>1, <2>2 DEF StandsWell
  <2>3. CASE Depth(cs, i) # 0
    <3>1. ds[Opener(ds, i)] = cs[Opener(cs, i)] /\ ds[i - 1] = cs[i - 1]
      BY <1>6, <2>1, <2>3
    <3> QED
      BY <2>1, <2>3, <3>1 DEF StandsWell
  <2> QED
    BY <2>2, <2>3
<1>8. StandsWell(ds, n + 1) <=> Fits(cs, c)
  <2>1. n + 1 \in 1 .. n + 1 /\ Depth(ds, n + 1) = Depth(cs, n + 1) /\ (n + 1) - 1 = n
    BY <1>1, <1>2
  <2>2. CASE Depth(cs, n + 1) = 0
    <3>1. n + 1 = 1 <=> cs = <<>>
      BY <1>1, <1>5
    <3> QED
      BY <1>1, <2>1, <2>2, <3>1 DEF StandsWell, Fits, n
  <2>3. CASE Depth(cs, n + 1) # 0
    <3>1. ds[Opener(ds, n + 1)] = cs[Opener(cs, n + 1)] /\ n \in 1 .. n /\ ds[n] = cs[n]
      BY <1>6, <2>1, <2>3
    <3>2. (ds[(n + 1) - 1].method = "Key") <=> LastIsKey(cs)
      BY <1>1, <1>5, <2>1, <3>1 DEF LastIsKey, n
    <3>3. StandsWell(ds, n + 1) <=>
            FitsIn(c, cs[Opener(cs, n + 1)].method, ds[(n + 1) - 1].method = "Key")
      BY <1>1, <2>1, <2>3, <3>1 DEF StandsWell
    <3>4. Fits(cs, c) <=> FitsIn(c, cs[Opener(cs, n + 1)].method, LastIsKey(cs))
      BY <2>3 DEF Fits, n
    <3> QED
      BY <3>2, <3>3, <3>4 DEF FitsIn
  <2> QED
    BY <2>2, <2>3
<1>9. WellFormed(ds) <=> \A i \in 1 .. n + 1 : StandsWell(ds, i)
  BY <1>1, WellFormedIs
<1>10. WellFormed(cs) <=> \A i \in 1 .. n : StandsWell(cs, i)
  BY WellFormedIs DEF n
<1>11. \A i \in 1 .. n + 1 : i \in 1 .. n \/ i = n + 1
  BY <1>1
<1>12. n + 1 \in 1 .. n + 1 /\ \A i \in 1 .. n : i \in 1 .. n + 1
  BY <1>1
<1> HIDE DEF Fits
<1>13. WellFormed(ds) <=> WellFormed(cs) /\ Fits(cs, c)
  BY <1>7, <1>8, <1>9, <1>10, <1>11, <1>12
<1> QED
  BY <1>13 DEF ds

\* The key that waits, and the call before: a key given is waiting at a dict; a
\* chain remembers it; where the calls spell a sentence nothing comes between
\* a key and its value, and in a chain they do.
KeyInv ==
  /\ LastIsKey(calls) => key # NoKey /\ stack # <<>> /\ doc[Top] = "dict"
  /\ context = "Key" <=> LastIsKey(calls)
  /\ ~RepeatedIn(calls) /\ key # NoKey /\ WellFormed(calls) => LastIsKey(calls)
  /\ ~RepeatedIn(calls) /\ chained => WellFormed(calls)

\* An item leaves no key waiting.
LEMMA ItemTakesKey ==
  ASSUME TypeInv, BuilderInv, ~RepeatedIn(calls), NEW c \in CallSet, ItemAdded(c)
  PROVE  key' = NoKey
<1>1. CASE calls = <<>>
  <2>1. Fresh(doc, key, stack, calls)
    BY <1>1 DEF BuilderInv
  <2> QED
    BY <2>1, FirstItem
<1>2. CASE calls # <<>>
  <2>1. stack # <<>> /\ AddItem(c.arg, c.method \in Starts)
    BY DEF ItemAdded
  <2>2. doc[Top] \in {"dict", "array"}
    BY <1>2, <2>1, WhereItStands DEF Stands
  <2>3. AddToDict(c.arg, c.method \in Starts) \/ AddToArray(c.arg, c.method \in Starts)
    BY <2>1, <2>2 DEF AddItem, FillNull, AddToScalar
  <2> QED
    BY <2>3 DEF AddToDict, AddToArray
<1> QED
  BY <1>1, <1>2

\* In a chain a call that is accepted fits.
LEMMA CallFits ==
  ASSUME TypeInv, BuilderInv, KeyInv, ~RepeatedIn(calls), chained, NEW c \in CallSet, Made(c)
  PROVE  Fits(calls, c)
<1>1. CASE calls = <<>>
  <2>1. ItemAdded(c)
    <3>1. doc[Top] = "null"
      <4>1. Fresh(doc, key, stack, calls)
        BY <1>1 DEF BuilderInv
      <4> QED
        BY <4>1 DEF Fresh, Top, Last
    <3> QED
      BY <3>1 DEF Made, KeyGiven, ContainerEnded
  <2>2. Depth(calls, Len(calls) + 1) = 0
    <3>1. Len(calls) = 0
      BY <1>1
    <3> QED
      BY <3>1, DepthNext
  <2> QED
    BY <1>1, <2>1, <2>2 DEF Fits, ItemAdded
<1>2. CASE calls # <<>>
  <2> DEFINE inside == calls[Opener(calls, Len(calls) + 1)].method
  <2>1. stack # <<>>
    BY CallIs
  <2>2. /\ Depth(calls, Len(calls) + 1) > 0 /\ inside \in Starts
        /\ doc[Top] = IF inside = "StartDict" THEN "dict" ELSE "array"
    BY <1>2, <2>1, WhereItStands DEF Stands
  <2>3. Depth(calls, Len(calls) + 1) # 0
    BY <2>2
  <2>4. key # NoKey <=> LastIsKey(calls)
    BY DEF KeyInv
  <2>5. Fits(calls, c) <=> FitsIn(c, inside, LastIsKey(calls))
    BY <2>3 DEF Fits
  <2> HIDE DEF inside
  <2>6. CASE ItemAdded(c)
    <3>1. IsItem(c) /\ ~Misplaced
      BY <2>6 DEF ItemAdded
    <3>2. c.method \in {"Value", "StartDict", "StartArray"}
      BY <3>1, CallsAre
    <3>3. LastIsKey(calls) <=> inside = "StartDict"
      BY <2>2, <2>4, <3>1 DEF Misplaced
    <3> QED
      BY <2>5, <3>2, <3>3 DEF FitsIn
  <2>7. CASE KeyGiven(c)
    <3>1. c.method = "Key" /\ inside = "StartDict" /\ ~LastIsKey(calls) /\ ~IsItem(c)
      BY <2>2, <2>4, <2>7 DEF KeyGiven, IsItem, Starts
    <3> QED
      BY <2>5, <3>1 DEF FitsIn
  <2>8. CASE ContainerEnded(c)
    <3>1. \/ c.method = "EndDict" /\ doc[Top] = "dict"
          \/ c.method = "EndArray" /\ doc[Top] = "array"
      BY <2>8 DEF ContainerEnded
    <3>2. c.method \in Methods[context]
      BY DEF Made, May
    <3>3. context # "Key"
      BY <3>1, <3>2 DEF Methods
    <3>4. ~LastIsKey(calls) /\ ~IsItem(c)
      BY <3>1, <3>3 DEF KeyInv, IsItem, Starts
    <3>5. CASE c.method = "EndDict"
      <4>1. inside = "StartDict"
        BY <2>2, <3>1, <3>5
      <4> QED
        BY <2>5, <3>4, <3>5, <4>1 DEF FitsIn
    <3>6. CASE c.method = "EndArray"
      <4>1. inside = "StartArray"
        BY <2>2, <3>1, <3>6 DEF Starts
      <4> QED
        BY <2>5, <3>4, <3>6, <4>1 DEF FitsIn
    <3> QED
      BY <3>1, <3>5, <3>6
  <2> QED
    BY <2>6, <2>7, <2>8 DEF Made
<1> QED
  BY <1>1, <1>2

\* A call keeps the invariant of keys.
LEMMA KeyCall ==
  ASSUME TypeInv, BuilderInv, KeyInv, NEW c \in CallSet, Made(c)
  PROVE  KeyInv'
<1> DEFINE ds == Append(calls, c)
<1>1. calls' = ds /\ calls \in Seq(CallSet) /\ DepthsOK(calls)
  BY CallIs DEF BuilderInv
<1>2. LastIsKey(ds) <=> c.method = "Key"
  <2>1. Len(ds) = Len(calls) + 1 /\ ds[Len(calls) + 1] = c /\ ds # <<>>
    BY <1>1, OneMore
  <2> HIDE DEF ds
  <2> QED
    BY <2>1 DEF LastIsKey
<1>3. WellFormed(ds) <=> WellFormed(calls) /\ Fits(calls, c)
  BY <1>1, WellFormedNext
<1>4. RepeatedIn(calls) => RepeatedIn(ds)
  BY RepeatedInStays
<1> HIDE DEF ds
<1>5. LastIsKey(ds) => key' # NoKey /\ stack' # <<>> /\ doc'[Top'] = "dict"
  <2> HAVE LastIsKey(ds)
  <2>1. KeyGiven(c) /\ c.arg \in AllKeys
    BY <1>2, CallsAre DEF Made, ItemAdded, ContainerEnded, IsItem, Starts
  <2> QED
    BY <2>1, NoKeyIsNoKey DEF KeyGiven, Top
<1>6. context' = "Key" <=> LastIsKey(ds)
  <2>1. /\ c.method \in {"Value", "Key", "StartDict", "StartArray", "EndDict", "EndArray"}
        /\ context' = Result(c.method)
    BY CallsAre DEF Made, Accept
  <2>2. Result(c.method) = "Key" <=> c.method = "Key"
    BY <2>1 DEF Result
  <2> QED
    BY <1>2, <2>1, <2>2
<1>7. ASSUME ~RepeatedIn(ds), key' # NoKey, WellFormed(ds)
      PROVE  LastIsKey(ds)
  <2>1. ~RepeatedIn(calls) /\ WellFormed(calls) /\ Fits(calls, c)
    BY <1>3, <1>4, <1>7
  <2>2. ~ItemAdded(c)
    BY <1>7, <2>1, ItemTakesKey
  <2>3. ~ContainerEnded(c)
    <3> SUFFICES ASSUME ContainerEnded(c)
                 PROVE  FALSE
      OBVIOUS
    <3>1. LastIsKey(calls) /\ doc[Top] = "dict"
      BY <1>7, <2>1 DEF ContainerEnded, KeyInv
    <3>2. c.method = "EndDict" /\ stack # <<>> /\ calls # <<>>
      BY <3>1 DEF ContainerEnded, LastIsKey
    <3>3. Depth(calls, Len(calls) + 1) > 0
      BY <2>1, <3>2, WhereItStands DEF Stands
    <3>4. Depth(calls, Len(calls) + 1) # 0
      BY <3>3
    <3> QED
      BY <2>1, <3>1, <3>2, <3>4 DEF Fits, FitsIn
  <2>4. KeyGiven(c)
    BY <2>2, <2>3 DEF Made
  <2> QED
    BY <1>2, <2>4 DEF KeyGiven
<1>8. ASSUME ~RepeatedIn(ds), chained'
      PROVE  WellFormed(ds)
  <2>1. chained /\ ~RepeatedIn(calls)
    BY <1>4, <1>8 DEF Made, Accept
  <2>2. WellFormed(calls)
    BY <2>1 DEF KeyInv
  <2> QED
    BY <1>3, <2>1, <2>2, CallFits
<1> QED
  BY <1>1, <1>5, <1>6, <1>7, <1>8 DEF KeyInv

\* Every step keeps it.
LEMMA KeyStep == TypeInv /\ BuilderInv /\ KeyInv /\ [AnyCall]_vars => KeyInv'
<1> SUFFICES ASSUME TypeInv, BuilderInv, KeyInv, [AnyCall]_vars
             PROVE  KeyInv'
  OBVIOUS
<1>1. CASE \E c \in CallSet : Made(c)
  BY <1>1, KeyCall
<1>2. CASE Ended \/ UNCHANGED vars
  <2>1. /\ doc' = doc /\ key' = key /\ stack' = stack /\ calls' = calls
        /\ context' = context /\ chained' = chained
    BY <1>2 DEF Ended, vars, builder
  <2> QED
    BY <2>1 DEF KeyInv, Top
<1> QED
  BY <1>1, <1>2, StepIs

\* What has been refused does not continue the calls, or does not end them.
RefusedInv ==
  outcome = "threw" /\ doc[Root] # "null" /\ ~RepeatedIn(calls) =>
    IF refused.method = "Build" THEN ~IsSentence(calls)
    ELSE ~WellFormed(Append(calls, refused))

\* A call that is refused does not fit.
LEMMA RefusedFitsNot ==
  ASSUME TypeInv, BuilderInv, KeyInv, ~RepeatedIn(calls), calls # <<>>, WellFormed(calls),
         doc[Root] # "null", NEW c \in CallSet, Refused(c)
  PROVE  ~Fits(calls, c)
<1> DEFINE inside == calls[Opener(calls, Len(calls) + 1)].method
<1>1. /\ c.method \in {"Value", "Key", "StartDict", "StartArray", "EndDict", "EndArray"}
      /\ IsItem(c) <=> c.method \in {"Value", "StartDict", "StartArray"}
      /\ c.method = "EndDict" => c.arg = "dict"
      /\ c.method = "EndArray" => c.arg = "array"
  <2>1. c.method = "EndDict" => c.arg = "dict"
    BY DEF CallSet, Call
  <2>2. c.method = "EndArray" => c.arg = "array"
    BY DEF CallSet, Call
  <2> QED
    BY <2>1, <2>2, CallsAre
<1>2. Stands
  BY WhereItStands
<1>3. CASE stack = <<>>
  BY <1>2, <1>3 DEF Stands, Fits
<1>4. CASE stack # <<>>
  <2>1. /\ Depth(calls, Len(calls) + 1) > 0 /\ inside \in Starts
        /\ doc[Top] = IF inside = "StartDict" THEN "dict" ELSE "array"
    BY <1>2, <1>4 DEF Stands
  <2>2. Depth(calls, Len(calls) + 1) # 0
    BY <2>1
  <2>3. key # NoKey <=> LastIsKey(calls)
    BY DEF KeyInv
  <2>4. Fits(calls, c) <=> FitsIn(c, inside, LastIsKey(calls))
    BY <2>2 DEF Fits
  <2> HIDE DEF inside
  <2>5. CASE IsItem(c)
    <3>1. Misplaced
      BY <1>1, <1>4, <2>5 DEF Refused, Ends
    <3>2. ~(LastIsKey(calls) <=> inside = "StartDict")
      BY <2>1, <2>3, <3>1 DEF Misplaced
    <3> QED
      BY <2>4, <2>5, <3>2 DEF FitsIn
  <2>6. CASE c.method = "Key"
    <3>1. key # NoKey \/ doc[Top] # "dict"
      BY <1>1, <1>4, <2>6 DEF Refused, Ends
    <3>2. LastIsKey(calls) \/ inside # "StartDict"
      BY <2>1, <2>3, <3>1
    <3> QED
      BY <2>4, <2>6, <3>2 DEF FitsIn
  <2>7. CASE c.method \in Ends
    <3>1. doc[Top] # c.arg
      BY <1>1, <1>4, <2>7 DEF Refused, Ends
    <3>2. CASE c.method = "EndDict"
      <4>1. inside # "StartDict"
        BY <1>1, <2>1, <3>1, <3>2
      <4> QED
        BY <2>4, <3>2, <4>1 DEF FitsIn
    <3>3. CASE c.method = "EndArray"
      <4>1. inside # "StartArray"
        BY <1>1, <2>1, <3>1, <3>3
      <4> QED
        BY <2>4, <3>3, <4>1 DEF FitsIn
    <3> QED
      BY <2>7, <3>2, <3>3 DEF Ends
  <2> QED
    BY <1>1, <2>5, <2>6, <2>7 DEF Ends
<1> QED
  BY <1>3, <1>4

\* Every step keeps that.
LEMMA RefusedStep == TypeInv /\ BuilderInv /\ KeyInv /\ RefusedInv /\ [AnyCall]_vars => RefusedInv'
<1> SUFFICES ASSUME TypeInv, BuilderInv, KeyInv, RefusedInv, [AnyCall]_vars,
                    outcome' = "threw", doc'[Root] # "null", ~RepeatedIn(calls')
             PROVE  IF refused'.method = "Build" THEN ~IsSentence(calls')
                    ELSE ~WellFormed(Append(calls', refused'))
  BY DEF RefusedInv
<1>1. CASE UNCHANGED vars
  BY <1>1 DEF vars, builder, RefusedInv
<1>2. CASE EndsWell /\ UNCHANGED <<builder, chained, context, calls>>
  <2>1. PICK c : Refused(c)
    BY <1>2 DEF EndsWell
  <2>2. refused' = c /\ calls' = calls /\ ~RepeatedIn(calls) /\ doc[Root] # "null"
    BY <1>2, <2>1 DEF Refused, builder
  <2>3. calls # <<>>
    BY <2>2 DEF BuilderInv, Fresh
  <2>4. CASE c.method = "Build"
    <3>1. stack # <<>>
      <4>1. \A d \in CallSet : d.method # "Build"
        BY CallsAre
      <4> QED
        BY <2>1, <2>2, <2>4, <4>1 DEF Refused
    <3>2. Depth(calls, Len(calls) + 1) > 0
      BY <2>2, <2>3, <3>1, WhereItStands DEF Stands
    <3>3. ~IsSentence(calls)
      BY <3>2 DEF IsSentence
    <3> QED
      BY <2>2, <2>4, <3>3
  <2>5. CASE c.method # "Build"
    <3>1. c \in CallSet
      BY <2>1, <2>5 DEF Refused
    <3>2. WellFormed(Append(calls, c)) <=> WellFormed(calls) /\ Fits(calls, c)
      BY <3>1, WellFormedNext DEF TypeInv, BuilderInv
    <3>3. ~WellFormed(Append(calls, c))
      BY <2>1, <2>2, <2>3, <3>1, <3>2, RefusedFitsNot
    <3> QED
      BY <2>2, <2>5, <3>3
  <2> QED
    BY <2>4, <2>5
<1> QED
  BY <1>1, <1>2, StepGoesOn

\* Whatever calls are made, those that are accepted are a sentence.
LEMMA SentencesAlways == CallsAtLarge => []CallsAreASentence
<1>1. Init => KeyInv /\ RefusedInv
  <2> SUFFICES ASSUME Init
               PROVE  KeyInv /\ RefusedInv
    OBVIOUS
  <2>1. calls = <<>> /\ key = NoKey /\ context = "Builder" /\ outcome = "building"
    BY DEF Init
  <2>2. WellFormed(calls)
    BY <2>1 DEF WellFormed
  <2> QED
    BY <2>1, <2>2 DEF KeyInv, RefusedInv, LastIsKey
<1>2. TypeInv /\ BuilderInv /\ KeyInv /\ RefusedInv => CallsAreASentence
  <2> SUFFICES ASSUME TypeInv, BuilderInv, KeyInv, RefusedInv, ~RepeatedKey
               PROVE  /\ chained => WellFormed(calls)
                      /\ outcome = "threw" /\ doc[Root] # "null" =>
                           IF refused.method = "Build" THEN ~IsSentence(calls)
                           ELSE ~WellFormed(Append(calls, refused))
    BY DEF CallsAreASentence
  <2>1. ~RepeatedIn(calls)
    BY RepeatedKeyIs
  <2> QED
    BY <2>1 DEF KeyInv, RefusedInv
<1> QED
  BY <1>1, <1>2, InvAlways, KeyStep, RefusedStep, PTL DEF CallsAtLarge

\* While no key is given twice: a chain accepts nothing but beginnings of
\* sentences, however long, and no call that continues one and no Build that
\* ends one is refused, in a chain or not, unless the document is null.
THEOREM CallsSpellASentence == Spec => []CallsAreASentence
  BY SpecIsAtLarge, SentencesAlways, PTL

-----------------------------------------------------------------------------
(* The answers: which calls they are.                                       *)

Texts ==
  {Call("Value", kind) : kind \in Kinds} \cup {Call("Key", k) : k \in Names}
  \cup {Call("StartDict", "dict"), Call("StartArray", "array"),
        Call("EndDict", "dict"), Call("EndArray", "array"),
        Call("EndDict", NoKey), Call("EndArray", NoKey)}

\* The first n members of a dict: no two have one name.
AreMembers(ks, kinds, n) ==
  /\ n \in Nat
  /\ \A x \in 1 .. n : ks[x] \in Names /\ kinds[x] \in Kinds
  /\ \A x, y \in 1 .. n : ks[x] = ks[y] => x = y

\* The calls for the first n members of a dict, one after the other.
Spelled(c, ks, kinds, n) ==
  /\ c \in Seq(Texts) /\ Len(c) = 2 * n
  /\ \A i \in 1 .. n : c[2 * i - 1] = Call("Key", ks[i]) /\ c[2 * i] = Call("Value", kinds[i])

\* The calls for a dict of n members.
IsDict(c, ks, kinds, n) ==
  /\ c \in Seq(Texts) /\ Len(c) = 2 * n + 2
  /\ c[1] = Call("StartDict", "dict")
  /\ \A i \in 1 .. n : c[2 * i] = Call("Key", ks[i]) /\ c[2 * i + 1] = Call("Value", kinds[i])
  /\ c[2 * n + 2] = Call("EndDict", NoKey)

\* Two sequences of such lengths, one behind the other.
Behind(u, s, t, m, n) ==
  /\ Len(u) = m + n
  /\ \A i \in 1 .. m : u[i] = s[i]
  /\ \A i \in 1 .. n : u[m + i] = t[i]

\* That is what joins them.
LEMMA OneBehind ==
  ASSUME NEW S, NEW s \in Seq(S), NEW t \in Seq(S), NEW m \in Nat, NEW n \in Nat,
         Len(s) = m, Len(t) = n
  PROVE  s \o t \in Seq(S) /\ Behind(s \o t, s, t, m, n)
<1> DEFINE u == s \o t
<1>1. u \in Seq(S) /\ Len(u) = m + n
  BY ConcatProperties
<1>2. \A i \in 1 .. m + n : u[i] = IF i <= m THEN s[i] ELSE t[i - m]
  BY ConcatProperties
<1> HIDE DEF u
<1>3. \A i \in 1 .. m : u[i] = s[i]
  BY <1>2
<1>4. ASSUME NEW i \in 1 .. n
      PROVE  u[m + i] = t[i]
  <2>1. m + i \in 1 .. m + n /\ ~(m + i <= m) /\ (m + i) - m = i
    OBVIOUS
  <2>2. u[m + i] = t[(m + i) - m]
    BY <1>2, <2>1
  <2> QED
    BY <2>1, <2>2
<1>5. \A i \in 1 .. n : u[m + i] = t[i]
  BY <1>4
<1> QED
  BY <1>1, <1>3, <1>5 DEF u, Behind

\* The calls of the answers are calls.
LEMMA CallsAreTexts ==
  /\ \A k \in Names : Call("Key", k) \in Texts
  /\ \A kind \in Kinds : Call("Value", kind) \in Texts
  /\ Call("StartDict", "dict") \in Texts /\ Call("StartArray", "array") \in Texts
  /\ Call("EndDict", NoKey) \in Texts /\ Call("EndArray", NoKey) \in Texts
  BY DEF Call, Texts, Kinds

\* Pair makes two calls.
LEMMA PairIs ==
  ASSUME NEW k \in Names, NEW kind \in Kinds
  PROVE  /\ Pair(k, kind) \in Seq(Texts) /\ Len(Pair(k, kind)) = 2
         /\ Pair(k, kind)[1] = Call("Key", k) /\ Pair(k, kind)[2] = Call("Value", kind)
<1>1. Call("Key", k) \in Texts /\ Call("Value", kind) \in Texts
  BY CallsAreTexts
<1> QED
  BY <1>1 DEF Pair

\* A pair spells one member.
LEMMA PairSpelled ==
  ASSUME NEW ks, NEW kinds, ks[1] \in Names, kinds[1] \in Kinds
  PROVE  Spelled(Pair(ks[1], kinds[1]), ks, kinds, 1)
<1> DEFINE p == Pair(ks[1], kinds[1])
<1>1. p \in Seq(Texts) /\ Len(p) = 2 /\ p[1] = Call("Key", ks[1]) /\ p[2] = Call("Value", kinds[1])
  BY PairIs
<1> HIDE DEF p
<1>2. \A i \in 1 .. 1 : p[2 * i - 1] = Call("Key", ks[i]) /\ p[2 * i] = Call("Value", kinds[i])
  BY <1>1
<1>3. Spelled(p, ks, kinds, 1)
  BY <1>1, <1>2 DEF Spelled
<1> QED
  BY <1>3 DEF p

\* With another pair behind, they spell one more.
LEMMA PairsSpelled ==
  ASSUME NEW n \in Nat, NEW c, NEW ks, NEW kinds, Spelled(c, ks, kinds, n),
         ks[n + 1] \in Names, kinds[n + 1] \in Kinds
  PROVE  Spelled(c \o Pair(ks[n + 1], kinds[n + 1]), ks, kinds, n + 1)
<1> DEFINE p == Pair(ks[n + 1], kinds[n + 1])
           d == c \o p
<1>1. p \in Seq(Texts) /\ Len(p) = 2 /\ p[1] = Call("Key", ks[n + 1]) /\ p[2] = Call("Value", kinds[n + 1])
  BY PairIs
<1>2. c \in Seq(Texts) /\ Len(c) = 2 * n
  BY DEF Spelled
<1> HIDE DEF p
<1> DEFINE m == 2 * n
<1>3. m \in Nat /\ Len(c) = m /\ 2 \in Nat
  BY <1>2
<1> HIDE DEF m
<1>3b. d \in Seq(Texts) /\ Behind(d, c, p, m, 2)
  BY <1>1, <1>2, <1>3, OneBehind
<1> HIDE DEF d
<1>3a. d \in Seq(Texts) /\ Len(d) = 2 * n + 2
  BY <1>3b DEF m, Behind
<1>4. /\ \A j \in 1 .. 2 * n : d[j] = c[j]
      /\ d[2 * n + 1] = p[1] /\ d[2 * n + 2] = p[2]
  <2>1. d[m + 1] = p[1] /\ d[m + 2] = p[2]
    BY <1>3b DEF Behind
  <2> QED
    BY <1>3b, <2>1 DEF m, Behind
<1>5. ASSUME NEW i \in 1 .. n + 1
      PROVE  d[2 * i - 1] = Call("Key", ks[i]) /\ d[2 * i] = Call("Value", kinds[i])
  <2>1. CASE i \in 1 .. n
    <3>1. 2 * i - 1 \in 1 .. 2 * n /\ 2 * i \in 1 .. 2 * n
      BY <2>1
    <3>2. c[2 * i - 1] = Call("Key", ks[i]) /\ c[2 * i] = Call("Value", kinds[i])
      BY <2>1 DEF Spelled
    <3> QED
      BY <1>4, <3>1, <3>2
  <2>2. CASE i = n + 1
    <3>1. 2 * i - 1 = 2 * n + 1 /\ 2 * i = 2 * n + 2
      BY <2>2
    <3> QED
      BY <1>1, <1>4, <2>2, <3>1
  <2> QED
    BY <2>1, <2>2
<1>6. 2 * (n + 1) = 2 * n + 2
  OBVIOUS
<1>7. Spelled(d, ks, kinds, n + 1)
  BY <1>3a, <1>5, <1>6 DEF Spelled
<1> QED
  BY <1>7 DEF p, d

\* InDict spells a dict of the members inside.
LEMMA DictSpelled ==
  ASSUME NEW n \in Nat, NEW c, NEW ks, NEW kinds, Spelled(c, ks, kinds, n)
  PROVE  IsDict(InDict(c), ks, kinds, n)
<1> DEFINE s == Call("StartDict", "dict")
           e == Call("EndDict", NoKey)
           d == <<s>> \o c \o <<e>>
<1>1. /\ c \in Seq(Texts) /\ Len(c) = 2 * n
      /\ \A i \in 1 .. n : c[2 * i - 1] = Call("Key", ks[i]) /\ c[2 * i] = Call("Value", kinds[i])
  BY DEF Spelled
<1>2. s \in Texts /\ e \in Texts
  BY CallsAreTexts
<1> HIDE DEF s, e
<1>3. <<s>> \in Seq(Texts) /\ Len(<<s>>) = 1 /\ <<e>> \in Seq(Texts) /\ Len(<<e>>) = 1
  BY <1>2
<1> DEFINE sc == <<s>> \o c
<1>4. 2 * n \in Nat /\ 1 + 2 * n \in Nat
  OBVIOUS
<1>5. sc \in Seq(Texts) /\ Behind(sc, <<s>>, c, 1, 2 * n)
  BY <1>1, <1>3, <1>4, OneBehind
<1> HIDE DEF sc
<1>6. Len(sc) = 1 + 2 * n
  BY <1>5 DEF Behind
<1>6a. d \in Seq(Texts) /\ Behind(d, sc, <<e>>, 1 + 2 * n, 1)
  <2>1. sc \o <<e>> \in Seq(Texts) /\ Behind(sc \o <<e>>, sc, <<e>>, 1 + 2 * n, 1)
    BY <1>3, <1>4, <1>5, <1>6, OneBehind
  <2> QED
    BY <2>1 DEF sc
<1> HIDE DEF d
<1>6b. d \in Seq(Texts) /\ Len(d) = 2 * n + 2
  BY <1>6a DEF Behind
<1>6c. d[1] = s /\ d[2 * n + 2] = e
  <2>1. 1 \in 1 .. 1 /\ 1 \in 1 .. 1 + 2 * n /\ (1 + 2 * n) + 1 = 2 * n + 2
    OBVIOUS
  <2>2. <<s>>[1] = s /\ <<e>>[1] = e
    OBVIOUS
  <2>3. d[1] = sc[1] /\ sc[1] = <<s>>[1] /\ d[(1 + 2 * n) + 1] = <<e>>[1]
    BY <1>5, <1>6a, <2>1 DEF Behind
  <2> QED
    BY <2>1, <2>2, <2>3
<1>6d. ASSUME NEW j \in 1 .. 2 * n
       PROVE  d[j + 1] = c[j]
  <2>1. 1 + j \in 1 .. 1 + 2 * n /\ 1 + j = j + 1
    OBVIOUS
  <2> QED
    BY <1>5, <1>6a, <2>1 DEF Behind
<1>7. ASSUME NEW i \in 1 .. n
      PROVE  d[2 * i] = Call("Key", ks[i]) /\ d[2 * i + 1] = Call("Value", kinds[i])
  <2>1. 2 * i - 1 \in 1 .. 2 * n /\ 2 * i \in 1 .. 2 * n /\ (2 * i - 1) + 1 = 2 * i
    OBVIOUS
  <2>2. d[(2 * i - 1) + 1] = c[2 * i - 1] /\ d[2 * i + 1] = c[2 * i]
    BY <1>6d, <2>1
  <2> QED
    BY <1>1, <2>1, <2>2
<1>8. IsDict(d, ks, kinds, n)
  BY <1>1, <1>6b, <1>6c, <1>7 DEF IsDict, s, e
<1> QED
  BY <1>8 DEF InDict, d, s, e

-----------------------------------------------------------------------------
\* What the answers in one chain have besides the id of the request.
Results == {{"error_message"}, {"buses"}, {"map"},
            {"curvature", "route_length", "stop_count", "unique_stop_count"}}

\* An answer in one chain is a dict with the id of the request and what the
\* result calls for.
IsChain(c, ks, kinds, n) ==
  /\ AreMembers(ks, kinds, n) /\ IsDict(c, ks, kinds, n)
  /\ n # 0 /\ ks[1] = "request_id" /\ kinds[1] = "scalar"
  /\ {ks[x] : x \in 1 .. n} \ {"request_id"} \in Results

\* The answers in one chain are such dicts.
LEMMA ChainsAre ==
  ASSUME NEW c \in Chains
  PROVE  \E ks, kinds, n : IsChain(c, ks, kinds, n)
<1>1. "scalar" \in Kinds /\ "array" \in Kinds
  BY DEF Kinds
<1>2. ASSUME NEW b \in {"error_message", "buses", "map"}, NEW kind \in Kinds,
             c = InDict(Pair("request_id", "scalar") \o Pair(b, kind))
      PROVE  \E ks, kinds, n : IsChain(c, ks, kinds, n)
  <2> DEFINE ks == <<"request_id", b>>
             kinds == <<"scalar", kind>>
  <2>1. ks[1] = "request_id" /\ ks[2] = b /\ kinds[1] = "scalar" /\ kinds[2] = kind /\ 1 .. 2 = {1, 2}
    OBVIOUS
  <2> HIDE DEF ks, kinds
  <2>2. ks[1] \in Names /\ ks[2] \in Names /\ kinds[1] \in Kinds /\ kinds[2] \in Kinds
    BY <1>1, <2>1 DEF Names
  <2>3. AreMembers(ks, kinds, 2)
    BY <2>1, <2>2 DEF AreMembers
  <2>4. Spelled(Pair("request_id", "scalar"), ks, kinds, 1)
    BY <2>1, <2>2, PairSpelled
  <2>5. Spelled(Pair("request_id", "scalar") \o Pair(b, kind), ks, kinds, 2)
    BY <2>1, <2>2, <2>4, PairsSpelled, 1 + 1 = 2
  <2>6. IsDict(c, ks, kinds, 2)
    BY <1>2, <2>5, DictSpelled
  <2>7. {ks[x] : x \in 1 .. 2} \ {"request_id"} = {b}
    BY <2>1
  <2>8. {ks[x] : x \in 1 .. 2} \ {"request_id"} \in Results
    BY <2>7 DEF Results
  <2> QED
    BY <2>1, <2>3, <2>6, <2>8 DEF IsChain
<1>3. ASSUME c = CreateBusNode(TRUE)
      PROVE  \E ks, kinds, n : IsChain(c, ks, kinds, n)
  <2> DEFINE ks == <<"request_id", "curvature", "route_length", "stop_count", "unique_stop_count">>
             kinds == <<"scalar", "scalar", "scalar", "scalar", "scalar">>
  <2>1. /\ ks[1] = "request_id" /\ ks[2] = "curvature" /\ ks[3] = "route_length"
        /\ ks[4] = "stop_count" /\ ks[5] = "unique_stop_count"
        /\ kinds[1] = "scalar" /\ kinds[2] = "scalar" /\ kinds[3] = "scalar" /\ kinds[4] = "scalar"
        /\ kinds[5] = "scalar"
    OBVIOUS
  <2> HIDE DEF ks, kinds
  <2>2. 1 .. 5 = {1, 2, 3, 4, 5}
    OBVIOUS
  <2>3. \A x \in 1 .. 5 : ks[x] \in Names /\ kinds[x] \in Kinds
    BY <1>1, <2>1, <2>2 DEF Names
  <2>4. AreMembers(ks, kinds, 5)
    BY <2>1, <2>2, <2>3 DEF AreMembers
  <2>5. Spelled(Pair("request_id", "scalar"), ks, kinds, 1)
    BY <2>1, <2>3, PairSpelled
  <2>6. Spelled(Pair("request_id", "scalar") \o Pair("curvature", "scalar"), ks, kinds, 2)
    BY <2>1, <2>3, <2>5, PairsSpelled, 1 + 1 = 2
  <2>7. Spelled(Pair("request_id", "scalar") \o Pair("curvature", "scalar")
                \o Pair("route_length", "scalar"), ks, kinds, 3)
    BY <2>1, <2>3, <2>6, PairsSpelled, 2 + 1 = 3
  <2>8. Spelled(Pair("request_id", "scalar") \o Pair("curvature", "scalar")
                \o Pair("route_length", "scalar") \o Pair("stop_count", "scalar"), ks, kinds, 4)
    BY <2>1, <2>3, <2>7, PairsSpelled, 3 + 1 = 4
  <2>9. Spelled(Pair("request_id", "scalar") \o Pair("curvature", "scalar")
                \o Pair("route_length", "scalar") \o Pair("stop_count", "scalar")
                \o Pair("unique_stop_count", "scalar"), ks, kinds, 5)
    BY <2>1, <2>3, <2>8, PairsSpelled, 4 + 1 = 5
  <2>10. IsDict(c, ks, kinds, 5)
    BY <1>3, <2>9, DictSpelled DEF CreateBusNode
  <2>11. {ks[x] : x \in 1 .. 5} = {ks[1], ks[2], ks[3], ks[4], ks[5]}
    BY <2>2
  <2>12. {ks[x] : x \in 1 .. 5} \ {"request_id"}
           = {"curvature", "route_length", "stop_count", "unique_stop_count"}
    BY <2>1, <2>11
  <2>13. {ks[x] : x \in 1 .. 5} \ {"request_id"} \in Results
    BY <2>12 DEF Results
  <2> QED
    BY <2>1, <2>4, <2>10, <2>13 DEF IsChain
<1>4. /\ CreateStopNode(TRUE) = InDict(Pair("request_id", "scalar") \o Pair("buses", "array"))
      /\ CreateMapNode = InDict(Pair("request_id", "scalar") \o Pair("map", "scalar"))
      /\ NotFoundNode = InDict(Pair("request_id", "scalar") \o Pair("error_message", "scalar"))
  BY DEF CreateStopNode, CreateMapNode, NotFoundNode
<1>5. c \in {CreateStopNode(TRUE), CreateBusNode(TRUE), CreateMapNode, NotFoundNode}
  BY DEF Chains
<1> QED
  BY <1>1, <1>2, <1>3, <1>4, <1>5

-----------------------------------------------------------------------------
(* The answers: what the calls do.                                          *)

\* The node at a path has these members or elements, and no others.
Holds(d, a, steps) == a \in DOMAIN d /\ Below(d, a) = {Append(a, x) : x \in steps}

\* All nodes stay, and only at one path do any come.
KeptBut(d, e, a) ==
  \A p \in DOMAIN d : p \in DOMAIN e /\ e[p] = d[p] /\ (p # a => Below(e, p) = Below(d, p))

\* A node more in a container.
LEMMA OneGrown ==
  ASSUME NEW d, IsTree(d), NEW a \in DOMAIN d, NEW x \in Steps, NEW kind,
         Append(a, x) \notin DOMAIN d, NEW steps, Holds(d, a, steps)
  PROVE  LET e == WithNode(d, Append(a, x), kind) IN
         /\ e[Append(a, x)] = kind
         /\ Holds(e, a, steps \cup {x})
         /\ Holds(e, Append(a, x), {})
         /\ KeptBut(d, e, a)
<1> DEFINE p == Append(a, x)
           e == WithNode(d, p, kind)
<1>1. a \in Paths
  BY DEF IsTree
<1>2. p \in Paths /\ p # Root /\ Front(p) = a /\ p \notin DOMAIN d /\ p = Append(a, x)
  BY <1>1, PathLonger
<1> HIDE DEF p
<1>3. /\ DOMAIN e = DOMAIN d \cup {p}
      /\ e[p] = kind
      /\ \A q \in DOMAIN d : e[q] = d[q]
  BY <1>2 DEF WithNode
<1> HIDE DEF e
<1>4. Below(e, a) = Below(d, a) \cup {p}
  BY <1>2, <1>3 DEF Below
<1>5. \A b \in DOMAIN d : b # a => Below(e, b) = Below(d, b)
  BY <1>2, <1>3 DEF Below
<1>6. Below(e, p) = {}
  <2>1. \A q \in DOMAIN d : q # Root => Front(q) \in DOMAIN d
    BY DEF IsTree
  <2> QED
    BY <1>2, <1>3, <2>1 DEF Below
<1>7. Holds(e, a, steps \cup {x})
  <2>1. Below(d, a) = {Append(a, y) : y \in steps}
    BY DEF Holds
  <2>2. {Append(a, y) : y \in steps \cup {x}} = {Append(a, y) : y \in steps} \cup {p}
    BY <1>2
  <2> QED
    BY <1>3, <1>4, <2>1, <2>2 DEF Holds
<1>8. Holds(e, p, {})
  BY <1>3, <1>6 DEF Holds
<1>9. KeptBut(d, e, a)
  BY <1>3, <1>5 DEF KeptBut
<1> QED
  BY <1>3, <1>7, <1>8, <1>9 DEF e, p

\* A member or element is not there unless it is one of those the node has.
LEMMA NotThere ==
  ASSUME NEW d, IsTree(d), NEW a, NEW steps, Holds(d, a, steps), steps \subseteq Steps,
         NEW x \in Steps, x \notin steps
  PROVE  Append(a, x) \notin DOMAIN d
<1> SUFFICES ASSUME Append(a, x) \in DOMAIN d
             PROVE  FALSE
  OBVIOUS
<1>1. a \in Paths
  BY DEF IsTree, Holds
<1>2. Append(a, x) # Root /\ Front(Append(a, x)) = a /\ Last(Append(a, x)) = x
  BY <1>1, PathLonger
<1>3. Append(a, x) \in Below(d, a)
  BY <1>2 DEF Below
<1>4. PICK y \in steps : Append(a, x) = Append(a, y)
  BY <1>3 DEF Holds
<1>5. y \in Steps
  BY <1>4
<1>6. Last(Append(a, y)) = y
  BY <1>1, <1>5, PathLonger
<1> QED
  BY <1>2, <1>4, <1>6

\* What is pushed is on top.
LEMMA Pushed ==
  ASSUME NEW S, NEW s \in Seq(S), NEW e \in S
  PROVE  /\ Append(s, e) \in Seq(S) /\ Append(s, e) # <<>>
         /\ Last(Append(s, e)) = e /\ Front(Append(s, e)) = s
  BY DEF Front, Last

\* A dict at a path is open on top of some other nodes. It has the first i of
\* its members, and a key waits or does not.
OpenDict(P, base, ks, kinds, i, k) ==
  /\ IsTree(doc) /\ doc[Root] = "dict" /\ outcome = "building"
  /\ stack = Append(base, P) /\ doc[P] = "dict" /\ key = k
  /\ Holds(doc, P, {ks[x] : x \in 1 .. i})
  /\ \A x \in 1 .. i : doc[Append(P, ks[x])] = kinds[x]

\* What stands on the stack are paths.
ArePaths(P, base) == P \in Paths /\ base \in Seq(Paths)

\* The dict is on top.
LEMMA DictOnTop ==
  ASSUME NEW P, NEW base, ArePaths(P, base), stack = Append(base, P)
  PROVE  stack # <<>> /\ Top = P /\ Top # Nil /\ Front(stack) = base
<1>1. P \in Paths /\ base \in Seq(Paths)
  BY DEF ArePaths
<1>2. stack # <<>> /\ Last(stack) = P /\ Front(stack) = base
  BY <1>1, Pushed
<1>3. P # Nil
  BY <1>1, NilIsNoPath
<1> QED
  BY <1>2, <1>3 DEF Top

\* A key is given to an open dict.
LEMMA MemberKey ==
  ASSUME NEW P, NEW base, ArePaths(P, base), NEW ks, NEW kinds, NEW i \in Nat, NEW k \in Names,
         OpenDict(P, base, ks, kinds, i, NoKey), Make(Call("Key", k))
  PROVE  /\ OpenDict(P, base, ks, kinds, i, k)' /\ doc' = doc
         /\ calls' = Append(calls, Call("Key", k))
<1>1. Key(k)
  BY DEF Make, Call
<1>2. stack # <<>> /\ Top = P /\ Top # Nil
  BY DictOnTop DEF OpenDict
<1>3. ~(doc[Root] = "null" \/ stack = <<>> \/ key # NoKey) /\ doc[Top] = "dict"
  BY <1>2 DEF OpenDict
<1>4. /\ key' = k /\ Accept(Call("Key", k))
      /\ UNCHANGED <<doc, stack, outcome>>
  BY <1>1, <1>2, <1>3 DEF Key
<1>5. OpenDict(P, base, ks, kinds, i, k)'
  BY <1>4 DEF OpenDict
<1> QED
  BY <1>4, <1>5 DEF Accept

\* What a further member makes of a dict.
MemberAdded(P, ks, kinds, i, c, open) ==
  /\ IsTree(doc') /\ doc'[Root] = "dict" /\ outcome' = "building"
  /\ doc'[P] = "dict" /\ key' = NoKey
  /\ Holds(doc', P, {ks[x] : x \in 1 .. i + 1})
  /\ Holds(doc', Append(P, ks[i + 1]), {})
  /\ \A x \in 1 .. i + 1 : doc'[Append(P, ks[x])] = kinds[x]
  /\ KeptBut(doc, doc', P)
  /\ stack' = IF open THEN Append(stack, Append(P, ks[i + 1])) ELSE stack
  /\ calls' = Append(calls, c)

\* A value is given to the key that waits, which is new in the dict.
LEMMA MemberValue ==
  ASSUME NEW P, NEW base, ArePaths(P, base), NEW ks, NEW kinds, NEW n, AreMembers(ks, kinds, n),
         NEW i \in Nat, i + 1 <= n,
         OpenDict(P, base, ks, kinds, i, ks[i + 1]), ks[i + 1] # NoKey,
         NEW c, NEW open \in BOOLEAN, Add(c, kinds[i + 1], open)
  PROVE  MemberAdded(P, ks, kinds, i, c, open)
<1> DEFINE k == ks[i + 1]
           kind == kinds[i + 1]
           names == {ks[x] : x \in 1 .. i}
<1>1. stack # <<>> /\ Top = P /\ Top # Nil
  BY DictOnTop DEF OpenDict
<1>2. /\ IsTree(doc) /\ doc[Root] = "dict" /\ doc[P] = "dict" /\ key = k /\ k # NoKey
      /\ outcome = "building"
      /\ Holds(doc, P, names)
      /\ \A x \in 1 .. i : doc[Append(P, ks[x])] = kinds[x]
  BY DEF OpenDict
<1>3. ~Misplaced
  BY <1>1, <1>2 DEF Misplaced
<1>4. AddItem(kind, open) /\ Accept(c) /\ UNCHANGED outcome
  BY <1>1, <1>3 DEF Add
<1>5. AddToDict(kind, open)
  BY <1>1, <1>2, <1>4 DEF AddItem, FillNull, AddToArray, AddToScalar
<1>6. i + 1 \in 1 .. n /\ n \in Nat /\ (\A x \in 1 .. i : x \in 1 .. n /\ x # i + 1)
  BY DEF AreMembers
<1>7. k \in Names /\ kind \in Kinds /\ names \subseteq Names /\ k \notin names
  BY <1>6 DEF AreMembers
<1>8. k \in Steps /\ names \subseteq Steps
  BY <1>7 DEF Steps, AllKeys
<1> HIDE DEF k, kind, names
<1>9. Append(P, k) \notin DOMAIN doc
  BY <1>2, <1>7, <1>8, NotThere
<1>10. /\ doc' = WithNode(doc, Append(P, k), kind) /\ key' = NoKey
       /\ stack' = IF open THEN Append(stack, Append(P, k)) ELSE stack
  BY <1>1, <1>2, <1>5, <1>9 DEF AddToDict, Store, WithNode
<1>11. P \in DOMAIN doc /\ P \in Paths /\ Root \in DOMAIN doc
  BY <1>2 DEF Holds, IsTree
<1>12. IsTree(doc')
  BY <1>2, <1>7, <1>8, <1>9, <1>10, <1>11, GrowTree
<1>13. /\ doc'[Append(P, k)] = kind
       /\ Holds(doc', P, names \cup {k})
       /\ Holds(doc', Append(P, k), {})
       /\ KeptBut(doc, doc', P)
  <2> DEFINE e == WithNode(doc, Append(P, k), kind)
  <2>1. /\ e[Append(P, k)] = kind
        /\ Holds(e, P, names \cup {k})
        /\ Holds(e, Append(P, k), {})
        /\ KeptBut(doc, e, P)
    BY <1>2, <1>8, <1>9, <1>11, OneGrown
  <2> HIDE DEF e
  <2>2. doc' = e
    BY <1>10 DEF e
  <2> QED
    BY <2>1, <2>2
<1>14. names \cup {k} = {ks[x] : x \in 1 .. i + 1}
  <2>1. 1 .. i + 1 = (1 .. i) \cup {i + 1}
    OBVIOUS
  <2> QED
    BY <2>1 DEF names, k
<1>15. ASSUME NEW x \in 1 .. i + 1
       PROVE  doc'[Append(P, ks[x])] = kinds[x]
  <2>1. CASE x = i + 1
    BY <1>13, <2>1 DEF k, kind
  <2>2. CASE x \in 1 .. i
    <3>1. Append(P, ks[x]) \in Below(doc, P)
      BY <1>2, <2>2 DEF Holds, names
    <3>2. Append(P, ks[x]) \in DOMAIN doc
      BY <3>1 DEF Below
    <3> QED
      BY <1>2, <1>13, <2>2, <3>2 DEF KeptBut
  <2> QED
    BY <2>1, <2>2
<1>16. doc'[Root] = "dict" /\ doc'[P] = "dict"
  BY <1>2, <1>11, <1>13 DEF KeptBut
<1>17. calls' = Append(calls, c) /\ outcome' = "building"
  BY <1>2, <1>4 DEF Accept
<1> QED
  BY <1>10, <1>12, <1>13, <1>14, <1>15, <1>16, <1>17 DEF k, MemberAdded

\* What is left when the dict is ended.
ClosedDict(P, base, ks, kinds, n) ==
  /\ IsTree(doc) /\ doc[Root] = "dict"
  /\ stack = base /\ doc[P] = "dict" /\ key = NoKey
  /\ Holds(doc, P, {ks[x] : x \in 1 .. n})
  /\ \A x \in 1 .. n : doc[Append(P, ks[x])] = kinds[x]

\* The open dict is ended.
LEMMA DictEnded ==
  ASSUME NEW P, NEW base, ArePaths(P, base), NEW ks, NEW kinds, NEW n \in Nat,
         OpenDict(P, base, ks, kinds, n, NoKey), Make(Call("EndDict", NoKey))
  PROVE  /\ ClosedDict(P, base, ks, kinds, n)' /\ outcome' = "building" /\ doc' = doc
         /\ calls' = Append(calls, Call("EndDict", "dict"))
<1>1. End("EndDict", "dict")
  BY DEF Make, Call, EndDict
<1>2. stack # <<>> /\ Top = P /\ Top # Nil /\ Front(stack) = base
  BY DictOnTop DEF OpenDict
<1>3. doc[Top] = "dict"
  BY <1>2 DEF OpenDict
<1>4. stack' = base /\ Accept(Call("EndDict", "dict")) /\ UNCHANGED <<doc, key, outcome>>
  BY <1>1, <1>2, <1>3 DEF End
<1>5. ClosedDict(P, base, ks, kinds, n)'
  BY <1>4 DEF ClosedDict, OpenDict
<1> QED
  BY <1>4, <1>5 DEF Accept, OpenDict

\* Of the calls for the dict so many have been made.
Progress(P, base, ks, kinds, n, made) ==
  \E i \in 0 .. n :
    \/ made = 2 * i + 1 /\ OpenDict(P, base, ks, kinds, i, NoKey)
    \/ i + 1 <= n /\ made = 2 * i + 2 /\ OpenDict(P, base, ks, kinds, i, ks[i + 1])

\* The next call for the dict brings it one call further.
LEMMA DictStep ==
  ASSUME NEW P, NEW base, ArePaths(P, base), NEW ks, NEW kinds, NEW n, AreMembers(ks, kinds, n),
         NEW c, IsDict(c, ks, kinds, n), NEW made, Progress(P, base, ks, kinds, n, made),
         Make(c[made + 1])
  PROVE  /\ made \in 1 .. 2 * n + 1
         /\ \E call \in Texts : calls' = Append(calls, call)
         /\ outcome' = "building"
         /\ KeptBut(doc, doc', P)
         /\ IF made = 2 * n + 1 THEN ClosedDict(P, base, ks, kinds, n)'
            ELSE Progress(P, base, ks, kinds, n, made + 1)'
<1>1. n \in Nat /\ doc = doc /\ NoKey \notin Names
  BY DEF AreMembers, Names, NoKey
<1>2. ASSUME doc' = doc
      PROVE  KeptBut(doc, doc', P)
  BY <1>2 DEF KeptBut
<1>3. PICK i \in 0 .. n :
        \/ made = 2 * i + 1 /\ OpenDict(P, base, ks, kinds, i, NoKey)
        \/ i + 1 <= n /\ made = 2 * i + 2 /\ OpenDict(P, base, ks, kinds, i, ks[i + 1])
  BY DEF Progress
<1>4. i \in Nat
  BY <1>1, <1>3
<1>5. CASE made = 2 * i + 1 /\ OpenDict(P, base, ks, kinds, i, NoKey) /\ i = n
  <2>1. made = 2 * n + 1 /\ made + 1 = 2 * n + 2
    BY <1>5
  <2>2. Make(Call("EndDict", NoKey))
    BY <2>1 DEF IsDict
  <2>3. /\ ClosedDict(P, base, ks, kinds, n)' /\ outcome' = "building" /\ doc' = doc
        /\ calls' = Append(calls, Call("EndDict", "dict"))
    BY <1>1, <1>5, <2>2, DictEnded
  <2>4. Call("EndDict", "dict") \in Texts
    BY DEF Call, Texts, Kinds
  <2> QED
    BY <1>1, <1>2, <2>1, <2>3, <2>4
<1>6. CASE made = 2 * i + 1 /\ OpenDict(P, base, ks, kinds, i, NoKey) /\ i # n
  <2> DEFINE k == ks[i + 1]
  <2>1. i + 1 \in 1 .. n /\ i + 1 <= n /\ made + 1 = 2 * (i + 1) /\ made + 1 = 2 * i + 2
    BY <1>1, <1>3, <1>6
  <2>2. Make(Call("Key", k)) /\ k \in Names
    BY <2>1 DEF IsDict, AreMembers
  <2> HIDE DEF k
  <2>3. OpenDict(P, base, ks, kinds, i, k)' /\ doc' = doc /\ calls' = Append(calls, Call("Key", k))
    BY <1>4, <1>6, <2>2, MemberKey
  <2>4. Progress(P, base, ks, kinds, n, made + 1)'
    BY <1>3, <2>1, <2>3 DEF Progress, k
  <2>5. Call("Key", k) \in Texts
    BY <2>2, CallsAreTexts
  <2>6. outcome' = "building"
    BY <2>3 DEF OpenDict
  <2>7. made # 2 * n + 1 /\ made \in 1 .. 2 * n + 1
    BY <1>1, <1>3, <1>6
  <2> QED
    BY <1>2, <2>3, <2>4, <2>5, <2>6, <2>7
<1>7. CASE i + 1 <= n /\ made = 2 * i + 2 /\ OpenDict(P, base, ks, kinds, i, ks[i + 1])
  <2> DEFINE call == Call("Value", kinds[i + 1])
  <2>1. i + 1 \in 1 .. n /\ made + 1 = 2 * (i + 1) + 1 /\ i + 1 \in 0 .. n
    BY <1>1, <1>4, <1>7
  <2>2. c[made + 1] = call /\ kinds[i + 1] \in Kinds /\ ks[i + 1] \in Names
    BY <2>1 DEF IsDict, AreMembers
  <2>3. call \in Texts
    BY <2>2, CallsAreTexts
  <2>4. Add(call, kinds[i + 1], FALSE)
    <3>1. Value(kinds[i + 1])
      BY <2>2 DEF Make, Call
    <3> QED
      BY <3>1 DEF Value
  <2> HIDE DEF call
  <2>5. ks[i + 1] # NoKey
    BY <1>1, <2>2
  <2>6. MemberAdded(P, ks, kinds, i, call, FALSE)
    <3>1. FALSE \in BOOLEAN /\ i + 1 <= n /\ OpenDict(P, base, ks, kinds, i, ks[i + 1])
      BY <1>7
    <3> QED
      BY <1>4, <2>4, <2>5, <3>1, MemberValue
  <2>7. OpenDict(P, base, ks, kinds, i + 1, NoKey)'
    BY <1>7, <2>6 DEF OpenDict, MemberAdded
  <2>8. Progress(P, base, ks, kinds, n, made + 1)'
    BY <2>1, <2>7 DEF Progress
  <2>9. made # 2 * n + 1 /\ made \in 1 .. 2 * n + 1
    BY <1>1, <1>4, <1>7
  <2> QED
    BY <2>3, <2>6, <2>8, <2>9 DEF MemberAdded
<1> QED
  BY <1>3, <1>5, <1>6, <1>7

\* Nothing has been built.
NothingYet ==
  /\ doc = [p \in {Root} |-> "null"] /\ key = NoKey /\ stack = <<Root>>
  /\ outcome = "building"

\* The first call opens the root.
LEMMA RootOpened ==
  ASSUME NothingYet, NEW ks, NEW kinds, NEW n \in Nat, Make(Call("StartDict", "dict"))
  PROVE  /\ Progress(Root, <<>>, ks, kinds, n, 1)' /\ outcome' = "building"
         /\ \E call \in Texts : calls' = Append(calls, call)
<1> DEFINE c == Call("StartDict", "dict")
<1>1. StartDict
  BY DEF Make, Call
<1>2. Add(c, "dict", TRUE) /\ c \in Texts
  BY <1>1, CallsAreTexts DEF StartDict
<1> HIDE DEF c
<1>3. Root \in Paths /\ <<>> \in Seq(Paths) /\ Append(<<>>, Root) = <<Root>> /\ Len(Root) = 0
  BY DEF Root, Paths
<1>4. ArePaths(Root, <<>>) /\ stack = Append(<<>>, Root)
  BY <1>3 DEF ArePaths, NothingYet
<1>5. stack # <<>> /\ Top = Root /\ Top # Nil /\ Front(stack) = <<>>
  BY <1>4, DictOnTop
<1>6. doc[Root] = "null" /\ DOMAIN doc = {Root} /\ key = NoKey /\ outcome = "building"
  BY DEF NothingYet
<1>7. ~Misplaced
  BY <1>5, <1>6 DEF Misplaced
<1>8. AddItem("dict", TRUE) /\ Accept(c) /\ UNCHANGED outcome
  BY <1>2, <1>5, <1>7 DEF Add
<1>9. FillNull("dict", TRUE)
  BY <1>5, <1>6, <1>8 DEF AddItem, AddToDict, AddToArray, AddToScalar
<1>10. /\ doc' = [doc EXCEPT ![Root] = "dict"] /\ key' = NoKey
       /\ stack' = Append(<<>>, Root)
  BY <1>5, <1>6, <1>9 DEF FillNull
<1>11. IsTree(doc)
  <2>1. IsFiniteSet(DOMAIN doc)
    BY <1>6, FS_Singleton
  <2>2. doc[Root] \in Kinds
    BY <1>6 DEF Kinds
  <2> QED
    BY <1>3, <1>6, <2>1, <2>2 DEF IsTree
<1>12. IsTree(doc')
  <2>1. "dict" \in Kinds /\ Root \in DOMAIN doc
    BY <1>6 DEF Kinds
  <2> QED
    BY <1>6, <1>10, <1>11, <2>1, FillTree
<1>13. doc'[Root] = "dict" /\ DOMAIN doc' = {Root}
  BY <1>6, <1>10
<1>14. Holds(doc', Root, {ks[x] : x \in 1 .. 0}) /\ 1 .. 0 = {}
  BY <1>13 DEF Holds, Below
<1>15. OpenDict(Root, <<>>, ks, kinds, 0, NoKey)'
  BY <1>6, <1>8, <1>10, <1>12, <1>13, <1>14 DEF OpenDict
<1>16. 0 \in 0 .. n /\ 1 = 2 * 0 + 1
  OBVIOUS
<1>17. Progress(Root, <<>>, ks, kinds, n, 1)'
  BY <1>15, <1>16 DEF Progress
<1> QED
  BY <1>2, <1>6, <1>8, <1>17 DEF Accept

\* Build ends it.
LEMMA DictBuilt ==
  ASSUME NEW ks, NEW kinds, NEW n, ClosedDict(Root, <<>>, ks, kinds, n), Build
  PROVE  outcome' = "built" /\ UNCHANGED <<doc, key, stack, calls>>
<1>1. stack = <<>> /\ doc[Root] # "null"
  BY DEF ClosedDict
<1> QED
  BY <1>1 DEF Build, builder

\* How far an answer in one chain has come.
ChainInv(c, ks, kinds, n) ==
  /\ calls \in Seq(Texts) /\ outcome \in {"building", "built"}
  /\ \/ Len(calls) = 0 /\ NothingYet
     \/ Progress(Root, <<>>, ks, kinds, n, Len(calls)) /\ outcome = "building"
     \/ Len(calls) = 2 * n + 2 /\ ClosedDict(Root, <<>>, ks, kinds, n)

\* Every step for an answer in one chain brings it further.
LEMMA ChainStep ==
  ASSUME NEW ks, NEW kinds, NEW n, IsChain(answer, ks, kinds, n),
         ChainInv(answer, ks, kinds, n), [MakeAnswer]_<<vars, answer>>
  PROVE  ChainInv(answer, ks, kinds, n)'
<1>1. /\ AreMembers(ks, kinds, n) /\ IsDict(answer, ks, kinds, n) /\ n \in Nat
      /\ Len(answer) = 2 * n + 2
  BY DEF IsChain, AreMembers, IsDict
<1>2. calls \in Seq(Texts) /\ Len(calls) \in Nat /\ outcome \in {"building", "built"}
  BY DEF ChainInv
<1> PICK m \in Nat : m = Len(calls)
  BY <1>2
<1>3. ArePaths(Root, <<>>)
  BY DEF ArePaths, Root, Paths
<1>4. CASE UNCHANGED <<vars, answer>>
  BY <1>4 DEF ChainInv, NothingYet, Progress, OpenDict, ClosedDict, vars, builder
<1>5. CASE MakeAnswer
  <2>1. /\ m < 2 * n + 2 => Make(answer[m + 1])
        /\ m = 2 * n + 2 => Build
    BY <1>1, <1>5 DEF MakeAnswer
  <2>2. \A call \in Texts : calls' = Append(calls, call) =>
          calls' \in Seq(Texts) /\ Len(calls') = m + 1
    BY <1>2
  <2>3. CASE m = 0 /\ NothingYet
    <3>1. answer[m + 1] = Call("StartDict", "dict") /\ m < 2 * n + 2
      BY <1>1, <2>3 DEF IsDict
    <3>2. /\ Progress(Root, <<>>, ks, kinds, n, 1)' /\ outcome' = "building"
          /\ \E call \in Texts : calls' = Append(calls, call)
      BY <1>1, <2>1, <2>3, <3>1, RootOpened
    <3>3. calls' \in Seq(Texts) /\ Len(calls') = 1
      BY <2>2, <2>3, <3>2
    <3> QED
      BY <3>2, <3>3 DEF ChainInv
  <2>4. CASE Progress(Root, <<>>, ks, kinds, n, m) /\ outcome = "building"
    <3>1. m \in 1 .. 2 * n + 1
      BY <1>1, <2>4 DEF Progress
    <3>2. Make(answer[m + 1])
      BY <1>1, <2>1, <3>1
    <3>3. /\ \E call \in Texts : calls' = Append(calls, call)
          /\ outcome' = "building"
          /\ IF m = 2 * n + 1 THEN ClosedDict(Root, <<>>, ks, kinds, n)'
             ELSE Progress(Root, <<>>, ks, kinds, n, m + 1)'
      BY <1>1, <1>3, <2>4, <3>2, DictStep
    <3>4. calls' \in Seq(Texts) /\ Len(calls') = m + 1
      BY <2>2, <3>3
    <3>5. m = 2 * n + 1 => m + 1 = 2 * n + 2
      BY <1>1
    <3> QED
      BY <3>3, <3>4, <3>5 DEF ChainInv
  <2>5. CASE m = 2 * n + 2 /\ ClosedDict(Root, <<>>, ks, kinds, n)
    <3>1. outcome' = "built" /\ UNCHANGED <<doc, key, stack, calls>>
      BY <2>1, <2>5, DictBuilt
    <3>2. ClosedDict(Root, <<>>, ks, kinds, n)'
      BY <2>5, <3>1 DEF ClosedDict
    <3>3. calls' \in Seq(Texts) /\ Len(calls') = 2 * n + 2
      BY <1>2, <2>5, <3>1
    <3> QED
      BY <3>1, <3>2, <3>3 DEF ChainInv
  <2> QED
    BY <2>3, <2>4, <2>5 DEF ChainInv
<1> QED
  BY <1>4, <1>5

\* Where in the joined sequence the elements of each are.
Joins(s, off, n, ss) ==
  /\ \A k \in 0 .. n : off[k] \in Nat
  /\ off[0] = 0 /\ Len(s) = off[n]
  /\ \A k \in 1 .. n : off[k] = off[k - 1] + Len(ss[k])
  /\ \A k \in 1 .. n : \A j \in 1 .. Len(ss[k]) :
       off[k - 1] + j <= off[n] /\ s[off[k - 1] + j] = ss[k][j]

\* One sequence more.
LEMMA OneJoined ==
  ASSUME NEW T, NEW n \in Nat, NEW ss, \A k \in 1 .. n + 1 : ss[k] \in Seq(T),
         NEW s \in Seq(T), NEW off, Joins(s, off, n, ss), off[n + 1] = Len(s) + Len(ss[n + 1])
  PROVE  s \o ss[n + 1] \in Seq(T) /\ Joins(s \o ss[n + 1], off, n + 1, ss)
<1> DEFINE t == ss[n + 1]
           u == s \o t
<1>1. /\ t \in Seq(T) /\ Len(t) \in Nat /\ Len(s) = off[n] /\ off[n] \in Nat
      /\ off[n + 1] = off[n] + Len(t)
      /\ \A k \in 0 .. n : off[k] \in Nat
  BY DEF Joins
<1> HIDE DEF t
<1>2. /\ u \in Seq(T) /\ Len(u) = Len(s) + Len(t)
      /\ \A i \in 1 .. Len(s) + Len(t) : u[i] = IF i <= Len(s) THEN s[i] ELSE t[i - Len(s)]
  BY <1>1, ConcatProperties
<1> HIDE DEF u
<1>3. ASSUME NEW k \in 1 .. n + 1
      PROVE  /\ off[k] = off[k - 1] + Len(ss[k])
             /\ \A j \in 1 .. Len(ss[k]) : off[k - 1] + j <= off[n + 1] /\ u[off[k - 1] + j] = ss[k][j]
  <2>1. CASE k \in 1 .. n
    <3>1. off[k] = off[k - 1] + Len(ss[k]) /\ off[k - 1] \in Nat
      BY <1>1, <2>1 DEF Joins
    <3>2. ASSUME NEW j \in 1 .. Len(ss[k])
          PROVE  off[k - 1] + j <= off[n + 1] /\ u[off[k - 1] + j] = ss[k][j]
      <4>1. off[k - 1] + j <= off[n] /\ s[off[k - 1] + j] = ss[k][j]
        BY <2>1 DEF Joins
      <4>2. j \in Nat /\ j >= 1
        BY <1>3
      <4> DEFINE i == off[k - 1] + j
      <4>3. i \in Nat /\ i >= 1
        BY <3>1, <4>2
      <4>4. i <= Len(s) /\ s[i] = ss[k][j]
        BY <1>1, <4>1
      <4> HIDE DEF i
      <4>5. i \in 1 .. Len(s) + Len(t) /\ i <= off[n + 1]
        BY <1>1, <4>3, <4>4
      <4>6. u[i] = ss[k][j]
        BY <1>2, <4>4, <4>5
      <4> QED
        BY <4>5, <4>6 DEF i
    <3> QED
      BY <3>1, <3>2
  <2>2. CASE k = n + 1
    <3>1. k - 1 = n /\ ss[k] = t
      BY <2>2 DEF t
    <3>2. ASSUME NEW j \in 1 .. Len(t)
          PROVE  off[n] + j <= off[n + 1] /\ u[off[n] + j] = t[j]
      <4>1. off[n] + j \in 1 .. Len(s) + Len(t) /\ ~(off[n] + j <= Len(s)) /\ (off[n] + j) - Len(s) = j
        BY <1>1
      <4> QED
        BY <1>1, <1>2, <4>1
    <3> QED
      BY <1>1, <2>2, <3>1, <3>2
  <2> QED
    BY <2>1, <2>2
<1>4. \A k \in 0 .. n + 1 : off[k] \in Nat
  <2>1. \A k \in 0 .. n + 1 : k \in 0 .. n \/ k = n + 1
    OBVIOUS
  <2> QED
    BY <1>1, <2>1
<1>5. Len(u) = off[n + 1] /\ off[0] = 0
  BY <1>1, <1>2 DEF Joins
<1>6. Joins(u, off, n + 1, ss)
  BY <1>3, <1>4, <1>5 DEF Joins
<1> QED
  BY <1>2, <1>6 DEF u, t

\* FlattenSeq joins sequences.
LEMMA Flattened ==
  ASSUME NEW T, NEW n \in Nat, NEW ss \in [1 .. n -> Seq(T)]
  PROVE  FlattenSeq(ss) \in Seq(T) /\ \E off : Joins(FlattenSeq(ss), off, n, ss)
<1>1. Len(ss) = n
  OBVIOUS
<1>2. CASE n = 0
  <2>1. FlattenSeq(ss) = ss /\ ss = <<>> /\ <<>> \in Seq(T)
    BY <1>1, <1>2 DEF FlattenSeq
  <2> DEFINE off == [k \in 0 .. 0 |-> 0]
  <2>2. off[0] = 0 /\ off[n] = 0 /\ 1 .. n = {} /\ \A k \in 0 .. n : k = 0
    BY <1>2
  <2> HIDE DEF off
  <2>3. Joins(ss, off, n, ss)
    BY <1>1, <1>2, <2>2 DEF Joins
  <2> QED
    BY <2>1, <2>3
<1>3. CASE n # 0
  <2>1. PICK f : IsFlattening(f, ss) /\ FlattenSeq(ss) = f[n]
    BY <1>1, <1>3, FlattenSeqIs
  <2>2. \A i \in 1 .. n : f[i] = IF i = 1 THEN ss[i] ELSE f[i - 1] \o ss[i]
    BY <1>1, <2>1 DEF IsFlattening
  <2> DEFINE off == [k \in 0 .. n |-> IF k = 0 THEN 0 ELSE Len(f[k])]
             Good == {k \in Nat : k \in 1 .. n => f[k] \in Seq(T) /\ Joins(f[k], off, k, ss)}
  <2>3. off[0] = 0 /\ \A k \in 1 .. n : off[k] = Len(f[k])
    OBVIOUS
  <2> HIDE DEF off
  <2>4. 0 \in Good
    OBVIOUS
  <2>5. ASSUME NEW k \in Nat, k \in Good
        PROVE  k + 1 \in Good
    <3> SUFFICES ASSUME k + 1 \in 1 .. n
                 PROVE  f[k + 1] \in Seq(T) /\ Joins(f[k + 1], off, k + 1, ss)
      OBVIOUS
    <3>1. PICK s \in Seq(T) : Joins(s, off, k, ss) /\ f[k + 1] = s \o ss[k + 1]
      <4>1. CASE k = 0
        <5>1. f[1] = ss[1] /\ ss[1] \in Seq(T)
          BY <2>2, <4>1
        <5>2. <<>> \in Seq(T) /\ <<>> \o ss[1] = ss[1]
          BY <5>1, ConcatEmptySeq
        <5>3. Joins(<<>>, off, 0, ss)
          <6>1. 1 .. 0 = {} /\ Len(<<>>) = 0 /\ \A x \in 0 .. 0 : x = 0
            OBVIOUS
          <6> QED
            BY <2>3, <6>1 DEF Joins
        <5>4. f[k + 1] = <<>> \o ss[k + 1] /\ Joins(<<>>, off, k, ss)
          BY <4>1, <5>1, <5>2, <5>3
        <5> QED
          BY <5>2, <5>4
      <4>2. CASE k # 0
        <5>1. k \in 1 .. n /\ k + 1 # 1 /\ (k + 1) - 1 = k
          BY <4>2
        <5>2. f[k] \in Seq(T) /\ Joins(f[k], off, k, ss)
          BY <2>5, <5>1
        <5>3. f[k + 1] = f[k] \o ss[k + 1]
          BY <2>2, <5>1
        <5> QED
          BY <5>2, <5>3
      <4> QED
        BY <4>1, <4>2
    <3>2. \A i \in 1 .. k + 1 : ss[i] \in Seq(T)
      OBVIOUS
    <3>3. off[k + 1] = Len(s) + Len(ss[k + 1])
      <4>1. ss[k + 1] \in Seq(T)
        BY <3>2
      <4>2. Len(s \o ss[k + 1]) = Len(s) + Len(ss[k + 1])
        BY <4>1, ConcatProperties
      <4> QED
        BY <2>3, <3>1, <4>2
    <3>4. s \o ss[k + 1] \in Seq(T) /\ Joins(s \o ss[k + 1], off, k + 1, ss)
      BY <3>1, <3>2, <3>3, OneJoined
    <3> QED
      BY <3>1, <3>4
  <2> HIDE DEF Good
  <2>6. Nat \subseteq Good
    BY <2>4, <2>5, Induction
  <2>7. n \in Good /\ n \in 1 .. n
    BY <1>3, <2>6
  <2> QED
    BY <1>1, <2>1, <2>7 DEF Good
<1> QED
  BY <1>2, <1>3

\* The items of a route: what members they have.
ItemNames(type) ==
  IF type = "Wait" THEN <<"type", "stop_name", "time">> ELSE <<"type", "bus", "span_count", "time">>

ItemKinds == <<"scalar", "scalar", "scalar", "scalar">>

ItemSize(type) == IF type = "Wait" THEN 3 ELSE 4

\* An item is a dict.
LEMMA ItemIs ==
  ASSUME NEW type \in {"Wait", "Bus"}
  PROVE  /\ AreMembers(ItemNames(type), ItemKinds, ItemSize(type))
         /\ IsDict(ItemNode(type), ItemNames(type), ItemKinds, ItemSize(type))
         /\ {ItemNames(type)[x] : x \in 1 .. ItemSize(type)}
              = {"type", "time"} \cup IF type = "Wait" THEN {"stop_name"} ELSE {"bus", "span_count"}
<1> DEFINE kinds == ItemKinds
<1>1. /\ "scalar" \in Kinds /\ 1 .. 3 = {1, 2, 3} /\ 1 .. 4 = {1, 2, 3, 4}
      /\ 1 + 1 = 2 /\ 2 + 1 = 3 /\ 3 + 1 = 4
  BY DEF Kinds
<1>2. kinds[1] = "scalar" /\ kinds[2] = "scalar" /\ kinds[3] = "scalar" /\ kinds[4] = "scalar"
  BY DEF ItemKinds
<1> HIDE DEF kinds
<1>3. CASE type = "Wait"
  <2> DEFINE ks == ItemNames(type)
  <2>1. ks[1] = "type" /\ ks[2] = "stop_name" /\ ks[3] = "time"
    BY <1>3 DEF ItemNames
  <2> HIDE DEF ks
  <2>2. \A x \in 1 .. 3 : ks[x] \in Names /\ kinds[x] \in Kinds
    BY <1>1, <1>2, <2>1 DEF Names
  <2>3. AreMembers(ks, kinds, 3)
    BY <1>1, <2>1, <2>2 DEF AreMembers
  <2>4. Spelled(Pair("type", "scalar"), ks, kinds, 1)
    BY <1>1, <1>2, <2>1, <2>2, PairSpelled
  <2>5. Spelled(Pair("type", "scalar") \o Pair("stop_name", "scalar"), ks, kinds, 2)
    BY <1>1, <1>2, <2>1, <2>2, <2>4, PairsSpelled
  <2>6. Spelled(Pair("type", "scalar") \o Pair("stop_name", "scalar") \o Pair("time", "scalar"),
                ks, kinds, 3)
    BY <1>1, <1>2, <2>1, <2>2, <2>5, PairsSpelled
  <2>7. IsDict(ItemNode(type), ks, kinds, 3)
    BY <1>3, <2>6, DictSpelled DEF ItemNode
  <2>8. {ks[x] : x \in 1 .. 3} = {"type", "time"} \cup {"stop_name"}
    BY <1>1, <2>1
  <2>9. ItemSize(type) = 3
    BY <1>3 DEF ItemSize
  <2> QED
    BY <1>3, <2>3, <2>7, <2>8, <2>9 DEF ks, kinds
<1>4. CASE type = "Bus"
  <2> DEFINE ks == ItemNames(type)
  <2>1. ks[1] = "type" /\ ks[2] = "bus" /\ ks[3] = "span_count" /\ ks[4] = "time"
    BY <1>4 DEF ItemNames
  <2> HIDE DEF ks
  <2>2. \A x \in 1 .. 4 : ks[x] \in Names /\ kinds[x] \in Kinds
    BY <1>1, <1>2, <2>1 DEF Names
  <2>3. AreMembers(ks, kinds, 4)
    BY <1>1, <2>1, <2>2 DEF AreMembers
  <2>4. Spelled(Pair("type", "scalar"), ks, kinds, 1)
    BY <1>1, <1>2, <2>1, <2>2, PairSpelled
  <2>5. Spelled(Pair("type", "scalar") \o Pair("bus", "scalar"), ks, kinds, 2)
    BY <1>1, <1>2, <2>1, <2>2, <2>4, PairsSpelled
  <2>6. Spelled(Pair("type", "scalar") \o Pair("bus", "scalar") \o Pair("span_count", "scalar"),
                ks, kinds, 3)
    BY <1>1, <1>2, <2>1, <2>2, <2>5, PairsSpelled
  <2>6a. Spelled(Pair("type", "scalar") \o Pair("bus", "scalar") \o Pair("span_count", "scalar")
                 \o Pair("time", "scalar"), ks, kinds, 4)
    BY <1>1, <1>2, <2>1, <2>2, <2>6, PairsSpelled
  <2>7. IsDict(ItemNode(type), ks, kinds, 4)
    BY <1>4, <2>6a, DictSpelled DEF ItemNode
  <2>8. {ks[x] : x \in 1 .. 4} = {"type", "time"} \cup {"bus", "span_count"}
    BY <1>1, <2>1
  <2>9. ItemSize(type) = 4 /\ type # "Wait"
    BY <1>4 DEF ItemSize
  <2> QED
    BY <2>3, <2>7, <2>8, <2>9 DEF ks, kinds
<1> QED
  BY <1>3, <1>4

\* What a route has.
HeadNames == <<"request_id", "total_time", "items">>

HeadKinds == <<"scalar", "scalar", "array">>

\* The dict of a route begins like one with any array for its items.
RouteHead == InDict(Pair("request_id", "scalar") \o Pair("total_time", "scalar") \o Pair("items", "array"))

\* That is a dict.
LEMMA HeadIs ==
  /\ AreMembers(HeadNames, HeadKinds, 3) /\ IsDict(RouteHead, HeadNames, HeadKinds, 3)
  /\ {HeadNames[x] : x \in 1 .. 3} = {"request_id", "total_time", "items"}
  /\ HeadNames[1] = "request_id" /\ HeadNames[3] = "items"
  /\ HeadKinds[1] = "scalar" /\ HeadKinds[3] = "array"
  /\ Spelled(Pair("request_id", "scalar") \o Pair("total_time", "scalar"), HeadNames, HeadKinds, 2)
<1> DEFINE ks == HeadNames
           kinds == HeadKinds
<1>1. /\ "scalar" \in Kinds /\ "array" \in Kinds /\ 1 .. 3 = {1, 2, 3}
      /\ 1 + 1 = 2 /\ 2 + 1 = 3
  BY DEF Kinds
<1>2. /\ ks[1] = "request_id" /\ ks[2] = "total_time" /\ ks[3] = "items"
      /\ kinds[1] = "scalar" /\ kinds[2] = "scalar" /\ kinds[3] = "array"
  BY DEF HeadNames, HeadKinds
<1> HIDE DEF ks, kinds
<1>3. \A x \in 1 .. 3 : ks[x] \in Names /\ kinds[x] \in Kinds
  BY <1>1, <1>2 DEF Names
<1>4. AreMembers(ks, kinds, 3)
  BY <1>1, <1>2, <1>3 DEF AreMembers
<1>5. Spelled(Pair("request_id", "scalar"), ks, kinds, 1)
  BY <1>1, <1>2, <1>3, PairSpelled
<1>6. Spelled(Pair("request_id", "scalar") \o Pair("total_time", "scalar"), ks, kinds, 2)
  BY <1>1, <1>2, <1>3, <1>5, PairsSpelled
<1>7. Spelled(Pair("request_id", "scalar") \o Pair("total_time", "scalar") \o Pair("items", "array"),
              ks, kinds, 3)
  BY <1>1, <1>2, <1>3, <1>6, PairsSpelled
<1>8. IsDict(RouteHead, ks, kinds, 3)
  BY <1>7, DictSpelled DEF RouteHead
<1>9. {ks[x] : x \in 1 .. 3} = {"request_id", "total_time", "items"}
  BY <1>1, <1>2
<1> QED
  BY <1>2, <1>4, <1>6, <1>8, <1>9 DEF ks, kinds

\* The calls that make a route of n items, those of each item beginning after
\* so many of the others.
IsRoute(c, n, items, off) ==
  /\ n \in Nat /\ \A k \in 0 .. n : off[k] \in Nat
  /\ off[0] = 0 /\ Len(c) = off[n] + 9
  /\ \A k \in 1 .. n : off[k] = off[k - 1] + 2 * ItemSize(items[k]) + 2
  /\ \A j \in 1 .. 6 : c[j] = RouteHead[j]
  /\ c[7] = Call("StartArray", "array")
  /\ \A k \in 1 .. n : \A j \in 1 .. 2 * ItemSize(items[k]) + 2 :
       off[k - 1] + j <= off[n] /\ c[7 + off[k - 1] + j] = ItemNode(items[k])[j]
  /\ c[off[n] + 8] = Call("EndArray", NoKey) /\ c[off[n] + 9] = Call("EndDict", NoKey)

\* CreateRouteNode makes those calls.
LEMMA RouteIs ==
  ASSUME NEW n \in Nat, NEW items \in [1 .. n -> {"Wait", "Bus"}]
  PROVE  /\ CreateRouteNode(items) \in Seq(Texts)
         /\ \E off : IsRoute(CreateRouteNode(items), n, items, off)
<1> DEFINE ss == [k \in DOMAIN items |-> ItemNode(items[k])]
           F == FlattenSeq(ss)
<1>1. \A k \in 1 .. n : /\ ItemNode(items[k]) \in Seq(Texts)
                        /\ Len(ItemNode(items[k])) = 2 * ItemSize(items[k]) + 2
  BY ItemIs DEF IsDict
<1>2. ss \in [1 .. n -> Seq(Texts)] /\ \A k \in 1 .. n : ss[k] = ItemNode(items[k])
  BY <1>1
<1> HIDE DEF ss
<1>3. F \in Seq(Texts) /\ \E off : Joins(F, off, n, ss)
  BY <1>2, Flattened
<1>4. PICK off : Joins(F, off, n, ss)
  BY <1>3
<1> DEFINE two == Pair("request_id", "scalar") \o Pair("total_time", "scalar")
           ks  == <<Call("Key", "items"), Call("StartArray", "array")>>
           ea  == <<Call("EndArray", NoKey)>>
           sd  == <<Call("StartDict", "dict")>>
           ed  == <<Call("EndDict", NoKey)>>
<1>5. CreateRouteNode(items) = sd \o (two \o ks \o F \o ea) \o ed
  BY DEF CreateRouteNode, InDict, ss
<1>6. two \in Seq(Texts) /\ Len(two) = 4
  BY HeadIs DEF Spelled
<1>7. /\ ks \in Seq(Texts) /\ Len(ks) = 2 /\ ks[1] = Call("Key", "items")
      /\ ks[2] = Call("StartArray", "array")
      /\ ea \in Seq(Texts) /\ Len(ea) = 1 /\ ea[1] = Call("EndArray", NoKey)
      /\ sd \in Seq(Texts) /\ Len(sd) = 1 /\ sd[1] = Call("StartDict", "dict")
      /\ ed \in Seq(Texts) /\ Len(ed) = 1 /\ ed[1] = Call("EndDict", NoKey)
  BY CallsAreTexts DEF Names
<1> PICK f \in Nat : f = off[n] /\ f = Len(F)
  BY <1>4, n \in 0 .. n DEF Joins
<1> HIDE DEF F, ks, ea, sd, ed
<1> DEFINE a1 == two \o ks
           a2 == a1 \o F
           a3 == a2 \o ea
           a4 == sd \o a3
           c  == a4 \o ed
<1>8. 6 + f \in Nat /\ 7 + f \in Nat /\ 8 + f \in Nat
  OBVIOUS
<1>9. a1 \in Seq(Texts) /\ Behind(a1, two, ks, 4, 2)
  BY <1>6, <1>7, OneBehind, 4 \in Nat, 2 \in Nat
<1> HIDE DEF a1
<1>9a. Len(a1) = 6
  BY <1>9 DEF Behind
<1>10. a2 \in Seq(Texts) /\ Behind(a2, a1, F, 6, f)
  BY <1>3, <1>9, <1>9a, OneBehind, 6 \in Nat
<1> HIDE DEF a2
<1>10a. Len(a2) = 6 + f
  BY <1>10 DEF Behind
<1>11. a3 \in Seq(Texts) /\ Behind(a3, a2, ea, 6 + f, 1)
  BY <1>7, <1>8, <1>10, <1>10a, OneBehind, 1 \in Nat
<1> HIDE DEF a3
<1>12. Len(a3) = 7 + f /\ a3[7 + f] = ea[1]
  BY <1>11 DEF Behind
<1>13. a4 \in Seq(Texts) /\ Behind(a4, sd, a3, 1, 7 + f)
  BY <1>7, <1>8, <1>11, <1>12, OneBehind, 1 \in Nat
<1> HIDE DEF a4
<1>14. Len(a4) = 8 + f /\ a4[1] = sd[1]
  BY <1>13 DEF Behind
<1>15. c \in Seq(Texts) /\ Behind(c, a4, ed, 8 + f, 1)
  BY <1>7, <1>8, <1>13, <1>14, OneBehind, 1 \in Nat
<1>16. c = CreateRouteNode(items)
  BY <1>5 DEF a1, a2, a3, a4
<1> HIDE DEF c
<1>17. /\ c[1] = sd[1] /\ c[f + 9] = ed[1]
       /\ \A j \in 1 .. 7 + f : c[1 + j] = a3[j]
  <2>1. c[1] = a4[1] /\ c[(8 + f) + 1] = ed[1]
    BY <1>15 DEF Behind
  <2>2. ASSUME NEW j \in 1 .. 7 + f
        PROVE  c[1 + j] = a3[j]
    <3>1. 1 + j \in 1 .. 8 + f
      OBVIOUS
    <3> QED
      BY <1>13, <1>15, <3>1 DEF Behind
  <2> QED
    BY <1>14, <2>1, <2>2
<1>18. /\ \A j \in 1 .. 4 : c[1 + j] = two[j]
       /\ c[6] = ks[1] /\ c[7] = ks[2] /\ c[f + 8] = ea[1]
       /\ \A j \in 1 .. f : c[7 + j] = F[j]
  <2>1. ASSUME NEW j \in 1 .. 4
        PROVE  c[1 + j] = two[j]
    <3>1. j \in 1 .. 7 + f /\ j \in 1 .. 6 + f /\ j \in 1 .. 6
      OBVIOUS
    <3>2. c[1 + j] = a3[j]
      BY <1>17, <3>1
    <3>3. a3[j] = a2[j] /\ a2[j] = a1[j] /\ a1[j] = two[j]
      BY <1>9, <1>10, <1>11, <3>1 DEF Behind
    <3> QED
      BY <3>2, <3>3
  <2>2. c[6] = ks[1] /\ c[7] = ks[2]
    <3>1. c[1 + 5] = a3[5] /\ c[1 + 6] = a3[6] /\ a3[5] = a2[5] /\ a3[6] = a2[6]
      BY <1>11, <1>17 DEF Behind
    <3>2. a2[5] = a1[5] /\ a2[6] = a1[6] /\ a1[4 + 1] = ks[1] /\ a1[4 + 2] = ks[2]
      BY <1>9, <1>10 DEF Behind
    <3> QED
      BY <3>1, <3>2
  <2>3. c[f + 8] = ea[1]
    <3>1. 7 + f \in 1 .. 7 + f /\ 1 + (7 + f) = f + 8
      OBVIOUS
    <3> QED
      BY <1>12, <1>17, <3>1
  <2>4. ASSUME NEW j \in 1 .. f
        PROVE  c[7 + j] = F[j]
    <3>1. 6 + j \in 1 .. 7 + f /\ 6 + j \in 1 .. 6 + f /\ 1 + (6 + j) = 7 + j
      OBVIOUS
    <3> QED
      BY <1>10, <1>11, <1>17, <3>1 DEF Behind
  <2> QED
    BY <2>1, <2>2, <2>3, <2>4
<1>19. \A j \in 1 .. 6 : c[j] = RouteHead[j]
  <2> HIDE DEF two
  <2>1. Spelled(two, HeadNames, HeadKinds, 2) /\ IsDict(RouteHead, HeadNames, HeadKinds, 3)
    BY HeadIs DEF two
  <2>2. /\ two[2 * 1 - 1] = Call("Key", HeadNames[1]) /\ two[2 * 1] = Call("Value", HeadKinds[1])
        /\ two[2 * 2 - 1] = Call("Key", HeadNames[2]) /\ two[2 * 2] = Call("Value", HeadKinds[2])
    BY <2>1 DEF Spelled
  <2>3. /\ RouteHead[1] = Call("StartDict", "dict")
        /\ RouteHead[2 * 1] = Call("Key", HeadNames[1]) /\ RouteHead[2 * 1 + 1] = Call("Value", HeadKinds[1])
        /\ RouteHead[2 * 2] = Call("Key", HeadNames[2]) /\ RouteHead[2 * 2 + 1] = Call("Value", HeadKinds[2])
        /\ RouteHead[2 * 3] = Call("Key", HeadNames[3])
    BY <2>1 DEF IsDict
  <2>4. c[1 + 1] = two[1] /\ c[1 + 2] = two[2] /\ c[1 + 3] = two[3] /\ c[1 + 4] = two[4]
    BY <1>18
  <2>5. c[1] = RouteHead[1] /\ c[6] = RouteHead[6]
    BY <1>7, <1>17, <1>18, <2>3, HeadIs
  <2>6. c[2] = RouteHead[2] /\ c[3] = RouteHead[3] /\ c[4] = RouteHead[4] /\ c[5] = RouteHead[5]
    BY <2>2, <2>3, <2>4
  <2>7. 1 .. 6 = {1, 2, 3, 4, 5, 6}
    OBVIOUS
  <2> QED
    BY <2>5, <2>6, <2>7
<1>20. ASSUME NEW k \in 1 .. n
       PROVE  /\ off[k] = off[k - 1] + 2 * ItemSize(items[k]) + 2
              /\ \A j \in 1 .. 2 * ItemSize(items[k]) + 2 :
                   off[k - 1] + j <= off[n] /\ c[7 + off[k - 1] + j] = ItemNode(items[k])[j]
  <2>1. ItemSize(items[k]) \in Nat /\ off[k - 1] \in Nat
    BY <1>4 DEF ItemSize, Joins
  <2> DEFINE s == 2 * ItemSize(items[k]) + 2
  <2>2. s \in Nat /\ Len(ss[k]) = s /\ ss[k] = ItemNode(items[k])
    BY <1>1, <1>2, <2>1
  <2>3. off[k] = off[k - 1] + s
    BY <1>4, <2>2 DEF Joins
  <2> HIDE DEF s
  <2>4. ASSUME NEW j \in 1 .. s
        PROVE  off[k - 1] + j <= off[n] /\ c[7 + off[k - 1] + j] = ItemNode(items[k])[j]
    <3>1. off[k - 1] + j <= off[n] /\ F[off[k - 1] + j] = ss[k][j]
      BY <1>4, <2>2 DEF Joins
    <3>2. off[k - 1] + j \in 1 .. f /\ 7 + (off[k - 1] + j) = 7 + off[k - 1] + j
      BY <2>1, <2>2, <3>1
    <3> QED
      BY <1>18, <2>2, <3>1, <3>2
  <2>5. off[k] = off[k - 1] + 2 * ItemSize(items[k]) + 2
    BY <2>1, <2>3 DEF s
  <2> QED
    BY <2>4, <2>5 DEF s
<1>21. Len(c) = off[n] + 9
  BY <1>15 DEF Behind
<1>22. /\ \A k \in 0 .. n : off[k] \in Nat
       /\ off[0] = 0
  BY <1>4 DEF Joins
<1>23. IsRoute(c, n, items, off)
  BY <1>7, <1>17, <1>18, <1>19, <1>20, <1>21, <1>22 DEF IsRoute
<1> QED
  BY <1>15, <1>16, <1>23

ItemsPath == Append(Root, "items")

ItemPath(k) == Append(ItemsPath, k)

ItemsBase == Append(Append(<<>>, Root), ItemsPath)

\* These are paths, and not the path of the root.
LEMMA RoutePaths ==
  /\ Root \in Paths /\ ItemsPath \in Paths /\ Len(ItemsPath) = 1 /\ ItemsPath # Root
  /\ ArePaths(Root, <<>>) /\ ArePaths(ItemsPath, Append(<<>>, Root))
  /\ \A k \in Nat : /\ ItemPath(k) \in Paths /\ ItemPath(k) # Root /\ ItemPath(k) # ItemsPath
                    /\ ArePaths(ItemPath(k), ItemsBase)
  /\ \A j, k \in Nat : ItemPath(j) = ItemPath(k) => j = k
<1>1. Root \in Paths /\ Len(Root) = 0 /\ <<>> \in Seq(Paths)
  BY DEF Root, Paths
<1>2. "items" \in Steps
  BY DEF Steps, AllKeys, Names
<1>3. ItemsPath \in Paths /\ Len(ItemsPath) = 1 /\ ItemsPath # Root
  <2>1. /\ Append(Root, "items") \in Paths /\ Append(Root, "items") # Root
        /\ Len(Append(Root, "items")) = Len(Root) + 1
    BY <1>1, <1>2, PathLonger
  <2>2. Len(Append(Root, "items")) = 1
    BY <1>1, <2>1
  <2> QED
    BY <2>1, <2>2 DEF ItemsPath
<1>4. Append(<<>>, Root) \in Seq(Paths)
  BY <1>1, Pushed
<1>5. ItemsBase \in Seq(Paths)
  BY <1>3, <1>4, Pushed DEF ItemsBase
<1> HIDE DEF ItemsPath
<1>6. ASSUME NEW k \in Nat
      PROVE  /\ ItemPath(k) \in Paths /\ ItemPath(k) # Root /\ ItemPath(k) # ItemsPath
             /\ Len(ItemPath(k)) = 2 /\ Last(ItemPath(k)) = k
  <2>1. k \in Steps
    BY DEF Steps
  <2>2. /\ ItemPath(k) \in Paths /\ ItemPath(k) # Root
        /\ Len(ItemPath(k)) = 2 /\ Last(ItemPath(k)) = k
    <3>1. /\ ItemPath(k) \in Paths /\ ItemPath(k) # Root
          /\ Len(ItemPath(k)) = Len(ItemsPath) + 1 /\ Last(ItemPath(k)) = k
      BY <1>3, <2>1, PathLonger DEF ItemPath
    <3> QED
      BY <1>3, <3>1
  <2> QED
    BY <1>3, <2>2
<1>7. \A j, k \in Nat : ItemPath(j) = ItemPath(k) => j = k
  BY <1>6
<1>8. ArePaths(Root, <<>>) /\ ArePaths(ItemsPath, Append(<<>>, Root))
  BY <1>1, <1>3, <1>4 DEF ArePaths
<1>9. \A k \in Nat : ArePaths(ItemPath(k), ItemsBase)
  BY <1>5, <1>6 DEF ArePaths
<1> QED
  BY <1>1, <1>3, <1>6, <1>7, <1>8, <1>9

\* The document has a root with the members of a route, and its items are an
\* array.
Frame(d) ==
  /\ IsTree(d) /\ d[Root] = "dict" /\ d[ItemsPath] = "array"
  /\ d[Append(Root, "request_id")] = "scalar"
  /\ Holds(d, Root, {"request_id", "total_time", "items"})

\* The first k items are there, each with its members.
ItemsThere(d, items, k) ==
  \A j \in 1 .. k :
    Holds(d, ItemPath(j), {ItemNames(items[j])[x] : x \in 1 .. ItemSize(items[j])})

\* That stays when nodes come elsewhere.
LEMMA FrameStays ==
  ASSUME NEW d, NEW e, NEW a, Frame(d), IsTree(e), KeptBut(d, e, a), a # Root,
         NEW items, NEW k \in Nat, ItemsThere(d, items, k),
         \A j \in 1 .. k : a # ItemPath(j)
  PROVE  Frame(e) /\ ItemsThere(e, items, k)
<1>1. \A p \in {Append(Root, x) : x \in {"request_id", "total_time", "items"}} : p \in DOMAIN d
  BY DEF Frame, Holds, Below
<1>2. Root \in DOMAIN d /\ ItemsPath \in DOMAIN d /\ Append(Root, "request_id") \in DOMAIN d
  BY <1>1 DEF Frame, Holds, ItemsPath
<1>3. \A p \in DOMAIN d : p \in DOMAIN e /\ e[p] = d[p] /\ (p # a => Below(e, p) = Below(d, p))
  BY DEF KeptBut
<1>4. Frame(e)
  BY <1>2, <1>3 DEF Frame, Holds
<1>5. ItemsThere(e, items, k)
  BY <1>3 DEF ItemsThere, Holds
<1> QED
  BY <1>4, <1>5

\* Between two items: the array is on top.
BetweenItems(items, k) ==
  /\ Frame(doc) /\ outcome = "building" /\ key = NoKey
  /\ stack = ItemsBase
  /\ Holds(doc, ItemsPath, 1 .. k) /\ ItemsThere(doc, items, k)

\* In an item: its dict is on top.
InItem(items, k, made) ==
  /\ Frame(doc) /\ outcome = "building"
  /\ Holds(doc, ItemsPath, 1 .. k + 1) /\ ItemsThere(doc, items, k)
  /\ Progress(ItemPath(k + 1), ItemsBase, ItemNames(items[k + 1]), ItemKinds, ItemSize(items[k + 1]), made)

\* After the items: the root is on top, or it is closed.
AfterItems(items, n, base) ==
  /\ Frame(doc) /\ key = NoKey /\ stack = base
  /\ Holds(doc, ItemsPath, 1 .. n) /\ ItemsThere(doc, items, n)

\* The array is opened.
LEMMA ItemsOpened ==
  ASSUME Progress(Root, <<>>, HeadNames, HeadKinds, 3, 6), Make(Call("StartArray", "array")), NEW items
  PROVE  /\ BetweenItems(items, 0)'
         /\ calls' = Append(calls, Call("StartArray", "array"))
<1> DEFINE c == Call("StartArray", "array")
<1>1. Add(c, "array", TRUE)
  <2>1. StartArray
    BY DEF Make, Call
  <2> QED
    BY <2>1 DEF StartArray
<1> HIDE DEF c
<1>2. PICK i \in 0 .. 3 :
        \/ 6 = 2 * i + 1 /\ OpenDict(Root, <<>>, HeadNames, HeadKinds, i, NoKey)
        \/ i + 1 <= 3 /\ 6 = 2 * i + 2 /\ OpenDict(Root, <<>>, HeadNames, HeadKinds, i, HeadNames[i + 1])
  BY DEF Progress
<1>3. i = 2
  BY <1>2
<1>4. OpenDict(Root, <<>>, HeadNames, HeadKinds, 2, HeadNames[2 + 1]) /\ 2 + 1 = 3
  BY <1>2, <1>3
<1>5. /\ HeadNames[3] = "items" /\ HeadKinds[3] = "array" /\ AreMembers(HeadNames, HeadKinds, 3)
      /\ HeadNames[3] # NoKey /\ HeadNames[1] = "request_id" /\ HeadKinds[1] = "scalar"
      /\ {HeadNames[x] : x \in 1 .. 3} = {"request_id", "total_time", "items"}
  BY HeadIs DEF NoKey
<1>6. MemberAdded(Root, HeadNames, HeadKinds, 2, c, TRUE)
  BY <1>1, <1>4, <1>5, MemberValue, RoutePaths, TRUE \in BOOLEAN, 2 \in Nat, 2 + 1 <= 3
<1>7. /\ IsTree(doc') /\ doc'[Root] = "dict" /\ outcome' = "building" /\ key' = NoKey
      /\ Holds(doc', Root, {HeadNames[x] : x \in 1 .. 3})
      /\ Holds(doc', ItemsPath, {})
      /\ \A x \in 1 .. 3 : doc'[Append(Root, HeadNames[x])] = HeadKinds[x]
      /\ stack' = Append(stack, ItemsPath)
      /\ calls' = Append(calls, c)
  BY <1>4, <1>5, <1>6 DEF MemberAdded, ItemsPath
<1>8. doc'[ItemsPath] = "array" /\ doc'[Append(Root, "request_id")] = "scalar"
  BY <1>5, <1>7 DEF ItemsPath
<1>9. stack' = ItemsBase
  BY <1>4, <1>7 DEF OpenDict, ItemsBase
<1>10. 1 .. 0 = {}
  OBVIOUS
<1>11. Frame(doc') /\ Holds(doc', ItemsPath, 1 .. 0) /\ ItemsThere(doc', items, 0)
  BY <1>5, <1>7, <1>8, <1>10 DEF Frame, ItemsThere
<1> QED
  BY <1>7, <1>9, <1>11 DEF BetweenItems, c

\* Two pushed on nothing.
LEMMA TwoPushed ==
  ASSUME NEW S, NEW a \in S, NEW b \in S
  PROVE  /\ Append(Append(<<>>, a), b) \in Seq(S) /\ Len(Append(Append(<<>>, a), b)) = 2
         /\ Append(Append(<<>>, a), b)[1] = a /\ Append(Append(<<>>, a), b)[2] = b
<1> DEFINE s == Append(<<>>, a)
<1>1. s \in Seq(S) /\ Len(s) = 1 /\ s[1] = a
  OBVIOUS
<1> HIDE DEF s
<1>2. /\ Append(s, b) \in Seq(S) /\ Len(Append(s, b)) = Len(s) + 1
      /\ \A i \in 1 .. Len(s) : Append(s, b)[i] = s[i]
      /\ Append(s, b)[Len(s) + 1] = b
  <2>1. s \in Seq(S)
    BY <1>1
  <2> QED
    BY <2>1, AppendProperties
<1>3. Append(s, b)[1] = s[1]
  BY <1>1, <1>2
<1>4. Len(Append(s, b)) = 2 /\ Append(s, b)[1] = a /\ Append(s, b)[2] = b
  BY <1>1, <1>2, <1>3
<1> QED
  BY <1>2, <1>4 DEF s

\* An item is begun: no pointer has moved away.
LEMMA ItemBegun ==
  ASSUME NEW n \in Nat, NEW items \in [1 .. n -> {"Wait", "Bus"}], NEW k \in Nat, k + 1 <= n,
         BetweenItems(items, k), Make(Call("StartDict", "dict"))
  PROVE  /\ InItem(items, k, 1)'
         /\ calls' = Append(calls, Call("StartDict", "dict"))
<1> DEFINE c == Call("StartDict", "dict")
           p == ItemPath(k + 1)
<1>1. Add(c, "dict", TRUE)
  <2>1. StartDict
    BY DEF Make, Call
  <2> QED
    BY <2>1 DEF StartDict
<1> HIDE DEF c
<1>2. /\ Frame(doc) /\ outcome = "building" /\ key = NoKey
      /\ stack = Append(Append(<<>>, Root), ItemsPath)
      /\ Holds(doc, ItemsPath, 1 .. k) /\ ItemsThere(doc, items, k)
  BY DEF BetweenItems, ItemsBase
<1>3. stack # <<>> /\ Top = ItemsPath /\ Top # Nil
  BY <1>2, DictOnTop, RoutePaths
<1>4. doc[ItemsPath] = "array" /\ IsTree(doc) /\ ItemsPath \in DOMAIN doc /\ ItemsPath \in Paths
  BY <1>2, RoutePaths DEF Frame, Holds
<1>5. ~Misplaced
  BY <1>2, <1>3, <1>4 DEF Misplaced
<1>6. AddItem("dict", TRUE) /\ Accept(c) /\ UNCHANGED outcome
  BY <1>1, <1>3, <1>5 DEF Add
<1>7. AddToArray("dict", TRUE)
  BY <1>3, <1>4, <1>6 DEF AddItem, FillNull, AddToDict, AddToScalar
<1>8. Length(ItemsPath) = k /\ Cardinality(Below(doc, ItemsPath)) = k
  <2>1. Below(doc, ItemsPath) = {Append(ItemsPath, j) : j \in 1 .. k}
    BY <1>2 DEF Holds
  <2>2. Cardinality(Below(doc, ItemsPath)) = k
    BY <1>4, <2>1, ElementsCounted
  <2> QED
    BY <1>4, <2>2, LengthIs
<1>9. Moved(ItemsPath) = stack
  <2>1. /\ stack \in Seq(Paths) /\ Len(stack) = 2 /\ stack[1] = Root /\ stack[2] = ItemsPath
        /\ Len(Root) = 0 /\ Len(ItemsPath) = 1
    <3>1. stack \in Seq(Paths) /\ Len(stack) = 2 /\ stack[1] = Root /\ stack[2] = ItemsPath
      BY <1>2, RoutePaths, TwoPushed
    <3>2. Len(Root) = 0
      BY DEF Root
    <3> QED
      BY <3>1, <3>2, RoutePaths
  <2>2. ~IsStrictPrefix(ItemsPath, ItemsPath)
    BY DEF IsStrictPrefix
  <2>3. ~IsStrictPrefix(ItemsPath, Root)
    <3>1. ~(Len(ItemsPath) <= Len(Root))
      BY <2>1
    <3> QED
      BY <3>1 DEF IsStrictPrefix, IsPrefix
  <2>4. DOMAIN stack = {1, 2} /\ stack[1] = Root /\ stack[2] = ItemsPath
    BY <2>1
  <2>5. \A j \in DOMAIN stack : ~IsStrictPrefix(ItemsPath, stack[j])
    BY <2>2, <2>3, <2>4
  <2>6. Moved(ItemsPath) = [j \in DOMAIN stack |-> stack[j]]
    BY <2>5 DEF Moved
  <2>7. stack = [j \in DOMAIN stack |-> stack[j]]
    BY <2>1
  <2> QED
    BY <2>6, <2>7
<1>10. Store(p, "dict", stack, TRUE) /\ key' = key
  BY <1>3, <1>7, <1>8, <1>9 DEF AddToArray, ItemPath
<1>11. doc' = WithNode(doc, p, "dict") /\ stack' = Append(stack, p)
  BY <1>10 DEF Store, WithNode
<1>12. k + 1 \in Steps /\ 1 .. k \subseteq Steps /\ k + 1 \notin 1 .. k /\ k + 1 \in Nat
  BY DEF Steps
<1>13. p \notin DOMAIN doc
  BY <1>2, <1>4, <1>12, NotThere DEF ItemPath
<1>14. IsTree(doc')
  <2>1. "dict" \in Kinds /\ "array" \in {"array", "dict"}
    BY DEF Kinds
  <2> QED
    BY <1>4, <1>8, <1>11, <1>12, <1>13, <2>1, GrowTree DEF ItemPath
<1>15. /\ doc'[p] = "dict"
       /\ Holds(doc', ItemsPath, (1 .. k) \cup {k + 1})
       /\ Holds(doc', p, {})
       /\ KeptBut(doc, doc', ItemsPath)
  <2> DEFINE e == WithNode(doc, Append(ItemsPath, k + 1), "dict")
  <2>1. Append(ItemsPath, k + 1) \notin DOMAIN doc /\ Holds(doc, ItemsPath, 1 .. k)
    BY <1>2, <1>13 DEF ItemPath
  <2>2. /\ e[Append(ItemsPath, k + 1)] = "dict"
        /\ Holds(e, ItemsPath, (1 .. k) \cup {k + 1})
        /\ Holds(e, Append(ItemsPath, k + 1), {})
        /\ KeptBut(doc, e, ItemsPath)
    BY <1>4, <1>12, <2>1, OneGrown
  <2>3. doc' = e /\ p = Append(ItemsPath, k + 1)
    BY <1>11 DEF ItemPath
  <2> QED
    BY <2>2, <2>3
<1>16. Frame(doc') /\ ItemsThere(doc', items, k)
  <2>1. \A j \in 1 .. k : ItemsPath # ItemPath(j)
    BY RoutePaths
  <2>2. ItemsPath # Root
    BY RoutePaths
  <2> QED
    BY <1>2, <1>14, <1>15, <2>1, <2>2, FrameStays
<1>17. (1 .. k) \cup {k + 1} = 1 .. k + 1
  OBVIOUS
<1> HIDE DEF p
<1> DEFINE ks == ItemNames(items[k + 1])
<1>18. OpenDict(p, ItemsBase, ks, ItemKinds, 0, NoKey)'
  <2>1. stack' = Append(ItemsBase, p)
    BY <1>2, <1>11 DEF ItemsBase
  <2>2. 1 .. 0 = {}
    OBVIOUS
  <2>3. doc'[Root] = "dict" /\ outcome' = "building" /\ key' = NoKey
    BY <1>2, <1>6, <1>10, <1>16 DEF Frame
  <2> QED
    BY <1>14, <1>15, <2>1, <2>2, <2>3 DEF OpenDict
<1>19. Progress(p, ItemsBase, ks, ItemKinds, ItemSize(items[k + 1]), 1)'
  <2>1. 0 \in 0 .. ItemSize(items[k + 1]) /\ 1 = 2 * 0 + 1
    BY DEF ItemSize
  <2> HIDE DEF ks
  <2> QED
    BY <1>18, <2>1 DEF Progress
<1>20. outcome' = "building" /\ calls' = Append(calls, c)
  BY <1>2, <1>6 DEF Accept
<1>21. InItem(items, k, 1)'
  BY <1>15, <1>16, <1>17, <1>19, <1>20 DEF InItem, p
<1> QED
  BY <1>20, <1>21 DEF c

\* The next call for an item.
LEMMA ItemGoesOn ==
  ASSUME NEW n \in Nat, NEW items \in [1 .. n -> {"Wait", "Bus"}], NEW k \in Nat, k + 1 <= n,
         NEW made, InItem(items, k, made), Make(ItemNode(items[k + 1])[made + 1])
  PROVE  /\ made \in 1 .. 2 * ItemSize(items[k + 1]) + 1
         /\ \E call \in Texts : calls' = Append(calls, call)
         /\ IF made = 2 * ItemSize(items[k + 1]) + 1 THEN BetweenItems(items, k + 1)'
            ELSE InItem(items, k, made + 1)'
<1> DEFINE type == items[k + 1]
           ks == ItemNames(type)
           s == ItemSize(type)
           P == ItemPath(k + 1)
<1>1. type \in {"Wait", "Bus"} /\ k + 1 \in Nat /\ k + 1 \in 1 .. n
  OBVIOUS
<1>2. AreMembers(ks, ItemKinds, s) /\ IsDict(ItemNode(type), ks, ItemKinds, s)
  BY <1>1, ItemIs
<1>3. ArePaths(P, ItemsBase) /\ P # Root /\ P # ItemsPath /\ \A j \in 1 .. k : P # ItemPath(j)
  BY <1>1, RoutePaths
<1>4. /\ Frame(doc) /\ outcome = "building"
      /\ Holds(doc, ItemsPath, 1 .. k + 1) /\ ItemsThere(doc, items, k)
      /\ Progress(P, ItemsBase, ks, ItemKinds, s, made)
  BY DEF InItem
<1> HIDE DEF P, ks, s
<1>5. /\ made \in 1 .. 2 * s + 1
      /\ \E call \in Texts : calls' = Append(calls, call)
      /\ outcome' = "building"
      /\ KeptBut(doc, doc', P)
      /\ IF made = 2 * s + 1 THEN ClosedDict(P, ItemsBase, ks, ItemKinds, s)'
         ELSE Progress(P, ItemsBase, ks, ItemKinds, s, made + 1)'
  BY <1>2, <1>3, <1>4, DictStep
<1>6. IsTree(doc')
  BY <1>5 DEF ClosedDict, Progress, OpenDict
<1>7. Frame(doc') /\ ItemsThere(doc', items, k)
  BY <1>3, <1>4, <1>5, <1>6, FrameStays
<1>8. Holds(doc', ItemsPath, 1 .. k + 1)
  BY <1>3, <1>4, <1>5 DEF Holds, KeptBut
<1>9. CASE made = 2 * s + 1
  <2>1. ClosedDict(P, ItemsBase, ks, ItemKinds, s)'
    BY <1>5, <1>9
  <2>2. Holds(doc', P, {ks[x] : x \in 1 .. s}) /\ stack' = ItemsBase /\ key' = NoKey
    BY <2>1 DEF ClosedDict
  <2>3. ItemsThere(doc', items, k + 1)
    <3> SUFFICES ASSUME NEW j \in 1 .. k + 1
                 PROVE  Holds(doc', ItemPath(j), {ItemNames(items[j])[x] : x \in 1 .. ItemSize(items[j])})
      BY DEF ItemsThere
    <3>1. CASE j = k + 1
      BY <2>2, <3>1 DEF P, ks, s
    <3>2. CASE j \in 1 .. k
      BY <1>7, <3>2 DEF ItemsThere
    <3> QED
      BY <3>1, <3>2
  <2>4. BetweenItems(items, k + 1)'
    BY <1>5, <1>7, <1>8, <2>2, <2>3 DEF BetweenItems
  <2> QED
    BY <1>5, <1>9, <2>4 DEF s
<1>10. CASE made # 2 * s + 1
  <2>1. Progress(P, ItemsBase, ks, ItemKinds, s, made + 1)'
    BY <1>5, <1>10
  <2>2. InItem(items, k, made + 1)'
    BY <1>5, <1>7, <1>8, <2>1 DEF InItem, P, ks, s
  <2> QED
    BY <1>5, <1>10, <2>2 DEF s
<1> QED
  BY <1>9, <1>10

\* The array is ended.
LEMMA ItemsEnded ==
  ASSUME NEW n \in Nat, NEW items, BetweenItems(items, n), Make(Call("EndArray", NoKey))
  PROVE  /\ AfterItems(items, n, Append(<<>>, Root))' /\ outcome' = "building"
         /\ calls' = Append(calls, Call("EndArray", "array"))
<1>1. End("EndArray", "array")
  BY DEF Make, Call, EndArray
<1>2. stack = Append(Append(<<>>, Root), ItemsPath) /\ doc[ItemsPath] = "array"
  BY DEF BetweenItems, ItemsBase, Frame
<1>3. stack # <<>> /\ Top = ItemsPath /\ Top # Nil /\ Front(stack) = Append(<<>>, Root)
  BY <1>2, DictOnTop, RoutePaths
<1>4. /\ stack' = Append(<<>>, Root) /\ Accept(Call("EndArray", "array"))
      /\ UNCHANGED <<doc, key, outcome>>
  BY <1>1, <1>2, <1>3 DEF End
<1>5. AfterItems(items, n, Append(<<>>, Root))'
  BY <1>4 DEF AfterItems, BetweenItems
<1> QED
  BY <1>4, <1>5 DEF Accept, BetweenItems

\* The dict of the route is ended.
LEMMA RouteEnded ==
  ASSUME NEW n \in Nat, NEW items, AfterItems(items, n, Append(<<>>, Root)), Make(Call("EndDict", NoKey)),
         outcome = "building"
  PROVE  /\ AfterItems(items, n, <<>>)' /\ outcome' = "building"
         /\ calls' = Append(calls, Call("EndDict", "dict"))
<1>1. End("EndDict", "dict")
  BY DEF Make, Call, EndDict
<1>2. stack = Append(<<>>, Root) /\ doc[Root] = "dict"
  BY DEF AfterItems, Frame
<1>3. stack # <<>> /\ Top = Root /\ Top # Nil /\ Front(stack) = <<>>
  BY <1>2, DictOnTop, RoutePaths
<1>4. stack' = <<>> /\ Accept(Call("EndDict", "dict")) /\ UNCHANGED <<doc, key, outcome>>
  BY <1>1, <1>2, <1>3 DEF End
<1>5. AfterItems(items, n, <<>>)'
  BY <1>4 DEF AfterItems
<1> QED
  BY <1>4, <1>5 DEF Accept

\* Build ends it.
LEMMA RouteBuilt ==
  ASSUME NEW n, NEW items, AfterItems(items, n, <<>>), Build
  PROVE  outcome' = "built" /\ UNCHANGED <<doc, key, stack, calls>>
<1>1. stack = <<>> /\ doc[Root] # "null"
  BY DEF AfterItems, Frame
<1> QED
  BY <1>1 DEF Build, builder

\* How far a route has come, when so many calls have been made for it.
RouteAt(m, n, items, off) ==
  \/ m = 0 /\ NothingYet
  \/ m \in 1 .. 6 /\ outcome = "building" /\ Progress(Root, <<>>, HeadNames, HeadKinds, 3, m)
  \/ \E k \in 0 .. n : m = 7 + off[k] /\ BetweenItems(items, k)
  \/ \E k \in 0 .. n - 1 : \E made \in 1 .. 2 * ItemSize(items[k + 1]) + 1 :
       m = 7 + off[k] + made /\ InItem(items, k, made)
  \/ m = off[n] + 8 /\ outcome = "building" /\ AfterItems(items, n, Append(<<>>, Root))
  \/ m = off[n] + 9 /\ AfterItems(items, n, <<>>)

RouteInv(n, items, off) ==
  /\ calls \in Seq(Texts) /\ outcome \in {"building", "built"}
  /\ RouteAt(Len(calls), n, items, off)

\* The calls bring a route from its beginning to its end.
LEMMA RouteGoesOn ==
  ASSUME NEW n \in Nat, NEW items \in [1 .. n -> {"Wait", "Bus"}], NEW off,
         NEW c, IsRoute(c, n, items, off),
         NEW m \in Nat, m < Len(c), RouteAt(m, n, items, off), Make(c[m + 1])
  PROVE  /\ RouteAt(m + 1, n, items, off)' /\ outcome' = "building"
         /\ \E call \in Texts : calls' = Append(calls, call)
<1>1. /\ \A k \in 0 .. n : off[k] \in Nat
      /\ off[0] = 0 /\ Len(c) = off[n] + 9 /\ off[n] \in Nat
      /\ \A k \in 1 .. n : off[k] = off[k - 1] + 2 * ItemSize(items[k]) + 2
      /\ \A j \in 1 .. 6 : c[j] = RouteHead[j]
      /\ c[7] = Call("StartArray", "array")
      /\ \A k \in 1 .. n : \A j \in 1 .. 2 * ItemSize(items[k]) + 2 :
           off[k - 1] + j <= off[n] /\ c[7 + off[k - 1] + j] = ItemNode(items[k])[j]
      /\ c[off[n] + 8] = Call("EndArray", NoKey) /\ c[off[n] + 9] = Call("EndDict", NoKey)
  <2>1. off[n] \in Nat
    BY n \in 0 .. n DEF IsRoute
  <2> QED
    BY <2>1 DEF IsRoute
<1>2. IsDict(RouteHead, HeadNames, HeadKinds, 3) /\ AreMembers(HeadNames, HeadKinds, 3)
  BY HeadIs
<1>3. CASE m = 0 /\ NothingYet
  <2>1. c[m + 1] = Call("StartDict", "dict")
    BY <1>1, <1>2, <1>3 DEF IsDict
  <2>2. /\ Progress(Root, <<>>, HeadNames, HeadKinds, 3, 1)' /\ outcome' = "building"
        /\ \E call \in Texts : calls' = Append(calls, call)
    BY <1>3, <2>1, RootOpened, 3 \in Nat
  <2>3. m + 1 = 1 /\ 1 \in 1 .. 6
    BY <1>3
  <2>4. RouteAt(m + 1, n, items, off)'
    BY <2>2, <2>3 DEF RouteAt
  <2> QED
    BY <2>2, <2>4
<1>4. CASE m \in 1 .. 5 /\ outcome = "building" /\ Progress(Root, <<>>, HeadNames, HeadKinds, 3, m)
  <2>1. m # 2 * 3 + 1 /\ m + 1 \in 1 .. 6
    BY <1>4
  <2>2. Make(RouteHead[m + 1])
    <3>1. c[m + 1] = RouteHead[m + 1]
      BY <1>1, <2>1, Zenon
    <3> QED
      BY <3>1
  <2>3. /\ \E call \in Texts : calls' = Append(calls, call)
        /\ outcome' = "building"
        /\ IF m = 2 * 3 + 1 THEN ClosedDict(Root, <<>>, HeadNames, HeadKinds, 3)'
           ELSE Progress(Root, <<>>, HeadNames, HeadKinds, 3, m + 1)'
    BY <1>2, <1>4, <2>2, DictStep, RoutePaths
  <2>4. RouteAt(m + 1, n, items, off)'
    BY <2>1, <2>3 DEF RouteAt
  <2> QED
    BY <2>3, <2>4
<1>5. CASE m = 6 /\ Progress(Root, <<>>, HeadNames, HeadKinds, 3, m)
  <2>1. Make(Call("StartArray", "array"))
    BY <1>1, <1>5, 6 + 1 = 7
  <2>2. BetweenItems(items, 0)' /\ calls' = Append(calls, Call("StartArray", "array"))
    BY <1>5, <2>1, ItemsOpened
  <2>3. m + 1 = 7 + off[0] /\ 0 \in 0 .. n
    BY <1>1, <1>5
  <2>4. RouteAt(m + 1, n, items, off)' /\ outcome' = "building"
    BY <2>2, <2>3 DEF RouteAt, BetweenItems
  <2> QED
    BY <2>2, <2>4, CallsAreTexts
<1>6. ASSUME NEW k \in 0 .. n, m = 7 + off[k], BetweenItems(items, k), k # n
      PROVE  /\ RouteAt(m + 1, n, items, off)' /\ outcome' = "building"
             /\ \E call \in Texts : calls' = Append(calls, call)
  <2>1. k \in Nat /\ k + 1 \in 1 .. n /\ k + 1 <= n /\ (k + 1) - 1 = k /\ k \in 0 .. n - 1 /\ off[k] \in Nat
    BY <1>1, <1>6
  <2> DEFINE type == items[k + 1]
             s == ItemSize(type)
  <2>2. IsDict(ItemNode(type), ItemNames(type), ItemKinds, s) /\ s \in Nat
    BY <2>1, ItemIs DEF ItemSize
  <2>3. 1 \in 1 .. 2 * s + 2 /\ 1 \in 1 .. 2 * s + 1
    BY <2>2
  <2>4. c[7 + off[k] + 1] = ItemNode(type)[1]
    BY <1>1, <2>1, <2>3
  <2>5. Make(Call("StartDict", "dict"))
    BY <1>6, <2>2, <2>4 DEF IsDict
  <2>6. InItem(items, k, 1)' /\ calls' = Append(calls, Call("StartDict", "dict"))
    BY <1>6, <2>1, <2>5, ItemBegun
  <2>7. RouteAt(m + 1, n, items, off)' /\ outcome' = "building"
    BY <1>6, <2>1, <2>3, <2>6 DEF RouteAt, InItem
  <2> QED
    BY <2>6, <2>7, CallsAreTexts
<1>7. ASSUME NEW k \in 0 .. n - 1, NEW made \in 1 .. 2 * ItemSize(items[k + 1]) + 1,
             m = 7 + off[k] + made, InItem(items, k, made)
      PROVE  /\ RouteAt(m + 1, n, items, off)' /\ outcome' = "building"
             /\ \E call \in Texts : calls' = Append(calls, call)
  <2>1. k \in Nat /\ k + 1 \in 1 .. n /\ k + 1 <= n /\ (k + 1) - 1 = k /\ k + 1 \in 0 .. n /\ off[k] \in Nat
    BY <1>1
  <2> DEFINE type == items[k + 1]
             s == ItemSize(type)
  <2>2. s \in Nat
    BY DEF ItemSize
  <2>3. made \in Nat /\ made + 1 \in 1 .. 2 * s + 2 /\ 7 + off[k] + (made + 1) = m + 1
    <3> DEFINE o == off[k]
    <3>1. made \in 1 .. 2 * s + 1 /\ m = 7 + o + made /\ o \in Nat
      BY <1>7, <2>1
    <3> HIDE DEF s, o
    <3>2. made \in Nat /\ made + 1 \in 1 .. 2 * s + 2 /\ 7 + o + (made + 1) = m + 1
      BY <2>2, <3>1
    <3> QED
      BY <3>2 DEF o
  <2>4. c[7 + off[k] + (made + 1)] = ItemNode(type)[made + 1]
    BY <1>1, <2>1, <2>3
  <2>5. Make(ItemNode(type)[made + 1])
    BY <2>3, <2>4
  <2>6. /\ \E call \in Texts : calls' = Append(calls, call)
        /\ IF made = 2 * s + 1 THEN BetweenItems(items, k + 1)' ELSE InItem(items, k, made + 1)'
    BY <1>7, <2>1, <2>5, ItemGoesOn
  <2>7. off[k + 1] = off[k] + 2 * s + 2
    BY <1>1, <2>1
  <2> HIDE DEF s
  <2>8. CASE made = 2 * s + 1
    <3>1. BetweenItems(items, k + 1)' /\ m + 1 = 7 + off[k + 1]
      BY <2>1, <2>2, <2>3, <2>6, <2>7, <2>8
    <3>2. RouteAt(m + 1, n, items, off)' /\ outcome' = "building"
      BY <2>1, <3>1 DEF RouteAt, BetweenItems
    <3> QED
      BY <2>6, <3>2
  <2>9. CASE made # 2 * s + 1
    <3>1. InItem(items, k, made + 1)' /\ made + 1 \in 1 .. 2 * s + 1 /\ m + 1 = 7 + off[k] + (made + 1)
      BY <2>2, <2>3, <2>6, <2>9
    <3>2. RouteAt(m + 1, n, items, off)' /\ outcome' = "building"
      BY <3>1 DEF RouteAt, InItem, s
    <3> QED
      BY <2>6, <3>2
  <2> QED
    BY <2>8, <2>9
<1>8. ASSUME m = 7 + off[n], BetweenItems(items, n)
      PROVE  /\ RouteAt(m + 1, n, items, off)' /\ outcome' = "building"
             /\ \E call \in Texts : calls' = Append(calls, call)
  <2>1. m + 1 = off[n] + 8
    BY <1>1, <1>8
  <2>2. /\ AfterItems(items, n, Append(<<>>, Root))' /\ outcome' = "building"
        /\ calls' = Append(calls, Call("EndArray", "array"))
    BY <1>1, <1>8, <2>1, ItemsEnded
  <2>3. Call("EndArray", "array") \in Texts
    BY DEF Call, Texts, Kinds
  <2>4. RouteAt(m + 1, n, items, off)'
    BY <2>1, <2>2 DEF RouteAt
  <2> QED
    BY <2>2, <2>3, <2>4
<1>9. ASSUME m = off[n] + 8, outcome = "building", AfterItems(items, n, Append(<<>>, Root))
      PROVE  /\ RouteAt(m + 1, n, items, off)' /\ outcome' = "building"
             /\ \E call \in Texts : calls' = Append(calls, call)
  <2>1. m + 1 = off[n] + 9
    BY <1>1, <1>9
  <2>2. /\ AfterItems(items, n, <<>>)' /\ outcome' = "building"
        /\ calls' = Append(calls, Call("EndDict", "dict"))
    BY <1>1, <1>9, <2>1, RouteEnded
  <2>3. Call("EndDict", "dict") \in Texts
    BY DEF Call, Texts, Kinds
  <2>4. RouteAt(m + 1, n, items, off)'
    BY <2>1, <2>2 DEF RouteAt
  <2> QED
    BY <2>2, <2>3, <2>4
<1>10. m # off[n] + 9
  BY <1>1
<1>11. \A j \in 1 .. 6 : j \in 1 .. 5 \/ j = 6
  OBVIOUS
<1> QED
  BY <1>3, <1>4, <1>5, <1>6, <1>7, <1>8, <1>9, <1>10, <1>11 DEF RouteAt

\* Every step for a route brings it further.
LEMMA RouteStep ==
  ASSUME NEW n \in Nat, NEW items \in [1 .. n -> {"Wait", "Bus"}], NEW off,
         IsRoute(answer, n, items, off), RouteInv(n, items, off),
         [MakeAnswer]_<<vars, answer>>
  PROVE  RouteInv(n, items, off)'
<1>1. Len(answer) = off[n] + 9 /\ off[n] \in Nat /\ \A k \in 0 .. n : off[k] \in Nat
  BY DEF IsRoute
<1>2. calls \in Seq(Texts) /\ Len(calls) \in Nat /\ outcome \in {"building", "built"}
      /\ RouteAt(Len(calls), n, items, off)
  BY DEF RouteInv
<1> PICK m \in Nat : m = Len(calls)
  BY <1>2
<1>3. CASE UNCHANGED <<vars, answer>>
  <2>1. doc' = doc /\ key' = key /\ stack' = stack /\ outcome' = outcome /\ calls' = calls
    BY <1>3 DEF vars, builder
  <2>2. \A k : /\ BetweenItems(items, k)' <=> BetweenItems(items, k)
               /\ \A made : InItem(items, k, made)' <=> InItem(items, k, made)
               /\ \A base : AfterItems(items, k, base)' <=> AfterItems(items, k, base)
    BY <2>1 DEF BetweenItems, InItem, AfterItems, Progress, OpenDict
  <2>3. /\ NothingYet' <=> NothingYet
        /\ Progress(Root, <<>>, HeadNames, HeadKinds, 3, m)'
             <=> Progress(Root, <<>>, HeadNames, HeadKinds, 3, m)
    BY <2>1 DEF NothingYet, Progress, OpenDict
  <2>4. RouteAt(m, n, items, off)'
    BY <1>2, <2>1, <2>2, <2>3 DEF RouteAt
  <2> QED
    BY <1>2, <2>1, <2>4 DEF RouteInv
<1>4. CASE MakeAnswer
  <2>1. /\ m < Len(answer) => Make(answer[m + 1])
        /\ ~(m < Len(answer)) => Build
    BY <1>4 DEF MakeAnswer
  <2>2. CASE m < Len(answer)
    <3>1. /\ RouteAt(m + 1, n, items, off)' /\ outcome' = "building"
          /\ \E call \in Texts : calls' = Append(calls, call)
      BY <1>2, <2>1, <2>2, RouteGoesOn
    <3>2. calls' \in Seq(Texts) /\ Len(calls') = m + 1
      BY <1>2, <3>1
    <3> QED
      BY <3>1, <3>2 DEF RouteInv
  <2>3. CASE ~(m < Len(answer))
    <3>1. Build
      BY <2>1, <2>3
    <3>2. CASE m = off[n] + 9 /\ AfterItems(items, n, <<>>)
      <4>1. outcome' = "built" /\ UNCHANGED <<doc, key, stack, calls>>
        BY <3>1, <3>2, RouteBuilt
      <4>2. AfterItems(items, n, <<>>)'
        BY <3>2, <4>1 DEF AfterItems
      <4>3. RouteAt(m, n, items, off)'
        BY <3>2, <4>2 DEF RouteAt
      <4> QED
        BY <1>2, <4>1, <4>3 DEF RouteInv
    <3>3. /\ \A k \in 0 .. n : 7 + off[k] # m
          /\ \A k \in 0 .. n - 1 : \A made \in 1 .. 2 * ItemSize(items[k + 1]) + 1 : 7 + off[k] + made # m
      <4>1. 7 + off[n] # m
        BY <1>1, <2>3
      <4>2. ASSUME NEW k \in 0 .. n - 1
            PROVE  /\ off[k] \in Nat /\ off[k] <= off[n]
                   /\ \A made \in 1 .. 2 * ItemSize(items[k + 1]) + 1 : off[k] + made <= off[n]
        <5> DEFINE s == ItemSize(items[k + 1])
        <5>1. k + 1 \in 1 .. n /\ (k + 1) - 1 = k /\ k \in 0 .. n
          OBVIOUS
        <5>2. s \in Nat
          BY DEF ItemSize
        <5>3. \A j \in 1 .. 2 * s + 2 : off[k] + j <= off[n]
          BY <5>1 DEF IsRoute
        <5>4. off[k] \in Nat
          BY <1>1, <5>1
        <5> HIDE DEF s
        <5>5. 1 \in 1 .. 2 * s + 2 /\ \A made \in 1 .. 2 * s + 1 : made \in 1 .. 2 * s + 2
          BY <5>2
        <5>6. \A made \in 1 .. 2 * s + 1 : off[k] + made <= off[n]
          BY <5>3, <5>5
        <5>7. off[k] <= off[n]
          BY <1>1, <5>3, <5>4, <5>5
        <5> QED
          BY <5>4, <5>6, <5>7 DEF s
      <4>3. \A k \in 0 .. n : k = n \/ k \in 0 .. n - 1
        OBVIOUS
      <4>4. ASSUME NEW k \in 0 .. n - 1
            PROVE  7 + off[k] # m
        BY <1>1, <2>3, <4>2
      <4>5. ASSUME NEW k \in 0 .. n - 1, NEW made \in 1 .. 2 * ItemSize(items[k + 1]) + 1
            PROVE  7 + off[k] + made # m
        <5>1. off[k] + made <= off[n]
          BY <4>2
        <5>2. PICK a \in Nat : a = off[k]
          BY <4>2
        <5>3. PICK o \in Nat : o = off[n]
          BY <1>1
        <5>4. made \in Nat
          OBVIOUS
        <5>5. a + made <= o /\ ~(m < o + 9)
          BY <1>1, <2>3, <5>1, <5>2, <5>3
        <5>6. 7 + a + made # m
          BY <5>4, <5>5
        <5> QED
          BY <5>2, <5>6
      <4> QED
        BY <4>1, <4>3, <4>4, <4>5
    <3>4. m # 0 /\ m \notin 1 .. 6 /\ m # off[n] + 8
      <4> DEFINE o == off[n]
      <4>1. o \in Nat /\ ~(m < o + 9)
        BY <1>1, <2>3
      <4> HIDE DEF o
      <4>2. o >= 0 /\ m >= o + 9
        BY <4>1
      <4>3. m # 0 /\ m # o + 8
        BY <4>1, <4>2
      <4>4. m \notin 1 .. 6
        BY <4>1, <4>2
      <4> QED
        BY <4>3, <4>4 DEF o
    <3>5. m = off[n] + 9 /\ AfterItems(items, n, <<>>)
      BY <1>2, <3>3, <3>4 DEF RouteAt
    <3> QED
      BY <3>2, <3>5
  <2> QED
    BY <2>2, <2>3
<1> QED
  BY <1>3, <1>4

-----------------------------------------------------------------------------
\* How far the answer has come.
AnswersInv ==
  \/ answer = AtWill
  \/ \E ks, kinds, n : IsChain(answer, ks, kinds, n) /\ ChainInv(answer, ks, kinds, n)
  \/ \E rides \in 0 .. MaxRides : \E off :
       /\ IsRoute(answer, 2 * rides, RouteItems(2 * rides), off)
       /\ RouteInv(2 * rides, RouteItems(2 * rides), off)

\* The items of a route are waits and rides.
LEMMA RouteItemsAre ==
  ASSUME NEW n \in Nat
  PROVE  RouteItems(n) \in [1 .. n -> {"Wait", "Bus"}]
  BY DEF RouteItems

\* In the beginning no call has been made.
LEMMA AnswersBegin ==
  ASSUME AnswersInit
  PROVE  AnswersInv
<1>1. NothingYet /\ calls = <<>>
  BY DEF AnswersInit, Init, NothingYet
<1>2. calls \in Seq(Texts) /\ Len(calls) = 0 /\ outcome \in {"building", "built"}
  BY <1>1 DEF NothingYet
<1>3. CASE answer \in Chains
  <2>1. PICK ks, kinds, n : IsChain(answer, ks, kinds, n)
    BY <1>3, ChainsAre
  <2>2. ChainInv(answer, ks, kinds, n)
    BY <1>1, <1>2 DEF ChainInv
  <2> QED
    BY <2>1, <2>2 DEF AnswersInv
<1>4. CASE answer \in {CreateRouteNode(items) : items \in Routes}
  <2>1. PICK rides \in 0 .. MaxRides : answer = CreateRouteNode(RouteItems(2 * rides))
    BY <1>4 DEF Routes
  <2>2. rides \in Nat /\ 2 * rides \in Nat
    BY <2>1, BoundsAssumption
  <2> DEFINE n == 2 * rides
             items == RouteItems(n)
  <2>3. n \in Nat /\ items \in [1 .. n -> {"Wait", "Bus"}] /\ answer = CreateRouteNode(items)
    BY <2>1, <2>2, RouteItemsAre
  <2> HIDE DEF n, items
  <2>4. PICK off : IsRoute(answer, n, items, off)
    BY <2>3, RouteIs
  <2>5. RouteInv(n, items, off)
    BY <1>1, <1>2 DEF RouteInv, RouteAt
  <2> QED
    BY <2>1, <2>4, <2>5 DEF AnswersInv, n, items
<1> QED
  BY <1>3, <1>4 DEF AnswersInit, AnswersInv

\* Every step brings the answer further.
LEMMA AnswersStep ==
  ASSUME AnswersInv, [MakeAnswer \/ CallAtWill]_<<vars, answer>>
  PROVE  AnswersInv'
<1>1. answer' = answer
  BY DEF MakeAnswer, CallAtWill
<1>2. CASE answer = AtWill
  BY <1>1, <1>2 DEF AnswersInv
<1>3. CASE answer # AtWill
  <2>1. [MakeAnswer]_<<vars, answer>>
    BY <1>3 DEF CallAtWill
  <2>2. ASSUME NEW ks, NEW kinds, NEW n, IsChain(answer, ks, kinds, n), ChainInv(answer, ks, kinds, n)
        PROVE  AnswersInv'
    <3>1. ChainInv(answer, ks, kinds, n)'
      BY <2>1, <2>2, ChainStep
    <3>2. IsChain(answer, ks, kinds, n)'
      BY <1>1, <2>2
    <3> QED
      BY <3>1, <3>2 DEF AnswersInv
  <2>3. ASSUME NEW rides \in 0 .. MaxRides, NEW off,
               IsRoute(answer, 2 * rides, RouteItems(2 * rides), off),
               RouteInv(2 * rides, RouteItems(2 * rides), off)
        PROVE  AnswersInv'
    <3> DEFINE n == 2 * rides
               items == RouteItems(n)
    <3>1. n \in Nat
      BY BoundsAssumption
    <3>2. items \in [1 .. n -> {"Wait", "Bus"}]
      BY <3>1, RouteItemsAre
    <3>3. IsRoute(answer, n, items, off) /\ RouteInv(n, items, off)
      BY <2>3
    <3> HIDE DEF n, items
    <3>4. RouteInv(n, items, off)'
      BY <2>1, <3>1, <3>2, <3>3, RouteStep
    <3>5. IsRoute(answer, n, items, off)'
      BY <1>1, <3>3
    <3> QED
      BY <3>4, <3>5 DEF AnswersInv, n, items
  <2> QED
    BY <1>3, <2>2, <2>3 DEF AnswersInv
<1> QED
  BY <1>2, <1>3

-----------------------------------------------------------------------------
(* The answers: what is built.                                              *)

\* The members the property speaks of are those that the node has.
LEMMA MembersAre ==
  ASSUME IsTree(doc), NEW path, NEW steps, Holds(doc, path, steps), steps \subseteq Steps
  PROVE  MembersAt(path) = steps
<1>1. MembersAt(path) = {Last(p) : p \in Below(doc, path)}
  BY DEF MembersAt, Below
<1>2. Below(doc, path) = {Append(path, x) : x \in steps} /\ path \in Paths
  BY DEF Holds, IsTree
<1>3. \A x \in steps : Last(Append(path, x)) = x
  BY <1>2, PathLonger
<1>4. {Last(p) : p \in {Append(path, x) : x \in steps}} = {Last(Append(path, x)) : x \in steps}
  OBVIOUS
<1>5. {Last(Append(path, x)) : x \in steps} = steps
  BY <1>3
<1> QED
  BY <1>1, <1>2, <1>4, <1>5

\* The member of the root is at its name.
LEMMA IdIs == Append(Root, "request_id") = <<"request_id">> /\ Append(Root, "items") = <<"items">>
  BY DEF Root

\* An element appended to one makes a pair.
LEMMA TwoIs ==
  ASSUME NEW S, NEW a \in S, NEW b \in S
  PROVE  Append(<<a>>, b) = <<a, b>>
<1> DEFINE s == <<a>>
           t == Append(s, b)
           u == <<a, b>>
<1>1. s \in Seq(S) /\ Len(s) = 1 /\ s[1] = a
  OBVIOUS
<1>2. u \in Seq(S) /\ Len(u) = 2 /\ u[1] = a /\ u[2] = b
  OBVIOUS
<1> HIDE DEF s, u
<1>3. /\ t \in Seq(S) /\ Len(t) = Len(s) + 1
      /\ \A i \in 1 .. Len(s) : t[i] = s[i]
      /\ t[Len(s) + 1] = b
  <2>1. s \in Seq(S)
    BY <1>1
  <2> QED
    BY <2>1, AppendProperties
<1> HIDE DEF t
<1>4. Len(t) = Len(u) /\ t[1] = u[1] /\ t[2] = u[2]
  BY <1>1, <1>2, <1>3
<1>5. \A i \in 1 .. 2 : i = 1 \/ i = 2
  OBVIOUS
<1>6. t = u
  BY <1>2, <1>3, <1>4, <1>5, SeqEqual
<1> QED
  BY <1>6 DEF s, t, u

\* What an answer in one chain has when it is built.
LEMMA ChainBuilt ==
  ASSUME NEW ks, NEW kinds, NEW n, IsChain(answer, ks, kinds, n), ChainInv(answer, ks, kinds, n),
         outcome = "built"
  PROVE  /\ doc[<<"request_id">>] = "scalar"
         /\ MembersAt(Root) \ {"request_id"} \in Results
<1>1. ClosedDict(Root, <<>>, ks, kinds, n)
  BY DEF ChainInv, NothingYet
<1>2. /\ n \in Nat /\ n # 0 /\ 1 \in 1 .. n /\ ks[1] = "request_id" /\ kinds[1] = "scalar"
      /\ {ks[x] : x \in 1 .. n} \ {"request_id"} \in Results
      /\ \A x \in 1 .. n : ks[x] \in Names
  BY DEF IsChain, AreMembers
<1>3. doc[Append(Root, "request_id")] = "scalar"
  BY <1>1, <1>2 DEF ClosedDict
<1>4. {ks[x] : x \in 1 .. n} \subseteq Steps
  BY <1>2 DEF Steps, AllKeys
<1>5. MembersAt(Root) = {ks[x] : x \in 1 .. n}
  BY <1>1, <1>4, MembersAre DEF ClosedDict
<1> QED
  BY <1>2, <1>3, <1>5, IdIs

\* What a route has when it is built.
LEMMA RouteBuiltHas ==
  ASSUME NEW rides \in 0 .. MaxRides, NEW off,
         RouteInv(2 * rides, RouteItems(2 * rides), off), outcome = "built"
  PROVE  /\ doc[<<"request_id">>] = "scalar"
         /\ MembersAt(Root) \ {"request_id"} = {"total_time", "items"}
         /\ Cardinality(MembersAt(<<"items">>)) = 2 * rides
         /\ \A k \in 1 .. 2 * rides : MembersAt(<<"items", k>>) =
              {"type", "time"} \cup IF k % 2 = 1 THEN {"stop_name"} ELSE {"bus", "span_count"}
<1> DEFINE n == 2 * rides
           items == RouteItems(n)
<1>1. n \in Nat
  BY BoundsAssumption
<1>2. \A k \in 1 .. n : items[k] = IF k % 2 = 1 THEN "Wait" ELSE "Bus"
  BY DEF RouteItems
<1>3. RouteInv(n, items, off)
  OBVIOUS
<1> HIDE DEF n, items
<1>4. AfterItems(items, n, <<>>)
  BY <1>3 DEF RouteInv, RouteAt, NothingYet, BetweenItems, InItem
<1>5. Frame(doc) /\ Holds(doc, ItemsPath, 1 .. n) /\ ItemsThere(doc, items, n)
  BY <1>4 DEF AfterItems
<1>6. doc[<<"request_id">>] = "scalar"
  BY <1>5, IdIs DEF Frame
<1>7. IsTree(doc) /\ Holds(doc, Root, {"request_id", "total_time", "items"})
  BY <1>5 DEF Frame
<1>8. MembersAt(Root) = {"request_id", "total_time", "items"}
  BY <1>7, MembersAre DEF Steps, AllKeys, Names
<1>9. MembersAt(<<"items">>) = 1 .. n
  <2>1. 1 .. n \subseteq Steps
    BY <1>1 DEF Steps
  <2>2. MembersAt(ItemsPath) = 1 .. n
    BY <1>5, <1>7, <2>1, MembersAre
  <2> QED
    BY <2>2, IdIs DEF ItemsPath
<1>10. Cardinality(1 .. n) = n
  BY <1>1, FS_Interval
<1>11. ASSUME NEW k \in 1 .. n
       PROVE  MembersAt(<<"items", k>>) =
                {"type", "time"} \cup IF k % 2 = 1 THEN {"stop_name"} ELSE {"bus", "span_count"}
  <2> DEFINE names == {ItemNames(items[k])[x] : x \in 1 .. ItemSize(items[k])}
  <2>1. Holds(doc, ItemPath(k), names)
    BY <1>5 DEF ItemsThere
  <2>2. items[k] \in {"Wait", "Bus"}
    BY <1>2
  <2>3. names = {"type", "time"} \cup IF items[k] = "Wait" THEN {"stop_name"} ELSE {"bus", "span_count"}
    BY <2>2, ItemIs
  <2> HIDE DEF names
  <2>4. names \subseteq Steps
    BY <2>2, <2>3 DEF Steps, AllKeys, Names
  <2>5. MembersAt(ItemPath(k)) = names
    BY <1>7, <2>1, <2>4, MembersAre
  <2>6. ItemPath(k) = <<"items", k>>
    <3>1. "items" \in Steps /\ k \in Steps
      BY <1>1 DEF Steps, AllKeys, Names
    <3> QED
      BY <3>1, IdIs, TwoIs DEF ItemPath, ItemsPath
  <2>7. (items[k] = "Wait") <=> (k % 2 = 1)
    BY <1>2
  <2> QED
    BY <2>3, <2>5, <2>6, <2>7
<1>12. MembersAt(Root) \ {"request_id"} = {"total_time", "items"}
  BY <1>8
<1> QED
  BY <1>6, <1>9, <1>10, <1>11, <1>12 DEF n

\* The answers are built as the property says.
LEMMA AnswersInvGives ==
  ASSUME AnswersInv
  PROVE  AnswersAreBuilt
<1> SUFFICES ASSUME answer # AtWill
             PROVE  /\ outcome \in {"building", "built"}
                    /\ outcome = "built" =>
                         LET members == MembersAt(Root) \ {"request_id"}
                             n       == Cardinality(MembersAt(<<"items">>))
                         IN /\ doc[<<"request_id">>] = "scalar"
                            /\ \/ members \in Results
                               \/ /\ members = {"total_time", "items"}
                                  /\ RouteItems(n) \in Routes
                                  /\ \A k \in 1 .. n : MembersAt(<<"items", k>>) =
                                       {"type", "time"} \cup
                                       IF k % 2 = 1 THEN {"stop_name"} ELSE {"bus", "span_count"}
  BY DEF AnswersAreBuilt, Results
<1>1. ASSUME NEW ks, NEW kinds, NEW n, IsChain(answer, ks, kinds, n), ChainInv(answer, ks, kinds, n)
      PROVE  /\ outcome \in {"building", "built"}
             /\ outcome = "built" => /\ doc[<<"request_id">>] = "scalar"
                                     /\ MembersAt(Root) \ {"request_id"} \in Results
  <2>1. outcome \in {"building", "built"}
    BY <1>1 DEF ChainInv
  <2> QED
    BY <1>1, <2>1, ChainBuilt
<1>2. ASSUME NEW rides \in 0 .. MaxRides, NEW off,
             RouteInv(2 * rides, RouteItems(2 * rides), off)
      PROVE  /\ outcome \in {"building", "built"}
             /\ outcome = "built" =>
                  /\ doc[<<"request_id">>] = "scalar"
                  /\ MembersAt(Root) \ {"request_id"} = {"total_time", "items"}
                  /\ RouteItems(Cardinality(MembersAt(<<"items">>))) \in Routes
                  /\ \A k \in 1 .. Cardinality(MembersAt(<<"items">>)) : MembersAt(<<"items", k>>) =
                       {"type", "time"} \cup IF k % 2 = 1 THEN {"stop_name"} ELSE {"bus", "span_count"}
  <2>1. outcome \in {"building", "built"}
    BY <1>2 DEF RouteInv
  <2>2. RouteItems(2 * rides) \in Routes
    BY DEF Routes
  <2> QED
    BY <1>2, <2>1, <2>2, RouteBuiltHas
<1> QED
  BY <1>1, <1>2 DEF AnswersInv

\* Every answer is built, for every number of rides of a route: no call for it
\* is refused or follows a pointer to nothing, and what is built has the
\* members that the type of the request and the result call for.
THEOREM EveryAnswerBuilt == AnswersSpec => []AnswersAreBuilt
<1>1. AnswersInit => AnswersInv
  BY AnswersBegin
<1>2. AnswersInv /\ [MakeAnswer \/ CallAtWill]_<<vars, answer>> => AnswersInv'
  BY AnswersStep
<1>3. AnswersInv => AnswersAreBuilt
  BY AnswersInvGives
<1> QED
  BY <1>1, <1>2, <1>3, PTL DEF AnswersSpec

-----------------------------------------------------------------------------
(* The builder under the calls of the answers.                              *)

\* The answer is made of calls.
AnswerIsCalls == answer \in Seq(Texts)

\* In the beginning it is.
LEMMA AnswerBeginsAsCalls == AnswersInit => AnswerIsCalls
<1> SUFFICES ASSUME AnswersInit
             PROVE  answer \in Seq(Texts)
  BY DEF AnswerIsCalls
<1>1. CASE answer = AtWill
  BY <1>1 DEF AtWill
<1>2. CASE answer \in Chains
  BY <1>2, ChainsAre DEF IsChain, IsDict
<1>3. CASE answer \in {CreateRouteNode(items) : items \in Routes}
  <2>1. PICK rides \in 0 .. MaxRides : answer = CreateRouteNode(RouteItems(2 * rides))
    BY <1>3 DEF Routes
  <2> DEFINE n == 2 * rides
  <2>2. n \in Nat
    BY <2>1, BoundsAssumption
  <2> HIDE DEF n
  <2>3. CreateRouteNode(RouteItems(n)) \in Seq(Texts)
    BY <2>2, RouteItemsAre, RouteIs
  <2> QED
    BY <2>1, <2>3 DEF n
<1> QED
  BY <1>1, <1>2, <1>3 DEF AnswersInit

\* Every call for an answer is one of the builder's.
LEMMA TextIsACall ==
  ASSUME NEW c \in Texts, Make(c)
  PROVE  AnyCall
<1>1. CASE \E kind \in Kinds : c = Call("Value", kind)
  BY <1>1 DEF Make, Call, AnyCall
<1>2. CASE \E k \in Names : c = Call("Key", k)
  BY <1>2 DEF Make, Call, AnyCall, AllKeys
<1>3. CASE c = Call("StartDict", "dict")
  BY <1>3 DEF Make, Call, AnyCall
<1>4. CASE c = Call("StartArray", "array")
  BY <1>4 DEF Make, Call, AnyCall
<1>5. CASE c = Call("EndDict", "dict") \/ c = Call("EndDict", NoKey)
  <2>1. c.method = "EndDict"
    BY <1>5 DEF Call
  <2> QED
    BY <2>1 DEF Make, AnyCall
<1>6. CASE c = Call("EndArray", "array") \/ c = Call("EndArray", NoKey)
  <2>1. c.method = "EndArray"
    BY <1>6 DEF Call
  <2> QED
    BY <2>1 DEF Make, AnyCall
<1> QED
  BY <1>1, <1>2, <1>3, <1>4, <1>5, <1>6 DEF Texts

\* So a step is a call of the builder.
LEMMA AnswersStepIsACall ==
  ASSUME TypeInv, AnswerIsCalls, [MakeAnswer \/ CallAtWill]_<<vars, answer>>
  PROVE  [AnyCall]_vars
<1>1. CASE MakeAnswer
  <2>1. PICK n \in Nat : n = Len(calls)
    BY DEF TypeInv
  <2>2. PICK m \in Nat : m = Len(answer)
    BY DEF AnswerIsCalls
  <2>3. CASE n < m
    <3>1. Make(answer[n + 1])
      BY <1>1, <2>1, <2>2, <2>3 DEF MakeAnswer
    <3>2. n + 1 \in 1 .. m
      BY <2>3
    <3>3. answer[n + 1] \in Texts
      BY <2>2, <3>2 DEF AnswerIsCalls
    <3>4. AnyCall
      BY <3>1, <3>3, TextIsACall
    <3> QED
      BY <3>4
  <2>4. CASE ~(n < m)
    <3>1. Build
      BY <1>1, <2>1, <2>2, <2>4 DEF MakeAnswer
    <3> QED
      BY <3>1 DEF AnyCall
  <2> QED
    BY <2>3, <2>4
<1>2. CASE CallAtWill
  <2>1. Next
    BY <1>2 DEF CallAtWill
  <2>2. AnyCall
    BY <2>1, NextIsACall
  <2> QED
    BY <2>2
<1>3. CASE UNCHANGED <<vars, answer>>
  BY <1>3
<1> QED
  BY <1>1, <1>2, <1>3

\* The answer that is made stays the same.
LEMMA AnswerStays ==
  AnswerIsCalls /\ [MakeAnswer \/ CallAtWill]_<<vars, answer>> => AnswerIsCalls'
  BY DEF MakeAnswer, CallAtWill, AnswerIsCalls

\* What JsonReader does with the builder, and what is called at will beside it,
\* are such calls.
LEMMA AnswersAreAtLarge == AnswersSpec => CallsAtLarge
<1>1. AnswersInit => Init /\ TypeInv /\ AnswerIsCalls
  BY TypesHold, AnswerBeginsAsCalls DEF AnswersInit
<1>2. TypeInv /\ AnswerIsCalls /\ [MakeAnswer \/ CallAtWill]_<<vars, answer>>
      => [AnyCall]_vars /\ TypeInv' /\ AnswerIsCalls'
  BY AnswersStepIsACall, AnswerStays, TypesStep
<1> QED
  BY <1>1, <1>2, PTL DEF AnswersSpec, CallsAtLarge

\* What holds of the builder whatever is called holds when JsonReader calls it:
\* the document is a tree and each pointer on the stack is good or known to be
\* none, the calls that have returned spell the beginning of a document, what is
\* built is what they spell, and none goes through a pointer to nothing unless a
\* key is given twice.
THEOREM BuilderServesAnswers ==
  AnswersSpec => [](TypeOK /\ CallsAreASentence /\ BuiltIsWritten /\ CrashesOnlyForRepeatedKeys)
  BY AnswersAreAtLarge, TypesAlways, SentencesAlways, BuiltAlways, PointersAlways, PTL

=============================================================================
