----------------------------- MODULE JsonParser -----------------------------
(***************************************************************************)
(* json::Load and json::Print (src/json.cpp). Load goes through the text    *)
(* once, with one recursive call for each container that is open; the calls *)
(* are the frames of `stack'. Print writes a document as text again.        *)
(*                                                                          *)
(* A text is a sequence of characters. The letters of the three words after *)
(* the first, "ull", "rue" and "alse", are one character each. A node is a  *)
(* pair of its kind and its value: a string or an array is a sequence, a    *)
(* dict a function on its keys, and a number the pair of an integer and the *)
(* power of ten it is multiplied by.                                        *)
(***************************************************************************)
EXTENDS Integers, Sequences, SequencesExt, FiniteSetsExt

CONSTANTS
  Texts,           \* the texts to be loaded
  Documents,       \* documents to be printed
  IntMax,          \* the largest int
  MaxExponent,     \* 10^MaxExponent bounds what a double can hold
  Precision        \* the digits of a double operator<< shows: six

ASSUME NumbersAssumption ==
  IntMax \in Nat /\ MaxExponent \in 1 .. 99 /\ Precision \in Nat \ {0}

VARIABLES
  text, at,        \* the input and how much of it has been read
  pc,              \* "node", "array", "dict", "loaded" or "error"
  stack,           \* the calls of LoadArray and LoadDict, innermost last
  node,            \* what Load has returned
  document         \* the node of which `text' is a print, or None

vars == <<text, at, pc, stack, node, document>>

None == <<"none", <<>>>>

Null == <<"null", <<>>>>

\* A double that a division by zero has made: no number, or an infinite one. Its
\* value is what operator<< writes for it.
NotFinite ==
  {<<"double", <<word>>>> :
     word \in {<<"n", "an">>, <<"-", "n", "an">>, <<"i", "nf">>, <<"-", "i", "nf">>}}

Quote == "\""
Backslash == "\\"
NL == "\n"
CR == "\r"
Tab == "\t"
Nul == "NUL"
Space == {" ", NL, CR, Tab}
Digits == <<"0", "1", "2", "3", "4", "5", "6", "7", "8", "9">>
Digit == Range(Digits)
Letter == {"n", "t", "f", "r", "e", "E", "x", "i", "an", "nf", "ull", "rue", "alse"}

Words ==
  <<"n", "ull">> :> Null @@ <<"t", "rue">> :> <<"bool", TRUE>>
  @@ <<"f", "alse">> :> <<"bool", FALSE>>

\* The character after a backslash, and what the two stand for.
Escapes == [n |-> NL, t |-> Tab, r |-> CR] @@ Quote :> Quote @@ Backslash :> Backslash

-----------------------------------------------------------------------------
(* The stream                                                               *)

EOF == "EOF"

\* peek() when p characters have been read.
Peek(p) == IF p < Len(text) THEN text[p + 1] ELSE EOF

\* How much has been read after all characters from C that follow the first p.
RECURSIVE RunEnd(_, _)
RunEnd(p, C) == IF Peek(p) \in C THEN RunEnd(p + 1, C) ELSE p

\* operator>> skips white space.
Skip(p) == RunEnd(p, Space)

-----------------------------------------------------------------------------
(* Numbers                                                                  *)

Abs(n) == IF n < 0 THEN -n ELSE n

ValueOf(digits) ==
  FoldLeft(LAMBDA v, d : 10 * v + (CHOOSE k \in 0 .. 9 : Digits[k + 1] = d), 0, digits)

DigitsOf[n \in Nat] ==
  IF n < 10 THEN <<Digits[n + 1]>> ELSE Append(DigitsOf[n \div 10], Digits[(n % 10) + 1])

RECURSIVE Normal(_, _)
Normal(m, e) ==
  IF m = 0 THEN <<0, 0>>
  ELSE IF m % 10 = 0 THEN Normal(m \div 10, e + 1) ELSE <<m, e>>

\* stoi, where that does not overflow, or else stod, which throws where the
\* number is too large or too small for a double: then there is no node.
Convert(m, e, is_int) ==
  LET size == e + Len(DigitsOf[Abs(m)]) - 1 IN
  IF is_int /\ m \in -IntMax - 1 .. IntMax THEN {<<"int", Normal(m, 0)>>}
  ELSE IF m = 0 \/ size \in -MaxExponent .. MaxExponent THEN {<<"double", Normal(m, e)>>}
  ELSE {}

\* LoadNumber after p characters: the node, if there is one, and where it ends.
\* After a zero the whole part is over, whatever comes next.
NumberAt(p) ==
  LET whole == IF Peek(p) = "-" THEN p + 1 ELSE p
      point == IF Peek(whole) = "0" THEN whole + 1 ELSE RunEnd(whole, Digit)
      mark  == IF Peek(point) = "." THEN RunEnd(point + 1, Digit) ELSE point
      power == IF Peek(mark) \notin {"e", "E"} THEN mark
               ELSE IF Peek(mark + 1) \in {"+", "-"} THEN mark + 2 ELSE mark + 1
      end   == IF power = mark THEN mark ELSE RunEnd(power, Digit)
      m     == ValueOf(SubSeq(text, whole + 1, point) \o SubSeq(text, point + 2, mark))
      e     == ValueOf(SubSeq(text, power + 1, end))
      sound == /\ point > whole
               /\ Peek(point) = "." => mark > point + 1
               /\ power > mark => end > power
  IN [next  |-> end,
      nodes |-> IF ~sound THEN {}
                ELSE Convert(IF whole > p THEN -m ELSE m,
                             (IF Peek(mark + 1) = "-" THEN -e ELSE e) - Max({0, mark - point - 1}),
                             end = point)]

-----------------------------------------------------------------------------
(* Strings and words                                                        *)

NoString == [ok |-> FALSE, chars |-> <<>>, next |-> 0]

\* LoadString, the opening quote being behind. The character of an escape is
\* read with operator>>, and a NUL ends the string without being read.
StringAt[p \in Nat] ==
  LET Then(chars, q) ==
        [StringAt[q] EXCEPT !.chars = chars \o @]
      c == Peek(p)
      s == Skip(p + 1)
  IN CASE c = EOF           -> NoString
       [] c = Nul           -> [ok |-> TRUE, chars |-> <<>>, next |-> p]
       [] c = Quote         -> [ok |-> TRUE, chars |-> <<>>, next |-> p + 1]
       [] c = Backslash     -> IF Peek(s) \in DOMAIN Escapes
                               THEN Then(<<Escapes[Peek(s)]>>, s + 1) ELSE NoString
       [] c \in {NL, CR}    -> NoString
       [] OTHER             -> Then(<<c>>, p + 1)

-----------------------------------------------------------------------------
(* Print                                                                    *)

Zeros(n) == [k \in 1 .. n |-> "0"]

\* The number without an exponent.
Plain(m, e) ==
  LET digits == DigitsOf[Abs(m)]
      padded == Zeros(1 - e - Len(digits)) \o digits
      point  == Len(padded) + e
  IN (IF m < 0 THEN <<"-">> ELSE <<>>) \o
     (IF e >= 0 THEN digits \o Zeros(e)
      ELSE SubSeq(padded, 1, point) \o <<".">> \o SubSeq(padded, point + 1, Len(padded)))

\* A double to the digits operator<< shows. Which way a tie goes depends on its
\* binary digits: no document here has one.
Rounded(m, e) ==
  LET drop == Max({0, Len(DigitsOf[Abs(m)]) - Precision})
      near == (2 * Abs(m) + 10 ^ drop) \div (2 * 10 ^ drop)
  IN Normal(IF m < 0 THEN -near ELSE near, e + drop)

\* operator<< for a double: with an exponent of two digits when it has more
\* digits before the point than are shown, or zeros after it.
DoubleText(m, e) ==
  LET r    == Rounded(m, e)
      last == 1 - Len(DigitsOf[Abs(r[1])])
      size == r[2] - last
  IN IF size \in -4 .. Precision - 1 THEN Plain(r[1], r[2])
     ELSE Plain(r[1], last) \o <<"e", IF size < 0 THEN "-" ELSE "+">>
          \o <<Digits[(Abs(size) \div 10) + 1], Digits[(Abs(size) % 10) + 1]>>

Escaped(c) ==
  IF \E k \in DOMAIN Escapes : Escapes[k] = c
  THEN <<Backslash, CHOOSE k \in DOMAIN Escapes : Escapes[k] = c>> ELSE <<c>>

\* (A slip: a backslash is printed as it is.)
StringText_Bare(s) ==
  <<Quote>> \o FlattenSeq([k \in DOMAIN s |->
                 IF s[k] = Backslash THEN <<s[k]>> ELSE Escaped(s[k])]) \o <<Quote>>

StringText(s) == <<Quote>> \o FlattenSeq([k \in DOMAIN s |-> Escaped(s[k])]) \o <<Quote>>

\* The elements of a container, each on a line of its own.
Lines(open, items, close) ==
  <<open, NL>>
  \o FlattenSeq([k \in DOMAIN items |->
       (IF k = 1 THEN <<>> ELSE <<",", NL>>) \o <<" ">> \o items[k]])
  \o <<NL, close>>

RECURSIVE PrintNode(_)
PrintNode(n) ==
  LET value == n[2] IN
  CASE n \in NotFinite -> value[1]
    [] n[1] \in {"null", "bool"} -> CHOOSE w \in DOMAIN Words : Words[w] = n
    [] n[1] = "int" -> Plain(value[1], value[2])
    [] n[1] = "double" /\ n \notin NotFinite -> DoubleText(value[1], value[2])
    [] n[1] = "string" -> StringText(value)
    [] n[1] = "array"  -> Lines("[", [k \in DOMAIN value |-> PrintNode(value[k])], "]")
    [] n[1] = "dict"   ->
         LET keys == SetToSeq(DOMAIN value)
         IN Lines("{", [k \in DOMAIN keys |->
                          StringText(keys[k]) \o <<":", " ">> \o PrintNode(value[keys[k]])], "}")

-----------------------------------------------------------------------------
(* Load                                                                     *)

Init ==
  /\ \/ document = None /\ text \in Texts
     \/ document \in Documents /\ text = PrintNode(document)
  /\ at = 0
  /\ pc = "node"
  /\ stack = <<>>
  /\ node = None

\* A ParsingError, which goes through all the calls.
Throw == pc' = "error" /\ UNCHANGED <<text, at, stack, node, document>>

\* map::insert leaves the value of a key that is there already.
Insert(frame, n) ==
  [frame EXCEPT !.value = IF frame.kind = "array" THEN Append(@, n) ELSE @ @@ (frame.key :> n)]

\* The calls in `frames' are left when a node is returned and the text has been
\* read up to `next'.
Return(n, next, frames) ==
  /\ at' = next
  /\ IF frames = <<>>
     THEN pc' = "loaded" /\ node' = n /\ stack' = <<>>
     ELSE /\ pc' = Last(frames).kind
          /\ stack' = Append(Front(frames), Insert(Last(frames), n))
          /\ UNCHANGED node
  /\ UNCHANGED <<text, document>>

Here == Skip(at)
Char == Peek(Here)

Containers == "[" :> "array" @@ "{" :> "dict"

LoadContainer ==
  /\ pc = "node"
  /\ Char \in DOMAIN Containers
  /\ stack' = Append(stack, [kind |-> Containers[Char], value |-> <<>>, key |-> <<>>])
  /\ pc' = Containers[Char]
  /\ at' = Here + 1
  /\ UNCHANGED <<text, node, document>>

LoadString ==
  /\ pc = "node"
  /\ Char = Quote
  /\ LET s == StringAt[Here + 1] IN
     IF s.ok THEN Return(<<"string", s.chars>>, s.next, stack) ELSE Throw

\* LoadBool and LoadNull: all the letters that follow must be the word.
LoadWord ==
  /\ pc = "node"
  /\ Char \in {"t", "f", "n"}
  /\ LET end  == RunEnd(Here, Letter)
         word == SubSeq(text, Here + 1, end)
     IN IF word \in DOMAIN Words THEN Return(Words[word], end, stack) ELSE Throw

\* Whatever begins like nothing else is taken for a number.
LoadNumber ==
  /\ pc = "node"
  /\ Char \notin {"[", "{", Quote, "t", "f", "n", EOF}
  /\ LET number == NumberAt(Here) IN
     IF number.nodes = {} THEN Throw
     ELSE \E n \in number.nodes : Return(n, number.next, stack)

\* (A slip: the state of the stream is not asked after the loop, so the end of
\* the text is as good as the end of the container.)
UnexpectedEOF_Unasked ==
  /\ pc \in {"node", "array", "dict"}
  /\ Char = EOF
  /\ IF pc = "node" THEN Throw ELSE Return(<<pc, Last(stack).value>>, Here, Front(stack))

UnexpectedEOF ==
  /\ pc \in {"node", "array", "dict"}
  /\ Char = EOF
  /\ Throw

\* (A slip: the first character of an element is read and not put back.)
NextElement_Read ==
  /\ pc = "array"
  /\ Char \notin {"]", EOF}
  /\ at' = Here + 1
  /\ pc' = "node"
  /\ UNCHANGED <<text, stack, node, document>>

\* (A slip: the comma is put back like any other character, and looked for again.)
NextElement_Back ==
  /\ pc = "array"
  /\ Char \notin {"]", EOF}
  /\ at' = Here
  /\ pc' = IF Char = "," THEN "array" ELSE "node"
  /\ UNCHANGED <<text, stack, node, document>>

\* A comma before an element is passed over, and not missed.
NextElement ==
  /\ pc = "array"
  /\ Char \notin {"]", EOF}
  /\ at' = IF Char = "," THEN Here + 1 ELSE Here
  /\ pc' = "node"
  /\ UNCHANGED <<text, stack, node, document>>

\* The character before a key and the one after it are taken for the quote and
\* the colon, whatever they are.
NextKey ==
  /\ pc = "dict"
  /\ Char \notin {"}", EOF}
  /\ LET quote == IF Char = "," THEN Skip(Here + 1) ELSE Here
         key   == IF Peek(quote) = EOF THEN NoString ELSE StringAt[quote + 1]
         colon == Skip(key.next)
     IN IF ~key.ok \/ Peek(colon) = EOF THEN Throw
        ELSE /\ stack' = [stack EXCEPT ![Len(stack)].key = key.chars]
             /\ at' = colon + 1
             /\ pc' = "node"
             /\ UNCHANGED <<text, node, document>>

EndOfContainer ==
  /\ \/ pc = "array" /\ Char = "]"
     \/ pc = "dict" /\ Char = "}"
  /\ Return(<<pc, Last(stack).value>>, Here + 1, Front(stack))

\* The document is printed, and the print is loaded.
PrintDocument ==
  /\ pc = "loaded"
  /\ document = None
  /\ document' = node
  /\ text' = PrintNode(node)
  /\ at' = 0
  /\ pc' = "node"
  /\ stack' = <<>>
  /\ node' = None

Load ==
  \/ LoadContainer
  \/ LoadString
  \/ LoadWord
  \/ LoadNumber
  \/ UnexpectedEOF
  \/ NextElement
  \/ NextKey
  \/ EndOfContainer

Next == Load \/ PrintDocument

Spec == Init /\ [][Next]_vars

\* Load is one call.
FairSpec == Spec /\ WF_vars(Load)

-----------------------------------------------------------------------------
(* JSON: the nodes a text may mean, one or none. A number without point and *)
(* exponent is an int if an int can hold it, any other what a double can    *)
(* hold; of the escapes there are those the program knows; of a key that is *)
(* given twice the first value counts, as in json::Builder.                 *)

Trim(t) ==
  LET solid == {k \in DOMAIN t : t[k] \notin Space} IN
  IF solid = {} THEN <<>> ELSE SubSeq(t, Min(solid), Max(solid))

IsDigits(t) == t # <<>> /\ Range(t) \subseteq Digit

\* Sign, whole part, fraction and exponent end after s, i, f and x characters.
NumberMeaning(t) ==
  LET n == Len(t)
      Parts == {c \in {0, 1} \X (1 .. n) \X (1 .. n) \X (1 .. n) :
        LET s == c[1]  i == c[2]  f == c[3]  x == c[4] IN
        /\ s = 1 => t[1] = "-"
        /\ IsDigits(SubSeq(t, s + 1, i)) /\ (t[s + 1] = "0" => i = s + 1)
        /\ f = i \/ (f > i /\ t[i + 1] = "." /\ IsDigits(SubSeq(t, i + 2, f)))
        /\ \/ f = n /\ x = n
           \/ /\ x - f \in {1, 2}
              /\ t[f + 1] \in {"e", "E"}
              /\ x = f + 2 => t[x] \in {"+", "-"}
              /\ IsDigits(SubSeq(t, x + 1, n))}
  IN UNION {LET s == c[1]  i == c[2]  f == c[3]  x == c[4]
                digits == SelectSeq(SubSeq(t, s + 1, f), LAMBDA d : d # ".")
                power  == ValueOf(SubSeq(t, x + 1, n))
                m      == IF s = 1 THEN -ValueOf(digits) ELSE ValueOf(digits)
                e      == (IF t[x] = "-" THEN -power ELSE power) - Max({0, f - i - 1})
                \* the digits from the first on that is no zero
                places == {k \in DOMAIN digits : \E j \in 1 .. k : digits[j] # "0"}
                first  == Cardinality(places) - 1 + e
            IN IF i = n /\ m <= IntMax /\ m >= -IntMax - 1 THEN {<<"int", Normal(m, 0)>>}
               ELSE IF places = {} \/ Abs(first) <= MaxExponent
               THEN {<<"double", Normal(m, e)>>} ELSE {} :
              c \in Parts}

RECURSIVE CharsMeaning(_)
CharsMeaning(t) ==
  IF t = <<>> THEN {<<>>}
  ELSE IF t[1] = Backslash
       THEN IF Len(t) > 1 /\ t[2] \in DOMAIN Escapes
            THEN {<<Escapes[t[2]]>> \o s : s \in CharsMeaning(SubSeq(t, 3, Len(t)))} ELSE {}
       ELSE IF t[1] \in {Quote, NL, CR, Tab, Nul} THEN {}
       ELSE {<<t[1]>> \o s : s \in CharsMeaning(Tail(t))}

StringMeaning(t) ==
  IF Len(t) > 1 /\ t[1] = Quote /\ Last(t) = Quote THEN CharsMeaning(Tail(Front(t))) ELSE {}

\* The ways to take a text apart at some of the places where it has character c.
Splits(t, c) ==
  IF Trim(t) = <<>> THEN {<<>>}
  ELSE {LET cuts == SetToSortSeq(C \cup {0, Len(t) + 1}, <)
        IN [k \in 1 .. Len(cuts) - 1 |-> SubSeq(t, cuts[k] + 1, cuts[k + 1] - 1)] :
          C \in SUBSET {k \in DOMAIN t : t[k] = c}}

RECURSIVE Meaning(_)
Meaning(untrimmed) ==
  LET t == Trim(untrimmed)
      Within(open, close) == Len(t) > 1 /\ t[1] = open /\ Last(t) = close
      Members(part) ==
        UNION {{<<k, n>> : k \in StringMeaning(Trim(SubSeq(part, 1, c - 1))),
                           n \in Meaning(SubSeq(part, c + 1, Len(part)))} :
                 c \in {c \in DOMAIN part : part[c] = ":"}}
      The(S) == CHOOSE x \in S : TRUE
      Dict(members) ==
        [k \in {m[1] : m \in Range(members)} |->
           members[Min({i \in DOMAIN members : members[i][1] = k})][2]]
  IN IF Range(t) \subseteq Digit \cup {"-", "+", ".", "e", "E"} THEN NumberMeaning(t)
     ELSE IF t \in DOMAIN Words THEN {Words[t]}
     ELSE IF Within("[", "]")
     THEN {<<"array", [k \in DOMAIN parts |-> The(Meaning(parts[k]))]>> :
             parts \in {p \in Splits(Tail(Front(t)), ",") : \A k \in DOMAIN p : Meaning(p[k]) # {}}}
     ELSE IF Within("{", "}")
     THEN {<<"dict", Dict([k \in DOMAIN parts |-> The(Members(parts[k]))])>> :
             parts \in {p \in Splits(Tail(Front(t)), ",") : \A k \in DOMAIN p : Members(p[k]) # {}}}
     ELSE {<<"string", s>> : s \in StringMeaning(t)}

\* The int 1 and the double 1.0 have one print; of a double only the first
\* digits come back.
RECURSIVE Printed(_)
Printed(n) ==
  CASE n[1] = "int" -> <<"number", n[2]>>
    [] n[1] = "double" -> <<"number", Rounded(n[2][1], n[2][2])>>
    [] n[1] = "array" -> <<"array", [k \in DOMAIN n[2] |-> Printed(n[2][k])]>>
    [] n[1] = "dict"  -> <<"dict", [k \in DOMAIN n[2] |-> Printed(n[2][k])]>>
    [] OTHER          -> n

RECURSIVE HasNotFinite(_)
HasNotFinite(n) ==
  \/ n \in NotFinite
  \/ n[1] \in {"array", "dict"} /\ \E k \in DOMAIN n[2] : HasNotFinite(n[2][k])

-----------------------------------------------------------------------------
(* Properties                                                               *)

Done == pc \in {"loaded", "error"}

\* Every JSON text is loaded to its end, as the document it means, wherever it
\* has white space and whatever is inside its strings; a number that is no int
\* becomes a double.
LoadsJson ==
  Done => \A n \in Meaning(text) : pc = "loaded" /\ node = n /\ Here = Len(text)

\* A text that ends before its outermost container does is never loaded, at
\* whichever character it was cut.
WholeTexts == {PrintNode(d) : d \in {d \in Documents : d[1] \in {"array", "dict"}}}

CutTextIsRefused ==
  pc = "loaded" => \A whole \in WholeTexts : ~IsStrictPrefix(text, whole)

\* What the program prints is JSON and means the document printed, whatever
\* characters its strings have, and so does the program load it again: ints with
\* all their digits, doubles with the first six. The exceptions are the quotients
\* with a zero below: the curvature of a route between stops at one place, which
\* is no number, or infinite if its roads have a length, and the minutes at a
\* velocity of zero. They print as something that is no JSON and is not loaded.
ReloadsWhatItPrints ==
  document # None /\ Done =>
    IF HasNotFinite(document) THEN pc = "error" /\ Meaning(text) = {}
    ELSE /\ pc = "loaded" /\ Printed(node) = Printed(document)
         /\ {Printed(n) : n \in Meaning(text)} = {Printed(document)}

\* Load returns or throws for every text.
LoadEnds == (pc \notin {"loaded", "error"}) ~> Done

-----------------------------------------------------------------------------
\* What json.h:28 says of ParsingError ("this error should be thrown on errors
\* of parsing JSON"): what has been read as a document is JSON.
ParsingErrorIsThrown == pc = "loaded" => Meaning(SubSeq(text, 1, at)) # {}
=============================================================================
