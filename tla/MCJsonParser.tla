---------------------------- MODULE MCJsonParser ----------------------------
(* Texts for checking JsonParser: all short texts over the characters that  *)
(* matter to containers, members, strings, numbers and words, and longer    *)
(* ones that differ from a good text in one character or end before it.     *)
EXTENDS JsonParser

CONSTANT Short       \* the longest of the texts that are enumerated

All(chars, n) == UNION {[1 .. k -> chars] : k \in 0 .. n}

Whole(m) == <<"int", Normal(m, 0)>>
Str(s) == <<"string", s>>
Arr(s) == <<"array", s>>
Dict(f) == <<"dict", f>>

Awkward == <<Quote, Backslash, "n", NL, CR, Tab, "]", "x">>

MCDocuments ==
  {Arr(<<>>), Dict(<<>>), Null, Whole(-10), <<"double", <<25, -1>>>>,
   Arr(<<Whole(1), <<"double", <<-5, -2>>>>, <<"bool", TRUE>>>>),
   Arr(<<Dict(<<>> :> Null), Arr(<<Arr(<<>>)>>)>>),
   Arr(<<Str(Awkward), <<"double", <<2, 1>>>>>>),
   Dict(<<"x">> :> Str(Awkward) @@ Awkward :> Arr(<<Whole(0)>>) @@ <<>> :> Whole(11)),
   Dict(<<"n">> :> Dict(<<"n">> :> <<"bool", FALSE>>)),
   Arr(<<Whole(-1034), <<"double", <<1234, 0>>>>, <<"double", <<-9996, -2>>>>>>),
   Arr(<<<<"double", <<9996, -1>>>>, <<"double", <<12, -4>>>>, <<"double", <<-12, -6>>>>>>),
   Whole(1050), Whole(-1051)}
  \cup {Arr(<<Dict(<<"x">> :> quotient)>>) : quotient \in NotFinite}
  \cup NotFinite

\* An object with a key twice, and an array of one.
Twice == <<"{", Quote, "x", Quote, ":", "1", ",", Quote, "x", Quote, ":", "[", "]", "}">>
Nested == <<"[", "{", Quote, Quote, ":", "1", "}", ",", " ", "n", "ull", "]", NL>>

Edits(t, chars) ==
  {[t EXCEPT ![k] = c] : k \in DOMAIN t, c \in chars}
  \cup {SubSeq(t, 1, k - 1) \o SubSeq(t, k + 1, Len(t)) : k \in DOMAIN t}
  \cup {SubSeq(t, 1, k) \o <<c>> \o SubSeq(t, k + 1, Len(t)) : k \in 0 .. Len(t), c \in chars}

Cut(t) == {SubSeq(t, 1, k) : k \in 0 .. Len(t)}

MCTexts ==
  All({"[", "]", "{", "}", ",", Quote, "1", " "}, Short)
  \cup {<<"{", Quote>> \o w : w \in All({Quote, ":", ",", "1", "}", " "}, Short)}
  \cup {<<Quote>> \o w : w \in All({Quote, Backslash, "n", "x", NL, " ", Nul}, Short)}
  \cup All({"-", "0", "1", ".", "e", "]"}, Short)
  \cup {<<"[">> \o w : w \in All({"n", "ull", "t", "rue", "f", "alse", "]", "1"}, Short - 1)}
  \cup UNION {Edits(t, {"[", "]", "{", "}", ",", ":", Quote, "1", "n", NL, Nul}) : t \in {Twice, Nested}}
  \cup UNION {Cut(t) : t \in WholeTexts}

\* Arrays of numbers.
MCArrays == {<<"[">> \o w : w \in All({"0", "1", ",", " ", "]"}, Short)}
=============================================================================
