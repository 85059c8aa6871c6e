---------------------------- MODULE JsonBuilder ----------------------------
(***************************************************************************)
(* json::Builder (src/json_builder.cpp, inc/json_builder.h): a document is  *)
(* built by a chain of calls, each container being open, and on a stack of  *)
(* pointers into the document, between its Start and its End.               *)
(*                                                                          *)
(* The document is a tree: a function from paths to the kinds of the nodes  *)
(* there. A step of a path is an index of an array or a key of a dict; a    *)
(* `Node*' is the path of the node it points to. Calls are made either in a *)
(* chain, where the class of the last call's result admits only some        *)
(* methods, or on the Builder itself, which has them all.                   *)
(***************************************************************************)
EXTENDS Integers, Sequences, SequencesExt, FiniteSetsExt

CONSTANTS
  Keys,            \* the keys given to Key
  Values,          \* the kinds of the values given to Value
  Nil              \* nullptr, or a pointer whose node has moved away

Kinds == {"null", "scalar", "array", "dict"}

ASSUME ValuesAssumption == Values \subseteq Kinds

VARIABLES
  doc,             \* root_ and all below it
  key,             \* key_, or NoKey
  stack,           \* nodes_stack_
  chained,         \* whether the calls make up a chain
  context,         \* the class of the last result: "Builder", "Dict", "Array", "Key"
  calls,           \* the calls that have returned
  refused,         \* the call that has thrown, or NoCall
  outcome          \* "building", "built", "threw" or "crashed"

builder == <<doc, key, stack>>
vars    == <<builder, chained, context, calls, refused, outcome>>

Root  == <<>>
NoKey == "no key"

\* NoKey is no key, and Nil is the path of no node.
ASSUME KeysAssumption == NoKey \notin Keys
ASSUME NilAssumption == Nil \notin Seq(Keys \cup Nat)

Call(method, arg) == [method |-> method, arg |-> arg]
NoCall == Call("none", NoKey)

\* Which methods the classes have.
Methods ==
  [Builder |-> {"Value", "Key", "StartDict", "StartArray", "EndDict", "EndArray", "Build"},
   Dict    |-> {"Key", "EndDict"},
   Array   |-> {"Value", "StartDict", "StartArray", "EndArray"},
   Key     |-> {"Value", "StartDict", "StartArray"}]

\* The class of what a method returns.
Result(method) ==
  CASE method = "Key" -> "Key"
    [] method = "StartDict" -> "Dict"
    [] method = "StartArray" -> "Array"
    [] method \in {"EndDict", "EndArray", "Build"} -> "Builder"
    [] method = "Value" -> IF context = "Key" THEN "Dict" ELSE context

Init ==
  /\ doc = [p \in {Root} |-> "null"]
  /\ key = NoKey
  /\ stack = <<Root>>
  /\ chained \in BOOLEAN
  /\ context = "Builder"
  /\ calls = <<>>
  /\ refused = NoCall
  /\ outcome = "building"

-----------------------------------------------------------------------------
Top == Last(stack)

\* The call can be written down, and the builder can still be called.
May(method) ==
  /\ outcome = "building"
  /\ chained => method \in Methods[context]

Accept(call) ==
  /\ calls' = Append(calls, call)
  /\ context' = Result(call.method)
  /\ UNCHANGED <<chained, refused>>

\* Every logic_error is thrown before anything has changed; nobody catches it.
Throw(call) ==
  /\ outcome' = "threw"
  /\ refused' = call
  /\ UNCHANGED <<builder, chained, context, calls>>

\* A method of a node is called through a pointer to none.
Crash(call) ==
  /\ outcome' = "crashed"
  /\ refused' = call
  /\ UNCHANGED <<builder, chained, context, calls>>

Length(array) == Cardinality({p \in DOMAIN doc : Len(p) = Len(array) + 1 /\ IsPrefix(array, p)})

\* emplace_back may move the elements of the array, and what points to them or
\* into them points to nothing any more.
Moved(array) ==
  [k \in DOMAIN stack |->
     IF stack[k] # Nil /\ IsStrictPrefix(array, stack[k]) THEN Nil ELSE stack[k]]

\* AddItem. With `open' the pointer it returns is pushed: StartDict, StartArray.
Store(path, kind, rest, open) ==
  /\ doc' = [p \in DOMAIN doc \cup {path} |-> IF p = path THEN kind ELSE doc[p]]
  /\ stack' = IF open THEN Append(rest, path) ELSE rest

\* (A slip: the pointer to the empty node is left on the stack.)
FillNull_KeepsOpen(kind, open) ==
  /\ doc[Top] = "null"
  /\ doc' = [doc EXCEPT ![Top] = kind]
  /\ stack' = IF open THEN Append(stack, Root) ELSE stack
  /\ UNCHANGED key

\* An empty node takes the value; that it is the root is taken for granted.
FillNull(kind, open) ==
  /\ doc[Top] = "null"
  /\ doc' = [doc EXCEPT ![Top] = kind]
  /\ stack' = IF open THEN Append(Front(stack), Root) ELSE Front(stack)
  /\ UNCHANGED key

\* (A slip: the key is not taken away.)
AddToDict_KeepsKey(kind, open) ==
  LET child == Append(Top, key) IN
  /\ doc[Top] = "dict"
  /\ key # NoKey
  /\ IF child \in DOMAIN doc
     THEN Store(child, doc[child], stack, open)
     ELSE Store(child, kind, stack, open)
  /\ UNCHANGED key

\* dict.emplace leaves the value of a key that is there already, whatever kind
\* of node it is.
AddToDict(kind, open) ==
  LET child == Append(Top, key) IN
  /\ doc[Top] = "dict"
  /\ key # NoKey
  /\ IF child \in DOMAIN doc
     THEN Store(child, doc[child], stack, open)
     ELSE Store(child, kind, stack, open)
  /\ key' = NoKey

\* (A slip: array.back() = node.)
AddToArray_AtBack(kind, open) ==
  LET child == Append(Top, IF Length(Top) = 0 THEN 1 ELSE Length(Top)) IN
  /\ doc[Top] = "array"
  /\ key = NoKey
  /\ Store(child, kind, stack, open)
  /\ UNCHANGED key

AddToArray(kind, open) ==
  LET child == Append(Top, Length(Top) + 1) IN
  /\ doc[Top] = "array"
  /\ key = NoKey
  /\ \E rest \in {stack, Moved(Top)} : Store(child, kind, rest, open)
  /\ UNCHANGED key

\* (A slip: what is no dict is taken for an array.)
AddToScalar_AsArray(open) ==
  /\ doc[Top] = "scalar"
  /\ Store(Append(Top, Length(Top) + 1), "scalar", stack, open)
  /\ UNCHANGED key

\* On any other node nothing is stored and nullptr is returned.
AddToScalar(open) ==
  /\ doc[Top] = "scalar"
  /\ stack' = IF open THEN Append(stack, Nil) ELSE stack
  /\ UNCHANGED <<doc, key>>

AddItem(kind, open) ==
  \/ FillNull(kind, open)
  \/ AddToDict(kind, open)
  \/ AddToArray(kind, open)
  \/ AddToScalar(open)

\* AddItem throws: an element of a dict without a key, or of an array with one.
Misplaced ==
  \/ doc[Top] = "dict" /\ key = NoKey
  \/ doc[Top] = "array" /\ key # NoKey

-----------------------------------------------------------------------------
Add(call, kind, open) ==
  IF stack = <<>> THEN Throw(call)
  ELSE IF Top = Nil THEN Crash(call)
  ELSE IF Misplaced THEN Throw(call)
  ELSE AddItem(kind, open) /\ Accept(call) /\ UNCHANGED outcome

Value(kind) == May("Value") /\ Add(Call("Value", kind), kind, FALSE)

StartDict == May("StartDict") /\ Add(Call("StartDict", "dict"), "dict", TRUE)

StartArray == May("StartArray") /\ Add(Call("StartArray", "array"), "array", TRUE)

Key(k) ==
  LET call == Call("Key", k) IN
  /\ May("Key")
  /\ IF doc[Root] = "null" \/ stack = <<>> \/ key # NoKey THEN Throw(call)
     ELSE IF Top = Nil THEN Crash(call)
     ELSE IF doc[Top] # "dict" THEN Throw(call)
     ELSE /\ key' = k
          /\ Accept(call)
          /\ UNCHANGED <<doc, stack, outcome>>

\* A key that is still waiting for its value is not looked at.
End(method, kind) ==
  LET call == Call(method, kind) IN
  /\ May(method)
  /\ IF stack = <<>> THEN Throw(call)
     ELSE IF Top = Nil THEN Crash(call)
     ELSE IF doc[Top] # kind THEN Throw(call)
     ELSE /\ stack' = Front(stack)
          /\ Accept(call)
          /\ UNCHANGED <<doc, key, outcome>>

EndDict == End("EndDict", "dict")

EndArray == End("EndArray", "array")

Build ==
  LET call == Call("Build", NoKey) IN
  /\ May("Build")
  /\ IF stack # <<>> \/ doc[Root] = "null" THEN Throw(call)
     ELSE outcome' = "built" /\ UNCHANGED <<builder, chained, context, calls, refused>>

Next ==
  \/ \E kind \in Values : Value(kind)
  \/ \E k \in Keys : Key(k)
  \/ StartDict
  \/ StartArray
  \/ EndDict
  \/ EndArray
  \/ Build

Spec == Init /\ [][Next]_vars

-----------------------------------------------------------------------------
(* What a sequence of calls spells, without the builder: which calls stand  *)
(* in which container, and where their nodes belong.                        *)

Starts == {"StartDict", "StartArray"}

IsItem(call) == call.method \in Starts \cup {"Value"}

\* How many containers are open before the i-th call.
Depth(cs, i) ==
  Cardinality({j \in 1 .. i - 1 : cs[j].method \in Starts})
  - Cardinality({j \in 1 .. i - 1 : cs[j].method \in {"EndDict", "EndArray"}})

\* The call that opened the container in which the i-th call stands.
Opener(cs, i) ==
  Max({j \in 1 .. i - 1 : cs[j].method \in Starts /\ Depth(cs, j) = Depth(cs, i) - 1})

\* The beginning of a sentence: one item, in a dict every item after a key, in
\* an array none, and every End for the container it closes.
WellFormed(cs) ==
  \A i \in DOMAIN cs :
    IF Depth(cs, i) = 0 THEN i = 1 /\ IsItem(cs[i])
    ELSE LET inside == cs[Opener(cs, i)].method
             keyed  == cs[i - 1].method = "Key"
         IN CASE IsItem(cs[i])            -> keyed <=> inside = "StartDict"
              [] cs[i].method = "Key"      -> inside = "StartDict" /\ ~keyed
              [] cs[i].method = "EndDict"  -> inside = "StartDict" /\ ~keyed
              [] cs[i].method = "EndArray" -> inside = "StartArray"

IsSentence(cs) == cs # <<>> /\ WellFormed(cs) /\ Depth(cs, Len(cs) + 1) = 0

ItemCalls == {i \in DOMAIN calls : IsItem(calls[i])}

\* Where the node of an item belongs: under the last key given, or behind the
\* items of its array so far.
PlaceOf[i \in DOMAIN calls] ==
  IF Depth(calls, i) = 0 THEN Root
  ELSE LET o == Opener(calls, i) IN
       Append(PlaceOf[o],
              IF calls[o].method = "StartDict"
              THEN calls[Max({j \in 1 .. i - 1 : calls[j].method = "Key"})].arg
              ELSE Cardinality({j \in ItemCalls : j \in o + 1 .. i /\ Depth(calls, j) = Depth(calls, i)}))

\* Some key has been given twice in one dict.
RepeatedKey ==
  \E i, j \in ItemCalls : i < j /\ Depth(calls, i) > 0 /\ PlaceOf[i] = PlaceOf[j]

Written ==
  [p \in {PlaceOf[i] : i \in ItemCalls} |->
     calls[CHOOSE i \in ItemCalls : PlaceOf[i] = p].arg]

-----------------------------------------------------------------------------
(* Properties                                                               *)

\* Every variable keeps its type: pointers point to nodes of the document, and
\* every node but the root lies in a container.
TypeOK ==
  /\ \A p \in DOMAIN doc :
       /\ doc[p] \in Kinds
       /\ p # Root => Front(p) \in DOMAIN doc /\ doc[Front(p)] \in {"array", "dict"}
  /\ key = NoKey \/ Call("Key", key) \in Range(calls)
  /\ \A k \in DOMAIN stack : stack[k] \in DOMAIN doc \cup {Nil}
  /\ context \in DOMAIN Methods
  /\ outcome \in {"building", "built", "threw", "crashed"}

\* A chain accepts no call that does not continue a sentence, and no call that
\* does, chained or not, is refused; the one exception is a document that is
\* null, which the builder takes for one that has not been begun.
CallsAreASentence ==
  ~RepeatedKey =>
    /\ chained => WellFormed(calls)
    /\ outcome = "threw" /\ doc[Root] # "null" =>
         IF refused.method = "Build" THEN ~IsSentence(calls)
         ELSE ~WellFormed(Append(calls, refused))

\* What Build returns is the document the calls spell: every node at its place
\* and of its kind, and nothing else.
BuiltIsWritten ==
  outcome = "built" /\ ~RepeatedKey =>
    /\ Depth(calls, Len(calls) + 1) = 0
    /\ doc = Written

\* However the calls are mixed, the pointers on the stack stay good while no
\* key is given twice: an array never grows while one of its elements is open.
CrashesOnlyForRepeatedKeys == outcome = "crashed" => RepeatedKey

-----------------------------------------------------------------------------
\* What the message of the exception in AddItem says is refused (an element of
\* a dict without a key, json_builder.cpp:45): where no key is given twice, an
\* element of a dict comes right after its key.
ElementsHaveKeys ==
  ~RepeatedKey => \A i \in ItemCalls :
    Depth(calls, i) > 0 /\ calls[Opener(calls, i)].method = "StartDict" =>
      calls[i - 1].method = "Key"
=============================================================================
