------------------------------ MODULE Answers ------------------------------
(***************************************************************************)
(* What JsonReader does with json::Builder (src/json_reader.cpp): the calls *)
(* that make the answers to the requests. CreateRouteNode does not write    *)
(* its calls in one chain: the items of a route come from a loop, and the   *)
(* builder is called anew for each. Beside the answers, calls are made at   *)
(* will, up to a bound.                                                     *)
(***************************************************************************)
EXTENDS JsonBuilder

CONSTANTS
  MaxCalls,    \* bound on the number of calls made at will
  MaxRides     \* bound on the number of rides of a route

ASSUME BoundsAssumption == MaxCalls \in Nat /\ MaxRides \in Nat

\* The names of the members of the answers. They are keys too.
Names == {"request_id", "error_message", "buses", "curvature", "route_length", "stop_count",
          "unique_stop_count", "map", "total_time", "items", "type", "stop_name", "time", "bus",
          "span_count"}

ASSUME NamesAssumption == Nil \notin Seq(Keys \cup Names \cup Nat)

VARIABLE answer    \* the calls that make the answer, or AtWill

AtWill == <<>>

Pair(k, kind) == <<Call("Key", k), Call("Value", kind)>>

InDict(inside) == <<Call("StartDict", "dict")>> \o inside \o <<Call("EndDict", NoKey)>>

NotFoundNode == InDict(Pair("request_id", "scalar") \o Pair("error_message", "scalar"))

\* The names of the buses are one value.
CreateStopNode(found) ==
  IF found THEN InDict(Pair("request_id", "scalar") \o Pair("buses", "array")) ELSE NotFoundNode

CreateBusNode(found) ==
  IF found
  THEN InDict(Pair("request_id", "scalar") \o Pair("curvature", "scalar")
              \o Pair("route_length", "scalar") \o Pair("stop_count", "scalar")
              \o Pair("unique_stop_count", "scalar"))
  ELSE NotFoundNode

CreateMapNode == InDict(Pair("request_id", "scalar") \o Pair("map", "scalar"))

ItemNode(type) ==
  IF type = "Wait"
  THEN InDict(Pair("type", "scalar") \o Pair("stop_name", "scalar") \o Pair("time", "scalar"))
  ELSE InDict(Pair("type", "scalar") \o Pair("bus", "scalar") \o Pair("span_count", "scalar")
              \o Pair("time", "scalar"))

\* (A slip: the dict of an item is not ended.)
CreateRouteNode_OpenItems(items) ==
  InDict(Pair("request_id", "scalar") \o Pair("total_time", "scalar")
         \o <<Call("Key", "items"), Call("StartArray", "array")>>
         \o FlattenSeq([k \in DOMAIN items |-> Front(ItemNode(items[k]))])
         \o <<Call("EndArray", NoKey)>>)

CreateRouteNode(items) ==
  InDict(Pair("request_id", "scalar") \o Pair("total_time", "scalar")
         \o <<Call("Key", "items"), Call("StartArray", "array")>>
         \o FlattenSeq([k \in DOMAIN items |-> ItemNode(items[k])])
         \o <<Call("EndArray", NoKey)>>)

\* A route is rides, each after a wait; of one stop to itself it is none.
RouteItems(n) == [k \in 1 .. n |-> IF k % 2 = 1 THEN "Wait" ELSE "Bus"]

Routes == {RouteItems(2 * rides) : rides \in 0 .. MaxRides}

Chains == {CreateStopNode(TRUE), CreateBusNode(TRUE), CreateMapNode, NotFoundNode}

AnswersInit ==
  /\ Init
  /\ \/ answer = AtWill
     \/ answer \in Chains /\ chained
     \/ answer \in {CreateRouteNode(items) : items \in Routes} /\ ~chained

Make(call) ==
  CASE call.method = "Value"      -> Value(call.arg)
    [] call.method = "Key"        -> Key(call.arg)
    [] call.method = "StartDict"  -> StartDict
    [] call.method = "StartArray" -> StartArray
    [] call.method = "EndDict"    -> EndDict
    [] call.method = "EndArray"   -> EndArray

MakeAnswer ==
  /\ answer # AtWill
  /\ IF Len(calls) < Len(answer) THEN Make(answer[Len(calls) + 1]) ELSE Build
  /\ UNCHANGED answer

CallAtWill ==
  /\ answer = AtWill
  /\ Len(calls) < MaxCalls
  /\ Next
  /\ UNCHANGED answer

AnswersSpec == AnswersInit /\ [][MakeAnswer \/ CallAtWill]_<<vars, answer>>

-----------------------------------------------------------------------------
MembersAt(path) == {Last(p) : p \in {q \in DOMAIN doc : q # Root /\ Front(q) = path}}

\* Every answer is built, whatever was found and however many items a route
\* has: no call for it is refused or follows a pointer to nothing, and what is
\* built has the members that the type of the request and the result call for.
\* Of the items those at odd places are waits, the others rides.
AnswersAreBuilt ==
  answer # AtWill =>
    /\ outcome \in {"building", "built"}
    /\ outcome = "built" =>
         LET members == MembersAt(Root) \ {"request_id"}
             n       == Cardinality(MembersAt(<<"items">>))
         IN /\ doc[<<"request_id">>] = "scalar"
            /\ \/ members \in {{"error_message"}, {"buses"}, {"map"},
                               {"curvature", "route_length", "stop_count", "unique_stop_count"}}
               \/ /\ members = {"total_time", "items"}
                  /\ RouteItems(n) \in Routes
                  /\ \A k \in 1 .. n : MembersAt(<<"items", k>>) =
                       {"type", "time"} \cup
                       IF k % 2 = 1 THEN {"stop_name"} ELSE {"bus", "span_count"}
=============================================================================
