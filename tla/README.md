# A verification project for TransportCatalogue

TransportCatalogue is a directory of bus stops and buses. It runs in two modes:
`make_base` reads a JSON document of stops, buses and settings, renders the map
and writes everything to a file; `process_requests` restores the file, builds a
router and answers a JSON document of requests. This directory holds TLA+
modules that model the program, TLC configurations that check them on small
instances, and proofs about loading, routing, the routes told to passengers,
saving and serving, and building JSON that TLAPS checks for every size.

To check a run: `tlc -workers 2 -config Router_simple.cfg MCRouter.tla`.
To check the proofs: `tlapm M.tla` for each of the `...Proofs` modules and
DataLemmas.

## 1. The system

| component | state it keeps | operations | modelled in |
|---|---|---|---|
| `graph::Router` (inc/router.h) | matrix of stored routes (weight, last edge) | constructor, `BuildRoute` | Router, RoutePlanner, RouterProofs |
| `graph::DirectedWeightedGraph` (inc/graph.h) | edges, adjacency lists | `AddEdge`, `GetIncidentEdges`, ... | Router, TransportRouter |
| `TransportCatalogue` (src/transport_catalogue.cpp) | two deques, four hash tables | `AddStop`, `AddBus`, `SetDistanceBetweenStops`, queries | Catalogue, CatalogueProofs |
| `JsonReader` (src/json_reader.cpp) | the parsed document | `FillingCatalogue`, `GetRendererSettings`, `GetInfoRequests`, `Create...Node` | BaseRequests, MapRenderer, Program, Answers, BaseRequestsProofs |
| `TransportRouter` (src/transport_router.cpp) | graph, numbers of stops, settings, router | `CreateRouter`, `GetRouteResponse` | TransportRouter, Rides, TransportRouterProofs |
| `Serialization` (src/serialization.cpp) | the protobuf message, the path | `SerializeBase`, `DeserializeBase` | Serialization, Program, ProgramProofs |
| `main`, `RequestHandler` | the answers so far | the two modes | Program, ProgramProofs |
| `json::Builder` (src/json_builder.cpp) | the document, a waiting key, a stack of pointers | `Key`, `Value`, `Start...`, `End...`, `Build` | JsonBuilder, Answers, JsonBuilderProofs |
| `json::Load`, `Print` (src/json.cpp) | the stream, the open calls | parser, printer | JsonParser |
| `MapRenderer` (src/map_renderer.cpp) | settings | `RenderMap` | MapRenderer, MapRendererProofs |
| svg (src/svg.cpp) | objects of a document | setters, `Render` | Svg (in part) |
| geo, ranges | | trigonometry, a pair of iterators | no |

How they interact: everything is a plain call within one process. `main` lets
`JsonReader` fill the catalogue, which `MapRenderer`, `TransportRouter` and
`Serialization` hold references to. The two modes share one thing, the base
file, and nothing keeps one process from reading it while the other writes, or
dies while writing. Pointers and string views into the two deques tie the
catalogue's tables together, references into the matrix tie two halves of a
route together, and pointers into a growing document tie the builder's stack
together; in each case something is written while such a reference is alive.

What is hard here, and what would make it correct:

* *Router.* Floyd-Warshall in place, with ties, self-loops and weights of zero.
  Correct: the answer is a lightest route and its edges are a walk of that
  weight; reading the route back ends.
* *Loading.* Requests in any order, names that occur twice, distances given for
  one direction, stops that do not exist, members missing or of the wrong kind.
  Correct: the catalogue says what the document says, its tables agree with each
  other, and a document that cannot be loaded is refused wherever its fault stands.
* *Routes.* Positions on a route become pairs of edges, there and back.
  Correct: the answer is the least time of a passenger, and the items can be
  travelled.
* *The file.* Truncated before it is filled, written, or emptied and written anew,
  while it may be read, parsed without looking at the result; its numbers are of other
  types than those in memory. Correct: what is served is a base.
* *The requests.* Answered one by one, printed together. Correct: one answer for
  each, in order.
* *The builder.* Keys that wait, keys given twice, pointers into containers that
  grow. Correct: what is built is what the calls spell.

* *JSON text.* Quotes, escapes, numbers of two kinds, ends of input anywhere.
  Correct: a JSON text is loaded as what it means, a cut one is not, and what the
  program prints comes back.
* *The map.* Buses of one name, palettes shorter than the buses are many, stops on
  one line, routes that turn where they began. Correct: each bus and stop is
  shown once, in its colour, inside the frame, and nothing is indexed out of range.

The list of hazards, each at its line, is in `PROJECT.json`.

## 2. The modules

**RoutePlanner** is the abstract specification of the routing engine: a graph
is accepted, or rejected when it has a negative weight; each question is
answered with a walk of least weight or with "no route". Walks are compared with
all walks of fewer edges than there are vertices, which is enough because no
weight is negative.

**Router** is `graph::Router`. The loops of the constructor are taken one body
at a time: `EnterVertex`, `VisitEdge`, `LeaveVertex` for
`InitializeRoutesInternalData`; `SkipRow` and `RelaxRoute`, with the loop
variables `through`, `from`, `to`, for the relaxation; `Ask`, `PushEdge`,
`ReturnRoute`, `ReturnNothing` for `BuildRoute`. An `optional` cell is split into
`weight` (or `NoRoute`) and `prev_edge` (or `NoEdge`). Weights are integers:
the code only adds and compares them. `PlannerSpec` states that it implements
RoutePlanner; `Status` maps where the code is to what its caller sees.

**Catalogue** is `TransportCatalogue` as a value, a record of its six containers
with one operator for each member function; a pointer is a position in a deque
and 0 is `nullptr`. Coordinates lie on a line, and the curvature is kept as the
pair of lengths it is the quotient of; the second of them may be 0.

**BaseRequests** is `FillingCatalogue`: `ReadStop` and `ReadBus` while the
document is read, `SetDistance` for each distance in any order (they come from
an `unordered_map`), `AddBusOfRequest`, and the ends of the three loops. It
starts from a parsed document. A request is a dict of the members it has; one with
a member missing, or of a kind that `As*` does not take (`Other`), cannot be read
(`CanRead`), and the exception of `at` or `As*` ends the process (`ReadThrows`,
"threw"), which is something else than the null pointer of a bus at an unknown
stop ("crashed").

**JsonParser** is `Load` and `Print`. A text is a sequence of characters, `at` how
much of it has been read; the recursive calls of `LoadArray` and `LoadDict` that
are open are the frames of `stack`, and each action takes one step of a loop
(`NextElement`, `NextKey`, `EndOfContainer`) or reads one scalar (`LoadString`,
`LoadNumber`, `LoadWord`). A number is an integer and a power of ten; `Convert` is
the choice between `stoi` and `stod`, `DoubleText` what `operator<<` makes of a
double. `PrintDocument` prints what was loaded, so that it is loaded again.
A double may also be `NotFinite`, what a division by zero makes.
`Meaning` is JSON itself, written over substrings instead of from left to right.
What a number means is said by its parts and the place of its first digit
(`NumberMeaning`), not by `Convert`; only the three words and the escapes that the
program knows, `Words` and `Escapes`, are shared with the parser.

**MapRenderer** with **Svg** is `RenderMap`, an action for each function it calls,
after `GetRendererSettings`, where a member may be missing or of another kind
(the read throws) and an array too short (the read is undefined). Coordinates
are integers; the zoom is a quotient, and a point carries its denominator. The
picture is compared with the catalogue itself. `std::sort` may put buses of one
name in either order.

**TransportRouter** composes Catalogue with an instance of Router: `FillStop`,
`FillBus` and `CreateRouter` build the graph, `ConstructRouter` runs the
router's constructor, `AskRoute`, `WalkRoute` and `Respond` are
`GetRouteResponse`. Minutes are integers whose unit makes a ride as long as its
distance. Edges carry the bus and the number of hops, as `Road` does. `room` is
the number of vertices of the graph: what `SetVertexCount` was given, or none.
**Rides** has the part of it that Program needs as well: the `Legs` of a bus, how long
a ride is, and whether one of them weighs below zero (`HasNegativeRide`), for which the
constructor of `graph::Router` throws. There the velocity is a number of metres a
minute of either sign, or 0, which makes each hop infinite or no number.

**Serialization** says what is written for a catalogue, in which order and how wide,
and what parsing makes of a file that ends early (protobuf, external: whole elements
stay as they are, the one that is cut keeps what came before the cut). A distance is a
double in the catalogue, a `uint64_t` in the file and an `int` when it is restored. The
first conversion has no value for one below zero, so `AsUnsigned` takes any of three that
processors give: `"wraps"`, `"largest"`, `"zero"`. The second keeps the last 32 bits
(`AsInt`), so that a distance below zero comes back as itself, as -1 or as 0.

**Program** is `main`: `MakeBase`, `OpenBase`, `FillBase`, `WriteItem`,
`CloseBase`, `Die` for one process, `OpenFile`, `ReadItem`, `ReadOn`, `EndOfFile`, the
three `Deserialize...` loops, `DeserializeParameters`, `GetInfoRequests`, `Serve`,
`PrintResponses` for the other, with the file between them. Which of the `Bases`
make_base has in memory is chosen in `FillBase`: nothing before depends on it.

The file is a list of items (a stop, a distance, a bus, the map, the settings, the vertex
count) of which so many are whole and the next one may have been begun; it is read
as it is written, an item begun or ended at a time, so that make_base may write, die, or
empty the file between any two of them. `message` holds the items read, of the last one
perhaps only a `part`. When the file is emptied while it is being read, the reader keeps
its place in it (`seam`): it meets the end of the file there, or, once the file has grown
past that place, reads on among the items of the new base (`ReadOn`), and what
it has is then `mixed`. `source` is the base of which exactly all items have been read.
A file that is not there is read like an empty one. `DeserializeParameters` ends the
process where the router would: no room for the stops, a bus without stops, or a negative
ride (`IsRefused`). A stat request with no id or type, or a member of the wrong kind, ends it
before the first answer (`IsReadable`). What the router answers is left to
TransportRouter; here a Route request is answered or kills the process.

**JsonBuilder** is `json::Builder`. The document is a function from paths to
kinds of nodes and a `Node*` is a path; `AddItem` has one operator for each kind
of node on top of the stack. A call may be made in a chain, where the class of
the last result (`DictItemContext`, `ArrayItemContext`, `KeyContext`, `Builder`)
admits only some methods, or on the builder itself. `calls` records what has been
called, so that the document can be compared with what the calls spell.
**Answers** adds the calls by which `JsonReader` makes the answers, among them the
loop over the items of a route, which is written outside of any chain. A route has
any number of rides up to `MaxRides`, each after its wait. `Nil` is `nullptr` and at once every
pointer whose node has moved away; it is a value of its own, and no path.

The proofs (section 4) are in modules of their own: **DataLemmas** has facts about
finite sets, sequences, sums, joined sequences, places reached in rounds, and
induction, that no component owns, **CatalogueProofs**
what each member function of the catalogue does to each of its tables,
**BaseRequestsProofs**, **RouterProofs**, **TransportRouterProofs**, **ProgramProofs**,
**JsonBuilderProofs** and **MapRendererProofs** the theorems. The **MC...** modules define the
instances. Operators marked "(A slip: ...)" are wrong variants of the operator
after them and take part in no specification; each run's property has one that it
must catch, listed under `mutants` in `PROJECT.json`.

## 3. The runs

| run | bounds | what it shows |
|---|---|---|
| router_simple | 3 vertices, each ordered pair without an edge or with one of weight 0, 1 or 3: 4096 graphs | inductive invariant, stable reads, Bellman's equations, refinement |
| router_ties | 4 vertices: a self-loop at each and up to 3 more edges among three of them, parallel ones too, in every order; at most 6 edges that all weigh 0; 3 edges of which one is negative | refinement with ties, the exception for exactly the negative graphs, the walk back is simple and every question is answered |
| base_requests | up to 4 requests from a pool of 10, up to 3 from that pool and 4 that cannot be read: 153,924 states | catalogue = document, tables agree, what is counted, which documents are refused and how, loading ends |
| transport_router | 3 stops (some defined twice), up to 2 buses of 8 shapes, 3 sets of distances, waits -2, 0 and 3, a graph with and without vertices | least time against a passenger model, itineraries, no edge outside the adjacency lists, when the process dies |
| program | 4 bases, one with a negative distance, one without velocity, 3 request lists, members missing or of the wrong kind in some, make_base twice, process_requests once, reading on with at most 1 item begun before: 799,650 states | restored = saved, what ends the reader, partial bases, order of answers, both processes end |
| map_renderer | 4 stops, up to 3 buses of 7 shapes with 2 names for the last, 5 good settings and the odd ones | the picture shows the catalogue, fits the frame, is defined |
| json_builder | up to 7 calls at will, 2 keys (symmetric), 3 kinds of values; routes of up to 2 rides (4 items) | accepted = grammatical, built = written, no bad pointer, answers are built |
| json_parser | all texts of up to 4 characters over two alphabets, of up to 4 more after a first quote or a brace and a quote, and of 3 more after a bracket; texts one edit from two good ones; the prints of 13 documents and all their cuts: about 12,000 texts | JSON is loaded as what it means, cut texts are refused, prints come back, loading ends |
| program_missing_base | as program | violation: a missing or begun base is served as an empty one |
| program_unknown_stop | as program | violation: an unknown stop in one Route request loses all answers |
| json_builder_key | as json_builder | violation: a key left in a closed dict names an element of the outer one |
| json_parser_error | arrays of up to 3 characters | violation: `[,0]` is loaded as `[0]` |

Why the bounds are enough. Three vertices are needed for a relaxation that goes
through a third, and weights 0, 1, 3 give ties, a detour that is lighter than an
edge, and one that is not; four vertices allow cycles of weight zero that are
not in the way of each other. Four base requests allow a stop to be redefined
after a bus and a distance that use it. Two buses allow a change, and the shapes
have every way a route may turn, end where it began, stand still or be empty.
`MaxBuilds = 2` is what it takes for an old base to be truncated by a new one, before or
while it is read; a second reader would start as the first does, whatever the first has
done, so `MaxReads = 1`. `MaxStale = 1` bounds how much of the old base is in front when a
reader goes on in a new one: a stop, whole or in part, before any end of the new base,
its vertex count included. `Unsigned = 1024` and `IntRange = 32` stand for 2^64 and 2^32, of which the
one is a multiple of the other; the distance of -4 is a negative ride where it wraps round
and is outweighed by the wait of 2 where it comes back as -1.
Texts of four characters have two
containers in each other, an escape in a string, a fraction or an exponent; the
edited texts are an object with a key twice and an object in an array. Numbers
are small in the model (`IntMax = 1050`, `MaxExponent = 5`, `Precision = 3`
instead of 2147483647, 308 and 6), so that short texts reach all three limits,
and `EPSILON = 2` is an extent that two of the stops stay below. Three buses are
more than the palette has colours. Seven calls on the builder open two containers, give a key twice and reach a null
pointer. Deadlock is not checked where the program stops: after loading, after
printing, after an exception. `MaxRides = 2` goes through the loop over the items
of a route not at all, once and again. `VertexCount = 6` in transport_router is at least
the number of stops, as `2 * GetStopsCount()` is.

Fairness. The constructor and `BuildRoute` (Router, TransportRouter) and the
loading (BaseRequests, JsonParser) are calls that run until they return: weak fairness on
their steps, and none on the caller's questions. In Program each process has weak
fairness on its own steps once started; starting one, and `Die`, has none.

The four violations are differences between what a document or a message says
and what the code does; `findings` in `PROJECT.json` quotes them.

## 4. What is proved

Every theorem is for every value of the constants. What is assumed of them:

* Router: `VertexCountAssumption` (a number) and `GraphsAssumption` (edges join
  vertices and weigh integers: `AddEdge` indexes the adjacency lists with them).
* BaseRequests: `RequestsAssumption`, the types of the members of a request that can be
  read. Nothing is said of names, orders or repetitions, nor of other requests.
* TransportRouter: `SettingsAssumption` (a vertex count is a number, waits are
  integers, negative ones too) and `BasesAssumption` (a catalogue is `IsFilled`, its
  distances are ints). Nothing is said of how many stops there are or what is asked.
* Program: `BasesAssumption` (a base is a catalogue as `FillingCatalogue` leaves it,
  its distances are ints, its wait and velocity any integers), `UnsignedAssumption` (2^64 is
  a multiple of 2^32, which is even), `BoundsAssumption` (how often the modes are started
  and how late a reader may go on in another base) and `RequestsAssumption` (a list of
  requests is a list). That a catalogue is `IsFilled` is no new assumption:
  `CatalogueIsFilled` proves it of what BaseRequests hands on.
* MapRenderer: `EpsilonAssumption` (an extent that counts as none is a positive
  number), `BasesAssumption` (a catalogue is `IsFilled`, names are numbers and so are
  coordinates) and `SettingsAssumption` (what a node of kind int, double or array
  holds). Nothing is said of which settings there are, of what kinds, or how large.
* JsonBuilder: `ValuesAssumption` (a value is of one of the four kinds),
  `KeysAssumption` (the mark for "no key waits" is no key) and `NilAssumption` (a
  pointer to none is the path of no node). The calls may be any, and any number of
  them.
* Answers: `NamesAssumption` (the same of paths with the names of the answers' members
  in them) and `BoundsAssumption` (how many calls are made at will and how many rides a
  route has are numbers, any numbers).

### The routing engine (RouterProofs)

| theorem | states |
|---|---|
| `TypeCorrect`, `MatrixCorrect` | `TypeOK` and the inductive `MatrixInv` |
| `TriangleCorrect`, `PredecessorCorrect` | its two conjuncts of interest, as invariants of their own |
| `PassReadsStable` | `PassReadsAreStable`, an action property |
| `BellmanCorrect` | `BellmanInv` |
| `AnswersAreLightest` | what `BuildRoute` returns is a walk of the stored weight, and no walk of any length is lighter; nothing is returned only where there is no walk |
| `RouterImplementsPlanner` | `Spec => PlannerSpec`, the refinement of RoutePlanner |
| `WalksAreSimple`, `WalksAreShort` | the walk back meets no vertex twice, so it has fewer edges than there are vertices |

The difficulty of the matrix is the relaxation in place: in the middle of a pass
some cells are old and some new, and the triangle inequality holds of neither.
`Promised(i, j, x)` says that a route of weight at most x is stored or will be
once the pass has reached the cell, and the invariant is stated with promises:

* `TriangleInv`: two stored routes that meet in a finished vertex join into one
  that is promised;
* `PredecessorInv`: the route before the last edge is promised with the weight
  that remains.

They become inductive with what the loops have done so far: `PhaseInv` (where
loop variables stand), `DiagonalInv`, `EdgesInv` (no visited edge is cheaper than
what is stored), `PassInv` (cells the pass has been over are settled). A write
only lowers a cell, and never one in the pass's own row or column, because the
diagonal is 0 and a candidate must be strictly smaller (`RelaxWrites`); so the
promises stay (`RelaxKeepsMatrix`), and when the pass ends each becomes a fact
(`PassAdvance`). With all passes done, both together are Bellman's equations
(`BellmanCorrect`): the first bounds a stored route from above by each edge, the
second accounts for its last edge, and the sum is exact.

The answer. `WalkInv` says that what `BuildRoute` has collected, read backwards, is
a walk from the vertex it has come to, and accounts for exactly the weight that
the stored route to there leaves; Bellman's equations carry it over one more edge
(`PushKeepsWalk`), and when there is no last edge the vertex is the source and the
weight left is 0. That no walk is lighter is Bellman's upper bound summed along
the walk, by induction over its prefixes (`Induction` in DataLemmas is stated for
sets of numbers, which the provers can instantiate). The refinement follows step by step:
the constructor's steps stutter until `FinishRelaxation`, which accepts, or the
visit of a negative edge, which rejects; `Ask` asks; `PushEdge` stutters;
`ReturnRoute` and `ReturnNothing` answer.

That the walk is simple needs more than weights, because edges may weigh nothing.
`IsTree` says that no set of vertices has all its predecessors within itself.
Relaxing a row replaces the last edges of some vertices by those of the row of
`through`; `JoinTrees` shows that the mixture of two trees is a tree when only
strictly lighter routes are replaced: on a circle all weights would be the same,
a vertex that kept its last edge would have a predecessor that kept its own, and
the circle would lie in one of the two trees. This is the one place where the strictness of
`Improves` matters for the answer, and the mutant with ties breaks it.

### Loading (CatalogueProofs, BaseRequestsProofs)

| theorem | states |
|---|---|
| `LoadingTypeCorrect` | `TypeOK` |
| `IndexCorrect` | `IndexInv`: the tables of the catalogue agree with its deques at every moment |
| `OnlyUnknownStopsCrash` | `CrashesOnUnknownStop`: an exception for exactly the documents with a request that cannot be read, a null pointer for exactly those of the others with an unknown stop |
| `CatalogueSaysTheDocument` | `FilledAsRequested`: stops, coordinates and distances |
| `BusesGoAsRequested` | `RoutesAsRequested` |
| `StopsAreCounted` | `UniqueStopsCounted`: all the different stops of a route whose last stop is also an earlier one, one less of any other, so 0 for a route of one stop |
| `CatalogueIsFilled` | the catalogue that is handed on has tables that agree, distances between living stops only, and no bus at a stop that is none |

The inductive `LoadingInv` relates the catalogue to the part of the document that
has been dealt with: the two local vectors hold the requests of their kind in
order (`ReadInv`), each deque has one element for each of them (`DequesInv`), the
name tables lead to the last one of a name (`IndexInv`), the distance from a to b
is the one that the last request of stop a which lists b gives, among those done
so far in the unordered loop (`DistancesInv`), and the buses added are at known
stops, the one that was refused is not (`KnownStopsInv`). There is a lemma for each
action. What the properties say of the whole document then follows without
induction.

### Routes (TransportRouterProofs)

| theorem | states |
|---|---|
| `ServiceCorrect` | the inductive `ServiceInv` |
| `TerminationsExplained` | `TerminatesOnlyFor`: a vertex count below the number of stops, a bus without stops, a negative ride, an unknown stop asked for |
| `VerticesCorrect` | `VerticesInv` |
| `ItinerariesCorrect` | `ItemsAreAnItinerary` |
| `QuickestCorrect` | `AnswersAreQuickest`: the question answered is the one asked; what is told is a trip, no trip takes less time, and "not found" is said only where the buses offer none |
| `PassengersAnswered` | `RoutesAreQuickest`: the time told is the earliest a passenger can be there who moves from stop to seat, along the route and off again, one move at a time; "not found" is said exactly when no moves lead there |

`ServiceInv` follows the life of the service. While it is built: where it is
(`StageInv`), the stops numbered so far without gaps (`NumbersInv`), and every edge so far a
self-loop of a stop or a `Ride`, from position i to position j of a bus along one way
and as long as the distances between them (`PlanInv`). From then on (`RoutingInv`)
the router inside keeps the invariants of RouterProofs, which is instantiated
without its own `Init`: the graph is one built here, not one of `Graphs`.

The answer is told edge by edge. A walk of the graph that begins and ends at two
stops becomes items, a wait of `bus_wait_time` and a ride for each edge that is not
a self-loop, and the times of the items add up to the weight of the walk
(`ItemsAre`, `WalkIsTrip`); the self-loops are never on a walk that is told, because
a walk that meets no vertex twice has none (`WalkIsSimple`).

For the converse `CompleteInv` says that no ride is missing: whatever buses have been
dealt with, each pair of positions on a way of theirs has its edge
(`WaysAreLegs`, `FillBusCompletes`; for a bus that goes there and back the middle of the
route is where the ways meet, which needs the odd length that `IsFilled` has).
A trip is therefore a walk of the same weight (`TripIsWalk`). The router's walk
is lightest among all walks (`RespondIsLeast`, from Bellman's equations), so the
answer is quickest among all trips, of any number of rides.

The passenger of the run knows neither edges nor trips: `PassengerTimes` takes one
move at a time, and after as many rounds as there are stops and seats it stops. Two
things have to be shown (`PassengerTimesAre`, `PassengerIsAnswered`). That so many
rounds are enough: with no move back in time, and every place reached late reachable
early, a round that leaves some earliest time unfound finds at least one more
(`RoundGrows`, `MoveFindsOne`), and there are no more of them than places
(`RoundsBringEarliest` in DataLemmas, about any moves on a finite set). That the
moves do not go back in time is not assumed: a distance below zero makes an edge of
negative weight, on which the constructor throws, so a graph that serves has none
(`GraphServesNow`). And that moves and graph agree: `Timely` are the places a passenger
can be at when the graph says so, by a walk to a stop and then part of an edge; it
is closed under moves (`TimelyOnward`, where a seat ahead is `ArriveByEdge`), so
nothing is reached earlier than the lightest walk, and the trip that is told is a
series of moves (`RideReachable`, `TripReachable`), so nothing is reached later.

### Saving and serving (ProgramProofs)

| theorem | states |
|---|---|
| `ProgramTypeCorrect` | `TypeOK` |
| `SavedComesBack` | `RestoredIsSaved`: a base that was written and read to its end comes back as it was, but that a distance below zero may come back as -1 or 0 |
| `WholeBasesAreServed` | `WholeBaseIsServed`: only a bus without stops, a negative ride or a request ends the process |
| `PartialBasesAreNotServed` | `PartialBaseIsNotServed`: no stop of a base that was not written, or not read, to its end, unless the reader has gone on in a base written anew |
| `AnswersComeInOrder`, `AnswersAreTheAnswers` | `AnswersInOrder`, and that each printed answer is the one to its request, at its place |
| `TablesAlwaysAgree` | the tables of the restored catalogue agree, whatever the file was |

`ProgramInv` holds of every interleaving of the two processes, with `Die` in any
state of `make_base`. The file holds a part of the items of some base (`FileInv`).
What a reader has read, as long as it is not mixed, is the beginning of the items of one
base (`ReadsFrom`, `BeginsLike`): of the one in the file, or, when that has been emptied
since, of one that was there before and that nothing else remembers. Every step of the
other process keeps that (`MakerKeepsSource`). So at the end of the file it is all the
items of that base, or a message without a vertex count (`WhatIsParsed`), because the
count is written last: a file cut or emptied anywhere cannot be taken for a whole one.
`IntsComeBack` is the arithmetic of the two conversions. While a whole message is read, `Progress` says which elements have come
back: after `at` passes of a loop the restored catalogue has the first `at` stops,
distances or buses and nothing of the rest, where the distances arrive in the
order of a hash table and are looked up by name, so that `EveryKeyOnce` and
`IsFilled` are needed. The names of a partial base bound the vertices its routes
need (`NamesAndStops`), which is what `HasRoom` compares with the count. The answers
are counted off along the requests that have one (`Collects`).

### The builder (JsonBuilderProofs)

| theorem | states |
|---|---|
| `BuilderTypeCorrect` | `TypeOK` |
| `CallsSpellASentence` | `CallsAreASentence`: while no key is given twice a chain accepts only beginnings of sentences, and nothing that continues or ends one is refused, the null document excepted |
| `BuiltCorrect` | `BuiltIsWritten`: what is built has every item at its place and of its kind, and nothing else |
| `PointersStayGood` | `CrashesOnlyForRepeatedKeys` |
| `BuilderServesAnswers` | all four of the builder that makes the answers (`AnswersSpec`) |
| `EveryAnswerBuilt` | `AnswersAreBuilt`, for routes of any number of rides |

`BuilderInv` relates three things that only the calls tie together. The document:
its nodes are the places of the items so far, each of the kind of its item
(`DocumentIs`). The stack: its pointers are the places of the calls that have opened a
container which is still open, from the outermost on, and since each of them the
depth has not come back to where it was (`AreOpen`). The key that waits: it is the last one
given (`KeyIsLast`), but it may wait across the end of a container. The places
themselves are a recursion over the calls; the invariant speaks of any function that
obeys it (`IsPlacing`), which one more call extends (`PlacingNext`) and of which there is
only one (`PlacingUnique`), so that `PlaceOf` is it (`PlaceOfIs`).

An item of a dict goes to the key that waits. If its node is there already, the
key has been given twice, and from then on nothing is claimed; otherwise it is new
(`DictItem`). An item of an array goes behind its elements: that there are as many
of them as items in it needs the elements to be numbered without gaps and two items
never to have one place (`ArrayCount`), and that `emplace_back` moves nothing the stack
points to needs the pointers to lie in each other (`NothingMoves`): when an array is on
top, nothing in it is open. So the pointer on top is always that of
the opener of the next call (`TopOfSound`), which is what the exceptions look at.

For `CallsAreASentence`, `KeyInv` compares the key that waits with the call before.
Outside of a chain a key may be left waiting by an End, and then the calls are no
sentence any more; as long as they are one, a key waits only right after it has been
given, so the builder, which looks at the key, and the grammar, which looks at the
call before, agree (`CallFits`, `RefusedFitsNot`).

All this is proved for `AnyCall`, a call of any method with any key, the names of the
answers' members included, and any value. The calls of JsonBuilder's `Spec` are such
calls, and so are those of `AnswersSpec` (`AnswersAreAtLarge`), which the run checks.

`EveryAnswerBuilt` needs the other direction: not what holds if a call is accepted, but
that each is. Between two calls for an answer the builder is where `Progress` says: a
dict at some path is open on top of the stack, it has its first i members, and a key
waits or not. `DictStep` takes it over the next call of any dict of members with
different names, so the answers made in a chain, which are one dict, are built
(`ChainStep`, `DictBuilt`). A route is a dict with an array of dicts in it. Which call comes next after
m is a question of where the items begin in a joined sequence (`Flattened`: item k begins
where the lengths of those before it end), and `RouteAt` says for each m which dict is
open and what those that are closed hold: the head of the route, item k, or the end of
the array. An item that begins or ends leaves the items before it as they are
(`ItemBegun`, `ItemsOpened`, `FrameStays`), though `emplace_back` may have moved all of
them. At the end the members are read off the document, and the items are as many as the
route has (`RouteBuiltHas`).

### The map (MapRendererProofs)

| theorem | states |
|---|---|
| `MapDrawn` | the inductive `CollectedInv` and `DrawnInv` |
| `RenderingDefined` | `RenderingIsDefined` |
| `FrameFilled` | `PictureFillsTheFrame` |
| `CatalogueShown` | `PictureShowsTheCatalogue` |

`CollectedInv` says of each local of `RenderMap` what it holds from the function on
that fills it: the settings as they are read (`ReadRight`), the buses with stops in an
order of their names (`BusesInOrder`), the stops (`StopsFor`), and for each name one
route, whose bus and points may be of two buses (`RoutesInOrder`). `DrawnInv` says
that the document is the layers drawn so far, one behind the other (`LinesDrawn`,
`LabelsDrawn`, `CirclesDrawn`, `NamesDrawn`). The labels of a route are two or four
objects, so that where they begin depends on all routes before; `FlattenBlocks`
speaks of the ends of the blocks, of which each is the last one and a length.

`RenderingDefined`: the settings are read one by one, and the first read that fails
decides. A read of a full set of settings does not fail, so what is left is a colour
out of an empty palette (`NoColor`) and a point of a route that has none, or not as
many as the bus that gives the name has stops (`NoPoint`).

`FrameFilled`: the zoom is the smaller of two quotients, so that multiplied out each
direction fits (`AlongFits`, `ZoomFits`) and one of them exactly; the stops that are least
and greatest in a direction are among those shown (`PlacesFit`). What is drawn is at the
place of a stop that is shown, layer by layer (`MapPlaced`).

`CatalogueShown` needs to know of every element of the document whose it is.
`MapIsPicture` says which object is drawn where, `Positions` which elements have a tag,
and `Zones` that no other layer has that tag. The run's property reads the picture the
way a browser does, by tag and from the top (`ElementsAt` lists positions in ascending
order), and it counts names (`PlaceAmong`). That the k-th line is that of the k-th name
is where the two meet: an ascending list of a set is unique (`AscendingUnique`), and as
many names come before the k-th as the list says (`BusesStand`, `StopsStand`). The
hypothesis that no two buses have one name is needed for the other direction: of two
buses of one name, the document draws one. A second
label is drawn by a condition on the stops of the bus, the terminals are a set of stops:
`TerminalsAre` relates the two, `LabelsOfOne` counts the labels. A component of a colour is a byte after the
conversion, so that the colour drawn is the one meant if it was between 0 and 255
(`ColorIsMeant`).

### What is only model-checked

* Liveness (`EveryQuestionIsAnswered`, `LoadingEnds`, `ProcessesEnd`,
  `RouteRequestsAreAnswered`, `LoadEnds`): out of the prover's reach. What an argument for
  termination needs is proved where it is not obvious (`WalksAreShort`).
* JsonParser (`LoadsJson`, `CutTextIsRefused`, `ReloadsWhatItPrints`): what a text
  means, how a node is printed and what comes back of it are recursions over nodes and
  texts. There is no set of all nodes that a recursive function could be defined on, so
  they are RECURSIVE operators, which the prover cannot reason about, and what they
  compute would have to be shown by induction over the nodes, which it cannot either.
  `PrintNode` is part of the next-state relation, so this is true of all of the module.

Everything else that a passing run checks, every safety invariant of the other modules, the one
action property and the refinement, is a theorem.

## 5. What is not modelled

* Floating point beyond what is said above: minutes, coordinates and the curvature
  are integers or pairs, so rounding in sums is outside, and so is a negative zero as
  velocity. What JsonParser knows of doubles is their range, the six digits that are
  printed, and how those are printed that a division by zero makes: 0 / 0 is no number,
  anything else over 0 is infinite. TransportRouter takes the velocity to be above zero;
  with none, or one below zero, Program knows whether the router throws (`WeighsBelowZero`),
  but the routes told when it does not, infinitely long or not comparable, are outside.
* The bytes of the base file. Program reads it item by item: a block of the stream may end
  anywhere, which is an item of which a part has been read, and a base written anew may
  be longer or shorter up to the reader's place, so that reading goes on with any of its items
  but the first. But what follows begins with a whole item there: that the bytes
  of the old and the new base do not meet at the same place within an item, which
  protobuf may refuse or take for other items, and that the catalogue is a
  message with a length of its own in front, which in a mixed base is that of the old one,
  are outside.
* Such a mixed base may be served: it can have stops of one base and the vertex count of
  another. `PartialBaseIsNotServed` therefore excepts it (`~mixed`); without that conjunct
  TLC finds a reader that serves a stop of the base that is gone.
* One make_base and one process_requests run at a time; two writers of one file are
  outside.
* The text of svg: RenderContext, `Object::Render`, how caps and joins are spelled,
  what happens to a name with `<` or `&` in it (nothing: it is written as it is).
* Reading the two routing settings and the path of the base file: three members
  without a decision. A document without them ends the process early, which is
  `Die` in Program.
* A base or stat request that is no dict, and a document without base_requests or
  stat_requests, are not told apart from a request without members: all of them throw
  before anything is written or answered.
* A negative font size, which wraps to a large `uint32_t`; bytes beyond ASCII.
* The depth of the parser's recursion: the stack of the process is taken to be
  large enough for the document.
* `geo`, `ranges.h`, `graph.proto` (compiled, used by no code), the usage message.
* `static graph::Router` in `CreateRouter`: the program calls it once in a process.

## 6. Plan

Done, in this order: RoutePlanner and Router, its proofs, Catalogue, BaseRequests,
TransportRouter, Serialization and Program, JsonBuilder, JsonParser, MapRenderer
and Svg, Answers; then the proofs about the walk back and the refinement, about
loading, about the two modes, about the routes told, about the builder, about
the map, about the passenger, and about the answers.

What would come next: that JsonReader hands to `CreateRouteNode` the items that
GetRouteResponse tells (Answers takes a route to be waits and rides in turn, which
`ItinerariesCorrect` says of TransportRouter, but no module composes the two), and a parser whose
nodes have a bounded depth, so that its recursions become functions on a set.
