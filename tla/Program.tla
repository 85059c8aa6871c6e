------------------------------ MODULE Program ------------------------------
(***************************************************************************)
(* main (src/main.cpp): the two modes of the program and the file between   *)
(* them. `make_base' fills a catalogue and writes it to the base file;      *)
(* `process_requests' reads the base file, answers its requests one after   *)
(* the other and prints all the answers at the end.                         *)
(*                                                                          *)
(* The modes are separate processes: nothing keeps one from running while   *)
(* the other does, and make_base may die at any step. Filling the catalogue *)
(* is modelled in BaseRequests, the router in TransportRouter; here a base  *)
(* is what make_base has in memory when it starts to write.                 *)
(***************************************************************************)
EXTENDS Serialization, TLC

CONSTANTS
  Bases,           \* [db, settings, colors], colors the size of the palette
  RequestLists,    \* the sequences of stat_requests, dicts of the members given
  EmptyName,       \* the name of no letters
  Other,           \* a member of another kind than it should have
  MaxBuilds,       \* how often make_base is started
  MaxReads,        \* how often process_requests is started
  MaxStale         \* how many items it may have begun when it reads on in a base
                   \* that was written anew

\* The catalogue of a base is filled by FillingCatalogue (BaseRequests). Its
\* distances, and the wait, are ints; the velocity is in metres a minute.
ASSUME BasesAssumption ==
  \A b \in Bases :
    /\ DOMAIN b = {"db", "settings", "colors"}
    /\ DOMAIN b.settings = {"bus_wait_time", "bus_velocity"}
    /\ b.settings.bus_wait_time \in Int /\ b.settings.bus_velocity \in Int
    /\ IsFilled(b.db)
    /\ \A road \in DOMAIN b.db.stops_to_dist :
         b.db.stops_to_dist[road] \in -(IntRange \div 2) .. IntRange \div 2 - 1

\* Unsigned is a multiple of IntRange, which is even.
ASSUME UnsignedAssumption ==
  /\ Unsigned \in Nat \ {0} /\ \E k \in 1 .. Unsigned : Unsigned = k * IntRange
  /\ IntRange \in Nat \ {0} /\ 2 * (IntRange \div 2) = IntRange

ASSUME BoundsAssumption == MaxBuilds \in Nat /\ MaxReads \in Nat /\ MaxStale \in Nat

ASSUME RequestsAssumption == \A list \in RequestLists : list \in Seq(Range(list))

VARIABLES
  file,            \* the base file, if it exists: the items of a base, how many
                   \* of them are whole, whether the next one has been begun
  maker,           \* make_base: "idle", "filled", "opened", "writing"
  builds, reads,   \* how often the modes have been started
  reader,          \* process_requests: "idle", "reading", "stops", "distances",
                   \* "buses", "parameters", "requests", "serving", "printed",
                   \* "terminated"
  message,         \* base_ of the reader: the items it has read
  part,            \* whether it has only read a part of the last of them
  seam,            \* whether the file has been emptied since it last read from it
  mixed,           \* whether it has read on in a file that had been emptied
  db,              \* its catalogue
  at,              \* elements the present loop is done with; while it reads the
                   \* file, the whole items it has read
  requests,        \* its stat_requests, once it has taken them
  responses,       \* the answers so far
  output,          \* what it has printed
  source           \* the base all of whose items it has read, and no others,
                   \* or NoBase

made  == <<file, maker, builds>>
parse == <<message, part, seam, mixed, source>>
read  == <<reads, reader, parse, db, at, requests, responses, output>>
vars  == <<made, read>>

NoBase == <<>>
NoFile == [exists |-> FALSE, base |-> NoBase, items |-> <<>>, whole |-> 0, cut |-> FALSE]

Init ==
  /\ file = NoFile
  /\ maker = "idle" /\ builds = 0
  /\ reads = 0 /\ reader = "idle" /\ message = <<>>
  /\ part = FALSE /\ seam = FALSE /\ mixed = FALSE
  /\ db = EmptyCatalogue /\ at = 0
  /\ requests = <<>> /\ responses = <<>> /\ output = <<>>
  /\ source = NoBase

-----------------------------------------------------------------------------
(* make_base                                                                *)

MakeBase ==
  /\ maker = "idle"
  /\ builds < MaxBuilds
  /\ builds' = builds + 1
  /\ maker' = "filled"
  /\ UNCHANGED <<file, read>>

\* The stream is opened, and the file emptied, before the base is filled. A
\* process that is reading the file stays where it is in it.
OpenBase ==
  /\ maker = "filled"
  /\ file' = [NoFile EXCEPT !.exists = TRUE]
  /\ maker' = "opened"
  /\ seam' = (seam \/ (reader = "reading" /\ message # <<>>))
  /\ UNCHANGED <<builds, reads, reader, message, part, mixed, source, db, at, requests,
                 responses, output>>

HasRoutes(d) == \E b \in DOMAIN d.buses : d.buses[b].stops # <<>>

\* Which base make_base has in memory is seen from here on, and chosen here. The
\* map is rendered first; its colors are taken modulo the palette's size.
FillBase ==
  /\ maker = "opened"
  /\ \E b \in Bases :
       IF b.colors = 0 /\ HasRoutes(b.db)
       THEN maker' = "idle" /\ UNCHANGED file
       ELSE /\ maker' = "writing"
            /\ \E keys \in SetToSeqs(DOMAIN b.db.stops_to_dist), below \in Below :
                 file' = [file EXCEPT
                   !.base = b,
                   !.items = FillingBase(b.db, keys, below, "map", b.settings,
                                         2 * Len(b.db.stops))]
  /\ UNCHANGED <<builds, read>>

\* (A slip: one item more than there is.)
WriteItem_PastTheEnd ==
  /\ maker = "writing"
  /\ file' = IF file.cut
             THEN [file EXCEPT !.whole = @ + 1, !.cut = FALSE]
             ELSE [file EXCEPT !.cut = TRUE]
  /\ UNCHANGED <<maker, builds, read>>

WriteItem ==
  /\ maker = "writing"
  /\ file.whole < Len(file.items)
  /\ file' = IF file.cut
             THEN [file EXCEPT !.whole = @ + 1, !.cut = FALSE]
             ELSE [file EXCEPT !.cut = TRUE]
  /\ UNCHANGED <<maker, builds, read>>

CloseBase ==
  /\ maker = "writing"
  /\ file.whole = Len(file.items)
  /\ maker' = "idle"
  /\ UNCHANGED <<file, builds, read>>

\* The process is killed, or the disk is full: what has been written stays.
Die ==
  /\ maker # "idle"
  /\ maker' = "idle"
  /\ UNCHANGED <<file, builds, read>>

-----------------------------------------------------------------------------
(* process_requests: ParseFromIstream. The file is read block by block, and *)
(* may be written to, or emptied and written anew, in between. A block may  *)
(* end anywhere: the steps here are an item begun and an item read whole.   *)

\* A file that is not there parses like an empty one.
OpenFile ==
  /\ reader \in {"idle", "printed", "terminated"}
  /\ reads < MaxReads
  /\ reads' = reads + 1
  /\ reader' = IF file.exists THEN "reading" ELSE "stops"
  /\ message' = <<>> /\ part' = FALSE /\ seam' = FALSE /\ mixed' = FALSE /\ source' = NoBase
  /\ db' = EmptyCatalogue /\ at' = 0
  /\ requests' = <<>> /\ responses' = <<>> /\ output' = <<>>
  /\ UNCHANGED made

\* As long as the file has not been emptied, what follows is the next item.
ReadItem ==
  /\ reader = "reading"
  /\ ~seam
  /\ \/ /\ part
        /\ at < file.whole
        /\ at' = at + 1
        /\ part' = FALSE
        /\ source' = IF ~mixed /\ at + 1 = Len(file.items) THEN file.base ELSE source
        /\ UNCHANGED message
     \/ /\ ~part
        /\ at < file.whole \/ file.cut
        /\ part' = TRUE
        /\ message' = Append(message, file.items[at + 1])
        /\ UNCHANGED <<at, source>>
  /\ UNCHANGED <<made, reads, reader, seam, mixed, db, requests, responses, output>>

\* When it has been emptied and has grown again beyond the place where the reader
\* is, reading goes on with an item of the new base that is not its first.
ReadOn ==
  /\ reader = "reading"
  /\ seam
  /\ Len(message) <= MaxStale
  /\ at' \in 1 .. file.whole
  /\ message' \in IF part THEN CutMessages(message) ELSE {message}
  /\ part' = FALSE
  /\ seam' = FALSE /\ mixed' = TRUE
  /\ source' = NoBase
  /\ UNCHANGED <<made, reads, reader, db, requests, responses, output>>

\* Nothing says how long a base is: one written anew may be shorter than what
\* has been read. A file that is empty or cut parses like any other.
EndOfFile ==
  /\ reader = "reading"
  /\ ~seam => at = file.whole /\ part = file.cut
  /\ message' \in IF part THEN CutMessages(message) ELSE {message}
  /\ part' = FALSE
  /\ at' = 0
  /\ reader' = "stops"
  /\ UNCHANGED <<made, reads, seam, mixed, source, db, requests, responses, output>>

-----------------------------------------------------------------------------
(* process_requests: DeserializeBase, one element at a time                 *)

\* The loops of DeserializeTransportCatalogue: in phase `here' over the items
\* of one field, then on to phase `next'.
Restore(here, field, next, Can(_, _), Do(_, _)) ==
  LET items == ItemsOf(message, field) IN
  /\ reader = here
  /\ IF at = Len(items)
     THEN reader' = next /\ at' = 0 /\ UNCHANGED db
     ELSE IF Can(db, items[at + 1])
          THEN /\ db' = Do(db, items[at + 1])
               /\ at' = at + 1
               /\ UNCHANGED reader
          ELSE reader' = "terminated" /\ UNCHANGED <<db, at>>
  /\ UNCHANGED <<made, reads, parse, requests, responses, output>>

DeserializeStops ==
  Restore("stops", "stops", "distances", LAMBDA d, item : TRUE, DeserializeStop)

DeserializeFromToDistances ==
  Restore("distances", "stops_distance", "buses",
          CanDeserializeFromToDistance, DeserializeFromToDistance)

DeserializeBuses ==
  Restore("buses", "buses", "parameters", CanDeserializeBus, DeserializeBus)

\* A bus without stops that is no round trip: its way there has an end, but no
\* beginning.
HasStoplessLine(d) ==
  \E b \in DOMAIN d.buses : d.buses[b].stops = <<>> /\ ~d.buses[b].is_roundtrip

\* (A slip: a vertex count that is missing is made up for.)
HasRoom_WithDefault ==
  \/ PositionsOf(message, "vertex_count") = {}
  \/ FieldOf(message, "vertex_count", "count", 0) >= Cardinality(DOMAIN db.stop_by_name)

\* The graph has a vertex for every stop.
HasRoom ==
  FieldOf(message, "vertex_count", "count", 0) >= Cardinality(DOMAIN db.stop_by_name)

\* (A slip: the router is built before the wait is restored.)
IsRefused_NoWait ==
  HasNegativeRide(db, 0, FieldOf(message, "routing_settings", "bus_velocity", 0))

\* The constructor of graph::Router throws for the settings the message has.
IsRefused ==
  HasNegativeRide(db, FieldOf(message, "routing_settings", "bus_wait_time", 0),
                      FieldOf(message, "routing_settings", "bus_velocity", 0))

\* DeserializeParameters: the router is built for the vertices the message
\* has; TransportRouter says when that ends the process.
DeserializeParameters ==
  /\ reader = "parameters"
  /\ reader' = IF ~HasRoom \/ HasStoplessLine(db) \/ IsRefused THEN "terminated"
               ELSE "requests"
  /\ UNCHANGED <<made, reads, parse, db, at, requests, responses, output>>

\* What has an id and a type and no member of a wrong kind. (A request that is
\* no dict, and a document without stat_requests, end the process like a request
\* without members.)
IsReadable(content) ==
  /\ {"id", "type"} \subseteq DOMAIN content
  /\ \A member \in {"id", "type", "name", "from", "to"} \cap DOMAIN content :
       content[member] # Other

\* A member that is not given is taken for the empty name; at() and As*() throw.
GetInfoRequests ==
  /\ reader = "requests"
  /\ \E contents \in RequestLists :
       IF \A k \in DOMAIN contents : IsReadable(contents[k])
       THEN /\ reader' = "serving"
            /\ requests' = [k \in DOMAIN contents |->
                 contents[k] @@ [name |-> EmptyName, from |-> EmptyName, to |-> EmptyName]]
       ELSE reader' = "terminated" /\ requests' = contents
  /\ UNCHANGED <<made, reads, parse, db, at, responses, output>>

-----------------------------------------------------------------------------
(* process_requests: the requests                                           *)

NotFound == "not found"

GetStopResponse(name) ==
  IF GetStop(db, name) = NullPtr THEN NotFound ELSE GetBusesThroughStop(db, name)

GetBusResponse(name) ==
  IF GetBus(db, name) = NullPtr THEN NotFound ELSE GetInfoOnRoute(db, name)

\* Which route it is, is the business of TransportRouter.
GetRouteResponse(f, t) == <<"route", f, t>>

\* Requests after which the process does not come to the next one: the loop
\* of GetInfoOnRoute runs away, name_id_.at throws.
Kills(request) ==
  \/ request.type = "Bus" /\ ~InfoIsDefined(db, request.name)
  \/ request.type = "Route" /\ ~({request.from, request.to} \subseteq DOMAIN db.stop_by_name)

Response(request) ==
  CASE request.type = "Stop"  -> GetStopResponse(request.name)
    [] request.type = "Bus"   -> GetBusResponse(request.name)
    [] request.type = "Map"   -> FieldOf(message, "map", "description", "")
    [] request.type = "Route" -> GetRouteResponse(request.from, request.to)

\* (A slip: the loop does not get past a request of another type.)
Serve_Waits ==
  /\ reader = "serving"
  /\ at < Len(requests)
  /\ LET request == requests[at + 1] IN
     /\ request.type \in {"Stop", "Bus", "Map", "Route"}
     /\ IF Kills(request)
        THEN reader' = "terminated" /\ UNCHANGED <<at, responses>>
        ELSE /\ at' = at + 1
             /\ responses' = Append(responses, [request_id |-> request.id,
                                                answer |-> Response(request)])
             /\ UNCHANGED reader
  /\ UNCHANGED <<made, reads, parse, db, requests, output>>

\* A request of another type is passed over without an answer.
Serve ==
  /\ reader = "serving"
  /\ at < Len(requests)
  /\ LET request == requests[at + 1] IN
     IF Kills(request)
     THEN reader' = "terminated" /\ UNCHANGED <<at, responses>>
     ELSE /\ at' = at + 1
          /\ responses' = IF request.type \in {"Stop", "Bus", "Map", "Route"}
                          THEN Append(responses, [request_id |-> request.id,
                                                  answer |-> Response(request)])
                          ELSE responses
          /\ UNCHANGED reader
  /\ UNCHANGED <<made, reads, parse, db, requests, output>>

\* (A slip: printing does not wait for the last answer.)
PrintResponses_Early ==
  /\ reader = "serving"
  /\ output' = responses
  /\ reader' = "printed"
  /\ UNCHANGED <<made, reads, parse, db, at, requests, responses>>

PrintResponses ==
  /\ reader = "serving"
  /\ at = Len(requests)
  /\ output' = responses
  /\ reader' = "printed"
  /\ UNCHANGED <<made, reads, parse, db, at, requests, responses>>

-----------------------------------------------------------------------------
Make == OpenBase \/ FillBase \/ WriteItem \/ CloseBase

Process ==
  \/ ReadItem
  \/ ReadOn
  \/ EndOfFile
  \/ DeserializeStops
  \/ DeserializeFromToDistances
  \/ DeserializeBuses
  \/ DeserializeParameters
  \/ GetInfoRequests
  \/ Serve
  \/ PrintResponses

Next == MakeBase \/ Make \/ Die \/ OpenFile \/ Process

Spec == Init /\ [][Next]_vars

\* Each process runs on its own; nothing obliges anybody to start one.
FairSpec == Spec /\ WF_vars(Make) /\ WF_vars(Process)

-----------------------------------------------------------------------------
(* Properties                                                               *)

\* Every variable keeps its type.
TypeOK ==
  /\ maker \in {"idle", "filled", "opened", "writing"}
  /\ reader \in {"idle", "reading", "stops", "distances", "buses", "parameters",
                 "requests", "serving", "printed", "terminated"}
  /\ part \in BOOLEAN /\ seam \in BOOLEAN /\ mixed \in BOOLEAN
  /\ source \in Bases \cup {NoBase}
  /\ builds \in 0 .. MaxBuilds /\ reads \in 0 .. MaxReads
  /\ file.whole \in 0 .. Len(file.items)
  /\ file.cut => file.whole < Len(file.items)
  /\ at \in Nat
  /\ Len(responses) <= at

\* From a base that was written to its end the catalogue comes back exactly as
\* it was, all six containers: stops and buses of one name, distances in
\* whatever order the hash table gave them, directions kept apart. Only a
\* distance below zero may come back as another: as -1 or as 0.
RestoredIsSaved ==
  source # NoBase /\ reader \in {"parameters", "requests", "serving", "printed"} =>
    /\ \A c \in DOMAIN EmptyCatalogue \ {"stops_to_dist"} : db[c] = source.db[c]
    /\ DOMAIN db.stops_to_dist = DOMAIN source.db.stops_to_dist
    /\ \A k \in DOMAIN db.stops_to_dist :
         \/ db.stops_to_dist[k] = source.db.stops_to_dist[k]
         \/ source.db.stops_to_dist[k] < 0 /\ db.stops_to_dist[k] \in {-1, 0}

\* Restoring such a base goes through no null pointer and finds room for every
\* vertex; what kills the reader is a bus without stops, a ride that takes less
\* than no time with the settings the base was made with, or a request.
WholeBaseIsServed ==
  source # NoBase /\ reader = "terminated" =>
    \/ HasStoplessLine(db)
    \/ HasNegativeRide(db, source.settings.bus_wait_time, source.settings.bus_velocity)
    \/ \E k \in DOMAIN requests : ~IsReadable(requests[k])
    \/ at < Len(requests) /\ Kills(requests[at + 1])

\* A base that was being written, or whose writer died, is never served with
\* stops missing, even when the file is emptied in the middle of the reading:
\* the vertex count, written last, is missing with them, and the graph has no
\* room for the stops that are there. Only a base without any stop gets through.
\* A reader that goes on into a base written anew under it has no such luck:
\* it may find the vertex count of the one after stops of the other.
PartialBaseIsNotServed ==
  reader \in {"serving", "printed"} /\ source = NoBase /\ ~mixed =>
    db.stops = <<>>

\* All the answers are printed or none, one for each request of a type the
\* program knows and in the order of the requests.
KnownRequests ==
  {k \in DOMAIN requests : requests[k].type \in {"Stop", "Bus", "Map", "Route"}}

AnswersInOrder ==
  IF reader = "printed"
  THEN /\ Len(output) = Cardinality(KnownRequests)
       /\ \A k \in KnownRequests :
            output[Cardinality(KnownRequests \cap (1 .. k))].request_id = requests[k].id
  ELSE output = <<>>

\* Whatever is in the file, process_requests ends, and so does make_base.
ProcessesEnd ==
  /\ (reader \in {"reading", "stops"}) ~> (reader \in {"printed", "terminated"})
  /\ (maker = "opened") ~> (maker = "idle")

-----------------------------------------------------------------------------
(* What README.md says of the two modes                                     *)

\* "At the request of process_requests, the database is deserialized from the
\* file and used to respond to stat_requests requests" (README.md:12): what is
\* printed comes from a base that make_base has written to its end.
AnswersComeFromTheBase == reader = "printed" => source # NoBase

\* The same sentence: with such a base, whose buses all have stops and no rides
\* that take less than no time, a process that has come to its requests, which
\* it can all read, goes on to respond to them.
RequestsAreRespondedTo ==
  reader = "terminated" =>
    \/ source = NoBase
    \/ \E b \in DOMAIN source.db.buses : source.db.buses[b].stops = <<>>
    \/ HasNegativeRide(db, source.settings.bus_wait_time, source.settings.bus_velocity)
    \/ \E k \in DOMAIN requests : ~IsReadable(requests[k])
=============================================================================
