---------------------------- MODULE MapRenderer ----------------------------
(***************************************************************************)
(* renderer::MapRenderer (src/map_renderer.cpp, inc/map_renderer.h) with    *)
(* the settings JsonReader reads for it (src/json_reader.cpp): make_base    *)
(* draws the catalogue once, in layers, and stores the picture.             *)
(*                                                                          *)
(* A name is a number, so that < is the order of the strings. Coordinates   *)
(* are records of integers. A point is <<x, y, unit>>, which stands for     *)
(* x / unit and y / unit: the zoom is a quotient. A JSON node is a pair of  *)
(* its kind and its value.                                                  *)
(***************************************************************************)
EXTENDS Catalogue, SequencesExt, Svg

CONSTANTS
  Bases,            \* the catalogues that may be drawn
  RenderSettings,   \* what "render_settings" may be, as dicts of nodes
  EPSILON           \* extents below it count as none

ASSUME EpsilonAssumption == EPSILON \in Nat \ {0}

\* A catalogue with numbers for names and coordinates, as FillingCatalogue
\* leaves it.
ASSUME BasesAssumption ==
  \A d \in Bases :
    /\ IsFilled(d)
    /\ NamesOf(d.stops) \cup NamesOf(d.buses) \subseteq Int
    /\ \A p \in DOMAIN d.stops : d.stops[p].coordinates \in [lat : Int, lng : Int]

IsArray(value) == value \in Seq(Range(value))

\* A node of a JSON document, as far as the settings are read into it: a colour
\* may be an array, and a palette is an array of colours.
IsNode(node) ==
  /\ node[1] \in {"int", "double"} => node[2] \in Int
  /\ node[1] = "array" =>
       /\ IsArray(node[2])
       /\ \A k \in DOMAIN node[2] : node[2][k][1] = "array" => IsArray(node[2][k][2])

ASSUME SettingsAssumption ==
  \A s \in RenderSettings : \A m \in DOMAIN s : IsNode(s[m])

VARIABLES
  db, render_settings,
  pc,               \* the function that runs next, "done", "threw" or "undefined"
  settings,         \* settings_
  buses, stops,     \* the local vectors of RenderMap
  routes,           \* route_to_projectored_points, in the order of its keys
  document,         \* the objects added so far
  map               \* what is written of the document

input == <<db, render_settings>>
vars  == <<input, pc, settings, buses, stops, routes, document, map>>

-----------------------------------------------------------------------------
(* Reading the settings. A read gives a value, throws, or is undefined      *)
(* because it is made past the end of an array.                             *)

Ok(value) == [outcome |-> "ok", value |-> value]
Throws    == [outcome |-> "threw", value |-> <<>>]
Undefined == [outcome |-> "undefined", value |-> <<>>]

\* Reads made in turn: the values, or what stops the first that fails.
InTurn(reads) ==
  LET failed == {k \in DOMAIN reads : reads[k].outcome # "ok"} IN
  IF failed = {} THEN Ok([k \in DOMAIN reads |-> reads[k].value]) ELSE reads[Min(failed)]

AsInt(node) == IF node[1] = "int" THEN Ok(node[2]) ELSE Throws

AsDouble(node) == IF node[1] \in {"int", "double"} THEN Ok(node[2]) ELSE Throws

ParseOffset(node) ==
  IF node[1] # "array" THEN Throws
  ELSE IF Len(node[2]) < 2 THEN Undefined
  ELSE InTurn([k \in 1 .. 2 |-> AsDouble(node[2][k])])

\* A component is cut to uint8_t. An array of more than four elements is no
\* colour, and nothing is said about it.
ParseColor(node) ==
  LET array   == node[2]
      rgb     == InTurn([k \in 1 .. 3 |->
                           IF k > Len(array) THEN Undefined ELSE AsInt(array[k])])
      bytes   == [k \in 1 .. 3 |-> rgb.value[k] % 256]
      opacity == AsDouble(array[4])
  IN CASE node[1] = "string" -> Ok(node)
       [] node[1] \notin {"string", "array"} -> Throws
       [] node[1] = "array" ->
            IF rgb.outcome # "ok" THEN rgb
            ELSE IF Len(array) = 3 THEN Ok(<<"rgb">> \o bytes)
            ELSE IF Len(array) > 4 THEN Ok(NoneColor)
            ELSE IF opacity.outcome # "ok" THEN opacity
            ELSE Ok(<<"rgba">> \o bytes \o <<opacity.value>>)

ParsePalette(node) ==
  IF node[1] = "array" THEN InTurn([k \in DOMAIN node[2] |-> ParseColor(node[2][k])])
  ELSE Throws

\* The settings in the order they are read.
Members ==
  <<"width", "height", "padding", "line_width", "stop_radius",
    "bus_label_font_size", "bus_label_offset", "stop_label_font_size", "stop_label_offset",
    "underlayer_color", "underlayer_width", "color_palette">>

ReadMember(dict, m) ==
  IF m \notin DOMAIN dict THEN Throws
  ELSE LET node == dict[m] IN
       CASE m \in {"bus_label_font_size", "stop_label_font_size"} -> AsInt(node)
         [] m \in {"bus_label_offset", "stop_label_offset"} -> ParseOffset(node)
         [] m = "underlayer_color" -> ParseColor(node)
         [] m = "color_palette" -> ParsePalette(node)
         [] OTHER -> AsDouble(node)

Init ==
  /\ db \in Bases
  /\ render_settings \in RenderSettings
  /\ pc = "GetRendererSettings"
  /\ settings = <<>>
  /\ buses = <<>>
  /\ stops = <<>>
  /\ routes = <<>>
  /\ document = <<>>
  /\ map = <<>>

GetRendererSettings ==
  LET read == InTurn([k \in DOMAIN Members |-> ReadMember(render_settings, Members[k])]) IN
  /\ pc = "GetRendererSettings"
  /\ IF read.outcome = "ok"
     THEN /\ settings' = [m \in Range(Members) |-> read.value[CHOOSE k \in DOMAIN Members : Members[k] = m]]
          /\ pc' = "GetNonEmptyBuses"
     ELSE pc' = read.outcome /\ UNCHANGED settings
  /\ UNCHANGED <<input, buses, stops, routes, document, map>>

-----------------------------------------------------------------------------
(* What is drawn                                                            *)

\* std::sort by name; buses of one name may come in any order.
Sorted(S) ==
  {s \in SetToSeqs(S) : \A i, j \in DOMAIN s : i < j => db.buses[s[i]].name <= db.buses[s[j]].name}

\* Numbers from the least to the greatest.
Ascending(S) == CHOOSE s \in SetToSeqs(S) : \A i, j \in DOMAIN s : i < j => s[i] < s[j]

\* (A slip: buses without stops stay.)
GetNonEmptyBuses_All ==
  /\ pc = "GetNonEmptyBuses"
  /\ \E order \in Sorted(DOMAIN db.buses) : buses' = [k \in DOMAIN order |-> db.buses[order[k]]]
  /\ pc' = "GetStopsOnRoutes"
  /\ UNCHANGED <<input, settings, stops, routes, document, map>>

GetNonEmptyBuses ==
  /\ pc = "GetNonEmptyBuses"
  /\ \E order \in Sorted({b \in DOMAIN db.buses : db.buses[b].stops # <<>>}) :
       buses' = [k \in DOMAIN order |-> db.buses[order[k]]]
  /\ pc' = "GetStopsOnRoutes"
  /\ UNCHANGED <<input, settings, stops, routes, document, map>>

StopNamed(name) == db.stops[GetStop(db, name)]

GetStopsOnRoutes ==
  /\ pc = "GetStopsOnRoutes"
  /\ stops' = LET names == Ascending(UNION {Range(buses[b].stops) : b \in DOMAIN buses})
              IN [k \in DOMAIN names |-> StopNamed(names[k])]
  /\ pc' = "GetRouteToProjectoredPoints"
  /\ UNCHANGED <<input, settings, buses, routes, document, map>>

-----------------------------------------------------------------------------
(* SphereProjector                                                          *)

Lngs == {stops[k].coordinates.lng : k \in DOMAIN stops}
Lats == {stops[k].coordinates.lat : k \in DOMAIN stops}

Extent(S) == Max(S) - Min(S)

\* The zooms that fit the width and the height, as quotients; a direction in
\* which all the stops are at one place has none.
Zooms ==
  (IF Extent(Lngs) < EPSILON THEN {} ELSE {<<settings.width - 2 * settings.padding, Extent(Lngs)>>})
  \cup
  (IF Extent(Lats) < EPSILON THEN {} ELSE {<<settings.height - 2 * settings.padding, Extent(Lats)>>})

\* (A slip: the larger of the two.)
Zoom_Larger ==
  IF Zooms = {} THEN <<0, 1>>
  ELSE CHOOSE z \in Zooms : \A y \in Zooms : z[1] * y[2] >= y[1] * z[2]

Zoom ==
  IF Zooms = {} THEN <<0, 1>>
  ELSE CHOOSE z \in Zooms : \A y \in Zooms : z[1] * y[2] <= y[1] * z[2]

\* Where the projector puts a stop of that name.
Project(name) ==
  LET c == StopNamed(name).coordinates IN
  <<(c.lng - Min(Lngs)) * Zoom[1] + settings.padding * Zoom[2],
    (Max(Lats) - c.lat) * Zoom[1] + settings.padding * Zoom[2],
    Zoom[2]>>

\* The keys of the map are compared by name: of the buses of one name the first
\* is the key and the last gives the points.
GetRouteToProjectoredPoints ==
  /\ pc = "GetRouteToProjectoredPoints"
  /\ routes' =
       LET Keys  == {k \in DOMAIN buses : \A j \in 1 .. k - 1 : buses[j].name < buses[k].name}
           LastOf(k) == Max({j \in DOMAIN buses : buses[j].name = buses[k].name})
           keys  == Ascending(Keys)
       IN [k \in DOMAIN keys |->
             [bus    |-> buses[keys[k]],
              points |-> LET s == buses[LastOf(keys[k])].stops
                         IN [i \in DOMAIN s |-> Project(s[i])]]]
  /\ pc' = "RenderRoutes"
  /\ UNCHANGED <<input, settings, buses, stops, document, map>>

-----------------------------------------------------------------------------
(* The layers                                                               *)

Color(k) == settings.color_palette[((k - 1) % Len(settings.color_palette)) + 1]

Round == [stroke_linecap |-> "round", stroke_linejoin |-> "round"]

\* An empty palette has no i % colors.size().
RenderRoutes ==
  /\ pc = "RenderRoutes"
  /\ IF routes # <<>> /\ settings.color_palette = <<>>
     THEN pc' = "undefined" /\ UNCHANGED document
     ELSE /\ document' = document \o [k \in DOMAIN routes |->
               Set(SetProps(Polyline, Over([fill |-> NoneColor, stroke |-> Color(k),
                                       stroke_width |-> settings.line_width], Round)),
                   [points |-> routes[k].points])]
          /\ pc' = "RenderRouteNames"
  /\ UNCHANGED <<input, settings, buses, stops, routes, map>>

\* The text once as a shade and once over it in its colour.
Shaded(text, color) ==
  <<SetProps(text, Over([fill |-> settings.underlayer_color, stroke |-> settings.underlayer_color,
                         stroke_width |-> settings.underlayer_width], Round)),
    SetProps(text, [fill |-> color])>>

RenderRouteName(point, color, name) ==
  Shaded(Set(Text, [content |-> <<name>>, point |-> point, offset |-> settings.bus_label_offset,
                    font_size |-> settings.bus_label_font_size,
                    font_family |-> "Verdana", font_weight |-> "bold"]), color)

Middle(bus) == Len(bus.stops) \div 2 + 1

HasSecondName(bus) == ~bus.is_roundtrip /\ bus.stops[1] # bus.stops[Middle(bus)]

\* (A slip: the second name is put at the last stop of the route.)
RenderRouteNames_AtBack ==
  /\ pc = "RenderRouteNames"
  /\ document' = document \o FlattenSeq([k \in DOMAIN routes |->
       LET bus == routes[k].bus IN
       RenderRouteName(routes[k].points[1], Color(k), bus.name)
       \o IF HasSecondName(bus) THEN RenderRouteName(Last(routes[k].points), Color(k), bus.name)
          ELSE <<>>])
  /\ pc' = "RenderStopCircles"
  /\ UNCHANGED <<input, settings, buses, stops, routes, map>>

\* A route without points has no front, and the points may be those of another
\* bus of that name, which has fewer stops.
RenderRouteNames ==
  /\ pc = "RenderRouteNames"
  /\ IF \E k \in DOMAIN routes : LET bus == routes[k].bus IN
          \/ routes[k].points = <<>>
          \/ HasSecondName(bus) /\ Middle(bus) > Len(routes[k].points)
     THEN pc' = "undefined" /\ UNCHANGED document
     ELSE /\ document' = document \o FlattenSeq([k \in DOMAIN routes |->
               LET bus == routes[k].bus IN
               RenderRouteName(routes[k].points[1], Color(k), bus.name)
               \o IF HasSecondName(bus)
                  THEN RenderRouteName(routes[k].points[Middle(bus)], Color(k), bus.name)
                  ELSE <<>>])
          /\ pc' = "RenderStopCircles"
  /\ UNCHANGED <<input, settings, buses, stops, routes, map>>

RenderStopCircles ==
  /\ pc = "RenderStopCircles"
  /\ document' = document \o [k \in DOMAIN stops |->
       Set(SetProps(Circle, [fill |-> <<"string", "white">>]),
           [center |-> Project(stops[k].name), radius |-> settings.stop_radius])]
  /\ pc' = "RenderStopNames"
  /\ UNCHANGED <<input, settings, buses, stops, routes, map>>

RenderStopNames ==
  /\ pc = "RenderStopNames"
  /\ document' = document \o FlattenSeq([k \in DOMAIN stops |->
       Shaded(Set(Text, [content |-> <<stops[k].name>>, point |-> Project(stops[k].name),
                         offset |-> settings.stop_label_offset,
                         font_size |-> settings.stop_label_font_size,
                         font_family |-> "Verdana"]), <<"string", "black">>)])
  /\ pc' = "SerializeMapRender"
  /\ UNCHANGED <<input, settings, buses, stops, routes, map>>

RenderMap ==
  \/ GetNonEmptyBuses
  \/ GetStopsOnRoutes
  \/ GetRouteToProjectoredPoints
  \/ RenderRoutes
  \/ RenderRouteNames
  \/ RenderStopCircles
  \/ RenderStopNames

SerializeMapRender ==
  /\ pc = "SerializeMapRender"
  /\ map' = RenderDocument(document)
  /\ pc' = "done"
  /\ UNCHANGED <<input, settings, buses, stops, routes, document>>

Next == GetRendererSettings \/ RenderMap \/ SerializeMapRender

Spec == Init /\ [][Next]_vars

-----------------------------------------------------------------------------
(* The picture, from the catalogue and the settings alone                   *)

Drawn == {b \in DOMAIN db.buses : db.buses[b].stops # <<>>}

NamesAreUnique == \A b, c \in Drawn : db.buses[b].name = db.buses[c].name => b = c

Shown == UNION {Range(db.buses[b].stops) : b \in Drawn}

PlaceAmong(name, names) == Cardinality({n \in names : n <= name})

\* Where a bus begins and where it turns; a round trip turns nowhere.
Terminals(bus) ==
  {bus.stops[1]} \cup IF bus.is_roundtrip THEN {} ELSE {bus.stops[(Len(bus.stops) + 1) \div 2]}

\* The elements at some positions of the map, in their order.
ElementsAt(positions) ==
  LET at == Ascending(positions) IN [k \in DOMAIN at |-> map[at[k]]]

Elements(tag) == ElementsAt({i \in DOMAIN map : map[i].tag = tag})

\* What can be read: a text that has no outline.
IsLabel(e) == e.tag = "text" /\ "stroke" \notin DOMAIN e.attributes

IsBusLabel(e) == IsLabel(e) /\ "font_weight" \in DOMAIN e.attributes

Layer(e) ==
  IF e.tag = "polyline" THEN 1
  ELSE IF e.tag = "circle" THEN 3
  ELSE IF "font_weight" \in DOMAIN e.attributes THEN 2 ELSE 4

\* The colour a node of the palette gives.
Meant(node) ==
  IF node[1] = "string" THEN <<node[2]>>
  ELSE <<IF Len(node[2]) = 3 THEN "rgb" ELSE "rgba">> \o [k \in DOMAIN node[2] |-> node[2][k][2]]

IsColor(node) ==
  \/ node[1] = "string"
  \/ /\ node[1] = "array"
     /\ Len(node[2]) \in {3, 4}
     /\ \A k \in DOMAIN node[2] :
          \/ node[2][k][1] = "int" /\ node[2][k][2] \in 0 .. 255
          \/ node[2][k][1] = "double" /\ k = 4

Palette == render_settings.color_palette[2]

-----------------------------------------------------------------------------
(* Properties                                                               *)

\* Whatever the stops, the picture stays inside the padding, north is up and
\* east is right, and it is as large as it can be: it reaches the left and the
\* upper edge of the frame, and the right one or the lower. It takes stops
\* that are not so near to each other in one direction that this counts as
\* none, and a frame that the padding leaves room for.
PictureFillsTheFrame ==
  LET Inside(p) ==
        /\ settings.padding * p[3] <= p[1] /\ p[1] <= (settings.width - settings.padding) * p[3]
        /\ settings.padding * p[3] <= p[2] /\ p[2] <= (settings.height - settings.padding) * p[3]
      places == {Project(name) : name \in Shown}
      sound  == /\ 2 * settings.padding <= Min({settings.width, settings.height})
                /\ {Extent(Lngs), Extent(Lats)} \cap (1 .. EPSILON - 1) = {}
  IN pc = "done" /\ Shown # {} /\ sound =>
       /\ \A k \in DOMAIN map :
            LET a == map[k].attributes IN
            CASE map[k].tag = "polyline" -> Range(a.points) \subseteq places
              [] map[k].tag = "circle"   -> a.center \in places
              [] map[k].tag = "text"     -> a.point \in places
       /\ \A p \in places : Inside(p)
       /\ \A s, t \in Shown :
            LET c == StopNamed(s).coordinates  d == StopNamed(t).coordinates IN
            /\ c.lng <= d.lng => Project(s)[1] <= Project(t)[1]
            /\ c.lat <= d.lat => Project(s)[2] >= Project(t)[2]
       /\ \E p \in places : p[1] = settings.padding * p[3]
       /\ \E p \in places : p[2] = settings.padding * p[3]
       /\ Cardinality(places) > 1 => \E p \in places :
            \/ p[1] = (settings.width - settings.padding) * p[3]
            \/ p[2] = (settings.height - settings.padding) * p[3]

\* Where no two buses have one name, the picture shows the catalogue: in the
\* order of the names one line for every bus that has stops, through them all
\* and in the next colour of the palette as it was given, its name in the same
\* colour at each of its terminals and nowhere else; and every stop of such a
\* bus once, with its name. Names lie over their shades, and layers are not
\* mixed.
PictureShowsTheCatalogue ==
  LET lines   == Elements("polyline")
      circles == Elements("circle")
      names   == ElementsAt({i \in DOMAIN map : IsLabel(map[i]) /\ ~IsBusLabel(map[i])})
  IN pc = "done" /\ NamesAreUnique /\ (\A k \in DOMAIN Palette : IsColor(Palette[k])) =>
       /\ Len(lines) = Cardinality(Drawn)
       /\ \A b \in Drawn :
            LET bus    == db.buses[b]
                k      == PlaceAmong(bus.name, {db.buses[c].name : c \in Drawn})
                line   == lines[k].attributes
                labels == {i \in DOMAIN map :
                             IsBusLabel(map[i]) /\ map[i].attributes.content = <<bus.name>>}
            IN /\ line.points = [i \in DOMAIN bus.stops |-> Project(bus.stops[i])]
               /\ line.stroke = Meant(Palette[((k - 1) % Len(Palette)) + 1])
               /\ line.fill = <<"none">>
               /\ Cardinality(labels) = Cardinality(Terminals(bus))
               /\ {map[i].attributes.point : i \in labels} = {Project(s) : s \in Terminals(bus)}
               /\ \A i \in labels : map[i].attributes.fill = line.stroke
       /\ Len(circles) = Cardinality(Shown) /\ Len(names) = Cardinality(Shown)
       /\ \A s \in Shown :
            LET k == PlaceAmong(s, Shown) IN
            /\ circles[k].attributes.center = Project(s)
            /\ names[k].attributes.point = Project(s)
            /\ names[k].attributes.content = <<s>>
       /\ \A i \in DOMAIN map : IsLabel(map[i]) =>
            LET a == map[i].attributes  shade == map[i - 1].attributes IN
            /\ "stroke" \in DOMAIN shade
            /\ shade.point = a.point /\ shade.content = a.content
       /\ \A i, j \in DOMAIN map : i < j => Layer(map[i]) <= Layer(map[j])

\* With all the settings there and of their kinds make_base draws a picture of
\* any catalogue, buses without stops or of one stop included, unless there
\* is no colour to draw a line with or a bus shares its name with a longer one.
RenderingIsDefined ==
  LET complete == /\ \A m \in Range(Members) : ReadMember(render_settings, m).outcome = "ok"
                  /\ IsColor(render_settings.underlayer_color)
                  /\ \A k \in DOMAIN Palette : IsColor(Palette[k])
  IN pc \in {"threw", "undefined"} /\ complete =>
       \/ Palette = <<>> /\ Drawn # {}
       \/ \E b, c \in Drawn :
            /\ db.buses[b].name = db.buses[c].name
            /\ Len(db.buses[b].stops) < Len(db.buses[c].stops)
=============================================================================
