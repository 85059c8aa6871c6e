--------------------------- MODULE MCMapRenderer ---------------------------
(* Catalogues and settings for checking MapRenderer. The four stops lie so  *)
(* that with some of them the picture is wide, with others high, with some  *)
(* it is a line or a point, and with two the difference counts as none.     *)
(* Buses come in no order of their names and may share one; the settings    *)
(* have every form of colour, a palette shorter than the buses are many or  *)
(* empty, and one that is missing or of another kind.                       *)
EXTENDS MapRenderer, TLC

At(lat, lng) == [lat |-> lat, lng |-> lng]

FourStops ==
  AddStop(AddStop(AddStop(AddStop(EmptyCatalogue, 3, At(0, 0)), 1, At(2, 7)), 4, At(6, 0)), 2, At(0, 1))

Shapes ==
  {[stops |-> <<3, 1, 3>>, is_roundtrip |-> TRUE],
   [stops |-> <<4, 3, 4>>, is_roundtrip |-> FALSE],
   [stops |-> <<2, 4, 1, 4, 2>>, is_roundtrip |-> FALSE],
   [stops |-> <<3, 2, 3, 2, 3>>, is_roundtrip |-> FALSE],
   [stops |-> <<1>>, is_roundtrip |-> FALSE],
   [stops |-> <<>>, is_roundtrip |-> FALSE],
   [stops |-> <<>>, is_roundtrip |-> TRUE]}

WithBus(d, name, shape) == AddBus(d, name, shape.stops, shape.is_roundtrip)

MCBases ==
  {EmptyCatalogue, FourStops}
  \cup {WithBus(FourStops, 2, s) : s \in Shapes}
  \cup {WithBus(WithBus(FourStops, 2, s), n, t) : n \in {1, 2}, s, t \in Shapes}
  \cup {WithBus(WithBus(WithBus(FourStops, 2, s), 3, t), n, u) :
          n \in {1, 2}, s, t, u \in {x \in Shapes : ~x.is_roundtrip}}

Num(n) == <<"int", n>>
Array(s) == <<"array", s>>

Red  == <<"string", "red">>
Gold == Array(<<Num(255), Num(200), Num(0)>>)
Mist == Array(<<Num(10), Num(0), Num(256), <<"double", 5>>>>)
Sea  == Array(<<Num(0), Num(0), Num(255), Num(1)>>)

Usual ==
  [width |-> Num(20), height |-> Num(10), padding |-> Num(1), line_width |-> <<"double", 3>>,
   stop_radius |-> Num(2), bus_label_font_size |-> Num(5),
   bus_label_offset |-> Array(<<Num(7), <<"double", -3>>>>), stop_label_font_size |-> Num(4),
   stop_label_offset |-> Array(<<Num(1), Num(2)>>), underlayer_color |-> Sea,
   underlayer_width |-> Num(3), color_palette |-> Array(<<Red, Gold>>)]

MCRenderSettings ==
  {Usual,
   [Usual EXCEPT !.width = Num(6), !.color_palette = Array(<<Sea>>)],
   [Usual EXCEPT !.padding = Num(5), !.color_palette = Array(<<Gold, Sea, Red>>)],
   [Usual EXCEPT !.padding = Num(8)],
   [Usual EXCEPT !.color_palette = Array(<<>>)]}

\* Settings that are not as they should be.
OddSettings ==
  {[Usual EXCEPT !.color_palette = Array(<<Mist, Array(<<Num(1), Num(2), Num(3), Num(4), Num(5)>>)>>)],
   [Usual EXCEPT !.color_palette = Array(<<Array(<<Num(1), Num(2)>>)>>)],
   [Usual EXCEPT !.color_palette = Red],
   [Usual EXCEPT !.underlayer_color = Array(<<Num(1), <<"double", 2>>, Num(3)>>)],
   [Usual EXCEPT !.underlayer_color = Array(<<Num(1), Num(2), Num(3), Red>>)],
   [Usual EXCEPT !.underlayer_color = Num(1)],
   [Usual EXCEPT !.bus_label_offset = Array(<<Num(1)>>)],
   [Usual EXCEPT !.stop_label_offset = Num(1)],
   [Usual EXCEPT !.stop_label_font_size = <<"double", 1>>],
   [Usual EXCEPT !.width = Red],
   [m \in DOMAIN Usual \ {"padding"} |-> Usual[m]]}

AllSettings == MCRenderSettings \cup OddSettings
=============================================================================
