-------------------------------- MODULE Svg --------------------------------
(***************************************************************************)
(* The svg library (inc/svg.h, src/svg.cpp) as values: an object is its     *)
(* class, the members of its own and the properties of its path that have   *)
(* been set; a document is the sequence of its objects. Rendering gives one *)
(* element for each, with the attributes that are written; the text of the  *)
(* attributes and the layout are left out.                                  *)
(***************************************************************************)
Origin == <<0, 0, 1>>

NoneColor == <<"none">>

Circle == [class |-> "circle", members |-> [center |-> Origin, radius |-> 1], props |-> <<>>]

Polyline == [class |-> "polyline", members |-> [points |-> <<>>], props |-> <<>>]

Text ==
  [class   |-> "text",
   members |-> [point |-> Origin, offset |-> <<0, 0>>, font_size |-> 1,
                font_weight |-> "", font_family |-> "", content |-> <<>>],
   props   |-> <<>>]

Over(values, old) ==
  [x \in DOMAIN values \cup DOMAIN old |-> IF x \in DOMAIN values THEN values[x] ELSE old[x]]

\* The setters of the classes and those they inherit from PathProps.
Set(object, values) == [object EXCEPT !.members = Over(values, @)]

SetProps(object, values) == [object EXCEPT !.props = Over(values, @)]

\* ColorPrinter: no colour is written "none".
ColorPrinter(color) == IF color[1] = "string" THEN <<color[2]>> ELSE color

\* Only what has been set is written.
RenderAttrs(props) ==
  [a \in DOMAIN props |-> IF a \in {"fill", "stroke"} THEN ColorPrinter(props[a]) ELSE props[a]]

\* A font that has no name or weight is not mentioned.
RenderObject(object) ==
  [tag |-> object.class,
   attributes |->
     Over(RenderAttrs(object.props),
          [m \in {m \in DOMAIN object.members :
                    m \in {"font_weight", "font_family"} => object.members[m] # ""} |->
             object.members[m]])]

RenderDocument(objects) == [k \in DOMAIN objects |-> RenderObject(objects[k])]
=============================================================================
