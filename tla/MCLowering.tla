----------------------------- MODULE MCLowering -----------------------------
(***************************************************************************)
(* Small documents for Lowering.tla.  A source document is the sequence of *)
(* its elements in document order, each with the size of its subtree and,  *)
(* for a leaf, what it paints; Expand is what usvg does with it: defs      *)
(* paint nothing, a use paints a copy of its target, a connector is        *)
(* followed by the artwork of its marker, and a group nobody can name and  *)
(* that needs no isolation disappears.                                     *)
(***************************************************************************)
EXTENDS Lowering

\* The paint of leaves.
Picture(name, count, bytes) ==
  [name |-> name, pixels |-> count, bytes |-> bytes, renders |-> TRUE]
PictureA == Picture("a", 2, 3)
PictureB == Picture("b", 3, 4)
PictureC == Picture("c", 4, 1)
Unrendered == [Picture("d", 1, 1) EXCEPT !.renders = FALSE]

Subpath(count, closed, figure) ==
  [points |-> count, pushed |-> count, closed |-> closed, figure |-> figure,
   curved |-> FALSE, flat |-> count < 3, simple |-> TRUE]
\* A closed curve is given its first point again at its end.
Bent(s)    == [s EXCEPT !.curved = TRUE, !.pushed = IF s.closed THEN @ + 1 ELSE @]
Crossed(s) == [s EXCEPT !.simple = FALSE]

Path(fill, stroke, subpaths) ==
  [kind |-> "path", size |-> 1, visible |-> TRUE, fill |-> fill, stroke |-> stroke,
   combinable |-> TRUE, curved |-> \E i \in DOMAIN subpaths : subpaths[i].curved,
   shape |-> "outline", corner |-> "none", subpaths |-> subpaths,
   disjoint |-> TRUE, segments |-> Len(subpaths) + 1, shown |-> TRUE, picture |-> PictureA]

Text(layout, font, fill, stroke) ==
  [kind |-> "text", size |-> 1, layout |-> layout, font |-> font, fill |-> fill,
   stroke |-> stroke, decorated |-> FALSE, shown |-> TRUE, picture |-> PictureC]

Image(animated, picture) ==
  [kind |-> "image", size |-> 1, animated |-> animated, shown |-> TRUE, picture |-> picture]

Line     == Path("none", "native", <<Subpath(2, FALSE, "other")>>)
Curve    == Path("none", "native", <<Bent(Subpath(3, FALSE, "other"))>>)
Square   == Path("solid", "native", <<Subpath(4, TRUE, "rectangle")>>)
Triangle == Path("solid", "none", <<Subpath(3, TRUE, "other")>>)
Circle   == [Path("solid", "native", <<Bent(Subpath(4, TRUE, "other"))>>)
               EXCEPT !.shape = "ellipse", !.combinable = FALSE]
Round(corner) == [Path("solid", "native", <<Bent(Subpath(6, TRUE, "other"))>>)
                    EXCEPT !.corner = corner]
Compound == Path("solid", "none", <<Subpath(3, TRUE, "other"), Subpath(4, TRUE, "rectangle")>>)
Twins    == Path("solid", "none", <<Subpath(3, TRUE, "other"), Subpath(3, FALSE, "other")>>)

-----------------------------------------------------------------------------
(* Source elements                                                         *)

Plain(tag, id, size) ==
  [tag |-> tag, id |-> id, size |-> size, marker |-> "none", shadow |-> "none",
   effect |-> "none", ref |-> 0, paint |-> <<>>, native |-> FALSE]
Leaf(paint)          == [Plain(paint.kind, "", 1) EXCEPT !.paint = paint]
Marked(leaf, marker, native) == [leaf EXCEPT !.marker = marker, !.native = native]
Use(k)               == [Plain("use", "", 1) EXCEPT !.ref = k]
Isolated(effect, shadow, size) ==
  [Plain("g", "", size) EXCEPT !.effect = effect, !.shadow = shadow]

\* Marker artwork: an anonymous group with one filled path, of the connector's
\* colour or not.
Artwork(native) ==
  <<[kind |-> "group", src |-> 0, size |-> 2, effect |-> "none", native |-> native,
     shown |-> TRUE, picture |-> PictureB],
    [src |-> 0] @@ Triangle>>

GroupNode(src, effect, below) ==
  <<[kind |-> "group", src |-> src, size |-> Len(below) + 1, effect |-> effect,
     native |-> FALSE, shown |-> TRUE, picture |-> PictureB]>> \o below

RECURSIVE Expand(_, _, _), ExpandFrom(_, _, _, _)
Expand(source, injectable, k) ==
  LET e == source[k]
      below == IF e.tag = "use" THEN Expand(source, injectable, e.ref)
               ELSE ExpandFrom(source, injectable, k + 1, k + e.size)
  IN CASE e.tag = "defs" -> <<>>
       [] e.tag \in {"g", "use"} ->
            IF e.id # "" \/ injectable \/ e.effect # "none"
            THEN GroupNode(k, e.effect, below) ELSE below
       [] OTHER -> <<[src |-> k] @@ e.paint>>
                     \o (IF e.marker # "none" THEN Artwork(e.native) ELSE <<>>)
ExpandFrom(source, injectable, k, end) ==
  IF k >= end THEN <<>>
  ELSE Expand(source, injectable, k) \o ExpandFrom(source, injectable, k + source[k].size, end)

Document(body, injectable) ==
  LET source == <<Plain("svg", "", Len(body) + 1)>> \o body
  IN [source |-> source, injectable |-> injectable, notes |-> <<>>,
      nodes |-> GroupNode(0, "none", ExpandFrom(source, injectable, 2, Len(source) + 1))]

-----------------------------------------------------------------------------
(* The documents of the runs                                               *)

Leaves ==
  {Leaf(Line), Leaf(Curve), Leaf(Square), Leaf(Circle), Leaf(Compound), Leaf(Twins),
   Leaf(Round("near")), Leaf(Round("exact")), Leaf(Round("far")),
   Leaf([Compound EXCEPT !.disjoint = FALSE]),
   Leaf([Square EXCEPT !.visible = FALSE]),
   Leaf([Square EXCEPT !.fill = "gradient"]),
   Leaf([Line EXCEPT !.stroke = "dashed"]), Leaf([Line EXCEPT !.curved = TRUE]),
   Leaf([Line EXCEPT !.stroke = "gradient", !.picture = Unrendered]),
   Leaf([Line EXCEPT !.stroke = "skewed", !.shown = FALSE]),
   Leaf([Triangle EXCEPT !.subpaths = <<Crossed(@[1])>>]),
   Leaf(Path("solid", "native", <<Subpath(3, FALSE, "other")>>)),
   Leaf(Text("simple", "exact", "solid", "none")),
   Leaf(Text("simple", "style", "solid", "none")),
   Leaf(Text("complex", "exact", "gradient", "none")),
   Leaf(Text("empty", "style", "solid", "none")),
   Leaf(Image(FALSE, PictureA)), Leaf(Image(TRUE, PictureB)),
   Marked(Leaf(Line), "known", TRUE), Marked(Leaf(Line), "known", FALSE),
   Marked(Leaf(Curve), "unknown", FALSE)}

\* Where two leaves stand: side by side, in nested groups, instantiated twice
\* through a use, with another element between the instances, through a use
\* of a use, and under an isolating effect.
Scenes(a, b) ==
  {<<a, b>>,
   <<Plain("g", "", 4), a, Plain("g", "id", 2), b, a>>,
   <<Plain("defs", "", 4), Plain("g", "", 3), a, b, Use(3), b, Use(3)>>,
   <<Plain("defs", "", 5), Plain("g", "", 2), a, Plain("g", "", 2), Use(3), Use(5), b, Use(5)>>}
    \cup {<<Isolated(kind[1], kind[2], 2), a, b>> :
            kind \in {<<"shadow", "soft">>, <<"shadow", "medium">>,
                                    <<"shadow", "none">>, <<"mask", "none">>, <<"clip", "none">>}}

\* With and without something to report before the walk.
SmallDocuments ==
  UNION {{Document(body, TRUE) : body \in Scenes(a, b)} : a, b \in Leaves}
    \cup {[Document(<<a>>, TRUE) EXCEPT !.notes = notes] :
            a \in Leaves, notes \in {<<note>> : note \in EarlyNotes}}

\* A stylesheet with an attribute selector keeps ids from being injected: a
\* group with an id of its own, instantiated twice with a shape in between.
UnanchoredDocuments ==
  {Document(<<Plain("defs", "", 4), Plain("g", "icon", 3), Leaf(Square), Leaf(Line),
              Use(3), Leaf(Square), Use(3)>>, injectable) : injectable \in BOOLEAN}

TextDocuments ==
  {Document(<<Leaf(Text("simple", "exact", fill, stroke))>>, TRUE) :
     fill \in {"solid"}, stroke \in {"none", "native"}}

AllProfiles == {"balanced", "editable", "fidelity", "strict"}

SmallLimits == [elements |-> 5, points |-> 14, segments |-> 11, pathSegments |-> 4,
                decomposition |-> 4, islandPixels |-> 3, pixels |-> 7, embedded |-> 6]
RoomyLimits == [elements |-> 9, points |-> 40, segments |-> 40, pathSegments |-> 9,
                decomposition |-> 9, islandPixels |-> 9, pixels |-> 40, embedded |-> 40]
=============================================================================
