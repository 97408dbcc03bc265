-------------------------- MODULE SourceCorrelation --------------------------
(***************************************************************************)
(* Correlating the paint tree with the source (prepare_source in           *)
(* crates/core/src/source.rs): every element that can be told apart gets   *)
(* an anchor, the id it has or a synthetic one that is inserted into the   *)
(* text handed to usvg, and under that anchor what the lowering may use of *)
(* it: its order and tag, its markers, its drop shadow and its corners.    *)
(* Lowering.tla starts from the outcome (Anchored and Meta).               *)
(*                                                                         *)
(* A document is its style sheets and its elements in document order.      *)
(* Numbers are abstracted to what the comparisons tell apart: a marker or  *)
(* filter is "plain" when all its attributes are those the code asks for.  *)
(***************************************************************************)
EXTENDS Integers, SequencesExt

CONSTANTS
  Documents,   \* the documents, [sheets, elements]
  Synthetic,   \* the synthetic id of each order, from order 0
  NoId,        \* no id, or no reference
  Nothing      \* no arrowhead, no shadow, no radius

\* Documents are sequences of elements, each of which has a synthetic id of its
\* own (the number of its order is part of it).
ASSUME SyntheticAssumption ==
  /\ Synthetic \in Seq(ToSet(Synthetic))
  /\ \A i, j \in DOMAIN Synthetic : Synthetic[i] = Synthetic[j] => i = j
  /\ \A doc \in Documents : /\ doc.elements \in Seq(ToSet(doc.elements))
                            /\ Len(doc.elements) <= Len(Synthetic)
  /\ NoId \notin ToSet(Synthetic)

\* The path data of a marker's children: a path that begins with anything but a
\* move is no path data.
Segments == [op : {"move", "line", "close", "curve"}, abs : BOOLEAN, to : Int \X Int]
PathData(outline) == outline \in Seq(Segments) /\ (outline # <<>> => outline[1].op = "move")
Drawable(children) == /\ children \in Seq(ToSet(children))
                      /\ \A i \in DOMAIN children : PathData(children[i].outline)
ASSUME OutlinesAssumption ==
  \A doc \in Documents : \A k \in DOMAIN doc.elements :
    doc.elements[k].tag = "marker" => Drawable(doc.elements[k].def.children)

VARIABLES
  document,   \* the parsed source: never changes
  next,       \* the next element of the loop
  reserved,   \* reserved_ids
  inserted,   \* the insertions, as the id given to each element, or NoId
  nodes,      \* the metadata: a function from anchors
  result      \* "none" or "Ok"

vars == <<document, next, reserved, inserted, nodes, result>>

Elements == document.elements
Count(id) == Cardinality({k \in DOMAIN Elements : Elements[k].id = id})
OwnIds == {Elements[k].id : k \in DOMAIN Elements} \ {NoId}

-----------------------------------------------------------------------------
(* Style sheets                                                            *)

\* stylesheet_observes_id_presence: an attribute selector, or the prefix of
\* the synthetic ids.
ObservesPrefix(sheet) == sheet = "synthetic"
Observes(sheet) == sheet \in {"synthetic", "attribute"}
InjectionSafe == ~\E sheet \in document.sheets : Observes(sheet)

-----------------------------------------------------------------------------
(* Markers                                                                 *)

\* linear_path_points: every point moved or drawn to, and whether some
\* subpath was closed; Nothing for a path with a curve.
Resolve(current, segment) ==
  IF segment.abs THEN segment.to
  ELSE <<current[1] + segment.to[1], current[2] + segment.to[2]>>

AppendFresh(points, here) ==
  IF points # <<>> /\ Last(points) = here THEN points ELSE Append(points, here)

ReadSegment(seen, segment) ==
  LET here == Resolve(seen.at, segment)
  IN IF segment.op = "close" THEN [seen EXCEPT !.closed = TRUE]
     ELSE [seen EXCEPT !.at = here, !.points = AppendFresh(@, here)]

LinearPoints(outline) ==
  LET upTo[k \in 0 .. Len(outline)] ==
        IF k = 0 THEN [at |-> <<0, 0>>, points |-> <<>>, closed |-> FALSE]
        ELSE ReadSegment(upTo[k - 1], outline[k])
  IN upTo[Len(outline)]

\* The outline of the one known marker, in twentieths, which is the tolerance.
Triangle == <<<<0, 12>>, <<190, 100>>, <<0, 188>>>>
Near(p, q) == \A axis \in 1 .. 2 : p[axis] - q[axis] \in -1 .. 1

TriangleMarker(outline) ==
  LET seen == LinearPoints(outline)
  IN /\ \A i \in DOMAIN outline : outline[i].op # "curve"
     /\ seen.closed /\ Len(seen.points) = 3
     /\ \A i \in 1 .. 3 : Near(seen.points[i], Triangle[i])

\* classify_marker, for the side it is used on: a marker that only turns with
\* the path (auto) would point into it at the start.
Supports(marker, side) == \/ marker.orient = "auto-start-reverse"
                          \/ marker.orient = "auto" /\ side = "end"
KnownMarker(marker, side) ==
  /\ Supports(marker, side)
  /\ marker.plain /\ Len(marker.children) = 1
  /\ marker.children[1].plain /\ TriangleMarker(marker.children[1].outline)

\* Definitions are looked up by ids that only one element has.
Bearing(id, tag) == {k \in DOMAIN Elements : id # NoId /\ Elements[k].id = id /\ Elements[k].tag = tag}
DefinedOften(id, tag) == Bearing(id, tag)
Defined(id, tag) == IF Count(id) = 1 THEN Bearing(id, tag) ELSE {}

\* The color of the marker on a side of element e, or Nothing.
MarkerColor(e, side) ==
  LET known == {k \in Defined(e[side], "marker") : KnownMarker(Elements[k].def, side)}
  IN IF known = {} THEN Nothing
     ELSE Elements[CHOOSE k \in known : TRUE].def.children[1].fill

-----------------------------------------------------------------------------
(* Shadows and corners                                                     *)

\* classify_shadow: which profiles may leave the shadow out.
ShadowWithin(shadow, opacity, reach) ==
  shadow.opacity <= opacity /\ shadow.deviation <= reach /\ shadow.offset <= reach
ShadowClass(shadow) == IF ~shadow.plain THEN Nothing
                       ELSE IF ShadowWithin(shadow, 15, 4) THEN "soft"
                       ELSE IF ShadowWithin(shadow, 25, 8) THEN "medium" ELSE "strong"

Shadow(e) == LET filters == Defined(e.filter, "filter")
             IN IF filters = {} THEN Nothing
                ELSE ShadowClass(Elements[CHOOSE k \in filters : TRUE].def)

\* rect_radius: the corner radii are the lengths parse_length reads, at most one
\* each (none of a negative number or a percentage), and each defaults to the
\* other.
EitherLength(length, other) == CHOOSE n \in IF length # {} THEN length ELSE other : TRUE
RectRadius(e) == IF e.tag = "rect" /\ e.rx \cup e.ry # {}
                 THEN <<EitherLength(e.rx, e.ry), EitherLength(e.ry, e.rx)>> ELSE Nothing

-----------------------------------------------------------------------------
(* The loop                                                                *)

Metadata(k) ==
  LET e == Elements[k]
  IN [order |-> k - 1, tag |-> e.tag, group |-> e.tag \in {"g", "use"},
      declared |-> e.start # NoId \/ e.end # NoId,
      recognized |-> \A side \in {"start", "end"} :
                       e[side] # NoId => MarkerColor(e, side) # Nothing,
      start |-> MarkerColor(e, "start"), end |-> MarkerColor(e, "end"),
      radius |-> RectRadius(e), shadow |-> Shadow(e)]

\* nodes.insert(anchor, ...)
Noted(anchor) == [id \in DOMAIN nodes \cup {anchor} |->
                    IF id = anchor THEN Metadata(next) ELSE nodes[id]]

Init ==
  /\ document \in Documents
  /\ next = 1
  /\ reserved = OwnIds
  /\ inserted = [k \in DOMAIN Elements |-> NoId]
  /\ nodes = <<>>
  /\ result = "none"

AtElement == result = "none" /\ next <= Len(Elements)

KeepOwnId == /\ AtElement
             /\ Elements[next].id # NoId /\ Count(Elements[next].id) = 1
             /\ nodes' = Noted(Elements[next].id)
             /\ next' = next + 1
             /\ UNCHANGED <<document, reserved, inserted, result>>

InjectableUnreserved == InjectionSafe /\ Elements[next].id = NoId
Injectable == /\ InjectionSafe /\ Elements[next].id = NoId
              /\ Synthetic[next] \notin reserved

InsertId == /\ AtElement /\ Injectable
            /\ reserved' = reserved \cup {Synthetic[next]}
            /\ inserted' = [inserted EXCEPT ![next] = Synthetic[next]]
            /\ nodes' = Noted(Synthetic[next])
            /\ next' = next + 1
            /\ UNCHANGED <<document, result>>

PassOver == /\ AtElement /\ ~Injectable
            /\ Elements[next].id # NoId => Count(Elements[next].id) > 1
            /\ next' = next + 1
            /\ UNCHANGED <<document, reserved, inserted, nodes, result>>

Finish == /\ result = "none" /\ next > Len(Elements)
          /\ result' = "Ok"
          /\ UNCHANGED <<document, next, reserved, inserted, nodes>>

Next == KeepOwnId \/ InsertId \/ PassOver \/ Finish

Spec == Init /\ [][Next]_vars

-----------------------------------------------------------------------------
(* The prepared text, as usvg reads it                                     *)

\* apply_insertions: element k's id in the text that usvg parses.
PreparedId(k) == IF inserted[k] = NoId THEN Elements[k].id ELSE inserted[k]

\* The elements a style sheet selects by their ids.
Selected(sheet, id) == CASE sheet = "attribute" -> {k \in DOMAIN Elements : id[k] # NoId}
                         [] sheet = "synthetic" -> {k \in DOMAIN Elements : id[k] = Synthetic[2]}
                         [] OTHER -> {}

\* The elements a reference finds.
Found(ref, id) == {k \in DOMAIN Elements : ref # NoId /\ id[k] = ref}

\* The subpaths a renderer follows: a move begins one, and so does whatever is
\* drawn after a close, at the point the closed one began with.  A point
\* repeated adds nothing to a subpath.
DrawSegment(pen, segment) ==
  LET here == Resolve(pen.at, segment)
  IN IF segment.op = "close"
     THEN [pen EXCEPT !.at = pen.begin, !.paths = Append(@, <<pen.begin>>)]
     ELSE IF segment.op = "move"
     THEN [at |-> here, begin |-> here, paths |-> Append(pen.paths, <<here>>)]
     ELSE [pen EXCEPT !.at = here, !.paths[Len(pen.paths)] = AppendFresh(@, here)]

Subpaths(outline) ==
  LET upTo[k \in 0 .. Len(outline)] ==
        IF k = 0 THEN [at |-> <<0, 0>>, begin |-> <<0, 0>>, paths |-> <<>>]
        ELSE DrawSegment(upTo[k - 1], outline[k])
  IN upTo[Len(outline)].paths

\* What it fills: the subpaths with room inside.
Filled(outline) == {points \in ToSet(Subpaths(outline)) : Cardinality(ToSet(points)) >= 3}

\* linear_path_points does not follow subpaths: markers drawn in several, or on
\* after a close, are excluded below.
OneSubpath(outline) ==
  \A i \in DOMAIN outline : /\ outline[i].op = "move" => i = 1
                            /\ outline[i].op = "close" => i = Len(outline)

-----------------------------------------------------------------------------
(* Correctness                                                             *)

OwnId    == [k \in DOMAIN Elements |-> Elements[k].id]
Prepared == [k \in DOMAIN Elements |-> PreparedId(k)]

\* An anchor names one element of the text that usvg parses, and carries what
\* is known of that very element; and every element has one that has an id of
\* its own, or no id where ids may be injected and its synthetic one is free:
\* what Lowering.tla calls Anchored.
AnchorsIdentify ==
  result = "Ok" =>
    /\ \A id \in DOMAIN nodes : \E k \in DOMAIN Elements :
         Found(id, Prepared) = {k} /\ nodes[id] = Metadata(k)
    /\ \A k \in DOMAIN Elements :
         Prepared[k] \in DOMAIN nodes <=>
           IF OwnId[k] = NoId THEN InjectionSafe /\ Synthetic[k] \notin OwnIds
           ELSE Count(OwnId[k]) = 1

\* Inserting ids changes nothing but ids: every element keeps the id it has,
\* every style sheet selects the same elements, and every reference to an
\* element of the source still finds the same.  (A reference to a synthetic id
\* that no element has is not reserved, and would find one.)
InjectionUnobserved ==
  result = "Ok" =>
    /\ \A k \in DOMAIN Elements : OwnId[k] # NoId => Prepared[k] = OwnId[k]
    /\ \A sheet \in document.sheets : Selected(sheet, Prepared) = Selected(sheet, OwnId)
    /\ \A e \in ToSet(Elements) : \A ref \in {e.start, e.end, e.filter} \cap OwnIds :
         Found(ref, Prepared) = Found(ref, OwnId)

\* A "proven native equivalent" (the diagnostic of lower_path): markers are
\* recognized, and a shadow may be left out, only where the reference finds one
\* definition; a recognized marker fills the one triangle, in the recorded
\* color, and turns with the path on that side.
Drawn(def, side, fill) ==
  LET child == def.children[1]
  IN /\ Len(def.children) = 1 /\ child.fill = fill
     /\ def.orient = "auto-start-reverse" \/ (def.orient = "auto" /\ side = "end")
     /\ OneSubpath(child.outline) =>
          \E points \in Filled(child.outline) :
            \A i \in 1 .. 3 : Near(points[i], Triangle[i])

DefinitionsProven ==
  result = "Ok" =>
    \A id \in DOMAIN nodes :
      LET e == Elements[nodes[id].order + 1]
      IN /\ nodes[id].recognized =>
              \A side \in {"start", "end"} : e[side] # NoId =>
                \E k \in DOMAIN Elements :
                  /\ Found(e[side], Prepared) = {k} /\ Elements[k].tag = "marker"
                  /\ Drawn(Elements[k].def, side, nodes[id][side])
         /\ nodes[id].shadow # Nothing =>
              \E k \in DOMAIN Elements : /\ Found(e.filter, Prepared) = {k}
                                         /\ Elements[k].tag = "filter" /\ Elements[k].def.plain

TypeOK ==
  /\ document \in Documents /\ next \in 1 .. Len(Elements) + 1
  /\ DOMAIN nodes \subseteq reserved
  /\ reserved \subseteq OwnIds \cup ToSet(Synthetic)
  /\ inserted \in [DOMAIN Elements -> ToSet(Synthetic) \cup {NoId}]
  /\ result \in {"none", "Ok"}
=============================================================================
