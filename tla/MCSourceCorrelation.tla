------------------------- MODULE MCSourceCorrelation -------------------------
(* SourceCorrelation.tla at a size TLC can exhaust.                        *)
EXTENDS SourceCorrelation

SmallSynthetic == <<"s0", "s1", "s2", "s3">>

Plain == [tag |-> "g", id |-> NoId, start |-> NoId, end |-> NoId, filter |-> NoId,
          rx |-> {}, ry |-> {}, def |-> Nothing]
Sheets == SUBSET {"class", "attribute", "synthetic"}

\* Ids: shared, free, one that is the synthetic id of a later or of an earlier
\* element, and references to them.
Named(tag, id, ref) == [Plain EXCEPT !.tag = tag, !.id = id, !.start = ref]
IdDocuments ==
  {[sheets |-> sheets,
    elements |-> <<Named("g", i, NoId), Named("use", j, r), Named("path", k, r),
                   Named("text", NoId, NoId)>>] :
     sheets \in Sheets, i, j, k \in {NoId, "a", "s0", "s1", "s2"}, r \in {NoId, "a", "s1"}}

\* Markers: the known triangle with absolute and relative segments, one with
\* another corner, a repeated point, an open and a curved one, one of three moves,
\* and two at the tolerance and beyond it.
Seg(op, x, y)  == [op |-> op, abs |-> TRUE, to |-> <<x, y>>]
Step(op, x, y) == [op |-> op, abs |-> FALSE, to |-> <<x, y>>]
Known == <<Seg("move", 0, 12), Seg("line", 190, 100), Seg("line", 0, 188), Seg("close", 0, 0)>>
Outlines ==
  {Known,
   <<Step("move", 0, 12), Step("line", 190, 88), Step("line", -190, 88), Seg("close", 0, 0)>>,
   <<Step("move", 0, 12), Step("line", 190, 88), Seg("line", -190, 88), Seg("close", 0, 0)>>,
   <<Seg("move", 0, 12), Seg("line", 190, 100), Seg("line", 190, 100), Seg("line", 0, 188),
     Seg("close", 0, 0)>>,
   <<Seg("move", 0, 12), Seg("line", 190, 100), Seg("line", 0, 188)>>,
   <<Seg("move", 0, 12), Seg("curve", 190, 100), Seg("line", 0, 188), Seg("close", 0, 0)>>,
   <<Seg("move", 0, 12), Seg("move", 190, 100), Seg("move", 0, 188), Seg("close", 0, 0)>>,
   <<Seg("move", 1, 13), Seg("line", 189, 101), Seg("line", 0, 187), Seg("close", 0, 0)>>,
   <<Seg("move", 0, 14), Seg("line", 190, 100), Seg("line", 0, 188), Seg("close", 0, 0)>>}
MarkerDefs ==
  {[orient |-> orient, plain |-> plain, children |-> children] :
     orient \in {"auto", "auto-start-reverse", "none"}, plain \in BOOLEAN,
     children \in {<<[plain |-> p, fill |-> "black", outline |-> o]>> :
                     p \in BOOLEAN, o \in Outlines}}
  \cup {[orient |-> "auto", plain |-> TRUE,
         children |-> [i \in 1 .. n |-> [plain |-> TRUE, fill |-> "red",
                                         outline |-> Known]]] :
          n \in {0, 2}}
MarkerElement(id, def) == [Plain EXCEPT !.tag = "marker", !.id = id, !.def = def]
Good(fill) == [orient |-> "auto-start-reverse", plain |-> TRUE,
               children |-> <<[plain |-> TRUE, fill |-> fill,
                               outline |-> Known]>>]
MarkerDocuments ==
  {[sheets |-> {},
    elements |-> <<MarkerElement("m", def), MarkerElement(id, Good("blue")),
                   [Plain EXCEPT !.tag = "path", !.start = start, !.end = end]>>] :
     def \in MarkerDefs, id \in {"m", "n"}, start, end \in {NoId, "m", "n", "x"}}

\* Shadows at and beyond the limits of the two profiles, and corner radii.
ShadowDefs == [plain : BOOLEAN, opacity : {15, 16, 26}, deviation : {4, 8, 9}, offset : {4, 5}]
ShadowDocuments ==
  {[sheets |-> {"class"},
    elements |-> <<[Plain EXCEPT !.tag = "filter", !.id = "f", !.def = def],
                   [Plain EXCEPT !.tag = tag, !.id = id, !.filter = "f"]>>] :
     def \in ShadowDefs, tag \in {"g", "filter"}, id \in {"f", NoId}}
RadiusDocuments ==
  {[sheets |-> {}, elements |-> <<[Plain EXCEPT !.tag = tag, !.rx = rx, !.ry = ry]>>] :
     tag \in {"rect", "g"}, rx, ry \in {{}, {0}, {3}}}

\* A filter's def is read only when it is a filter's: a filter named like the
\* other one has a definition too.
AllDocuments ==
  IdDocuments \cup MarkerDocuments \cup RadiusDocuments
    \cup {[doc EXCEPT !.elements[2].def = doc.elements[1].def] : doc \in ShadowDocuments}
=============================================================================
