------------------------------ MODULE Lowering ------------------------------
(***************************************************************************)
(* Lowering the normalized paint tree to an Excalidraw document            *)
(* (crates/core/src/convert.rs): the walk over the tree, the choice made   *)
(* for every node (native element, approximation, raster fallback,         *)
(* omission or failure), group and instance tracking, marker promotion,    *)
(* the budgets, cooperative cancellation, and the validation of the        *)
(* finished document (crates/core/src/target.rs).                          *)
(*                                                                         *)
(* A document is the sequence of its source elements and the sequence of   *)
(* its paint nodes, both in document order: the nodes below node n are the *)
(* Node(n).size - 1 that follow it.  Geometry is abstracted to what the    *)
(* choices look at, which PathGeometry.tla computes: how many points a     *)
(* subpath is given (pushed) and keeps, whether it is closed, curved, flat *)
(* or simple, and which native figure it is.                               *)
(*                                                                         *)
(* As in Server.tla, a definition that stands just before another and has  *)
(* its name with a fault in it (Unshared, Forgotten, ...) is the faulty    *)
(* variant a property is measured against.                                 *)
(***************************************************************************)
EXTENDS Naturals, SequencesExt, Sums

CONSTANTS
  Documents,     \* the normalized documents, [source, injectable, notes, nodes]
  Profiles,      \* the fidelity profiles
  Limits,        \* ConversionLimits
  MaxGroupIds,   \* the longest list of group ids of a valid element
  NoPicture      \* the element embeds no file

ASSUME ProfilesAssumption ==
  Profiles \subseteq {"balanced", "editable", "fidelity", "strict"}
ASSUME LimitsAssumption ==
  Limits \in [elements : Nat, points : Nat, segments : Nat, pathSegments : Nat,
              decomposition : Nat, islandPixels : Nat, pixels : Nat, embedded : Nat]
ASSUME MaxGroupIdsAssumption == MaxGroupIds \in Nat

\* The subtree of a node is the node and those that follow it, size in all,
\* and lies within the subtree of each node it is below.  The root is a plain
\* group that no source element stands for.
Tree(nodes) ==
  /\ DOMAIN nodes = 1 .. Len(nodes) /\ Len(nodes) \in Nat \ {0}
  /\ nodes[1].kind = "group" /\ nodes[1].src = 0 /\ nodes[1].effect = "none"
  /\ nodes[1].size = Len(nodes)
  /\ \A n \in DOMAIN nodes :
       /\ nodes[n].size \in 1 .. Len(nodes) + 1 - n
       /\ nodes[n].kind # "group" => nodes[n].size = 1
       /\ \A m \in n .. n + nodes[n].size - 1 : m + nodes[m].size <= n + nodes[n].size

Subpaths == [points : Nat, pushed : Nat, closed : BOOLEAN, curved : BOOLEAN, flat : BOOLEAN,
             simple : BOOLEAN, figure : {"other", "rectangle", "diamond"}]

\* The artwork usvg generates for a connector's markers is in a group with no
\* clip, and marker_artwork_matches accepts none with any other effect.
PaintNode(p) ==
  /\ p.kind \in {"group", "path", "text", "image"}
  /\ p.src \in Nat
  /\ p.picture.pixels \in Nat /\ p.picture.bytes \in Nat /\ p.picture # NoPicture
  /\ p.picture.renders \in BOOLEAN
  /\ p.kind = "group" /\ p.native => p.effect = "none"
  /\ p.kind = "path" =>
       /\ p.subpaths \in Seq(Subpaths) /\ p.segments \in Nat /\ p.curved \in BOOLEAN
       /\ p.fill \in {"none", "solid", "gradient"}
       /\ p.stroke \in {"none", "native", "dashed", "skewed", "gradient"}
       /\ p.corner \in {"none", "exact", "near", "far"}

Note(code, severity, n) == [code |-> code, severity |-> severity, node |-> n]

\* What is reported before the walk, of the whole document: active content that
\* is ignored, and a scene too large for the target.
EarlyNotes == {Note("active-content-ignored", "info", 1),
               Note("scene-scaled-to-target-range", "approximation", 1)}

ASSUME DocumentsAssumption ==
  \A d \in Documents : /\ Tree(d.nodes) /\ \A n \in DOMAIN d.nodes : PaintNode(d.nodes[n])
                       /\ d.notes \in Seq(EarlyNotes)

VARIABLES
  doc, profile,     \* the input and the chosen profile: never change
  frames,           \* the groups lower_group is in, outermost first
  next,             \* the next paint node
  paintOrder,       \* nodes selected so far
  promoted,         \* previous_marker_promoted
  activeGroups,     \* the group keys of the explicit groups it is in
  activeInstances,  \* the numbers of the use instances it is in
  nextInstance,     \* use instances entered so far
  elements, files, diagnostics,          \* the document and report being built
  segments, points, pixels, embedded,    \* the budgets used
  cancelled,        \* the CancellationFlag
  result            \* how convert returned, or "none"

input      == <<doc, profile>>
walkVars   == <<frames, next, paintOrder, promoted, activeGroups, activeInstances, nextInstance>>
budgetVars == <<segments, points, pixels, embedded>>
outputVars == <<elements, files, diagnostics, budgetVars>>
vars == <<input, walkVars, outputVars, cancelled, result>>

Node(n) == doc.nodes[n]

\* Node n is below group g.
Below(g, n) == g < n /\ n < g + Node(g).size

Exacting == profile \in {"fidelity", "strict"}

-----------------------------------------------------------------------------
(* Source correlation: what prepare_source knows of a node's element       *)

\* The element keeps a unique id of its own, or gets a synthetic one when no
\* stylesheet can observe it.
Anchored(k) ==
  LET id == doc.source[k].id
  IN IF id = "" THEN doc.injectable
     ELSE \A j \in DOMAIN doc.source : doc.source[j].id = id => j = k

NoMeta == [tag |-> "", id |-> "", marker |-> "none", shadow |-> "none"]
Known(n) == Node(n).src # 0 /\ Anchored(Node(n).src)
Meta(n) == IF Known(n) THEN doc.source[Node(n).src] ELSE NoMeta

\* The node has no id in the paint tree: nobody's element, or one that had none
\* and got none.
Anonymous(n) == LET k == Node(n).src
                IN k # 0 => doc.source[k].id = "" /\ ~doc.injectable

Explicit(n) == Meta(n).tag \in {"g", "use"}

\* The order recorded for a node: that of its source element, or else the
\* number of nodes selected so far, the node included.
SourceOrder(n) == IF Known(n) THEN Node(n).src - 1 ELSE paintOrder + 1

-----------------------------------------------------------------------------
(* What is drawn for a path                                                *)

Parts(p) == (IF p.fill = "none" THEN {} ELSE {"fill"})
              \cup (IF p.stroke = "none" THEN {} ELSE {"stroke"})

PaintRoles(p, canCombine) ==
  IF Parts(p) # {"fill", "stroke"} \/ (canCombine /\ p.combinable) THEN <<Parts(p)>>
  ELSE <<{"fill"}, {"stroke"}>>

Drawing(type, parts, piece, count) ==
  [type |-> type, parts |-> parts, piece |-> piece, points |-> count]

\* A native shape for the whole path (piece 0), one element per paint role.
Whole(type, p) == LET roles == PaintRoles(p, TRUE)
                  IN [i \in DOMAIN roles |-> Drawing(type, roles[i], 0, 0)]

FillPainted(p, s) == p.fill # "none" /\ s.points >= 3 /\ ~s.flat

\* A polygon, and the stroke of a closed subpath, repeat their first point.
LinePoints(s, parts) == s.points + (IF "fill" \in parts \/ s.closed THEN 1 ELSE 0)

SubpathDrawings(p, piece) ==
  LET s       == p.subpaths[piece]
      painted == FillPainted(p, s)
      roles   == IF painted THEN PaintRoles(p, s.closed)
                 ELSE IF p.stroke = "none" THEN <<>> ELSE <<{"stroke"}>>
      native  == s.closed /\ s.figure # "other"
  IN IF s.points < 2 THEN <<>>
     ELSE [i \in DOMAIN roles |->
             IF native THEN Drawing(s.figure, roles[i], piece, 0)
             ELSE Drawing("line", roles[i], piece, LinePoints(s, roles[i]))]

PathDrawings(p) ==
  LET upTo[k \in 0 .. Len(p.subpaths)] ==
        IF k = 0 THEN <<>> ELSE upTo[k - 1] \o SubpathDrawings(p, k)
  IN upTo[Len(p.subpaths)]

PointsOf(drawn) == Total([i \in DOMAIN drawn |-> drawn[i].points])

\* A curved path may be left with no curved subpath: one of no extent is dropped.
Flattened(p)  == \E i \in DOMAIN p.subpaths : p.subpaths[i].curved
SolidPaint(p) == p.fill # "gradient" /\ p.stroke # "gradient"

\* is_simple_fill_boundary gives up on outlines with too many points: more than
\* the limit here, or than a fixed number, which is for s.simple to say.
Simple(s) == s.points < 3 \/ s.flat \/ (s.simple /\ s.points <= Limits.decomposition)

\* lower_editable_compound_fill: may the subpaths become polygons of a group?
Separable(p) == /\ p.stroke = "none"
                /\ Len(p.subpaths) <= Limits.decomposition
                /\ p.disjoint
                /\ \A i \in DOMAIN p.subpaths :
                     FillPainted(p, p.subpaths[i]) /\ Simple(p.subpaths[i])
CompoundPointsOpen(p) == Total([i \in DOMAIN p.subpaths |-> p.subpaths[i].points])
CompoundPoints(p) == Total([i \in DOMAIN p.subpaths |-> p.subpaths[i].points + 1])
Affordable(p) == /\ Len(elements) + Len(p.subpaths) <= Limits.elements
                 /\ points + CompoundPoints(p) <= Limits.points

\* The connector's generated marker artwork is the anonymous group after it.
HasArtwork(n) == /\ n + 1 < Last(frames) + Node(Last(frames)).size
                 /\ Node(n + 1).kind = "group" /\ Anonymous(n + 1)
PromotionUnmatched(n) == Meta(n).marker = "known" /\ HasArtwork(n)
PromotionAllowed(n) == Meta(n).marker = "known" /\ HasArtwork(n) /\ Node(n + 1).native

Promotable(n) == LET p == Node(n)
                 IN /\ PromotionAllowed(n)
                    /\ Len(p.subpaths) = 1
                    /\ ~p.subpaths[1].closed
                    /\ ~FillPainted(p, p.subpaths[1])
                    /\ p.stroke # "none"

-----------------------------------------------------------------------------
(* The decision for a node                                                 *)

\* One report per marked source element, however often it is instantiated.
MarkerNote(n) ==
  IF \E i \in DOMAIN diagnostics :
       /\ diagnostics[i].code = "marker-preserved-as-geometry"
       /\ Node(diagnostics[i].node).src = Node(n).src
  THEN <<>> ELSE <<Note("marker-preserved-as-geometry", "fallback", n)>>

Decide(do, drawn, code, notes, work) ==
  [do |-> do, drawn |-> drawn, code |-> code, notes |-> notes, work |-> work]
Omit(notes, work)           == Decide("omit", <<>>, "", notes, work)
Fail(error)                 == Decide("fail", <<>>, error, <<>>, 0)
Fallback(code, notes, work) == Decide("fallback", <<>>, code, notes, work)
Draw(drawn, notes, work)    == Decide("draw", drawn, "", notes, work)

Island == "paint-island-rasterized"

SegmentsUnsummed(p) == p.segments > Limits.pathSegments
SegmentsExceeded(p) == \/ p.segments > Limits.pathSegments
                       \/ segments + p.segments > Limits.segments

\* lower_path, in the order of its early returns.
PathPlan(n) ==
  LET p       == Node(n)
      rounded == Known(n) /\ p.corner # "none"
      early   == IF Meta(n).marker = "unknown" THEN MarkerNote(n) ELSE <<>>
      notes   == early \o (IF p.stroke = "dashed"
                           THEN <<Note("stroke-style-approximated", "approximation", n)>>
                           ELSE <<>>)
      marked  == notes \o (IF Meta(n).marker = "known" THEN MarkerNote(n) ELSE <<>>)
      work    == p.segments
  IN IF Parts(p) = {} THEN Omit(early, 0)
     ELSE IF ~SolidPaint(p) THEN Fallback("gradient-rasterized", early, 0)
     ELSE IF p.stroke = "skewed" \/ (p.stroke = "dashed" /\ Exacting)
     THEN Fallback(Island, early, 0)
     ELSE IF SegmentsExceeded(p) THEN Fail("LimitExceeded")
     ELSE IF rounded /\ (p.corner = "far" \/ (p.corner = "near" /\ Exacting))
     THEN Fallback(Island, notes, work)
     ELSE IF rounded
     THEN Draw(Whole("rectangle", p),
               notes \o (IF p.corner = "exact" THEN <<>>
                         ELSE <<Note("corner-radius-approximated", "approximation", n)>>), work)
     ELSE IF p.shape = "ellipse" THEN Draw(Whole("ellipse", p), notes, work)
     ELSE IF p.curved /\ Exacting THEN Fallback(Island, notes, work)
     ELSE IF \E i \in DOMAIN p.subpaths : p.subpaths[i].pushed > Limits.points
     THEN Fail("LimitExceeded")
     ELSE IF p.subpaths = <<>> THEN Omit(notes, work)
     ELSE IF Len(p.subpaths) > 1 /\ p.fill # "none"
     THEN IF profile = "editable" /\ Separable(p) /\ Affordable(p)
          THEN Decide("decompose", PathDrawings(p), "",
                      notes \o <<Note("compound-path-decomposed", "approximation", n)>>, work)
          ELSE Fallback(Island, notes, work)
     ELSE IF Promotable(n)
     THEN Decide("arrow", <<Drawing("arrow", {"stroke"}, 1, p.subpaths[1].points)>>,
                 "", notes, work)
     ELSE IF p.fill # "none" /\ (\E i \in DOMAIN p.subpaths : ~Simple(p.subpaths[i]))
     THEN Fallback(Island, marked, work)
     ELSE Draw(PathDrawings(p),
               marked \o (IF Flattened(p) THEN <<Note("path-flattened", "approximation", n)>>
                                          ELSE <<>>), work)

\* lower_text; an inexact style also makes the font inexact.
TextPlan(n) ==
  LET t == Node(n)
      fontNotes == (IF t.font = "exact" THEN <<>>
                    ELSE <<Note("font-substituted", "approximation", n)>>)
                   \o (IF t.font = "style"
                       THEN <<Note("font-style-approximated", "approximation", n)>> ELSE <<>>)
  IN IF t.layout = "empty" THEN Omit(<<>>, 0)
     ELSE IF t.layout = "complex" \/ (t.font # "exact" /\ Exacting) THEN Fallback(Island, <<>>, 0)
     ELSE IF t.fill # "solid" THEN Fail("NormalizationFailed")
     ELSE Draw(<<Drawing("text", {"fill"}, 0, 0)>>, fontNotes, 0)

ImagePlan(n) ==
  IF Node(n).animated
  THEN Fallback(Island, <<Note("animated-image-snapshot", "fallback", n)>>, 0)
  ELSE IF ~Node(n).shown THEN Fail("RasterizationFailed")
  ELSE Decide("embed", <<>>, "", <<>>, 0)

\* An isolated group is one island, unless it is isolated for nothing but a
\* recognized drop shadow that the profile allows to omit.
ShadowOmittable(n) ==
  /\ Node(n).effect = "shadow"
  /\ \/ profile = "balanced" /\ Meta(n).shadow = "soft"
     \/ profile = "editable" /\ Meta(n).shadow \in {"soft", "medium"}

IslandPlan(n) == Fallback(CASE Node(n).effect = "mask" -> "mask-rasterized"
                            [] Node(n).effect = "clip" -> "clip-rasterized"
                            [] OTHER -> Island, <<>>, 0)

-----------------------------------------------------------------------------
(* Carrying the decision out                                               *)

Element(n, d, keys) == [type |-> d.type, node |-> n, parts |-> d.parts, piece |-> d.piece,
                        points |-> d.points, groups |-> keys, picture |-> NoPicture]
ImageElement(n) == [type |-> "image", node |-> n, parts |-> {"fill", "stroke", "decoration"},
                    piece |-> 0, points |-> 0, groups |-> activeGroups, picture |-> Node(n).picture]

InstanceUncounted == 0
CurrentInstance == IF activeInstances = <<>> THEN 0 ELSE Last(activeInstances)

\* The decomposed parts of a compound fill form a group of their own.
Keys(n, plan) == IF plan.do = "decompose"
                 THEN Append(activeGroups, [order |-> SourceOrder(n), instance |-> CurrentInstance])
                 ELSE activeGroups

Abort(error) == result' = error /\ UNCHANGED outputVars

Record(plan) == /\ diagnostics' = diagnostics \o plan.notes
                /\ segments' = segments + plan.work

Emit(n, plan) ==
  IF \/ Len(elements) + Len(plan.drawn) > Limits.elements
     \/ points + PointsOf(plan.drawn) > Limits.points
  THEN Abort("LimitExceeded")
  ELSE /\ elements' = elements \o [i \in DOMAIN plan.drawn |->
                                     Element(n, plan.drawn[i], Keys(n, plan))]
       /\ points' = points + PointsOf(plan.drawn)
       /\ Record(plan)
       /\ UNCHANGED <<files, pixels, embedded, result>>

\* A file is content-addressed: the same picture is embedded once.
BytesUnshared(picture) == picture.bytes
EmbeddedBytes(picture) == IF picture \in files THEN 0 ELSE picture.bytes

PixelsExceeded(picture) == \/ picture.pixels > Limits.islandPixels
                           \/ pixels + picture.pixels > Limits.pixels

\* The pixels are reserved, the node is rendered, and its image embedded.
Rasterize(n, plan) ==
  LET picture == Node(n).picture
  IN IF PixelsExceeded(picture) THEN Abort("LimitExceeded")
     ELSE IF ~picture.renders THEN Abort("RasterizationFailed")
     ELSE IF \/ embedded + EmbeddedBytes(picture) > Limits.embedded
             \/ Len(elements) >= Limits.elements
     THEN Abort("LimitExceeded")
     ELSE /\ elements' = Append(elements, ImageElement(n))
          /\ files' = files \cup {picture}
          /\ pixels' = pixels + picture.pixels
          /\ embedded' = embedded + EmbeddedBytes(picture)
          /\ diagnostics' = diagnostics \o plan.notes
               \o (IF plan.code = "" THEN <<>> ELSE <<Note(plan.code, "fallback", n)>>)
          /\ segments' = segments + plan.work
          /\ UNCHANGED <<points, result>>

\* The strict profile only reports what it cannot represent.
ReportForgotten(n, plan) == /\ Record(plan)
                            /\ UNCHANGED <<elements, files, points, pixels, embedded, result>>
Report(n, plan) == /\ diagnostics' = diagnostics \o plan.notes
                                       \o <<Note(plan.code, "fallback", n)>>
                   /\ segments' = segments + plan.work
                   /\ UNCHANGED <<elements, files, points, pixels, embedded, result>>

Skip(plan) == Record(plan) /\ UNCHANGED <<elements, files, points, pixels, embedded, result>>

Perform(n, plan) ==
  \/ plan.do = "fail" /\ Abort(plan.code)
  \/ plan.do = "omit" /\ Skip(plan)
  \/ plan.do \in {"draw", "arrow", "decompose"} /\ Emit(n, plan)
  \/ plan.do = "embed" /\ Rasterize(n, plan)
  \/ plan.do = "fallback" /\ profile = "strict" /\ Report(n, plan)
  \/ plan.do = "fallback" /\ profile # "strict" /\ ~Node(n).shown /\ Skip(plan)
  \/ plan.do = "fallback" /\ profile # "strict" /\ Node(n).shown /\ Rasterize(n, plan)

-----------------------------------------------------------------------------
(* The walk                                                                *)

Init ==
  /\ doc \in Documents /\ profile \in Profiles
  /\ frames = <<1>> /\ next = 2          \* node 1 is the tree's root group
  /\ paintOrder = 0 /\ promoted = FALSE
  /\ activeGroups = <<>> /\ activeInstances = <<>> /\ nextInstance = 0
  /\ elements = <<>> /\ files = {} /\ diagnostics = doc.notes
  /\ segments = 0 /\ points = 0 /\ pixels = 0 /\ embedded = 0
  /\ cancelled = FALSE /\ result = "none"

InGroup == frames # <<>> /\ next < Last(frames) + Node(Last(frames)).size

\* The caller sets the flag; it may do so at any time.
Cancel == /\ result = "none" /\ ~cancelled
          /\ cancelled' = TRUE
          /\ UNCHANGED <<input, walkVars, outputVars, result>>

\* Every child of every group, and the end of the walk, checks the flag.
NoticeCancel == /\ result = "none" /\ cancelled
                /\ InGroup \/ frames = <<>>
                /\ result' = "Cancelled"
                /\ UNCHANGED <<input, walkVars, outputVars, cancelled>>

AtChild == result = "none" /\ InGroup /\ ~cancelled

\* The artwork of the connector just promoted: a generated, anonymous group.
MarkerArtworkNever(n) == FALSE
MarkerArtwork(n) == /\ promoted
                    /\ Node(n).kind = "group" /\ Anonymous(n)
                    /\ Meta(n - 1).marker = "known"

SkipArtwork == /\ AtChild /\ MarkerArtwork(next)
               /\ next' = next + Node(next).size
               /\ promoted' = FALSE
               /\ UNCHANGED <<input, frames, paintOrder, activeGroups, activeInstances,
                              nextInstance, outputVars, cancelled, result>>

Selected(kind) == AtChild /\ ~MarkerArtwork(next) /\ Node(next).kind = kind

\* The walk moves past node n, which is decided as a whole.
Pass(n, isPromoted) == /\ next' = n + Node(n).size
                       /\ paintOrder' = paintOrder + 1
                       /\ promoted' = isPromoted
                       /\ UNCHANGED <<input, frames, activeGroups, activeInstances,
                                      nextInstance, cancelled>>

LowerPath == /\ Selected("path")
             /\ LET plan == IF Node(next).visible THEN PathPlan(next) ELSE Omit(<<>>, 0)
                IN Perform(next, plan) /\ Pass(next, plan.do = "arrow")

LowerText == /\ Selected("text")
             /\ Perform(next, TextPlan(next)) /\ Pass(next, FALSE)

LowerImage == /\ Selected("image")
              /\ Perform(next, ImagePlan(next)) /\ Pass(next, FALSE)

LowerIsland == /\ Selected("group")
               /\ Node(next).effect # "none" /\ ~ShadowOmittable(next)
               /\ Perform(next, IslandPlan(next)) /\ Pass(next, FALSE)

\* lower_group of a child: an explicit group gets a key, a use also a new
\* instance number, which the keys of everything below it carry.
EnterGroup ==
  /\ Selected("group")
  /\ Node(next).effect = "none" \/ ShadowOmittable(next)
  /\ LET instances == IF Meta(next).tag = "use"
                      THEN Append(activeInstances, nextInstance + 1) ELSE activeInstances
     IN /\ activeInstances' = instances
        /\ nextInstance' = nextInstance + Len(instances) - Len(activeInstances)
        /\ activeGroups' =
             IF Explicit(next)
             THEN Append(activeGroups, [order |-> Node(next).src - 1,
                                        instance |-> CurrentInstance'])
             ELSE activeGroups
  /\ diagnostics' = diagnostics \o (IF Node(next).effect = "none" THEN <<>>
                                    ELSE <<Note("filter-omitted", "omission", next)>>)
  /\ frames' = Append(frames, next)
  /\ next' = next + 1
  /\ paintOrder' = paintOrder + 1
  /\ promoted' = FALSE
  /\ UNCHANGED <<input, elements, files, budgetVars, cancelled, result>>

LeaveGroup ==
  /\ result = "none" /\ frames # <<>> /\ ~InGroup
  /\ frames' = Front(frames)
  /\ activeGroups' = IF Explicit(Last(frames)) THEN Front(activeGroups) ELSE activeGroups
  /\ activeInstances' = IF Meta(Last(frames)).tag = "use" THEN Front(activeInstances)
                        ELSE activeInstances
  /\ promoted' = FALSE
  /\ UNCHANGED <<input, next, paintOrder, nextInstance, outputVars, cancelled, result>>

-----------------------------------------------------------------------------
(* The finished document                                                   *)

\* finalize_groups keeps a key that stands in two places, and lists the keys it
\* keeps from the innermost group to the outermost.
SharedAlways(key) == TRUE
Shared(key) ==
  \E i, j \in DOMAIN elements :
    \E k \in DOMAIN elements[i].groups, l \in DOMAIN elements[j].groups :
      /\ <<i, k>> # <<j, l>>
      /\ elements[i].groups[k] = key /\ elements[j].groups[l] = key

KeptOf(key) == IF Shared(key) THEN <<key>> ELSE <<>>
Kept(keys) ==
  LET upTo[k \in 0 .. Len(keys)] == IF k = 0 THEN <<>> ELSE KeptOf(keys[k]) \o upTo[k - 1]
  IN upTo[Len(keys)]

FinalElements ==
  [i \in DOMAIN elements |-> [elements[i] EXCEPT !.groups = Kept(elements[i].groups)]]

\* ExcalidrawDocument::validate: distinct and not too many group ids, one
\* parent per group, no singleton or interrupted group, no degenerate line,
\* and exactly the referenced files.
Parent(ids, k) == IF k < Len(ids) THEN {ids[k + 1]} ELSE {}

ValidGroups(list) ==
  /\ \A i \in DOMAIN list : /\ IsInjective(list[i].groups)
                            /\ Len(list[i].groups) <= MaxGroupIds
  /\ \A i, j \in DOMAIN list :
       \A k \in DOMAIN list[i].groups, l \in DOMAIN list[j].groups :
         list[i].groups[k] = list[j].groups[l] =>
           /\ Parent(list[i].groups, k) = Parent(list[j].groups, l)
           /\ \A m \in i .. j : list[i].groups[k] \in ToSet(list[m].groups)
  /\ \A i \in DOMAIN list : \A id \in ToSet(list[i].groups) :
       \E j \in DOMAIN list : j # i /\ id \in ToSet(list[j].groups)

DocumentValid(list) ==
  /\ ValidGroups(list)
  /\ \A i \in DOMAIN list : list[i].type \in {"line", "arrow"} => list[i].points >= 2
  /\ files = {list[i].picture : i \in DOMAIN list} \ {NoPicture}

Violates(notes) == profile = "strict" /\ \E i \in DOMAIN notes : notes[i].severity # "info"

Finish ==
  /\ result = "none" /\ frames = <<>> /\ ~cancelled
  /\ elements' = FinalElements
  /\ diagnostics' = diagnostics \o
       (IF \E i \in DOMAIN elements : elements[i].type = "arrow"
        THEN <<Note("binding-not-inferred", "info", 1)>> ELSE <<>>)
  /\ result' = IF Violates(diagnostics) THEN "StrictFidelityViolation"
               ELSE IF DocumentValid(FinalElements) THEN "Ok" ELSE "InvalidGeneratedDocument"
  /\ UNCHANGED <<input, walkVars, files, budgetVars, cancelled>>

Next == \/ Cancel \/ NoticeCancel
        \/ SkipArtwork \/ LowerPath \/ LowerText \/ LowerImage \/ LowerIsland
        \/ EnterGroup \/ LeaveGroup \/ Finish

Spec == Init /\ [][Next]_vars

-----------------------------------------------------------------------------
(* Correctness                                                             *)

Results == {"none", "Ok", "Cancelled", "LimitExceeded", "RasterizationFailed",
            "NormalizationFailed", "StrictFidelityViolation", "InvalidGeneratedDocument"}

TypeOK ==
  /\ profile \in Profiles
  /\ frames \in Seq(DOMAIN doc.nodes) /\ next \in 2 .. Len(doc.nodes) + 1
  /\ paintOrder \in 0 .. Len(doc.nodes) /\ promoted \in BOOLEAN
  /\ activeGroups \in Seq([order : Nat, instance : Nat])
  /\ activeInstances \in Seq(1 .. nextInstance) /\ nextInstance \in 0 .. Len(doc.nodes)
  /\ Len(elements) <= Limits.elements /\ IsFiniteSet(files)
  /\ segments \in 0 .. Limits.segments /\ points \in 0 .. Limits.points
  /\ pixels \in 0 .. Limits.pixels /\ embedded \in 0 .. Limits.embedded
  /\ cancelled \in BOOLEAN /\ result \in Results

\* The report's numbers are the document's: its points, the pixels of its
\* images and the bytes of its files, which are exactly the files its images
\* refer to: one that several images share counts once, with the first of them.
ImagePixels(i) == IF elements[i].type = "image" THEN elements[i].picture.pixels ELSE 0
FileBytes(i)   == IF /\ elements[i].type = "image"
                     /\ \A j \in 1 .. i - 1 : elements[j].picture # elements[i].picture
                  THEN elements[i].picture.bytes ELSE 0

BudgetsExact ==
  /\ points = PointsOf(elements)
  /\ pixels = Total([i \in DOMAIN elements |-> ImagePixels(i)])
  /\ embedded = Total([i \in DOMAIN elements |-> FileBytes(i)])
  /\ files = {elements[i].picture : i \in DOMAIN elements} \ {NoPicture}

\* The parts of node n that an SVG renderer paints, as part and subpath.  A native
\* stroke has round caps, which show a subpath of no length as a dot.
Inked(p, s) == (p.stroke # "none" /\ s.points >= 2) \/ p.stroke = "native"
PathPaint(p) == LET pieces == DOMAIN p.subpaths
                IN {<<"fill", i>> : i \in {i \in pieces : FillPainted(p, p.subpaths[i])}}
                     \cup {<<"stroke", i>> : i \in {i \in pieces : Inked(p, p.subpaths[i])}}
TextParts(p) == Parts(p) \cup (IF p.decorated THEN {"decoration"} ELSE {})
Paint(n) == LET p == Node(n)
            IN CASE p.kind = "path" /\ p.visible -> PathPaint(p)
                 [] p.kind = "image" -> {<<"fill", 0>>}
                 [] p.kind = "text" /\ p.layout # "empty" ->
                      {<<part, 0>> : part \in TextParts(p)}
                 [] OTHER -> {}

Paints(e, n, paint) == \/ /\ e.node = n
                          /\ paint[1] \in e.parts
                          /\ e.piece \in {0, paint[2]}
                       \/ e.type = "image" /\ Below(e.node, n)

\* An arrow's heads stand for the marker artwork after its connector.
HeadsFor(e, n) == /\ e.type = "arrow"
                  /\ Node(e.node + 1).native
                  /\ Below(e.node + 1, n)

\* Node n and the isolated groups around it, which are painted as one picture
\* each, all reach into the viewport.
Seen(n) == /\ Node(n).shown
           /\ \A g \in 1 .. n - 1 : Below(g, n) /\ Node(g).effect # "none" => Node(g).shown

\* Painted visible content is never silently omitted: in a document that is
\* returned, every painted part of every visible node is drawn by one of its
\* elements, by the image of an island around it, or by an arrow's head.  A text's
\* stroke is the exception of lowering_text_stroke; its decoration and a subpath of
\* no length are two more, which no document of the runs has.
PaintKept ==
  result = "Ok" =>
    \A n \in DOMAIN doc.nodes : Seen(n) =>
      \A paint \in Paint(n) : \E i \in DOMAIN elements :
         Paints(elements[i], n, paint) \/ HeadsFor(elements[i], n)

\* ... and by one of them only: no fill, stroke or arrowhead is drawn twice,
\* and elements stand in paint order.
PaintedOnce ==
  /\ \A n \in 1 .. next - 1 : \A paint \in Paint(n) :
       \A i, j \in DOMAIN elements :
         /\ Paints(elements[i], n, paint) \/ HeadsFor(elements[i], n)
         /\ Paints(elements[j], n, paint) \/ HeadsFor(elements[j], n)
         => i = j
  /\ \A i, j \in DOMAIN elements : i < j => elements[i].node <= elements[j].node

\* Two elements share one group for each instance of an explicit group or use
\* around both, and one more if they are parts of one decomposed fill: never
\* because two instances were given the same key.
GroupsFollowInstances ==
  result = "Ok" =>
    \A i, j \in DOMAIN elements : i < j =>
      LET a == elements[i]
          b == elements[j]
          around == {g \in DOMAIN doc.nodes :
                       Explicit(g) /\ Below(g, a.node) /\ Below(g, b.node)}
          together == a.node = b.node /\ a.piece # b.piece /\ a.parts = {"fill"}
                        /\ b.parts = {"fill"}
      IN Cardinality(ToSet(a.groups) \cap ToSet(b.groups))
           = Cardinality(around) + (IF together THEN 1 ELSE 0)

\* What the converter builds always passes its own validation.
GeneratedDocumentValid == result # "InvalidGeneratedDocument"

\* A paint node the target represents without any loss.  A text carries a solid
\* fill and nothing else; a line needs two points.
Exact(n) ==
  LET p == Node(n)
  IN CASE p.kind = "group" -> p.effect = "none"
       [] p.kind = "image" -> ~p.animated
       [] p.kind = "text" -> \/ p.layout = "empty"
                             \/ /\ p.layout # "complex" /\ p.font = "exact"
                                /\ p.fill = "solid" /\ TextParts(p) = {"fill"}
       [] p.kind = "path" ->
            p.visible /\ Parts(p) # {} =>
              /\ SolidPaint(p) /\ p.stroke \in {"none", "native"}
              /\ \/ p.corner = "exact" \/ p.shape = "ellipse"
                 \/ /\ ~p.curved
                    /\ p.stroke = "native" => \A i \in DOMAIN p.subpaths : p.subpaths[i].points >= 2

\* A document returned under the strict profile is exact: no node needed an
\* approximation, a fallback or an omission, and the scene was not scaled.  The
\* code drops the stroke and the decoration of a text and a subpath of no length
\* unseen: the documents of the run have none, and StrictIsExact assumes it.
StrictMeansExact ==
  result = "Ok" /\ profile = "strict" =>
    /\ \A i \in DOMAIN doc.notes : doc.notes[i].severity = "info"
    /\ \A n \in DOMAIN doc.nodes :
         \/ Exact(n)
         \/ \E i \in DOMAIN elements : HeadsFor(elements[i], n)

\* A compound fill is decomposed only when the budgets have room for it, so
\* that decomposing, unlike any other lowering, never fails the conversion.
DecompositionAffordable ==
  [][result' = "LimitExceeded" /\ result = "none" =>
       ~(Node(next).kind = "path" /\ Node(next).visible /\ PathPlan(next).do = "decompose")]_vars
=============================================================================
