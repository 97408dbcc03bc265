---------------------------- MODULE PathGeometry ----------------------------
(***************************************************************************)
(* The geometry of a path (crates/core/src/convert.rs): flatten_path turns *)
(* its segments into subpaths of points, splitting curves until a chord is *)
(* close enough, and the tests below it tell what Lowering.tla takes as    *)
(* given of a subpath: whether it is flat, a simple boundary, a rectangle  *)
(* or a diamond, and whether the subpaths of a compound fill are apart.    *)
(*                                                                         *)
(* Points are pairs of integers.  Coordinates are multiples of             *)
(* 2^(3 * MaxDepth) units, so that the midpoints of MaxDepth splits of a   *)
(* cubic are integers too and the arithmetic is exact, as that of f64 is   *)
(* for such values; approximately_same is then equality.                   *)
(***************************************************************************)
EXTENDS Integers, SequencesExt

CONSTANTS
  Paths,       \* the paths: sequences of segments
  Tolerance,   \* curve_tolerance_px
  MaxDepth,    \* how often a curve is halved: 20 in the code
  MaxPoints,   \* max_target_points
  MaxEdges,    \* max_decomposition_elements
  MaxWork      \* max_path_segments, here as the budget of pairs of edges

Point == Int \X Int

Segments == [op : {"move", "line"}, to : Point]
              \cup [op : {"curve"}, controls : [1..1 -> Point] \cup [1..2 -> Point], to : Point]
              \cup [op : {"close"}]

\* tiny_skia's path builder lets a path and whatever follows a close begin
\* with a move.
WellFormed(segments) ==
  /\ segments \in Seq(Segments)
  /\ \A i \in DOMAIN segments :
       i = 1 \/ segments[i - 1].op = "close" => segments[i].op = "move"

ASSUME PathsAssumption == \A p \in Paths : WellFormed(p)
ASSUME LimitsAssumption ==
  /\ {Tolerance, MaxDepth, MaxEdges, MaxWork} \subseteq Nat
  /\ MaxPoints \in Nat \ {0}

VARIABLES
  path,       \* the path: never changes
  next,       \* the next segment
  current,    \* the open subpath, in a sequence of at most one
  pieces,     \* the pieces of the curve being flattened, leftmost first
  output,     \* the finished subpaths
  result      \* how flatten_path returned, or "none"

vars == <<path, next, current, pieces, output, result>>

-----------------------------------------------------------------------------
(* Points and curves                                                       *)

Minus(p, q) == <<p[1] - q[1], p[2] - q[2]>>
Cross(u, v) == u[1] * v[2] - u[2] * v[1]
Dot(u, v)   == u[1] * v[1] + u[2] * v[2]

Midpoint(p, q) == <<(p[1] + q[1]) \div 2, (p[2] + q[2]) \div 2>>

\* distance_to_line(p, start, end) <= tolerance: the distance to the whole
\* line, or to the start when the chord has no length.
NearLine(p, start, end) ==
  LET chord == Minus(end, start)
      away  == Minus(p, start)
      cross == Cross(chord, away)
  IN IF start = end THEN Dot(away, away) <= Tolerance * Tolerance
     ELSE cross * cross <= Tolerance * Tolerance * Dot(chord, chord)

\* A curve is the sequence of its start, its one or two controls and its end.
FlatFirst(curve) == NearLine(curve[2], Head(curve), Last(curve))
Flat(curve) == \A i \in 2 .. Len(curve) - 1 : NearLine(curve[i], Head(curve), Last(curve))

\* de Casteljau: the midpoints of neighbours, until one point is left.
Halvings(curve) ==
  LET halving[k \in 0 .. Len(curve) - 1] ==
        IF k = 0 THEN curve
        ELSE [i \in 1 .. Len(curve) - k |->
                Midpoint(halving[k - 1][i], halving[k - 1][i + 1])]
  IN halving
LeftHalf(curve)  == [k \in DOMAIN curve |-> Head(Halvings(curve)[k - 1])]
RightHalf(curve) == [k \in DOMAIN curve |-> Last(Halvings(curve)[Len(curve) - k])]

-----------------------------------------------------------------------------
(* flatten_path                                                            *)

Init ==
  /\ path \in Paths
  /\ next = 1 /\ current = <<>> /\ pieces = <<>> /\ output = <<>>
  /\ result = "none"

\* finish_subpath: no point twice in a row, and of a closed subpath not the
\* first again at the end; nothing is left of a closed point.
AppendFresh(points, p) ==
  IF points # <<>> /\ Last(points) = p THEN points ELSE Append(points, p)
Distinct(points) ==
  LET kept[n \in 0 .. Len(points)] ==
        IF n = 0 THEN <<>> ELSE AppendFresh(kept[n - 1], points[n])
  IN kept[Len(points)]

FinishedClosing(subpath) == [subpath EXCEPT !.points = Distinct(@)]
Finished(subpath) ==
  LET kept == Distinct(subpath.points)
  IN [subpath EXCEPT !.points = IF subpath.closed /\ Head(kept) = Last(kept)
                                THEN Front(kept) ELSE kept]

FinishedAll == IF current # <<>> /\ Finished(current[1]).points # <<>>
               THEN <<Finished(current[1])>> ELSE <<>>

AtSegment(op) == /\ result = "none" /\ pieces = <<>>
                 /\ next <= Len(path) /\ path[next].op = op

MoveTo == /\ AtSegment("move")
          /\ output' = output \o FinishedAll
          /\ current' = <<[points |-> <<path[next].to>>, closed |-> FALSE, curved |-> FALSE]>>
          /\ next' = next + 1
          /\ UNCHANGED <<path, pieces, result>>

Here == Last(current[1].points)

\* push_bounded: the limit is that of the whole document, for each subpath.
PointRoomOff == Len(current[1].points) <= MaxPoints
PointRoom == Len(current[1].points) < MaxPoints
Push(p) == IF PointRoom
           THEN /\ current' = [current EXCEPT ![1].points = Append(@, p)]
                /\ UNCHANGED result
           ELSE result' = "LimitExceeded" /\ UNCHANGED current

LineTo == /\ AtSegment("line")
          /\ IF path[next].to = Here THEN UNCHANGED <<current, result>> ELSE Push(path[next].to)
          /\ next' = next + 1
          /\ UNCHANGED <<path, pieces, output>>

\* QuadTo and CubicTo.
CurveTo == /\ AtSegment("curve")
           /\ pieces' = <<[curve |-> <<Here>> \o path[next].controls \o <<path[next].to>>,
                           depth |-> 0]>>
           /\ current' = [current EXCEPT ![1].curved = TRUE]
           /\ next' = next + 1
           /\ UNCHANGED <<path, output, result>>

AtPiece == result = "none" /\ pieces # <<>>

EmitChord == /\ AtPiece /\ Flat(pieces[1].curve)
             /\ Push(Last(pieces[1].curve))
             /\ pieces' = Tail(pieces)
             /\ UNCHANGED <<path, next, output>>

Split == /\ AtPiece /\ ~Flat(pieces[1].curve) /\ pieces[1].depth < MaxDepth
         /\ LET half(curve) == [curve |-> curve, depth |-> pieces[1].depth + 1]
            IN pieces' = <<half(LeftHalf(pieces[1].curve)), half(RightHalf(pieces[1].curve))>>
                           \o Tail(pieces)
         /\ UNCHANGED <<path, next, current, output, result>>

TooDeep == /\ AtPiece /\ ~Flat(pieces[1].curve) /\ pieces[1].depth >= MaxDepth
           /\ result' = "LimitExceeded"
           /\ UNCHANGED <<path, next, current, pieces, output>>

Close == /\ AtSegment("close")
         /\ current' = [current EXCEPT ![1].closed = TRUE]
         /\ next' = next + 1
         /\ UNCHANGED <<path, pieces, output, result>>

FinishPath == /\ result = "none" /\ pieces = <<>> /\ next > Len(path)
              /\ output' = output \o FinishedAll
              /\ current' = <<>>
              /\ result' = "Ok"
              /\ UNCHANGED <<path, next, pieces>>

Next == \/ MoveTo \/ LineTo \/ CurveTo \/ Close
        \/ EmitChord \/ Split \/ TooDeep
        \/ FinishPath

Spec == Init /\ [][Next]_vars

-----------------------------------------------------------------------------
(* What is asked of a subpath                                              *)

Orientation(a, b, c) == Cross(Minus(b, a), Minus(c, a))

InBox(p, a, b) == \A k \in 1 .. 2 : \/ a[k] <= p[k] /\ p[k] <= b[k]
                                    \/ b[k] <= p[k] /\ p[k] <= a[k]

On(p, edge) == Orientation(edge[1], edge[2], p) = 0 /\ InBox(p, edge[1], edge[2])

\* The ends of edge f are on different sides of edge e's line.
Parts(e, f) == (Orientation(e[1], e[2], f[1]) > 0) # (Orientation(e[1], e[2], f[2]) > 0)

SegmentsIntersect(e, f) == \/ \E k \in 1 .. 2 : On(f[k], e) \/ On(e[k], f)
                           \/ Parts(e, f) /\ Parts(f, e)

Edges(points) ==
  [i \in DOMAIN points |-> <<points[i], points[IF i = Len(points) THEN 1 ELSE i + 1]>>]

Collinear(points) ==
  \A i, j \in DOMAIN points : Orientation(points[1], points[i], points[j]) = 0

\* is_simple_fill_boundary: only edges that are not neighbours are compared, and
\* none of an outline that has too many.
IntersectionWorkCap == 4000000
SimpleBoundary(points) ==
  \/ Len(points) < 3 \/ Collinear(points)
  \/ /\ Len(points) <= MaxEdges /\ Len(points) * Len(points) <= IntersectionWorkCap
     /\ \A i, j \in DOMAIN points :
          i + 1 < j /\ ~(i = 1 /\ j = Len(points)) =>
             ~SegmentsIntersect(Edges(points)[i], Edges(points)[j])

\* A ray from p towards growing x meets the edge.
RayMeets(p, edge) ==
  LET rise == edge[2][2] - edge[1][2]
      side == Orientation(edge[1], edge[2], p)
  IN /\ (edge[1][2] > p[2]) # (edge[2][2] > p[2])
     /\ IF rise > 0 THEN side > 0 ELSE side < 0

PointInPolygon(p, points) ==
  Cardinality({i \in DOMAIN points : RayMeets(p, Edges(points)[i])}) % 2 = 1

MeetAtEdges(left, right) ==
  \E i \in DOMAIN left, j \in DOMAIN right :
    SegmentsIntersect(Edges(left)[i], Edges(right)[j])
Meet(left, right) ==
  \/ \E i \in DOMAIN left, j \in DOMAIN right :
       SegmentsIntersect(Edges(left)[i], Edges(right)[j])
  \/ PointInPolygon(Head(left), right)
  \/ PointInPolygon(Head(right), left)

Pairs(subpaths) == {pair \in (DOMAIN subpaths) \X (DOMAIN subpaths) : pair[1] < pair[2]}

\* compound_subpaths_are_disjoint
Disjoint(subpaths) ==
  LET points(i) == subpaths[i].points
  IN /\ \A i \in DOMAIN subpaths : /\ Len(points(i)) >= 3 /\ ~Collinear(points(i))
                                   /\ SimpleBoundary(points(i))
     /\ FoldSet(LAMBDA pair, work : work + Len(points(pair[1])) * Len(points(pair[2])),
                0, Pairs(subpaths)) <= MaxWork
     /\ \A pair \in Pairs(subpaths) : ~Meet(points(pair[1]), points(pair[2]))

Low(points, k)  == Min({points[i][k] : i \in DOMAIN points})
High(points, k) == Max({points[i][k] : i \in DOMAIN points})

\* bounds, as the corners of the box.
LowCorner(points)  == <<Low(points, 1), Low(points, 2)>>
HighCorner(points) == <<High(points, 1), High(points, 2)>>

RectangleCorners(points) ==
  LET low == LowCorner(points)  high == HighCorner(points)
  IN <<low, <<high[1], low[2]>>, high, <<low[1], high[2]>>>>

DiamondCorners(points) ==
  LET low == LowCorner(points)  high == HighCorner(points)  middle == Midpoint(low, high)
  IN <<<<middle[1], low[2]>>, <<high[1], middle[2]>>, <<middle[1], high[2]>>,
       <<low[1], middle[2]>>>>

IsRectangle(points) ==
  /\ Len(points) = 4
  /\ \A k \in 1 .. 2 : Low(points, k) < High(points, k)
  /\ ToSet(points) = ToSet(RectangleCorners(points))

IsDiamond(points) == Len(points) = 4 /\ ToSet(points) = ToSet(DiamondCorners(points))

\* The native figure lower_subpath makes of a subpath.
Figure(subpath) == CASE ~subpath.closed -> "other"
                     [] IsRectangle(subpath.points) -> "rectangle"
                     [] IsDiamond(subpath.points) -> "diamond"
                     [] OTHER -> "other"

-----------------------------------------------------------------------------
(* Correctness                                                             *)

TypeOK ==
  /\ WellFormed(path) /\ next \in 1 .. Len(path) + 1
  /\ Len(current) <= 1
  /\ \A subpath \in ToSet(current \o output) :
       /\ subpath.closed \in BOOLEAN /\ subpath.curved \in BOOLEAN
       /\ subpath.points \in Seq(Point) /\ Len(subpath.points) \in 1 .. MaxPoints
  /\ \A i \in DOMAIN pieces : pieces[i].depth \in 0 .. MaxDepth
  /\ Len(pieces) <= MaxDepth + 1
  /\ result \in {"none", "Ok", "LimitExceeded"}

\* The distance from p to the chord itself, ends included, is at most d.
NearChord(p, start, end, d) ==
  LET chord  == Minus(end, start)
      cross  == Cross(chord, Minus(p, start))
      within(q) == Dot(Minus(p, q), Minus(p, q)) <= d * d
  IN CASE Dot(Minus(p, start), chord) <= 0 -> within(start)
       [] Dot(Minus(p, end), chord) >= 0 -> within(end)
       [] OTHER -> cross * cross <= d * d * Dot(chord, chord)

\* The curve after k eighths of its parameter, rounded down to the grid.
CurvePoint(curve, k) ==
  LET weight == IF Len(curve) = 3 THEN <<(8 - k) ^ 2, 2 * k * (8 - k), k ^ 2>>
                ELSE <<(8 - k) ^ 3, 3 * k * (8 - k) ^ 2, 3 * k ^ 2 * (8 - k), k ^ 3>>
      along(axis) == FoldFunction(+, 0, [i \in DOMAIN curve |-> weight[i] * curve[i][axis]])
                       \div 8 ^ (Len(curve) - 1)
  IN <<along(1), along(2)>>
Rounding == 2

\* The controls of the curve lie one after the other along its chord, so that
\* it never runs past its ends: distance_to_line measures to the whole line,
\* which says nothing of a curve that overshoots or doubles back.
Progressive(curve) ==
  LET reach(i) == Dot(Minus(curve[i], Head(curve)), Minus(Last(curve), Head(curve)))
  IN /\ Head(curve) # Last(curve)
     /\ \A i \in 1 .. Len(curve) - 1 : reach(i) <= reach(i + 1)

TheCurve == <<path[1].to>> \o path[2].controls \o <<path[2].to>>

\* A curve is "flattened within the configured error bound" (the diagnostic of
\* lower_path): every point of it is within the tolerance of a chord, and the
\* chords lead from its start to its end.
Follows(points, curve) ==
  /\ Head(points) = Head(curve) /\ Last(points) = Last(curve)
  /\ \A k \in 1 .. 7 : \E i \in DOMAIN points :
       NearChord(CurvePoint(curve, k), points[i], points[Min({i + 1, Len(points)})],
                 Tolerance + Rounding)

CurveFollowed ==
  result = "Ok" /\ Len(path) = 2 /\ path[2].op = "curve" =>
    (Progressive(TheCurve) => Follows(output[1].points, TheCurve))

\* The subpaths as convex polygons with room between them: of two, some edge of
\* one of them is parallel to a line that has them on different sides.
Following(points, i) == points[(i % Len(points)) + 1]
Convex(points) ==
  /\ Len(points) >= 3
  /\ \/ \A i \in DOMAIN points, p \in ToSet(points) :
          Orientation(points[i], Following(points, i), p) >= 0
     \/ \A i \in DOMAIN points, p \in ToSet(points) :
          Orientation(points[i], Following(points, i), p) <= 0
  /\ ~Collinear(points)

SeparatedAlong(edge, left, right) ==
  LET heights(points) == {Orientation(edge[1], edge[2], p) : p \in ToSet(points)}
  IN \/ Max(heights(left)) < Min(heights(right))
     \/ Max(heights(right)) < Min(heights(left))
Apart(left, right) == \E edge \in ToSet(Edges(left)) \cup ToSet(Edges(right)) :
                        SeparatedAlong(edge, left, right)

\* A compound fill may be drawn as polygons of their own only if no two of them
\* overlap, touch or lie in each other (one would be a hole): of convex
\* outlines the code's edge and containment tests accept exactly those that a
\* line separates, within its budget of comparisons.  An open outline that is
\* led back to its start is excluded: finish_subpath keeps its last point, which
\* is_simple_fill_boundary then takes for a crossing.
FillsApart ==
  result = "Ok" /\ (\A i \in DOMAIN output : /\ Convex(output[i].points)
                                            /\ Head(output[i].points) # Last(output[i].points)) =>
    LET points(i) == output[i].points
        work == FoldSet(LAMBDA pair, sum : sum + Len(points(pair[1])) * Len(points(pair[2])),
                        0, Pairs(output))
    IN Disjoint(output) <=>
         /\ work <= MaxWork /\ \A i \in DOMAIN output : Len(points(i)) <= MaxEdges
         /\ \A pair \in Pairs(output) : Apart(points(pair[1]), points(pair[2]))

\* The corners of an outline, its start named once.
Loop(points) == IF Len(points) > 1 /\ Head(points) = Last(points) THEN Front(points) ELSE points

\* Rectangles by their sides and diamonds by their diagonals.
Level(p, q, axis) == p # q /\ p[axis] = q[axis]
DrawnRectangle(points) ==
  /\ Len(points) = 4
  /\ \E first \in 1 .. 2 : \A i \in 1 .. 4 :
       Level(points[i], Following(points, i), IF i % 2 = 0 THEN first ELSE 3 - first)
DrawnDiamond(points) ==
  /\ Len(points) = 4
  /\ \E axis \in 1 .. 2 : /\ Level(points[1], points[3], axis)
                           /\ Level(points[2], points[4], 3 - axis)
  /\ Midpoint(points[1], points[3]) = Midpoint(points[2], points[4])

\* "Visual geometry drives recognition" (specs/svg-mapping-design.md): a closed
\* subpath becomes a native rectangle or diamond exactly when its outline is
\* one, however its segments and its closing point are written.  Outlines that
\* cross themselves are excluded: of a filled one lower_path makes an island,
\* and a stroked one is not told from its corners.
FigureExact ==
  result = "Ok" =>
    \A subpath \in ToSet(output) :
      LET points == Loop(subpath.points)
      IN subpath.closed /\ ~Collinear(points) /\ SimpleBoundary(points) =>
           /\ Figure(subpath) = "rectangle" <=> DrawnRectangle(points)
           /\ Figure(subpath) = "diamond" <=> DrawnDiamond(points)
=============================================================================
