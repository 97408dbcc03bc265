--------------------------- MODULE MCPathGeometry ---------------------------
(* PathGeometry.tla at a size TLC can exhaust.                             *)
EXTENDS PathGeometry

CONSTANT Cells   \* the grid has Cells + 1 columns and rows

Unit == 64
Grid == {<<Unit * x, Unit * y>> : x, y \in 0 .. Cells}

Move(p)  == [op |-> "move", to |-> p]
Line(p)  == [op |-> "line", to |-> p]
Curve(controls, p) == [op |-> "curve", controls |-> controls, to |-> p]
Closing  == [op |-> "close"]

SingleCurves == {<<Move(s), Curve(<<c>>, e)>> : s, c, e \in Grid}
                  \cup {<<Move(s), Curve(<<a, b>>, e)>> : s, a, b, e \in Grid}

\* Straight outlines, on a grid of even numbers: an outline is a sequence of
\* corners, drawn as one subpath.
Outline(corners, end) ==
  <<Move(corners[1])>> \o [i \in 1 .. Len(corners) - 1 |-> Line(corners[i + 1])] \o end

Corners == {<<2 * x, 2 * y>> : x, y \in 0 .. 3}
Opposite == {pair \in Corners \X Corners : \A k \in 1 .. 2 : pair[1][k] # pair[2][k]}
Triangles  == {<<d[1], <<d[2][1], d[1][2]>>, <<d[1][1], d[2][2]>>>> : d \in Opposite}
Rectangles == {<<d[1], <<d[2][1], d[1][2]>>, d[2], <<d[1][1], d[2][2]>>>> :
                 d \in {d \in Opposite : \A k \in 1 .. 2 : d[1][k] < d[2][k]}}
Tips == {<<<<2, 0>>, <<4, 2>>, <<2, 4>>, <<0, 2>>>>, <<<<4, 2>>, <<6, 4>>, <<4, 6>>, <<2, 4>>>>}

Couples == {<<a, b>> : a \in Rectangles, b \in Rectangles \cup Triangles \cup Tips}
             \cup {<<a, b>> : a \in Triangles \cup Tips, b \in Rectangles \cup Tips}
             \cup {<<a, b>> : a \in {t \in Triangles : t[1] = <<2, 2>>}, b \in Triangles}
Compounds ==
  {Outline(couple[1], <<Closing>>) \o Outline(couple[2], <<>>) : couple \in Couples}
    \cup {Outline(a, <<>>) \o Outline(b, <<Closing>>) \o Outline(c, <<Closing>>) :
            a, b, c \in {r \in Rectangles : r[3] = <<r[1][1] + 2, r[1][2] + 2>>
                                              /\ r[1] \in {<<0, 0>>, <<4, 0>>, <<4, 4>>}}}

\* All closed subpaths of four corners, with and without a line back.
Quadrilaterals ==
  LET grid == {<<2 * x, 2 * y>> : x, y \in 0 .. 2}
  IN {Outline(<<a, b, c, d>>, <<Closing>>) :
        a \in {<<0, 0>>, <<2, 0>>, <<2, 2>>}, b, c, d \in grid}
     \cup {Outline(<<a, b, c, d, a>>, <<Closing>>) : a \in {<<0, 2>>, <<4, 4>>}, b, c, d \in grid}

\* A curve after a line, closed, with more points than there is room for.
Mixed == {Outline(<<<<0, 0>>, <<0, Unit>>, <<Unit, Unit>>>>,
                  <<Curve(<<c, d>>, <<0, 0>>), Closing>>) : c, d \in Grid}

AllPaths == SingleCurves \cup Compounds \cup Quadrilaterals \cup Mixed
=============================================================================
