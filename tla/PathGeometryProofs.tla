------------------------- MODULE PathGeometryProofs -------------------------
(***************************************************************************)
(* Theorems of PathGeometry.tla, for any set of paths over the integers    *)
(* and any limits: what flatten_path keeps, and that the native figures of *)
(* lower_subpath are those that were drawn.                                *)
(***************************************************************************)
EXTENDS PathGeometry, Induction, TLAPS

-----------------------------------------------------------------------------
(* What the operators return.                                              *)

LEMMA MidpointTyped ==
  ASSUME NEW p \in Point, NEW q \in Point
  PROVE  Midpoint(p, q) \in Point
BY DEF Midpoint, Point

\* Halving lies between, and moves nothing that is level.
LEMMA Halving ==
  ASSUME NEW a \in Int, NEW b \in Int
  PROVE  /\ (a + b) \div 2 \in Int
         /\ 2 * ((a + b) \div 2) <= a + b /\ a + b <= 2 * ((a + b) \div 2) + 1
OBVIOUS

LEMMA AppendFreshKeeps ==
  ASSUME NEW points \in Seq(Point), NEW p \in Point
  PROVE  /\ AppendFresh(points, p) \in Seq(Point) \ {<<>>}
         /\ Len(AppendFresh(points, p)) <= Len(points) + 1
         /\ Last(AppendFresh(points, p)) = p
         /\ points # <<>> => Head(AppendFresh(points, p)) = Head(points)
         /\ points = <<>> => Head(AppendFresh(points, p)) = p
<1>1. CASE points # <<>> /\ Last(points) = p
  BY <1>1 DEF AppendFresh
<1>2. CASE ~(points # <<>> /\ Last(points) = p)
  <2>1. AppendFresh(points, p) = Append(points, p)
    BY <1>2 DEF AppendFresh
  <2>2. QED
    BY <2>1 DEF Last
<1>3. QED
  BY <1>1, <1>2

\* finish_subpath's deduplication: no point is left beside itself, and the
\* outline begins where it began.
Fresh(points) == \A i \in 1 .. Len(points) - 1 : points[i] # points[i + 1]

LEMMA AppendFreshFresh ==
  ASSUME NEW points \in Seq(Point), NEW p \in Point, Fresh(points)
  PROVE  Fresh(AppendFresh(points, p))
BY DEF AppendFresh, Fresh, Last

LEMMA DistinctKeeps ==
  ASSUME NEW points \in Seq(Point)
  PROVE  /\ Distinct(points) \in Seq(Point) /\ Len(Distinct(points)) <= Len(points)
         /\ Fresh(Distinct(points))
         /\ points # <<>> => Distinct(points) # <<>> /\ Head(Distinct(points)) = Head(points)
<1> DEFINE m == Len(points)
           T == Seq(Point)
           step == [n \in 1 .. m |-> [seen \in T |-> AppendFresh(seen, points[n])]]
           kept == CHOOSE g : g = [n \in 0 .. m |-> IF n = 0 THEN <<>>
                                                   ELSE AppendFresh(g[n - 1], points[n])]
           S == {n \in 0 .. m : /\ kept[n] \in T /\ Len(kept[n]) <= n /\ Fresh(kept[n])
                                /\ n > 0 => kept[n] # <<>> /\ Head(kept[n]) = Head(points)}
<1>1. m \in Nat /\ \A n \in 1 .. m : points[n] \in Point
  BY SeqElements
<1>2. Distinct(points) = kept[m]
  BY DEF Distinct
<1>3. step \in [1 .. m -> [T -> T]] /\ <<>> \in T
  <2>1. \A n \in 1 .. m, seen \in T : AppendFresh(seen, points[n]) \in T
    BY <1>1, AppendFreshKeeps
  <2> HIDE DEF m
  <2>2. QED
    BY <2>1
<1>4. \E h \in [0 .. m -> T] : h = [n \in 0 .. m |-> IF n = 0 THEN <<>>
                                               ELSE AppendFresh(h[n - 1], points[n])]
  <2> HIDE DEF m, T, step
  <2>1. step \in Steps(T, m)
    BY <1>3 DEF Steps
  <2>2. PICK h : Recurses(h, T, <<>>, m, step)
    BY <1>1, <1>3, <2>1, RecursionExists, Zenon
  <2>3. \A n \in 1 .. m : h[n - 1] \in T /\ h[n] = step[n][h[n - 1]]
    BY <1>1, <2>2 DEF Recurses
  <2>4. \A n \in 1 .. m : h[n] = AppendFresh(h[n - 1], points[n])
    BY <2>3 DEF step
  <2>5. QED
    BY <2>2, <2>4, <1>1 DEF Recurses
<1>5. kept = [n \in 0 .. m |-> IF n = 0 THEN <<>> ELSE AppendFresh(kept[n - 1], points[n])]
  <2> HIDE DEF m, T
  <2>1. QED
    BY <1>4
<1> HIDE DEF kept
<1>6. 0 \in S
  BY <1>1, <1>5 DEF Fresh
<1>7. \A n \in 0 .. m - 1 : n \in S => n + 1 \in S
  <2> SUFFICES ASSUME NEW n \in 0 .. m - 1, n \in S PROVE n + 1 \in S
    OBVIOUS
  <2>1. n + 1 \in 1 .. m /\ (n + 1) - 1 = n /\ points[n + 1] \in Point
    BY <1>1
  <2>2. kept[n + 1] = AppendFresh(kept[n], points[n + 1])
    BY <1>5, <2>1
  <2>3. kept[n] \in T /\ Len(kept[n]) <= n /\ Fresh(kept[n])
    OBVIOUS
  <2>4. kept[n + 1] \in T /\ kept[n + 1] # <<>> /\ Len(kept[n + 1]) <= n + 1
    <3>1. Len(kept[n]) \in Nat
      BY <2>3
    <3>2. /\ AppendFresh(kept[n], points[n + 1]) \in Seq(Point) \ {<<>>}
          /\ Len(AppendFresh(kept[n], points[n + 1])) <= Len(kept[n]) + 1
      BY <2>1, <2>3, AppendFreshKeeps
    <3> HIDE DEF S, m
    <3>3. Len(AppendFresh(kept[n], points[n + 1])) \in Nat
      BY <3>2
    <3>4. n \in Int
      OBVIOUS
    <3>5. Len(AppendFresh(kept[n], points[n + 1])) <= n + 1
      BY <2>3, <3>1, <3>2, <3>3, <3>4
    <3>6. QED
      BY <2>2, <3>2, <3>5
  <2>5. Fresh(kept[n + 1])
    BY <2>1, <2>2, <2>3, AppendFreshFresh
  <2>6. Head(kept[n + 1]) = Head(points)
    <3>1. CASE kept[n] = <<>>
      <4>1. n = 0
        BY <3>1, <2>1
      <4>2. points[n + 1] = Head(points)
        BY <2>1, <4>1
      <4>3. Head(AppendFresh(kept[n], points[n + 1])) = points[n + 1]
        BY <2>1, <2>3, <3>1, AppendFreshKeeps
      <4>4. QED
        BY <2>2, <4>2, <4>3
    <3>2. CASE kept[n] # <<>>
      <4>1. n # 0
        BY <3>2, <1>5, <1>1
      <4>2. Head(kept[n]) = Head(points)
        BY <4>1
      <4>3. QED
        BY <2>1, <2>2, <2>3, <3>2, <4>2, AppendFreshKeeps
    <3>3. QED
      BY <3>1, <3>2
  <2>7. QED
    BY <2>1, <2>4, <2>5, <2>6
<1> HIDE DEF S, m
<1>8. 0 .. m \subseteq S
  BY <1>1, <1>6, <1>7, IntervalInduction
<1>9. QED
  <2>1. m \in S
    BY <1>1, <1>8
  <2>2. QED
    BY <1>2, <2>1 DEF S, m

\* A finished subpath has no point beside itself, nor, if it is closed, its
\* first point again at the end.
Subpaths == {s \in [points : Seq(Point), closed : BOOLEAN, curved : BOOLEAN] :
               Len(s.points) \in 1 .. MaxPoints}
Proper(s) == Fresh(s.points) /\ (s.closed => Head(s.points) # Last(s.points))

LEMMA FinishedProper ==
  ASSUME NEW s \in Subpaths, Finished(s).points # <<>>
  PROVE  Finished(s) \in Subpaths /\ Proper(Finished(s))
<1> DEFINE kept == Distinct(s.points)
<1>1. /\ s.points \in Seq(Point) /\ Len(s.points) \in Nat /\ s.points # <<>>
      /\ s.closed \in BOOLEAN /\ s.curved \in BOOLEAN
      /\ Len(s.points) <= MaxPoints /\ MaxPoints \in Nat
  BY LimitsAssumption DEF Subpaths
<1>2. kept \in Seq(Point) /\ Len(kept) <= Len(s.points) /\ Fresh(kept) /\ kept # <<>>
  BY <1>1, DistinctKeeps
<1> DEFINE points == IF s.closed /\ Head(kept) = Last(kept) THEN Front(kept) ELSE kept
<1>3. Finished(s) = [points |-> points, closed |-> s.closed, curved |-> s.curved]
  <2>1. s = [points |-> s.points, closed |-> s.closed, curved |-> s.curved]
    BY DEF Subpaths
  <2>2. Finished(s) = [s EXCEPT !.points = points]
    BY DEF Finished
  <2> HIDE DEF points
  <2>3. QED
    BY <2>1, <2>2
<1> HIDE DEF kept
<1>4. points # <<>>
  BY <1>3
<1>5. points \in Seq(Point) /\ Len(points) <= Len(kept) /\ Fresh(points)
  BY <1>2 DEF Front, Fresh
<1>6. s.closed => Head(points) # Last(points)
  <2>1. CASE Head(kept) = Last(kept) /\ s.closed
    <3>1. points = Front(kept) /\ Len(kept) >= 2
      BY <2>1, <1>2, <1>4 DEF Front
    <3>2. Last(points) = kept[Len(kept) - 1] /\ Head(points) = Head(kept)
      BY <1>2, <3>1 DEF Front, Last
    <3>3. kept[Len(kept) - 1] # Last(kept)
      BY <1>2, <3>1 DEF Fresh, Last
    <3>4. QED
      BY <2>1, <3>2, <3>3
  <2>2. QED
    BY <2>1
<1> HIDE DEF points
<1>7. Len(points) \in 1 .. MaxPoints
  BY <1>1, <1>2, <1>4, <1>5
<1>8. QED
  BY <1>1, <1>3, <1>5, <1>6, <1>7 DEF Subpaths, Proper

\* The halves of a curve are curves of as many points.
Curves == [1..3 -> Point] \cup [1..4 -> Point]

LEMMA HalvingsTyped ==
  ASSUME NEW curve \in Curves
  PROVE  \A k \in 0 .. Len(curve) - 1 : Halvings(curve)[k] \in [1 .. Len(curve) - k -> Point]
<1> DEFINE m == Len(curve)
           Row(s, n) == [i \in 1 .. m - n |-> Midpoint(s[i], s[i + 1])]
           r1 == Row(curve, 1)
           r2 == Row(r1, 2)
           r3 == Row(r2, 3)
           h == [k \in 0 .. m - 1 |-> IF k = 0 THEN curve ELSE IF k = 1 THEN r1
                                     ELSE IF k = 2 THEN r2 ELSE r3]
           H == CHOOSE g : g = [k \in 0 .. m - 1 |->
                                  IF k = 0 THEN curve
                                  ELSE [i \in 1 .. m - k |-> Midpoint(g[k - 1][i], g[k - 1][i + 1])]]
<1>1. m \in {3, 4} /\ curve \in [1 .. m -> Point]
  <2>1. CASE curve \in [1..3 -> Point]
    <3>1. m = 3
      BY <2>1
    <3>2. QED
      BY <2>1, <3>1
  <2>2. CASE curve \in [1..4 -> Point]
    <3>1. m = 4
      BY <2>2
    <3>2. QED
      BY <2>2, <3>1
  <2>3. QED
    BY <2>1, <2>2 DEF Curves
<1>2. Halvings(curve) = H
  BY DEF Halvings
<1> HIDE DEF m
<1>3. \A n \in 1 .. m - 1 : \A s \in [1 .. m - (n - 1) -> Point] : Row(s, n) \in [1 .. m - n -> Point]
  <2> SUFFICES ASSUME NEW n \in 1 .. m - 1, NEW s \in [1 .. m - (n - 1) -> Point],
                      NEW i \in 1 .. m - n
               PROVE  Midpoint(s[i], s[i + 1]) \in Point
    OBVIOUS
  <2>1. i \in 1 .. m - (n - 1) /\ i + 1 \in 1 .. m - (n - 1)
    BY <1>1
  <2>2. s[i] \in Point /\ s[i + 1] \in Point
    BY <2>1
  <2>3. QED
    BY <2>2, MidpointTyped
<1> HIDE DEF Row
<1>4. h = [k \in 0 .. m - 1 |-> IF k = 0 THEN curve ELSE Row(h[k - 1], k)]
  <2> SUFFICES ASSUME NEW k \in 0 .. m - 1
               PROVE  h[k] = IF k = 0 THEN curve ELSE Row(h[k - 1], k)
    BY Zenon DEF h
  <2> HIDE DEF r1, r2, r3
  <2>1. h[0] = curve /\ h[1] = r1 /\ h[2] = r2 /\ (m = 4 => h[3] = r3)
    BY <1>1
  <2>2. k = 0 \/ k = 1 \/ k = 2 \/ (k = 3 /\ m = 4)
    BY <1>1
  <2> HIDE DEF h
  <2>3. QED
    BY <2>1, <2>2 DEF r1, r2, r3
<1> HIDE DEF h
<1>5. H = [k \in 0 .. m - 1 |-> IF k = 0 THEN curve ELSE Row(H[k - 1], k)]
  BY <1>4 DEF Row
<1> HIDE DEF H
<1>6. /\ H[0] = curve /\ H[1] = Row(H[0], 1) /\ H[2] = Row(H[1], 2)
      /\ m = 4 => H[3] = Row(H[2], 3)
  BY <1>1, <1>5
<1>7. H[0] \in [1 .. m - 0 -> Point] /\ H[1] \in [1 .. m - 1 -> Point]
      /\ H[2] \in [1 .. m - 2 -> Point] /\ (m = 4 => H[3] \in [1 .. m - 3 -> Point])
  <2>1. H[0] \in [1 .. m - 0 -> Point] /\ H[0] \in [1 .. m - (1 - 1) -> Point]
    BY <1>1, <1>6
  <2>2. H[1] \in [1 .. m - 1 -> Point] /\ H[1] \in [1 .. m - (2 - 1) -> Point]
    BY <1>1, <1>6, <1>3, <2>1
  <2>3. H[2] \in [1 .. m - 2 -> Point] /\ H[2] \in [1 .. m - (3 - 1) -> Point]
    BY <1>1, <1>6, <1>3, <2>2
  <2>4. m = 4 => H[3] \in [1 .. m - 3 -> Point]
    BY <1>1, <1>6, <1>3, <2>3
  <2>5. QED
    BY <2>1, <2>2, <2>3, <2>4
<1>8. \A k \in 0 .. m - 1 : k = 0 \/ k = 1 \/ k = 2 \/ (k = 3 /\ m = 4)
  BY <1>1
<1>9. QED
  BY <1>2, <1>7, <1>8 DEF m

LEMMA Surrounded ==
  ASSUME NEW p \in Point, NEW controls \in Seq(Point), NEW q \in Point,
         Len(controls) = 1 \/ Len(controls) = 2
  PROVE  <<p>> \o controls \o <<q>> \in Curves
<1> DEFINE curve == <<p>> \o controls \o <<q>>
<1>1. /\ <<p>> \in Seq(Point) /\ Len(<<p>>) = 1
      /\ <<q>> \in Seq(Point) /\ Len(<<q>>) = 1
  OBVIOUS
<1>2. <<p>> \o controls \in Seq(Point) /\ Len(<<p>> \o controls) = 1 + Len(controls)
  BY <1>1
<1>3. curve \in Seq(Point) /\ Len(curve) = Len(controls) + 2
  BY <1>1, <1>2
<1> HIDE DEF curve
<1>4. curve \in [1..3 -> Point] \/ curve \in [1..4 -> Point]
  <2>1. Len(curve) = 3 \/ Len(curve) = 4
    <3>1. Len(curve) = 1 + 2 \/ Len(curve) = 2 + 2
      BY <1>3, Zenon
    <3>2. 1 + 2 = 3 /\ 2 + 2 = 4
      OBVIOUS
    <3>3. QED
      BY <3>1, <3>2, Zenon
  <2>2. QED
    BY <1>3, <2>1
<1>5. QED
  BY <1>4 DEF Curves, curve

LEMMA CurveTyped ==
  ASSUME NEW p \in Point, NEW controls \in [1..1 -> Point] \cup [1..2 -> Point], NEW q \in Point
  PROVE  <<p>> \o controls \o <<q>> \in Curves
<1> DEFINE c == controls[1]
           d == controls[2]
<1>1. CASE controls \in [1..1 -> Point]
  <2>1. controls = <<c>> /\ c \in Point
    BY <1>1
  <2> HIDE DEF c
  <2>2. controls \in Seq(Point) /\ Len(controls) = 1
    BY <2>1
  <2>3. QED
    BY <2>2, Surrounded
<1>2. CASE controls \in [1..2 -> Point]
  <2>1. controls = <<c, d>> /\ c \in Point /\ d \in Point
    BY <1>2
  <2> HIDE DEF c, d
  <2>2. controls \in Seq(Point) /\ Len(controls) = 2
    BY <2>1
  <2>3. QED
    BY <2>2, Surrounded
<1>3. QED
  BY <1>1, <1>2

LEMMA CurveEnds ==
  ASSUME NEW curve \in Curves
  PROVE  Last(curve) \in Point
<1>1. CASE curve \in [1..3 -> Point]
  <2>1. Len(curve) = 3
    BY <1>1
  <2>2. QED
    BY <1>1, <2>1 DEF Last
<1>2. CASE curve \in [1..4 -> Point]
  <2>1. Len(curve) = 4
    BY <1>2
  <2>2. QED
    BY <1>2, <2>1 DEF Last
<1>3. QED
  BY <1>1, <1>2 DEF Curves

LEMMA HalvesTyped ==
  ASSUME NEW curve \in Curves
  PROVE  LeftHalf(curve) \in Curves /\ RightHalf(curve) \in Curves
<1> DEFINE m == Len(curve)
<1>1. m \in {3, 4} /\ DOMAIN curve = 1 .. m
  BY DEF Curves
<1>2. \A k \in 0 .. m - 1 : /\ Head(Halvings(curve)[k]) \in Point
                           /\ Last(Halvings(curve)[k]) \in Point
  <2> SUFFICES ASSUME NEW k \in 0 .. m - 1
               PROVE  /\ Head(Halvings(curve)[k]) \in Point
                      /\ Last(Halvings(curve)[k]) \in Point
    OBVIOUS
  <2>1. Halvings(curve)[k] \in [1 .. m - k -> Point]
    BY HalvingsTyped
  <2> HIDE DEF m
  <2>2. m - k \in Nat /\ m - k >= 1
    BY <1>1
  <2>3. Halvings(curve)[k] \in Seq(Point) /\ Len(Halvings(curve)[k]) = m - k
    BY <2>1, <2>2
  <2>4. QED
    BY <2>1, <2>2, <2>3 DEF Last
<1>3. LeftHalf(curve) \in [1 .. m -> Point]
  <2> HIDE DEF m
  <2>1. \A k \in 1 .. m : k - 1 \in 0 .. m - 1
    BY <1>1
  <2>2. QED
    BY <1>1, <1>2, <2>1 DEF LeftHalf
<1>4. RightHalf(curve) \in [1 .. m -> Point]
  <2>1. \A k \in 1 .. m : m - k \in 0 .. m - 1
    BY <1>1
  <2>2. QED
    BY <1>1, <1>2, <2>1 DEF RightHalf
<1>5. QED
  BY <1>1, <1>3, <1>4 DEF Curves

-----------------------------------------------------------------------------
(* Type correctness.                                                       *)

Pieces == [curve : Curves, depth : 0 .. MaxDepth]

\* A segment that needs an open subpath has one; the pieces of a curve that
\* wait are each less deep than the piece before, so that no more can wait
\* than there are depths; and what is finished is proper.
PathInv ==
  /\ WellFormed(path) /\ next \in 1 .. Len(path) + 1
  /\ current \in Seq(Subpaths) /\ Len(current) <= 1
  /\ result = "none" /\ current = <<>> => next = 1 /\ pieces = <<>>
  /\ pieces \in Seq(Pieces) /\ \A i \in DOMAIN pieces : pieces[i].depth >= Len(pieces) - i
  /\ output \in Seq(Subpaths) /\ \A i \in DOMAIN output : Proper(output[i])
  /\ result \in {"none", "Ok", "LimitExceeded"}

LEMMA PathTyped ==
  ASSUME PathInv
  PROVE  TypeOK
<1>1. current \o output \in Seq(Subpaths)
  BY DEF PathInv
<1>2. ToSet(current \o output) \subseteq Subpaths
  BY <1>1, SeqElements DEF ToSet
<1>3. Len(pieces) <= MaxDepth + 1
  <2>1. CASE pieces = <<>>
    BY <2>1, LimitsAssumption
  <2>2. CASE pieces # <<>>
    <3>1. Len(pieces) \in Nat /\ 1 \in DOMAIN pieces /\ pieces[1] \in Pieces
      BY <2>2 DEF PathInv
    <3>2. pieces[1].depth >= Len(pieces) - 1 /\ pieces[1].depth \in 0 .. MaxDepth
      BY <3>1 DEF PathInv, Pieces
    <3>3. QED
      BY <3>1, <3>2, LimitsAssumption
  <2>3. QED
    BY <2>1, <2>2
<1>4. \A i \in DOMAIN pieces : pieces[i].depth \in 0 .. MaxDepth
  <2>1. pieces \in Seq(Pieces)
    BY DEF PathInv
  <2>2. \A i \in DOMAIN pieces : pieces[i] \in Pieces
    BY <2>1
  <2>3. QED
    BY <2>2 DEF Pieces
<1>5. QED
  BY <1>2, <1>3, <1>4 DEF PathInv, TypeOK, Subpaths

\* What an action takes from the path.
LEMMA SegmentTyped ==
  ASSUME WellFormed(path), NEW n \in 1 .. Len(path)
  PROVE  /\ path[n] \in Segments /\ Len(path) \in Nat
         /\ path[n].op \in {"move", "line"} => path[n].to \in Point
         /\ path[n].op = "curve" =>
              /\ path[n].to \in Point
              /\ path[n].controls \in [1..1 -> Point] \cup [1..2 -> Point]
         /\ path[1].op = "move"
<1>1. path \in Seq(Segments)
  BY DEF WellFormed
<1>2. path[n] \in Segments /\ Len(path) \in Nat /\ 1 \in DOMAIN path
  BY <1>1
<1>3. path[1].op = "move"
  BY <1>2 DEF WellFormed
<1>4. QED
  BY <1>2, <1>3 DEF Segments

LEMMA FinishedAllProper ==
  ASSUME PathInv
  PROVE  /\ output \o FinishedAll \in Seq(Subpaths)
         /\ \A i \in DOMAIN (output \o FinishedAll) : Proper((output \o FinishedAll)[i])
<1>1. FinishedAll \in Seq(Subpaths) /\ \A i \in DOMAIN FinishedAll : Proper(FinishedAll[i])
  <2>1. CASE current # <<>> /\ Finished(current[1]).points # <<>>
    <3>1. FinishedAll = <<Finished(current[1])>> /\ current[1] \in Subpaths
      BY <2>1 DEF FinishedAll, PathInv
    <3>2. Finished(current[1]) \in Subpaths /\ Proper(Finished(current[1]))
      BY <2>1, <3>1, FinishedProper
    <3>3. QED
      BY <3>1, <3>2
  <2>2. CASE ~(current # <<>> /\ Finished(current[1]).points # <<>>)
    <3>1. FinishedAll = <<>>
      BY <2>2 DEF FinishedAll
    <3>2. QED
      BY <3>1
  <2>3. QED
    BY <2>1, <2>2
<1> HIDE DEF FinishedAll
<1>2. output \in Seq(Subpaths) /\ \A i \in DOMAIN output : Proper(output[i])
  BY DEF PathInv
<1>3. QED
  BY <1>1, <1>2

LEMMA One ==
  ASSUME NEW n \in Nat, n <= 1, n # 0
  PROVE  n = 1
OBVIOUS

\* There is at most one open subpath.
LEMMA OpenSubpath ==
  ASSUME PathInv, current # <<>>
  PROVE  /\ current \in Seq(Subpaths) /\ Len(current) = 1 /\ current[1] \in Subpaths
         /\ current[1].points \in Seq(Point) \ {<<>>}
         /\ current[1].closed \in BOOLEAN /\ current[1].curved \in BOOLEAN
<1>1. current \in Seq(Subpaths) /\ Len(current) <= 1
  BY DEF PathInv
<1>2. Len(current) \in Nat /\ Len(current) # 0
  BY <1>1
<1>3. Len(current) = 1 /\ current[1] \in Subpaths
  <2>1. Len(current) = 1
    BY <1>1, <1>2, One, Zenon
  <2>2. QED
    BY <1>1, <2>1
<1>4. QED
  BY <1>1, <1>3 DEF Subpaths

\* A subpath of other points, or with a flag set.
LEMMA SubpathFields ==
  ASSUME NEW s \in Subpaths
  PROVE  /\ \A points \in Seq(Point) :
              Len(points) \in 1 .. MaxPoints => [s EXCEPT !.points = points] \in Subpaths
         /\ [s EXCEPT !.closed = TRUE] \in Subpaths
         /\ [s EXCEPT !.curved = TRUE] \in Subpaths
<1>1. s = [points |-> s.points, closed |-> s.closed, curved |-> s.curved]
  BY DEF Subpaths
<1>2. \A points : [s EXCEPT !.points = points]
                    = [points |-> points, closed |-> s.closed, curved |-> s.curved]
  BY <1>1
<1>3. \A x : /\ [s EXCEPT !.closed = x]
                    = [points |-> s.points, closed |-> x, curved |-> s.curved]
            /\ [s EXCEPT !.curved = x]
                    = [points |-> s.points, closed |-> s.closed, curved |-> x]
  BY <1>1
<1>4. QED
  BY <1>2, <1>3 DEF Subpaths

\* The open subpath, with a point more.
LEMMA PushTyped ==
  ASSUME PathInv, current # <<>>, result = "none", NEW p \in Point, Push(p)
  PROVE  /\ current' \in Seq(Subpaths) /\ Len(current') = 1 /\ current' # <<>>
         /\ result' \in {"none", "Ok", "LimitExceeded"}
<1>1. /\ current \in Seq(Subpaths) /\ Len(current) = 1 /\ current[1] \in Subpaths
      /\ result \in {"none", "Ok", "LimitExceeded"}
  BY OpenSubpath DEF PathInv
<1>2. CASE PointRoom
  <2> DEFINE points == Append(current[1].points, p)
             s == [current[1] EXCEPT !.points = points]
  <2>1. current' = [current EXCEPT ![1] = s] /\ result' = result
    BY <1>2 DEF Push
  <2>2. points \in Seq(Point) /\ Len(points) \in 1 .. MaxPoints
    BY <1>1, <1>2, LimitsAssumption DEF PointRoom, Subpaths
  <2> HIDE DEF points
  <2>3. s \in Subpaths
    BY <1>1, <2>2, SubpathFields
  <2> HIDE DEF s
  <2>4. QED
    BY <1>1, <2>1, <2>3
<1>3. CASE ~PointRoom
  BY <1>1, <1>3 DEF Push
<1>4. QED
  BY <1>2, <1>3

LEMMA PathNext ==
  ASSUME PathInv, Next
  PROVE  PathInv'
<1> DEFINE Rest == /\ pieces' \in Seq(Pieces)
                   /\ \A i \in DOMAIN pieces' : pieces'[i].depth >= Len(pieces') - i
<1>p. /\ WellFormed(path) /\ next \in 1 .. Len(path) + 1 /\ Len(path) \in Nat
      /\ current \in Seq(Subpaths) /\ Len(current) <= 1
      /\ pieces \in Seq(Pieces) /\ \A i \in DOMAIN pieces : pieces[i].depth >= Len(pieces) - i
      /\ output \in Seq(Subpaths) /\ \A i \in DOMAIN output : Proper(output[i])
      /\ result \in {"none", "Ok", "LimitExceeded"}
  BY DEF PathInv, WellFormed
<1>q. result = "none" /\ current = <<>> => next = 1 /\ pieces = <<>>
  BY DEF PathInv
<1>o. result = "none" /\ current # <<>> =>
        /\ Len(current) = 1 /\ current[1] \in Subpaths
        /\ Here \in Point
  BY OpenSubpath DEF Here, Last
<1>s. \A op : AtSegment(op) =>
        /\ result = "none" /\ pieces = <<>> /\ next \in 1 .. Len(path)
        /\ next + 1 \in 1 .. Len(path) + 1
        /\ op # "move" => current # <<>>
  <2> SUFFICES ASSUME NEW op, AtSegment(op)
               PROVE  /\ result = "none" /\ pieces = <<>> /\ next \in 1 .. Len(path)
                      /\ next + 1 \in 1 .. Len(path) + 1
                      /\ op # "move" => current # <<>>
    OBVIOUS
  <2>1. result = "none" /\ pieces = <<>> /\ next \in 1 .. Len(path) /\ path[next].op = op
    BY <1>p DEF AtSegment
  <2>2. path[1].op = "move"
    BY <1>p, <2>1, SegmentTyped
  <2>3. QED
    BY <1>p, <1>q, <2>1, <2>2
<1>1. CASE MoveTo
  <2>1. AtSegment("move") /\ path' = path /\ pieces' = pieces /\ result' = result
        /\ next' = next + 1 /\ output' = output \o FinishedAll
        /\ current' = <<[points |-> <<path[next].to>>, closed |-> FALSE, curved |-> FALSE]>>
    BY <1>1 DEF MoveTo
  <2>2. path[next].to \in Point /\ next + 1 \in 1 .. Len(path) + 1
    BY <1>p, <1>s, <2>1, SegmentTyped DEF AtSegment
  <2> DEFINE s == [points |-> <<path[next].to>>, closed |-> FALSE, curved |-> FALSE]
  <2>3. current' \in Seq(Subpaths) /\ Len(current') = 1
    <3>1. s.points \in Seq(Point) /\ Len(s.points) \in 1 .. MaxPoints
      BY <2>2, LimitsAssumption
    <3>2. s \in Subpaths
      BY <3>1 DEF Subpaths
    <3> HIDE DEF s
    <3>3. current' = <<s>>
      BY <2>1 DEF s
    <3>4. QED
      BY <3>2, <3>3
  <2>4. output' \in Seq(Subpaths) /\ \A i \in DOMAIN output' : Proper(output'[i])
    BY <2>1, FinishedAllProper
  <2>5. QED
    BY <1>p, <2>1, <2>2, <2>3, <2>4 DEF PathInv
<1>2. CASE LineTo
  <2>1. AtSegment("line") /\ path' = path /\ pieces' = pieces /\ output' = output
        /\ next' = next + 1
    BY <1>2 DEF LineTo
  <2>2. result = "none" /\ current # <<>> /\ path[next].to \in Point
        /\ next + 1 \in 1 .. Len(path) + 1
    BY <1>p, <1>s, <2>1, SegmentTyped DEF AtSegment
  <2>3. current' \in Seq(Subpaths) /\ Len(current') = 1
        /\ result' \in {"none", "Ok", "LimitExceeded"}
    <3>1. CASE path[next].to = Here
      BY <1>p, <1>o, <1>2, <2>2, <3>1 DEF LineTo
    <3>2. CASE path[next].to # Here
      <4>1. Push(path[next].to)
        BY <1>2, <3>2 DEF LineTo
      <4>2. QED
        BY <2>2, <4>1, PushTyped
    <3>3. QED
      BY <3>1, <3>2
  <2>4. QED
    BY <1>p, <2>1, <2>2, <2>3 DEF PathInv
<1>3. CASE CurveTo
  <2> DEFINE curve == <<Here>> \o path[next].controls \o <<path[next].to>>
             s == [current[1] EXCEPT !.curved = TRUE]
  <2>1. AtSegment("curve") /\ path' = path /\ output' = output /\ next' = next + 1
        /\ result' = result /\ pieces' = <<[curve |-> curve, depth |-> 0]>>
        /\ current' = [current EXCEPT ![1] = s]
    BY <1>3 DEF CurveTo
  <2>2. /\ result = "none" /\ current # <<>> /\ path[next].to \in Point
        /\ path[next].controls \in [1..1 -> Point] \cup [1..2 -> Point]
        /\ next + 1 \in 1 .. Len(path) + 1
    BY <1>p, <1>s, <2>1, SegmentTyped DEF AtSegment
  <2>3. curve \in Curves
    BY <1>o, <2>2, CurveTyped
  <2>4. s \in Subpaths
    BY <1>o, <2>2, SubpathFields
  <2> HIDE DEF curve, s
  <2>5. current' \in Seq(Subpaths) /\ Len(current') = 1
    BY <1>p, <1>o, <2>1, <2>2, <2>4
  <2>6. [curve |-> curve, depth |-> 0] \in Pieces
    BY <2>3, LimitsAssumption DEF Pieces
  <2>7. pieces' \in Seq(Pieces) /\ Len(pieces') = 1 /\ pieces'[1].depth = 0
    BY <2>1, <2>6
  <2>8. QED
    BY <1>p, <2>1, <2>2, <2>5, <2>7 DEF PathInv
<1>4. CASE Close
  <2> DEFINE s == [current[1] EXCEPT !.closed = TRUE]
  <2>1. AtSegment("close") /\ path' = path /\ pieces' = pieces /\ output' = output
        /\ next' = next + 1 /\ result' = result /\ current' = [current EXCEPT ![1] = s]
    BY <1>4 DEF Close
  <2>2. result = "none" /\ current # <<>> /\ next + 1 \in 1 .. Len(path) + 1
    <3> HIDE DEF s
    <3>1. AtSegment("close") /\ "close" # "move"
      BY <2>1
    <3>2. QED
      BY <1>p, <1>s, <3>1 DEF AtSegment
  <2>3. s \in Subpaths
    BY <1>o, <2>2, SubpathFields
  <2> HIDE DEF s
  <2>4. current' \in Seq(Subpaths) /\ Len(current') = 1
    BY <1>p, <1>o, <2>1, <2>2, <2>3
  <2>5. QED
    BY <1>p, <2>1, <2>2, <2>4 DEF PathInv
<1>a. AtPiece => /\ result = "none" /\ current # <<>> /\ pieces # <<>>
                 /\ Len(pieces) \in Nat \ {0} /\ Tail(pieces) \in Seq(Pieces)
                 /\ pieces[1].curve \in Curves /\ pieces[1].depth \in 0 .. MaxDepth
                 /\ Last(pieces[1].curve) \in Point
  <2> SUFFICES ASSUME AtPiece
               PROVE  /\ result = "none" /\ current # <<>> /\ pieces # <<>>
                      /\ Len(pieces) \in Nat \ {0} /\ Tail(pieces) \in Seq(Pieces)
                      /\ pieces[1].curve \in Curves /\ pieces[1].depth \in 0 .. MaxDepth
                      /\ Last(pieces[1].curve) \in Point
    OBVIOUS
  <2>1. result = "none" /\ pieces # <<>> /\ current # <<>>
    BY <1>q DEF AtPiece
  <2>2. Len(pieces) \in Nat \ {0} /\ Tail(pieces) \in Seq(Pieces) /\ pieces[1] \in Pieces
    BY <1>p, <2>1
  <2>3. pieces[1].curve \in Curves /\ pieces[1].depth \in 0 .. MaxDepth
    BY <2>2 DEF Pieces
  <2>4. Last(pieces[1].curve) \in Point
    BY <2>3, CurveEnds
  <2>5. QED
    BY <2>1, <2>2, <2>3, <2>4
<1>5. CASE EmitChord
  <2>1. /\ AtPiece /\ Push(Last(pieces[1].curve)) /\ pieces' = Tail(pieces)
        /\ path' = path /\ next' = next /\ output' = output
    BY <1>5 DEF EmitChord
  <2>2. /\ current' \in Seq(Subpaths) /\ Len(current') = 1 /\ current' # <<>>
        /\ result' \in {"none", "Ok", "LimitExceeded"}
    BY <1>a, <2>1, PushTyped
  <2>3. Rest
    <3>1. /\ Tail(pieces) \in Seq(Pieces) /\ Len(Tail(pieces)) = Len(pieces) - 1
          /\ \A i \in DOMAIN Tail(pieces) : i + 1 \in DOMAIN pieces /\ Tail(pieces)[i] = pieces[i + 1]
      BY <1>p, <1>a, <2>1
    <3>2. ASSUME NEW i \in DOMAIN Tail(pieces)
          PROVE  Tail(pieces)[i].depth >= Len(Tail(pieces)) - i
      <4>1. pieces[i + 1].depth >= Len(pieces) - (i + 1) /\ i \in Int /\ Len(pieces) \in Nat
        BY <1>p, <1>a, <2>1, <3>1
      <4>2. (Len(pieces) - 1) - i = Len(pieces) - (i + 1)
        BY <4>1
      <4>3. QED
        BY <3>1, <4>1, <4>2
    <3>3. QED
      BY <2>1, <3>1, <3>2
  <2>4. QED
    BY <1>p, <2>1, <2>2, <2>3 DEF PathInv
<1>6. CASE Split
  <2> DEFINE d == pieces[1].depth + 1
             left == [curve |-> LeftHalf(pieces[1].curve), depth |-> d]
             right == [curve |-> RightHalf(pieces[1].curve), depth |-> d]
  <2>1. /\ AtPiece /\ pieces[1].depth < MaxDepth /\ pieces' = <<left, right>> \o Tail(pieces)
        /\ path' = path /\ next' = next /\ output' = output /\ current' = current
        /\ result' = result
    BY <1>6 DEF Split
  <2>2. d \in 0 .. MaxDepth /\ d >= Len(pieces)
    <3>1. pieces[1] \in Pieces /\ 1 \in DOMAIN pieces
      BY <1>p, <1>a, <2>1
    <3>2. pieces[1].depth \in Nat /\ MaxDepth \in Nat
      BY <3>1, LimitsAssumption DEF Pieces
    <3>3. pieces[1].depth >= Len(pieces) - 1 /\ Len(pieces) \in Nat
      BY <1>p, <3>1
    <3>4. QED
      BY <2>1, <3>2, <3>3
  <2>3. left \in Pieces /\ right \in Pieces /\ left.depth = d /\ right.depth = d
    BY <1>a, <2>1, <2>2, HalvesTyped DEF Pieces
  <2> HIDE DEF d, left, right
  <2>4. /\ pieces' \in Seq(Pieces) /\ Len(pieces') = Len(pieces) + 1
        /\ pieces'[1] = left /\ pieces'[2] = right
        /\ \A i \in 3 .. Len(pieces) + 1 : pieces'[i] = pieces[i - 1]
    BY <1>a, <1>p, <2>1, <2>3
  <2>5. \A i \in DOMAIN pieces' : pieces'[i].depth >= Len(pieces') - i
    <3>a. DOMAIN pieces' = 1 .. Len(pieces) + 1 /\ Len(pieces') = Len(pieces) + 1
      BY <2>4
    <3>1. ASSUME NEW i \in DOMAIN pieces' PROVE pieces'[i].depth >= Len(pieces) + 1 - i
      <4>1. i \in 1 .. Len(pieces) + 1
        BY <3>a
      <4>2. CASE i \in {1, 2}
        BY <1>a, <2>1, <2>2, <2>3, <2>4, <4>2
      <4>3. CASE i \in 3 .. Len(pieces) + 1
        <5>1. i - 1 \in DOMAIN pieces
          BY <1>p, <4>3
        <5>2. pieces[i - 1].depth >= Len(pieces) - (i - 1)
          BY <1>p, <5>1
        <5>3. pieces[i - 1] \in Pieces
          BY <1>p, <5>1
        <5>4. pieces[i - 1].depth \in Int
          BY <5>3, LimitsAssumption DEF Pieces
        <5>5. pieces'[i] = pieces[i - 1]
          BY <2>4, <4>3
        <5>6. i \in Int /\ Len(pieces) \in Int
          BY <1>p, <4>3
        <5>7. QED
          BY ONLY <5>2, <5>4, <5>5, <5>6
      <4>4. QED
        BY <1>p, <4>1, <4>2, <4>3
    <3>2. QED
      BY <3>a, <3>1
  <2>6. QED
    BY <1>p, <1>a, <2>1, <2>4, <2>5 DEF PathInv
<1>7. CASE TooDeep
  BY <1>p, <1>7 DEF PathInv, TooDeep
<1>8. CASE FinishPath
  <2>1. /\ path' = path /\ next' = next /\ pieces' = pieces /\ current' = <<>>
        /\ result' = "Ok" /\ output' = output \o FinishedAll
    BY <1>8 DEF FinishPath
  <2>2. output' \in Seq(Subpaths) /\ \A i \in DOMAIN output' : Proper(output'[i])
    BY <2>1, FinishedAllProper
  <2>3. QED
    BY <1>p, <2>1, <2>2 DEF PathInv
<1>9. QED
  BY <1>1, <1>2, <1>3, <1>4, <1>5, <1>6, <1>7, <1>8 DEF Next

\* Spec keeps the inductive invariant.
THEOREM FlatteningInvariant == Spec => []PathInv
<1>1. Init => PathInv
  <2> SUFFICES ASSUME Init PROVE PathInv
    OBVIOUS
  <2>1. WellFormed(path) /\ Len(path) \in Nat
    BY PathsAssumption DEF Init, WellFormed
  <2>2. QED
    BY <2>1 DEF Init, PathInv
<1>2. PathInv /\ [Next]_vars => PathInv'
  <2>1. PathInv /\ UNCHANGED vars => PathInv'
    BY DEF PathInv, vars
  <2>2. QED
    BY <2>1, PathNext
<1>3. QED
  BY <1>1, <1>2, PTL DEF Spec

\* No subpath has more points than the limit, no curve is split deeper than
\* the bound, and no more pieces wait than there are depths.
THEOREM FlatteningTyped == Spec => []TypeOK
BY FlatteningInvariant, PathTyped, PTL

-----------------------------------------------------------------------------
(* The figures.                                                            *)

LEMMA OrientationIs ==
  ASSUME NEW a \in Point, NEW b \in Point, NEW c \in Point
  PROVE  /\ Orientation(a, b, c) = (b[1] - a[1]) * (c[2] - a[2]) - (b[2] - a[2]) * (c[1] - a[1])
         /\ Orientation(a, b, c) \in Int
<1>1. a[1] \in Int /\ a[2] \in Int /\ b[1] \in Int /\ b[2] \in Int /\ c[1] \in Int /\ c[2] \in Int
  BY DEF Point
<1>2. Orientation(a, b, c) = (b[1] - a[1]) * (c[2] - a[2]) - (b[2] - a[2]) * (c[1] - a[1])
  BY DEF Orientation, Cross, Minus
<1>3. (b[1] - a[1]) * (c[2] - a[2]) - (b[2] - a[2]) * (c[1] - a[1]) \in Int
  BY <1>1
<1>4. QED
  BY <1>2, <1>3

\* A product has the sign of its factors.
LEMMA Signs ==
  ASSUME NEW u \in Int, NEW v \in Int
  PROVE  /\ u * v \in Int
         /\ (u > 0 /\ v > 0) \/ (u < 0 /\ v < 0) => u * v > 0
         /\ (u > 0 /\ v < 0) \/ (u < 0 /\ v > 0) => u * v < 0
         /\ u = 0 \/ v = 0 => u * v = 0
OBVIOUS

LEMMA OppositeSigns ==
  ASSUME NEW h \in Int, NEW u \in Int, NEW v \in Int, h # 0,
         (u > 0 /\ v < 0) \/ (u < 0 /\ v > 0)
  PROVE  (h * u > 0 /\ h * v < 0) \/ (h * u < 0 /\ h * v > 0)
<1>1. CASE h > 0 /\ u > 0
  BY <1>1, Signs
<1>2. CASE h > 0 /\ u < 0
  BY <1>2, Signs
<1>3. CASE h < 0 /\ u > 0
  BY <1>3, Signs
<1>4. CASE h < 0 /\ u < 0
  <2>1. v > 0
    BY <1>4
  <2>2. h * u > 0 /\ h * v < 0
    BY <1>4, <2>1, Signs
  <2>3. QED
    BY <2>2
<1>5. QED
  BY <1>1, <1>2, <1>3, <1>4

\* Edges that cross the other way around cross as well.
LEMMA IntersectBothWays ==
  ASSUME NEW e, NEW f, SegmentsIntersect(e, f)
  PROVE  SegmentsIntersect(f, e)
BY DEF SegmentsIntersect

\* An upright edge meets a level one that begins and ends on its two sides.
LEMMA AxesCross ==
  ASSUME NEW a \in Point, NEW b \in Point, NEW c \in Point, NEW d \in Point,
         a[1] = b[1], c[2] = d[2],
         \/ c[1] <= a[1] /\ a[1] <= d[1]
         \/ d[1] <= a[1] /\ a[1] <= c[1],
         \/ a[2] <= c[2] /\ c[2] <= b[2]
         \/ b[2] <= c[2] /\ c[2] <= a[2]
  PROVE  SegmentsIntersect(<<a, b>>, <<c, d>>)
<1>1. /\ a[1] \in Int /\ a[2] \in Int /\ b[1] \in Int /\ b[2] \in Int
      /\ c[1] \in Int /\ c[2] \in Int /\ d[1] \in Int /\ d[2] \in Int
  BY DEF Point
<1>2. /\ Orientation(a, b, c) = (b[1] - a[1]) * (c[2] - a[2]) - (b[2] - a[2]) * (c[1] - a[1])
      /\ Orientation(a, b, d) = (b[1] - a[1]) * (d[2] - a[2]) - (b[2] - a[2]) * (d[1] - a[1])
      /\ Orientation(c, d, a) = (d[1] - c[1]) * (a[2] - c[2]) - (d[2] - c[2]) * (a[1] - c[1])
      /\ Orientation(c, d, b) = (d[1] - c[1]) * (b[2] - c[2]) - (d[2] - c[2]) * (b[1] - c[1])
  BY OrientationIs
<1>3. /\ Orientation(a, b, c) = - ((b[2] - a[2]) * (c[1] - a[1]))
      /\ Orientation(a, b, d) = - ((b[2] - a[2]) * (d[1] - a[1]))
      /\ Orientation(c, d, a) = (d[1] - c[1]) * (a[2] - c[2])
      /\ Orientation(c, d, b) = (d[1] - c[1]) * (b[2] - c[2])
  BY <1>1, <1>2
<1> DEFINE e == <<a, b>>
           f == <<c, d>>
<1>4. CASE c[1] = a[1] \/ d[1] = a[1] \/ a[2] = c[2] \/ b[2] = c[2]
  <2>1. CASE c[1] = a[1]
    <3>1. On(f[1], e)
      BY <1>1, <1>3, <2>1, Signs DEF On, InBox
    <3>2. QED
      BY <3>1 DEF SegmentsIntersect
  <2>2. CASE d[1] = a[1]
    <3>1. On(f[2], e)
      BY <1>1, <1>3, <2>2, Signs DEF On, InBox
    <3>2. QED
      BY <3>1 DEF SegmentsIntersect
  <2>3. CASE a[2] = c[2]
    <3>1. On(e[1], f)
      BY <1>1, <1>3, <2>3, Signs DEF On, InBox
    <3>2. QED
      BY <3>1 DEF SegmentsIntersect
  <2>4. CASE b[2] = c[2]
    <3>1. On(e[2], f)
      BY <1>1, <1>3, <2>4, Signs DEF On, InBox
    <3>2. QED
      BY <3>1 DEF SegmentsIntersect
  <2>5. QED
    BY <1>4, <2>1, <2>2, <2>3, <2>4
<1>5. CASE c[1] # a[1] /\ d[1] # a[1] /\ a[2] # c[2] /\ b[2] # c[2]
  <2>1. /\ \/ c[1] - a[1] < 0 /\ d[1] - a[1] > 0 /\ d[1] - c[1] > 0
           \/ c[1] - a[1] > 0 /\ d[1] - a[1] < 0 /\ d[1] - c[1] < 0
        /\ \/ a[2] - c[2] < 0 /\ b[2] - c[2] > 0 /\ b[2] - a[2] > 0
           \/ a[2] - c[2] > 0 /\ b[2] - c[2] < 0 /\ b[2] - a[2] < 0
    BY <1>1, <1>5
  <2>2. Parts(e, f)
    <3> DEFINE h == b[2] - a[2]
               u == c[1] - a[1]
               v == d[1] - a[1]
    <3>0. (h * u > 0 /\ h * v < 0) \/ (h * u < 0 /\ h * v > 0)
      <4>1. h \in Int /\ u \in Int /\ v \in Int
        BY <1>1
      <4>2. h # 0
        BY <1>1, <2>1
      <4>3. (u > 0 /\ v < 0) \/ (u < 0 /\ v > 0)
        BY <2>1, Zenon
      <4> HIDE DEF h, u, v
      <4>4. QED
        BY <4>1, <4>2, <4>3, OppositeSigns
    <3>1. \/ Orientation(a, b, c) > 0 /\ Orientation(a, b, d) < 0
          \/ Orientation(a, b, c) < 0 /\ Orientation(a, b, d) > 0
      <4>1. /\ Orientation(a, b, c) = - (h * u) /\ Orientation(a, b, d) = - (h * v)
            /\ h * u \in Int /\ h * v \in Int
        BY <1>1, <1>3, Signs
      <4> HIDE DEF h, u, v
      <4>2. QED
        BY <3>0, <4>1
    <3>2. QED
      BY <3>1, OrientationIs DEF Parts
  <2>3. Parts(f, e)
    <3>1. \/ Orientation(c, d, a) > 0 /\ Orientation(c, d, b) < 0
          \/ Orientation(c, d, a) < 0 /\ Orientation(c, d, b) > 0
      BY <1>1, <1>3, <2>1, Signs
    <3>2. QED
      BY <3>1, OrientationIs DEF Parts
  <2>4. QED
    BY <2>2, <2>3 DEF SegmentsIntersect
<1>6. QED
  BY <1>4, <1>5

\* The diagonals of a rectangle cross.
LEMMA DiagonalsCross ==
  ASSUME NEW a \in Point, NEW b \in Point, NEW c \in Point, NEW d \in Point,
         a[1] # b[1], a[2] # b[2],
         \/ c[1] = a[1] /\ c[2] = b[2] /\ d[1] = b[1] /\ d[2] = a[2]
         \/ d[1] = a[1] /\ d[2] = b[2] /\ c[1] = b[1] /\ c[2] = a[2]
  PROVE  SegmentsIntersect(<<a, b>>, <<c, d>>)
<1> DEFINE W == b[1] - a[1]
           H == b[2] - a[2]
<1>1. /\ a[1] \in Int /\ a[2] \in Int /\ b[1] \in Int /\ b[2] \in Int
      /\ c[1] \in Int /\ c[2] \in Int /\ d[1] \in Int /\ d[2] \in Int
  BY DEF Point
<1>2. /\ Orientation(a, b, c) = W * (c[2] - a[2]) - H * (c[1] - a[1])
      /\ Orientation(a, b, d) = W * (d[2] - a[2]) - H * (d[1] - a[1])
      /\ Orientation(c, d, a) = (d[1] - c[1]) * (a[2] - c[2]) - (d[2] - c[2]) * (a[1] - c[1])
      /\ Orientation(c, d, b) = (d[1] - c[1]) * (b[2] - c[2]) - (d[2] - c[2]) * (b[1] - c[1])
  BY OrientationIs
<1>3. W \in Int /\ H \in Int /\ W # 0 /\ H # 0 /\ W * H = H * W
  BY <1>1
<1>4. W * H > 0 \/ W * H < 0
  BY <1>3, Signs
<1>5. CASE c[1] = a[1] /\ c[2] = b[2] /\ d[1] = b[1] /\ d[2] = a[2]
  <2>1. /\ Orientation(a, b, c) = W * H - H * 0 /\ Orientation(a, b, d) = W * 0 - H * W
        /\ Orientation(c, d, a) = W * (- H) - (- H) * 0
        /\ Orientation(c, d, b) = W * 0 - (- H) * W
    BY <1>1, <1>2, <1>5
  <2>2. /\ Orientation(a, b, c) = W * H /\ Orientation(a, b, d) = - (W * H)
        /\ Orientation(c, d, a) = - (W * H) /\ Orientation(c, d, b) = W * H
    BY <1>3, <2>1
  <2>3. QED
    BY <1>3, <1>4, <2>2 DEF SegmentsIntersect, Parts
<1>6. CASE d[1] = a[1] /\ d[2] = b[2] /\ c[1] = b[1] /\ c[2] = a[2]
  <2>1. /\ Orientation(a, b, d) = W * H - H * 0 /\ Orientation(a, b, c) = W * 0 - H * W
        /\ Orientation(c, d, a) = (- W) * 0 - H * (- W)
        /\ Orientation(c, d, b) = (- W) * H - H * 0
    BY <1>1, <1>2, <1>6
  <2>2. /\ Orientation(a, b, d) = W * H /\ Orientation(a, b, c) = - (W * H)
        /\ Orientation(c, d, a) = W * H /\ Orientation(c, d, b) = - (W * H)
    BY <1>3, <2>1
  <2>3. QED
    BY <1>3, <1>4, <2>2 DEF SegmentsIntersect, Parts
<1>7. QED
  BY <1>5, <1>6

\* Edges that begin, or end, in the same point meet.
LEMMA SharedPointMeets ==
  ASSUME NEW a \in Point, NEW b \in Point, NEW c \in Point, NEW d \in Point, a = c \/ b = d
  PROVE  SegmentsIntersect(<<a, b>>, <<c, d>>)
<1> DEFINE e == <<a, b>>
           f == <<c, d>>
<1>1. a[1] \in Int /\ a[2] \in Int /\ b[1] \in Int /\ b[2] \in Int
  BY DEF Point
<1>2. /\ Orientation(a, b, a) = (b[1] - a[1]) * (a[2] - a[2]) - (b[2] - a[2]) * (a[1] - a[1])
      /\ Orientation(a, b, b) = (b[1] - a[1]) * (b[2] - a[2]) - (b[2] - a[2]) * (b[1] - a[1])
  BY OrientationIs
<1>3. Orientation(a, b, a) = 0 /\ Orientation(a, b, b) = 0
  BY <1>1, <1>2
<1>4. CASE a = c
  <2>1. On(f[1], e)
    BY <1>1, <1>3, <1>4 DEF On, InBox
  <2>2. QED
    BY <2>1 DEF SegmentsIntersect
<1>5. CASE b = d
  <2>1. On(f[2], e)
    BY <1>1, <1>3, <1>5 DEF On, InBox
  <2>2. QED
    BY <2>1 DEF SegmentsIntersect
<1>6. QED
  BY <1>4, <1>5

\* The edges of a simple outline of four corners that are not neighbours.
LEMMA FourCorners ==
  ASSUME NEW points \in Seq(Point), Len(points) = 4, ~Collinear(points), SimpleBoundary(points)
  PROVE  /\ ~SegmentsIntersect(<<points[1], points[2]>>, <<points[3], points[4]>>)
         /\ ~SegmentsIntersect(<<points[2], points[3]>>, <<points[4], points[1]>>)
<1>1. DOMAIN points = 1 .. 4
  OBVIOUS
<1>2. /\ Edges(points)[1] = <<points[1], points[2]>> /\ Edges(points)[2] = <<points[2], points[3]>>
      /\ Edges(points)[3] = <<points[3], points[4]>> /\ Edges(points)[4] = <<points[4], points[1]>>
  BY <1>1 DEF Edges
<1>3. \A i, j \in 1 .. 4 : i + 1 < j /\ ~(i = 1 /\ j = 4) =>
         ~SegmentsIntersect(Edges(points)[i], Edges(points)[j])
  BY <1>1 DEF SimpleBoundary
<1>4. /\ ~SegmentsIntersect(Edges(points)[1], Edges(points)[3])
      /\ ~SegmentsIntersect(Edges(points)[2], Edges(points)[4])
  <2>1. 1 + 1 < 3 /\ ~(1 = 1 /\ 3 = 4) /\ 2 + 1 < 4 /\ ~(2 = 1 /\ 4 = 4)
    OBVIOUS
  <2>2. 1 \in 1 .. 4 /\ 2 \in 1 .. 4 /\ 3 \in 1 .. 4 /\ 4 \in 1 .. 4
    OBVIOUS
  <2>3. QED
    BY <1>3, <2>1, <2>2, Zenon
<1>5. QED
  BY <1>2, <1>4, Zenon

\* The least and the greatest of four numbers.
LEMMA MinMaxOfFour ==
  ASSUME NEW p \in Int, NEW q \in Int, NEW r \in Int, NEW s \in Int
  PROVE  /\ Min({p, q, r, s}) \in {p, q, r, s} /\ Max({p, q, r, s}) \in {p, q, r, s}
         /\ \A v \in {p, q, r, s} : Min({p, q, r, s}) <= v /\ v <= Max({p, q, r, s})
<1>1. \E x \in {p, q, r, s} : \A y \in {p, q, r, s} : x <= y
  OBVIOUS
<1>2. \E x \in {p, q, r, s} : \A y \in {p, q, r, s} : x >= y
  OBVIOUS
<1>3. /\ Min({p, q, r, s}) \in {p, q, r, s}
      /\ \A v \in {p, q, r, s} : Min({p, q, r, s}) <= v
  BY <1>1 DEF Min
<1>4. /\ Max({p, q, r, s}) \in {p, q, r, s}
      /\ \A v \in {p, q, r, s} : Max({p, q, r, s}) >= v
  BY <1>2 DEF Max
<1>5. QED
  BY <1>3, <1>4

\* The box of four corners.
Corners(points) == Len(points) = 4 /\ points \in Seq(Point)

LEMMA CornerPoints ==
  ASSUME NEW points, Corners(points)
  PROVE  DOMAIN points = 1 .. 4 /\ \A i \in 1 .. 4 : points[i] \in Point
<1>1. points \in Seq(Point) /\ Len(points) = 4
  BY DEF Corners
<1>2. DOMAIN points = 1 .. 4
  BY <1>1
<1>3. \A i \in 1 .. Len(points) : points[i] \in Point
  BY <1>1, SeqElements
<1>4. QED
  BY <1>1, <1>2, <1>3

LEMMA BoundsOfFour ==
  ASSUME NEW points, Corners(points), NEW k \in 1 .. 2
  PROVE  /\ Low(points, k) \in Int /\ High(points, k) \in Int
         /\ \A i \in 1 .. 4 : /\ points[i][k] \in Int
                              /\ Low(points, k) <= points[i][k] /\ points[i][k] <= High(points, k)
         /\ \E i \in 1 .. 4 : Low(points, k) = points[i][k]
         /\ \E i \in 1 .. 4 : High(points, k) = points[i][k]
<1> DEFINE p == points[1][k]
           q == points[2][k]
           r == points[3][k]
           s == points[4][k]
<1>1. DOMAIN points = 1 .. 4 /\ \A i \in 1 .. 4 : points[i] \in Point
  BY CornerPoints
<1>2. \A i \in 1 .. 4 : points[i][k] \in Int
  BY <1>1 DEF Point
<1>3. {points[i][k] : i \in DOMAIN points} = {p, q, r, s}
  BY <1>1
<1>4. p \in Int /\ q \in Int /\ r \in Int /\ s \in Int
  BY <1>2
<1> HIDE DEF p, q, r, s
<1>5. /\ Low(points, k) \in {p, q, r, s} /\ High(points, k) \in {p, q, r, s}
      /\ \A v \in {p, q, r, s} : Low(points, k) <= v /\ v <= High(points, k)
  <2>1. Low(points, k) = Min({p, q, r, s}) /\ High(points, k) = Max({p, q, r, s})
    BY <1>3, Zenon DEF Low, High
  <2> DEFINE values == {p, q, r, s}
  <2>2. /\ Min(values) \in values /\ Max(values) \in values
        /\ \A v \in values : Min(values) <= v /\ v <= Max(values)
    BY <1>4, MinMaxOfFour
  <2> HIDE DEF values
  <2>3. QED
    BY <2>1, <2>2 DEF values
<1>6. \A i \in 1 .. 4 : points[i][k] \in {p, q, r, s}
  BY DEF p, q, r, s
<1>7. \A v \in {p, q, r, s} : \E i \in 1 .. 4 : v = points[i][k]
  BY DEF p, q, r, s
<1>8. QED
  BY <1>2, <1>4, <1>5, <1>6, <1>7

\* A point is its coordinates.
LEMMA Coordinates ==
  ASSUME NEW p \in Point
  PROVE  p[1] \in Int /\ p[2] \in Int /\ \A u, v : p = <<u, v>> <=> p[1] = u /\ p[2] = v
BY DEF Point

\* Four corners have the points of four others, by their coordinates.
LEMMA SamePoints ==
  ASSUME NEW points, Corners(points), NEW x1, NEW y1, NEW x2, NEW y2, NEW x3, NEW y3, NEW x4, NEW y4
  PROVE  ToSet(points) = ToSet(<<<<x1, y1>>, <<x2, y2>>, <<x3, y3>>, <<x4, y4>>>>) <=>
           /\ \A i \in 1 .. 4 : \/ points[i][1] = x1 /\ points[i][2] = y1
                                \/ points[i][1] = x2 /\ points[i][2] = y2
                                \/ points[i][1] = x3 /\ points[i][2] = y3
                                \/ points[i][1] = x4 /\ points[i][2] = y4
           /\ \E i \in 1 .. 4 : points[i][1] = x1 /\ points[i][2] = y1
           /\ \E i \in 1 .. 4 : points[i][1] = x2 /\ points[i][2] = y2
           /\ \E i \in 1 .. 4 : points[i][1] = x3 /\ points[i][2] = y3
           /\ \E i \in 1 .. 4 : points[i][1] = x4 /\ points[i][2] = y4
<1> DEFINE a == <<x1, y1>>
           b == <<x2, y2>>
           c == <<x3, y3>>
           d == <<x4, y4>>
<1>1. DOMAIN points = 1 .. 4 /\ \A i \in 1 .. 4 : points[i] \in Point
  BY CornerPoints
<1>2. ToSet(<<a, b, c, d>>) = {a, b, c, d}
  <2> HIDE DEF a, b, c, d
  <2>1. QED
    BY DEF ToSet
<1>3. \A i \in 1 .. 4 :
        /\ points[i] = a <=> points[i][1] = x1 /\ points[i][2] = y1
        /\ points[i] = b <=> points[i][1] = x2 /\ points[i][2] = y2
        /\ points[i] = c <=> points[i][1] = x3 /\ points[i][2] = y3
        /\ points[i] = d <=> points[i][1] = x4 /\ points[i][2] = y4
  BY <1>1, Coordinates
<1> HIDE DEF a, b, c, d
<1>4. ToSet(points) = {points[i] : i \in 1 .. 4}
  BY <1>1 DEF ToSet
<1>5. ToSet(points) = {a, b, c, d} <=>
        /\ \A i \in 1 .. 4 : points[i] = a \/ points[i] = b \/ points[i] = c \/ points[i] = d
        /\ \E i \in 1 .. 4 : points[i] = a
        /\ \E i \in 1 .. 4 : points[i] = b
        /\ \E i \in 1 .. 4 : points[i] = c
        /\ \E i \in 1 .. 4 : points[i] = d
  BY <1>4
<1>6. QED
  BY <1>2, <1>3, <1>5 DEF a, b, c, d

\* The definitions, corner by corner.
LEMMA DrawnCorners ==
  ASSUME NEW points, Corners(points)
  PROVE  LET a == points[1]  b == points[2]  c == points[3]  d == points[4]
         IN /\ DrawnRectangle(points) <=>
                 /\ a # b /\ b # c /\ c # d /\ d # a
                 /\ \/ a[2] = b[2] /\ b[1] = c[1] /\ c[2] = d[2] /\ d[1] = a[1]
                    \/ a[1] = b[1] /\ b[2] = c[2] /\ c[1] = d[1] /\ d[2] = a[2]
            /\ DrawnDiamond(points) <=>
                 /\ a # c /\ b # d
                 /\ \/ a[1] = c[1] /\ b[2] = d[2]
                    \/ a[2] = c[2] /\ b[1] = d[1]
                 /\ (a[1] + c[1]) \div 2 = (b[1] + d[1]) \div 2
                 /\ (a[2] + c[2]) \div 2 = (b[2] + d[2]) \div 2
<1> DEFINE a == points[1]
           b == points[2]
           c == points[3]
           d == points[4]
<1>1. Len(points) = 4
  BY DEF Corners
<1>2. /\ Following(points, 1) = b /\ Following(points, 2) = c
      /\ Following(points, 3) = d /\ Following(points, 4) = a
  BY <1>1 DEF Following
<1>3. DrawnRectangle(points) <=>
         \/ Level(a, b, 2) /\ Level(b, c, 1) /\ Level(c, d, 2) /\ Level(d, a, 1)
         \/ Level(a, b, 1) /\ Level(b, c, 2) /\ Level(c, d, 1) /\ Level(d, a, 2)
  <2> DEFINE Drawn(first) ==
               \A i \in 1 .. 4 :
                  Level(points[i], Following(points, i), IF i % 2 = 0 THEN first ELSE 3 - first)
  <2>1. DrawnRectangle(points) <=> Drawn(1) \/ Drawn(2)
    BY <1>1 DEF DrawnRectangle
  <2>2. Drawn(1) <=> Level(a, b, 2) /\ Level(b, c, 1) /\ Level(c, d, 2) /\ Level(d, a, 1)
    BY <1>2
  <2>3. Drawn(2) <=> Level(a, b, 1) /\ Level(b, c, 2) /\ Level(c, d, 1) /\ Level(d, a, 2)
    BY <1>2
  <2>4. QED
    BY <2>1, <2>2, <2>3
<1>4. DrawnDiamond(points) <=>
        /\ \/ Level(a, c, 1) /\ Level(b, d, 2)
           \/ Level(a, c, 2) /\ Level(b, d, 1)
        /\ Midpoint(a, c) = Midpoint(b, d)
  BY <1>1 DEF DrawnDiamond
<1> HIDE DEF a, b, c, d
<1>5. Midpoint(a, c) = Midpoint(b, d) <=>
        /\ (a[1] + c[1]) \div 2 = (b[1] + d[1]) \div 2
        /\ (a[2] + c[2]) \div 2 = (b[2] + d[2]) \div 2
  BY DEF Midpoint
<1>6. QED
  BY <1>3, <1>4, <1>5 DEF Level, a, b, c, d

LEMMA RectangleExact ==
  ASSUME NEW points, Corners(points), ~Collinear(points), SimpleBoundary(points)
  PROVE  IsRectangle(points) <=> DrawnRectangle(points)
<1> DEFINE a == points[1]
           b == points[2]
           c == points[3]
           d == points[4]
           l == Low(points, 1)
           h == High(points, 1)
           t == Low(points, 2)
           u == High(points, 2)
<1>1. a \in Point /\ b \in Point /\ c \in Point /\ d \in Point
  BY CornerPoints
<1>2. /\ a[1] \in Int /\ a[2] \in Int /\ b[1] \in Int /\ b[2] \in Int
      /\ c[1] \in Int /\ c[2] \in Int /\ d[1] \in Int /\ d[2] \in Int
  BY <1>1, Coordinates
<1>3. /\ l \in Int /\ h \in Int /\ t \in Int /\ u \in Int
      /\ l <= a[1] /\ l <= b[1] /\ l <= c[1] /\ l <= d[1]
      /\ a[1] <= h /\ b[1] <= h /\ c[1] <= h /\ d[1] <= h
      /\ t <= a[2] /\ t <= b[2] /\ t <= c[2] /\ t <= d[2]
      /\ a[2] <= u /\ b[2] <= u /\ c[2] <= u /\ d[2] <= u
  BY BoundsOfFour
<1>4. /\ l = a[1] \/ l = b[1] \/ l = c[1] \/ l = d[1]
      /\ h = a[1] \/ h = b[1] \/ h = c[1] \/ h = d[1]
      /\ t = a[2] \/ t = b[2] \/ t = c[2] \/ t = d[2]
      /\ u = a[2] \/ u = b[2] \/ u = c[2] \/ u = d[2]
  BY BoundsOfFour
<1>5. IsRectangle(points) <=>
        /\ l < h /\ t < u
        /\ \A i \in 1 .. 4 : \/ points[i][1] = l /\ points[i][2] = t
                             \/ points[i][1] = h /\ points[i][2] = t
                             \/ points[i][1] = h /\ points[i][2] = u
                             \/ points[i][1] = l /\ points[i][2] = u
        /\ \E i \in 1 .. 4 : points[i][1] = l /\ points[i][2] = t
        /\ \E i \in 1 .. 4 : points[i][1] = h /\ points[i][2] = t
        /\ \E i \in 1 .. 4 : points[i][1] = h /\ points[i][2] = u
        /\ \E i \in 1 .. 4 : points[i][1] = l /\ points[i][2] = u
  <2>1. IsRectangle(points) <=>
          /\ l < h /\ t < u
          /\ ToSet(points) = ToSet(<<<<l, t>>, <<h, t>>, <<h, u>>, <<l, u>>>>)
    <3>1. RectangleCorners(points) = <<<<l, t>>, <<h, t>>, <<h, u>>, <<l, u>>>>
      BY DEF RectangleCorners, LowCorner, HighCorner
    <3>2. Len(points) = 4
      BY DEF Corners
    <3>3. (\A k \in 1 .. 2 : Low(points, k) < High(points, k)) <=> l < h /\ t < u
      OBVIOUS
    <3> HIDE DEF l, h, t, u
    <3>4. QED
      BY <3>1, <3>2, <3>3 DEF IsRectangle
  <2> HIDE DEF l, h, t, u
  <2>2. QED
    BY <2>1, SamePoints
<1>6. IsRectangle(points) <=>
        /\ l < h /\ t < u
        /\ (a[1] = l \/ a[1] = h) /\ (a[2] = t \/ a[2] = u)
        /\ (b[1] = l \/ b[1] = h) /\ (b[2] = t \/ b[2] = u)
        /\ (c[1] = l \/ c[1] = h) /\ (c[2] = t \/ c[2] = u)
        /\ (d[1] = l \/ d[1] = h) /\ (d[2] = t \/ d[2] = u)
        /\ \/ a[1] = l /\ a[2] = t
           \/ b[1] = l /\ b[2] = t
           \/ c[1] = l /\ c[2] = t
           \/ d[1] = l /\ d[2] = t
        /\ \/ a[1] = h /\ a[2] = t
           \/ b[1] = h /\ b[2] = t
           \/ c[1] = h /\ c[2] = t
           \/ d[1] = h /\ d[2] = t
        /\ \/ a[1] = h /\ a[2] = u
           \/ b[1] = h /\ b[2] = u
           \/ c[1] = h /\ c[2] = u
           \/ d[1] = h /\ d[2] = u
        /\ \/ a[1] = l /\ a[2] = u
           \/ b[1] = l /\ b[2] = u
           \/ c[1] = l /\ c[2] = u
           \/ d[1] = l /\ d[2] = u
  <2> HIDE DEF l, h, t, u
  <2>1. QED
    BY <1>5
<1>7. /\ ~SegmentsIntersect(<<a, b>>, <<c, d>>)
      /\ ~SegmentsIntersect(<<b, c>>, <<d, a>>)
  BY FourCorners DEF Corners
<1>8. DrawnRectangle(points) <=>
        /\ a # b /\ b # c /\ c # d /\ d # a
        /\ \/ a[2] = b[2] /\ b[1] = c[1] /\ c[2] = d[2] /\ d[1] = a[1]
           \/ a[1] = b[1] /\ b[2] = c[2] /\ c[1] = d[1] /\ d[2] = a[2]
  BY DrawnCorners
<1>9. \A p, q \in Point : p = q <=> p[1] = q[1] /\ p[2] = q[2]
  BY DEF Point
<1> HIDE DEF a, b, c, d, l, h, t, u
<1>10. ASSUME DrawnRectangle(points) PROVE IsRectangle(points)
  <2>1. a[1] # c[1] /\ a[2] # c[2]
    BY <1>1, <1>8, <1>9, <1>10
  <2>2. QED
    BY <1>2, <1>3, <1>4, <1>6, <1>8, <1>10, <2>1
<1>11. ASSUME IsRectangle(points) PROVE DrawnRectangle(points)
  <2> DEFINE Opposite(p, q) == p[1] # q[1] /\ p[2] # q[2]
  <2>1. \/ Opposite(a, c) /\ Opposite(b, d)
        \/ Opposite(a, b) /\ Opposite(c, d)
        \/ Opposite(a, d) /\ Opposite(b, c)
    BY <1>2, <1>6, <1>11
  <2>2. CASE Opposite(a, b) /\ Opposite(c, d)
    <3>1. \/ c[1] = a[1] /\ c[2] = b[2] /\ d[1] = b[1] /\ d[2] = a[2]
          \/ d[1] = a[1] /\ d[2] = b[2] /\ c[1] = b[1] /\ c[2] = a[2]
      BY <1>2, <1>6, <1>11, <2>2
    <3>2. SegmentsIntersect(<<a, b>>, <<c, d>>)
      BY <1>1, <2>2, <3>1, DiagonalsCross
    <3>3. QED
      BY <1>7, <3>2
  <2>3. CASE Opposite(a, d) /\ Opposite(b, c)
    <3>1. \/ d[1] = b[1] /\ d[2] = c[2] /\ a[1] = c[1] /\ a[2] = b[2]
          \/ a[1] = b[1] /\ a[2] = c[2] /\ d[1] = c[1] /\ d[2] = b[2]
      BY <1>2, <1>6, <1>11, <2>3
    <3>2. SegmentsIntersect(<<b, c>>, <<d, a>>)
      BY <1>1, <2>3, <3>1, DiagonalsCross
    <3>3. QED
      BY <1>7, <3>2
  <2>4. CASE Opposite(a, c) /\ Opposite(b, d)
    <3>1. /\ ~(a[1] = b[1] /\ a[2] = b[2]) /\ ~(b[1] = c[1] /\ b[2] = c[2])
          /\ ~(c[1] = d[1] /\ c[2] = d[2]) /\ ~(d[1] = a[1] /\ d[2] = a[2])
      BY <1>2, <1>6, <1>11, <2>4
    <3>2. \/ a[2] = b[2] /\ b[1] = c[1] /\ c[2] = d[2] /\ d[1] = a[1]
          \/ a[1] = b[1] /\ b[2] = c[2] /\ c[1] = d[1] /\ d[2] = a[2]
      BY <1>2, <1>6, <1>11, <2>4
    <3>3. QED
      BY <1>1, <1>8, <1>9, <3>1, <3>2
  <2>5. QED
    BY <2>1, <2>2, <2>3, <2>4
<1>12. QED
  BY <1>10, <1>11

\* Corners that are not all on a line have a box with room inside.
LEMMA BoxHasRoom ==
  ASSUME NEW points, Corners(points), ~Collinear(points), NEW k \in 1 .. 2
  PROVE  Low(points, k) < High(points, k)
<1> SUFFICES ASSUME ~(Low(points, k) < High(points, k)) PROVE Collinear(points)
  OBVIOUS
<1>1. DOMAIN points = 1 .. 4 /\ \A i \in 1 .. 4 : points[i] \in Point
  BY CornerPoints
<1>2. \A i \in 1 .. 4 : points[i][k] = Low(points, k) /\ points[i][k] \in Int
  BY BoundsOfFour
<1>3. ASSUME NEW i \in 1 .. 4, NEW j \in 1 .. 4
      PROVE  Orientation(points[1], points[i], points[j]) = 0
  <2> DEFINE a == points[1]
             b == points[i]
             c == points[j]
  <2>1. a \in Point /\ b \in Point /\ c \in Point
    BY <1>1
  <2>2. a[k] = b[k] /\ a[k] = c[k]
    BY <1>2
  <2> HIDE DEF a, b, c
  <2>3. a[1] \in Int /\ a[2] \in Int /\ b[1] \in Int /\ b[2] \in Int /\ c[1] \in Int /\ c[2] \in Int
    BY <2>1, Coordinates
  <2>4. Orientation(a, b, c) = (b[1] - a[1]) * (c[2] - a[2]) - (b[2] - a[2]) * (c[1] - a[1])
    BY <2>1, OrientationIs
  <2>5. b[1] - a[1] \in Int /\ c[1] - a[1] \in Int /\ b[2] - a[2] \in Int /\ c[2] - a[2] \in Int
    BY <2>3
  <2>6. Orientation(a, b, c) = 0
    <3>1. CASE k = 1
      <4>1. b[1] = a[1] /\ c[1] = a[1]
        BY <2>2, <3>1, Zenon
      <4>2. b[1] - a[1] = 0 /\ c[1] - a[1] = 0
        BY <2>3, <4>1
      <4>3. QED
        BY <2>4, <2>5, <4>2, Signs
    <3>2. CASE k = 2
      <4>1. b[2] = a[2] /\ c[2] = a[2]
        BY <2>2, <3>2, Zenon
      <4>2. b[2] - a[2] = 0 /\ c[2] - a[2] = 0
        BY <2>3, <4>1
      <4>3. QED
        BY <2>4, <2>5, <4>2, Signs
    <3>3. QED
      BY <3>1, <3>2
  <2>7. QED
    BY <2>6 DEF a, b, c
<1>4. QED
  BY <1>1, <1>3 DEF Collinear

LEMMA DiamondExact ==
  ASSUME NEW points, Corners(points), ~Collinear(points), SimpleBoundary(points),
         Fresh(points), Head(points) # Last(points)
  PROVE  IsDiamond(points) <=> DrawnDiamond(points)
<1> DEFINE a == points[1]
           b == points[2]
           c == points[3]
           d == points[4]
           l == Low(points, 1)
           h == High(points, 1)
           t == Low(points, 2)
           u == High(points, 2)
           m == (l + h) \div 2
           n == (t + u) \div 2
<1>1. a \in Point /\ b \in Point /\ c \in Point /\ d \in Point
  BY CornerPoints
<1>2. /\ a[1] \in Int /\ a[2] \in Int /\ b[1] \in Int /\ b[2] \in Int
      /\ c[1] \in Int /\ c[2] \in Int /\ d[1] \in Int /\ d[2] \in Int
  BY <1>1, Coordinates
<1>3. /\ l \in Int /\ h \in Int /\ t \in Int /\ u \in Int
      /\ l <= a[1] /\ l <= b[1] /\ l <= c[1] /\ l <= d[1]
      /\ a[1] <= h /\ b[1] <= h /\ c[1] <= h /\ d[1] <= h
      /\ t <= a[2] /\ t <= b[2] /\ t <= c[2] /\ t <= d[2]
      /\ a[2] <= u /\ b[2] <= u /\ c[2] <= u /\ d[2] <= u
  BY BoundsOfFour
<1>4. /\ l = a[1] \/ l = b[1] \/ l = c[1] \/ l = d[1]
      /\ h = a[1] \/ h = b[1] \/ h = c[1] \/ h = d[1]
      /\ t = a[2] \/ t = b[2] \/ t = c[2] \/ t = d[2]
      /\ u = a[2] \/ u = b[2] \/ u = c[2] \/ u = d[2]
  BY BoundsOfFour
<1>5. IsDiamond(points) <=>
        /\ \A i \in 1 .. 4 : \/ points[i][1] = m /\ points[i][2] = t
                             \/ points[i][1] = h /\ points[i][2] = n
                             \/ points[i][1] = m /\ points[i][2] = u
                             \/ points[i][1] = l /\ points[i][2] = n
        /\ \E i \in 1 .. 4 : points[i][1] = m /\ points[i][2] = t
        /\ \E i \in 1 .. 4 : points[i][1] = h /\ points[i][2] = n
        /\ \E i \in 1 .. 4 : points[i][1] = m /\ points[i][2] = u
        /\ \E i \in 1 .. 4 : points[i][1] = l /\ points[i][2] = n
  <2>1. IsDiamond(points) <=>
          ToSet(points) = ToSet(<<<<m, t>>, <<h, n>>, <<m, u>>, <<l, n>>>>)
    <3>1. DiamondCorners(points) = <<<<m, t>>, <<h, n>>, <<m, u>>, <<l, n>>>>
      BY DEF DiamondCorners, LowCorner, HighCorner, Midpoint
    <3>2. Len(points) = 4
      BY DEF Corners
    <3> HIDE DEF l, h, t, u, m, n
    <3>3. QED
      BY <3>1, <3>2 DEF IsDiamond
  <2> HIDE DEF l, h, t, u, m, n
  <2>2. QED
    BY <2>1, SamePoints
<1>6. IsDiamond(points) <=>
        /\ (a[1] = m /\ a[2] = t) \/ (a[1] = h /\ a[2] = n)
             \/ (a[1] = m /\ a[2] = u) \/ (a[1] = l /\ a[2] = n)
        /\ (b[1] = m /\ b[2] = t) \/ (b[1] = h /\ b[2] = n)
             \/ (b[1] = m /\ b[2] = u) \/ (b[1] = l /\ b[2] = n)
        /\ (c[1] = m /\ c[2] = t) \/ (c[1] = h /\ c[2] = n)
             \/ (c[1] = m /\ c[2] = u) \/ (c[1] = l /\ c[2] = n)
        /\ (d[1] = m /\ d[2] = t) \/ (d[1] = h /\ d[2] = n)
             \/ (d[1] = m /\ d[2] = u) \/ (d[1] = l /\ d[2] = n)
        /\ \/ a[1] = m /\ a[2] = t
           \/ b[1] = m /\ b[2] = t
           \/ c[1] = m /\ c[2] = t
           \/ d[1] = m /\ d[2] = t
        /\ \/ a[1] = h /\ a[2] = n
           \/ b[1] = h /\ b[2] = n
           \/ c[1] = h /\ c[2] = n
           \/ d[1] = h /\ d[2] = n
        /\ \/ a[1] = m /\ a[2] = u
           \/ b[1] = m /\ b[2] = u
           \/ c[1] = m /\ c[2] = u
           \/ d[1] = m /\ d[2] = u
        /\ \/ a[1] = l /\ a[2] = n
           \/ b[1] = l /\ b[2] = n
           \/ c[1] = l /\ c[2] = n
           \/ d[1] = l /\ d[2] = n
  <2> HIDE DEF l, h, t, u, m, n
  <2>1. QED
    BY <1>5
<1>7. /\ ~SegmentsIntersect(<<a, b>>, <<c, d>>)
      /\ ~SegmentsIntersect(<<b, c>>, <<d, a>>)
  BY FourCorners DEF Corners
<1>8. DrawnDiamond(points) <=>
        /\ a # c /\ b # d
        /\ \/ a[1] = c[1] /\ b[2] = d[2]
           \/ a[2] = c[2] /\ b[1] = d[1]
        /\ (a[1] + c[1]) \div 2 = (b[1] + d[1]) \div 2
        /\ (a[2] + c[2]) \div 2 = (b[2] + d[2]) \div 2
  BY DrawnCorners
<1>9. \A p, q \in Point : p = q <=> p[1] = q[1] /\ p[2] = q[2]
  BY DEF Point
<1>10. a # b /\ b # c /\ c # d /\ d # a
  <2>1. points \in Seq(Point) /\ Len(points) = 4
    BY DEF Corners
  <2>2. Head(points) = a /\ Last(points) = d
    BY <2>1 DEF Last
  <2>3. QED
    BY <2>1, <2>2 DEF Fresh
<1>11. l < h /\ t < u
  BY BoxHasRoom
<1>12. m \in Int /\ 2 * m <= l + h /\ l + h <= 2 * m + 1
  BY <1>3, Halving
<1>13. n \in Int /\ 2 * n <= t + u /\ t + u <= 2 * n + 1
  BY <1>3, Halving
<1>14. \A i, j \in Int : /\ (i + j) \div 2 \in Int /\ 2 * ((i + j) \div 2) <= i + j
                         /\ i + j <= 2 * ((i + j) \div 2) + 1
  BY Halving
<1>15. l <= m /\ m < h /\ t <= n /\ n < u
  <2> HIDE DEF l, h, t, u, m, n
  <2>1. QED
    BY <1>3, <1>11, <1>12, <1>13
<1>16. ASSUME DrawnDiamond(points) PROVE IsDiamond(points)
  <2>1. CASE a[1] = c[1] /\ b[2] = d[2]
    <3>1. a[1] = (b[1] + d[1]) \div 2 /\ b[2] = (a[2] + c[2]) \div 2
      <4> HIDE DEF a, b, c, d
      <4>1. (a[1] + c[1]) \div 2 = a[1] /\ (b[2] + d[2]) \div 2 = b[2]
        BY <1>2, <1>14, <2>1
      <4>2. QED
        BY <1>8, <1>16, <4>1
    <3>2. /\ (l = b[1] /\ h = d[1]) \/ (l = d[1] /\ h = b[1])
          /\ (t = a[2] /\ u = c[2]) \/ (t = c[2] /\ u = a[2])
      <4> HIDE DEF a, b, c, d, l, h, t, u
      <4>1. /\ 2 * a[1] <= b[1] + d[1] /\ b[1] + d[1] <= 2 * a[1] + 1
            /\ 2 * b[2] <= a[2] + c[2] /\ a[2] + c[2] <= 2 * b[2] + 1
        BY <1>2, <1>14, <3>1
      <4>2. QED
        BY <1>2, <1>3, <1>4, <2>1, <4>1
    <3>3. m = a[1] /\ n = b[2]
      <4> HIDE DEF a, b, c, d, l, h, t, u
      <4>1. l + h = b[1] + d[1] /\ t + u = a[2] + c[2]
        BY <1>2, <3>2
      <4>2. QED
        BY <3>1, <4>1
    <3> HIDE DEF a, b, c, d, l, h, t, u, m, n
    <3>4. QED
      BY <1>6, <2>1, <3>2, <3>3
  <2>2. CASE a[2] = c[2] /\ b[1] = d[1]
    <3>1. b[1] = (a[1] + c[1]) \div 2 /\ a[2] = (b[2] + d[2]) \div 2
      <4> HIDE DEF a, b, c, d
      <4>1. (b[1] + d[1]) \div 2 = b[1] /\ (a[2] + c[2]) \div 2 = a[2]
        BY <1>2, <1>14, <2>2
      <4>2. QED
        BY <1>8, <1>16, <4>1
    <3>2. /\ (l = a[1] /\ h = c[1]) \/ (l = c[1] /\ h = a[1])
          /\ (t = b[2] /\ u = d[2]) \/ (t = d[2] /\ u = b[2])
      <4> HIDE DEF a, b, c, d, l, h, t, u
      <4>1. /\ 2 * b[1] <= a[1] + c[1] /\ a[1] + c[1] <= 2 * b[1] + 1
            /\ 2 * a[2] <= b[2] + d[2] /\ b[2] + d[2] <= 2 * a[2] + 1
        BY <1>2, <1>14, <3>1
      <4>2. QED
        BY <1>2, <1>3, <1>4, <2>2, <4>1
    <3>3. m = b[1] /\ n = a[2]
      <4> HIDE DEF a, b, c, d, l, h, t, u
      <4>1. l + h = a[1] + c[1] /\ t + u = b[2] + d[2]
        BY <1>2, <3>2
      <4>2. QED
        BY <3>1, <4>1
    <3> HIDE DEF a, b, c, d, l, h, t, u, m, n
    <3>4. QED
      BY <1>6, <2>2, <3>2, <3>3
  <2>3. QED
    BY <1>8, <1>16, <2>1, <2>2
<1> HIDE DEF a, b, c, d, l, h, t, u, m, n
<1>17. ASSUME IsDiamond(points) PROVE DrawnDiamond(points)
  <2> DEFINE Upright(p, q) == /\ p[1] = m /\ q[1] = m
                              /\ (p[2] = t /\ q[2] = u) \/ (p[2] = u /\ q[2] = t)
             Across(p, q) == /\ p[2] = n /\ q[2] = n
                             /\ (p[1] = l /\ q[1] = h) \/ (p[1] = h /\ q[1] = l)
  <2>1. a # c /\ b # d
    <3>1. a = c => SegmentsIntersect(<<a, b>>, <<c, d>>)
      BY <1>1, SharedPointMeets
    <3>2. b = d => SegmentsIntersect(<<a, b>>, <<c, d>>)
      BY <1>1, SharedPointMeets
    <3>3. QED
      BY <1>7, <3>1, <3>2
  <2>2. \/ Upright(a, c) /\ Across(b, d)
        \/ Upright(b, d) /\ Across(a, c)
        \/ Upright(a, b) /\ Across(c, d)
        \/ Upright(c, d) /\ Across(a, b)
        \/ Upright(b, c) /\ Across(d, a)
        \/ Upright(d, a) /\ Across(b, c)
    BY <1>1, <1>2, <1>6, <1>9, <1>10, <1>15, <1>17, <2>1
  <2>3. \A p, q, r, s \in Point : Upright(p, q) /\ Across(r, s) =>
           SegmentsIntersect(<<p, q>>, <<r, s>>) /\ SegmentsIntersect(<<r, s>>, <<p, q>>)
    <3> SUFFICES ASSUME NEW p \in Point, NEW q \in Point, NEW r \in Point, NEW s \in Point,
                        Upright(p, q), Across(r, s)
                 PROVE  /\ SegmentsIntersect(<<p, q>>, <<r, s>>)
                        /\ SegmentsIntersect(<<r, s>>, <<p, q>>)
      OBVIOUS
    <3>1. /\ p[1] = q[1] /\ r[2] = s[2]
          /\ (r[1] <= p[1] /\ p[1] <= s[1]) \/ (s[1] <= p[1] /\ p[1] <= r[1])
          /\ (p[2] <= r[2] /\ r[2] <= q[2]) \/ (q[2] <= r[2] /\ r[2] <= p[2])
      BY <1>3, <1>12, <1>13, <1>15
    <3>2. SegmentsIntersect(<<p, q>>, <<r, s>>)
      BY <3>1, AxesCross
    <3>3. QED
      BY <3>2, IntersectBothWays
  <2>4. \/ Upright(a, c) /\ Across(b, d)
        \/ Upright(b, d) /\ Across(a, c)
    BY <1>1, <1>7, <2>2, <2>3
  <2>5. (m + m) \div 2 = m /\ (n + n) \div 2 = n
    BY <1>12, <1>13, <1>14
  <2>6. h + l = l + h /\ u + t = t + u
    BY <1>3
  <2>7. CASE Upright(a, c) /\ Across(b, d)
    <3>1. a[1] + c[1] = m + m /\ b[2] + d[2] = n + n /\ a[2] + c[2] = t + u /\ b[1] + d[1] = l + h
      BY <2>6, <2>7
    <3>2. QED
      BY <1>8, <2>1, <2>5, <2>7, <3>1 DEF m, n
  <2>8. CASE Upright(b, d) /\ Across(a, c)
    <3>1. b[1] + d[1] = m + m /\ a[2] + c[2] = n + n /\ b[2] + d[2] = t + u /\ a[1] + c[1] = l + h
      BY <2>6, <2>8
    <3>2. QED
      BY <1>8, <2>1, <2>5, <2>8, <3>1 DEF m, n
  <2>9. QED
    BY <2>4, <2>7, <2>8
<1>18. QED
  BY <1>16, <1>17

\* A rectangle's opposite corners differ in both coordinates: it is no diamond.
LEMMA FiguresDiffer ==
  ASSUME NEW points, Corners(points), DrawnRectangle(points)
  PROVE  ~DrawnDiamond(points)
<1> DEFINE a == points[1]
           b == points[2]
           c == points[3]
           d == points[4]
<1>1. a \in Point /\ b \in Point /\ c \in Point /\ d \in Point
  BY CornerPoints
<1>2. \A p, q \in Point : p = q <=> p[1] = q[1] /\ p[2] = q[2]
  BY DEF Point
<1>3. /\ a # b /\ b # c /\ c # d /\ d # a
      /\ \/ a[2] = b[2] /\ b[1] = c[1] /\ c[2] = d[2] /\ d[1] = a[1]
         \/ a[1] = b[1] /\ b[2] = c[2] /\ c[1] = d[1] /\ d[2] = a[2]
  BY DrawnCorners
<1>4. DrawnDiamond(points) => \/ a[1] = c[1] /\ b[2] = d[2]
                              \/ a[2] = c[2] /\ b[1] = d[1]
  BY DrawnCorners
<1> HIDE DEF a, b, c, d
<1>5. a[1] # c[1] /\ a[2] # c[2]
  BY <1>1, <1>2, <1>3
<1>6. QED
  BY <1>4, <1>5

\* A closed subpath that flatten_path finished is made a native rectangle or
\* diamond exactly when its outline is one, if the outline is simple.
LEMMA FigureOfSubpath ==
  ASSUME NEW subpath \in Subpaths, Proper(subpath), subpath.closed,
         ~Collinear(subpath.points), SimpleBoundary(subpath.points)
  PROVE  /\ Figure(subpath) = "rectangle" <=> DrawnRectangle(subpath.points)
         /\ Figure(subpath) = "diamond" <=> DrawnDiamond(subpath.points)
<1> DEFINE points == subpath.points
<1>1. points \in Seq(Point) /\ Fresh(points) /\ Head(points) # Last(points)
  BY DEF Subpaths, Proper
<1>2. IsRectangle(points) <=> DrawnRectangle(points)
  <2>1. CASE Len(points) = 4
    BY <1>1, <2>1, RectangleExact DEF Corners
  <2>2. CASE Len(points) # 4
    BY <2>2 DEF IsRectangle, DrawnRectangle
  <2>3. QED
    BY <2>1, <2>2
<1>3. IsDiamond(points) <=> DrawnDiamond(points)
  <2>1. CASE Len(points) = 4
    BY <1>1, <2>1, DiamondExact DEF Corners
  <2>2. CASE Len(points) # 4
    BY <2>2 DEF IsDiamond, DrawnDiamond
  <2>3. QED
    BY <2>1, <2>2
<1>4. ~(DrawnRectangle(points) /\ DrawnDiamond(points))
  <2>1. CASE Len(points) = 4
    BY <1>1, <2>1, FiguresDiffer DEF Corners
  <2>2. CASE Len(points) # 4
    BY <2>2 DEF DrawnDiamond
  <2>3. QED
    BY <2>1, <2>2
<1>5. Figure(subpath) = IF IsRectangle(points) THEN "rectangle"
                        ELSE IF IsDiamond(points) THEN "diamond" ELSE "other"
  <2>1. ~(IsRectangle(points) /\ IsDiamond(points))
    BY <1>2, <1>3, <1>4
  <2> HIDE DEF points
  <2>2. Figure(subpath) = CASE ~subpath.closed -> "other"
                            [] IsRectangle(points) -> "rectangle"
                            [] IsDiamond(points) -> "diamond"
                            [] OTHER -> "other"
    BY DEF Figure, points
  <2>3. QED
    BY <2>1, <2>2
<1> HIDE DEF points
<1>6. /\ Figure(subpath) = "rectangle" <=> DrawnRectangle(points)
      /\ Figure(subpath) = "diamond" <=> DrawnDiamond(points)
  BY <1>2, <1>3, <1>4, <1>5
<1>7. QED
  BY <1>6 DEF points

\* Of any path, a closed subpath with a simple outline becomes a native
\* rectangle or diamond exactly when its outline is one (lower_subpath).
THEOREM FiguresExact == Spec => []FigureExact
<1>1. ASSUME PathInv PROVE FigureExact
  <2> SUFFICES ASSUME NEW subpath \in ToSet(output),
                      subpath.closed, ~Collinear(Loop(subpath.points)),
                      SimpleBoundary(Loop(subpath.points))
               PROVE  /\ Figure(subpath) = "rectangle" <=> DrawnRectangle(Loop(subpath.points))
                      /\ Figure(subpath) = "diamond" <=> DrawnDiamond(Loop(subpath.points))
    BY DEF FigureExact
  <2>1. subpath \in Subpaths /\ Proper(subpath)
    BY <1>1 DEF PathInv, ToSet
  <2>2. Loop(subpath.points) = subpath.points
    BY <2>1 DEF Proper, Loop
  <2>3. QED
    BY <2>1, <2>2, FigureOfSubpath
<1>2. QED
  BY <1>1, FlatteningInvariant, PTL
=============================================================================
