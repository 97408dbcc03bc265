--------------------------- MODULE LoweringProofs ---------------------------
(***************************************************************************)
(* Proofs about Lowering, for every set of documents, profile and budget   *)
(* that its assumptions allow.  In order:                                  *)
(*   - the drawings and decisions the model is built from: what a          *)
(*     decision draws is within bounds, is drawn once and misses nothing;  *)
(*   - LowerInv: the walk's position, the open groups, the types, the      *)
(*     budgets (LoweringTyped, DecompositionNeverFails);                   *)
(*   - ElementInv and BudgetInv: an element carries what its node gives it *)
(*     and the budgets are its sums (BudgetsReported);                     *)
(*   - SpanInv: the nodes that two elements stand for are apart            *)
(*     (EverythingPaintedOnce);                                            *)
(*   - SettledInv: the nodes passed are painted, and exact under the       *)
(*     strict profile, if they have nothing that the converter drops       *)
(*     (PaintIsKept, StrictIsExact);                                       *)
(*   - OpenInv, PieceInv, GroupInv, FinishedInv: the walk is in exactly the*)
(*     groups around its node, the parts of a decomposed fill share a key, *)
(*     and the keys of an element are those of the groups around its node  *)
(*     (GroupsFollow, DocumentIsValid).                                    *)
(***************************************************************************)
EXTENDS Lowering, Induction, TLAPS
-----------------------------------------------------------------------------
(* What is drawn for a path                                                *)

BothParts == {"fill", "stroke"}
PictureParts == {"fill", "stroke", "decoration"}
Drawings == [type : {"line", "rectangle", "diamond", "ellipse", "text", "arrow"},
             parts : SUBSET BothParts, piece : Nat, points : Nat]

PathNode(p) == PaintNode(p) /\ p.kind = "path"

\* Each part is in one of the roles and in no other.
Divides(roles, parts) ==
  \A part \in parts : /\ \E i \in DOMAIN roles : part \in roles[i]
                      /\ \A i, j \in DOMAIN roles :
                           part \in roles[i] /\ part \in roles[j] => i = j

LEMMA OneRole ==
  ASSUME NEW S, NEW a \in S
  PROVE  /\ <<a>> \in Seq(S) /\ DOMAIN <<a>> = 1 .. 1 /\ Len(<<a>>) = 1 /\ <<a>>[1] = a
         /\ \A i \in DOMAIN <<a>> : i = 1
OBVIOUS

LEMMA TwoRoles ==
  ASSUME NEW S, NEW a \in S, NEW b \in S
  PROVE  /\ <<a, b>> \in Seq(S) /\ DOMAIN <<a, b>> = 1 .. 2
         /\ <<a, b>>[1] = a /\ <<a, b>>[2] = b
         /\ \A i \in DOMAIN <<a, b>> : i = 1 \/ i = 2
OBVIOUS

LEMMA OneRoleDivides ==
  ASSUME NEW parts
  PROVE  Divides(<<parts>>, parts)
<1> DEFINE roles == <<parts>>
<1>1. parts \in {parts}
  OBVIOUS
<1>2. DOMAIN roles = 1 .. 1 /\ roles[1] = parts /\ \A i \in DOMAIN roles : i = 1
  BY <1>1, OneRole
<1>3. 1 \in DOMAIN roles
  BY <1>2
<1> HIDE DEF roles
<1>4. Divides(roles, parts)
  BY <1>2, <1>3, Zenon DEF Divides
<1>5. QED
  BY <1>4 DEF roles

LEMMA TwoRolesDivide ==
  Divides(<<{"fill"}, {"stroke"}>>, {"fill", "stroke"})
<1> DEFINE roles == <<{"fill"}, {"stroke"}>>
<1>1. {"fill"} \in SUBSET BothParts /\ {"stroke"} \in SUBSET BothParts
  BY DEF BothParts
<1>2. /\ DOMAIN roles = 1 .. 2 /\ roles[1] = {"fill"} /\ roles[2] = {"stroke"}
      /\ \A i \in DOMAIN roles : i = 1 \/ i = 2
  BY <1>1, TwoRoles
<1>3. 1 \in DOMAIN roles /\ 2 \in DOMAIN roles
  BY <1>2
<1> HIDE DEF roles
<1>4. Divides(roles, {"fill", "stroke"})
  BY <1>2, <1>3 DEF Divides
<1>5. QED
  BY <1>4 DEF roles

LEMMA RolesDivide ==
  ASSUME NEW p, NEW canCombine, Parts(p) # {}
  PROVE  /\ PaintRoles(p, canCombine) \in Seq(SUBSET BothParts)
         /\ Divides(PaintRoles(p, canCombine), Parts(p))
         /\ \A i \in DOMAIN PaintRoles(p, canCombine) :
              PaintRoles(p, canCombine)[i] \subseteq Parts(p)
         /\ Parts(p) # BothParts => PaintRoles(p, canCombine) = <<Parts(p)>>
<1>1. Parts(p) \subseteq BothParts
  BY DEF Parts, BothParts
<1>2. CASE Parts(p) # {"fill", "stroke"}
  <2>1. PaintRoles(p, canCombine) = <<Parts(p)>>
    BY <1>2 DEF PaintRoles
  <2>2. Parts(p) \in SUBSET BothParts
    BY <1>1
  <2>3. Divides(<<Parts(p)>>, Parts(p))
    BY OneRoleDivides
  <2>4. <<Parts(p)>> \in Seq(SUBSET BothParts) /\ \A i \in DOMAIN <<Parts(p)>> : i = 1
        /\ <<Parts(p)>>[1] = Parts(p)
    BY <2>2, OneRole
  <2>5. QED
    BY <2>1, <2>3, <2>4
<1>3. CASE Parts(p) = {"fill", "stroke"}
  <2>1. \/ PaintRoles(p, canCombine) = <<{"fill", "stroke"}>>
        \/ PaintRoles(p, canCombine) = <<{"fill"}, {"stroke"}>>
    BY <1>3 DEF PaintRoles
  <2>2. /\ {"fill"} \in SUBSET BothParts /\ {"stroke"} \in SUBSET BothParts
        /\ {"fill", "stroke"} \in SUBSET BothParts
    BY DEF BothParts
  <2>3. CASE PaintRoles(p, canCombine) = <<{"fill", "stroke"}>>
    <3>1. Divides(<<{"fill", "stroke"}>>, {"fill", "stroke"})
      BY OneRoleDivides
    <3>2. /\ <<{"fill", "stroke"}>> \in Seq(SUBSET BothParts)
          /\ \A i \in DOMAIN <<{"fill", "stroke"}>> : i = 1
          /\ <<{"fill", "stroke"}>>[1] = {"fill", "stroke"}
      BY <2>2, OneRole
    <3>3. QED
      BY <1>3, <2>3, <3>1, <3>2 DEF BothParts
  <2>4. CASE PaintRoles(p, canCombine) = <<{"fill"}, {"stroke"}>>
    <3>1. Divides(<<{"fill"}, {"stroke"}>>, {"fill", "stroke"})
      BY TwoRolesDivide
    <3>2. /\ <<{"fill"}, {"stroke"}>> \in Seq(SUBSET BothParts)
          /\ \A i \in DOMAIN <<{"fill"}, {"stroke"}>> : i = 1 \/ i = 2
          /\ <<{"fill"}, {"stroke"}>>[1] = {"fill"}
          /\ <<{"fill"}, {"stroke"}>>[2] = {"stroke"}
      BY <2>2, TwoRoles
    <3>3. QED
      BY <1>3, <2>4, <3>1, <3>2 DEF BothParts
  <2>5. QED
    BY <2>1, <2>3, <2>4
<1>4. QED
  BY <1>2, <1>3

\* The drawings of a list are typed, are of one piece or of the whole path,
\* none of them is an arrow or an image, and a line has two points or more.
PlainDrawing(d) == d.type # "arrow" /\ (d.type = "line" => d.points >= 2)
Plainly(drawn) ==
  /\ drawn \in Seq(Drawings)
  /\ \A i \in DOMAIN drawn : PlainDrawing(drawn[i])

\* The parts that a piece of a path, or a path as a whole (piece 0), is to be
\* drawn with.
PieceParts(p, k) == (IF FillPainted(p, p.subpaths[k]) THEN {"fill"} ELSE {})
                      \cup (IF p.stroke # "none" THEN {"stroke"} ELSE {})

LEMMA WholeDrawn ==
  ASSUME NEW p, Parts(p) # {}, NEW type \in {"rectangle", "ellipse"}
  PROVE  /\ Plainly(Whole(type, p))
         /\ \A i \in DOMAIN Whole(type, p) : Whole(type, p)[i].piece = 0
         /\ Divides([i \in DOMAIN Whole(type, p) |-> Whole(type, p)[i].parts], Parts(p))
<1> DEFINE roles == PaintRoles(p, TRUE)
<1>1. roles \in Seq(SUBSET BothParts) /\ Divides(roles, Parts(p))
  BY RolesDivide
<1>2. Whole(type, p) = [i \in DOMAIN roles |-> Drawing(type, roles[i], 0, 0)]
  BY DEF Whole
<1> HIDE DEF roles
<1>3. \A i \in DOMAIN roles : /\ Drawing(type, roles[i], 0, 0) \in Drawings
                              /\ PlainDrawing(Drawing(type, roles[i], 0, 0))
                              /\ Drawing(type, roles[i], 0, 0).piece = 0
                              /\ Drawing(type, roles[i], 0, 0).parts = roles[i]
  BY <1>1 DEF Drawing, Drawings, PlainDrawing
<1>4. DOMAIN roles = 1 .. Len(roles) /\ Len(roles) \in Nat
  BY <1>1
<1> DEFINE drawn == [i \in DOMAIN roles |-> Drawing(type, roles[i], 0, 0)]
<1>5. drawn \in Seq(Drawings) /\ DOMAIN drawn = DOMAIN roles
  BY <1>3, <1>4
<1>6. \A i \in DOMAIN drawn : /\ PlainDrawing(drawn[i]) /\ drawn[i].piece = 0
                              /\ drawn[i].parts = roles[i]
  BY <1>3
<1> HIDE DEF drawn
<1>7. Divides([i \in DOMAIN drawn |-> drawn[i].parts], Parts(p))
  BY <1>1, <1>5, <1>6 DEF Divides
<1>8. Whole(type, p) = drawn
  BY <1>2 DEF drawn
<1>9. QED
  BY <1>5, <1>6, <1>7, <1>8 DEF Plainly

\* What is drawn of one subpath.
DrawnPiece(p, k, drawn) ==
  /\ Plainly(drawn)
  /\ \A i \in DOMAIN drawn : drawn[i].piece = k /\ p.subpaths[k].points >= 2
  /\ p.fill = "none" => \A i \in DOMAIN drawn : drawn[i].parts = {"stroke"}
  /\ p.subpaths[k].points >= 2 =>
       Divides([i \in DOMAIN drawn |-> drawn[i].parts], PieceParts(p, k))

LEMMA SubpathDrawn ==
  ASSUME NEW p, PathNode(p), Parts(p) # {}, NEW k \in DOMAIN p.subpaths
  PROVE  /\ DrawnPiece(p, k, SubpathDrawings(p, k))
         /\ p.stroke = "none" /\ FillPainted(p, p.subpaths[k]) =>
              /\ Len(SubpathDrawings(p, k)) = 1
              /\ SubpathDrawings(p, k)[1].points <= p.subpaths[k].points + 1
              /\ SubpathDrawings(p, k)[1].parts = {"fill"}
<1> DEFINE s == p.subpaths[k]
           painted == FillPainted(p, s)
           roles == IF painted THEN PaintRoles(p, s.closed)
                    ELSE IF p.stroke = "none" THEN <<>> ELSE <<{"stroke"}>>
           native == s.closed /\ s.figure # "other"
           draw(i) == IF native THEN Drawing(s.figure, roles[i], k, 0)
                      ELSE Drawing("line", roles[i], k, LinePoints(s, roles[i]))
           drawn == [i \in DOMAIN roles |-> draw(i)]
<1>1. s \in Subpaths /\ k \in Nat
  BY DEF PathNode, PaintNode
<1>2. /\ s.points \in Nat /\ s.closed \in BOOLEAN
      /\ s.figure \in {"other", "rectangle", "diamond"}
  BY <1>1 DEF Subpaths
<1>3. SubpathDrawings(p, k) = IF s.points < 2 THEN <<>> ELSE drawn
  BY DEF SubpathDrawings
<1>4. painted => "fill" \in Parts(p) /\ s.points >= 3 /\ PieceParts(p, k) = Parts(p)
  BY <1>2 DEF FillPainted, Parts, PieceParts
<1>5. ~painted => PieceParts(p, k) = IF p.stroke = "none" THEN {} ELSE {"stroke"}
  BY DEF PieceParts
<1> HIDE DEF painted, s
<1>6. roles \in Seq(SUBSET BothParts) /\ Divides(roles, PieceParts(p, k))
  <2>1. CASE painted
    BY <1>4, <2>1, RolesDivide
  <2>2. CASE ~painted /\ p.stroke = "none"
    BY <1>5, <2>2 DEF Divides
  <2>3. CASE ~painted /\ p.stroke # "none"
    <3>1. roles = <<{"stroke"}>> /\ PieceParts(p, k) = {"stroke"}
      BY <1>5, <2>3
    <3>2. {"stroke"} \in SUBSET BothParts
      BY DEF BothParts
    <3> HIDE DEF roles
    <3>3. QED
      BY <3>1, <3>2, OneRole, OneRoleDivides
  <2>4. QED
    BY <2>1, <2>2, <2>3
<1>7. p.stroke = "none" /\ painted => roles = <<{"fill"}>>
  <2> SUFFICES ASSUME p.stroke = "none", painted PROVE roles = <<{"fill"}>>
    OBVIOUS
  <2>1. Parts(p) = {"fill"} /\ Parts(p) # BothParts
    BY <1>4 DEF Parts, BothParts
  <2>2. PaintRoles(p, s.closed) = <<{"fill"}>>
    BY <2>1, RolesDivide
  <2>3. QED
    BY <2>2
<1>s. p.fill = "none" => \A i \in DOMAIN roles : roles[i] = {"stroke"}
  <2> SUFFICES ASSUME p.fill = "none" PROVE \A i \in DOMAIN roles : roles[i] = {"stroke"}
    OBVIOUS
  <2>1. ~painted
    BY DEF painted, FillPainted
  <2>2. CASE p.stroke = "none"
    BY <2>1, <2>2
  <2>3. CASE p.stroke # "none"
    <3>1. roles = <<{"stroke"}>>
      BY <2>1, <2>3
    <3>2. {"stroke"} \in SUBSET BothParts
      BY DEF BothParts
    <3> HIDE DEF roles
    <3>3. QED
      BY <3>1, <3>2, OneRole
  <2>4. QED
    BY <2>2, <2>3
<1> HIDE DEF roles, native
<1>8. DOMAIN roles = 1 .. Len(roles) /\ Len(roles) \in Nat
      /\ \A i \in DOMAIN roles : roles[i] \in SUBSET BothParts
  BY <1>6
<1>9. native => s.figure \in {"rectangle", "diamond"}
  BY <1>2 DEF native
<1>10. ASSUME NEW i \in DOMAIN roles
       PROVE  /\ draw(i) \in Drawings /\ draw(i).type # "arrow" /\ draw(i).piece = k
              /\ draw(i).parts = roles[i] /\ draw(i).points <= s.points + 1
              /\ ~(s.points < 2) => PlainDrawing(draw(i))
  <2>1. LinePoints(s, roles[i]) \in Nat /\ LinePoints(s, roles[i]) <= s.points + 1
        /\ (~(s.points < 2) => LinePoints(s, roles[i]) >= 2)
    BY <1>2 DEF LinePoints
  <2>2. CASE native
    BY <1>1, <1>2, <1>8, <1>9, <2>2 DEF Drawing, Drawings, PlainDrawing
  <2>3. CASE ~native
    BY <1>1, <1>8, <2>1, <2>3 DEF Drawing, Drawings, PlainDrawing
  <2>4. QED
    BY <2>2, <2>3
<1> HIDE DEF draw
<1>11. /\ drawn \in Seq(Drawings) /\ DOMAIN drawn = DOMAIN roles /\ Len(drawn) = Len(roles)
       /\ \A i \in DOMAIN drawn : /\ drawn[i].type # "arrow" /\ drawn[i].piece = k
                                  /\ drawn[i].parts = roles[i]
                                  /\ drawn[i].points <= s.points + 1
                                  /\ ~(s.points < 2) => PlainDrawing(drawn[i])
  BY <1>8, <1>10
<1> HIDE DEF drawn
<1>12. Divides([i \in DOMAIN drawn |-> drawn[i].parts], PieceParts(p, k))
  BY <1>6, <1>11 DEF Divides
<1>13. CASE s.points < 2
  <2>1. SubpathDrawings(p, k) = <<>>
    BY <1>3, <1>13
  <2>2. ~painted
    BY <1>2, <1>4, <1>13
  <2>3. ~(s.points >= 2)
    BY <1>2, <1>13
  <2>4. QED
    BY <2>1, <2>2, <2>3 DEF DrawnPiece, Plainly, painted, s
<1>14. CASE ~(s.points < 2)
  <2>1. SubpathDrawings(p, k) = drawn
    BY <1>3, <1>14
  <2>0. p.subpaths[k].points >= 2
    BY <1>2, <1>14 DEF s
  <2>2. DrawnPiece(p, k, drawn)
    BY <1>s, <1>11, <1>12, <1>14, <2>0 DEF DrawnPiece, Plainly
  <2>3. ASSUME p.stroke = "none", painted
        PROVE  Len(drawn) = 1 /\ drawn[1].points <= s.points + 1 /\ drawn[1].parts = {"fill"}
    <3>1. {"fill"} \in SUBSET BothParts
      BY DEF BothParts
    <3>2. Len(roles) = 1 /\ roles[1] = {"fill"} /\ 1 \in DOMAIN roles
      BY <1>7, <1>8, <2>3, <3>1, OneRole
    <3>3. QED
      BY <1>11, <3>2
  <2>4. QED
    BY <2>1, <2>2, <2>3 DEF painted, s
<1>15. QED
  BY <1>13, <1>14

\* Each of the parts of a piece is in one drawing of it and in no other.
PieceOnce(drawn, piece, parts) ==
  \A part \in parts :
    /\ \E i \in DOMAIN drawn : drawn[i].piece = piece /\ part \in drawn[i].parts
    /\ \A i, j \in DOMAIN drawn :
         /\ drawn[i].piece = piece /\ part \in drawn[i].parts
         /\ drawn[j].piece = piece /\ part \in drawn[j].parts
         => i = j

\* What is drawn of the first subpaths: each that has a line by drawings of its
\* own, and by just one if only fills are painted.
DrawnSoFar(p, count, drawn) ==
  /\ Plainly(drawn)
  /\ \A i \in DOMAIN drawn : /\ drawn[i].piece \in 1 .. count
                             /\ p.subpaths[drawn[i].piece].points >= 2
  /\ \A piece \in 1 .. count :
       p.subpaths[piece].points >= 2 => PieceOnce(drawn, piece, PieceParts(p, piece))
  /\ p.stroke = "none" /\ (\A i \in DOMAIN p.subpaths : FillPainted(p, p.subpaths[i])) =>
       /\ Len(drawn) = count
       /\ \A i \in 1 .. count : /\ drawn[i].points <= p.subpaths[i].points + 1
                               /\ drawn[i].piece = i /\ drawn[i].parts = {"fill"}
  /\ p.fill = "none" => \A i \in DOMAIN drawn : drawn[i].parts = {"stroke"}

LEMMA ConcatParts ==
  ASSUME NEW S, NEW s \in Seq(S), NEW t \in Seq(S)
  PROVE  /\ s \o t \in Seq(S) /\ Len(s \o t) = Len(s) + Len(t)
         /\ DOMAIN (s \o t) = 1 .. Len(s) + Len(t) /\ DOMAIN s = 1 .. Len(s)
         /\ DOMAIN t = 1 .. Len(t) /\ Len(s) \in Nat /\ Len(t) \in Nat
         /\ \A i \in DOMAIN s : (s \o t)[i] = s[i] /\ i \in DOMAIN (s \o t)
         /\ \A i \in DOMAIN t : (s \o t)[Len(s) + i] = t[i] /\ Len(s) + i \in DOMAIN (s \o t)
         /\ \A i \in DOMAIN (s \o t) :
              i \in DOMAIN s \/ (i - Len(s) \in DOMAIN t /\ Len(s) + (i - Len(s)) = i)
OBVIOUS

\* One more subpath.
LEMMA DrawnMore ==
  ASSUME NEW p, PathNode(p), Parts(p) # {}, NEW count \in Nat,
         count + 1 \in DOMAIN p.subpaths, NEW drawn, DrawnSoFar(p, count, drawn)
  PROVE  DrawnSoFar(p, count + 1, drawn \o SubpathDrawings(p, count + 1))
<1> DEFINE k == count + 1
           more == SubpathDrawings(p, k)
           both == drawn \o more
<1>1. k \in Nat /\ k = count + 1 /\ k \in DOMAIN p.subpaths
  OBVIOUS
<1> HIDE DEF k
<1>2. /\ DrawnPiece(p, k, more)
      /\ p.stroke = "none" /\ FillPainted(p, p.subpaths[k]) =>
           Len(more) = 1 /\ more[1].points <= p.subpaths[k].points + 1 /\ more[1].parts = {"fill"}
  BY <1>1, SubpathDrawn
<1> HIDE DEF more
<1>3. drawn \in Seq(Drawings) /\ more \in Seq(Drawings)
  BY <1>2 DEF DrawnSoFar, DrawnPiece, Plainly
<1>4. /\ both \in Seq(Drawings) /\ Len(both) = Len(drawn) + Len(more)
      /\ Len(drawn) \in Nat /\ Len(more) \in Nat
      /\ DOMAIN both = 1 .. Len(drawn) + Len(more) /\ DOMAIN drawn = 1 .. Len(drawn)
      /\ DOMAIN more = 1 .. Len(more)
  BY <1>3, ConcatParts
<1>5. /\ \A i \in DOMAIN drawn : both[i] = drawn[i] /\ i \in DOMAIN both
      /\ \A i \in DOMAIN more : both[Len(drawn) + i] = more[i] /\ Len(drawn) + i \in DOMAIN both
      /\ \A i \in DOMAIN both :
           i \in DOMAIN drawn \/ (i - Len(drawn) \in DOMAIN more /\ Len(drawn) + (i - Len(drawn)) = i)
  BY <1>3, ConcatParts
<1> HIDE DEF both
<1>6. /\ \A i \in DOMAIN drawn : PlainDrawing(drawn[i]) /\ drawn[i].piece \in 1 .. count
      /\ \A i \in DOMAIN more : PlainDrawing(more[i]) /\ more[i].piece = k
  BY <1>2 DEF DrawnSoFar, DrawnPiece, Plainly
<1>7. \A i \in DOMAIN both :
        /\ PlainDrawing(both[i]) /\ both[i].piece \in 1 .. k
        /\ both[i].piece = k <=> i - Len(drawn) \in DOMAIN more
        /\ both[i].piece # k <=> i \in DOMAIN drawn
  <2> SUFFICES ASSUME NEW i \in DOMAIN both
               PROVE  /\ PlainDrawing(both[i]) /\ both[i].piece \in 1 .. k
                      /\ (both[i].piece = k) = (i - Len(drawn) \in DOMAIN more)
                      /\ (both[i].piece # k) = (i \in DOMAIN drawn)
    OBVIOUS
  <2>1. CASE i \in DOMAIN drawn
    <3>1. both[i] = drawn[i] /\ PlainDrawing(drawn[i]) /\ drawn[i].piece \in 1 .. count
      BY <1>5, <1>6, <2>1
    <3>2. i - Len(drawn) \notin DOMAIN more
      BY <1>4, <2>1
    <3>3. QED
      BY <1>1, <2>1, <3>1, <3>2
  <2>2. CASE i - Len(drawn) \in DOMAIN more /\ Len(drawn) + (i - Len(drawn)) = i
    <3>1. both[i] = more[i - Len(drawn)]
      BY <1>5, <2>2
    <3>2. PlainDrawing(both[i]) /\ both[i].piece = k
      BY <1>6, <2>2, <3>1
    <3>3. i \notin DOMAIN drawn
      BY <1>4, <2>2
    <3>4. QED
      BY <1>1, <2>2, <3>2, <3>3
  <2>3. QED
    BY <1>5, <2>1, <2>2
<1>8. ASSUME NEW piece \in 1 .. k, p.subpaths[piece].points >= 2,
             NEW part \in PieceParts(p, piece)
      PROVE  /\ \E i \in DOMAIN both : both[i].piece = piece /\ part \in both[i].parts
             /\ \A i, j \in DOMAIN both :
                  /\ both[i].piece = piece /\ part \in both[i].parts
                  /\ both[j].piece = piece /\ part \in both[j].parts
                  => i = j
  <2>1. CASE piece = k
    <3>1. Divides([i \in DOMAIN more |-> more[i].parts], PieceParts(p, k))
      BY <1>2, <1>8, <2>1 DEF DrawnPiece
    <3>2. /\ \E i \in DOMAIN more : part \in more[i].parts
          /\ \A i, j \in DOMAIN more :
               part \in more[i].parts /\ part \in more[j].parts => i = j
      BY <1>8, <2>1, <3>1 DEF Divides
    <3>3. PICK i \in DOMAIN more : part \in more[i].parts
      BY <3>2
    <3>4. /\ Len(drawn) + i \in DOMAIN both /\ both[Len(drawn) + i].parts = more[i].parts
          /\ both[Len(drawn) + i].piece = piece
      BY <1>5, <1>6, <2>1
    <3>5. ASSUME NEW a \in DOMAIN both, NEW b \in DOMAIN both,
                 both[a].piece = piece, part \in both[a].parts,
                 both[b].piece = piece, part \in both[b].parts
          PROVE  a = b
      <4>1. a - Len(drawn) \in DOMAIN more /\ b - Len(drawn) \in DOMAIN more
        BY <1>7, <2>1, <3>5
      <4>2. a \in Nat /\ b \in Nat /\ Len(drawn) \in Nat
        BY <1>4
      <4>3. a \notin DOMAIN drawn /\ b \notin DOMAIN drawn
        BY <1>7, <2>1, <3>5
      <4>4. both[a] = more[a - Len(drawn)] /\ both[b] = more[b - Len(drawn)]
        BY <1>5, <4>3
      <4>5. a - Len(drawn) = b - Len(drawn)
        BY <3>2, <3>5, <4>1, <4>4
      <4>6. QED
        BY <4>2, <4>5
    <3>6. QED
      BY <3>3, <3>4, <3>5
  <2>2. CASE piece # k
    <3>1. piece \in 1 .. count
      BY <1>1, <2>2
    <3>2. PieceOnce(drawn, piece, PieceParts(p, piece))
      BY <1>8, <3>1 DEF DrawnSoFar
    <3>3. /\ \E i \in DOMAIN drawn : drawn[i].piece = piece /\ part \in drawn[i].parts
          /\ \A i, j \in DOMAIN drawn :
               /\ drawn[i].piece = piece /\ part \in drawn[i].parts
               /\ drawn[j].piece = piece /\ part \in drawn[j].parts
               => i = j
      BY <3>2 DEF PieceOnce
    <3>4. \A i \in DOMAIN both : both[i].piece = piece => i \in DOMAIN drawn /\ both[i] = drawn[i]
      BY <1>5, <1>7, <2>2
    <3>5. QED
      BY <1>5, <3>3, <3>4
  <2>3. QED
    BY <2>1, <2>2
<1>9. \A piece \in 1 .. k :
        p.subpaths[piece].points >= 2 => PieceOnce(both, piece, PieceParts(p, piece))
  BY <1>8 DEF PieceOnce
<1>10. ASSUME p.stroke = "none", \A i \in DOMAIN p.subpaths : FillPainted(p, p.subpaths[i])
       PROVE  /\ Len(both) = k
              /\ \A i \in 1 .. k : /\ both[i].points <= p.subpaths[i].points + 1
                                  /\ both[i].piece = i /\ both[i].parts = {"fill"}
  <2>1. /\ Len(drawn) = count
        /\ \A i \in 1 .. count : /\ drawn[i].points <= p.subpaths[i].points + 1
                                /\ drawn[i].piece = i /\ drawn[i].parts = {"fill"}
    BY <1>10 DEF DrawnSoFar
  <2>2. Len(more) = 1 /\ more[1].points <= p.subpaths[k].points + 1
        /\ more[1].parts = {"fill"} /\ more[1].piece = k
    <3>1. Len(more) = 1 /\ more[1].points <= p.subpaths[k].points + 1 /\ more[1].parts = {"fill"}
      BY <1>1, <1>2, <1>10
    <3>2. 1 \in DOMAIN more
      BY <1>4, <3>1
    <3>3. QED
      BY <1>6, <3>1, <3>2
  <2>3. both[k] = more[1]
    <3>1. 1 \in DOMAIN more
      BY <1>4, <2>2
    <3>2. both[Len(drawn) + 1] = more[1]
      BY <1>5, <3>1
    <3>3. QED
      BY <1>1, <2>1, <3>2
  <2>4. ASSUME NEW i \in 1 .. k
        PROVE  /\ both[i].points <= p.subpaths[i].points + 1
               /\ both[i].piece = i /\ both[i].parts = {"fill"}
    <3>1. CASE i = k
      BY <2>2, <2>3, <3>1
    <3>2. CASE i # k
      <4>1. i \in 1 .. count /\ i \in DOMAIN drawn
        BY <1>1, <1>4, <2>1, <3>2
      <4>2. both[i] = drawn[i]
        BY <1>5, <4>1
      <4>3. QED
        BY <2>1, <4>1, <4>2
    <3>3. QED
      BY <3>1, <3>2
  <2>5. Len(both) = k
    BY <1>1, <1>4, <2>1, <2>2
  <2>6. QED
    BY <2>4, <2>5
<1>11. Plainly(both) /\ \A i \in DOMAIN both : both[i].piece \in 1 .. k
  BY <1>4, <1>7 DEF Plainly
<1>12. ASSUME p.fill = "none", NEW i \in DOMAIN both PROVE both[i].parts = {"stroke"}
  <2>1. CASE i \in DOMAIN drawn
    BY <1>5, <1>12, <2>1 DEF DrawnSoFar
  <2>2. CASE i - Len(drawn) \in DOMAIN more /\ Len(drawn) + (i - Len(drawn)) = i
    <3>1. both[i] = more[i - Len(drawn)]
      BY <1>5, <2>2
    <3>2. QED
      BY <1>2, <1>12, <2>2, <3>1 DEF DrawnPiece
  <2>3. QED
    BY <1>5, <2>1, <2>2
<1>p. ASSUME NEW i \in DOMAIN both PROVE p.subpaths[both[i].piece].points >= 2
  <2>1. CASE i \in DOMAIN drawn
    BY <1>5, <2>1 DEF DrawnSoFar
  <2>2. CASE i - Len(drawn) \in DOMAIN more /\ Len(drawn) + (i - Len(drawn)) = i
    <3>1. both[i] = more[i - Len(drawn)]
      BY <1>5, <2>2
    <3>2. both[i].piece = k /\ p.subpaths[k].points >= 2
      BY <1>2, <2>2, <3>1 DEF DrawnPiece
    <3>3. QED
      BY <3>2
  <2>3. QED
    BY <1>5, <2>1, <2>2
<1>13. DrawnSoFar(p, k, both)
  BY <1>9, <1>10, <1>11, <1>12, <1>p DEF DrawnSoFar
<1>14. QED
  BY <1>13 DEF both, more, k

\* The whole path.
LEMMA PathDrawn ==
  ASSUME NEW p, PathNode(p), Parts(p) # {}
  PROVE  DrawnSoFar(p, Len(p.subpaths), PathDrawings(p))
<1> DEFINE T == Seq(Drawings)
           m == Len(p.subpaths)
           none == <<>>
           step == [k \in 1 .. m |-> [s \in T |-> s \o SubpathDrawings(p, k)]]
           body(f) == [k \in 0 .. Len(p.subpaths) |->
                         IF k = 0 THEN <<>> ELSE f[k - 1] \o SubpathDrawings(p, k)]
           upTo == CHOOSE f : f = body(f)
<1>1. PathDrawings(p) = upTo[m]
  BY DEF PathDrawings
<1>2. m \in Nat /\ DOMAIN p.subpaths = 1 .. m
  BY DEF PathNode, PaintNode
<1>3. none \in T
  OBVIOUS
<1> HIDE DEF m
<1>4. \A k \in 1 .. m : \A s \in T : s \o SubpathDrawings(p, k) \in T
  <2> SUFFICES ASSUME NEW k \in 1 .. m, NEW s \in T PROVE s \o SubpathDrawings(p, k) \in T
    OBVIOUS
  <2>1. SubpathDrawings(p, k) \in T
    BY <1>2, SubpathDrawn DEF DrawnPiece, Plainly
  <2>2. QED
    BY <2>1, ConcatParts
<1> HIDE DEF T
<1>5. step \in [1 .. m -> [T -> T]]
  BY <1>4
<1> HIDE DEF step, none
<1>6. PICK f \in [0 .. m -> T] :
        f[0] = none /\ \A n \in 1 .. m : f[n] = step[n][f[n - 1]]
  <2>1. m \in Nat
    BY <1>2
  <2>2. QED
    BY ONLY <2>1, <1>3, <1>5, Recursion
<1>7. f = body(f)
  <2>1. ASSUME NEW n \in 1 .. m PROVE f[n] = f[n - 1] \o SubpathDrawings(p, n)
    <3>1. n - 1 \in 0 .. m
      BY <1>2
    <3>2. f[n] = step[n][f[n - 1]] /\ f[n - 1] \in T
      BY <1>6, <3>1
    <3>3. QED
      BY <3>2 DEF step
  <2>2. f[0] = none /\ f = [n \in 0 .. m |-> f[n]] /\ m \in Nat
    BY <1>2, <1>6
  <2>3. \A k \in 0 .. m : f[k] = IF k = 0 THEN none ELSE f[k - 1] \o SubpathDrawings(p, k)
    <3> SUFFICES ASSUME NEW k \in 0 .. m
                 PROVE  f[k] = IF k = 0 THEN none ELSE f[k - 1] \o SubpathDrawings(p, k)
      OBVIOUS
    <3>1. CASE k = 0
      BY <2>2, <3>1
    <3>2. CASE k # 0
      <4>1. k \in 1 .. m
        BY <1>2, <3>2
      <4>2. f[k] = f[k - 1] \o SubpathDrawings(p, k)
        BY <2>1, <4>1
      <4>3. QED
        BY <3>2, <4>2, Zenon
    <3>3. QED
      BY <3>1, <3>2
  <2>4. f = [k \in 0 .. m |-> IF k = 0 THEN none ELSE f[k - 1] \o SubpathDrawings(p, k)]
    BY <2>2, <2>3, Zenon
  <2>5. QED
    BY <2>4 DEF m, none
<1>8. upTo = body(upTo)
  BY <1>7
<1> HIDE DEF upTo
<1>9. upTo[0] = none /\ \A n \in 1 .. m : upTo[n] = upTo[n - 1] \o SubpathDrawings(p, n)
  <2>1. upTo = [k \in 0 .. m |-> IF k = 0 THEN none ELSE upTo[k - 1] \o SubpathDrawings(p, k)]
    BY <1>8 DEF m, none
  <2> HIDE DEF body
  <2>2. \A k \in 0 .. m : upTo[k] = IF k = 0 THEN none ELSE upTo[k - 1] \o SubpathDrawings(p, k)
    BY <2>1, Zenon
  <2>3. 0 \in 0 .. m /\ \A n \in 1 .. m : n \in 0 .. m /\ n # 0
    BY <1>2
  <2>4. QED
    BY <2>2, <2>3
<1> HIDE DEF body
<1> DEFINE S == {n \in 0 .. m : DrawnSoFar(p, n, upTo[n])}
<1>10. 0 \in S
  <2>1. DrawnSoFar(p, 0, none)
    BY DEF DrawnSoFar, Plainly, none
  <2>2. QED
    BY <1>2, <1>9, <2>1
<1>11. ASSUME NEW n \in 0 .. m - 1, n \in S PROVE n + 1 \in S
  <2>1. /\ n + 1 \in 1 .. m /\ n + 1 \in 0 .. m /\ n \in Nat /\ (n + 1) - 1 = n
        /\ DrawnSoFar(p, n, upTo[n])
    BY <1>2, <1>11
  <2>2. upTo[n + 1] = upTo[n] \o SubpathDrawings(p, n + 1)
    BY <1>9, <2>1
  <2>3. n + 1 \in DOMAIN p.subpaths
    BY <1>2, <2>1
  <2>4. DrawnSoFar(p, n + 1, upTo[n] \o SubpathDrawings(p, n + 1))
    BY <2>1, <2>3, DrawnMore
  <2>5. QED
    BY <2>1, <2>2, <2>4
<1> HIDE DEF S
<1>12. 0 .. m \subseteq S /\ m \in Nat
  BY <1>2, <1>10, <1>11, IntervalInduction
<1>13. m \in S
  BY <1>12
<1>14. QED
  BY <1>1, <1>13 DEF S, m

\* Decomposing a fill takes one drawing for each subpath, and no more points
\* than were counted for it.
LEMMA DecomposedDrawn ==
  ASSUME NEW p, PathNode(p), Parts(p) # {}, Separable(p)
  PROVE  /\ Len(PathDrawings(p)) = Len(p.subpaths)
         /\ PointsOf(PathDrawings(p)) <= CompoundPoints(p)
         /\ PointsOf(PathDrawings(p)) \in Nat /\ CompoundPoints(p) \in Nat
<1> DEFINE drawn == PathDrawings(p)
           m == Len(p.subpaths)
           used == [i \in DOMAIN drawn |-> drawn[i].points]
           counted == [i \in DOMAIN p.subpaths |-> p.subpaths[i].points + 1]
<1>1. DrawnSoFar(p, m, drawn)
  BY PathDrawn
<1>2. /\ m \in Nat /\ DOMAIN p.subpaths = 1 .. m
      /\ \A i \in 1 .. m : p.subpaths[i].points \in Nat
  <2>1. p.subpaths \in Seq(Subpaths)
    BY DEF PathNode, PaintNode
  <2>2. m \in Nat /\ DOMAIN p.subpaths = 1 .. m /\ \A i \in 1 .. m : p.subpaths[i] \in Subpaths
    BY <2>1
  <2> HIDE DEF m
  <2>3. QED
    BY <2>2 DEF Subpaths
<1> HIDE DEF drawn, m
<1>3. Len(drawn) = m /\ \A i \in 1 .. m : drawn[i].points <= p.subpaths[i].points + 1
  BY <1>1 DEF DrawnSoFar, Separable
<1>4. drawn \in Seq(Drawings)
  BY <1>1 DEF DrawnSoFar, Plainly
<1>5. DOMAIN drawn = 1 .. m /\ \A i \in 1 .. m : drawn[i].points \in Nat
  <2>1. DOMAIN drawn = 1 .. m /\ \A i \in 1 .. m : drawn[i] \in Drawings
    BY <1>3, <1>4
  <2>2. QED
    BY <2>1 DEF Drawings
<1>6. /\ used \in Seq(Nat) /\ counted \in Seq(Nat) /\ Len(used) = m /\ Len(counted) = m
      /\ \A i \in 1 .. m : used[i] <= counted[i]
  BY <1>2, <1>3, <1>5
<1> HIDE DEF used, counted
<1>7. Total(used) <= Total(counted) /\ Total(used) \in Nat /\ Total(counted) \in Nat
  BY <1>6, TotalMonotone, TotalNat
<1>8. QED
  BY <1>3, <1>7 DEF used, counted, PointsOf, CompoundPoints, drawn, m

-----------------------------------------------------------------------------
(* Decisions                                                               *)

Failures == {"LimitExceeded", "RasterizationFailed", "NormalizationFailed"}
FallbackCodes == {Island, "gradient-rasterized", "mask-rasterized", "clip-rasterized"}
NoteCodes == FallbackCodes \cup
  {"marker-preserved-as-geometry", "stroke-style-approximated", "corner-radius-approximated",
   "compound-path-decomposed", "path-flattened", "font-substituted", "font-style-approximated",
   "animated-image-snapshot", "filter-omitted", "binding-not-inferred",
   "active-content-ignored", "scene-scaled-to-target-range"}
Notes == [code : NoteCodes, severity : {"info", "approximation", "omission", "fallback"},
          node : Nat]
Deeds == {"omit", "fail", "fallback", "draw", "arrow", "decompose", "embed"}
PlanCodes == {""} \cup Failures \cup FallbackCodes
Plans == [do : Deeds, drawn : Seq(Drawings), code : PlanCodes, notes : Seq(Notes), work : Nat]

\* Drawing d paints a part of its node.
PaintsPart(d, paint) == paint[1] \in d.parts /\ d.piece \in {0, paint[2]}

DrawnOnce(n, drawn) ==
  \A paint \in Paint(n) : \A i, j \in DOMAIN drawn :
    PaintsPart(drawn[i], paint) /\ PaintsPart(drawn[j], paint) => i = j

DrawnAll(n, drawn) ==
  \A paint \in Paint(n) : \E i \in DOMAIN drawn : PaintsPart(drawn[i], paint)

\* What the target can carry of a node: a text has no stroke and no decoration,
\* and no subpath of a path with round caps is without length.
Carried(p) == /\ p.kind = "text" => p.stroke = "none" /\ ~p.decorated
              /\ p.kind = "path" /\ p.stroke = "native" =>
                   \A i \in DOMAIN p.subpaths : p.subpaths[i].points >= 2

StrictlyExact(n) == profile = "strict" /\ Carried(Node(n)) => Exact(n)

\* What every decision on node n is: typed, within the budget of segments,
\* with drawings that paint each part once if it draws, with nothing to paint
\* if it omits, and exact in the strict profile unless it is reported.
PlanFor(n, plan) ==
  /\ plan \in Plans
  /\ plan.do = "fail" => plan.code \in Failures
  /\ plan.do = "fallback" => plan.code \in FallbackCodes
  /\ plan.do = "embed" => plan.code = ""
  /\ segments + plan.work <= Limits.segments
  /\ plan.do = "omit" => Paint(n) = {}
  /\ plan.do \in {"draw", "decompose"} => Plainly(plan.drawn)
  /\ plan.do = "arrow" => /\ Node(n).kind = "path" /\ PromotionAllowed(n)
                          /\ Len(plan.drawn) = 1 /\ plan.drawn[1].type = "arrow"
  /\ plan.do \in {"draw", "arrow", "decompose"} =>
       DrawnOnce(n, plan.drawn) /\ (Carried(Node(n)) => DrawnAll(n, plan.drawn))
  /\ plan.do \notin {"fail", "fallback"} => StrictlyExact(n)

LEMMA NothingDrawn == <<>> \in Seq(Drawings) /\ <<>> \in Seq(Notes)
OBVIOUS

LEMMA OmitFor ==
  ASSUME NEW n, NEW notes \in Seq(Notes), NEW work \in Nat,
         segments + work <= Limits.segments, Paint(n) = {}, StrictlyExact(n)
  PROVE  PlanFor(n, Omit(notes, work))
<1> DEFINE plan == Decide("omit", <<>>, "", notes, work)
<1>1. "omit" \in Deeds /\ <<>> \in Seq(Drawings) /\ "" \in PlanCodes
      /\ notes \in Seq(Notes) /\ work \in Nat
  BY NothingDrawn DEF Deeds, PlanCodes
<1>2. /\ plan \in Plans /\ plan.do = "omit" /\ plan.drawn = <<>> /\ plan.code = ""
      /\ plan.notes = notes /\ plan.work = work
  BY <1>1 DEF Decide, Plans
<1> HIDE DEF plan
<1>3. segments + plan.work <= Limits.segments
  BY <1>2 DEF Plans
<1>4. PlanFor(n, plan)
  BY <1>1, <1>2, <1>3 DEF PlanFor
<1>5. QED
  BY <1>4 DEF plan, Omit

LEMMA FailFor ==
  ASSUME NEW n, NEW error \in Failures, segments \in Nat, segments <= Limits.segments
  PROVE  PlanFor(n, Fail(error))
<1> DEFINE plan == Decide("fail", <<>>, error, <<>>, 0)
<1>1. "fail" \in Deeds /\ <<>> \in Seq(Drawings) /\ error \in PlanCodes
      /\ <<>> \in Seq(Notes) /\ 0 \in Nat
  BY NothingDrawn DEF Deeds, PlanCodes
<1>2. /\ plan \in Plans /\ plan.do = "fail" /\ plan.drawn = <<>> /\ plan.code = error
      /\ plan.notes = <<>> /\ plan.work = 0
  BY <1>1 DEF Decide, Plans
<1> HIDE DEF plan
<1>3. segments + plan.work <= Limits.segments
  BY <1>2 DEF Plans
<1>4. PlanFor(n, plan)
  BY <1>1, <1>2, <1>3 DEF PlanFor
<1>5. QED
  BY <1>4 DEF plan, Fail

LEMMA FallbackFor ==
  ASSUME NEW n, NEW code \in FallbackCodes, NEW notes \in Seq(Notes), NEW work \in Nat,
         segments + work <= Limits.segments
  PROVE  PlanFor(n, Fallback(code, notes, work))
<1> DEFINE plan == Decide("fallback", <<>>, code, notes, work)
<1>1. "fallback" \in Deeds /\ <<>> \in Seq(Drawings) /\ code \in PlanCodes
      /\ notes \in Seq(Notes) /\ work \in Nat
  BY NothingDrawn DEF Deeds, PlanCodes
<1>2. /\ plan \in Plans /\ plan.do = "fallback" /\ plan.drawn = <<>> /\ plan.code = code
      /\ plan.notes = notes /\ plan.work = work
  BY <1>1 DEF Decide, Plans
<1> HIDE DEF plan
<1>3. segments + plan.work <= Limits.segments
  BY <1>2 DEF Plans
<1>4. PlanFor(n, plan)
  BY <1>1, <1>2, <1>3 DEF PlanFor
<1>5. QED
  BY <1>4 DEF plan, Fallback

LEMMA EmbedFor ==
  ASSUME NEW n, segments \in Nat, segments <= Limits.segments, StrictlyExact(n)
  PROVE  PlanFor(n, Decide("embed", <<>>, "", <<>>, 0))
<1> DEFINE plan == Decide("embed", <<>>, "", <<>>, 0)
<1>1. "embed" \in Deeds /\ <<>> \in Seq(Drawings) /\ "" \in PlanCodes
      /\ <<>> \in Seq(Notes) /\ 0 \in Nat
  BY NothingDrawn DEF Deeds, PlanCodes
<1>2. /\ plan \in Plans /\ plan.do = "embed" /\ plan.drawn = <<>> /\ plan.code = ""
      /\ plan.notes = <<>> /\ plan.work = 0
  BY <1>1 DEF Decide, Plans
<1> HIDE DEF plan
<1>3. segments + plan.work <= Limits.segments
  <2>1. plan.work = 0
    BY <1>2
  <2>2. segments + 0 = segments
    OBVIOUS
  <2>3. QED
    BY <2>1, <2>2
<1>4. PlanFor(n, plan)
  BY <1>1, <1>2, <1>3 DEF PlanFor
<1>5. QED
  BY <1>4 DEF plan

LEMMA DrawFor ==
  ASSUME NEW n, NEW do \in {"draw", "decompose"}, NEW drawn, Plainly(drawn),
         NEW notes \in Seq(Notes), NEW work \in Nat,
         segments + work <= Limits.segments, DrawnOnce(n, drawn),
         Carried(Node(n)) => DrawnAll(n, drawn), StrictlyExact(n)
  PROVE  PlanFor(n, Decide(do, drawn, "", notes, work))
<1> DEFINE plan == Decide(do, drawn, "", notes, work)
<1>1. do \in Deeds /\ drawn \in Seq(Drawings) /\ "" \in PlanCodes
      /\ notes \in Seq(Notes) /\ work \in Nat
  BY NothingDrawn DEF Deeds, PlanCodes, Plainly
<1>2. /\ plan \in Plans /\ plan.do = do /\ plan.drawn = drawn /\ plan.code = ""
      /\ plan.notes = notes /\ plan.work = work
  BY <1>1 DEF Decide, Plans
<1> HIDE DEF plan
<1>3. segments + plan.work <= Limits.segments
  BY <1>2 DEF Plans
<1>4. PlanFor(n, plan)
  BY <1>1, <1>2, <1>3 DEF PlanFor
<1>5. QED
  BY <1>4 DEF plan

LEMMA ArrowFor ==
  ASSUME NEW n, NEW drawn \in Seq(Drawings), NEW notes \in Seq(Notes), NEW work \in Nat,
         segments + work <= Limits.segments, Node(n).kind = "path", PromotionAllowed(n),
         Len(drawn) = 1, drawn[1].type = "arrow", DrawnOnce(n, drawn), DrawnAll(n, drawn),
         StrictlyExact(n)
  PROVE  PlanFor(n, Decide("arrow", drawn, "", notes, work))
<1> DEFINE plan == Decide("arrow", drawn, "", notes, work)
<1>1. "arrow" \in Deeds /\ drawn \in Seq(Drawings) /\ "" \in PlanCodes
      /\ notes \in Seq(Notes) /\ work \in Nat
  BY NothingDrawn DEF Deeds, PlanCodes
<1>2. /\ plan \in Plans /\ plan.do = "arrow" /\ plan.drawn = drawn /\ plan.code = ""
      /\ plan.notes = notes /\ plan.work = work
  BY <1>1 DEF Decide, Plans
<1> HIDE DEF plan
<1>3. segments + plan.work <= Limits.segments
  BY <1>2 DEF Plans
<1>4. PlanFor(n, plan)
  BY <1>1, <1>2, <1>3 DEF PlanFor
<1>5. QED
  BY <1>4 DEF plan

\* The paint of a path is that of its pieces, and each painted piece has a line
\* if it is no dot.
LEMMA PathPaintParts ==
  ASSUME NEW p, PathNode(p), NEW paint \in PathPaint(p)
  PROVE  /\ paint[2] \in DOMAIN p.subpaths /\ paint[2] \in 1 .. Len(p.subpaths)
         /\ paint[1] \in PieceParts(p, paint[2]) /\ paint[1] \in Parts(p)
         /\ Carried(p) => p.subpaths[paint[2]].points >= 2
<1>1. p.subpaths \in Seq(Subpaths)
  BY DEF PathNode, PaintNode
<1>2. DOMAIN p.subpaths = 1 .. Len(p.subpaths)
  BY <1>1
<1>3. \A i \in DOMAIN p.subpaths : p.subpaths[i] \in Subpaths
  BY <1>1
<1>4. \A i \in DOMAIN p.subpaths : p.subpaths[i].points \in Nat
  BY <1>3 DEF Subpaths
<1>5. CASE paint \in {<<"fill", i>> : i \in {i \in DOMAIN p.subpaths : FillPainted(p, p.subpaths[i])}}
  <2>1. PICK i \in DOMAIN p.subpaths : FillPainted(p, p.subpaths[i]) /\ paint = <<"fill", i>>
    BY <1>5
  <2>2. "fill" \in Parts(p) /\ p.subpaths[i].points >= 2 /\ "fill" \in PieceParts(p, i)
    BY <1>4, <2>1 DEF FillPainted, Parts, PieceParts
  <2>3. QED
    BY <1>2, <2>1, <2>2
<1>6. CASE paint \in {<<"stroke", i>> : i \in {i \in DOMAIN p.subpaths : Inked(p, p.subpaths[i])}}
  <2>1. PICK i \in DOMAIN p.subpaths : Inked(p, p.subpaths[i]) /\ paint = <<"stroke", i>>
    BY <1>6
  <2>2. p.stroke # "none"
    BY <2>1 DEF Inked
  <2>3. "stroke" \in Parts(p) /\ "stroke" \in PieceParts(p, i)
    BY <2>2 DEF Parts, PieceParts
  <2>4. p.kind = "path"
    BY DEF PathNode
  <2>5. Carried(p) => p.subpaths[i].points >= 2
    BY <2>1, <2>4 DEF Inked, Carried
  <2>6. QED
    BY <1>2, <2>1, <2>3, <2>5
<1>7. QED
  BY <1>5, <1>6 DEF PathPaint

LEMMA WholePaints ==
  ASSUME NEW n, PathNode(Node(n)), Node(n).visible, Parts(Node(n)) # {},
         NEW type \in {"rectangle", "ellipse"}
  PROVE  LET drawn == Whole(type, Node(n))
         IN Plainly(drawn) /\ DrawnOnce(n, drawn) /\ DrawnAll(n, drawn)
<1> DEFINE p == Node(n)
           drawn == Whole(type, p)
<1>1. Paint(n) = PathPaint(p)
  BY DEF Paint, PathNode
<1>2. /\ Plainly(drawn) /\ \A i \in DOMAIN drawn : drawn[i].piece = 0
      /\ Divides([i \in DOMAIN drawn |-> drawn[i].parts], Parts(p))
  BY WholeDrawn
<1>3. \A paint \in PathPaint(p) : paint[1] \in Parts(p)
  BY PathPaintParts
<1> HIDE DEF drawn, p
<1>4. \A part \in Parts(p) :
        /\ \E i \in DOMAIN drawn : part \in drawn[i].parts
        /\ \A i, j \in DOMAIN drawn : part \in drawn[i].parts /\ part \in drawn[j].parts => i = j
  BY <1>2 DEF Divides
<1>5. DrawnOnce(n, drawn)
  BY <1>1, <1>3, <1>4 DEF DrawnOnce, PaintsPart
<1>6. DrawnAll(n, drawn)
  BY <1>1, <1>2, <1>3, <1>4 DEF DrawnAll, PaintsPart
<1>7. QED
  BY <1>2, <1>5, <1>6 DEF drawn, p

LEMMA PiecesPaint ==
  ASSUME NEW n, PathNode(Node(n)), Node(n).visible, Parts(Node(n)) # {}
  PROVE  LET drawn == PathDrawings(Node(n))
         IN Plainly(drawn) /\ DrawnOnce(n, drawn) /\ (Carried(Node(n)) => DrawnAll(n, drawn))
<1> DEFINE p == Node(n)
           drawn == PathDrawings(p)
<1>1. Paint(n) = PathPaint(p)
  BY DEF Paint, PathNode
<1>2. DrawnSoFar(p, Len(p.subpaths), drawn)
  BY PathDrawn
<1>3. PathNode(p)
  OBVIOUS
<1> HIDE DEF drawn, p
<1>4. Plainly(drawn) /\ \A i \in DOMAIN drawn : drawn[i].piece \in 1 .. Len(p.subpaths)
  BY <1>2 DEF DrawnSoFar
<1>5. ASSUME NEW paint \in PathPaint(p)
      PROVE  /\ Carried(p) => \E i \in DOMAIN drawn : PaintsPart(drawn[i], paint)
             /\ \A i, j \in DOMAIN drawn :
                  PaintsPart(drawn[i], paint) /\ PaintsPart(drawn[j], paint) => i = j
  <2>1. /\ paint[2] \in 1 .. Len(p.subpaths) /\ paint[1] \in PieceParts(p, paint[2])
        /\ Carried(p) => p.subpaths[paint[2]].points >= 2
    BY <1>3, PathPaintParts
  <2> DEFINE lined == p.subpaths[paint[2]].points >= 2
  <2>2. lined => PieceOnce(drawn, paint[2], PieceParts(p, paint[2]))
    BY <1>2, <2>1 DEF DrawnSoFar
  <2>d. \A i \in DOMAIN drawn : drawn[i].piece = paint[2] => lined
    BY <1>2 DEF DrawnSoFar
  <2> HIDE DEF lined
  <2>3. \A i \in DOMAIN drawn : PaintsPart(drawn[i], paint) <=>
                                  drawn[i].piece = paint[2] /\ paint[1] \in drawn[i].parts
    <3>1. \A i \in DOMAIN drawn : drawn[i].piece # 0
      BY <1>4
    <3>2. QED
      BY <3>1 DEF PaintsPart
  <2>4. lined => /\ \E i \in DOMAIN drawn : PaintsPart(drawn[i], paint)
                 /\ \A i, j \in DOMAIN drawn :
                      PaintsPart(drawn[i], paint) /\ PaintsPart(drawn[j], paint) => i = j
    BY <2>1, <2>2, <2>3 DEF PieceOnce
  <2>5. Carried(p) => lined
    BY <2>1 DEF lined
  <2>6. QED
    BY <2>3, <2>4, <2>5, <2>d
<1>6. DrawnOnce(n, drawn) /\ (Carried(p) => DrawnAll(n, drawn))
  BY <1>1, <1>5 DEF DrawnOnce, DrawnAll
<1>7. QED
  BY <1>4, <1>6 DEF drawn, p

LEMMA NoteTyped ==
  ASSUME NEW code \in NoteCodes, NEW severity \in {"info", "approximation", "omission", "fallback"},
         NEW n \in Nat
  PROVE  /\ Note(code, severity, n) \in Notes /\ <<Note(code, severity, n)>> \in Seq(Notes)
         /\ Note(code, severity, n).severity = severity
<1>1. Note(code, severity, n) \in Notes /\ Note(code, severity, n).severity = severity
  BY DEF Note, Notes
<1>2. QED
  BY <1>1

LEMMA MarkerNoteTyped ==
  ASSUME NEW n \in Nat
  PROVE  MarkerNote(n) \in Seq(Notes)
<1>1. "marker-preserved-as-geometry" \in NoteCodes
  BY DEF NoteCodes
<1>2. <<Note("marker-preserved-as-geometry", "fallback", n)>> \in Seq(Notes)
  BY <1>1, NoteTyped
<1>3. QED
  BY <1>2, NothingDrawn DEF MarkerNote

SegmentsTyped == segments \in Nat /\ Limits.segments \in Nat /\ segments <= Limits.segments

LEMMA PathPlanFor ==
  ASSUME NEW n \in Nat, PathNode(Node(n)), Node(n).visible, SegmentsTyped,
         profile = "strict" => Exacting
  PROVE  PlanFor(n, PathPlan(n))
<1> DEFINE p == Node(n)
           rounded == Known(n) /\ p.corner # "none"
           early == IF Meta(n).marker = "unknown" THEN MarkerNote(n) ELSE <<>>
           notes == early \o (IF p.stroke = "dashed"
                              THEN <<Note("stroke-style-approximated", "approximation", n)>>
                              ELSE <<>>)
           marked == notes \o (IF Meta(n).marker = "known" THEN MarkerNote(n) ELSE <<>>)
           work == p.segments
           radius == notes \o (IF p.corner = "exact" THEN <<>>
                     ELSE <<Note("corner-radius-approximated", "approximation", n)>>)
           compound == notes \o <<Note("compound-path-decomposed", "approximation", n)>>
           flattened == marked \o (IF Flattened(p)
                                   THEN <<Note("path-flattened", "approximation", n)>> ELSE <<>>)
<1>1. /\ <<>> \in Seq(Notes) /\ MarkerNote(n) \in Seq(Notes)
      /\ \A code \in NoteCodes : <<Note(code, "approximation", n)>> \in Seq(Notes)
  BY NothingDrawn, MarkerNoteTyped, NoteTyped
<1>2. /\ "stroke-style-approximated" \in NoteCodes /\ "corner-radius-approximated" \in NoteCodes
      /\ "compound-path-decomposed" \in NoteCodes /\ "path-flattened" \in NoteCodes
      /\ Island \in FallbackCodes /\ "gradient-rasterized" \in FallbackCodes
      /\ "LimitExceeded" \in Failures
  BY DEF NoteCodes, FallbackCodes, Failures
<1>3. early \in Seq(Notes)
  BY <1>1
<1> HIDE DEF early
<1>4. notes \in Seq(Notes)
  <2>1. (IF p.stroke = "dashed" THEN <<Note("stroke-style-approximated", "approximation", n)>>
         ELSE <<>>) \in Seq(Notes)
    BY <1>1, <1>2
  <2>2. QED
    BY <1>3, <2>1, ConcatParts
<1> HIDE DEF notes
<1>5. marked \in Seq(Notes)
  <2>1. (IF Meta(n).marker = "known" THEN MarkerNote(n) ELSE <<>>) \in Seq(Notes)
    BY <1>1
  <2>2. QED
    BY <1>4, <2>1, ConcatParts
<1>6. radius \in Seq(Notes)
  <2>1. (IF p.corner = "exact" THEN <<>>
         ELSE <<Note("corner-radius-approximated", "approximation", n)>>) \in Seq(Notes)
    BY <1>1, <1>2
  <2>2. QED
    BY <1>4, <2>1, ConcatParts
<1>7. compound \in Seq(Notes)
  <2>1. <<Note("compound-path-decomposed", "approximation", n)>> \in Seq(Notes)
    BY <1>1, <1>2
  <2>2. QED
    BY <1>4, <2>1, ConcatParts
<1> HIDE DEF marked
<1>8. flattened \in Seq(Notes)
  <2>1. (IF Flattened(p) THEN <<Note("path-flattened", "approximation", n)>>
         ELSE <<>>) \in Seq(Notes)
    BY <1>1, <1>2
  <2>2. QED
    BY <1>5, <2>1, ConcatParts
<1> HIDE DEF radius, compound, flattened
<1>9. /\ p.kind = "path" /\ p.visible /\ p.segments \in Nat /\ work \in Nat
      /\ p.stroke \in {"none", "native", "dashed", "skewed", "gradient"}
      /\ p.corner \in {"none", "exact", "near", "far"}
      /\ p.subpaths \in Seq(Subpaths)
  BY DEF PathNode, PaintNode
<1>10. Paint(n) = PathPaint(p) /\ PathNode(p)
  BY <1>9 DEF Paint
<1>11. Exact(n) <=> (Parts(p) # {} =>
          /\ SolidPaint(p) /\ p.stroke \in {"none", "native"}
          /\ \/ p.corner = "exact" \/ p.shape = "ellipse"
             \/ /\ ~p.curved
                /\ p.stroke = "native" => \A i \in DOMAIN p.subpaths : p.subpaths[i].points >= 2)
  BY <1>9 DEF Exact
<1>12. segments \in Nat /\ segments <= Limits.segments /\ segments + 0 <= Limits.segments /\ 0 \in Nat
  BY DEF SegmentsTyped
<1>13. CASE Parts(p) = {}
  <2>1. PathPlan(n) = Omit(early, 0)
    BY <1>13 DEF PathPlan, early
  <2>2. PathPaint(p) = {}
    BY <1>10, <1>13, PathPaintParts
  <2>3. StrictlyExact(n)
    BY <1>11, <1>13 DEF StrictlyExact
  <2>4. QED
    BY <1>3, <1>10, <1>12, <2>1, <2>2, <2>3, OmitFor
<1> DEFINE lost == ~SolidPaint(p)
           skewed == p.stroke = "skewed" \/ (p.stroke = "dashed" /\ Exacting)
           far == rounded /\ (p.corner = "far" \/ (p.corner = "near" /\ Exacting))
           long == \E i \in DOMAIN p.subpaths : p.subpaths[i].pushed > Limits.points
           crossed == p.fill # "none" /\ (\E i \in DOMAIN p.subpaths : ~Simple(p.subpaths[i]))
<1>14. CASE Parts(p) # {} /\ lost
  <2>1. PathPlan(n) = Fallback("gradient-rasterized", early, 0)
    BY <1>14 DEF PathPlan, early
  <2>2. QED
    BY <1>2, <1>3, <1>12, <2>1, FallbackFor
<1>15. CASE Parts(p) # {} /\ ~lost /\ skewed
  <2>1. PathPlan(n) = Fallback(Island, early, 0)
    BY <1>15 DEF PathPlan, early
  <2>2. QED
    BY <1>2, <1>3, <1>12, <2>1, FallbackFor
<1>16. CASE Parts(p) # {} /\ ~lost /\ ~skewed /\ SegmentsExceeded(p)
  <2>1. PathPlan(n) = Fail("LimitExceeded")
    BY <1>16 DEF PathPlan
  <2>2. QED
    BY <1>2, <1>12, <2>1, FailFor
<1>17. CASE Parts(p) # {} /\ ~lost /\ ~skewed /\ ~SegmentsExceeded(p)
  <2>1. segments + work <= Limits.segments
    BY <1>9, <1>17 DEF SegmentsExceeded, SegmentsTyped
  <2>2. SolidPaint(p) /\ (profile = "strict" => p.stroke \in {"none", "native"})
    <3>1. SolidPaint(p) => p.stroke # "gradient"
      BY DEF SolidPaint
    <3>2. QED
      BY <1>9, <1>17, <3>1
  <2>3. CASE far
    <3>1. PathPlan(n) = Fallback(Island, notes, work)
      BY <1>17, <2>3 DEF PathPlan, notes, early
    <3>2. QED
      BY <1>2, <1>4, <1>9, <2>1, <3>1, FallbackFor
  <2>4. CASE ~far /\ rounded
    <3>1. PathPlan(n) = Draw(Whole("rectangle", p), radius, work)
      BY <1>17, <2>4 DEF PathPlan, radius, notes, early
    <3>2. LET drawn == Whole("rectangle", p)
          IN Plainly(drawn) /\ DrawnOnce(n, drawn) /\ DrawnAll(n, drawn)
      BY <1>9, <1>17, WholePaints
    <3>3. StrictlyExact(n)
      BY <1>9, <1>11, <2>2, <2>4 DEF StrictlyExact
    <3>4. PlanFor(n, Decide("draw", Whole("rectangle", p), "", radius, work))
      BY <1>6, <1>9, <2>1, <3>2, <3>3, DrawFor
    <3>5. QED
      BY <3>1, <3>4 DEF Draw
  <2>5. CASE ~far /\ ~rounded /\ p.shape = "ellipse"
    <3>1. PathPlan(n) = Draw(Whole("ellipse", p), notes, work)
      BY <1>17, <2>5 DEF PathPlan, notes, early
    <3>2. LET drawn == Whole("ellipse", p)
          IN Plainly(drawn) /\ DrawnOnce(n, drawn) /\ DrawnAll(n, drawn)
      BY <1>9, <1>17, WholePaints
    <3>3. StrictlyExact(n)
      BY <1>11, <2>2, <2>5 DEF StrictlyExact
    <3>4. PlanFor(n, Decide("draw", Whole("ellipse", p), "", notes, work))
      BY <1>4, <1>9, <2>1, <3>2, <3>3, DrawFor
    <3>5. QED
      BY <3>1, <3>4 DEF Draw
  <2>6. CASE ~far /\ ~rounded /\ p.shape # "ellipse" /\ p.curved /\ Exacting
    <3>1. PathPlan(n) = Fallback(Island, notes, work)
      BY <1>17, <2>6 DEF PathPlan, notes, early
    <3>2. QED
      BY <1>2, <1>4, <1>9, <2>1, <3>1, FallbackFor
  <2>7. CASE ~far /\ ~rounded /\ p.shape # "ellipse" /\ ~(p.curved /\ Exacting)
    <3>1. StrictlyExact(n)
      <4>1. Carried(p) /\ p.stroke = "native" =>
              \A i \in DOMAIN p.subpaths : p.subpaths[i].points >= 2
        BY <1>9 DEF Carried
      <4>2. QED
        BY <1>11, <2>2, <2>7, <4>1 DEF StrictlyExact
    <3>2. LET drawn == PathDrawings(p)
          IN Plainly(drawn) /\ DrawnOnce(n, drawn) /\ (Carried(p) => DrawnAll(n, drawn))
      BY <1>9, <1>17, PiecesPaint
    <3>3. CASE long
      <4>1. PathPlan(n) = Fail("LimitExceeded")
        BY <1>17, <2>7, <3>3 DEF PathPlan
      <4>2. QED
        BY <1>2, <1>12, <4>1, FailFor
    <3>4. CASE ~long /\ p.subpaths = <<>>
      <4>1. PathPlan(n) = Omit(notes, work)
        BY <1>17, <2>7, <3>4 DEF PathPlan, notes, early
      <4>2. DOMAIN p.subpaths = {}
        BY <3>4
      <4>3. PathPaint(p) = {}
        BY <1>10, <4>2, PathPaintParts
      <4>4. QED
        BY <1>4, <1>9, <1>10, <2>1, <3>1, <4>1, <4>3, OmitFor
    <3>5. CASE /\ ~long /\ p.subpaths # <<>> /\ Len(p.subpaths) > 1 /\ p.fill # "none"
               /\ profile = "editable" /\ Separable(p) /\ Affordable(p)
      <4>1. PathPlan(n) = Decide("decompose", PathDrawings(p), "", compound, work)
        BY <1>17, <2>7, <3>5 DEF PathPlan, compound, notes, early
      <4>2. QED
        BY <1>7, <1>9, <2>1, <3>1, <3>2, <4>1, DrawFor
    <3>6. CASE /\ ~long /\ p.subpaths # <<>> /\ Len(p.subpaths) > 1 /\ p.fill # "none"
               /\ ~(profile = "editable" /\ Separable(p) /\ Affordable(p))
      <4>1. PathPlan(n) = Fallback(Island, notes, work)
        BY <1>17, <2>7, <3>6 DEF PathPlan, notes, early
      <4>2. QED
        BY <1>2, <1>4, <1>9, <2>1, <4>1, FallbackFor
    <3>7. CASE /\ ~long /\ p.subpaths # <<>> /\ ~(Len(p.subpaths) > 1 /\ p.fill # "none")
               /\ Promotable(n)
      <4> DEFINE head == Drawing("arrow", {"stroke"}, 1, p.subpaths[1].points)
                 drawn == <<head>>
      <4>1. PathPlan(n) = Decide("arrow", drawn, "", notes, work)
        BY <1>17, <2>7, <3>7 DEF PathPlan, notes, early
      <4>2. /\ PromotionAllowed(n) /\ Len(p.subpaths) = 1 /\ ~FillPainted(p, p.subpaths[1])
        BY <3>7 DEF Promotable
      <4>3. p.subpaths[1] \in Subpaths
        BY <1>9, <4>2
      <4>4. head \in Drawings /\ head.type = "arrow" /\ head.parts = {"stroke"} /\ head.piece = 1
        BY <4>3 DEF Drawing, Drawings, Subpaths, BothParts
      <4> HIDE DEF head
      <4>5. /\ drawn \in Seq(Drawings) /\ Len(drawn) = 1 /\ DOMAIN drawn = 1 .. 1
            /\ drawn[1] = head /\ \A i \in DOMAIN drawn : i = 1
        BY <4>4, OneRole
      <4> HIDE DEF drawn
      <4>6. DrawnOnce(n, drawn)
        BY <4>5 DEF DrawnOnce
      <4>7. ASSUME NEW paint \in PathPaint(p) PROVE PaintsPart(head, paint)
        <5>1. /\ paint[2] \in 1 .. Len(p.subpaths) /\ paint[1] \in PieceParts(p, paint[2])
          BY <1>10, <4>7, PathPaintParts
        <5>2. paint[2] = 1
          BY <4>2, <5>1
        <5>3. paint[1] = "stroke"
          BY <4>2, <5>1, <5>2 DEF PieceParts
        <5>4. QED
          BY <4>4, <5>2, <5>3 DEF PaintsPart
      <4>8. DrawnAll(n, drawn)
        <5>1. 1 \in DOMAIN drawn
          BY <4>5
        <5>2. QED
          BY <1>10, <4>5, <4>7, <5>1 DEF DrawnAll
      <4>9. drawn[1].type = "arrow"
        BY <4>4, <4>5
      <4>10. PlanFor(n, Decide("arrow", drawn, "", notes, work))
        BY <1>4, <1>9, <2>1, <3>1, <4>2, <4>5, <4>6, <4>8, <4>9, ArrowFor
      <4>11. QED
        BY <4>1, <4>10
    <3>8. CASE /\ ~long /\ p.subpaths # <<>> /\ ~(Len(p.subpaths) > 1 /\ p.fill # "none")
               /\ ~Promotable(n) /\ crossed
      <4>1. PathPlan(n) = Fallback(Island, marked, work)
        BY <1>17, <2>7, <3>8 DEF PathPlan, marked, notes, early
      <4>2. QED
        BY <1>2, <1>5, <1>9, <2>1, <4>1, FallbackFor
    <3>9. CASE /\ ~long /\ p.subpaths # <<>> /\ ~(Len(p.subpaths) > 1 /\ p.fill # "none")
               /\ ~Promotable(n) /\ ~crossed
      <4>1. PathPlan(n) = Draw(PathDrawings(p), flattened, work)
        BY <1>17, <2>7, <3>9 DEF PathPlan, flattened, marked, notes, early
      <4>2. PlanFor(n, Decide("draw", PathDrawings(p), "", flattened, work))
        BY <1>8, <1>9, <2>1, <3>1, <3>2, DrawFor
      <4>3. QED
        BY <4>1, <4>2 DEF Draw
    <3>10. QED
      BY <3>3, <3>4, <3>5, <3>6, <3>7, <3>8, <3>9
  <2>8. QED
    BY <2>3, <2>4, <2>5, <2>6, <2>7
<1>18. QED
  BY <1>13, <1>14, <1>15, <1>16, <1>17

LEMMA TextPlanFor ==
  ASSUME NEW n \in Nat, Node(n).kind = "text", SegmentsTyped,
         profile = "strict" => Exacting
  PROVE  PlanFor(n, TextPlan(n))
<1> DEFINE t == Node(n)
           substituted == IF t.font = "exact" THEN <<>>
                          ELSE <<Note("font-substituted", "approximation", n)>>
           styled == IF t.font = "style"
                     THEN <<Note("font-style-approximated", "approximation", n)>> ELSE <<>>
           fontNotes == substituted \o styled
           glyphs == Drawing("text", {"fill"}, 0, 0)
           drawn == <<glyphs>>
<1>1. /\ <<>> \in Seq(Notes) /\ segments + 0 <= Limits.segments /\ 0 \in Nat
      /\ segments \in Nat /\ segments <= Limits.segments
  BY NothingDrawn DEF SegmentsTyped
<1>2. /\ "font-substituted" \in NoteCodes /\ "font-style-approximated" \in NoteCodes
      /\ Island \in FallbackCodes /\ "NormalizationFailed" \in Failures
  BY DEF NoteCodes, FallbackCodes, Failures
<1>3. fontNotes \in Seq(Notes)
  <2>1. substituted \in Seq(Notes) /\ styled \in Seq(Notes)
    BY <1>1, <1>2, NoteTyped
  <2> HIDE DEF substituted, styled
  <2>2. QED
    BY <2>1, ConcatParts
<1> HIDE DEF fontNotes
<1>4. Exact(n) <=> \/ t.layout = "empty"
                   \/ /\ t.layout # "complex" /\ t.font = "exact"
                      /\ t.fill = "solid" /\ TextParts(t) = {"fill"}
  BY DEF Exact
<1>t. Carried(t) => t.stroke = "none" /\ ~t.decorated
  BY DEF Carried
<1>5. CASE t.layout = "empty"
  <2>1. TextPlan(n) = Omit(<<>>, 0)
    BY <1>5 DEF TextPlan
  <2>2. Paint(n) = {}
    BY <1>5 DEF Paint
  <2>3. QED
    BY <1>1, <1>4, <1>5, <2>1, <2>2, OmitFor DEF StrictlyExact
<1> DEFINE complex == t.layout = "complex" \/ (t.font # "exact" /\ Exacting)
<1>6. CASE t.layout # "empty" /\ complex
  <2>1. TextPlan(n) = Fallback(Island, <<>>, 0)
    BY <1>6 DEF TextPlan
  <2>2. QED
    BY <1>1, <1>2, <2>1, FallbackFor
<1>7. CASE t.layout # "empty" /\ ~complex /\ t.fill # "solid"
  <2>1. TextPlan(n) = Fail("NormalizationFailed")
    BY <1>7 DEF TextPlan
  <2>2. QED
    BY <1>1, <1>2, <2>1, FailFor
<1>8. CASE t.layout # "empty" /\ ~complex /\ t.fill = "solid"
  <2>1. TextPlan(n) = Draw(drawn, fontNotes, 0)
    BY <1>8 DEF TextPlan, fontNotes
  <2>2. /\ glyphs \in Drawings /\ PlainDrawing(glyphs) /\ glyphs.parts = {"fill"}
        /\ glyphs.piece = 0
    BY DEF Drawing, Drawings, BothParts, PlainDrawing
  <2> HIDE DEF glyphs
  <2>3. /\ drawn \in Seq(Drawings) /\ DOMAIN drawn = 1 .. 1 /\ drawn[1] = glyphs
        /\ \A i \in DOMAIN drawn : i = 1
    BY <2>2, OneRole
  <2> HIDE DEF drawn
  <2>4. Plainly(drawn)
    BY <2>2, <2>3 DEF Plainly
  <2>5. DrawnOnce(n, drawn)
    BY <2>3 DEF DrawnOnce
  <2>f. Carried(t) => TextParts(t) = {"fill"}
    <3>1. t.fill # "none"
      BY <1>8
    <3>2. QED
      BY <1>t, <3>1 DEF TextParts, Parts
  <2>6. Carried(t) => DrawnAll(n, drawn)
    <3> SUFFICES ASSUME Carried(t), NEW paint \in Paint(n) PROVE PaintsPart(drawn[1], paint)
      BY <2>3 DEF DrawnAll
    <3>1. Paint(n) = {<<part, 0>> : part \in TextParts(t)}
      BY <1>8 DEF Paint
    <3>2. PICK part \in TextParts(t) : paint = <<part, 0>>
      BY <3>1
    <3>3. paint[1] = "fill" /\ paint[2] = 0
      BY <2>f, <3>2
    <3>4. QED
      BY <2>2, <2>3, <3>3 DEF PaintsPart
  <2>7. StrictlyExact(n)
    BY <1>4, <1>8, <2>f DEF StrictlyExact
  <2>8. PlanFor(n, Decide("draw", drawn, "", fontNotes, 0))
    BY <1>1, <1>3, <2>4, <2>5, <2>6, <2>7, DrawFor
  <2>9. QED
    BY <2>1, <2>8 DEF Draw
<1>9. QED
  BY <1>5, <1>6, <1>7, <1>8

LEMMA ImagePlanFor ==
  ASSUME NEW n \in Nat, Node(n).kind = "image", SegmentsTyped
  PROVE  PlanFor(n, ImagePlan(n))
<1>1. /\ segments + 0 <= Limits.segments /\ 0 \in Nat
      /\ segments \in Nat /\ segments <= Limits.segments
  BY DEF SegmentsTyped
<1>2. /\ "animated-image-snapshot" \in NoteCodes /\ Island \in FallbackCodes
      /\ "RasterizationFailed" \in Failures
  BY DEF NoteCodes, FallbackCodes, Failures
<1>3. CASE Node(n).animated
  <2>1. <<Note("animated-image-snapshot", "fallback", n)>> \in Seq(Notes)
    BY <1>2, NoteTyped
  <2>2. QED
    BY <1>1, <1>2, <1>3, <2>1, FallbackFor DEF ImagePlan
<1>4. CASE ~Node(n).animated /\ ~Node(n).shown
  BY <1>1, <1>2, <1>4, FailFor DEF ImagePlan
<1>5. CASE ~Node(n).animated /\ Node(n).shown
  <2>1. Exact(n)
    BY <1>5 DEF Exact
  <2>2. QED
    BY <1>1, <1>5, <2>1, EmbedFor DEF ImagePlan, StrictlyExact
<1>6. QED
  BY <1>3, <1>4, <1>5

LEMMA IslandPlanFor ==
  ASSUME NEW n, SegmentsTyped
  PROVE  PlanFor(n, IslandPlan(n)) /\ IslandPlan(n).do = "fallback"
<1>1. segments + 0 <= Limits.segments /\ 0 \in Nat /\ <<>> \in Seq(Notes)
  BY NothingDrawn DEF SegmentsTyped
<1>2. \A code \in FallbackCodes : PlanFor(n, Fallback(code, <<>>, 0))
  BY <1>1, FallbackFor
<1>3. PICK code \in FallbackCodes : IslandPlan(n) = Fallback(code, <<>>, 0)
  BY DEF IslandPlan, FallbackCodes
<1>4. Fallback(code, <<>>, 0).do = "fallback"
  BY DEF Fallback, Decide
<1>5. QED
  BY <1>2, <1>3, <1>4

LEMMA HiddenPlanFor ==
  ASSUME NEW n, Node(n).kind = "path", ~Node(n).visible, SegmentsTyped
  PROVE  PlanFor(n, Omit(<<>>, 0))
<1>1. segments + 0 <= Limits.segments /\ 0 \in Nat /\ <<>> \in Seq(Notes)
  BY NothingDrawn DEF SegmentsTyped
<1>2. Paint(n) = {} /\ Exact(n)
  BY DEF Paint, Exact
<1>3. QED
  BY <1>1, <1>2, OmitFor DEF StrictlyExact

-----------------------------------------------------------------------------
(* Pieces                                                                  *)

CompoundFill(n) == /\ Node(n).kind = "path" /\ Node(n).fill # "none"
                   /\ Len(Node(n).subpaths) > 1

\* The pieces a decision draws: a compound fill piece by piece if it decomposes
\* it, and no two fills of different pieces otherwise.
Shaped(n, plan) ==
  /\ plan.do = "decompose" =>
       /\ CompoundFill(n)
       /\ \A i \in DOMAIN plan.drawn : /\ plan.drawn[i].piece = i
                                       /\ plan.drawn[i].parts = {"fill"}
  /\ plan.do \in {"draw", "arrow"} =>
       /\ CompoundFill(n) => \A i \in DOMAIN plan.drawn : plan.drawn[i].piece = 0
       /\ \A i, j \in DOMAIN plan.drawn :
            plan.drawn[i].parts = {"fill"} /\ plan.drawn[j].parts = {"fill"} =>
              plan.drawn[i].piece = plan.drawn[j].piece
  /\ plan.do = "arrow" => /\ Node(n).kind = "path" /\ Meta(n).marker = "known"
                          /\ Len(Node(n).subpaths) = 1
                          /\ plan.drawn[1].points = Node(n).subpaths[1].points

\* A decision that draws nothing.
LEMMA ShapedIdle ==
  ASSUME NEW n, NEW plan, plan.do \notin {"draw", "arrow", "decompose"}
  PROVE  Shaped(n, plan)
BY DEF Shaped

\* One that draws the path, or the text, as a whole.
LEMMA ShapedWhole ==
  ASSUME NEW n, NEW plan, plan.do = "draw",
         \A i \in DOMAIN plan.drawn : plan.drawn[i].piece = 0
  PROVE  Shaped(n, plan)
BY DEF Shaped

LEMMA PathPlanDraws ==
  ASSUME NEW n
  PROVE  LET p == Node(n) IN
         /\ PathPlan(n).do \in {"draw", "arrow", "decompose"} => Parts(p) # {}
         /\ PathPlan(n).do = "draw" =>
              \/ \E type \in {"rectangle", "ellipse"} : PathPlan(n).drawn = Whole(type, p)
              \/ /\ PathPlan(n).drawn = PathDrawings(p)
                 /\ ~(Len(p.subpaths) > 1 /\ p.fill # "none")
         /\ PathPlan(n).do = "arrow" =>
              /\ Promotable(n)
              /\ PathPlan(n).drawn = <<Drawing("arrow", {"stroke"}, 1, p.subpaths[1].points)>>
         /\ PathPlan(n).do = "decompose" =>
              /\ PathPlan(n).drawn = PathDrawings(p) /\ Separable(p)
              /\ Len(p.subpaths) > 1 /\ p.fill # "none"
BY DEF PathPlan, Omit, Fail, Fallback, Draw, Decide

LEMMA ShapedPath ==
  ASSUME NEW n, PathNode(Node(n))
  PROVE  Shaped(n, PathPlan(n))
<1> DEFINE p == Node(n)
           plan == PathPlan(n)
<1>1. PathNode(p) /\ p.kind = "path" /\ p.subpaths \in Seq(Subpaths) /\ Len(p.subpaths) \in Nat
  BY DEF PathNode, PaintNode
<1>2. CompoundFill(n) <=> Len(p.subpaths) > 1 /\ p.fill # "none"
  BY <1>1 DEF CompoundFill
<1>3. /\ plan.do \in {"draw", "arrow", "decompose"} => Parts(p) # {}
      /\ plan.do = "draw" =>
           \/ \E type \in {"rectangle", "ellipse"} : plan.drawn = Whole(type, p)
           \/ /\ plan.drawn = PathDrawings(p)
              /\ ~(Len(p.subpaths) > 1 /\ p.fill # "none")
      /\ plan.do = "arrow" =>
           /\ Promotable(n)
           /\ plan.drawn = <<Drawing("arrow", {"stroke"}, 1, p.subpaths[1].points)>>
      /\ plan.do = "decompose" =>
           /\ plan.drawn = PathDrawings(p) /\ Separable(p)
           /\ Len(p.subpaths) > 1 /\ p.fill # "none"
  BY PathPlanDraws
<1>4. plan.do = "arrow" => p.kind = "path" /\ Meta(n).marker = "known" /\ Len(p.subpaths) = 1
  BY <1>1, <1>3 DEF Promotable, PromotionAllowed
<1> HIDE DEF plan, p
<1>5. CASE plan.do \notin {"draw", "arrow", "decompose"}
  BY <1>5, ShapedIdle DEF plan
<1>6. Parts(p) # {} => DrawnSoFar(p, Len(p.subpaths), PathDrawings(p))
  BY <1>1, PathDrawn
<1>7. CASE plan.do = "draw"
  <2>1. CASE \E type \in {"rectangle", "ellipse"} : plan.drawn = Whole(type, p)
    <3>1. \A i \in DOMAIN plan.drawn : plan.drawn[i].piece = 0
      BY <1>3, <1>7, <2>1, WholeDrawn
    <3>2. QED
      BY <1>7, <3>1, ShapedWhole DEF plan
  <2>2. CASE plan.drawn = PathDrawings(p) /\ ~(Len(p.subpaths) > 1 /\ p.fill # "none")
    <3>1. DrawnSoFar(p, Len(p.subpaths), plan.drawn)
      BY <1>3, <1>6, <1>7, <2>2
    <3>2. ASSUME NEW i \in DOMAIN plan.drawn, NEW j \in DOMAIN plan.drawn,
                 plan.drawn[i].parts = {"fill"}, plan.drawn[j].parts = {"fill"}
          PROVE  plan.drawn[i].piece = plan.drawn[j].piece
      <4>1. p.fill # "none"
        BY <3>1, <3>2 DEF DrawnSoFar
      <4>2. ~(Len(p.subpaths) > 1)
        BY <2>2, <4>1
      <4>3. /\ plan.drawn[i].piece \in 1 .. Len(p.subpaths)
            /\ plan.drawn[j].piece \in 1 .. Len(p.subpaths)
        BY <3>1 DEF DrawnSoFar
      <4>4. QED
        BY <1>1, <4>2, <4>3
    <3>3. ~CompoundFill(n)
      BY <1>2, <2>2
    <3>4. Shaped(n, plan)
      BY <1>7, <3>2, <3>3 DEF Shaped
    <3>5. QED
      BY <3>4 DEF plan
  <2>3. QED
    BY <1>3, <1>7, <2>1, <2>2
<1>8. CASE plan.do = "arrow"
  <2> DEFINE arrow == Drawing("arrow", {"stroke"}, 1, p.subpaths[1].points)
  <2>1. arrow.parts = {"stroke"} /\ arrow.points = p.subpaths[1].points
    BY DEF Drawing
  <2> HIDE DEF arrow
  <2>2. plan.drawn = <<arrow>>
    BY <1>3, <1>8 DEF arrow
  <2>3. /\ \A i \in DOMAIN plan.drawn : plan.drawn[i].parts # {"fill"}
        /\ plan.drawn[1].points = p.subpaths[1].points
    BY <2>1, <2>2
  <2>4. ~CompoundFill(n)
    <3>1. Len(p.subpaths) = 1 /\ ~(1 > 1)
      BY <1>4, <1>8
    <3>2. ~(Len(p.subpaths) > 1)
      BY <3>1
    <3>3. QED
      BY <1>2, <3>2, Zenon
  <2>5. Shaped(n, plan)
    BY <1>4, <1>8, <2>3, <2>4 DEF Shaped, p
  <2>6. QED
    BY <2>5 DEF plan
<1>9. CASE plan.do = "decompose"
  <2>1. DrawnSoFar(p, Len(p.subpaths), plan.drawn) /\ Separable(p) /\ CompoundFill(n)
    BY <1>2, <1>3, <1>6, <1>9
  <2>2. p.stroke = "none" /\ \A i \in DOMAIN p.subpaths : FillPainted(p, p.subpaths[i])
    BY <2>1 DEF Separable
  <2>3. /\ plan.drawn \in Seq(Drawings) /\ Len(plan.drawn) = Len(p.subpaths)
        /\ \A i \in 1 .. Len(p.subpaths) : plan.drawn[i].piece = i /\ plan.drawn[i].parts = {"fill"}
    BY <2>1, <2>2 DEF DrawnSoFar, Plainly
  <2>4. DOMAIN plan.drawn = 1 .. Len(p.subpaths)
    BY <2>3
  <2>5. Shaped(n, plan)
    BY <1>9, <2>1, <2>3, <2>4 DEF Shaped
  <2>6. QED
    BY <2>5 DEF plan
<1>10. QED
  BY <1>5, <1>7, <1>8, <1>9

LEMMA ShapedText ==
  ASSUME NEW n
  PROVE  Shaped(n, TextPlan(n))
<1> DEFINE plan == TextPlan(n)
           glyphs == Drawing("text", {"fill"}, 0, 0)
<1>1. plan.do = "draw" => plan.drawn = <<glyphs>>
  BY DEF TextPlan, Omit, Fail, Fallback, Draw, Decide
<1>2. plan.do \notin {"arrow", "decompose"}
  BY DEF TextPlan, Omit, Fail, Fallback, Draw, Decide
<1>3. glyphs.piece = 0
  BY DEF Drawing
<1> HIDE DEF plan, glyphs
<1>4. plan.do = "draw" => \A i \in DOMAIN plan.drawn : plan.drawn[i].piece = 0
  BY <1>1, <1>3
<1>5. Shaped(n, plan)
  BY <1>2, <1>4, ShapedIdle, ShapedWhole
<1>6. QED
  BY <1>5 DEF plan

LEMMA ShapedOthers ==
  ASSUME NEW n
  PROVE  /\ Shaped(n, ImagePlan(n)) /\ Shaped(n, IslandPlan(n)) /\ Shaped(n, Omit(<<>>, 0))
<1>1. /\ ImagePlan(n).do \in {"fallback", "fail", "embed"}
      /\ IslandPlan(n).do = "fallback" /\ Omit(<<>>, 0).do = "omit"
  BY DEF ImagePlan, IslandPlan, Omit, Fail, Fallback, Decide
<1>2. QED
  BY <1>1, ShapedIdle

-----------------------------------------------------------------------------
(* The walk                                                                *)

End(n) == n + Node(n).size

\* The groups the walk is in enclose each other and the nodes passed last; out
\* of all groups, it has passed the whole tree.
WalkInv ==
  /\ frames \in Seq(DOMAIN doc.nodes)
  /\ frames = <<>> => next = Len(doc.nodes) + 1
  /\ frames # <<>> => frames[1] = 1 /\ Last(frames) < next /\ next <= End(Last(frames))
  /\ \A k \in 1 .. Len(frames) - 1 : Below(frames[k], frames[k + 1])

CountInv == /\ next \in 2 .. Len(doc.nodes) + 1 /\ paintOrder \in Nat /\ nextInstance \in Nat
            /\ paintOrder + 2 <= next /\ nextInstance <= paintOrder

LEMMA NodeFacts ==
  ASSUME doc \in Documents
  PROVE  /\ Len(doc.nodes) \in Nat \ {0} /\ DOMAIN doc.nodes = 1 .. Len(doc.nodes)
         /\ Node(1).kind = "group" /\ Node(1).effect = "none" /\ End(1) = Len(doc.nodes) + 1
         /\ \A n \in DOMAIN doc.nodes :
              /\ PaintNode(Node(n)) /\ Node(n).size \in Nat \ {0} /\ End(n) \in Nat
              /\ n < End(n) /\ End(n) <= Len(doc.nodes) + 1
              /\ Node(n).kind # "group" => Node(n).size = 1 /\ End(n) = n + 1
         /\ \A g \in DOMAIN doc.nodes, n \in DOMAIN doc.nodes :
              g = n \/ Below(g, n) => End(n) <= End(g)
<1>1. Tree(doc.nodes) /\ \A n \in DOMAIN doc.nodes : PaintNode(doc.nodes[n])
  BY DocumentsAssumption
<1>2. /\ Len(doc.nodes) \in Nat \ {0} /\ DOMAIN doc.nodes = 1 .. Len(doc.nodes)
      /\ Node(1).kind = "group" /\ Node(1).effect = "none" /\ Node(1).size = Len(doc.nodes)
  BY <1>1 DEF Tree, Node
<1>3. ASSUME NEW n \in DOMAIN doc.nodes
      PROVE  /\ PaintNode(Node(n)) /\ Node(n).size \in 1 .. Len(doc.nodes) + 1 - n
             /\ Node(n).kind # "group" => Node(n).size = 1
             /\ \A m \in n .. n + Node(n).size - 1 : m + Node(m).size <= n + Node(n).size
  BY <1>1 DEF Tree, Node
<1>4. ASSUME NEW n \in DOMAIN doc.nodes
      PROVE  /\ Node(n).size \in Nat \ {0} /\ End(n) \in Nat
             /\ n < End(n) /\ End(n) <= Len(doc.nodes) + 1
             /\ Node(n).kind # "group" => Node(n).size = 1 /\ End(n) = n + 1
  BY <1>2, <1>3 DEF End
<1>5. ASSUME NEW g \in DOMAIN doc.nodes, NEW n \in DOMAIN doc.nodes, g = n \/ Below(g, n)
      PROVE  End(n) <= End(g)
  <2>1. Node(g).size \in Nat \ {0} /\ g \in Nat /\ n \in Nat
    BY <1>2, <1>4
  <2>2. n \in g .. g + Node(g).size - 1
    BY <1>5, <2>1 DEF Below
  <2>3. QED
    BY <1>3, <2>2 DEF End
<1>6. End(1) = Len(doc.nodes) + 1
  BY <1>2 DEF End
<1>7. QED
  BY <1>2, <1>3, <1>4, <1>5, <1>6

LEMMA FrameFacts ==
  ASSUME doc \in Documents, WalkInv, frames # <<>>
  PROVE  /\ Last(frames) \in DOMAIN doc.nodes /\ Len(frames) \in Nat \ {0}
         /\ frames[Len(frames)] = Last(frames)
<1>1. frames \in Seq(DOMAIN doc.nodes)
  BY DEF WalkInv
<1>2. Len(frames) \in Nat \ {0}
  BY <1>1
<1>3. QED
  BY <1>1, <1>2 DEF Last

LEMMA AtNext ==
  ASSUME doc \in Documents, WalkInv, CountInv, InGroup
  PROVE  /\ next \in DOMAIN doc.nodes /\ next \in Nat /\ frames # <<>>
         /\ Last(frames) \in DOMAIN doc.nodes /\ Below(Last(frames), next)
         /\ End(next) <= End(Last(frames)) /\ next < End(next) /\ End(next) \in Nat
<1>1. frames # <<>> /\ next < End(Last(frames))
  BY DEF InGroup, End
<1>2. Last(frames) \in DOMAIN doc.nodes
  BY <1>1, FrameFacts
<1>3. /\ DOMAIN doc.nodes = 1 .. Len(doc.nodes) /\ Len(doc.nodes) \in Nat
      /\ End(Last(frames)) \in Nat /\ End(Last(frames)) <= Len(doc.nodes) + 1
  BY <1>2, NodeFacts
<1>4. next \in DOMAIN doc.nodes /\ next \in Nat
  BY <1>1, <1>3 DEF CountInv
<1>5. Below(Last(frames), next)
  BY <1>1 DEF WalkInv, Below, End
<1>6. End(next) <= End(Last(frames)) /\ next < End(next) /\ End(next) \in Nat
  BY <1>2, <1>4, <1>5, NodeFacts
<1>7. QED
  BY <1>1, <1>2, <1>4, <1>5, <1>6

\* Moving past the next node.
LEMMA WalkPast ==
  ASSUME doc \in Documents, WalkInv, CountInv, InGroup, UNCHANGED <<doc, frames>>,
         next' = End(next)
  PROVE  WalkInv' /\ next' \in 2 .. Len(doc.nodes) + 1 /\ next' >= next + 1
<1>1. /\ next \in DOMAIN doc.nodes /\ next \in Nat /\ frames # <<>>
      /\ Last(frames) \in DOMAIN doc.nodes /\ End(next) <= End(Last(frames))
      /\ next < End(next) /\ End(next) \in Nat
  BY AtNext
<1>2. End(next) <= Len(doc.nodes) + 1 /\ Len(doc.nodes) \in Nat
  BY <1>1, NodeFacts
<1>3. Last(frames) < next /\ Last(frames) \in Nat
  BY <1>1, NodeFacts DEF WalkInv
<1>4. /\ frames \in Seq(DOMAIN doc.nodes) /\ frames[1] = 1
      /\ \A k \in 1 .. Len(frames) - 1 : Below(frames[k], frames[k + 1])
  BY <1>1 DEF WalkInv
<1>5. Last(frames) < next' /\ next' <= End(Last(frames))
  BY <1>1, <1>3
<1>6. frames' = frames /\ doc' = doc
  OBVIOUS
<1>7. WalkInv'
  BY <1>1, <1>4, <1>5, <1>6 DEF WalkInv, End, Below, Node
<1>8. QED
  BY <1>1, <1>2, <1>7 DEF CountInv

\* Entering the next node, a group.
LEMMA WalkIn ==
  ASSUME doc \in Documents, WalkInv, CountInv, InGroup, UNCHANGED doc,
         frames' = Append(frames, next), next' = next + 1
  PROVE  WalkInv' /\ next' \in 2 .. Len(doc.nodes) + 1
<1>1. /\ next \in DOMAIN doc.nodes /\ next \in Nat /\ frames # <<>>
      /\ Below(Last(frames), next) /\ next < End(next) /\ End(next) \in Nat
  BY AtNext
<1>2. End(next) <= Len(doc.nodes) + 1 /\ Len(doc.nodes) \in Nat
  BY <1>1, NodeFacts
<1>3. /\ frames \in Seq(DOMAIN doc.nodes) /\ frames[1] = 1
      /\ \A k \in 1 .. Len(frames) - 1 : Below(frames[k], frames[k + 1])
  BY <1>1 DEF WalkInv
<1>4. Len(frames) \in Nat \ {0} /\ frames[Len(frames)] = Last(frames)
  BY <1>1, FrameFacts
<1>5. /\ frames' \in Seq(DOMAIN doc.nodes) /\ Len(frames') = Len(frames) + 1
      /\ frames'[Len(frames')] = next /\ \A k \in 1 .. Len(frames) : frames'[k] = frames[k]
  BY <1>1, <1>3, <1>4
<1>6. frames' # <<>> /\ Last(frames') = next /\ frames'[1] = 1
  <2>1. 1 \in 1 .. Len(frames)
    BY <1>4
  <2>2. Len(<<>>) = 0
    OBVIOUS
  <2>3. QED
    BY <1>3, <1>4, <1>5, <2>1, <2>2 DEF Last
<1>7. Last(frames') < next' /\ next' <= End(next)
  BY <1>1, <1>6
<1>8. ASSUME NEW k \in 1 .. Len(frames') - 1 PROVE Below(frames'[k], frames'[k + 1])
  <2>1. k \in 1 .. Len(frames)
    BY <1>4, <1>5
  <2>2. CASE k = Len(frames)
    BY <1>1, <1>4, <1>5, <2>1, <2>2
  <2>3. CASE k # Len(frames)
    <3>1. k \in 1 .. Len(frames) - 1 /\ k + 1 \in 1 .. Len(frames)
      BY <1>4, <2>1, <2>3
    <3>2. QED
      BY <1>3, <1>5, <2>1, <3>1
  <2>4. QED
    BY <2>2, <2>3
<1>9. WalkInv'
  BY <1>5, <1>6, <1>7, <1>8 DEF WalkInv, End, Below, Node
<1>10. QED
  BY <1>1, <1>2, <1>9 DEF CountInv

\* All but the last element of a sequence.
LEMMA FrontOf ==
  ASSUME NEW S, NEW s \in Seq(S), s # <<>>
  PROVE  /\ Front(s) \in Seq(S) /\ Len(Front(s)) = Len(s) - 1 /\ Len(s) \in Nat \ {0}
         /\ \A k \in 1 .. Len(s) - 1 : Front(s)[k] = s[k]
<1> DEFINE m == Len(s) - 1
           most == [k \in 1 .. m |-> s[k]]
<1>1. Len(s) \in Nat \ {0} /\ \A k \in 1 .. Len(s) : s[k] \in S
  OBVIOUS
<1>2. m \in Nat /\ m + 1 = Len(s) /\ 1 .. m \subseteq 1 .. Len(s)
  BY <1>1
<1>3. Front(s) = most
  BY <1>1 DEF Front
<1> HIDE DEF m
<1>4. most \in Seq(S) /\ Len(most) = m
  BY <1>1, <1>2
<1>5. \A k \in 1 .. m : most[k] = s[k]
  OBVIOUS
<1> HIDE DEF most
<1>6. QED
  BY <1>1, <1>3, <1>4, <1>5 DEF m

\* Leaving the innermost group.
LEMMA WalkOut ==
  ASSUME doc \in Documents, WalkInv, CountInv, ~InGroup, frames # <<>>,
         UNCHANGED <<doc, next>>, frames' = Front(frames)
  PROVE  WalkInv' /\ next = End(Last(frames))
<1>1. /\ frames \in Seq(DOMAIN doc.nodes) /\ frames[1] = 1
      /\ Last(frames) < next /\ next <= End(Last(frames))
      /\ \A k \in 1 .. Len(frames) - 1 : Below(frames[k], frames[k + 1])
  BY DEF WalkInv
<1>2. /\ Last(frames) \in DOMAIN doc.nodes /\ Len(frames) \in Nat \ {0}
      /\ frames[Len(frames)] = Last(frames)
  BY FrameFacts
<1>3. next = End(Last(frames)) /\ next \in Nat
  <2>1. End(Last(frames)) \in Nat /\ next \in Nat
    BY <1>2, NodeFacts DEF CountInv
  <2>2. ~(next < End(Last(frames)))
    BY DEF InGroup, End
  <2>3. QED
    BY <1>1, <2>1, <2>2
<1>4. /\ frames' \in Seq(DOMAIN doc.nodes) /\ Len(frames') = Len(frames) - 1
      /\ \A k \in 1 .. Len(frames) - 1 : frames'[k] = frames[k]
  BY <1>1, FrontOf
<1>5. CASE Len(frames) = 1
  <2>1. Last(frames) = 1 /\ Len(frames') = 0
    BY <1>1, <1>2, <1>4, <1>5
  <2>2. frames' = <<>>
    BY <1>4, <2>1
  <2>3. next' = Len(doc.nodes) + 1
    BY <1>3, <2>1, NodeFacts
  <2>4. \A k \in 1 .. Len(frames') - 1 : FALSE
    BY <2>1
  <2>5. WalkInv'
    BY <1>4, <2>2, <2>3, <2>4 DEF WalkInv
  <2>6. QED
    BY <1>3, <2>5
<1>6. CASE Len(frames) # 1
  <2> DEFINE k == Len(frames) - 1
             outer == frames[k]
  <2>1. k \in 1 .. Len(frames) - 1 /\ k \in Nat \ {0} /\ k + 1 = Len(frames) /\ 1 \in 1 .. k
    <3>1. Len(frames) \in Nat /\ Len(frames) # 0 /\ Len(frames) # 1
      BY <1>2, <1>6
    <3>2. QED
      BY <3>1
  <2>2. outer \in DOMAIN doc.nodes /\ Below(outer, Last(frames))
    BY <1>1, <1>2, <2>1
  <2>3. End(Last(frames)) <= End(outer) /\ outer \in Nat /\ End(outer) \in Nat
        /\ End(Last(frames)) \in Nat /\ Last(frames) \in Nat
    BY <1>2, <2>2, NodeFacts
  <2>4. outer < Last(frames)
    BY <2>2 DEF Below
  <2>5. outer < next /\ next <= End(outer)
    BY <1>1, <1>3, <2>3, <2>4
  <2>6. Last(frames') = outer /\ frames'[1] = 1
    BY <1>1, <1>4, <2>1 DEF Last
  <2>7. frames' # <<>>
    <3>1. Len(<<>>) = 0
      OBVIOUS
    <3>2. QED
      BY <1>4, <2>1, <3>1
  <2>8. ASSUME NEW j \in 1 .. Len(frames') - 1 PROVE Below(frames'[j], frames'[j + 1])
    <3>1. j \in 1 .. Len(frames) - 1 /\ j + 1 \in 1 .. Len(frames) - 1
      BY <1>2, <1>4
    <3>2. QED
      BY <1>1, <1>4, <3>1
  <2> HIDE DEF outer, k
  <2>9. WalkInv'
    BY <1>4, <2>5, <2>6, <2>7, <2>8 DEF WalkInv, End, Below, Node
  <2>10. QED
    BY <1>3, <2>9
<1>7. QED
  BY <1>5, <1>6

-----------------------------------------------------------------------------
(* Steps                                                                   *)

LowerInv == /\ TypeOK /\ doc \in Documents /\ WalkInv /\ CountInv
            /\ elements \in Seq(ToSet(elements)) /\ diagnostics \in Seq(Notes)

\* A step that decides on the next node and passes it.
DecidedStep(plan, isPromoted) ==
  /\ AtChild /\ ~MarkerArtwork(next)
  /\ PlanFor(next, plan) /\ Perform(next, plan) /\ Pass(next, isPromoted)
  /\ isPromoted \in BOOLEAN /\ (isPromoted <=> plan.do = "arrow")
  /\ Shaped(next, plan)
  /\ Node(next).kind = "group" => plan.do = "fallback" /\ Node(next).effect # "none"

LEMMA LimitsTyped ==
  /\ Limits.elements \in Nat /\ Limits.points \in Nat /\ Limits.segments \in Nat
  /\ Limits.pathSegments \in Nat /\ Limits.decomposition \in Nat
  /\ Limits.islandPixels \in Nat /\ Limits.pixels \in Nat /\ Limits.embedded \in Nat
BY LimitsAssumption

LEMMA SegmentsOK ==
  ASSUME TypeOK
  PROVE  SegmentsTyped
<1>1. segments \in 0 .. Limits.segments
  BY DEF TypeOK
<1>2. Limits.segments \in Nat
  BY LimitsTyped
<1>3. QED
  BY <1>1, <1>2 DEF SegmentsTyped

LEMMA DecisionStep ==
  ASSUME LowerInv, LowerPath \/ LowerText \/ LowerImage \/ LowerIsland
  PROVE  \E plan, isPromoted : DecidedStep(plan, isPromoted)
<1>1. SegmentsTyped /\ (profile = "strict" => Exacting)
  BY SegmentsOK DEF LowerInv, Exacting
<1>2. AtChild /\ ~MarkerArtwork(next)
  BY DEF LowerPath, LowerText, LowerImage, LowerIsland, Selected
<1>3. next \in DOMAIN doc.nodes /\ next \in Nat
  BY <1>2, AtNext DEF LowerInv, AtChild
<1>4. PaintNode(Node(next))
  BY <1>3, NodeFacts DEF LowerInv
<1>5. CASE LowerPath
  <2> DEFINE plan == IF Node(next).visible THEN PathPlan(next) ELSE Omit(<<>>, 0)
  <2>1. /\ Node(next).kind = "path" /\ Perform(next, plan) /\ Pass(next, plan.do = "arrow")
    BY <1>5 DEF LowerPath, Selected
  <2>2. PlanFor(next, plan)
    BY <1>1, <1>3, <1>4, <2>1, PathPlanFor, HiddenPlanFor DEF PathNode
  <2>3. Shaped(next, plan)
    BY <1>4, <2>1, ShapedPath, ShapedOthers DEF PathNode
  <2> HIDE DEF plan
  <2>4. DecidedStep(plan, plan.do = "arrow")
    BY <1>2, <2>1, <2>2, <2>3 DEF DecidedStep
  <2>5. QED
    BY <2>4
<1>6. CASE LowerText
  <2>1. Node(next).kind = "text" /\ Perform(next, TextPlan(next)) /\ Pass(next, FALSE)
    BY <1>6 DEF LowerText, Selected
  <2>2. PlanFor(next, TextPlan(next))
    BY <1>1, <1>3, <2>1, TextPlanFor
  <2>3. TextPlan(next).do # "arrow"
    BY <2>1, <2>2 DEF PlanFor
  <2>4. DecidedStep(TextPlan(next), FALSE)
    BY <1>2, <2>1, <2>2, <2>3, ShapedText DEF DecidedStep
  <2>5. QED
    BY <2>4
<1>7. CASE LowerImage
  <2>1. Node(next).kind = "image" /\ Perform(next, ImagePlan(next)) /\ Pass(next, FALSE)
    BY <1>7 DEF LowerImage, Selected
  <2>2. PlanFor(next, ImagePlan(next))
    BY <1>1, <1>3, <2>1, ImagePlanFor
  <2>3. ImagePlan(next).do # "arrow"
    BY <2>1, <2>2 DEF PlanFor
  <2>4. DecidedStep(ImagePlan(next), FALSE)
    BY <1>2, <2>1, <2>2, <2>3, ShapedOthers DEF DecidedStep
  <2>5. QED
    BY <2>4
<1>8. CASE LowerIsland
  <2>1. /\ Node(next).kind = "group" /\ Node(next).effect # "none"
        /\ Perform(next, IslandPlan(next)) /\ Pass(next, FALSE)
    BY <1>8 DEF LowerIsland, Selected
  <2>2. PlanFor(next, IslandPlan(next)) /\ IslandPlan(next).do = "fallback"
    BY <1>1, IslandPlanFor
  <2>3. DecidedStep(IslandPlan(next), FALSE)
    BY <1>2, <2>1, <2>2, ShapedOthers DEF DecidedStep
  <2>4. QED
    BY <2>3
<1>9. QED
  BY <1>5, <1>6, <1>7, <1>8

-----------------------------------------------------------------------------
(* What carrying out a decision does                                       *)

Emission(n, plan) == [i \in DOMAIN plan.drawn |-> Element(n, plan.drawn[i], Keys(n, plan))]

Aborted == result' \in Failures /\ UNCHANGED outputVars
Emitted(n, plan) ==
  /\ plan.do \in {"draw", "arrow", "decompose"}
  /\ Len(elements) + Len(plan.drawn) <= Limits.elements
  /\ points + PointsOf(plan.drawn) <= Limits.points
  /\ elements' = elements \o Emission(n, plan)
  /\ points' = points + PointsOf(plan.drawn)
  /\ Record(plan)
  /\ UNCHANGED <<files, pixels, embedded, result>>
Pictured(n, plan) ==
  /\ \/ plan.do = "embed"
     \/ plan.do = "fallback" /\ profile # "strict" /\ Node(n).shown
  /\ pixels + Node(n).picture.pixels <= Limits.pixels
  /\ embedded + EmbeddedBytes(Node(n).picture) <= Limits.embedded
  /\ Len(elements) + 1 <= Limits.elements
  /\ elements' = Append(elements, ImageElement(n))
  /\ files' = files \cup {Node(n).picture}
  /\ pixels' = pixels + Node(n).picture.pixels
  /\ embedded' = embedded + EmbeddedBytes(Node(n).picture)
  /\ diagnostics' = diagnostics \o plan.notes
       \o (IF plan.code = "" THEN <<>> ELSE <<Note(plan.code, "fallback", n)>>)
  /\ segments' = segments + plan.work
  /\ UNCHANGED <<points, result>>
Reported(n, plan) == plan.do = "fallback" /\ profile = "strict" /\ Report(n, plan)
Skipped(n, plan) ==
  /\ \/ plan.do = "omit"
     \/ plan.do = "fallback" /\ profile # "strict" /\ ~Node(n).shown
  /\ Skip(plan)

LEMMA Outcomes ==
  ASSUME TypeOK, NEW n, NEW plan, PlanFor(n, plan), Perform(n, plan), PaintNode(Node(n)),
         elements \in Seq(ToSet(elements))
  PROVE  Aborted \/ Emitted(n, plan) \/ Pictured(n, plan) \/ Reported(n, plan) \/ Skipped(n, plan)
<1>1. /\ plan.drawn \in Seq(Drawings) /\ plan.do \in Deeds
      /\ (plan.do = "fail" => plan.code \in Failures)
  BY DEF PlanFor, Plans
<1>2. "LimitExceeded" \in Failures
  BY DEF Failures
<1>3. Len(plan.drawn) \in Nat /\ Len(elements) \in Nat
  BY <1>1
<1>4. PointsOf(plan.drawn) \in Nat
  <2>1. \A i \in DOMAIN plan.drawn : plan.drawn[i] \in Drawings
    BY <1>1
  <2>2. [i \in DOMAIN plan.drawn |-> plan.drawn[i].points] \in Seq(Nat)
    <3>1. \A i \in DOMAIN plan.drawn : plan.drawn[i].points \in Nat
      BY <2>1 DEF Drawings
    <3>2. DOMAIN plan.drawn = 1 .. Len(plan.drawn)
      BY <1>1
    <3>3. QED
      BY ONLY <1>3, <3>1, <3>2
  <2>3. QED
    BY <2>2, TotalNat DEF PointsOf
<1>5. /\ points \in Nat /\ pixels \in Nat /\ embedded \in Nat
      /\ Node(n).picture.pixels \in Nat /\ Node(n).picture.bytes \in Nat
      /\ EmbeddedBytes(Node(n).picture) \in Nat
  BY LimitsTyped DEF TypeOK, PaintNode, EmbeddedBytes
<1>6. ASSUME NEW error \in Failures, Abort(error) PROVE Aborted
  BY <1>6 DEF Abort, Aborted
<1>7. CASE plan.do = "fail" /\ Abort(plan.code)
  BY <1>1, <1>6, <1>7
<1>8. CASE plan.do = "omit" /\ Skip(plan)
  BY <1>8 DEF Skipped
<1>9. CASE plan.do \in {"draw", "arrow", "decompose"} /\ Emit(n, plan)
  <2>1. CASE \/ Len(elements) + Len(plan.drawn) > Limits.elements
             \/ points + PointsOf(plan.drawn) > Limits.points
    <3>1. Abort("LimitExceeded")
      BY <1>9, <2>1 DEF Emit
    <3>2. QED
      BY <1>2, <1>6, <3>1
  <2>2. CASE ~(\/ Len(elements) + Len(plan.drawn) > Limits.elements
               \/ points + PointsOf(plan.drawn) > Limits.points)
    <3>1. /\ Len(elements) + Len(plan.drawn) <= Limits.elements
          /\ points + PointsOf(plan.drawn) <= Limits.points
      <4>1. \A a, b, c \in Nat : ~(a + b > c) => a + b <= c
        OBVIOUS
      <4>2. /\ ~(Len(elements) + Len(plan.drawn) > Limits.elements)
            /\ ~(points + PointsOf(plan.drawn) > Limits.points)
        BY <2>2
      <4>3. Limits.elements \in Nat /\ Limits.points \in Nat
        BY LimitsTyped
      <4>4. QED
        BY ONLY <1>3, <1>4, <1>5, <4>1, <4>2, <4>3
    <3>2. QED
      BY <1>9, <2>2, <3>1 DEF Emit, Emitted, Emission
  <2>3. QED
    BY <2>1, <2>2
<1>10. ASSUME Rasterize(n, plan),
              \/ plan.do = "embed"
              \/ plan.do = "fallback" /\ profile # "strict" /\ Node(n).shown
       PROVE  Aborted \/ Pictured(n, plan)
  <2> DEFINE picture == Node(n).picture
             full == \/ embedded + EmbeddedBytes(picture) > Limits.embedded
                     \/ Len(elements) >= Limits.elements
             over == PixelsExceeded(picture) \/ ~picture.renders \/ full
  <2>1. CASE over
    <3>1. Abort("LimitExceeded") \/ Abort("RasterizationFailed")
      BY <1>10, <2>1 DEF Rasterize
    <3>2. "RasterizationFailed" \in Failures
      BY DEF Failures
    <3>3. QED
      BY <1>2, <1>6, <3>1, <3>2
  <2>2. CASE ~over
    <3>1. /\ pixels + Node(n).picture.pixels <= Limits.pixels
          /\ embedded + EmbeddedBytes(Node(n).picture) <= Limits.embedded
          /\ Len(elements) + 1 <= Limits.elements
      <4>1. /\ ~(pixels + Node(n).picture.pixels > Limits.pixels)
            /\ ~(embedded + EmbeddedBytes(Node(n).picture) > Limits.embedded)
            /\ ~(Len(elements) >= Limits.elements)
        BY <2>2 DEF PixelsExceeded
      <4>2. \A x, y \in Nat : (~(x > y) => x <= y) /\ (~(x >= y) => x + 1 <= y)
        OBVIOUS
      <4>3. /\ pixels + Node(n).picture.pixels \in Nat
            /\ embedded + EmbeddedBytes(Node(n).picture) \in Nat
        BY <1>5
      <4> HIDE DEF over, picture
      <4>4. QED
        BY <1>3, <4>1, <4>2, <4>3, LimitsTyped
    <3>2. QED
      BY <1>10, <2>2, <3>1 DEF Rasterize, Pictured
  <2>3. QED
    BY <2>1, <2>2
<1>11. CASE plan.do = "embed" /\ Rasterize(n, plan)
  BY <1>10, <1>11
<1>12. CASE plan.do = "fallback" /\ profile = "strict" /\ Report(n, plan)
  BY <1>12 DEF Reported
<1>13. CASE plan.do = "fallback" /\ profile # "strict" /\ ~Node(n).shown /\ Skip(plan)
  BY <1>13 DEF Skipped
<1>14. CASE plan.do = "fallback" /\ profile # "strict" /\ Node(n).shown /\ Rasterize(n, plan)
  BY <1>10, <1>14
<1>15. QED
  BY <1>7, <1>8, <1>9, <1>11, <1>12, <1>13, <1>14 DEF Perform

-----------------------------------------------------------------------------
(* Types                                                                   *)

\* A sequence over any set is one over the set of its elements.
LEMMA SelfTyped ==
  ASSUME NEW S, NEW s \in Seq(S)
  PROVE  s \in Seq(ToSet(s))
<1>1. \A i \in DOMAIN s : s[i] \in ToSet(s)
  BY DEF ToSet
<1>2. s = [i \in 1 .. Len(s) |-> s[i]] /\ Len(s) \in Nat /\ DOMAIN s = 1 .. Len(s)
  OBVIOUS
<1> DEFINE T == ToSet(s)
<1> HIDE DEF T
<1>3. s \in Seq(T)
  BY <1>1, <1>2 DEF T
<1>4. QED
  BY <1>3 DEF T

\* All but the last element, if there is one.
LEMMA FrontTyped ==
  ASSUME NEW S, NEW s \in Seq(S)
  PROVE  Front(s) \in Seq(S)
<1>1. CASE s = <<>>
  BY <1>1 DEF Front
<1>2. CASE s # <<>>
  BY <1>2, FrontOf
<1>3. QED
  BY <1>1, <1>2

\* Two sequences that are typed by their own elements, one after the other.
LEMMA JoinTyped ==
  ASSUME NEW s, NEW t, s \in Seq(ToSet(s)), t \in Seq(ToSet(t))
  PROVE  s \o t \in Seq(ToSet(s \o t))
<1> DEFINE S == ToSet(s) \cup ToSet(t)
<1>1. s \in Seq(S) /\ t \in Seq(S)
  <2> DEFINE A == ToSet(s)
             B == ToSet(t)
  <2> HIDE DEF A, B
  <2>1. s \in Seq(A \cup B) /\ t \in Seq(A \cup B)
    <3>1. s \in Seq(A) /\ t \in Seq(B)
      BY DEF A, B
    <3>2. QED
      BY <3>1
  <2>2. QED
    BY <2>1 DEF A, B
<1> HIDE DEF S
<1>2. s \o t \in Seq(S)
  BY <1>1
<1>3. QED
  BY <1>2, SelfTyped

\* The elements of a decision's drawings.
LEMMA EmissionOf ==
  ASSUME NEW n, NEW plan, plan.drawn \in Seq(Drawings)
  PROVE  /\ Emission(n, plan) \in Seq(ToSet(Emission(n, plan)))
         /\ DOMAIN Emission(n, plan) = DOMAIN plan.drawn
         /\ Len(Emission(n, plan)) = Len(plan.drawn) /\ Len(plan.drawn) \in Nat
         /\ \A i \in DOMAIN plan.drawn :
              /\ plan.drawn[i] \in Drawings
              /\ Emission(n, plan)[i] = Element(n, plan.drawn[i], Keys(n, plan))
<1> DEFINE drawn == plan.drawn
           made == [i \in DOMAIN drawn |-> Element(n, drawn[i], Keys(n, plan))]
           S == {Element(n, drawn[i], Keys(n, plan)) : i \in DOMAIN drawn}
<1>1. DOMAIN drawn = 1 .. Len(drawn) /\ Len(drawn) \in Nat
      /\ \A i \in DOMAIN drawn : drawn[i] \in Drawings
  OBVIOUS
<1>2. \A i \in DOMAIN drawn : Element(n, drawn[i], Keys(n, plan)) \in S
  OBVIOUS
<1>3. /\ DOMAIN made = DOMAIN drawn
      /\ \A i \in DOMAIN drawn : made[i] = Element(n, drawn[i], Keys(n, plan))
  OBVIOUS
<1>4. made \in Seq(S) /\ Len(made) = Len(drawn)
  <2> HIDE DEF S
  <2>1. made \in [1 .. Len(drawn) -> S]
    BY <1>1, <1>2
  <2> HIDE DEF made
  <2>2. QED
    BY <1>1, <2>1
<1>5. made \in Seq(ToSet(made))
  <2> HIDE DEF S, made
  <2>1. QED
    BY <1>4, SelfTyped
<1>6. Emission(n, plan) = made
  BY DEF Emission
<1>7. QED
  BY <1>1, <1>3, <1>4, <1>5, <1>6

LEMMA AppendConcat ==
  ASSUME NEW S, NEW s \in Seq(S), NEW x
  PROVE  Append(s, x) = s \o <<x>> /\ Len(Append(s, x)) = Len(s) + 1
<1>1. Len(<<x>>) = 1 /\ <<x>>[1] = x
  OBVIOUS
<1>2. s \in Seq(S \cup {x}) /\ <<x>> \in Seq(S \cup {x})
  OBVIOUS
<1>3. Append(s, x) \in Seq(S \cup {x}) /\ s \o <<x>> \in Seq(S \cup {x})
  BY <1>2
<1>4. QED
  BY <1>1, <1>2, <1>3

LEMMA Within ==
  ASSUME NEW x \in Nat, NEW y \in Nat, NEW z \in Nat, x + y <= z
  PROVE  x + y \in 0 .. z /\ x + y \in Nat
OBVIOUS

LEMMA DrawnPoints ==
  ASSUME NEW drawn \in Seq(Drawings)
  PROVE  /\ PointsOf(drawn) \in Nat
         /\ [i \in DOMAIN drawn |-> drawn[i].points] \in Seq(Nat)
<1>1. \A i \in DOMAIN drawn : drawn[i] \in Drawings
  OBVIOUS
<1>2. \A i \in DOMAIN drawn : drawn[i].points \in Nat
  BY <1>1 DEF Drawings
<1>3. DOMAIN drawn = 1 .. Len(drawn) /\ Len(drawn) \in Nat
  OBVIOUS
<1>4. [i \in DOMAIN drawn |-> drawn[i].points] \in Seq(Nat)
  BY <1>2, <1>3
<1>5. QED
  BY <1>4, TotalNat DEF PointsOf

LEMMA DecidedTyped ==
  ASSUME LowerInv, NEW plan, NEW isPromoted, DecidedStep(plan, isPromoted)
  PROVE  /\ elements' \in Seq(ToSet(elements)') /\ Len(elements') <= Limits.elements
         /\ diagnostics' \in Seq(Notes) /\ IsFiniteSet(files')
         /\ segments' \in 0 .. Limits.segments /\ points' \in 0 .. Limits.points
         /\ pixels' \in 0 .. Limits.pixels /\ embedded' \in 0 .. Limits.embedded
         /\ result' \in Failures \cup {"none"}
<1>1. /\ PlanFor(next, plan) /\ Perform(next, plan) /\ result = "none"
  BY DEF DecidedStep, AtChild
<1>2. TypeOK /\ elements \in Seq(ToSet(elements)) /\ diagnostics \in Seq(Notes)
  BY DEF LowerInv
<1>3. next \in DOMAIN doc.nodes /\ next \in Nat
  BY AtNext DEF LowerInv, DecidedStep, AtChild
<1>4. PaintNode(Node(next))
  BY <1>3, NodeFacts DEF LowerInv
<1>5. plan.drawn \in Seq(Drawings) /\ plan.notes \in Seq(Notes)
  BY <1>1 DEF PlanFor, Plans
<1>6. plan.work \in Nat /\ segments + plan.work <= Limits.segments
  BY <1>1 DEF PlanFor, Plans
<1>7. Len(elements) <= Limits.elements /\ IsFiniteSet(files) /\ Len(elements) \in Nat
  BY <1>2 DEF TypeOK
<1>8. /\ segments \in 0 .. Limits.segments /\ points \in 0 .. Limits.points
      /\ pixels \in 0 .. Limits.pixels /\ embedded \in 0 .. Limits.embedded
  BY <1>2 DEF TypeOK
<1>9. segments \in Nat /\ points \in Nat /\ pixels \in Nat /\ embedded \in Nat
  BY <1>8, LimitsTyped
<1>10. diagnostics \o plan.notes \in Seq(Notes)
  BY <1>2, <1>5, ConcatParts
<1>11. segments + plan.work \in 0 .. Limits.segments
  BY <1>6, <1>9, LimitsTyped, Within
<1>12. ASSUME NEW code \in FallbackCodes
       PROVE  diagnostics \o plan.notes \o <<Note(code, "fallback", next)>> \in Seq(Notes)
  <2>1. <<Note(code, "fallback", next)>> \in Seq(Notes)
    BY <1>3, NoteTyped DEF NoteCodes
  <2>2. QED
    BY <1>10, <2>1, ConcatParts
<1>13. ASSUME UNCHANGED elements
       PROVE  elements' \in Seq(ToSet(elements)') /\ Len(elements') <= Limits.elements
  BY <1>2, <1>7, <1>13 DEF ToSet
<1>14. Aborted \/ Emitted(next, plan) \/ Pictured(next, plan) \/ Reported(next, plan) \/ Skipped(next, plan)
  BY <1>1, <1>2, <1>4, Outcomes
<1>15. CASE Aborted
  <2>1. /\ UNCHANGED <<elements, files, diagnostics, segments, points, pixels, embedded>>
        /\ result' \in Failures
    BY <1>15 DEF Aborted, outputVars, budgetVars
  <2>2. QED
    BY <1>2, <1>7, <1>8, <1>13, <2>1
<1>16. CASE Skipped(next, plan)
  <2>1. /\ UNCHANGED <<elements, files, points, pixels, embedded, result>>
        /\ diagnostics' = diagnostics \o plan.notes /\ segments' = segments + plan.work
    BY <1>16 DEF Skipped, Skip, Record
  <2>2. QED
    BY <1>1, <1>7, <1>8, <1>10, <1>11, <1>13, <2>1
<1>17. CASE Reported(next, plan)
  <2>1. /\ UNCHANGED <<elements, files, points, pixels, embedded, result>>
        /\ diagnostics' = diagnostics \o plan.notes \o <<Note(plan.code, "fallback", next)>>
        /\ segments' = segments + plan.work /\ plan.do = "fallback"
    BY <1>17 DEF Reported, Report
  <2>2. plan.code \in FallbackCodes
    BY <1>1, <2>1 DEF PlanFor
  <2>3. diagnostics' \in Seq(Notes)
    BY <1>12, <2>1, <2>2
  <2>4. QED
    BY <1>1, <1>7, <1>8, <1>11, <1>13, <2>1, <2>3
<1>18. CASE Emitted(next, plan)
  <2>1. /\ elements' = elements \o Emission(next, plan)
        /\ points' = points + PointsOf(plan.drawn)
        /\ UNCHANGED <<files, pixels, embedded, result>>
        /\ diagnostics' = diagnostics \o plan.notes /\ segments' = segments + plan.work
    BY <1>18 DEF Emitted, Record
  <2>2. /\ Len(elements) + Len(plan.drawn) <= Limits.elements
        /\ points + PointsOf(plan.drawn) <= Limits.points
    BY <1>18 DEF Emitted
  <2>3. /\ Emission(next, plan) \in Seq(ToSet(Emission(next, plan)))
        /\ Len(Emission(next, plan)) = Len(plan.drawn) /\ Len(plan.drawn) \in Nat
    BY <1>5, EmissionOf
  <2>4. elements' \in Seq(ToSet(elements)')
    <3>1. elements \o Emission(next, plan) \in Seq(ToSet(elements \o Emission(next, plan)))
      BY <1>2, <2>3, JoinTyped
    <3>2. QED
      BY <2>1, <3>1 DEF ToSet
  <2>5. Len(elements') = Len(elements) + Len(plan.drawn)
    <3>1. Len(elements \o Emission(next, plan)) = Len(elements) + Len(Emission(next, plan))
      <4>1. ASSUME NEW S, NEW s \in Seq(S), NEW T, NEW t \in Seq(T)
            PROVE  Len(s \o t) = Len(s) + Len(t)
        OBVIOUS
      <4>2. elements \in Seq(ToSet(elements))
        BY <1>2
      <4>3. QED
        BY ONLY <2>3, <4>1, <4>2
    <3>2. QED
      BY <2>1, <2>3, <3>1
  <2>6. points' \in 0 .. Limits.points
    BY <1>5, <1>9, <2>1, <2>2, LimitsTyped, DrawnPoints, Within
  <2>7. QED
    BY <1>1, <1>7, <1>8, <1>10, <1>11, <2>1, <2>2, <2>4, <2>5, <2>6
<1>19. CASE Pictured(next, plan)
  <2> DEFINE one == <<ImageElement(next)>>
             picture == Node(next).picture
             told == IF plan.code = "" THEN <<>> ELSE <<Note(plan.code, "fallback", next)>>
  <2>1. /\ elements' = Append(elements, ImageElement(next)) /\ files' = files \cup {picture}
        /\ pixels' = pixels + picture.pixels /\ embedded' = embedded + EmbeddedBytes(picture)
        /\ diagnostics' = diagnostics \o plan.notes \o told
        /\ segments' = segments + plan.work /\ UNCHANGED <<points, result>>
    BY <1>19 DEF Pictured
  <2>2. /\ pixels + picture.pixels <= Limits.pixels
        /\ embedded + EmbeddedBytes(picture) <= Limits.embedded
        /\ Len(elements) + 1 <= Limits.elements
    BY <1>19 DEF Pictured
  <2>3. one \in Seq(ToSet(one))
    <3>1. one \in Seq({ImageElement(next)})
      OBVIOUS
    <3> HIDE DEF one
    <3>2. QED
      BY <3>1, SelfTyped
  <2>4. Append(elements, ImageElement(next)) = elements \o one
        /\ Len(Append(elements, ImageElement(next))) = Len(elements) + 1
    BY <1>2, AppendConcat
  <2>5. picture.pixels \in Nat /\ EmbeddedBytes(picture) \in Nat
    BY <1>4 DEF PaintNode, EmbeddedBytes
  <2>6. diagnostics' \in Seq(Notes)
    <3>1. CASE plan.code = ""
      <4>1. told = <<>>
        BY <3>1
      <4> HIDE DEF told
      <4>2. diagnostics \o plan.notes \o <<>> = diagnostics \o plan.notes
        BY <1>10
      <4>3. QED
        BY <1>10, <2>1, <4>1, <4>2
    <3>2. CASE plan.code # ""
      <4>1. plan.do = "fallback"
        <5>1. plan.do = "embed" \/ plan.do = "fallback"
          BY <1>19 DEF Pictured
        <5>2. plan.do = "embed" => plan.code = ""
          BY <1>1 DEF PlanFor
        <5>3. QED
          BY <3>2, <5>1, <5>2
      <4>2. plan.code \in FallbackCodes /\ told = <<Note(plan.code, "fallback", next)>>
        BY <1>1, <3>2, <4>1 DEF PlanFor
      <4> HIDE DEF told
      <4>3. QED
        BY <1>12, <2>1, <4>2
    <3>3. QED
      BY <3>1, <3>2
  <2> HIDE DEF one, picture, told
  <2>7. elements' \in Seq(ToSet(elements)') /\ Len(elements') <= Limits.elements
    <3>1. elements \o one \in Seq(ToSet(elements \o one))
      BY <1>2, <2>3, JoinTyped
    <3>2. QED
      BY <2>1, <2>2, <2>4, <3>1 DEF ToSet
  <2>8. pixels' \in 0 .. Limits.pixels /\ embedded' \in 0 .. Limits.embedded
    BY <1>9, <2>1, <2>2, <2>5, LimitsTyped, Within
  <2>9. IsFiniteSet(files')
    BY <1>7, <2>1, FS_AddElement
  <2>10. QED
    BY <1>1, <1>8, <1>11, <2>1, <2>6, <2>7, <2>8, <2>9
<1>20. QED
  BY <1>14, <1>15, <1>16, <1>17, <1>18, <1>19

LEMMA InitInv ==
  ASSUME Init
  PROVE  LowerInv
<1>1. doc \in Documents /\ profile \in Profiles /\ frames = <<1>> /\ next = 2
  BY DEF Init
<1>2. /\ Len(doc.nodes) \in Nat \ {0} /\ DOMAIN doc.nodes = 1 .. Len(doc.nodes)
      /\ End(1) = Len(doc.nodes) + 1
  BY <1>1, NodeFacts
<1>3. 1 \in DOMAIN doc.nodes
  BY <1>2
<1>4. /\ <<1>> \in Seq(DOMAIN doc.nodes) /\ Len(<<1>>) = 1 /\ <<1>>[1] = 1 /\ Last(<<1>>) = 1
      /\ <<1>> # <<>>
  <2>1. <<1>> \in Seq(DOMAIN doc.nodes) /\ Len(<<1>>) = 1 /\ <<1>>[1] = 1
    BY <1>3, OneRole
  <2>2. Len(<<>>) = 0
    OBVIOUS
  <2>3. QED
    BY <2>1, <2>2 DEF Last
<1>5. WalkInv
  BY <1>1, <1>2, <1>4 DEF WalkInv
<1>6. CountInv
  BY <1>1, <1>2 DEF CountInv, Init
<1>7. \A S : <<>> \in Seq(S)
  OBVIOUS
<1>8. elements \in Seq(ToSet(elements)) /\ diagnostics \in Seq(Notes) /\ Len(elements) = 0
  <2>1. EarlyNotes \subseteq Notes
    BY DEF EarlyNotes, Note, Notes, NoteCodes
  <2>2. doc.notes \in Seq(EarlyNotes)
    BY <1>1, DocumentsAssumption
  <2>3. diagnostics \in Seq(Notes)
    <3>1. \A S, T : S \subseteq T => \A list \in Seq(S) : list \in Seq(T)
      OBVIOUS
    <3>2. doc.notes \in Seq(Notes)
      BY <2>1, <2>2, <3>1
    <3>3. QED
      BY <3>2 DEF Init
  <2>4. QED
    BY <1>7, <2>3 DEF Init
<1>9. activeGroups \in Seq([order : Nat, instance : Nat]) /\ activeInstances \in Seq(1 .. nextInstance)
  BY <1>7 DEF Init
<1>10. IsFiniteSet(files)
  BY FS_EmptySet DEF Init
<1>11. /\ segments \in 0 .. Limits.segments /\ points \in 0 .. Limits.points
       /\ pixels \in 0 .. Limits.pixels /\ embedded \in 0 .. Limits.embedded
       /\ Len(elements) <= Limits.elements
  BY <1>8, LimitsTyped DEF Init
<1>12. /\ paintOrder \in 0 .. Len(doc.nodes) /\ nextInstance \in 0 .. Len(doc.nodes)
       /\ promoted \in BOOLEAN /\ cancelled \in BOOLEAN /\ result \in Results
  <2>1. paintOrder = 0 /\ nextInstance = 0 /\ promoted = FALSE /\ cancelled = FALSE
        /\ result = "none"
    BY DEF Init
  <2>2. 0 \in 0 .. Len(doc.nodes)
    BY <1>2
  <2>3. QED
    BY <2>1, <2>2 DEF Results
<1>13. TypeOK
  BY <1>1, <1>5, <1>6, <1>9, <1>10, <1>11, <1>12 DEF TypeOK, WalkInv, CountInv
<1>14. QED
  BY <1>1, <1>5, <1>6, <1>8, <1>13 DEF LowerInv

\* The counters stay within the number of nodes.
LEMMA CountsBound ==
  ASSUME NEW m \in Nat, NEW order \in Nat, NEW instances \in Nat, NEW position \in 2 .. m + 1,
         order + 2 <= position, instances <= order
  PROVE  order \in 0 .. m /\ instances \in 0 .. m
OBVIOUS

\* What a step of the walk has to establish.
LEMMA StepTypes ==
  ASSUME LowerInv, UNCHANGED input, WalkInv', CountInv',
         promoted' \in BOOLEAN, cancelled' \in BOOLEAN, result' \in Results,
         activeGroups' \in Seq([order : Nat, instance : Nat]),
         activeInstances' \in Seq(1 .. nextInstance'),
         elements' \in Seq(ToSet(elements)'), Len(elements') <= Limits.elements,
         diagnostics' \in Seq(Notes), IsFiniteSet(files'),
         segments' \in 0 .. Limits.segments, points' \in 0 .. Limits.points,
         pixels' \in 0 .. Limits.pixels, embedded' \in 0 .. Limits.embedded
  PROVE  LowerInv'
<1>1. doc' \in Documents /\ profile' \in Profiles /\ Len(doc'.nodes) \in Nat
  BY NodeFacts DEF LowerInv, TypeOK, input
<1>2. /\ next' \in 2 .. Len(doc'.nodes) + 1 /\ paintOrder' \in Nat /\ nextInstance' \in Nat
      /\ paintOrder' + 2 <= next' /\ nextInstance' <= paintOrder'
  BY DEF CountInv
<1>3. paintOrder' \in 0 .. Len(doc'.nodes) /\ nextInstance' \in 0 .. Len(doc'.nodes)
  BY <1>1, <1>2, CountsBound
<1>4. frames' \in Seq(DOMAIN doc'.nodes)
  BY DEF WalkInv
<1>5. TypeOK'
  BY <1>1, <1>2, <1>3, <1>4 DEF TypeOK
<1>6. QED
  BY <1>1, <1>5 DEF LowerInv

\* What the walk leaves alone stays as typed.
LEMMA OutputTyped ==
  ASSUME LowerInv, UNCHANGED <<elements, files, segments, points, pixels, embedded>>
  PROVE  /\ elements' \in Seq(ToSet(elements)') /\ Len(elements') <= Limits.elements
         /\ IsFiniteSet(files')
         /\ segments' \in 0 .. Limits.segments /\ points' \in 0 .. Limits.points
         /\ pixels' \in 0 .. Limits.pixels /\ embedded' \in 0 .. Limits.embedded
<1>1. /\ elements \in Seq(ToSet(elements)) /\ Len(elements) <= Limits.elements /\ IsFiniteSet(files)
      /\ segments \in 0 .. Limits.segments /\ points \in 0 .. Limits.points
      /\ pixels \in 0 .. Limits.pixels /\ embedded \in 0 .. Limits.embedded
  BY DEF LowerInv, TypeOK
<1>2. ToSet(elements)' = ToSet(elements)
  BY DEF ToSet
<1>3. QED
  BY <1>1, <1>2

LEMMA WalkTyped ==
  ASSUME LowerInv, UNCHANGED <<activeGroups, activeInstances, nextInstance>>
  PROVE  /\ activeGroups' \in Seq([order : Nat, instance : Nat])
         /\ activeInstances' \in Seq(1 .. nextInstance')
         /\ nextInstance' \in Nat /\ nextInstance' <= paintOrder
BY DEF LowerInv, TypeOK, CountInv

LEMMA DecidedKeeps ==
  ASSUME LowerInv, NEW plan, NEW isPromoted, DecidedStep(plan, isPromoted)
  PROVE  LowerInv'
<1>1. /\ next' = next + Node(next).size /\ paintOrder' = paintOrder + 1 /\ promoted' \in BOOLEAN
      /\ UNCHANGED <<doc, profile, frames, activeGroups, activeInstances, nextInstance, cancelled>>
      /\ InGroup
  BY DEF DecidedStep, Pass, AtChild, input
<1>2. doc \in Documents /\ WalkInv /\ CountInv /\ next' = End(next)
  BY <1>1 DEF LowerInv, End
<1>3. WalkInv' /\ next' \in 2 .. Len(doc.nodes) + 1 /\ next' >= next + 1
  BY <1>1, <1>2, WalkPast
<1>4. /\ paintOrder \in Nat /\ paintOrder + 2 <= next /\ next \in Nat /\ Len(doc.nodes) \in Nat
      /\ nextInstance \in Nat /\ nextInstance <= paintOrder
  BY <1>2, NodeFacts DEF CountInv
<1>5. paintOrder' \in Nat /\ paintOrder' + 2 <= next' /\ nextInstance' <= paintOrder'
  BY <1>1, <1>3, <1>4
<1>6. CountInv'
  BY <1>1, <1>3, <1>4, <1>5 DEF CountInv
<1>7. /\ activeGroups' \in Seq([order : Nat, instance : Nat])
      /\ activeInstances' \in Seq(1 .. nextInstance')
  BY <1>1, WalkTyped
<1>8. result' \in Results /\ cancelled' \in BOOLEAN
  BY <1>1, DecidedTyped DEF Results, Failures, LowerInv, TypeOK
<1>9. QED
  BY <1>1, <1>3, <1>6, <1>7, <1>8, DecidedTyped, StepTypes DEF input

LEMMA SkipArtworkKeeps ==
  ASSUME LowerInv, SkipArtwork
  PROVE  LowerInv'
<1>1. /\ next' = next + Node(next).size /\ promoted' = FALSE /\ InGroup
      /\ UNCHANGED <<doc, profile, frames, paintOrder, activeGroups, activeInstances, nextInstance,
                     elements, files, diagnostics, segments, points, pixels, embedded,
                     cancelled, result>>
  BY DEF SkipArtwork, AtChild, input, outputVars, budgetVars
<1>2. doc \in Documents /\ WalkInv /\ CountInv /\ next' = End(next)
  BY <1>1 DEF LowerInv, End
<1>3. WalkInv' /\ next' \in 2 .. Len(doc.nodes) + 1 /\ next' >= next + 1
  BY <1>1, <1>2, WalkPast
<1>4. /\ paintOrder \in Nat /\ paintOrder + 2 <= next /\ next \in Nat /\ Len(doc.nodes) \in Nat
      /\ nextInstance \in Nat /\ nextInstance <= paintOrder
  BY <1>2, NodeFacts DEF CountInv
<1>5. paintOrder' + 2 <= next'
  BY <1>1, <1>3, <1>4
<1>6. CountInv'
  BY <1>1, <1>3, <1>4, <1>5 DEF CountInv
<1>7. /\ activeGroups' \in Seq([order : Nat, instance : Nat])
      /\ activeInstances' \in Seq(1 .. nextInstance')
  BY <1>1, WalkTyped
<1>8. result' \in Results /\ cancelled' \in BOOLEAN /\ diagnostics' \in Seq(Notes)
  BY <1>1 DEF LowerInv, TypeOK
<1>9. QED
  BY <1>1, <1>3, <1>6, <1>7, <1>8, OutputTyped, StepTypes DEF input

LEMMA EnterGroupKeeps ==
  ASSUME LowerInv, EnterGroup
  PROVE  LowerInv'
<1> DEFINE instances == IF Meta(next).tag = "use"
                        THEN Append(activeInstances, nextInstance + 1) ELSE activeInstances
           key == [order |-> Node(next).src - 1, instance |-> CurrentInstance']
           added == IF Node(next).effect = "none" THEN <<>>
                    ELSE <<Note("filter-omitted", "omission", next)>>
<1>1. /\ next' = next + 1 /\ frames' = Append(frames, next) /\ paintOrder' = paintOrder + 1
      /\ promoted' = FALSE /\ InGroup
      /\ UNCHANGED <<doc, profile, elements, files, segments, points, pixels, embedded,
                     cancelled, result>>
  BY DEF EnterGroup, Selected, AtChild, input, budgetVars
<1>2. /\ activeInstances' = instances
      /\ nextInstance' = nextInstance + Len(instances) - Len(activeInstances)
      /\ activeGroups' = IF Explicit(next) THEN Append(activeGroups, key) ELSE activeGroups
      /\ diagnostics' = diagnostics \o added
  BY DEF EnterGroup
<1>3. doc \in Documents /\ WalkInv /\ CountInv /\ diagnostics \in Seq(Notes)
  BY DEF LowerInv
<1>4. next \in DOMAIN doc.nodes /\ next \in Nat
  BY <1>1, <1>3, AtNext
<1>5. Node(next).src \in Nat
  BY <1>3, <1>4, NodeFacts DEF PaintNode
<1>6. WalkInv' /\ next' \in 2 .. Len(doc.nodes) + 1
  BY <1>1, <1>3, WalkIn
<1>7. /\ paintOrder \in Nat /\ paintOrder + 2 <= next /\ Len(doc.nodes) \in Nat
      /\ nextInstance \in Nat /\ nextInstance <= paintOrder
  BY <1>3, NodeFacts DEF CountInv
<1>8. activeInstances \in Seq(1 .. nextInstance) /\ activeGroups \in Seq([order : Nat, instance : Nat])
  BY DEF LowerInv, TypeOK
<1>9. /\ nextInstance' \in nextInstance .. nextInstance + 1
      /\ activeInstances' \in Seq(1 .. nextInstance')
  <2>1. CASE Meta(next).tag = "use"
    <3>1. /\ activeInstances' = Append(activeInstances, nextInstance + 1)
          /\ nextInstance' = nextInstance + Len(Append(activeInstances, nextInstance + 1))
                                          - Len(activeInstances)
      BY <1>2, <2>1
    <3>2. Len(Append(activeInstances, nextInstance + 1)) = Len(activeInstances) + 1
          /\ Len(activeInstances) \in Nat
      BY <1>8
    <3>3. nextInstance' = nextInstance + 1
      BY <1>7, <3>1, <3>2
    <3>4. 1 .. nextInstance \subseteq 1 .. nextInstance + 1 /\ nextInstance + 1 \in 1 .. nextInstance + 1
      BY <1>7
    <3>5. \A S, T : \A s \in Seq(S), x \in T : S \subseteq T => Append(s, x) \in Seq(T)
      OBVIOUS
    <3>6. Append(activeInstances, nextInstance + 1) \in Seq(1 .. nextInstance + 1)
      BY <1>8, <3>4, <3>5
    <3>7. QED
      BY <1>7, <3>1, <3>3, <3>6
  <2>2. CASE Meta(next).tag # "use"
    <3>1. /\ activeInstances' = activeInstances
          /\ nextInstance' = nextInstance + Len(activeInstances) - Len(activeInstances)
      BY <1>2, <2>2
    <3>2. nextInstance' = nextInstance
      <4>1. Len(activeInstances) \in Nat
        BY <1>8
      <4>2. QED
        BY <1>7, <3>1, <4>1
    <3>3. QED
      BY <1>7, <1>8, <3>1, <3>2
  <2>3. QED
    BY <2>1, <2>2
<1> HIDE DEF instances
<1>10. paintOrder' \in Nat /\ paintOrder' + 2 <= next' /\ nextInstance' <= paintOrder'
       /\ nextInstance' \in Nat
  BY <1>1, <1>4, <1>7, <1>9
<1>11. CountInv'
  BY <1>1, <1>6, <1>10 DEF CountInv
<1>12. activeGroups' \in Seq([order : Nat, instance : Nat])
  <2>1. CASE Explicit(next)
    <3>1. Node(next).src # 0
      BY <2>1 DEF Explicit, Meta, NoMeta, Known
    <3>2. CurrentInstance' \in Nat
      <4>1. CASE activeInstances' = <<>>
        BY <4>1 DEF CurrentInstance
      <4>2. CASE activeInstances' # <<>>
        <5>1. \A S : \A s \in Seq(S) : s # <<>> => Last(s) \in S
          BY DEF Last
        <5>2. Last(activeInstances') \in 1 .. nextInstance'
          BY <1>9, <4>2, <5>1
        <5>3. QED
          BY <1>10, <4>2, <5>2 DEF CurrentInstance
      <4>3. QED
        BY <4>1, <4>2
    <3>3. key \in [order : Nat, instance : Nat]
      BY <1>5, <3>1, <3>2
    <3> HIDE DEF key
    <3>4. QED
      BY <1>2, <1>8, <2>1, <3>3
  <2>2. CASE ~Explicit(next)
    BY <1>2, <1>8, <2>2
  <2>3. QED
    BY <2>1, <2>2
<1>13. diagnostics' \in Seq(Notes)
  <2>1. added \in Seq(Notes)
    BY <1>4, NoteTyped, NothingDrawn DEF NoteCodes
  <2> HIDE DEF added
  <2>2. QED
    BY <1>2, <1>3, <2>1, ConcatParts
<1>14. result' \in Results /\ cancelled' \in BOOLEAN /\ promoted' \in BOOLEAN
  BY <1>1 DEF LowerInv, TypeOK
<1>15. QED
  BY <1>1, <1>6, <1>9, <1>11, <1>12, <1>13, <1>14, OutputTyped, StepTypes DEF input

LEMMA LeaveGroupKeeps ==
  ASSUME LowerInv, LeaveGroup
  PROVE  LowerInv'
<1>1. /\ frames' = Front(frames) /\ promoted' = FALSE /\ ~InGroup /\ frames # <<>>
      /\ activeGroups' = (IF Explicit(Last(frames)) THEN Front(activeGroups) ELSE activeGroups)
      /\ activeInstances' = (IF Meta(Last(frames)).tag = "use" THEN Front(activeInstances)
                             ELSE activeInstances)
      /\ UNCHANGED <<doc, profile, next, paintOrder, nextInstance, elements, files, diagnostics,
                     segments, points, pixels, embedded, cancelled, result>>
  BY DEF LeaveGroup, input, outputVars, budgetVars
<1>2. doc \in Documents /\ WalkInv /\ CountInv
  BY DEF LowerInv
<1>3. WalkInv'
  BY <1>1, <1>2, WalkOut
<1>4. CountInv'
  BY <1>1, <1>2 DEF CountInv
<1>5. activeInstances \in Seq(1 .. nextInstance) /\ activeGroups \in Seq([order : Nat, instance : Nat])
  BY DEF LowerInv, TypeOK
<1>6. /\ activeGroups' \in Seq([order : Nat, instance : Nat])
      /\ activeInstances' \in Seq(1 .. nextInstance')
  <2>1. /\ Front(activeInstances) \in Seq(1 .. nextInstance)
        /\ Front(activeGroups) \in Seq([order : Nat, instance : Nat])
    BY <1>5, FrontTyped
  <2>2. QED
    BY <1>1, <1>5, <2>1
<1>7. result' \in Results /\ cancelled' \in BOOLEAN /\ diagnostics' \in Seq(Notes)
      /\ promoted' \in BOOLEAN
  BY <1>1 DEF LowerInv, TypeOK
<1>8. QED
  BY <1>1, <1>3, <1>4, <1>6, <1>7, OutputTyped, StepTypes DEF input

LEMMA WalkStands ==
  ASSUME LowerInv, UNCHANGED <<doc, walkVars>>
  PROVE  WalkInv' /\ CountInv'
<1>1. UNCHANGED <<doc, frames, next, paintOrder, nextInstance>> /\ WalkInv /\ CountInv
  BY DEF walkVars, LowerInv
<1>2. QED
  BY <1>1 DEF WalkInv, CountInv, End, Below, Node

\* Steps that leave the walk and the output alone.
LEMMA StillKeeps ==
  ASSUME LowerInv, UNCHANGED <<input, walkVars, outputVars>>, cancelled' \in BOOLEAN,
         result' \in Results
  PROVE  LowerInv'
<1>1. /\ UNCHANGED <<doc, profile, frames, next, paintOrder, promoted, activeGroups,
                     activeInstances, nextInstance>>
      /\ UNCHANGED <<elements, files, diagnostics, segments, points, pixels, embedded>>
  BY DEF input, walkVars, outputVars, budgetVars
<1>2. WalkInv' /\ CountInv'
  BY WalkStands DEF input
<1>3. promoted' \in BOOLEAN /\ diagnostics' \in Seq(Notes)
  BY <1>1 DEF LowerInv, TypeOK
<1>4. QED
  BY <1>1, <1>2, <1>3, WalkTyped, OutputTyped, StepTypes

LEMMA FinishKeeps ==
  ASSUME LowerInv, Finish
  PROVE  LowerInv'
<1> DEFINE added == IF \E i \in DOMAIN elements : elements[i].type = "arrow"
                    THEN <<Note("binding-not-inferred", "info", 1)>> ELSE <<>>
<1>1. /\ elements' = FinalElements /\ diagnostics' = diagnostics \o added
      /\ result' \in Results
      /\ UNCHANGED <<doc, profile, frames, next, paintOrder, promoted, activeGroups,
                     activeInstances, nextInstance, files, segments, points, pixels, embedded,
                     cancelled>>
  BY DEF Finish, input, walkVars, budgetVars, Results
<1>2. WalkInv' /\ CountInv'
  BY <1>1, WalkStands DEF walkVars
<1>3. elements \in Seq(ToSet(elements)) /\ diagnostics \in Seq(Notes) /\ Len(elements) <= Limits.elements
  BY DEF LowerInv, TypeOK
<1>4. elements' \in Seq(ToSet(elements)') /\ Len(elements') = Len(elements)
  <2> DEFINE final(i) == [elements[i] EXCEPT !.groups = Kept(elements[i].groups)]
             S == {final(i) : i \in DOMAIN elements}
  <2>1. Len(elements) \in Nat /\ DOMAIN elements = 1 .. Len(elements)
    BY <1>3
  <2>2. FinalElements = [i \in DOMAIN elements |-> final(i)]
    BY DEF FinalElements
  <2> HIDE DEF final
  <2>3. \A i \in DOMAIN elements : final(i) \in S
    OBVIOUS
  <2> HIDE DEF S
  <2>4. elements' \in [1 .. Len(elements) -> S]
    BY <1>1, <2>1, <2>2, <2>3
  <2>5. elements' \in Seq(S) /\ Len(elements') = Len(elements)
    BY <2>1, <2>4
  <2>6. \A s \in Seq(S) : s \in Seq(ToSet(s))
    BY SelfTyped
  <2>7. elements' \in Seq(ToSet(elements'))
    BY <2>5, <2>6
  <2>8. QED
    BY <2>5, <2>7 DEF ToSet
<1>5. diagnostics' \in Seq(Notes)
  <2>1. added \in Seq(Notes)
    BY NoteTyped, NothingDrawn DEF NoteCodes
  <2> HIDE DEF added
  <2>2. QED
    BY <1>1, <1>3, <2>1, ConcatParts
<1>6. /\ IsFiniteSet(files') /\ promoted' \in BOOLEAN /\ cancelled' \in BOOLEAN
      /\ segments' \in 0 .. Limits.segments /\ points' \in 0 .. Limits.points
      /\ pixels' \in 0 .. Limits.pixels /\ embedded' \in 0 .. Limits.embedded
      /\ Len(elements') <= Limits.elements
  BY <1>1, <1>3, <1>4 DEF LowerInv, TypeOK
<1>7. QED
  BY <1>1, <1>2, <1>4, <1>5, <1>6, WalkTyped, StepTypes DEF input

\* Every step of the walk is one of these.
LEMMA StepCases ==
  ASSUME LowerInv, [Next]_vars
  PROVE  \/ UNCHANGED <<input, walkVars, outputVars, result>> /\ cancelled' \in BOOLEAN
         \/ NoticeCancel
         \/ SkipArtwork
         \/ \E plan, isPromoted : DecidedStep(plan, isPromoted)
         \/ EnterGroup \/ LeaveGroup \/ Finish
<1>1. CASE UNCHANGED vars
  BY <1>1 DEF vars, LowerInv, TypeOK
<1>2. CASE Cancel
  BY <1>2 DEF Cancel
<1>3. CASE LowerPath \/ LowerText \/ LowerImage \/ LowerIsland
  BY <1>3, DecisionStep
<1>4. QED
  BY <1>1, <1>2, <1>3 DEF Next

\* The walk's invariant holds of every reachable state.
THEOREM WalkInvariant == Spec => []LowerInv
<1>1. Init => LowerInv
  BY InitInv
<1>2. LowerInv /\ [Next]_vars => LowerInv'
  <2> SUFFICES ASSUME LowerInv, [Next]_vars PROVE LowerInv'
    OBVIOUS
  <2>1. CASE UNCHANGED <<input, walkVars, outputVars, result>> /\ cancelled' \in BOOLEAN
    BY <2>1, StillKeeps DEF LowerInv, TypeOK
  <2>2. CASE NoticeCancel
    <3>1. /\ UNCHANGED <<input, walkVars, outputVars, cancelled>>
          /\ result' \in Results
      BY <2>2 DEF NoticeCancel, Results
    <3>2. cancelled' \in BOOLEAN
      BY <3>1 DEF LowerInv, TypeOK
    <3>3. QED
      BY <3>1, <3>2, StillKeeps
  <2>3. CASE SkipArtwork
    BY <2>3, SkipArtworkKeeps
  <2>4. CASE \E plan, isPromoted : DecidedStep(plan, isPromoted)
    BY <2>4, DecidedKeeps
  <2>5. CASE EnterGroup
    BY <2>5, EnterGroupKeeps
  <2>6. CASE LeaveGroup
    BY <2>6, LeaveGroupKeeps
  <2>7. CASE Finish
    BY <2>7, FinishKeeps
  <2>8. QED
    BY <2>1, <2>2, <2>3, <2>4, <2>5, <2>6, <2>7, StepCases
<1>3. QED
  BY <1>1, <1>2, PTL DEF Spec

\* Every variable keeps its type, and no budget is ever exceeded.
THEOREM LoweringTyped == Spec => []TypeOK
<1>1. LowerInv => TypeOK
  BY DEF LowerInv
<1>2. QED
  BY <1>1, WalkInvariant, PTL

\* The decision to decompose a fill is one that the budgets have room for.
LEMMA DecomposeFits ==
  ASSUME LowerInv, InGroup, Node(next).kind = "path", PathPlan(next).do = "decompose"
  PROVE  /\ PathPlan(next).drawn = PathDrawings(Node(next))
         /\ Parts(Node(next)) # {} /\ Separable(Node(next)) /\ Affordable(Node(next))
BY DEF PathPlan, Omit, Fail, Fallback, Draw, Decide

\* A compound fill that is decomposed never fails the conversion for a limit.
THEOREM DecompositionNeverFails == Spec => DecompositionAffordable
<1> DEFINE Fails == result' = "LimitExceeded" /\ result = "none"
           Decomposes == /\ Node(next).kind = "path" /\ Node(next).visible
                         /\ PathPlan(next).do = "decompose"
<1>1. LowerInv /\ [Next]_vars => (Fails => ~Decomposes)
  <2> SUFFICES ASSUME LowerInv, [Next]_vars, Fails, Decomposes PROVE FALSE
    OBVIOUS
  <2>1. LowerPath
    <3>1. ~UNCHANGED result
      OBVIOUS
    <3>2. ~UNCHANGED vars /\ ~Cancel /\ ~NoticeCancel /\ ~SkipArtwork /\ ~EnterGroup /\ ~LeaveGroup
      BY <3>1 DEF vars, Cancel, NoticeCancel, SkipArtwork, EnterGroup, LeaveGroup
    <3>3. ~Finish
      BY DEF Finish
    <3>4. ~LowerText /\ ~LowerImage /\ ~LowerIsland
      BY DEF LowerText, LowerImage, LowerIsland, Selected
    <3>5. QED
      BY <3>2, <3>3, <3>4 DEF Next
  <2> DEFINE p == Node(next)
             plan == PathPlan(next)
  <2>2. Perform(next, plan) /\ InGroup
    BY <2>1 DEF LowerPath, Selected, AtChild
  <2>3. /\ plan.drawn = PathDrawings(p)
        /\ Parts(p) # {} /\ Separable(p) /\ Affordable(p)
    BY <2>2, DecomposeFits
  <2>4. PathNode(p)
    <3>1. next \in DOMAIN doc.nodes
      BY <2>2, AtNext DEF LowerInv
    <3>2. QED
      BY <3>1, NodeFacts DEF LowerInv, PathNode
  <2> HIDE DEF plan, p
  <2>5. /\ Len(plan.drawn) = Len(p.subpaths)
        /\ PointsOf(plan.drawn) <= CompoundPoints(p)
        /\ PointsOf(plan.drawn) \in Nat /\ CompoundPoints(p) \in Nat
    BY <2>3, <2>4, DecomposedDrawn
  <2>6. /\ Len(elements) + Len(plan.drawn) <= Limits.elements
        /\ points + CompoundPoints(p) <= Limits.points
    BY <2>3, <2>5 DEF Affordable
  <2>7. Len(elements) \in Nat /\ Len(p.subpaths) \in Nat /\ points \in Nat
    <3>1. elements \in Seq(ToSet(elements)) /\ points \in 0 .. Limits.points
      BY DEF LowerInv, TypeOK
    <3>2. p.subpaths \in Seq(Subpaths)
      BY <2>4 DEF PathNode, PaintNode
    <3>3. QED
      BY <3>1, <3>2, LimitsTyped
  <2>8. ~(Len(elements) + Len(plan.drawn) > Limits.elements)
    <3>1. Len(plan.drawn) \in Nat /\ Limits.elements \in Nat
      BY <2>5, <2>7, LimitsTyped
    <3>2. QED
      BY ONLY <2>6, <2>7, <3>1
  <2>9. ~(points + PointsOf(plan.drawn) > Limits.points)
    BY <2>5, <2>6, <2>7, LimitsTyped
  <2>10. plan.do = "decompose"
    BY DEF plan
  <2>11. Emit(next, plan)
    BY <2>2, <2>10 DEF Perform
  <2>12. UNCHANGED result
    BY <2>8, <2>9, <2>11 DEF Emit
  <2>13. QED
    BY <2>12
<1>2. QED
  BY <1>1, WalkInvariant, PTL DEF Spec, DecompositionAffordable

-----------------------------------------------------------------------------
(* The elements of the document                                            *)

ElementFields == {"type", "node", "parts", "piece", "points", "groups", "picture"}

\* An element stands for a node the walk has reached; an image for all of the
\* node's subtree, which the walk has passed.
Made(d, e, reached) ==
  /\ DOMAIN e = ElementFields
  /\ e.node \in DOMAIN d.nodes /\ e.node < reached /\ e.points \in Nat
  /\ e.type # "image" => e.picture = NoPicture
  /\ e.type = "image" => /\ e.picture = d.nodes[e.node].picture
                         /\ e.node + d.nodes[e.node].size <= reached

ElementInv == \A i \in DOMAIN elements : Made(doc, elements[i], next)

\* The elements a decision on a node adds.
Fresh(e, n) ==
  /\ DOMAIN e = ElementFields /\ e.node = n /\ e.points \in Nat
  /\ e.type # "image" => e.picture = NoPicture
  /\ e.type = "image" => e.picture = Node(n).picture

LEMMA JoinParts ==
  ASSUME NEW s, NEW t, s \in Seq(ToSet(s)), t \in Seq(ToSet(t))
  PROVE  /\ Len(s \o t) = Len(s) + Len(t) /\ Len(s) \in Nat /\ Len(t) \in Nat
         /\ DOMAIN (s \o t) = 1 .. Len(s) + Len(t) /\ DOMAIN s = 1 .. Len(s)
         /\ DOMAIN t = 1 .. Len(t)
         /\ \A i \in DOMAIN s : (s \o t)[i] = s[i] /\ i \in DOMAIN (s \o t)
         /\ \A i \in DOMAIN t : (s \o t)[Len(s) + i] = t[i] /\ Len(s) + i \in DOMAIN (s \o t)
         /\ \A i \in DOMAIN (s \o t) :
              i \in DOMAIN s \/ (i - Len(s) \in DOMAIN t /\ Len(s) + (i - Len(s)) = i)
<1> DEFINE A == ToSet(s)
           B == ToSet(t)
<1> HIDE DEF A, B
<1>1. s \in Seq(A) /\ t \in Seq(B)
  BY DEF A, B
<1>2. s \in Seq(A \cup B) /\ t \in Seq(A \cup B)
  BY <1>1
<1>3. QED
  BY <1>2, ConcatParts

LEMMA EmissionFresh ==
  ASSUME NEW n, NEW plan, plan.drawn \in Seq(Drawings)
  PROVE  \A i \in DOMAIN Emission(n, plan) :
           /\ Fresh(Emission(n, plan)[i], n) /\ Emission(n, plan)[i].type # "image"
           /\ Emission(n, plan)[i].type = plan.drawn[i].type
           /\ Emission(n, plan)[i].parts = plan.drawn[i].parts
           /\ Emission(n, plan)[i].piece = plan.drawn[i].piece
           /\ Emission(n, plan)[i].points = plan.drawn[i].points
<1> SUFFICES ASSUME NEW i \in DOMAIN Emission(n, plan)
    PROVE  /\ Fresh(Emission(n, plan)[i], n) /\ Emission(n, plan)[i].type # "image"
           /\ Emission(n, plan)[i].type = plan.drawn[i].type
           /\ Emission(n, plan)[i].parts = plan.drawn[i].parts
           /\ Emission(n, plan)[i].piece = plan.drawn[i].piece
           /\ Emission(n, plan)[i].points = plan.drawn[i].points
  OBVIOUS
<1>1. /\ plan.drawn[i] \in Drawings
      /\ Emission(n, plan)[i] = Element(n, plan.drawn[i], Keys(n, plan))
  BY EmissionOf
<1>2. plan.drawn[i].points \in Nat /\ plan.drawn[i].type # "image"
  BY <1>1 DEF Drawings
<1>3. QED
  BY <1>1, <1>2 DEF Element, Fresh, ElementFields

LEMMA PictureFresh ==
  ASSUME NEW n
  PROVE  LET e == ImageElement(n)
         IN Fresh(e, n) /\ e.type = "image" /\ e.piece = 0 /\ e.parts = PictureParts
BY DEF ImageElement, Fresh, ElementFields, PictureParts

\* What a decision adds to the document, if anything.
Adds(more) ==
  /\ more \in Seq(ToSet(more)) /\ elements' = elements \o more
  /\ \A i \in DOMAIN more : Fresh(more[i], next)

LEMMA Emits ==
  ASSUME NEW plan, NEW isPromoted, DecidedStep(plan, isPromoted), Emitted(next, plan)
  PROVE  Adds(Emission(next, plan))
<1>1. plan.drawn \in Seq(Drawings)
  BY DEF DecidedStep, PlanFor, Plans
<1>2. QED
  BY <1>1, EmissionOf, EmissionFresh DEF Emitted, Adds

LEMMA Pictures ==
  ASSUME LowerInv, NEW plan, Pictured(next, plan)
  PROVE  Adds(<<ImageElement(next)>>)
<1> DEFINE one == <<ImageElement(next)>>
<1>1. elements \in Seq(ToSet(elements)) /\ elements' = Append(elements, ImageElement(next))
  BY DEF LowerInv, Pictured
<1>2. elements' = elements \o one
  BY <1>1, AppendConcat
<1>3. ImageElement(next) \in {ImageElement(next)}
  OBVIOUS
<1>4. /\ one \in Seq({ImageElement(next)}) /\ one[1] = ImageElement(next)
      /\ \A i \in DOMAIN one : i = 1
  BY <1>3, OneRole
<1>5. Fresh(ImageElement(next), next)
  BY PictureFresh
<1> HIDE DEF one
<1>6. one \in Seq(ToSet(one)) /\ \A i \in DOMAIN one : Fresh(one[i], next)
  BY <1>4, <1>5, SelfTyped
<1>7. Adds(one)
  BY <1>2, <1>6 DEF Adds
<1>8. QED
  BY <1>7 DEF one

Quiet == UNCHANGED <<elements, files, points, pixels, embedded>>

\* A decision leaves the document alone, or draws, or embeds a picture.
LEMMA DecidedAdds ==
  ASSUME LowerInv, NEW plan, NEW isPromoted, DecidedStep(plan, isPromoted)
  PROVE  Quiet \/ Emitted(next, plan) \/ Pictured(next, plan)
<1>1. /\ PlanFor(next, plan) /\ Perform(next, plan) /\ TypeOK /\ elements \in Seq(ToSet(elements))
  BY DEF DecidedStep, LowerInv
<1>2. next \in DOMAIN doc.nodes
  BY AtNext DEF LowerInv, DecidedStep, AtChild
<1>3. PaintNode(Node(next))
  BY <1>2, NodeFacts DEF LowerInv
<1>4. Aborted \/ Emitted(next, plan) \/ Pictured(next, plan) \/ Reported(next, plan) \/ Skipped(next, plan)
  BY <1>1, <1>3, Outcomes
<1>5. QED
  BY <1>4 DEF Aborted, Reported, Report, Skipped, Skip, outputVars, budgetVars, Quiet

LEMMA MadeLater ==
  ASSUME LowerInv, ElementInv, UNCHANGED <<doc, elements>>, next' >= next, next' \in Nat
  PROVE  ElementInv'
<1> SUFFICES ASSUME NEW i \in DOMAIN elements PROVE Made(doc', elements'[i], next')
  BY DEF ElementInv
<1>1. Made(doc, elements[i], next)
  BY DEF ElementInv
<1>2. next \in Nat /\ elements[i].node \in DOMAIN doc.nodes
  BY <1>1 DEF LowerInv, CountInv, Made
<1>3. elements[i].node \in Nat /\ End(elements[i].node) \in Nat
  BY <1>2, NodeFacts DEF LowerInv
<1>4. elements[i].node < next' /\ (End(elements[i].node) <= next => End(elements[i].node) <= next')
  BY <1>1, <1>2, <1>3 DEF Made
<1>5. End(elements[i].node) = elements[i].node + doc.nodes[elements[i].node].size
  BY DEF End, Node
<1>6. QED
  BY <1>1, <1>4, <1>5 DEF Made

LEMMA MadeMore ==
  ASSUME LowerInv, ElementInv, InGroup, UNCHANGED doc, next' = End(next), NEW more, Adds(more)
  PROVE  ElementInv'
<1>1. /\ next \in DOMAIN doc.nodes /\ next \in Nat /\ next < End(next) /\ End(next) \in Nat
  BY AtNext DEF LowerInv
<1>2. /\ elements \in Seq(ToSet(elements)) /\ more \in Seq(ToSet(more))
      /\ elements' = elements \o more
  BY DEF LowerInv, Adds
<1> SUFFICES ASSUME NEW i \in DOMAIN elements' PROVE Made(doc', elements'[i], next')
  BY DEF ElementInv
<1> DEFINE e == elements'[i]
<1>3. \A n : End(n) = n + doc.nodes[n].size /\ Node(n) = doc.nodes[n]
  BY DEF End, Node
<1>4. CASE i \in DOMAIN elements
  <2>1. e = elements[i] /\ Made(doc, e, next)
    BY <1>2, <1>4, JoinParts DEF ElementInv
  <2>2. e.node \in DOMAIN doc.nodes
    BY <2>1 DEF Made
  <2>3. e.node \in Nat /\ End(e.node) \in Nat
    BY <2>2, NodeFacts DEF LowerInv
  <2> HIDE DEF e
  <2>4. e.node < next' /\ (End(e.node) <= next => End(e.node) <= next')
    BY <1>1, <2>1, <2>3 DEF Made
  <2>5. Made(doc', e, next')
    BY <1>3, <2>1, <2>4 DEF Made
  <2>6. QED
    BY <2>5 DEF e
<1>5. CASE i \notin DOMAIN elements
  <2>1. i - Len(elements) \in DOMAIN more /\ e = more[i - Len(elements)]
    BY <1>2, <1>5, JoinParts
  <2>2. Fresh(e, next)
    BY <2>1 DEF Adds
  <2> HIDE DEF e
  <2>3. /\ e.node \in DOMAIN doc.nodes /\ e.node < next' /\ End(e.node) <= next'
    BY <1>1, <2>2 DEF Fresh
  <2>4. Made(doc', e, next')
    BY <1>3, <2>2, <2>3 DEF Made, Fresh
  <2>5. QED
    BY <2>4 DEF e
<1>6. QED
  BY <1>4, <1>5

\* Finishing changes the groups of the elements and nothing else of them.
SameFields(e, f) == /\ DOMAIN f = DOMAIN e /\ f.type = e.type /\ f.node = e.node
                    /\ f.parts = e.parts /\ f.piece = e.piece /\ f.points = e.points
                    /\ f.picture = e.picture

LEMMA FinalFields ==
  ASSUME ElementInv
  PROVE  /\ DOMAIN FinalElements = DOMAIN elements
         /\ \A i \in DOMAIN elements : SameFields(elements[i], FinalElements[i])
<1>1. DOMAIN FinalElements = DOMAIN elements
  BY DEF FinalElements
<1>2. ASSUME NEW i \in DOMAIN elements PROVE SameFields(elements[i], FinalElements[i])
  <2> DEFINE e == elements[i]
             groups == Kept(elements[i].groups)
  <2>1. FinalElements[i] = [e EXCEPT !.groups = groups]
    BY DEF FinalElements
  <2>2. DOMAIN e = ElementFields
    BY DEF ElementInv, Made
  <2> HIDE DEF e, groups
  <2>3. SameFields(e, [e EXCEPT !.groups = groups])
    BY <2>2 DEF SameFields, ElementFields
  <2>4. QED
    BY <2>1, <2>3 DEF e
<1>3. QED
  BY <1>1, <1>2

LEMMA MadeFinal ==
  ASSUME LowerInv, ElementInv, Finish
  PROVE  ElementInv'
<1>1. elements' = FinalElements /\ UNCHANGED <<doc, next>>
  BY DEF Finish, input, walkVars
<1> SUFFICES ASSUME NEW i \in DOMAIN elements' PROVE Made(doc', elements'[i], next')
  BY DEF ElementInv
<1>2. i \in DOMAIN elements /\ SameFields(elements[i], elements'[i]) /\ Made(doc, elements[i], next)
  BY <1>1, FinalFields DEF ElementInv
<1>3. doc' = doc /\ next' = next
  BY <1>1
<1> DEFINE e == elements[i]
           f == elements'[i]
<1> HIDE DEF e, f
<1>4. SameFields(e, f) /\ Made(doc, e, next)
  BY <1>2 DEF e, f
<1>5. Made(doc', f, next')
  BY <1>1, <1>3, <1>4 DEF Made, SameFields
<1>6. QED
  BY <1>5 DEF f

LEMMA ElementsKept ==
  ASSUME LowerInv, ElementInv, [Next]_vars
  PROVE  ElementInv'
<1>0. next \in Nat /\ next >= next
  BY DEF LowerInv, CountInv
<1>1. CASE UNCHANGED <<input, walkVars, outputVars, result>> \/ NoticeCancel
  <2>1. UNCHANGED <<doc, elements, next>>
    BY <1>1 DEF NoticeCancel, input, walkVars, outputVars
  <2>2. QED
    BY <1>0, <2>1, MadeLater
<1>2. CASE SkipArtwork
  <2>1. UNCHANGED <<doc, elements>> /\ next' = End(next) /\ InGroup
    BY <1>2 DEF SkipArtwork, AtChild, input, outputVars, End
  <2>2. next < End(next) /\ End(next) \in Nat
    BY <2>1, AtNext DEF LowerInv
  <2>3. next' >= next /\ next' \in Nat
    BY <1>0, <2>1, <2>2
  <2>4. QED
    BY <2>1, <2>3, MadeLater
<1>3. CASE EnterGroup
  <2>1. UNCHANGED <<doc, elements>> /\ next' = next + 1
    BY <1>3 DEF EnterGroup, input
  <2>2. QED
    BY <1>0, <2>1, MadeLater
<1>4. CASE LeaveGroup
  <2>1. UNCHANGED <<doc, elements, next>>
    BY <1>4 DEF LeaveGroup, input, outputVars
  <2>2. QED
    BY <1>0, <2>1, MadeLater
<1>5. CASE Finish
  BY <1>5, MadeFinal
<1>6. ASSUME NEW plan, NEW isPromoted, DecidedStep(plan, isPromoted) PROVE ElementInv'
  <2>1. UNCHANGED doc /\ next' = End(next) /\ InGroup
    BY <1>6 DEF DecidedStep, Pass, AtChild, input, End
  <2>2. CASE Quiet
    <3>1. next < End(next) /\ End(next) \in Nat
      BY <2>1, AtNext DEF LowerInv
    <3>2. next' >= next /\ next' \in Nat
      BY <1>0, <2>1, <3>1
    <3>3. QED
      BY <2>1, <2>2, <3>2, MadeLater DEF Quiet
  <2>3. CASE Emitted(next, plan)
    BY <1>6, <2>1, <2>3, Emits, MadeMore
  <2>4. CASE Pictured(next, plan)
    BY <2>1, <2>4, Pictures, MadeMore
  <2>5. QED
    BY <1>6, <2>2, <2>3, <2>4, DecidedAdds
<1>7. QED
  BY <1>1, <1>2, <1>3, <1>4, <1>5, <1>6, StepCases

-----------------------------------------------------------------------------
(* Budgets                                                                 *)

\* The numbers of a report, of any list of elements.
PixelsAt(list, i) == IF list[i].type = "image" THEN list[i].picture.pixels ELSE 0
BytesAt(list, i)  == IF /\ list[i].type = "image"
                        /\ \A j \in 1 .. i - 1 : list[j].picture # list[i].picture
                     THEN list[i].picture.bytes ELSE 0
PixelsOf(list)   == Total([i \in DOMAIN list |-> PixelsAt(list, i)])
BytesOf(list)    == Total([i \in DOMAIN list |-> BytesAt(list, i)])
PicturesOf(list) == {list[i].picture : i \in DOMAIN list} \ {NoPicture}

BudgetInv == /\ points = PointsOf(elements) /\ pixels = PixelsOf(elements)
             /\ embedded = BytesOf(elements) /\ files = PicturesOf(elements)

LEMMA BudgetsAre == BudgetInv <=> BudgetsExact
<1>1. [i \in DOMAIN elements |-> ImagePixels(i)] = [i \in DOMAIN elements |-> PixelsAt(elements, i)]
  BY DEF ImagePixels, PixelsAt
<1>2. [i \in DOMAIN elements |-> FileBytes(i)] = [i \in DOMAIN elements |-> BytesAt(elements, i)]
  BY DEF FileBytes, BytesAt
<1>3. QED
  BY <1>1, <1>2 DEF BudgetInv, BudgetsExact, PixelsOf, BytesOf, PicturesOf

\* h is f and then g.
Joined(h, f, g) == /\ h = [i \in 1 .. Len(f) + Len(g) |-> h[i]]
                   /\ \A i \in 1 .. Len(f) : h[i] = f[i]
                   /\ \A i \in 1 .. Len(g) : h[Len(f) + i] = g[i]

LEMMA JoinedIs ==
  ASSUME NEW S, NEW f \in Seq(S), NEW g \in Seq(S), NEW h, Joined(h, f, g)
  PROVE  h = f \o g
<1> DEFINE both == f \o g
           m == Len(f)
           k == Len(g)
           n == m + k
<1>1. m \in Nat /\ k \in Nat /\ DOMAIN f = 1 .. m /\ DOMAIN g = 1 .. k
  OBVIOUS
<1>2. both = [i \in 1 .. n |-> both[i]]
  <2>1. both \in Seq(S) /\ Len(both) = n
    BY ConcatParts
  <2> HIDE DEF both, n
  <2>2. both = [i \in 1 .. Len(both) |-> both[i]]
    BY <2>1
  <2>3. QED
    BY <2>1, <2>2
<1>3. /\ \A i \in DOMAIN f : both[i] = f[i]
      /\ \A i \in DOMAIN g : both[m + i] = g[i]
  BY ConcatParts
<1>4. /\ h = [i \in 1 .. n |-> h[i]] /\ \A i \in 1 .. m : h[i] = f[i]
      /\ \A i \in 1 .. k : h[m + i] = g[i]
  BY DEF Joined
<1> HIDE DEF both, m, k
<1>5. ASSUME NEW i \in 1 .. n PROVE both[i] = h[i]
  <2>1. CASE i \in 1 .. m
    BY <1>1, <1>3, <1>4, <2>1
  <2>2. CASE i \notin 1 .. m
    <3>1. i - m \in 1 .. k /\ m + (i - m) = i
      BY <1>1, <2>2
    <3>2. both[m + (i - m)] = g[i - m]
      BY <1>1, <1>3, <3>1
    <3>3. h[m + (i - m)] = g[i - m]
      BY <1>4, <3>1
    <3>4. QED
      BY <3>1, <3>2, <3>3
  <2>3. QED
    BY <2>1, <2>2
<1> HIDE DEF n
<1>6. both = h
  BY <1>2, <1>4, <1>5
<1>7. QED
  BY <1>6 DEF both

LEMMA TotalJoin ==
  ASSUME NEW f \in Seq(Nat), NEW g \in Seq(Nat), NEW h, Joined(h, f, g)
  PROVE  Total(h) = Total(f) + Total(g)
<1>1. h = f \o g
  BY JoinedIs
<1>2. QED
  BY <1>1, TotalConcat

LEMMA TotalNone ==
  ASSUME NEW m \in Nat
  PROVE  [i \in 1 .. m |-> 0] \in Seq(Nat) /\ Total([i \in 1 .. m |-> 0]) = 0
<1> DEFINE zeros == [i \in 1 .. m |-> 0]
           f == [k \in 0 .. m |-> 0]
<1>1. zeros \in Seq(Nat) /\ Len(zeros) = m /\ \A k \in 1 .. m : zeros[k] = 0
  OBVIOUS
<1>2. \A k \in 0 .. m : f[k] = 0
  OBVIOUS
<1>3. f \in [0 .. m -> Nat] /\ 0 \in 0 .. m /\ m \in 0 .. m
  OBVIOUS
<1> HIDE DEF zeros, f
<1>4. \A k \in 1 .. m : k \in 0 .. m /\ k - 1 \in 0 .. m
  OBVIOUS
<1>5. \A k \in 1 .. m : f[k] = f[k - 1] + zeros[k]
  BY <1>1, <1>2, <1>4
<1>6. SumsUp(f, zeros)
  BY <1>1, <1>2, <1>3, <1>5 DEF SumsUp
<1>7. Total(zeros) = 0
  BY <1>1, <1>2, <1>3, <1>6, SumUnique
<1>8. QED
  BY <1>1, <1>7 DEF zeros

\* What each element of the document counts.
LEMMA CountsTyped ==
  ASSUME LowerInv, ElementInv
  PROVE  /\ [i \in DOMAIN elements |-> elements[i].points] \in Seq(Nat)
         /\ [i \in DOMAIN elements |-> PixelsAt(elements, i)] \in Seq(Nat)
         /\ [i \in DOMAIN elements |-> BytesAt(elements, i)] \in Seq(Nat)
<1>1. DOMAIN elements = 1 .. Len(elements) /\ Len(elements) \in Nat
  <2>1. elements \in Seq(ToSet(elements))
    BY DEF LowerInv
  <2>2. QED
    BY <2>1
<1>2. ASSUME NEW i \in DOMAIN elements
      PROVE  /\ elements[i].points \in Nat /\ PixelsAt(elements, i) \in Nat
             /\ BytesAt(elements, i) \in Nat
  <2>1. Made(doc, elements[i], next)
    BY DEF ElementInv
  <2>2. PaintNode(Node(elements[i].node))
    BY <2>1, NodeFacts DEF LowerInv, Made
  <2>3. QED
    BY <2>1, <2>2 DEF Made, PaintNode, Node, PixelsAt, BytesAt
<1>3. QED
  BY <1>1, <1>2

LEMMA BudgetsDraw ==
  ASSUME LowerInv, ElementInv, BudgetInv, NEW plan, NEW isPromoted,
         DecidedStep(plan, isPromoted), Emitted(next, plan)
  PROVE  BudgetInv'
<1> DEFINE more == Emission(next, plan)
           len == Len(elements)
           m == Len(plan.drawn)
           f == [i \in DOMAIN elements |-> elements[i].points]
           g == [i \in DOMAIN plan.drawn |-> plan.drawn[i].points]
           fp == [i \in DOMAIN elements |-> PixelsAt(elements, i)]
           fb == [i \in DOMAIN elements |-> BytesAt(elements, i)]
           zeros == [i \in 1 .. m |-> 0]
<1>1. plan.drawn \in Seq(Drawings)
  BY DEF DecidedStep, PlanFor, Plans
<1>2. /\ more \in Seq(ToSet(more)) /\ Len(more) = m /\ m \in Nat
      /\ DOMAIN more = DOMAIN plan.drawn /\ DOMAIN more = 1 .. m
  BY <1>1, EmissionOf
<1>3. \A i \in 1 .. m : /\ more[i].points = plan.drawn[i].points /\ more[i].type # "image"
                        /\ more[i].picture = NoPicture
  BY <1>1, <1>2, EmissionFresh DEF Fresh
<1>4. /\ elements' = elements \o more /\ points' = points + PointsOf(plan.drawn)
      /\ UNCHANGED <<files, pixels, embedded>>
  BY DEF Emitted
<1>5. elements \in Seq(ToSet(elements))
  BY DEF LowerInv
<1>6. /\ DOMAIN elements = 1 .. len /\ len \in Nat /\ DOMAIN elements' = 1 .. len + m
      /\ \A i \in 1 .. len : elements'[i] = elements[i] /\ i \in 1 .. len + m
      /\ \A i \in 1 .. m : elements'[len + i] = more[i] /\ len + i \in 1 .. len + m
      /\ \A i \in 1 .. len + m : i \in 1 .. len \/ (i - len \in 1 .. m /\ len + (i - len) = i)
  <2> DEFINE both == elements \o more
  <2>1. /\ len \in Nat /\ DOMAIN both = 1 .. len + Len(more)
        /\ DOMAIN elements = 1 .. len
        /\ \A i \in DOMAIN elements : both[i] = elements[i] /\ i \in DOMAIN both
        /\ \A i \in DOMAIN more : both[len + i] = more[i] /\ len + i \in DOMAIN both
        /\ \A i \in DOMAIN both :
             i \in DOMAIN elements \/ (i - len \in DOMAIN more /\ len + (i - len) = i)
    BY <1>2, <1>5, JoinParts
  <2>2. elements' = both
    BY <1>4
  <2> HIDE DEF both, len, m, more
  <2>3. QED
    BY <1>2, <2>1, <2>2
<1>7. /\ f \in Seq(Nat) /\ fp \in Seq(Nat) /\ fb \in Seq(Nat)
      /\ DOMAIN f = 1 .. len /\ DOMAIN fp = 1 .. len /\ DOMAIN fb = 1 .. len
      /\ \A i \in 1 .. len : f[i] = elements[i].points /\ fp[i] = PixelsAt(elements, i)
                             /\ fb[i] = BytesAt(elements, i)
  BY <1>6, CountsTyped
<1>8. g \in Seq(Nat) /\ DOMAIN g = 1 .. m /\ \A i \in 1 .. m : g[i] = plan.drawn[i].points
  BY <1>1, <1>2, DrawnPoints
<1>9. zeros \in Seq(Nat) /\ Total(zeros) = 0 /\ DOMAIN zeros = 1 .. m
      /\ \A i \in 1 .. m : zeros[i] = 0
  BY <1>2, TotalNone
<1>10. /\ points = Total(f) /\ PointsOf(plan.drawn) = Total(g)
       /\ pixels = Total(fp) /\ embedded = Total(fb)
  BY DEF BudgetInv, PointsOf, PixelsOf, BytesOf
<1> HIDE DEF more, len, f, g, fp, fb, zeros, m
<1>11. Len(f) = len /\ Len(fp) = len /\ Len(fb) = len /\ Len(g) = m /\ Len(zeros) = m
  BY <1>2, <1>6, <1>7, <1>8, <1>9
<1>12. points' = PointsOf(elements)'
  <2> DEFINE h == [i \in DOMAIN elements' |-> elements'[i].points]
  <2>1. h = [i \in 1 .. len + m |-> h[i]] /\ \A i \in 1 .. len + m : h[i] = elements'[i].points
    BY <1>6
  <2>2. PointsOf(elements)' = Total(h)
    BY DEF PointsOf
  <2> HIDE DEF h
  <2>3. ASSUME NEW i \in 1 .. len PROVE h[i] = f[i]
    BY <1>6, <1>7, <2>1
  <2>4. ASSUME NEW i \in 1 .. m PROVE h[len + i] = g[i]
    BY <1>3, <1>6, <1>8, <2>1
  <2>5. Total(h) = Total(f) + Total(g)
    <3>1. Joined(h, f, g)
      BY <1>11, <2>1, <2>3, <2>4 DEF Joined
    <3>2. QED
      BY <1>7, <1>8, <3>1, TotalJoin
  <2>6. QED
    BY <1>4, <1>10, <2>2, <2>5
<1>13. pixels' = PixelsOf(elements)'
  <2> DEFINE h == [i \in DOMAIN elements' |-> PixelsAt(elements', i)]
  <2>1. h = [i \in 1 .. len + m |-> h[i]] /\ \A i \in 1 .. len + m : h[i] = PixelsAt(elements', i)
    BY <1>6
  <2>2. PixelsOf(elements)' = Total(h)
    BY DEF PixelsOf, PixelsAt
  <2> HIDE DEF h
  <2>3. ASSUME NEW i \in 1 .. len PROVE h[i] = fp[i]
    <3>1. PixelsAt(elements', i) = PixelsAt(elements, i)
      BY <1>6 DEF PixelsAt
    <3>2. QED
      BY <1>6, <1>7, <2>1, <3>1
  <2>4. ASSUME NEW i \in 1 .. m PROVE h[len + i] = zeros[i]
    <3>1. PixelsAt(elements', len + i) = 0
      BY <1>3, <1>6 DEF PixelsAt
    <3>2. QED
      BY <1>6, <1>9, <2>1, <3>1
  <2>5. Total(h) = Total(fp) + Total(zeros)
    <3>1. Joined(h, fp, zeros)
      BY <1>11, <2>1, <2>3, <2>4 DEF Joined
    <3>2. QED
      BY <1>7, <1>9, <3>1, TotalJoin
  <2>6. Total(fp) + Total(zeros) = Total(fp)
    BY <1>7, <1>9, TotalNat
  <2>7. QED
    BY <1>4, <1>10, <2>2, <2>5, <2>6
<1>14. embedded' = BytesOf(elements)'
  <2> DEFINE h == [i \in DOMAIN elements' |-> BytesAt(elements', i)]
  <2>1. h = [i \in 1 .. len + m |-> h[i]] /\ \A i \in 1 .. len + m : h[i] = BytesAt(elements', i)
    BY <1>6
  <2>2. BytesOf(elements)' = Total(h)
    BY DEF BytesOf, BytesAt
  <2> HIDE DEF h
  <2>3. ASSUME NEW i \in 1 .. len PROVE h[i] = fb[i]
    <3>1. \A j \in 1 .. i - 1 : elements'[j] = elements[j]
      BY <1>6
    <3>2. BytesAt(elements', i) = BytesAt(elements, i)
      BY <1>6, <3>1 DEF BytesAt
    <3>3. QED
      BY <1>6, <1>7, <2>1, <3>2
  <2>4. ASSUME NEW i \in 1 .. m PROVE h[len + i] = zeros[i]
    <3>1. BytesAt(elements', len + i) = 0
      BY <1>3, <1>6 DEF BytesAt
    <3>2. QED
      BY <1>6, <1>9, <2>1, <3>1
  <2>5. Total(h) = Total(fb) + Total(zeros)
    <3>1. Joined(h, fb, zeros)
      BY <1>11, <2>1, <2>3, <2>4 DEF Joined
    <3>2. QED
      BY <1>7, <1>9, <3>1, TotalJoin
  <2>6. Total(fb) + Total(zeros) = Total(fb)
    BY <1>7, <1>9, TotalNat
  <2>7. QED
    BY <1>4, <1>10, <2>2, <2>5, <2>6
<1>15. files' = PicturesOf(elements)'
  <2>1. files = PicturesOf(elements)
    BY DEF BudgetInv
  <2>2. PicturesOf(elements') = PicturesOf(elements)
    BY <1>3, <1>6 DEF PicturesOf
  <2>3. QED
    BY <1>4, <2>1, <2>2 DEF PicturesOf
<1>16. QED
  BY <1>12, <1>13, <1>14, <1>15 DEF BudgetInv

LEMMA BudgetsEmbed ==
  ASSUME LowerInv, ElementInv, BudgetInv, InGroup, NEW plan, Pictured(next, plan)
  PROVE  BudgetInv'
<1> DEFINE e == ImageElement(next)
           picture == Node(next).picture
           bytes == EmbeddedBytes(picture)
           m == Len(elements)
           f == [i \in DOMAIN elements |-> elements[i].points]
           fp == [i \in DOMAIN elements |-> PixelsAt(elements, i)]
           fb == [i \in DOMAIN elements |-> BytesAt(elements, i)]
<1>1. next \in DOMAIN doc.nodes
  BY AtNext DEF LowerInv
<1>2. /\ picture.pixels \in Nat /\ picture.bytes \in Nat /\ picture # NoPicture
      /\ bytes = IF picture \in files THEN 0 ELSE picture.bytes
  BY <1>1, NodeFacts DEF LowerInv, PaintNode, EmbeddedBytes
<1>3. /\ e.type = "image" /\ e.picture = picture /\ e.points = 0
  BY DEF ImageElement
<1>4. /\ elements' = Append(elements, e) /\ files' = files \cup {picture}
      /\ pixels' = pixels + picture.pixels /\ embedded' = embedded + bytes
      /\ UNCHANGED points
  BY DEF Pictured
<1>5. elements \in Seq(ToSet(elements))
  BY DEF LowerInv
<1>6. /\ f \in Seq(Nat) /\ fp \in Seq(Nat) /\ fb \in Seq(Nat)
      /\ DOMAIN f = DOMAIN elements /\ DOMAIN fp = DOMAIN elements /\ DOMAIN fb = DOMAIN elements
      /\ \A i \in DOMAIN elements : f[i] = elements[i].points /\ fp[i] = PixelsAt(elements, i)
                                    /\ fb[i] = BytesAt(elements, i)
  BY CountsTyped
<1>7. /\ points = Total(f) /\ pixels = Total(fp) /\ embedded = Total(fb)
      /\ files = PicturesOf(elements)
  BY DEF BudgetInv, PointsOf, PixelsOf, BytesOf
<1> HIDE DEF e, picture, bytes, f, fp, fb
<1>8. /\ DOMAIN elements = 1 .. m /\ m \in Nat /\ DOMAIN elements' = 1 .. m + 1
      /\ \A i \in 1 .. m : elements'[i] = elements[i] /\ i \in 1 .. m + 1
      /\ elements'[m + 1] = e /\ m + 1 \in 1 .. m + 1
  <2> DEFINE A == ToSet(elements)
  <2> HIDE DEF A
  <2>1. elements \in Seq(A)
    BY <1>5 DEF A
  <2>2. QED
    BY <1>4, <2>1
<1>9. Len(f) = m /\ Len(fp) = m /\ Len(fb) = m
  BY <1>6, <1>8
<1> HIDE DEF m
<1>10. \A x \in Nat : /\ <<x>> \in Seq(Nat) /\ DOMAIN <<x>> = 1 .. 1 /\ Len(<<x>>) = 1
                      /\ <<x>>[1] = x /\ Total(<<x>>) = x
                      /\ \A i \in DOMAIN <<x>> : i = 1
  BY OneRole, TotalOne
<1>11. points' = PointsOf(elements)'
  <2> DEFINE g == <<0>>
             h == [i \in DOMAIN elements' |-> elements'[i].points]
  <2>1. g \in Seq(Nat) /\ Len(g) = 1 /\ g[1] = 0 /\ Total(g) = 0 /\ 1 .. Len(g) = {1}
    BY <1>10
  <2>2. h = [i \in 1 .. m + 1 |-> h[i]] /\ \A i \in 1 .. m + 1 : h[i] = elements'[i].points
    BY <1>8
  <2>3. PointsOf(elements)' = Total(h)
    BY DEF PointsOf
  <2> HIDE DEF g, h
  <2>4. ASSUME NEW i \in 1 .. m PROVE h[i] = f[i]
    BY <1>6, <1>8, <2>2
  <2>5. \A i \in 1 .. 1 : h[m + i] = g[i]
    BY <1>3, <1>8, <2>1, <2>2
  <2>6. Total(h) = Total(f) + Total(g)
    <3>1. Joined(h, f, g)
      BY <1>9, <2>1, <2>2, <2>4, <2>5 DEF Joined
    <3>2. QED
      BY <1>6, <2>1, <3>1, TotalJoin
  <2>7. Total(f) + Total(g) = Total(f)
    BY <1>6, <2>1, TotalNat
  <2>8. QED
    BY <1>4, <1>7, <2>3, <2>6, <2>7
<1>12. pixels' = PixelsOf(elements)'
  <2> DEFINE g == <<picture.pixels>>
             h == [i \in DOMAIN elements' |-> PixelsAt(elements', i)]
  <2>1. g \in Seq(Nat) /\ Len(g) = 1 /\ g[1] = picture.pixels /\ Total(g) = picture.pixels
        /\ 1 .. Len(g) = {1}
    BY <1>2, <1>10
  <2>2. h = [i \in 1 .. m + 1 |-> h[i]] /\ \A i \in 1 .. m + 1 : h[i] = PixelsAt(elements', i)
    BY <1>8
  <2>3. PixelsOf(elements)' = Total(h)
    BY DEF PixelsOf, PixelsAt
  <2> HIDE DEF g, h
  <2>4. ASSUME NEW i \in 1 .. m PROVE h[i] = fp[i]
    <3>1. PixelsAt(elements', i) = PixelsAt(elements, i)
      BY <1>8 DEF PixelsAt
    <3>2. QED
      BY <1>6, <1>8, <2>2, <3>1
  <2>5. \A i \in 1 .. 1 : h[m + i] = g[i]
    <3>1. PixelsAt(elements', m + 1) = picture.pixels
      BY <1>3, <1>8 DEF PixelsAt
    <3>2. QED
      BY <1>8, <2>1, <2>2, <3>1
  <2>6. Total(h) = Total(fp) + Total(g)
    <3>1. Joined(h, fp, g)
      BY <1>9, <2>1, <2>2, <2>4, <2>5 DEF Joined
    <3>2. QED
      BY <1>6, <2>1, <3>1, TotalJoin
  <2>7. QED
    BY <1>4, <1>7, <2>1, <2>3, <2>6
<1>13. embedded' = BytesOf(elements)'
  <2> DEFINE g == <<bytes>>
             h == [i \in DOMAIN elements' |-> BytesAt(elements', i)]
  <2>1. g \in Seq(Nat) /\ Len(g) = 1 /\ g[1] = bytes /\ Total(g) = bytes /\ 1 .. Len(g) = {1}
    BY <1>2, <1>10
  <2>2. h = [i \in 1 .. m + 1 |-> h[i]] /\ \A i \in 1 .. m + 1 : h[i] = BytesAt(elements', i)
    BY <1>8
  <2>3. BytesOf(elements)' = Total(h)
    BY DEF BytesOf, BytesAt
  <2> HIDE DEF g, h
  <2>4. ASSUME NEW i \in DOMAIN elements PROVE BytesAt(elements', i) = BytesAt(elements, i)
    <3>1. /\ \A j \in 1 .. i - 1 : elements'[j] = elements[j]
          /\ elements'[i] = elements[i]
      BY <1>8
    <3>2. QED
      BY <3>1 DEF BytesAt
  <2>5. BytesAt(elements', m + 1) = bytes
    <3>1. \A j \in 1 .. m : elements'[j].picture # picture <=> elements[j].picture # picture
      BY <1>8
    <3>2. picture \in files <=> \E j \in 1 .. m : elements[j].picture = picture
      BY <1>2, <1>7, <1>8 DEF PicturesOf
    <3>3. m + 1 - 1 = m
      BY <1>8
    <3>4. (\A j \in 1 .. m + 1 - 1 : elements'[j].picture # picture) <=> picture \notin files
      BY <3>1, <3>2, <3>3
    <3>5. QED
      BY <1>2, <1>3, <1>8, <3>4 DEF BytesAt
  <2>6. ASSUME NEW i \in 1 .. m PROVE h[i] = fb[i]
    BY <1>6, <1>8, <2>2, <2>4
  <2>7. \A i \in 1 .. 1 : h[m + i] = g[i]
    BY <1>8, <2>1, <2>2, <2>5
  <2>8. Total(h) = Total(fb) + Total(g)
    <3>1. Joined(h, fb, g)
      BY <1>9, <2>1, <2>2, <2>6, <2>7 DEF Joined
    <3>2. QED
      BY <1>6, <2>1, <3>1, TotalJoin
  <2>9. QED
    BY <1>4, <1>7, <2>1, <2>3, <2>8
<1>14. files' = PicturesOf(elements)'
  <2>1. PicturesOf(elements') = PicturesOf(elements) \cup {picture}
    <3>1. \A i \in 1 .. m + 1 : i \in 1 .. m \/ i = m + 1
      BY <1>8
    <3>2. m + 1 \in 1 .. m + 1 /\ \A i \in 1 .. m : i \in 1 .. m + 1
      BY <1>8
    <3>3. PicturesOf(elements') \subseteq PicturesOf(elements) \cup {picture}
      BY <1>3, <1>8, <3>1 DEF PicturesOf
    <3>4. PicturesOf(elements) \subseteq PicturesOf(elements')
      BY <1>8, <3>2 DEF PicturesOf
    <3>5. picture \in PicturesOf(elements')
      BY <1>2, <1>3, <1>8, <3>2 DEF PicturesOf
    <3>6. QED
      BY <3>3, <3>4, <3>5
  <2>2. QED
    BY <1>4, <1>7, <2>1 DEF PicturesOf
<1>15. QED
  BY <1>11, <1>12, <1>13, <1>14 DEF BudgetInv

LEMMA BudgetsFinal ==
  ASSUME LowerInv, ElementInv, BudgetInv, Finish
  PROVE  BudgetInv'
<1>1. elements' = FinalElements /\ UNCHANGED <<files, points, pixels, embedded>>
  BY DEF Finish, budgetVars
<1>2. /\ DOMAIN elements' = DOMAIN elements
      /\ \A i \in DOMAIN elements : SameFields(elements[i], elements'[i])
  BY <1>1, FinalFields
<1>3. \A i \in DOMAIN elements : /\ elements'[i].points = elements[i].points
                                 /\ elements'[i].type = elements[i].type
                                 /\ elements'[i].picture = elements[i].picture
  BY <1>2 DEF SameFields
<1>4. DOMAIN elements = 1 .. Len(elements) /\ Len(elements) \in Nat
  <2>1. elements \in Seq(ToSet(elements))
    BY DEF LowerInv
  <2>2. QED
    BY <2>1
<1>5. \A i \in DOMAIN elements : PixelsAt(elements', i) = PixelsAt(elements, i)
  BY <1>3 DEF PixelsAt
<1>6. ASSUME NEW i \in DOMAIN elements PROVE BytesAt(elements', i) = BytesAt(elements, i)
  <2>1. \A j \in 1 .. i - 1 : elements'[j].picture = elements[j].picture
    BY <1>3, <1>4
  <2>2. QED
    BY <1>3, <2>1 DEF BytesAt
<1>7. PointsOf(elements') = PointsOf(elements)
  BY <1>2, <1>3 DEF PointsOf
<1>8. PixelsOf(elements') = PixelsOf(elements) /\ BytesOf(elements') = BytesOf(elements)
  BY <1>2, <1>5, <1>6 DEF PixelsOf, BytesOf
<1>9. PicturesOf(elements') = PicturesOf(elements)
  BY <1>2, <1>3 DEF PicturesOf
<1>10. QED
  BY <1>1, <1>7, <1>8, <1>9 DEF BudgetInv, PointsOf, PixelsOf, BytesOf, PicturesOf

LEMMA BudgetsStand ==
  ASSUME BudgetInv, Quiet
  PROVE  BudgetInv'
BY DEF BudgetInv, Quiet, PointsOf, PixelsOf, BytesOf, PicturesOf, PixelsAt, BytesAt

\* The report's numbers are those of the document it comes with.
THEOREM BudgetsReported == Spec => []BudgetsExact
<1> DEFINE Inv == LowerInv /\ ElementInv /\ BudgetInv
<1>1. Init => ElementInv /\ BudgetInv
  <2> SUFFICES ASSUME Init PROVE ElementInv /\ BudgetInv
    OBVIOUS
  <2>1. /\ elements = <<>> /\ files = {} /\ points = 0 /\ pixels = 0 /\ embedded = 0
    BY DEF Init
  <2>2. DOMAIN elements = 1 .. 0 /\ 1 .. 0 = {}
    BY <2>1
  <2>3. \A c : [i \in DOMAIN elements |-> c[i]] = [i \in 1 .. 0 |-> 0]
    BY <2>2
  <2>4. Total([i \in 1 .. 0 |-> 0]) = 0
    BY TotalNone
  <2>5. /\ [i \in DOMAIN elements |-> elements[i].points] = [i \in 1 .. 0 |-> 0]
        /\ [i \in DOMAIN elements |-> PixelsAt(elements, i)] = [i \in 1 .. 0 |-> 0]
        /\ [i \in DOMAIN elements |-> BytesAt(elements, i)] = [i \in 1 .. 0 |-> 0]
    BY <2>2
  <2>6. PicturesOf(elements) = {}
    BY <2>2 DEF PicturesOf
  <2>7. QED
    BY <2>1, <2>2, <2>4, <2>5, <2>6 DEF ElementInv, BudgetInv, PointsOf, PixelsOf, BytesOf
<1>2. LowerInv /\ ElementInv /\ BudgetInv /\ [Next]_vars => ElementInv' /\ BudgetInv'
  <2> SUFFICES ASSUME LowerInv, ElementInv, BudgetInv, [Next]_vars PROVE ElementInv' /\ BudgetInv'
    OBVIOUS
  <2>1. ElementInv'
    BY ElementsKept
  <2>2. CASE \/ UNCHANGED <<input, walkVars, outputVars, result>>
             \/ NoticeCancel \/ SkipArtwork \/ EnterGroup \/ LeaveGroup
    <3>1. Quiet
      BY <2>2 DEF NoticeCancel, SkipArtwork, EnterGroup, LeaveGroup, outputVars, budgetVars, Quiet
    <3>2. QED
      BY <2>1, <3>1, BudgetsStand
  <2>3. CASE Finish
    BY <2>1, <2>3, BudgetsFinal
  <2>4. ASSUME NEW plan, NEW isPromoted, DecidedStep(plan, isPromoted) PROVE BudgetInv'
    <3>1. InGroup
      BY <2>4 DEF DecidedStep, AtChild
    <3>2. QED
      BY <2>4, <3>1, DecidedAdds, BudgetsStand, BudgetsDraw, BudgetsEmbed
  <2>5. QED
    BY <2>1, <2>2, <2>3, <2>4, StepCases
<1>3. BudgetInv => BudgetsExact
  BY BudgetsAre
<1>4. QED
  BY <1>1, <1>2, <1>3, WalkInvariant, PTL DEF Spec

-----------------------------------------------------------------------------
(* Painting once                                                           *)

\* The first node after those an element stands for: an image stands for its
\* node's subtree, an arrow also for the artwork of its heads.
Reach(e) == IF e.type = "image" THEN End(e.node)
            ELSE IF e.type = "arrow" THEN End(e.node + 1) ELSE e.node + 1

\* The walk has passed what the element stands for, except that it is about to
\* skip the artwork of the arrow it has drawn last.
ReachAt(i) ==
  /\ elements[i].type = "arrow" => elements[i].node + 1 \in DOMAIN doc.nodes
  /\ \/ Reach(elements[i]) <= next
     \/ promoted /\ elements[i].type = "arrow" /\ elements[i].node + 1 = next

\* An element stands for nodes after those of the elements before it, or both
\* belong to one node and paint different parts of it.
ApartAt(i, j) ==
  \/ Reach(elements[i]) <= elements[j].node
  \/ /\ elements[i].node = elements[j].node
     /\ elements[i].type \notin {"image", "arrow"} /\ elements[j].type \notin {"image", "arrow"}
     /\ \A paint \in Paint(elements[i].node) :
          ~(PaintsPart(elements[i], paint) /\ PaintsPart(elements[j], paint))

\* While a connector is promoted, the walk is at its artwork.
PendingInv ==
  promoted /\ result = "none" =>
    /\ InGroup /\ MarkerArtwork(next) /\ Node(next).native
    /\ \E i \in DOMAIN elements : elements[i].type = "arrow" /\ elements[i].node + 1 = next

SpanInv == /\ \A i \in DOMAIN elements : ReachAt(i)
           /\ \A i, j \in DOMAIN elements : i < j => ApartAt(i, j)
           /\ PendingInv

LEMMA SameDocument ==
  ASSUME UNCHANGED doc
  PROVE  \A n : /\ Node(n)' = Node(n) /\ Meta(n)' = Meta(n) /\ Paint(n)' = Paint(n)
                /\ End(n)' = End(n)
<1>1. \A n : Node(n)' = Node(n)
  BY DEF Node
<1>2. \A n : End(n)' = End(n) /\ Paint(n)' = Paint(n)
  BY <1>1 DEF End, Paint
<1>3. \A n : Meta(n)' = Meta(n)
  BY <1>1 DEF Meta, Known, Anchored
<1>4. QED
  BY <1>1, <1>2, <1>3

LEMMA ReachTyped ==
  ASSUME doc \in Documents, NEW e, Made(doc, e, next),
         e.type = "arrow" => e.node + 1 \in DOMAIN doc.nodes
  PROVE  /\ e.node \in Nat /\ Reach(e) \in Nat /\ e.node < Reach(e)
<1>1. e.node \in DOMAIN doc.nodes
  BY DEF Made
<1>2. DOMAIN doc.nodes \subseteq Nat /\ \A n \in DOMAIN doc.nodes : n < End(n) /\ End(n) \in Nat
  BY NodeFacts
<1>3. e.node \in Nat
  BY <1>1, <1>2
<1>4. CASE e.type = "image"
  BY <1>1, <1>2, <1>4 DEF Reach
<1>5. CASE e.type = "arrow"
  <2>1. e.node + 1 < End(e.node + 1) /\ End(e.node + 1) \in Nat
    BY <1>2, <1>5
  <2>2. Reach(e) = End(e.node + 1)
    BY <1>5 DEF Reach
  <2>3. QED
    BY <1>3, <2>1, <2>2
<1>6. CASE e.type \notin {"image", "arrow"}
  BY <1>3, <1>6 DEF Reach
<1>7. QED
  BY <1>3, <1>4, <1>5, <1>6

\* An element that paints a part of a node stands for the node.
LEMMA Covering ==
  ASSUME doc \in Documents, NEW e, Made(doc, e, next), NEW n \in Nat, NEW paint,
         e.type = "arrow" => e.node + 1 \in DOMAIN doc.nodes,
         Paints(e, n, paint) \/ HeadsFor(e, n)
  PROVE  /\ e.node <= n /\ n < Reach(e)
         /\ e.type \notin {"image", "arrow"} => e.node = n /\ PaintsPart(e, paint)
<1>1. e.node \in Nat /\ Reach(e) \in Nat /\ e.node < Reach(e)
  BY ReachTyped
<1>2. CASE e.node = n /\ PaintsPart(e, paint)
  BY <1>1, <1>2
<1>3. CASE e.type = "image" /\ Below(e.node, n)
  BY <1>1, <1>3 DEF Below, Reach, End
<1>4. CASE HeadsFor(e, n)
  <2>1. e.type = "arrow" /\ e.node + 1 < n /\ n < e.node + 1 + Node(e.node + 1).size
    BY <1>4 DEF HeadsFor, Below
  <2>2. Reach(e) = e.node + 1 + Node(e.node + 1).size
    BY <2>1 DEF Reach, End
  <2>3. QED
    BY <1>1, <2>1, <2>2
<1>5. QED
  BY <1>2, <1>3, <1>4 DEF Paints, PaintsPart

LEMMA PaintedApart ==
  ASSUME LowerInv, ElementInv, SpanInv
  PROVE  PaintedOnce
<1>1. doc \in Documents /\ DOMAIN elements \subseteq Nat /\ next \in Nat
  <2>1. elements \in Seq(ToSet(elements)) /\ doc \in Documents /\ next \in Nat
    BY DEF LowerInv, CountInv
  <2>2. QED
    BY <2>1
<1>2. \A i \in DOMAIN elements :
        /\ Made(doc, elements[i], next)
        /\ elements[i].type = "arrow" => elements[i].node + 1 \in DOMAIN doc.nodes
  BY DEF ElementInv, SpanInv, ReachAt
<1>3. \A i \in DOMAIN elements : elements[i].node \in Nat /\ Reach(elements[i]) \in Nat
                                 /\ elements[i].node < Reach(elements[i])
  BY <1>1, <1>2, ReachTyped
<1>4. ASSUME NEW n \in 1 .. next - 1, NEW paint \in Paint(n),
             NEW i \in DOMAIN elements, NEW j \in DOMAIN elements, i < j,
             Paints(elements[i], n, paint) \/ HeadsFor(elements[i], n),
             Paints(elements[j], n, paint) \/ HeadsFor(elements[j], n)
      PROVE  FALSE
  <2>1. n \in Nat
    BY <1>1
  <2>2. /\ elements[i].node <= n /\ n < Reach(elements[i])
        /\ elements[i].type \notin {"image", "arrow"} =>
             elements[i].node = n /\ PaintsPart(elements[i], paint)
    BY <1>1, <1>2, <1>4, <2>1, Covering
  <2>3. /\ elements[j].node <= n
        /\ elements[j].type \notin {"image", "arrow"} =>
             elements[j].node = n /\ PaintsPart(elements[j], paint)
    BY <1>1, <1>2, <1>4, <2>1, Covering
  <2>4. ~(Reach(elements[i]) <= elements[j].node)
    BY <1>3, <2>1, <2>2, <2>3
  <2>5. ApartAt(i, j)
    BY <1>4 DEF SpanInv
  <2>6. QED
    BY <2>2, <2>3, <2>4, <2>5 DEF ApartAt
<1>5. ASSUME NEW i \in DOMAIN elements, NEW j \in DOMAIN elements, i < j
      PROVE  elements[i].node <= elements[j].node
  <2>1. ApartAt(i, j)
    BY <1>5 DEF SpanInv
  <2>2. QED
    BY <1>3, <2>1 DEF ApartAt
<1>6. \A i, j \in DOMAIN elements : i = j \/ i < j \/ j < i
  BY <1>1
<1>7. QED
  BY <1>4, <1>5, <1>6 DEF PaintedOnce

\* Only a connector that is drawn is promoted, unless the walk is at its end.
LEMMA DecidedPromotes ==
  ASSUME LowerInv, NEW plan, NEW isPromoted, DecidedStep(plan, isPromoted)
  PROVE  \/ Quiet /\ ~(promoted' /\ result' = "none")
         \/ Emitted(next, plan) /\ result' = "none" /\ (promoted' <=> plan.do = "arrow")
         \/ Pictured(next, plan) /\ ~promoted'
<1>1. /\ PlanFor(next, plan) /\ Perform(next, plan) /\ TypeOK /\ elements \in Seq(ToSet(elements))
      /\ (promoted' <=> plan.do = "arrow") /\ result = "none"
  BY DEF DecidedStep, LowerInv, Pass, AtChild
<1>2. next \in DOMAIN doc.nodes
  BY AtNext DEF LowerInv, DecidedStep, AtChild
<1>3. PaintNode(Node(next))
  BY <1>2, NodeFacts DEF LowerInv
<1>4. Aborted \/ Emitted(next, plan) \/ Pictured(next, plan) \/ Reported(next, plan) \/ Skipped(next, plan)
  BY <1>1, <1>3, Outcomes
<1>5. CASE Aborted
  BY <1>5 DEF Aborted, Failures, outputVars, budgetVars, Quiet
<1>6. CASE Reported(next, plan) \/ Skipped(next, plan)
  BY <1>1, <1>6 DEF Reported, Report, Skipped, Skip, Quiet
<1>7. CASE Emitted(next, plan)
  BY <1>1, <1>7 DEF Emitted
<1>8. CASE Pictured(next, plan)
  BY <1>1, <1>8 DEF Pictured
<1>9. QED
  BY <1>4, <1>5, <1>6, <1>7, <1>8

LEMMA NotPending ==
  ASSUME PendingInv, result = "none", ~InGroup \/ ~MarkerArtwork(next), promoted \in BOOLEAN
  PROVE  promoted = FALSE
BY DEF PendingInv

\* Elements that stay as they are stay apart, while the walk goes on.
LEMMA SpanLater ==
  ASSUME LowerInv, ElementInv, SpanInv, UNCHANGED doc,
         DOMAIN elements' = DOMAIN elements,
         \A i \in DOMAIN elements : SameFields(elements[i], elements'[i]),
         next' \in Nat, next' >= next, PendingInv',
         \/ promoted = FALSE
         \/ promoted' = promoted /\ next' = next
         \/ next' = End(next)
  PROVE  SpanInv'
<1>1. doc \in Documents /\ next \in Nat
  BY DEF LowerInv, CountInv
<1>2. \A n : End(n)' = End(n) /\ Paint(n)' = Paint(n)
  BY SameDocument
<1>3. \A i \in DOMAIN elements : Reach(elements[i])' = Reach(elements[i])
  BY <1>2 DEF Reach, SameFields
<1>4. ASSUME NEW i \in DOMAIN elements PROVE ReachAt(i)'
  <2>1. ReachAt(i) /\ Made(doc, elements[i], next)
    BY DEF SpanInv, ElementInv
  <2>2. Reach(elements[i]) \in Nat
    BY <1>1, <2>1, ReachTyped DEF ReachAt
  <2>3. SameFields(elements[i], elements'[i])
    OBVIOUS
  <2>4. CASE Reach(elements[i]) <= next
    <3>1. Reach(elements[i]) <= next'
      BY <1>1, <2>2, <2>4
    <3>2. QED
      BY <1>3, <2>1, <2>3, <3>1 DEF ReachAt, SameFields
  <2>5. CASE promoted /\ elements[i].type = "arrow" /\ elements[i].node + 1 = next
    <3>1. Reach(elements[i]) = End(next)
      BY <2>5 DEF Reach
    <3>2. End(next) \in Nat
      BY <2>2, <3>1
    <3>3. Reach(elements[i]) <= next' \/ (promoted' /\ elements'[i].type = "arrow"
                                         /\ elements'[i].node + 1 = next')
      <4>1. elements'[i].type = "arrow" /\ elements'[i].node + 1 = next
        BY <2>3, <2>5 DEF SameFields
      <4>2. CASE promoted' = promoted /\ next' = next
        BY <2>5, <4>1, <4>2
      <4>3. CASE next' = End(next)
        BY <3>1, <3>2, <4>3
      <4>4. QED
        BY <2>5, <4>2, <4>3
    <3>4. QED
      BY <1>3, <2>1, <2>3, <3>3 DEF ReachAt, SameFields
  <2>6. QED
    BY <2>1, <2>4, <2>5 DEF ReachAt
<1>5. ASSUME NEW i \in DOMAIN elements, NEW j \in DOMAIN elements, i < j PROVE ApartAt(i, j)'
  <2>1. ApartAt(i, j) /\ SameFields(elements[i], elements'[i]) /\ SameFields(elements[j], elements'[j])
    BY <1>5 DEF SpanInv
  <2>2. Paint(elements[i].node)' = Paint(elements[i].node)
    BY <1>2, <2>1 DEF SameFields
  <2>3. QED
    BY <1>3, <2>1, <2>2 DEF ApartAt, SameFields, PaintsPart
<1>6. QED
  BY <1>4, <1>5 DEF SpanInv

LEMMA SpanStill ==
  ASSUME SpanInv, UNCHANGED <<doc, elements, frames, next, promoted>>,
         result' = result \/ result' # "none"
  PROVE  SpanInv'
<1>1. \A n : Node(n)' = Node(n) /\ Meta(n)' = Meta(n) /\ End(n)' = End(n) /\ Paint(n)' = Paint(n)
  BY SameDocument
<1>2. InGroup' = InGroup
  BY <1>1 DEF InGroup, Node
<1>3. MarkerArtwork(next)' = MarkerArtwork(next) /\ Node(next)' = Node(next)
  BY DEF MarkerArtwork, Anonymous, Meta, Known, Anchored, Node
<1>4. PendingInv'
  BY <1>2, <1>3 DEF PendingInv, SpanInv
<1>5. \A i \in DOMAIN elements : /\ Reach(elements[i])' = Reach(elements[i])
                                 /\ Paint(elements[i].node)' = Paint(elements[i].node)
  BY DEF Reach, End, Node, Paint
<1>6. \A i \in DOMAIN elements : ReachAt(i)'
  BY <1>5 DEF SpanInv, ReachAt
<1>7. \A i, j \in DOMAIN elements : i < j => ApartAt(i, j)'
  BY <1>5 DEF SpanInv, ApartAt, PaintsPart
<1>8. QED
  BY <1>4, <1>6, <1>7 DEF SpanInv

LEMMA SameElements ==
  ASSUME UNCHANGED elements
  PROVE  /\ DOMAIN elements' = DOMAIN elements
         /\ \A i \in DOMAIN elements : SameFields(elements[i], elements'[i])
BY DEF SameFields

\* The drawings of one decision, as elements.
LEMMA SpanDraw ==
  ASSUME LowerInv, ElementInv, SpanInv, promoted = FALSE, NEW plan, NEW isPromoted,
         DecidedStep(plan, isPromoted), Emitted(next, plan), promoted' <=> plan.do = "arrow"
  PROVE  SpanInv'
<1> DEFINE more == Emission(next, plan)
           len == Len(elements)
<1>1. /\ UNCHANGED <<doc, frames>> /\ next' = End(next) /\ InGroup /\ PlanFor(next, plan)
      /\ elements' = elements \o more /\ doc \in Documents
      /\ Node(next).kind = "group" => plan.do = "fallback"
  BY DEF DecidedStep, Pass, AtChild, input, End, Emitted, LowerInv
<1>2. /\ next \in DOMAIN doc.nodes /\ next \in Nat /\ next < End(next) /\ End(next) \in Nat
      /\ End(next) <= Len(doc.nodes) + 1 /\ End(next) = next + 1 /\ Len(doc.nodes) \in Nat
      /\ Last(frames) \in DOMAIN doc.nodes /\ frames # <<>>
  <2>1. /\ next \in DOMAIN doc.nodes /\ next \in Nat /\ next < End(next) /\ End(next) \in Nat
        /\ Last(frames) \in DOMAIN doc.nodes /\ frames # <<>>
    BY <1>1, AtNext DEF LowerInv
  <2>2. Node(next).kind # "group"
    BY <1>1 DEF Emitted
  <2>3. QED
    BY <1>1, <2>1, <2>2, NodeFacts
<1>3. plan.drawn \in Seq(Drawings)
  BY <1>1 DEF PlanFor, Plans
<1>4. /\ more \in Seq(ToSet(more)) /\ DOMAIN more = DOMAIN plan.drawn
      /\ elements \in Seq(ToSet(elements)) /\ DOMAIN more \subseteq Nat
  <2>1. more \in Seq(ToSet(more)) /\ DOMAIN more = DOMAIN plan.drawn
        /\ elements \in Seq(ToSet(elements))
    BY <1>3, EmissionOf DEF LowerInv
  <2>2. DOMAIN more \subseteq Nat
    BY <1>3, <2>1
  <2>3. QED
    BY <2>1, <2>2
<1>5. /\ len \in Nat /\ DOMAIN elements = 1 .. len
      /\ \A i \in DOMAIN elements : elements'[i] = elements[i] /\ i \in DOMAIN elements'
      /\ \A i \in DOMAIN more : elements'[len + i] = more[i] /\ len + i \in DOMAIN elements'
      /\ \A i \in DOMAIN elements' :
           i \in DOMAIN elements \/ (i - len \in DOMAIN more /\ len + (i - len) = i)
      /\ DOMAIN elements' \subseteq Nat \ {0}
  BY <1>1, <1>4, JoinParts
<1>6. \A i \in DOMAIN more :
        /\ more[i].node = next /\ more[i].type = plan.drawn[i].type /\ more[i].type # "image"
        /\ more[i].parts = plan.drawn[i].parts /\ more[i].piece = plan.drawn[i].piece
  BY <1>3, EmissionFresh DEF Fresh
<1>7. plan.do # "arrow" => \A i \in DOMAIN more : more[i].type # "arrow"
  <2>1. plan.do # "arrow" => Plainly(plan.drawn)
    BY <1>1 DEF Emitted, PlanFor
  <2>2. QED
    BY <1>4, <1>6, <2>1 DEF Plainly, PlainDrawing
<1>8. plan.do = "arrow" => /\ \A i \in DOMAIN more : i = 1
                           /\ 1 \in DOMAIN more /\ more[1].type = "arrow"
                           /\ PromotionAllowed(next)
  <2> SUFFICES ASSUME plan.do = "arrow"
               PROVE  /\ \A i \in DOMAIN more : i = 1
                      /\ 1 \in DOMAIN more /\ more[1].type = "arrow"
                      /\ PromotionAllowed(next)
    OBVIOUS
  <2>1. Len(plan.drawn) = 1 /\ plan.drawn[1].type = "arrow" /\ PromotionAllowed(next)
    BY <1>1 DEF PlanFor
  <2>2. DOMAIN plan.drawn = 1 .. 1
    BY <1>3, <2>1
  <2>3. QED
    BY <1>4, <1>6, <2>1, <2>2
<1>9. DrawnOnce(next, plan.drawn)
  BY <1>1 DEF Emitted, PlanFor
<1>10. \A n : Node(n)' = Node(n) /\ Meta(n)' = Meta(n) /\ End(n)' = End(n) /\ Paint(n)' = Paint(n)
  BY <1>1, SameDocument
<1> HIDE DEF more, len
<1>11. \A i \in DOMAIN elements : /\ Reach(elements[i]) \in Nat /\ Reach(elements[i]) <= next
                                  /\ (elements[i].type = "arrow" =>
                                        elements[i].node + 1 \in DOMAIN doc.nodes)
  <2> SUFFICES ASSUME NEW i \in DOMAIN elements
               PROVE  /\ Reach(elements[i]) \in Nat /\ Reach(elements[i]) <= next
                      /\ (elements[i].type = "arrow" => elements[i].node + 1 \in DOMAIN doc.nodes)
    OBVIOUS
  <2>1. ReachAt(i) /\ Made(doc, elements[i], next)
    BY DEF SpanInv, ElementInv
  <2>2. QED
    BY <1>1, <2>1, ReachTyped DEF ReachAt
<1>12. plan.do = "arrow" => /\ next + 1 \in DOMAIN doc.nodes /\ Meta(next).marker = "known"
                            /\ next + 1 < End(Last(frames)) /\ Node(next + 1).native
                            /\ Node(next + 1).kind = "group" /\ Anonymous(next + 1)
  <2> SUFFICES ASSUME plan.do = "arrow"
               PROVE  /\ next + 1 \in DOMAIN doc.nodes /\ Meta(next).marker = "known"
                      /\ next + 1 < End(Last(frames)) /\ Node(next + 1).native
                      /\ Node(next + 1).kind = "group" /\ Anonymous(next + 1)
    OBVIOUS
  <2>1. /\ Meta(next).marker = "known" /\ next + 1 < End(Last(frames)) /\ Node(next + 1).native
        /\ Node(next + 1).kind = "group" /\ Anonymous(next + 1)
    BY <1>8 DEF PromotionAllowed, HasArtwork, End
  <2>2. DOMAIN doc.nodes = 1 .. Len(doc.nodes) /\ End(Last(frames)) <= Len(doc.nodes) + 1
        /\ End(Last(frames)) \in Nat
    BY <1>1, <1>2, NodeFacts
  <2>3. QED
    BY <1>2, <2>1, <2>2
<1>13. ASSUME NEW i \in DOMAIN elements' PROVE ReachAt(i)'
  <2>1. CASE i \in DOMAIN elements
    <3>1. elements'[i] = elements[i] /\ Reach(elements[i])' = Reach(elements[i])
      <4>1. elements'[i] = elements[i]
        BY <1>5, <2>1
      <4>2. QED
        BY <1>10, <4>1 DEF Reach
    <3>2. Reach(elements[i]) <= next'
      BY <1>1, <1>2, <1>11, <2>1
    <3>3. QED
      BY <1>1, <1>11, <2>1, <3>1, <3>2 DEF ReachAt
  <2>2. CASE i \notin DOMAIN elements
    <3>1. i - len \in DOMAIN more /\ elements'[i] = more[i - len]
      BY <1>5, <2>2
    <3>2. elements'[i].node = next /\ elements'[i].type # "image"
      BY <1>6, <3>1
    <3>3. CASE elements'[i].type = "arrow"
      <4>1. plan.do = "arrow"
        BY <1>7, <3>1, <3>3
      <4>2. elements'[i].node + 1 \in DOMAIN doc'.nodes
        BY <1>1, <1>12, <3>2, <4>1
      <4>3. QED
        BY <1>1, <1>2, <3>2, <3>3, <4>1, <4>2 DEF ReachAt
    <3>4. CASE elements'[i].type # "arrow"
      <4>1. Reach(elements[i])' = next + 1
        BY <3>2, <3>4 DEF Reach
      <4>2. QED
        BY <1>1, <1>2, <3>4, <4>1 DEF ReachAt
    <3>5. QED
      BY <3>3, <3>4
  <2>3. QED
    BY <2>1, <2>2
<1>14. ASSUME NEW i \in DOMAIN elements', NEW j \in DOMAIN elements', i < j PROVE ApartAt(i, j)'
  <2>1. CASE j \in DOMAIN elements
    <3>1. i \in DOMAIN elements
      <4>1. i \in Nat \ {0} /\ j \in 1 .. len /\ len \in Nat
        BY <1>5, <2>1
      <4>2. QED
        BY <1>5, <1>14, <4>1
    <3>2. elements'[i] = elements[i] /\ elements'[j] = elements[j] /\ ApartAt(i, j)
      BY <1>5, <1>14, <2>1, <3>1 DEF SpanInv
    <3>3. Reach(elements[i])' = Reach(elements[i]) /\ Paint(elements[i].node)' = Paint(elements[i].node)
      BY <1>10, <3>2 DEF Reach
    <3>4. QED
      BY <3>2, <3>3 DEF ApartAt, PaintsPart
  <2>2. CASE j \notin DOMAIN elements /\ i \in DOMAIN elements
    <3>1. elements'[i] = elements[i] /\ Reach(elements[i])' = Reach(elements[i])
      <4>1. elements'[i] = elements[i]
        BY <1>5, <2>2
      <4>2. QED
        BY <1>10, <4>1 DEF Reach
    <3>2. elements'[j].node = next
      BY <1>5, <1>6, <2>2
    <3>3. QED
      BY <1>11, <2>2, <3>1, <3>2 DEF ApartAt
  <2>3. CASE j \notin DOMAIN elements /\ i \notin DOMAIN elements
    <3>1. /\ i - len \in DOMAIN more /\ elements'[i] = more[i - len]
          /\ j - len \in DOMAIN more /\ elements'[j] = more[j - len]
      BY <1>5, <2>3
    <3>2. i - len # j - len
      <4>1. i \in Nat /\ j \in Nat /\ len \in Nat
        BY <1>5
      <4>2. QED
        BY <1>14, <4>1
    <3>3. plan.do # "arrow"
      BY <1>8, <3>1, <3>2
    <3>4. ASSUME NEW paint \in Paint(next)
          PROVE  ~(PaintsPart(elements'[i], paint) /\ PaintsPart(elements'[j], paint))
      <4>1. /\ PaintsPart(elements'[i], paint) => PaintsPart(plan.drawn[i - len], paint)
            /\ PaintsPart(elements'[j], paint) => PaintsPart(plan.drawn[j - len], paint)
        BY <1>6, <3>1 DEF PaintsPart
      <4>2. QED
        BY <1>4, <1>9, <3>1, <3>2, <4>1 DEF DrawnOnce
    <3>5. /\ elements'[i].node = next /\ elements'[j].node = next
          /\ elements'[i].type \notin {"image", "arrow"} /\ elements'[j].type \notin {"image", "arrow"}
      BY <1>6, <1>7, <3>1, <3>3
    <3>6. Paint(elements[i].node)' = Paint(next)
      BY <1>10, <3>5
    <3>7. QED
      BY <3>4, <3>5, <3>6 DEF ApartAt, PaintsPart
  <2>4. QED
    BY <2>1, <2>2, <2>3
<1>15. PendingInv'
  <2> SUFFICES ASSUME promoted' PROVE
        /\ InGroup' /\ MarkerArtwork(next)' /\ Node(next)'.native
        /\ \E i \in DOMAIN elements' : elements'[i].type = "arrow" /\ elements'[i].node + 1 = next'
    BY DEF PendingInv
  <2>1. plan.do = "arrow"
    OBVIOUS
  <2>2. elements'[len + 1].type = "arrow" /\ len + 1 \in DOMAIN elements'
        /\ elements'[len + 1].node = next
    BY <1>5, <1>6, <1>8, <2>1
  <2>3. next' = next + 1 /\ next' - 1 = next
    BY <1>1, <1>2
  <2>4. InGroup'
    BY <1>1, <1>2, <1>10, <1>12, <2>1, <2>3 DEF InGroup, End
  <2>5. Node(next)' = Node(next + 1)
    BY <1>1, <2>3 DEF Node
  <2>6. Meta(next - 1)' = Meta(next)
    BY <1>1, <2>3 DEF Meta, Known, Anchored, Node
  <2>7. MarkerArtwork(next)'
    <3>1. Anonymous(next)'
      BY <1>1, <1>12, <2>1, <2>5 DEF Anonymous
    <3>2. QED
      BY <1>12, <2>1, <2>5, <2>6, <3>1 DEF MarkerArtwork
  <2>8. QED
    BY <1>12, <2>1, <2>2, <2>3, <2>4, <2>5, <2>7
<1>16. QED
  BY <1>13, <1>14, <1>15 DEF SpanInv

\* An embedded picture, as an element.
LEMMA SpanEmbed ==
  ASSUME LowerInv, ElementInv, SpanInv, promoted = FALSE, promoted' = FALSE, InGroup,
         UNCHANGED doc, next' = End(next), NEW plan, Pictured(next, plan)
  PROVE  SpanInv'
<1> DEFINE e == ImageElement(next)
           len == Len(elements)
<1>1. elements' = Append(elements, e) /\ elements \in Seq(ToSet(elements)) /\ doc \in Documents
  BY DEF Pictured, LowerInv
<1>2. next \in DOMAIN doc.nodes /\ next \in Nat /\ next < End(next) /\ End(next) \in Nat
  BY AtNext DEF LowerInv
<1>3. e.type = "image" /\ e.node = next
  BY DEF ImageElement
<1> HIDE DEF e
<1>4. /\ DOMAIN elements = 1 .. len /\ len \in Nat /\ DOMAIN elements' = 1 .. len + 1
      /\ \A i \in 1 .. len : elements'[i] = elements[i] /\ i \in 1 .. len + 1
      /\ elements'[len + 1] = e /\ len + 1 \in 1 .. len + 1
  <2> DEFINE A == ToSet(elements)
  <2> HIDE DEF A
  <2>1. elements \in Seq(A)
    BY <1>1 DEF A
  <2>2. QED
    BY <1>1, <2>1
<1> HIDE DEF len
<1>5. \A n : End(n)' = End(n) /\ Paint(n)' = Paint(n)
  BY SameDocument
<1>6. ASSUME NEW i \in DOMAIN elements
      PROVE  /\ Reach(elements[i]) \in Nat /\ Reach(elements[i]) <= next
             /\ (elements[i].type = "arrow" => elements[i].node + 1 \in DOMAIN doc.nodes)
             /\ elements'[i] = elements[i] /\ Reach(elements[i])' = Reach(elements[i])
             /\ Paint(elements[i].node)' = Paint(elements[i].node)
  <2>1. ReachAt(i) /\ Made(doc, elements[i], next)
    BY DEF SpanInv, ElementInv
  <2>2. elements'[i] = elements[i]
    BY <1>4
  <2>3. Reach(elements[i])' = Reach(elements[i]) /\ Paint(elements[i].node)' = Paint(elements[i].node)
    BY <1>5, <2>2 DEF Reach
  <2>4. QED
    BY <1>1, <2>1, <2>2, <2>3, ReachTyped DEF ReachAt
<1>7. ASSUME NEW i \in DOMAIN elements' PROVE ReachAt(i)'
  <2>1. CASE i \in DOMAIN elements
    <3>1. Reach(elements[i]) <= next'
      BY <1>2, <1>6, <2>1
    <3>2. QED
      BY <1>6, <2>1, <3>1 DEF ReachAt
  <2>2. CASE i = len + 1
    <3>1. Reach(elements[i])' = End(next)
      BY <1>3, <1>4, <1>5, <2>2 DEF Reach
    <3>2. elements'[i].type = "image"
      BY <1>3, <1>4, <2>2
    <3>3. QED
      BY <1>2, <3>1, <3>2 DEF ReachAt
  <2>3. QED
    BY <1>4, <2>1, <2>2
<1>8. ASSUME NEW i \in DOMAIN elements', NEW j \in DOMAIN elements', i < j PROVE ApartAt(i, j)'
  <2>1. i \in DOMAIN elements
    BY <1>4, <1>8
  <2>2. CASE j \in DOMAIN elements
    <3>1. ApartAt(i, j)
      BY <1>8, <2>1, <2>2 DEF SpanInv
    <3>2. QED
      BY <1>6, <2>1, <2>2, <3>1 DEF ApartAt, PaintsPart
  <2>3. CASE j = len + 1
    <3>1. elements'[j].node = next
      BY <1>3, <1>4, <2>3
    <3>2. QED
      BY <1>6, <2>1, <3>1 DEF ApartAt
  <2>4. QED
    BY <1>4, <2>2, <2>3
<1>9. PendingInv'
  BY DEF PendingInv
<1>10. QED
  BY <1>7, <1>8, <1>9 DEF SpanInv

LEMMA SpanKept ==
  ASSUME LowerInv, ElementInv, SpanInv, [Next]_vars
  PROVE  SpanInv'
<1>1. next \in Nat /\ next >= next /\ promoted \in BOOLEAN /\ doc \in Documents
  BY DEF LowerInv, CountInv, TypeOK
<1>2. PendingInv
  BY DEF SpanInv
<1>3. promoted' = FALSE => PendingInv'
  BY DEF PendingInv
<1>4. CASE UNCHANGED <<input, walkVars, outputVars, result>> \/ NoticeCancel
  BY <1>4, SpanStill DEF NoticeCancel, input, walkVars, outputVars
<1>5. CASE SkipArtwork
  <2>1. UNCHANGED <<doc, elements>> /\ next' = End(next) /\ InGroup /\ promoted' = FALSE
    BY <1>5 DEF SkipArtwork, AtChild, input, outputVars, End
  <2>2. next < End(next) /\ End(next) \in Nat
    BY <2>1, AtNext DEF LowerInv
  <2>3. next' >= next /\ next' \in Nat
    BY <1>1, <2>1, <2>2
  <2>4. QED
    BY <1>3, <2>1, <2>3, SameElements, SpanLater
<1>6. CASE EnterGroup
  <2>1. UNCHANGED <<doc, elements>> /\ next' = next + 1 /\ promoted' = FALSE
        /\ ~MarkerArtwork(next) /\ result = "none"
    BY <1>6 DEF EnterGroup, Selected, AtChild, input
  <2>2. promoted = FALSE
    BY <1>1, <1>2, <2>1, NotPending
  <2>3. next' >= next /\ next' \in Nat
    BY <1>1, <2>1
  <2>4. QED
    BY <1>3, <2>1, <2>2, <2>3, SameElements, SpanLater
<1>7. CASE LeaveGroup
  <2>1. UNCHANGED <<doc, elements, next>> /\ promoted' = FALSE /\ ~InGroup /\ result = "none"
    BY <1>7 DEF LeaveGroup, input, outputVars
  <2>2. promoted = FALSE
    BY <1>1, <1>2, <2>1, NotPending
  <2>3. QED
    BY <1>1, <1>3, <2>1, <2>2, SameElements, SpanLater
<1>8. CASE Finish
  <2>1. UNCHANGED <<doc, next, promoted>> /\ elements' = FinalElements /\ frames = <<>>
        /\ result = "none"
    BY <1>8 DEF Finish, input, walkVars
  <2>2. promoted = FALSE
    BY <1>1, <1>2, <2>1, NotPending DEF InGroup
  <2>3. QED
    BY <1>1, <1>3, <2>1, <2>2, FinalFields, SpanLater
<1>9. ASSUME NEW plan, NEW isPromoted, DecidedStep(plan, isPromoted) PROVE SpanInv'
  <2>1. UNCHANGED doc /\ next' = End(next) /\ InGroup /\ result = "none" /\ ~MarkerArtwork(next)
        /\ promoted' \in BOOLEAN
    BY <1>9 DEF DecidedStep, Pass, AtChild, input, End
  <2>2. promoted = FALSE
    BY <1>1, <1>2, <2>1, NotPending
  <2>3. next < End(next) /\ End(next) \in Nat
    BY <2>1, AtNext DEF LowerInv
  <2>4. next' >= next /\ next' \in Nat
    BY <1>1, <2>1, <2>3
  <2>5. CASE Quiet /\ ~(promoted' /\ result' = "none")
    <3>1. PendingInv' /\ UNCHANGED elements
      BY <2>5 DEF PendingInv, Quiet
    <3>2. QED
      BY <2>1, <2>2, <2>4, <3>1, SameElements, SpanLater
  <2>6. CASE Emitted(next, plan) /\ (promoted' <=> plan.do = "arrow")
    BY <1>9, <2>2, <2>6, SpanDraw
  <2>7. CASE Pictured(next, plan) /\ ~promoted'
    BY <2>1, <2>2, <2>7, SpanEmbed
  <2>8. QED
    BY <1>9, <2>5, <2>6, <2>7, DecidedPromotes
<1>10. QED
  BY <1>4, <1>5, <1>6, <1>7, <1>8, <1>9, StepCases

\* No part of a node is painted twice, and elements stand in paint order.
THEOREM EverythingPaintedOnce == Spec => []PaintedOnce
<1>1. Init => ElementInv /\ SpanInv
  <2> SUFFICES ASSUME Init PROVE ElementInv /\ SpanInv
    OBVIOUS
  <2>1. elements = <<>> /\ promoted = FALSE
    BY DEF Init
  <2>2. DOMAIN elements = {}
    BY <2>1
  <2>3. QED
    BY <2>1, <2>2 DEF ElementInv, SpanInv, PendingInv
<1>2. LowerInv /\ ElementInv /\ SpanInv /\ [Next]_vars => ElementInv' /\ SpanInv'
  BY ElementsKept, SpanKept
<1>3. LowerInv /\ ElementInv /\ SpanInv => PaintedOnce
  BY PaintedApart
<1>4. QED
  BY <1>1, <1>2, <1>3, WalkInvariant, PTL DEF Spec

-----------------------------------------------------------------------------
(* Keeping what is painted, and being exact                                *)

\* The documents have nothing that the converter drops unseen.
AllCarried == \A d \in Documents : \A n \in DOMAIN d.nodes : Carried(d.nodes[n])

Covered(n) == \A paint \in Paint(n) : \E i \in DOMAIN elements :
                Paints(elements[i], n, paint) \/ HeadsFor(elements[i], n)
Headed(n)  == \E i \in DOMAIN elements : HeadsFor(elements[i], n)
Settled(n) == AllCarried => /\ Seen(n) => Covered(n)
                            /\ profile = "strict" => Exact(n) \/ Headed(n)

\* The nodes the walk has passed are settled, unless a strict conversion is
\* going to fail; all nodes of a document that is returned are.
SettledInv ==
  /\ result = "none" => Violates(diagnostics) \/ \A n \in 1 .. next - 1 : Settled(n)
  /\ result = "Ok" => ~Violates(doc.notes) /\ \A n \in DOMAIN doc.nodes : Settled(n)
  /\ result = "none" /\ Violates(doc.notes) => Violates(diagnostics)

Grows == /\ DOMAIN elements \subseteq DOMAIN elements'
         /\ \A i \in DOMAIN elements : SameFields(elements[i], elements'[i])

LEMMA SettledLater ==
  ASSUME UNCHANGED <<doc, profile>>, Grows
  PROVE  \A n : /\ Settled(n) => Settled(n)'
                /\ Seen(n)' = Seen(n) /\ Exact(n)' = Exact(n)
<1>1. \A n : Node(n)' = Node(n) /\ Paint(n)' = Paint(n)
  BY SameDocument
<1>2. \A g, n : Below(g, n)' = Below(g, n)
  BY <1>1 DEF Below
<1>3. \A n : Seen(n)' = Seen(n) /\ Exact(n)' = Exact(n)
  BY <1>1, <1>2 DEF Seen, Exact
<1>4. ASSUME NEW i \in DOMAIN elements, NEW n
      PROVE  /\ HeadsFor(elements[i], n) => HeadsFor(elements'[i], n)
             /\ \A paint : Paints(elements[i], n, paint) => Paints(elements'[i], n, paint)
  <2>1. SameFields(elements[i], elements'[i])
    BY DEF Grows
  <2>2. QED
    BY <2>1 DEF SameFields, HeadsFor, Paints
<1>5. ASSUME NEW i \in DOMAIN elements, NEW n
      PROVE  /\ HeadsFor(elements[i], n) => HeadsFor(elements[i], n)'
             /\ \A paint : Paints(elements[i], n, paint) => Paints(elements[i], n, paint)'
  <2>1. /\ HeadsFor(elements'[i], n) => HeadsFor(elements[i], n)'
        /\ \A paint : Paints(elements'[i], n, paint) => Paints(elements[i], n, paint)'
    BY DEF HeadsFor, Paints, Below, Node
  <2>2. QED
    BY <1>4, <2>1
<1>6. \A n : (Covered(n) => Covered(n)') /\ (Headed(n) => Headed(n)')
  BY <1>1, <1>5 DEF Covered, Headed, Grows
<1>7. QED
  BY <1>3, <1>6 DEF Settled

\* A report that fails the strict profile goes on failing it.
LEMMA ViolatesMore ==
  ASSUME NEW notes \in Seq(Notes), NEW more \in Seq(Notes), Violates(notes) \/ Violates(more)
  PROVE  Violates(notes \o more)
<1>1. /\ \A i \in DOMAIN notes : (notes \o more)[i] = notes[i] /\ i \in DOMAIN (notes \o more)
      /\ \A i \in DOMAIN more : (notes \o more)[Len(notes) + i] = more[i]
                                /\ Len(notes) + i \in DOMAIN (notes \o more)
  BY ConcatParts
<1>2. QED
  BY <1>1 DEF Violates

LEMMA SplitRange ==
  ASSUME NEW a \in Nat, NEW b \in Nat, NEW n \in 1 .. b - 1
  PROVE  n \in 1 .. a - 1 \/ n \in a .. b - 1
OBVIOUS

\* A step that passes the nodes before next' settles them.
LEMMA SettledBy ==
  ASSUME LowerInv, SettledInv, result = "none", UNCHANGED <<doc, profile>>, Grows,
         Violates(diagnostics) => Violates(diagnostics)',
         next' \in Nat, result' # "Ok",
         result' = "none" => \/ Violates(diagnostics)'
                             \/ \A n \in next .. next' - 1 : Settled(n)'
  PROVE  SettledInv'
<1>1. next \in Nat
  BY DEF LowerInv, CountInv
<1>2. \A n : Settled(n) => Settled(n)'
  BY SettledLater
<1>3. ASSUME result' = "none", ~Violates(diagnostics)', NEW n \in 1 .. next' - 1
      PROVE  Settled(n)'
  <2>1. CASE n \in 1 .. next - 1
    BY <1>2, <1>3, <2>1 DEF SettledInv
  <2>2. CASE n \in next .. next' - 1
    BY <1>3, <2>2
  <2>3. n \in 1 .. next - 1 \/ n \in next .. next' - 1
    BY <1>1, <1>3, SplitRange
  <2>4. QED
    BY <2>1, <2>2, <2>3
<1>4. Violates(doc.notes)' <=> Violates(doc.notes)
  BY DEF Violates
<1>5. QED
  BY <1>3, <1>4 DEF SettledInv

\* The elements of the next state paint all of node n.
CoveredLater(n) == \A paint \in Paint(n) : \E i \in DOMAIN elements' :
                     Paints(elements'[i], n, paint)

LEMMA SettledNow ==
  ASSUME UNCHANGED <<doc, profile>>, Grows, NEW n,
         AllCarried => CoveredLater(n) /\ (profile = "strict" => Exact(n))
  PROVE  Settled(n)'
<1>1. Paint(n)' = Paint(n)
  BY SameDocument
<1>2. \A i, paint : Paints(elements'[i], n, paint) => Paints(elements[i], n, paint)'
  BY DEF Paints, Below, Node
<1>3. AllCarried => Covered(n)'
  BY <1>1, <1>2 DEF Covered, CoveredLater
<1>4. AllCarried /\ profile' = "strict" => Exact(n)'
  BY SettledLater
<1>5. QED
  BY <1>3, <1>4 DEF Settled, AllCarried

LEMMA SameGrows ==
  ASSUME UNCHANGED elements
  PROVE  Grows
BY DEF Grows, SameFields

LEMMA AddsGrow ==
  ASSUME LowerInv, NEW more, Adds(more)
  PROVE  /\ Grows
         /\ \A i \in DOMAIN more : /\ Len(elements) + i \in DOMAIN elements'
                                   /\ elements'[Len(elements) + i] = more[i]
<1>1. /\ elements \in Seq(ToSet(elements)) /\ more \in Seq(ToSet(more))
      /\ elements' = elements \o more
  BY DEF LowerInv, Adds
<1>2. /\ \A i \in DOMAIN elements : elements'[i] = elements[i] /\ i \in DOMAIN elements'
      /\ \A i \in DOMAIN more : elements'[Len(elements) + i] = more[i]
                                /\ Len(elements) + i \in DOMAIN elements'
  BY <1>1, JoinParts
<1>3. QED
  BY <1>2 DEF Grows, SameFields

LEMMA PaintIsPart ==
  ASSUME NEW n, PaintNode(Node(n)), NEW paint \in Paint(n)
  PROVE  paint[1] \in PictureParts
<1> DEFINE p == Node(n)
<1>1. CASE p.kind = "path"
  <2>1. Paint(n) \in {PathPaint(p), {}}
    BY <1>1 DEF Paint
  <2>2. paint \in PathPaint(p)
    BY <2>1
  <2>3. QED
    BY <2>2 DEF PathPaint, PictureParts
<1>2. CASE p.kind = "text"
  <2>1. Paint(n) \in {{<<part, 0>> : part \in TextParts(p)}, {}}
    BY <1>2 DEF Paint
  <2>2. PICK part \in TextParts(p) : paint = <<part, 0>>
    BY <2>1
  <2>3. QED
    BY <2>2 DEF TextParts, Parts, PictureParts
<1>3. CASE p.kind = "image"
  <2>1. Paint(n) = {<<"fill", 0>>}
    BY <1>3 DEF Paint
  <2>2. QED
    BY <2>1 DEF PictureParts
<1>4. CASE p.kind = "group"
  BY <1>4 DEF Paint
<1>5. QED
  BY <1>1, <1>2, <1>3, <1>4 DEF PaintNode

\* A node without a subtree is passed alone.
LEMMA PassesOne ==
  ASSUME doc \in Documents, next \in DOMAIN doc.nodes, next' = End(next), Node(next).kind # "group"
  PROVE  \A n \in next .. next' - 1 : n = next
<1>1. End(next) = next + 1 /\ next \in Nat
  BY NodeFacts
<1>2. QED
  BY <1>1

LEMMA SettledSkip ==
  ASSUME LowerInv, SpanInv, SettledInv, SkipArtwork
  PROVE  SettledInv'
<1>1. /\ UNCHANGED <<doc, profile, elements, diagnostics, result>> /\ next' = End(next) /\ InGroup
      /\ MarkerArtwork(next) /\ result = "none"
  BY DEF SkipArtwork, AtChild, input, outputVars, End
<1>2. /\ next \in DOMAIN doc.nodes /\ next \in Nat /\ End(next) \in Nat /\ doc \in Documents
  BY <1>1, AtNext DEF LowerInv
<1>3. Node(next).kind = "group" /\ Node(next).native
  BY <1>1 DEF MarkerArtwork, SpanInv, PendingInv
<1>4. PICK i \in DOMAIN elements : elements[i].type = "arrow" /\ elements[i].node + 1 = next
  BY <1>1 DEF MarkerArtwork, SpanInv, PendingInv
<1>5. Node(next).effect = "none"
  BY <1>2, <1>3, NodeFacts DEF PaintNode
<1>6. ASSUME NEW n \in next .. next' - 1 PROVE Settled(n)
  <2>1. CASE n = next
    <3>1. Paint(next) = {} /\ Exact(next)
      BY <1>3, <1>5 DEF Paint, Exact
    <3>2. QED
      BY <2>1, <3>1 DEF Settled, Covered
  <2>2. CASE n # next
    <3>1. n \in Nat /\ next < n /\ n < End(next)
      BY <1>1, <1>2, <2>2
    <3>2. HeadsFor(elements[i], n)
      BY <1>3, <1>4, <3>1 DEF HeadsFor, Below, End
    <3>3. QED
      BY <3>2 DEF Settled, Covered, Headed
  <2>3. QED
    BY <2>1, <2>2
<1>7. Grows
  BY <1>1, SameGrows
<1>8. \A n \in next .. next' - 1 : Settled(n)'
  BY <1>1, <1>6, <1>7, SettledLater
<1>9. Violates(diagnostics)' = Violates(diagnostics)
  BY <1>1 DEF Violates
<1>10. QED
  BY <1>1, <1>2, <1>7, <1>8, <1>9, SettledBy

LEMMA SettledEnter ==
  ASSUME LowerInv, SettledInv, EnterGroup
  PROVE  SettledInv'
<1> DEFINE added == IF Node(next).effect = "none" THEN <<>>
                    ELSE <<Note("filter-omitted", "omission", next)>>
<1>1. /\ UNCHANGED <<doc, profile, elements, result>> /\ next' = next + 1 /\ result = "none"
      /\ Node(next).kind = "group" /\ diagnostics' = diagnostics \o added /\ InGroup
      /\ Node(next).effect = "none" \/ ShadowOmittable(next)
  BY DEF EnterGroup, Selected, AtChild, input
<1>2. next \in Nat
  BY DEF LowerInv, CountInv
<1>3. Paint(next) = {} /\ (profile = "strict" => Exact(next))
  BY <1>1 DEF Paint, Exact, ShadowOmittable
<1>4. Settled(next)
  BY <1>3 DEF Settled, Covered
<1>5. Grows
  BY <1>1, SameGrows
<1>6. \A n \in next .. next' - 1 : Settled(n)'
  BY <1>1, <1>2, <1>4, <1>5, SettledLater
<1>7. Violates(diagnostics) => Violates(diagnostics)'
  <2>1. diagnostics \in Seq(Notes) /\ added \in Seq(Notes)
    BY <1>2, NoteTyped, NothingDrawn DEF NoteCodes, LowerInv
  <2> HIDE DEF added
  <2>2. Violates(diagnostics) => Violates(diagnostics \o added)
    BY <2>1, ViolatesMore
  <2>3. Violates(diagnostics \o added) => Violates(diagnostics)'
    BY <1>1 DEF Violates
  <2>4. QED
    BY <2>2, <2>3
<1>8. QED
  BY <1>1, <1>2, <1>5, <1>6, <1>7, SettledBy

\* The report of a decision is appended to those before it.
LEMMA DecidedReports ==
  ASSUME LowerInv, NEW plan, NEW isPromoted, DecidedStep(plan, isPromoted)
  PROVE  /\ Violates(diagnostics) => Violates(diagnostics)'
         /\ Reported(next, plan) => Violates(diagnostics)'
<1> DEFINE notes == plan.notes
           told == <<Note(plan.code, "fallback", next)>>
<1>1. /\ PlanFor(next, plan) /\ Perform(next, plan) /\ TypeOK /\ elements \in Seq(ToSet(elements))
      /\ diagnostics \in Seq(Notes) /\ UNCHANGED profile
  BY DEF DecidedStep, LowerInv, Pass, input
<1>2. next \in DOMAIN doc.nodes /\ next \in Nat
  BY AtNext DEF LowerInv, DecidedStep, AtChild
<1>3. PaintNode(Node(next))
  BY <1>2, NodeFacts DEF LowerInv
<1>4. notes \in Seq(Notes) /\ (plan.do = "fallback" => plan.code \in FallbackCodes)
      /\ (plan.do = "embed" => plan.code = "")
  BY <1>1 DEF PlanFor, Plans
<1>5. plan.code \in FallbackCodes => told \in Seq(Notes)
  BY <1>2, NoteTyped DEF NoteCodes
<1>6. diagnostics \o notes \in Seq(Notes) /\ (Violates(diagnostics) => Violates(diagnostics \o notes))
  BY <1>1, <1>4, ViolatesMore, ConcatParts
<1>7. plan.code \in FallbackCodes =>
        (Violates(diagnostics) \/ profile = "strict" => Violates(diagnostics \o notes \o told))
  <2> SUFFICES ASSUME plan.code \in FallbackCodes, Violates(diagnostics) \/ profile = "strict"
               PROVE  Violates(diagnostics \o notes \o told)
    OBVIOUS
  <2>1. told \in Seq(Notes)
    BY <1>5
  <2>2. profile = "strict" => Violates(told)
    <3>1. Note(plan.code, "fallback", next) \in {Note(plan.code, "fallback", next)}
      OBVIOUS
    <3>2. told[1] = Note(plan.code, "fallback", next) /\ DOMAIN told = 1 .. 1
      BY <3>1, OneRole
    <3> HIDE DEF told
    <3>3. 1 \in DOMAIN told /\ told[1].severity = "fallback"
      BY <3>2 DEF Note
    <3>4. QED
      BY <3>3 DEF Violates
  <2> HIDE DEF told, notes
  <2>3. QED
    BY <1>6, <2>1, <2>2, ViolatesMore
<1>8. Aborted \/ Emitted(next, plan) \/ Pictured(next, plan) \/ Reported(next, plan) \/ Skipped(next, plan)
  BY <1>1, <1>3, Outcomes
<1>9. diagnostics' \in {diagnostics, diagnostics \o notes}
      \/ (plan.code \in FallbackCodes /\ diagnostics' = diagnostics \o notes \o told)
  <2>1. CASE Aborted
    BY <2>1 DEF Aborted, outputVars
  <2>2. CASE Emitted(next, plan)
    BY <2>2 DEF Emitted, Record
  <2>3. CASE Skipped(next, plan)
    BY <2>3 DEF Skipped, Skip, Record
  <2>4. CASE Reported(next, plan)
    BY <1>4, <2>4 DEF Reported, Report
  <2>5. CASE Pictured(next, plan)
    <3>1. CASE plan.code = ""
      <4>1. diagnostics' = diagnostics \o notes \o <<>>
        BY <2>5, <3>1 DEF Pictured
      <4>2. QED
        BY <1>6, <4>1
    <3>2. CASE plan.code # ""
      <4>1. plan.do = "fallback"
        BY <1>4, <2>5, <3>2 DEF Pictured
      <4>2. QED
        BY <1>4, <2>5, <3>2, <4>1 DEF Pictured
    <3>3. QED
      BY <3>1, <3>2
  <2>6. QED
    BY <1>8, <2>1, <2>2, <2>3, <2>4, <2>5
<1>10. \A s : diagnostics' = s /\ Violates(s) => Violates(diagnostics)'
  BY <1>1 DEF Violates
<1>11. Reported(next, plan) => /\ diagnostics' = diagnostics \o notes \o told
                               /\ plan.code \in FallbackCodes /\ profile = "strict"
  BY <1>4 DEF Reported, Report
<1> HIDE DEF notes, told
<1>12. QED
  BY <1>6, <1>7, <1>9, <1>10, <1>11

\* What a decision does to the node settles it and all nodes below it.
LEMMA SettledDecide ==
  ASSUME LowerInv, ElementInv, SettledInv, NEW plan, NEW isPromoted, DecidedStep(plan, isPromoted)
  PROVE  SettledInv'
<1>1. /\ PlanFor(next, plan) /\ Perform(next, plan) /\ TypeOK /\ elements \in Seq(ToSet(elements))
      /\ UNCHANGED <<doc, profile>> /\ next' = End(next) /\ InGroup /\ result = "none"
      /\ Node(next).kind = "group" => plan.do = "fallback" /\ Node(next).effect # "none"
      /\ doc \in Documents
  BY DEF DecidedStep, LowerInv, Pass, AtChild, input, End
<1>2. next \in DOMAIN doc.nodes /\ next \in Nat /\ End(next) \in Nat
  BY <1>1, AtNext DEF LowerInv
<1>3. PaintNode(Node(next)) /\ (AllCarried => Carried(Node(next)))
  BY <1>1, <1>2, NodeFacts DEF AllCarried, Node
<1>4. /\ Violates(diagnostics) => Violates(diagnostics)'
      /\ Reported(next, plan) => Violates(diagnostics)'
  BY DecidedReports
<1>5. plan.do # "fallback" => \A n \in next .. next' - 1 : n = next
  BY <1>1, <1>2, PassesOne
<1>6. AllCarried /\ profile = "strict" /\ plan.do \notin {"fail", "fallback"} => Exact(next)
  BY <1>1, <1>3 DEF PlanFor, StrictlyExact
<1>7. \A n \in next .. next' - 1 : n = next \/ (Below(next, n) /\ n \in Nat)
  BY <1>1, <1>2 DEF Below, End
<1>8. Aborted \/ Emitted(next, plan) \/ Pictured(next, plan) \/ Reported(next, plan) \/ Skipped(next, plan)
  BY <1>1, <1>3, Outcomes
<1>9. CASE Aborted
  <2>1. UNCHANGED elements /\ result' # "none" /\ result' # "Ok"
    BY <1>9 DEF Aborted, outputVars, Failures
  <2>2. QED
    BY <1>1, <1>2, <1>4, <2>1, SameGrows, SettledBy
<1>10. CASE Reported(next, plan)
  <2>1. UNCHANGED <<elements, result>>
    BY <1>10 DEF Reported, Report
  <2>2. QED
    BY <1>1, <1>2, <1>4, <1>10, <2>1, SameGrows, SettledBy
<1>11. CASE Skipped(next, plan)
  <2>1. UNCHANGED <<elements, result>>
    BY <1>11 DEF Skipped, Skip
  <2>2. ASSUME NEW n \in next .. next' - 1 PROVE Settled(n)
    <3>1. CASE plan.do = "omit"
      <4>1. n = next /\ Paint(n) = {} /\ (AllCarried /\ profile = "strict" => Exact(n))
        BY <1>1, <1>5, <1>6, <3>1 DEF PlanFor
      <4>2. QED
        BY <4>1 DEF Settled, Covered
    <3>2. CASE plan.do = "fallback" /\ profile # "strict" /\ ~Node(next).shown
      <4>1. ~Seen(n)
        <5>1. CASE n = next
          BY <3>2, <5>1 DEF Seen
        <5>2. CASE n # next
          <6>1. Below(next, n) /\ n \in Nat /\ next \in 1 .. n - 1
            <7>1. Below(next, n) /\ n \in Nat
              BY <1>7, <5>2
            <7>2. next < n /\ next # 0
              BY <1>1, <1>2, <7>1, NodeFacts DEF Below
            <7>3. QED
              BY <1>2, <7>1, <7>2
          <6>2. Node(next).effect # "none"
            <7>1. Node(next).kind = "group"
              BY <1>1, <1>2, <5>2, PassesOne
            <7>2. QED
              BY <1>1, <7>1
          <6>3. QED
            BY <3>2, <6>1, <6>2 DEF Seen
        <5>3. QED
          BY <5>1, <5>2
      <4>2. QED
        BY <3>2, <4>1 DEF Settled
    <3>3. QED
      BY <1>11, <3>1, <3>2 DEF Skipped
  <2>3. \A n \in next .. next' - 1 : Settled(n)'
    BY <1>1, <2>1, <2>2, SameGrows, SettledLater
  <2>4. QED
    BY <1>1, <1>2, <1>4, <2>1, <2>3, SameGrows, SettledBy
<1>12. CASE Emitted(next, plan)
  <2> DEFINE more == Emission(next, plan)
  <2>1. plan.drawn \in Seq(Drawings) /\ (AllCarried => DrawnAll(next, plan.drawn))
    BY <1>1, <1>3, <1>12 DEF PlanFor, Plans, Emitted
  <2>2. Adds(more) /\ UNCHANGED result
    BY <1>12, Emits DEF Emitted
  <2>3. Grows /\ \A i \in DOMAIN more : Len(elements) + i \in DOMAIN elements'
                                        /\ elements'[Len(elements) + i] = more[i]
    BY <2>2, AddsGrow
  <2>4. \A i \in DOMAIN plan.drawn :
          /\ more[i].node = next /\ more[i].parts = plan.drawn[i].parts
          /\ more[i].piece = plan.drawn[i].piece /\ i \in DOMAIN more
    BY <2>1, EmissionOf, EmissionFresh DEF Fresh
  <2> HIDE DEF more
  <2>5. AllCarried => CoveredLater(next)
    <3> SUFFICES ASSUME AllCarried, NEW paint \in Paint(next)
                 PROVE  \E i \in DOMAIN elements' : Paints(elements'[i], next, paint)
      BY DEF CoveredLater
    <3>1. PICK i \in DOMAIN plan.drawn : PaintsPart(plan.drawn[i], paint)
      BY <2>1 DEF DrawnAll
    <3>2. Paints(more[i], next, paint)
      BY <2>4, <3>1 DEF Paints, PaintsPart
    <3>3. QED
      BY <2>3, <2>4, <3>2
  <2>6. AllCarried /\ profile = "strict" => Exact(next)
    BY <1>6, <1>12 DEF Emitted
  <2>7. \A n \in next .. next' - 1 : n = next
    BY <1>5, <1>12 DEF Emitted
  <2>8. \A n \in next .. next' - 1 : Settled(n)'
    BY <1>1, <2>3, <2>5, <2>6, <2>7, SettledNow
  <2>9. QED
    BY <1>1, <1>2, <1>4, <2>2, <2>3, <2>8, SettledBy
<1>13. CASE Pictured(next, plan)
  <2> DEFINE more == <<ImageElement(next)>>
             e    == ImageElement(next)
             last == Len(elements) + 1
  <2>1. Adds(more) /\ UNCHANGED result
    BY <1>13, Pictures DEF Pictured
  <2>2. Grows /\ last \in DOMAIN elements' /\ elements'[last] = e
    <3>1. e \in {e}
      OBVIOUS
    <3>2. 1 \in DOMAIN more /\ more[1] = e
      BY <3>1, OneRole
    <3> HIDE DEF more, e
    <3>3. QED
      BY <2>1, <3>2, AddsGrow
  <2>3. e.type = "image" /\ e.node = next /\ e.parts = PictureParts /\ e.piece = 0
    BY PictureFresh DEF Fresh
  <2> HIDE DEF more, e, last
  <2>4. ASSUME NEW n \in next .. next' - 1 PROVE CoveredLater(n)
    <3> SUFFICES ASSUME NEW paint \in Paint(n) PROVE Paints(e, n, paint)
      BY <2>2 DEF CoveredLater
    <3>1. CASE n = next
      BY <1>3, <2>3, <3>1, PaintIsPart DEF Paints
    <3>2. CASE Below(next, n)
      BY <2>3, <3>2 DEF Paints
    <3>3. QED
      BY <1>7, <3>1, <3>2
  <2>5. profile = "strict" => plan.do = "embed"
    BY <1>13 DEF Pictured
  <2>6. ASSUME NEW n \in next .. next' - 1, AllCarried, profile = "strict" PROVE Exact(n)
    BY <1>5, <1>6, <2>5, <2>6
  <2>7. \A n \in next .. next' - 1 : Settled(n)'
    BY <1>1, <2>2, <2>4, <2>6, SettledNow
  <2>8. QED
    BY <1>1, <1>2, <1>4, <2>1, <2>2, <2>7, SettledBy
<1>14. QED
  BY <1>8, <1>9, <1>10, <1>11, <1>12, <1>13

LEMMA SettledStill ==
  ASSUME SettledInv, UNCHANGED <<doc, profile, elements, diagnostics, next>>,
         result' = result \/ result' \notin {"none", "Ok"}
  PROVE  SettledInv'
<1>1. \A n : Settled(n) => Settled(n)'
  BY SameGrows, SettledLater
<1>2. /\ Violates(diagnostics) => Violates(diagnostics)'
      /\ Violates(doc.notes)' <=> Violates(doc.notes)
  BY DEF Violates
<1>3. DOMAIN doc.nodes = DOMAIN (doc.nodes)'
  OBVIOUS
<1>4. 1 .. next - 1 = (1 .. next - 1)'
  OBVIOUS
<1>5. QED
  BY <1>1, <1>2, <1>3, <1>4 DEF SettledInv

LEMMA SettledFinish ==
  ASSUME LowerInv, ElementInv, SettledInv, Finish
  PROVE  SettledInv'
<1>1. /\ UNCHANGED <<doc, profile>> /\ elements' = FinalElements /\ frames = <<>>
      /\ result = "none" /\ result' # "none" /\ (result' = "Ok" => ~Violates(diagnostics))
  BY DEF Finish, input, walkVars
<1>2. Grows
  BY <1>1, FinalFields DEF Grows
<1>3. next = Len(doc.nodes) + 1 /\ Len(doc.nodes) \in Nat /\ DOMAIN doc.nodes = 1 .. Len(doc.nodes)
  BY <1>1, NodeFacts DEF LowerInv, WalkInv
<1>4. DOMAIN doc.nodes = 1 .. next - 1
  BY <1>3
<1>5. ASSUME result' = "Ok", NEW n \in DOMAIN doc'.nodes PROVE Settled(n)'
  <2>1. n \in 1 .. next - 1
    BY <1>1, <1>4, <1>5
  <2>2. Settled(n)
    BY <1>1, <1>5, <2>1 DEF SettledInv
  <2>3. QED
    BY <1>1, <1>2, <2>2, SettledLater
<1>6. result' = "Ok" => ~Violates(doc.notes)'
  <2>1. Violates(doc.notes)' <=> Violates(doc.notes)
    BY <1>1 DEF Violates
  <2>2. QED
    BY <1>1, <2>1 DEF SettledInv
<1>7. QED
  BY <1>1, <1>5, <1>6 DEF SettledInv

LEMMA SettledKept ==
  ASSUME LowerInv, ElementInv, SpanInv, SettledInv, [Next]_vars
  PROVE  SettledInv'
<1>1. CASE UNCHANGED <<input, walkVars, outputVars, result>>
  BY <1>1, SettledStill DEF input, walkVars, outputVars
<1>2. CASE NoticeCancel
  BY <1>2, SettledStill DEF NoticeCancel, input, walkVars, outputVars
<1>3. CASE SkipArtwork
  BY <1>3, SettledSkip
<1>4. CASE \E plan, isPromoted : DecidedStep(plan, isPromoted)
  BY <1>4, SettledDecide
<1>5. CASE EnterGroup
  BY <1>5, SettledEnter
<1>6. CASE LeaveGroup
  BY <1>6, SettledStill DEF LeaveGroup, input, outputVars
<1>7. CASE Finish
  BY <1>7, SettledFinish
<1>8. QED
  BY <1>1, <1>2, <1>3, <1>4, <1>5, <1>6, <1>7, StepCases

\* Every node that the walk has passed is painted, if it has to be, and exact
\* under the strict profile, unless the conversion is going to fail.
THEOREM SettledInvariant == Spec => [](LowerInv /\ ElementInv /\ SpanInv /\ SettledInv)
<1>1. Init => ElementInv /\ SpanInv /\ SettledInv
  <2> SUFFICES ASSUME Init PROVE ElementInv /\ SpanInv /\ SettledInv
    OBVIOUS
  <2>1. /\ elements = <<>> /\ promoted = FALSE /\ next = 2 /\ result = "none" /\ doc \in Documents
        /\ diagnostics = doc.notes
    BY DEF Init
  <2>2. DOMAIN elements = {}
    BY <2>1
  <2>3. ElementInv /\ SpanInv
    BY <2>1, <2>2 DEF ElementInv, SpanInv, PendingInv
  <2>4. Node(1).kind = "group" /\ Node(1).effect = "none"
    BY <2>1, NodeFacts
  <2>5. Paint(1) = {} /\ Exact(1)
    BY <2>4 DEF Paint, Exact
  <2>6. Settled(1)
    BY <2>5 DEF Settled, Covered
  <2>7. SettledInv
    BY <2>1, <2>6 DEF SettledInv
  <2>8. QED
    BY <2>3, <2>7
<1>2. LowerInv /\ ElementInv /\ SpanInv /\ SettledInv /\ [Next]_vars
        => ElementInv' /\ SpanInv' /\ SettledInv'
  BY ElementsKept, SpanKept, SettledKept
<1>3. QED
  BY <1>1, <1>2, WalkInvariant, PTL DEF Spec

\* Painted visible content is never silently omitted from a document that is
\* returned.  AllCarried leaves out what the converter is found to drop: the stroke
\* of a text (run lowering_text_stroke), its decoration, and the dot that round
\* caps make of a subpath of no length.
THEOREM PaintIsKept ==
  ASSUME AllCarried
  PROVE  Spec => []PaintKept
<1>1. SettledInv => PaintKept
  BY DEF SettledInv, Settled, Covered, PaintKept
<1>2. QED
  BY <1>1, SettledInvariant, PTL

\* A document returned under the strict profile is exact: under the same
\* hypothesis, for what it leaves out is lost under this profile too.
THEOREM StrictIsExact ==
  ASSUME AllCarried
  PROVE  Spec => []StrictMeansExact
<1>1. SettledInv => StrictMeansExact
  BY DEF SettledInv, Settled, Headed, Violates, StrictMeansExact
<1>2. QED
  BY <1>1, SettledInvariant, PTL

-----------------------------------------------------------------------------
(* Stacks                                                                  *)

\* A sequence lists the numbers of a set in ascending order, or descending.
Ascends(s, S) == /\ s \in Seq(Nat) /\ ToSet(s) = S
                 /\ \A k, l \in DOMAIN s : k < l => s[k] < s[l]
Descends(s, S) == /\ s \in Seq(Nat) /\ ToSet(s) = S
                  /\ \A k, l \in DOMAIN s : k < l => s[l] < s[k]

LabelSet(S, L) == {L[x] : x \in S}
Labels(s, L) == [k \in DOMAIN s |-> L[s[k]]]

\* The labels of the numbers of a set, that of the greatest last.
Stack(keys, S, L) == \E s : Ascends(s, S) /\ keys = Labels(s, L)

LEMMA ListFacts ==
  ASSUME NEW s \in Seq(Nat), NEW L
  PROVE  /\ DOMAIN s = 1 .. Len(s) /\ Len(s) \in Nat /\ DOMAIN s \subseteq Nat
         /\ ToSet(s) \subseteq Nat /\ \A k \in DOMAIN s : s[k] \in ToSet(s)
         /\ \A x \in ToSet(s) : \E k \in DOMAIN s : s[k] = x
         /\ Labels(s, L) \in Seq(LabelSet(ToSet(s), L)) /\ Len(Labels(s, L)) = Len(s)
         /\ DOMAIN Labels(s, L) = DOMAIN s /\ \A k \in DOMAIN s : Labels(s, L)[k] = L[s[k]]
<1>1. /\ DOMAIN s = 1 .. Len(s) /\ Len(s) \in Nat /\ DOMAIN s \subseteq Nat
      /\ \A k \in DOMAIN s : s[k] \in Nat
  OBVIOUS
<1>2. /\ \A k \in DOMAIN s : s[k] \in ToSet(s)
      /\ \A x \in ToSet(s) : \E k \in DOMAIN s : s[k] = x
  BY DEF ToSet
<1>3. ToSet(s) \subseteq Nat
  BY <1>1, <1>2
<1> DEFINE T == LabelSet(ToSet(s), L)
           labels == [k \in DOMAIN s |-> L[s[k]]]
<1>4. \A k \in DOMAIN s : L[s[k]] \in T
  BY <1>2 DEF LabelSet
<1>5. DOMAIN labels = DOMAIN s /\ \A k \in DOMAIN s : labels[k] = L[s[k]]
  OBVIOUS
<1> HIDE DEF T
<1>6. labels \in [1 .. Len(s) -> T]
  BY <1>1, <1>4
<1> HIDE DEF labels
<1>7. labels \in Seq(T) /\ Len(labels) = Len(s)
  BY <1>1, <1>6
<1>8. Labels(s, L) = labels
  BY DEF Labels, labels
<1>9. QED
  BY <1>1, <1>2, <1>3, <1>5, <1>7, <1>8 DEF T

\* Two sequences with the same elements at the same places.
LEMMA SameList ==
  ASSUME NEW S, NEW s \in Seq(S), NEW T, NEW t \in Seq(T), Len(s) = Len(t),
         \A k \in 1 .. Len(s) : s[k] = t[k]
  PROVE  s = t
<1>1. s \in [1 .. Len(s) -> S] /\ t \in [1 .. Len(s) -> T]
  OBVIOUS
<1>2. QED
  BY <1>1

LEMMA StackOf ==
  ASSUME NEW s, NEW S, NEW L, Ascends(s, S)
  PROVE  /\ s \in Seq(Nat) /\ DOMAIN s = 1 .. Len(s) /\ Len(s) \in Nat /\ S \subseteq Nat
         /\ \A k \in DOMAIN s : s[k] \in S
         /\ \A y \in S : \E k \in DOMAIN s : s[k] = y
         /\ Labels(s, L) \in Seq(LabelSet(S, L)) /\ Len(Labels(s, L)) = Len(s)
         /\ DOMAIN Labels(s, L) = DOMAIN s
<1>1. s \in Seq(Nat) /\ ToSet(s) = S
  BY DEF Ascends
<1>2. /\ DOMAIN s = 1 .. Len(s) /\ Len(s) \in Nat
      /\ ToSet(s) \subseteq Nat /\ \A k \in DOMAIN s : s[k] \in ToSet(s)
      /\ \A x \in ToSet(s) : \E k \in DOMAIN s : s[k] = x
      /\ Labels(s, L) \in Seq(LabelSet(ToSet(s), L)) /\ Len(Labels(s, L)) = Len(s)
      /\ DOMAIN Labels(s, L) = DOMAIN s /\ \A k \in DOMAIN s : Labels(s, L)[k] = L[s[k]]
  BY <1>1, ListFacts
<1>3. QED
  BY <1>1, <1>2

LEMMA StackTyped ==
  ASSUME NEW keys, NEW S, NEW L, Stack(keys, S, L)
  PROVE  /\ S \subseteq Nat /\ keys \in Seq(LabelSet(S, L))
         /\ S = {} => keys = <<>>
<1>1. PICK s : Ascends(s, S) /\ keys = Labels(s, L)
  BY DEF Stack
<1>2. s \in Seq(Nat) /\ ToSet(s) = S
  BY <1>1 DEF Ascends
<1>3. S \subseteq Nat /\ keys \in Seq(LabelSet(S, L))
  BY <1>1, <1>2, ListFacts
<1>4. ASSUME S = {} PROVE keys = <<>>
  <2>1. DOMAIN s = {} /\ DOMAIN s = 1 .. Len(s) /\ Len(s) \in Nat
    BY <1>2, <1>4, ListFacts
  <2>2. Len(keys) = 0
    <3>1. Len(s) = 0
      BY <2>1
    <3>2. QED
      BY <1>1, <1>2, <3>1, ListFacts
  <2>3. QED
    BY <1>3, <2>2
<1>5. QED
  BY <1>3, <1>4

LEMMA StackEmpty ==
  ASSUME NEW L
  PROVE  Stack(<<>>, {}, L)
<1> DEFINE none == <<>>
<1>1. none \in Seq(Nat) /\ DOMAIN none = {} /\ Len(none) = 0
  OBVIOUS
<1> HIDE DEF none
<1>2. ToSet(none) = {}
  BY <1>1 DEF ToSet
<1>3. Ascends(none, {})
  BY <1>1, <1>2 DEF Ascends
<1>4. Labels(none, L) \in Seq(LabelSet({}, L)) /\ Len(Labels(none, L)) = 0
  BY <1>1, <1>2, ListFacts
<1>5. Labels(none, L) = none
  BY <1>1, <1>4, SameList
<1>6. Stack(none, {}, L)
  BY <1>3, <1>5 DEF Stack
<1>7. QED
  BY <1>6 DEF none

\* The stack depends on the labels of its own numbers only.
LEMMA StackSame ==
  ASSUME NEW keys, NEW S, NEW L, NEW M, Stack(keys, S, L), \A x \in S : L[x] = M[x]
  PROVE  Stack(keys, S, M)
<1>1. PICK s : Ascends(s, S) /\ keys = Labels(s, L)
  BY DEF Stack
<1>2. \A k \in DOMAIN s : s[k] \in S
  BY <1>1 DEF Ascends, ToSet
<1>3. Labels(s, L) = Labels(s, M)
  BY <1>2 DEF Labels
<1>4. QED
  BY <1>1, <1>3 DEF Stack

LEMMA StackPush ==
  ASSUME NEW keys, NEW S, NEW L, Stack(keys, S, L), NEW x \in Nat, \A y \in S : y < x
  PROVE  Stack(Append(keys, L[x]), S \cup {x}, L)
<1>1. PICK s : Ascends(s, S) /\ keys = Labels(s, L)
  BY DEF Stack
<1> DEFINE t == Append(s, x)
           n == Len(s)
<1>2. s \in Seq(Nat) /\ ToSet(s) = S /\ \A k, l \in DOMAIN s : k < l => s[k] < s[l]
  BY <1>1 DEF Ascends
<1>3. /\ DOMAIN s = 1 .. n /\ n \in Nat /\ \A k \in DOMAIN s : s[k] \in S
      /\ \A y \in S : \E k \in DOMAIN s : s[k] = y
      /\ keys \in Seq(LabelSet(S, L)) /\ Len(keys) = n
      /\ \A k \in 1 .. n : keys[k] = L[s[k]]
  <2>1. /\ DOMAIN s = 1 .. n /\ n \in Nat /\ \A k \in DOMAIN s : s[k] \in S
        /\ \A y \in S : \E k \in DOMAIN s : s[k] = y
        /\ keys \in Seq(LabelSet(S, L)) /\ Len(keys) = n
    BY <1>1, StackOf
  <2>2. QED
    BY <1>1, <2>1 DEF Labels
<1>4. /\ t \in Seq(Nat) /\ Len(t) = n + 1 /\ DOMAIN t = 1 .. n + 1 /\ t[n + 1] = x
      /\ \A k \in 1 .. n : t[k] = s[k]
  BY <1>2
<1> HIDE DEF t, n
<1>5. ToSet(t) = S \cup {x}
  <2>1. \A k \in 1 .. n + 1 : k \in 1 .. n \/ k = n + 1
    BY <1>3
  <2>2. \A k \in DOMAIN t : t[k] \in S \cup {x}
    BY <1>3, <1>4, <2>1
  <2>3. \A y \in S \cup {x} : \E k \in DOMAIN t : t[k] = y
    <3>1. n + 1 \in DOMAIN t /\ \A k \in 1 .. n : k \in DOMAIN t
      BY <1>3, <1>4
    <3>2. QED
      BY <1>3, <1>4, <3>1
  <2>4. QED
    BY <2>2, <2>3 DEF ToSet
<1>6. ASSUME NEW k \in DOMAIN t, NEW l \in DOMAIN t, k < l PROVE t[k] < t[l]
  <2>1. k \in 1 .. n /\ (l \in 1 .. n \/ l = n + 1)
    BY <1>3, <1>4, <1>6
  <2>2. CASE l \in 1 .. n
    BY <1>2, <1>3, <1>4, <1>6, <2>1, <2>2
  <2>3. CASE l = n + 1
    BY <1>3, <1>4, <2>1, <2>3
  <2>4. QED
    BY <2>1, <2>2, <2>3
<1>7. Ascends(t, S \cup {x})
  BY <1>4, <1>5, <1>6 DEF Ascends
<1>8. Append(keys, L[x]) = Labels(t, L)
  <2> DEFINE T == LabelSet(S \cup {x}, L)
             more == Append(keys, L[x])
  <2>1. \A y \in S \cup {x} : L[y] \in T
    BY DEF LabelSet
  <2>2. Labels(t, L) \in Seq(T) /\ Len(Labels(t, L)) = n + 1
        /\ \A k \in 1 .. n + 1 : Labels(t, L)[k] = L[t[k]]
    <3> DEFINE U == S \cup {x}
    <3> HIDE DEF U
    <3>1. Ascends(t, U)
      BY <1>7 DEF U
    <3>2. Labels(t, L) \in Seq(LabelSet(U, L)) /\ Len(Labels(t, L)) = Len(t)
      BY <3>1, StackOf
    <3>3. QED
      BY <1>4, <3>2 DEF U, Labels
  <2>3. LabelSet(S, L) \subseteq T
    BY DEF LabelSet
  <2> HIDE DEF T
  <2>4. \A A, B : A \subseteq B => Seq(A) \subseteq Seq(B)
    OBVIOUS
  <2>5. keys \in Seq(T) /\ L[x] \in T
    BY <1>3, <2>1, <2>3, <2>4
  <2>6. more \in Seq(T) /\ Len(more) = n + 1 /\ more[n + 1] = L[x]
        /\ \A k \in 1 .. n : more[k] = keys[k]
    BY <1>3, <2>5
  <2> HIDE DEF more
  <2>7. \A k \in 1 .. n + 1 : more[k] = Labels(t, L)[k]
    <3>1. \A k \in 1 .. n + 1 : k \in 1 .. n \/ k = n + 1
      BY <1>3
    <3>2. QED
      BY <1>3, <1>4, <2>2, <2>6, <3>1
  <2>8. more = Labels(t, L)
    BY <2>2, <2>6, <2>7, SameList
  <2>9. QED
    BY <2>8 DEF more
<1>9. QED
  BY <1>7, <1>8 DEF Stack

LEMMA StackPop ==
  ASSUME NEW keys, NEW S, NEW L, Stack(keys, S, L), NEW x \in S, \A y \in S : y <= x
  PROVE  /\ keys # <<>> /\ Last(keys) = L[x] /\ Stack(Front(keys), S \ {x}, L)
<1>1. PICK s : Ascends(s, S) /\ keys = Labels(s, L)
  BY DEF Stack
<1> DEFINE n == Len(s)
           t == Front(s)
<1>2. s \in Seq(Nat) /\ ToSet(s) = S /\ \A k, l \in DOMAIN s : k < l => s[k] < s[l]
  BY <1>1 DEF Ascends
<1>3. /\ DOMAIN s = 1 .. n /\ n \in Nat /\ \A k \in DOMAIN s : s[k] \in S
      /\ \A y \in S : \E k \in DOMAIN s : s[k] = y
      /\ keys \in Seq(LabelSet(S, L)) /\ Len(keys) = n
      /\ \A k \in 1 .. n : keys[k] = L[s[k]]
      /\ S \subseteq Nat
  <2>1. /\ DOMAIN s = 1 .. n /\ n \in Nat /\ \A k \in DOMAIN s : s[k] \in S
        /\ \A y \in S : \E k \in DOMAIN s : s[k] = y
        /\ keys \in Seq(LabelSet(S, L)) /\ Len(keys) = n /\ S \subseteq Nat
    BY <1>1, StackOf
  <2>2. QED
    BY <1>1, <2>1 DEF Labels
<1>4. PICK m \in 1 .. n : s[m] = x
  BY <1>3
<1>5. m = n /\ n \in Nat \ {0} /\ s[n] = x
  <2> HIDE DEF n
  <2>1. n \in 1 .. n
    BY <1>3
  <2>2. s[n] <= x /\ s[n] \in Nat /\ x \in Nat
    BY <1>3, <2>1
  <2>3. m < n => x < s[n]
    BY <1>2, <1>3, <1>4, <2>1
  <2>4. ~(m < n)
    BY <2>2, <2>3
  <2>5. QED
    BY <1>3, <1>4, <2>4
<1>6. s # <<>> /\ keys # <<>>
  BY <1>3, <1>5
<1>7. Last(keys) = L[x]
  BY <1>3, <1>5 DEF Last
<1>8. /\ t \in Seq(Nat) /\ Len(t) = n - 1 /\ \A k \in 1 .. n - 1 : t[k] = s[k]
      /\ DOMAIN t = 1 .. n - 1
  BY <1>2, <1>6, FrontOf
<1> HIDE DEF t, n
<1>9. \A k \in 1 .. n - 1 : k \in 1 .. n /\ k < n
  BY <1>5
<1>10. ToSet(t) = S \ {x}
  <2>1. \A k \in DOMAIN t : t[k] \in S /\ t[k] # x
    <3> SUFFICES ASSUME NEW k \in 1 .. n - 1 PROVE t[k] \in S /\ t[k] # x
      BY <1>8
    <3>1. k \in 1 .. n /\ n \in 1 .. n /\ k < n
      BY <1>5, <1>9
    <3>2. s[k] \in S /\ s[k] < s[n] /\ s[k] \in Nat
      BY <1>2, <1>3, <3>1
    <3>3. QED
      BY <1>5, <1>8, <3>2
  <2>2. \A y \in S \ {x} : \E k \in DOMAIN t : t[k] = y
    <3> SUFFICES ASSUME NEW y \in S, y # x PROVE \E k \in DOMAIN t : t[k] = y
      OBVIOUS
    <3>1. PICK k \in 1 .. n : s[k] = y
      BY <1>3
    <3>2. k # n
      BY <1>5, <3>1
    <3>3. k \in 1 .. n - 1
      BY <1>5, <3>1, <3>2
    <3>4. QED
      BY <1>8, <3>1, <3>3
  <2>3. QED
    BY <2>1, <2>2 DEF ToSet
<1>11. Ascends(t, S \ {x})
  BY <1>2, <1>3, <1>8, <1>9, <1>10 DEF Ascends
<1>12. Front(keys) = Labels(t, L)
  <2>1. /\ Front(keys) \in Seq(LabelSet(S, L)) /\ Len(Front(keys)) = n - 1
        /\ \A k \in 1 .. n - 1 : Front(keys)[k] = keys[k]
    BY <1>3, <1>6, FrontOf
  <2>2. /\ Labels(t, L) \in Seq(LabelSet(S \ {x}, L)) /\ Len(Labels(t, L)) = n - 1
        /\ \A k \in 1 .. n - 1 : Labels(t, L)[k] = L[t[k]]
    <3> DEFINE U == S \ {x}
    <3> HIDE DEF U
    <3>1. Ascends(t, U)
      BY <1>11 DEF U
    <3>2. Labels(t, L) \in Seq(LabelSet(U, L)) /\ Len(Labels(t, L)) = Len(t)
      BY <3>1, StackOf
    <3>3. QED
      BY <1>8, <3>2 DEF U, Labels
  <2>3. \A k \in 1 .. n - 1 : Front(keys)[k] = Labels(t, L)[k]
    <3> SUFFICES ASSUME NEW k \in 1 .. n - 1 PROVE Front(keys)[k] = Labels(t, L)[k]
      OBVIOUS
    <3>1. k \in 1 .. n /\ t[k] = s[k]
      BY <1>8, <1>9
    <3>2. QED
      BY <1>3, <2>1, <2>2, <3>1
  <2>4. QED
    BY <2>1, <2>2, <2>3, SameList
<1>13. QED
  BY <1>6, <1>7, <1>11, <1>12 DEF Stack

\* One more number, less than those of a descending list, put before it.
LEMMA DescendFirst ==
  ASSUME NEW t, NEW T, Descends(t, T), NEW x \in Nat, \A y \in T : y < x, NEW L
  PROVE  /\ Descends(<<x>> \o t, T \cup {x})
         /\ Labels(<<x>> \o t, L) = <<L[x]>> \o Labels(t, L)
<1> DEFINE n == Len(t)
           one == <<x>>
           u == one \o t
<1>1. /\ t \in Seq(Nat) /\ ToSet(t) = T /\ \A k, l \in DOMAIN t : k < l => t[l] < t[k]
  BY DEF Descends
<1>2. /\ DOMAIN t = 1 .. n /\ n \in Nat /\ \A k \in 1 .. n : t[k] \in T
      /\ \A y \in T : \E k \in 1 .. n : t[k] = y
  BY <1>1, ListFacts
<1>3. one \in Seq(Nat) /\ Len(one) = 1 /\ one[1] = x /\ DOMAIN one = 1 .. 1
  OBVIOUS
<1> HIDE DEF n, one
<1>4. /\ u \in Seq(Nat) /\ Len(u) = n + 1 /\ DOMAIN u = 1 .. n + 1 /\ u[1] = x
      /\ \A k \in 1 .. n : u[k + 1] = t[k]
  <2>1. /\ u \in Seq(Nat) /\ Len(u) = Len(one) + Len(t) /\ DOMAIN u = 1 .. Len(one) + Len(t)
        /\ \A i \in DOMAIN one : u[i] = one[i]
        /\ \A i \in DOMAIN t : u[Len(one) + i] = t[i]
    <3>1. one \in Seq(Nat) /\ t \in Seq(Nat)
      BY <1>1, <1>3
    <3>2. QED
      BY ONLY <3>1, ConcatParts
  <2>2. 1 \in DOMAIN one /\ Len(t) = n
    BY <1>3 DEF n
  <2>3. \A i \in 1 .. n : 1 + i = i + 1 /\ i \in DOMAIN t
    BY <1>2
  <2> HIDE DEF u
  <2>4. QED
    <3>1. Len(one) + Len(t) = n + 1
      BY <1>2, <1>3, <2>2
    <3>2. u[1] = x
      BY <1>3, <2>1, <2>2
    <3>3. \A k \in 1 .. n : u[k + 1] = t[k]
      <4> SUFFICES ASSUME NEW k \in 1 .. n PROVE u[k + 1] = t[k]
        OBVIOUS
      <4>1. u[Len(one) + k] = t[k] /\ Len(one) + k = k + 1
        BY <1>3, <2>1, <2>3
      <4>2. QED
        BY <4>1
    <3>4. QED
      BY <2>1, <3>1, <3>2, <3>3
<1> HIDE DEF u
<1>5. \A k \in 1 .. n + 1 : k = 1 \/ (k - 1 \in 1 .. n /\ (k - 1) + 1 = k)
  BY <1>2
<1>6. \A k \in 1 .. n + 1 : k = 1 \/ (k - 1 \in 1 .. n /\ u[k] = t[k - 1])
  BY <1>4, <1>5
<1>7. ToSet(u) = T \cup {x}
  <2>1. \A k \in DOMAIN u : u[k] \in T \cup {x}
    BY <1>2, <1>4, <1>6
  <2>2. \A y \in T \cup {x} : \E k \in DOMAIN u : u[k] = y
    <3>1. 1 \in 1 .. n + 1 /\ \A k \in 1 .. n : k + 1 \in 1 .. n + 1
      BY <1>2
    <3>2. QED
      BY <1>2, <1>4, <3>1
  <2>3. QED
    BY <2>1, <2>2 DEF ToSet
<1>8. ASSUME NEW k \in DOMAIN u, NEW l \in DOMAIN u, k < l PROVE u[l] < u[k]
  <2>1. k \in 1 .. n + 1 /\ l - 1 \in 1 .. n /\ u[l] = t[l - 1]
    <3>1. k \in 1 .. n + 1 /\ l \in 1 .. n + 1 /\ l # 1
      BY <1>2, <1>4, <1>8
    <3>2. QED
      BY <1>6, <3>1
  <2>2. CASE k = 1
    BY <1>2, <1>4, <2>1, <2>2
  <2>3. CASE k # 1
    <3>1. k - 1 \in 1 .. n /\ u[k] = t[k - 1]
      BY <1>6, <2>1, <2>3
    <3>2. k - 1 < l - 1
      <4>1. k \in Nat /\ l \in Nat
        BY <1>2, <1>4
      <4>2. QED
        BY <1>8, <4>1
    <3>3. QED
      BY <1>1, <1>2, <2>1, <3>1, <3>2
  <2>4. QED
    BY <2>2, <2>3
<1>9. Descends(u, T \cup {x})
  BY <1>4, <1>7, <1>8 DEF Descends
<1>10. Labels(u, L) = <<L[x]>> \o Labels(t, L)
  <2> DEFINE A == LabelSet(ToSet(u), L)
             B == LabelSet(ToSet(t), L)
             first == <<L[x]>>
             rest == Labels(t, L)
             both == first \o rest
  <2>1. Labels(u, L) \in Seq(A) /\ Len(Labels(u, L)) = Len(u)
    BY <1>4, ListFacts
  <2>2. rest \in Seq(B) /\ Len(rest) = Len(t)
    BY <1>1, ListFacts
  <2>3. \A k \in 1 .. n + 1 : Labels(u, L)[k] = L[u[k]]
    BY <1>4 DEF Labels
  <2>4. \A k \in 1 .. n : rest[k] = L[t[k]]
    BY <1>2 DEF Labels
  <2> HIDE DEF A, B, rest
  <2> DEFINE C == B \cup {L[x]}
  <2>5. first \in Seq(C) /\ Len(first) = 1 /\ first[1] = L[x] /\ DOMAIN first = 1 .. 1
    OBVIOUS
  <2> HIDE DEF first
  <2>6. rest \in Seq(C)
    BY <2>2
  <2> HIDE DEF C
  <2>7. /\ both \in Seq(C) /\ Len(both) = Len(first) + Len(rest)
        /\ \A i \in DOMAIN first : both[i] = first[i]
        /\ \A i \in DOMAIN rest : both[Len(first) + i] = rest[i]
    <3>1. first \in Seq(C) /\ rest \in Seq(C)
      BY <2>5, <2>6
    <3>2. QED
      BY ONLY <3>1, ConcatParts
  <2> HIDE DEF both
  <2>8. Len(rest) = n /\ DOMAIN rest = 1 .. n /\ 1 \in DOMAIN first
    BY <2>2, <2>5 DEF n
  <2>9. Len(both) = n + 1 /\ both[1] = L[x] /\ \A i \in 1 .. n : both[1 + i] = L[t[i]]
    <3>1. Len(both) = n + 1
      BY <1>2, <2>2, <2>5, <2>7, <2>8 DEF n
    <3>2. both[1] = L[x]
      BY <2>5, <2>7, <2>8
    <3>3. \A i \in 1 .. n : both[1 + i] = L[t[i]]
      BY <2>4, <2>5, <2>7, <2>8
    <3>4. QED
      BY <3>1, <3>2, <3>3
  <2>10. ASSUME NEW k \in 1 .. n + 1 PROVE Labels(u, L)[k] = both[k]
    <3>1. CASE k = 1
      BY <1>4, <2>3, <2>9, <3>1
    <3>2. CASE k # 1
      <4>1. k - 1 \in 1 .. n /\ u[k] = t[k - 1] /\ 1 + (k - 1) = k
        BY <1>2, <1>6, <3>2
      <4>2. both[k] = L[t[k - 1]]
        BY <2>9, <4>1
      <4>3. QED
        BY <2>3, <4>1, <4>2
    <3>3. QED
      BY <3>1, <3>2
  <2>11. Labels(u, L) = both
    BY <1>4, <2>1, <2>7, <2>9, <2>10, SameList
  <2>12. QED
    BY <2>11 DEF both, first, rest
<1>11. QED
  BY <1>9, <1>10 DEF u, one

\* The recursion that Kept stands for.
LEMMA KeptIs ==
  ASSUME NEW keys, NEW K, keys \in Seq(K)
  PROVE  \E f : /\ f[0] = <<>> /\ Kept(keys) = f[Len(keys)]
                /\ \A n \in 1 .. Len(keys) : f[n] = KeptOf(keys[n]) \o f[n - 1]
<1> DEFINE T == Seq(K)
           m == Len(keys)
           none == <<>>
           step == [n \in 1 .. m |-> [s \in T |-> KeptOf(keys[n]) \o s]]
           upTo == CHOOSE f : f = [n \in 0 .. Len(keys) |->
                                     IF n = 0 THEN <<>> ELSE KeptOf(keys[n]) \o f[n - 1]]
<1>1. Kept(keys) = upTo[m]
  BY DEF Kept
<1>2. m \in Nat /\ none \in T /\ \A n \in 1 .. m : keys[n] \in K
  OBVIOUS
<1>3. \A n \in 1 .. m : \A s \in T : KeptOf(keys[n]) \o s \in T
  <2> SUFFICES ASSUME NEW n \in 1 .. m, NEW s \in T PROVE KeptOf(keys[n]) \o s \in T
    OBVIOUS
  <2>1. KeptOf(keys[n]) \in T
    BY <1>2 DEF KeptOf
  <2>2. QED
    BY <2>1, ConcatParts
<1> HIDE DEF T, m
<1>4. step \in [1 .. m -> [T -> T]]
  BY <1>3
<1> HIDE DEF step, none
<1>5. PICK f \in [0 .. m -> T] : f[0] = none /\ \A n \in 1 .. m : f[n] = step[n][f[n - 1]]
  <2>1. m \in Nat /\ none \in T
    BY <1>2
  <2>2. QED
    BY ONLY <2>1, <1>4, Recursion
<1>6. \A n \in 1 .. m : f[n] = KeptOf(keys[n]) \o f[n - 1]
  <2> SUFFICES ASSUME NEW n \in 1 .. m PROVE f[n] = KeptOf(keys[n]) \o f[n - 1]
    OBVIOUS
  <2>1. n - 1 \in 0 .. m
    BY <1>2
  <2>2. f[n] = step[n][f[n - 1]] /\ f[n - 1] \in T
    BY <1>5, <2>1
  <2>3. QED
    BY <2>2 DEF step
<1> DEFINE body(g) == [n \in 0 .. m |-> IF n = 0 THEN none ELSE KeptOf(keys[n]) \o g[n - 1]]
<1>7. f = body(f)
  <2>1. \A n \in 0 .. m : f[n] = IF n = 0 THEN none ELSE KeptOf(keys[n]) \o f[n - 1]
    <3> SUFFICES ASSUME NEW n \in 0 .. m
                 PROVE  f[n] = IF n = 0 THEN none ELSE KeptOf(keys[n]) \o f[n - 1]
      OBVIOUS
    <3>1. CASE n = 0
      BY <1>5, <3>1
    <3>2. CASE n # 0
      <4>1. n \in 1 .. m
        BY <1>2, <3>2
      <4>2. QED
        BY <1>6, <3>2, <4>1, Zenon
    <3>3. QED
      BY <3>1, <3>2
  <2>2. f = [n \in 0 .. m |-> f[n]]
    BY <1>5
  <2>3. QED
    BY <2>1, <2>2, Zenon
<1>8. upTo = body(upTo)
  BY <1>7 DEF m, none
<1> HIDE DEF upTo
<1>9. \A n \in 0 .. m : upTo[n] = IF n = 0 THEN none ELSE KeptOf(keys[n]) \o upTo[n - 1]
  BY <1>8, Zenon
<1> HIDE DEF body
<1>10. upTo[0] = none /\ \A n \in 1 .. m : upTo[n] = KeptOf(keys[n]) \o upTo[n - 1]
  <2>1. 0 \in 0 .. m /\ \A n \in 1 .. m : n \in 0 .. m /\ n # 0
    BY <1>2
  <2>2. QED
    BY <1>9, <2>1
<1>11. QED
  BY <1>1, <1>10 DEF m, none

\* What is kept of the labels of a set are those of its members whose label is
\* shared, the label of the greatest first.
LEMMA KeptStack ==
  ASSUME NEW keys, NEW S, NEW L, Stack(keys, S, L)
  PROVE  \E t : Descends(t, {x \in S : Shared(L[x])}) /\ Kept(keys) = Labels(t, L)
<1>1. PICK s : Ascends(s, S) /\ keys = Labels(s, L)
  BY DEF Stack
<1> DEFINE n == Len(s)
           none == <<>>
           Of(k) == {x \in S : (\E j \in 1 .. k : s[j] = x) /\ Shared(L[x])}
<1>2. /\ s \in Seq(Nat) /\ DOMAIN s = 1 .. n /\ n \in Nat /\ S \subseteq Nat
      /\ \A k \in 1 .. n : s[k] \in S /\ s[k] \in Nat
      /\ \A y \in S : \E k \in 1 .. n : s[k] = y
      /\ keys \in Seq(LabelSet(S, L)) /\ Len(keys) = n
      /\ \A k \in 1 .. n : keys[k] = L[s[k]]
  <2>1. /\ s \in Seq(Nat) /\ DOMAIN s = 1 .. n /\ n \in Nat /\ S \subseteq Nat
        /\ \A k \in DOMAIN s : s[k] \in S
        /\ \A y \in S : \E k \in DOMAIN s : s[k] = y
        /\ keys \in Seq(LabelSet(S, L)) /\ Len(keys) = n
    BY <1>1, StackOf
  <2>2. QED
    BY <1>1, <2>1 DEF Labels
<1>3. \A k, l \in 1 .. n : k < l => s[k] < s[l]
  BY <1>1, <1>2 DEF Ascends
<1> HIDE DEF n
<1>4. PICK f : /\ f[0] = none /\ Kept(keys) = f[n]
               /\ \A k \in 1 .. n : f[k] = KeptOf(keys[k]) \o f[k - 1]
  <2>1. PICK f : /\ f[0] = <<>> /\ Kept(keys) = f[Len(keys)]
                 /\ \A k \in 1 .. Len(keys) : f[k] = KeptOf(keys[k]) \o f[k - 1]
    <3>1. keys \in Seq(LabelSet(S, L))
      BY <1>2
    <3>2. QED
      BY ONLY <3>1, KeptIs
  <2>2. Len(keys) = n
    BY <1>2
  <2>3. /\ f[0] = none /\ Kept(keys) = f[n]
        /\ \A k \in 1 .. n : f[k] = KeptOf(keys[k]) \o f[k - 1]
    BY <2>1, <2>2
  <2>4. QED
    BY <2>3
<1> DEFINE Done == {k \in 0 .. n : \E t : Descends(t, Of(k)) /\ f[k] = Labels(t, L)}
<1>5. 0 \in Done
  <2>1. Of(0) = {}
    OBVIOUS
  <2>2. none \in Seq(Nat) /\ DOMAIN none = {} /\ Len(none) = 0
    OBVIOUS
  <2> HIDE DEF none, Of
  <2>3. ToSet(none) = {}
    BY <2>2 DEF ToSet
  <2>4. Descends(none, {})
    BY <2>2, <2>3 DEF Descends
  <2>5. Labels(none, L) \in Seq(LabelSet({}, L)) /\ Len(Labels(none, L)) = 0
    BY <2>2, <2>3, ListFacts
  <2>6. Labels(none, L) = none
    BY <2>2, <2>5, SameList
  <2>7. Descends(none, Of(0)) /\ f[0] = Labels(none, L)
    BY <1>4, <2>1, <2>4, <2>6
  <2>8. 0 \in 0 .. n
    BY <1>2
  <2>9. QED
    BY <2>7, <2>8
<1>6. ASSUME NEW k \in 0 .. n - 1, k \in Done PROVE k + 1 \in Done
  <2>1. PICK t : Descends(t, Of(k)) /\ f[k] = Labels(t, L)
    BY <1>6
  <2>2. /\ k + 1 \in 1 .. n /\ k + 1 \in 0 .. n /\ (k + 1) - 1 = k /\ k \in Nat
        /\ \A j \in 1 .. k + 1 : j \in 1 .. k \/ j = k + 1
        /\ \A j \in 1 .. k : j \in 1 .. k + 1 /\ j \in 1 .. n /\ j < k + 1
        /\ k + 1 \in 1 .. k + 1
    BY <1>2
  <2> DEFINE x == s[k + 1]
  <2>3. /\ x \in S /\ x \in Nat /\ keys[k + 1] = L[x]
        /\ f[k + 1] = KeptOf(L[x]) \o Labels(t, L)
    <3>1. x \in S /\ x \in Nat /\ keys[k + 1] = L[x]
      BY <1>2, <2>2
    <3>2. f[k + 1] = KeptOf(keys[k + 1]) \o f[(k + 1) - 1]
      BY <1>4, <2>2
    <3>3. f[(k + 1) - 1] = Labels(t, L)
      BY <2>1, <2>2
    <3> HIDE DEF x
    <3>4. QED
      BY <3>1, <3>2, <3>3, Zenon
  <2>4. \A y \in Of(k) : y < x
    BY <1>3, <2>2
  <2>5. CASE Shared(L[x])
    <3>1. Of(k + 1) = Of(k) \cup {x}
      BY <2>2, <2>3, <2>5
    <3>2. KeptOf(L[x]) = <<L[x]>>
      BY <2>5 DEF KeptOf
    <3> HIDE DEF x, Of
    <3>3. Descends(<<x>> \o t, Of(k) \cup {x}) /\ Labels(<<x>> \o t, L) = <<L[x]>> \o Labels(t, L)
      BY <2>1, <2>3, <2>4, DescendFirst
    <3>4. Descends(<<x>> \o t, Of(k + 1)) /\ f[k + 1] = Labels(<<x>> \o t, L)
      BY <2>3, <3>1, <3>2, <3>3
    <3>5. QED
      BY <2>2, <3>4
  <2>6. CASE ~Shared(L[x])
    <3>1. Of(k + 1) = Of(k)
      BY <2>2, <2>3, <2>6
    <3>2. KeptOf(L[x]) = none
      BY <2>6 DEF KeptOf
    <3>3. t \in Seq(Nat)
      BY <2>1 DEF Descends
    <3>4. Labels(t, L) \in Seq(LabelSet(ToSet(t), L))
      BY <3>3, ListFacts
    <3>5. \A A : \A a \in Seq(A) : <<>> \o a = a
      OBVIOUS
    <3>6. f[k + 1] = Labels(t, L)
      BY <2>3, <3>2, <3>4, <3>5
    <3> HIDE DEF Of
    <3>7. QED
      BY <2>1, <2>2, <3>1, <3>6
  <2>7. QED
    BY <2>5, <2>6
<1> HIDE DEF Done
<1>7. 0 .. n \subseteq Done /\ n \in 0 .. n
  <2>1. n \in Nat /\ n \in 0 .. n
    BY <1>2
  <2>2. 0 .. n \subseteq Done
    BY <1>5, <1>6, <2>1, IntervalInduction
  <2>3. QED
    BY <2>1, <2>2
<1>8. PICK t : Descends(t, Of(n)) /\ f[n] = Labels(t, L)
  BY <1>7 DEF Done
<1>9. Of(n) = {x \in S : Shared(L[x])}
  BY <1>2
<1> HIDE DEF Of
<1>10. QED
  BY <1>4, <1>8, <1>9

LEMMA DescendsList ==
  ASSUME NEW t, NEW T, Descends(t, T)
  PROVE  /\ t \in Seq(Nat) /\ DOMAIN t = 1 .. Len(t) /\ Len(t) \in Nat /\ T \subseteq Nat
         /\ \A k \in DOMAIN t : t[k] \in T
         /\ \A x \in T : \E k \in DOMAIN t : t[k] = x
         /\ \A k, l \in DOMAIN t : /\ k < l => t[l] < t[k]
                                   /\ t[k] = t[l] => k = l
                                   /\ t[l] < t[k] => k < l
<1>1. t \in Seq(Nat) /\ ToSet(t) = T /\ \A k, l \in DOMAIN t : k < l => t[l] < t[k]
  BY DEF Descends
<1>2. /\ DOMAIN t = 1 .. Len(t) /\ Len(t) \in Nat /\ ToSet(t) \subseteq Nat
      /\ \A k \in DOMAIN t : t[k] \in ToSet(t)
      /\ \A x \in ToSet(t) : \E k \in DOMAIN t : t[k] = x
  BY <1>1, ListFacts
<1>3. ASSUME NEW k \in DOMAIN t, NEW l \in DOMAIN t
      PROVE  (t[k] = t[l] => k = l) /\ (t[l] < t[k] => k < l)
  <2>1. k \in Nat /\ l \in Nat /\ t[k] \in Nat /\ t[l] \in Nat
    BY <1>1, <1>2
  <2>2. (k < l => t[l] < t[k]) /\ (l < k => t[k] < t[l])
    BY <1>1
  <2>3. QED
    BY <2>1, <2>2
<1>4. QED
  BY <1>1, <1>2, <1>3

LEMMA DescendsLabels ==
  ASSUME NEW t, NEW T, NEW L, Descends(t, T)
  PROVE  /\ Labels(t, L) \in Seq(LabelSet(T, L)) /\ Len(Labels(t, L)) = Len(t)
         /\ DOMAIN Labels(t, L) = DOMAIN t
         /\ ToSet(Labels(t, L)) = LabelSet(T, L)
<1>1. t \in Seq(Nat) /\ ToSet(t) = T
  BY DEF Descends
<1>2. /\ Labels(t, L) \in Seq(LabelSet(ToSet(t), L)) /\ Len(Labels(t, L)) = Len(t)
      /\ DOMAIN Labels(t, L) = DOMAIN t
  BY <1>1, ListFacts
<1>3. \A k \in DOMAIN t : Labels(t, L)[k] = L[t[k]]
  BY DEF Labels
<1>4. ToSet(Labels(t, L)) = LabelSet(T, L)
  <2> DEFINE labels == Labels(t, L)
  <2>1. \A y \in ToSet(labels) : \E k \in DOMAIN t : y = L[t[k]]
    BY <1>2, <1>3 DEF ToSet
  <2>2. \A k \in DOMAIN t : L[t[k]] \in ToSet(labels)
    BY <1>2, <1>3 DEF ToSet
  <2>3. \A y \in LabelSet(T, L) : \E k \in DOMAIN t : y = L[t[k]]
    BY <1>1 DEF LabelSet, ToSet
  <2>4. \A k \in DOMAIN t : L[t[k]] \in LabelSet(T, L)
    BY <1>1 DEF LabelSet, ToSet
  <2> HIDE DEF labels
  <2>5. ToSet(labels) = LabelSet(T, L)
    BY <2>1, <2>2, <2>3, <2>4
  <2>6. QED
    BY <2>5 DEF labels
<1>5. QED
  BY <1>1, <1>2, <1>4

\* What follows a number in two descending lists with the same smaller numbers.
LEMMA SameParent ==
  ASSUME NEW t, NEW T, Descends(t, T), NEW u, NEW U, Descends(u, U), NEW L,
         NEW k \in DOMAIN t, NEW l \in DOMAIN u, t[k] = u[l],
         \A x \in T : x < t[k] => x \in U,
         \A x \in U : x < t[k] => x \in T
  PROVE  Parent(Labels(t, L), k) = Parent(Labels(u, L), l)
<1>1. /\ DOMAIN t = 1 .. Len(t) /\ Len(t) \in Nat /\ T \subseteq Nat
      /\ \A i \in DOMAIN t : t[i] \in T
      /\ \A x \in T : \E i \in DOMAIN t : t[i] = x
      /\ \A i, j \in DOMAIN t : /\ i < j => t[j] < t[i]
                                /\ t[j] < t[i] => i < j
  BY DescendsList
<1>2. /\ DOMAIN u = 1 .. Len(u) /\ Len(u) \in Nat /\ U \subseteq Nat
      /\ \A i \in DOMAIN u : u[i] \in U
      /\ \A x \in U : \E i \in DOMAIN u : u[i] = x
      /\ \A i, j \in DOMAIN u : /\ i < j => u[j] < u[i]
                                /\ u[j] < u[i] => i < j
  BY DescendsList
<1>0. Len(Labels(t, L)) = Len(t) /\ Len(Labels(u, L)) = Len(u)
  BY DescendsLabels
<1>3. k \in Nat /\ l \in Nat /\ t[k] \in Nat
  <2>1. t[k] \in T /\ k \in 1 .. Len(t) /\ l \in 1 .. Len(u)
    BY <1>1, <1>2
  <2>2. Len(t) \in Nat /\ Len(u) \in Nat
    BY <1>1, <1>2
  <2>3. k \in Nat /\ l \in Nat
    BY <2>1, <2>2
  <2>4. t[k] \in Nat
    BY <1>1, <2>1, Zenon
  <2>5. QED
    BY <2>3, <2>4
<1>4. ASSUME k < Len(t)
      PROVE  l < Len(u) /\ t[k + 1] \in Nat /\ u[l + 1] \in Nat /\ t[k + 1] <= u[l + 1]
  <2>1. k + 1 \in DOMAIN t /\ k < k + 1
    BY <1>1, <1>3, <1>4
  <2>2. t[k + 1] \in T /\ t[k + 1] < t[k] /\ t[k + 1] \in Nat
    BY <1>1, <2>1
  <2>3. PICK j \in DOMAIN u : u[j] = t[k + 1]
    BY <1>2, <2>2
  <2>4. l < j /\ j \in 1 .. Len(u) /\ j \in Nat
    BY <1>2, <2>2, <2>3
  <2>5. l < Len(u) /\ l + 1 \in DOMAIN u /\ (j = l + 1 \/ l + 1 < j)
    BY <1>2, <1>3, <2>4
  <2>6. u[l + 1] \in Nat
    BY <1>2, <2>5
  <2>7. u[j] <= u[l + 1]
    <3>1. j = l + 1 \/ u[j] < u[l + 1]
      BY <1>2, <2>5
    <3>2. u[j] \in Nat
      BY <2>2, <2>3
    <3>3. QED
      BY <2>6, <3>1, <3>2
  <2>8. QED
    BY <2>2, <2>3, <2>5, <2>6, <2>7
<1>5. ASSUME l < Len(u)
      PROVE  k < Len(t) /\ t[k + 1] \in Nat /\ u[l + 1] \in Nat /\ u[l + 1] <= t[k + 1]
  <2>1. l + 1 \in DOMAIN u /\ l < l + 1
    BY <1>2, <1>3, <1>5
  <2>2. u[l + 1] \in U /\ u[l + 1] < u[l] /\ u[l + 1] \in Nat
    BY <1>2, <2>1
  <2>3. PICK j \in DOMAIN t : t[j] = u[l + 1]
    BY <1>1, <2>2
  <2>4. k < j /\ j \in 1 .. Len(t) /\ j \in Nat
    BY <1>1, <2>2, <2>3
  <2>5. k < Len(t) /\ k + 1 \in DOMAIN t /\ (j = k + 1 \/ k + 1 < j)
    BY <1>1, <1>3, <2>4
  <2>6. t[k + 1] \in Nat
    BY <1>1, <2>5
  <2>7. t[j] <= t[k + 1]
    <3>1. j = k + 1 \/ t[j] < t[k + 1]
      BY <1>1, <2>5
    <3>2. t[j] \in Nat
      BY <2>2, <2>3
    <3>3. QED
      BY <2>6, <3>1, <3>2
  <2>8. QED
    BY <2>2, <2>3, <2>5, <2>6, <2>7
<1>6. CASE k < Len(t)
  <2>1. l < Len(u) /\ t[k + 1] = u[l + 1]
    BY <1>4, <1>5, <1>6
  <2>2. k + 1 \in DOMAIN t /\ l + 1 \in DOMAIN u
    BY <1>1, <1>2, <1>3, <1>6, <2>1
  <2>3. Labels(t, L)[k + 1] = Labels(u, L)[l + 1]
    BY <2>1, <2>2 DEF Labels
  <2>4. QED
    BY <1>0, <1>6, <2>1, <2>3 DEF Parent
<1>7. CASE ~(k < Len(t))
  <2>1. ~(l < Len(u))
    BY <1>5, <1>7
  <2>2. QED
    BY <1>0, <1>7, <2>1 DEF Parent
<1>8. QED
  BY <1>6, <1>7

\* The owners that element i has in common with another one.
Common(own, i) == {g \in own[i] : \E j \in DOMAIN own : j # i /\ g \in own[j]}

\* Elements whose group ids stand for owners, one for each owner that is common
\* to two of them, are grouped validly: the owners around an owner are the same
\* wherever it stands, and what it owns is not interrupted.
OwnersNest(own) ==
  \A i, j \in DOMAIN own : \A g \in own[i] \cap own[j] :
    /\ \A h \in own[i] : h < g => h \in own[j]
    /\ \A m \in i .. j : g \in own[m]

Distinct(own, L) ==
  \A i, j \in DOMAIN own : \A g \in own[i], h \in own[j] : L[g] = L[h] => g = h

OwnersListed(list, own, L) ==
  \A i \in DOMAIN list : \E t : /\ Descends(t, Common(own, i))
                                /\ list[i].groups = Labels(t, L)

LEMMA OwnersValid ==
  ASSUME NEW list, NEW own, NEW L, NEW N \in Nat, DOMAIN list = 1 .. N, DOMAIN own = 1 .. N,
         OwnersNest(own), Distinct(own, L), OwnersListed(list, own, L),
         \A i \in DOMAIN list : Len(list[i].groups) <= MaxGroupIds
  PROVE  ValidGroups(list)
<1> DEFINE C(i) == Common(own, i)
           t == [i \in 1 .. N |-> CHOOSE u : Descends(u, C(i)) /\ list[i].groups = Labels(u, L)]
<1>1. ASSUME NEW i \in 1 .. N PROVE Descends(t[i], C(i)) /\ list[i].groups = Labels(t[i], L)
  <2>1. \E u : Descends(u, C(i)) /\ list[i].groups = Labels(u, L)
    BY DEF OwnersListed
  <2> HIDE DEF C
  <2>2. t[i] = CHOOSE u : Descends(u, C(i)) /\ list[i].groups = Labels(u, L)
    OBVIOUS
  <2> HIDE DEF t
  <2>3. QED
    BY <2>1, <2>2
<1> HIDE DEF t
<1>2. ASSUME NEW i \in 1 .. N, NEW j \in 1 .. N, NEW g \in C(i), NEW h \in C(j), L[g] = L[h]
      PROVE  g = h
  <2>1. g \in own[i] /\ h \in own[j]
    BY DEF Common
  <2>2. QED
    BY <1>2, <2>1 DEF Distinct
<1>3. ASSUME NEW i \in 1 .. N, NEW j \in 1 .. N, NEW g \in C(i), g \in C(j), NEW h \in C(i), h < g
      PROVE  h \in C(j)
  <2>1. g \in own[i] \cap own[j] /\ h \in own[i]
    BY <1>3 DEF Common
  <2>2. h \in own[j]
    BY <1>3, <2>1 DEF OwnersNest
  <2>3. QED
    BY <1>3, <2>1, <2>2 DEF Common
<1>4. ASSUME NEW i \in 1 .. N, NEW j \in 1 .. N, NEW g \in C(i), g \in C(j), NEW m \in i .. j
      PROVE  m \in 1 .. N /\ g \in C(m)
  <2>1. m \in 1 .. N
    OBVIOUS
  <2>2. g \in own[i] \cap own[j]
    BY <1>4 DEF Common
  <2>3. g \in own[m]
    BY <2>2 DEF OwnersNest
  <2>4. QED
    BY <1>4, <2>1, <2>2, <2>3 DEF Common
<1>5. ASSUME NEW i \in 1 .. N, NEW g \in C(i)
      PROVE  \E j \in 1 .. N : j # i /\ g \in C(j)
  BY DEF Common
<1> HIDE DEF C
<1>6. ASSUME NEW i \in 1 .. N
      PROVE  /\ DOMAIN list[i].groups = DOMAIN t[i]
             /\ \A k \in DOMAIN t[i] : t[i][k] \in C(i) /\ list[i].groups[k] = L[t[i][k]]
             /\ \A k, l \in DOMAIN t[i] : t[i][k] = t[i][l] => k = l
             /\ ToSet(list[i].groups) = LabelSet(C(i), L)
  <2>1. Descends(t[i], C(i)) /\ list[i].groups = Labels(t[i], L)
    BY <1>1
  <2>2. /\ \A k \in DOMAIN t[i] : t[i][k] \in C(i)
        /\ \A k, l \in DOMAIN t[i] : t[i][k] = t[i][l] => k = l
    BY <2>1, DescendsList
  <2>3. DOMAIN list[i].groups = DOMAIN t[i] /\ ToSet(list[i].groups) = LabelSet(C(i), L)
    BY <2>1, DescendsLabels
  <2>4. \A k \in DOMAIN t[i] : list[i].groups[k] = L[t[i][k]]
    BY <2>1 DEF Labels
  <2>5. QED
    BY <2>2, <2>3, <2>4
<1>7. ASSUME NEW i \in 1 .. N PROVE IsInjective(list[i].groups)
  BY <1>2, <1>6 DEF IsInjective
<1>8. ASSUME NEW i \in 1 .. N, NEW j \in 1 .. N, NEW k \in DOMAIN list[i].groups,
             NEW l \in DOMAIN list[j].groups, list[i].groups[k] = list[j].groups[l]
      PROVE  /\ Parent(list[i].groups, k) = Parent(list[j].groups, l)
             /\ \A m \in i .. j : list[i].groups[k] \in ToSet(list[m].groups)
  <2> DEFINE g == t[i][k]
  <2>1. /\ k \in DOMAIN t[i] /\ l \in DOMAIN t[j] /\ g \in C(i) /\ t[j][l] \in C(j)
        /\ list[i].groups[k] = L[g] /\ list[j].groups[l] = L[t[j][l]]
    BY <1>6
  <2>2. t[j][l] = g
    BY <1>2, <1>8, <2>1
  <2>3. g \in C(j)
    BY <2>1, <2>2
  <2>4. \A x \in C(i) : x < t[i][k] => x \in C(j)
    BY <1>3, <2>1, <2>3
  <2>5. \A x \in C(j) : x < t[i][k] => x \in C(i)
    BY <1>3, <2>1, <2>3
  <2>6. Parent(Labels(t[i], L), k) = Parent(Labels(t[j], L), l)
    <3>1. Descends(t[i], C(i)) /\ Descends(t[j], C(j)) /\ t[i][k] = t[j][l]
      BY <1>1, <2>2
    <3>2. QED
      BY <2>1, <2>4, <2>5, <3>1, SameParent
  <2>7. Parent(list[i].groups, k) = Parent(list[j].groups, l)
    BY <1>1, <2>6
  <2>8. ASSUME NEW m \in i .. j PROVE list[i].groups[k] \in ToSet(list[m].groups)
    <3>1. m \in 1 .. N /\ g \in C(m)
      BY <1>4, <2>1, <2>3
    <3>2. L[g] \in LabelSet(C(m), L)
      BY <3>1 DEF LabelSet
    <3>3. QED
      BY <1>6, <2>1, <3>1, <3>2
  <2>9. QED
    BY <2>7, <2>8
<1>9. ASSUME NEW i \in 1 .. N, NEW id \in ToSet(list[i].groups)
      PROVE  \E j \in 1 .. N : j # i /\ id \in ToSet(list[j].groups)
  <2>1. PICK g \in C(i) : id = L[g]
    <3>1. id \in LabelSet(C(i), L)
      BY <1>6
    <3>2. QED
      BY <3>1 DEF LabelSet
  <2>2. PICK j \in 1 .. N : j # i /\ g \in C(j)
    BY <1>5
  <2>3. id \in ToSet(list[j].groups)
    <3>1. L[g] \in LabelSet(C(j), L)
      BY <2>2 DEF LabelSet
    <3>2. QED
      BY <1>6, <2>1, <3>1
  <2>4. QED
    BY <2>2, <2>3
<1>10. QED
  BY <1>7, <1>8, <1>9 DEF ValidGroups

\* The group ids that two of the elements share are as many as the owners that
\* are common to both.
LEMMA OwnersShared ==
  ASSUME NEW list, NEW own, NEW L, NEW N \in Nat, DOMAIN list = 1 .. N, DOMAIN own = 1 .. N,
         Distinct(own, L), OwnersListed(list, own, L),
         NEW i \in 1 .. N, NEW j \in 1 .. N, i # j, IsFiniteSet(own[i])
  PROVE  Cardinality(ToSet(list[i].groups) \cap ToSet(list[j].groups))
           = Cardinality(own[i] \cap own[j])
<1> DEFINE S == own[i] \cap own[j]
           T == ToSet(list[i].groups) \cap ToSet(list[j].groups)
           f == [g \in S |-> L[g]]
<1>1. ASSUME NEW k \in {i, j} PROVE ToSet(list[k].groups) = LabelSet(Common(own, k), L)
  <2>1. PICK t : Descends(t, Common(own, k)) /\ list[k].groups = Labels(t, L)
    BY DEF OwnersListed
  <2>2. QED
    BY <2>1, DescendsLabels
<1>2. S \subseteq Common(own, i) /\ S \subseteq Common(own, j)
  BY DEF Common
<1>3. Common(own, i) \subseteq own[i] /\ Common(own, j) \subseteq own[j]
  BY DEF Common
<1>4. \A g \in own[i], h \in own[j] : L[g] = L[h] => g = h
  BY DEF Distinct
<1>5. \A g, h \in own[i] : L[g] = L[h] => g = h
  BY DEF Distinct
<1>6. T = LabelSet(S, L)
  <2>1. \A y \in T : \E g \in S : y = L[g]
    <3> SUFFICES ASSUME NEW y \in T PROVE \E g \in S : y = L[g]
      OBVIOUS
    <3>1. y \in LabelSet(Common(own, i), L) /\ y \in LabelSet(Common(own, j), L)
      BY <1>1
    <3>2. PICK g \in Common(own, i) : y = L[g]
      BY <3>1 DEF LabelSet
    <3>3. PICK h \in Common(own, j) : y = L[h]
      BY <3>1 DEF LabelSet
    <3>4. g \in own[i] /\ h \in own[j] /\ g = h
      BY <1>3, <1>4, <3>2, <3>3
    <3>5. QED
      BY <3>2, <3>4
  <2>2. \A g \in S : L[g] \in T
    BY <1>1, <1>2 DEF LabelSet
  <2> HIDE DEF S, T
  <2>3. QED
    BY <2>1, <2>2 DEF LabelSet
<1>7. f \in Bijection(S, T)
  <2>1. \A g, h \in S : L[g] = L[h] => g = h
    BY <1>5
  <2> HIDE DEF S, T
  <2>2. f \in [S -> T] /\ \A y \in T : \E g \in S : f[g] = y
    BY <1>6 DEF LabelSet
  <2>3. \A g, h \in S : f[g] = f[h] => g = h
    BY <2>1
  <2>4. QED
    BY <2>2, <2>3 DEF Bijection, Injection, Surjection, IsInjective
<1>8. IsFiniteSet(S)
  BY FS_Intersection
<1> HIDE DEF S, T, f
<1>9. Cardinality(T) = Cardinality(S)
  BY <1>7, <1>8, FS_Bijection DEF ExistsBijection
<1>10. QED
  BY <1>9 DEF S, T

-----------------------------------------------------------------------------
(* Groups and instances                                                    *)

IsUse(n) == Node(n).kind = "group" /\ Meta(n).tag = "use"

\* The use instances that node n is in, its own included: they name the
\* instance of the source element it stands for.
Uses(n) == {u \in DOMAIN doc.nodes : IsUse(u) /\ (u = n \/ Below(u, n))}

\* The walk is in the groups around the node passed last and in no others: it
\* has passed the others and all that is below them.
OpenInv ==
  /\ \A k \in DOMAIN frames : frames[k] \in DOMAIN doc.nodes /\ frames[k] < next
  /\ \A k, l \in DOMAIN frames : k < l => Below(frames[k], frames[l])
  /\ \A g \in DOMAIN doc.nodes : g < next =>
       \/ \E k \in DOMAIN frames : frames[k] = g
       \/ End(g) <= next /\ \A k \in DOMAIN frames : ~Below(g, frames[k])

LEMMA BelowBelow ==
  ASSUME doc \in Documents, NEW a \in DOMAIN doc.nodes, NEW b \in DOMAIN doc.nodes,
         NEW c \in DOMAIN doc.nodes, Below(a, b), Below(b, c)
  PROVE  Below(a, c)
<1>1. /\ a \in Nat /\ b \in Nat /\ c \in Nat /\ End(a) \in Nat /\ End(b) \in Nat
      /\ End(b) <= End(a)
  BY NodeFacts
<1>2. a < b /\ b < c /\ c < End(b)
  BY DEF Below, End
<1>3. a < c /\ c < End(a)
  BY <1>1, <1>2
<1>4. QED
  BY <1>3 DEF Below, End

LEMMA OpenStill ==
  ASSUME OpenInv, UNCHANGED <<doc, frames, next>>
  PROVE  OpenInv'
BY DEF OpenInv, Below, End, Node

\* Moving past the next node.
LEMMA OpenPast ==
  ASSUME LowerInv, OpenInv, InGroup, UNCHANGED <<doc, frames>>, next' = End(next)
  PROVE  OpenInv'
<1>1. /\ next \in DOMAIN doc.nodes /\ next \in Nat /\ next < End(next) /\ End(next) \in Nat
      /\ doc \in Documents
  BY AtNext DEF LowerInv
<1>2. \A k \in DOMAIN frames : frames[k] \in Nat /\ frames[k] < next /\ frames[k] < End(next)
  BY <1>1, NodeFacts DEF OpenInv
<1>3. ASSUME NEW g \in DOMAIN doc.nodes, g < End(next)
      PROVE  \/ \E k \in DOMAIN frames : frames[k] = g
             \/ End(g) <= End(next) /\ \A k \in DOMAIN frames : ~Below(g, frames[k])
  <2>1. g \in Nat /\ End(g) \in Nat
    BY <1>1, NodeFacts
  <2>2. CASE g < next
    <3>1. \/ \E k \in DOMAIN frames : frames[k] = g
          \/ End(g) <= next /\ \A k \in DOMAIN frames : ~Below(g, frames[k])
      BY <2>2 DEF OpenInv
    <3>2. End(g) <= next => End(g) <= End(next)
      BY <1>1, <2>1
    <3>3. QED
      BY <3>1, <3>2
  <2>3. CASE ~(g < next)
    <3>1. g = next \/ Below(next, g)
      BY <1>1, <1>3, <2>1, <2>3 DEF Below, End
    <3>2. End(g) <= End(next)
      BY <1>1, <3>1, NodeFacts
    <3>3. ASSUME NEW k \in DOMAIN frames PROVE ~(g < frames[k])
      BY <1>1, <1>2, <2>1, <2>3
    <3>4. QED
      BY <3>2, <3>3 DEF Below
  <2>4. QED
    BY <2>2, <2>3
<1>4. /\ \A k \in DOMAIN frames : frames[k] \in DOMAIN doc.nodes /\ frames[k] < End(next)
      /\ \A k, l \in DOMAIN frames : k < l => Below(frames[k], frames[l])
  BY <1>2 DEF OpenInv
<1>5. QED
  BY <1>3, <1>4 DEF OpenInv, Below, End, Node

\* Entering the next node.
LEMMA OpenIn ==
  ASSUME LowerInv, OpenInv, InGroup, UNCHANGED doc, frames' = Append(frames, next),
         next' = next + 1
  PROVE  OpenInv'
<1>1. /\ next \in DOMAIN doc.nodes /\ next \in Nat /\ next < End(next) /\ End(next) \in Nat
      /\ doc \in Documents /\ frames # <<>> /\ Below(Last(frames), next)
  BY AtNext DEF LowerInv
<1> DEFINE n == Len(frames)
<1>2. /\ DOMAIN frames = 1 .. n /\ n \in Nat \ {0} /\ Last(frames) = frames[n]
      /\ DOMAIN frames' = 1 .. n + 1 /\ frames'[n + 1] = next
      /\ \A k \in 1 .. n : frames'[k] = frames[k]
  <2>1. frames \in Seq(DOMAIN doc.nodes)
    BY DEF LowerInv, WalkInv
  <2>2. frames' \in Seq(DOMAIN doc.nodes)
    BY <1>1, <2>1
  <2>3. n \in Nat \ {0} /\ Last(frames) = frames[n]
    BY <1>1, FrameFacts DEF LowerInv
  <2>4. QED
    BY <1>1, <2>1, <2>2, <2>3
<1> HIDE DEF n
<1>3. \A k \in 1 .. n + 1 : k \in 1 .. n \/ k = n + 1
  BY <1>2
<1>4. \A k \in 1 .. n : frames[k] \in DOMAIN doc.nodes /\ frames[k] \in Nat /\ frames[k] < next
  <2>1. \A k \in 1 .. n : frames[k] \in DOMAIN doc.nodes /\ frames[k] < next
    BY <1>2 DEF OpenInv
  <2>2. DOMAIN doc.nodes \subseteq Nat
    BY <1>1, NodeFacts
  <2>3. QED
    BY <2>1, <2>2
<1>5. \A k \in 1 .. n + 1 : frames'[k] \in DOMAIN doc.nodes /\ frames'[k] < next + 1
  <2>1. \A k \in 1 .. n : frames[k] < next + 1
    BY <1>1, <1>4
  <2>2. QED
    BY <1>1, <1>2, <1>3, <1>4, <2>1
<1>6. \A k \in 1 .. n : Below(frames[k], next)
  <2> SUFFICES ASSUME NEW k \in 1 .. n PROVE Below(frames[k], next)
    OBVIOUS
  <2>1. n \in 1 .. n /\ (k = n \/ k < n)
    BY <1>2
  <2>2. k < n => Below(frames[k], frames[n])
    BY <1>2, <2>1 DEF OpenInv
  <2>3. QED
    BY <1>1, <1>2, <1>4, <2>1, <2>2, BelowBelow
<1>7. ASSUME NEW k \in 1 .. n + 1, NEW l \in 1 .. n + 1, k < l
      PROVE  Below(frames'[k], frames'[l])
  <2>1. k \in 1 .. n /\ (l \in 1 .. n \/ l = n + 1)
    BY <1>2, <1>7
  <2>2. l \in 1 .. n => Below(frames[k], frames[l])
    BY <1>2, <1>7, <2>1 DEF OpenInv
  <2>3. QED
    BY <1>2, <1>6, <2>1, <2>2
<1>8. ASSUME NEW g \in DOMAIN doc.nodes, g < next + 1
      PROVE  \/ \E k \in 1 .. n + 1 : frames'[k] = g
             \/ End(g) <= next + 1 /\ \A k \in 1 .. n + 1 : ~Below(g, frames'[k])
  <2>1. g \in Nat /\ End(g) \in Nat /\ (g = next \/ g < next)
    BY <1>1, <1>8, NodeFacts
  <2>2. CASE g = next
    <3>1. n + 1 \in 1 .. n + 1
      BY <1>2
    <3>2. QED
      BY <1>2, <2>2, <3>1
  <2>3. CASE g < next
    <3>1. \/ \E k \in 1 .. n : frames[k] = g
          \/ End(g) <= next /\ \A k \in 1 .. n : ~Below(g, frames[k])
      BY <1>2, <2>3 DEF OpenInv
    <3>2. CASE \E k \in 1 .. n : frames[k] = g
      <4>1. PICK k \in 1 .. n : frames[k] = g
        BY <3>2
      <4>2. k \in 1 .. n + 1 /\ frames'[k] = g
        BY <1>2, <4>1
      <4>3. QED
        BY <4>2
    <3>3. CASE End(g) <= next /\ \A k \in 1 .. n : ~Below(g, frames[k])
      <4>1. End(g) <= next + 1 /\ ~(next < End(g))
        BY <1>1, <2>1, <3>3
      <4>2. ~Below(g, next)
        BY <4>1 DEF Below, End
      <4>3. QED
        BY <1>2, <1>3, <3>3, <4>1, <4>2
    <3>4. QED
      BY <3>1, <3>2, <3>3
  <2>4. QED
    BY <2>1, <2>2, <2>3
<1>9. QED
  BY <1>2, <1>5, <1>7, <1>8 DEF OpenInv, Below, End, Node

\* Leaving the innermost group.
LEMMA OpenOut ==
  ASSUME LowerInv, OpenInv, frames # <<>>, ~InGroup, UNCHANGED <<doc, next>>,
         frames' = Front(frames)
  PROVE  OpenInv'
<1> DEFINE n == Len(frames)
           last == Last(frames)
<1>1. /\ DOMAIN frames = 1 .. n /\ n \in Nat \ {0} /\ last = frames[n]
      /\ DOMAIN frames' = 1 .. n - 1 /\ \A k \in 1 .. n - 1 : frames'[k] = frames[k]
  <2>1. frames \in Seq(DOMAIN doc.nodes)
    BY DEF LowerInv, WalkInv
  <2>2. /\ frames' \in Seq(DOMAIN doc.nodes) /\ Len(frames') = n - 1
        /\ \A k \in 1 .. n - 1 : frames'[k] = frames[k]
    BY <2>1, FrontOf
  <2>3. n \in Nat \ {0} /\ last = frames[n]
    BY FrameFacts DEF LowerInv
  <2>4. QED
    BY <2>1, <2>2, <2>3
<1>2. doc \in Documents /\ next \in Nat
  BY DEF LowerInv, CountInv
<1>3. last \in DOMAIN doc.nodes /\ End(last) <= next
  <2>1. last \in DOMAIN doc.nodes
    BY FrameFacts DEF LowerInv
  <2>2. ~(next < End(last)) /\ End(last) \in Nat
    BY <1>2, <2>1, NodeFacts DEF InGroup, End
  <2>3. QED
    BY <1>2, <2>1, <2>2
<1> HIDE DEF n, last
<1>4. \A k \in 1 .. n - 1 : k \in 1 .. n /\ k < n /\ n \in 1 .. n
  BY <1>1
<1>5. \A k \in 1 .. n - 1 : Below(frames[k], last)
  BY <1>1, <1>4 DEF OpenInv
<1>6. \A k \in 1 .. n - 1 : ~Below(last, frames[k])
  <2> SUFFICES ASSUME NEW k \in 1 .. n - 1, Below(last, frames[k]) PROVE FALSE
    OBVIOUS
  <2>1. frames[k] < last /\ last < frames[k]
    BY <1>5 DEF Below
  <2>2. frames[k] \in Nat /\ last \in Nat
    <3>1. frames[k] \in DOMAIN doc.nodes
      BY <1>1, <1>4 DEF OpenInv
    <3>2. DOMAIN doc.nodes \subseteq Nat
      BY <1>2, NodeFacts
    <3>3. QED
      BY <1>3, <3>1, <3>2
  <2>3. QED
    BY <2>1, <2>2
<1>7. ASSUME NEW g \in DOMAIN doc.nodes, g < next
      PROVE  \/ \E k \in 1 .. n - 1 : frames[k] = g
             \/ End(g) <= next /\ \A k \in 1 .. n - 1 : ~Below(g, frames[k])
  <2>1. \/ \E k \in 1 .. n : frames[k] = g
        \/ End(g) <= next /\ \A k \in 1 .. n : ~Below(g, frames[k])
    BY <1>1, <1>7 DEF OpenInv
  <2>2. \A k \in 1 .. n : k \in 1 .. n - 1 \/ k = n
    BY <1>1
  <2>3. CASE g = last
    BY <1>3, <1>6, <2>3
  <2>4. CASE g # last
    BY <1>1, <1>4, <2>1, <2>2, <2>4
  <2>5. QED
    BY <2>3, <2>4
<1>8. /\ \A k \in 1 .. n - 1 : frames[k] \in DOMAIN doc.nodes /\ frames[k] < next
      /\ \A k, l \in 1 .. n - 1 : k < l => Below(frames[k], frames[l])
  BY <1>1, <1>4 DEF OpenInv
<1>9. QED
  BY <1>1, <1>7, <1>8 DEF OpenInv, Below, End, Node

\* The groups around a group the walk is in are those that it is in before it,
\* and those around the next node are all that it is in.
LEMMA Ancestry ==
  ASSUME LowerInv, OpenInv
  PROVE  /\ \A h \in ToSet(frames) :
              /\ h \in DOMAIN doc.nodes /\ h \in Nat /\ h < next /\ h <= Last(frames)
              /\ \A g \in DOMAIN doc.nodes :
                   g = h \/ Below(g, h) <=> g \in ToSet(frames) /\ g <= h
         /\ frames # <<>> => Last(frames) \in ToSet(frames)
         /\ InGroup => \A g \in DOMAIN doc.nodes : Below(g, next) <=> g \in ToSet(frames)
<1>1. /\ doc \in Documents /\ frames \in Seq(DOMAIN doc.nodes) /\ next \in Nat
      /\ DOMAIN doc.nodes \subseteq Nat
  BY NodeFacts DEF LowerInv, WalkInv, CountInv
<1> DEFINE n == Len(frames)
           open == ToSet(frames)
<1>2. /\ DOMAIN frames = 1 .. n /\ n \in Nat
      /\ \A k \in 1 .. n : frames[k] \in open /\ frames[k] \in Nat
      /\ \A h \in open : \E k \in 1 .. n : frames[k] = h
  BY <1>1 DEF ToSet
<1>3. frames # <<>> => n \in 1 .. n /\ Last(frames) = frames[n]
  <2>1. frames # <<>> => n \in Nat \ {0} /\ Last(frames) = frames[n]
    BY <1>1, FrameFacts DEF LowerInv
  <2>2. QED
    BY <2>1
<1> HIDE DEF n, open
<1>4. /\ \A k \in 1 .. n : frames[k] \in DOMAIN doc.nodes /\ frames[k] < next
      /\ \A k, l \in 1 .. n : k < l => Below(frames[k], frames[l]) /\ frames[k] < frames[l]
      /\ \A g \in DOMAIN doc.nodes : g < next =>
           \/ g \in open
           \/ End(g) <= next /\ \A k \in 1 .. n : ~Below(g, frames[k])
  <2>1. /\ \A k \in 1 .. n : frames[k] \in DOMAIN doc.nodes /\ frames[k] < next
        /\ \A k, l \in 1 .. n : k < l => Below(frames[k], frames[l])
        /\ \A g \in DOMAIN doc.nodes : g < next =>
             \/ \E k \in 1 .. n : frames[k] = g
             \/ End(g) <= next /\ \A k \in 1 .. n : ~Below(g, frames[k])
    BY <1>2 DEF OpenInv
  <2>2. \A k, l \in 1 .. n : Below(frames[k], frames[l]) => frames[k] < frames[l]
    BY DEF Below
  <2>3. QED
    BY <1>2, <2>1, <2>2
<1>5. ASSUME NEW h \in open
      PROVE  /\ h \in DOMAIN doc.nodes /\ h \in Nat /\ h < next /\ h <= Last(frames)
             /\ \A g \in DOMAIN doc.nodes : g = h \/ Below(g, h) <=> g \in open /\ g <= h
  <2>1. PICK l \in 1 .. n : frames[l] = h
    BY <1>2
  <2>2. h \in DOMAIN doc.nodes /\ h \in Nat /\ h < next
    BY <1>2, <1>4, <2>1
  <2>3. h <= Last(frames)
    <3>1. frames # <<>>
      BY <1>1, <2>1 DEF n
    <3>2. n \in 1 .. n /\ (l = n \/ l < n)
      BY <1>2, <2>1
    <3>3. l < n => h < frames[n]
      BY <1>4, <2>1, <3>2
    <3>4. QED
      BY <1>2, <1>3, <2>1, <2>2, <3>1, <3>2, <3>3
  <2>4. ASSUME NEW g \in DOMAIN doc.nodes, g \in open, g <= h PROVE g = h \/ Below(g, h)
    <3>1. PICK k \in 1 .. n : frames[k] = g
      BY <1>2, <2>4
    <3>2. k = l \/ k < l \/ l < k
      BY <1>2
    <3>3. ~(l < k)
      <4>1. l < k => h < g
        BY <1>4, <2>1, <3>1
      <4>2. g \in Nat
        BY <1>1
      <4>3. QED
        BY <2>2, <2>4, <4>1, <4>2
    <3>4. QED
      BY <1>4, <2>1, <3>1, <3>2, <3>3
  <2>5. ASSUME NEW g \in DOMAIN doc.nodes, g = h \/ Below(g, h) PROVE g \in open /\ g <= h
    <3>1. CASE g = h
      BY <2>2, <3>1
    <3>2. CASE Below(g, h)
      <4>1. g < h /\ g \in Nat
        BY <1>1, <3>2 DEF Below
      <4>2. g < next /\ g <= h
        BY <1>1, <2>2, <4>1
      <4>3. QED
        BY <1>4, <2>1, <3>2, <4>2
    <3>3. QED
      BY <2>5, <3>1, <3>2
  <2>6. QED
    BY <2>2, <2>3, <2>4, <2>5
<1>6. ASSUME InGroup, NEW g \in DOMAIN doc.nodes PROVE Below(g, next) <=> g \in open
  <2>1. /\ next \in DOMAIN doc.nodes /\ frames # <<>> /\ Below(Last(frames), next)
        /\ Last(frames) \in DOMAIN doc.nodes
    BY <1>1, <1>6, AtNext DEF LowerInv
  <2>2. Last(frames) \in open
    BY <1>2, <1>3, <2>1
  <2>3. ASSUME g \in open PROVE Below(g, next)
    <3>1. g = Last(frames) \/ Below(g, Last(frames))
      BY <1>5, <2>2, <2>3
    <3>2. QED
      BY <1>1, <2>1, <3>1, BelowBelow
  <2>4. ASSUME Below(g, next) PROVE g \in open
    <3>1. g < next /\ ~(End(g) <= next)
      <4>1. g < next /\ next < End(g) /\ End(g) \in Nat
        BY <1>1, <2>4, NodeFacts DEF Below, End
      <4>2. QED
        BY <1>1, <4>1
    <3>2. QED
      BY <1>4, <3>1
  <2>5. QED
    BY <2>3, <2>4
<1>7. frames # <<>> => Last(frames) \in open
  BY <1>2, <1>3
<1>8. QED
  BY <1>5, <1>6, <1>7 DEF open

-----------------------------------------------------------------------------
(* Group keys                                                              *)

\* What gets a group: an explicit group, and a compound fill if it is decomposed.
Grouping(g) == (Node(g).kind = "group" /\ Explicit(g)) \/ CompoundFill(g)

\* The explicit groups around node n, and the groups an element is to be in.
Around(n)  == {g \in DOMAIN doc.nodes : Explicit(g) /\ Below(g, n)}
Grouped(e) == CompoundFill(e.node) /\ e.piece # 0
OwnersOf(e) == Around(e.node) \cup (IF Grouped(e) THEN {e.node} ELSE {})

\* A source element makes one paint node that gets a group in each use instance
\* of it, and a compound fill is known by its source element.
Correlated ==
  /\ \A n \in DOMAIN doc.nodes : CompoundFill(n) => Known(n)
  /\ \A g, h \in DOMAIN doc.nodes :
       /\ Grouping(g) /\ Grouping(h)
       /\ Node(g).src = Node(h).src /\ Uses(g) = Uses(h)
       => g = h

\* The use instances entered so far, each named by the use instances around it
\* and itself, are numbered.
Numbering(number) ==
  /\ {} \in DOMAIN number /\ number[{}] = 0
  /\ \A A \in DOMAIN number : /\ number[A] \in Nat /\ number[A] <= nextInstance
                              /\ \A u \in A : u \in Nat /\ u < next
  /\ \A A, B \in DOMAIN number : number[A] = number[B] => A = B

InstancesOf(number) == [g \in DOMAIN doc.nodes |-> number[Uses(g)]]
KeysOf(number) ==
  [g \in DOMAIN doc.nodes |-> [order |-> Node(g).src - 1, instance |-> number[Uses(g)]]]

OwnFrames == {g \in ToSet(frames) : Explicit(g)}
UseFrames == {g \in ToSet(frames) : Meta(g).tag = "use"}

\* The walk has the keys of the explicit groups it is in and the numbers of the
\* use instances, and each element has the keys of the groups it is to be in.
Tracking(number) ==
  /\ \A g \in ToSet(frames) : Node(g).kind = "group" /\ Uses(g) \in DOMAIN number
  /\ Stack(activeGroups, OwnFrames, KeysOf(number))
  /\ Stack(activeInstances, UseFrames, InstancesOf(number))
Labelled(number) ==
  \A i \in DOMAIN elements :
    /\ \A g \in OwnersOf(elements[i]) : Uses(g) \in DOMAIN number
    /\ Stack(elements[i].groups, OwnersOf(elements[i]), KeysOf(number))

GroupInv == result = "none" /\ Correlated =>
              \E number : Numbering(number) /\ Tracking(number) /\ Labelled(number)

\* A finite set of numbers that is not empty has a greatest one.
LEMMA StackTop ==
  ASSUME NEW keys, NEW S, NEW L, Stack(keys, S, L), S # {}
  PROVE  \E x \in S : \A y \in S : y <= x
<1>1. PICK s : Ascends(s, S) /\ keys = Labels(s, L)
  BY DEF Stack
<1>2. /\ s \in Seq(Nat) /\ DOMAIN s = 1 .. Len(s) /\ Len(s) \in Nat /\ S \subseteq Nat
      /\ \A k \in DOMAIN s : s[k] \in S
      /\ \A y \in S : \E k \in DOMAIN s : s[k] = y
  BY <1>1, StackOf
<1>3. Len(s) \in 1 .. Len(s)
  <2>1. PICK y \in S : TRUE
    OBVIOUS
  <2>2. PICK k \in 1 .. Len(s) : s[k] = y
    BY <1>2, <2>1
  <2> DEFINE n == Len(s)
  <2> HIDE DEF n
  <2>3. k \in 1 .. n /\ n \in Nat
    BY <1>2 DEF n
  <2>4. n \in 1 .. n
    BY <2>3
  <2>5. QED
    BY <2>4 DEF n
<1>4. ASSUME NEW y \in S PROVE y <= s[Len(s)]
  <2>1. PICK k \in 1 .. Len(s) : s[k] = y
    BY <1>2
  <2>2. k < Len(s) => s[k] < s[Len(s)]
    BY <1>1, <1>2, <1>3 DEF Ascends
  <2>3. k = Len(s) \/ k < Len(s)
    <3> DEFINE n == Len(s)
    <3> HIDE DEF n
    <3>1. k \in 1 .. n /\ n \in Nat
      BY <1>2 DEF n
    <3>2. k = n \/ k < n
      BY <3>1
    <3>3. QED
      BY <3>2 DEF n
  <2>4. y \in Nat /\ s[Len(s)] \in Nat
    BY <1>2, <1>3
  <2>5. QED
    BY <2>1, <2>2, <2>3, <2>4
<1>5. QED
  BY <1>2, <1>3, <1>4

LEMMA OpenUses ==
  ASSUME LowerInv, OpenInv, frames # <<>>, \A g \in ToSet(frames) : Node(g).kind = "group"
  PROVE  /\ \A h \in UseFrames : Uses(h) = {u \in UseFrames : u <= h}
         /\ Uses(Last(frames)) = UseFrames /\ Last(frames) \in ToSet(frames)
         /\ InGroup => /\ Uses(next) = UseFrames \cup (IF IsUse(next) THEN {next} ELSE {})
                       /\ Around(next) = OwnFrames
<1> DEFINE open == ToSet(frames)
           last == Last(frames)
<1>1. /\ \A h \in open :
           /\ h \in DOMAIN doc.nodes /\ h \in Nat /\ h < next /\ h <= last
           /\ \A g \in DOMAIN doc.nodes : g = h \/ Below(g, h) <=> g \in open /\ g <= h
      /\ last \in open
      /\ InGroup => \A g \in DOMAIN doc.nodes : Below(g, next) <=> g \in open
  BY Ancestry
<1> HIDE DEF open, last
<1>2. \A u \in open : IsUse(u) <=> u \in UseFrames
  BY DEF open, UseFrames, IsUse
<1>3. UseFrames \subseteq open /\ OwnFrames \subseteq open
  BY DEF open, UseFrames, OwnFrames
<1>4. ASSUME NEW h \in open PROVE Uses(h) = {u \in UseFrames : u <= h}
  BY <1>1, <1>2, <1>3 DEF Uses
<1>5. Uses(last) = UseFrames
  BY <1>1, <1>3, <1>4
<1>6. ASSUME InGroup
      PROVE  /\ Uses(next) = UseFrames \cup (IF IsUse(next) THEN {next} ELSE {})
             /\ Around(next) = OwnFrames
  <2>1. next \in DOMAIN doc.nodes
    BY <1>6, AtNext DEF LowerInv
  <2>2. \A g \in DOMAIN doc.nodes : Below(g, next) <=> g \in open
    BY <1>1, <1>6
  <2>3. open \subseteq DOMAIN doc.nodes
    BY <1>1
  <2>4. Uses(next) = UseFrames \cup (IF IsUse(next) THEN {next} ELSE {})
    BY <1>2, <1>3, <2>1, <2>2, <2>3 DEF Uses
  <2>5. Around(next) = OwnFrames
    BY <2>2, <2>3 DEF Around, OwnFrames, open
  <2>6. QED
    BY <2>4, <2>5
<1>7. QED
  BY <1>1, <1>3, <1>4, <1>5, <1>6 DEF open, last

\* The number of the innermost use instance is that of the instances around.
LEMMA CurrentIs ==
  ASSUME LowerInv, OpenInv, frames # <<>>, NEW number, Numbering(number), Tracking(number)
  PROVE  /\ UseFrames \in DOMAIN number /\ CurrentInstance = number[UseFrames]
<1>1. /\ \A h \in UseFrames : Uses(h) = {u \in UseFrames : u <= h}
      /\ Uses(Last(frames)) = UseFrames /\ Last(frames) \in ToSet(frames)
  BY OpenUses DEF Tracking
<1>2. UseFrames \in DOMAIN number
  BY <1>1 DEF Tracking
<1>3. Stack(activeInstances, UseFrames, InstancesOf(number))
  BY DEF Tracking
<1>4. CASE UseFrames = {}
  <2>1. activeInstances = <<>>
    BY <1>3, <1>4, StackTyped
  <2>2. QED
    BY <1>2, <1>4, <2>1 DEF CurrentInstance, Numbering
<1>5. CASE UseFrames # {}
  <2>1. PICK x \in UseFrames : \A y \in UseFrames : y <= x
    BY <1>3, <1>5, StackTop
  <2>2. activeInstances # <<>> /\ Last(activeInstances) = InstancesOf(number)[x]
    BY <1>3, <2>1, StackPop
  <2>3. Uses(x) = UseFrames
    BY <1>1, <2>1
  <2>4. x \in DOMAIN doc.nodes
    BY Ancestry DEF UseFrames
  <2>5. InstancesOf(number)[x] = number[Uses(x)]
    BY <2>4 DEF InstancesOf
  <2>6. QED
    BY <1>2, <2>2, <2>3, <2>5 DEF CurrentInstance
<1>6. QED
  BY <1>4, <1>5

\* These are facts about the document, which never changes.
LEMMA SameGroups ==
  ASSUME UNCHANGED doc
  PROVE  /\ \A n : /\ Explicit(n)' = Explicit(n) /\ Uses(n)' = Uses(n) /\ Around(n)' = Around(n)
                   /\ OwnersOf(n)' = OwnersOf(n) /\ Grouped(n)' = Grouped(n)
                   /\ CompoundFill(n)' = CompoundFill(n)
                   /\ KeysOf(n)' = KeysOf(n) /\ InstancesOf(n)' = InstancesOf(n)
         /\ Correlated' = Correlated
<1>1. \A n : Node(n)' = Node(n) /\ Meta(n)' = Meta(n)
  BY SameDocument
<1>2. \A n : Known(n)' = Known(n)
  BY <1>1 DEF Known, Anchored
<1>3. \A n : /\ Explicit(n)' = Explicit(n) /\ IsUse(n)' = IsUse(n)
             /\ CompoundFill(n)' = CompoundFill(n) /\ \A m : Below(n, m)' = Below(n, m)
  BY <1>1 DEF Explicit, IsUse, CompoundFill, Below
<1>4. \A n : Uses(n)' = Uses(n) /\ Around(n)' = Around(n)
  BY <1>3 DEF Uses, Around
<1>5. \A n : Grouped(n)' = Grouped(n) /\ OwnersOf(n)' = OwnersOf(n)
  BY <1>3, <1>4 DEF Grouped, OwnersOf
<1>6. \A n : KeysOf(n)' = KeysOf(n) /\ InstancesOf(n)' = InstancesOf(n)
  BY <1>1, <1>4 DEF KeysOf, InstancesOf
<1>7. Correlated' = Correlated
  BY <1>1, <1>2, <1>3, <1>4 DEF Correlated, Grouping
<1>8. QED
  BY <1>3, <1>4, <1>5, <1>6, <1>7

LEMMA NumberingLater ==
  ASSUME NEW number, Numbering(number), next \in Nat, next' \in Nat, next <= next',
         UNCHANGED nextInstance
  PROVE  Numbering(number)'
<1>1. \A A \in DOMAIN number : \A u \in A : u \in Nat /\ u < next'
  BY DEF Numbering
<1>2. QED
  BY <1>1 DEF Numbering

LEMMA TrackingSame ==
  ASSUME NEW number, Tracking(number), UNCHANGED <<doc, frames, activeGroups, activeInstances>>
  PROVE  Tracking(number)'
<1>1. \A n : Node(n)' = Node(n) /\ Meta(n)' = Meta(n)
  BY SameDocument
<1>2. /\ \A n : Explicit(n)' = Explicit(n) /\ Uses(n)' = Uses(n)
      /\ KeysOf(number)' = KeysOf(number) /\ InstancesOf(number)' = InstancesOf(number)
  BY SameGroups
<1>3. OwnFrames' = OwnFrames /\ UseFrames' = UseFrames
  BY <1>1, <1>2 DEF OwnFrames, UseFrames
<1>4. QED
  BY <1>1, <1>2, <1>3 DEF Tracking

\* Steps that leave the groups the walk is in and the elements alone.
LEMMA GroupsAlong ==
  ASSUME LowerInv, GroupInv, next' \in Nat, next <= next', result' = "none" => result = "none",
         UNCHANGED <<doc, frames, activeGroups, activeInstances, nextInstance, elements>>
  PROVE  GroupInv'
<1> SUFFICES ASSUME result' = "none", Correlated'
             PROVE  (\E number : Numbering(number) /\ Tracking(number) /\ Labelled(number))'
  BY DEF GroupInv
<1>0. Correlated
  BY SameGroups
<1>1. result = "none" /\ Correlated /\ next \in Nat
  BY <1>0 DEF LowerInv, CountInv
<1>2. PICK number : Numbering(number) /\ Tracking(number) /\ Labelled(number)
  BY <1>1 DEF GroupInv
<1>3. Numbering(number)' /\ Tracking(number)'
  BY <1>1, <1>2, NumberingLater, TrackingSame
<1>4. Labelled(number)'
  <2>1. /\ \A n : Uses(n)' = Uses(n) /\ OwnersOf(n)' = OwnersOf(n)
        /\ KeysOf(number)' = KeysOf(number)
    BY SameGroups
  <2>2. QED
    BY <1>2, <2>1 DEF Labelled
<1>5. QED
  BY <1>3, <1>4

\* The key that the parts of a compound fill get.
FillKey == [order |-> SourceOrder(next), instance |-> CurrentInstance]

\* The elements of a node that is decided as a whole are in the groups the walk
\* is in, or the parts of a fill in one more.
LEMMA NextLabelled ==
  ASSUME LowerInv, OpenInv, InGroup, Correlated, NEW number, Numbering(number), Tracking(number),
         NEW e, e.node = next,
         e.groups = IF Grouped(e) THEN Append(activeGroups, FillKey) ELSE activeGroups
  PROVE  /\ \A g \in OwnersOf(e) : Uses(g) \in DOMAIN number
         /\ Stack(e.groups, OwnersOf(e), KeysOf(number))
<1>1. frames # <<>> /\ next \in DOMAIN doc.nodes /\ next \in Nat
  BY AtNext DEF LowerInv
<1>2. /\ Uses(next) = UseFrames \cup (IF IsUse(next) THEN {next} ELSE {})
      /\ Around(next) = OwnFrames
  BY <1>1, OpenUses DEF Tracking
<1>3. UseFrames \in DOMAIN number /\ CurrentInstance = number[UseFrames]
  BY <1>1, CurrentIs
<1>4. \A g \in OwnFrames : g \in Nat /\ g < next /\ Uses(g) \in DOMAIN number
  <2>1. OwnFrames \subseteq ToSet(frames)
    BY DEF OwnFrames
  <2>2. \A g \in ToSet(frames) : g \in Nat /\ g < next
    BY Ancestry
  <2>3. QED
    BY <2>1, <2>2 DEF Tracking
<1>5. Stack(activeGroups, OwnFrames, KeysOf(number))
  BY DEF Tracking
<1>6. CASE ~Grouped(e)
  <2>1. OwnersOf(e) = OwnFrames /\ e.groups = activeGroups
    BY <1>2, <1>6 DEF OwnersOf
  <2>2. QED
    BY <1>4, <1>5, <2>1
<1>7. CASE Grouped(e)
  <2>1. CompoundFill(next)
    BY <1>7 DEF Grouped
  <2>2. Uses(next) = UseFrames /\ Known(next)
    BY <1>1, <1>2, <2>1 DEF CompoundFill, IsUse, Correlated
  <2>3. FillKey = KeysOf(number)[next]
    BY <1>1, <1>3, <2>2 DEF FillKey, SourceOrder, KeysOf
  <2>4. OwnersOf(e) = OwnFrames \cup {next} /\ e.groups = Append(activeGroups, FillKey)
    BY <1>2, <1>7 DEF OwnersOf
  <2>5. Stack(Append(activeGroups, KeysOf(number)[next]), OwnFrames \cup {next}, KeysOf(number))
    BY <1>1, <1>4, <1>5, StackPush
  <2>6. QED
    BY <1>3, <1>4, <2>2, <2>3, <2>4, <2>5
<1>8. QED
  BY <1>6, <1>7

LEMMA GroupsAdd ==
  ASSUME LowerInv, OpenInv, GroupInv, InGroup, result = "none", next' = End(next),
         UNCHANGED <<doc, frames, activeGroups, activeInstances, nextInstance>>,
         NEW more, Adds(more),
         \A i \in DOMAIN more :
           more[i].groups = IF Grouped(more[i]) THEN Append(activeGroups, FillKey)
                            ELSE activeGroups
  PROVE  GroupInv'
<1> SUFFICES ASSUME Correlated'
             PROVE  (\E number : Numbering(number) /\ Tracking(number) /\ Labelled(number))'
  BY DEF GroupInv
<1>0. Correlated
  BY SameGroups
<1>1. Correlated /\ next \in Nat /\ next' \in Nat /\ next <= next'
  BY <1>0, AtNext DEF LowerInv
<1>2. PICK number : Numbering(number) /\ Tracking(number) /\ Labelled(number)
  BY <1>1 DEF GroupInv
<1>3. Numbering(number)' /\ Tracking(number)'
  BY <1>1, <1>2, NumberingLater, TrackingSame
<1>4. /\ elements \in Seq(ToSet(elements)) /\ more \in Seq(ToSet(more))
      /\ elements' = elements \o more /\ \A i \in DOMAIN more : more[i].node = next
  BY DEF LowerInv, Adds, Fresh
<1>5. /\ \A n : Uses(n)' = Uses(n) /\ OwnersOf(n)' = OwnersOf(n)
      /\ KeysOf(number)' = KeysOf(number)
  BY SameGroups
<1>6. ASSUME NEW i \in DOMAIN elements'
      PROVE  /\ \A g \in OwnersOf(elements'[i]) : Uses(g) \in DOMAIN number
             /\ Stack(elements'[i].groups, OwnersOf(elements'[i]), KeysOf(number))
  <2>1. CASE i \in DOMAIN elements
    <3>1. elements'[i] = elements[i]
      BY <1>4, <2>1, JoinParts
    <3>2. QED
      BY <1>2, <2>1, <3>1 DEF Labelled
  <2>2. CASE i \notin DOMAIN elements
    <3>1. i - Len(elements) \in DOMAIN more /\ elements'[i] = more[i - Len(elements)]
      BY <1>4, <2>2, JoinParts
    <3> DEFINE e == elements'[i]
    <3>2. /\ e.node = next
          /\ e.groups = IF Grouped(e) THEN Append(activeGroups, FillKey) ELSE activeGroups
      BY <1>4, <3>1
    <3> HIDE DEF e
    <3>3. /\ \A g \in OwnersOf(e) : Uses(g) \in DOMAIN number
          /\ Stack(e.groups, OwnersOf(e), KeysOf(number))
      BY <1>1, <1>2, <3>2, NextLabelled
    <3>4. QED
      BY <3>3 DEF e
  <2>3. QED
    BY <2>1, <2>2
<1>7. Labelled(number)'
  BY <1>5, <1>6 DEF Labelled
<1>8. QED
  BY <1>3, <1>7

LEMMA GroupsDecide ==
  ASSUME LowerInv, OpenInv, GroupInv, NEW plan, NEW isPromoted, DecidedStep(plan, isPromoted)
  PROVE  GroupInv'
<1>1. /\ InGroup /\ result = "none" /\ next' = End(next)
      /\ UNCHANGED <<doc, frames, activeGroups, activeInstances, nextInstance>>
      /\ Shaped(next, plan) /\ plan.drawn \in Seq(Drawings)
  BY DEF DecidedStep, Pass, AtChild, input, End, PlanFor, Plans
<1>2. CASE Quiet
  <2>1. next' \in Nat /\ next <= next'
    BY <1>1, AtNext DEF LowerInv
  <2>2. QED
    BY <1>1, <1>2, <2>1, GroupsAlong DEF Quiet
<1>3. CASE Emitted(next, plan)
  <2> DEFINE more == Emission(next, plan)
  <2>1. Adds(more)
    BY <1>3, Emits
  <2>2. ASSUME NEW i \in DOMAIN more
        PROVE  more[i].groups = IF Grouped(more[i]) THEN Append(activeGroups, FillKey)
                                ELSE activeGroups
    <3>1. /\ i \in DOMAIN plan.drawn /\ i \in Nat
          /\ more[i] = Element(next, plan.drawn[i], Keys(next, plan))
      BY <1>1, EmissionOf
    <3>2. /\ more[i].node = next /\ more[i].piece = plan.drawn[i].piece
          /\ more[i].groups = Keys(next, plan)
      BY <3>1 DEF Element
    <3>3. Grouped(more[i]) <=> CompoundFill(next) /\ plan.drawn[i].piece # 0
      BY <3>2 DEF Grouped
    <3>4. plan.do = "decompose" => CompoundFill(next) /\ plan.drawn[i].piece # 0
      <4>1. i # 0
        BY <1>1, <3>1
      <4>2. QED
        BY <1>1, <3>1, <4>1 DEF Shaped
    <3>5. plan.do # "decompose" => ~(CompoundFill(next) /\ plan.drawn[i].piece # 0)
      BY <1>1, <1>3, <3>1 DEF Shaped, Emitted
    <3>6. QED
      BY <3>2, <3>3, <3>4, <3>5 DEF Keys, FillKey
  <2> HIDE DEF more
  <2>3. QED
    BY <1>1, <2>1, <2>2, GroupsAdd
<1>4. CASE Pictured(next, plan)
  <2> DEFINE e    == ImageElement(next)
             more == <<e>>
  <2>1. Adds(more)
    BY <1>4, Pictures
  <2>2. e.piece = 0 /\ e.groups = activeGroups
    BY DEF ImageElement
  <2>3. ~Grouped(e)
    BY <2>2 DEF Grouped
  <2>4. e \in {e}
    OBVIOUS
  <2>5. \A i \in DOMAIN more : i = 1 /\ more[1] = e
    BY <2>4, OneRole
  <2> HIDE DEF more, e
  <2>6. \A i \in DOMAIN more :
          more[i].groups = IF Grouped(more[i]) THEN Append(activeGroups, FillKey)
                           ELSE activeGroups
    BY <2>2, <2>3, <2>5
  <2>7. QED
    BY <1>1, <2>1, <2>6, GroupsAdd
<1>5. QED
  BY <1>2, <1>3, <1>4, DecidedAdds

\* The numbers of the instances entered before stay when one more is numbered.
LEMMA LabelledMore ==
  ASSUME NEW number, Labelled(number), NEW more, UNCHANGED <<doc, elements>>,
         \A A \in DOMAIN number : A \in DOMAIN more /\ more[A] = number[A],
         ElementInv, LowerInv
  PROVE  Labelled(more)'
<1>1. /\ \A n : Uses(n)' = Uses(n) /\ OwnersOf(n)' = OwnersOf(n)
      /\ KeysOf(more)' = KeysOf(more)
  BY SameGroups
<1>2. ASSUME NEW i \in DOMAIN elements
      PROVE  /\ \A g \in OwnersOf(elements[i]) : Uses(g) \in DOMAIN more
             /\ Stack(elements[i].groups, OwnersOf(elements[i]), KeysOf(more))
  <2> DEFINE S == OwnersOf(elements[i])
             keys == elements[i].groups
  <2>1. S \subseteq DOMAIN doc.nodes
    <3>1. elements[i].node \in DOMAIN doc.nodes
      BY DEF ElementInv, Made
    <3>2. QED
      BY <3>1 DEF OwnersOf, Around
  <2>2. (\A g \in S : Uses(g) \in DOMAIN number) /\ Stack(keys, S, KeysOf(number))
    BY DEF Labelled
  <2> HIDE DEF S, keys
  <2>3. \A g \in S : KeysOf(number)[g] = KeysOf(more)[g]
    BY <2>1, <2>2 DEF KeysOf
  <2>4. Stack(keys, S, KeysOf(more))
    BY <2>2, <2>3, StackSame
  <2>5. QED
    BY <2>2, <2>4 DEF S, keys
<1>3. QED
  BY <1>1, <1>2 DEF Labelled

LEMMA TrackingMore ==
  ASSUME LowerInv, OpenInv, EnterGroup, NEW number, Numbering(number), Tracking(number), NEW more,
         \A A \in DOMAIN number : A \in DOMAIN more /\ more[A] = number[A],
         Uses(next) \in DOMAIN more, CurrentInstance' = more[Uses(next)],
         activeInstances' = IF Meta(next).tag = "use"
                            THEN Append(activeInstances, more[Uses(next)]) ELSE activeInstances
  PROVE  Tracking(more)'
<1>1. /\ InGroup /\ UNCHANGED doc /\ frames' = Append(frames, next)
      /\ Node(next).kind = "group"
      /\ activeGroups' = IF Explicit(next)
                         THEN Append(activeGroups, [order |-> Node(next).src - 1,
                                                    instance |-> CurrentInstance'])
                         ELSE activeGroups
  BY DEF EnterGroup, Selected, AtChild, input
<1>2. frames # <<>> /\ next \in DOMAIN doc.nodes /\ next \in Nat
  BY <1>1, AtNext DEF LowerInv
<1>3. \A g \in ToSet(frames) : g \in DOMAIN doc.nodes /\ g \in Nat /\ g < next
  BY Ancestry
<1>4. ToSet(frames') = ToSet(frames) \cup {next}
  <2>1. frames \in Seq(DOMAIN doc.nodes)
    BY DEF LowerInv, WalkInv
  <2>2. /\ DOMAIN frames' = 1 .. Len(frames) + 1 /\ DOMAIN frames = 1 .. Len(frames)
        /\ \A k \in DOMAIN frames : frames'[k] = frames[k] /\ k \in DOMAIN frames'
        /\ frames'[Len(frames) + 1] = next /\ Len(frames) + 1 \in DOMAIN frames'
        /\ \A k \in DOMAIN frames' : k \in DOMAIN frames \/ k = Len(frames) + 1
    BY <1>1, <1>2, <2>1
  <2>3. QED
    BY <2>2 DEF ToSet
<1>5. \A n : /\ Node(n)' = Node(n) /\ Meta(n)' = Meta(n) /\ Explicit(n)' = Explicit(n)
             /\ Uses(n)' = Uses(n)
  BY <1>1, SameDocument, SameGroups
<1>6. KeysOf(more)' = KeysOf(more) /\ InstancesOf(more)' = InstancesOf(more)
  BY <1>1, SameGroups
<1>7. /\ OwnFrames' = OwnFrames \cup (IF Explicit(next) THEN {next} ELSE {})
      /\ UseFrames' = UseFrames \cup (IF Meta(next).tag = "use" THEN {next} ELSE {})
  BY <1>4, <1>5 DEF OwnFrames, UseFrames
<1>8. \A g \in ToSet(frames) : Uses(g) \in DOMAIN more /\ KeysOf(number)[g] = KeysOf(more)[g]
                               /\ InstancesOf(number)[g] = InstancesOf(more)[g]
  <2>1. \A g \in ToSet(frames) : Uses(g) \in DOMAIN number
    BY DEF Tracking
  <2>2. QED
    BY <1>3, <2>1 DEF KeysOf, InstancesOf
<1>9. OwnFrames \subseteq ToSet(frames) /\ UseFrames \subseteq ToSet(frames)
  BY DEF OwnFrames, UseFrames
<1>10. /\ Stack(activeGroups, OwnFrames, KeysOf(more))
       /\ Stack(activeInstances, UseFrames, InstancesOf(more))
  <2>1. /\ Stack(activeGroups, OwnFrames, KeysOf(number))
        /\ Stack(activeInstances, UseFrames, InstancesOf(number))
    BY DEF Tracking
  <2>2. QED
    BY <1>8, <1>9, <2>1, StackSame
<1>11. Stack(activeGroups', OwnFrames', KeysOf(more))
  <2>1. CASE Explicit(next)
    <3>1. KeysOf(more)[next] = [order |-> Node(next).src - 1, instance |-> CurrentInstance']
      BY <1>2 DEF KeysOf
    <3>2. activeGroups' = Append(activeGroups, KeysOf(more)[next])
      BY <1>1, <2>1, <3>1
    <3>3. Stack(Append(activeGroups, KeysOf(more)[next]), OwnFrames \cup {next}, KeysOf(more))
      BY <1>2, <1>3, <1>9, <1>10, StackPush
    <3>4. QED
      BY <1>7, <2>1, <3>2, <3>3
  <2>2. CASE ~Explicit(next)
    BY <1>1, <1>7, <1>10, <2>2
  <2>3. QED
    BY <2>1, <2>2
<1>12. Stack(activeInstances', UseFrames', InstancesOf(more))
  <2>1. CASE Meta(next).tag = "use"
    <3>1. InstancesOf(more)[next] = more[Uses(next)]
      BY <1>2 DEF InstancesOf
    <3>2. activeInstances' = Append(activeInstances, InstancesOf(more)[next])
      BY <2>1, <3>1
    <3>3. Stack(Append(activeInstances, InstancesOf(more)[next]), UseFrames \cup {next},
                InstancesOf(more))
      BY <1>2, <1>3, <1>9, <1>10, StackPush
    <3>4. QED
      BY <1>7, <2>1, <3>2, <3>3
  <2>2. CASE Meta(next).tag # "use"
    BY <1>7, <1>10, <2>2
  <2>3. QED
    BY <2>1, <2>2
<1>13. \A g \in ToSet(frames') : Node(g).kind = "group" /\ Uses(g) \in DOMAIN more
  BY <1>1, <1>4, <1>8 DEF Tracking
<1>14. (\A g \in ToSet(frames) : Node(g).kind = "group" /\ Uses(g) \in DOMAIN more)'
  <2>1. ToSet(frames)' = ToSet(frames')
    BY DEF ToSet
  <2>2. QED
    BY <1>5, <1>13, <2>1
<1>15. /\ Stack(activeGroups, OwnFrames, KeysOf(more))'
       /\ Stack(activeInstances, UseFrames, InstancesOf(more))'
  BY <1>6, <1>11, <1>12
<1>16. QED
  BY <1>14, <1>15 DEF Tracking

LEMMA GroupsEnter ==
  ASSUME LowerInv, ElementInv, OpenInv, GroupInv, EnterGroup
  PROVE  GroupInv'
<1> SUFFICES ASSUME Correlated'
             PROVE  (\E number : Numbering(number) /\ Tracking(number) /\ Labelled(number))'
  BY DEF GroupInv
<1> DEFINE instances == IF Meta(next).tag = "use"
                        THEN Append(activeInstances, nextInstance + 1) ELSE activeInstances
<1>1. /\ InGroup /\ UNCHANGED <<doc, elements>> /\ next' = next + 1 /\ result = "none"
      /\ Node(next).kind = "group" /\ activeInstances' = instances
      /\ nextInstance' = nextInstance + Len(instances) - Len(activeInstances)
  BY DEF EnterGroup, Selected, AtChild, input
<1>2. Correlated
  BY <1>1, SameGroups
<1>3. PICK number : Numbering(number) /\ Tracking(number) /\ Labelled(number)
  BY <1>1, <1>2 DEF GroupInv
<1>4. frames # <<>> /\ next \in DOMAIN doc.nodes /\ next \in Nat /\ next' \in Nat /\ next < next'
  BY <1>1, AtNext DEF LowerInv
<1>5. /\ Uses(next) = UseFrames \cup (IF IsUse(next) THEN {next} ELSE {})
      /\ (IsUse(next) <=> Meta(next).tag = "use")
  BY <1>1, <1>3, <1>4, OpenUses DEF Tracking, IsUse
<1>6. UseFrames \in DOMAIN number /\ CurrentInstance = number[UseFrames]
  BY <1>3, <1>4, CurrentIs
<1>7. /\ activeInstances \in Seq(1 .. nextInstance) /\ nextInstance \in Nat
  BY DEF LowerInv, TypeOK, CountInv
<1>8. CASE Meta(next).tag # "use"
  <2>1. activeInstances' = activeInstances /\ nextInstance' = nextInstance
    BY <1>1, <1>7, <1>8
  <2>2. Numbering(number)'
    BY <1>3, <1>4, <2>1, NumberingLater
  <2>3. Uses(next) = UseFrames /\ CurrentInstance' = CurrentInstance
    BY <1>5, <1>8, <2>1 DEF CurrentInstance
  <2>4. Tracking(number)'
    BY <1>3, <1>6, <1>8, <2>1, <2>3, TrackingMore
  <2>5. Labelled(number)'
    BY <1>1, <1>3, LabelledMore
  <2>6. QED
    BY <2>2, <2>4, <2>5
<1>9. CASE Meta(next).tag = "use"
  <2> DEFINE N == Uses(next)
  <2>0. PICK more : more = [A \in DOMAIN number \cup {N} |->
                              IF A = N THEN nextInstance + 1 ELSE number[A]]
    OBVIOUS
  <2>1. N = UseFrames \cup {next}
    BY <1>5, <1>9
  <2>2. /\ activeInstances' = Append(activeInstances, nextInstance + 1)
        /\ nextInstance' = nextInstance + 1
        /\ activeInstances' # <<>> /\ Last(activeInstances') = nextInstance + 1
    <3> DEFINE x == nextInstance + 1
    <3>1. x \in Nat
      BY <1>7
    <3> HIDE DEF x
    <3>2. activeInstances' = Append(activeInstances, x)
      BY <1>1, <1>9 DEF x
    <3>3. /\ Len(Append(activeInstances, x)) = Len(activeInstances) + 1
          /\ Append(activeInstances, x)[Len(activeInstances) + 1] = x
          /\ Len(activeInstances) \in Nat
      BY <1>7
    <3>4. nextInstance' = nextInstance + (Len(activeInstances) + 1) - Len(activeInstances)
      BY <1>1, <1>9, <3>3 DEF x
    <3>5. nextInstance' = x
      BY <1>7, <3>3, <3>4 DEF x
    <3>6. activeInstances' # <<>>
      BY <3>2, <3>3
    <3>7. Last(activeInstances') = x
      BY <3>2, <3>3 DEF Last
    <3>8. QED
      BY <3>2, <3>5, <3>6, <3>7 DEF x
  <2>3. CurrentInstance' = nextInstance + 1
    BY <2>2 DEF CurrentInstance
  <2>4. N \notin DOMAIN number
    BY <1>3, <1>4, <2>1 DEF Numbering
  <2>5. \A u \in N : u \in Nat /\ u < next'
    <3>1. \A u \in UseFrames : u \in Nat /\ u < next
      BY Ancestry DEF UseFrames
    <3>2. QED
      BY <1>4, <1>1, <2>1, <3>1
  <2> HIDE DEF N
  <2>6. /\ DOMAIN more = DOMAIN number \cup {N} /\ more[N] = nextInstance + 1
        /\ \A A \in DOMAIN number : A \in DOMAIN more /\ more[A] = number[A]
    BY <2>0, <2>4
  <2>7. /\ {} \in DOMAIN number /\ number[{}] = 0
        /\ \A A \in DOMAIN number : /\ number[A] \in Nat /\ number[A] <= nextInstance
                                    /\ \A u \in A : u \in Nat /\ u < next
        /\ \A A, B \in DOMAIN number : number[A] = number[B] => A = B
    BY <1>3 DEF Numbering
  <2>8. Numbering(more)'
    <3>1. {} \in DOMAIN more /\ more[{}] = 0
      BY <2>6, <2>7
    <3>2. ASSUME NEW A \in DOMAIN more
          PROVE  more[A] \in Nat /\ more[A] <= nextInstance' /\ \A u \in A : u \in Nat /\ u < next'
      <4>1. CASE A \in DOMAIN number
        <5>1. number[A] \in Nat /\ number[A] <= nextInstance + 1
          BY <1>7, <2>7, <4>1
        <5>2. \A u \in A : u \in Nat /\ u < next'
          BY <1>1, <1>4, <2>7, <4>1
        <5>3. QED
          BY <2>2, <2>6, <4>1, <5>1, <5>2
      <4>2. CASE A = N
        <5>1. more[A] = nextInstance + 1 /\ nextInstance' = nextInstance + 1
          BY <2>2, <2>6, <4>2
        <5>2. more[A] \in Nat /\ more[A] <= nextInstance'
          BY <1>7, <5>1
        <5>3. QED
          BY <2>5, <4>2, <5>2
      <4>3. QED
        BY <2>6, <4>1, <4>2
    <3>3. \A A \in DOMAIN number : number[A] # nextInstance + 1
      BY <1>7, <2>7
    <3>4. \A A, B \in DOMAIN more : more[A] = more[B] => A = B
      BY <2>6, <2>7, <3>3
    <3>5. QED
      BY <3>1, <3>2, <3>4 DEF Numbering
  <2>9. Tracking(more)'
    <3>1. N \in DOMAIN more /\ CurrentInstance' = more[N]
      BY <2>3, <2>6
    <3>2. activeInstances' = IF Meta(next).tag = "use" THEN Append(activeInstances, more[N])
                             ELSE activeInstances
      BY <1>9, <2>2, <2>6
    <3>3. QED
      BY <1>3, <2>6, <3>1, <3>2, TrackingMore DEF N
  <2>10. Labelled(more)'
    BY <1>1, <1>3, <2>6, LabelledMore
  <2>11. QED
    BY <2>8, <2>9, <2>10
<1>10. QED
  BY <1>8, <1>9

LEMMA GroupsLeave ==
  ASSUME LowerInv, OpenInv, GroupInv, LeaveGroup
  PROVE  GroupInv'
<1> SUFFICES ASSUME Correlated'
             PROVE  (\E number : Numbering(number) /\ Tracking(number) /\ Labelled(number))'
  BY DEF GroupInv
<1> DEFINE last == Last(frames)
<1>1. /\ frames # <<>> /\ result = "none" /\ frames' = Front(frames)
      /\ UNCHANGED <<doc, elements, next, nextInstance>>
      /\ activeGroups' = IF Explicit(last) THEN Front(activeGroups) ELSE activeGroups
      /\ activeInstances' = IF Meta(last).tag = "use" THEN Front(activeInstances)
                            ELSE activeInstances
  BY DEF LeaveGroup, input, outputVars
<1>2. Correlated
  BY <1>1, SameGroups
<1>3. PICK number : Numbering(number) /\ Tracking(number) /\ Labelled(number)
  BY <1>1, <1>2 DEF GroupInv
<1>4. /\ last \in ToSet(frames)
      /\ \A h \in ToSet(frames) : h \in Nat /\ h <= last
  BY <1>1, Ancestry
<1>5. ToSet(frames') = ToSet(frames) \ {last}
  <2> DEFINE n == Len(frames)
  <2>1. frames \in Seq(DOMAIN doc.nodes) /\ DOMAIN frames = 1 .. n
    BY DEF LowerInv, WalkInv
  <2>2. /\ frames' \in Seq(DOMAIN doc.nodes) /\ Len(frames') = n - 1
        /\ \A k \in 1 .. n - 1 : frames'[k] = frames[k]
    BY <1>1, <2>1, FrontOf
  <2>3. n \in Nat \ {0} /\ last = frames[n]
    BY <1>1, FrameFacts DEF LowerInv
  <2>4. DOMAIN frames' = 1 .. n - 1
    BY <2>2
  <2> HIDE DEF n, last
  <2>5. /\ \A k \in 1 .. n - 1 : k \in 1 .. n /\ k < n
        /\ \A k \in 1 .. n : k \in 1 .. n - 1 \/ k = n
        /\ n \in 1 .. n
    BY <2>3
  <2>6. \A k \in 1 .. n - 1 : frames[k] # last
    <3> SUFFICES ASSUME NEW k \in 1 .. n - 1 PROVE frames[k] # last
      OBVIOUS
    <3>1. Below(frames[k], frames[n])
      BY <2>1, <2>5 DEF OpenInv
    <3>2. frames[k] < last
      BY <2>3, <3>1 DEF Below
    <3>3. last \in Nat
      BY <1>4
    <3>4. QED
      BY <3>2, <3>3
  <2>7. QED
    BY <2>1, <2>2, <2>3, <2>4, <2>5, <2>6 DEF ToSet
<1> HIDE DEF last
<1>6. \A n : /\ Node(n)' = Node(n) /\ Meta(n)' = Meta(n) /\ Explicit(n)' = Explicit(n)
             /\ Uses(n)' = Uses(n) /\ OwnersOf(n)' = OwnersOf(n)
  BY <1>1, SameDocument, SameGroups
<1>7. KeysOf(number)' = KeysOf(number) /\ InstancesOf(number)' = InstancesOf(number)
  BY <1>1, SameGroups
<1>8. OwnFrames' = OwnFrames \ {last} /\ UseFrames' = UseFrames \ {last}
  BY <1>5, <1>6 DEF OwnFrames, UseFrames
<1>9. /\ Stack(activeGroups, OwnFrames, KeysOf(number))
      /\ Stack(activeInstances, UseFrames, InstancesOf(number))
      /\ \A g \in ToSet(frames) : Node(g).kind = "group" /\ Uses(g) \in DOMAIN number
  BY <1>3 DEF Tracking
<1>10. Stack(activeGroups', OwnFrames', KeysOf(number))
  <2>1. CASE Explicit(last)
    <3>1. last \in OwnFrames /\ \A y \in OwnFrames : y <= last
      BY <1>4, <2>1 DEF OwnFrames
    <3>2. Stack(Front(activeGroups), OwnFrames \ {last}, KeysOf(number))
      BY <1>9, <3>1, StackPop
    <3>3. QED
      BY <1>1, <1>8, <2>1, <3>2
  <2>2. CASE ~Explicit(last)
    <3>1. last \notin OwnFrames
      BY <2>2 DEF OwnFrames
    <3>2. OwnFrames' = OwnFrames
      BY <1>8, <3>1
    <3>3. QED
      BY <1>1, <1>9, <2>2, <3>2
  <2>3. QED
    BY <2>1, <2>2
<1>11. Stack(activeInstances', UseFrames', InstancesOf(number))
  <2>1. CASE Meta(last).tag = "use"
    <3>1. last \in UseFrames /\ \A y \in UseFrames : y <= last
      BY <1>4, <2>1 DEF UseFrames
    <3>2. Stack(Front(activeInstances), UseFrames \ {last}, InstancesOf(number))
      BY <1>9, <3>1, StackPop
    <3>3. QED
      BY <1>1, <1>8, <2>1, <3>2
  <2>2. CASE Meta(last).tag # "use"
    <3>1. last \notin UseFrames
      BY <2>2 DEF UseFrames
    <3>2. UseFrames' = UseFrames
      BY <1>8, <3>1
    <3>3. QED
      BY <1>1, <1>9, <2>2, <3>2
  <2>3. QED
    BY <2>1, <2>2
<1>12. Tracking(number)'
  <2>1. ToSet(frames)' = ToSet(frames')
    BY DEF ToSet
  <2>2. (\A g \in ToSet(frames) : Node(g).kind = "group" /\ Uses(g) \in DOMAIN number)'
    BY <1>5, <1>6, <1>9, <2>1
  <2>3. Stack(activeGroups, OwnFrames, KeysOf(number))' /\ Stack(activeInstances, UseFrames, InstancesOf(number))'
    BY <1>7, <1>10, <1>11 DEF Stack, Ascends, Labels, ToSet
  <2>4. QED
    BY <2>2, <2>3 DEF Tracking
<1>13. Numbering(number)'
  BY <1>1, <1>3 DEF Numbering
<1>14. Labelled(number)'
  BY <1>1, <1>3, <1>6, <1>7 DEF Labelled
<1>15. QED
  BY <1>12, <1>13, <1>14

\* Two elements of a node are parts of one decomposed fill.
Together(a, b) == a.piece # b.piece /\ a.parts = {"fill"} /\ b.parts = {"fill"}

Alike(a, b) == /\ Grouped(a) <=> Grouped(b)
               /\ Grouped(a) <=> Together(a, b)

\* A line has two points, and an arrow those of the connector it stands for.
Connects(e) ==
  /\ e.type = "line" => e.points >= 2
  /\ e.type = "arrow" => /\ Node(e.node).kind = "path" /\ Meta(e.node).marker = "known"
                         /\ Len(Node(e.node).subpaths) = 1
                         /\ e.points = Node(e.node).subpaths[1].points

PieceInv ==
  /\ \A i \in DOMAIN elements : Connects(elements[i])
  /\ \A i, j \in DOMAIN elements : i # j /\ elements[i].node = elements[j].node =>
       Alike(elements[i], elements[j])

LEMMA SameConnects ==
  ASSUME UNCHANGED doc
  PROVE  \A e : Connects(e)' = Connects(e) /\ Grouped(e)' = Grouped(e)
<1>1. \A n : Node(n)' = Node(n) /\ Meta(n)' = Meta(n)
  BY SameDocument
<1>2. \A e : Grouped(e)' = Grouped(e)
  BY SameGroups
<1>3. QED
  BY <1>1, <1>2 DEF Connects

LEMMA PiecesSame ==
  ASSUME PieceInv, UNCHANGED <<doc, elements>>
  PROVE  PieceInv'
<1>1. \A e : Connects(e)' = Connects(e) /\ Grouped(e)' = Grouped(e)
  BY SameConnects
<1>2. QED
  BY <1>1 DEF PieceInv, Alike, Together

LEMMA PiecesFinal ==
  ASSUME ElementInv, PieceInv, UNCHANGED doc, elements' = FinalElements
  PROVE  PieceInv'
<1>1. \A e : Connects(e)' = Connects(e) /\ Grouped(e)' = Grouped(e)
  BY SameConnects
<1>2. /\ DOMAIN elements' = DOMAIN elements
      /\ \A i \in DOMAIN elements : SameFields(elements[i], elements'[i])
  BY FinalFields
<1>3. ASSUME NEW e, NEW f, SameFields(e, f)
      PROVE  /\ Connects(f) <=> Connects(e)
             /\ Grouped(f) <=> Grouped(e)
             /\ f.node = e.node /\ f.parts = e.parts /\ f.piece = e.piece
  BY <1>3 DEF SameFields, Connects, Grouped
<1>4. \A i \in DOMAIN elements :
        /\ Connects(elements'[i]) <=> Connects(elements[i])
        /\ Grouped(elements'[i]) <=> Grouped(elements[i])
        /\ elements'[i].node = elements[i].node /\ elements'[i].parts = elements[i].parts
        /\ elements'[i].piece = elements[i].piece
  BY <1>2, <1>3
<1>5. \A i \in DOMAIN elements' : Connects(elements'[i])
  BY <1>2, <1>4 DEF PieceInv
<1>6. ASSUME NEW i \in DOMAIN elements, NEW j \in DOMAIN elements, i # j,
             elements'[i].node = elements'[j].node
      PROVE  Alike(elements'[i], elements'[j])
  <2>1. elements[i].node = elements[j].node
    BY <1>4, <1>6
  <2>2. Alike(elements[i], elements[j])
    BY <1>6, <2>1 DEF PieceInv
  <2>3. QED
    BY <1>4, <2>2 DEF Alike, Together
<1>7. QED
  BY <1>1, <1>2, <1>5, <1>6 DEF PieceInv, Alike, Together

LEMMA PiecesAdd ==
  ASSUME LowerInv, ElementInv, PieceInv, InGroup, UNCHANGED doc, NEW more, Adds(more),
         \A i \in DOMAIN more : Connects(more[i]),
         \A i, j \in DOMAIN more : i # j => Alike(more[i], more[j])
  PROVE  PieceInv'
<1>1. \A e : Connects(e)' = Connects(e) /\ Grouped(e)' = Grouped(e)
  BY SameConnects
<1>2. /\ elements \in Seq(ToSet(elements)) /\ more \in Seq(ToSet(more))
      /\ elements' = elements \o more /\ \A i \in DOMAIN more : more[i].node = next
  BY DEF LowerInv, Adds, Fresh
<1> DEFINE n == Len(elements)
           At(i) == /\ i \in DOMAIN elements /\ elements'[i] = elements[i]
                    /\ elements[i].node # next
           New(i) == /\ i - n \in DOMAIN more /\ elements'[i] = more[i - n]
                     /\ elements'[i].node = next
<1>3. \A i \in DOMAIN elements' : At(i) \/ New(i)
  <2> SUFFICES ASSUME NEW i \in DOMAIN elements' PROVE At(i) \/ New(i)
    OBVIOUS
  <2>1. CASE i \in DOMAIN elements
    <3>1. elements'[i] = elements[i]
      BY <1>2, <2>1, JoinParts
    <3>2. elements[i].node < next /\ elements[i].node \in DOMAIN doc.nodes
      BY <2>1 DEF ElementInv, Made
    <3>3. DOMAIN doc.nodes \subseteq Nat
      BY NodeFacts DEF LowerInv
    <3>4. elements[i].node # next
      BY <3>2, <3>3
    <3>5. QED
      BY <2>1, <3>1, <3>4
  <2>2. CASE i \notin DOMAIN elements
    <3>1. i - n \in DOMAIN more /\ elements'[i] = more[i - n]
      BY <1>2, <2>2, JoinParts
    <3>2. QED
      BY <1>2, <3>1
  <2>3. QED
    BY <2>1, <2>2
<1>4. \A i, j \in DOMAIN elements' : i # j => (New(i) /\ New(j) => i - n # j - n)
  <2>1. DOMAIN elements' \subseteq Nat /\ n \in Nat
    BY <1>2, JoinParts
  <2>2. QED
    BY <2>1
<1> HIDE DEF n
<1>5. \A i \in DOMAIN elements' : Connects(elements'[i])
  BY <1>3 DEF PieceInv
<1>6. ASSUME NEW i \in DOMAIN elements', NEW j \in DOMAIN elements', i # j,
             elements'[i].node = elements'[j].node
      PROVE  Alike(elements'[i], elements'[j])
  <2>1. CASE At(i) /\ At(j)
    BY <1>6, <2>1 DEF PieceInv
  <2>2. CASE New(i) /\ New(j)
    <3>1. i - n # j - n
      BY <1>4, <1>6, <2>2
    <3>2. QED
      BY <2>2, <3>1
  <2>3. QED
    BY <1>3, <1>6, <2>1, <2>2
<1>7. QED
  BY <1>1, <1>5, <1>6 DEF PieceInv, Alike, Together

LEMMA PiecesDecide ==
  ASSUME LowerInv, ElementInv, PieceInv, NEW plan, NEW isPromoted, DecidedStep(plan, isPromoted)
  PROVE  PieceInv'
<1>1. /\ InGroup /\ UNCHANGED doc /\ Shaped(next, plan) /\ plan.drawn \in Seq(Drawings)
      /\ plan.do \in {"draw", "decompose"} => Plainly(plan.drawn)
      /\ plan.do = "arrow" => Len(plan.drawn) = 1 /\ plan.drawn[1].type = "arrow"
  BY DEF DecidedStep, Pass, AtChild, input, PlanFor, Plans
<1>2. CASE Quiet
  BY <1>1, <1>2, PiecesSame DEF Quiet
<1>3. CASE Emitted(next, plan)
  <2> DEFINE more == Emission(next, plan)
  <2>0. plan.do \in {"draw", "arrow", "decompose"} /\ Adds(more)
    BY <1>3, Emits DEF Emitted
  <2>1. /\ DOMAIN more = DOMAIN plan.drawn /\ DOMAIN plan.drawn \subseteq Nat \ {0}
        /\ \A i \in DOMAIN more :
             /\ more[i].node = next /\ more[i].type = plan.drawn[i].type
             /\ more[i].parts = plan.drawn[i].parts /\ more[i].piece = plan.drawn[i].piece
             /\ more[i].points = plan.drawn[i].points
    BY <1>1, EmissionOf, EmissionFresh DEF Fresh
  <2> HIDE DEF more
  <2>2. ASSUME NEW i \in DOMAIN more PROVE Connects(more[i])
    <3>1. CASE plan.do = "arrow"
      <4>1. i = 1
        BY <1>1, <2>1, <3>1
      <4>2. plan.drawn[1].type # "line"
        BY <1>1, <3>1
      <4>3. QED
        BY <1>1, <2>1, <3>1, <4>1, <4>2 DEF Shaped, Connects
    <3>2. CASE plan.do # "arrow"
      <4>1. PlainDrawing(plan.drawn[i])
        BY <1>1, <2>0, <2>1, <3>2 DEF Plainly
      <4>2. QED
        BY <2>1, <4>1 DEF PlainDrawing, Connects
    <3>3. QED
      BY <3>1, <3>2
  <2>3. \A i \in DOMAIN more :
          Grouped(more[i]) <=> CompoundFill(next) /\ plan.drawn[i].piece # 0
    BY <2>1 DEF Grouped
  <2>4. ASSUME NEW i \in DOMAIN more, NEW j \in DOMAIN more, i # j
        PROVE  Alike(more[i], more[j])
    <3>1. CASE plan.do = "decompose"
      <4>1. /\ CompoundFill(next)
            /\ plan.drawn[i].piece = i /\ plan.drawn[j].piece = j
            /\ plan.drawn[i].parts = {"fill"} /\ plan.drawn[j].parts = {"fill"}
        BY <1>1, <2>1, <3>1 DEF Shaped
      <4>2. i # 0 /\ j # 0
        BY <2>1
      <4>3. QED
        BY <2>1, <2>3, <2>4, <4>1, <4>2 DEF Alike, Together
    <3>2. CASE plan.do # "decompose"
      <4>1. /\ CompoundFill(next) => plan.drawn[i].piece = 0 /\ plan.drawn[j].piece = 0
            /\ plan.drawn[i].parts = {"fill"} /\ plan.drawn[j].parts = {"fill"} =>
                 plan.drawn[i].piece = plan.drawn[j].piece
        BY <1>1, <2>0, <2>1, <3>2 DEF Shaped
      <4>2. QED
        BY <2>1, <2>3, <4>1 DEF Alike, Together
    <3>3. QED
      BY <3>1, <3>2
  <2>5. QED
    BY <1>1, <2>0, <2>2, <2>4, PiecesAdd
<1>4. CASE Pictured(next, plan)
  <2> DEFINE e    == ImageElement(next)
             more == <<e>>
  <2>1. Adds(more)
    BY <1>4, Pictures
  <2>2. e.type = "image"
    BY DEF ImageElement
  <2>3. e \in {e}
    OBVIOUS
  <2>4. \A i \in DOMAIN more : i = 1 /\ more[1] = e
    BY <2>3, OneRole
  <2> HIDE DEF more, e
  <2>5. \A i \in DOMAIN more : Connects(more[i])
    BY <2>2, <2>4 DEF Connects
  <2>6. \A i, j \in DOMAIN more : i = j
    BY <2>4
  <2>7. QED
    BY <1>1, <2>1, <2>5, <2>6, PiecesAdd
<1>5. QED
  BY <1>2, <1>3, <1>4, DecidedAdds

-----------------------------------------------------------------------------
(* What a step does to the groups                                          *)

LEMMA OpenKept ==
  ASSUME LowerInv, OpenInv, [Next]_vars
  PROVE  OpenInv'
<1>1. CASE UNCHANGED <<input, walkVars, outputVars, result>> \/ NoticeCancel \/ Finish
  <2>1. UNCHANGED <<doc, frames, next>>
    BY <1>1 DEF NoticeCancel, Finish, input, walkVars
  <2>2. QED
    BY <2>1, OpenStill
<1>2. CASE SkipArtwork
  BY <1>2, OpenPast DEF SkipArtwork, AtChild, input, End
<1>3. ASSUME NEW plan, NEW isPromoted, DecidedStep(plan, isPromoted) PROVE OpenInv'
  BY <1>3, OpenPast DEF DecidedStep, Pass, AtChild, input, End
<1>4. CASE EnterGroup
  BY <1>4, OpenIn DEF EnterGroup, Selected, AtChild, input
<1>5. CASE LeaveGroup
  BY <1>5, OpenOut DEF LeaveGroup, input
<1>6. QED
  BY <1>1, <1>2, <1>3, <1>4, <1>5, StepCases

LEMMA PiecesKept ==
  ASSUME LowerInv, ElementInv, PieceInv, [Next]_vars
  PROVE  PieceInv'
<1>1. CASE \/ UNCHANGED <<input, walkVars, outputVars, result>> \/ NoticeCancel
           \/ SkipArtwork \/ EnterGroup \/ LeaveGroup
  <2>1. UNCHANGED <<doc, elements>>
    BY <1>1 DEF NoticeCancel, SkipArtwork, EnterGroup, LeaveGroup, input, outputVars
  <2>2. QED
    BY <2>1, PiecesSame
<1>2. ASSUME NEW plan, NEW isPromoted, DecidedStep(plan, isPromoted) PROVE PieceInv'
  BY <1>2, PiecesDecide
<1>3. CASE Finish
  <2>1. UNCHANGED doc /\ elements' = FinalElements
    BY <1>3 DEF Finish, input
  <2>2. QED
    BY <2>1, PiecesFinal
<1>4. QED
  BY <1>1, <1>2, <1>3, StepCases

LEMMA GroupsKept ==
  ASSUME LowerInv, ElementInv, OpenInv, GroupInv, [Next]_vars
  PROVE  GroupInv'
<1>0. next \in Nat /\ next <= next
  BY DEF LowerInv, CountInv
<1>1. CASE UNCHANGED <<input, walkVars, outputVars, result>>
  <2>1. UNCHANGED <<doc, frames, next, activeGroups, activeInstances, nextInstance, elements, result>>
    BY <1>1 DEF input, walkVars, outputVars
  <2>2. QED
    BY <1>0, <2>1, GroupsAlong
<1>2. CASE NoticeCancel \/ Finish
  <2>1. result' # "none"
    BY <1>2 DEF NoticeCancel, Finish
  <2>2. QED
    BY <2>1 DEF GroupInv
<1>3. CASE SkipArtwork
  <2>1. /\ UNCHANGED <<doc, frames, activeGroups, activeInstances, nextInstance, elements, result>>
        /\ next' = End(next) /\ InGroup
    BY <1>3 DEF SkipArtwork, AtChild, input, outputVars, End
  <2>2. next' \in Nat /\ next <= next'
    BY <1>0, <2>1, AtNext DEF LowerInv
  <2>3. QED
    BY <2>1, <2>2, GroupsAlong
<1>4. ASSUME NEW plan, NEW isPromoted, DecidedStep(plan, isPromoted) PROVE GroupInv'
  BY <1>4, GroupsDecide
<1>5. CASE EnterGroup
  BY <1>5, GroupsEnter
<1>6. CASE LeaveGroup
  BY <1>6, GroupsLeave
<1>7. QED
  BY <1>1, <1>2, <1>3, <1>4, <1>5, <1>6, StepCases

-----------------------------------------------------------------------------
(* The finished groups                                                     *)

\* What is around a node is a group; the only other owner is the node itself.
LEMMA OwnerFacts ==
  ASSUME doc \in Documents, NEW e, e.node \in DOMAIN doc.nodes, NEW g \in OwnersOf(e), Correlated
  PROVE  /\ g \in DOMAIN doc.nodes /\ g \in Nat /\ e.node \in Nat
         /\ Grouping(g) /\ Known(g)
         /\ \/ g \in Around(e.node) /\ Below(g, e.node) /\ Explicit(g) /\ Node(g).kind = "group"
            \/ g = e.node /\ Grouped(e) /\ Node(g).kind = "path"
<1>1. DOMAIN doc.nodes \subseteq Nat
  BY NodeFacts
<1>2. CASE g \in Around(e.node)
  <2>1. g \in DOMAIN doc.nodes /\ Below(g, e.node) /\ Explicit(g)
    BY <1>2 DEF Around
  <2>2. /\ g \in Nat /\ e.node \in Nat
        /\ Node(g).kind # "group" => Node(g).size = 1
    BY <1>1, <2>1, NodeFacts
  <2>3. g < e.node /\ e.node < g + Node(g).size
    BY <2>1 DEF Below
  <2>4. Node(g).size # 1
    BY <2>2, <2>3
  <2>5. Known(g)
    BY <2>1 DEF Explicit, Meta, NoMeta
  <2>6. QED
    BY <1>2, <2>1, <2>2, <2>4, <2>5 DEF Grouping
<1>3. CASE g \notin Around(e.node)
  <2>1. g = e.node /\ Grouped(e)
    BY <1>3 DEF OwnersOf
  <2>2. CompoundFill(g)
    BY <2>1 DEF Grouped
  <2>3. QED
    BY <1>1, <2>1, <2>2 DEF Correlated, CompoundFill, Grouping
<1>4. QED
  BY <1>2, <1>3

Owners == [i \in DOMAIN elements |-> OwnersOf(elements[i])]

LEMMA OwnersDistinct ==
  ASSUME LowerInv, ElementInv, Correlated, NEW number, Numbering(number), Labelled(number)
  PROVE  Distinct(Owners, KeysOf(number))
<1> DEFINE L == KeysOf(number)
<1> SUFFICES ASSUME NEW i \in DOMAIN elements, NEW j \in DOMAIN elements,
                    NEW g \in OwnersOf(elements[i]), NEW h \in OwnersOf(elements[j]), L[g] = L[h]
             PROVE  g = h
  BY DEF Distinct, Owners
<1>1. doc \in Documents /\ elements[i].node \in DOMAIN doc.nodes /\ elements[j].node \in DOMAIN doc.nodes
  BY DEF LowerInv, ElementInv, Made
<1>2. g \in DOMAIN doc.nodes /\ Grouping(g) /\ Known(g)
  BY <1>1, OwnerFacts
<1>3. h \in DOMAIN doc.nodes /\ Grouping(h) /\ Known(h)
  BY <1>1, OwnerFacts
<1>4. Node(g).src \in Nat /\ Node(h).src \in Nat /\ Node(g).src # 0 /\ Node(h).src # 0
  BY <1>1, <1>2, <1>3, NodeFacts DEF PaintNode, Known
<1>5. /\ L[g] = [order |-> Node(g).src - 1, instance |-> number[Uses(g)]]
      /\ L[h] = [order |-> Node(h).src - 1, instance |-> number[Uses(h)]]
  BY <1>2, <1>3 DEF KeysOf
<1>6. Node(g).src - 1 = Node(h).src - 1 /\ number[Uses(g)] = number[Uses(h)]
  <2> DEFINE a == Node(g).src - 1
             b == Node(h).src - 1
             c == number[Uses(g)]
             d == number[Uses(h)]
  <2> HIDE DEF a, b, c, d
  <2>1. [order |-> a, instance |-> c] = [order |-> b, instance |-> d]
    BY <1>5 DEF a, b, c, d
  <2>2. a = b /\ c = d
    BY <2>1
  <2>3. QED
    BY <2>2 DEF a, b, c, d
<1>7. Node(g).src = Node(h).src
  BY <1>4, <1>6
<1>8. Uses(g) \in DOMAIN number /\ Uses(h) \in DOMAIN number
  BY DEF Labelled
<1>9. Uses(g) = Uses(h)
  BY <1>6, <1>8 DEF Numbering
<1>10. QED
  BY <1>2, <1>3, <1>7, <1>9 DEF Correlated

LEMMA OwnersNested ==
  ASSUME LowerInv, ElementInv, SpanInv, PieceInv, Correlated
  PROVE  OwnersNest(Owners)
<1> SUFFICES ASSUME NEW i \in DOMAIN elements, NEW j \in DOMAIN elements, NEW g,
                    g \in OwnersOf(elements[i]), g \in OwnersOf(elements[j])
             PROVE  /\ \A h \in OwnersOf(elements[i]) : h < g => h \in OwnersOf(elements[j])
                    /\ \A m \in i .. j : m \in DOMAIN elements /\ g \in OwnersOf(elements[m])
  BY DEF OwnersNest, Owners
<1>1. doc \in Documents /\ DOMAIN doc.nodes \subseteq Nat
  BY NodeFacts DEF LowerInv
<1>2. /\ elements \in Seq(ToSet(elements))
      /\ \A k \in DOMAIN elements : elements[k].node \in DOMAIN doc.nodes
  BY DEF LowerInv, ElementInv, Made
<1> DEFINE a == elements[i].node
           b == elements[j].node
<1>3. /\ g \in DOMAIN doc.nodes /\ g \in Nat /\ a \in Nat
      /\ \/ g \in Around(a) /\ Below(g, a) /\ Explicit(g) /\ Node(g).kind = "group"
         \/ g = a /\ Grouped(elements[i]) /\ Node(g).kind = "path"
  BY <1>1, <1>2, OwnerFacts
<1>4. /\ b \in Nat
      /\ \/ g \in Around(b) /\ Below(g, b) /\ Explicit(g) /\ Node(g).kind = "group"
         \/ g = b /\ Grouped(elements[j]) /\ Node(g).kind = "path"
  BY <1>1, <1>2, OwnerFacts
<1>5. a \in DOMAIN doc.nodes /\ b \in DOMAIN doc.nodes
  BY <1>2
<1> HIDE DEF a, b
<1>6. ASSUME NEW h \in OwnersOf(elements[i]), h < g PROVE h \in OwnersOf(elements[j])
  <2>1. /\ h \in DOMAIN doc.nodes /\ h \in Nat
        /\ \/ h \in Around(a) /\ Below(h, a) /\ Explicit(h)
           \/ h = a
    BY <1>1, <1>2, OwnerFacts DEF a
  <2>2. g <= a
    BY <1>3 DEF Below
  <2>3. h # a
    BY <1>3, <1>6, <2>1, <2>2
  <2>4. Below(h, a) /\ Explicit(h) /\ End(h) \in Nat
    BY <1>1, <2>1, <2>3, NodeFacts
  <2>5. Below(h, g)
    BY <1>3, <1>6, <2>1, <2>2, <2>4 DEF Below, End
  <2>6. Below(h, b)
    BY <1>1, <1>3, <1>4, <1>5, <2>1, <2>5, BelowBelow
  <2>7. QED
    BY <2>1, <2>4, <2>6 DEF OwnersOf, Around, b
<1>7. ASSUME NEW m \in i .. j PROVE m \in DOMAIN elements /\ g \in OwnersOf(elements[m])
  <2>1. /\ m \in DOMAIN elements /\ i \in Nat /\ j \in Nat /\ m \in Nat
        /\ (i = m \/ i < m) /\ (m = j \/ m < j)
    BY <1>2
  <2> DEFINE c == elements[m].node
  <2>2. a <= c /\ c <= b /\ c \in Nat
    <3>1. PaintedOnce
      BY PaintedApart
    <3>2. (i < m => a <= c) /\ (m < j => c <= b)
      BY <2>1, <3>1 DEF PaintedOnce, a, b
    <3>3. c \in Nat
      BY <1>1, <1>2, <2>1
    <3>4. i = m => a <= c
      BY <3>3 DEF a
    <3>5. m = j => c <= b
      BY <3>3 DEF b
    <3>6. QED
      BY <2>1, <3>2, <3>3, <3>4, <3>5
  <2>3. CASE Node(g).kind = "group"
    <3>1. Below(g, a) /\ Below(g, b) /\ Explicit(g) /\ End(g) \in Nat
      BY <1>1, <1>3, <1>4, <2>3, NodeFacts
    <3> HIDE DEF c
    <3>2. Below(g, c)
      BY <1>3, <1>4, <2>2, <3>1 DEF Below, End
    <3>3. QED
      BY <1>3, <2>1, <3>1, <3>2 DEF OwnersOf, Around, c
  <2>4. CASE Node(g).kind # "group"
    <3>1. g = a /\ g = b /\ Grouped(elements[i])
      BY <1>3, <1>4, <2>4
    <3>2. c = a
      <4> HIDE DEF c
      <4>1. QED
        BY <1>3, <2>2, <3>1
    <3>3. Grouped(elements[m])
      <4>1. CASE m = i
        BY <3>1, <4>1
      <4>2. CASE m # i
        <5>1. elements[i].node = elements[m].node
          BY <3>2 DEF a
        <5>2. Alike(elements[i], elements[m])
          BY <2>1, <4>2, <5>1 DEF PieceInv
        <5>3. QED
          BY <3>1, <5>2 DEF Alike
      <4>3. QED
        BY <4>1, <4>2
    <3>4. QED
      BY <2>1, <3>1, <3>2, <3>3 DEF OwnersOf
  <2>5. QED
    BY <2>3, <2>4
<1>8. QED
  BY <1>6, <1>7

\* Labels of a stack stand for its numbers, each at a place of its own.
LEMMA StackMembers ==
  ASSUME NEW keys, NEW S, NEW L, Stack(keys, S, L)
  PROVE  /\ \A x \in S : \E k \in DOMAIN keys : keys[k] = L[x]
         /\ \A k \in DOMAIN keys : \E x \in S : keys[k] = L[x]
         /\ \A k, l \in DOMAIN keys : k # l =>
              \E x, y \in S : x # y /\ keys[k] = L[x] /\ keys[l] = L[y]
<1>1. PICK s : Ascends(s, S) /\ keys = Labels(s, L)
  BY DEF Stack
<1>2. /\ DOMAIN s = 1 .. Len(s) /\ Len(s) \in Nat /\ S \subseteq Nat
      /\ \A k \in DOMAIN s : s[k] \in S
      /\ \A y \in S : \E k \in DOMAIN s : s[k] = y
  BY <1>1, StackOf
<1>3. DOMAIN keys = DOMAIN s /\ \A k \in DOMAIN s : keys[k] = L[s[k]]
  BY <1>1 DEF Labels
<1>4. ASSUME NEW k \in DOMAIN s, NEW l \in DOMAIN s, k # l PROVE s[k] # s[l]
  <2>1. k < l \/ l < k
    BY <1>2, <1>4
  <2>2. s[k] < s[l] \/ s[l] < s[k]
    BY <1>1, <2>1 DEF Ascends
  <2>3. s[k] \in Nat /\ s[l] \in Nat
    BY <1>2
  <2>4. QED
    BY <2>2, <2>3
<1>5. QED
  BY <1>2, <1>3, <1>4

LEMMA OwnersKept ==
  ASSUME LowerInv, ElementInv, Correlated, NEW number, Numbering(number), Labelled(number)
  PROVE  OwnersListed(FinalElements, Owners, KeysOf(number))
<1> DEFINE L == KeysOf(number)
           own(i) == OwnersOf(elements[i])
           keys(i) == elements[i].groups
<1>1. /\ DOMAIN FinalElements = DOMAIN elements /\ DOMAIN Owners = DOMAIN elements
      /\ \A i \in DOMAIN elements : Owners[i] = own(i)
  BY DEF FinalElements, Owners
<1>2. ASSUME NEW i \in DOMAIN elements PROVE FinalElements[i].groups = Kept(keys(i))
  <2> DEFINE e == elements[i]
             kept == Kept(e.groups)
  <2>1. FinalElements[i] = [e EXCEPT !.groups = kept]
    BY DEF FinalElements
  <2>2. DOMAIN e = ElementFields
    BY DEF ElementInv, Made
  <2> HIDE DEF e, kept
  <2>3. [e EXCEPT !.groups = kept].groups = kept
    BY <2>2 DEF ElementFields
  <2>4. QED
    BY <2>1, <2>3 DEF e, kept
<1>3. \A i \in DOMAIN elements : Stack(keys(i), own(i), L)
  BY DEF Labelled
<1>4. Distinct(Owners, L)
  BY OwnersDistinct
<1>5. \A i, j \in DOMAIN elements : \A g \in own(i), h \in own(j) : L[g] = L[h] => g = h
  BY <1>1, <1>4 DEF Distinct
<1> HIDE DEF L, own, keys
<1>6. \A i \in DOMAIN elements :
        /\ \A x \in own(i) : \E k \in DOMAIN keys(i) : keys(i)[k] = L[x]
        /\ \A k \in DOMAIN keys(i) : \E x \in own(i) : keys(i)[k] = L[x]
        /\ \A k, l \in DOMAIN keys(i) : k # l =>
             \E x, y \in own(i) : x # y /\ keys(i)[k] = L[x] /\ keys(i)[l] = L[y]
  BY <1>3, StackMembers
<1>7. ASSUME NEW i \in DOMAIN elements, NEW x \in own(i), Shared(L[x])
      PROVE  x \in Common(Owners, i)
  <2>0. PICK a \in DOMAIN elements, b \in DOMAIN elements :
          \E k \in DOMAIN keys(a), l \in DOMAIN keys(b) :
            <<a, k>> # <<b, l>> /\ keys(a)[k] = L[x] /\ keys(b)[l] = L[x]
    BY <1>7 DEF Shared, keys
  <2>1. PICK k \in DOMAIN keys(a), l \in DOMAIN keys(b) :
          <<a, k>> # <<b, l>> /\ keys(a)[k] = L[x] /\ keys(b)[l] = L[x]
    BY <2>0
  <2>2. x \in own(a) /\ x \in own(b)
    BY <1>5, <1>6, <2>1
  <2>3. a # b
    <3> SUFFICES ASSUME a = b PROVE FALSE
      OBVIOUS
    <3>1. k # l
      BY <2>1
    <3>2. PICK y \in own(a), z \in own(a) : y # z /\ keys(a)[k] = L[y] /\ keys(a)[l] = L[z]
      BY <1>6, <3>1
    <3>3. y = x /\ z = x
      BY <1>5, <2>1, <3>2
    <3>4. QED
      BY <3>2, <3>3
  <2>4. \E j \in DOMAIN elements : j # i /\ x \in own(j)
    BY <2>2, <2>3
  <2>5. QED
    BY <1>1, <2>4 DEF Common
<1>8. ASSUME NEW i \in DOMAIN elements, NEW x \in own(i), x \in Common(Owners, i)
      PROVE  Shared(L[x])
  <2>1. PICK j \in DOMAIN elements : j # i /\ x \in own(j)
    BY <1>1, <1>8 DEF Common
  <2>2. PICK k \in DOMAIN keys(i) : keys(i)[k] = L[x]
    BY <1>6
  <2>3. PICK l \in DOMAIN keys(j) : keys(j)[l] = L[x]
    BY <1>6, <2>1
  <2>4. <<i, k>> # <<j, l>>
    BY <2>1
  <2>5. QED
    BY <2>2, <2>3, <2>4 DEF Shared, keys
<1>9. ASSUME NEW i \in DOMAIN elements
      PROVE  \E t : Descends(t, Common(Owners, i)) /\ FinalElements[i].groups = Labels(t, L)
  <2>1. PICK t : Descends(t, {x \in own(i) : Shared(L[x])}) /\ Kept(keys(i)) = Labels(t, L)
    BY <1>3, KeptStack
  <2>2. Common(Owners, i) \subseteq own(i)
    BY <1>1 DEF Common
  <2>3. {x \in own(i) : Shared(L[x])} = Common(Owners, i)
    BY <1>7, <1>8, <2>2
  <2>4. QED
    BY <1>2, <2>1, <2>3
<1>10. QED
  BY <1>1, <1>9 DEF OwnersListed, L

LEMMA OwnersFinite ==
  ASSUME doc \in Documents
  PROVE  \A n : /\ IsFiniteSet(Around(n)) /\ Cardinality(Around(n)) \in Nat
<1>1. DOMAIN doc.nodes = 1 .. Len(doc.nodes) /\ Len(doc.nodes) \in Nat
  BY NodeFacts
<1>2. IsFiniteSet(DOMAIN doc.nodes)
  BY <1>1, FS_Interval
<1>3. ASSUME NEW n PROVE IsFiniteSet(Around(n)) /\ Cardinality(Around(n)) \in Nat
  <2>1. Around(n) \in SUBSET (DOMAIN doc.nodes)
    BY DEF Around
  <2>2. IsFiniteSet(Around(n))
    BY <1>2, <2>1, FS_Subset
  <2>3. QED
    BY <2>2, FS_CardinalityType
<1>4. QED
  BY <1>3

LEMMA OwnersCount ==
  ASSUME doc \in Documents, NEW e
  PROVE  /\ IsFiniteSet(OwnersOf(e)) /\ Cardinality(OwnersOf(e)) \in Nat
         /\ Cardinality(OwnersOf(e)) <= Cardinality(Around(e.node)) + 1
<1> DEFINE A == Around(e.node)
           n == e.node
<1>1. IsFiniteSet(A) /\ Cardinality(A) \in Nat
  BY OwnersFinite
<1> HIDE DEF A, n
<1>2. /\ IsFiniteSet(A \cup {n})
      /\ Cardinality(A \cup {n}) = IF n \in A THEN Cardinality(A) ELSE Cardinality(A) + 1
  BY <1>1, FS_AddElement
<1>3. OwnersOf(e) = A \/ OwnersOf(e) = A \cup {n}
  BY DEF OwnersOf, A, n
<1>4. /\ IsFiniteSet(OwnersOf(e)) /\ Cardinality(OwnersOf(e)) \in Nat
      /\ Cardinality(OwnersOf(e)) <= Cardinality(A) + 1
  <2>1. CASE OwnersOf(e) = A
    BY <1>1, <2>1
  <2>2. CASE OwnersOf(e) = A \cup {n}
    <3>1. Cardinality(OwnersOf(e)) = Cardinality(A) \/ Cardinality(OwnersOf(e)) = Cardinality(A) + 1
      BY <1>2, <2>2
    <3>2. IsFiniteSet(OwnersOf(e))
      BY <1>2, <2>2
    <3>3. QED
      BY <1>1, <3>1, <3>2
  <2>3. QED
    BY <1>3, <2>1, <2>2
<1>5. QED
  BY <1>4 DEF A

\* The groups two elements are both in: those around both of them, and the one
\* of a decomposed fill that they are parts of.
LEMMA OwnersMeet ==
  ASSUME LowerInv, ElementInv, PieceInv, Correlated,
         NEW i \in DOMAIN elements, NEW j \in DOMAIN elements, i # j
  PROVE  LET a == elements[i]
             b == elements[j]
         IN Cardinality(OwnersOf(a) \cap OwnersOf(b))
              = Cardinality(Around(a.node) \cap Around(b.node))
                  + (IF a.node = b.node /\ Together(a, b) THEN 1 ELSE 0)
<1> DEFINE a == elements[i]
           b == elements[j]
           both == Around(a.node) \cap Around(b.node)
           S == OwnersOf(a) \cap OwnersOf(b)
<1>1. doc \in Documents /\ a.node \in DOMAIN doc.nodes /\ b.node \in DOMAIN doc.nodes
  BY DEF LowerInv, ElementInv, Made
<1>2. a.node = b.node => Alike(a, b)
  BY DEF PieceInv
<1> HIDE DEF a, b
<1>3. IsFiniteSet(both) /\ Cardinality(both) \in Nat
  <2>1. IsFiniteSet(Around(a.node)) /\ both \in SUBSET Around(a.node)
    BY <1>1, OwnersFinite
  <2> HIDE DEF both
  <2>2. IsFiniteSet(both)
    BY <2>1, FS_Subset
  <2>3. QED
    BY <2>2, FS_CardinalityType
<1>4. ASSUME NEW g \in S, g \notin both
      PROVE  g = a.node /\ g = b.node /\ Grouped(a) /\ Grouped(b)
  <2>1. /\ \/ g \in Around(a.node) /\ Below(g, a.node) /\ Explicit(g) /\ Node(g).kind = "group"
           \/ g = a.node /\ Grouped(a) /\ Node(g).kind = "path"
    BY <1>1, OwnerFacts
  <2>2. /\ \/ g \in Around(b.node) /\ Below(g, b.node) /\ Explicit(g) /\ Node(g).kind = "group"
           \/ g = b.node /\ Grouped(b) /\ Node(g).kind = "path"
    BY <1>1, OwnerFacts
  <2>3. QED
    BY <1>4, <2>1, <2>2
<1>5. both \subseteq S
  BY DEF OwnersOf
<1>6. CASE a.node = b.node /\ Together(a, b)
  <2>1. Grouped(a) /\ Grouped(b)
    BY <1>2, <1>6 DEF Alike
  <2>2. a.node \in S
    BY <1>6, <2>1 DEF OwnersOf
  <2> DEFINE n == a.node
  <2>3. n \notin both
    <3>1. n \in Nat
      BY <1>1, NodeFacts
    <3>2. ~Below(n, n)
      BY <3>1 DEF Below
    <3>3. QED
      BY <3>2 DEF Around
  <2> HIDE DEF both, S
  <2>4. S = both \cup {n}
    BY <1>4, <1>5, <2>2
  <2> HIDE DEF n
  <2>5. Cardinality(S) = Cardinality(both) + 1
    BY <1>3, <2>3, <2>4, FS_AddElement
  <2>6. QED
    BY <1>6, <2>5 DEF S, both, a, b
<1>7. CASE ~(a.node = b.node /\ Together(a, b))
  <2>1. \A g \in S : g \in both
    <3> SUFFICES ASSUME NEW g \in S, g \notin both PROVE FALSE
      OBVIOUS
    <3>1. g = a.node /\ g = b.node /\ Grouped(a) /\ Grouped(b)
      BY <1>4
    <3>2. QED
      BY <1>2, <1>7, <3>1 DEF Alike
  <2> HIDE DEF both, S
  <2>2. S = both
    BY <1>5, <2>1
  <2>3. Cardinality(S) = Cardinality(both) + 0
    BY <1>3, <2>2
  <2>4. QED
    BY <1>7, <2>3 DEF S, both, a, b
<1>8. QED
  BY <1>6, <1>7

\* The finished document has the groups of the instances around its elements.
LEMMA FinalGroups ==
  ASSUME LowerInv, ElementInv, SpanInv, PieceInv, GroupInv, result = "none", Correlated
  PROVE  /\ \A i, j \in DOMAIN elements : i # j =>
              Cardinality(ToSet(FinalElements[i].groups) \cap ToSet(FinalElements[j].groups))
                = Cardinality(OwnersOf(elements[i]) \cap OwnersOf(elements[j]))
         /\ \A i \in DOMAIN elements :
              /\ Len(FinalElements[i].groups) \in Nat
              /\ Len(FinalElements[i].groups) <= Cardinality(OwnersOf(elements[i]))
         /\ (\A i \in DOMAIN elements : Len(FinalElements[i].groups) <= MaxGroupIds)
              => ValidGroups(FinalElements)
<1>1. PICK number : Numbering(number) /\ Labelled(number)
  BY DEF GroupInv
<1> DEFINE list == FinalElements
           own  == Owners
           L    == KeysOf(number)
           N    == Len(elements)
<1>2. /\ Distinct(own, L) /\ OwnersListed(list, own, L) /\ OwnersNest(own)
  BY <1>1, OwnersDistinct, OwnersKept, OwnersNested
<1>3. N \in Nat /\ DOMAIN elements = 1 .. N
  <2>1. elements \in Seq(ToSet(elements))
    BY DEF LowerInv
  <2>2. QED
    BY <2>1
<1>4. DOMAIN list = 1 .. N /\ DOMAIN own = 1 .. N
  BY <1>3 DEF FinalElements, Owners
<1>5. \A i \in 1 .. N : own[i] = OwnersOf(elements[i])
  BY <1>3 DEF Owners
<1>6. \A i \in 1 .. N : IsFiniteSet(own[i]) /\ Cardinality(own[i]) \in Nat
  BY <1>5, OwnersCount DEF LowerInv
<1> HIDE DEF list, own, L, N
<1>7. ASSUME NEW i \in 1 .. N, NEW j \in 1 .. N, i # j
      PROVE  Cardinality(ToSet(list[i].groups) \cap ToSet(list[j].groups))
               = Cardinality(own[i] \cap own[j])
  <2>1. /\ N \in Nat /\ DOMAIN list = 1 .. N /\ DOMAIN own = 1 .. N
        /\ Distinct(own, L) /\ OwnersListed(list, own, L)
        /\ i \in 1 .. N /\ j \in 1 .. N /\ i # j /\ IsFiniteSet(own[i])
    BY <1>2, <1>3, <1>4, <1>6, <1>7
  <2>2. QED
    BY ONLY <2>1, OwnersShared
<1>8. ASSUME NEW i \in 1 .. N
      PROVE  Len(list[i].groups) \in Nat /\ Len(list[i].groups) <= Cardinality(own[i])
  <2>1. PICK t : Descends(t, Common(own, i)) /\ list[i].groups = Labels(t, L)
    BY <1>2, <1>4 DEF OwnersListed
  <2> DEFINE U == own[i]
             n == Len(t)
  <2>2. Len(list[i].groups) = n
    BY <2>1, DescendsLabels
  <2>3. /\ t \in Seq(Nat) /\ DOMAIN t = 1 .. n /\ n \in Nat
        /\ \A k \in DOMAIN t : t[k] \in Common(own, i)
        /\ \A k, l \in DOMAIN t : t[k] = t[l] => k = l
    BY <2>1, DescendsList
  <2>4. \A k \in 1 .. n : t[k] \in U
    BY <2>3 DEF Common
  <2>5. IsFiniteSet(U) /\ Cardinality(U) \in Nat
    BY <1>6
  <2> HIDE DEF U, n
  <2>6. t \in [1 .. n -> U]
    BY <2>3, <2>4
  <2>7. t \in Injection(1 .. n, U)
    BY <2>3, <2>6 DEF Injection, IsInjective
  <2>8. Cardinality(1 .. n) <= Cardinality(U)
    BY <2>5, <2>7, FS_Injection
  <2>9. Cardinality(1 .. n) = n
    <3>1. Cardinality(1 .. n) = IF 1 > n THEN 0 ELSE n - 1 + 1
      BY <2>3, FS_Interval
    <3>2. QED
      BY <2>3, <3>1
  <2>10. QED
    BY <2>2, <2>3, <2>8, <2>9 DEF U
<1>9. ASSUME \A i \in 1 .. N : Len(list[i].groups) <= MaxGroupIds
      PROVE  ValidGroups(list)
  BY <1>2, <1>3, <1>4, <1>9, OwnersValid
<1>10. QED
  BY <1>3, <1>5, <1>7, <1>8, <1>9 DEF list

LEMMA FinishFollows ==
  ASSUME LowerInv, ElementInv, SpanInv, PieceInv, GroupInv, Finish, Correlated
  PROVE  GroupsFollowInstances'
<1>1. /\ UNCHANGED doc /\ elements' = FinalElements /\ result = "none"
  BY DEF Finish, input
<1>2. /\ DOMAIN elements' = DOMAIN elements
      /\ \A i \in DOMAIN elements : SameFields(elements[i], elements'[i])
  BY <1>1, FinalFields
<1>3. \A g : Explicit(g)' = Explicit(g) /\ \A n : Below(g, n)' = Below(g, n)
  <2>1. \A n : Node(n)' = Node(n) /\ Explicit(n)' = Explicit(n)
    BY <1>1, SameDocument, SameGroups
  <2>2. QED
    BY <2>1 DEF Below
<1>4. ASSUME NEW i \in DOMAIN elements, NEW j \in DOMAIN elements, i < j
      PROVE  LET a == elements'[i]
                 b == elements'[j]
                 around == {g \in DOMAIN doc.nodes :
                              Explicit(g) /\ Below(g, a.node) /\ Below(g, b.node)}
                 together == a.node = b.node /\ a.piece # b.piece /\ a.parts = {"fill"}
                               /\ b.parts = {"fill"}
             IN Cardinality(ToSet(a.groups) \cap ToSet(b.groups))
                  = Cardinality(around) + (IF together THEN 1 ELSE 0)
  <2> DEFINE a == elements[i]
             b == elements[j]
             c == elements'[i]
             d == elements'[j]
             around == {g \in DOMAIN doc.nodes :
                          Explicit(g) /\ Below(g, c.node) /\ Below(g, d.node)}
             together == c.node = d.node /\ c.piece # d.piece /\ c.parts = {"fill"}
                           /\ d.parts = {"fill"}
  <2>1. i # j
    <3>1. i \in Nat
      <4>1. elements \in Seq(ToSet(elements))
        BY DEF LowerInv
      <4>2. QED
        BY <4>1
    <3>2. QED
      BY <1>4, <3>1
  <2>2. /\ c.node = a.node /\ c.piece = a.piece /\ c.parts = a.parts
        /\ d.node = b.node /\ d.piece = b.piece /\ d.parts = b.parts
    BY <1>2 DEF SameFields
  <2>3. Cardinality(ToSet(c.groups) \cap ToSet(d.groups))
          = Cardinality(OwnersOf(a) \cap OwnersOf(b))
    BY <1>1, <2>1, FinalGroups
  <2>4. Cardinality(OwnersOf(a) \cap OwnersOf(b))
          = Cardinality(Around(a.node) \cap Around(b.node))
              + (IF a.node = b.node /\ Together(a, b) THEN 1 ELSE 0)
    BY <2>1, OwnersMeet
  <2> HIDE DEF a, b, c, d
  <2>5. around = Around(a.node) \cap Around(b.node)
    BY <2>2 DEF Around
  <2>6. together <=> a.node = b.node /\ Together(a, b)
    BY <2>2 DEF Together
  <2> HIDE DEF around, together
  <2>7. Cardinality(ToSet(c.groups) \cap ToSet(d.groups))
          = Cardinality(around) + (IF together THEN 1 ELSE 0)
    BY <2>3, <2>4, <2>5, <2>6
  <2>8. QED
    BY <2>7 DEF c, d, around, together
<1>5. QED
  BY <1>1, <1>2, <1>3, <1>4 DEF GroupsFollowInstances, ToSet

\* No node is in too many groups, and no connector has a single point: both are
\* limits that the converter does not observe.
Moderate ==
  \A n \in DOMAIN doc.nodes :
    /\ Cardinality(Around(n)) < MaxGroupIds
    /\ Node(n).kind = "path" /\ Meta(n).marker = "known" /\ Len(Node(n).subpaths) = 1
         => Node(n).subpaths[1].points >= 2

LEMMA FinishValid ==
  ASSUME LowerInv, ElementInv, SpanInv, PieceInv, GroupInv, BudgetInv, result = "none",
         Correlated, Moderate
  PROVE  DocumentValid(FinalElements)
<1> DEFINE list == FinalElements
<1>1. /\ DOMAIN list = DOMAIN elements
      /\ \A i \in DOMAIN elements : SameFields(elements[i], list[i])
  BY FinalFields
<1>2. \A i \in DOMAIN elements : elements[i].node \in DOMAIN doc.nodes
  BY DEF ElementInv, Made
<1>3. ASSUME NEW i \in DOMAIN elements PROVE Len(list[i].groups) <= MaxGroupIds
  <2> DEFINE x == Len(list[i].groups)
             y == Cardinality(OwnersOf(elements[i]))
             z == Cardinality(Around(elements[i].node))
  <2>1. x \in Nat /\ x <= y
    BY FinalGroups
  <2>2. y \in Nat /\ y <= z + 1 /\ z \in Nat
    BY OwnersCount, OwnersFinite DEF LowerInv
  <2>3. z < MaxGroupIds
    BY <1>2 DEF Moderate
  <2> HIDE DEF x, y, z
  <2>4. x <= MaxGroupIds
    BY <2>1, <2>2, <2>3, MaxGroupIdsAssumption
  <2>5. QED
    BY <2>4 DEF x
<1>4. ValidGroups(list)
  BY <1>3, FinalGroups
<1>5. ASSUME NEW i \in DOMAIN list, list[i].type \in {"line", "arrow"} PROVE list[i].points >= 2
  <2> DEFINE e == elements[i]
  <2>1. /\ list[i].type = e.type /\ list[i].points = e.points /\ e.node \in DOMAIN doc.nodes
        /\ Connects(e)
    BY <1>1, <1>2 DEF SameFields, PieceInv
  <2> HIDE DEF e, list
  <2>2. CASE e.type = "line"
    BY <2>1, <2>2 DEF Connects
  <2>3. CASE e.type = "arrow"
    BY <2>1, <2>3 DEF Connects, Moderate
  <2>4. QED
    BY <1>5, <2>1, <2>2, <2>3
<1>6. files = {list[i].picture : i \in DOMAIN list} \ {NoPicture}
  <2>1. \A i \in DOMAIN elements : list[i].picture = elements[i].picture
    BY <1>1 DEF SameFields
  <2>2. files = {elements[i].picture : i \in DOMAIN elements} \ {NoPicture}
    BY DEF BudgetInv, PicturesOf
  <2> HIDE DEF list
  <2>3. QED
    BY <1>1, <2>1, <2>2
<1>7. QED
  BY <1>4, <1>5, <1>6 DEF DocumentValid

\* What holds of a document that is returned, of a source without surprises.
FinishedInv == /\ Correlated => GroupsFollowInstances
               /\ Correlated /\ Moderate => GeneratedDocumentValid

LEMMA FinishedSame ==
  ASSUME FinishedInv, UNCHANGED <<doc, elements, result>>
  PROVE  FinishedInv'
<1>1. \A n : Node(n)' = Node(n) /\ Meta(n)' = Meta(n)
  BY SameDocument
<1>2. /\ \A n : Explicit(n)' = Explicit(n) /\ Around(n)' = Around(n)
      /\ Correlated' = Correlated
  BY SameGroups
<1>3. \A g, n : Below(g, n)' = Below(g, n)
  BY <1>1 DEF Below
<1>4. Moderate' = Moderate
  BY <1>1, <1>2 DEF Moderate
<1>5. GroupsFollowInstances => GroupsFollowInstances'
  BY <1>2, <1>3 DEF GroupsFollowInstances, ToSet
<1>6. QED
  BY <1>2, <1>4, <1>5 DEF FinishedInv, GeneratedDocumentValid

LEMMA FinishedKept ==
  ASSUME LowerInv, ElementInv, SpanInv, PieceInv, GroupInv, BudgetInv, FinishedInv, [Next]_vars
  PROVE  FinishedInv'
<1>1. ASSUME result' \notin {"Ok", "InvalidGeneratedDocument"} PROVE FinishedInv'
  BY <1>1 DEF FinishedInv, GroupsFollowInstances, GeneratedDocumentValid
<1>2. CASE UNCHANGED <<input, walkVars, outputVars, result>>
  BY <1>2, FinishedSame DEF input, outputVars
<1>3. CASE NoticeCancel
  BY <1>1, <1>3 DEF NoticeCancel
<1>4. CASE SkipArtwork \/ EnterGroup \/ LeaveGroup
  <2>1. result' = "none"
    BY <1>4 DEF SkipArtwork, EnterGroup, LeaveGroup, Selected, AtChild
  <2>2. QED
    BY <1>1, <2>1
<1>5. ASSUME NEW plan, NEW isPromoted, DecidedStep(plan, isPromoted) PROVE FinishedInv'
  <2>1. /\ PlanFor(next, plan) /\ Perform(next, plan) /\ result = "none"
        /\ TypeOK /\ elements \in Seq(ToSet(elements))
    BY <1>5 DEF DecidedStep, AtChild, LowerInv
  <2>2. PaintNode(Node(next))
    <3>1. next \in DOMAIN doc.nodes
      BY <1>5, AtNext DEF LowerInv, DecidedStep, AtChild
    <3>2. QED
      BY <3>1, NodeFacts DEF LowerInv
  <2>3. \/ Aborted \/ Emitted(next, plan) \/ Pictured(next, plan) \/ Reported(next, plan)
        \/ Skipped(next, plan)
    BY <2>1, <2>2, Outcomes
  <2>4. result' = "none" \/ result' \in Failures
    BY <2>1, <2>3 DEF Aborted, Emitted, Pictured, Reported, Report, Skipped, Skip
  <2>5. QED
    BY <1>1, <2>4 DEF Failures
<1>6. CASE Finish
  <2>1. UNCHANGED doc /\ result = "none"
    BY <1>6 DEF Finish, input
  <2>2. /\ \A n : Around(n)' = Around(n)
        /\ Correlated' = Correlated
    BY <2>1, SameGroups
  <2>3. Moderate' = Moderate
    <3>1. \A n : Node(n)' = Node(n) /\ Meta(n)' = Meta(n)
      BY <2>1, SameDocument
    <3>2. QED
      BY <2>1, <2>2, <3>1 DEF Moderate
  <2>4. Correlated => GroupsFollowInstances'
    BY <1>6, FinishFollows
  <2>5. Correlated /\ Moderate => DocumentValid(FinalElements)
    BY <2>1, FinishValid
  <2>6. Correlated /\ Moderate => GeneratedDocumentValid'
    BY <1>6, <2>5 DEF Finish, GeneratedDocumentValid
  <2>7. QED
    BY <2>2, <2>3, <2>4, <2>6 DEF FinishedInv
<1>7. QED
  BY <1>2, <1>3, <1>4, <1>5, <1>6, StepCases

LEMMA GroupsAtFirst ==
  ASSUME Init
  PROVE  OpenInv /\ PieceInv /\ GroupInv /\ FinishedInv
<1>1. /\ doc \in Documents /\ frames = <<1>> /\ next = 2 /\ nextInstance = 0
      /\ activeGroups = <<>> /\ activeInstances = <<>> /\ elements = <<>> /\ result = "none"
  BY DEF Init
<1>2. /\ 1 \in DOMAIN doc.nodes /\ Node(1).kind = "group" /\ Node(1).src = 0
      /\ DOMAIN doc.nodes \subseteq Nat
  <2>1. Tree(doc.nodes)
    BY <1>1, DocumentsAssumption
  <2>2. QED
    BY <1>1, <2>1, NodeFacts DEF Tree, Node
<1>3. DOMAIN frames = {1} /\ frames[1] = 1 /\ ToSet(frames) = {1}
  <2>1. DOMAIN frames = {1} /\ frames[1] = 1
    BY <1>1
  <2>2. QED
    BY <2>1 DEF ToSet
<1>4. OpenInv
  <2>1. ~Below(1, 1) /\ ~(1 < 1)
    BY DEF Below
  <2>2. \A g \in DOMAIN doc.nodes : g < 2 => g = 1
    <3>1. \A g \in DOMAIN doc.nodes : g \in Nat /\ g >= 1
      BY <1>1, NodeFacts
    <3>2. QED
      BY <3>1
  <2>3. QED
    BY <1>1, <1>2, <1>3, <2>1, <2>2 DEF OpenInv
<1>5. DOMAIN elements = {}
  BY <1>1
<1>6. PieceInv
  BY <1>5 DEF PieceInv
<1>7. Meta(1) = NoMeta /\ ~Explicit(1) /\ NoMeta.tag = ""
  BY <1>2 DEF Known, Meta, NoMeta, Explicit
<1>8. OwnFrames = {} /\ UseFrames = {}
  BY <1>3, <1>7 DEF OwnFrames, UseFrames
<1>9. Uses(1) = {}
  <2>1. ~IsUse(1)
    BY <1>7 DEF IsUse
  <2>2. \A u \in DOMAIN doc.nodes : ~Below(u, 1)
    <3>1. \A u \in DOMAIN doc.nodes : u \in Nat /\ u >= 1
      BY <1>1, NodeFacts
    <3>2. QED
      BY <3>1 DEF Below
  <2>3. QED
    BY <2>1, <2>2 DEF Uses
<1>10. GroupInv
  <2> DEFINE number == [A \in {{}} |-> 0]
  <2>1. DOMAIN number = {{}} /\ number[{}] = 0
    OBVIOUS
  <2> HIDE DEF number
  <2>2. Numbering(number)
    BY <1>1, <2>1 DEF Numbering
  <2>3. Tracking(number)
    BY <1>1, <1>2, <1>3, <1>8, <1>9, <2>1, StackEmpty DEF Tracking
  <2>4. Labelled(number)
    BY <1>5 DEF Labelled
  <2>5. QED
    BY <2>2, <2>3, <2>4 DEF GroupInv
<1>11. FinishedInv
  BY <1>1 DEF FinishedInv, GroupsFollowInstances, GeneratedDocumentValid
<1>12. QED
  BY <1>4, <1>6, <1>10, <1>11

\* The keys the walk has are those of the groups it is in, and each element has
\* the keys of the groups around its node.
THEOREM GroupInvariant == Spec => [](OpenInv /\ PieceInv /\ GroupInv /\ FinishedInv)
<1> DEFINE Inv  == LowerInv /\ ElementInv /\ SpanInv /\ SettledInv
           More == OpenInv /\ PieceInv /\ GroupInv /\ FinishedInv
<1>1. Init => More
  BY GroupsAtFirst
<1>2. Inv /\ BudgetsExact /\ More /\ [Next]_vars => More'
  BY BudgetsAre, OpenKept, PiecesKept, GroupsKept, FinishedKept
<1>3. Spec => []Inv /\ []BudgetsExact
  BY SettledInvariant, BudgetsReported, PTL
<1> HIDE DEF Inv, More
<1>4. Spec => []More
  BY <1>1, <1>2, <1>3, PTL DEF Spec
<1>5. QED
  BY <1>4 DEF More

\* Two elements of a document that is returned share one group for each instance
\* around both, and one more if they are parts of one decomposed fill, in every
\* document whose paint nodes the converter can tell apart.
THEOREM GroupsFollow == Spec => [](Correlated => GroupsFollowInstances)
<1>1. FinishedInv => (Correlated => GroupsFollowInstances)
  BY DEF FinishedInv
<1>2. QED
  BY <1>1, GroupInvariant, PTL

\* What the converter builds passes its own validation, if the paint nodes can be
\* told apart, no node is in too many groups and no connector has a single point.
THEOREM DocumentIsValid == Spec => [](Correlated /\ Moderate => GeneratedDocumentValid)
<1>1. FinishedInv => (Correlated /\ Moderate => GeneratedDocumentValid)
  BY DEF FinishedInv
<1>2. QED
  BY <1>1, GroupInvariant, PTL
=============================================================================
