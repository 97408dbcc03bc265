------------------------------ MODULE MCIngestion ------------------------------
(***************************************************************************)
(* Every document of up to three nodes out of a palette, one of each kind  *)
(* the census and the images tell apart, and those of up to two with every *)
(* option.                                                                 *)
(***************************************************************************)
EXTENDS IngestionVerdict

SmallLimits ==
  [inputBytes |-> 3, decompressedBytes |-> 5, expansionRatio |-> 2,
   elements |-> 8, depth |-> 2, attributesPerElement |-> 2, attributes |-> 6,
   singleText |-> 2, totalText |-> 4, references |-> 5, dataUrl |-> 2, images |-> 2,
   candidates |-> 1, resource |-> 2, resources |-> 5, nestedDepth |-> 2, pixels |-> 2,
   paintNodes |-> 9]

Ref(kind, target) == [kind |-> kind, target |-> target, length |-> 1]
Node(tag, refs) == [tag |-> tag, depth |-> 1, attributes |-> 1, text |-> 0, longest |-> 0,
                    refs |-> refs]
Image(kind, target) == Node("image", <<Ref(kind, target)>>)
Shape == Node("shape", <<Ref("local", "gradient")>>)
Texts == [Node("text", <<>>) EXCEPT !.text = 2, !.longest = 2, !.attributes = 0]

Palette ==
  {Shape, Texts,
   [Shape EXCEPT !.depth = 3], [Texts EXCEPT !.longest = 3],
   [Shape EXCEPT !.attributes = 2], [Shape EXCEPT !.attributes = 3],
   Image("data", "photo"), Image("data", "large"), Image("data", "wide"),
   Image("data", "icon"), Image("data", "card"), Image("data", "sheet"), Image("data", "linked"),
   Image("data", "broken"), Image("shouted", "photo"),
   [Image("data", "photo") EXCEPT !.refs[1].length = 3],
   Image("external", "a.png"), Image("external", "b.svg"), Image("external", "../c"),
   Node("style", <<Ref("external", "a.png"), Ref("external", "b.svg")>>)}

\* The svg element itself is the first node of a document.
SvgRoot == Node("svg", <<>>)
Doc(nodes) == [svg |-> TRUE, size |-> 1, valid |-> TRUE, pixels |-> 0, deep |-> FALSE,
               paints |-> Len(nodes), nodes |-> <<SvgRoot>> \o nodes]
Raster == [Doc(<<>>) EXCEPT !.svg = FALSE, !.pixels = 1, !.nodes = <<>>]

\* icon in card, card in sheet: three levels, of which two are allowed.
SmallResources ==
  [photo  |-> Raster,
   large  |-> [Raster EXCEPT !.size = 3],
   wide   |-> [Raster EXCEPT !.pixels = 3],
   icon   |-> Doc(<<Shape>>),
   card   |-> Doc(<<Image("data", "icon"), Image("data", "photo")>>),
   sheet  |-> Doc(<<Image("data", "card")>>),
   linked |-> Doc(<<Image("external", "a.png")>>),
   broken |-> [Raster EXCEPT !.valid = FALSE]]
  @@ "a.png" :> [Raster EXCEPT !.size = 2]
  @@ "b.svg" :> Doc(<<Image("data", "icon")>>)
  @@ "../c"  :> Raster
SafePaths == {"a.png", "b.svg"}

Plain(doc) == [size |-> 1, gzip |-> FALSE, inflated |-> 0, intact |-> TRUE, document |-> doc,
               candidates |-> 1, nested |-> TRUE, provider |-> TRUE]
Compressed(size, bytes, intact) ==
  [Plain(Doc(<<Shape>>)) EXCEPT !.gzip = TRUE, !.size = size, !.inflated = bytes, !.intact = intact]

Sequences(n) == UNION {[1..k -> Palette] : k \in 0..n}
SmallInputs ==
  {Plain(Doc(nodes)) : nodes \in Sequences(3)}
  \cup {[Plain(Doc(nodes)) EXCEPT !.nested = FALSE] : nodes \in Sequences(2)}
  \cup {[Plain(Doc(nodes)) EXCEPT !.provider = FALSE] : nodes \in Sequences(2)}
  \cup {Compressed(size, bytes, intact) : size \in 1..4, bytes \in 1..7, intact \in BOOLEAN}
  \cup {[Plain([Doc(<<Shape>>) EXCEPT !.valid = valid, !.deep = deep]) EXCEPT
           !.size = size, !.candidates = candidates] :
         valid \in BOOLEAN, deep \in BOOLEAN, size \in {0, 3, 4}, candidates \in 1..2}
=============================================================================
