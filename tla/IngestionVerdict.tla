--------------------------- MODULE IngestionVerdict ---------------------------
(***************************************************************************)
(* What Ingestion decides, by definition: of the whole tree of documents   *)
(* at once, with no order, no shared budget and no early end.  An image is *)
(* counted as often as it is decoded, a tree as often as it is shown.      *)
(*                                                                         *)
(* Which limits hold for each document on its own and which for the whole  *)
(* tree is what the code does: elements, references, decoded bytes and     *)
(* paint nodes are summed over the tree; the attributes, the text and the  *)
(* image elements are not, although options.rs:195 and :219 speak of       *)
(* aggregate text and of images across the admitted source graph.          *)
(***************************************************************************)
EXTENDS Ingestion, Sums

\* The counters of a whole document.
Census(doc) ==
  LET nodes == doc.nodes
  IN [elements   |-> Total([i \in DOMAIN nodes |->
                              IF nodes[i].tag \in {"text", "style"} THEN 0 ELSE 1]),
      attributes |-> Total([i \in DOMAIN nodes |-> nodes[i].attributes]),
      text       |-> Total([i \in DOMAIN nodes |-> nodes[i].text]),
      references |-> Total([i \in DOMAIN nodes |-> Len(nodes[i].refs)]),
      images     |-> Total([i \in DOMAIN nodes |-> IF nodes[i].tag = "image" THEN 1 ELSE 0])]

\* The external references of a document.
Files(doc) ==
  UNION {{ref.target : ref \in {r \in ToSet(node.refs) : r.kind \notin {"local", "data"}}} :
           node \in ToSet(doc.nodes)}

\* One document on its own, whatever it contains: its nesting, attributes, text
\* and image elements are held to their limits here and nowhere else.
Fits(doc) ==
  /\ ~doc.deep
  /\ \A i \in DOMAIN doc.nodes : Bounded(doc.nodes[i])
  /\ WithinDocument(Census(doc)) /\ Census(doc).references <= Limits.references

\* The images that may be decoded if those within documents are of a set.
Decodable(within) ==
  {name \in DOMAIN Resources :
     LET res == Resources[name]
     IN /\ res.size <= Limits.resource /\ res.valid
        /\ res.svg => Fits(res) /\ Files(res) = {} /\ ToSet(DataImages(res)) \subseteq within
        /\ ~res.svg => res.pixels <= Limits.pixels}

\* ... with at most so many levels of documents.
Sound[levels \in 0 .. Limits.nestedDepth] ==
  IF levels = 0 THEN {name \in Decodable({}) : ~Resources[name].svg}
  ELSE Decodable(Sound[levels - 1])

\* A count summed over all that decoding an image decodes.
OneMore(count, sums) ==
  [name \in DOMAIN Resources |->
     count[name] + IF Resources[name].svg THEN SumOf(sums, DataImages(Resources[name])) ELSE 0]
Decoding(count) ==
  LET upTo[levels \in 0 .. Limits.nestedDepth] ==
        IF levels = 0 THEN count ELSE OneMore(count, upTo[levels - 1])
  IN upTo[Limits.nestedDepth]

OfDocuments(number) == [name \in DOMAIN Resources |-> IF Resources[name].svg THEN number[name] ELSE 0]
Bytes      == Decoding([name \in DOMAIN Resources |-> Resources[name].size])
Elements   == Decoding(OfDocuments([name \in DOMAIN Resources |-> Census(Resources[name]).elements]))
References == Decoding(OfDocuments([name \in DOMAIN Resources |-> Census(Resources[name]).references]))
Paints     == Decoding(OfDocuments([name \in DOMAIN Resources |-> Resources[name].paints]))

\* The images of the input's own document: a file is decoded once.
Images == DataImages(input.document) \o SetToSeq(Files(input.document))

Painted == 1 + input.document.paints + SumOf(Paints, Hrefs(input.document, Shows))

Admissible ==
  /\ SizeOK
  /\ input.gzip => /\ input.intact /\ input.inflated <= Limits.decompressedBytes
                   /\ input.inflated <= input.size * Limits.expansionRatio
  /\ input.document.valid /\ Fits(input.document) /\ input.candidates <= Limits.candidates
  /\ Files(input.document) \subseteq LegalPaths
  /\ Files(input.document) # {} => input.provider
  /\ \A name \in ToSet(Images) : Resources[name].svg => input.nested
  /\ ToSet(Images) \subseteq Sound[Limits.nestedDepth]
  /\ SumOf(Bytes, Images) <= Limits.resources
  /\ Census(input.document).elements + SumOf(Elements, Images) <= Limits.elements
  /\ Census(input.document).references + SumOf(References, Images) <= Limits.references
  /\ Painted <= Limits.paintNodes

\* An input is accepted only if each of its documents fits and all of them
\* together meet the limits of elements, references, decoded bytes and paint
\* nodes, each counted as often as it is decoded, and rejected only if they do
\* not.  No more: attributes, text and image elements may pass their limits over
\* the tree as a whole (ingest.rs:333, against options.rs:219).  Cancellation, the
\* provider and usvg may end the work with a verdict of their own.
VerdictExact == /\ outcome = "accepted" => Admissible
                /\ outcome \in {"limit", "invalid", "rejected"} => ~Admissible

\* The paint nodes reported are those of the tree with every image opened.
PaintCounted == outcome = "accepted" => paint.count = Painted
=============================================================================
