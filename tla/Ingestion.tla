------------------------------- MODULE Ingestion -------------------------------
(***************************************************************************)
(* Admission of one input (crates/core/src/ingest.rs): bounded SVGZ        *)
(* expansion, the census of the document, its images - data URLs and files *)
(* of a resource provider, some of them SVG documents with images of their *)
(* own - and the count of the paint nodes of the tree usvg builds.         *)
(*                                                                         *)
(* A resource is some bytes and the type they are declared to have: [svg,  *)
(* size, valid, pixels, deep, paints, nodes], where valid is the outcome   *)
(* of the decoders and parsers (UTF-8, DTD, control characters, XML, root; *)
(* image header, type and magic), deep that of ReferenceDepth.  A node is  *)
(* an element or a text of a document, with the numbers the limits are     *)
(* about and the references it makes, in order.  The target of a data URL  *)
(* is its content, by name; that of a file is its path.                    *)
(*                                                                         *)
(* A definition with a fault in its name is the faulty variant of the one  *)
(* after it, which a property is measured against.                         *)
(***************************************************************************)
EXTENDS Naturals, SequencesExt

CONSTANTS
  Inputs,      \* [size, gzip, inflated, intact, document, candidates, nested, provider]
  Resources,   \* every nested document, image and provided file, by name
  Root,        \* the name of the input's own document
  LegalPaths,  \* the relative paths ResourceRequest::parse accepts
  Limits,      \* ConversionLimits
  Buffer       \* the bytes read from the decoder at a time

\* Limits and sizes are numbers; validation refuses a limit of no paint nodes.
ASSUME NumbersAssumption ==
  /\ {Limits.decompressedBytes, Limits.expansionRatio, Limits.elements, Limits.attributes,
      Limits.totalText, Limits.references, Limits.images, Limits.resource, Limits.resources,
      Limits.nestedDepth} \subseteq Nat
  /\ Limits.paintNodes \in Nat \ {0} /\ Buffer \in Nat
  /\ \A i \in Inputs : {i.size, i.inflated} \subseteq Nat

VARIABLES
  input,      \* never changes
  stage,      \* of the input: check, inflate, parse, documents, paint or ended
  inflated,   \* the bytes of the expansion so far
  frames,     \* the documents being admitted, the innermost first
  budget,     \* ResourceBudget, shared by all of them
  loads,      \* the paths the provider was asked for, in order
  paint,      \* the paint nodes counted, and the trees still to count
  outcome,    \* "none", "accepted" or why not
  cancelled   \* the CancellationFlag

vars == <<input, stage, inflated, frames, budget, loads, paint, outcome, cancelled>>

Document(name) == IF name = Root THEN input.document ELSE Resources[name]
Documents == {i.document : i \in Inputs} \cup {Resources[name] : name \in DOMAIN Resources}

-----------------------------------------------------------------------------
(* Beginning                                                               *)

NoCounts == [elements |-> 0, attributes |-> 0, text |-> 0, references |-> 0, images |-> 0]

\* at counts the nodes of a census, then the images of a document.
Frame(name, depth) == [name |-> name, depth |-> depth, stage |-> "census", at |-> 1,
                       counts |-> NoCounts, external |-> <<>>, resolved |-> {}]

Init ==
  /\ input \in Inputs
  /\ stage = "check" /\ inflated = 0 /\ frames = <<>>
  /\ budget = [bytes |-> 0, elements |-> 0, references |-> 0]
  /\ loads = <<>> /\ paint = [count |-> 0, trees |-> <<>>]
  /\ outcome = "none" /\ cancelled = FALSE

Stop(why) == /\ stage' = "ended" /\ outcome' = why
             /\ UNCHANGED <<input, inflated, frames, budget, loads, paint, cancelled>>

\* The flag may be set between any two steps.
Cancel == /\ ~cancelled /\ stage # "ended" /\ cancelled' = TRUE
          /\ UNCHANGED <<input, stage, inflated, frames, budget, loads, paint, outcome>>

SizeOK == input.size \in 1..Limits.inputBytes

CheckInput == /\ stage = "check" /\ ~cancelled /\ SizeOK
              /\ stage' = IF input.gzip THEN "inflate" ELSE "parse"
              /\ UNCHANGED <<input, inflated, frames, budget, loads, paint, outcome, cancelled>>
RejectInput == stage = "check" /\ ~cancelled /\ ~SizeOK /\ Stop("limit")

RatioIgnored == Limits.decompressedBytes
ByteLimit == LET ratio == input.size * Limits.expansionRatio
             IN IF ratio < Limits.decompressedBytes THEN ratio ELSE Limits.decompressedBytes

\* A read returns some of what is left, no more than the buffer holds.
Reads == 1..(IF input.inflated - inflated < Buffer THEN input.inflated - inflated ELSE Buffer)

Inflate == /\ stage = "inflate"
           /\ \E read \in Reads : /\ inflated + read <= ByteLimit
                                  /\ inflated' = inflated + read
           /\ UNCHANGED <<input, stage, frames, budget, loads, paint, outcome, cancelled>>
InflateTooFar == /\ stage = "inflate" /\ \E read \in Reads : inflated + read > ByteLimit
                 /\ Stop("limit")
InflateCorrupt == stage = "inflate" /\ ~input.intact /\ Stop("invalid")
InflateEnds == /\ stage = "inflate" /\ inflated = input.inflated /\ input.intact
               /\ stage' = "parse"
               /\ UNCHANGED <<input, inflated, frames, budget, loads, paint, outcome, cancelled>>

ParseRoot == /\ stage = "parse" /\ input.document.valid
             /\ stage' = "documents" /\ frames' = <<Frame(Root, 0)>>
             /\ UNCHANGED <<input, inflated, budget, loads, paint, outcome, cancelled>>
RejectRoot == stage = "parse" /\ ~input.document.valid /\ Stop("invalid")

-----------------------------------------------------------------------------
(* The census of a document                                                *)

Top  == Head(frames)
Rest == Tail(frames)
InStage(of) == stage = "documents" /\ Top.stage = of
InCensus    == InStage("census") /\ Top.at <= Len(Document(Top.name).nodes)

\* Lengths and nesting of one node: a data URL is measured only if it is
\* written in lower case, as "data:".
Bounded(node) == /\ node.depth <= Limits.depth
                 /\ node.attributes <= Limits.attributesPerElement
                 /\ node.longest <= Limits.singleText
                 /\ \A i \in DOMAIN node.refs :
                      node.refs[i].kind = "data" => node.refs[i].length <= Limits.dataUrl

Counted(counts, node) ==
  [elements   |-> counts.elements + IF node.tag \in {"text", "style"} THEN 0 ELSE 1,
   attributes |-> counts.attributes + node.attributes,
   text       |-> counts.text + node.text,
   references |-> counts.references + Len(node.refs),
   images     |-> counts.images + IF node.tag = "image" THEN 1 ELSE 0]

WithinDocument(counts) == /\ counts.elements <= Limits.elements
                          /\ counts.attributes <= Limits.attributes
                          /\ counts.text <= Limits.totalText
                          /\ counts.images <= Limits.images

\* A reference that is neither local nor a data URL in lower case is external,
\* and listed once.
AppendAgain(list, ref) == IF ref.kind \in {"local", "data"} THEN list ELSE Append(list, ref.target)
AppendNew(list, ref) ==
  IF ref.kind \in {"local", "data"} \/ Contains(list, ref.target) THEN list
  ELSE Append(list, ref.target)
Listed(list, refs) ==
  LET upTo[k \in 0..Len(refs)] == IF k = 0 THEN list ELSE AppendNew(upTo[k - 1], refs[k])
  IN upTo[Len(refs)]

Update(frame) == /\ frames' = <<frame>> \o Rest
                 /\ UNCHANGED <<input, stage, inflated, loads, paint, outcome, cancelled>>

CensusNode ==
  /\ InCensus /\ ~cancelled
  /\ LET node   == Document(Top.name).nodes[Top.at]
         counts == Counted(Top.counts, node)
     IN IF Bounded(node) /\ WithinDocument(counts)
        THEN /\ Update([Top EXCEPT !.at = @ + 1, !.counts = counts,
                                   !.external = Listed(@, node.refs)])
             /\ UNCHANGED budget
        ELSE Stop("limit")

-----------------------------------------------------------------------------
(* A document after its census                                             *)

\* is_nested_svg_data_image: an image's data URL that says it is SVG.
ClaimsSvg(ref) == ref.kind \in {"data", "shouted"} /\ Resources[ref.target].svg
NestedImages(doc) == \E i \in DOMAIN doc.nodes :
  /\ doc.nodes[i].tag = "image"
  /\ \E j \in DOMAIN doc.nodes[i].refs : ClaimsSvg(doc.nodes[i].refs[j])

CensusOK == /\ Top.counts.references <= Limits.references
            /\ ~Document(Top.name).deep

OwnBudget    == [budget EXCEPT !.elements = Top.counts.elements,
                               !.references = Top.counts.references]
SharedBudget == [budget EXCEPT !.elements = @ + Top.counts.elements,
                               !.references = @ + Top.counts.references]

RootOK == /\ NestedImages(Document(Root)) => input.nested
          /\ input.candidates <= Limits.candidates
NestedOK == /\ Top.external = <<>>
            /\ SharedBudget.elements <= Limits.elements
            /\ SharedBudget.references <= Limits.references

AdmitDocument ==
  /\ InStage("census") /\ Top.at > Len(Document(Top.name).nodes)
  /\ IF CensusOK /\ IF Top.name = Root THEN RootOK ELSE NestedOK
     THEN /\ Update([Top EXCEPT !.stage = "images", !.at = 1])
          /\ budget' = SharedBudget
     ELSE Stop("rejected")

-----------------------------------------------------------------------------
(* Images                                                                  *)

\* The targets of an image element's references of the given kinds, in order.
ImageHrefs(node, kinds) ==
  FlattenSeq([j \in DOMAIN node.refs |->
    IF node.tag = "image" /\ node.refs[j].kind \in kinds THEN <<node.refs[j].target>> ELSE <<>>])
Hrefs(doc, kinds) == FlattenSeq([i \in DOMAIN doc.nodes |-> ImageHrefs(doc.nodes[i], kinds)])
DataImages(doc) == Hrefs(doc, {"data", "shouted"})

\* resolve_images for the input's own document, prevalidate_data_images for all.
ImagesDone   == InStage("images") /\ Top.at > Len(DataImages(Document(Top.name)))
ExternalDone == InStage("external") /\ ~(Top.at <= Len(Top.external))

\* reserve_resource_bytes
Reserved(res) == budget.bytes + res.size
ReservableAlone(res) == res.size <= Limits.resource
Reservable(res) == res.size <= Limits.resource /\ Reserved(res) <= Limits.resources

NestedDepth == IF Top.stage = "images" THEN Top.depth + 1 ELSE 1

SameDepth(res) == input.nested /\ Top.depth <= Limits.nestedDepth /\ res.valid
Nestable(res) == input.nested /\ NestedDepth <= Limits.nestedDepth /\ res.valid

\* An SVG is admitted as a document of its own before its parent goes on, a
\* raster image at once.
TakeRaster(name) ==
  /\ ~Resources[name].svg /\ Reservable(Resources[name])
  /\ Resources[name].valid /\ Resources[name].pixels <= Limits.pixels
  /\ Update([Top EXCEPT !.at = @ + 1, !.resolved = @ \cup {name}])
  /\ budget' = [budget EXCEPT !.bytes = Reserved(Resources[name])]
TakeSvg(name) ==
  /\ Resources[name].svg /\ Reservable(Resources[name]) /\ Nestable(Resources[name])
  /\ frames' = <<Frame(name, NestedDepth)>> \o frames
  /\ budget' = [budget EXCEPT !.bytes = Reserved(Resources[name])]
  /\ UNCHANGED <<input, stage, inflated, loads, paint, outcome, cancelled>>
Refused(name) ==
  LET res == Resources[name]
  IN \/ ~Reservable(res)
     \/ res.svg /\ ~Nestable(res)
     \/ ~res.svg /\ ~(res.valid /\ res.pixels <= Limits.pixels)

DataImage ==
  /\ InStage("images") /\ Top.at <= Len(DataImages(Document(Top.name))) /\ ~cancelled
  /\ LET name == DataImages(Document(Top.name))[Top.at]
     IN TakeRaster(name) \/ TakeSvg(name) \/ (Refused(name) /\ Stop("rejected"))

\* Its images resolved, a nested document is parsed into a tree and becomes an
\* image of its parent.
ForgetTree(frame, name) == [frame EXCEPT !.at = @ + 1]
KeepTree(frame, name)   == [frame EXCEPT !.at = @ + 1, !.resolved = @ \cup {name}]
ReturnNested ==
  /\ ImagesDone /\ Top.name # Root
  /\ frames' = <<KeepTree(Head(Rest), Top.name)>> \o Tail(Rest)
  /\ UNCHANGED <<input, stage, inflated, budget, loads, paint, outcome, cancelled>>

\* The input's own document goes on with its files: all need the provider.
BeginExternal ==
  /\ ImagesDone /\ Top.name = Root
  /\ IF Top.external = <<>> \/ input.provider
     THEN Update([Top EXCEPT !.stage = "external", !.at = 1]) /\ UNCHANGED budget
     ELSE Stop("rejected")

\* The path is checked before the provider is asked.
AtLoad == InStage("external") /\ Top.at <= Len(Top.external) /\ Len(loads) < Top.at
LoadExternal ==
  /\ AtLoad /\ ~cancelled
  /\ IF Top.external[Top.at] \in LegalPaths
     THEN /\ loads' = Append(loads, Top.external[Top.at])
          /\ UNCHANGED <<input, stage, inflated, frames, budget, paint, outcome, cancelled>>
     ELSE Stop("rejected")
Loaded == InStage("external") /\ Len(loads) = Top.at
ExternalImage ==
  /\ Loaded
  /\ LET name == Top.external[Top.at]
     IN TakeRaster(name) \/ TakeSvg(name) \/ (Refused(name) /\ Stop("rejected"))
ProviderFails == Loaded /\ Stop("provider")

\* usvg may reject a document that passed every check.
TreeFails == (ExternalDone \/ (ImagesDone /\ Top.name # Root)) /\ Stop("normalization")
BuildTree ==
  /\ ExternalDone
  /\ stage' = "paint" /\ paint' = [count |-> 1, trees |-> <<Root>>]
  /\ UNCHANGED <<input, inflated, frames, budget, loads, outcome, cancelled>>

-----------------------------------------------------------------------------
(* Paint nodes                                                             *)

\* Every tree an image shows is counted each time it is shown.
Shows == {"data", "shouted", "external"}
ShownOnce(doc) == SetToSeq({name \in ToSet(Hrefs(doc, Shows)) : Resources[name].svg})
Shown(doc) ==
  LET hrefs == Hrefs(doc, Shows)
  IN FlattenSeq([i \in DOMAIN hrefs |-> IF Resources[hrefs[i]].svg THEN <<hrefs[i]>> ELSE <<>>])

\* What a document counts are numbers; whatever it shows is a resource.  A data
\* URL has a colon, which no legal path has.
ASSUME DocumentsAssumption ==
  /\ Root \notin DOMAIN Resources /\ LegalPaths \subseteq DOMAIN Resources
  /\ \A doc \in Documents :
       /\ {doc.size, doc.paints} \subseteq Nat
       /\ doc.nodes \in Seq(ToSet(doc.nodes))
       /\ \A node \in ToSet(doc.nodes) : /\ {node.attributes, node.text} \subseteq Nat
                                         /\ node.refs \in Seq(ToSet(node.refs))
                                         /\ \A ref \in ToSet(node.refs) :
                                              /\ ref.kind \in {"local", "data", "shouted", "external"}
                                              /\ ref.kind = "shouted" => ref.target \notin LegalPaths
       /\ {DataImages(doc), Shown(doc)} \subseteq Seq(DOMAIN Resources)

CountTree ==
  /\ stage = "paint" /\ ~cancelled /\ paint.trees # <<>>
  /\ LET doc   == Document(Head(paint.trees))
         count == paint.count + doc.paints
     IN IF count <= Limits.paintNodes
        THEN /\ paint' = [count |-> count, trees |-> Shown(doc) \o Tail(paint.trees)]
             /\ UNCHANGED <<input, stage, inflated, frames, budget, loads, outcome, cancelled>>
        ELSE Stop("limit")
\* The flag is read at the beginning, before each node of a census, each element
\* whose images are looked for, each file and each tree.
NoticeCancel ==
  /\ cancelled
  /\ \/ stage = "check" \/ InCensus \/ InStage("images") \/ AtLoad
     \/ stage = "paint" /\ paint.trees # <<>>
  /\ Stop("cancelled")

Accept == stage = "paint" /\ paint.trees = <<>> /\ Stop("accepted")

Next == \/ Cancel \/ NoticeCancel
        \/ CheckInput \/ RejectInput \/ Inflate \/ InflateTooFar \/ InflateCorrupt \/ InflateEnds
        \/ ParseRoot \/ RejectRoot \/ CensusNode \/ AdmitDocument
        \/ DataImage \/ ReturnNested \/ BeginExternal
        \/ LoadExternal \/ ExternalImage \/ ProviderFails \/ TreeFails \/ BuildTree
        \/ CountTree \/ Accept

Spec == Init /\ [][Next]_vars

-----------------------------------------------------------------------------
(* Properties                                                              *)

Outcomes == {"accepted", "limit", "invalid", "rejected", "provider", "normalization",
             "cancelled"}

\* The type invariant: what the documents share stays within the limits.
TypeOK ==
  /\ stage \in {"check", "inflate", "parse", "documents", "paint", "ended"}
  /\ outcome \in Outcomes \cup {"none"} /\ (outcome # "none" <=> stage = "ended")
  /\ inflated \in 0..input.inflated
  /\ budget.bytes \in 0..Limits.resources
  /\ budget.elements \in 0..Limits.elements /\ budget.references \in 0..Limits.references
  /\ \A i \in DOMAIN frames : /\ frames[i].name \in DOMAIN Resources \cup {Root}
                              /\ frames[i].stage \in {"census", "images", "external"}
                              /\ WithinDocument(frames[i].counts)
  /\ paint.count \in 0..Limits.paintNodes
  /\ cancelled \in BOOLEAN

\* The expansion of an SVGZ input is never held beyond the byte limit or the
\* ratio to what came in, whatever the sizes of the reads.
InflationBounded ==
  inflated <= Limits.decompressedBytes /\ inflated <= input.size * Limits.expansionRatio

\* The recursion into nested documents: each is one level below its parent, and
\* a document is parsed only within the limit and only if the option allows it.
NestingBounded ==
  /\ \A i \in DOMAIN frames : frames[i].depth = Len(frames) - i
  /\ Len(frames) <= Limits.nestedDepth + 1
  /\ Len(frames) > 1 => input.nested

\* The provider is asked only when there is one, only for legal paths that the
\* input's own document refers to, for each at most once, and only after all its
\* data images and what is nested in them were admitted.
LoadedOnce ==
  loads # <<>> =>
    LET root == frames[Len(frames)]
    IN /\ input.provider /\ root.stage = "external"
       /\ \A i, j \in DOMAIN loads : loads[i] = loads[j] => i = j
       /\ \A i \in DOMAIN loads :
            /\ loads[i] \in LegalPaths
            /\ \E k \in DOMAIN input.document.nodes : \E r \in DOMAIN input.document.nodes[k].refs :
                 input.document.nodes[k].refs[r].kind = "external"
                   /\ input.document.nodes[k].refs[r].target = loads[i]

\* When usvg builds a tree, its resolvers find every image of the document in
\* the store, and nothing that was not admitted.
ImagesResolved ==
  /\ stage = "paint" => Top.resolved = ToSet(DataImages(Document(Root))) \cup ToSet(loads)
  /\ ImagesDone => Top.resolved = ToSet(DataImages(Document(Top.name)))
=============================================================================
