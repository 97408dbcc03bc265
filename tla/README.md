# A formal model of svg2excal

svg2excal converts SVG and SVGZ documents to Excalidraw drawings. This directory
holds TLA+ models of its core, of its HTTP server and of its command line
adapter, TLC configurations that check them on small instances, and proofs TLAPS
checks for every value of the constants. `src/` below is the repository.

Run a configuration with `tlc -config X.cfg M` and the proofs with `tlapm M.tla`
for each module M whose name ends in `Proofs`. `PROJECT.json`
lists the components, every run with its properties, the code lines behind each
definition, the hazards, the findings and the theorems; its `mutants` name, for
each property, a plausible bug in one definition that the property catches. The
faulty variants stand in the modules just before the definition they replace.

## The system

| Component | State | Operations | Hard behaviour |
|---|---|---|---|
| Server, `apps/server/src/main.rs` | the open connections, two semaphores, the handler of each request, its deadline and cancellation flag, its blocking task, a bounded channel, the supervisor, the phase of the process | connect, admit or refuse, read the body, take a conversion permit, spawn, arm the timeout, answer, hand the task over, reap, close, shut down | handler, blocking pool, clock, supervisor and client interleave at each await; futures are dropped; work outlives its request |
| Command line, `apps/cli/src/main.rs` | resolved paths, a temporary file, the files at the destinations | resolve, read, convert, write the document, write the report | several commands on the same files; failure, kill or power loss between steps; aliases of one file |
| Ingestion, `core/src/ingest.rs` | the SVGZ expansion, the counters of each document, a budget shared by nested documents, the store of resolved images, the reference graph | expand, parse, census, resolve data URLs and files, nest, build, count | recursion under shared limits; every limit at its edge; a resolver consulted later by usvg |
| Source correlation, `core/src/source.rs` | the ids reserved, the ids inserted, the metadata under each anchor | anchor each element, insert synthetic ids, classify markers, shadows and corners | ids that style sheets, references and duplicates can observe |
| Geometry, `core/src/convert.rs` from `flatten_path` on | the open subpath, the curve pieces still to flatten, the finished subpaths | flatten a path; test edges, boundaries, containment; recognize figures | subdivision up to a depth, exact touching, closing points written in several ways |
| Lowering, the rest of `core/src/convert.rs` | the walk's stack, groups and instances, elements, files, diagnostics, budgets | lower a path, text, image, isolated group or group; finish | early returns, flags read at the next sibling, budgets that decide the drawing |
| Target, `core/src/target.rs` | the document | validate, serialize, parse | a valid input may produce a document that fails its own validation |
| Options, report, identity, resource, error | none beyond constants and the cancellation flag | validation, hashing, formatting | single values |

A call of the server or the command line passes bytes to `convert`, which
ingests them (`normalize`), correlates the source, lets usvg normalize it, lowers
the paint tree (flattening each path on the way), and validates the document. The cancellation flag is the only
state the server and a running conversion share. The file system is the only
state two commands share.

What makes them correct:

- server: permits are never leaked; a request has one answer; work that timed
  out is cancelled and kept until it is done; shutdown drains; the deadline ends
  a request;
- command line: a destination holds a whole file, whatever happens; the input is
  never overwritten; the exit status is true;
- ingestion: accepted means each document and the whole tree of documents meet
  their limits, and rejected means they do not; images the picture needs are in the store;
- source correlation: an anchor names one element and carries that element's
  metadata; inserted ids change nothing that can be observed; what is recognized
  is what the definition draws;
- geometry: a flattened curve is within the tolerance; a compound fill is split
  only into polygons that are apart; a native figure is drawn only for its outline;
- lowering: nothing visible is lost or drawn twice; groups are the instances of
  the source; budgets and the report are exact; strict means exact; the document
  is valid.

## The modules

| Module | Models | State and actions |
|---|---|---|
| `ConversionService` | what the server promises its clients | stage, answer and work of each request |
| `Server` | `main`, `admit_request`, `convert_handler`, `supervise`, `supervisor_loop`, `shutdown_signal` | `pc[r]` is the await or the stretch between awaits where the handler of r is; `task[r]` the blocking task; one action per stretch and outcome. `connections` are those axum serves: a request that is read on one is admitted after the signal too, and `ServeReturns` waits for the last to close. `Disconnect` drops a handler at an await only. What clients and the runtime do (`Connect`, `Close`, `StartTask`, `CompleteTask`, `AbortTask`, `Exit`) is external |
| `MCServer`, `ServerProofs` | instances; theorems | |
| `Sums`, `Induction` | `Sums` is what adding up a sequence gives, for `Lowering` and `IngestionVerdict`; `Induction` is nothing of the code: induction over numbers, definition by recursion and lemmas about sums, for the proofs | |
| `Ingestion` | `normalize`, `decompress_svgz`, `census` and its helpers, `prevalidate_data_images`, `parse_nested_svg`, `reserve_resource_bytes`, `checked_image_kind`, `resolve_images`, `count_paint_nodes` | `frames` is the recursion of `parse_nested_svg`, `budget` is `ResourceBudget`; `CensusNode` is one round of the census loop, `DataImage` and `ExternalImage` one image, `Inflate` one read, `CountTree` one tree |
| `ReferenceDepth` | `validate_reference_depth` | the graph of ids and the iterative depth-first search, one action per branch of its loop |
| `IngestionVerdict` | nothing of the code: the verdict and the number of paint nodes by definition, over the whole tree of documents at once | |
| `MCIngestion`, `MCReferenceDepth`, `IngestionProofs`, `ReferenceDepthProofs` | instances; theorems | |
| `SourceCorrelation` | `prepare_source`: `stylesheet_observes_id_presence`, `classify_marker` and `linear_path_points`, `classify_shadow`, `rect_radius`, the loop over the elements, `apply_insertions` | `next` is the element of the loop, `reserved` is `reserved_ids`, `inserted` the insertions by element, `nodes` the metadata; `KeepOwnId`, `InsertId`, `PassOver` are the three ways through the loop body |
| `MCSourceCorrelation`, `SourceCorrelationProofs` | documents that share, lack or guess ids, markers, filters, radii; theorems | |
| `PathGeometry` | `flatten_path`, `flatten_quad`, `flatten_cubic`, `finish_subpath`, `is_simple_fill_boundary`, `segments_intersect`, `disjoint_fill_subpaths`, containment, rectangles and diamonds | `current` is the open subpath, `pieces` the recursion of the subdivision, leftmost piece first; `EmitChord`, `Split` and `TooDeep` are the three outcomes for a piece, and the segments of a path are one action each. The tests on finished subpaths are operators |
| `MCPathGeometry`, `PathGeometryProofs` | curves on a grid, pairs of outlines, quadrilaterals; theorems | |
| `Lowering` | `LoweringContext` and everything `lower_group` calls, `finalize_groups`, the group and file rules of `validate_elements` | `frames` is the recursion of `lower_group`; one action per kind of node. The plan operators (`PathPlan`, `TextPlan`, `IslandPlan`, ...) are the decisions of one node, `Perform` carries a plan out |
| `MCLowering`, `LoweringProofs` | documents: source elements expanded to paint nodes as usvg does (defs, use, markers); theorems | |
| `CliOutput` | `run`, `resolved_paths`, `read_bounded`, `write_output`, `write_atomic`, for several commands on one file system | `visible` is what each location holds, `possible` what it may hold after a loss of power; a rename is visible at once and durable later; unsynchronized bytes may be torn |
| `MCCliOutput`, `CliOutputProofs` | two commands, one small tree; theorems | |

`Server` refines `ConversionService` under the mapping of its last section
(`ImplementsService`). `Ingestion` takes the verdict of `ReferenceDepth` on a
document as the field `deep`; `Lowering` starts from what ingestion accepts, from
the anchors `SourceCorrelation` makes (`Anchored` and `Meta`), and from what the
tests of `PathGeometry` say of a path. The parts are joined at those values and not composed into one state machine: they
run one after the other in one thread, and only the flag comes from outside,
which each module sets at any time.

What is abstracted. A document in `Ingestion` is a sequence of nodes with the
numbers that limits are about; decoders, parsers and usvg give their verdicts
through the input or nondeterministically. The several limits of a census are
checked together, so which one an error names is left out, as is the diagnostic
for active content. In `Lowering`, geometry is reduced to what decisions look
at: number of points, closed, curved, flat, simple, and the native figure a path
equals. `PathGeometry` computes those on integer coordinates in units of
2^-(3 * MaxDepth), so that every midpoint is exact; the transform of the points
and the rounding of f64 are left out. In `SourceCorrelation`, attributes of a
marker or a filter that the code compares with fixed values are one flag
("plain"), outlines are integers in twentieths, and a style sheet is what it selects
by: a class, the presence of an id, or a synthetic id. In `CliOutput` a content is its owner, its kind and whether it is whole.

## What the runs show

Each passing run explores its whole state space; every action fires in one.

| Run | Instance | Shows |
|---|---|---|
| `server_safety` | 3 requests, 2 permits of each kind, two ways to fail, both rejections, clients that leave, a shutdown at any time | `PermitAccounting`, `TimedOutWorkRetained`, `SupervisedDrainedBeforeExit`, `BusyOnlyBehindOrphan`, and the refinement `ImplementsService` |
| `server_liveness` | 3 requests, 1 permit, clients that neither send, read nor leave | `EveryRequestAnswered` and `SupervisorKeepsUp`, whatever clients do; `ShutdownCompletes`, if every client in the end reads its response or leaves |
| `lowering_safety` | every pair of 27 kinds of leaves in 9 arrangements, 4 profiles, tight budgets, cancellation at any time | `PaintKept`, `PaintedOnce`, `GroupsFollowInstances`, `GeneratedDocumentValid`, `BudgetsExact`, `StrictMeansExact`, `DecompositionAffordable` |
| `reference_depth` | every graph over 3 ids with up to 2 references each, dangling ones included, and every nesting of 3 elements with repeated or missing ids; limit 2 | accepted exactly when no chain is longer than the limit; the search ends |
| `ingestion` | every document of up to 3 nodes from 20 kinds, nested documents of three levels, files, both options, SVGZ inputs of every small size and ratio, cancellation at any time | `VerdictExact`: accepted exactly when each document meets the limits of depth, attributes, text and images, and the tree of documents those of elements, references, decoded bytes and paint nodes; `LoadedOnce`, `ImagesResolved`, `NestingBounded`, `InflationBounded`, `PaintCounted` |
| `source_correlation` | every document of 4 elements with ids shared, absent, or equal to the synthetic id of an earlier or a later one, references to them and every set of style sheets; markers of every turning, outline and fill; shadows at and past the limits of each profile | `AnchorsIdentify`, `InjectionUnobserved`, `DefinitionsProven` |
| `path_geometry` | every quadratic and cubic curve over a 3 by 3 grid, halved up to twice; pairs of rectangles, triangles and diamonds on a 4 by 4 grid, with triples; closed quadrilaterals with and without the closing point; points and comparisons that run out | `CurveFollowed`, `FillsApart`, `FigureExact` |
| `cli_output` | 2 commands, 42 pairs of command lines with shared outputs, crossed outputs, one reading what the other writes, links, spellings, standard streams | `DestinationsWhole`, `InputKept`, `SuccessMeansWritten`, `FailureIsClean` |

Why the bounds are enough. Server: the interesting cases need one request whose
conversion outlives it, one that holds the last permit and one that is turned
away; with two permits, the channel can be full behind a task that is being
reaped. Requests are interchangeable in the safety run, so symmetry is sound
there, and it is not used for liveness. A connection carries one request: with
keep-alive, the next one is the request of another connection. Lowering: what a node does depends on
itself, its next sibling and the groups around it, so pairs of leaves in every
arrangement meet each rule; limits are set so that each budget runs out in some
documents and suffices in others. Ingestion and references: limits of 2 to 9
are met, missed by one and passed, on both sides of nesting. Command line: two
writers and one shared destination are the smallest race. Source correlation: a
clash takes an element without an id and one that has its synthetic id before or
after it, and a third that refers to it. Geometry: the halving is the same at
every depth, so two levels (20 in the code) meet a chord, a split and a failure
on each side of the tolerance, which is an eighth of a grid cell; outlines with
corners on a grid of three cells touch, cross, contain and miss each other in
every way two convex outlines can.

Deadlock checking is off in all runs: the models stop where the program does (a
verdict, a finished conversion, an exited process), which the liveness
properties cover for `Server` and `ReferenceDepth`.

Fairness. `Server!Scheduling` asks of the runtime what tokio gives: a handler
that can go on is polled, the clock advances, the pool starts what is queued
(there are more blocking threads than permits), supervisor and main run. Nothing
is asked of clients or the operator: `HandlerGoesOn` leaves out what takes a
client, and `Connect`, `Close`, `Disconnect` and `Shutdown` are not fair. The one
promise that depends on clients says so itself: `ShutdownCompletes` has
`ClientsFinish` as its hypothesis, for the graceful shutdown of axum waits for
every connection, and the deadline ends when the response is produced and not
when a slow client has read it (`docs/svg2excal-operations.md:22-25`). Without the
hypothesis TLC finds the client that holds the process open. `ConversionsEnd` adds that a conversion
ends, which the bounded budgets of the converter justify. `ReferenceDepth!FairSpec`
asks only that the single thread goes on. The other modules state safety only.

## Where code and documentation differ

Four runs end in a counterexample, each to a sentence of the documentation.

| Run | What happens | Code |
|---|---|---|
| `server_cancellation` | the deadline passes between the spawn and the timeout: the request gets 408 and its conversion runs on, neither cancelled nor supervised (`docs/svg2excal-operations.md:17`) | `main.rs:294` |
| `lowering_unanchored` | with ids that may not be injected, two instances of a group get one group key, the group is not contiguous, and the document fails its own validation | `convert.rs:269` |
| `lowering_text_stroke` | the stroke of a text is neither drawn nor reported | `convert.rs:911` |
| `cli_bare_name` | `--output rfc.excalidraw`, the command of the README, fails if the file does not exist: the parent of a bare name is the empty path | `apps/cli/src/main.rs:140` |

`PaintKept` and `StrictMeansExact` hold in `lowering_safety` because its documents
have no stroked text, no text decoration and no dot (a subpath of no length with
round caps), all of which are dropped under every profile, strict included;
`GeneratedDocumentValid` because they allow ids to be injected. The runs above
show the stroke and the ids; decorations and dots are in no run.

Met while modelling, and without a run of their own. Where a property had to
leave such a case out, its comment says so.

- `main.rs:347`: while the supervisor waits for a task that does not react to
  its flag, its channel fills up, and a later request waits in `send` past its
  deadline.
- `ingest.rs:483`: references of an element nested in another element with an id
  count only for the inner id, so expansions deeper than the limit are accepted.
- `ingest.rs:333`: `max_input_images` counts each document on its own although
  `options.rs:219` says "across the admitted source graph": a document with one
  nested document that has as many images as the limit is accepted. The same
  holds of the aggregate text of `options.rs:195` and of attributes. `Fits` is
  what the code does, and `VerdictExact` promises no more.
- `convert.rs:2177`: `distance_to_line` measures to the infinite line. A curve
  that overshoots its end or doubles back along its chord is flattened away,
  and a closed curve whose handles lie on one line disappears, contrary to the
  error bound of `specs/svg-mapping-design.md:122` (`Progressive` in
  `CurveFollowed`).
- `convert.rs:2037` and `1776`: an open fill that is led back to its start keeps
  its last point, which is then taken for a crossing (`FillsApart`).
- `convert.rs:2216`: rectangles and diamonds are told by their corners, so the
  stroke of a bow tie becomes that of a rectangle (`FigureExact`).
- `convert.rs:1945`: an ellipse is told by its extent and its points, which
  other outlines share.
- `source.rs:401`: `linear_path_points` does not follow subpaths, so a marker
  drawn in three moves passes for the triangle (`DefinitionsProven`).
- `source.rs:99`: a dangling reference to a synthetic id is not reserved
  against, and finds the element that gets it (`InjectionUnobserved`).
- `convert.rs:911` and `790`: a text's decoration, and the dot that a subpath of
  no length with round caps is, are neither drawn nor reported, as a text's stroke
  is not (`Carried` in `LoweringProofs`).
- `convert.rs:675`: a connector of no length becomes an arrow of one point,
  which validation rejects; `convert.rs:515`: a curved connector that becomes an
  arrow is flattened without a diagnostic; `convert.rs:911`: a text with a
  gradient fill fails the conversion; `target.rs:333`: 65 nested groups with two
  shapes each fail validation; `convert.rs:359`: an uncorrelated compound fill
  may share its number with an enclosing group.

## What is proved

`ServerProofs`, for every finite set of requests and every positive number of
permits:

- `TypeCorrect`: `Spec => []TypeOK`.
- `PermitsAccounted`: `Spec => []PermitAccounting`. The inductive invariant
  `PermitInv` adds the types and `UnspawnedHasNoTask`: without it, a spawn might
  count one request twice among those converting. Each action moves at most one
  request in or out of `InFlight` or `Converting`; `FlightSteps` and
  `ConvertingSteps` turn that into cardinalities.
- `BusyImpliesOrphan`: `Spec => BusyOnlyBehindOrphan`, an action property. From
  the accounting: if no conversion permit is free, as many conversions run as
  requests may be in flight, and the one that asks is in flight but has none, so
  some conversion has lost its request.
- `TimedOutRetention`: `Spec => []TimedOutWorkRetained`, strengthened by
  `CancelledBySender`: a flag is set only by a handler that is about to send,
  and stays with a request that was answered.
- `ShutdownDrains`: `Spec => []SupervisedDrainedBeforeExit`. `DrainedInOrder`
  adds that a handler has an open connection, that no connection is left once
  `axum::serve` has returned, and that nothing is in the channel or with the
  supervisor once it has ended; with the retention above, what was given to it
  is done.
- `ServerImplementsService`: `Spec => ImplementsService`, the refinement. The
  initial states map to initial states; a step of a handler moves the stage of
  one request (`HandlerSimulated`), a step of a task its work, every other step
  neither (`OthersSimulated`), and `PermitInv` turns permits into the capacities
  the service counts.

`LoweringProofs`, for every set of documents (trees of any size and nesting),
every profile and all limits. Five sets of invariants, each relying on those before:

- `LowerInv` (theorem `WalkInvariant`): the open groups are nested around the
  next node (`WalkInv`), counters never overtake the walk (`CountInv`), and
  every decision (`PlanFor`) has drawings and notes of the known kinds. Hence
  `LoweringTyped`: `Spec => []TypeOK`, which holds every budget to its limit, and
  `DecompositionNeverFails`: `Spec => DecompositionAffordable`, for the points that
  `lower_editable_compound_fill` counts in advance are at least those of the
  polygons it then draws (`DecomposedDrawn`).
- `ElementInv` and `BudgetInv`: an element carries the picture and points its
  node gives it, and the budgets are sums over the elements; with the lemmas
  about sums this is `BudgetsReported`: `Spec => []BudgetsExact`, through the
  rewriting of the group ids at the end too.
- `SpanInv`: an element stands for the nodes from its own up to its `Reach`,
  which is past the artwork of a promoted connector and past everything in an
  island; of two elements, one ends before the other begins, or both are
  drawings of one node whose parts differ. `PendingInv` says that the node after
  a connector just promoted is its artwork, so that what the heads stand for is
  passed over and not drawn. Hence `EverythingPaintedOnce`: `Spec =>
  []PaintedOnce`.
- `SettledInv` (theorem `SettledInvariant`): each node the walk has passed is
  painted, if it has to be, and exact under the strict profile, unless the report
  already fails that profile; the drawings of a decision cover what an SVG
  renderer paints of its node (`DrawnAll`). Hence `PaintIsKept`: `Spec =>
  []PaintKept`, and `StrictIsExact`: `Spec => []StrictMeansExact`. Both have the
  hypothesis `AllCarried`: no text has a stroke, which is what the run
  `lowering_text_stroke` finds dropped, or a decoration, and no subpath with round
  caps is without length (`convert.rs:790`). Of what the model paints, nothing else
  is lost.
- `OpenInv`, `PieceInv`, `GroupInv` and `FinishedInv` (theorem
  `GroupInvariant`): the walk is in the groups around its next node and in no
  others; two elements of one node are parts of one decomposed fill or carry the
  same keys; and the use instances entered so far can be numbered such that the
  stacks of keys of the walk and of the elements are, innermost last, the keys
  of the groups around their nodes. Only `Finish` looks at the keys themselves:
  it keeps those that two elements have in common (`Kept`). Hence
  `GroupsFollow`: `Spec => [](Correlated => GroupsFollowInstances)` and
  `DocumentIsValid`: `Spec => [](Correlated /\ Moderate =>
  GeneratedDocumentValid)`.

  `GroupInv` must speak of some numbering, for `lower_group` draws the number of
  an instance from a counter when it enters it, and the keys of two instances
  differ only because they were entered one after the other. The hypotheses are
  about the document. `Correlated`: a compound fill is known by its source
  element, and a source element makes at most one group or compound fill in each
  use instance. Without it the keys of two groups can be equal, which is what
  `lowering_unanchored` finds and `convert.rs:359` allows. `Moderate`: fewer than
  `MaxGroupIds` groups around each node (`target.rs:333`) and no promoted connector
  of a single point (`convert.rs:675`). All documents of `lowering_safety` meet
  both, and the proof shows that `validate` rejects a group, line or file of the
  converter's own making for no other reason.

`ReferenceDepthProofs`, for every set of documents, every order of ids and every
limit:

- `SearchTyped`: `Spec => []TypeOK`; `AcceptedRanked`: `Spec =>
  []AcceptedIsRanked`: an accepted graph has depths within the limit that fall
  along every reference, hence no cycle and no longer chain.
- The inductive invariant `RankInv` (theorem `RankInvariant`) says what a frame
  of the stack has established: each target it has read is visited with a
  smaller depth, except the last, which may still be right above it. When a
  frame is popped nothing is above it.
- `VerdictIsExact`: `Spec => []VerdictExact`: accepted exactly when no chain of
  references is longer than the limit. One half follows from the ranks, by
  induction along a chain; for the other, `ChainInvariant` says that every
  depth the search holds is the length of a chain that is in the document.

`IngestionProofs`, for every set of inputs, every set of resources and all limits:

- `AdmissionTyped`: `Spec => []TypeOK`, which holds the shared budgets to their
  limits; `InflationStaysBounded`: `Spec => []InflationBounded`;
  `NestingStaysBounded`: `Spec => []NestingBounded`; `StoresComplete`: `Spec =>
  []ImagesResolved`.
- The inductive invariant `IngestInv` (theorem `IngestInvariant`) follows the
  recursion of `parse_nested_svg`: the frames are a path from the innermost
  document to the input's own, and each waits, at an image it has reached, for
  the one before it (`Chain`); what a frame has resolved is what it has gone
  through (`ResolvedSoFar`), and the provider was asked in the order of the
  references (`LoadsFollow`), so that a tree is built only when nothing is
  missing (`AtPaint`). `BudgetStart` is needed because the census of the input's
  own document is checked without the shared budget: it is still zero then.
- `EachLoadedOnce`: `Spec => []LoadedOnce`: the list of external references that
  the census collects names none twice (an induction over the references of a
  node; theorem `FilesListed`), and the provider is asked in the order of that list.
- `VerdictIsExact`: `Spec => []VerdictExact`, and `PaintNodesCounted`: `Spec =>
  []PaintCounted`: what the recursion decides image by image, with budgets it
  shares and an end at the first offence, is what `IngestionVerdict` defines of
  the whole tree at once. There an image is of `Sound[n]` if it and all in it,
  up to n levels of documents, may be decoded, and what it costs is summed over
  all that decoding it decodes (`Decoding`).
- Their inductive invariant is `VerdictInv` (theorem `VerdictInvariant`), on top
  of `IngestInv`. A frame has counted what the nodes behind it come to and found
  their files, and the images behind it are of the `Sound` of its level
  (`FrameSound`). A budget is the sum of what the frames were charged, which of a
  frame is its own document and the whole cost of the images behind it
  (`Balanced`, with the sums frame by frame as a `Ledger`): when a nested document
  is done, its charge is its whole cost and becomes a part of its parent's. So
  acceptance means that nothing is missing from the sum (`BuildReady`). For a
  rejection the sums are compared with the most they can be: what a frame was
  charged, with the image it is at, is never more than all its document costs
  (`House`), so that a budget that runs out is one the whole tree exceeds.
  `PaintInv` is the same for `count_paint_nodes`: the paint nodes counted and
  those of the trees to count are always those of the whole.

`SourceCorrelationProofs`, for every set of documents:

- `AnchorsNameElements`: `Spec => []AnchorsIdentify`; `InsertionsUnobserved`:
  `Spec => []InjectionUnobserved`; `CorrelationTyped`: `Spec => []TypeOK`.
- The inductive invariant `LoopInv` (theorem `LoopInvariant`) has four parts: an
  id is inserted only into a passed element that has none and can be told apart
  (`InsertionsFresh`), into every such element (`InsertionsMade`), the reserved
  ids are those of the document and the inserted ones (`ReservedKept`), and the
  anchors are those of the passed elements (`AnchorsKept`). Two elements that
  can be told apart then have different ids in the prepared text
  (`AnchorsApart`), which is why writing one anchor never replaces another.
- `RecognizedIsProven`: `Spec => []DefinitionsProven`. A reference that the code
  looked up finds the same element in the prepared text (`FoundPrepared`); and
  by induction over an outline of one closed subpath, the points that
  `linear_path_points` collects are those of the subpath a renderer fills
  (`OneOutline`), which has room inside (`TriangleHasRoom`).

`CliOutputProofs`, for every tree of files, every set of links and every set of
commands:

- `WritesAtomic`: `Spec => []DestinationsWhole`; `InputNeverOverwritten`: `Spec
  => []InputKept`; `FailuresClean`: `Spec => []FailureIsClean`; `SuccessWritten`:
  `Spec => []SuccessMeansWritten`; `CommandTyped`: `Spec => []TypeOK`.
- The inductive invariant `CommandInv` (theorem `CommandInvariant`): the paths a
  command goes on with are what its arguments resolve to and are apart
  (`PathsKept`), its temporary file is that of the stage it is in and is
  synchronized before it is renamed (`TempsKept`, `StagesKept`), and a location
  holds, or may hold after a loss of power, what it held at first or a whole
  output that its owner has come to write there (`FilesKept`). Success needs one
  more step: `SuccessStage` is kept by every action, for a command that got to
  a stage has left its output there and only another command whose output goes
  to the same file replaces it.

`PathGeometryProofs`, for every set of paths with integer coordinates and all
limits:

- `FlatteningTyped`: `Spec => []TypeOK`, which holds subpaths to their points,
  splits to their depth and the waiting pieces to one for each depth. The
  inductive invariant `PathInv` (theorem `FlatteningInvariant`) says why: each
  waiting piece is less deep than the one before it. It also says what
  `finish_subpath` leaves (`Proper`): no point beside itself, nor the first again
  at the end of a closed subpath, by induction over `deduplicate_points`.
- `FiguresExact`: `Spec => []FigureExact`. The code looks at the set of the
  corners, the definition of a rectangle or diamond at their order. In any other
  order two edges that are not neighbours would be the diagonals
  (`DiagonalsCross`), or an upright and a level line through one another
  (`AxesCross`), or share a corner (`SharedPointMeets`), so that the outline is
  not simple; `Proper` is needed so that no corner is the next one.

Induction. The induction theorems of the library take an operator as a
parameter, which the provers cannot instantiate. `Induction` states what is
needed of sets and functions instead, and proves it from the library's facts
about finite sets: a set of numbers that has zero and all successors has them
all (`SetInduction`, `IntervalInduction`), and a start and a step, given as a
function, define a function (`RecursionExists`). The models define by recursive
functions what the proofs are about (`Total`, `PathDrawings`, `Listed`,
`LinearPoints`, `Sound`, `Decoding`), and each proof shows that the defining
equation has a solution, which the CHOOSE behind it therefore is.

The assumptions are those on the constants, evaluated by TLC in the runs; they
say what every input of the program is. `DocumentsAssumption` of `ReferenceDepth`:
a document is a finite sequence of elements nested in each other, with finitely
many references; that its graph is one over its ids is proved (`GraphTyped`). That of
`Ingestion`: what is read out of a document (`DataImages`, `Shown`) is a
sequence of resources; `NumbersAssumption`: limits and sizes are numbers, and the
limit of paint nodes is positive, as the root counts as one. That of `Lowering`:
the nodes are a tree in document order whose root is the plain group usvg makes,
a node has the fields of its kind, and the artwork usvg generates for a
connector's markers is in a group with no clip, mask or filter, which
`marker_artwork_matches` asks for. `OutlinesAssumption` of `SourceCorrelation`:
path data begins with a move, for the parser rejects any other.
`PathsAssumption` of `PathGeometry`: a path is a sequence of segments between
points of the grid, with a move at its beginning and after each close.

Only model-checked:

- `CurveFollowed` and `FillsApart` of `PathGeometry`: that a chord is close to its
  curve takes inequalities between polynomials of degree six, and that some edge
  separates two convex outlines takes the separating line theorem, for which the
  provers' arithmetic is too weak;
- all that must eventually happen, as fairness and ENABLED are out of the
  prover's reach.

## What is not modelled

usvg, roxmltree, resvg, the decoders and the tokio runtime are external: modelled
by what the code relies on. Left out of the modelled components:

- in `Server`, connections that only ask for `/health` (`main.rs:222`), which
  take no permit, and the fallback of `supervise` on a closed channel
  (`main.rs:348`): the supervisor ends only when every sender is gone;
- the arithmetic of transforms and of f64 (`convert.rs`), and the recognition of
  ellipses, whose test compares squares of fractions;
- the frame scanners of animated images and the scan of a marker's artwork
  (`convert.rs:1541-1700`): their verdict is an input of `Lowering`;
- in `Lowering`, inputs for five of the cases listed above (`convert.rs:359`,
  `515`, `675`, the gradient of `911`, `target.rs:333`): its documents have no
  connector of no length, no text with a gradient and no nesting near 64, and no
  property asks for the diagnostic of a promoted connector;
- payload rules of a target element and JSON (`target.rs`), ranges of options
  (`options.rs`), paths and MIME types (`resource.rs`), hashing (`identity.rs`),
  the order and wording of diagnostics (`report.rs`, `error.rs`): tests of single
  values that keep no state and have no order to get wrong.

The compatibility suite, fuzz targets and benches are not part of the program.

## Plan

Done, in the order of importance: `Server`, `Lowering`, `ReferenceDepth`,
`CliOutput`, `Ingestion`, `SourceCorrelation`, `PathGeometry`, and the proofs
above. What a reader could add next:

1. Inputs of `Lowering` for the cases listed above that validation rejects, each
   with a run of its own.
2. An abstract atomic file store that `CliOutput` implements.
