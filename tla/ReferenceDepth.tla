---------------------------- MODULE ReferenceDepth ----------------------------
(***************************************************************************)
(* validate_reference_depth (crates/core/src/ingest.rs): the check that no *)
(* reference between identified elements is cyclic or nested deeper than   *)
(* the limit.  It is a depth-first search with a stack of its own, over a  *)
(* graph whose vertices are the ids of the document.                       *)
(*                                                                         *)
(* A document is the sequence of its elements in document order; an        *)
(* element is [parent, id, refs]: the position of its parent (0 for the    *)
(* root), its id or NoId, and the ids its attributes refer to, in order.   *)
(* Ids are numbers, ordered as the strings of the BTreeMap are.            *)
(*                                                                         *)
(* A definition with a fault in its name is the faulty variant of the one  *)
(* after it, which a property is measured against.                         *)
(***************************************************************************)
EXTENDS Naturals, Sequences

CONSTANTS
  Documents,   \* the documents to check
  Ids,         \* the ids elements may carry or refer to
  NoId,        \* the element has no id
  MaxDepth     \* ConversionLimits.max_reference_depth

ASSUME IdsAssumption == Ids \subseteq Nat /\ NoId \notin Ids
ASSUME MaxDepthAssumption == MaxDepth \in Nat \ {0}
ASSUME DocumentsAssumption ==
  \A d \in Documents :
    /\ d \in Seq([parent : Nat, id : Ids \cup {NoId}, refs : Seq(Ids)])
    /\ \A k \in DOMAIN d : d[k].parent < k

VARIABLES
  document,   \* the document: never changes
  graph,      \* the targets of each id of the document
  state,      \* 0 before, 1 while and 2 after an id is visited
  depths,     \* the depth of each visited id
  stack,      \* the ids being visited, each with its next target and its depth
  verdict     \* "Accepted", "LimitExceeded", or "none" while it searches

searchVars == <<state, depths, stack>>
vars == <<document, graph, searchVars, verdict>>

-----------------------------------------------------------------------------
(* The graph                                                               *)

\* The id an element's references belong to: its own, or else that of the
\* nearest ancestor that has one.
Owner(d) ==
  LET owner[k \in DOMAIN d] == CASE d[k].id # NoId -> d[k].id
                                 [] d[k].parent = 0 -> NoId
                                 [] OTHER -> owner[d[k].parent]
  IN owner

\* The references of the elements that belong to an id, in document order.
Targets(d, id) ==
  LET owner == Owner(d)
      upTo[k \in 0 .. Len(d)] ==
        IF k = 0 THEN <<>>
        ELSE upTo[k - 1] \o (IF owner[k] = id THEN d[k].refs ELSE <<>>)
  IN upTo[Len(d)]

Graph(d) == [id \in {d[k].id : k \in DOMAIN d} \ {NoId} |-> Targets(d, id)]

-----------------------------------------------------------------------------
(* The search                                                              *)

Init == /\ document \in Documents
        /\ graph = Graph(document)
        /\ state = [id \in DOMAIN graph |-> 0]
        /\ depths = [id \in DOMAIN graph |-> 0]
        /\ stack = <<>>
        /\ verdict = "none"

Top       == stack[Len(stack)]
HasTarget == Top.next <= Len(graph[Top.id])
Target    == graph[Top.id][Top.next]

Frame(id) == [id |-> id, next |-> 1, depth |-> 1]
Push(s, id) == Append(s, Frame(id))

\* A frame at least d deep, and a frame that has read one more target.
Deeper(a, b) == IF a < b THEN b ELSE a
Raise(frame, d) == [frame EXCEPT !.depth = Deeper(@, d)]
AdvanceNever(frame) == frame
Advance(frame) == [frame EXCEPT !.next = @ + 1]
SetTop(frame) == [stack EXCEPT ![Len(stack)] = frame]

Fail == /\ verdict' = "LimitExceeded"
        /\ UNCHANGED <<document, graph, searchVars>>

Searching == verdict = "none"

\* The next root is the first id that has not been visited.
StartRoot == /\ Searching /\ stack = <<>>
             /\ \E id \in DOMAIN graph :
                  /\ state[id] # 2
                  /\ \A other \in DOMAIN graph : other < id => state[other] = 2
                  /\ state' = [state EXCEPT ![id] = 1]
                  /\ stack' = <<Frame(id)>>
             /\ UNCHANGED <<document, graph, depths, verdict>>

\* The next target of the id on top of the stack.
Reading == Searching /\ stack # <<>> /\ HasTarget

Descend == /\ Reading
           /\ Target \in DOMAIN graph /\ state[Target] = 0
           /\ state' = [state EXCEPT ![Target] = 1]
           /\ stack' = Push(SetTop(Advance(Top)), Target)
           /\ UNCHANGED <<document, graph, depths, verdict>>

CyclePassedOver == /\ Reading
                   /\ Target \in DOMAIN graph /\ state[Target] = 1
                   /\ stack' = SetTop(Advance(Top))
                   /\ UNCHANGED <<document, graph, state, depths, verdict>>
RejectCycle == /\ Reading
               /\ Target \in DOMAIN graph /\ state[Target] = 1
               /\ Fail

\* A target that was visited before counts with the depth found then.
ReuseDepth(id) == depths[id] + 1

Reuse == /\ Reading
         /\ Target \in DOMAIN graph /\ state[Target] = 2
         /\ Raise(Top, ReuseDepth(Target)).depth <= MaxDepth
         /\ stack' = SetTop(Raise(Advance(Top), ReuseDepth(Target)))
         /\ UNCHANGED <<document, graph, state, depths, verdict>>

RejectReuse == /\ Reading
               /\ Target \in DOMAIN graph /\ state[Target] = 2
               /\ Raise(Top, ReuseDepth(Target)).depth > MaxDepth
               /\ Fail

\* A reference to an id no element has is passed over.
PassOver == /\ Reading
            /\ Target \notin DOMAIN graph
            /\ stack' = SetTop(Advance(Top))
            /\ UNCHANGED <<document, graph, state, depths, verdict>>

\* Every target was read: the id is visited, and the id that refers to it is
\* at least one deeper.
Finished == Searching /\ stack # <<>> /\ ~HasTarget

ParentUnraised(frame, d) == frame
ParentRaised(frame, d) == Raise(frame, d + 1)

CompleteUnlimited == TRUE
CompleteAllowed == Top.depth <= MaxDepth
Complete == /\ Finished /\ CompleteAllowed
            /\ state' = [state EXCEPT ![Top.id] = 2]
            /\ depths' = [depths EXCEPT ![Top.id] = Top.depth]
            /\ stack' = [i \in 1 .. Len(stack) - 1 |->
                           IF i = Len(stack) - 1 THEN ParentRaised(stack[i], Top.depth)
                           ELSE stack[i]]
            /\ UNCHANGED <<document, graph, verdict>>

RejectDepth == Finished /\ ~CompleteAllowed /\ Fail

Accept == /\ Searching /\ stack = <<>>
          /\ \A id \in DOMAIN graph : state[id] = 2
          /\ verdict' = "Accepted"
          /\ UNCHANGED <<document, graph, searchVars>>

Search == \/ StartRoot \/ Descend \/ Reuse \/ PassOver \/ Complete \/ Accept
          \/ RejectCycle \/ RejectReuse \/ RejectDepth

Spec == Init /\ [][Search]_vars

\* The search is one loop of one thread: it goes on while it can.
FairSpec == Spec /\ WF_vars(Search)

-----------------------------------------------------------------------------
(* Correctness                                                             *)

TypeOK ==
  /\ DOMAIN graph \subseteq Ids
  /\ \A id \in DOMAIN graph : graph[id] \in Seq(Ids)
  /\ state \in [DOMAIN graph -> 0 .. 2]
  /\ depths \in [DOMAIN graph -> 0 .. MaxDepth]
  /\ stack \in Seq([id : DOMAIN graph, next : Nat \ {0}, depth : Nat \ {0}])
  /\ verdict \in {"none", "Accepted", "LimitExceeded"}

\* The depths of an accepted document rank its ids: every reference leads to
\* an id of a smaller depth, so none is cyclic and no chain of references is
\* longer than the limit.
AcceptedIsRanked ==
  verdict = "Accepted" =>
    \A id \in DOMAIN graph :
      /\ depths[id] \in 1 .. MaxDepth
      /\ \A j \in 1 .. Len(graph[id]) :
           graph[id][j] \in DOMAIN graph => depths[graph[id][j]] < depths[id]

\* Some chain of n vertices follows the edges of a relation.
HasChain(Vertices, Edge(_, _), n) ==
  \E c \in [1 .. n -> Vertices] : \A i \in 1 .. n - 1 : Edge(c[i], c[i + 1])

Refers(a, b) == \E j \in 1 .. Len(graph[a]) : graph[a][j] = b

\* The verdict is right whatever order the ids are visited in: a document is
\* rejected exactly when a chain of references is longer than the limit (a
\* cycle is a chain of any length).
VerdictExact ==
  /\ verdict = "Accepted" => ~HasChain(DOMAIN graph, Refers, MaxDepth + 1)
  /\ verdict = "LimitExceeded" => HasChain(DOMAIN graph, Refers, MaxDepth + 1)

\* The search ends, on cyclic documents too.
SearchEnds == <>(verdict # "none")
=============================================================================
