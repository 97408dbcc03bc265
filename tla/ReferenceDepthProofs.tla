------------------------- MODULE ReferenceDepthProofs -------------------------
(***************************************************************************)
(* Proofs about the search of ReferenceDepth.tla, for every set of         *)
(* documents, every order of ids and every limit.  The invariant says what *)
(* a frame of the stack has established about the targets it has read:     *)
(* each is visited and of a smaller depth, except the one read last, which *)
(* may still be on the stack, right above.  When a frame is popped nothing *)
(* is above it, so all its targets are ranked below it.                    *)
(***************************************************************************)
EXTENDS ReferenceDepth, Induction, TLAPS

Keys    == DOMAIN graph
Frames  == [id : Keys, next : Nat \ {0}, depth : Nat \ {0}]

\* Every id on the stack is being visited, and is on it once.
OnStack ==
  /\ \A i \in 1 .. Len(stack) : state[stack[i].id] = 1
  /\ \A i, j \in 1 .. Len(stack) : stack[i].id = stack[j].id => i = j

\* Target t is visited and of a smaller depth than d.
RankedBelow(t, d) == t \in Keys => state[t] = 2 /\ depths[t] < d

\* What a frame has read is ranked below it or pending right above it.
ReadRanked ==
  \A i \in 1 .. Len(stack) : \A j \in 1 .. stack[i].next - 1 :
    \/ RankedBelow(graph[stack[i].id][j], stack[i].depth)
    \/ /\ i < Len(stack)
       /\ j = stack[i].next - 1
       /\ graph[stack[i].id][j] = stack[i + 1].id

\* What a visited id refers to is ranked below it.
VisitedRanked ==
  \A id \in Keys : state[id] = 2 =>
    /\ depths[id] \in 1 .. MaxDepth
    /\ \A j \in 1 .. Len(graph[id]) : RankedBelow(graph[id][j], depths[id])

AcceptedVisited == verdict = "Accepted" => \A id \in Keys : state[id] = 2

RankInv == TypeOK /\ OnStack /\ ReadRanked /\ VisitedRanked /\ AcceptedVisited

-----------------------------------------------------------------------------
\* The stack is a sequence of frames.
LEMMA StackFrames ==
  ASSUME TypeOK
  PROVE  /\ stack \in Seq(Frames) /\ Len(stack) \in Nat
         /\ \A i \in 1 .. Len(stack) : stack[i] \in Frames
<1>1. stack \in Seq(Frames)
  BY DEF TypeOK, Frames, Keys
<1>2. QED
  BY <1>1

\* The last frame of the stack is one.
LEMMA TopFrame ==
  ASSUME TypeOK, stack # <<>>
  PROVE  Len(stack) \in Nat \ {0} /\ Top \in Frames /\ Top = stack[Len(stack)]
<1>1. stack \in Seq(Frames)
  BY StackFrames
<1>2. Len(stack) \in Nat \ {0} /\ stack[Len(stack)] \in Frames
  BY <1>1
<1>3. QED
  BY <1>2 DEF Top

\* The types of the next state, one variable at a time.
LEMMA TypeNext ==
  ASSUME TypeOK, UNCHANGED <<graph, verdict>>, stack' \in Seq(Frames),
         state' \in [Keys -> 0 .. 2], depths' \in [Keys -> 0 .. MaxDepth]
  PROVE  TypeOK'
<1>1. Frames = [id : DOMAIN graph', next : Nat \ {0}, depth : Nat \ {0}]
  BY DEF Frames, Keys
<1> HIDE DEF Frames
<1>2. stack' \in Seq([id : DOMAIN graph', next : Nat \ {0}, depth : Nat \ {0}])
  BY <1>1
<1>3. QED
  BY <1>2 DEF TypeOK, Keys

\* Raising a frame changes its depth only, to the deeper of the two.
LEMMA RaiseFrame ==
  ASSUME NEW frame \in Frames, NEW d \in Nat \ {0}
  PROVE  /\ Raise(frame, d) \in Frames
         /\ Raise(frame, d).id = frame.id /\ Raise(frame, d).next = frame.next
         /\ Raise(frame, d).depth >= frame.depth /\ Raise(frame, d).depth >= d
<1>1. Deeper(frame.depth, d) \in Nat \ {0} /\ Deeper(frame.depth, d) >= frame.depth
      /\ Deeper(frame.depth, d) >= d
  BY DEF Frames, Deeper
<1>2. QED
  BY <1>1 DEF Raise, Frames

\* Advancing a frame changes its next target only.
LEMMA AdvanceFrame ==
  ASSUME NEW frame \in Frames
  PROVE  /\ Advance(frame) \in Frames
         /\ Advance(frame).id = frame.id /\ Advance(frame).next = frame.next + 1
         /\ Advance(frame).depth = frame.depth
BY DEF Advance, Frames

\* SetTop replaces the last frame and nothing else.
LEMMA SetTopFrames ==
  ASSUME TypeOK, stack # <<>>, NEW frame \in Frames
  PROVE  /\ SetTop(frame) \in Seq(Frames)
         /\ Len(SetTop(frame)) = Len(stack)
         /\ SetTop(frame)[Len(stack)] = frame
         /\ \A i \in 1 .. Len(stack) - 1 : SetTop(frame)[i] = stack[i]
BY DEF TypeOK, SetTop, Frames, Keys

\* Ranks stand as long as depths do and no id becomes visited or stops being.
LEMMA RanksStand ==
  ASSUME VisitedRanked, UNCHANGED <<graph, depths>>,
         \A id \in Keys : state[id] = 2 <=> state'[id] = 2
  PROVE  VisitedRanked'
<1>1. Keys' = Keys
  BY DEF Keys
<1>2. \A t, d : RankedBelow(t, d) => RankedBelow(t, d)'
  BY <1>1 DEF RankedBelow
<1>3. SUFFICES ASSUME NEW id \in Keys, state'[id] = 2
               PROVE  /\ depths[id] \in 1 .. MaxDepth
                      /\ \A j \in 1 .. Len(graph[id]) : RankedBelow(graph[id][j], depths[id])'
  BY <1>1 DEF VisitedRanked
<1>4. QED
  BY <1>2, <1>3 DEF VisitedRanked

Elements == [parent : Nat, id : Ids \cup {NoId}, refs : Seq(Ids)]

\* The references that belong to an id are a sequence of ids.
LEMMA TargetsTyped ==
  ASSUME NEW d \in Seq(Elements), NEW id PROVE Targets(d, id) \in Seq(Ids)
<1> DEFINE T == Seq(Ids)
           m == Len(d)
           none == <<>>
           own(k) == IF Owner(d)[k] = id THEN d[k].refs ELSE <<>>
           step == [k \in 1 .. m |-> [s \in T |-> s \o own(k)]]
           body(f) == [k \in 0 .. Len(d) |-> IF k = 0 THEN <<>> ELSE f[k - 1] \o own(k)]
           upTo == CHOOSE f : f = body(f)
<1>1. Targets(d, id) = upTo[m]
  BY DEF Targets
<1>2. m \in Nat /\ \A k \in 1 .. m : own(k) \in T
  <2>1. m \in Nat /\ \A k \in 1 .. m : d[k] \in Elements
    BY SeqElements
  <2>2. QED
    BY <2>1 DEF Elements
<1> HIDE DEF own
<1>3. step \in [1 .. m -> [T -> T]] /\ none \in T
  BY <1>2
<1> HIDE DEF T, m, none, step
<1>4. PICK f \in [0 .. m -> T] :
        f[0] = none /\ \A n \in 1 .. m : f[n] = step[n][f[n - 1]]
  <2>1. m \in Nat
    BY <1>2
  <2>2. QED
    BY ONLY <2>1, <1>3, Recursion
<1>5. f = body(f)
  <2>1. ASSUME NEW n \in 1 .. m PROVE f[n] = f[n - 1] \o own(n)
    <3>1. n - 1 \in 0 .. m
      BY <1>2
    <3>2. f[n] = step[n][f[n - 1]] /\ f[n - 1] \in T
      BY <1>4, <3>1
    <3>3. QED
      BY <3>2 DEF step
  <2>2. f[0] = <<>> /\ f = [n \in 0 .. m |-> f[n]] /\ m \in Nat
    BY <1>2, <1>4 DEF none
  <2>3. f = [k \in 0 .. m |-> IF k = 0 THEN <<>> ELSE f[k - 1] \o own(k)]
    <3>1. \A k \in 0 .. m : f[k] = IF k = 0 THEN <<>> ELSE f[k - 1] \o own(k)
      BY <2>1, <2>2
    <3>2. QED
      BY <2>2, <3>1, Zenon
  <2>4. QED
    BY <2>3 DEF m
<1>6. upTo = body(upTo)
  BY <1>5
<1> HIDE DEF upTo
<1>7. upTo[0] = none /\ \A n \in 1 .. m : upTo[n] = upTo[n - 1] \o own(n)
  <2>1. upTo = body(upTo) /\ m \in Nat /\ m = Len(d)
    BY <1>2, <1>6 DEF m
  <2>2. upTo = [k \in 0 .. m |-> IF k = 0 THEN <<>> ELSE upTo[k - 1] \o own(k)]
    BY <2>1
  <2> HIDE DEF body
  <2>3. \A k \in 0 .. m : upTo[k] = IF k = 0 THEN <<>> ELSE upTo[k - 1] \o own(k)
    BY <2>2, Zenon
  <2>4. 0 \in 0 .. m /\ \A n \in 1 .. m : n \in 0 .. m /\ n # 0
    BY <2>1
  <2>5. QED
    BY <2>3, <2>4 DEF none
<1> HIDE DEF body
<1> DEFINE S == {n \in 0 .. m : upTo[n] \in T}
<1>8. 0 \in S
  BY <1>2, <1>3, <1>7
<1>9. ASSUME NEW n \in 0 .. m - 1, n \in S PROVE n + 1 \in S
  <2>1. n + 1 \in 1 .. m /\ n + 1 \in 0 .. m /\ upTo[n] \in T /\ (n + 1) - 1 = n
    BY <1>2, <1>9
  <2>2. upTo[n + 1] = upTo[n] \o own(n + 1) /\ own(n + 1) \in T
    BY <1>2, <1>7, <2>1
  <2>3. upTo[n] \o own(n + 1) \in T
    BY <2>1, <2>2 DEF T
  <2>4. QED
    BY <2>1, <2>2, <2>3
<1> HIDE DEF S
<1>10. 0 .. m \subseteq S /\ m \in Nat
  BY <1>2, <1>8, <1>9, IntervalInduction
<1>11. QED
  BY <1>1, <1>10 DEF S, T

\* The graph of a document is a graph over its ids.
LEMMA GraphTyped ==
  ASSUME NEW d \in Documents
  PROVE  /\ DOMAIN Graph(d) \subseteq Ids
         /\ \A id \in DOMAIN Graph(d) : Graph(d)[id] \in Seq(Ids)
<1>1. d \in Seq(Elements)
  BY DocumentsAssumption DEF Elements
<1>2. \A k \in DOMAIN d : d[k].id \in Ids \cup {NoId}
  <2>1. \A k \in 1 .. Len(d) : d[k] \in Elements
    BY <1>1, SeqElements
  <2>2. DOMAIN d = 1 .. Len(d)
    BY <1>1
  <2>3. QED
    BY <2>1, <2>2 DEF Elements
<1>3. QED
  BY <1>1, <1>2, TargetsTyped DEF Graph

\* The initial states satisfy the invariant.
LEMMA RankInit == Init => RankInv
<1> SUFFICES ASSUME Init PROVE RankInv
  OBVIOUS
<1>1. DOMAIN graph \subseteq Ids /\ \A id \in DOMAIN graph : graph[id] \in Seq(Ids)
  <2>1. document \in Documents /\ graph = Graph(document)
    BY DEF Init
  <2>2. QED
    BY <2>1, GraphTyped
<1>2. TypeOK
  BY <1>1, MaxDepthAssumption DEF Init, TypeOK
<1>3. QED
  BY <1>2 DEF Init, RankInv, OnStack, ReadRanked, VisitedRanked, AcceptedVisited, Keys

-----------------------------------------------------------------------------
\* A new root: the stack is that root's frame, which has read nothing.
LEMMA StartRootKeeps == ASSUME RankInv, StartRoot PROVE RankInv'
<1>1. PICK root \in Keys : /\ state[root] # 2
                           /\ state' = [state EXCEPT ![root] = 1]
                           /\ stack' = <<Frame(root)>>
  BY DEF StartRoot, Keys
<1>2. UNCHANGED <<document, graph, depths, verdict>> /\ Searching
  BY DEF StartRoot
<1>3. TypeOK'
  BY <1>1, <1>2 DEF RankInv, TypeOK, Keys, Frame
<1>4. Len(stack') = 1 /\ stack'[1] = [id |-> root, next |-> 1, depth |-> 1]
  BY <1>1 DEF Frame
<1>5. OnStack' /\ ReadRanked'
  BY <1>1, <1>2, <1>4 DEF RankInv, TypeOK, OnStack, ReadRanked, Keys
<1>6. VisitedRanked'
  <2>1. \A id \in Keys : state[id] = 2 <=> state'[id] = 2
    BY <1>1 DEF RankInv, TypeOK, Keys
  <2>2. QED
    BY <1>2, <2>1, RanksStand DEF RankInv
<1>7. QED
  BY <1>2, <1>3, <1>5, <1>6 DEF RankInv, AcceptedVisited, Searching

\* The frame on top reads a target and stays on top: nothing else changes.
LEMMA ReadKeeps ==
  ASSUME RankInv, Reading, UNCHANGED <<document, graph, state, depths, verdict>>,
         NEW frame \in Frames, stack' = SetTop(frame),
         frame.id = Top.id, frame.next = Top.next + 1, frame.depth >= Top.depth,
         RankedBelow(Target, frame.depth)
  PROVE  RankInv'
<1> DEFINE n == Len(stack)
<1>1. stack # <<>> /\ TypeOK
  BY DEF Reading, RankInv
<1>2. /\ n \in Nat \ {0} /\ Len(stack') = n /\ stack'[n] = frame
      /\ \A i \in 1 .. n - 1 : stack'[i] = stack[i]
      /\ stack' \in Seq(Frames) /\ Top = stack[n] /\ Top \in Frames
  BY <1>1, TopFrame, SetTopFrames DEF Top
<1> HIDE DEF n
<1>3. TypeOK'
  BY <1>1, <1>2 DEF TypeOK, Frames, Keys
<1>4. OnStack'
  <2>1. \A i \in 1 .. n : stack'[i].id = stack[i].id
    BY <1>2
  <2>2. QED
    BY <1>2, <2>1 DEF RankInv, OnStack, n
<1>5. ReadRanked'
  <2> SUFFICES ASSUME NEW i \in 1 .. n, NEW j \in 1 .. stack'[i].next - 1
               PROVE  \/ RankedBelow(graph[stack'[i].id][j], stack'[i].depth)
                      \/ /\ i < n /\ j = stack'[i].next - 1
                         /\ graph[stack'[i].id][j] = stack'[i + 1].id
    BY <1>2 DEF ReadRanked, RankedBelow, Keys
  <2>1. CASE i = n
    <3>1. CASE j = Top.next
      BY <2>1, <3>1, <1>2 DEF Target
    <3>2. CASE j # Top.next
      <4>1. j \in 1 .. stack[n].next - 1
        BY <2>1, <3>2, <1>2 DEF Frames
      <4>2. RankedBelow(graph[stack[n].id][j], stack[n].depth)
        BY <4>1, <1>2 DEF RankInv, ReadRanked, n
      <4>3. \A t \in Keys : depths[t] \in Nat
        BY <1>1, MaxDepthAssumption DEF TypeOK, Keys
      <4>4. /\ frame.depth \in Nat /\ stack[n].depth \in Nat
            /\ frame.depth >= stack[n].depth
            /\ stack'[i] = frame /\ frame.id = stack[n].id
        BY <2>1, <1>2 DEF Frames
      <4>5. RankedBelow(graph[stack[n].id][j], frame.depth)
        BY <4>2, <4>3, <4>4 DEF RankedBelow
      <4>6. QED
        BY <4>4, <4>5
    <3>3. QED
      BY <3>1, <3>2
  <2>2. CASE i # n
    <3>1. i \in 1 .. n - 1 /\ i + 1 \in 1 .. n
      BY <2>2, <1>2
    <3>2. stack'[i] = stack[i] /\ stack'[i + 1].id = stack[i + 1].id
      BY <3>1, <1>2
    <3>3. QED
      BY <3>1, <3>2, <1>2 DEF RankInv, ReadRanked, n
  <2>3. QED
    BY <2>1, <2>2
<1>6. VisitedRanked' /\ AcceptedVisited'
  BY DEF RankInv, VisitedRanked, RankedBelow, AcceptedVisited, Keys
<1>7. QED
  BY <1>3, <1>4, <1>5, <1>6 DEF RankInv

\* A target that is not visited goes on top of the frame that refers to it,
\* whose only pending target it is.
LEMMA DescendKeeps == ASSUME RankInv, Descend PROVE RankInv'
<1> DEFINE n == Len(stack)
           RankedNext(t, d) == t \in Keys => state'[t] = 2 /\ depths'[t] < d
<1>1. /\ stack # <<>> /\ TypeOK /\ UNCHANGED <<document, graph, depths, verdict>>
      /\ Target \in Keys /\ state[Target] = 0 /\ state' = [state EXCEPT ![Target] = 1]
      /\ Top.next \in 1 .. Len(graph[Top.id])
  <2>1. Top.next \in Nat \ {0} /\ Top.id \in Keys
    BY TopFrame DEF Descend, Reading, RankInv, Frames
  <2>2. Len(graph[Top.id]) \in Nat
    BY <2>1 DEF RankInv, TypeOK, Keys
  <2>3. QED
    BY <2>1, <2>2 DEF Descend, Reading, HasTarget, RankInv, Keys
<1>2. /\ n \in Nat \ {0} /\ Top \in Frames /\ Top = stack[n]
      /\ stack' \in Seq(Frames) /\ Len(stack') = n + 1
      /\ stack'[n + 1] = [id |-> Target, next |-> 1, depth |-> 1]
      /\ stack'[n] = Advance(Top)
      /\ \A i \in 1 .. n - 1 : stack'[i] = stack[i]
  <2>1. n \in Nat \ {0} /\ Top \in Frames /\ Top = stack[n] /\ Advance(Top) \in Frames
    BY <1>1, TopFrame, AdvanceFrame
  <2>2. /\ SetTop(Advance(Top)) \in Seq(Frames)
        /\ Len(SetTop(Advance(Top))) = n
        /\ SetTop(Advance(Top))[n] = Advance(Top)
        /\ \A i \in 1 .. n - 1 : SetTop(Advance(Top))[i] = stack[i]
    BY <1>1, <2>1, SetTopFrames
  <2>3. stack' = Append(SetTop(Advance(Top)), [id |-> Target, next |-> 1, depth |-> 1])
    BY DEF Descend, Push, Frame
  <2>4. [id |-> Target, next |-> 1, depth |-> 1] \in Frames
    BY <1>1 DEF Frames
  <2> HIDE DEF n
  <2>5. QED
    BY <2>1, <2>2, <2>3, <2>4
<1>3. Advance(Top).id = Top.id /\ Advance(Top).next = Top.next + 1 /\ Advance(Top).depth = Top.depth
  BY <1>2, AdvanceFrame
<1>4. \A i \in 1 .. n : stack'[i].id = stack[i].id /\ stack[i].id \in Keys
                        /\ stack[i].id # Target
  <2>1. \A i \in 1 .. n : stack[i].id \in Keys /\ state[stack[i].id] = 1
    BY <1>1, StackFrames DEF Frames, RankInv, OnStack
  <2> HIDE DEF n
  <2>2. QED
    BY <1>1, <1>2, <1>3, <2>1
<1>5. TypeOK'
  <2>1. state' \in [Keys -> 0 .. 2] /\ depths' \in [Keys -> 0 .. MaxDepth]
    BY <1>1 DEF TypeOK, Keys
  <2>2. QED
    BY <1>1, <1>2, <2>1, TypeNext
<1>6. OnStack'
  <2>1. \A i \in 1 .. n : state'[stack[i].id] = 1
    BY <1>1, <1>4 DEF RankInv, OnStack, TypeOK, Keys
  <2>2. state'[Target] = 1
    BY <1>1 DEF TypeOK, Keys
  <2>3. \A i, j \in 1 .. n : stack[i].id = stack[j].id => i = j
    BY DEF RankInv, OnStack
  <2> HIDE DEF n
  <2>4. /\ 1 .. Len(stack') = (1 .. n) \cup {n + 1}
        /\ stack'[n + 1].id = Target
        /\ \A i \in 1 .. n : stack'[i].id = stack[i].id /\ stack'[i].id # Target
    BY <1>2, <1>4
  <2>5. \A i \in 1 .. Len(stack') : state'[stack'[i].id] = 1
    BY <2>1, <2>2, <2>4
  <2>6. \A i, j \in 1 .. Len(stack') : stack'[i].id = stack'[j].id => i = j
    BY <2>3, <2>4
  <2>7. QED
    BY <2>5, <2>6 DEF OnStack
<1>7. ReadRanked'
  <2> SUFFICES ASSUME NEW i \in 1 .. n + 1, NEW j \in 1 .. stack'[i].next - 1
               PROVE  \/ RankedNext(graph[stack'[i].id][j], stack'[i].depth)
                      \/ /\ i < n + 1 /\ j = stack'[i].next - 1
                         /\ graph[stack'[i].id][j] = stack'[i + 1].id
    <3>1. graph' = graph /\ Len(stack') = n + 1 /\ Keys' = Keys
      BY <1>1, <1>2 DEF Keys
    <3> HIDE DEF n
    <3>2. QED
      BY <3>1 DEF ReadRanked, RankedBelow
  <2>0. \A t, d : RankedBelow(t, d) => RankedNext(t, d)
    BY <1>1 DEF RankedBelow, TypeOK, Keys
  <2> HIDE DEF RankedNext
  <2>1. CASE i = n + 1
    BY <2>1, <1>2
  <2>2. CASE i = n
    <3>1. CASE j = Top.next
      BY <1>2, <1>3, <2>2, <3>1 DEF Target
    <3>2. CASE j # Top.next
      <4>1. j \in 1 .. stack[n].next - 1
        BY <1>2, <1>3, <2>2, <3>2 DEF Frames
      <4>2. RankedBelow(graph[stack[n].id][j], stack[n].depth)
        BY <1>2, <4>1 DEF RankInv, ReadRanked
      <4>3. QED
        BY <1>2, <1>3, <2>0, <2>2, <4>2
    <3>3. QED
      BY <3>1, <3>2
  <2>3. CASE i < n
    <3>1. /\ i \in 1 .. n - 1 /\ i + 1 \in 1 .. n /\ stack'[i] = stack[i]
          /\ stack'[i + 1].id = stack[i + 1].id
      BY <1>2, <1>4, <2>3
    <3>2. \/ RankedBelow(graph[stack[i].id][j], stack[i].depth)
          \/ j = stack[i].next - 1 /\ graph[stack[i].id][j] = stack[i + 1].id
      BY <3>1 DEF RankInv, ReadRanked
    <3>3. QED
      BY <2>0, <2>3, <3>1, <3>2, <1>2
  <2>4. QED
    BY <2>1, <2>2, <2>3, <1>2
<1>8. VisitedRanked'
  <2>1. \A id \in Keys : state[id] = 2 <=> state'[id] = 2
    BY <1>1 DEF TypeOK, Keys
  <2>2. QED
    BY <1>1, <2>1, RanksStand DEF RankInv
<1>9. QED
  BY <1>1, <1>5, <1>6, <1>7, <1>8 DEF RankInv, AcceptedVisited, Descend, Reading, Searching

\* The frame on top has read all its targets and none is pending: its id is
\* ranked, and so is the target the frame below it had pending.
LEMMA CompleteKeeps == ASSUME RankInv, Complete PROVE RankInv'
<1> DEFINE n == Len(stack)
           RankedNext(t, d) == t \in Keys => state'[t] = 2 /\ depths'[t] < d
<1>1. /\ stack # <<>> /\ TypeOK /\ UNCHANGED <<document, graph, verdict>>
      /\ n \in Nat \ {0} /\ Top \in Frames /\ Top = stack[n]
      /\ state' = [state EXCEPT ![Top.id] = 2] /\ depths' = [depths EXCEPT ![Top.id] = Top.depth]
      /\ Top.id \in Keys /\ Top.depth \in 1 .. MaxDepth
  BY TopFrame, MaxDepthAssumption DEF Complete, Finished, CompleteAllowed, RankInv, Frames
<1>2. /\ stack' \in Seq(Frames) /\ Len(stack') = n - 1
      /\ \A i \in 1 .. n - 1 : /\ stack'[i].id = stack[i].id /\ stack'[i].next = stack[i].next
                               /\ stack'[i].depth >= stack[i].depth
                               /\ stack[i] \in Frames /\ stack'[i] \in Frames
                               /\ i = n - 1 => stack'[i].depth > Top.depth
  <2>1. stack' = [i \in 1 .. n - 1 |-> IF i = n - 1 THEN Raise(stack[i], Top.depth + 1)
                                       ELSE stack[i]]
    BY DEF Complete, ParentRaised
  <2>2. \A i \in 1 .. n : stack[i] \in Frames
    BY <1>1, StackFrames
  <2>3. Top.depth + 1 \in Nat \ {0} /\ Top.depth \in Nat
    BY <1>1, MaxDepthAssumption
  <2>4. \A i \in 1 .. n - 1 :
          /\ Raise(stack[i], Top.depth + 1) \in Frames
          /\ Raise(stack[i], Top.depth + 1).id = stack[i].id
          /\ Raise(stack[i], Top.depth + 1).next = stack[i].next
          /\ Raise(stack[i], Top.depth + 1).depth >= stack[i].depth
          /\ Raise(stack[i], Top.depth + 1).depth >= Top.depth + 1
    <3> SUFFICES ASSUME NEW i \in 1 .. n - 1
                 PROVE  /\ Raise(stack[i], Top.depth + 1) \in Frames
                        /\ Raise(stack[i], Top.depth + 1).id = stack[i].id
                        /\ Raise(stack[i], Top.depth + 1).next = stack[i].next
                        /\ Raise(stack[i], Top.depth + 1).depth >= stack[i].depth
                        /\ Raise(stack[i], Top.depth + 1).depth >= Top.depth + 1
      OBVIOUS
    <3>1. stack[i] \in Frames
      BY <1>1, <2>2
    <3>2. QED
      BY <3>1, <2>3, RaiseFrame
  <2> HIDE DEF n
  <2>5. \A i \in 1 .. n - 1 : stack[i].depth \in Nat /\ Raise(stack[i], Top.depth + 1).depth \in Nat
    BY <1>1, <2>2, <2>4 DEF Frames
  <2>6. \A i \in 1 .. n - 1 : stack'[i] \in Frames
    BY <1>1, <2>1, <2>2, <2>4
  <2>7. stack' \in Seq(Frames) /\ Len(stack') = n - 1
    BY <1>1, <2>1, <2>6
  <2>8. QED
    BY <1>1, <2>1, <2>2, <2>3, <2>4, <2>5, <2>6, <2>7
<1>3. \A i \in 1 .. n - 1 : stack[i].id # Top.id /\ state[stack[i].id] = 1
  BY <1>1 DEF RankInv, OnStack
<1>4. \A t \in Keys : depths[t] \in Nat /\ depths'[t] \in Nat
  BY <1>1, MaxDepthAssumption DEF TypeOK, Keys
<1>5. \A t, d : RankedBelow(t, d) => t # Top.id /\ RankedNext(t, d)
  <2>1. state[Top.id] = 1
    BY <1>1 DEF RankInv, OnStack
  <2>2. \A t \in Keys : t # Top.id => state'[t] = state[t] /\ depths'[t] = depths[t]
    BY <1>1 DEF TypeOK, Keys
  <2>3. \A t, d : t \notin Keys => t # Top.id
    BY <1>1
  <2>4. QED
    BY <1>1, <2>1, <2>2, <2>3 DEF RankedBelow, Keys
<1>6. TypeOK'
  <2>1. state' \in [Keys -> 0 .. 2] /\ depths' \in [Keys -> 0 .. MaxDepth]
    BY <1>1 DEF TypeOK, Keys
  <2>2. QED
    BY <1>1, <1>2, <2>1, TypeNext
<1>7. OnStack'
  <2>1. \A i \in 1 .. n - 1 : state'[stack[i].id] = 1
    BY <1>1, <1>2, <1>3 DEF TypeOK, Keys, Frames
  <2>2. \A i \in 1 .. n - 1 : i \in 1 .. n /\ stack'[i].id = stack[i].id
    BY <1>1, <1>2
  <2>3. \A i, j \in 1 .. n : stack[i].id = stack[j].id => i = j
    BY DEF RankInv, OnStack
  <2>4. 1 .. Len(stack') = 1 .. n - 1
    BY <1>2
  <2> HIDE DEF n
  <2>5. QED
    BY <2>1, <2>2, <2>3, <2>4 DEF OnStack
<1>8. ReadRanked'
  <2> SUFFICES ASSUME NEW i \in 1 .. n - 1, NEW j \in 1 .. stack[i].next - 1
               PROVE  \/ RankedNext(graph[stack[i].id][j], stack'[i].depth)
                      \/ /\ i < n - 1 /\ j = stack[i].next - 1
                         /\ graph[stack[i].id][j] = stack'[i + 1].id
    <3>1. graph' = graph /\ Len(stack') = n - 1 /\ Keys' = Keys
          /\ \A i \in 1 .. n - 1 : /\ stack'[i].id = stack[i].id
                                   /\ stack'[i].next = stack[i].next
      BY <1>1, <1>2 DEF Keys
    <3> HIDE DEF n
    <3>2. QED
      BY <3>1 DEF ReadRanked, RankedBelow
  <2> DEFINE t == graph[stack[i].id][j]
  <2>1. \/ RankedBelow(t, stack[i].depth)
        \/ j = stack[i].next - 1 /\ t = stack[i + 1].id
    <3>1. i \in 1 .. Len(stack)
      BY <1>1
    <3>2. ReadRanked
      BY DEF RankInv
    <3> HIDE DEF n
    <3>3. QED
      BY <3>1, <3>2 DEF ReadRanked
  <2>2. CASE RankedBelow(t, stack[i].depth)
    <3>1. RankedNext(t, stack[i].depth)
      BY <1>5, <2>2
    <3>2. t \in Keys => depths'[t] \in Nat
      BY <1>4
    <3>3. /\ stack[i].depth \in Nat /\ stack'[i].depth \in Nat
          /\ stack[i].depth <= stack'[i].depth
      BY <1>2 DEF Frames
    <3> HIDE DEF n, t
    <3>4. RankedNext(t, stack'[i].depth)
      BY <3>1, <3>2, <3>3
    <3>5. QED
      BY <3>4 DEF t
  <2>3. CASE j = stack[i].next - 1 /\ t = stack[i + 1].id /\ i = n - 1
    <3>1. t = Top.id
      BY <1>1, <2>3
    <3>2. state'[t] = 2 /\ depths'[t] = Top.depth
      BY <1>1, <3>1 DEF TypeOK, Keys
    <3>3. Top.depth < stack'[i].depth
      BY <1>1, <1>2, <2>3, MaxDepthAssumption DEF Frames
    <3>4. QED
      BY <3>2, <3>3
  <2>4. CASE j = stack[i].next - 1 /\ t = stack[i + 1].id /\ i # n - 1
    BY <1>1, <1>2, <2>4
  <2>5. QED
    BY <2>1, <2>2, <2>3, <2>4
<1>9. VisitedRanked'
  <2> SUFFICES ASSUME NEW id \in Keys, state'[id] = 2
               PROVE  /\ depths'[id] \in 1 .. MaxDepth
                      /\ \A j \in 1 .. Len(graph[id]) : RankedNext(graph[id][j], depths'[id])
    BY <1>1 DEF VisitedRanked, RankedBelow, Keys
  <2>1. CASE id # Top.id
    <3>1. state[id] = 2 /\ depths'[id] = depths[id]
      BY <1>1, <2>1 DEF TypeOK, Keys
    <3>2. QED
      BY <1>5, <3>1 DEF RankInv, VisitedRanked
  <2>2. CASE id = Top.id
    <3>1. depths'[id] = Top.depth
      BY <1>1, <2>2 DEF TypeOK, Keys
    <3>2. \A j \in 1 .. Len(graph[id]) : j \in 1 .. stack[n].next - 1
      <4>1. Len(graph[Top.id]) \in Nat /\ Top.next \in Nat \ {0}
        BY <1>1 DEF TypeOK, Keys, Frames
      <4>2. Top.next > Len(graph[Top.id])
        BY <4>1 DEF Complete, Finished, HasTarget
      <4> HIDE DEF n
      <4>3. QED
        BY <1>1, <2>2, <4>1, <4>2
    <3>3. \A j \in 1 .. Len(graph[id]) : RankedBelow(graph[id][j], Top.depth)
      <4>1. \A j \in 1 .. stack[n].next - 1 : RankedBelow(graph[stack[n].id][j], stack[n].depth)
        BY <1>1 DEF RankInv, ReadRanked
      <4> HIDE DEF n
      <4>2. QED
        BY <1>1, <2>2, <3>2, <4>1
    <3>4. QED
      BY <1>1, <1>5, <3>1, <3>3
  <2>3. QED
    BY <2>1, <2>2
<1>10. QED
  BY <1>1, <1>6, <1>7, <1>8, <1>9
     DEF RankInv, AcceptedVisited, Complete, Finished, Searching

-----------------------------------------------------------------------------
\* A step that gives a verdict, or none, and leaves the search alone.
LEMMA VerdictKeeps ==
  ASSUME RankInv, UNCHANGED <<graph, state, depths, stack>>,
         verdict' \in {"none", "Accepted", "LimitExceeded"}, AcceptedVisited'
  PROVE  RankInv'
<1>1. TypeOK'
  BY DEF RankInv, TypeOK
<1>2. OnStack'
  BY DEF RankInv, OnStack
<1>3. ReadRanked'
  BY DEF RankInv, ReadRanked, RankedBelow, Keys
<1>4. VisitedRanked'
  BY DEF RankInv, VisitedRanked, RankedBelow, Keys
<1>5. QED
  BY <1>1, <1>2, <1>3, <1>4 DEF RankInv

\* Every step keeps the invariant.
LEMMA RankNext == ASSUME RankInv, Search PROVE RankInv'
<1>1. CASE StartRoot
  BY <1>1, StartRootKeeps
<1>2. CASE Descend
  BY <1>2, DescendKeeps
<1>3. CASE Complete
  BY <1>3, CompleteKeeps
<1>4. CASE Reuse
  <2>1. Top \in Frames /\ Target \in Keys /\ state[Target] = 2 /\ Reading
        /\ stack' = SetTop(Raise(Advance(Top), ReuseDepth(Target)))
        /\ UNCHANGED <<document, graph, state, depths, verdict>>
    BY <1>4, TopFrame DEF Reuse, Reading, RankInv, Keys
  <2>2. depths[Target] \in Nat /\ ReuseDepth(Target) = depths[Target] + 1
    BY <2>1, MaxDepthAssumption DEF RankInv, TypeOK, ReuseDepth, Keys
  <2> DEFINE frame == Raise(Advance(Top), ReuseDepth(Target))
  <2>3. Advance(Top) \in Frames /\ Advance(Top).id = Top.id
        /\ Advance(Top).next = Top.next + 1 /\ Advance(Top).depth = Top.depth
    BY <2>1, AdvanceFrame
  <2>4. frame \in Frames /\ frame.id = Top.id /\ frame.next = Top.next + 1
        /\ frame.depth >= Top.depth /\ frame.depth >= ReuseDepth(Target)
    BY <2>2, <2>3, RaiseFrame
  <2>5. frame.depth \in Nat
    BY <2>4 DEF Frames
  <2> HIDE DEF frame
  <2>6. RankedBelow(Target, frame.depth)
    BY <2>1, <2>2, <2>4, <2>5 DEF RankedBelow
  <2>7. stack' = SetTop(frame)
    BY <2>1 DEF frame
  <2>8. QED
    BY <2>1, <2>4, <2>6, <2>7, ReadKeeps
<1>5. CASE PassOver
  <2>1. Top \in Frames /\ Target \notin Keys /\ Reading /\ stack' = SetTop(Advance(Top))
        /\ UNCHANGED <<document, graph, state, depths, verdict>>
    BY <1>5, TopFrame DEF PassOver, Reading, RankInv, Keys
  <2>2. Advance(Top) \in Frames /\ Advance(Top).id = Top.id
        /\ Advance(Top).next = Top.next + 1 /\ Advance(Top).depth >= Top.depth
    BY <2>1, AdvanceFrame DEF Frames
  <2>3. RankedBelow(Target, Advance(Top).depth)
    BY <2>1 DEF RankedBelow
  <2>4. QED
    BY <2>1, <2>2, <2>3, ReadKeeps
<1>6. CASE Accept
  <2>1. UNCHANGED <<graph, state, depths, stack>> /\ verdict' = "Accepted"
        /\ \A id \in Keys : state[id] = 2
    BY <1>6 DEF Accept, searchVars, Keys
  <2>2. AcceptedVisited'
    BY <2>1 DEF AcceptedVisited, Keys
  <2>3. QED
    BY <2>1, <2>2, VerdictKeeps
<1>7. CASE RejectCycle \/ RejectReuse \/ RejectDepth
  <2>1. UNCHANGED <<graph, state, depths, stack>> /\ verdict' = "LimitExceeded"
    BY <1>7 DEF RejectCycle, RejectReuse, RejectDepth, Fail, searchVars
  <2>2. AcceptedVisited'
    BY <2>1 DEF AcceptedVisited
  <2>3. QED
    BY <2>1, <2>2, VerdictKeeps
<1>8. QED
  BY <1>1, <1>2, <1>3, <1>4, <1>5, <1>6, <1>7 DEF Search

\* A step that changes nothing keeps the invariant.
LEMMA RankStutter == ASSUME RankInv, UNCHANGED vars PROVE RankInv'
<1>1. UNCHANGED <<graph, state, depths, stack, verdict>>
  BY DEF vars, searchVars
<1>2. verdict' \in {"none", "Accepted", "LimitExceeded"} /\ AcceptedVisited'
  BY <1>1 DEF RankInv, TypeOK, AcceptedVisited, Keys
<1>3. QED
  BY <1>1, <1>2, VerdictKeeps

\* The invariant holds throughout the search.
THEOREM RankInvariant == Spec => []RankInv
<1>1. RankInv /\ [Search]_vars => RankInv'
  BY RankNext, RankStutter
<1>2. QED
  BY <1>1, RankInit, PTL DEF Spec

\* Every variable of the search stays in its type.
THEOREM SearchTyped == Spec => []TypeOK
<1>1. RankInv => TypeOK
  BY DEF RankInv
<1>2. QED
  BY <1>1, RankInvariant, PTL

\* An accepted document has a ranking: its references lead from larger to
\* smaller depths, all within the limit.
THEOREM AcceptedRanked == Spec => []AcceptedIsRanked
<1>1. RankInv => AcceptedIsRanked
  BY DEF RankInv, AcceptedIsRanked, AcceptedVisited, VisitedRanked, RankedBelow, Keys
<1>2. QED
  BY <1>1, RankInvariant, PTL

-----------------------------------------------------------------------------
(* The verdict.  A chain of references starts at every id that is visited  *)
(* or being visited, as long as its depth says; so a depth above the limit *)
(* shows a chain above the limit.  A cycle shows one too: the stack is a   *)
(* path of references that holds every id being visited, so a reference to *)
(* one of them closes a circle that can be followed for any length.        *)

\* Some chain of n references starts at an id.
ChainFrom(id, n) ==
  \E c \in [1 .. n -> Keys] : c[1] = id /\ \A i \in 1 .. n - 1 : Refers(c[i], c[i + 1])

\* Every frame was pushed for a target of the frame below it.
StackIsPath == \A i \in 1 .. Len(stack) - 1 : Refers(stack[i].id, stack[i + 1].id)

\* What is being visited is on the stack.
Visiting == \A id \in Keys : state[id] = 1 => \E i \in 1 .. Len(stack) : stack[i].id = id

\* A depth is the length of a chain.
DepthIsChain ==
  /\ \A id \in Keys : state[id] = 2 => ChainFrom(id, depths[id])
  /\ \A i \in 1 .. Len(stack) : ChainFrom(stack[i].id, stack[i].depth)

RejectedChain == verdict = "LimitExceeded" => \E id \in Keys : ChainFrom(id, MaxDepth + 1)

ChainInv == RankInv /\ StackIsPath /\ Visiting /\ DepthIsChain /\ RejectedChain

\* A vertex is a chain, and so are a reference to the start of one and a
\* shorter part of one.
LEMMA ChainOfOne == ASSUME NEW id \in Keys PROVE ChainFrom(id, 1)
<1> DEFINE c == [i \in 1 .. 1 |-> id]
<1>1. c \in [1 .. 1 -> Keys] /\ c[1] = id /\ \A i \in 1 .. 1 - 1 : Refers(c[i], c[i + 1])
  OBVIOUS
<1> HIDE DEF c
<1>2. QED
  BY <1>1 DEF ChainFrom

LEMMA ChainPrepend ==
  ASSUME NEW a \in Keys, NEW b, Refers(a, b), NEW n \in Nat \ {0}, ChainFrom(b, n)
  PROVE  ChainFrom(a, n + 1)
<1>1. PICK c \in [1 .. n -> Keys] :
        c[1] = b /\ \A i \in 1 .. n - 1 : Refers(c[i], c[i + 1])
  BY DEF ChainFrom
<1> DEFINE e == [i \in 1 .. n + 1 |-> IF i = 1 THEN a ELSE c[i - 1]]
<1>2. e \in [1 .. n + 1 -> Keys] /\ e[1] = a /\ \A i \in 2 .. n + 1 : e[i] = c[i - 1]
  OBVIOUS
<1> HIDE DEF e
<1>3. ASSUME NEW i \in 1 .. (n + 1) - 1 PROVE Refers(e[i], e[i + 1])
  <2>1. CASE i = 1
    <3>1. e[i] = a /\ e[i + 1] = b
      BY <1>1, <1>2, <2>1
    <3>2. QED
      BY <3>1
  <2>2. CASE i # 1
    <3>1. i - 1 \in 1 .. n - 1 /\ e[i] = c[i - 1] /\ e[i + 1] = c[(i - 1) + 1]
      BY <1>2, <2>2
    <3>2. QED
      BY <1>1, <3>1
  <2>3. QED
    BY <2>1, <2>2
<1>4. QED
  BY <1>2, <1>3 DEF ChainFrom

LEMMA ChainPrefix ==
  ASSUME NEW a \in Keys, NEW n \in Nat, ChainFrom(a, n), NEW m \in 1 .. n
  PROVE  ChainFrom(a, m)
<1>1. PICK c \in [1 .. n -> Keys] :
        c[1] = a /\ \A i \in 1 .. n - 1 : Refers(c[i], c[i + 1])
  BY DEF ChainFrom
<1> DEFINE e == [i \in 1 .. m |-> c[i]]
<1>2. e \in [1 .. m -> Keys] /\ e[1] = a /\ \A i \in 1 .. m : e[i] = c[i]
  BY <1>1
<1> HIDE DEF e
<1>3. \A i \in 1 .. m - 1 : Refers(e[i], e[i + 1])
  BY <1>1, <1>2
<1>4. QED
  BY <1>2, <1>3 DEF ChainFrom

\* Where every vertex refers to one of the set, chains go on for ever.
LEMMA CycleChain ==
  ASSUME NEW W \in SUBSET Keys, \A w \in W : \E v \in W : Refers(w, v),
         NEW n \in Nat, NEW w \in W
  PROVE  ChainFrom(w, n + 1)
<1> DEFINE S == {k \in Nat : \A v \in W : ChainFrom(v, k + 1)}
<1>1. 0 \in S
  BY ChainOfOne
<1>2. ASSUME NEW k \in Nat, k \in S PROVE k + 1 \in S
  <2>1. ASSUME NEW v \in W PROVE ChainFrom(v, (k + 1) + 1)
    <3>1. PICK u \in W : Refers(v, u)
      OBVIOUS
    <3>2. ChainFrom(u, k + 1) /\ k + 1 \in Nat \ {0}
      BY <1>2
    <3>3. QED
      BY <3>1, <3>2, ChainPrepend
  <2>2. QED
    BY <2>1
<1> HIDE DEF S
<1>3. Nat \subseteq S
  BY <1>1, <1>2, SetInduction
<1>4. QED
  BY <1>3 DEF S

\* Chains are of the graph, which no step changes.
LEMMA ChainsStand ==
  ASSUME UNCHANGED graph
  PROVE  /\ Keys' = Keys
         /\ \A a, b : Refers(a, b)' <=> Refers(a, b)
         /\ \A id, n : ChainFrom(id, n)' <=> ChainFrom(id, n)
<1>1. Keys' = Keys /\ \A a, b : Refers(a, b)' <=> Refers(a, b)
  BY DEF Keys, Refers
<1>2. QED
  BY <1>1 DEF ChainFrom

\* What an id refers to at one of its positions, it refers to.
LEMMA TargetReferred ==
  ASSUME TypeOK, Reading
  PROVE  /\ Top.id \in Keys /\ Top \in Frames /\ Refers(Top.id, Target)
         /\ Len(stack) \in Nat \ {0} /\ Top = stack[Len(stack)]
<1>1. Top \in Frames /\ Len(stack) \in Nat \ {0} /\ Top = stack[Len(stack)]
  BY TopFrame DEF Reading
<1>2. Top.id \in Keys /\ Top.next \in Nat \ {0}
  BY <1>1 DEF Frames
<1>3. Len(graph[Top.id]) \in Nat
  BY <1>2 DEF TypeOK, Keys
<1>4. Top.next \in 1 .. Len(graph[Top.id])
  BY <1>2, <1>3 DEF Reading, HasTarget
<1>5. QED
  BY <1>1, <1>2, <1>4 DEF Refers, Target

-----------------------------------------------------------------------------
\* The search begins with nothing visited and nothing on the stack.
LEMMA ChainInit == Init => ChainInv
<1> SUFFICES ASSUME Init PROVE ChainInv
  OBVIOUS
<1>1. RankInv
  BY RankInit
<1>2. stack = <<>> /\ verdict = "none" /\ \A id \in Keys : state[id] = 0
  BY DEF Init, Keys
<1>3. QED
  BY <1>1, <1>2 DEF ChainInv, StackIsPath, Visiting, DepthIsChain, RejectedChain

\* A new root is alone on the stack, and nothing else was being visited: what
\* is being visited is on the stack, and the stack was empty.
LEMMA StartRootChains == ASSUME ChainInv, StartRoot PROVE ChainInv'
<1>1. PICK root \in Keys : /\ state[root] # 2
                           /\ state' = [state EXCEPT ![root] = 1]
                           /\ stack' = <<Frame(root)>>
  BY DEF StartRoot, Keys
<1>2. UNCHANGED <<graph, depths, verdict>> /\ stack = <<>> /\ RankInv'
      /\ TypeOK /\ verdict = "none"
  BY StartRootKeeps DEF StartRoot, ChainInv, RankInv, Searching
<1>3. /\ Keys' = Keys
      /\ \A id, n : ChainFrom(id, n)' <=> ChainFrom(id, n)
  BY <1>2, ChainsStand
<1>4. Len(stack') = 1 /\ stack'[1].id = root /\ stack'[1].depth = 1
  BY <1>1 DEF Frame
<1>5. \A id \in Keys : state'[id] = IF id = root THEN 1 ELSE state[id]
  BY <1>1, <1>2 DEF TypeOK, Keys
<1>6. StackIsPath'
  BY <1>4 DEF StackIsPath
<1>7. Visiting'
  <2>1. Len(stack) = 0
    BY <1>2
  <2>2. \A id \in Keys : state[id] # 1
    BY <2>1 DEF ChainInv, Visiting
  <2>3. QED
    BY <1>3, <1>4, <1>5, <2>2 DEF Visiting
<1>8. DepthIsChain'
  <2>1. \A id \in Keys : state'[id] = 2 => ChainFrom(id, depths'[id])
    BY <1>2, <1>5 DEF ChainInv, DepthIsChain
  <2>2. ChainFrom(root, 1)
    BY ChainOfOne
  <2>3. QED
    BY <1>3, <1>4, <2>1, <2>2 DEF DepthIsChain
<1>9. RejectedChain'
  BY <1>2 DEF RejectedChain
<1>10. QED
  BY <1>2, <1>6, <1>7, <1>8, <1>9 DEF ChainInv

\* Reading a target keeps the ids of the stack; the frame on top may deepen,
\* by a chain it begins.
LEMMA ReadChains ==
  ASSUME ChainInv, Reading, RankInv', UNCHANGED <<graph, state, depths, verdict>>,
         NEW frame \in Frames, stack' = SetTop(frame), frame.id = Top.id,
         ChainFrom(frame.id, frame.depth)
  PROVE  ChainInv'
<1>1. TypeOK /\ stack # <<>> /\ verdict = "none"
  BY DEF ChainInv, RankInv, Reading, Searching
<1>2. /\ Len(stack') = Len(stack) /\ Len(stack) \in Nat \ {0}
      /\ stack'[Len(stack)] = frame /\ Top = stack[Len(stack)]
      /\ \A i \in 1 .. Len(stack) - 1 : stack'[i] = stack[i]
  BY <1>1, TopFrame, SetTopFrames
<1>3. \A i \in 1 .. Len(stack) : stack'[i].id = stack[i].id
  BY <1>2
<1>4. /\ Keys' = Keys
      /\ \A a, b : Refers(a, b)' <=> Refers(a, b)
      /\ \A id, n : ChainFrom(id, n)' <=> ChainFrom(id, n)
  BY ChainsStand
<1>5. StackIsPath'
  BY <1>2, <1>3, <1>4 DEF ChainInv, StackIsPath
<1>6. Visiting'
  BY <1>2, <1>3, <1>4 DEF ChainInv, Visiting
<1>7. DepthIsChain'
  <2>1. \A id \in Keys : state[id] = 2 => ChainFrom(id, depths[id])
    BY DEF ChainInv, DepthIsChain
  <2>2. \A i \in 1 .. Len(stack) : ChainFrom(stack'[i].id, stack'[i].depth)
    BY <1>2 DEF ChainInv, DepthIsChain
  <2>3. QED
    BY <1>2, <1>4, <2>1, <2>2 DEF DepthIsChain
<1>8. RejectedChain'
  BY <1>1 DEF RejectedChain
<1>9. QED
  BY <1>5, <1>6, <1>7, <1>8 DEF ChainInv

\* A target that was visited before lengthens its chain by the reference.
LEMMA ReuseChains == ASSUME ChainInv, Reuse PROVE ChainInv'
<1>1. /\ Reading /\ TypeOK /\ RankInv /\ Target \in Keys /\ state[Target] = 2
      /\ stack' = SetTop(Raise(Advance(Top), ReuseDepth(Target)))
      /\ UNCHANGED <<graph, state, depths, verdict>>
  BY DEF Reuse, ChainInv, RankInv, Keys
<1>2. /\ Top.id \in Keys /\ Top \in Frames /\ Refers(Top.id, Target)
      /\ Len(stack) \in Nat \ {0} /\ Top = stack[Len(stack)]
  BY <1>1, TargetReferred
<1>3. depths[Target] \in Nat \ {0} /\ ReuseDepth(Target) = depths[Target] + 1
  BY <1>1, MaxDepthAssumption DEF RankInv, VisitedRanked, ReuseDepth
<1>4. Advance(Top) \in Frames /\ Advance(Top).id = Top.id /\ Advance(Top).depth = Top.depth
  BY <1>2, AdvanceFrame
<1> DEFINE frame == Raise(Advance(Top), ReuseDepth(Target))
<1>5. frame \in Frames /\ frame.id = Top.id
  BY <1>3, <1>4, RaiseFrame
<1>6. frame.depth = Top.depth \/ frame.depth = depths[Target] + 1
  <2>1. frame.depth = Deeper(Advance(Top).depth, ReuseDepth(Target))
    BY <1>4 DEF Raise, Frames
  <2>2. QED
    BY <2>1, <1>3, <1>4 DEF Deeper
<1> HIDE DEF frame
<1>7. ChainFrom(frame.id, frame.depth)
  <2>1. ChainFrom(Top.id, Top.depth)
    BY <1>2 DEF ChainInv, DepthIsChain
  <2>2. ChainFrom(Target, depths[Target])
    BY <1>1 DEF ChainInv, DepthIsChain
  <2>3. ChainFrom(Top.id, depths[Target] + 1)
    BY <1>2, <1>3, <2>2, ChainPrepend
  <2>4. QED
    BY <1>5, <1>6, <2>1, <2>3
<1>8. stack' = SetTop(frame)
  BY <1>1 DEF frame
<1>9. RankInv'
  BY <1>1, RankNext DEF Search
<1>10. QED
  BY <1>1, <1>5, <1>7, <1>8, <1>9, ReadChains

\* A target no element has changes nothing but what is read next.
LEMMA PassOverChains == ASSUME ChainInv, PassOver PROVE ChainInv'
<1>1. /\ Reading /\ TypeOK /\ RankInv /\ stack' = SetTop(Advance(Top))
      /\ UNCHANGED <<graph, state, depths, verdict>>
  BY DEF PassOver, ChainInv, RankInv
<1>2. Top \in Frames /\ Len(stack) \in Nat \ {0} /\ Top = stack[Len(stack)]
  BY <1>1, TargetReferred
<1>3. Advance(Top) \in Frames /\ Advance(Top).id = Top.id /\ Advance(Top).depth = Top.depth
  BY <1>2, AdvanceFrame
<1>4. ChainFrom(Advance(Top).id, Advance(Top).depth)
  BY <1>2, <1>3 DEF ChainInv, DepthIsChain
<1>5. RankInv'
  BY <1>1, RankNext DEF Search
<1>6. QED
  BY <1>1, <1>3, <1>4, <1>5, ReadChains

\* A target that is not visited goes on top of the id that refers to it.
LEMMA DescendChains == ASSUME ChainInv, Descend PROVE ChainInv'
<1> DEFINE n == Len(stack)
<1>1. /\ Reading /\ TypeOK /\ RankInv /\ Target \in Keys /\ state[Target] = 0
      /\ state' = [state EXCEPT ![Target] = 1] /\ verdict = "none"
      /\ stack' = Push(SetTop(Advance(Top)), Target)
      /\ UNCHANGED <<graph, depths, verdict>>
  BY DEF Descend, Reading, Searching, ChainInv, RankInv, Keys
<1>2. /\ Top.id \in Keys /\ Top \in Frames /\ Refers(Top.id, Target)
      /\ n \in Nat \ {0} /\ Top = stack[n] /\ stack # <<>>
  BY <1>1, TargetReferred DEF Reading
<1>3. Advance(Top) \in Frames /\ Advance(Top).id = Top.id /\ Advance(Top).depth = Top.depth
  BY <1>2, AdvanceFrame
<1>4. /\ SetTop(Advance(Top)) \in Seq(Frames) /\ Len(SetTop(Advance(Top))) = n
      /\ SetTop(Advance(Top))[n] = Advance(Top)
      /\ \A i \in 1 .. n - 1 : SetTop(Advance(Top))[i] = stack[i]
  BY <1>1, <1>2, <1>3, SetTopFrames
<1> HIDE DEF n
<1>5. /\ Len(stack') = n + 1 /\ stack'[n + 1].id = Target /\ stack'[n + 1].depth = 1
      /\ \A i \in 1 .. n : stack'[i].id = stack[i].id /\ stack'[i].depth = stack[i].depth
  <2>1. Frame(Target) \in Frames /\ Frame(Target).id = Target /\ Frame(Target).depth = 1
    BY <1>1 DEF Frame, Frames
  <2>2. /\ Len(stack') = n + 1 /\ stack'[n + 1] = Frame(Target)
        /\ \A i \in 1 .. n : stack'[i] = SetTop(Advance(Top))[i]
    BY <1>1, <1>2, <1>4, <2>1 DEF Push
  <2>3. QED
    BY <1>2, <1>3, <1>4, <2>1, <2>2
<1>6. /\ Keys' = Keys
      /\ \A a, b : Refers(a, b)' <=> Refers(a, b)
      /\ \A id, m : ChainFrom(id, m)' <=> ChainFrom(id, m)
  BY <1>1, ChainsStand
<1>7. \A id \in Keys : state'[id] = IF id = Target THEN 1 ELSE state[id]
  BY <1>1 DEF TypeOK, Keys
<1>8. StackIsPath'
  <2>1. ASSUME NEW i \in 1 .. n PROVE Refers(stack'[i].id, stack'[i + 1].id)
    <3>1. CASE i = n
      BY <1>2, <1>5, <3>1
    <3>2. CASE i # n
      BY <1>2, <1>5, <3>2 DEF ChainInv, StackIsPath, n
    <3>3. QED
      BY <3>1, <3>2
  <2>2. QED
    BY <1>2, <1>5, <1>6, <2>1 DEF StackIsPath
<1>9. Visiting'
  <2>1. ASSUME NEW id \in Keys, state'[id] = 1
        PROVE  \E i \in 1 .. n + 1 : stack'[i].id = id
    <3>1. CASE id = Target
      BY <1>2, <1>5, <3>1
    <3>2. CASE id # Target
      <4>1. PICK i \in 1 .. n : stack[i].id = id
        BY <1>7, <2>1, <3>2 DEF ChainInv, Visiting, n
      <4>2. i \in 1 .. n + 1 /\ stack'[i].id = id
        BY <1>2, <1>5, <4>1
      <4>3. QED
        BY <4>2
    <3>3. QED
      BY <3>1, <3>2
  <2>2. QED
    BY <1>5, <1>6, <2>1 DEF Visiting
<1>10. DepthIsChain'
  <2>1. \A id \in Keys : state'[id] = 2 => ChainFrom(id, depths'[id])
    BY <1>1, <1>7 DEF ChainInv, DepthIsChain
  <2>2. ASSUME NEW i \in 1 .. n + 1 PROVE ChainFrom(stack'[i].id, stack'[i].depth)
    <3>1. CASE i = n + 1
      BY <1>1, <1>5, <3>1, ChainOfOne
    <3>2. CASE i # n + 1
      <4>1. i \in 1 .. n
        BY <1>2, <3>2
      <4>2. ChainFrom(stack[i].id, stack[i].depth)
        BY <4>1 DEF ChainInv, DepthIsChain, n
      <4>3. QED
        BY <1>5, <4>1, <4>2
    <3>3. QED
      BY <3>1, <3>2
  <2>3. QED
    BY <1>5, <1>6, <2>1, <2>2 DEF DepthIsChain
<1>11. RejectedChain' /\ RankInv'
  BY <1>1, DescendKeeps DEF RejectedChain
<1>12. QED
  BY <1>8, <1>9, <1>10, <1>11 DEF ChainInv

\* The id on top is visited, with its depth; the id below refers to it, so
\* the deeper of the two depths begins a chain there.
LEMMA CompleteChains == ASSUME ChainInv, Complete PROVE ChainInv'
<1> DEFINE n == Len(stack)
<1>1. /\ stack # <<>> /\ TypeOK /\ RankInv /\ verdict = "none"
      /\ state' = [state EXCEPT ![Top.id] = 2] /\ depths' = [depths EXCEPT ![Top.id] = Top.depth]
      /\ stack' = [i \in 1 .. n - 1 |-> IF i = n - 1 THEN Raise(stack[i], Top.depth + 1)
                                        ELSE stack[i]]
      /\ UNCHANGED <<graph, verdict>>
  BY DEF Complete, Finished, Searching, ChainInv, RankInv, ParentRaised
<1>2. /\ n \in Nat \ {0} /\ Top \in Frames /\ Top = stack[n] /\ Top.id \in Keys
      /\ Top.depth \in Nat \ {0} /\ \A i \in 1 .. n : stack[i] \in Frames
  BY <1>1, TopFrame, StackFrames DEF Frames
<1>3. /\ Keys' = Keys
      /\ \A a, b : Refers(a, b)' <=> Refers(a, b)
      /\ \A id, m : ChainFrom(id, m)' <=> ChainFrom(id, m)
  BY <1>1, ChainsStand
<1>4. \A id \in Keys : /\ state'[id] = IF id = Top.id THEN 2 ELSE state[id]
                       /\ depths'[id] = IF id = Top.id THEN Top.depth ELSE depths[id]
  BY <1>1 DEF TypeOK, Keys
<1>5. ChainFrom(Top.id, Top.depth)
  BY <1>2 DEF ChainInv, DepthIsChain
<1>6. Len(stack') = n - 1
  <2> HIDE DEF n
  <2>1. n - 1 \in Nat
    BY <1>2
  <2>2. QED
    BY <1>1, <2>1
<1>7. ASSUME NEW i \in 1 .. n - 1
      PROVE  stack'[i].id = stack[i].id /\ ChainFrom(stack'[i].id, stack'[i].depth)
  <2>1. stack[i] \in Frames /\ ChainFrom(stack[i].id, stack[i].depth)
    BY <1>2 DEF ChainInv, DepthIsChain
  <2>2. CASE i # n - 1
    <3>1. stack'[i] = stack[i]
      BY <1>1, <2>2
    <3>2. QED
      BY <2>1, <3>1
  <2>3. CASE i = n - 1
    <3>1. stack'[i] = Raise(stack[i], Top.depth + 1)
      BY <1>1, <2>3
    <3>2. Raise(stack[i], Top.depth + 1).id = stack[i].id
          /\ Raise(stack[i], Top.depth + 1).depth = Deeper(stack[i].depth, Top.depth + 1)
      BY <2>1 DEF Raise, Frames
    <3>3. Refers(stack[i].id, Top.id) /\ stack[i].id \in Keys
      BY <1>2, <2>1, <2>3 DEF ChainInv, StackIsPath, Frames
    <3>4. ChainFrom(stack[i].id, Top.depth + 1)
      BY <1>2, <1>5, <3>3, ChainPrepend
    <3>5. QED
      BY <2>1, <3>1, <3>2, <3>4 DEF Deeper
  <2>4. QED
    BY <2>2, <2>3
<1>8. StackIsPath'
  <2>1. \A i \in 1 .. n - 1 : i \in 1 .. n
    BY <1>2
  <2>2. \A i \in 1 .. (n - 1) - 1 : /\ i \in 1 .. n - 1 /\ i + 1 \in 1 .. n - 1
                                    /\ Refers(stack[i].id, stack[i + 1].id)
    BY <1>2 DEF ChainInv, StackIsPath
  <2>3. QED
    BY <1>3, <1>6, <1>7, <2>2 DEF StackIsPath
<1>9. Visiting'
  <2>1. ASSUME NEW id \in Keys, state'[id] = 1
        PROVE  \E i \in 1 .. n - 1 : stack'[i].id = id
    <3>1. id # Top.id /\ state[id] = 1
      BY <1>4, <2>1
    <3>2. PICK i \in 1 .. n : stack[i].id = id
      BY <3>1 DEF ChainInv, Visiting
    <3>3. i \in 1 .. n - 1
      BY <1>2, <3>1, <3>2
    <3>4. QED
      BY <1>7, <3>2, <3>3
  <2>2. QED
    BY <1>3, <1>6, <2>1 DEF Visiting
<1>10. DepthIsChain'
  <2>1. \A id \in Keys : state'[id] = 2 => ChainFrom(id, depths'[id])
    BY <1>4, <1>5 DEF ChainInv, DepthIsChain
  <2>2. QED
    BY <1>3, <1>6, <1>7, <2>1 DEF DepthIsChain
<1>11. RejectedChain' /\ RankInv'
  BY <1>1, CompleteKeeps DEF RejectedChain
<1>12. QED
  BY <1>8, <1>9, <1>10, <1>11 DEF ChainInv

\* A rejection comes with a chain above the limit: a depth above it is the
\* length of one, and the ids from a target on the stack to the top of the
\* stack refer to each other in a circle.
LEMMA RejectedAboveLimit ==
  ASSUME ChainInv, RejectCycle \/ RejectReuse \/ RejectDepth
  PROVE  \E id \in Keys : ChainFrom(id, MaxDepth + 1)
<1>1. TypeOK /\ RankInv
  BY DEF ChainInv, RankInv
<1>2. \A id \in Keys, d \in Nat : ChainFrom(id, d) /\ d > MaxDepth
                                    => ChainFrom(id, MaxDepth + 1)
  <2> SUFFICES ASSUME NEW id \in Keys, NEW d \in Nat, ChainFrom(id, d), d > MaxDepth
               PROVE  ChainFrom(id, MaxDepth + 1)
    OBVIOUS
  <2>1. MaxDepth + 1 \in 1 .. d
    BY MaxDepthAssumption
  <2>2. QED
    BY <2>1, ChainPrefix
<1>3. CASE RejectDepth
  <2>1. stack # <<>> /\ ~(Top.depth <= MaxDepth)
    BY <1>3 DEF RejectDepth, Finished, CompleteAllowed
  <2>2. Top \in Frames /\ Len(stack) \in Nat \ {0} /\ Top = stack[Len(stack)]
    BY <1>1, <2>1, TopFrame
  <2>3. Top.id \in Keys /\ Top.depth \in Nat /\ ChainFrom(Top.id, Top.depth)
    BY <2>2 DEF ChainInv, DepthIsChain, Frames
  <2>4. QED
    BY <1>2, <2>1, <2>3, MaxDepthAssumption
<1>4. CASE RejectReuse
  <2>1. /\ Reading /\ Target \in Keys /\ state[Target] = 2
        /\ Raise(Top, ReuseDepth(Target)).depth > MaxDepth
    BY <1>4 DEF RejectReuse, Keys
  <2>2. /\ Top.id \in Keys /\ Top \in Frames /\ Refers(Top.id, Target)
        /\ Len(stack) \in Nat \ {0} /\ Top = stack[Len(stack)]
    BY <1>1, <2>1, TargetReferred
  <2>3. /\ depths[Target] \in Nat \ {0} /\ ReuseDepth(Target) = depths[Target] + 1
        /\ ChainFrom(Target, depths[Target])
    BY <1>1, <2>1, MaxDepthAssumption
       DEF RankInv, VisitedRanked, ReuseDepth, ChainInv, DepthIsChain
  <2>4. Raise(Top, ReuseDepth(Target)).depth = Deeper(Top.depth, depths[Target] + 1)
    BY <2>2, <2>3 DEF Raise, Frames
  <2>5. ChainFrom(Top.id, depths[Target] + 1) /\ ChainFrom(Top.id, Top.depth)
    BY <2>2, <2>3, ChainPrepend DEF ChainInv, DepthIsChain
  <2>6. Top.depth \in Nat /\ depths[Target] + 1 \in Nat
    BY <2>2, <2>3 DEF Frames
  <2>7. Top.depth > MaxDepth \/ depths[Target] + 1 > MaxDepth
    BY <2>1, <2>4 DEF Deeper
  <2>8. QED
    BY <1>2, <2>2, <2>5, <2>6, <2>7
<1>5. CASE RejectCycle
  <2> DEFINE n == Len(stack)
  <2>1. Reading /\ Target \in Keys /\ state[Target] = 1
    BY <1>5 DEF RejectCycle, Keys
  <2>2. Refers(Top.id, Target) /\ n \in Nat \ {0} /\ Top = stack[n]
    BY <1>1, <2>1, TargetReferred
  <2>3. PICK k \in 1 .. n : stack[k].id = Target
    BY <2>1 DEF ChainInv, Visiting
  <2> DEFINE W == {stack[i].id : i \in k .. n}
  <2>4. W \in SUBSET Keys /\ Target \in W
    <3>1. \A i \in 1 .. n : stack[i].id \in Keys
      BY <1>1, StackFrames DEF Frames
    <3>2. \A i \in k .. n : i \in 1 .. n
      BY <2>2
    <3>3. k \in k .. n
      BY <2>2
    <3> HIDE DEF n
    <3>4. QED
      BY <2>3, <3>1, <3>2, <3>3
  <2>5. ASSUME NEW w \in W PROVE \E v \in W : Refers(w, v)
    <3>1. PICK i \in k .. n : w = stack[i].id
      OBVIOUS
    <3>2. CASE i = n
      BY <2>2, <2>4, <3>1, <3>2
    <3>3. CASE i # n
      <4>1. i \in 1 .. n - 1 /\ i + 1 \in k .. n
        BY <2>2, <3>3
      <4>2. Refers(stack[i].id, stack[i + 1].id)
        BY <4>1 DEF ChainInv, StackIsPath
      <4>3. stack[i + 1].id \in W
        BY <4>1
      <4>4. QED
        BY <3>1, <4>2, <4>3
    <3>4. QED
      BY <3>2, <3>3
  <2> HIDE DEF W
  <2>6. ChainFrom(Target, MaxDepth + 1)
    BY <2>4, <2>5, MaxDepthAssumption, CycleChain
  <2>7. QED
    BY <2>1, <2>6
<1>6. QED
  BY <1>3, <1>4, <1>5

\* A step that gives a verdict leaves the search as it is.
LEMMA VerdictChains ==
  ASSUME ChainInv, UNCHANGED <<graph, state, depths, stack>>, RankInv', RejectedChain'
  PROVE  ChainInv'
<1>1. /\ Keys' = Keys
      /\ \A a, b : Refers(a, b)' <=> Refers(a, b)
      /\ \A id, n : ChainFrom(id, n)' <=> ChainFrom(id, n)
  BY ChainsStand
<1>2. StackIsPath' /\ Visiting' /\ DepthIsChain'
  BY <1>1 DEF ChainInv, StackIsPath, Visiting, DepthIsChain
<1>3. QED
  BY <1>2 DEF ChainInv

LEMMA ChainNext == ASSUME ChainInv, [Search]_vars PROVE ChainInv'
<1>1. RankInv /\ RankInv'
  BY RankNext, RankStutter DEF ChainInv
<1>2. CASE StartRoot \/ Descend \/ Reuse \/ PassOver \/ Complete
  BY <1>2, StartRootChains, DescendChains, ReuseChains, PassOverChains, CompleteChains
<1>3. CASE Accept \/ UNCHANGED vars
  <2>1. UNCHANGED <<graph, state, depths, stack>> /\ verdict' \in {"Accepted", verdict}
    BY <1>3 DEF Accept, vars, searchVars
  <2>2. RejectedChain'
    BY <2>1, ChainsStand DEF ChainInv, RejectedChain
  <2>3. QED
    BY <1>1, <2>1, <2>2, VerdictChains
<1>4. CASE RejectCycle \/ RejectReuse \/ RejectDepth
  <2>1. UNCHANGED <<graph, state, depths, stack>>
    BY <1>4 DEF RejectCycle, RejectReuse, RejectDepth, Fail, searchVars
  <2>2. RejectedChain'
    BY <1>4, <2>1, RejectedAboveLimit, ChainsStand DEF RejectedChain
  <2>3. QED
    BY <1>1, <2>1, <2>2, VerdictChains
<1>5. QED
  BY <1>2, <1>3, <1>4 DEF Search

\* Along a chain of references the depths of an accepted document fall, so
\* none is longer than the limit.
LEMMA RankedNoChain ==
  ASSUME ChainInv, verdict = "Accepted",
         NEW c \in [1 .. MaxDepth + 1 -> Keys],
         \A i \in 1 .. (MaxDepth + 1) - 1 : Refers(c[i], c[i + 1])
  PROVE  FALSE
<1>1. \A id \in Keys : depths[id] \in 1 .. MaxDepth
                       /\ \A j \in 1 .. Len(graph[id]) :
                            graph[id][j] \in Keys => depths[graph[id][j]] < depths[id]
  BY DEF ChainInv, RankInv, AcceptedVisited, VisitedRanked, RankedBelow
<1>2. \A a, b \in Keys : Refers(a, b) => depths[b] < depths[a]
  BY <1>1 DEF Refers
<1> DEFINE S == {k \in 0 .. MaxDepth : depths[c[k + 1]] + k <= MaxDepth}
<1>3. MaxDepth \in Nat \ {0}
  BY MaxDepthAssumption
<1>4. 0 \in S
  <2>1. c[1] \in Keys
    BY <1>3
  <2>2. depths[c[0 + 1]] \in 1 .. MaxDepth
    BY <1>1, <2>1
  <2>3. QED
    BY <1>3, <2>2
<1>5. ASSUME NEW k \in 0 .. MaxDepth - 1, k \in S PROVE k + 1 \in S
  <2>1. k + 1 \in 1 .. (MaxDepth + 1) - 1 /\ c[k + 1] \in Keys /\ c[(k + 1) + 1] \in Keys
        /\ k + 1 \in 0 .. MaxDepth
    BY <1>3
  <2>2. depths[c[(k + 1) + 1]] < depths[c[k + 1]]
    BY <1>2, <2>1
  <2>3. depths[c[k + 1]] \in Nat /\ depths[c[(k + 1) + 1]] \in Nat
    BY <1>1, <1>3, <2>1
  <2>4. QED
    BY <1>3, <1>5, <2>1, <2>2, <2>3
<1> HIDE DEF S
<1>6. MaxDepth \in S
  BY <1>3, <1>4, <1>5, IntervalInduction
<1>7. c[MaxDepth + 1] \in Keys
  BY <1>3
<1>8. QED
  BY <1>1, <1>3, <1>6, <1>7 DEF S

\* The invariant of the verdict holds throughout the search.
THEOREM ChainInvariant == Spec => []ChainInv
<1>1. QED
  BY ChainInit, ChainNext, PTL DEF Spec

\* The verdict is exact for every document, every order of ids and every
\* limit: an accepted document has no chain of references longer than the
\* limit, and a rejected one has.
THEOREM VerdictIsExact == Spec => []VerdictExact
<1>1. ASSUME ChainInv PROVE VerdictExact
  <2>1. ASSUME verdict = "Accepted", HasChain(DOMAIN graph, Refers, MaxDepth + 1) PROVE FALSE
    BY <1>1, <2>1, RankedNoChain DEF HasChain, Keys
  <2>2. ASSUME verdict = "LimitExceeded" PROVE HasChain(DOMAIN graph, Refers, MaxDepth + 1)
    BY <1>1, <2>2 DEF ChainInv, RejectedChain, ChainFrom, HasChain, Keys
  <2>3. QED
    BY <2>1, <2>2 DEF VerdictExact
<1>2. QED
  BY <1>1, ChainInvariant, PTL
=============================================================================
