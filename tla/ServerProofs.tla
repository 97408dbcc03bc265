---------------------------- MODULE ServerProofs ----------------------------
(***************************************************************************)
(* Theorems of Server.tla, for any finite set of requests and any number   *)
(* of concurrent conversions: its invariants, that a shutdown leaves no    *)
(* supervised task behind, and that it implements ConversionService.tla.   *)
(***************************************************************************)
EXTENDS Server, FiniteSetTheorems, TLAPS

\* A step of the server is a step of one actor.
LEMMA NextActions ==
  ASSUME Next
  PROVE  \/ \E r \in Requests :
              \/ Admit(r) \/ Refuse(r) \/ Reject(r) \/ ReadBody(r) \/ BodyTimeout(r)
              \/ ConversionBusy(r) \/ Spawn(r) \/ DeadlineAfterSpawn(r) \/ ArmTimeout(r)
              \/ JoinTask(r) \/ ConversionTimeout(r) \/ Supervise(r)
              \/ DeadlinePasses(r) \/ Disconnect(r) \/ Connect(r) \/ Close(r)
              \/ StartTask(r) \/ FinishTask(r) \/ CompleteTask(r) \/ AbortTask(r)
         \/ ReceiveTask \/ ReapTask
         \/ Shutdown \/ ServeReturns \/ SupervisorExits \/ Exit
BY DEF Next, HandlerStep, TaskStep, SupervisorStep, ProcessStep

-----------------------------------------------------------------------------
(* Type correctness.                                                       *)

LEMMA TypeInit == Init => TypeOK
BY MaxConcurrentAssumption DEF Init, TypeOK, RequestSlots, Phases, PCs, Tasks

\* The steps of a handler keep the variables in their types.
LEMMA TypeHandler ==
  ASSUME TypeOK, NEW r \in Requests,
         \/ Admit(r) \/ Refuse(r) \/ Reject(r) \/ ReadBody(r) \/ BodyTimeout(r)
         \/ ConversionBusy(r) \/ Spawn(r) \/ DeadlineAfterSpawn(r) \/ ArmTimeout(r)
         \/ JoinTask(r) \/ ConversionTimeout(r) \/ Supervise(r)
         \/ DeadlinePasses(r) \/ Disconnect(r) \/ Connect(r) \/ Close(r)
  PROVE  TypeOK'
<1> USE DEF TypeOK, PCs, Active, Awaits, taskVars, reaperVars
<1>1. CASE Admit(r)
  BY <1>1 DEF Admit
<1>2. CASE Refuse(r)
  BY <1>2 DEF Refuse, Replies
<1>3. CASE Reject(r)
  BY <1>3, RejectionsAssumption DEF Reject, Respond, Replies
<1>4. CASE ReadBody(r)
  BY <1>4 DEF ReadBody, Goto
<1>5. CASE BodyTimeout(r)
  BY <1>5 DEF BodyTimeout, Respond, Replies
<1>6. CASE ConversionBusy(r)
  BY <1>6 DEF ConversionBusy, Respond, Replies
<1>7. CASE Spawn(r)
  BY <1>7 DEF Spawn, Goto, ConversionPermitFree, Tasks
<1>8. CASE DeadlineAfterSpawn(r)
  BY <1>8 DEF DeadlineAfterSpawn, Respond, Replies
<1>9. CASE ArmTimeout(r)
  BY <1>9 DEF ArmTimeout, Goto
<1>10. CASE JoinTask(r)
  <2>1. TaskReply(outcome[r]) \in Replies
    BY DEF TaskReply, Replies
  <2>2. QED
    BY <1>10, <2>1 DEF JoinTask, Respond
<1>11. CASE ConversionTimeout(r)
  BY <1>11 DEF ConversionTimeout, Goto
<1>12. CASE Supervise(r)
  BY <1>12 DEF Supervise, Respond, Replies
<1>13. CASE DeadlinePasses(r)
  BY <1>13 DEF DeadlinePasses
<1>14. CASE Disconnect(r)
  BY <1>14 DEF Disconnect
<1>15. CASE Connect(r) \/ Close(r)
  BY <1>15 DEF Connect, Close
<1>16. QED
  BY <1>1, <1>2, <1>3, <1>4, <1>5, <1>6, <1>7, <1>8, <1>9, <1>10, <1>11, <1>12, <1>13, <1>14,
     <1>15

\* So do the steps of a task, of the supervisor and of the process.
LEMMA TypeOthers ==
  ASSUME TypeOK,
         \/ \E r \in Requests : StartTask(r) \/ FinishTask(r) \/ CompleteTask(r) \/ AbortTask(r)
         \/ ReceiveTask \/ ReapTask
         \/ Shutdown \/ ServeReturns \/ SupervisorExits \/ Exit
  PROVE  TypeOK'
<1> USE DEF TypeOK, handlerVars, reaperVars, taskVars, Tasks, Outcomes, Phases
<1>1. ASSUME NEW r \in Requests, StartTask(r) PROVE TypeOK'
  BY <1>1 DEF StartTask
<1>2. ASSUME NEW r \in Requests, FinishTask(r) PROVE TypeOK'
  BY <1>2, FailuresAssumption DEF FinishTask, Ends
<1>3. ASSUME NEW r \in Requests, CompleteTask(r) PROVE TypeOK'
  BY <1>3 DEF CompleteTask
<1>4. ASSUME NEW r \in Requests, AbortTask(r) PROVE TypeOK'
  BY <1>4 DEF AbortTask
<1>5. CASE ReceiveTask
  BY <1>5 DEF ReceiveTask
<1>6. CASE ReapTask
  BY <1>6 DEF ReapTask
<1>7. CASE Shutdown \/ ServeReturns \/ SupervisorExits \/ Exit
  BY <1>7 DEF Shutdown, ServeReturns, SupervisorExits, Exit
<1>8. QED
  BY <1>1, <1>2, <1>3, <1>4, <1>5, <1>6, <1>7

\* A step that changes nothing keeps the types.
LEMMA TypeStutter == ASSUME TypeOK, UNCHANGED vars PROVE TypeOK'
BY DEF TypeOK, vars, handlerVars, taskVars, reaperVars

\* Every variable of the server stays in its type.
THEOREM TypeCorrect == Spec => []TypeOK
<1>1. TypeOK /\ [Next]_vars => TypeOK'
  BY NextActions, TypeHandler, TypeOthers, TypeStutter
<1>2. QED
  BY TypeInit, <1>1, PTL DEF Spec

-----------------------------------------------------------------------------
(* The permits.                                                            *)

LEMMA FlightFinite == IsFiniteSet(InFlight) /\ IsFiniteSet(Converting)
BY RequestsAssumption, FS_Subset DEF InFlight, Converting

LEMMA FlightSizes == Cardinality(InFlight) \in Nat /\ Cardinality(Converting) \in Nat
BY FlightFinite, FS_CardinalityType

\* How moving one program counter changes the number of requests in flight.
LEMMA FlightSteps ==
  ASSUME TypeOK, NEW r \in Requests, NEW l, pc' = [pc EXCEPT ![r] = l]
  PROVE  /\ pc[r] \in Active /\ l \in Active => InFlight' = InFlight
         /\ pc[r] \notin Active /\ l \notin Active => InFlight' = InFlight
         /\ pc[r] \notin Active /\ l \in Active =>
              Cardinality(InFlight') = Cardinality(InFlight) + 1
         /\ pc[r] \in Active /\ l \notin Active =>
              Cardinality(InFlight') = Cardinality(InFlight) - 1
<1>1. \A s \in Requests : pc'[s] = IF s = r THEN l ELSE pc[s]
  BY DEF TypeOK
<1>2. CASE (pc[r] \in Active) = (l \in Active)
  BY <1>1, <1>2 DEF InFlight
<1>3. CASE pc[r] \notin Active /\ l \in Active
  <2>1. InFlight' = InFlight \cup {r} /\ r \notin InFlight
    BY <1>1, <1>3 DEF InFlight
  <2>2. QED
    BY <1>3, <2>1, FlightFinite, FS_AddElement
<1>4. CASE pc[r] \in Active /\ l \notin Active
  <2>1. InFlight' = InFlight \ {r} /\ r \in InFlight
    BY <1>1, <1>4 DEF InFlight
  <2>2. QED
    BY <1>4, <2>1, FlightFinite, FS_RemoveElement
<1>5. QED
  BY <1>2, <1>3, <1>4

\* The same for the tasks that hold a conversion permit.
LEMMA ConvertingSteps ==
  ASSUME TypeOK, NEW r \in Requests, NEW l, task' = [task EXCEPT ![r] = l]
  PROVE  /\ task[r] \in {"queued", "running"} /\ l \in {"queued", "running"}
              => Converting' = Converting
         /\ task[r] \notin {"queued", "running"} /\ l \notin {"queued", "running"}
              => Converting' = Converting
         /\ task[r] \notin {"queued", "running"} /\ l \in {"queued", "running"} =>
              Cardinality(Converting') = Cardinality(Converting) + 1
         /\ task[r] \in {"queued", "running"} /\ l \notin {"queued", "running"} =>
              Cardinality(Converting') = Cardinality(Converting) - 1
<1>1. \A s \in Requests : task'[s] = IF s = r THEN l ELSE task[s]
  BY DEF TypeOK
<1>2. CASE (task[r] \in {"queued", "running"}) = (l \in {"queued", "running"})
  BY <1>1, <1>2 DEF Converting
<1>3. CASE task[r] \notin {"queued", "running"} /\ l \in {"queued", "running"}
  <2>1. Converting' = Converting \cup {r} /\ r \notin Converting
    BY <1>1, <1>3 DEF Converting
  <2>2. QED
    BY <1>3, <2>1, FlightFinite, FS_AddElement
<1>4. CASE task[r] \in {"queued", "running"} /\ l \notin {"queued", "running"}
  <2>1. Converting' = Converting \ {r} /\ r \in Converting
    BY <1>1, <1>4 DEF Converting
  <2>2. QED
    BY <1>4, <2>1, FlightFinite, FS_RemoveElement
<1>5. QED
  BY <1>2, <1>3, <1>4

\* A handler that has not spawned yet has no task: the strengthening that
\* makes the accounting of conversion permits inductive.
UnspawnedHasNoTask ==
  \A r \in Requests : pc[r] \in {"new", "body", "acquire"} => task[r] = "none"

PermitInv == TypeOK /\ PermitAccounting /\ UnspawnedHasNoTask

LEMMA PermitInit == Init => PermitAccounting /\ UnspawnedHasNoTask
<1> SUFFICES ASSUME Init PROVE PermitAccounting /\ UnspawnedHasNoTask
  OBVIOUS
<1>1. InFlight = {} /\ Converting = {}
  BY DEF Init, InFlight, Converting, Active, Awaits
<1>2. PermitAccounting
  BY <1>1, FS_EmptySet, MaxConcurrentAssumption DEF Init, PermitAccounting, RequestSlots
<1>3. QED
  BY <1>2 DEF Init, UnspawnedHasNoTask

LEMMA UnspawnedNext ==
  ASSUME TypeOK, UnspawnedHasNoTask, Next
  PROVE  UnspawnedHasNoTask'
<1> USE DEF TypeOK, UnspawnedHasNoTask, handlerVars, taskVars, Respond, Goto
<1>1. ASSUME NEW r \in Requests,
             \/ Admit(r) \/ Refuse(r) \/ Reject(r) \/ ReadBody(r) \/ BodyTimeout(r)
             \/ ConversionBusy(r) \/ DeadlineAfterSpawn(r) \/ ArmTimeout(r)
             \/ JoinTask(r) \/ ConversionTimeout(r) \/ Supervise(r)
             \/ DeadlinePasses(r) \/ Disconnect(r) \/ Connect(r) \/ Close(r)
      PROVE  UnspawnedHasNoTask'
  BY <1>1 DEF Admit, Refuse, Reject, ReadBody, BodyTimeout, ConversionBusy,
              DeadlineAfterSpawn, ArmTimeout, JoinTask, ConversionTimeout, Supervise,
              DeadlinePasses, Disconnect, Connect, Close, Arrives
<1>2. ASSUME NEW r \in Requests, Spawn(r) PROVE UnspawnedHasNoTask'
  BY <1>2 DEF Spawn
<1>3. ASSUME NEW r \in Requests,
             StartTask(r) \/ FinishTask(r) \/ CompleteTask(r) \/ AbortTask(r)
      PROVE  UnspawnedHasNoTask'
  BY <1>3 DEF StartTask, FinishTask, CompleteTask, AbortTask
<1>4. CASE ReceiveTask \/ ReapTask \/ Shutdown \/ ServeReturns \/ SupervisorExits \/ Exit
  BY <1>4 DEF ReceiveTask, ReapTask, Shutdown, ServeReturns, SupervisorExits, Exit
<1>5. QED
  BY <1>1, <1>2, <1>3, <1>4, NextActions

LEMMA PermitNext ==
  ASSUME PermitInv, Next
  PROVE  PermitAccounting'
<1> USE FlightSizes DEF PermitInv, PermitAccounting, handlerVars, taskVars
<1>t. TypeOK
  OBVIOUS
<1>q. UNCHANGED task => Converting' = Converting
  BY DEF Converting
<1>p. UNCHANGED pc => InFlight' = InFlight
  BY DEF InFlight
<1>1. ASSUME NEW r \in Requests, Admit(r) PROVE PermitAccounting'
  <2>1. "body" \in Active /\ "new" \notin Active
    BY DEF Active, Awaits
  <2>2. Cardinality(InFlight') = Cardinality(InFlight) + 1
    BY <1>1, <1>t, <2>1, FlightSteps DEF Admit, Arrives
  <2>3. QED
    BY <1>1, <1>t, <1>q, <2>2 DEF Admit, TypeOK
<1>2. ASSUME NEW r \in Requests,
             Refuse(r) \/ ReadBody(r) \/ ArmTimeout(r) \/ ConversionTimeout(r)
      PROVE  PermitAccounting'
  <2>1. \/ pc[r] = "new" /\ pc' = [pc EXCEPT ![r] = "replied"]
        \/ pc[r] = "body" /\ pc' = [pc EXCEPT ![r] = "acquire"]
        \/ pc[r] = "spawned" /\ pc' = [pc EXCEPT ![r] = "awaiting"]
        \/ pc[r] = "awaiting" /\ pc' = [pc EXCEPT ![r] = "sending"]
    BY <1>2 DEF Refuse, Arrives, ReadBody, ArmTimeout, ConversionTimeout, Goto
  <2>2. InFlight' = InFlight
    <3>1. /\ "new" \notin Active /\ "replied" \notin Active
          /\ {"body", "acquire", "spawned", "awaiting", "sending"} \subseteq Active
      BY DEF Active, Awaits
    <3>2. CASE pc[r] = "new" /\ pc' = [pc EXCEPT ![r] = "replied"]
      BY <1>t, <3>1, <3>2, FlightSteps
    <3>3. CASE pc[r] = "body" /\ pc' = [pc EXCEPT ![r] = "acquire"]
      BY <1>t, <3>1, <3>3, FlightSteps
    <3>4. CASE pc[r] = "spawned" /\ pc' = [pc EXCEPT ![r] = "awaiting"]
      BY <1>t, <3>1, <3>4, FlightSteps
    <3>5. CASE pc[r] = "awaiting" /\ pc' = [pc EXCEPT ![r] = "sending"]
      BY <1>t, <3>1, <3>5, FlightSteps
    <3>6. QED
      BY <2>1, <3>2, <3>3, <3>4, <3>5
  <2>3. UNCHANGED <<reqPermits, convPermits, task>>
    BY <1>2 DEF Refuse, ReadBody, ArmTimeout, ConversionTimeout, Goto
  <2>4. QED
    BY <1>q, <2>2, <2>3
<1>3. ASSUME NEW r \in Requests,
             \/ Reject(r) \/ BodyTimeout(r) \/ ConversionBusy(r) \/ DeadlineAfterSpawn(r)
             \/ JoinTask(r) \/ Supervise(r) \/ Disconnect(r)
      PROVE  PermitAccounting'
  <2>1. PICK l \in {"replied", "gone"} : pc' = [pc EXCEPT ![r] = l]
    BY <1>3 DEF Reject, BodyTimeout, ConversionBusy, DeadlineAfterSpawn, JoinTask,
                Supervise, Disconnect, Respond
  <2>2. pc[r] \in Active /\ l \notin Active
    BY <1>3, <2>1 DEF Reject, BodyTimeout, ConversionBusy, DeadlineAfterSpawn, JoinTask,
                Supervise, Disconnect, Active, Awaits
  <2>3. reqPermits' = reqPermits + 1 /\ UNCHANGED <<convPermits, task>>
    BY <1>3 DEF Reject, BodyTimeout, ConversionBusy, DeadlineAfterSpawn, JoinTask,
                Supervise, Disconnect, Respond
  <2>4. Cardinality(InFlight') = Cardinality(InFlight) - 1
    BY <1>t, <2>1, <2>2, FlightSteps
  <2>5. QED
    BY <1>t, <1>q, <2>3, <2>4 DEF TypeOK
<1>4. ASSUME NEW r \in Requests, Spawn(r) PROVE PermitAccounting'
  <2>1. task[r] = "none"
    BY <1>4 DEF Spawn, UnspawnedHasNoTask
  <2>2. Cardinality(Converting') = Cardinality(Converting) + 1
    BY <1>4, <1>t, <2>1, ConvertingSteps DEF Spawn
  <2>3. InFlight' = InFlight
    BY <1>4, <1>t, FlightSteps DEF Spawn, Goto, Active, Awaits
  <2>4. QED
    BY <1>4, <1>t, <2>2, <2>3 DEF Spawn, Goto, TypeOK, ConversionPermitFree
<1>5. ASSUME NEW r \in Requests, StartTask(r) \/ CompleteTask(r) PROVE PermitAccounting'
  <2>1. CASE StartTask(r)
    <3>1. Converting' = Converting
      BY <2>1, <1>t, ConvertingSteps DEF StartTask
    <3>2. QED
      BY <2>1, <1>p, <3>1 DEF StartTask
  <2>2. CASE CompleteTask(r)
    <3>1. /\ task' = [task EXCEPT ![r] = "done"]
          /\ task[r] \notin {"queued", "running"} /\ "done" \notin {"queued", "running"}
      BY <2>2 DEF CompleteTask
    <3>2. Converting' = Converting
      BY <1>t, <3>1, ConvertingSteps
    <3>3. QED
      BY <2>2, <1>p, <3>2 DEF CompleteTask
  <2>3. QED
    BY <1>5, <2>1, <2>2
<1>6. ASSUME NEW r \in Requests, FinishTask(r) \/ AbortTask(r) PROVE PermitAccounting'
  <2>1. PICK l \in {"returned", "done"} : task' = [task EXCEPT ![r] = l]
    BY <1>6 DEF FinishTask, AbortTask
  <2>2. task[r] \in {"queued", "running"}
    BY <1>6 DEF FinishTask, AbortTask
  <2>3. Cardinality(Converting') = Cardinality(Converting) - 1
    BY <1>t, <2>1, <2>2, ConvertingSteps
  <2>4. QED
    BY <1>6, <1>t, <1>p, <2>3 DEF FinishTask, AbortTask, TypeOK
<1>7. ASSUME NEW r \in Requests, DeadlinePasses(r) \/ Connect(r) \/ Close(r)
      PROVE  PermitAccounting'
  BY <1>7, <1>p, <1>q DEF DeadlinePasses, Connect, Close
<1>8. CASE ReceiveTask \/ ReapTask \/ Shutdown \/ ServeReturns \/ SupervisorExits \/ Exit
  BY <1>8, <1>p, <1>q DEF ReceiveTask, ReapTask, Shutdown, ServeReturns, SupervisorExits, Exit
<1> HIDE DEF PermitInv, PermitAccounting, handlerVars, taskVars
<1>9. QED
  BY <1>1, <1>2, <1>3, <1>4, <1>5, <1>6, <1>7, <1>8, NextActions

LEMMA PermitStutter == ASSUME PermitInv, UNCHANGED vars PROVE PermitInv'
BY TypeStutter DEF PermitInv, PermitAccounting, UnspawnedHasNoTask, InFlight, Converting,
   vars, handlerVars, taskVars

\* The permit invariant holds throughout.
THEOREM PermitInvariant == Spec => []PermitInv
<1>1. Init => PermitInv
  BY TypeInit, PermitInit DEF PermitInv
<1>2. PermitInv /\ [Next]_vars => PermitInv'
  <2>1. PermitInv /\ Next => TypeOK'
    BY NextActions, TypeHandler, TypeOthers DEF PermitInv
  <2>2. QED
    BY <2>1, UnspawnedNext, PermitNext, PermitStutter DEF PermitInv
<1>3. QED
  BY <1>1, <1>2, PTL DEF Spec

\* No permit is leaked or returned twice, however many requests there are.
THEOREM PermitsAccounted == Spec => []PermitAccounting
<1>1. PermitInv => PermitAccounting
  BY DEF PermitInv
<1>2. QED
  BY <1>1, PermitInvariant, PTL

-----------------------------------------------------------------------------
(* Busy after admission.                                                   *)

\* Only a request whose handler has returned has a reply.
ReplyOnlyOnReturn == \A r \in Requests : pc[r] # "replied" => reply[r] = "none"

LEMMA ReplyNext ==
  ASSUME TypeOK, ReplyOnlyOnReturn, Next
  PROVE  ReplyOnlyOnReturn'
<1> USE DEF TypeOK, ReplyOnlyOnReturn, handlerVars, Respond, Goto, Awaits
<1>1. ASSUME NEW r \in Requests,
             \/ Admit(r) \/ Refuse(r) \/ Reject(r) \/ ReadBody(r) \/ BodyTimeout(r)
             \/ ConversionBusy(r) \/ Spawn(r) \/ DeadlineAfterSpawn(r) \/ ArmTimeout(r)
             \/ JoinTask(r) \/ ConversionTimeout(r) \/ Supervise(r)
             \/ DeadlinePasses(r) \/ Disconnect(r) \/ Connect(r) \/ Close(r)
      PROVE  ReplyOnlyOnReturn'
  BY <1>1 DEF Admit, Refuse, Reject, ReadBody, BodyTimeout, ConversionBusy, Spawn,
              DeadlineAfterSpawn, ArmTimeout, JoinTask, ConversionTimeout, Supervise,
              DeadlinePasses, Disconnect, Connect, Close, Arrives
<1>2. CASE \/ \E r \in Requests :
                StartTask(r) \/ FinishTask(r) \/ CompleteTask(r) \/ AbortTask(r)
           \/ ReceiveTask \/ ReapTask \/ Shutdown \/ ServeReturns \/ SupervisorExits \/ Exit
  BY <1>2 DEF StartTask, FinishTask, CompleteTask, AbortTask,
              ReceiveTask, ReapTask, Shutdown, ServeReturns, SupervisorExits, Exit
<1>3. QED
  BY <1>1, <1>2, NextActions

LEMMA ReplyInvariant == Spec => []ReplyOnlyOnReturn
<1>1. Init => ReplyOnlyOnReturn
  BY DEF Init, ReplyOnlyOnReturn
<1>2. TypeOK /\ ReplyOnlyOnReturn /\ [Next]_vars => ReplyOnlyOnReturn'
  BY ReplyNext DEF ReplyOnlyOnReturn, vars, handlerVars
<1>3. QED
  BY <1>1, <1>2, TypeCorrect, PTL DEF Spec

\* Only ConversionBusy answers Busy from the point where a permit is acquired.
LEMMA BusyFromAcquire ==
  ASSUME TypeOK, ReplyOnlyOnReturn, Next, NEW r \in Requests,
         pc[r] = "acquire", reply'[r] = "Busy"
  PROVE  convPermits = 0
<1> USE DEF TypeOK, ReplyOnlyOnReturn, handlerVars, Respond, Goto
<1>1. ASSUME NEW s \in Requests,
             \/ Admit(s) \/ Refuse(s) \/ Reject(s) \/ ReadBody(s) \/ BodyTimeout(s)
             \/ ConversionBusy(s) \/ Spawn(s) \/ DeadlineAfterSpawn(s) \/ ArmTimeout(s)
             \/ JoinTask(s) \/ ConversionTimeout(s) \/ Supervise(s)
             \/ DeadlinePasses(s) \/ Disconnect(s) \/ Connect(s) \/ Close(s)
      PROVE  convPermits = 0
  BY <1>1 DEF Admit, Refuse, Reject, ReadBody, BodyTimeout, ConversionBusy, Spawn,
              DeadlineAfterSpawn, ArmTimeout, JoinTask, ConversionTimeout, Supervise,
              DeadlinePasses, Disconnect, Connect, Close, Arrives
<1>2. CASE \/ \E s \in Requests :
                StartTask(s) \/ FinishTask(s) \/ CompleteTask(s) \/ AbortTask(s)
           \/ ReceiveTask \/ ReapTask \/ Shutdown \/ ServeReturns \/ SupervisorExits \/ Exit
  BY <1>2 DEF StartTask, FinishTask, CompleteTask, AbortTask,
              ReceiveTask, ReapTask, Shutdown, ServeReturns, SupervisorExits, Exit
<1>3. QED
  BY <1>1, <1>2, NextActions

\* A full house of conversions that excludes one request in flight includes
\* one that is not in flight: the two semaphores have the same size.
LEMMA OrphanBehindFullHouse ==
  ASSUME PermitInv, convPermits = 0, NEW r \in Requests, pc[r] = "acquire"
  PROVE  \E s \in Converting : s \notin InFlight
<1> SUFFICES ASSUME Converting \subseteq InFlight PROVE FALSE
  OBVIOUS
<1>1. r \in InFlight /\ r \notin Converting
  BY DEF InFlight, Converting, Active, PermitInv, UnspawnedHasNoTask
<1>2. Converting \in SUBSET (InFlight \ {r})
  BY <1>1
<1>3. Cardinality(Converting) <= Cardinality(InFlight) - 1
  <2>1. IsFiniteSet(InFlight \ {r}) /\ Cardinality(InFlight \ {r}) = Cardinality(InFlight) - 1
    BY <1>1, FlightFinite, FS_RemoveElement
  <2>2. Cardinality(Converting) <= Cardinality(InFlight \ {r})
    BY <1>2, <2>1, FS_Subset
  <2>3. QED
    BY <2>1, <2>2
<1>4. QED
  BY <1>3, FlightSizes, MaxConcurrentAssumption DEF PermitInv, PermitAccounting, TypeOK

\* An admitted request is refused for lack of conversion capacity only while
\* some conversion outlives its own request.
THEOREM BusyImpliesOrphan == Spec => BusyOnlyBehindOrphan
<1>1. PermitInv /\ ReplyOnlyOnReturn /\ [Next]_vars =>
        [\A r \in Requests :
           (pc[r] = "acquire" /\ reply'[r] = "Busy")
             => \E s \in Converting : s \notin InFlight]_vars
  BY BusyFromAcquire, OrphanBehindFullHouse DEF PermitInv
<1>2. QED
  BY <1>1, PermitInvariant, ReplyInvariant, PTL DEF Spec, BusyOnlyBehindOrphan

-----------------------------------------------------------------------------
(* Timed-out work stays with the supervisor.                               *)

LEMMA QueuedAppend ==
  ASSUME NEW q \in Seq(Requests), NEW r \in Requests
  PROVE  /\ QueuedIn(Append(q, r)) = QueuedIn(q) \cup {r}
         /\ Len(Append(q, r)) = Len(q) + 1
         /\ \A i \in 1 .. Len(q) : Append(q, r)[i] = q[i]
         /\ Append(q, r)[Len(q) + 1] = r
<1>1. /\ Len(Append(q, r)) = Len(q) + 1 /\ Len(q) \in Nat
      /\ \A i \in 1 .. Len(q) : Append(q, r)[i] = q[i]
      /\ Append(q, r)[Len(q) + 1] = r
  OBVIOUS
<1>2. QED
  BY <1>1 DEF QueuedIn

LEMMA QueuedTail ==
  ASSUME NEW q \in Seq(Requests), q # <<>>
  PROVE  /\ QueuedIn(q) = QueuedIn(Tail(q)) \cup {Head(q)}
         /\ Len(Tail(q)) = Len(q) - 1 /\ Len(q) \in Nat \ {0} /\ Head(q) = q[1]
         /\ \A i \in 1 .. Len(q) - 1 : Tail(q)[i] = q[i + 1]
<1>1. /\ Len(Tail(q)) = Len(q) - 1 /\ Len(q) \in Nat \ {0} /\ Head(q) = q[1]
      /\ \A i \in 1 .. Len(q) - 1 : Tail(q)[i] = q[i + 1]
  OBVIOUS
<1>2. QueuedIn(Tail(q)) \cup {Head(q)} \subseteq QueuedIn(q)
  BY <1>1 DEF QueuedIn
<1>3. ASSUME NEW i \in 1 .. Len(q), i # 1 PROVE q[i] \in QueuedIn(Tail(q))
  <2>1. i - 1 \in 1 .. Len(Tail(q)) /\ Tail(q)[i - 1] = q[i]
    BY <1>1, <1>3
  <2>2. QED
    BY <2>1 DEF QueuedIn
<1>4. QueuedIn(q) \subseteq QueuedIn(Tail(q)) \cup {Head(q)}
  <2> SUFFICES ASSUME NEW i \in 1 .. Len(q)
               PROVE  q[i] \in QueuedIn(Tail(q)) \cup {Head(q)}
    BY DEF QueuedIn
  <2>1. QED
    BY <1>1, <1>3
<1>5. QED
  BY <1>1, <1>2, <1>4

\* A flag is set only by a handler that then owns its task until it has sent
\* it to the supervisor: what makes TimedOutWorkRetained inductive.
CancelledBySender ==
  \A r \in Requests : /\ cancelled[r] => pc[r] \in {"sending", "replied", "gone"}
                      /\ pc[r] = "sending" => cancelled[r]

RetentionInv == TypeOK /\ CancelledBySender /\ TimedOutWorkRetained

LEMMA RetentionInit == Init => CancelledBySender /\ TimedOutWorkRetained
BY DEF Init, CancelledBySender, TimedOutWorkRetained, QueuedIn

LEMMA CancelledNext ==
  ASSUME TypeOK, CancelledBySender, Next
  PROVE  CancelledBySender'
<1> USE DEF TypeOK, CancelledBySender, handlerVars, taskVars, Respond, Goto, Awaits
<1>1. ASSUME NEW r \in Requests,
             \/ Admit(r) \/ Refuse(r) \/ Reject(r) \/ ReadBody(r) \/ BodyTimeout(r)
             \/ ConversionBusy(r) \/ Spawn(r) \/ DeadlineAfterSpawn(r) \/ ArmTimeout(r)
             \/ JoinTask(r) \/ ConversionTimeout(r) \/ Supervise(r)
             \/ DeadlinePasses(r) \/ Disconnect(r) \/ Connect(r) \/ Close(r)
      PROVE  CancelledBySender'
  BY <1>1 DEF Admit, Refuse, Reject, ReadBody, BodyTimeout, ConversionBusy, Spawn,
              DeadlineAfterSpawn, ArmTimeout, JoinTask, ConversionTimeout, Supervise,
              DeadlinePasses, Disconnect, Connect, Close, Arrives
<1>2. CASE \/ \E r \in Requests :
                StartTask(r) \/ FinishTask(r) \/ CompleteTask(r) \/ AbortTask(r)
           \/ ReceiveTask \/ ReapTask \/ Shutdown \/ ServeReturns \/ SupervisorExits \/ Exit
  BY <1>2 DEF StartTask, FinishTask, CompleteTask, AbortTask,
              ReceiveTask, ReapTask, Shutdown, ServeReturns, SupervisorExits, Exit
<1>3. QED
  BY <1>1, <1>2, NextActions

LEMMA RetentionNext ==
  ASSUME RetentionInv, Next
  PROVE  TimedOutWorkRetained'
<1> USE DEF RetentionInv, handlerVars, taskVars, reaperVars
<1>t. TypeOK
  OBVIOUS
<1>1. ASSUME NEW r \in Requests,
             \/ Admit(r) \/ Refuse(r) \/ Reject(r) \/ ReadBody(r) \/ BodyTimeout(r)
             \/ ConversionBusy(r) \/ Spawn(r) \/ DeadlineAfterSpawn(r) \/ ArmTimeout(r)
             \/ JoinTask(r) \/ DeadlinePasses(r) \/ Disconnect(r)
             \/ Connect(r) \/ Close(r)
      PROVE  TimedOutWorkRetained'
  <2>1. /\ UNCHANGED <<cancelled, queue, reaping>>
        /\ pc[r] \notin {"sending", "replied"} \/ UNCHANGED pc \/ pc' = [pc EXCEPT ![r] = "gone"]
        /\ pc[r] # "replied" \/ UNCHANGED pc
        /\ \A s \in Requests : s # r => pc'[s] = pc[s]
        /\ \A s \in Requests : s # r => task'[s] = task[s]
        /\ UNCHANGED task \/ pc'[r] = "spawned"
    BY <1>1, <1>t DEF Admit, Refuse, Reject, ReadBody, BodyTimeout, ConversionBusy, Spawn,
              DeadlineAfterSpawn, ArmTimeout, JoinTask, DeadlinePasses, Disconnect,
              Connect, Close, Arrives, Respond, Goto, Awaits, Active, TypeOK
  <2>2. QueuedIn(queue') = QueuedIn(queue)
    BY <2>1
  <2>3. ASSUME cancelled[r], pc[r] # "replied", pc'[r] = "replied" PROVE FALSE
    BY <1>1, <1>t, <2>1, <2>3 DEF CancelledBySender, Admit, Refuse, Reject, ReadBody,
              BodyTimeout, ConversionBusy, Spawn, DeadlineAfterSpawn, ArmTimeout, JoinTask,
              DeadlinePasses, Disconnect, Connect, Close, Arrives, TypeOK
  <2>4. \A s \in Requests : cancelled'[s] /\ pc'[s] = "replied" /\ task'[s] # "done"
                            => \/ r # s /\ pc[s] = "replied" /\ task[s] # "done"
                               \/ UNCHANGED <<pc, task>>
    BY <2>1, <2>3
  <2>5. \A s \in Requests : pc[s] = "replied" => pc'[s] = "replied"
    BY <2>1
  <2>6. QueuedIn(queue) \subseteq Requests
    BY <1>t DEF TypeOK, QueuedIn
  <2>7. QED
    BY <1>t, <2>1, <2>2, <2>4, <2>5, <2>6 DEF TimedOutWorkRetained, TypeOK
<1>2. ASSUME NEW r \in Requests, ConversionTimeout(r) PROVE TimedOutWorkRetained'
  BY <1>2, <1>t DEF ConversionTimeout, Goto, TimedOutWorkRetained, TypeOK, QueuedIn
<1>3. ASSUME NEW r \in Requests, Supervise(r) PROVE TimedOutWorkRetained'
  <2>1. /\ QueuedIn(queue') = QueuedIn(queue) \cup {r}
        /\ Len(queue') = Len(queue) + 1 /\ Len(queue) \in Nat
        /\ \A i \in 1 .. Len(queue) : queue'[i] = queue[i]
        /\ queue'[Len(queue) + 1] = r
    BY <1>3, <1>t, QueuedAppend DEF Supervise, TypeOK
  <2>2. r \notin QueuedIn(queue) /\ r # reaping /\ cancelled[r]
    BY <1>3, <1>t, RequestsAssumption DEF Supervise, TimedOutWorkRetained, CancelledBySender, TypeOK
  <2>3. \A i, j \in 1 .. Len(queue') : queue'[i] = queue'[j] => i = j
    <3>1. \A i \in 1 .. Len(queue) : queue[i] # r
      BY <2>2 DEF QueuedIn
    <3>2. QED
      BY <2>1, <3>1 DEF TimedOutWorkRetained
  <2>4. QED
    BY <1>3, <1>t, <2>1, <2>2, <2>3 DEF Supervise, Respond, TimedOutWorkRetained, TypeOK
<1>4. ASSUME NEW r \in Requests,
             StartTask(r) \/ FinishTask(r) \/ CompleteTask(r) \/ AbortTask(r)
      PROVE  TimedOutWorkRetained'
  <2>1. /\ UNCHANGED <<cancelled, pc, queue, reaping>>
        /\ \A s \in Requests : task[s] = "done" => task'[s] = "done"
    BY <1>4, <1>t DEF StartTask, FinishTask, CompleteTask, AbortTask, TypeOK
  <2>2. QED
    BY <2>1 DEF TimedOutWorkRetained, QueuedIn
<1>5. CASE ReceiveTask
  <2>1. /\ QueuedIn(queue) = QueuedIn(queue') \cup {reaping'}
        /\ Len(queue') = Len(queue) - 1 /\ Len(queue) \in Nat \ {0} /\ reaping' = queue[1]
        /\ \A i \in 1 .. Len(queue) - 1 : queue'[i] = queue[i + 1]
        /\ UNCHANGED <<pc, cancelled, task>> /\ reaping = NoRequest
    BY <1>5, <1>t, QueuedTail DEF ReceiveTask, TypeOK
  <2>2. \A i, j \in 1 .. Len(queue') : queue'[i] = queue'[j] => i = j
    BY <2>1 DEF TimedOutWorkRetained
  <2>3. reaping' \notin QueuedIn(queue')
    <3>1. \A i \in 1 .. Len(queue') : queue'[i] # reaping'
      BY <2>1 DEF TimedOutWorkRetained
    <3>2. QED
      BY <3>1 DEF QueuedIn
  <2>4. QED
    BY <2>1, <2>2, <2>3, <1>t, RequestsAssumption DEF TimedOutWorkRetained, TypeOK
<1>6. CASE ReapTask
  <2>1. NoRequest \notin QueuedIn(queue)
    BY <1>t, RequestsAssumption DEF TypeOK, QueuedIn
  <2>2. QED
    BY <1>6, <2>1 DEF ReapTask, TimedOutWorkRetained, QueuedIn
<1>7. CASE Shutdown \/ ServeReturns \/ SupervisorExits \/ Exit
  BY <1>7 DEF Shutdown, ServeReturns, SupervisorExits, Exit, TimedOutWorkRetained, QueuedIn
<1> HIDE DEF RetentionInv, handlerVars, taskVars, reaperVars
<1>8. QED
  BY <1>1, <1>2, <1>3, <1>4, <1>5, <1>6, <1>7, NextActions

\* A cancelled, answered task stays with the supervisor until it is done.
THEOREM TimedOutRetention == Spec => []TimedOutWorkRetained
<1>1. Init => RetentionInv
  BY TypeInit, RetentionInit DEF RetentionInv
<1>2. RetentionInv /\ [Next]_vars => RetentionInv'
  <2>1. RetentionInv /\ Next => TypeOK'
    BY NextActions, TypeHandler, TypeOthers DEF RetentionInv
  <2>2. RetentionInv /\ UNCHANGED vars => RetentionInv'
    BY TypeStutter DEF RetentionInv, CancelledBySender, TimedOutWorkRetained, QueuedIn,
       vars, handlerVars, taskVars, reaperVars
  <2>3. QED
    BY <2>1, <2>2, CancelledNext, RetentionNext DEF RetentionInv
<1>3. RetentionInv => TimedOutWorkRetained
  BY DEF RetentionInv
<1>4. QED
  BY <1>1, <1>2, <1>3, PTL DEF Spec

-----------------------------------------------------------------------------
(* The shutdown.                                                           *)

\* A handler runs on an open connection, so that none is left once axum::serve
\* has returned; and once the supervisor has left its loop it holds nothing.
DrainedInOrder ==
  /\ \A r \in Requests : pc[r] \in Active => r \in connections
  /\ phase \in {"supervising", "closing", "exited"} => connections = {}
  /\ phase \in {"closing", "exited"} => queue = <<>> /\ reaping = NoRequest

LEMMA DrainedNext ==
  ASSUME TypeOK, DrainedInOrder, Next
  PROVE  DrainedInOrder'
<1> USE DEF TypeOK, DrainedInOrder, handlerVars, taskVars, reaperVars, Respond, Goto, Active, Awaits
<1>1. ASSUME NEW r \in Requests,
             \/ Admit(r) \/ Refuse(r) \/ Reject(r) \/ ReadBody(r) \/ BodyTimeout(r)
             \/ ConversionBusy(r) \/ Spawn(r) \/ DeadlineAfterSpawn(r) \/ ArmTimeout(r)
             \/ JoinTask(r) \/ ConversionTimeout(r) \/ Supervise(r)
             \/ DeadlinePasses(r) \/ Disconnect(r) \/ Connect(r) \/ Close(r)
      PROVE  /\ phase \notin {"supervising", "closing", "exited"} /\ phase' = phase
             /\ \A s \in Requests : pc'[s] \in Active => s \in connections'
  BY <1>1 DEF Admit, Refuse, Reject, ReadBody, BodyTimeout, ConversionBusy, Spawn,
              DeadlineAfterSpawn, ArmTimeout, JoinTask, ConversionTimeout, Supervise,
              DeadlinePasses, Disconnect, Connect, Close, Arrives
<1>2. CASE \E r \in Requests : StartTask(r) \/ FinishTask(r) \/ CompleteTask(r) \/ AbortTask(r)
  BY <1>2 DEF StartTask, FinishTask, CompleteTask, AbortTask
<1>3. CASE ReceiveTask \/ ReapTask
  BY <1>3 DEF ReceiveTask, ReapTask
<1>4. CASE Shutdown
  BY <1>4 DEF Shutdown
<1>5. CASE ServeReturns
  BY <1>5 DEF ServeReturns
<1>6. CASE SupervisorExits \/ Exit
  BY <1>6 DEF SupervisorExits, Exit
<1>7. QED
  BY <1>1, <1>2, <1>3, <1>4, <1>5, <1>6, NextActions

\* Spec keeps what the retention of timed-out work rests on.
LEMMA RetentionInvariant == Spec => [](TypeOK /\ TimedOutWorkRetained /\ ReplyOnlyOnReturn)
BY TypeCorrect, TimedOutRetention, ReplyInvariant, PTL

\* When main returns, every task that was given to the supervisor is done.
THEOREM ShutdownDrains == Spec => []SupervisedDrainedBeforeExit
<1>1. Init => DrainedInOrder
  BY DEF Init, DrainedInOrder, Active, Awaits
<1>2. TypeOK /\ DrainedInOrder /\ [Next]_vars => DrainedInOrder'
  <2>1. DrainedInOrder /\ UNCHANGED vars => DrainedInOrder'
    BY DEF DrainedInOrder, vars, handlerVars, taskVars, reaperVars
  <2>2. QED
    BY <2>1, DrainedNext
<1>3. TypeOK /\ TimedOutWorkRetained /\ ReplyOnlyOnReturn /\ DrainedInOrder
        => SupervisedDrainedBeforeExit
  <2> SUFFICES ASSUME TypeOK, TimedOutWorkRetained, ReplyOnlyOnReturn, DrainedInOrder,
                      phase \in {"closing", "exited"},
                      NEW r \in Requests, cancelled[r], reply[r] = "Timeout"
               PROVE  task[r] = "done"
    BY DEF SupervisedDrainedBeforeExit
  <2>1. pc[r] = "replied"
    BY DEF ReplyOnlyOnReturn
  <2>2. queue = <<>> /\ reaping = NoRequest
    BY DEF DrainedInOrder
  <2>3. QueuedIn(queue) = {}
    BY <2>2 DEF QueuedIn
  <2>4. QED
    BY <2>1, <2>2, <2>3, RequestsAssumption DEF TimedOutWorkRetained
<1>4. QED
  BY <1>1, <1>2, <1>3, RetentionInvariant, PTL DEF Spec

-----------------------------------------------------------------------------
(* The refinement.  A step of a handler moves the stage of one request, a  *)
(* step of its task the work of one, and every other step moves neither.   *)

stageBar == [r \in Requests |-> Stage(r)]
workBar  == [r \in Requests |-> Work(r)]

StageOf(label) == CASE label = "new" -> "new"
                    [] label \in Active -> "admitted"
                    [] label = "replied" -> "answered"
                    [] OTHER -> "gone"
WorkOf(label) == CASE label = "none" -> "unstarted"
                   [] label \in {"queued", "running"} -> "converting"
                   [] OTHER -> "finished"

LEMMA StageValues ==
  /\ StageOf("new") = "new" /\ StageOf("replied") = "answered" /\ StageOf("gone") = "gone"
  /\ \A label \in Active : StageOf(label) = "admitted"
  /\ \A label : StageOf(label) = "admitted" => label \in Active
BY DEF StageOf, Active, Awaits

LEMMA WorkValues ==
  /\ WorkOf("none") = "unstarted" /\ WorkOf("queued") = "converting"
  /\ WorkOf("running") = "converting"
  /\ WorkOf("returned") = "finished" /\ WorkOf("done") = "finished"
  /\ \A label : WorkOf(label) = "converting" => label \in {"queued", "running"}
BY DEF WorkOf

LEMMA BarValues ==
  /\ \A r \in Requests : stageBar[r] = StageOf(pc[r]) /\ workBar[r] = WorkOf(task[r])
  /\ Service!Admitted = InFlight /\ Service!Converting = Converting
<1>1. \A r \in Requests : stageBar[r] = StageOf(pc[r]) /\ workBar[r] = WorkOf(task[r])
  BY DEF stageBar, workBar, Stage, Work, StageOf, WorkOf
<1>2. Service!Admitted = InFlight
  <2>1. Service!Admitted = {r \in Requests : stageBar[r] = "admitted"}
    BY DEF Service!Admitted, stageBar
  <2>2. QED
    BY <1>1, <2>1, StageValues DEF InFlight
<1>3. Service!Converting = Converting
  <2>1. Service!Converting = {r \in Requests : workBar[r] = "converting"}
    BY DEF Service!Converting, workBar
  <2>2. QED
    BY <1>1, <2>1, WorkValues DEF Converting
<1>4. QED
  BY <1>1, <1>2, <1>3

\* The service counts as the server does.
LEMMA SameCount == \A S : Service!Cardinality(S) = Cardinality(S)
BY DEF Service!Cardinality, Cardinality

LEMMA StageMoves ==
  ASSUME TypeOK, NEW r \in Requests, NEW label, pc' = [pc EXCEPT ![r] = label]
  PROVE  /\ stageBar' = [stageBar EXCEPT ![r] = StageOf(label)]
         /\ StageOf(label) = StageOf(pc[r]) => stageBar' = stageBar
<1>1. \A s \in Requests : pc'[s] = IF s = r THEN label ELSE pc[s]
  BY DEF TypeOK
<1>2. stageBar' = [s \in Requests |-> StageOf(pc'[s])]
  BY DEF stageBar, Stage, StageOf
<1>3. stageBar = [s \in Requests |-> StageOf(pc[s])]
  BY DEF stageBar, Stage, StageOf
<1>4. QED
  BY <1>1, <1>2, <1>3

LEMMA WorkMoves ==
  ASSUME TypeOK, NEW r \in Requests, NEW label, task' = [task EXCEPT ![r] = label]
  PROVE  /\ workBar' = [workBar EXCEPT ![r] = WorkOf(label)]
         /\ WorkOf(label) = WorkOf(task[r]) => workBar' = workBar
<1>1. \A s \in Requests : task'[s] = IF s = r THEN label ELSE task[s]
  BY DEF TypeOK
<1>2. workBar' = [s \in Requests |-> WorkOf(task'[s])]
  BY DEF workBar, Work, WorkOf
<1>3. workBar = [s \in Requests |-> WorkOf(task[s])]
  BY DEF workBar, Work, WorkOf
<1>4. QED
  BY <1>1, <1>2, <1>3

LEMMA BarsStay ==
  /\ pc' = pc => stageBar' = stageBar
  /\ task' = task => workBar' = workBar
BY DEF stageBar, workBar, Stage, Work

\* A step of the server is a step of the service, or none.
Simulated == Service!Next \/ UNCHANGED <<stageBar, reply, workBar>>

\* An answer of the server is one of the service.
LEMMA AnswerStep ==
  ASSUME TypeOK, NEW r \in Requests, NEW code \in Replies, pc[r] \in Active,
         Respond(r, code), UNCHANGED task, Service!Justified(r, code)
  PROVE  Simulated
<1>1. stageBar[r] = "admitted"
  BY BarValues, StageValues
<1>2. stageBar' = [stageBar EXCEPT ![r] = "answered"] /\ workBar' = workBar
  <2>1. pc' = [pc EXCEPT ![r] = "replied"]
    BY DEF Respond
  <2>2. StageOf("replied") = "answered"
    BY StageValues
  <2>3. stageBar' = [stageBar EXCEPT ![r] = "answered"]
    BY <2>1, <2>2, StageMoves
  <2>4. QED
    BY <2>3, BarsStay
<1>3. reply' = [reply EXCEPT ![r] = code]
  BY DEF Respond
<1>4. Service!Answer(r, code)
  BY <1>1, <1>2, <1>3 DEF Service!Answer, stageBar, workBar
<1>5. code \in Service!Answers
  BY DEF Service!Answers, Replies
<1>6. QED
  BY <1>4, <1>5 DEF Simulated, Service!Next

\* Steps of a request's handler.
LEMMA HandlerSimulated ==
  ASSUME PermitInv, NEW r \in Requests,
         \/ Admit(r) \/ Refuse(r) \/ Reject(r) \/ ReadBody(r) \/ BodyTimeout(r)
         \/ ConversionBusy(r) \/ Spawn(r) \/ DeadlineAfterSpawn(r) \/ ArmTimeout(r)
         \/ JoinTask(r) \/ ConversionTimeout(r) \/ Supervise(r)
         \/ DeadlinePasses(r) \/ Disconnect(r) \/ Connect(r) \/ Close(r)
  PROVE  Simulated
<1>t. TypeOK
  BY DEF PermitInv
<1>a. {"body", "acquire", "spawned", "awaiting", "sending"} \subseteq Active
  BY DEF Active, Awaits
<1>w. task[r] = "none" => workBar[r] = "unstarted"
  BY BarValues, WorkValues
<1>1. CASE Admit(r)
  <2>1. stageBar[r] = "new"
    BY <1>1, BarValues, StageValues DEF Admit, Arrives
  <2>2. Service!Cardinality(Service!Admitted) < MaxConcurrent
    BY <1>1, BarValues, SameCount, FlightSizes, MaxConcurrentAssumption
    DEF Admit, PermitInv, PermitAccounting, TypeOK
  <2>3. stageBar' = [stageBar EXCEPT ![r] = "admitted"]
    <3>1. pc' = [pc EXCEPT ![r] = "body"] /\ StageOf("body") = "admitted"
      BY <1>1, <1>a, StageValues DEF Admit
    <3>2. QED
      BY <1>t, <3>1, StageMoves
  <2>4. reply' = reply /\ workBar' = workBar
    BY <1>1, BarsStay DEF Admit, taskVars
  <2>5. Service!Admit(r)
    BY <2>1, <2>2, <2>3, <2>4 DEF Service!Admit, stageBar, workBar
  <2>6. QED
    BY <2>5 DEF Simulated, Service!Next
<1>2. CASE Refuse(r)
  <2>1. stageBar[r] = "new"
    BY <1>2, BarValues, StageValues DEF Refuse, Arrives
  <2>2. Service!Cardinality(Service!Admitted) >= MaxConcurrent
    BY <1>2, BarValues, SameCount, FlightSizes, MaxConcurrentAssumption
    DEF Refuse, PermitInv, PermitAccounting, TypeOK
  <2>3. stageBar' = [stageBar EXCEPT ![r] = "answered"]
    <3>1. pc' = [pc EXCEPT ![r] = "replied"]
      BY <1>2 DEF Refuse
    <3>2. StageOf("replied") = "answered"
      BY StageValues
    <3>3. QED
      BY <1>t, <3>1, <3>2, StageMoves
  <2>4. reply' = [reply EXCEPT ![r] = "Busy"] /\ workBar' = workBar
    BY <1>2, BarsStay DEF Refuse, taskVars
  <2>5. Service!Refuse(r)
    BY <2>1, <2>2, <2>3, <2>4 DEF Service!Refuse, stageBar, workBar
  <2>6. QED
    BY <2>5 DEF Simulated, Service!Next
<1>3. CASE Reject(r)
  <2>1. pc[r] = "body" /\ task' = task
    BY <1>3 DEF Reject, taskVars
  <2>2. PICK code \in Rejections : Respond(r, code)
    BY <1>3 DEF Reject
  <2>3. code \in {"TooLarge", "BadQuery"} /\ code \in Replies
    BY RejectionsAssumption DEF Replies
  <2>4. workBar[r] = "unstarted"
    BY <1>w, <2>1 DEF PermitInv, UnspawnedHasNoTask
  <2>5. Service!Justified(r, code)
    BY <2>3, <2>4 DEF Service!Justified, workBar
  <2>6. QED
    BY <1>t, <1>a, <2>1, <2>2, <2>3, <2>5, AnswerStep
<1>4. CASE BodyTimeout(r) \/ DeadlineAfterSpawn(r) \/ Supervise(r)
  <2>1. pc[r] \in Active /\ Respond(r, "Timeout") /\ task' = task
    BY <1>4, <1>a DEF BodyTimeout, DeadlineAfterSpawn, Supervise, taskVars
  <2>2. "Timeout" \in Replies /\ Service!Justified(r, "Timeout")
    BY DEF Replies, Service!Justified
  <2>3. QED
    BY <1>t, <2>1, <2>2, AnswerStep
<1>5. CASE ConversionBusy(r)
  <2>1. pc[r] \in Active /\ Respond(r, "Busy") /\ task' = task
    BY <1>5, <1>a DEF ConversionBusy, taskVars
  <2>2. workBar[r] = "unstarted"
    BY <1>5, <1>w DEF ConversionBusy, PermitInv, UnspawnedHasNoTask
  <2>3. Service!Cardinality(Service!Converting) >= MaxConcurrent
    BY <1>5, BarValues, SameCount, FlightSizes, MaxConcurrentAssumption
    DEF ConversionBusy, PermitInv, PermitAccounting, TypeOK
  <2>4. "Busy" \in Replies /\ Service!Justified(r, "Busy")
    BY <2>2, <2>3 DEF Replies, Service!Justified, workBar
  <2>5. QED
    BY <1>t, <2>1, <2>4, AnswerStep
<1>6. CASE Spawn(r)
  <2>1. stageBar[r] = "admitted" /\ workBar[r] = "unstarted"
    BY <1>6, <1>a, <1>w, BarValues, StageValues DEF Spawn, PermitInv, UnspawnedHasNoTask
  <2>2. Service!Cardinality(Service!Converting) < MaxConcurrent
    BY <1>6, BarValues, SameCount, FlightSizes, MaxConcurrentAssumption
    DEF Spawn, ConversionPermitFree, PermitInv, PermitAccounting, TypeOK
  <2>3. workBar' = [workBar EXCEPT ![r] = "converting"]
    <3>1. task' = [task EXCEPT ![r] = "queued"]
      BY <1>6 DEF Spawn
    <3>2. WorkOf("queued") = "converting"
      BY WorkValues
    <3>3. QED
      BY <1>t, <3>1, <3>2, WorkMoves
  <2>4. reply' = reply /\ stageBar' = stageBar
    <3>1. pc' = [pc EXCEPT ![r] = "spawned"] /\ StageOf("spawned") = StageOf(pc[r])
      BY <1>6, <1>a, StageValues DEF Spawn, Goto
    <3>2. QED
      BY <1>6, <1>t, <3>1, StageMoves DEF Spawn, Goto
  <2>5. Service!StartWork(r)
    BY <2>1, <2>2, <2>3, <2>4 DEF Service!StartWork, stageBar, workBar
  <2>6. QED
    BY <2>5 DEF Simulated, Service!Next
<1>7. CASE JoinTask(r)
  <2>1. pc[r] \in Active /\ Respond(r, TaskReply(outcome[r])) /\ task' = task
    BY <1>7, <1>a DEF JoinTask, taskVars
  <2>2. TaskReply(outcome[r]) \in {"Ok", "Timeout", "Invalid", "Internal"}
    BY DEF TaskReply
  <2>3. workBar[r] = "finished"
    BY <1>7, BarValues, WorkValues DEF JoinTask
  <2>4. Service!Justified(r, TaskReply(outcome[r]))
    BY <2>2, <2>3 DEF Service!Justified, workBar
  <2>5. TaskReply(outcome[r]) \in Replies
    BY <2>2 DEF Replies
  <2>6. QED
    BY <1>t, <2>1, <2>4, <2>5, AnswerStep
<1>8. CASE ReadBody(r) \/ ArmTimeout(r) \/ ConversionTimeout(r)
  <2>1. PICK label \in {"acquire", "awaiting", "sending"} : pc' = [pc EXCEPT ![r] = label]
    BY <1>8 DEF ReadBody, ArmTimeout, ConversionTimeout, Goto
  <2>2. pc[r] \in Active /\ UNCHANGED <<task, reply>>
    BY <1>8, <1>a DEF ReadBody, ArmTimeout, ConversionTimeout, Goto, taskVars
  <2>3. StageOf(label) = StageOf(pc[r])
    BY <1>a, <2>2, StageValues
  <2>4. QED
    BY <1>t, <2>1, <2>2, <2>3, StageMoves, BarsStay DEF Simulated
<1>9. CASE DeadlinePasses(r) \/ Connect(r) \/ Close(r)
  BY <1>9, BarsStay DEF DeadlinePasses, Connect, Close, taskVars, Simulated
<1>10. CASE Disconnect(r)
  <2>1. stageBar[r] = "admitted"
    BY <1>10, BarValues, StageValues DEF Disconnect, Active
  <2>2. stageBar' = [stageBar EXCEPT ![r] = "gone"]
    <3>1. pc' = [pc EXCEPT ![r] = "gone"]
      BY <1>10 DEF Disconnect
    <3>2. StageOf("gone") = "gone"
      BY StageValues
    <3>3. QED
      BY <1>t, <3>1, <3>2, StageMoves
  <2>3. reply' = reply /\ workBar' = workBar
    BY <1>10, BarsStay DEF Disconnect, taskVars
  <2>4. Service!Abandon(r)
    BY <2>1, <2>2, <2>3 DEF Service!Abandon, stageBar, workBar
  <2>5. QED
    BY <2>4 DEF Simulated, Service!Next
<1>11. QED
  BY <1>1, <1>2, <1>3, <1>4, <1>5, <1>6, <1>7, <1>8, <1>9, <1>10

\* Steps of a task, of the supervisor and of the process.
LEMMA OthersSimulated ==
  ASSUME PermitInv,
         \/ \E r \in Requests : StartTask(r) \/ FinishTask(r) \/ CompleteTask(r) \/ AbortTask(r)
         \/ ReceiveTask \/ ReapTask \/ Shutdown \/ ServeReturns \/ SupervisorExits \/ Exit
  PROVE  Simulated
<1>t. TypeOK
  BY DEF PermitInv
<1>1. ASSUME NEW r \in Requests, StartTask(r) \/ CompleteTask(r) PROVE Simulated
  <2>1. PICK label \in {"running", "done"} : /\ task' = [task EXCEPT ![r] = label]
                                             /\ WorkOf(label) = WorkOf(task[r])
    BY <1>1, WorkValues DEF StartTask, CompleteTask
  <2>2. UNCHANGED <<pc, reply>>
    BY <1>1 DEF StartTask, CompleteTask, handlerVars
  <2>3. QED
    BY <1>t, <2>1, <2>2, WorkMoves, BarsStay DEF Simulated
<1>2. ASSUME NEW r \in Requests, FinishTask(r) \/ AbortTask(r) PROVE Simulated
  <2>1. PICK label \in {"returned", "done"} : task' = [task EXCEPT ![r] = label]
    BY <1>2 DEF FinishTask, AbortTask
  <2>2. workBar' = [workBar EXCEPT ![r] = "finished"]
    <3>1. WorkOf(label) = "finished"
      BY WorkValues
    <3>2. workBar' = [workBar EXCEPT ![r] = WorkOf(label)]
      BY <1>t, <2>1, WorkMoves
    <3>3. QED
      BY <3>1, <3>2
  <2>3. workBar[r] = "converting"
    BY <1>2, BarValues, WorkValues DEF FinishTask, AbortTask
  <2>4. reply' = reply /\ stageBar' = stageBar
    BY <1>2, BarsStay DEF FinishTask, AbortTask, handlerVars
  <2>5. Service!FinishWork(r)
    BY <2>2, <2>3, <2>4 DEF Service!FinishWork, stageBar, workBar
  <2>6. QED
    BY <2>5 DEF Simulated, Service!Next
<1>3. CASE ReceiveTask \/ ReapTask \/ Shutdown \/ ServeReturns \/ SupervisorExits \/ Exit
  BY <1>3, BarsStay DEF ReceiveTask, ReapTask, Shutdown, ServeReturns, SupervisorExits, Exit,
     handlerVars, taskVars, Simulated
<1>4. QED
  BY <1>1, <1>2, <1>3

\* The server implements the service, whatever the number of requests.
THEOREM ServerImplementsService == Spec => ImplementsService
<1>1. Init => Service!Init
  <2> SUFFICES ASSUME Init PROVE Service!Init
    OBVIOUS
  <2>1. \A r \in Requests : pc[r] = "new" /\ task[r] = "none"
    BY DEF Init
  <2>2. \A r \in Requests : Stage(r) = "new" /\ Work(r) = "unstarted"
    <3>1. \A r \in Requests : Stage(r) = StageOf(pc[r]) /\ Work(r) = WorkOf(task[r])
      BY DEF Stage, Work, StageOf, WorkOf
    <3>2. QED
      BY <2>1, <3>1, StageValues, WorkValues
  <2>3. reply = [r \in Requests |-> "none"]
    BY DEF Init
  <2>4. QED
    BY <2>2, <2>3 DEF Service!Init
<1>2. PermitInv /\ [Next]_vars => [Service!Next]_(Service!vars)
  <2> SUFFICES ASSUME PermitInv, [Next]_vars PROVE Service!Next \/ UNCHANGED Service!vars
    OBVIOUS
  <2>1. Simulated
    <3>1. CASE Next
      BY <3>1, NextActions, HandlerSimulated, OthersSimulated
    <3>2. CASE UNCHANGED vars
      BY <3>2, BarsStay DEF vars, handlerVars, taskVars, Simulated
    <3>3. QED
      BY <3>1, <3>2
  <2>2. QED
    BY <2>1 DEF Simulated, Service!vars, stageBar, workBar
<1>3. QED
  BY <1>1, <1>2, PermitInvariant, PTL DEF Spec, ImplementsService, Service!Spec
=============================================================================
