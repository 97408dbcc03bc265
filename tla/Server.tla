------------------------------- MODULE Server -------------------------------
(***************************************************************************)
(* The conversion server (apps/server/src/main.rs): the handler of every   *)
(* POST /v1/convert, the blocking conversion task it spawns, the bounded   *)
(* channel to the supervisor that reaps timed-out tasks, and the graceful  *)
(* shutdown of the process.                                                *)
(*                                                                         *)
(* A request r is one client request; task[r] is the blocking task its     *)
(* handler may spawn.  Steps that the code runs without an await between   *)
(* them are still separate actions when another thread, or the clock, can  *)
(* come in between; a handler can be dropped (its client disconnects) only *)
(* where it is suspended at an await.                                      *)
(*                                                                         *)
(* An operator whose name ends in a fault (Leaking, Unchecked, ...) is not *)
(* part of the specification: it is the faulty variant a property is       *)
(* measured against, and stands just before the definition it replaces.    *)
(***************************************************************************)
EXTENDS Naturals, Sequences, FiniteSets

CONSTANTS
  Requests,        \* the requests clients may send, each at most once
  MaxConcurrent,   \* ServerConfig.max_concurrent_conversions
  Failures,        \* the ways a conversion may fail by itself
  Rejections,      \* the ways a request may be rejected before its conversion
  NoRequest        \* the supervisor holds no task

ASSUME RequestsAssumption == IsFiniteSet(Requests) /\ NoRequest \notin Requests
ASSUME MaxConcurrentAssumption == MaxConcurrent \in Nat \ {0}
ASSUME FailuresAssumption == Failures \subseteq {"conversion", "serialization", "panic"}
ASSUME RejectionsAssumption == Rejections \subseteq {"TooLarge", "BadQuery"}

VARIABLES
  phase,        \* how far the process is in its life
  reqPermits,   \* free permits of AppState.request_semaphore
  convPermits,  \* free permits of AppState.semaphore
  connections,  \* the requests whose connection is open
  pc,           \* where each request's handler is
  expired,      \* the deadline of a request in flight has passed
  reply,        \* the response each request got, or "none"
  task,         \* the blocking task of each request
  outcome,      \* what the task's closure returned, or "none"
  cancelled,    \* the request's CancellationFlag
  queue,        \* the supervisor's mpsc channel
  reaping       \* the task the supervisor awaits

handlerVars == <<connections, reqPermits, pc, expired, reply>>
taskVars    == <<convPermits, task, outcome, cancelled>>
reaperVars  == <<queue, reaping>>
vars == <<phase, handlerVars, taskVars, reaperVars>>

Phases   == {"serving", "draining", "supervising", "closing", "exited"}
Awaits   == {"body", "awaiting", "sending"}
Active   == Awaits \cup {"acquire", "spawned"}
PCs      == Active \cup {"new", "replied", "gone"}
Replies  == {"Ok", "Busy", "Timeout", "TooLarge", "BadQuery", "Invalid", "Internal"}
Tasks    == {"none", "queued", "running", "returned", "done"}
Outcomes == {"ok", "cancelled", "conversion", "serialization", "panic", "aborted"}

InFlight   == {r \in Requests : pc[r] \in Active}
Converting == {r \in Requests : task[r] \in {"queued", "running"}}
QueuedIn(q) == {q[i] : i \in 1 .. Len(q)}

RequestSlotsDoubled == 2 * MaxConcurrent
RequestSlots == MaxConcurrent

Init ==
  /\ phase       = "serving"
  /\ reqPermits  = RequestSlots
  /\ convPermits = MaxConcurrent
  /\ connections = {}
  /\ pc        = [r \in Requests |-> "new"]
  /\ expired   = [r \in Requests |-> FALSE]
  /\ reply     = [r \in Requests |-> "none"]
  /\ task      = [r \in Requests |-> "none"]
  /\ outcome   = [r \in Requests |-> "none"]
  /\ cancelled = [r \in Requests |-> FALSE]
  /\ queue     = <<>>
  /\ reaping   = NoRequest

-----------------------------------------------------------------------------
(* The connections, which axum and hyper keep and the clients drive        *)

\* A client connects; the signal of a shutdown ends the accepting.
Connect(r) == /\ phase = "serving" /\ pc[r] = "new"
              /\ r \notin connections
              /\ connections' = connections \cup {r}
              /\ UNCHANGED <<phase, reqPermits, pc, expired, reply, taskVars, reaperVars>>

\* The client has taken its response, or leaves before the head of its request
\* is complete.
Close(r) == /\ r \in connections /\ pc[r] \in {"new", "replied"}
            /\ connections' = connections \ {r}
            /\ UNCHANGED <<phase, reqPermits, pc, expired, reply, taskVars, reaperVars>>

-----------------------------------------------------------------------------
(* The handler                                                             *)

Goto(r, label) == /\ pc' = [pc EXCEPT ![r] = label]
                  /\ UNCHANGED <<connections, reqPermits, expired, reply>>

\* The handler returns; admit_request drops the request permit, and the
\* deadline goes with the request.
Respond(r, code) == /\ pc' = [pc EXCEPT ![r] = "replied"]
                    /\ reply' = [reply EXCEPT ![r] = code]
                    /\ reqPermits' = reqPermits + 1
                    /\ expired' = [expired EXCEPT ![r] = FALSE]
                    /\ UNCHANGED connections

\* The head of a request is complete: that of an open connection is served
\* after the signal too.
Arrives(r) == r \in connections /\ pc[r] = "new" /\ phase \in {"serving", "draining"}

\* No request permit is free: the request is refused without a handler.
Refuse(r) == /\ Arrives(r)
             /\ reqPermits = 0
             /\ pc' = [pc EXCEPT ![r] = "replied"]
             /\ reply' = [reply EXCEPT ![r] = "Busy"]
             /\ UNCHANGED <<phase, connections, reqPermits, expired, taskVars, reaperVars>>

Admit(r) == /\ Arrives(r)
            /\ reqPermits > 0
            /\ reqPermits' = reqPermits - 1
            /\ pc' = [pc EXCEPT ![r] = "body"]
            /\ UNCHANGED <<phase, connections, expired, reply, taskVars, reaperVars>>

\* The clock passes the deadline that admit_request stamped on the request.
DeadlinePasses(r) == /\ pc[r] \in Active /\ ~expired[r]
                     /\ expired' = [expired EXCEPT ![r] = TRUE]
                     /\ UNCHANGED <<phase, connections, reqPermits, pc, reply, taskVars, reaperVars>>

\* The body limit (layer or to_bytes) or the query extractor rejects.
Reject(r) == /\ pc[r] = "body"
             /\ \E code \in Rejections : Respond(r, code)
             /\ UNCHANGED <<phase, taskVars, reaperVars>>

\* A body that is complete when the timeout is polled wins over the clock.
ReadBody(r) == /\ pc[r] = "body"
               /\ Goto(r, "acquire")
               /\ UNCHANGED <<phase, taskVars, reaperVars>>

BodyTimeoutMissing(r) == FALSE
BodyTimeout(r) == /\ pc[r] = "body" /\ expired[r]
                  /\ Respond(r, "Timeout")
                  /\ UNCHANGED <<phase, taskVars, reaperVars>>

ConversionBusy(r) == /\ pc[r] = "acquire"
                     /\ convPermits = 0
                     /\ Respond(r, "Busy")
                     /\ UNCHANGED <<phase, taskVars, reaperVars>>

ConversionPermitUnchecked == TRUE
ConversionPermitFree == convPermits > 0

\* The permit moves into the closure that spawn_blocking queues.
Spawn(r) == /\ pc[r] = "acquire"
            /\ ConversionPermitFree
            /\ convPermits' = convPermits - 1
            /\ task' = [task EXCEPT ![r] = "queued"]
            /\ Goto(r, "spawned")
            /\ UNCHANGED <<phase, outcome, cancelled, reaperVars>>

\* remaining(deadline)? fails after the spawn: the handler returns, and the
\* task's JoinHandle is dropped without a cancellation and without a reaper.
DeadlineAfterSpawn(r) == /\ pc[r] = "spawned" /\ expired[r]
                         /\ Respond(r, "Timeout")
                         /\ UNCHANGED <<phase, taskVars, reaperVars>>

ArmTimeout(r) == /\ pc[r] = "spawned" /\ ~expired[r]
                 /\ Goto(r, "awaiting")
                 /\ UNCHANGED <<phase, taskVars, reaperVars>>

TaskReply(result) == CASE result = "ok" -> "Ok"
                       [] result = "cancelled" -> "Timeout"
                       [] result = "conversion" -> "Invalid"
                       [] OTHER -> "Internal"

JoinTask(r) == /\ pc[r] = "awaiting" /\ task[r] = "done"
               /\ Respond(r, TaskReply(outcome[r]))
               /\ UNCHANGED <<phase, taskVars, reaperVars>>

\* The timeout polls the task first, so it fires only on an unfinished one.
ConversionTimeoutUncancelled(r) ==
  /\ pc[r] = "awaiting" /\ expired[r] /\ task[r] # "done"
  /\ Goto(r, "sending")
  /\ UNCHANGED <<phase, taskVars, reaperVars>>
ConversionTimeout(r) == /\ pc[r] = "awaiting" /\ expired[r] /\ task[r] # "done"
                        /\ cancelled' = [cancelled EXCEPT ![r] = TRUE]
                        /\ Goto(r, "sending")
                        /\ UNCHANGED <<phase, convPermits, task, outcome, reaperVars>>

\* supervise: send waits for room in the channel.  It fails, and the handler
\* reaps the task itself, only on a closed channel; while handlers run there
\* is a supervisor, which keeps it open.
SuperviseTrySend(r) == /\ pc[r] = "sending"
                       /\ queue' = IF Len(queue) < MaxConcurrent THEN Append(queue, r) ELSE queue
                       /\ Respond(r, "Timeout")
                       /\ UNCHANGED <<phase, taskVars, reaping>>
Supervise(r) == /\ pc[r] = "sending"
                /\ Len(queue) < MaxConcurrent
                /\ queue' = Append(queue, r)
                /\ Respond(r, "Timeout")
                /\ UNCHANGED <<phase, taskVars, reaping>>

\* The client disconnects: the suspended handler is dropped, with the
\* connection, the request permit and, if it had one, its JoinHandle.
DisconnectLeaking(r) == /\ pc[r] \in Awaits
                        /\ connections' = connections \ {r}
                        /\ pc' = [pc EXCEPT ![r] = "gone"]
                        /\ UNCHANGED <<phase, reqPermits, expired, reply, taskVars, reaperVars>>
Disconnect(r) == /\ pc[r] \in Awaits
                 /\ connections' = connections \ {r}
                 /\ pc' = [pc EXCEPT ![r] = "gone"]
                 /\ reqPermits' = reqPermits + 1
                 /\ expired' = [expired EXCEPT ![r] = FALSE]
                 /\ UNCHANGED <<phase, reply, taskVars, reaperVars>>

-----------------------------------------------------------------------------
(* The blocking task                                                       *)

StartTask(r) == /\ task[r] = "queued" /\ phase # "exited"
                /\ task' = [task EXCEPT ![r] = "running"]
                /\ UNCHANGED <<phase, handlerVars, convPermits, outcome, cancelled, reaperVars>>

\* The closure ends, or unwinds, and drops its permit.  Only a set flag makes
\* convert return Cancelled; a set flag may also be noticed too late.
Ends(r) == {"ok"} \cup Failures \cup (IF cancelled[r] THEN {"cancelled"} ELSE {})

FinishTaskLeaking(r) ==
  /\ task[r] = "running"
  /\ \E result \in Ends(r) :
       /\ outcome' = [outcome EXCEPT ![r] = result]
       /\ convPermits' = convPermits + (IF result = "panic" THEN 0 ELSE 1)
  /\ task' = [task EXCEPT ![r] = "returned"]
  /\ UNCHANGED <<phase, handlerVars, cancelled, reaperVars>>
FinishTask(r) == /\ task[r] = "running"
                 /\ \E result \in Ends(r) : outcome' = [outcome EXCEPT ![r] = result]
                 /\ task' = [task EXCEPT ![r] = "returned"]
                 /\ convPermits' = convPermits + 1
                 /\ UNCHANGED <<phase, handlerVars, cancelled, reaperVars>>

\* The result reaches the JoinHandle.
CompleteTask(r) == /\ task[r] = "returned"
                   /\ task' = [task EXCEPT ![r] = "done"]
                   /\ UNCHANGED <<phase, handlerVars, convPermits, outcome, cancelled, reaperVars>>

\* The runtime that is shut down drops a task no thread has started.
AbortTask(r) == /\ phase = "closing" /\ task[r] = "queued"
                /\ task' = [task EXCEPT ![r] = "done"]
                /\ outcome' = [outcome EXCEPT ![r] = "aborted"]
                /\ convPermits' = convPermits + 1
                /\ UNCHANGED <<phase, handlerVars, cancelled, reaperVars>>

-----------------------------------------------------------------------------
(* The supervisor and the process                                          *)

ReceiveWhileServing == /\ reaping = NoRequest /\ queue # <<>> /\ phase = "serving"
                       /\ reaping' = Head(queue)
                       /\ queue' = Tail(queue)
                       /\ UNCHANGED <<phase, handlerVars, taskVars>>
ReceiveTask == /\ reaping = NoRequest /\ queue # <<>>
               /\ reaping' = Head(queue)
               /\ queue' = Tail(queue)
               /\ UNCHANGED <<phase, handlerVars, taskVars>>

ReapTask == /\ reaping # NoRequest
            /\ task[reaping] = "done"
            /\ reaping' = NoRequest
            /\ UNCHANGED <<phase, handlerVars, taskVars, queue>>

\* shutdown_signal resolves: no further connection is accepted.
Shutdown == /\ phase = "serving"
            /\ phase' = "draining"
            /\ UNCHANGED <<handlerVars, taskVars, reaperVars>>

\* axum::serve returns when no connection is left, and drops every sender.
ServeReturnsEarly == /\ phase = "draining"
                     /\ phase' = "supervising"
                     /\ UNCHANGED <<handlerVars, taskVars, reaperVars>>
ServeReturns == /\ phase = "draining"
                /\ connections = {}
                /\ phase' = "supervising"
                /\ UNCHANGED <<handlerVars, taskVars, reaperVars>>

\* recv returns None once the channel is closed and empty; main returns.
SupervisorAborted == /\ phase = "supervising"
                     /\ phase' = "closing"
                     /\ UNCHANGED <<handlerVars, taskVars, reaperVars>>
SupervisorUnclosed == FALSE
SupervisorExits == /\ phase = "supervising"
                   /\ queue = <<>> /\ reaping = NoRequest
                   /\ phase' = "closing"
                   /\ UNCHANGED <<handlerVars, taskVars, reaperVars>>

\* Dropping the runtime waits for the blocking tasks that have started.
Exit == /\ phase = "closing"
        /\ \A r \in Requests : task[r] \in {"none", "done"}
        /\ phase' = "exited"
        /\ UNCHANGED <<handlerVars, taskVars, reaperVars>>

-----------------------------------------------------------------------------
HandlerStep(r) == \/ Admit(r) \/ Refuse(r)
                  \/ Reject(r) \/ ReadBody(r) \/ BodyTimeout(r)
                  \/ ConversionBusy(r) \/ Spawn(r)
                  \/ DeadlineAfterSpawn(r) \/ ArmTimeout(r)
                  \/ JoinTask(r) \/ ConversionTimeout(r) \/ Supervise(r)

TaskStep(r) == StartTask(r) \/ FinishTask(r) \/ CompleteTask(r) \/ AbortTask(r)

SupervisorStep == ReceiveTask \/ ReapTask

ProcessStep == ServeReturns \/ SupervisorExits \/ Exit

Next == \/ \E r \in Requests : \/ Connect(r) \/ Close(r) \/ Disconnect(r)
                               \/ HandlerStep(r)
                               \/ DeadlinePasses(r)
                               \/ TaskStep(r)
        \/ SupervisorStep
        \/ Shutdown
        \/ ProcessStep

Spec == Init /\ [][Next]_vars

\* What a handler does without its client.
HandlerGoesOn(r) == \/ BodyTimeout(r)
                    \/ ConversionBusy(r) \/ Spawn(r)
                    \/ DeadlineAfterSpawn(r) \/ ArmTimeout(r)
                    \/ JoinTask(r) \/ ConversionTimeout(r) \/ Supervise(r)

\* Fair: the executor polls a handler that can go on, the clock advances, the
\* blocking pool has threads to spare, the supervisor and main run.  Not fair:
\* clients (they need not send, finish or drop a request, nor read a response)
\* and the operator (who need not stop the process).
Scheduling ==
  /\ \A r \in Requests : /\ WF_vars(DeadlinePasses(r))
                         /\ WF_vars(HandlerGoesOn(r))
                         /\ WF_vars(StartTask(r) \/ CompleteTask(r))
  /\ WF_vars(SupervisorStep)
  /\ WF_vars(ProcessStep)

\* Every conversion ends: convert works on bounded budgets.
ConversionsEnd == \A r \in Requests : WF_vars(FinishTask(r))

\* Every client in the end reads its response or leaves: no fairness of the
\* server, but the condition of one of its promises.
ClientsFinish == \A r \in Requests : WF_vars(Close(r))

LiveSpec == Spec /\ Scheduling /\ ConversionsEnd

-----------------------------------------------------------------------------
(* Correctness                                                             *)

TypeOK ==
  /\ phase \in Phases
  /\ reqPermits \in Nat
  /\ convPermits \in Nat
  /\ connections \subseteq Requests
  /\ pc        \in [Requests -> PCs]
  /\ expired   \in [Requests -> BOOLEAN]
  /\ reply     \in [Requests -> Replies \cup {"none"}]
  /\ task      \in [Requests -> Tasks]
  /\ outcome   \in [Requests -> Outcomes \cup {"none"}]
  /\ cancelled \in [Requests -> BOOLEAN]
  /\ queue \in Seq(Requests)
  /\ reaping \in Requests \cup {NoRequest}

\* No path (reply, refusal, timeout, disconnect, panic, abort) leaks a permit
\* or returns one twice: each free permit is one not held by a handler in
\* flight, respectively by a closure that has not ended.
PermitAccounting ==
  /\ reqPermits + Cardinality(InFlight) = MaxConcurrent
  /\ convPermits + Cardinality(Converting) = MaxConcurrent

\* A request that was admitted is turned away for lack of conversion capacity
\* only while some conversion outlives its own request.
BusyOnlyBehindOrphan ==
  [][\A r \in Requests :
       (pc[r] = "acquire" /\ reply'[r] = "Busy")
         => \E s \in Converting : s \notin InFlight]_vars

\* A cancelled task whose request was answered stays with the supervisor
\* until it is done, and the supervisor never holds a task twice, an
\* uncancelled task or one whose handler still owns it.
TimedOutWorkRetained ==
  /\ \A r \in Requests : cancelled[r] /\ pc[r] = "replied" /\ task[r] # "done"
       => r \in QueuedIn(queue) \cup {reaping}
  /\ \A r \in QueuedIn(queue) \cup ({reaping} \ {NoRequest}) :
       cancelled[r] /\ pc[r] = "replied"
  /\ \A i, j \in 1 .. Len(queue) : queue[i] = queue[j] => i = j
  /\ reaping \notin QueuedIn(queue)

\* When main returns, every task that was given to the supervisor is done, so
\* shutdown abandons only tasks whose handle was dropped before.
SupervisedDrainedBeforeExit ==
  phase \in {"closing", "exited"} =>
    \A r \in Requests : cancelled[r] /\ reply[r] = "Timeout" => task[r] = "done"

\* Every request that is admitted is eventually answered or abandoned: none is
\* in flight for ever.
EveryRequestAnswered ==
  \A r \in Requests : []<>(r \notin InFlight)

\* Every task the supervisor is given is eventually done and reaped: none
\* stays with it for ever, during a shutdown either.
SupervisorKeepsUp ==
  \A r \in Requests :
    []<>(cancelled[r] /\ reply[r] = "Timeout"
           => task[r] = "done" /\ r \notin QueuedIn(queue) \cup {reaping})

\* A graceful shutdown ends the process if every client in the end reads its
\* response or leaves; one that does neither holds the process open, as the
\* operations guide says of slow readers.
ShutdownCompletes == ClientsFinish => (phase = "draining" ~> phase = "exited")

\* The operations guide: timed-out work receives cooperative cancellation.  A
\* task whose request timed out after the spawn carries a set flag.
TimedOutWorkIsCancelled ==
  \A r \in Requests : reply[r] = "Timeout" /\ task[r] # "none" => cancelled[r]

-----------------------------------------------------------------------------
(* The server implements the abstract service.                             *)

Stage(r) == CASE pc[r] = "new" -> "new"
              [] pc[r] \in Active -> "admitted"
              [] pc[r] = "replied" -> "answered"
              [] OTHER -> "gone"

Work(r) == CASE task[r] = "none" -> "unstarted"
             [] task[r] \in {"queued", "running"} -> "converting"
             [] OTHER -> "finished"

Service == INSTANCE ConversionService WITH
             Capacity <- MaxConcurrent,
             stage    <- [r \in Requests |-> Stage(r)],
             answer   <- reply,
             work     <- [r \in Requests |-> Work(r)]

\* Every behaviour of the server is one of the abstract service.
ImplementsService == Service!Spec
=============================================================================
