-------------------------- MODULE ConversionService --------------------------
(***************************************************************************)
(* What the conversion server promises a client, with no handler, channel, *)
(* deadline or supervisor in sight: at most Capacity requests are admitted *)
(* and at most Capacity conversions are at work at any time, a request is  *)
(* answered at most once, and an answer that speaks of the conversion is   *)
(* given only when the conversion has ended.  Server.tla implements it.    *)
(***************************************************************************)
EXTENDS Naturals, FiniteSets

CONSTANTS Requests,   \* the requests clients may send, each at most once
          Capacity    \* max_concurrent_conversions

VARIABLES stage,      \* where each request is in its life
          answer,     \* the answer each request got, or "none"
          work        \* the conversion each request may have started

vars == <<stage, answer, work>>

Answers == {"Ok", "Busy", "Timeout", "TooLarge", "BadQuery", "Invalid", "Internal"}

Admitted   == {r \in Requests : stage[r] = "admitted"}
Converting == {r \in Requests : work[r] = "converting"}

Init == /\ stage  = [r \in Requests |-> "new"]
        /\ answer = [r \in Requests |-> "none"]
        /\ work   = [r \in Requests |-> "unstarted"]

\* A request that finds every admission slot taken is told so at once.
Refuse(r) == /\ stage[r] = "new"
             /\ Cardinality(Admitted) >= Capacity
             /\ stage'  = [stage EXCEPT ![r] = "answered"]
             /\ answer' = [answer EXCEPT ![r] = "Busy"]
             /\ UNCHANGED work

Admit(r) == /\ stage[r] = "new"
            /\ Cardinality(Admitted) < Capacity
            /\ stage' = [stage EXCEPT ![r] = "admitted"]
            /\ UNCHANGED <<answer, work>>

StartWork(r) == /\ stage[r] = "admitted"
                /\ work[r] = "unstarted"
                /\ Cardinality(Converting) < Capacity
                /\ work' = [work EXCEPT ![r] = "converting"]
                /\ UNCHANGED <<stage, answer>>

\* Work outlives its request: it may finish before or after the answer.
FinishWork(r) == /\ work[r] = "converting"
                 /\ work' = [work EXCEPT ![r] = "finished"]
                 /\ UNCHANGED <<stage, answer>>

\* What each answer says about the work.  A timeout says nothing about it.
Justified(r, a) ==
  /\ a \in {"Ok", "Invalid", "Internal"} => work[r] = "finished"
  /\ a \in {"TooLarge", "BadQuery"} => work[r] = "unstarted"
  /\ a = "Busy" => work[r] = "unstarted" /\ Cardinality(Converting) >= Capacity

Answer(r, a) == /\ stage[r] = "admitted"
                /\ Justified(r, a)
                /\ stage'  = [stage EXCEPT ![r] = "answered"]
                /\ answer' = [answer EXCEPT ![r] = a]
                /\ UNCHANGED work

\* The client goes away before it is answered.
Abandon(r) == /\ stage[r] = "admitted"
              /\ stage' = [stage EXCEPT ![r] = "gone"]
              /\ UNCHANGED <<answer, work>>

Next == \E r \in Requests : \/ Refuse(r)
                            \/ Admit(r)
                            \/ StartWork(r)
                            \/ FinishWork(r)
                            \/ \E a \in Answers : Answer(r, a)
                            \/ Abandon(r)

Spec == Init /\ [][Next]_vars
=============================================================================
