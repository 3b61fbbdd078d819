------------------------ MODULE BoundedParallelism ------------------------
(***************************************************************************)
(* What a caller of RunTasks may rely on, without semaphore, tokens or     *)
(* continuations: the items of a sequence are started one by one, in their *)
(* order, never more than `max` of them are under way, and the call        *)
(* returns only when all of them are over.  A call may also end by an      *)
(* exception, and then it says nothing about the tasks it leaves behind.   *)
(***************************************************************************)
EXTENDS Integers, FiniteSets

CONSTANTS MaxItems, \* the longest sequence of items considered
          Limits,   \* the values a caller may pass for maxTasksInParallel
          Hanging   \* the items whose task never completes

VARIABLES max,      \* the maxTasksInParallel of this call
          length,   \* the number of items of the enumerable
          started,  \* the items 1..started have been handed to executable
          active,   \* the items whose task has not completed
          outcome   \* "none" | "open" | "returned" | "failed"

vars == <<max, length, started, active, outcome>>

Init == /\ max = 0
        /\ length \in 0..MaxItems
        /\ started = 0
        /\ active = {}
        /\ outcome = "none"

Call(m) == /\ outcome = "none"
           /\ max' = m
           /\ outcome' = IF m > 0 THEN "open" ELSE "failed"
           /\ UNCHANGED <<length, started, active>>

Start == /\ outcome = "open"
         /\ started < length
         /\ Cardinality(active) < max
         /\ started' = started + 1
         /\ active' = active \cup {started + 1}
         /\ UNCHANGED <<max, length, outcome>>

\* A task that is over is not active any more, whatever became of the call.
Finish(i) == /\ i \in active \ Hanging
             /\ active' = active \ {i}
             /\ UNCHANGED <<max, length, started, outcome>>

Return == /\ outcome = "open"
          /\ started = length
          /\ active = {}
          /\ outcome' = "returned"
          /\ UNCHANGED <<max, length, started, active>>

\* executable or the enumerator threw: the item being started, if any, has no
\* task.
Fail == /\ outcome = "open"
        /\ outcome' = "failed"
        /\ \/ active' = active
           \/ active' = active \ {started}
        /\ UNCHANGED <<max, length, started>>

Next == \/ \E m \in Limits : Call(m)
        \/ Start
        \/ \E i \in 1..MaxItems : Finish(i)
        \/ Return
        \/ Fail

Safe == Init /\ [][Next]_vars

Spec == /\ Safe
        /\ WF_vars(\E m \in Limits : Call(m))
        /\ WF_vars(Start \/ Return)
        /\ \A i \in 1..MaxItems : WF_vars(Finish(i))
===========================================================================
