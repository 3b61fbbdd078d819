----------------------------- MODULE RunTasks -----------------------------
(***************************************************************************)
(* EnumerableExtensions.RunTasks: one call that runs `executable` on every *)
(* item of an enumerable, at most maxTasksInParallel at a time.            *)
(*                                                                         *)
(* The loop is one asynchronous flow (pc); every started task and the      *)
(* continuation that releases its token run on other threads, so they      *)
(* interleave with the loop at each of its awaits and between its          *)
(* statements.  The items are 1..length in enumeration order.              *)
(*                                                                         *)
(* A definition whose name ends in Fault is the definition after it with a *)
(* plausible mistake; no specification uses it.                            *)
(***************************************************************************)
EXTENDS Integers, FiniteSets

CONSTANTS MaxItems, \* bound on the length of the enumerable
          Limits,   \* the values a caller may pass for maxTasksInParallel
          Hanging   \* the items whose task never completes

ASSUME RunTasksAssumption == /\ MaxItems \in Nat
                             /\ Limits \subseteq Int
                             /\ Hanging \subseteq 1..MaxItems

Item == 1..MaxItems

VARIABLES pc,          \* where the loop stands
          max,         \* maxTasksInParallel
          length,      \* number of items of the enumerable
          pulled,      \* number of items MoveNext has delivered
          semaphore,   \* CurrentCount of the SemaphoreSlim
          emptyTokens, \* tokens the loop has kept because no item is left
          task         \* what became of each item

vars == <<pc, max, length, pulled, semaphore, emptyTokens, task>>

PC == {"idle",     \* RunTasks has not been called
       "wait",     \* at semaphore.WaitAsync()
       "token",    \* WaitAsync() has completed, the loop holds its token
       "call",     \* inside executable(item), before it returned its task
       "returned", \* the call has completed; semaphore disposed
       "failed"}   \* the call has thrown; semaphore disposed if it existed

Status == {"pending",  \* not pulled
           "starting", \* executable has been called and has not returned
           "running",  \* its task is running
           "ran",      \* the task has completed, its continuation has not run
           "faulted",  \* the same for a task that faulted or was cancelled
           "released", \* the continuation has released the token
           "lost",     \* the continuation met a disposed semaphore
           "threw"}    \* executable threw instead of returning a task

Disposed == pc \in {"returned", "failed"}
Active == {i \in Item : task[i] \in {"starting", "running"}}
Completed == {i \in Item : task[i] \in {"ran", "faulted"}}
Holding == Active \cup Completed

Init == /\ pc = "idle"
        /\ max = 0
        /\ length \in 0..MaxItems
        /\ pulled = 0
        /\ semaphore = 0
        /\ emptyTokens = 0
        /\ task = [i \in Item |-> "pending"]

\* One token too many in the semaphore.
CallFault(m) == /\ pc = "idle"
                /\ max' = m
                /\ IF m <= 0
                   THEN pc' = "failed" /\ UNCHANGED semaphore
                   ELSE pc' = "wait" /\ semaphore' = m + 1
                /\ UNCHANGED <<length, pulled, emptyTokens, task>>

(* The argument check, then the semaphore and the enumerator.              *)
Call(m) == /\ pc = "idle"
           /\ max' = m
           /\ IF m <= 0
              THEN pc' = "failed" /\ UNCHANGED semaphore
              ELSE pc' = "wait" /\ semaphore' = m
           /\ UNCHANGED <<length, pulled, emptyTokens, task>>

\* The semaphore is not waited for.
TakeTokenFault == /\ pc = "wait"
                  /\ semaphore' = semaphore - 1
                  /\ pc' = "token"
                  /\ UNCHANGED <<max, length, pulled, emptyTokens, task>>

TakeToken == /\ pc = "wait"
             /\ semaphore > 0
             /\ semaphore' = semaphore - 1
             /\ pc' = "token"
             /\ UNCHANGED <<max, length, pulled, emptyTokens, task>>

(* MoveNext() is true: executable is entered with the item.                *)
PullItem == /\ pc = "token"
            /\ emptyTokens = 0
            /\ pulled < length
            /\ pulled' = pulled + 1
            /\ task' = [task EXCEPT ![pulled + 1] = "starting"]
            /\ pc' = "call"
            /\ UNCHANGED <<max, length, semaphore, emptyTokens>>

(* executable has returned a task and ContinueWith is registered on it.    *)
StartTask == /\ pc = "call"
             /\ task' = [task EXCEPT ![pulled] = "running"]
             /\ pc' = "wait"
             /\ UNCHANGED <<max, length, pulled, semaphore, emptyTokens>>

\* The call ends as soon as no item is left.
KeepTokenFault == /\ pc = "token"
                  /\ ~(emptyTokens = 0 /\ pulled < length)
                  /\ emptyTokens' = emptyTokens + 1
                  /\ pc' = "returned"
                  /\ UNCHANGED <<max, length, pulled, semaphore, task>>

(* The token is not given back; the last one ends the call.                *)
KeepToken == /\ pc = "token"
             /\ ~(emptyTokens = 0 /\ pulled < length)
             /\ emptyTokens' = emptyTokens + 1
             /\ pc' = IF emptyTokens' = max THEN "returned" ELSE "wait"
             /\ UNCHANGED <<max, length, pulled, semaphore, task>>

(* MoveNext() throws: the exception leaves RunTasks.                       *)
EnumeratorThrows == /\ pc = "token"
                    /\ emptyTokens = 0
                    /\ pc' = "failed"
                    /\ UNCHANGED <<max, length, pulled, semaphore, emptyTokens, task>>

(* executable(item) throws before it returns a task: the same.             *)
ExecutableThrows == /\ pc = "call"
                    /\ task' = [task EXCEPT ![pulled] = "threw"]
                    /\ pc' = "failed"
                    /\ UNCHANGED <<max, length, pulled, semaphore, emptyTokens>>

(* The task of item i completes, well or not.                              *)
Complete(i) == /\ task[i] = "running"
               /\ i \notin Hanging
               /\ \E s \in {"ran", "faulted"} : task' = [task EXCEPT ![i] = s]
               /\ UNCHANGED <<pc, max, length, pulled, semaphore, emptyTokens>>

\* The continuation releases the token of a successful task only.
ContinueFault(i) == /\ task[i] \in {"ran", "faulted"}
                    /\ task' = [task EXCEPT ![i] = IF Disposed THEN "lost" ELSE "released"]
                    /\ semaphore' = IF Disposed \/ task[i] = "faulted"
                                    THEN semaphore ELSE semaphore + 1
                    /\ UNCHANGED <<pc, max, length, pulled, emptyTokens>>

(* The continuation of item i: it runs however the task ended, and on a    *)
(* disposed semaphore its exception goes unobserved.                       *)
Continue(i) == /\ task[i] \in {"ran", "faulted"}
               /\ IF Disposed
                  THEN /\ task' = [task EXCEPT ![i] = "lost"]
                       /\ UNCHANGED semaphore
                  ELSE /\ task' = [task EXCEPT ![i] = "released"]
                       /\ semaphore' = semaphore + 1
               /\ UNCHANGED <<pc, max, length, pulled, emptyTokens>>

Loop == TakeToken \/ PullItem \/ StartTask \/ KeepToken
            \/ EnumeratorThrows \/ ExecutableThrows

Next == \/ \E m \in Limits : Call(m)
        \/ Loop
        \/ \E i \in Item : Complete(i) \/ Continue(i)

Safe == Init /\ [][Next]_vars

(* The thread pool runs every ready continuation, so the loop and the      *)
(* continuations are fair.  That a task completes is the caller's part: it *)
(* is assumed of the items outside Hanging only.                           *)
Fairness == /\ WF_vars(\E m \in Limits : Call(m))
            /\ WF_vars(Loop)
            /\ \A i \in Item : WF_vars(Complete(i)) /\ WF_vars(Continue(i))

Spec == Safe /\ Fairness
---------------------------------------------------------------------------
TypeOK == /\ pc \in PC
          /\ max \in Int
          /\ length \in 0..MaxItems
          /\ pulled \in 0..length
          /\ semaphore \in Nat
          /\ emptyTokens \in Nat
          /\ task \in [Item -> Status]

(* No token is created or leaked while the call is open: the semaphore,    *)
(* the tasks whose continuation has not run, the loop and the tokens kept  *)
(* at the end always add up to maxTasksInParallel (lines 12, 17-28).       *)
TokenConservation ==
    pc \in {"wait", "token", "call", "returned"} =>
        semaphore + Cardinality(Holding) + emptyTokens
            + (IF pc = "token" THEN 1 ELSE 0) = max

(* Never more than maxTasksInParallel tasks are under way, counting those  *)
(* left behind by a call that threw.                                       *)
AtMostMax == Cardinality(Active) <= IF max > 0 THEN max ELSE 0

(* A call returns normally only after every item was started and every     *)
(* continuation has released its token: nothing of it is left to run on    *)
(* the disposed semaphore.                                                 *)
ReturnMeansOver ==
    pc = "returned" => \A i \in Item : task[i] = IF i <= length
                                                  THEN "released"
                                                  ELSE "pending"

(* A Release that meets a disposed semaphore happens only when the call    *)
(* itself has thrown.                                                      *)
LostOnlyAfterFailure == (\E i \in Item : task[i] = "lost") => pc = "failed"

Hung == {i \in Hanging : i <= length}

(* A task that never completes costs its token and no more: as long as     *)
(* fewer tasks hang than tokens exist, every other item is still processed *)
(* unless the call throws; a faulted task gives its token back like any    *)
(* other (lines 17-28).                                                    *)
HangingOnlyCostsTokens ==
    <>(\/ pc = "failed"
       \/ Cardinality(Hung) >= max /\ pc # "idle"
       \/ \A i \in Item \ Hung : i <= length => task[i] = "released")
---------------------------------------------------------------------------
(* Refinement: a task counts as active until it completes, the call is     *)
(* open from its first wait to its end.                                    *)
Outcome == IF pc = "idle" THEN "none" ELSE IF Disposed THEN pc ELSE "open"

Abstract == INSTANCE BoundedParallelism WITH
                started <- pulled, active <- Active, outcome <- Outcome

(* RunTasks implements bounded parallelism, its liveness included: a call  *)
(* whose tasks all complete ends.                                          *)
ImplementsBoundedParallelism == Abstract!Spec
===========================================================================
