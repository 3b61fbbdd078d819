----------------------------- MODULE WorkerHost -----------------------------
(***************************************************************************)
(* SmusdiWorker: a host whose WorkerTasksRunner executes the registered    *)
(* tasks one after the other and then stops the host, beside hosted        *)
(* services derived from DeferredBackgroundService.                        *)
(*                                                                         *)
(* The .NET host is external: it runs ExecuteAsync of every hosted service *)
(* on the thread pool, announces its start once, cancels the stopping      *)
(* tokens some time after it was asked to stop, waits for ExecuteAsync to  *)
(* end, but not longer than its shutdown timeout, and takes an exception   *)
(* of ExecuteAsync for a demand to stop.                                   *)
(*                                                                         *)
(* A definition whose name ends in Fault is the definition after it with a *)
(* plausible mistake; no specification uses it.                            *)
(***************************************************************************)
EXTENDS OrderBy

CONSTANTS Tasks,     \* the registered IWorkerTask, in registration order
          TaskOrder, \* [task -> Int], IWorkerTask.Order
          Deferred   \* the deferred background services

ASSUME WorkerAssumption ==
    /\ Tasks \in Seq({Tasks[i] : i \in DOMAIN Tasks})
    /\ \A i \in DOMAIN Tasks : TaskOrder[Tasks[i]] \in Int

VARIABLES host,     \* "starting" | "started" | "stopped"
          stopping, \* StopApplication has been called, by anyone
          asked,    \* by someone else than the runner and its failure
          token,    \* the stoppingToken of the hosted services is cancelled
          runner,   \* where WorkerTasksRunner.ExecuteAsync stands
          executed, \* the tasks begun
          late,     \* how many of them began under a cancelled token
          service   \* where each deferred service stands

hostVars == <<host, stopping, asked, token>>
runnerVars == <<runner, executed, late>>
vars == <<hostVars, runnerVars, service>>

Runner == {"queued",  \* ExecuteAsync has not begun
           "check",   \* at the head of the loop
           "execute", \* the token was not cancelled when it looked
           "task",    \* in workerTask.Execute
           "all",     \* behind the loop
           "returned", "cancelled", "threw"}
Over == {"returned", "cancelled", "threw"}
Service == {"queued",     \* ExecuteAsync has not begun
            "registered", \* its callback waits for ApplicationStarted
            "running",    \* in OnHostStarted
            "ended"}

Init == /\ host = "starting" /\ stopping = FALSE /\ asked = FALSE /\ token = FALSE
        /\ runner = "queued" /\ executed = <<>> /\ late = 0
        /\ service = [s \in Deferred |-> "queued"]

\* The tasks are taken in the order of their registration; every task is
\* registered twice.
WorkerTasksFault == Tasks
WorkerTasksTwiceFault == Tasks \o Tasks

(* workerTasks.OrderBy(t => t.Order)                                       *)
WorkerTasks == Ordered(Tasks, TaskOrder)

(* A scope is created and the tasks are resolved from it, which may throw; *)
(* under a token already cancelled ExecuteAsync may not begin at all.      *)
Begin == /\ runner = "queued" /\ host # "stopped"
         /\ \/ runner' = "check"
            \/ runner' = "threw"
            \/ token /\ runner' = "cancelled"
         /\ UNCHANGED <<hostVars, executed, late, service>>

\* The token is not looked at.
CheckTokenFault == /\ runner = "check" /\ host # "stopped"
                   /\ Len(executed) < Len(WorkerTasks)
                   /\ runner' = "execute"
                   /\ UNCHANGED <<hostVars, executed, late, service>>

CheckToken == /\ runner = "check" /\ host # "stopped"
              /\ Len(executed) < Len(WorkerTasks)
              /\ runner' = IF token THEN "returned" ELSE "execute"
              /\ UNCHANGED <<hostVars, executed, late, service>>

Execute == /\ runner = "execute" /\ host # "stopped"
           /\ executed' = Append(executed, WorkerTasks[Len(executed) + 1])
           /\ late' = IF token THEN late + 1 ELSE late
           /\ runner' = "task"
           /\ UNCHANGED <<hostVars, service>>

(* A task returns or throws.                                               *)
TaskEnds == /\ runner = "task"
            /\ runner' \in {"check", "threw"}
            /\ UNCHANGED <<hostVars, executed, late, service>>

\* One task is enough to leave the loop.
LoopEndsFault == /\ runner = "check"
                 /\ executed # <<>>
                 /\ runner' = "all"
                 /\ UNCHANGED <<hostVars, executed, late, service>>

LoopEnds == /\ runner = "check"
            /\ Len(executed) = Len(WorkerTasks)
            /\ runner' = "all"
            /\ UNCHANGED <<hostVars, executed, late, service>>

\* The runner does not stop the host.
StopApplicationFault == /\ runner = "all"
                        /\ runner' = "returned"
                        /\ UNCHANGED <<hostVars, executed, late, service>>

StopApplication == /\ runner = "all"
                   /\ stopping' = TRUE
                   /\ runner' = "returned"
                   /\ UNCHANGED <<host, asked, token, executed, late, service>>
----------------------------------------------------------------------------
\* The callback is not run on a start already announced.
RegisterFault(s) == /\ service[s] = "queued" /\ host # "stopped"
                    /\ service' = [service EXCEPT ![s] = "registered"]
                    /\ UNCHANGED <<hostVars, runnerVars>>

(* DeferredBackgroundService.ExecuteAsync; on a start already announced    *)
(* Register runs the callback at once.  Under a token already cancelled it *)
(* may not be called at all.                                               *)
Register(s) == /\ service[s] = "queued" /\ host # "stopped"
               /\ \/ service' = [service EXCEPT ![s] = IF host = "starting"
                                                       THEN "registered"
                                                       ELSE "running"]
                  \/ token /\ service' = [service EXCEPT ![s] = "ended"]
               /\ UNCHANGED <<hostVars, runnerVars>>

(* OnHostStarted ends, well or not: its task was dropped, so nobody learns *)
(* of it.                                                                  *)
OnHostStartedEnds(s) == /\ service[s] = "running"
                        /\ service' = [service EXCEPT ![s] = "ended"]
                        /\ UNCHANGED <<hostVars, runnerVars>>
----------------------------------------------------------------------------
(* The start is announced whether or not a stop was asked for meanwhile.   *)
HostStarted == /\ host = "starting"
               /\ host' = "started"
               /\ service' = [s \in Deferred |-> IF service[s] = "registered"
                                                 THEN "running" ELSE service[s]]
               /\ UNCHANGED <<stopping, asked, token, runnerVars>>

(* A signal, or a task or service that stops the host itself.              *)
AskStop == /\ ~asked
           /\ asked' = TRUE
           /\ stopping' = TRUE
           /\ UNCHANGED <<host, token, runnerVars, service>>

RunnerFailed == /\ runner = "threw" /\ ~stopping
                /\ stopping' = TRUE
                /\ UNCHANGED <<host, asked, token, runnerVars, service>>

CancelToken == /\ stopping /\ ~token
               /\ token' = TRUE
               /\ UNCHANGED <<host, stopping, asked, runnerVars, service>>

(* A DeferredBackgroundService is over when its callback is registered, so *)
(* its work is not waited for.                                             *)
HostStops == /\ host = "started" /\ token
             /\ runner \in Over
             /\ \A s \in Deferred : service[s] # "queued"
             /\ host' = "stopped"
             /\ UNCHANGED <<stopping, asked, token, runnerVars, service>>

(* The shutdown timeout is over.                                           *)
HostGivesUp == /\ host = "started" /\ token
               /\ runner \notin Over
               /\ host' = "stopped"
               /\ UNCHANGED <<stopping, asked, token, runnerVars, service>>

RunnerStep == Begin \/ CheckToken \/ Execute \/ TaskEnds \/ LoopEnds \/ StopApplication
HostStep == HostStarted \/ RunnerFailed \/ CancelToken \/ HostStops
Next == \/ RunnerStep \/ HostStep \/ AskStop \/ HostGivesUp
        \/ \E s \in Deferred : Register(s) \/ OnHostStartedEnds(s)

Safe == Init /\ [][Next]_vars

(* Threads run and tasks end.  Nobody has to ask for a stop, and the work  *)
(* of a deferred service may go on for ever.                               *)
Spec == /\ Safe
        /\ WF_vars(RunnerStep) /\ WF_vars(HostStep)
        /\ \A s \in Deferred : WF_vars(Register(s))
----------------------------------------------------------------------------
TypeOK == /\ host \in {"starting", "started", "stopped"}
          /\ stopping \in BOOLEAN /\ asked \in BOOLEAN /\ token \in BOOLEAN
          /\ runner \in Runner
          /\ executed \in Seq({Tasks[i] : i \in DOMAIN Tasks})
          /\ Len(executed) <= Len(Tasks)
          /\ late \in Nat
          /\ service \in [Deferred -> Service]

(* The tasks begin by ascending Order, those of equal Order as they were   *)
(* registered, and none again or over another's head (WorkerTasksRunner    *)
(* lines 14-15, IWorkerTask.Order).                                        *)
InOrder ==
    \A i, j \in DOMAIN executed :
        i < j => \E a, b \in DOMAIN Tasks :
                    /\ a # b /\ executed[i] = Tasks[a] /\ executed[j] = Tasks[b]
                    /\ \/ TaskOrder[Tasks[a]] < TaskOrder[Tasks[b]]
                       \/ TaskOrder[Tasks[a]] = TaskOrder[Tasks[b]] /\ a < b

(* Once the stoppingToken is cancelled at most one more task begins: the   *)
(* one whose check had been passed (lines 19-27).                          *)
AtMostOneLateTask == late <= 1

(* A host that nobody else stopped stops only when every task was executed *)
(* or one of them failed: the runner does not end the process early (lines *)
(* 15-35).                                                                 *)
StopsOnlyWithReason ==
    stopping /\ ~asked => Len(executed) = Len(Tasks) \/ runner = "threw"

(* A worker ends by itself, even when a task throws, when there is no task *)
(* and the stop comes before the start, and whatever the deferred services *)
(* do.                                                                     *)
WorkerEnds == <>(host = "stopped")

(* Once its callback is registered OnHostStarted runs, on whichever side   *)
(* of the announced start it was registered and whoever stops the host     *)
(* meanwhile, but never before the host has started                        *)
(* (DeferredBackgroundService line 9).                                     *)
DeferredRunsAfterStart ==
    \A s \in Deferred : /\ [](service[s] = "running" => host # "starting")
                        /\ service[s] = "registered" ~> service[s] = "running"
============================================================================
