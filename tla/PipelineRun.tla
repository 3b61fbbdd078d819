---------------------------- MODULE PipelineRun ----------------------------
(***************************************************************************)
(* Pipeline.Run: pipelines built by one PipelineBuilder run on contexts,   *)
(* while the builder goes on changing and other threads cancel.  A context *)
(* is in one run at a time and may be used for run after run; a pipeline   *)
(* may be in several runs at once.                                         *)
(*                                                                         *)
(* A definition whose name ends in Fault is the definition after it with a *)
(* plausible mistake; no specification uses it.                            *)
(***************************************************************************)
EXTENDS PipelineBuilder

CONSTANT Context

VARIABLES pc,          \* where the run of a context stands
          pipe,        \* the pipeline it runs
          index,       \* the list enumerator: how many steps it has delivered
          seen,        \* and the version it has captured
          depth,       \* number of decorators entered around the step's action
          outcome,     \* how the step, or what it is wrapped in, last ended
          state,       \* PipelineContext.State
          isCancelled, \* PipelineContext.IsCancelled
          caught,      \* PipelineContext.CaughtException # null
          finallyThrew,\* PipelineContext.FinallyException # null
          processed,   \* the steps of this run given to ProcessStep
          expected,    \* the list when this run took its enumerator
          late         \* how many steps of this run began already cancelled

runVars == <<pc, pipe, index, seen, depth, outcome>>
contextVars == <<state, isCancelled, caught, finallyThrew>>
history == <<processed, expected, late>>
vars == <<builderVars, runVars, contextVars, history>>

PC == {"idle",    \* not running
       "next",    \* at the enumerator's MoveNext
       "step",    \* about to call the next decorator, or the action
       "action",  \* in step.Action
       "unwind",  \* back in decorator `depth`, or in Run when depth = 0
       "check",   \* at `if (context.IsCancelled)`
       "settle",  \* after the loop
       "catch",   \* in the catch action
       "finally"} \* in the finally block
Outcome == {"ok", "cancel", "error"} \* cancel: a PipelineCancelledException
State == {"None", "Running", "Done", "Cancelled", "Ko", "Fatal"}

Init == /\ BuilderInit
        /\ pc = [c \in Context |-> "idle"]
        /\ pipe \in [Context -> Pipeline]
        /\ index = [c \in Context |-> 0]
        /\ seen = [c \in Context |-> 0]
        /\ depth = [c \in Context |-> 0]
        /\ outcome = [c \in Context |-> "ok"]
        /\ state = [c \in Context |-> "None"]
        /\ isCancelled = [c \in Context |-> FALSE]
        /\ caught = [c \in Context |-> FALSE]
        /\ finallyThrew = [c \in Context |-> FALSE]
        /\ processed = [c \in Context |-> <<>>]
        /\ expected = [c \in Context |-> <<>>]
        /\ late = [c \in Context |-> 0]

(* context.CancelPipeline(), by a step or by any other holder of the       *)
(* context, at any time.                                                   *)
CancelPipeline(c) ==
    /\ ~isCancelled[c]
    /\ isCancelled' = [isCancelled EXCEPT ![c] = TRUE]
    /\ UNCHANGED <<builderVars, runVars, state, caught, finallyThrew, history>>

(* Nothing of an earlier run of the context is reset but State.            *)
Run(c, p) ==
    /\ pc[c] = "idle"
    /\ built[p].exists
    /\ pipe' = [pipe EXCEPT ![c] = p]
    /\ state' = [state EXCEPT ![c] = "Running"]
    /\ index' = [index EXCEPT ![c] = 0]
    /\ seen' = [seen EXCEPT ![c] = version]
    /\ depth' = [depth EXCEPT ![c] = 0]
    /\ outcome' = [outcome EXCEPT ![c] = "ok"]
    /\ pc' = [pc EXCEPT ![c] = "next"]
    /\ processed' = [processed EXCEPT ![c] = <<>>]
    /\ expected' = [expected EXCEPT ![c] = steps]
    /\ late' = [late EXCEPT ![c] = 0]
    /\ UNCHANGED <<builderVars, isCancelled, caught, finallyThrew>>

\* The exception is not kept.
RaiseFault(c) ==
    /\ UNCHANGED caught
    /\ IF built[pipe[c]].catch
       THEN /\ state' = [state EXCEPT ![c] = "Ko"]
            /\ pc' = [pc EXCEPT ![c] = "catch"]
       ELSE /\ state' = [state EXCEPT ![c] = "Fatal"]
            /\ pc' = [pc EXCEPT ![c] = "finally"]

(* An exception that is not a PipelineCancelledException.                  *)
Raise(c) ==
    /\ caught' = [caught EXCEPT ![c] = TRUE]
    /\ IF built[pipe[c]].catch
       THEN /\ state' = [state EXCEPT ![c] = "Ko"]
            /\ pc' = [pc EXCEPT ![c] = "catch"]
       ELSE /\ state' = [state EXCEPT ![c] = "Fatal"]
            /\ pc' = [pc EXCEPT ![c] = "finally"]

\* The steps are reached by index, without the enumerator's check.
ModifiedFault(c) == FALSE

(* The enumerator refuses to go on over a list that has changed; an empty  *)
(* list hands out an enumerator that is over at once.                      *)
Modified(c) == expected[c] # <<>> /\ version # seen[c]

MoveNextThrows(c) ==
    /\ pc[c] = "next" /\ Modified(c)
    /\ outcome' = [outcome EXCEPT ![c] = "error"]
    /\ Raise(c)
    /\ UNCHANGED <<builderVars, pipe, index, seen, depth, isCancelled, finallyThrew, history>>

ProcessStep(c) ==
    /\ pc[c] = "next" /\ ~Modified(c)
    /\ expected[c] # <<>> /\ index[c] < Len(steps)
    /\ index' = [index EXCEPT ![c] = @ + 1]
    /\ pc' = [pc EXCEPT ![c] = "step"]
    /\ processed' = [processed EXCEPT ![c] = Append(@, steps[index[c] + 1])]
    /\ late' = [late EXCEPT ![c] = IF isCancelled[c] THEN @ + 1 ELSE @]
    /\ UNCHANGED <<builderVars, pipe, seen, depth, outcome, contextVars, expected>>

LoopEnds(c) ==
    /\ pc[c] = "next" /\ ~Modified(c)
    /\ expected[c] = <<>> \/ index[c] >= Len(steps)
    /\ pc' = [pc EXCEPT ![c] = "settle"]
    /\ UNCHANGED <<builderVars, pipe, index, seen, depth, outcome, contextVars, history>>

(* The decorators nest, the first one added outermost; each of them, and   *)
(* Run itself at depth 0, calls what it wraps.                             *)
CallInner(c) ==
    /\ pc[c] = "step"
    /\ IF depth[c] < built[pipe[c]].decorators
       THEN depth' = [depth EXCEPT ![c] = @ + 1] /\ UNCHANGED pc
       ELSE pc' = [pc EXCEPT ![c] = "action"] /\ UNCHANGED depth
    /\ UNCHANGED <<builderVars, pipe, index, seen, outcome, contextVars, history>>

ActionEnds(c) ==
    /\ pc[c] = "action"
    /\ \E o \in Outcome : outcome' = [outcome EXCEPT ![c] = o]
    /\ pc' = [pc EXCEPT ![c] = "unwind"]
    /\ UNCHANGED <<builderVars, pipe, index, seen, depth, contextVars, history>>

\* The nesting loop runs one index too far.
DecoratorEndsFault(c) ==
    /\ pc[c] \in {"step", "unwind"}
    /\ depth' = [depth EXCEPT ![c] = @ - 1]
    /\ \E o \in Outcome : outcome' = [outcome EXCEPT ![c] = o]
    /\ pc' = [pc EXCEPT ![c] = "unwind"]
    /\ UNCHANGED <<builderVars, pipe, index, seen, contextVars, history>>

(* A decorator ends, before or after it called what it wraps, with an      *)
(* outcome of its own.                                                     *)
DecoratorEnds(c) ==
    /\ pc[c] \in {"step", "unwind"} /\ depth[c] > 0
    /\ depth' = [depth EXCEPT ![c] = @ - 1]
    /\ \E o \in Outcome : outcome' = [outcome EXCEPT ![c] = o]
    /\ pc' = [pc EXCEPT ![c] = "unwind"]
    /\ UNCHANGED <<builderVars, pipe, index, seen, contextVars, history>>

(* A decorator calls what it wraps once more.                              *)
DecoratorRetries(c) ==
    /\ pc[c] = "unwind" /\ depth[c] > 0
    /\ pc' = [pc EXCEPT ![c] = "step"]
    /\ UNCHANGED <<builderVars, pipe, index, seen, depth, outcome, contextVars, history>>

StepReturns(c) ==
    /\ pc[c] = "unwind" /\ depth[c] = 0 /\ outcome[c] = "ok"
    /\ pc' = [pc EXCEPT ![c] = "check"]
    /\ UNCHANGED <<builderVars, pipe, index, seen, depth, outcome, contextVars, history>>

StepThrows(c) ==
    /\ pc[c] = "unwind" /\ depth[c] = 0 /\ outcome[c] = "error"
    /\ Raise(c)
    /\ UNCHANGED <<builderVars, pipe, index, seen, depth, outcome, isCancelled, finallyThrew, history>>

\* Every exception is taken for a cancellation.
StepCancelsFault(c) ==
    /\ pc[c] = "unwind" /\ depth[c] = 0 /\ outcome[c] # "ok"
    /\ state' = [state EXCEPT ![c] = "Cancelled"]
    /\ pc' = [pc EXCEPT ![c] = "finally"]
    /\ UNCHANGED <<builderVars, pipe, index, seen, depth, outcome, isCancelled, caught, finallyThrew, history>>

StepCancels(c) ==
    /\ pc[c] = "unwind" /\ depth[c] = 0 /\ outcome[c] = "cancel"
    /\ state' = [state EXCEPT ![c] = "Cancelled"]
    /\ pc' = [pc EXCEPT ![c] = "finally"]
    /\ UNCHANGED <<builderVars, pipe, index, seen, depth, outcome, isCancelled, caught, finallyThrew, history>>

\* The check does not leave the loop.
CheckCancelledFault(c) ==
    /\ pc[c] = "check"
    /\ pc' = [pc EXCEPT ![c] = "next"]
    /\ UNCHANGED <<builderVars, pipe, index, seen, depth, outcome, contextVars, history>>

CheckCancelled(c) ==
    /\ pc[c] = "check"
    /\ pc' = [pc EXCEPT ![c] = IF isCancelled[c] THEN "settle" ELSE "next"]
    /\ UNCHANGED <<builderVars, pipe, index, seen, depth, outcome, contextVars, history>>

\* A run whose loop ended without an exception is done.
SettleFault(c) ==
    /\ pc[c] = "settle"
    /\ state' = [state EXCEPT ![c] = "Done"]
    /\ pc' = [pc EXCEPT ![c] = "finally"]
    /\ UNCHANGED <<builderVars, pipe, index, seen, depth, outcome, isCancelled, caught, finallyThrew, history>>

(* IsCancelled is read again: the answer may differ from the check's.      *)
Settle(c) ==
    /\ pc[c] = "settle"
    /\ state' = [state EXCEPT ![c] = IF isCancelled[c] THEN "Cancelled" ELSE "Done"]
    /\ pc' = [pc EXCEPT ![c] = "finally"]
    /\ UNCHANGED <<builderVars, pipe, index, seen, depth, outcome, isCancelled, caught, finallyThrew, history>>

\* An exception of the catch action leaves Run before the finally action.
CatchEndsFault(c) ==
    /\ pc[c] = "catch"
    /\ \/ UNCHANGED state /\ pc' = [pc EXCEPT ![c] = "finally"]
       \/ state' = [state EXCEPT ![c] = "Fatal"] /\ pc' = [pc EXCEPT ![c] = "idle"]
    /\ UNCHANGED <<builderVars, pipe, index, seen, depth, outcome, isCancelled, caught, finallyThrew, history>>

CatchEnds(c) ==
    /\ pc[c] = "catch"
    /\ \/ UNCHANGED state
       \/ state' = [state EXCEPT ![c] = "Fatal"]
    /\ pc' = [pc EXCEPT ![c] = "finally"]
    /\ UNCHANGED <<builderVars, pipe, index, seen, depth, outcome, isCancelled, caught, finallyThrew, history>>

(* A finally action that throws turns any state to Fatal.                  *)
FinallyEnds(c) ==
    /\ pc[c] = "finally"
    /\ \/ UNCHANGED <<state, finallyThrew>>
       \/ /\ built[pipe[c]].finally
          /\ finallyThrew' = [finallyThrew EXCEPT ![c] = TRUE]
          /\ state' = [state EXCEPT ![c] = "Fatal"]
    /\ pc' = [pc EXCEPT ![c] = "idle"]
    /\ UNCHANGED <<builderVars, pipe, index, seen, depth, outcome, isCancelled, caught, history>>

Advance(c) == \/ MoveNextThrows(c) \/ ProcessStep(c) \/ LoopEnds(c)
              \/ CallInner(c) \/ ActionEnds(c) \/ DecoratorEnds(c)
              \/ StepReturns(c) \/ StepThrows(c) \/ StepCancels(c)
              \/ CheckCancelled(c) \/ Settle(c)
              \/ CatchEnds(c) \/ FinallyEnds(c)

Changes == BuilderNext /\ UNCHANGED <<runVars, contextVars, history>>

Next == \/ Changes
        \/ \E c \in Context : \/ CancelPipeline(c)
                              \/ \E p \in Pipeline : Run(c, p)
                              \/ Advance(c)
                              \/ DecoratorRetries(c)

Safe == Init /\ [][Next]_vars

(* Steps, catch and finally actions and decorators are assumed to end, and *)
(* a decorator to give up retrying at last; nobody has to cancel, to use   *)
(* the builder or to start a run.                                          *)
Spec == /\ Safe
        /\ \A c \in Context : WF_vars(Advance(c)) /\ SF_vars(DecoratorEnds(c))
----------------------------------------------------------------------------
TypeOK == /\ BuilderTypeOK
          /\ pc \in [Context -> PC]
          /\ pipe \in [Context -> Pipeline]
          /\ index \in [Context -> Nat]
          /\ seen \in [Context -> 0..MaxChanges]
          /\ depth \in [Context -> 0..MaxDecorators]
          /\ outcome \in [Context -> Outcome]
          /\ state \in [Context -> State]
          /\ isCancelled \in [Context -> BOOLEAN]
          /\ caught \in [Context -> BOOLEAN]
          /\ finallyThrew \in [Context -> BOOLEAN]
          /\ processed \in [Context -> Seq(AnyStep)]
          /\ expected \in [Context -> Seq(AnyStep)]
          /\ late \in [Context -> Nat]

(* Whatever happens to the builder while a run goes on, the run processes  *)
(* the steps its list held when it began, in order, none skipped and none  *)
(* twice, as far as it gets (Pipeline lines 34-38).                        *)
ProcessedInOrder ==
    \A c \in Context : \E n \in 0..Len(expected[c]) :
        processed[c] = SubSeq(expected[c], 1, n)

(* Done is said only of a run that has processed every step the list held  *)
(* when it began (line 47).                                                *)
DoneIsComplete ==
    \A c \in Context : state[c] = "Done" => processed[c] = expected[c]

(* A context that is cancelled, even by another thread between the check   *)
(* and the next step, or before the run, gets into at most one more step   *)
(* (lines 39-43).                                                          *)
AtMostOneLateStep == \A c \in Context : late[c] <= 1

(* Cancelled is said only of a run whose context was cancelled, or that a  *)
(* step ended by a PipelineCancelledException; and such a run has raised   *)
(* no other exception (lines 47-53).                                       *)
CancelledIsAskedFor ==
    \A c \in Context : state[c] = "Cancelled" =>
        outcome[c] = "cancel" \/ (isCancelled[c] /\ outcome[c] = "ok")

(* A run ends badly only with an exception to show for it in the context   *)
(* (lines 54-91).                                                          *)
BadEndShowsException ==
    \A c \in Context :
        /\ state[c] = "Ko" => caught[c]
        /\ state[c] = "Fatal" => caught[c] \/ finallyThrew[c]
----------------------------------------------------------------------------
Phase(c) == IF pc[c] \in {"idle", "catch", "finally"} THEN pc[c] ELSE "body"
Handlers(c) == {h \in {"catch", "finally"} : state[c] # "None" /\ built[pipe[c]][h]}

Abstract == INSTANCE TryCatchFinally WITH
                phase <- [c \in Context |-> Phase(c)],
                handlers <- [c \in Context |-> Handlers(c)]

(* Run behaves like one try/catch/finally statement around all the steps,  *)
(* and ends on every path, though the builder may change under it (lines   *)
(* 28-93).                                                                 *)
ImplementsTryCatchFinally == Abstract!Spec
============================================================================
