-------------------------- MODULE PipelineBuilder --------------------------
(***************************************************************************)
(* PipelineBuilder: a scoped, mutable object from which pipelines are      *)
(* built.  Build gives a pipeline the builder's step list itself, and      *)
(* copies of everything else; the model keeps one `steps` list that every  *)
(* built pipeline enumerates, with the version List<T> stamps its changes  *)
(* with.                                                                   *)
(***************************************************************************)
EXTENDS OrderBy

CONSTANTS StepName,      \* names of the steps piped by hand
          Registered,    \* the step processors, in registration order
          ProcessorOrder,\* [processor -> Int], IPipelineStepProcessor.Order
          Pipeline,      \* the pipelines that may be built
          MaxChanges,    \* bound on the changes of the step list
          MaxDecorators  \* bound on the decorators added

ASSUME BuilderAssumption ==
    /\ MaxChanges \in Nat /\ MaxDecorators \in Nat
    /\ Registered \in Seq({Registered[i] : i \in DOMAIN Registered})

(* The constructor pipes the registered processors in ascending Order.     *)
FirstSteps == Ordered(Registered, ProcessorOrder)

AnyStep == StepName \cup {FirstSteps[i] : i \in DOMAIN FirstSteps}

VARIABLES steps,         \* the builder's list, shared with its pipelines
          version,       \* List<T>._version
          decorators,    \* number of step decorators
          catchAction,   \* is there a catch action
          finallyAction, \* is there a finally action
          built          \* the pipelines built so far, as Build captured them

builderVars == <<steps, version, decorators, catchAction, finallyAction, built>>

(* A pipeline: what its constructor copied.                                *)
NotBuilt == [exists |-> FALSE, decorators |-> 0, catch |-> FALSE, finally |-> FALSE]

BuilderInit == /\ steps = FirstSteps
               /\ version = 0
               /\ decorators = 0
               /\ catchAction = FALSE
               /\ finallyAction = FALSE
               /\ built = [p \in Pipeline |-> NotBuilt]

Build(p) == /\ ~built[p].exists
            /\ built' = [built EXCEPT ![p] =
                   [exists |-> TRUE, decorators |-> decorators, catch |-> catchAction,
                    finally |-> finallyAction]]
            /\ UNCHANGED <<steps, version, decorators, catchAction, finallyAction>>

(* Both overloads of Pipe; the keyed one throws before it adds anything    *)
(* when the service is missing.                                            *)
Pipe(s) == /\ version < MaxChanges
           /\ steps' = Append(steps, s)
           /\ version' = version + 1
           /\ UNCHANGED <<decorators, catchAction, finallyAction, built>>

Catch == /\ catchAction' = TRUE
         /\ UNCHANGED <<steps, version, decorators, finallyAction, built>>

Finally == /\ finallyAction' = TRUE
           /\ UNCHANGED <<steps, version, decorators, catchAction, built>>

AddStepDecorator == /\ decorators < MaxDecorators
                    /\ decorators' = decorators + 1
                    /\ UNCHANGED <<steps, version, catchAction, finallyAction, built>>

Clear == /\ version < MaxChanges
         /\ steps' = <<>>
         /\ version' = version + 1
         /\ decorators' = 0
         /\ catchAction' = FALSE
         /\ finallyAction' = FALSE
         /\ UNCHANGED built

BuilderNext == \/ \E p \in Pipeline : Build(p)
               \/ \E s \in StepName : Pipe(s)
               \/ Catch
               \/ Finally
               \/ AddStepDecorator
               \/ Clear

BuilderTypeOK ==
    /\ steps \in Seq(AnyStep)
    /\ version \in 0..MaxChanges
    /\ decorators \in 0..MaxDecorators
    /\ catchAction \in BOOLEAN
    /\ finallyAction \in BOOLEAN
    /\ built \in [Pipeline -> [exists : BOOLEAN, decorators : 0..MaxDecorators,
                               catch : BOOLEAN, finally : BOOLEAN]]
============================================================================
