------------------------- MODULE PipelineRunProofs -------------------------
(***************************************************************************)
(* What TLAPS proves of PipelineRun, for any step processors, steps,       *)
(* pipelines and contexts and any changes of the builder.                  *)
(*                                                                         *)
(* The order of the steps rests on the enumerator: it refuses to go on     *)
(* over a list that has changed, so that a version that is still the one   *)
(* it has captured means the list the run began with (EnumeratorKnows).    *)
(* The final states rest on where the run stands (RunKnows).               *)
(***************************************************************************)
EXTENDS PipelineRun, SequenceTheorems, TLAPS

(* The enumerator: as long as the version it has captured is the list's,   *)
(* the list is the one the run began with, of which it has delivered the   *)
(* first `index` steps.                                                    *)
EnumeratorKnows ==
    \A c \in Context :
        /\ seen[c] <= version
        /\ pc[c] # "idle" /\ seen[c] = version => steps = expected[c]
        /\ index[c] <= Len(expected[c])
        /\ processed[c] = SubSeq(expected[c], 1, index[c])
        /\ state[c] = "Done" => index[c] = Len(expected[c])

(* Where a run stands tells its state, how its last step ended and why the *)
(* loop was left.                                                          *)
Body == PC \ {"idle", "catch", "finally"}
RunKnows ==
    \A c \in Context :
        /\ pc[c] \in Body => state[c] = "Running"
        /\ pc[c] \in {"next", "check", "settle"} => outcome[c] = "ok"
        /\ pc[c] = "settle" => isCancelled[c] \/ index[c] = Len(expected[c])
        /\ pc[c] = "catch" => state[c] = "Ko"
        /\ pc[c] = "finally" => state[c] # "None"

(* A step that began too late has been cancelled for good.                 *)
LateKnows ==
    \A c \in Context :
        /\ late[c] = 0 \/ (late[c] = 1 /\ isCancelled[c])
        /\ pc[c] = "next" => late[c] = 0

(* A context that has ever been in a run is in one of a built pipeline.    *)
PipeIsBuilt == \A c \in Context : state[c] # "None" => built[pipe[c]].exists

IInv == TypeOK /\ EnumeratorKnows /\ RunKnows /\ LateKnows /\ PipeIsBuilt
        /\ CancelledIsAskedFor /\ BadEndShowsException
----------------------------------------------------------------------------
(* A new builder has a list, as long as the processors are many.           *)
LEMMA InitialSteps == FirstSteps \in Seq(AnyStep)
<1>1. DOMAIN FirstSteps = 1..Len(Registered) /\ Len(Registered) \in Nat
  BY BuilderAssumption DEF FirstSteps, Ordered
<1>2. FirstSteps \in [1..Len(Registered) -> AnyStep]
  <2>1. \A i \in 1..Len(Registered) : FirstSteps[i] \in AnyStep  BY <1>1 DEF AnyStep
  <2>2. FirstSteps = [i \in 1..Len(Registered) |-> FirstSteps[i]]
    BY <1>1 DEF FirstSteps, Ordered
  <2> QED  BY <2>1, <2>2
<1> QED  BY <1>1, <1>2

(* One more step makes the next prefix of the list.                        *)
LEMMA Prefixes ==
    ASSUME NEW S, NEW s \in Seq(S)
    PROVE  /\ SubSeq(s, 1, 0) = <<>>
           /\ SubSeq(s, 1, Len(s)) = s
           /\ Len(s) \in Nat
           /\ \A k \in 0..Len(s) - 1 :
                 /\ s[k + 1] \in S
                 /\ Append(SubSeq(s, 1, k), s[k + 1]) = SubSeq(s, 1, k + 1)
<1>1. SubSeq(s, 1, 0) = <<>> /\ SubSeq(s, 1, Len(s)) = s /\ Len(s) \in Nat  OBVIOUS
<1>2. ASSUME NEW k \in 0..Len(s) - 1
      PROVE  /\ s[k + 1] \in S
             /\ Append(SubSeq(s, 1, k), s[k + 1]) = SubSeq(s, 1, k + 1)
  OBVIOUS
<1> QED  BY <1>1, <1>2

(* No context has run.                                                     *)
LEMMA InitInv == Init => IInv
<1> SUFFICES ASSUME Init PROVE IInv  OBVIOUS
<1> USE BuilderAssumption DEF Init, BuilderInit
<1>1. BuilderTypeOK
  <2>1. built \in [Pipeline -> [exists : BOOLEAN, decorators : 0..MaxDecorators,
                                catch : BOOLEAN, finally : BOOLEAN]]
    BY DEF NotBuilt
  <2>2. version \in 0..MaxChanges /\ decorators \in 0..MaxDecorators  OBVIOUS
  <2>3. catchAction \in BOOLEAN /\ finallyAction \in BOOLEAN  OBVIOUS
  <2> QED  BY <2>1, <2>2, <2>3, InitialSteps DEF BuilderTypeOK
<1>2. TypeOK
  <2>1. <<>> \in Seq(AnyStep)  OBVIOUS
  <2> QED  BY <1>1, <2>1 DEF TypeOK, PC, Outcome, State
<1>3. EnumeratorKnows
  <2>1. Len(<<>>) = 0 /\ SubSeq(<<>>, 1, 0) = <<>>  OBVIOUS
  <2> QED  BY <2>1 DEF EnumeratorKnows
<1>4. RunKnows /\ LateKnows /\ PipeIsBuilt
  BY DEF RunKnows, LateKnows, PipeIsBuilt, Body, PC
<1>5. CancelledIsAskedFor /\ BadEndShowsException
  BY DEF CancelledIsAskedFor, BadEndShowsException
<1> QED  BY <1>1, <1>2, <1>3, <1>4, <1>5 DEF IInv

(* A run sees the builder's changes only through the list and its version. *)
LEMMA ChangesInv == IInv /\ Changes => IInv'
<1> SUFFICES ASSUME IInv, Changes PROVE IInv'  OBVIOUS
<1> USE BuilderAssumption
   DEF IInv, TypeOK, BuilderTypeOK, Changes, BuilderNext, Build, Pipe, Catch, Finally,
       AddStepDecorator, Clear, runVars, contextVars, history,
       PC, Body, Outcome, State
<1>1. TypeOK'
  <2>1. StepName \subseteq AnyStep  BY DEF AnyStep
  <2>2. steps' \in Seq(AnyStep)
    <3>1. CASE \E s \in StepName : Pipe(s)  BY <2>1, <3>1
    <3>2. CASE Clear  BY <3>2
    <3>3. CASE UNCHANGED steps  BY <3>3
    <3> QED  BY <3>1, <3>2, <3>3
  <2>3. version' \in 0..MaxChanges /\ decorators' \in 0..MaxDecorators  OBVIOUS
  <2>4. catchAction' \in BOOLEAN /\ finallyAction' \in BOOLEAN  OBVIOUS
  <2>5. built' \in [Pipeline -> [exists : BOOLEAN, decorators : 0..MaxDecorators,
                                 catch : BOOLEAN, finally : BOOLEAN]]
    <3>1. CASE \E p \in Pipeline : Build(p)  BY <3>1
    <3>2. CASE UNCHANGED built  BY <3>2
    <3> QED  BY <3>1, <3>2
  <2> QED  BY <2>2, <2>3, <2>4, <2>5
<1>2. EnumeratorKnows'
  <2>1. UNCHANGED <<pc, index, seen, state, processed, expected>>  OBVIOUS
  <2>2. \/ version' = version /\ steps' = steps
        \/ version' = version + 1
    OBVIOUS
  <2>3. version \in Nat /\ seen \in [Context -> Nat]  OBVIOUS
  <2>4. EnumeratorKnows  OBVIOUS
  <2> HIDE DEF IInv, TypeOK, Changes
  <2>5. ASSUME NEW c \in Context
        PROVE  /\ seen[c]' <= version'
               /\ pc[c]' # "idle" /\ seen[c]' = version' => steps' = expected[c]'
    BY <2>1, <2>2, <2>3, <2>4 DEF EnumeratorKnows
  <2>6. ASSUME NEW c \in Context
        PROVE  /\ index[c]' <= Len(expected[c]')
               /\ processed[c]' = SubSeq(expected[c]', 1, index[c]')
               /\ state[c]' = "Done" => index[c]' = Len(expected[c]')
    BY <2>1, <2>4 DEF EnumeratorKnows
  <2> QED  BY <2>5, <2>6 DEF EnumeratorKnows
<1>3. RunKnows'  BY DEF RunKnows
<1>4. LateKnows'  BY DEF LateKnows, RunKnows
<1>5. PipeIsBuilt'  BY DEF PipeIsBuilt, RunKnows
<1>6. CancelledIsAskedFor'  BY DEF CancelledIsAskedFor, RunKnows
<1>7. BadEndShowsException'  BY DEF BadEndShowsException, RunKnows
<1> QED  BY <1>1, <1>2, <1>3, <1>4, <1>5, <1>6, <1>7

(* To be cancelled takes nothing back.                                     *)
LEMMA CancelPipelineInv == \A c \in Context : IInv /\ CancelPipeline(c) => IInv'
<1> SUFFICES ASSUME NEW c \in Context, IInv, CancelPipeline(c) PROVE IInv'  OBVIOUS
<1> USE BuilderAssumption
   DEF IInv, TypeOK, BuilderTypeOK, CancelPipeline, builderVars, runVars, history,
       PC, Body, Outcome, State
<1>1. TypeOK'  OBVIOUS
<1>2. EnumeratorKnows'  BY DEF EnumeratorKnows
<1>3. RunKnows'  BY DEF RunKnows
<1>4. LateKnows'  BY DEF LateKnows, RunKnows
<1>5. PipeIsBuilt'  BY DEF PipeIsBuilt, RunKnows
<1>6. CancelledIsAskedFor'  BY DEF CancelledIsAskedFor, RunKnows
<1>7. BadEndShowsException'  BY DEF BadEndShowsException, RunKnows
<1> QED  BY <1>1, <1>2, <1>3, <1>4, <1>5, <1>6, <1>7

(* A run begins with the list as it is.                                    *)
LEMMA RunInv == \A c \in Context, p \in Pipeline : IInv /\ Run(c, p) => IInv'
<1> SUFFICES ASSUME NEW c \in Context, NEW p \in Pipeline, IInv, Run(c, p) PROVE IInv'
  OBVIOUS
<1> USE BuilderAssumption
   DEF IInv, TypeOK, BuilderTypeOK, Run, builderVars,
       PC, Body, Outcome, State
<1>1. TypeOK'
  <2>1. BuilderTypeOK'  OBVIOUS
  <2>2. pc' \in [Context -> PC] /\ pipe' \in [Context -> Pipeline]  OBVIOUS
  <2>3. index' \in [Context -> Nat] /\ seen' \in [Context -> 0..MaxChanges]  OBVIOUS
  <2>4. depth' \in [Context -> 0..MaxDecorators] /\ late' \in [Context -> Nat]  OBVIOUS
  <2>5. outcome' \in [Context -> Outcome] /\ state' \in [Context -> State]  OBVIOUS
  <2>6. <<>> \in Seq(AnyStep)  OBVIOUS
  <2>7. processed' \in [Context -> Seq(AnyStep)]  BY <2>6
  <2>8. expected' \in [Context -> Seq(AnyStep)]  OBVIOUS
  <2> QED  BY <2>1, <2>2, <2>3, <2>4, <2>5, <2>7, <2>8
<1>2. EnumeratorKnows'
  <2>1. Len(steps) \in Nat /\ SubSeq(steps, 1, 0) = <<>>  BY Prefixes
  <2>2. /\ seen'[c] = version' /\ expected'[c] = steps' /\ index'[c] = 0
        /\ processed'[c] = <<>> /\ state'[c] = "Running"
    OBVIOUS
  <2>3. ASSUME NEW d \in Context, d # c
        PROVE  /\ seen'[d] = seen[d] /\ pc'[d] = pc[d] /\ index'[d] = index[d]
               /\ expected'[d] = expected[d] /\ processed'[d] = processed[d]
               /\ state'[d] = state[d]
    BY <2>3
  <2>4. version' = version /\ steps' = steps /\ version \in Int  OBVIOUS
  <2>5. ASSUME NEW d \in Context
        PROVE  /\ seen'[d] <= version'
               /\ pc'[d] # "idle" /\ seen'[d] = version' => steps' = expected'[d]
               /\ index'[d] <= Len(expected'[d])
               /\ processed'[d] = SubSeq(expected'[d], 1, index'[d])
               /\ state'[d] = "Done" => index'[d] = Len(expected'[d])
    <3>1. CASE d = c  BY <2>1, <2>2, <2>4, <3>1
    <3>2. CASE d # c  BY <2>3, <2>4, <3>2 DEF EnumeratorKnows
    <3> QED  BY <3>1, <3>2
  <2> QED  BY <2>5 DEF EnumeratorKnows
<1>3. RunKnows'  BY DEF RunKnows
<1>4. LateKnows'  BY DEF LateKnows, RunKnows
<1>5. PipeIsBuilt'  BY DEF PipeIsBuilt, RunKnows
<1>6. CancelledIsAskedFor'  BY DEF CancelledIsAskedFor, RunKnows
<1>7. BadEndShowsException'  BY DEF BadEndShowsException, RunKnows
<1> QED  BY <1>1, <1>2, <1>3, <1>4, <1>5, <1>6, <1>7

(* An exception has been caught before the state says so.                  *)
LEMMA MoveNextThrowsInv == \A c \in Context : IInv /\ MoveNextThrows(c) => IInv'
<1> SUFFICES ASSUME NEW c \in Context, IInv, MoveNextThrows(c) PROVE IInv'  OBVIOUS
<1> USE BuilderAssumption
   DEF IInv, TypeOK, BuilderTypeOK, MoveNextThrows, Raise, Modified, builderVars, contextVars,
       history,
       PC, Body, Outcome, State
<1>1. TypeOK'  OBVIOUS
<1>2. EnumeratorKnows'
  <2>1. state' = [state EXCEPT ![c] = "Ko"] \/ state' = [state EXCEPT ![c] = "Fatal"]  OBVIOUS
  <2> QED  BY <2>1 DEF EnumeratorKnows
<1>3. RunKnows'
  <2>1. CASE built[pipe[c]].catch
    <3>1. state' = [state EXCEPT ![c] = "Ko"] /\ pc' = [pc EXCEPT ![c] = "catch"]  BY <2>1
    <3> QED  BY <3>1 DEF RunKnows
  <2>2. CASE ~built[pipe[c]].catch
    <3>1. state' = [state EXCEPT ![c] = "Fatal"] /\ pc' = [pc EXCEPT ![c] = "finally"]
      BY <2>2
    <3> QED  BY <3>1 DEF RunKnows
  <2> QED  BY <2>1, <2>2
<1>4. LateKnows'  BY DEF LateKnows, RunKnows
<1>5. PipeIsBuilt'  BY DEF PipeIsBuilt, RunKnows
<1>6. CancelledIsAskedFor'
  <2>1. state'[c] # "Cancelled"  OBVIOUS
  <2>2. \A d \in Context : d # c => state'[d] = state[d]  OBVIOUS
  <2> QED  BY <2>1, <2>2 DEF CancelledIsAskedFor
<1>7. BadEndShowsException'  BY DEF BadEndShowsException, RunKnows
<1> QED  BY <1>1, <1>2, <1>3, <1>4, <1>5, <1>6, <1>7

(* The step delivered is the next one of the list the run began with.      *)
LEMMA ProcessStepInv == \A c \in Context : IInv /\ ProcessStep(c) => IInv'
<1> SUFFICES ASSUME NEW c \in Context, IInv, ProcessStep(c) PROVE IInv'  OBVIOUS
<1> USE BuilderAssumption
   DEF IInv, TypeOK, BuilderTypeOK, ProcessStep, Modified, builderVars, contextVars, history,
       PC, Body, Outcome, State
<1> DEFINE n == index[c]
<1>0. /\ steps = expected[c] /\ n \in 0..Len(expected[c]) - 1 /\ state[c] = "Running"
      /\ processed[c] = SubSeq(expected[c], 1, n) /\ expected[c] \in Seq(AnyStep)
      /\ late[c] = 0
  <2>1. steps = expected[c]  BY DEF EnumeratorKnows
  <2>2. n \in 0..Len(expected[c]) - 1  BY <2>1, Prefixes
  <2> QED  BY <2>1, <2>2 DEF EnumeratorKnows, RunKnows, LateKnows
<1>a. /\ steps[n + 1] \in AnyStep
      /\ Append(processed[c], steps[n + 1]) = SubSeq(expected[c], 1, n + 1)
  BY <1>0, Prefixes
<1>b. Append(processed[c], steps[n + 1]) \in Seq(AnyStep)
  <2>1. \A q \in Seq(AnyStep), x \in AnyStep : Append(q, x) \in Seq(AnyStep)
    BY AppendProperties
  <2>2. processed[c] \in Seq(AnyStep)  OBVIOUS
  <2> QED  BY <1>a, <2>1, <2>2
<1>c. /\ index' = [index EXCEPT ![c] = n + 1] /\ expected' = expected
      /\ processed' = [processed EXCEPT ![c] = Append(processed[c], steps[n + 1])]
  OBVIOUS
<1> HIDE DEF n
<1>1. TypeOK'
  <2>1. BuilderTypeOK'  OBVIOUS
  <2>2. pc' \in [Context -> PC] /\ index' \in [Context -> Nat]  BY SMTT(30)
  <2>3. late' \in [Context -> Nat]
    <3>1. late[c] + 1 \in Nat  BY <1>0
    <3> QED  BY <3>1
  <2>4. processed' \in [Context -> Seq(AnyStep)]
    BY <1>b, <1>c
  <2> QED  BY <2>1, <2>2, <2>3, <2>4
<1>2. EnumeratorKnows'
  <2>1. /\ index'[c] <= Len(expected'[c])
        /\ processed'[c] = SubSeq(expected'[c], 1, index'[c])
    <3>1. index'[c] = n + 1 /\ processed'[c] = Append(processed[c], steps[n + 1])  BY <1>c
    <3>2. Len(expected[c]) \in Nat  BY <1>0
    <3>3. n + 1 <= Len(expected[c])  BY <1>0, <3>2
    <3> QED  BY <1>a, <1>c, <3>1, <3>3
  <2>2. state'[c] # "Done"  BY <1>0
  <2>3. seen'[c] <= version' /\ (seen'[c] = version' => steps' = expected'[c])
    BY <1>0 DEF EnumeratorKnows
  <2>4. ASSUME NEW d \in Context, d # c
        PROVE  /\ seen'[d] = seen[d] /\ pc'[d] = pc[d] /\ index'[d] = index[d]
               /\ expected'[d] = expected[d] /\ processed'[d] = processed[d]
               /\ state'[d] = state[d]
    BY <2>4
  <2> QED  BY <2>1, <2>2, <2>3, <2>4 DEF EnumeratorKnows
<1>3. RunKnows'  BY DEF RunKnows
<1>4. LateKnows'
  <2>1. late'[c] = IF isCancelled[c] THEN 1 ELSE 0  BY <1>0
  <2>2. \A d \in Context : d # c => late'[d] = late[d] /\ pc'[d] = pc[d]  OBVIOUS
  <2> QED  BY <2>1, <2>2 DEF LateKnows
<1>5. PipeIsBuilt'  BY DEF PipeIsBuilt, RunKnows
<1>6. CancelledIsAskedFor'  BY DEF CancelledIsAskedFor, RunKnows
<1>7. BadEndShowsException'  BY DEF BadEndShowsException, RunKnows
<1> QED  BY <1>1, <1>2, <1>3, <1>4, <1>5, <1>6, <1>7

(* The loop ends by itself only at the end of that list.                   *)
LEMMA LoopEndsInv == \A c \in Context : IInv /\ LoopEnds(c) => IInv'
<1> SUFFICES ASSUME NEW c \in Context, IInv, LoopEnds(c) PROVE IInv'  OBVIOUS
<1> USE BuilderAssumption
   DEF IInv, TypeOK, BuilderTypeOK, LoopEnds, Modified, builderVars, contextVars, history,
       PC, Body, Outcome, State
<1>1. TypeOK'  OBVIOUS
<1>2. EnumeratorKnows'  BY DEF EnumeratorKnows
<1>3. RunKnows'
  <2>1. index[c] = Len(expected[c])
    <3>1. CASE expected[c] = <<>>
      <4>1. Len(<<>>) = 0  OBVIOUS
      <4> QED  BY <3>1, <4>1 DEF EnumeratorKnows
    <3>2. CASE expected[c] # <<>>
      <4>1. steps = expected[c] /\ index[c] >= Len(steps) /\ Len(expected[c]) \in Nat
        BY <3>2, Prefixes DEF EnumeratorKnows
      <4> QED  BY <4>1 DEF EnumeratorKnows
    <3> QED  BY <3>1, <3>2
  <2> QED  BY <2>1 DEF RunKnows
<1>4. LateKnows'  BY DEF LateKnows, RunKnows
<1>5. PipeIsBuilt'  BY DEF PipeIsBuilt, RunKnows
<1>6. CancelledIsAskedFor'  BY DEF CancelledIsAskedFor, RunKnows
<1>7. BadEndShowsException'  BY DEF BadEndShowsException, RunKnows
<1> QED  BY <1>1, <1>2, <1>3, <1>4, <1>5, <1>6, <1>7

(* A decorator is entered.                                                 *)
LEMMA CallInnerInv == \A c \in Context : IInv /\ CallInner(c) => IInv'
<1> SUFFICES ASSUME NEW c \in Context, IInv, CallInner(c) PROVE IInv'  OBVIOUS
<1> USE BuilderAssumption
   DEF IInv, TypeOK, BuilderTypeOK, CallInner, builderVars, contextVars, history,
       PC, Body, Outcome, State
<1>1. TypeOK'
  <2>1. BuilderTypeOK'  OBVIOUS
  <2>2. pc' \in [Context -> PC]
    <3>1. CASE UNCHANGED pc  BY <3>1
    <3>2. CASE pc' = [pc EXCEPT ![c] = "action"]  BY <3>2
    <3> QED  BY <3>1, <3>2
  <2>3. depth' \in [Context -> 0..MaxDecorators]
    <3>1. built[pipe[c]].decorators \in 0..MaxDecorators /\ depth[c] \in 0..MaxDecorators
      OBVIOUS
    <3>2. CASE depth[c] < built[pipe[c]].decorators
      <4>1. depth[c] + 1 \in 0..MaxDecorators  BY <3>1, <3>2
      <4> QED  BY <3>2, <4>1
    <3>3. CASE UNCHANGED depth  BY <3>3
    <3> QED  BY <3>2, <3>3
  <2> QED  BY <2>1, <2>2, <2>3
<1>2. EnumeratorKnows'  BY DEF EnumeratorKnows
<1>3. RunKnows'  BY DEF RunKnows
<1>4. LateKnows'  BY DEF LateKnows, RunKnows
<1>5. PipeIsBuilt'  BY DEF PipeIsBuilt, RunKnows
<1>6. CancelledIsAskedFor'  BY DEF CancelledIsAskedFor, RunKnows
<1>7. BadEndShowsException'  BY DEF BadEndShowsException, RunKnows
<1> QED  BY <1>1, <1>2, <1>3, <1>4, <1>5, <1>6, <1>7

(* The action ends in some way.                                            *)
LEMMA ActionEndsInv == \A c \in Context : IInv /\ ActionEnds(c) => IInv'
<1> SUFFICES ASSUME NEW c \in Context, IInv, ActionEnds(c) PROVE IInv'  OBVIOUS
<1> USE BuilderAssumption
   DEF IInv, TypeOK, BuilderTypeOK, ActionEnds, builderVars, contextVars, history,
       PC, Body, Outcome, State
<1>1. TypeOK'  OBVIOUS
<1>2. EnumeratorKnows'  BY DEF EnumeratorKnows
<1>3. RunKnows'  BY DEF RunKnows
<1>4. LateKnows'  BY DEF LateKnows, RunKnows
<1>5. PipeIsBuilt'  BY DEF PipeIsBuilt, RunKnows
<1>6. CancelledIsAskedFor'  BY DEF CancelledIsAskedFor, RunKnows
<1>7. BadEndShowsException'  BY DEF BadEndShowsException, RunKnows
<1> QED  BY <1>1, <1>2, <1>3, <1>4, <1>5, <1>6, <1>7

(* A decorator ends in some way.                                           *)
LEMMA DecoratorEndsInv == \A c \in Context : IInv /\ DecoratorEnds(c) => IInv'
<1> SUFFICES ASSUME NEW c \in Context, IInv, DecoratorEnds(c) PROVE IInv'  OBVIOUS
<1> USE BuilderAssumption
   DEF IInv, TypeOK, BuilderTypeOK, DecoratorEnds, builderVars, contextVars, history,
       PC, Body, Outcome, State
<1>1. TypeOK'
  <2>1. BuilderTypeOK'  OBVIOUS
  <2>2. pc' \in [Context -> PC] /\ outcome' \in [Context -> Outcome]  OBVIOUS
  <2>3. depth[c] - 1 \in 0..MaxDecorators  OBVIOUS
  <2>4. depth' \in [Context -> 0..MaxDecorators]  BY <2>3
  <2> QED  BY <2>1, <2>2, <2>4
<1>2. EnumeratorKnows'  BY DEF EnumeratorKnows
<1>3. RunKnows'  BY DEF RunKnows
<1>4. LateKnows'  BY DEF LateKnows, RunKnows
<1>5. PipeIsBuilt'  BY DEF PipeIsBuilt, RunKnows
<1>6. CancelledIsAskedFor'  BY DEF CancelledIsAskedFor, RunKnows
<1>7. BadEndShowsException'  BY DEF BadEndShowsException, RunKnows
<1> QED  BY <1>1, <1>2, <1>3, <1>4, <1>5, <1>6, <1>7

(* A decorator calls again.                                                *)
LEMMA DecoratorRetriesInv == \A c \in Context : IInv /\ DecoratorRetries(c) => IInv'
<1> SUFFICES ASSUME NEW c \in Context, IInv, DecoratorRetries(c) PROVE IInv'  OBVIOUS
<1> USE BuilderAssumption
   DEF IInv, TypeOK, BuilderTypeOK, DecoratorRetries, builderVars, contextVars, history,
       PC, Body, Outcome, State
<1>1. TypeOK'  OBVIOUS
<1>2. EnumeratorKnows'  BY DEF EnumeratorKnows
<1>3. RunKnows'  BY DEF RunKnows
<1>4. LateKnows'  BY DEF LateKnows, RunKnows
<1>5. PipeIsBuilt'  BY DEF PipeIsBuilt, RunKnows
<1>6. CancelledIsAskedFor'  BY DEF CancelledIsAskedFor, RunKnows
<1>7. BadEndShowsException'  BY DEF BadEndShowsException, RunKnows
<1> QED  BY <1>1, <1>2, <1>3, <1>4, <1>5, <1>6, <1>7

(* Only a good end of the step leads to the check.                         *)
LEMMA StepReturnsInv == \A c \in Context : IInv /\ StepReturns(c) => IInv'
<1> SUFFICES ASSUME NEW c \in Context, IInv, StepReturns(c) PROVE IInv'  OBVIOUS
<1> USE BuilderAssumption
   DEF IInv, TypeOK, BuilderTypeOK, StepReturns, builderVars, contextVars, history,
       PC, Body, Outcome, State
<1>1. TypeOK'  OBVIOUS
<1>2. EnumeratorKnows'  BY DEF EnumeratorKnows
<1>3. RunKnows'  BY DEF RunKnows
<1>4. LateKnows'  BY DEF LateKnows, RunKnows
<1>5. PipeIsBuilt'  BY DEF PipeIsBuilt, RunKnows
<1>6. CancelledIsAskedFor'  BY DEF CancelledIsAskedFor, RunKnows
<1>7. BadEndShowsException'  BY DEF BadEndShowsException, RunKnows
<1> QED  BY <1>1, <1>2, <1>3, <1>4, <1>5, <1>6, <1>7

(* An exception of the step has been caught before the state says so.      *)
LEMMA StepThrowsInv == \A c \in Context : IInv /\ StepThrows(c) => IInv'
<1> SUFFICES ASSUME NEW c \in Context, IInv, StepThrows(c) PROVE IInv'  OBVIOUS
<1> USE BuilderAssumption
   DEF IInv, TypeOK, BuilderTypeOK, StepThrows, Raise, builderVars, contextVars, history,
       PC, Body, Outcome, State
<1>1. TypeOK'  OBVIOUS
<1>2. EnumeratorKnows'  BY DEF EnumeratorKnows
<1>3. RunKnows'
  <2>1. CASE built[pipe[c]].catch
    <3>1. state' = [state EXCEPT ![c] = "Ko"] /\ pc' = [pc EXCEPT ![c] = "catch"]  BY <2>1
    <3> QED  BY <3>1 DEF RunKnows
  <2>2. CASE ~built[pipe[c]].catch
    <3>1. state' = [state EXCEPT ![c] = "Fatal"] /\ pc' = [pc EXCEPT ![c] = "finally"]
      BY <2>2
    <3> QED  BY <3>1 DEF RunKnows
  <2> QED  BY <2>1, <2>2
<1>4. LateKnows'  BY DEF LateKnows, RunKnows
<1>5. PipeIsBuilt'  BY DEF PipeIsBuilt, RunKnows
<1>6. CancelledIsAskedFor'
  <2>1. state'[c] # "Cancelled"  OBVIOUS
  <2>2. \A d \in Context : d # c => state'[d] = state[d]  OBVIOUS
  <2> QED  BY <2>1, <2>2 DEF CancelledIsAskedFor
<1>7. BadEndShowsException'  BY DEF BadEndShowsException, RunKnows
<1> QED  BY <1>1, <1>2, <1>3, <1>4, <1>5, <1>6, <1>7

(* Only a cancellation exception makes the run cancelled here.             *)
LEMMA StepCancelsInv == \A c \in Context : IInv /\ StepCancels(c) => IInv'
<1> SUFFICES ASSUME NEW c \in Context, IInv, StepCancels(c) PROVE IInv'  OBVIOUS
<1> USE BuilderAssumption
   DEF IInv, TypeOK, BuilderTypeOK, StepCancels, builderVars, contextVars, history,
       PC, Body, Outcome, State
<1>1. TypeOK'  OBVIOUS
<1>2. EnumeratorKnows'  BY DEF EnumeratorKnows
<1>3. RunKnows'  BY DEF RunKnows
<1>4. LateKnows'  BY DEF LateKnows, RunKnows
<1>5. PipeIsBuilt'  BY DEF PipeIsBuilt, RunKnows
<1>6. CancelledIsAskedFor'  BY DEF CancelledIsAskedFor, RunKnows
<1>7. BadEndShowsException'  BY DEF BadEndShowsException, RunKnows
<1> QED  BY <1>1, <1>2, <1>3, <1>4, <1>5, <1>6, <1>7

(* A step begun too late leaves the loop.                                  *)
LEMMA CheckCancelledInv == \A c \in Context : IInv /\ CheckCancelled(c) => IInv'
<1> SUFFICES ASSUME NEW c \in Context, IInv, CheckCancelled(c) PROVE IInv'  OBVIOUS
<1> USE BuilderAssumption
   DEF IInv, TypeOK, BuilderTypeOK, CheckCancelled, builderVars, contextVars, history,
       PC, Body, Outcome, State
<1>1. TypeOK'  OBVIOUS
<1>2. EnumeratorKnows'  BY DEF EnumeratorKnows
<1>3. RunKnows'  BY DEF RunKnows
<1>4. LateKnows'  BY DEF LateKnows, RunKnows
<1>5. PipeIsBuilt'  BY DEF PipeIsBuilt, RunKnows
<1>6. CancelledIsAskedFor'  BY DEF CancelledIsAskedFor, RunKnows
<1>7. BadEndShowsException'  BY DEF BadEndShowsException, RunKnows
<1> QED  BY <1>1, <1>2, <1>3, <1>4, <1>5, <1>6, <1>7

(* Without a cancellation the list is at its end.                          *)
LEMMA SettleInv == \A c \in Context : IInv /\ Settle(c) => IInv'
<1> SUFFICES ASSUME NEW c \in Context, IInv, Settle(c) PROVE IInv'  OBVIOUS
<1> USE BuilderAssumption
   DEF IInv, TypeOK, BuilderTypeOK, Settle, builderVars, contextVars, history,
       PC, Body, Outcome, State
<1>1. TypeOK'  OBVIOUS
<1>2. EnumeratorKnows'
  <2>1. state'[c] = "Done" => index[c] = Len(expected[c])  BY DEF RunKnows
  <2>2. \A d \in Context : (d # c => state'[d] = state[d]) /\ (pc'[d] # "idle" => pc[d] # "idle")
    OBVIOUS
  <2> QED  BY <2>1, <2>2 DEF EnumeratorKnows
<1>3. RunKnows'  BY DEF RunKnows
<1>4. LateKnows'  BY DEF LateKnows, RunKnows
<1>5. PipeIsBuilt'  BY DEF PipeIsBuilt, RunKnows
<1>6. CancelledIsAskedFor'  BY DEF CancelledIsAskedFor, RunKnows
<1>7. BadEndShowsException'  BY DEF BadEndShowsException, RunKnows
<1> QED  BY <1>1, <1>2, <1>3, <1>4, <1>5, <1>6, <1>7

(* The catch action runs with its exception caught.                        *)
LEMMA CatchEndsInv == \A c \in Context : IInv /\ CatchEnds(c) => IInv'
<1> SUFFICES ASSUME NEW c \in Context, IInv, CatchEnds(c) PROVE IInv'  OBVIOUS
<1> USE BuilderAssumption
   DEF IInv, TypeOK, BuilderTypeOK, CatchEnds, builderVars, contextVars, history,
       PC, Body, Outcome, State
<1>1. TypeOK'  OBVIOUS
<1>2. EnumeratorKnows'  BY DEF EnumeratorKnows
<1>3. RunKnows'  BY DEF RunKnows
<1>4. LateKnows'  BY DEF LateKnows, RunKnows
<1>5. PipeIsBuilt'  BY DEF PipeIsBuilt, RunKnows
<1>6. CancelledIsAskedFor'  BY DEF CancelledIsAskedFor, RunKnows
<1>7. BadEndShowsException'  BY DEF BadEndShowsException, RunKnows
<1> QED  BY <1>1, <1>2, <1>3, <1>4, <1>5, <1>6, <1>7

(* A finally action that throws leaves its exception.                      *)
LEMMA FinallyEndsInv == \A c \in Context : IInv /\ FinallyEnds(c) => IInv'
<1> SUFFICES ASSUME NEW c \in Context, IInv, FinallyEnds(c) PROVE IInv'  OBVIOUS
<1> USE BuilderAssumption
   DEF IInv, TypeOK, BuilderTypeOK, FinallyEnds, builderVars, contextVars, history,
       PC, Body, Outcome, State
<1>1. TypeOK'  OBVIOUS
<1>2. EnumeratorKnows'  BY DEF EnumeratorKnows
<1>3. RunKnows'  BY DEF RunKnows
<1>4. LateKnows'  BY DEF LateKnows, RunKnows
<1>5. PipeIsBuilt'  BY DEF PipeIsBuilt, RunKnows
<1>6. CancelledIsAskedFor'  BY DEF CancelledIsAskedFor, RunKnows
<1>7. BadEndShowsException'  BY DEF BadEndShowsException, RunKnows
<1> QED  BY <1>1, <1>2, <1>3, <1>4, <1>5, <1>6, <1>7

(* The builder, another holder of a context, or a run takes a step.        *)
LEMMA NextInv == IInv /\ [Next]_vars => IInv'
<1> SUFFICES ASSUME IInv, [Next]_vars PROVE IInv'  OBVIOUS
<1>1. CASE Changes  BY <1>1, ChangesInv
<1>2. ASSUME NEW c \in Context, CancelPipeline(c) PROVE IInv'  BY <1>2, CancelPipelineInv
<1>3. ASSUME NEW c \in Context, NEW p \in Pipeline, Run(c, p) PROVE IInv'  BY <1>3, RunInv
<1>4. ASSUME NEW c \in Context, Advance(c) PROVE IInv'
  BY <1>4, MoveNextThrowsInv, ProcessStepInv, LoopEndsInv, CallInnerInv, ActionEndsInv,
     DecoratorEndsInv, StepReturnsInv, StepThrowsInv, StepCancelsInv, CheckCancelledInv,
     SettleInv, CatchEndsInv, FinallyEndsInv DEF Advance
<1>5. ASSUME NEW c \in Context, DecoratorRetries(c) PROVE IInv'
  BY <1>5, DecoratorRetriesInv
<1>6. CASE UNCHANGED vars
  BY <1>6 DEF vars, builderVars, runVars, contextVars, history, IInv, TypeOK, BuilderTypeOK,
              EnumeratorKnows, RunKnows, LateKnows, PipeIsBuilt, CancelledIsAskedFor,
              BadEndShowsException
<1> QED  BY <1>1, <1>2, <1>3, <1>4, <1>5, <1>6 DEF Next

(* The inductive invariant holds of every reachable state.                 *)
LEMMA Invariant == Safe => []IInv
BY InitInv, NextInv, PTL DEF Safe

(* Every variable keeps its type: the enumerator's version is one the list *)
(* has had, and no decorator is entered that the pipeline does not have.   *)
THEOREM Types == Spec => []TypeOK
<1>1. IInv => TypeOK  BY DEF IInv
<1> QED  BY <1>1, Invariant, PTL DEF Spec

(* The steps of a run are those its list held when it began, in order, as  *)
(* far as it gets.                                                         *)
THEOREM Order == Spec => []ProcessedInOrder
<1>1. IInv => ProcessedInOrder
  <2> SUFFICES ASSUME IInv, NEW c \in Context
               PROVE  \E n \in 0..Len(expected[c]) :
                         processed[c] = SubSeq(expected[c], 1, n)
    BY DEF ProcessedInOrder
  <2>1. index[c] \in Nat /\ expected[c] \in Seq(AnyStep)  BY DEF IInv, TypeOK
  <2>2. index[c] <= Len(expected[c]) /\ processed[c] = SubSeq(expected[c], 1, index[c])
    BY DEF IInv, EnumeratorKnows
  <2>3. index[c] \in 0..Len(expected[c])  BY <2>1, <2>2
  <2> QED  BY <2>2, <2>3
<1> QED  BY <1>1, Invariant, PTL DEF Spec

(* A run that is Done has processed every step.                            *)
THEOREM Complete == Spec => []DoneIsComplete
<1>1. IInv => DoneIsComplete
  <2> SUFFICES ASSUME IInv, NEW c \in Context, state[c] = "Done"
               PROVE  processed[c] = expected[c]
    BY DEF DoneIsComplete
  <2>1. expected[c] \in Seq(AnyStep)  BY DEF IInv, TypeOK
  <2>2. processed[c] = SubSeq(expected[c], 1, Len(expected[c]))  BY DEF IInv, EnumeratorKnows
  <2> QED  BY <2>1, <2>2, Prefixes
<1> QED  BY <1>1, Invariant, PTL DEF Spec

(* At most one step of a run begins after its context was cancelled.       *)
THEOREM OneLateStep == Spec => []AtMostOneLateStep
<1>1. IInv => AtMostOneLateStep  BY DEF IInv, LateKnows, AtMostOneLateStep
<1> QED  BY <1>1, Invariant, PTL DEF Spec

(* A run is Cancelled only because somebody asked for it.                  *)
THEOREM Cancellation == Spec => []CancelledIsAskedFor
<1>1. IInv => CancelledIsAskedFor  BY DEF IInv
<1> QED  BY <1>1, Invariant, PTL DEF Spec

(* A run that is Ko or Fatal has an exception to show.                     *)
THEOREM BadEnds == Spec => []BadEndShowsException
<1>1. IInv => BadEndShowsException  BY DEF IInv
<1> QED  BY <1>1, Invariant, PTL DEF Spec
----------------------------------------------------------------------------
(* The statement around the steps, as the refinement sees it.              *)
Phases == [c \in Context |-> Phase(c)]
AllHandlers == [c \in Context |-> Handlers(c)]

(* Only the context that takes the step moves, and its pipeline stays.     *)
Moves(c) ==
    /\ \A d \in Context : d # c => pc'[d] = pc[d] /\ state'[d] = state[d]
    /\ state[c] # "None" /\ state'[c] # "None"
    /\ UNCHANGED <<pipe, built>>

(* Such a step enters the phase the context is in after it, and leaves     *)
(* every handler where it is.                                              *)
LEMMA MovesEnter ==
    \A c \in Context : TypeOK /\ TypeOK' /\ Moves(c) =>
        /\ Abstract!Enter(c, Phase(c)', state'[c])
        /\ UNCHANGED AllHandlers
<1> SUFFICES ASSUME NEW c \in Context, TypeOK, TypeOK', Moves(c)
             PROVE  Abstract!Enter(c, Phase(c)', state'[c]) /\ UNCHANGED AllHandlers
  OBVIOUS
<1>1. \A d \in Context : d # c => Phase(d)' = Phase(d)  BY DEF Moves, Phase
<1>2. Phases' = [Phases EXCEPT ![c] = Phase(c)']  BY <1>1 DEF Phases
<1>3. state' = [state EXCEPT ![c] = state'[c]]  BY DEF Moves, TypeOK
<1>4. \A d \in Context : Handlers(d)' = Handlers(d)  BY DEF Moves, Handlers
<1>5. UNCHANGED AllHandlers  BY <1>4 DEF AllHandlers
<1> QED  BY <1>2, <1>3, <1>5 DEF Abstract!Enter, Phases

(* A step that leaves phase and state alone is a stutter of the statement. *)
LEMMA MovesStutter ==
    \A c \in Context : TypeOK /\ TypeOK' /\ Moves(c) /\ Phase(c)' = Phase(c) /\ UNCHANGED state
        => UNCHANGED Abstract!vars
<1> SUFFICES ASSUME NEW c \in Context, TypeOK, TypeOK', Moves(c), Phase(c)' = Phase(c),
                    UNCHANGED state
             PROVE  UNCHANGED Abstract!vars
  OBVIOUS
<1>1. \A d \in Context : Phase(d)' = Phase(d)  BY DEF Moves, Phase
<1>2. UNCHANGED Phases  BY <1>1 DEF Phases
<1>3. UNCHANGED AllHandlers  BY MovesEnter
<1> QED  BY <1>2, <1>3 DEF Abstract!vars, Phases, AllHandlers

(* The handlers of a context in a run are those of its pipeline.           *)
LEMMA HandlersKnown ==
    \A c \in Context : state[c] # "None" =>
        /\ "catch" \in AllHandlers[c] <=> built[pipe[c]].catch
        /\ "finally" \in AllHandlers[c] <=> built[pipe[c]].finally
BY DEF AllHandlers, Handlers

(* No context has begun, and none has handlers.                            *)
LEMMA RefineInit == Init => Abstract!Init
<1> SUFFICES ASSUME Init PROVE Abstract!Init  OBVIOUS
<1>1. \A c \in Context : Phase(c) = "idle" /\ Handlers(c) = {}  BY DEF Init, Phase, Handlers
<1> QED  BY <1>1 DEF Init, Abstract!Init

(* A pipeline is built once: the builder does not reach the contexts.      *)
LEMMA RefineChanges == IInv /\ Changes => UNCHANGED Abstract!vars
<1> SUFFICES ASSUME IInv, Changes PROVE UNCHANGED Abstract!vars  OBVIOUS
<1>1. UNCHANGED <<pc, pipe, state>>  BY DEF Changes, runVars, contextVars
<1>2. ASSUME NEW c \in Context, state[c] # "None" PROVE built'[pipe[c]] = built[pipe[c]]
  <2>1. built[pipe[c]].exists /\ pipe[c] \in Pipeline  BY <1>2 DEF IInv, PipeIsBuilt, TypeOK
  <2>2. ASSUME NEW p \in Pipeline, Build(p) PROVE built'[pipe[c]] = built[pipe[c]]
    BY <2>1, <2>2 DEF Build, IInv, TypeOK, BuilderTypeOK
  <2> QED
    BY <2>2 DEF Changes, BuilderNext, Pipe, Catch, Finally, AddStepDecorator, Clear
<1>3. \A c \in Context : Handlers(c)' = Handlers(c)  BY <1>1, <1>2 DEF Handlers
<1>4. UNCHANGED AllHandlers  BY <1>3 DEF AllHandlers
<1>5. UNCHANGED Phases  BY <1>1 DEF Phases, Phase
<1> QED  BY <1>1, <1>4, <1>5 DEF Abstract!vars, Phases, AllHandlers

(* Run enters the statement, with the handlers of its pipeline.            *)
LEMMA RefineRun ==
    \A c \in Context, p \in Pipeline : IInv /\ IInv' /\ Run(c, p) => Abstract!Begin(c)
<1> SUFFICES ASSUME NEW c \in Context, NEW p \in Pipeline, IInv, IInv', Run(c, p)
             PROVE  Abstract!Begin(c)
  OBVIOUS
<1> USE DEF IInv, TypeOK
<1>1. Phases[c] = "idle"  BY DEF Phases, Phase, Run
<1>2. Phases' = [Phases EXCEPT ![c] = "body"]
  <2>1. Phase(c)' = "body"  BY DEF Phase, Run
  <2>2. \A d \in Context : d # c => Phase(d)' = Phase(d)  BY DEF Phase, Run
  <2> QED  BY <2>1, <2>2 DEF Phases
<1>3. state' = [state EXCEPT ![c] = "Running"]  BY DEF Run
<1>4. AllHandlers' = [AllHandlers EXCEPT ![c] = Handlers(c)']
  <2>1. \A d \in Context : d # c => Handlers(d)' = Handlers(d)
    BY DEF Handlers, Run, builderVars
  <2> QED  BY <2>1 DEF AllHandlers
<1>5. Handlers(c)' \in SUBSET {"catch", "finally"}  BY DEF Handlers
<1> QED  BY <1>1, <1>2, <1>3, <1>4, <1>5 DEF Abstract!Begin, Abstract!Enter, Phases, AllHandlers

(* The steps inside the loop, and a cancellation, are not seen.            *)
LEMMA RefineBody ==
    \A c \in Context :
        IInv /\ IInv' /\ (\/ ProcessStep(c) \/ LoopEnds(c) \/ CallInner(c) \/ ActionEnds(c)
                         \/ DecoratorEnds(c) \/ DecoratorRetries(c) \/ StepReturns(c)
                         \/ CheckCancelled(c))
        => UNCHANGED Abstract!vars
<1> SUFFICES ASSUME NEW c \in Context, IInv, IInv',
                    \/ ProcessStep(c) \/ LoopEnds(c) \/ CallInner(c) \/ ActionEnds(c)
                    \/ DecoratorEnds(c) \/ DecoratorRetries(c) \/ StepReturns(c)
                    \/ CheckCancelled(c)
             PROVE  UNCHANGED Abstract!vars
  OBVIOUS
<1> USE DEF ProcessStep, LoopEnds, CallInner, ActionEnds, DecoratorEnds, DecoratorRetries,
            StepReturns, CheckCancelled, contextVars, builderVars
<1>1. UNCHANGED <<state, pipe, built>>  OBVIOUS
<1>2. /\ pc[c] \in Body /\ pc'[c] \in Body
      /\ \A d \in Context : d # c => pc'[d] = pc[d]
  <2>1. pc \in [Context -> PC] /\ pc' \in [Context -> PC]  BY DEF IInv, TypeOK
  <2>2. pc[c] \in Body  BY DEF Body, PC
  <2>3. pc' = pc \/ \E x \in Body : pc' = [pc EXCEPT ![c] = x]  BY DEF Body, PC
  <2> HIDE DEF ProcessStep, LoopEnds, CallInner, ActionEnds, DecoratorEnds,
               DecoratorRetries, StepReturns, CheckCancelled
  <2> QED  BY <2>1, <2>2, <2>3
<1>3. state[c] = "Running"  BY <1>2 DEF IInv, RunKnows
<1>4. Phase(c)' = Phase(c)  BY <1>2 DEF Phase, Body
<1>5. Moves(c)  BY <1>1, <1>2, <1>3 DEF Moves
<1> QED  BY <1>1, <1>4, <1>5, MovesStutter DEF IInv

(* An exception of the body ends it as the statement says.                 *)
LEMMA RefineFails ==
    \A c \in Context :
        IInv /\ IInv' /\ (MoveNextThrows(c) \/ StepThrows(c)) => Abstract!BodyFails(c)
<1> SUFFICES ASSUME NEW c \in Context, IInv, IInv', MoveNextThrows(c) \/ StepThrows(c)
             PROVE  Abstract!BodyFails(c)
  OBVIOUS
<1>1. pc[c] \in {"next", "unwind"} /\ Raise(c) /\ UNCHANGED <<pipe, built>>
  BY DEF MoveNextThrows, StepThrows, builderVars
<1>2. state[c] = "Running" /\ Phases[c] = "body"
  BY <1>1 DEF IInv, RunKnows, Body, PC, Phases, Phase
<1>3. \/ built[pipe[c]].catch /\ state'[c] = "Ko" /\ pc'[c] = "catch"
      \/ ~built[pipe[c]].catch /\ state'[c] = "Fatal" /\ pc'[c] = "finally"
  BY <1>1 DEF Raise, IInv, TypeOK
<1>4. \A d \in Context : d # c => pc'[d] = pc[d] /\ state'[d] = state[d]
  <2>1. \E x, y : pc' = [pc EXCEPT ![c] = x] /\ state' = [state EXCEPT ![c] = y]
    BY <1>1 DEF Raise
  <2> QED  BY <2>1 DEF IInv, TypeOK
<1>5. Moves(c)  BY <1>1, <1>2, <1>3, <1>4 DEF Moves
<1>6. Abstract!Enter(c, Phase(c)', state'[c]) /\ UNCHANGED AllHandlers
  BY <1>5, MovesEnter DEF IInv
<1>7. "catch" \in AllHandlers[c] <=> built[pipe[c]].catch  BY <1>2, HandlersKnown
<1>8. Phase(c)' = pc'[c]  BY <1>3 DEF Phase
<1>9. IF "catch" \in AllHandlers[c] THEN Abstract!Enter(c, "catch", "Ko")
                                    ELSE Abstract!Enter(c, "finally", "Fatal")
  BY <1>3, <1>6, <1>7, <1>8
<1> QED  BY <1>2, <1>6, <1>9 DEF Abstract!BodyFails, Phases, AllHandlers

(* Settling, or a cancellation exception, ends the body.                   *)
LEMMA RefineEnds ==
    \A c \in Context : IInv /\ IInv' /\ (Settle(c) \/ StepCancels(c)) => Abstract!BodyEnds(c)
<1> SUFFICES ASSUME NEW c \in Context, IInv, IInv', Settle(c) \/ StepCancels(c)
             PROVE  Abstract!BodyEnds(c)
  OBVIOUS
<1> USE DEF Settle, StepCancels, builderVars
<1>1. pc[c] \in {"settle", "unwind"} /\ UNCHANGED <<pipe, built>>  OBVIOUS
<1>2. state[c] = "Running" /\ Phases[c] = "body"
  BY <1>1 DEF IInv, RunKnows, Body, PC, Phases, Phase
<1>3. pc'[c] = "finally" /\ state'[c] \in {"Done", "Cancelled"}  BY DEF IInv, TypeOK
<1>4. \A d \in Context : d # c => pc'[d] = pc[d] /\ state'[d] = state[d]
  BY DEF IInv, TypeOK
<1>5. Moves(c)  BY <1>1, <1>2, <1>3, <1>4 DEF Moves
<1>6. Abstract!Enter(c, Phase(c)', state'[c]) /\ UNCHANGED AllHandlers
  BY <1>5, MovesEnter DEF IInv
<1>7. Phase(c)' = "finally"  BY <1>3 DEF Phase
<1>8. Abstract!Enter(c, "finally", "Done") \/ Abstract!Enter(c, "finally", "Cancelled")
  BY <1>3, <1>6, <1>7
<1> QED  BY <1>2, <1>6, <1>8 DEF Abstract!BodyEnds, Phases, AllHandlers

(* The catch action ends, with the state it had or Fatal.                  *)
LEMMA RefineCatch == \A c \in Context : IInv /\ IInv' /\ CatchEnds(c) => Abstract!CatchEnds(c)
<1> SUFFICES ASSUME NEW c \in Context, IInv, IInv', CatchEnds(c) PROVE Abstract!CatchEnds(c)
  OBVIOUS
<1>1. pc[c] = "catch" /\ UNCHANGED <<pipe, built>>  BY DEF CatchEnds, builderVars
<1>2. state[c] = "Ko" /\ Phases[c] = "catch"
  BY <1>1 DEF IInv, RunKnows, Phases, Phase
<1>3. pc'[c] = "finally" /\ state'[c] \in {"Ko", "Fatal"}
  BY <1>2 DEF IInv, TypeOK, CatchEnds
<1>4. \A d \in Context : d # c => pc'[d] = pc[d] /\ state'[d] = state[d]
  BY DEF IInv, TypeOK, CatchEnds
<1>5. Moves(c)  BY <1>1, <1>2, <1>3, <1>4 DEF Moves
<1>6. Abstract!Enter(c, Phase(c)', state'[c]) /\ UNCHANGED AllHandlers
  BY <1>5, MovesEnter DEF IInv
<1>7. Phase(c)' = "finally"  BY <1>3 DEF Phase
<1>8. Abstract!Enter(c, "finally", "Ko") \/ Abstract!Enter(c, "finally", "Fatal")
  BY <1>3, <1>6, <1>7
<1> QED  BY <1>2, <1>6, <1>8 DEF Abstract!CatchEnds, Phases, AllHandlers

(* The run ends, with the state it had or, by the finally action, Fatal.   *)
LEMMA RefineFinally == \A c \in Context : IInv /\ IInv' /\ FinallyEnds(c) => Abstract!FinallyEnds(c)
<1> SUFFICES ASSUME NEW c \in Context, IInv, IInv', FinallyEnds(c) PROVE Abstract!FinallyEnds(c)
  OBVIOUS
<1>1. pc[c] = "finally" /\ UNCHANGED <<pipe, built>>  BY DEF FinallyEnds, builderVars
<1>2. state[c] # "None" /\ Phases[c] = "finally"
  BY <1>1 DEF IInv, RunKnows, Phases, Phase
<1>3. /\ pc'[c] = "idle"
      /\ state'[c] = state[c] \/ (built[pipe[c]].finally /\ state'[c] = "Fatal")
  BY DEF IInv, TypeOK, FinallyEnds
<1>4. \A d \in Context : d # c => pc'[d] = pc[d] /\ state'[d] = state[d]
  BY DEF IInv, TypeOK, FinallyEnds
<1>5. Moves(c)  BY <1>1, <1>2, <1>3, <1>4 DEF Moves
<1>6. Abstract!Enter(c, Phase(c)', state'[c]) /\ UNCHANGED AllHandlers
  BY <1>5, MovesEnter DEF IInv
<1>7. Phase(c)' = "idle"  BY <1>3 DEF Phase
<1>8. "finally" \in AllHandlers[c] <=> built[pipe[c]].finally  BY <1>2, HandlersKnown
<1>9. \/ Abstract!Enter(c, "idle", state[c])
      \/ "finally" \in AllHandlers[c] /\ Abstract!Enter(c, "idle", "Fatal")
  BY <1>3, <1>6, <1>7, <1>8
<1> QED  BY <1>2, <1>6, <1>9 DEF Abstract!FinallyEnds, Phases, AllHandlers

(* Every step of the code is a step of the statement, or a stutter.        *)
LEMMA RefineNext == IInv /\ IInv' /\ [Next]_vars => [Abstract!Next]_(Abstract!vars)
<1> SUFFICES ASSUME IInv, IInv', [Next]_vars PROVE [Abstract!Next]_(Abstract!vars)
  OBVIOUS
<1>1. CASE Changes  BY <1>1, RefineChanges
<1>2. ASSUME NEW c \in Context, CancelPipeline(c) PROVE UNCHANGED Abstract!vars
  BY <1>2 DEF CancelPipeline, builderVars, runVars, Abstract!vars, Phase, Handlers
<1>3. ASSUME NEW c \in Context, NEW p \in Pipeline, Run(c, p) PROVE Abstract!Next
  BY <1>3, RefineRun DEF Abstract!Next
<1>4. ASSUME NEW c \in Context, Advance(c) PROVE [Abstract!Next]_(Abstract!vars)
  BY <1>4, RefineBody, RefineFails, RefineEnds, RefineCatch, RefineFinally
     DEF Advance, Abstract!Advance, Abstract!Next
<1>5. ASSUME NEW c \in Context, DecoratorRetries(c) PROVE UNCHANGED Abstract!vars
  BY <1>5, RefineBody
<1>6. CASE UNCHANGED vars
  BY <1>6 DEF vars, builderVars, runVars, contextVars, Abstract!vars, Phase, Handlers
<1> QED  BY <1>1, <1>2, <1>3, <1>4, <1>5, <1>6 DEF Next

(* The safety part of ImplementsTryCatchFinally: whatever the steps and    *)
(* the builder do, a run goes through its handlers as one try statement.   *)
THEOREM RefinesTryCatchFinally == Spec => Abstract!Safe
BY RefineInit, RefineNext, Invariant, PTL DEF Spec, Safe, Abstract!Safe
============================================================================
