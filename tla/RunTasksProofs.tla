-------------------------- MODULE RunTasksProofs --------------------------
(***************************************************************************)
(* What TLAPS proves of RunTasks, for every length of the enumerable and   *)
(* every value of maxTasksInParallel.                                      *)
(*                                                                         *)
(* TokenConservation is not inductive alone: it says nothing of a call     *)
(* that has thrown, and it does not say which item the loop is starting.   *)
(* LoopShape adds both, and bounds the tokens still out after a throw.     *)
(***************************************************************************)
EXTENDS RunTasks, FiniteSetTheorems, TLAPS

LoopShape ==
    /\ pc = "idle" => max = 0 /\ pulled = 0 /\ semaphore = 0 /\ emptyTokens = 0
    /\ pc \in {"wait", "token", "call"} => max > 0 /\ emptyTokens < max
    /\ pc = "returned" => max > 0 /\ emptyTokens = max
    /\ pc = "call" => pulled > 0 /\ task[pulled] = "starting" /\ emptyTokens = 0
    /\ emptyTokens > 0 => pulled = length
    /\ \A i \in Item : /\ task[i] = "pending" <=> i > pulled
                       /\ task[i] = "starting" => pc = "call" /\ i = pulled
                       /\ task[i] \in {"lost", "threw"} => pc = "failed"

(* Also after a throw, at most max tokens are out.                         *)
TokensOut == Cardinality(Holding) <= IF max > 0 THEN max ELSE 0

IInv == TypeOK /\ LoopShape /\ TokenConservation /\ TokensOut
---------------------------------------------------------------------------
LEMMA ItemFinite == IsFiniteSet(Item)
  BY RunTasksAssumption, FS_Interval DEF Item

LEMMA HoldingFinite == /\ IsFiniteSet(Holding)
                       /\ Cardinality(Holding) \in Nat
                       /\ Cardinality(Holding) = 0 => Holding = {}
<1>1. Holding \subseteq Item  BY DEF Holding, Active, Completed
<1>2. IsFiniteSet(Holding)  BY <1>1, ItemFinite, FS_Subset
<1> QED  BY <1>2, FS_CardinalityType, FS_EmptySet

(* The set of tasks that hold a token, written without the operators, so   *)
(* that it can be applied to two values of task.                           *)
Hold(t) == {i \in Item : t[i] \in {"starting", "running", "ran", "faulted"}}

LEMMA HoldingIsHold == Holding = Hold(task) /\ Holding' = Hold(task')
  BY DEF Holding, Active, Completed, Hold

(* Moving one item from a state without a token to one with a token adds   *)
(* one holder; the opposite move removes one; any other move keeps them.   *)
LEMMA HoldAdd ==
  ASSUME NEW t \in [Item -> Status], NEW i \in Item,
         NEW s \in {"starting", "running", "ran", "faulted"},
         t[i] \notin {"starting", "running", "ran", "faulted"}
  PROVE  /\ IsFiniteSet(Hold(t))
         /\ Cardinality(Hold([t EXCEPT ![i] = s])) = Cardinality(Hold(t)) + 1
<1>1. Hold(t) \subseteq Item /\ i \notin Hold(t)  BY DEF Hold
<1>2. IsFiniteSet(Hold(t))  BY <1>1, ItemFinite, FS_Subset
<1>3. Hold([t EXCEPT ![i] = s]) = Hold(t) \cup {i}  BY DEF Hold
<1> QED  BY <1>1, <1>2, <1>3, FS_AddElement

LEMMA HoldRemove ==
  ASSUME NEW t \in [Item -> Status], NEW i \in Item,
         NEW s \in Status \ {"starting", "running", "ran", "faulted"},
         t[i] \in {"starting", "running", "ran", "faulted"}
  PROVE  Cardinality(Hold([t EXCEPT ![i] = s])) = Cardinality(Hold(t)) - 1
<1>1. Hold(t) \subseteq Item /\ i \in Hold(t)  BY DEF Hold
<1>2. IsFiniteSet(Hold(t))  BY <1>1, ItemFinite, FS_Subset
<1>3. Hold([t EXCEPT ![i] = s]) = Hold(t) \ {i}  BY DEF Hold
<1> QED  BY <1>1, <1>2, <1>3, FS_RemoveElement

LEMMA HoldKeep ==
  ASSUME NEW t \in [Item -> Status], NEW i \in Item,
         NEW s \in {"starting", "running", "ran", "faulted"},
         t[i] \in {"starting", "running", "ran", "faulted"}
  PROVE  Hold([t EXCEPT ![i] = s]) = Hold(t)
  BY DEF Hold
---------------------------------------------------------------------------
LEMMA InitInv == Init => IInv
<1> SUFFICES ASSUME Init PROVE IInv  OBVIOUS
<1>1. Holding = {}  BY DEF Init, Holding, Active, Completed
<1>2. Cardinality(Holding) = 0  BY <1>1, FS_EmptySet
<1> QED  BY <1>2, RunTasksAssumption
         DEF Init, IInv, TypeOK, LoopShape, TokenConservation, TokensOut, PC, Status, Item

LEMMA NextInv == IInv /\ [Next]_vars => IInv'
<1> SUFFICES ASSUME IInv, [Next]_vars PROVE IInv'  OBVIOUS
<1> USE RunTasksAssumption DEF IInv, TypeOK, LoopShape, TokenConservation, TokensOut, PC, Status, Item
<1>c. Cardinality(Holding) \in Nat /\ (Cardinality(Holding) = 0 => Holding = {})
      BY HoldingFinite
<1>h. Holding = Hold(task) /\ Holding' = Hold(task')  BY HoldingIsHold
<1>1. ASSUME NEW m \in Limits, Call(m) PROVE IInv'
  <2>1. pc = "idle" /\ Holding = {}  BY <1>1 DEF Call, Holding, Active, Completed
  <2>2. Cardinality(Holding) = 0  BY <2>1, FS_EmptySet
  <2>3. Holding' = Holding  BY <1>1, <1>h DEF Call
  <2> QED  BY <1>1, <2>1, <2>2, <2>3 DEF Call
<1>2. CASE TakeToken
  <2>1. Holding' = Holding  BY <1>2, <1>h DEF TakeToken
  <2> QED  BY <1>2, <1>c, <2>1 DEF TakeToken
<1>3. CASE PullItem
  <2>1. pulled + 1 \in Item /\ task[pulled + 1] = "pending"  BY <1>3 DEF PullItem
  <2>2. Cardinality(Holding') = Cardinality(Holding) + 1
        BY <1>3, <1>h, <2>1, HoldAdd DEF PullItem
  <2>3. TypeOK' /\ LoopShape'  BY <1>3, <2>1 DEF PullItem
  <2> QED  BY <1>3, <1>c, <2>2, <2>3 DEF PullItem
<1>4. CASE StartTask
  <2>1. pulled \in Item /\ task[pulled] = "starting"  BY <1>4 DEF StartTask
  <2>2. Holding' = Holding  BY <1>4, <1>h, <2>1, HoldKeep DEF StartTask
  <2>3. TypeOK' /\ LoopShape'  BY <1>4, <2>1 DEF StartTask
  <2> QED  BY <1>4, <1>c, <2>2, <2>3 DEF StartTask
<1>5. CASE KeepToken
  <2>1. Holding' = Holding  BY <1>5, <1>h DEF KeepToken
  <2>2. TypeOK' /\ LoopShape'  BY <1>5, <1>c DEF KeepToken
  <2> QED  BY <1>5, <1>c, <2>1, <2>2 DEF KeepToken
<1>6. CASE EnumeratorThrows
  <2>1. Holding' = Holding  BY <1>6, <1>h DEF EnumeratorThrows
  <2> QED  BY <1>6, <1>c, <2>1 DEF EnumeratorThrows
<1>7. CASE ExecutableThrows
  <2>1. pulled \in Item /\ task[pulled] = "starting"  BY <1>7 DEF ExecutableThrows
  <2>2. Cardinality(Holding') = Cardinality(Holding) - 1
        BY <1>7, <1>h, <2>1, HoldRemove DEF ExecutableThrows
  <2>3. TypeOK' /\ LoopShape'  BY <1>7, <2>1 DEF ExecutableThrows
  <2> QED  BY <1>7, <1>c, <2>2, <2>3 DEF ExecutableThrows
<1>8. ASSUME NEW i \in Item, Complete(i) PROVE IInv'
  <2>0. PICK s \in {"ran", "faulted"} : task' = [task EXCEPT ![i] = s]
        BY <1>8 DEF Complete
  <2>a. task[i] = "running"  BY <1>8 DEF Complete
  <2>1. Holding' = Holding  BY <2>0, <2>a, <1>h, HoldKeep
  <2>2. TypeOK' /\ LoopShape'  BY <1>8 DEF Complete
  <2> QED  BY <1>8, <1>c, <2>1, <2>2 DEF Complete
<1>9. ASSUME NEW i \in Item, Continue(i) PROVE IInv'
  <2>1. i \in Holding  BY <1>9 DEF Continue, Holding, Completed
  <2>2. pc # "returned"  BY <1>c, <2>1
  <2>3. Cardinality(Holding') = Cardinality(Holding) - 1
        BY <1>9, <1>h, HoldRemove DEF Continue
  <2>4. TypeOK' /\ LoopShape'  BY <1>9, <2>2 DEF Continue, Disposed
  <2> QED  BY <1>9, <1>c, <2>2, <2>3, <2>4 DEF Continue, Disposed
<1>10. CASE UNCHANGED vars
  <2>1. Holding' = Holding  BY <1>10, <1>h DEF vars
  <2> QED  BY <1>10, <2>1 DEF vars
<1> QED  BY <1>1, <1>2, <1>3, <1>4, <1>5, <1>6, <1>7, <1>8, <1>9, <1>10 DEF Next, Loop

LEMMA Invariance == Spec => []IInv
  BY InitInv, NextInv, PTL DEF Spec, Safe

(* The variables of RunTasks keep their types.                             *)
THEOREM TypeCorrect == Spec => []TypeOK
  BY Invariance, PTL DEF IInv

(* While a call is open or has returned, its semaphore, its unfinished     *)
(* tasks, the loop and the tokens kept at the end account for exactly      *)
(* maxTasksInParallel tokens (EnumerableExtensions lines 12, 17-28).       *)
THEOREM TokensConserved == Spec => []TokenConservation
  BY Invariance, PTL DEF IInv

(* At most maxTasksInParallel tasks are under way, also after a throw.     *)
THEOREM ParallelismBounded == Spec => []AtMostMax
<1>1. ASSUME IInv PROVE AtMostMax
  <2>1. Active \subseteq Holding  BY DEF Holding
  <2>2. IsFiniteSet(Active) /\ Cardinality(Active) \in Nat
            /\ Cardinality(Active) <= Cardinality(Holding)
        BY <2>1, HoldingFinite, FS_Subset, FS_CardinalityType
  <2> QED  BY <1>1, <2>2, HoldingFinite DEF IInv, TypeOK, TokensOut, AtMostMax
<1> QED  BY <1>1, Invariance, PTL

(* A normal return leaves nothing behind: every item was started and every *)
(* continuation has given its token back (lines 17-28).                    *)
THEOREM ReturnIsOver == Spec => []ReturnMeansOver
<1>1. ASSUME IInv PROVE ReturnMeansOver
  <2>1. SUFFICES ASSUME pc = "returned", NEW i \in Item
                 PROVE  task[i] = IF i <= length THEN "released" ELSE "pending"
        BY DEF ReturnMeansOver
  <2>2. Holding = {}
        BY <1>1, <2>1, HoldingFinite DEF IInv, TypeOK, LoopShape, TokenConservation
  <2>3. pulled = length  BY <1>1, <2>1 DEF IInv, TypeOK, LoopShape
  <2>4. i \notin Holding  BY <2>2
  <2> QED  BY <1>1, <2>1, <2>3, <2>4, RunTasksAssumption
           DEF IInv, TypeOK, LoopShape, Holding, Active, Completed, Status, Item
<1> QED  BY <1>1, Invariance, PTL

(* A continuation loses its Release on a disposed semaphore only when the  *)
(* call has thrown (lines 12, 20-21).                                      *)
THEOREM LossNeedsFailure == Spec => []LostOnlyAfterFailure
<1>1. IInv => LostOnlyAfterFailure
      BY DEF IInv, LoopShape, LostOnlyAfterFailure
<1> QED  BY <1>1, Invariance, PTL
---------------------------------------------------------------------------
(* Every step of RunTasks is a step of bounded parallelism or leaves its   *)
(* variables alone.                                                        *)
LEMMA AbstractInit == Init => Abstract!Init
  BY RunTasksAssumption DEF Init, Abstract!Init, Outcome, Disposed, Active, Item

LEMMA AbstractNext == IInv /\ [Next]_vars => [Abstract!Next]_(Abstract!vars)
<1> SUFFICES ASSUME IInv, [Next]_vars
             PROVE  Abstract!Next \/ UNCHANGED Abstract!vars
    OBVIOUS
<1> USE RunTasksAssumption DEF IInv, TypeOK, LoopShape, PC, Status, Item, Abstract!vars, Disposed
<1>c. Cardinality(Holding) \in Nat  BY HoldingFinite
<1>1. ASSUME NEW m \in Limits, Call(m) PROVE Abstract!Call(m)
      BY <1>1 DEF Call, Abstract!Call, Outcome, Active
<1>2. CASE TakeToken
      BY <1>2 DEF TakeToken, Outcome, Active
<1>3. CASE PullItem
  <2>1. pulled + 1 \in Item /\ task[pulled + 1] = "pending"  BY <1>3 DEF PullItem
  <2>2. Active' = Active \cup {pulled + 1}  BY <1>3, <2>1 DEF PullItem, Active
  <2>3. Active \subseteq Holding  BY DEF Holding
  <2>4. Cardinality(Active) \in Nat /\ Cardinality(Active) <= Cardinality(Holding)
        BY <2>3, HoldingFinite, FS_Subset, FS_CardinalityType
  <2>5. Cardinality(Holding) < max
        BY <1>3, <1>c DEF PullItem, TokenConservation
  <2>6. Cardinality(Active) < max  BY <1>c, <2>4, <2>5
  <2>a. Abstract!Cardinality(Active) = Cardinality(Active)
        BY DEF Abstract!Cardinality, Cardinality
  <2>7. Abstract!Start  BY <1>3, <2>2, <2>6, <2>a DEF PullItem, Abstract!Start, Outcome
  <2> QED  BY <2>7 DEF Abstract!Next
<1>4. CASE StartTask
  <2>1. Active' = Active  BY <1>4 DEF StartTask, Active
  <2> QED  BY <1>4, <2>1 DEF StartTask, Outcome
<1>5. CASE KeepToken
  <2>1. Active' = Active  BY <1>5 DEF KeepToken, Active
  <2>2. CASE emptyTokens' = max
    <3>1. Cardinality(Holding) = 0
          BY <1>5, <1>c, <2>2 DEF KeepToken, TokenConservation
    <3>2. Active = {}  BY <3>1, HoldingFinite DEF Holding
    <3>3. Abstract!Return
          BY <1>5, <2>1, <2>2, <3>2 DEF KeepToken, Abstract!Return, Outcome
    <3> QED  BY <3>3 DEF Abstract!Next
  <2>3. CASE emptyTokens' # max
        BY <1>5, <2>1, <2>3 DEF KeepToken, Outcome
  <2> QED  BY <2>2, <2>3
<1>6. CASE EnumeratorThrows
  <2>1. Active' = Active  BY <1>6 DEF EnumeratorThrows, Active
  <2>2. Abstract!Fail  BY <1>6, <2>1 DEF EnumeratorThrows, Abstract!Fail, Outcome
  <2> QED  BY <2>2 DEF Abstract!Next
<1>7. CASE ExecutableThrows
  <2>1. Active' = Active \ {pulled}  BY <1>7 DEF ExecutableThrows, Active
  <2>2. Abstract!Fail  BY <1>7, <2>1 DEF ExecutableThrows, Abstract!Fail, Outcome
  <2> QED  BY <2>2 DEF Abstract!Next
<1>8. ASSUME NEW i \in Item, Complete(i) PROVE Abstract!Finish(i)
  <2>1. PICK s \in {"ran", "faulted"} : task' = [task EXCEPT ![i] = s]
        BY <1>8 DEF Complete
  <2>2. i \in Active \ Hanging  BY <1>8 DEF Complete, Active
  <2>3. Active' = Active \ {i}  BY <2>1 DEF Active
  <2> QED  BY <1>8, <2>2, <2>3 DEF Complete, Abstract!Finish, Outcome
<1>9. ASSUME NEW i \in Item, Continue(i) PROVE UNCHANGED Abstract!vars
  <2>1. Active' = Active  BY <1>9 DEF Continue, Active
  <2> QED  BY <1>9, <2>1 DEF Continue, Outcome
<1>10. CASE UNCHANGED vars
       BY <1>10 DEF vars, Outcome, Active
<1> QED  BY <1>1, <1>2, <1>3, <1>4, <1>5, <1>6, <1>7, <1>8, <1>9, <1>10
         DEF Next, Loop, Abstract!Next

(* RunTasks implements the safety part of bounded parallelism.             *)
THEOREM Refinement == Spec => Abstract!Safe
  BY AbstractInit, AbstractNext, Invariance, PTL DEF Spec, Safe, Abstract!Safe
===========================================================================
