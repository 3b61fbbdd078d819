-------------------------- MODULE WorkerHostProofs --------------------------
(***************************************************************************)
(* What TLAPS proves of WorkerHost, for any tasks of any order and any     *)
(* deferred services.                                                      *)
(*                                                                         *)
(* The order of the tasks rests on OrderedPlaces: ranks are a permutation, *)
(* because the element before another has the smaller rank.  The other     *)
(* properties need to know what the runner has seen: RunnerKnows.          *)
(***************************************************************************)
EXTENDS WorkerHost, FiniteSetTheorems, SequenceTheorems, TLAPS

(* Element i of s comes before element j in the ordered sequence.          *)
Before(s, key, i, j) == \/ key[s[i]] < key[s[j]]
                        \/ key[s[i]] = key[s[j]] /\ i < j

Lower(s, key, i) == {j \in DOMAIN s : Before(s, key, j, i)}

(* The rank of an element is a place in s, and larger than those of the    *)
(* elements before it.                                                     *)
LEMMA RankOfSmaller ==
    ASSUME NEW S, NEW s \in Seq(S), NEW key, \A i \in DOMAIN s : key[s[i]] \in Int
    PROVE  /\ \A i \in 1..Len(s) : Rank(s, key, i) \in 1..Len(s)
           /\ \A i, j \in 1..Len(s) :
                 Before(s, key, i, j) => Rank(s, key, i) < Rank(s, key, j)
<1> DEFINE n == Len(s)
<1>1. n \in Nat /\ DOMAIN s = 1..n  OBVIOUS
<1>2. IsFiniteSet(1..n) /\ Cardinality(1..n) = n
  <2>1. n \in Int /\ 1 \in Int  BY <1>1
  <2>2. IsFiniteSet(1..n) /\ Cardinality(1..n) = IF 1 > n THEN 0 ELSE n - 1 + 1
    BY <2>1, FS_Interval
  <2> QED  BY <1>1, <2>2
<1>3. \A i : Rank(s, key, i) = 1 + Cardinality(Lower(s, key, i))
  BY DEF Rank, Lower, Before
<1> HIDE DEF n
<1>4. ASSUME NEW i \in 1..n
      PROVE  /\ IsFiniteSet(Lower(s, key, i))
             /\ Cardinality(Lower(s, key, i)) \in Nat /\ Cardinality(Lower(s, key, i)) < n
  <2>1. Lower(s, key, i) \in SUBSET (1..n) /\ i \notin Lower(s, key, i)
    BY <1>1 DEF Lower, Before
  <2>2. Lower(s, key, i) # 1..n  BY <2>1
  <2>3. IsFiniteSet(Lower(s, key, i)) /\ Cardinality(Lower(s, key, i)) <= n
        /\ Cardinality(Lower(s, key, i)) # n
    BY <1>2, <2>1, <2>2, FS_Subset
  <2>4. Cardinality(Lower(s, key, i)) \in Nat  BY <2>3, FS_CardinalityType
  <2> QED  BY <1>1, <2>3, <2>4
<1>5. ASSUME NEW i \in 1..n, NEW j \in 1..n, Before(s, key, i, j)
      PROVE  Cardinality(Lower(s, key, i)) < Cardinality(Lower(s, key, j))
  <2>1. Lower(s, key, i) \in SUBSET Lower(s, key, j)  BY <1>1, <1>5 DEF Lower, Before
  <2>2. i \in Lower(s, key, j) /\ i \notin Lower(s, key, i)  BY <1>1, <1>5 DEF Lower, Before
  <2>3. Cardinality(Lower(s, key, i)) <= Cardinality(Lower(s, key, j))
        /\ Cardinality(Lower(s, key, i)) # Cardinality(Lower(s, key, j))
    BY <1>4, <2>1, <2>2, FS_Subset
  <2> QED  BY <1>4, <2>3
<1>6. \A i \in 1..n : Rank(s, key, i) \in 1..n  BY <1>1, <1>3, <1>4
<1>7. \A i, j \in 1..n : Before(s, key, i, j) => Rank(s, key, i) < Rank(s, key, j)
  BY <1>3, <1>4, <1>5
<1> QED  BY <1>6, <1>7 DEF n

(* Every place of the ordered sequence holds the element of that rank.     *)
LEMMA OrderedPlaces ==
    ASSUME NEW S, NEW s \in Seq(S), NEW key, \A i \in DOMAIN s : key[s[i]] \in Int
    PROVE  \A r \in 1..Len(s) :
              \E i \in 1..Len(s) : Rank(s, key, i) = r /\ Ordered(s, key)[r] = s[i]
<1> DEFINE n == Len(s)
           rank == [i \in 1..n |-> Rank(s, key, i)]
<1>1. n \in Nat /\ DOMAIN s = 1..n  OBVIOUS
<1>2. IsFiniteSet(1..n) /\ Cardinality(1..n) = n
  <2>1. n \in Int /\ 1 \in Int  BY <1>1
  <2>2. IsFiniteSet(1..n) /\ Cardinality(1..n) = IF 1 > n THEN 0 ELSE n - 1 + 1
    BY <2>1, FS_Interval
  <2> QED  BY <1>1, <2>2
<1>3. \A i \in 1..n : Rank(s, key, i) \in 1..n  BY RankOfSmaller
<1>4. ASSUME NEW i \in 1..n, NEW j \in 1..n, i # j PROVE Rank(s, key, i) # Rank(s, key, j)
  <2>1. Before(s, key, i, j) \/ Before(s, key, j, i)  BY <1>1, <1>4 DEF Before
  <2>2. Rank(s, key, i) < Rank(s, key, j) \/ Rank(s, key, j) < Rank(s, key, i)
    BY <2>1, RankOfSmaller
  <2>3. Rank(s, key, i) \in Int /\ Rank(s, key, j) \in Int  BY <1>3
  <2> QED  BY <2>2, <2>3
<1>5. rank \in Injection(1..n, 1..n)
  <2>1. rank \in [1..n -> 1..n]  BY <1>3
  <2>2. \A i, j \in 1..n : rank[i] = rank[j] => i = j  BY <1>4
  <2> QED  BY <2>1, <2>2 DEF Injection, IsInjective
<1>6. rank \in Surjection(1..n, 1..n)  BY <1>2, <1>5, FS_Injection
<1>7. ASSUME NEW r \in 1..n PROVE \E i \in 1..n : Rank(s, key, i) = r
  <2>1. \E i \in 1..n : rank[i] = r  BY <1>6 DEF Surjection
  <2> QED  BY <2>1
<1>8. ASSUME NEW r \in 1..n
      PROVE  \E i \in 1..n : Rank(s, key, i) = r /\ Ordered(s, key)[r] = s[i]
  <2> DEFINE i == CHOOSE i \in DOMAIN s : Rank(s, key, i) = r
  <2>1. i \in 1..n /\ Rank(s, key, i) = r  BY <1>1, <1>7
  <2>2. Ordered(s, key)[r] = s[i]  BY <1>1 DEF Ordered
  <2> HIDE DEF i
  <2> QED  BY <2>1, <2>2
<1> QED  BY <1>8

(* Two places in order hold two elements in order.                         *)
LEMMA OrderedIsSorted ==
    ASSUME NEW S, NEW s \in Seq(S), NEW key, \A i \in DOMAIN s : key[s[i]] \in Int,
           NEW r \in 1..Len(s), NEW q \in 1..Len(s), r < q
    PROVE  \E a, b \in 1..Len(s) :
              a # b /\ Ordered(s, key)[r] = s[a] /\ Ordered(s, key)[q] = s[b] /\
              Before(s, key, a, b)
<1>1. PICK a \in 1..Len(s) : Rank(s, key, a) = r /\ Ordered(s, key)[r] = s[a]  BY OrderedPlaces
<1>2. PICK b \in 1..Len(s) : Rank(s, key, b) = q /\ Ordered(s, key)[q] = s[b]  BY OrderedPlaces
<1>3. Len(s) \in Nat /\ DOMAIN s = 1..Len(s)  OBVIOUS
<1>4. a # b  BY <1>1, <1>2
<1>5. ~Before(s, key, b, a)
  <2>1. Before(s, key, b, a) => Rank(s, key, b) < Rank(s, key, a)  BY RankOfSmaller
  <2> QED  BY <1>1, <1>2, <2>1
<1>6. Before(s, key, a, b)  BY <1>3, <1>4, <1>5 DEF Before
<1> QED  BY <1>1, <1>2, <1>4, <1>6
----------------------------------------------------------------------------
(* What was executed is a beginning of the ordered tasks.                  *)
ExecutedIsPrefix ==
    /\ Len(executed) <= Len(Tasks)
    /\ \A i \in 1..Len(executed) : executed[i] = WorkerTasks[i]

(* Where the runner stands tells what it has seen, of the tasks and of the *)
(* token.                                                                  *)
RunnerKnows ==
    /\ runner = "execute" => Len(executed) < Len(Tasks)
    /\ runner = "all" => Len(executed) = Len(Tasks)
    /\ token => stopping
    /\ late = 0 \/ (late = 1 /\ token /\ runner \notin {"queued", "execute"})

IInv == TypeOK /\ ExecutedIsPrefix /\ RunnerKnows /\ StopsOnlyWithReason

Task == {Tasks[i] : i \in DOMAIN Tasks}

(* As many tasks are ordered as were registered, and no other.             *)
LEMMA WorkerTasksKnown ==
    /\ Len(Tasks) \in Nat /\ DOMAIN Tasks = 1..Len(Tasks)
    /\ Len(WorkerTasks) = Len(Tasks)
    /\ \A r \in 1..Len(Tasks) : WorkerTasks[r] \in Task
<1> USE WorkerAssumption
<1>1. Len(Tasks) \in Nat /\ DOMAIN Tasks = 1..Len(Tasks)  OBVIOUS
<1>2. ASSUME NEW r \in 1..Len(Tasks) PROVE WorkerTasks[r] \in Task
  <2>1. PICK i \in 1..Len(Tasks) : WorkerTasks[r] = Tasks[i]
    BY OrderedPlaces DEF WorkerTasks
  <2> QED  BY <1>1, <2>1 DEF Task
<1>3. WorkerTasks \in [1..Len(Tasks) -> Task]  BY <1>1, <1>2 DEF WorkerTasks, Ordered
<1>4. WorkerTasks \in Seq(Task) /\ Len(WorkerTasks) = Len(Tasks)  BY <1>1, <1>3, SMTT(30)
<1> QED  BY <1>1, <1>2, <1>4

(* Nothing has begun and nobody has stopped anything.                      *)
LEMMA InitInv == Init => IInv
<1> SUFFICES ASSUME Init PROVE IInv  OBVIOUS
<1> USE DEF Init
<1>1. TypeOK
  <2>1. <<>> \in Seq({Tasks[i] : i \in DOMAIN Tasks}) /\ Len(<<>>) = 0  OBVIOUS
  <2>2. Len(executed) <= Len(Tasks)  BY <2>1, WorkerTasksKnown
  <2>3. runner \in Runner /\ service \in [Deferred -> Service]  BY DEF Runner, Service
  <2> QED  BY <2>1, <2>2, <2>3 DEF TypeOK
<1>2. ExecutedIsPrefix  BY WorkerTasksKnown DEF ExecutedIsPrefix
<1>3. RunnerKnows /\ StopsOnlyWithReason  BY DEF RunnerKnows, StopsOnlyWithReason
<1> QED  BY <1>1, <1>2, <1>3 DEF IInv

(* The next task begins: it is the one that is due.                        *)
LEMMA ExecuteInv == IInv /\ Execute => IInv'
<1> SUFFICES ASSUME IInv, Execute PROVE IInv'  OBVIOUS
<1> USE DEF IInv, Execute, hostVars
<1>1. /\ executed \in Seq(Task) /\ Len(executed) \in Nat
      /\ Len(executed) < Len(Tasks) /\ Len(Tasks) \in Nat
  BY WorkerTasksKnown DEF TypeOK, Task, RunnerKnows
<1>2. WorkerTasks[Len(executed) + 1] \in Task  BY <1>1, WorkerTasksKnown
<1>3. /\ executed' \in Seq(Task) /\ Len(executed') = Len(executed) + 1
      /\ \A i \in 1..Len(executed') : executed'[i] = IF i <= Len(executed) THEN executed[i]
                                                     ELSE WorkerTasks[Len(executed) + 1]
  BY <1>1, <1>2, AppendProperties
<1>4. ExecutedIsPrefix'
  <2>1. \A i \in 1..Len(executed') : executed'[i] = WorkerTasks[i]
    BY <1>1, <1>3 DEF ExecutedIsPrefix
  <2> QED  BY <1>1, <1>3, <2>1 DEF ExecutedIsPrefix
<1>5. TypeOK'  BY <1>1, <1>3 DEF TypeOK, Task, Runner
<1>6. RunnerKnows'  BY DEF RunnerKnows, TypeOK
<1>7. StopsOnlyWithReason'  BY <1>1 DEF StopsOnlyWithReason
<1> QED  BY <1>4, <1>5, <1>6, <1>7

(* No other step of the runner touches what was executed.                  *)
LEMMA RunnerInv == IInv /\ RunnerStep => IInv'
<1> SUFFICES ASSUME IInv, RunnerStep, ~Execute PROVE IInv'  BY ExecuteInv
<1> USE DEF IInv
<1>1. executed' = executed /\ late' = late /\ service' = service
      /\ UNCHANGED <<host, asked, token>> /\ stopping' \in {stopping, TRUE}
  BY DEF RunnerStep, Begin, CheckToken, TaskEnds, LoopEnds, StopApplication, hostVars
<1>2. ExecutedIsPrefix'  BY <1>1 DEF ExecutedIsPrefix
<1>3. runner' \in Runner
  BY DEF RunnerStep, Begin, CheckToken, TaskEnds, LoopEnds, StopApplication, Runner
<1>4. TypeOK'  BY <1>1, <1>3 DEF TypeOK
<1>5. RunnerKnows'
  <2> USE <1>1 DEF RunnerKnows
  <2>1. CASE Begin  BY <2>1 DEF Begin
  <2>2. CASE CheckToken  BY <2>2, WorkerTasksKnown DEF CheckToken
  <2>3. CASE TaskEnds  BY <2>3 DEF TaskEnds
  <2>4. CASE LoopEnds  BY <2>4, WorkerTasksKnown DEF LoopEnds
  <2>5. CASE StopApplication  BY <2>5 DEF StopApplication
  <2> QED  BY <2>1, <2>2, <2>3, <2>4, <2>5 DEF RunnerStep
<1>6. StopsOnlyWithReason'
  <2>1. CASE runner = "all"  BY <1>1, <2>1 DEF RunnerKnows, StopsOnlyWithReason
  <2>2. CASE runner # "all"
    <3>1. stopping' = stopping /\ runner # "threw"
      BY <2>2 DEF RunnerStep, Begin, CheckToken, TaskEnds, LoopEnds, StopApplication, hostVars
    <3> QED  BY <1>1, <3>1 DEF StopsOnlyWithReason
  <2> QED  BY <2>1, <2>2
<1> QED  BY <1>2, <1>4, <1>5, <1>6

(* The host, its services and those who stop it leave the runner alone.    *)
LEMMA HostInv ==
    ASSUME IInv,
           \/ HostStep \/ AskStop \/ HostGivesUp
           \/ \E s \in Deferred : Register(s) \/ OnHostStartedEnds(s)
    PROVE  IInv'
<1> USE DEF IInv
<1>1. UNCHANGED runnerVars
  BY DEF HostStep, HostStarted, RunnerFailed, CancelToken, HostStops, AskStop, HostGivesUp,
         Register, OnHostStartedEnds
<1>2. /\ host' \in {"starting", "started", "stopped"}
      /\ stopping' \in BOOLEAN /\ asked' \in BOOLEAN /\ token' \in BOOLEAN
      /\ token' => stopping'
      /\ token => token'
      /\ stopping' /\ ~asked' => (stopping /\ ~asked) \/ runner = "threw"
  <2> USE DEF TypeOK, RunnerKnows
  <2>1. CASE HostStarted \/ HostStops \/ HostGivesUp
    BY <2>1 DEF HostStarted, HostStops, HostGivesUp
  <2>2. CASE RunnerFailed \/ AskStop  BY <2>2 DEF RunnerFailed, AskStop
  <2>3. CASE CancelToken  BY <2>3 DEF CancelToken
  <2>4. CASE \E s \in Deferred : Register(s) \/ OnHostStartedEnds(s)
    BY <2>4 DEF Register, OnHostStartedEnds, hostVars
  <2> QED  BY <2>1, <2>2, <2>3, <2>4 DEF HostStep
<1>3. service' \in [Deferred -> Service]
  BY DEF TypeOK, Service, hostVars, HostStep, HostStarted, RunnerFailed, CancelToken, HostStops,
         AskStop, HostGivesUp, Register, OnHostStartedEnds
<1>4. TypeOK' /\ ExecutedIsPrefix'  BY <1>1, <1>2, <1>3 DEF TypeOK, ExecutedIsPrefix, runnerVars
<1>5. RunnerKnows'  BY <1>1, <1>2 DEF RunnerKnows, runnerVars
<1>6. StopsOnlyWithReason'  BY <1>1, <1>2 DEF StopsOnlyWithReason, runnerVars
<1> QED  BY <1>4, <1>5, <1>6

(* A step is one of the runner, or of the host and the others.             *)
LEMMA NextInv == IInv /\ [Next]_vars => IInv'
<1> SUFFICES ASSUME IInv, [Next]_vars PROVE IInv'  OBVIOUS
<1>1. CASE Next  BY <1>1, RunnerInv, HostInv DEF Next
<1>2. CASE UNCHANGED vars
  BY <1>2
     DEF vars, hostVars, runnerVars, IInv, TypeOK, ExecutedIsPrefix, RunnerKnows,
         StopsOnlyWithReason
<1> QED  BY <1>1, <1>2
----------------------------------------------------------------------------
(* The invariant holds in every state.                                     *)
LEMMA Invariance == Spec => []IInv
<1> QED  BY InitInv, NextInv, PTL DEF Spec, Safe

(* The state has its shape for any tasks and deferred services.            *)
THEOREM TypeCorrect == Spec => []TypeOK
<1>1. IInv => TypeOK  BY DEF IInv
<1> QED  BY <1>1, Invariance, PTL

(* Any tasks begin by ascending Order, those of equal Order as they were   *)
(* registered (WorkerTasksRunner lines 14-15).                             *)
THEOREM TasksInOrder == Spec => []InOrder
<1>1. IInv => InOrder
  <2> SUFFICES ASSUME IInv, NEW i \in DOMAIN executed, NEW j \in DOMAIN executed, i < j
               PROVE  \E a, b \in DOMAIN Tasks :
                         /\ a # b /\ executed[i] = Tasks[a] /\ executed[j] = Tasks[b]
                         /\ \/ TaskOrder[Tasks[a]] < TaskOrder[Tasks[b]]
                            \/ TaskOrder[Tasks[a]] = TaskOrder[Tasks[b]] /\ a < b
    BY DEF InOrder
  <2>1. DOMAIN executed = 1..Len(executed) /\ Len(executed) \in Nat  BY DEF IInv, TypeOK
  <2>2. /\ i \in 1..Len(Tasks) /\ j \in 1..Len(Tasks)
        /\ executed[i] = WorkerTasks[i] /\ executed[j] = WorkerTasks[j]
    BY <2>1, WorkerTasksKnown DEF IInv, ExecutedIsPrefix
  <2>3. PICK a, b \in 1..Len(Tasks) :
          /\ a # b /\ WorkerTasks[i] = Tasks[a] /\ WorkerTasks[j] = Tasks[b]
                                      /\ Before(Tasks, TaskOrder, a, b)
    <3>1. i < j /\ Tasks \in Seq(Task) /\ \A k \in DOMAIN Tasks : TaskOrder[Tasks[k]] \in Int
      BY WorkerAssumption DEF Task
    <3>2. \A r, q \in 1..Len(Tasks) : r < q =>
             \E a, b \in 1..Len(Tasks) :
                /\ a # b /\ Ordered(Tasks, TaskOrder)[r] = Tasks[a]
                /\ Ordered(Tasks, TaskOrder)[q] = Tasks[b] /\ Before(Tasks, TaskOrder, a, b)
      BY <3>1, OrderedIsSorted
    <3> QED  BY <2>2, <3>1, <3>2 DEF WorkerTasks
  <2> QED  BY <2>2, <2>3, WorkerTasksKnown DEF Before
<1> QED  BY <1>1, Invariance, PTL

(* However long the list of tasks, a stop lets one more begin at most      *)
(* (lines 19-27).                                                          *)
THEOREM OneLateTask == Spec => []AtMostOneLateTask
<1>1. IInv => AtMostOneLateTask  BY DEF IInv, RunnerKnows, AtMostOneLateTask
<1> QED  BY <1>1, Invariance, PTL

(* The runner does not end the process before its last task, or a failure  *)
(* (lines 15-35).                                                          *)
THEOREM NoEarlyStop == Spec => []StopsOnlyWithReason
<1>1. IInv => StopsOnlyWithReason  BY DEF IInv
<1> QED  BY <1>1, Invariance, PTL

(* On whichever side of the announced start a callback was registered: it  *)
(* waits only while the start is still to be announced, and it does not    *)
(* run before (DeferredBackgroundService line 9).                          *)
CallbacksFollowStart ==
    \A s \in Deferred : /\ service[s] = "running" => host # "starting"
                        /\ service[s] = "registered" => host = "starting"

(* No callback runs before the start, and the start leaves none behind,    *)
(* whoever asks for a stop meanwhile: what DeferredRunsAfterStart leaves   *)
(* to fairness is that the start is announced.                             *)
THEOREM NoCallbackIsLeftBehind == Spec => []CallbacksFollowStart
<1>1. Init => CallbacksFollowStart  BY DEF Init, CallbacksFollowStart
<1>2. IInv /\ CallbacksFollowStart /\ [Next]_vars => CallbacksFollowStart'
  <2> SUFFICES ASSUME IInv, CallbacksFollowStart, [Next]_vars PROVE CallbacksFollowStart'
    OBVIOUS
  <2>1. service \in [Deferred -> Service]  BY DEF IInv, TypeOK
  <2>2. CASE \E s \in Deferred : Register(s) \/ OnHostStartedEnds(s)
    BY <2>1, <2>2
       DEF Register, OnHostStartedEnds, CallbacksFollowStart, hostVars
  <2>3. CASE HostStarted
    BY <2>1, <2>3 DEF HostStarted, CallbacksFollowStart
  <2>4. CASE HostStops \/ HostGivesUp
    BY <2>4 DEF HostStops, HostGivesUp, CallbacksFollowStart
  <2>5. CASE UNCHANGED <<host, service>>
    BY <2>5 DEF CallbacksFollowStart
  <2>6. RunnerStep \/ RunnerFailed \/ CancelToken \/ AskStop \/ UNCHANGED vars
          => UNCHANGED <<host, service>>
    BY DEF RunnerStep, Begin, CheckToken, Execute, TaskEnds, LoopEnds, StopApplication,
           RunnerFailed, CancelToken, AskStop, vars, hostVars
  <2> QED  BY <2>2, <2>3, <2>4, <2>5, <2>6 DEF Next, HostStep
<1> QED  BY <1>1, <1>2, Invariance, PTL DEF Spec, Safe
=============================================================================
