SPECIFICATION Spec
CONSTANTS
    t1 = t1
    t2 = t2
    t3 = t3
    Tasks <- MCTasks
    TaskOrder <- MCOrder
    Deferred = {d1, d2}
INVARIANTS
    TypeOK
    InOrder
    AtMostOneLateTask
    StopsOnlyWithReason
PROPERTIES
    WorkerEnds
    DeferredRunsAfterStart
CHECK_DEADLOCK FALSE
