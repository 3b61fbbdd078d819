SPECIFICATION Spec
CONSTANTS
    p1 = p1
    p2 = p2
    StepName = {s1}
    Registered <- MCRegistered
    ProcessorOrder <- MCOrder
    Pipeline = {pa}
    Context = {c1}
    MaxChanges = 2
    MaxDecorators = 1
INVARIANTS
    TypeOK
    ProcessedInOrder
    DoneIsComplete
    AtMostOneLateStep
    CancelledIsAskedFor
    BadEndShowsException
PROPERTIES
    ImplementsTryCatchFinally
CHECK_DEADLOCK FALSE
