SPECIFICATION Spec
CONSTANTS
    b1 = b1
    b2 = b2
    Task = {t1, t2}
    BeforeRun <- MCBeforeRun
    MaxServices = 2
INVARIANTS
    TypeOK
    ServesAfterBeforeRun
    ClientIsServed
    NothingIsLeft
PROPERTIES
    CallsEnd
CHECK_DEADLOCK FALSE
