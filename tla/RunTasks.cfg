SPECIFICATION Spec
CONSTANTS
    MaxItems = 4
    Limits <- MCLimits
    Hanging <- MCHanging
INVARIANTS
    TypeOK
    TokenConservation
    ReturnMeansOver
PROPERTIES
    HangingOnlyCostsTokens
    ImplementsBoundedParallelism
CHECK_DEADLOCK FALSE
