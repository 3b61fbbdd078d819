SPECIFICATION Spec
CONSTANTS
    Caller = {t1, t2}
    Url = {"U", "U_x"}
    Request <- MCRequest
    CacheKey <- MCCacheKey
    Lifespan = 2
    MaxLatency = 1
    NoOne = NoOne
    MaxTime = 3
    MaxSets = 2
    MaxCalls = 3
INVARIANTS
    TypeOK
    AnswersAreRecent
PROPERTIES
    NoReloadWhileGood
    CallEnds
CHECK_DEADLOCK FALSE
