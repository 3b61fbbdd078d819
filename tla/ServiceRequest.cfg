SPECIFICATION Spec
CONSTANTS
    None = None
    Absent = Absent
    Empty = Empty
    Garbled = Garbled
    Builder = {b1, b2}
    Service = b1
    Named = TRUE
    Folder = "sub"
    Key <- MCKey
    Var <- MCVar
    Reference <- MCReference
    EnvFile <- MCEnvFile
    Content <- MCContent
    Args <- MCArgs
    Later <- MCLater
    InitialEnv <- MCInitialEnv
    Options <- MCOptions
    Calls <- MCCalls
INVARIANTS
    VariableIsRestored
    WatchingFollowsSetting
    AnswersFollowPrecedence
    ClientUrlIsKept
    
CHECK_DEADLOCK FALSE
