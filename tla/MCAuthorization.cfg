CONSTANTS
    Uids = {1}
    Targets = {"a", "b"}
    TargetsOf <- MCTargetsOf
    Overrides = {9}
    Knames = {"k"}
    Threads = {1, 2}
    MaxSessions = 1
    MaxUids = 1
    MaxAuth = 1
    MaxIds = 2
    MaxChanges = 2
    MaxCalls = 3
    MaxHosts = 2
    Keys = {"k1", "k2"}
    Faults = TRUE
    Params <- MCParams
    Ops = {"o1", "o2"}
    Tokens <- MCTokens
    Bearers = {"t1"}
    MaxTime = 4
    CLEANUP_PERIOD = 1
    TimestampNeeded = TRUE
    Users = {0}
    Passwords = {"p", "q"}
    Sids = {"s1"}
    Callers = {"t1"}
    Serial = TRUE
    Clients = {"c1"}
    Traits <- MCTraits
    Owner <- MCOwner
    MaxSuper = 6
SPECIFICATION AllSpec
INVARIANTS
    WaitingIsReachable
    TokenFits
    BlobsRecoverable
    LockHolds
    RoutedHasMaterial
    AnswersSound
CHECK_DEADLOCK FALSE
