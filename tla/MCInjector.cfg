CONSTANTS
    Fds = {1, 2}
    Threads = {1, 2}
    MaxFiles = 2
    MaxConns = 2
    Requests = {1, 2, 3}
    Kind <- MCKind
    MaxCalls = 3
    Gens = {1, 2}
    Targets = {1, 2}
    Limit = 1
SPECIFICATION AllSpec
INVARIANTS
    ObjectsReachable
    RepliesMatch
    BooksBalance
    ConnectionsSound
PROPERTIES
    CleanedUp
CHECK_DEADLOCK FALSE
