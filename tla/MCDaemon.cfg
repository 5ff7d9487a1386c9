CONSTANTS
    locked = locked
    unlocked = unlocked
    sync = sync
    step = step
    again = again
    NoJob = NoJob
    Jobs <- MCJobs
    Hi = {locked, unlocked, sync}
    Syncs = {sync}
    Requeues <- MCRequeues
    MaxWorkers = 4
    Points = {"p", "q"}
    Timeouts = {1, 3}
    IdleTimeout = 2
    MinReport = 1
    ReportStep = 2
    MaxReport = 4
    Spurious = TRUE
    MaxTime = 10
    Clients = {"c1"}
    Enders = {"e1", "e2"}
    Updater = "u"
    Faults = TRUE
    a = a
    b = b
    c = c
    alice = alice
    bob = bob
    k = k
    None = None
    NoKey = NoKey
    Creators = {a, b, c}
    OwnerOf <- MCOwner
    Keys = {k}
    KeyOf <- MCKey
    KmSlots = 2
SPECIFICATION AllSpec
INVARIANTS
    SyncSound
    OverdueReported
    EarlyBootOver
PROPERTIES
    ImplementsQueue
    CallsReturn
    GuardReleased
CHECK_DEADLOCK FALSE
