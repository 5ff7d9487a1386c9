CONSTANTS
    Levels = {"tee"}
    SlotLimit = 4
    BufferSlots = 2
    Faults = TRUE
    Resets = TRUE
    MaxSecret = 5
    Builds <- MCBuilds
    Edits <- MCEdits
    Requests = {0, 55}
    Today = 65
    RandomKeys = {10}
    Keys = {"k1", "k2", "k3"}
    KeyChars <- MCKeyChars
    Callers = {"app"}
    MaxLevel = 2
    MaxOps = 2
    MaxCounted = 1
    MaxBlob = 2
    MaxHandle = 2
SPECIFICATION AllSpec
INVARIANTS
    DeletedStaysDeleted
    KeysSurvive
    InstancesFollowRuntime
    DefaultsKept
    OutputsSound
    SlotsOwned
PROPERTY
    BootKeyStable
CHECK_DEADLOCK FALSE
