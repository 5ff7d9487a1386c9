CONSTANTS
    Levels = {"tee", "strongbox"}
    SlotLimit = 4
    BufferSlots = 2
    Faults = FALSE
    Resets = FALSE
    MaxSecret = 5
SPECIFICATION Spec
INVARIANT
    KeysSurvive
CHECK_DEADLOCK FALSE
