CONSTANTS
    Level = "tee"
    Requests <- KeyRequests
    Params <- BeginParams
    SigLens <- Lengths
    Owners = {x, y}
    Times <- MCTimes
    Now = 40
    MaxOps = 3
SPECIFICATION AllSpec
INVARIANTS
    FoldFindsCandidate
    NoPruningBack
    BeginSound
CHECK_DEADLOCK FALSE
