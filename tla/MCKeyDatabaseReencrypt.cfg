CONSTANTS
    k1 = k1
    k2 = k2
    x = x
    y = y
    t1 = t1
    t2 = t2
    NoKey = NoKey
    NoAlias = NoAlias
    NoThread = NoThread
    Keys = {k1}
    CertOnly = {}
    Locked = {k1}
    Aliases = {x}
    Spaces = {x}
    Grantees = {x}
    SpaceOf <- OwnSpace
    Threads = {t1}
    MaxBlobs = 1
    MaxRows = 3
    BatchSize = 2
    OrphanLimit = 1
    MaxOwed = 1
    MaxCrashes = 0
SPECIFICATION Spec
INVARIANT
    LiveUsable
