CONSTANTS
    k1 = k1
    k2 = k2
    x = x
    y = y
    t1 = t1
    t2 = t2
    NoKey = NoKey
    NoAlias = NoAlias
    NoThread = NoThread
    Keys = {k1, k2}
    CertOnly = {k2}
    Locked = {}
    Aliases = {x}
    Spaces = {x}
    Grantees = {x}
    SpaceOf <- OwnSpace
    Threads = {t1}
    MaxBlobs = 2
    MaxRows = 3
    BatchSize = 2
    OrphanLimit = 1
    MaxOwed = 1
    MaxCrashes = 1
SPECIFICATION FairSpec
INVARIANTS
    LiveUsable
    DeletedWereTried
PROPERTIES
    Collected
