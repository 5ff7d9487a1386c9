CONSTANTS
    a = a
    b = b
    c = c
    i = i
    alice = alice
    bob = bob
    k = k
    r = r
    None = None
    NoKey = NoKey
    Ops = {a, b, c, i}
    Owners = {alice, bob}
    Keys = {k, r}
    OwnerOf <- OpOwner
    KeyOf <- OpKey
    Forced = {}
    Imports = {i}
    AuthPerUse = {b}
    Limited = {k, r}
    Limit <- KeyLimit
    Reencrypt = {r}
    KmSlots = 1
    MaxTime = 6
    MaxTouch = 3
SPECIFICATION Spec
INVARIANTS
    ReservationsCounted
    NoOversubscription
    UsageLimitKept
    NoReservationLeak
    SlotsAccountedFor
    PruneHitsScored
    CallsOnActiveOnly
PROPERTIES
    OutcomeOnce
