CONSTANTS
    a = a
    b = b
    c = c
    i = i
    alice = alice
    bob = bob
    k = k
    r = r
    None = None
    NoKey = NoKey
    Ops = {a, b, c}
    Owners = {alice, bob}
    Keys = {}
    OwnerOf <- SlotOwner
    KeyOf <- NoGuard
    Forced = {}
    Imports = {}
    AuthPerUse = {a}
    Limited = {}
    Limit <- NoLimit
    Reencrypt = {}
    KmSlots = 1
    MaxTime = 4
    MaxTouch = 4
SPECIFICATION Spec
INVARIANT DroppedEndsKeyMint
