SPECIFICATION ReadSpec
CONSTANTS
    o1 = o1
    o2 = o2
    Ops = {o1, o2}
    MaxRetries = 1
    LostKinds = {"conflict", "offline", "rejected", "timeout"}
    LateKinds = {"offline", "timeout"}
    Local = {o1}
    Readers = {r}
    NoRev = NoRev
    Unread = Unread
    MaxTries = 2
    Legacy = NoRev
    h = h
    Items = {o1, o2, h}
    Held = {h}
    Listing <- InOrder
    Limit = 2
CONSTRAINT Pending
INVARIANTS
    ReadTypeOK
    AtMostOnce
    AppliedIsAccepted
    CacheIsAccepted
    FreshReads
    NothingMissed
PROPERTIES
    CacheMovesForward
    WritesCachedUnlessGivenUp
