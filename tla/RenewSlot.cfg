SPECIFICATION Spec
CONSTANTS
    t1 = t1
    t2 = t2
    p1 = p1
    p2 = p2
    q1 = q1
    w = w
    v = v
    None = None
    Items = {t1, t2}
    Order <- ByID
    Workers = {w, v}
    Procs = {p1, p2, q1}
    Actor <- MCActor
    Batches = {}
    OwnerGens = {g}
    Paths = {}
    Scope <- MCScope
    Successor <- NoSuccessors
    NeedSets <- NeedInputs
    MemberSets <- NoMembers
    DevelopRefs = {}
    LegacyMembers <- NoLegacy
    TTL = 2
    MaxHold = 2
    MaxRows = 0
    MaxLog = 1
    MaxEpoch = 0
INVARIANT OneClaimPerSlot
