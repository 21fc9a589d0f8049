SPECIFICATION Spec
CONSTANTS
    t1 = t1
    t2 = t2
    p = p
    q = q
    w = w
    v = v
    x = x
    B = B
    C = C
    D = D
    None = None
    Items = {t1, t2}
    Order <- ByID
    Workers = {w, v}
    Procs = {p}
    Actor <- MCActor
    Batches = {B}
    OwnerGens = {g}
    Paths = {x}
    Scope <- SharedScope
    Successor <- NoSuccessors
    NeedSets <- ChainNeeds
    MemberSets <- AllMembers
    DevelopRefs = {}
    LegacyMembers <- NoLegacy
    TTL = 3
    MaxHold = 0
    MaxRows = 0
    MaxLog = 4
    MaxEpoch = 0
INVARIANT AdoptionNeverRefused
