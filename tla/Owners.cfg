SPECIFICATION Spec
SYMMETRY Alike
CONSTANTS
    t1 = t1
    t2 = t2
    p = p
    q = q
    w = w
    v = v
    x = x
    B = B
    C = C
    D = D
    None = None
    Items = {t1, t2}
    Order <- ByID
    Workers = {w, v}
    Procs = {p, q}
    Actor <- MCActor
    Batches = {B}
    OwnerGens = {g, h}
    Paths = {}
    Scope <- SharedScope
    Successor <- NoSuccessors
    NeedSets <- NoNeeds
    MemberSets <- AllMembers
    DevelopRefs = {B}
    LegacyMembers <- NoLegacy
    TTL = 1
    MaxHold = 0
    MaxRows = 0
    MaxLog = 3
    MaxEpoch = 1
PROPERTIES
    OwnerRecordsWork
    LogAppendOnly
    RefinesLedger
