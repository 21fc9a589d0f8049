SPECIFICATION Spec
SYMMETRY Alike
CONSTANTS
    t1 = t1
    t2 = t2
    p = p
    q = q
    w = w
    v = v
    x = x
    B = B
    C = C
    D = D
    None = None
    Items = {t1, t2}
    Order <- ByID
    Workers = {w, v}
    Procs = {p, q}
    Actor <- MCActor
    Batches = {B, C, D}
    OwnerGens = {g}
    Paths = {}
    Scope <- SharedScope
    Successor <- NoSuccessors
    NeedSets <- NoNeeds
    MemberSets <- TailOrAll
    DevelopRefs = {}
    LegacyMembers <- LegacyB
    TTL = 1
    MaxHold = 0
    MaxRows = 0
    MaxLog = 1
    MaxEpoch = 0
INVARIANTS
    ValidSnapshot
    OneActiveBatchPerItem
    LegacyRetired
