SPECIFICATION Spec
SYMMETRY ImageSymmetry
CONSTANTS
    t1 = t1
    t2 = t2
    p1 = p1
    p2 = p2
    q1 = q1
    w = w
    v = v
    None = None
    Items = {t1, t2}
    Order <- ByID
    Workers = {w, v}
    Procs = {p1, p2, q1}
    Actor <- MCActor
    Batches = {}
    OwnerGens = {g}
    Paths = {}
    Scope <- MCScope
    Successor <- DerivedSuccessors
    NeedSets <- NeedInputs
    MemberSets <- NoMembers
    DevelopRefs = {}
    LegacyMembers <- NoLegacy
    TTL = 1
    MaxHold = 1
    MaxRows = 2
    MaxLog = 1
    MaxEpoch = 0
INVARIANTS
    TypeOK
    ValidSnapshot
    SoleHolder
    NoOpenDeferralsWhenDone
    PromotionsLand
PROPERTIES
    TransferFences
    TerminalForever
    RowsResolveOnce
