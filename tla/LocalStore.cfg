SPECIFICATION Spec
CONSTANTS
    Users = {u1, u2}
    Pruners = {x1}
INVARIANTS
    TypeOK
    StoreStaysUnderUser
    RepackAlone
PROPERTIES
    RebuildsOnlyFailed
    PruneSparesUsed
    EveryCallEnds
