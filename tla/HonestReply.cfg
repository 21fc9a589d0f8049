SPECIFICATION ClaimSpec
CONSTANTS
    Ops = {o1, o2}
    Takeovers = {o1}
    Bystanders = {}
    None = None
    MaxRetries = 2
    LostKinds = {"offline", "timeout"}
    LateKinds = {"timeout"}
INVARIANTS
    AckIsLanded
    TakeoverAsInspected
PROPERTIES
    RefinesAtomicBranch
    Terminates
