SPECIFICATION ClaimSpec
CONSTANTS
    Ops = {o1, o2}
    Takeovers = {}
    Bystanders = {}
    None = None
    MaxRetries = 2
    LostKinds = {"offline", "timeout"}
    LateKinds = {"offline", "timeout"}
INVARIANT
    AckIsLanded
