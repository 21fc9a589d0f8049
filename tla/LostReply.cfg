SPECIFICATION Spec
CONSTANTS
    Ops = {o1, o2}
    MaxRetries = 2
    LostKinds = {"rejected"}
    LateKinds = {}
INVARIANT FailuresAreDefinite
