CONSTANTS
    Policies = {TRUE, FALSE}
    ForeignCode <- MCForeign
    HolderOps = {"change", "read", "recalculate", "freeze", "unfreeze", "mark", "invalidate"}
    MaxInput = 4
    MaxDepth = 4
SPECIFICATION Spec
CHECK_DEADLOCK FALSE
INVARIANTS CalculatedIsCurrent GuardMatchesCalls
PROPERTIES FrozenResultsStay ServesAsPromised
