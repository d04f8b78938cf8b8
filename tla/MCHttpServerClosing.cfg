SPECIFICATION Spec
CONSTANTS
    Clients = {ann}
    MaxRequests = 2
    MayReset = FALSE
    Kinds = {"keep", "close"}
CHECK_DEADLOCK FALSE
INVARIANT ClosingIsNormal
