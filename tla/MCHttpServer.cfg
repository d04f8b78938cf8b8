SPECIFICATION Spec
CONSTANTS
    Clients = {ann, ben}
    MaxRequests = 2
    MayReset = TRUE
    Kinds = {"keep", "close", "broken", "throwing"}
CHECK_DEADLOCK FALSE
INVARIANTS TypeOK AnswersInOrder CloseIsTheLast
PROPERTIES SilentSessionsEnd EveryoneIsAccepted
