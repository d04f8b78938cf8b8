SPECIFICATION GatherSpec
CONSTANTS
    GathererInputs <- MCGathererInputs
    ItemInputs <- MCItemInputs
INVARIANTS
    EventsComplete
    EventsInOrder
CHECK_DEADLOCK FALSE
