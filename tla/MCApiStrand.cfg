SPECIFICATION Spec
CONSTANTS
    Workers = {w1, w2}
    Requests = {r1, r2, r3}
    Tick = tick
INVARIANTS IInv OneAtATime ExecutedInOrder
PROPERTIES EveryRequestExecuted TicksGoOn
CHECK_DEADLOCK FALSE
