SPECIFICATION Spec
CONSTANTS
    Workers = {w1, w2}
    Requests = {r1}
    Tick = tick
INVARIANT AnswerIsComputed
CHECK_DEADLOCK FALSE
