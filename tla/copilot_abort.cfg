SPECIFICATION Spec
CONSTANTS
    q1 = q1
    o1 = o1
    o2 = o2
    Question = {q1}
    Other = {}
    Limit = 1
    MaxEvents = 1
    MaxFaults = 0
INVARIANT AbortIsFree
CHECK_DEADLOCK FALSE
