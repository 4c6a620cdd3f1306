SPECIFICATION LiveSpec
CONSTANTS
    q1 = q1
    o1 = o1
    o2 = o2
    Question = {q1}
    Other = {o1}
    Limit = 1
    MaxEvents = 1
    MaxFaults = 1
INVARIANTS
    TypeOK
    DoneIsLast
    SentIsRecorded
    HeldCountsOnce
    
    FailureLeavesNothing
    SlotsAccounted
    StreamsLimited
PROPERTIES
    QueuesAreChannels
    EverythingEnds
CHECK_DEADLOCK FALSE
