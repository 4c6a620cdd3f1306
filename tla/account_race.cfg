SPECIFICATION Spec
CONSTANTS
    c1 = c1
    c2 = c2
    c3 = c3
    Call = {c1, c2, c3}
    MaxAttempts = 2
    MaxFaults = 1
SYMMETRY CallSymmetry
CHECK_DEADLOCK FALSE
INVARIANTS
    TypeOK
    RevokedStayDead
    LiveIsTracked
    SomeLinkWorks
    AttemptsAreAnswers
