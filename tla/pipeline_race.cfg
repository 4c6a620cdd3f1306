\* A delivery and an upload, one person and one worker.
SPECIFICATION FairSpec
CONSTANTS
    Txn = {c1, r1}
    CasTxn = {c1}
    Delivery = {d1}
    Import = {b1}
    Plan = "starter"
    Quota = 1
    MaxFaults = 1
    User = {u1}
    Worker = {w1}
    MaxJobs = 1
    MaxJobFaults = 0
INVARIANTS NothingForgotten
PROPERTIES ImplementsClassification ReceivedIsClassified
\* A behaviour ends when all calls and uploads are used up.
CHECK_DEADLOCK FALSE
