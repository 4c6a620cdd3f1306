SPECIFICATION Spec
CONSTANTS
    Txn = {c1}
    CasTxn = {c1}
    Delivery = {d1, d2}
    Import = {}
    Plan = "starter"
    Quota = 1
    MaxFaults = 0
INVARIANTS DuplicateMeansStored
\* A behaviour ends when all calls and uploads are used up.
CHECK_DEADLOCK FALSE
