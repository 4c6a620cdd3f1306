SPECIFICATION Spec
CONSTANTS
    Txn = {r1, r2}
    CasTxn = {}
    Delivery = {}
    Import = {b1}
    Plan = "starter"
    Quota = 1
    MaxFaults = 0
INVARIANTS OverageFullyLogged
\* A behaviour ends when all calls and uploads are used up.
CHECK_DEADLOCK FALSE
