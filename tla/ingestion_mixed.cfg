\* Three deliveries of two transactions, and two uploads that may
\* share rows; the quota runs out in the middle.
SPECIFICATION Spec
CONSTANTS
    Txn = {c1, c2, r1, r2}
    CasTxn = {c1, c2}
    Delivery = {d1, d2, d3}
    Import = {b1, b2}
    Plan = "starter"
    Quota = 2
    MaxFaults = 1
SYMMETRY Symmetry
INVARIANTS TypeOK UsageMatchesRows OneJobPerRow NeverOverbilled AcceptedMeansQueued RowsBelongToOneBatch
\* A behaviour ends when all calls and uploads are used up.
CHECK_DEADLOCK FALSE
