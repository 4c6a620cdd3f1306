\* Three requests of any kind, one of which may die.
SPECIFICATION Spec
CONSTANTS
    Request = {r1, r2, r3}
    Plan = {"starter", "enterprise"}
    TxnQuota = 1
    ChatQuota = 1
    MaxFaults = 1
SYMMETRY Symmetry
INVARIANTS TypeOK AlwaysCovered PaidOrderGranted
PROPERTIES CountersResetWhenDue
\* A behaviour ends when all requests are done.
CHECK_DEADLOCK FALSE
