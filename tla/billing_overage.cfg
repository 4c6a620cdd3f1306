SPECIFICATION OverSpec
CONSTANTS
    Request = {r1, r2, r3, r4}
    Plan = {"starter"}
    TxnQuota = 1
    ChatQuota = 1
    MaxFaults = 0
SYMMETRY Symmetry
INVARIANTS OverageChargedOnce
CHECK_DEADLOCK FALSE
