SPECIFICATION Spec
CONSTANTS
    Request = {r1, r2}
    Plan = {"starter", "enterprise"}
    TxnQuota = 1
    ChatQuota = 1
    MaxFaults = 0
SYMMETRY Symmetry
INVARIANTS ChatsWithinQuota
CHECK_DEADLOCK FALSE
