\* One transaction, everybody on it at once.
SPECIFICATION Spec
CONSTANTS
    Txn = {t1}
    User = {u1, u2, u3}
    Worker = {w1, w2}
    MaxJobs = 2
    MaxFaults = 1
SYMMETRY Symmetry
INVARIANTS TypeOK QueueAgrees OneReviewDecision AuditExplainsStatus ProvenanceHolds IndInv
PROPERTIES SettledStays AccountsChangeByHandOnly ImplementsLifecycle
