--------------------------- MODULE MCSubscriptions ---------------------------
(* Subscriptions.tla on small instances; the sizes are in the .cfg files.   *)
EXTENDS Subscriptions, TLC

Symmetry == Permutations(Request)

\* The same tenant later: one transaction above the quota, nothing on order.
OverInit ==
    /\ sub = <<[NewSub("starter", 0, 0) EXCEPT !.used = TxnQuota + 1]>>
    /\ order = <<>>
    /\ log = {1} /\ clock = 2
    /\ cache = NoCopy
    /\ request = [r \in Request |-> Idle]
    /\ faults = 0

OverSpec == OverInit /\ [][Next]_vars
=============================================================================
