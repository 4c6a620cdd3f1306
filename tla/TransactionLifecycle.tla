------------------------ MODULE TransactionLifecycle ------------------------
(***************************************************************************)
(* What the product promises about a transaction's status: it is received  *)
(* once, leaves pending by one verdict of the AI, leaves review by one     *)
(* decision of one person, and is final after that.                        *)
(***************************************************************************)
CONSTANTS Txn, User
VARIABLES
    stage,      \* the status people see
    deciders    \* who decided the transaction in Human Review

vars == <<stage, deciders>>

Init ==
    /\ stage = [t \in Txn |-> "absent"]
    /\ deciders = [t \in Txn |-> {}]

Receive(S) ==
    /\ \A t \in S : stage[t] = "absent"
    /\ stage' = [t \in Txn |-> IF t \in S THEN "pending" ELSE stage[t]]
    /\ UNCHANGED deciders

Judge(t, verdict) ==
    /\ stage[t] = "pending"
    /\ stage' = [stage EXCEPT ![t] = verdict]
    /\ UNCHANGED deciders

Decide(t, u, outcome) ==
    /\ stage[t] = "review" /\ deciders[t] = {}
    /\ stage' = [stage EXCEPT ![t] = outcome]
    /\ deciders' = [deciders EXCEPT ![t] = {u}]

Next ==
    \/ \E S \in SUBSET Txn : Receive(S)
    \/ \E t \in Txn, verdict \in {"classified", "review"} : Judge(t, verdict)
    \/ \E t \in Txn, u \in User, outcome \in {"classified", "skipped"} : Decide(t, u, outcome)

Spec == Init /\ [][Next]_vars
=============================================================================
