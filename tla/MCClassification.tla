-------------------------- MODULE MCClassification --------------------------
(* Classification.tla on small instances; the sizes are in the .cfg files. *)
EXTENDS Classification, TLC

\* Transactions, people and workers are interchangeable: used by the runs
\* that check no liveness.
Symmetry == Permutations(Txn) \union Permutations(User) \union Permutations(Worker)
=============================================================================
