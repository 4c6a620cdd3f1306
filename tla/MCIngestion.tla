----------------------------- MODULE MCIngestion -----------------------------
(* Ingestion.tla on small instances; the sizes are in the .cfg files.       *)
EXTENDS Ingestion, TLC

\* Calls, uploads, Cas transactions and file rows are interchangeable: used
\* by the runs that check no liveness.
Symmetry == Permutations(Delivery) \union Permutations(Import)
            \union Permutations(CasTxn) \union Permutations(FileRow)
=============================================================================
