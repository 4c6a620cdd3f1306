------------------------ MODULE MCTransactionPipeline ------------------------
(* TransactionPipeline.tla on a small instance; the sizes are in the .cfg   *)
(* file.                                                                    *)
EXTENDS TransactionPipeline, TLC
=============================================================================
