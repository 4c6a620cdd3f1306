------------------------------ MODULE MCAccount ------------------------------
(* Calls of the API on one account, which are interchangeable.             *)
EXTENDS Account, TLC

CONSTANTS c1, c2, c3

CallSymmetry == Permutations(Call)
=============================================================================
