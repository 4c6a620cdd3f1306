---------------------------- MODULE MCCopilotTurn ----------------------------
(* A question followed in full, other tabs of the user, a limit they reach. *)
EXTENDS CopilotTurn

CONSTANTS q1, o1, o2
=============================================================================
