--------------------------- MODULE MCExecutionPath ---------------------------
(* Instances of ExecutionPath for TLC. *)
EXTENDS ExecutionPath

CONSTANTS r1, r2

MCRequests == {r1, r2}
==============================================================================
