--------------------------- MODULE MCExecutionApi ---------------------------
(* Two overlapping key requests and one IDE request of one account.         *)
EXTENDS ExecutionApi, TLC

CONSTANTS a1, a2, i1

Swaps == Permutations({a1, a2})
=============================================================================
