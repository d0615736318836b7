--------------------------- MODULE MCRetryBackoff ---------------------------
(***************************************************************************)
(* RetryBackoff for TLC, with a narrow long.                               *)
(***************************************************************************)
EXTENDS RetryBackoff

MCPower == [i \in 0..Cap |-> 2 ^ i]

=============================================================================
