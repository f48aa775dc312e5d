----------------------------- MODULE MCMcpCalls -----------------------------
(* Small instances of McpCalls for TLC. *)
EXTENDS McpCalls

CONSTANTS o1, o2, q1, a1
=============================================================================
