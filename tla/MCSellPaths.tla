---------------------------- MODULE MCSellPaths -----------------------------
(* Small instances of SellPaths for TLC. *)
EXTENDS SellPaths

CONSTANTS a, b, e1, e2, j1, u1

=============================================================================
