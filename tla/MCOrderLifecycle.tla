-------------------------- MODULE MCOrderLifecycle --------------------------
(* Small instances of OrderLifecycle for TLC: with KIS others trade the       *)
(* account as well.                                                           *)
EXTENDS OrderLifecycle

CONSTANTS o1, o2

\* Kiwoom infers fills from the holding, so there it may exceed an order.
HeldAt == [kis |-> 1, kiwoom |-> 2]
=============================================================================
