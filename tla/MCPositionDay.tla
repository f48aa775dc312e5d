---------------------------- MODULE MCPositionDay ----------------------------
(* A small instance of PositionDay for TLC. *)
EXTENDS PositionDay

One == {"a"}
=============================================================================
