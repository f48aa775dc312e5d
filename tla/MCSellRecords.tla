--------------------------- MODULE MCSellRecords ----------------------------
(* Small instances of SellRecords for TLC. *)
EXTENDS SellRecords

CONSTANTS r1, r2, r3
=============================================================================
