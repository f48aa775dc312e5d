----------------------------- MODULE MCRealtime -----------------------------
(* A small instance of Realtime for TLC. *)
EXTENDS Realtime

\* Holdings of which one is lost in the crowd when the limit is 1.
Two == {"a", "b"}
=============================================================================
