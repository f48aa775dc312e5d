--------------------------- MODULE MCNewsPipeline ---------------------------
(* A small instance of NewsPipeline for TLC. *)
EXTENDS NewsPipeline, TLC

\* A Korean disclosure with its symbol, and a foreign article that names a
\* stock only once it is translated.
Feed      == 1 :> "dart" @@ 2 :> "cnbc"
Given     == 1 :> {"s1"} @@ 2 :> {}
Named     == 1 :> {} @@ 2 :> {}
Rendered  == 1 :> {} @@ 2 :> {"s1"}
=============================================================================
