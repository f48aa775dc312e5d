--------------------------- MODULE MCTradingCycle ---------------------------
(* Small instances of TradingCycle for TLC. *)
EXTENDS TradingCycle

CONSTANTS c1, c2, c3

OnePrice  == {1}
TwoPrices == {1, 2}
OneQty    == {1}
PairOnly  == {2}    \* more than MaxCash = 1 buys: every BUY is cut
=============================================================================
