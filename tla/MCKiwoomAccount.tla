--------------------------- MODULE MCKiwoomAccount ---------------------------
(* A small instance of KiwoomAccount for TLC. *)
EXTENDS KiwoomAccount

\* Two operations at a time.
Two == {"a", "b"}

\* One of them sells, while the other looks at the account or cancels a purchase.
SellerAndOther == [c \in Two |-> IF c = "a" THEN {"sell", "replace"} ELSE {"sell", "cancel", "look"}]
=============================================================================
