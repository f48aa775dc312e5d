SPECIFICATION FairSpec
CONSTANTS
  o1 = o1
  o2 = o2
  Orders = {o1, o2}
  MaxQty = 1
  MaxHeld <- HeldAt
  Brokers = {"kis", "kiwoom"}
  OtherTrades = {"kis"}
  ReadsFail = TRUE
  RecoveryOn = TRUE
  MaxCrashes = 1
INVARIANT ConfirmedWithinOrder
PROPERTIES ConfirmedWithinFill  PendingSettles
CHECK_DEADLOCK FALSE
