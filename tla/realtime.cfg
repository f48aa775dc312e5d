SPECIFICATION FairSpec
CONSTANTS
  Stocks <- Two
  FirstHeld = {"a"}
  Limit = 2
  MaxUpsets = 2
  MaxQueue = 1
CHECK_DEADLOCK FALSE
INVARIANT SubscriptionsSound
PROPERTY DangerIsAnswered
