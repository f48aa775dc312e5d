SPECIFICATION FairSpec
CONSTANTS
  a = a
  b = b
  e1 = e1
  e2 = e2
  j1 = j1
  u1 = u1
  Symbols = {a}
  Events = {e1, e2}
  Jobs = {j1}
  Unlocked = {u1}
  Liquidation = TRUE
  MaxHeld = 1
INVARIANT LockIsExact
PROPERTY LockFreed
CHECK_DEADLOCK FALSE
