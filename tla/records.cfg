SPECIFICATION FairSpec
CONSTANTS
  r1 = r1
  r2 = r2
  r3 = r3
  None = None
  N = 2
  Rowed = {r1}
  Placing = {r2}
  Direct = {}
  Backfill = TRUE
  MaxLot = 3
  
PROPERTY OldestFirst
CHECK_DEADLOCK FALSE
