SPECIFICATION FairSpec
CONSTANTS
  o1 = o1
  o2 = o2
  q1 = q1
  a1 = a1
  Orders = {o1}
  Queries = {q1}
  Admins = {a1}
  MaxConcurrent = 1
  MaxReconnects = 1
  MaxStreams = 2
INVARIANTS PlacedOnce 
PROPERTY CallsReturn
CHECK_DEADLOCK FALSE
