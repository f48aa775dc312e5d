SPECIFICATION FairSpec
CONSTANTS
  c1 = c1
  c2 = c2
  c3 = c3
  Candidates = {c1, c2, c3}
  MaxCash = 1
  Prices <- OnePrice
  Quantities <- PairOnly
  MinQty = 1
  MaxConcurrent = 2
  Enforce = TRUE
  MarketMode = FALSE
  BrokerMayRaise = TRUE
  MaxDaily = 0
  MaxCycles = 1
INVARIANTS ReservedWithinCash SpendWithinCash ReservationSettled
PROPERTIES RefusedOnlyForCash CycleEnds
CHECK_DEADLOCK FALSE
