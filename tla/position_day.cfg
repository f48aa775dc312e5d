SPECIFICATION FairSpec
CONSTANTS
  Stocks <- One
  FailsSilently = FALSE
  MaxShares = 2
  MaxBuys = 2
  MaxCrashes = 1
PROPERTIES OrphansUnseen  LevelsReturn
