SPECIFICATION FairSpec
CONSTANTS
  Sources = {"dart", "cnbc"}
  Items = {1, 2}
  SourceOf <- Feed
  Foreign = {2}
  Symbols = {"s1"}
  Own <- Given
  Native <- Named
  Translated <- Rendered
  Polls = {"p1", "p2"}
  Fills = {"f1"}
  Threshold = 1
  BatchSize = 1
  MaxPolls = 2
  ManualSources = {"cnbc"}
  MaxManual = 1
  MaxChanges = 1
CHECK_DEADLOCK FALSE
INVARIANTS ArticlesSound OnlyManualConflicts
PROPERTIES PollsEnd 
