SPECIFICATION FairSpec
CONSTANTS
  Checks = {"rr_ratio", "stop_loss"}
  Params = {"confidence"}
  Reviews <- SomeReviews
  MaxActive = 2
  Gaps <- OneOrThree
  MaxReviews = 2
  MaxByHand = 2
  MaxFaults = 1
INVARIANTS
  RulesSound
  RulesInForce
PROPERTIES
  UnforcedNeverReplaces
  ChecksReturn
