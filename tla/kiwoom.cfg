SPECIFICATION Spec
CONSTANTS
  Callers <- Two
  May <- SellerAndOther
  MaxHeld = 1
  RateRetries = 1
  Attempts = 2
  Paper = TRUE
  FileWritable = TRUE
  MaxUpsets = 1
INVARIANTS OrderedOnce RetryIsFresh RecordedIsSold
CHECK_DEADLOCK FALSE
