SPECIFICATION FairSpec
CONSTANTS
  Calls <- TwoCalls
  Kind <- OneTier
  Settings <- TwoSettings
  FirstSettings <- ClaudeFirst
  MaxChanges = 1
  MaxSessions = 1
INVARIANTS CodexSerial SessionExclusive
PROPERTIES  GenerateReturns
CHECK_DEADLOCK FALSE
