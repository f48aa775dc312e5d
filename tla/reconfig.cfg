SPECIFICATION FairSpec
CONSTANTS
  Bools <- BoolKeys
  Numbers <- NumberKeys
  Choices <- ChoiceKeys
  ApplyRequests <- Forms
  ToggleRequests <- Switchings
  MaxRequests = 2
  DrainMayTimeOut = TRUE
  Crashes = TRUE
INVARIANTS QuietWhileApplied SettingsSound
PROPERTIES ReconfigurationEnds
