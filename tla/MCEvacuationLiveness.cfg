CONSTANTS
  MaxAttempts = 2
  Trigger = "NodeTaint"
  Removable = {"source"}
  ApiErrors = TRUE
  Reused = {}
SPECIFICATION FairSpec
PROPERTIES CommittedCompletes TransferEnds UnlandedAbortEnds
CHECK_DEADLOCK FALSE
