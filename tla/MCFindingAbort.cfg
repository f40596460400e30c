CONSTANTS
  MaxAttempts = 1
  Trigger = "NodeTaint"
  Removable = {}
  ApiErrors = FALSE
  Reused = {}
SPECIFICATION FairSpec
PROPERTY AbortEnds
CHECK_DEADLOCK FALSE
