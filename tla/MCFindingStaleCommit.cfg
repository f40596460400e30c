CONSTANTS
  MaxAttempts = 1
  Trigger = "Annotation"
  Removable = {}
  ApiErrors = FALSE
  Reused = {}
  MaxLag = 2
  MaxStale = 2
SPECIFICATION StaleSpec
INVARIANT DataKept
CHECK_DEADLOCK FALSE
