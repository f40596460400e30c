CONSTANTS
  MaxAttempts = 2
  Trigger = "Annotation"
  Removable = {"source"}
  ApiErrors = TRUE
  Reused = {}
  MaxLag = 2
  MaxStale = 2
SPECIFICATION StaleSpec
INVARIANTS StaleIInv OncePVBacked
PROPERTIES SourceOutlasts LiveRelayKept AttemptsApart
CHECK_DEADLOCK FALSE
