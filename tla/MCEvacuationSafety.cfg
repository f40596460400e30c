CONSTANTS
  MaxAttempts = 2
  Trigger = "Annotation"
  Removable = {"source", "target"}
  ApiErrors = TRUE
  Reused = {"pvc", "pv"}
SPECIFICATION Spec
INVARIANTS PVBacked CompletedSettles IInv
PROPERTIES MovesVolume AbortUnwinds RollForwardOnly GuardHolds SourceDeletedLast OneAttemptAtATime
CHECK_DEADLOCK FALSE
