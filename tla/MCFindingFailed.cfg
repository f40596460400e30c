CONSTANTS
  MaxAttempts = 1
  Trigger = "Annotation"
  Removable = {}
  ApiErrors = FALSE
  Reused = {}
SPECIFICATION Spec
INVARIANT EndedUnwound
CHECK_DEADLOCK FALSE
