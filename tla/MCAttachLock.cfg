CONSTANTS
  p1 = p1
  p2 = p2
  Pod = {p1, p2}
  EarlyKinds = {"routed", "named"}
  Kinds = {"routed", "named", "cordonTolerant", "evacuateTolerant"}
  Modes = {"WhenIdle", "WhenClaimed"}
  Settle = 2
  Propagation = 2
  MayUncordon = {"WhenIdle"}
  MayEditMode = FALSE
SPECIFICATION FairSpec
INVARIANTS IInv NoLostWrites NoWriterMidCopy
PROPERTIES SettledBeforeCopy QuietEnds
CHECK_DEADLOCK FALSE
