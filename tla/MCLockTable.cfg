CONSTANTS
  e1 = e1
  e2 = e2
  e3 = e3
  Evac = {e1, e2, e3}
  Tries = 2
  Unreliable = {e1}
SPECIFICATION FairSpec
INVARIANT LocksKept
PROPERTY UnlockEnds
CHECK_DEADLOCK FALSE
