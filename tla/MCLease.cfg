CONSTANTS
  r1 = r1
  r2 = r2
  Replica = {r1, r2}
  NoReplica = none
  Duration = 3
  Renew = 1
  CallBound = 1
  Unreliable = {r1}
  Crashable = {r1}
  MaxTime = 18
SPECIFICATION Spec
INVARIANTS IInv FencedInTime SuccessionInTime
PROPERTY TakeoverAfterExpiry
CHECK_DEADLOCK FALSE
