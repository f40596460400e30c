CONSTANTS
  l1 = l1
  Loop = {l1}
  MaxMoves = 3
  MaxRequests = 5
  MayWithdraw = TRUE
  MayFail = TRUE
  MayDelete = TRUE
  ApiErrors = TRUE
SPECIFICATION FairSpec
PROPERTIES NeverInterrupts Justified Served
CHECK_DEADLOCK FALSE
