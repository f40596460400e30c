CONSTANTS
  Total = 7
  Buffer = 3
  Socket = 2
SPECIFICATION FairSpec
INVARIANTS OkDelivers Pumped
PROPERTIES SourceReleased StreamEnds
CHECK_DEADLOCK FALSE
