CONSTANTS
  a = a
  b = b
  w = w
  NoNode = NoNode
  Node = {1, 2, 3, 4}
  Vol <- PodVol
  Home <- PodHome
  Tainted = {1}
  Size <- PodSize
  Pool <- PodPool
  Group <- PodGroup
  Explicit <- PodExplicit
  Admits <- PodAdmits
  Headroom = 10
  Unsteady = {b}
  Flapping = TRUE
SPECIFICATION FairSpec
INVARIANTS IInv OneInbound RoomToLand NeverSplit
PROPERTY FollowersArrive
CHECK_DEADLOCK FALSE
