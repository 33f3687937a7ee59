CHECK_DEADLOCK FALSE
CONSTANTS
  Watched <- MCWatched
  RingSize = 2
  MaxContainers = 3
  MaxPuts = 2
  MaxActions = 2
  MaxStarts = 2
SPECIFICATION Spec
INVARIANTS
  PositionIsKept
  NewestIsShown
PROPERTIES
  WindowFollowsSettings
