CONSTANTS
  RingSize = 1
  MaxContainers = 3
  MaxPackets = 2
  MaxTime = 1
  Environment <- NoFlapping
SPECIFICATION FairSpec
INVARIANTS
  TimeOrder
  ResetsSeparateEpochs
  NothingLost
PROPERTIES
  FailureStopsModule
