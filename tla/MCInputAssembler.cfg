CONSTANTS
  special = special
  polarity = polarity
  Kinds <- TwoKinds
  Special = special
  Wrap = 4
  MaxEpoch = 1
  TimeSlices = {1, 2}
  SizeSlices = {1, 2}
  MaxEvents = 3
  MaxHeld = 3
SPECIFICATION FairSpec
INVARIANTS
  EventsAreKept
  ContainersInTimeOrder
PROPERTIES
  SlicesKeepLimits
  CommitEndsInFirstEpoch
