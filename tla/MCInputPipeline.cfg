CONSTANTS
  NumPackets = 3
  RingSize = 1
  Environment <- NoFlapping
SPECIFICATION FairSpec
INVARIANTS
  CountersMatchData
  EndOfInputDelivers
  ConsumedBeforeStop
PROPERTIES
  ImplementsPacketStream
  ExitTerminates
  EndOfInputStops
