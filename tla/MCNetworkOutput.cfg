CONSTANTS
  c1 = c1
  c2 = c2
  c3 = c3
  Modes = {"server", "client", "udp"}
  Connections <- ThreeConnections
  Slots = 2
  RingSize = 1
  QueueLimit = 1
  MaxChunks = 2
  MaxPackets = 2
CHECK_DEADLOCK FALSE
SPECIFICATION Spec
INVARIANTS
  ReferencesMatchWrites
  SlowClientsHarmLaterSlots
PROPERTY
  ExitEnds
