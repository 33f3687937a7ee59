CHECK_DEADLOCK FALSE
CONSTANTS
  Instances <- MCInstances
  Kinds = {"device", "file"}
  MaxPuts = 3
  MaxToggles = 2
  MaxStarts = 2
SPECIFICATION Spec
INVARIANTS
  SettingsAreInUse
  CommandsUseTheirParameters
  MemoryOfOneEpoch
PROPERTY
  SettingsArrive
