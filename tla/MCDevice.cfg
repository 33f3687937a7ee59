CHECK_DEADLOCK FALSE
CONSTANTS
  Watched <- MCWatched
  MaxPuts = 3
  MaxPulls = 2
SPECIFICATION DeviceSpec
INVARIANTS
  SettingsAreApplied
  ExposureIsCoherent
PROPERTY
  DeviceComesBack
