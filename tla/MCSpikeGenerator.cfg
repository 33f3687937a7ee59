CONSTANTS
  Chips = {"U0", "U1"}
  DefaultChip = "U0"
  Commands <- SetAndClear
  ClearCommands = {"clearAllCam"}
  StimTypes = {"regular"}
  Durations = {0, 1}
  MaxPuts = 2
  MaxStarts = 2
SPECIFICATION FairSpec
CHECK_DEADLOCK FALSE
INVARIANTS
  StopIsPrompt
  QuietBiasGetsToItsChip
PROPERTIES
  ExitTerminates
