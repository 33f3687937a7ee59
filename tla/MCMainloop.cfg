CONSTANTS
  in = in
  Modules <- InputModule
  Inputs <- InputModule
  AutoRestart <- InputModule
  MaxSleep = 1
  Environment <- OutsideEvents
SPECIFICATION FairSpec
INVARIANTS
  ListenersPointToLiveData
  StopReachesModules
PROPERTIES
  ShutdownCompletes
  StoppedModuleStops
CHECK_DEADLOCK FALSE
