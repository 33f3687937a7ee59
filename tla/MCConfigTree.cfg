CONSTANTS
  early = early
  late = late
  Names <- MCNames
  Libraries = {1}
  Files <- MCFiles
  EarlyConfig <- MCEarly
  Requests = {"get", "keys", "put", "add", "remove", "update", "run"}
  MaxRequests = 3
  MaxRuns = 2
CHECK_DEADLOCK FALSE
SPECIFICATION ConfigSpec
INVARIANTS
  SettingsSurvive
PROPERTY OnlyUpdatesHang
