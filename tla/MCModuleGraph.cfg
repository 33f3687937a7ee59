CONSTANTS
  Ids = {1, 2, 3, 4, 5}
  Types = {1, 2, 3}
  Libraries <- MCLibraries
  InputChoices <- MCInputChoices
  OutputChoices <- MCOutputChoices
SPECIFICATION GraphSpec
INVARIANTS
  DataAsDeclared
  ProcessorsReachOutputs
