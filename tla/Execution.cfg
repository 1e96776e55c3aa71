CONSTANTS
  None = None
  Call = {"main", "side", "check"}
  Stream = {"out"}
  MaxUpgrades = 1
  Loads <- MCLoads
SPECIFICATION RunnerFairSpec
INVARIANTS CompileErrorIsTheSources TestsAreSummed LeadersEndWithTheRun StrangersAreSpared
PROPERTIES PipeHoldersDie RunReturns
CHECK_DEADLOCK FALSE
