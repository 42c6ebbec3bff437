SPECIFICATION FairSpec
CONSTANTS
  Runs = {"first", "changed", "moved"}
  Downs = {"d1"}
  PortMaps = {"default", "others"}
  PortsOf <- MCPortsOf
  Scripts = {"original", "edited"}
  ScriptOf <- MCScriptOf
  TokenRuns = {"changed"}
  MaxActive = 1
  DownsOverlap = TRUE
  None = None
INVARIANTS TypeOK
PROPERTIES OwnScriptRan EveryRunEnds
CHECK_DEADLOCK FALSE
