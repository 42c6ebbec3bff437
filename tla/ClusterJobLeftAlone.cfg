SPECIFICATION Spec
CONSTANTS
  Runs = {"first", "second", "third"}
  Downs = {}
  PortMaps = {"default", "others"}
  PortsOf <- MCPortsOf
  Scripts = {"original", "edited"}
  ScriptOf <- MCScriptOf
  TokenRuns = {}
  MaxActive = 2
  DownsOverlap = FALSE
  None = None
CHECK_DEADLOCK FALSE

PROPERTIES RunningJobLeftAlone
