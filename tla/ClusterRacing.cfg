SPECIFICATION Spec
CONSTANTS
  Runs = {"first", "again", "moved"}
  Downs = {"d1"}
  PortMaps = {"default", "others"}
  PortsOf <- MCPortsOf
  Scripts = {"original", "edited"}
  ScriptOf <- MCScriptOf
  TokenRuns = {"again"}
  MaxActive = 2
  DownsOverlap = FALSE
  None = None
CHECK_DEADLOCK FALSE
INVARIANTS RabbitSecretsAgree HostMapTruthful
PROPERTIES AppliesOntoProvisioned KeepsPromise NeverRotated FreshBootstrap
