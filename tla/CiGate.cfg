SPECIFICATION Spec
CONSTANTS
  Main <- Committed
  Changes <- MCChanges
  SiblingDirs <- MCSiblingDirs
  MaxMishaps = 1
INVARIANTS
  StackProved
  KubernetesProved
  OnlyOurCluster
  ScriptExecutesMigrations
  SoundChangeMerges
CHECK_DEADLOCK FALSE
