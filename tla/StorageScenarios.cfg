SPECIFICATION CheckSpec
CONSTANTS
  Checks = {"first", "second"}
  MaxDefects = 2
  MaxMishaps = 1
  MishapsRepeat = FALSE
INVARIANTS
  CheckTypeOK
  SoundBootstrapPasses
PROPERTIES DefectsCaught
CHECK_DEADLOCK FALSE
