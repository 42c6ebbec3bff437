SPECIFICATION Spec
CONSTANTS
  BackoffLimit = 0
  Overlap = FALSE
  CallsFail = TRUE
  OperatorEdits = 0
CHECK_DEADLOCK FALSE
PROPERTIES ReadErrorStops
