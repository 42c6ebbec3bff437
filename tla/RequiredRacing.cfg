SPECIFICATION Spec
CONSTANTS
  Order <- MCOrder
  Checks = {"quality", "image", "topology"}
  Others = {"strict", "loose"}
  Invocations = {"apply", "older", "check"}
  ModeOf <- MCModeOf
  WantedBy <- MCWantedBy
  Found <- MCFound
  MaxEdits = 1
INVARIANTS TypeOK AppliedSoFar LiveIsTrue
PROPERTIES MinimalWrite
CHECK_DEADLOCK FALSE
