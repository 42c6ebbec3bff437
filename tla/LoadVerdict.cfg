SPECIFICATION FairSpec
CONSTANTS
  N = 2
  Parts = 2
  CallsFail = TRUE
INVARIANTS  VerdictTrue
PROPERTIES RunEnds
CHECK_DEADLOCK FALSE
