SPECIFICATION FairSpec
CONSTANTS
  BackoffLimit = 1
  Overlap = TRUE
  CallsFail = TRUE
  OperatorEdits = 2
PROPERTIES ForeignRulesSurvive RerunWritesNothing SuccessMeansRetention JobSettles
CHECK_DEADLOCK FALSE
