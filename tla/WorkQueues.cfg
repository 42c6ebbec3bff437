SPECIFICATION Spec
CONSTANTS
  Messages = {"p1", "v1", "wrong", "bad"}
  QueueOf <- MCQueueOf
  KindOf <- MCKindOf
  DELIVERY_LIMIT = 2
  Prefetch <- MCPrefetch
  SCALING <- MCScaling
INVARIANTS
  NoneIsLost
  GoodWorkIsKept
PROPERTIES
  CountIsTheAutoscalers
  ScaleInLeavesRoom
  WorkIsSettled
CHECK_DEADLOCK FALSE
