SPECIFICATION Spec
CONSTANTS
  Capacity = 4
  Frame = 2
  Word = 4
  MaxConns = 2
  Budgets <- MCBudgets
  Window = 1
  ReplyCap = 1
  DrainMax = 2
INVARIANT RingIsAQueue
INVARIANT DrainedBeforeBye
PROPERTY LossOnlyAtReconnect
PROPERTY StopEnds
PROPERTY ServeEnds
CHECK_DEADLOCK FALSE
