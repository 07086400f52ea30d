SPECIFICATION ReceiverSpec
CONSTANTS
  MaxRuns = 2
  Asked <- MCAsked
CHECK_DEADLOCK FALSE
INVARIANT StaleRunsAreGone
INVARIANT DepthIsOfThisRun
INVARIANT SelfQuitIsExplained
INVARIANT StatsLineIsPrinted
PROPERTY ImplementsContract
PROPERTY DeadRunsAreReaped
