SPECIFICATION ReceiverSpec
CONSTANTS
  MaxRuns = 1
  Asked <- MCAsked
CHECK_DEADLOCK FALSE
INVARIANT OutputsAreOwned
