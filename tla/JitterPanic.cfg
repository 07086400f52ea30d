SPECIFICATION Spec
CONSTANTS
  Capacity = 4
  MaxBlock = 3
  MaxOffered = 12
INVARIANT PushReturns
