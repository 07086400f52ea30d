SPECIFICATION Spec
CONSTANTS
  Word = 4
  StaleAfter = 2
  PingAfter = 1
  MaxSent = 5
  MaxForeign = 1
  MaxFlight = 2
  MaxCopies = 1
CHECK_DEADLOCK FALSE
INVARIANT LossIsExact
INVARIANT NoImmediateEcho
PROPERTY OnePhoneAtATime
