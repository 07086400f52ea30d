SPECIFICATION Spec
CONSTANTS
  Capacity = 6
  Base = 2
  MaxTarget = 6
  Rise = 2
  Step = 1
  Window = 2
  StaleAfter = 3
  DryReset = 3
  Frames = {1, 2}
  Quanta = {1, 2}
  MaxLate = 2
INVARIANT TypeOK
INVARIANT DecayIsEarned
INVARIANT DryIsNotConcealedLong
PROPERTY EpisodeIsHeard
PROPERTY StaleOnlyWhenQuiet
PROPERTY SilentPeerIsReported
PROPERTY SilenceEnds
PROPERTY DepthReturnsToBase
