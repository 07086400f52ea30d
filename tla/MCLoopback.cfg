SPECIFICATION Spec
CONSTANTS
  SeqWord = 4
  LenWord = 3
  Byte = 9
  Chunk = 2
  MaxScan = 4
  Noises <- MCNoises
  ChannelCap = 2
  MaxDelay = 2
  MaxTime = 3
  NoSleep = none
  Counts = {3, 5}
  Sizes = {0, 2, 3}
  BufSize = 6
  MaxStray = 1
INVARIANT FramesAreExact
INVARIANT DelayedLeaveInOrder
INVARIANT VerdictIsSound
PROPERTY NothingIsOverdue
CHECK_DEADLOCK FALSE
