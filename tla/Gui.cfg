SPECIFICATION GuiSpec
CONSTANTS
  Configs = {c1, c2}
  None = none
  Windows = TRUE
  Default = c1
  ChannelCap = 2
  MaxPresses = 3
  MaxPackets = 1
  MaxFailures = 1
  MaxStarts = 2
INVARIANT CalmConsoleAgrees
PROPERTY StreamingIsReal
PROPERTY QuitExits
CHECK_DEADLOCK FALSE
