SPECIFICATION Spec
CONSTANTS
  Devices = {x, y}
  NoDevice = NoDevice
  MaxConns = 3
  MaxPackets = 3
CHECK_DEADLOCK FALSE
INVARIANT OldConnectionsAreEvicted
INVARIANT ShownDeviceIsConnected
PROPERTY CountersAreFinal
PROPERTY GoneWhenTold
