SPECIFICATION Spec
CONSTANTS
  MaxDevices = 3
  Reports = 2
  StateReads = 1
  NoBurstPolls = 1
  MaxPolls = 2
INVARIANTS TypeOK WholeMessages MirrorsOwnDevice ServesAClaimedDevice
PROPERTIES HandshakesEnd
\* Nothing runs until a first device is probed, and none may ever be attached.
CHECK_DEADLOCK FALSE
