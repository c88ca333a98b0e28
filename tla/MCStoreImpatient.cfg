SPECIFICATION SafeSpec
CONSTANTS
  Presets <- OneFolder
  Impatient = TRUE
  MaxSockets = 2
  MaxFaults = 0
  MaxChanges = 0
  MaxLost = 0
  MaxTicks = 0
  MaxSwitches = 0
INVARIANT OneLiveSocket
\* The page may be closed, and the bounds used up.
CHECK_DEADLOCK FALSE
