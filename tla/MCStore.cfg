SPECIFICATION Spec
CONSTANTS
  Presets <- OneFolder
  Impatient = FALSE
  MaxSockets = 3
  MaxFaults = 1
  MaxChanges = 1
  MaxLost = 1
  MaxTicks = 1
  MaxSwitches = 2
INVARIANT TypeOK
INVARIANT OneLiveSocket
INVARIANT LinkTellsTruth
INVARIANT NoUnnoticedLoss
PROPERTY ClosedForGood
PROPERTY PendingEnds
PROPERTY Recovers
PROPERTY ComesInStep
\* The page may be closed, and the bounds used up.
CHECK_DEADLOCK FALSE
