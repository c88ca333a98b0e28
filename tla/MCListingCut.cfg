SPECIFICATION SafeSpec
CONSTANTS
  Folders = 2
  Capacity = 2
  Quiet = 2
  Overall = 3
  AnyUnplug = TRUE
  SendMayFail = FALSE
  ReportLoss = FALSE
  MaxConnects = 1
  MaxDamage = 0
  MaxOther = 0
INVARIANTS
  CompleteMeansAll
