SPECIFICATION SafeSpec
CONSTANTS
  Folders = 2
  Capacity = 2
  Quiet = 2
  Overall = 3
  AnyUnplug = FALSE
  SendMayFail = TRUE
  ReportLoss = FALSE
  MaxConnects = 2
  MaxDamage = 1
  MaxOther = 1
INVARIANTS
  CompleteMeansAll
  PrintedIsPublished
