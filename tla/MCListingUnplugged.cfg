SPECIFICATION SafeSpec
CONSTANTS
  Folders = 2
  Capacity = 1
  Quiet = 2
  Overall = 3
  AnyUnplug = TRUE
  SendMayFail = FALSE
  ReportLoss = TRUE
  MaxConnects = 2
  MaxDamage = 1
  MaxOther = 0
INVARIANTS
  TypeOK
  ReceivedIsListed
  NoForeignFolders
  SnapshotIsOfItsStream
