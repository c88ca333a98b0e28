SPECIFICATION Spec
CONSTANTS
  Folders = 1
  Capacity = 1
  Quiet = 1
  Overall = 2
  AnyUnplug = TRUE
  SendMayFail = TRUE
  ReportLoss = TRUE
  MaxConnects = 2
  MaxDamage = 1
  MaxOther = 0
PROPERTIES
  ListingFinishes
  ListingIsPrinted
  ConnectionIsListed
