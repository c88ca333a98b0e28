SPECIFICATION Spec
CONSTANTS
  s1 = s1
  s2 = s2
  Socks = {s1, s2}
  NoSock = NoSock
  MaxClients = 2
  MaxListings = 1
  MaxChanges = 1
  MaxConnections = 2
  MaxGets = 1
  MaxOutages = 1
INVARIANTS TypeOK ServedIsCurrent EveryUpgradeIsServed
PROPERTIES PushesGoForward ClientsCatchUp

