\* Reports arrive in one transfer (RW612), which may be lost, or in two
\* (ESP32-S3), the second of which may be lost.
SPECIFICATION Spec
CONSTANTS
  MaxPayload = 2
  ConfusedLen = 1
  Capacity = 4
  Sizes = {0, 2, 3, 7}
  Splits = {TRUE, FALSE}
  Droppable = {"whole", "tail"}
  MaxMessages = 3
  MaxLost = 2
  MaxUnplugs = 1
INVARIANTS TypeOK UndamagedArrive BeginsWithItsFirst OnePacketCostsOneReport
\* The device stops sending after MaxMessages, as it may at any time.
CHECK_DEADLOCK FALSE
