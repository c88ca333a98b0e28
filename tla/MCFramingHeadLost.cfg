\* The first packet of a split report may be lost.
SPECIFICATION Spec
CONSTANTS
  MaxPayload = 2
  ConfusedLen = 1
  Capacity = 4
  Sizes = {2, 3}
  Splits = {TRUE}
  Droppable = {"head"}
  MaxMessages = 3
  MaxLost = 1
  MaxUnplugs = 0
INVARIANT OnePacketCostsOneReport
\* The device stops sending after MaxMessages, as it may at any time.
CHECK_DEADLOCK FALSE
