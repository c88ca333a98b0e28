\* Both workers: gunzip is chosen initially; bad is what gzip::inflate() rejects.
SPECIFICATION Spec
CONSTANTS
  m1 = m1
  m2 = m2
  big = big
  bad = bad
  Zeroed = Zeroed
  Messages = {m1, m2, big, bad}
  TooBig = {big}
  Undecodable = {bad}
  MaxSubmits = 4
INVARIANTS TypeOK SlotExclusive IntactInOrder NothingLostUncounted
PROPERTY ImplementsSlot
\* Both threads wait for ever once the device sends nothing more.
CHECK_DEADLOCK FALSE
