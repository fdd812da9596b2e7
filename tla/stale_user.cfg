SPECIFICATION Spec
CONSTANTS
  u1 = u1  u2 = u2
  e1 = e1  e2 = e2
  User = {u1, u2}
  Id = {e1, e2}
  MillisPerSecond = 1
  MaxEntryMillis = 1
  FutureSkewMillis = 0
  Me = u1
  Nobody = Nobody
  MaxWeek = 1
  Bodies = {}
  Starts <- TeamStart
  Periods = {}
  s1 = s1  s2 = s2  s3 = s3
  Slot = {s1, s2}
  MaxEvents = 5
  MaxElsewhere = 0
  NoEntry = NoEntry
  Gone = Gone
  NoDialog = NoDialog
SYMMETRY SlotSymmetry
CHECK_DEADLOCK FALSE
INVARIANT SelectionNarrowsRows
