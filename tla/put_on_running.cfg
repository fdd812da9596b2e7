SPECIFICATION Spec
CONSTANTS
  u1 = u1  u2 = u2
  e1 = e1  e2 = e2  e3 = e3
  r1 = r1  r2 = r2  r3 = r3
  User = {u1}
  Id = {e1, e2}
  Req = {r1, r2}
  Ops = {"start", "update"}
  MillisPerSecond = 1
  MaxEntryMillis = 2
  FutureSkewMillis = 0
  MaxClock = 2
  Manual <- Nothing
  Patch <- TwoPatches
  Range <- Nothing
  NoEntry = NoEntry
  Gone = Gone
  NoReq = NoReq
VIEW WithoutAnswers
SYMMETRY Interchangeable

PROPERTIES EditsSpareRunning
