SPECIFICATION HistorySpec
CONSTANTS
  u1 = u1  u2 = u2
  e1 = e1  e2 = e2  e3 = e3
  r1 = r1  r2 = r2  r3 = r3
  User = {u1}
  Id = {e1, e2}
  Req = {r1, r2, r3}
  Ops = {"start", "stop", "toggle", "update", "setStatus"}
  MillisPerSecond = 1
  MaxEntryMillis = 2
  FutureSkewMillis = 1
  MaxClock = 1
  Manual <- Nothing
  Patch <- MovePatch
  Range <- FirstDay
  NoEntry = NoEntry
  Gone = Gone
  NoReq = NoReq
VIEW HistoryView
SYMMETRY Interchangeable
INVARIANTS TypeOK SingleRunning
PROPERTIES LifecycleOnly NotRunningIsTrue SweepIsComplete
