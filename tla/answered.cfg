SPECIFICATION FairSpec
CONSTANTS
  u1 = u1  u2 = u2
  e1 = e1  e2 = e2  e3 = e3
  r1 = r1  r2 = r2  r3 = r3
  User = {u1}
  Id = {e1, e2}
  Req = {r1, r2}
  Ops = {"start", "stop", "toggle", "update", "setStatus"}
  MillisPerSecond = 1
  MaxEntryMillis = 2
  FutureSkewMillis = 0
  MaxClock = 1
  Manual <- Nothing
  Patch <- BrkPatch
  Range <- OneRange
  NoEntry = NoEntry
  Gone = Gone
  NoReq = NoReq


PROPERTIES EveryCallAnswered
