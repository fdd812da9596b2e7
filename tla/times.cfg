SPECIFICATION Spec
CONSTANTS
  u1 = u1  u2 = u2
  User = {u1, u2}
  Id = {}
  MillisPerSecond = 2
  SecondsPerMinute = 2
  MinutesPerDay = 12
  MaxEntryMillis = 24
  FutureSkewMillis = 2
  NoProject = "none"
  Zones <- MCZones
  Entries <- MCEntries
  Rows <- MCRows
  Moments <- MCMoments
CHECK_DEADLOCK FALSE
INVARIANTS TypeOK WeekHoldsToday WeeksTile DayRangeCoversDays SaveKeepsMinutes SaveSettles ClientAgreesWithServer SumsAgree DayShownOnce
PROPERTY CounterGoesForward
