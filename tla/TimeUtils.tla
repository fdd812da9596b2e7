----------------------------- MODULE TimeUtils -----------------------------
(***************************************************************************)
(* The time arithmetic of the web client (utils/time.ts): wall clocks in a *)
(* time zone and back, weeks, day keys, and the net seconds of an entry.   *)
(*                                                                         *)
(* An instant is in milliseconds since the epoch, or in whole minutes      *)
(* where the code works on what Intl.DateTimeFormat shows of it.  A wall   *)
(* clock {y, mo, d, h, mi} is the number of minutes Date.UTC makes of it.  *)
(* A zone has one change of its offset, which is as many as matter to a    *)
(* conversion.                                                             *)
(***************************************************************************)
EXTENDS EntryData

CONSTANTS SecondsPerMinute, MinutesPerDay

ASSUME UnitAssumption == SecondsPerMinute \in Nat \ {0} /\ MinutesPerDay \in Nat \ {0}

Minute == SecondsPerMinute * MillisPerSecond
Day    == MinutesPerDay * Minute

MinuteOf(ms) == ms \div Minute
DayOf(w)     == w \div MinutesPerDay

(* Offsets in minutes, before and from minute "at" on.  named is           *)
(* setTimezone: whether Mattermost told a zone, or the browser's is used.  *)
Zone == [at : Int, before : Int, after : Int, named : BOOLEAN]

Offset(z, m) == IF m < z.at THEN z.before ELSE z.after

(* wallPartsInTz, and the getters of a Date. *)
Wall(z, m) == m + Offset(z, m)

TzOffset(z, m) == Wall(z, m) - m

FirstGuess(z, w) == w - TzOffset(z, w)  \* mutant: the offset is not resolved again

ZonedWallToUtc(z, w) ==
  LET offset  == TzOffset(z, w)
      offset2 == TzOffset(z, w - offset)
  IN IF offset2 = offset THEN w - offset ELSE w - offset2

(* new Date(y, mo, d, h, mi) of ECMAScript: the earlier of two instants,   *)
(* and the old offset where there is none.                                 *)
DateOf(z, w) ==
  IF w - z.before >= z.at /\ w - z.after >= z.at THEN w - z.after ELSE w - z.before

FromWall(z, w) == IF z.named THEN ZonedWallToUtc(z, w) ELSE DateOf(z, w)

(* The values of <input type="datetime-local">, and of the day keys. *)
ToDatetimeInput(z, ms)  == Wall(z, MinuteOf(ms))
FromDatetimeInput(z, w) == Minute * FromWall(z, w)
LocalDayKey(z, ms)      == DayOf(Wall(z, MinuteOf(ms)))

-----------------------------------------------------------------------------
(* Weeks: Monday to Monday.  Day 0 of the epoch was a Thursday. *)

UtcDay(day) == (day + 4) % 7

SundayFirst(day) == day - UtcDay(day) + 1  \* mutant: Sunday is in the week that follows

MondayOf(day) == day - ((UtcDay(day) + 6) % 7)

(* setDate: another day at the same time of the clock. *)
SetDate(z, m, day) == DateOf(z, day * MinutesPerDay + (Wall(z, m) % MinutesPerDay))

WeekRange(z, ms) ==
  LET today  == LocalDayKey(z, ms)
      monday == MondayOf(today)
      first  == SetDate(z, DateOf(z, today * MinutesPerDay), monday)
      from   == IF z.named THEN ZonedWallToUtc(z, monday * MinutesPerDay) ELSE first
      to     == IF z.named THEN ZonedWallToUtc(z, (monday + 7) * MinutesPerDay)
                ELSE SetDate(z, first, monday + 7)
  IN [from |-> Minute * from, to |-> Minute * to]

-----------------------------------------------------------------------------
(* Mutants: the seconds are rounded; a closed entry is still counted.      *)
RoundedNet(e, now) ==
  LET end == IF IsRunning(e) THEN now ELSE e.end
      net == (2 * (end - e.start) + MillisPerSecond) \div (2 * MillisPerSecond)
             - BreakTotal(e, now)
  IN IF net < 0 THEN 0 ELSE net
UnsettledNet(e, now) ==
  LET net == (now - e.start) \div MillisPerSecond - BreakTotal(e, now)
  IN IF net < 0 THEN 0 ELSE net

(* netSeconds: Math.floor where the server truncates. *)
NetSeconds(e, now) ==
  LET end    == IF IsRunning(e) THEN now ELSE e.end
      gross  == (end - e.start) \div MillisPerSecond
      breaks == e.brk + (IF OnBreak(e) THEN (now - e.onbrk) \div MillisPerSecond ELSE 0)
  IN IF gross < breaks THEN 0 ELSE gross - breaks

(* TimeEntry.NetSeconds of the server. *)
ServerNetSeconds(e, now) ==
  LET end == IF IsRunning(e) THEN now ELSE e.end
      net == Seconds(end - e.start) - BreakTotal(e, now)
  IN IF net < 0 THEN 0 ELSE net
=============================================================================
