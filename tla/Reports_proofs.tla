--------------------------- MODULE Reports_proofs ---------------------------
(***************************************************************************)
(* Proofs about the arithmetic of the views, for every zone of one change, *)
(* every length of a minute and a day, and every entry.                    *)
(***************************************************************************)
EXTENDS Reports, TLAPS

LEMMA DivOfSum ==
  ASSUME NEW n \in Nat \ {0}, NEW k \in Int, NEW r \in 0 .. (n - 1)
  PROVE  (n * k + r) \div n = k
  BY SMT

LEMMA DivShift ==
  ASSUME NEW n \in Nat \ {0}, NEW q \in Int, NEW r \in Int
  PROVE  (n * q + r) \div n = q + r \div n
  BY SMT

LEMMA DivMonotone ==
  ASSUME NEW n \in Nat \ {0}, NEW x \in Int, NEW y \in Int, x <= y
  PROVE  x \div n <= y \div n
  BY SMT

LEMMA DivDifference ==
  ASSUME NEW n \in Nat \ {0}, NEW x \in Int, NEW c \in Int
  PROVE  (x + c) \div n - x \div n \in {c \div n, c \div n + 1}
  BY SMT

LEMMA DivNegative ==
  ASSUME NEW n \in Nat \ {0}, NEW x \in Int, x < 0
  PROVE  x \div n < 0 /\ (-x) \div n >= 0
  BY SMT

LEMMA MinuteType == Minute \in Nat \ {0} /\ Day \in Nat \ {0}
  BY UnitAssumption, MillisAssumption, SMT DEF Minute, Day

LEMMA ZonedWallShows ==
  ASSUME NEW z \in Zone, NEW m \in Int
  PROVE  /\ ZonedWallToUtc(z, Wall(z, m)) \in Int
         /\ Wall(z, ZonedWallToUtc(z, Wall(z, m))) = Wall(z, m)
  BY DEF Zone, Wall, Offset, ZonedWallToUtc, TzOffset

LEMMA DateShows ==
  ASSUME NEW z \in Zone, NEW m \in Int
  PROVE  /\ DateOf(z, Wall(z, m)) \in Int
         /\ Wall(z, DateOf(z, Wall(z, m))) = Wall(z, m)
  BY DEF Zone, Wall, Offset, DateOf

LEMMA RoundTwice ==
  ASSUME NEW k \in Int PROVE RoundMinutes(k * SecondsPerMinute) = k
  BY UnitAssumption, SMT DEF RoundMinutes

LEMMA FromWallShows ==
  ASSUME NEW z \in Zone, NEW m \in Int
  PROVE  /\ FromWall(z, Wall(z, m)) \in Int
         /\ Wall(z, FromWall(z, Wall(z, m))) = Wall(z, m)
  BY ZonedWallShows, DateShows DEF FromWall

LEMMA MinuteOfMinutes ==
  ASSUME NEW k \in Int PROVE MinuteOf(Minute * k) = k
<1>1. (Minute * k + 0) \div Minute = k
  BY MinuteType, DivOfSum
<1> QED BY <1>1, MinuteType DEF MinuteOf

LEMMA InputType ==
  ASSUME NEW z \in Zone, NEW ms \in Int
  PROVE  /\ MinuteOf(ms) \in Int
         /\ ToDatetimeInput(z, ms) \in Int
         /\ FromDatetimeInput(z, ToDatetimeInput(z, ms)) \in Int
<1>1. MinuteOf(ms) \in Int
  BY MinuteType DEF MinuteOf
<1>2. FromWall(z, ToDatetimeInput(z, ms)) \in Int
  BY <1>1, FromWallShows DEF ToDatetimeInput
<1> QED BY <1>1, <1>2, MinuteType DEF ToDatetimeInput, FromDatetimeInput, Wall, Offset, Zone

(* What a field shows survives being read and shown again. *)
LEMMA InputSettles ==
  ASSUME NEW z \in Zone, NEW ms \in Int
  PROVE  ToDatetimeInput(z, FromDatetimeInput(z, ToDatetimeInput(z, ms)))
           = ToDatetimeInput(z, ms)
<1> DEFINE m == FromWall(z, ToDatetimeInput(z, ms))
<1>1. m \in Int /\ Wall(z, m) = ToDatetimeInput(z, ms)
  BY InputType, FromWallShows DEF ToDatetimeInput
<1>2. MinuteOf(Minute * m) = m
  BY <1>1, MinuteOfMinutes
<1> QED BY <1>1, <1>2 DEF ToDatetimeInput, FromDatetimeInput

LEMMA RoundType ==
  ASSUME NEW s \in Int
  PROVE  RoundMinutes(s) \in Int /\ RoundMinutes(s) * SecondsPerMinute \in Int
  BY UnitAssumption, SMT DEF RoundMinutes

LEMMA ResavedFields ==
  ASSUME NEW z \in Zone, NEW e \in TimeEntry
  PROVE  /\ Resaved(z, e) \in TimeEntry
         /\ Resaved(z, e).start = FromDatetimeInput(z, ToDatetimeInput(z, e.start))
         /\ Resaved(z, e).end = FromDatetimeInput(z, ToDatetimeInput(z, e.end))
         /\ Resaved(z, e).brk = RoundMinutes(e.brk) * SecondsPerMinute
         /\ Resaved(z, e) = [user |-> e.user, start |-> Resaved(z, e).start,
                             end |-> Resaved(z, e).end, brk |-> Resaved(z, e).brk,
                             onbrk |-> e.onbrk, status |-> e.status]
<1>1. /\ e.start \in Int /\ e.end \in Int /\ e.brk \in Int
      /\ e.user \in User /\ e.onbrk \in Int /\ e.status \in Status
  BY DEF TimeEntry
<1>2. /\ FromDatetimeInput(z, ToDatetimeInput(z, e.start)) \in Int
      /\ FromDatetimeInput(z, ToDatetimeInput(z, e.end)) \in Int
      /\ RoundMinutes(e.brk) * SecondsPerMinute \in Int
  BY <1>1, InputType, RoundType
<1> QED BY <1>1, <1>2 DEF Resaved, SetBody, BodyOf, FormOf, TimeEntry

LEMMA ResavedTwice ==
  ASSUME NEW z \in Zone, NEW e \in TimeEntry
  PROVE  Resaved(z, Resaved(z, e)) = Resaved(z, e)
<1> DEFINE r == Resaved(z, e)
           t == Resaved(z, r)
<1>1. e.start \in Int /\ e.end \in Int /\ e.brk \in Int
  BY DEF TimeEntry
<1>2. r \in TimeEntry
  BY ResavedFields
<1>3. t.start = r.start /\ t.end = r.end
  BY <1>1, <1>2, ResavedFields, InputSettles
<1>4. t.brk = r.brk
  BY <1>1, <1>2, ResavedFields, RoundTwice, RoundType
<1>5. t.user = r.user /\ t.onbrk = r.onbrk /\ t.status = r.status
  BY DEF Resaved, SetBody
<1>6. r = [user |-> r.user, start |-> r.start, end |-> r.end, brk |-> r.brk,
           onbrk |-> r.onbrk, status |-> r.status]
  BY <1>2 DEF TimeEntry
<1>7. t = [user |-> t.user, start |-> t.start, end |-> t.end, brk |-> t.brk,
           onbrk |-> t.onbrk, status |-> t.status]
  BY <1>2, ResavedFields DEF TimeEntry
<1> HIDE DEF r, t
<1>8. t = r
  BY <1>3, <1>4, <1>5, <1>6, <1>7
<1> QED BY <1>8 DEF r, t

-----------------------------------------------------------------------------
(* The invariant of the state: the entry keeps the shape ValidateAt asks   *)
(* for.                                                                    *)
IInv ==
  /\ zone \in Zone /\ clock \in DOMAIN Moments
  /\ entry \in TimeEntry /\ WellFormed(entry)

LEMMA InitIInv == Init => IInv
  BY ReportsAssumption DEF Init, IInv

LEMMA NextIInv == IInv /\ [Next]_vars => IInv'
<1> SUFFICES ASSUME IInv, [Next]_vars PROVE IInv'
  OBVIOUS
<1> USE DEF IInv
<1>1. CASE Pass
  BY <1>1, ReportsAssumption DEF Pass
<1>2. CASE SaveUnedited
  BY <1>2, ResavedFields DEF SaveUnedited, ValidateAt
<1>3. CASE UNCHANGED vars
  BY <1>3 DEF vars
<1> QED BY <1>1, <1>2, <1>3 DEF Next

LEMMA AlwaysIInv == Spec => []IInv
  BY InitIInv, NextIInv, PTL DEF Spec

(* Types of all state, and an entry that ends after it starts. *)
THEOREM TypeCorrect == Spec => []TypeOK
<1>1. IInv => TypeOK
  BY DEF IInv, TypeOK, WellFormed, IsRunning, TimeEntry
<1> QED BY <1>1, AlwaysIInv, PTL

(* An entry that was saved as it was opened stays as it is when that is    *)
(* done again: in every zone, also where the clock shows its times twice.  *)
THEOREM SavingSettles == Spec => []SaveSettles
<1>1. IInv => SaveSettles
  BY ResavedTwice DEF IInv, SaveSettles
<1> QED BY <1>1, AlwaysIInv, PTL

-----------------------------------------------------------------------------
(* A time the clock shows once is read back as the minute it was.          *)
LEMMA ProperIsKept ==
  ASSUME zone \in Zone, NEW ms \in Int, Proper(ToDatetimeInput(zone, ms))
  PROVE  MinuteOf(FromDatetimeInput(zone, ToDatetimeInput(zone, ms))) = MinuteOf(ms)
<1> DEFINE m == MinuteOf(ms)
           w == ToDatetimeInput(zone, ms)
           n == FromWall(zone, w)
<1>1. m \in Int /\ w = Wall(zone, m) /\ w \in Int
  BY InputType DEF ToDatetimeInput
<1>2. n \in Int /\ Wall(zone, n) = w
  BY <1>1, FromWallShows
<1>3. MinuteOf(FromDatetimeInput(zone, w)) = n
  BY <1>2, MinuteOfMinutes DEF FromDatetimeInput
<1> HIDE DEF m, w, n
<1>4. m \in ShownAt(w) /\ n \in ShownAt(w)
  BY <1>1, <1>2 DEF ShownAt, Wall, Offset, Zone
<1>5. m = n
  BY <1>4 DEF w, Proper
<1> QED BY <1>3, <1>5 DEF m, w

(* Saved as it was opened, an entry keeps the minutes it starts and ends   *)
(* in, unless its clock shows that time twice.                             *)
THEOREM SavingKeepsMinutes == Spec => []SaveKeepsMinutes
<1>1. IInv => SaveKeepsMinutes
  <2> SUFFICES ASSUME IInv PROVE SaveKeepsMinutes
    OBVIOUS
  <2>1. entry.start \in Int /\ entry.end \in Int
    BY DEF IInv, TimeEntry
  <2> QED BY <2>1, ProperIsKept, ResavedFields DEF SaveKeepsMinutes, IInv
<1> QED BY <1>1, AlwaysIInv, PTL

-----------------------------------------------------------------------------
(* Net seconds. *)

(* The floor and the truncation differ for negative spans only, and the    *)
(* sum is cut off at zero if the span of the entry is one.                 *)
LEMMA SameSeconds ==
  ASSUME NEW e \in TimeEntry, WellFormed(e), NEW now \in Int, e.onbrk <= now
  PROVE  NetSeconds(e, now) = ServerNetSeconds(e, now)
<1> DEFINE span  == (IF IsRunning(e) THEN now ELSE e.end) - e.start
           pause == IF OnBreak(e) THEN now - e.onbrk ELSE 0
<1>1. span \in Int /\ pause \in Nat /\ e.brk \in Nat
  BY DEF TimeEntry, WellFormed
<1>2. /\ span \div MillisPerSecond \in Int /\ Seconds(span) \in Int
      /\ span >= 0 => Seconds(span) = span \div MillisPerSecond
      /\ span < 0 => span \div MillisPerSecond <= 0 /\ Seconds(span) <= 0
  BY <1>1, MillisAssumption, DivNegative, SMT DEF Seconds
<1>3. pause \div MillisPerSecond \in Nat /\ Seconds(pause) = pause \div MillisPerSecond
  BY <1>1, MillisAssumption, SMT DEF Seconds
<1> DEFINE breaks == e.brk + pause \div MillisPerSecond
<1>4. /\ NetSeconds(e, now) = IF span \div MillisPerSecond < breaks THEN 0
                              ELSE span \div MillisPerSecond - breaks
      /\ ServerNetSeconds(e, now) = IF Seconds(span) - breaks < 0 THEN 0
                                    ELSE Seconds(span) - breaks
  BY <1>1, <1>3, MillisAssumption, SMT
     DEF NetSeconds, ServerNetSeconds, BreakTotal, Seconds, IsRunning, OnBreak
<1> QED BY <1>1, <1>2, <1>3, <1>4

LEMMA TableEntries ==
  ASSUME IInv
  PROVE  /\ Now \in Int
         /\ \A id \in DOMAIN Table : Table[id].entry \in TimeEntry
                                    /\ WellFormed(Table[id].entry)
  BY ReportsAssumption DEF IInv, Table, Now

(* Every view counts the seconds the server counts, unless its clock is    *)
(* behind the start of the break.                                          *)
THEOREM ClientMirrorsServer == Spec => []ClientAgreesWithServer
<1>1. IInv => ClientAgreesWithServer
  BY TableEntries, SameSeconds DEF ClientAgreesWithServer
<1> QED BY <1>1, AlwaysIInv, PTL

LEMMA Settled ==
  ASSUME NEW e \in TimeEntry, NEW now \in Int, NEW later \in Int,
         ~IsRunning(e), ~OnBreak(e)
  PROVE  NetSeconds(e, later) = NetSeconds(e, now)
  BY DEF NetSeconds

LEMMA CountsForward ==
  ASSUME NEW e \in TimeEntry, NEW now \in Int, NEW later \in Int, now <= later,
         IsRunning(e), ~OnBreak(e)
  PROVE  NetSeconds(e, later) >= NetSeconds(e, now)
<1> DEFINE was == (now - e.start) \div MillisPerSecond
           is  == (later - e.start) \div MillisPerSecond
<1>1. e.start \in Int /\ e.brk \in Int
  BY DEF TimeEntry
<1>2. was <= is /\ was \in Int /\ is \in Int
  BY <1>1, MillisAssumption, DivMonotone
<1>3. /\ NetSeconds(e, now) = IF was < e.brk THEN 0 ELSE was - e.brk
      /\ NetSeconds(e, later) = IF is < e.brk THEN 0 ELSE is - e.brk
  BY <1>1, <1>2 DEF NetSeconds
<1> HIDE DEF was, is
<1> QED BY <1>1, <1>2, <1>3

(* Both the span and the break grow by the same milliseconds, so that      *)
(* their seconds grow apart by one at most.                                *)
LEMMA StandsStill ==
  ASSUME NEW e \in TimeEntry, NEW now \in Int, NEW later \in Int,
         IsRunning(e), OnBreak(e)
  PROVE  NetSeconds(e, later) \in (NetSeconds(e, now) - 1) .. (NetSeconds(e, now) + 1)
<1> DEFINE c        == e.onbrk - e.start
           span(t)  == (t - e.start) \div MillisPerSecond
           pause(t) == (t - e.onbrk) \div MillisPerSecond
<1>1. e.start \in Int /\ e.brk \in Int /\ e.onbrk \in Int /\ c \in Int
  BY DEF TimeEntry
<1>2. ASSUME NEW t \in Int
      PROVE  /\ span(t) \in Int /\ pause(t) \in Int
             /\ span(t) - pause(t) \in {c \div MillisPerSecond, c \div MillisPerSecond + 1}
  <2>1. (t - e.onbrk) \in Int /\ (t - e.onbrk) + c = t - e.start
    BY <1>1
  <2>2. ((t - e.onbrk) + c) \div MillisPerSecond - (t - e.onbrk) \div MillisPerSecond
          \in {c \div MillisPerSecond, c \div MillisPerSecond + 1}
    BY <1>1, <2>1, MillisAssumption, DivDifference
  <2> QED BY <1>1, <2>1, <2>2, MillisAssumption
<1>3. ASSUME NEW t \in Int
      PROVE  NetSeconds(e, t) = IF span(t) < e.brk + pause(t) THEN 0
                                ELSE span(t) - (e.brk + pause(t))
  BY <1>1, <1>2 DEF NetSeconds
<1>4. c \div MillisPerSecond \in Int
  BY <1>1, MillisAssumption
<1> HIDE DEF c, span, pause
<1> QED BY <1>1, <1>2, <1>3, <1>4

(* While the clock goes on, what has ended has settled, what runs never    *)
(* counts back, and what is on a break stands still to a second.           *)
THEOREM CountersGoForward == Spec => CounterGoesForward
<1>1. IInv /\ [Next]_vars => [GoesForward]_vars
  <2> SUFFICES ASSUME IInv, [Next]_vars PROVE GoesForward
    OBVIOUS
  <2>1. IInv'
    BY NextIInv
  <2>2. Now \in Int /\ Now' \in Int
    BY <2>1, ReportsAssumption DEF IInv, Now
  <2>3. clock' > clock => Now <= Now'
    <3> SUFFICES ASSUME clock' > clock PROVE Now <= Now'
      OBVIOUS
    <3>1. clock \in DOMAIN Moments /\ clock' \in DOMAIN Moments
      BY <2>1 DEF IInv
    <3>2. Moments[clock] < Moments[clock']
      BY <3>1, ReportsAssumption
    <3> QED BY <2>2, <3>2 DEF Now
  <2>4. \A id \in DOMAIN Table : Table[id].entry \in TimeEntry
    BY TableEntries
  <2> QED BY <2>2, <2>3, <2>4, Settled, CountsForward, StandsStill DEF GoesForward
<1> QED BY <1>1, AlwaysIInv, PTL DEF Spec, CounterGoesForward

-----------------------------------------------------------------------------
(* Days. *)

(* A time shown once has what is shown later behind it and what is shown   *)
(* earlier before it.                                                      *)
LEMMA ProperOrder ==
  ASSUME zone \in Zone, NEW w \in Int, Proper(w), NEW m \in Int
  PROVE  /\ FromWall(zone, w) \in Int
         /\ m < FromWall(zone, w) <=> Wall(zone, m) < w
         /\ m <= FromWall(zone, w) <=> Wall(zone, m) <= w
<1>1. PICK n \in {w - zone.before, w - zone.after} : Wall(zone, n) = w
  BY DEF Proper, ShownAt
<1>2. n \in Int
  BY DEF Zone
<1>3. \A i \in {w - zone.before, w - zone.after} : Wall(zone, i) = w => i = n
  BY <1>1 DEF Proper, ShownAt
<1>4. FromWall(zone, w) = n
  <2>1. FromWall(zone, w) \in Int /\ Wall(zone, FromWall(zone, w)) = w
    BY <1>1, <1>2, FromWallShows
  <2>2. FromWall(zone, w) \in {w - zone.before, w - zone.after}
    BY <2>1 DEF Wall, Offset, Zone
  <2> QED BY <1>3, <2>1, <2>2
<1>5. m < n <=> Wall(zone, m) < w
  BY <1>1, <1>2, <1>3 DEF Wall, Offset, Zone
<1>6. Wall(zone, m) = w => m = n
  <2>1. ASSUME Wall(zone, m) = w PROVE m \in {w - zone.before, w - zone.after}
    BY <2>1 DEF Wall, Offset, Zone
  <2> QED BY <1>3, <2>1
<1>7. Wall(zone, m) \in Int
  BY DEF Wall, Offset, Zone
<1> QED BY <1>1, <1>2, <1>4, <1>5, <1>6, <1>7

LEMMA DivBounds ==
  ASSUME NEW n \in Nat \ {0}, NEW x \in Int, NEW q \in Int
  PROVE  /\ x \div n \in Int
         /\ n * q <= x <=> q <= x \div n
         /\ x <= n * q + n - 1 <=> x \div n <= q
  BY SMT

LEMMA DayRangeBounds ==
  ASSUME zone \in Zone, NEW ms \in Int, NEW from \in Int, NEW to \in Int,
         Proper(from * MinutesPerDay), Proper((to + 1) * MinutesPerDay - 1)
  PROVE  Within(ms, DayRange(zone, from, to)) <=>
           LocalDayKey(zone, ms) \in from .. to /\ ms # DayRange(zone, from, to).to
<1> DEFINE m  == MinuteOf(ms)
           a  == from * MinutesPerDay
           b  == to * MinutesPerDay + MinutesPerDay - 1
           am == FromWall(zone, a)
           bm == FromWall(zone, b)
           w  == Wall(zone, m)
<1>1. a \in Int /\ b \in Int /\ b = (to + 1) * MinutesPerDay - 1 /\ m \in Int /\ w \in Int
  BY UnitAssumption, InputType, SMT DEF ToDatetimeInput
<1>2. am \in Int /\ (am <= m <=> a <= w)
  BY <1>1, ProperOrder
<1>3. bm \in Int /\ (m <= bm <=> w <= b)
  BY <1>1, ProperOrder
<1>4. Minute * am <= ms <=> am <= m
  BY <1>2, MinuteType, DivBounds DEF MinuteOf
<1>5. ms <= Minute * bm + Minute - 1 <=> m <= bm
  BY <1>3, MinuteType, DivBounds DEF MinuteOf
<1>6. a <= w <=> from <= DayOf(w)
  BY <1>1, UnitAssumption, DivBounds DEF DayOf
<1>7. w <= b <=> DayOf(w) <= to
  BY <1>1, UnitAssumption, DivBounds DEF DayOf
<1>8. LocalDayKey(zone, ms) = DayOf(w) /\ DayOf(w) \in Int
  BY <1>1, UnitAssumption, DivBounds DEF LocalDayKey, DayOf
<1>9. /\ DayRange(zone, from, to).from = Minute * am
      /\ DayRange(zone, from, to).to = Minute * bm + Minute - 1
  BY DEF DayRange, FromDatetimeInput
<1>10. Minute * am \in Int /\ Minute * bm + Minute - 1 \in Int
  BY <1>2, <1>3, MinuteType
<1> HIDE DEF m, a, b, am, bm, w
<1> QED BY <1>2, <1>3, <1>4, <1>5, <1>6, <1>7, <1>8, <1>9, <1>10 DEF Within

(* The range of two date fields holds no instant of another day, and those *)
(* of its days that come before its last millisecond.                      *)
THEOREM RangeCoversDays == Spec => []DayRangeCoversDays
<1>1. IInv => DayRangeCoversDays
  <2> SUFFICES ASSUME IInv PROVE DayRangeCoversDays
    OBVIOUS
  <2>1. Now \in Int /\ zone \in Zone
    BY TableEntries DEF IInv
  <2>2. LocalDayKey(zone, Now) \in Int
    BY <2>1, InputType, UnitAssumption, DivBounds DEF LocalDayKey, DayOf, ToDatetimeInput
  <2> QED BY <2>1, <2>2, DayRangeBounds DEF DayRangeCoversDays, PlainDays
<1> QED BY <1>1, AlwaysIInv, PTL

-----------------------------------------------------------------------------
(* Weeks. *)

LEMMA MondayOfMonday ==
  ASSUME NEW day \in Int, NEW k \in Int
  PROVE  MondayOf(day) \in Int /\ MondayOf(MondayOf(day) + 7 * k) = MondayOf(day) + 7 * k
  BY SMT DEF MondayOf, UtcDay

(* An instant that is shown near the midnight of a Monday, moved by whole  *)
(* weeks and half a day, is on the Monday it is meant for.                 *)
LEMMA AnchorIsMonday ==
  ASSUME NEW z \in Zone, NEW monday \in Int, NEW k \in Int, NEW m \in Int,
         \A b \in {z.before, z.after} :
           /\ 2 * (m + b - monday * MinutesPerDay) < MinutesPerDay - 1
           /\ 2 * (monday * MinutesPerDay - (m + b)) < MinutesPerDay - 1
  PROVE  LocalDayKey(z, Minute * m + k * 7 * Day + Day \div 2) = monday + 7 * k
<1> DEFINE half == (Day \div 2) \div Minute
           ref  == MinuteOf(Minute * m + k * 7 * Day + Day \div 2)
<1>1. monday * MinutesPerDay \in Int /\ (7 * k) * MinutesPerDay \in Int
      /\ MinutesPerDay \in Int
  BY UnitAssumption
<1>2. half \in Int /\ half <= MinutesPerDay /\ 2 * half >= MinutesPerDay - 1 /\ 2 * half <= MinutesPerDay
  BY MinuteType, UnitAssumption, SMT DEF Day
<1>3. ref = m + (7 * k) * MinutesPerDay + half
  <2>1. Minute * m + k * 7 * Day + Day \div 2
          = Minute * (m + (7 * k) * MinutesPerDay) + Day \div 2
    BY <1>1, MinuteType, SMT DEF Day
  <2>2. m + (7 * k) * MinutesPerDay \in Int /\ Day \div 2 \in Int
    BY <1>1, MinuteType
  <2> QED BY <2>1, <2>2, MinuteType, DivShift DEF MinuteOf
<1>4. PICK d \in Int : /\ Wall(z, ref) = (monday * MinutesPerDay + (7 * k) * MinutesPerDay) + (half + d)
                       /\ 2 * d < MinutesPerDay - 1 /\ 2 * (-d) < MinutesPerDay - 1
  <2>1. PICK b \in {z.before, z.after} : Wall(z, ref) = ref + b
    BY DEF Wall, Offset
  <2>2. b \in Int
    BY DEF Zone
  <2> HIDE DEF ref, half
  <2>3. /\ Wall(z, ref) = (monday * MinutesPerDay + (7 * k) * MinutesPerDay)
                            + (half + (m + b - monday * MinutesPerDay))
        /\ 2 * (m + b - monday * MinutesPerDay) < MinutesPerDay - 1
        /\ 2 * (-(m + b - monday * MinutesPerDay)) < MinutesPerDay - 1
    BY <1>1, <1>2, <1>3, <2>1, <2>2
  <2>4. m + b - monday * MinutesPerDay \in Int
    BY <1>1, <2>2
  <2> QED BY <2>3, <2>4
<1> HIDE DEF ref, half
<1>5. half + d \in 0 .. (MinutesPerDay - 1)
  BY <1>1, <1>2, <1>4
<1>6. Wall(z, ref) = MinutesPerDay * (monday + 7 * k) + (half + d)
  BY <1>1, <1>2, <1>4, SMT
<1>7. DayOf(Wall(z, ref)) = monday + 7 * k
  <2>1. monday + 7 * k \in Int
    OBVIOUS
  <2>2. (MinutesPerDay * (monday + 7 * k) + (half + d)) \div MinutesPerDay = monday + 7 * k
    BY <2>1, <1>5, UnitAssumption, DivOfSum
  <2> QED BY <2>2, <1>6 DEF DayOf
<1> QED BY <1>7 DEF LocalDayKey, ref

(* Both ways to find a midnight undo one of the two offsets.  What a Date  *)
(* finds shows it, or the time behind a gap.                               *)
LEMMA FoundAt ==
  ASSUME NEW z \in Zone, NEW w \in Int
  PROVE  /\ ZonedWallToUtc(z, w) \in {w - z.before, w - z.after}
         /\ DateOf(z, w) \in {w - z.before, w - z.after}
         /\ Wall(z, DateOf(z, w)) = w
              \/ (Wall(z, DateOf(z, w)) = w + (z.after - z.before) /\ z.before < z.after)
BY DEF ZonedWallToUtc, DateOf, TzOffset, Wall, Offset, Zone

(* A change of the offset by less than a quarter of a day. *)
Gradual(z) == /\ 4 * (z.after - z.before) < MinutesPerDay - 1
              /\ 4 * (z.before - z.after) < MinutesPerDay - 1

(* The week of an instant starts on its Monday, at most a change of the    *)
(* offset late: where today has no midnight, a Date keeps the time behind  *)
(* the gap when it goes back to Monday.                                    *)
LEMMA WeekStarts ==
  ASSUME NEW z \in Zone, Gradual(z), NEW ms \in Int
  PROVE  \E x \in Nat, a \in {z.before, z.after} :
           /\ 4 * x < MinutesPerDay - 1 \/ x = 0
           /\ WeekRange(z, ms).from
                = Minute * (MondayOf(LocalDayKey(z, ms)) * MinutesPerDay + x - a)
<1> DEFINE today  == LocalDayKey(z, ms)
           monday == MondayOf(today)
<1>1. today \in Int
  BY InputType, UnitAssumption, DivBounds DEF LocalDayKey, DayOf, ToDatetimeInput
<1>2. monday \in Int
  BY <1>1, MondayOfMonday
<1>3. today * MinutesPerDay \in Int /\ monday * MinutesPerDay \in Int /\ MinutesPerDay \in Int
  BY <1>1, <1>2, UnitAssumption
<1>4. z.before \in Int /\ z.after \in Int
  BY DEF Zone
<1>5. CASE z.named
  <2>1. WeekRange(z, ms).from = Minute * ZonedWallToUtc(z, monday * MinutesPerDay)
    BY <1>5 DEF WeekRange
  <2>2. PICK a \in {z.before, z.after} :
          ZonedWallToUtc(z, monday * MinutesPerDay) = monday * MinutesPerDay + 0 - a
    BY <1>3, <1>4, FoundAt
  <2> QED BY <2>1, <2>2
<1>6. CASE ~z.named
  <2> DEFINE midnight == DateOf(z, today * MinutesPerDay)
             x == Wall(z, midnight) % MinutesPerDay
  <2>1. WeekRange(z, ms).from = Minute * DateOf(z, monday * MinutesPerDay + x)
    BY <1>6 DEF WeekRange, SetDate
  <2>2. PICK y \in Nat : /\ Wall(z, midnight) = today * MinutesPerDay + y
                         /\ 4 * y < MinutesPerDay - 1 \/ y = 0
    <3>1. Wall(z, midnight) = today * MinutesPerDay + 0
            \/ (/\ Wall(z, midnight) = today * MinutesPerDay + (z.after - z.before)
                /\ z.before < z.after)
      BY <1>3, FoundAt
    <3>2. z.before < z.after => z.after - z.before \in Nat
      BY <1>4
    <3> QED BY <1>3, <1>4, <3>1, <3>2 DEF Gradual
  <2>3. x = y
    <3>1. y \in 0 .. (MinutesPerDay - 1)
      BY <2>2, UnitAssumption
    <3>2. (today * MinutesPerDay + y) % MinutesPerDay = y
      BY <1>1, <3>1, UnitAssumption, SMT
    <3> QED BY <2>2, <3>2
  <2>4. WeekRange(z, ms).from = Minute * DateOf(z, monday * MinutesPerDay + y)
    BY <2>1, <2>3
  <2>5. monday * MinutesPerDay + y \in Int
    BY <1>3
  <2>6. PICK a \in {z.before, z.after} :
          DateOf(z, monday * MinutesPerDay + y) = (monday * MinutesPerDay + y) - a
    BY <2>5, FoundAt
  <2>7. WeekRange(z, ms).from = Minute * (monday * MinutesPerDay + y - a)
    BY <1>3, <1>4, <2>4, <2>6, MinuteType
  <2> WITNESS y \in Nat, a \in {z.before, z.after}
  <2> QED BY <2>2, <2>7
<1> QED BY <1>5, <1>6

(* So the week k weeks from it is computed from an instant of its Monday. *)
LEMMA ReferenceDay ==
  ASSUME NEW z \in Zone, Gradual(z), NEW ms \in Int, NEW k \in Int
  PROVE  LocalDayKey(z, WeekRange(z, ms).from + k * 7 * Day + Day \div 2)
           = MondayOf(LocalDayKey(z, ms)) + 7 * k
<1> DEFINE monday == MondayOf(LocalDayKey(z, ms))
<1>1. monday \in Int
  BY InputType, UnitAssumption, DivBounds, MondayOfMonday
  DEF LocalDayKey, DayOf, ToDatetimeInput
<1>2. PICK x \in Nat, a \in {z.before, z.after} :
        /\ 4 * x < MinutesPerDay - 1 \/ x = 0
        /\ WeekRange(z, ms).from = Minute * (monday * MinutesPerDay + x - a)
  BY WeekStarts
<1> HIDE DEF monday
<1>3. /\ monday * MinutesPerDay \in Int /\ MinutesPerDay \in Nat /\ MinutesPerDay > 0
      /\ z.before \in Int /\ z.after \in Int
  BY <1>1, UnitAssumption DEF Zone
<1>4. monday * MinutesPerDay + x - a \in Int
  BY <1>3
<1>5. MinutesPerDay > 1
  BY <1>3 DEF Gradual
<1>6. ASSUME NEW b \in {z.before, z.after}
      PROVE  LET m == monday * MinutesPerDay + x - a IN
             /\ 2 * (m + b - monday * MinutesPerDay) < MinutesPerDay - 1
             /\ 2 * (monday * MinutesPerDay - (m + b)) < MinutesPerDay - 1
  BY <1>2, <1>3, <1>5 DEF Gradual
<1>7. LocalDayKey(z, Minute * (monday * MinutesPerDay + x - a) + k * 7 * Day + Day \div 2)
        = monday + 7 * k
  BY <1>1, <1>4, <1>6, AnchorIsMonday
<1> QED BY <1>2, <1>7 DEF monday

(* A midnight of the browser's zone is found, if it is shown once. *)
LEMMA ProperDate ==
  ASSUME zone \in Zone, NEW w \in Int, Proper(w)
  PROVE  DateOf(zone, w) \in Int /\ Wall(zone, DateOf(zone, w)) = w
<1>1. PICK m \in {w - zone.before, w - zone.after} : Wall(zone, m) = w
  BY DEF Proper, ShownAt
<1>2. m \in Int
  BY DEF Zone
<1> QED BY <1>1, <1>2, DateShows

(* The bounds of that week are the midnights of its Monday and the next,   *)
(* if the zone is Mattermost's or its own Monday starts with a midnight.   *)
LEMMA VisibleWeek ==
  ASSUME zone \in Zone, Gradual(zone), NEW ms \in Int, NEW k \in Int, NEW day \in Int,
         day = MondayOf(LocalDayKey(zone, ms)) + 7 * k,
         zone.named \/ Proper(day * MinutesPerDay)
  PROVE  VisibleRange(zone, ms, k) =
           [from |-> Minute * FromWall(zone, day * MinutesPerDay),
            to   |-> Minute * FromWall(zone, (day + 7) * MinutesPerDay)]
<1> DEFINE ref == WeekRange(zone, ms).from + k * 7 * Day + Day \div 2
<1>1. VisibleRange(zone, ms, k) = WeekRange(zone, ref)
  BY DEF VisibleRange
<1>2. LocalDayKey(zone, ref) = day
  BY ReferenceDay
<1>3. MondayOf(day) = day
  <2>1. LocalDayKey(zone, ms) \in Int
    BY InputType, UnitAssumption, DivBounds DEF LocalDayKey, DayOf, ToDatetimeInput
  <2> QED BY <2>1, MondayOfMonday
<1> HIDE DEF ref
<1>4. CASE zone.named
  BY <1>1, <1>2, <1>3, <1>4 DEF WeekRange, FromWall
<1>5. CASE ~zone.named
  <2> DEFINE w     == day * MinutesPerDay
             next  == (day + 7) * MinutesPerDay
             first == DateOf(zone, w)
  <2>1. w \in Int /\ next \in Int
    BY UnitAssumption
  <2>2. first \in Int /\ Wall(zone, first) = w
    BY <1>5, <2>1, ProperDate
  <2>3. w % MinutesPerDay = 0
    BY UnitAssumption, SMT
  <2>4. /\ SetDate(zone, first, day) = DateOf(zone, w + 0)
        /\ SetDate(zone, first, day + 7) = DateOf(zone, next + 0)
    BY <2>2, <2>3 DEF SetDate
  <2>5. w + 0 = w /\ next + 0 = next
    BY <2>1
  <2> HIDE DEF w, next, first
  <2>6. SetDate(zone, first, day) = first /\ SetDate(zone, first, day + 7) = DateOf(zone, next)
    BY <2>4, <2>5 DEF first
  <2> QED BY <1>1, <1>2, <1>3, <1>5, <2>6 DEF WeekRange, FromWall, w, next, first
<1> QED BY <1>4, <1>5

(* An instant is in that week iff its day is. *)
LEMMA WeekHolds ==
  ASSUME zone \in Zone, NEW day \in Int, NEW ms \in Int,
         Proper(day * MinutesPerDay), Proper((day + 7) * MinutesPerDay)
  PROVE  Within(ms, [from |-> Minute * FromWall(zone, day * MinutesPerDay),
                     to   |-> Minute * FromWall(zone, (day + 7) * MinutesPerDay)])
           <=> LocalDayKey(zone, ms) \in day .. (day + 6)
<1> DEFINE m == MinuteOf(ms)
           w == Wall(zone, m)
           a == day * MinutesPerDay
           b == (day + 7) * MinutesPerDay
           am == FromWall(zone, a)
           bm == FromWall(zone, b)
<1>1. a \in Int /\ b \in Int /\ m \in Int /\ w \in Int
  BY UnitAssumption, InputType DEF ToDatetimeInput
<1>2. am \in Int /\ bm \in Int /\ (m < am <=> w < a) /\ (m < bm <=> w < b)
  BY <1>1, ProperOrder
<1>3. Minute * am <= ms <=> am <= m
  BY <1>2, MinuteType, DivBounds DEF MinuteOf
<1>4. Minute * bm <= ms <=> bm <= m
  BY <1>2, MinuteType, DivBounds DEF MinuteOf
<1>5. DayOf(w) \in Int /\ (a <= w <=> day <= DayOf(w))
  BY <1>1, UnitAssumption, DivBounds DEF DayOf
<1>6. b <= w <=> day + 7 <= DayOf(w)
  BY <1>1, UnitAssumption, DivBounds DEF DayOf
<1>7. LocalDayKey(zone, ms) = DayOf(w)
  BY DEF LocalDayKey
<1>8. Minute * am \in Int /\ Minute * bm \in Int
  BY <1>2, MinuteType
<1>9. Within(ms, [from |-> Minute * am, to |-> Minute * bm])
        <=> Minute * am <= ms /\ ~(Minute * bm <= ms)
  BY <1>8 DEF Within
<1> HIDE DEF m, w, a, b, am, bm
<1>10. am <= m <=> a <= w
  BY <1>1, <1>2
<1>11. bm <= m <=> b <= w
  BY <1>1, <1>2
<1>12. Within(ms, [from |-> Minute * am, to |-> Minute * bm])
         <=> day <= DayOf(w) /\ ~(day + 7 <= DayOf(w))
  BY <1>3, <1>4, <1>5, <1>6, <1>9, <1>10, <1>11
<1> QED BY <1>5, <1>7, <1>12 DEF am, bm, a, b

(* The zone of the browser is one of Zones, so its change is gradual. *)
LEMMA ZoneIsGradual == Spec => [](zone \in Zones)
<1>1. Init => zone \in Zones
  BY DEF Init
<1>2. zone \in Zones /\ [Next]_vars => (zone \in Zones)'
  BY DEF Next, Pass, SaveUnedited, vars
<1> QED BY <1>1, <1>2, PTL DEF Spec

(* The Monday of this week, and that of the week k weeks from it. *)
LEMMA MondayType ==
  ASSUME IInv
  PROVE  /\ Now \in Int /\ LocalDayKey(zone, Now) \in Int
         /\ MondayOf(LocalDayKey(zone, Now)) \in Int
         /\ LocalDayKey(zone, Now) \in MondayOf(LocalDayKey(zone, Now)) ..
                                       (MondayOf(LocalDayKey(zone, Now)) + 6)
         /\ \A k \in Int : Monday(k) = (MondayOf(LocalDayKey(zone, Now)) + 7 * k)
                                         * MinutesPerDay
<1>1. Now \in Int /\ LocalDayKey(zone, Now) \in Int
  BY TableEntries, InputType, UnitAssumption, DivBounds
  DEF IInv, LocalDayKey, DayOf, ToDatetimeInput
<1> DEFINE today == LocalDayKey(zone, Now)
<1> HIDE DEF today
<1>2. today \in Int
  BY <1>1 DEF today
<1>3. MondayOf(today) \in Int /\ today \in MondayOf(today) .. (MondayOf(today) + 6)
  BY <1>2, SMT DEF MondayOf, UtcDay
<1>4. \A k \in Int : MinutesPerDay * (MondayOf(today) + 7 * k)
                       = (MondayOf(today) + 7 * k) * MinutesPerDay
  BY <1>3, UnitAssumption
<1> QED BY <1>1, <1>3, <1>4 DEF today, Monday

(* The week of offset 0 holds all of today and the list of today is        *)
(* complete, whatever the length of the week is.                           *)
THEOREM ThisWeekHoldsToday == Spec => []WeekHoldsToday
<1>1. ASSUME IInv, zone \in Zones PROVE WeekHoldsToday
  <2> DEFINE today  == LocalDayKey(zone, Now)
             monday == MondayOf(today)
  <2> SUFFICES ASSUME Proper(Monday(0)), Proper(Monday(1))
               PROVE  /\ \A ms \in (Now - Day) .. (Now + Day) :
                           LocalDayKey(zone, ms) = today =>
                             Within(ms, VisibleRange(zone, Now, 0))
                      /\ TodayEntries = {id \in DOMAIN Table :
                           ~IsRunning(Table[id].entry) /\ StartDay(id) = today}
    BY DEF WeekHoldsToday
  <2>1. /\ zone \in Zone /\ Gradual(zone) /\ Now \in Int /\ today \in Int
        /\ monday \in Int /\ today \in monday .. (monday + 6)
    BY <1>1, ChangeAssumption, MondayType DEF IInv, Gradual
  <2>2. Monday(0) = (monday + 7 * 0) * MinutesPerDay /\ Monday(1) = (monday + 7 * 1) * MinutesPerDay
    BY <1>1, MondayType
  <2> HIDE DEF monday
  <2>3. Proper(monday * MinutesPerDay) /\ Proper((monday + 7) * MinutesPerDay)
    BY <2>1, <2>2
  <2>4. VisibleRange(zone, Now, 0) =
          [from |-> Minute * FromWall(zone, monday * MinutesPerDay),
           to   |-> Minute * FromWall(zone, (monday + 7) * MinutesPerDay)]
    BY <2>1, <2>3, VisibleWeek DEF monday
  <2>5. ASSUME NEW ms \in Int, LocalDayKey(zone, ms) = today
        PROVE  Within(ms, VisibleRange(zone, Now, 0))
    BY <2>1, <2>3, <2>4, <2>5, WeekHolds
  <2>6. \A ms \in (Now - Day) .. (Now + Day) : ms \in Int
    OBVIOUS
  <2>7. \A id \in DOMAIN Table : Table[id].entry.start \in Int
    BY <1>1, TableEntries DEF TimeEntry
  <2>8. TodayEntries = {id \in DOMAIN Table :
          ~IsRunning(Table[id].entry) /\ StartDay(id) = today}
    BY <2>5, <2>7 DEF TodayEntries, ListedIn, StartDay
  <2> QED BY <2>5, <2>6, <2>8
<1> QED BY <1>1, AlwaysIInv, ZoneIsGradual, PTL

(* Where one week ends the next one starts, and no week is empty. *)
THEOREM WeeksAreTiled == Spec => []WeeksTile
<1>1. ASSUME IInv, zone \in Zones PROVE WeeksTile
  <2> DEFINE monday == MondayOf(LocalDayKey(zone, Now))
             at(j)  == (monday + 7 * j) * MinutesPerDay
  <2> SUFFICES ASSUME zone.named \/ (\A k \in -2 .. 2 : Proper(Monday(k))),
                      NEW k \in -2 .. 1
               PROVE  /\ VisibleRange(zone, Now, k).to = VisibleRange(zone, Now, k + 1).from
                      /\ VisibleRange(zone, Now, k).from < VisibleRange(zone, Now, k).to
    BY DEF WeeksTile
  <2>1. /\ zone \in Zone /\ Gradual(zone) /\ Now \in Int /\ monday \in Int
        /\ \A j \in Int : Monday(j) = at(j)
    BY <1>1, ChangeAssumption, MondayType DEF IInv, Gradual
  <2>2. ASSUME NEW j \in -2 .. 2
        PROVE  VisibleRange(zone, Now, j) =
                 [from |-> Minute * FromWall(zone, at(j)),
                  to   |-> Minute * FromWall(zone, (monday + 7 * j + 7) * MinutesPerDay)]
    <3> DEFINE day == monday + 7 * j
    <3>1. day \in Int /\ j \in Int /\ Monday(j) = day * MinutesPerDay
      BY <2>1
    <3>2. zone.named \/ Proper(day * MinutesPerDay)
      BY <3>1
    <3> QED BY <2>1, <3>1, <3>2, VisibleWeek
  <2> HIDE DEF monday
  <2>3. monday + 7 * k + 7 = monday + 7 * (k + 1) /\ k \in -2 .. 2 /\ k + 1 \in -2 .. 2
    BY <2>1
  <2>4. /\ VisibleRange(zone, Now, k).from = Minute * FromWall(zone, at(k))
        /\ VisibleRange(zone, Now, k).to = Minute * FromWall(zone, at(k + 1))
        /\ VisibleRange(zone, Now, k + 1).from = Minute * FromWall(zone, at(k + 1))
    BY <2>2, <2>3
  <2>5. at(k) \in Int /\ at(k + 1) = at(k) + 7 * MinutesPerDay
    BY <2>1, UnitAssumption, SMT
  <2> HIDE DEF at
  <2>6. FromWall(zone, at(k)) < FromWall(zone, at(k + 1))
    <3>1. PICK a \in {zone.before, zone.after} : FromWall(zone, at(k)) = at(k) - a
      BY <2>1, <2>5, FoundAt DEF FromWall
    <3>2. at(k + 1) \in Int
      BY <2>5, UnitAssumption
    <3>3. PICK b \in {zone.before, zone.after} : FromWall(zone, at(k + 1)) = at(k + 1) - b
      BY <2>1, <3>2, FoundAt DEF FromWall
    <3>4. zone.before \in Int /\ zone.after \in Int /\ MinutesPerDay \in Nat
      BY <2>1, UnitAssumption DEF Zone
    <3> QED BY <2>1, <2>5, <3>1, <3>3, <3>4 DEF Gradual
  <2>7. FromWall(zone, at(k)) \in Int /\ FromWall(zone, at(k + 1)) \in Int
    BY <2>1, <2>5, UnitAssumption, FoundAt DEF FromWall, Zone
  <2>8. Minute * FromWall(zone, at(k)) < Minute * FromWall(zone, at(k + 1))
    BY <2>6, <2>7, MinuteType, SMT
  <2> QED BY <2>4, <2>8
<1> QED BY <1>1, AlwaysIInv, ZoneIsGradual, PTL

-----------------------------------------------------------------------------
(* The days of the weekly table. *)

(* The clock never goes back into the day before. *)
DaysGoOn(z) == DayOf(Wall(z, z.at - 1)) <= DayOf(Wall(z, z.at))

(* Then a later instant is never of an earlier day. *)
LEMMA DaysInOrder ==
  ASSUME NEW z \in Zone, DaysGoOn(z), NEW a \in Int, NEW b \in Int, a <= b
  PROVE  LocalDayKey(z, a) <= LocalDayKey(z, b)
<1> DEFINE m == MinuteOf(a)
           n == MinuteOf(b)
<1>1. m \in Int /\ n \in Int /\ m <= n
  BY MinuteType, DivMonotone DEF MinuteOf
<1> HIDE DEF m, n
<1>2. z.at \in Int /\ z.before \in Int /\ z.after \in Int
  BY DEF Zone
<1>3. ASSUME NEW v \in Int, NEW w \in Int, v <= w PROVE DayOf(v) <= DayOf(w)
  BY <1>3, UnitAssumption, DivMonotone DEF DayOf
<1>4. ASSUME NEW v \in Int PROVE DayOf(v) \in Int
  BY <1>4, UnitAssumption, DivBounds DEF DayOf
<1>5. CASE n < z.at \/ m >= z.at
  <2>1. Wall(z, m) \in Int /\ Wall(z, n) \in Int /\ Wall(z, m) <= Wall(z, n)
    BY <1>1, <1>2, <1>5 DEF Wall, Offset
  <2> QED BY <2>1, <1>3 DEF LocalDayKey, m, n
<1>6. CASE m < z.at /\ n >= z.at
  <2>1. /\ Wall(z, m) \in Int /\ Wall(z, n) \in Int
        /\ Wall(z, z.at - 1) \in Int /\ Wall(z, z.at) \in Int
        /\ Wall(z, m) <= Wall(z, z.at - 1) /\ Wall(z, z.at) <= Wall(z, n)
    BY <1>1, <1>2, <1>6 DEF Wall, Offset
  <2>2. /\ DayOf(Wall(z, m)) <= DayOf(Wall(z, z.at - 1))
        /\ DayOf(Wall(z, z.at)) <= DayOf(Wall(z, n))
    BY <2>1, <1>3
  <2>3. /\ DayOf(Wall(z, m)) \in Int /\ DayOf(Wall(z, n)) \in Int
        /\ DayOf(Wall(z, z.at - 1)) \in Int /\ DayOf(Wall(z, z.at)) \in Int
    BY <2>1, <1>4
  <2> QED BY <2>2, <2>3 DEF DaysGoOn, LocalDayKey, m, n
<1> QED BY <1>1, <1>2, <1>5, <1>6

(* However many rows of whichever entries the table has, newest first, and *)
(* in any order where they start together: each day is named on one row    *)
(* only, its first (WeeklyTimesheet).  DayShownOnce says so of Sorted.     *)
THEOREM DaysNamedOnce ==
  ASSUME zone \in Zone, DaysGoOn(zone), NEW rows \in Seq(DOMAIN Table),
         \A id \in DOMAIN Table : Table[id].entry.start \in Int,
         \A i, j \in DOMAIN rows :
           i < j => Table[rows[i]].entry.start >= Table[rows[j]].entry.start
  PROVE  \A i, j \in DayShown(rows) : StartDay(rows[i]) = StartDay(rows[j]) => i = j
<1>1. ASSUME NEW i \in DOMAIN rows
      PROVE  Table[rows[i]].entry.start \in Int /\ StartDay(rows[i]) \in Int
  <2>1. rows[i] \in DOMAIN Table
    BY <1>1
  <2>2. Table[rows[i]].entry.start \in Int
    BY <2>1
  <2> QED BY <2>2, InputType, UnitAssumption, DivBounds
          DEF StartDay, LocalDayKey, DayOf, ToDatetimeInput
<1>2. ASSUME NEW i \in DOMAIN rows, NEW j \in DOMAIN rows, i < j
      PROVE  StartDay(rows[i]) >= StartDay(rows[j])
  <2>1. /\ Table[rows[i]].entry.start \in Int /\ Table[rows[j]].entry.start \in Int
        /\ Table[rows[j]].entry.start <= Table[rows[i]].entry.start
        /\ StartDay(rows[i]) \in Int /\ StartDay(rows[j]) \in Int
    BY <1>1, <1>2
  <2>2. LocalDayKey(zone, Table[rows[j]].entry.start)
          <= LocalDayKey(zone, Table[rows[i]].entry.start)
    BY <2>1, DaysInOrder
  <2> QED BY <2>1, <2>2 DEF StartDay
<1>3. ASSUME NEW i \in DayShown(rows), NEW j \in DayShown(rows), i < j,
             StartDay(rows[i]) = StartDay(rows[j])
      PROVE  FALSE
  <2>1. /\ i \in DOMAIN rows /\ j \in DOMAIN rows /\ j # 1
        /\ StartDay(rows[j]) # StartDay(rows[j - 1])
    BY <1>3 DEF DayShown
  <2>2. j - 1 \in DOMAIN rows /\ i <= j - 1 /\ j - 1 < j
    BY <1>3, <2>1
  <2>3. StartDay(rows[j - 1]) >= StartDay(rows[j])
    BY <1>2, <2>1, <2>2
  <2>4. i = j - 1 \/ StartDay(rows[i]) >= StartDay(rows[j - 1])
    BY <1>2, <2>1, <2>2
  <2>5. StartDay(rows[i]) \in Int /\ StartDay(rows[j - 1]) \in Int /\ StartDay(rows[j]) \in Int
    BY <1>1, <2>1, <2>2
  <2> QED BY <1>3, <2>1, <2>3, <2>4, <2>5
<1>4. \A i \in DayShown(rows) : i \in Int
  BY DEF DayShown
<1> QED BY <1>3, <1>4
=============================================================================
