------------------------------ MODULE Reports ------------------------------
(***************************************************************************)
(* What the views compute: the range of instants a week or two date fields *)
(* stand for, what the entry dialog makes of an entry that is saved as it  *)
(* was opened, and the sums under the tables, beside those of the server.  *)
(* An entry is listed by its start (List: from <= start_at < to).          *)
(*                                                                         *)
(* The state is one browser's: its zone, its clock, and an entry that is   *)
(* opened and saved now and then.                                          *)
(***************************************************************************)
EXTENDS TimeUtils, SequencesExt

CONSTANTS
  Zones,     \* the zones, a set of Zone
  Entries,   \* what the entry may be at first
  Rows,      \* the other rows of the table: id -> [entry, project]
  Moments,   \* the readings of the clock, in order
  NoProject  \* t('noProject'), and the empty project it stands for

ASSUME ReportsAssumption ==
  /\ \A z \in Zones : z \in Zone
  /\ \A e \in Entries : e \in TimeEntry /\ WellFormed(e)
  /\ IsFiniteSet(DOMAIN Rows)
  /\ \A id \in DOMAIN Rows : Rows[id].entry \in TimeEntry /\ WellFormed(Rows[id].entry)
  /\ Moments \in Seq(Int) /\ Moments # <<>>
  /\ \A i, j \in DOMAIN Moments : i < j => Moments[i] < Moments[j]

(* A change of the offset is one of summer time, of an hour or less and    *)
(* never of a quarter of a day.  A place that changes sides of the date    *)
(* line skips or repeats a whole day and is not a Zone of this model.      *)
ASSUME ChangeAssumption ==
  \A z \in Zones : /\ 4 * (z.after - z.before) < MinutesPerDay - 1
                   /\ 4 * (z.before - z.after) < MinutesPerDay - 1

VARIABLES zone, clock, entry

vars == <<zone, clock, entry>>

Now == Moments[clock]

Table == [id \in DOMAIN Rows \cup {"mine"} |->
            IF id = "mine" THEN [entry |-> entry, project |-> NoProject] ELSE Rows[id]]

-----------------------------------------------------------------------------
(* Ranges. *)

Within(ms, r) == r.from <= ms /\ ms < r.to

AnchoredAtMidnight(z, ms, k) ==  \* mutant: a change of the offset crosses the week
  WeekRange(z, WeekRange(z, ms).from + k * 7 * Day)

(* The week k weeks from that of ms: the range memo of the sidebar. *)
VisibleRange(z, ms, k) == WeekRange(z, WeekRange(z, ms).from + k * 7 * Day + Day \div 2)

UpToLastMinute(z, from, to) ==  \* mutant: the seconds of the last minute are missing
  [from |-> FromDatetimeInput(z, from * MinutesPerDay),
   to   |-> FromDatetimeInput(z, to * MinutesPerDay + MinutesPerDay - 1)]

(* fromMs and toMs of both reports. *)
DayRange(z, from, to) ==
  [from |-> FromDatetimeInput(z, from * MinutesPerDay),
   to   |-> FromDatetimeInput(z, to * MinutesPerDay + MinutesPerDay - 1) + Minute - 1]

(* The rows of a range, of everybody; then those of one status. *)
ListedIn(r) == {id \in DOMAIN Table : Within(Table[id].entry.start, r)}

Filtered(ids, filter) ==
  {id \in ids : filter = "all" \/ Table[id].entry.status = filter}

(* The sidebar's list of today, of the rows of the visible week. *)
TodayEntries ==
  {id \in ListedIn(VisibleRange(zone, Now, 0)) :
     /\ ~IsRunning(Table[id].entry)
     /\ LocalDayKey(zone, Table[id].entry.start) = LocalDayKey(zone, Now)}

-----------------------------------------------------------------------------
(* The entry dialog. *)

(* Math.round(seconds / 60), halves up. *)
RoundMinutes(s) == (2 * s + SecondsPerMinute) \div (2 * SecondsPerMinute)

FormOf(z, e) ==
  [start |-> ToDatetimeInput(z, e.start), end |-> ToDatetimeInput(z, e.end),
   breakMin |-> RoundMinutes(e.brk)]

BodyOf(z, f) ==
  [start |-> FromDatetimeInput(z, f.start), end |-> FromDatetimeInput(z, f.end),
   brk |-> f.breakMin * SecondsPerMinute]

(* What the row becomes when the dialog is saved as it was opened. *)
Resaved(z, e) ==
  LET b == BodyOf(z, FormOf(z, e)) IN SetBody(e, b.start, b.end, b.brk)

-----------------------------------------------------------------------------
(* Sums. *)

Net(id) == NetSeconds(Table[id].entry, Now)

TotalNet(ids) == MapThenSumSet(Net, ids)

(* One line per user (AdminUserSummary) or project (AdminProjectSummary):  *)
(* how many entries, and their net seconds.                                *)
Stats(ids, key(_)) ==
  [k \in {key(id) : id \in ids} |->
     LET group == {id \in ids : key(id) = k}
     IN [entries |-> Cardinality(group), net |-> TotalNet(group)]]

UserOf(id)    == Table[id].entry.user
ProjectOf(id) == Table[id].project
StartDay(id)  == LocalDayKey(zone, Table[id].entry.start)

ProjectsOnly(ids) ==  \* mutant: entries without a project are left out
  Stats({id \in ids : ProjectOf(id) # NoProject}, ProjectOf)

UserStats(ids)    == Stats(ids, UserOf)
ProjectStats(ids) == Stats(ids, ProjectOf)

(* The line below each of the two tables. *)
FootEntries(stats) == LET n(k) == stats[k].entries IN MapThenSumSet(n, DOMAIN stats)
FootNet(stats)     == LET n(k) == stats[k].net IN MapThenSumSet(n, DOMAIN stats)

(* handleReportSummary: by local day, break seconds too. *)
ServerDays(ids) ==
  [d \in {StartDay(id) : id \in ids} |->
     LET group   == {id \in ids : StartDay(id) = d}
         net(id) == ServerNetSeconds(Table[id].entry, Now)
         brk(id) == LET b == BreakTotal(Table[id].entry, Now) IN IF b < 0 THEN 0 ELSE b
     IN [net |-> MapThenSumSet(net, group), brk |-> MapThenSumSet(brk, group)]]

(* The rows of the weekly table, newest first; a row shows its day when it *)
(* is not that of the row above.                                           *)
AsStored(ids) == SetToSeq(ids)  \* mutant: the rows are not sorted

Sorted(ids) ==
  CHOOSE rows \in SetToSeqs(ids) :
    \A i, j \in DOMAIN rows :
      i < j => Table[rows[i]].entry.start >= Table[rows[j]].entry.start

DayShown(rows) ==
  {i \in DOMAIN rows : i = 1 \/ StartDay(rows[i]) # StartDay(rows[i - 1])}

-----------------------------------------------------------------------------
Init == zone \in Zones /\ entry \in Entries /\ clock = 1

Pass ==
  /\ clock < Len(Moments)
  /\ clock' = clock + 1
  /\ UNCHANGED <<zone, entry>>

(* Save, nothing changed: the checks of the form and of handleUpdateEntry. *)
SaveUnedited ==
  /\ ~IsRunning(entry) /\ entry.status = StatusOpen
  /\ entry' = Resaved(zone, entry)
  /\ ValidateAt(entry', Now)
  /\ UNCHANGED <<zone, clock>>

Next == Pass \/ SaveUnedited

Spec == Init /\ [][Next]_vars

-----------------------------------------------------------------------------
(* Properties. *)

(* A wall clock that the zone shows once: not skipped, not repeated. *)
ShownAt(w) == {m \in {w - zone.before, w - zone.after} : Wall(zone, m) = w}
Proper(w) == \E m \in ShownAt(w) : ShownAt(w) = {m}

Monday(k) == MinutesPerDay * (MondayOf(LocalDayKey(zone, Now)) + 7 * k)

(* Types of all state; a saved entry still ends after it starts, though a  *)
(* clock that went back may make its times change places.                  *)
TypeOK ==
  /\ zone \in Zone /\ entry \in TimeEntry /\ clock \in DOMAIN Moments
  /\ entry.start > 0 /\ (IsRunning(entry) \/ entry.end >= entry.start)

(* The week of offset 0 holds all of today, in every zone and also in the  *)
(* week of a change of the offset, if its two Mondays start with a         *)
(* midnight: the list of today is complete (RHSView, weekRange).           *)
WeekHoldsToday ==
  Proper(Monday(0)) /\ Proper(Monday(1)) =>
    /\ \A ms \in (Now - Day) .. (Now + Day) :
         LocalDayKey(zone, ms) = LocalDayKey(zone, Now) =>
           Within(ms, VisibleRange(zone, Now, 0))
    /\ TodayEntries = {id \in DOMAIN Table : ~IsRunning(Table[id].entry)
                                            /\ StartDay(id) = LocalDayKey(zone, Now)}

(* Stepping through the weeks leaves no instant out and shows none twice,  *)
(* across a change of the offset, too: where one week ends the next one    *)
(* starts (the range memo of RHSView, "DST-safe").  In a zone the browser   *)
(* knows but Mattermost does not, a Monday without a midnight spoils that. *)
WeeksTile ==
  zone.named \/ (\A k \in -2 .. 2 : Proper(Monday(k))) =>
    \A k \in -2 .. 1 :
      /\ VisibleRange(zone, Now, k).to = VisibleRange(zone, Now, k + 1).from
      /\ VisibleRange(zone, Now, k).from < VisibleRange(zone, Now, k).to

(* Two dates are plain if the days from the one to the other start and end *)
(* with a minute that the zone shows once.                                 *)
PlainDays(from, to) ==
  Proper(from * MinutesPerDay) /\ Proper((to + 1) * MinutesPerDay - 1)

(* The range of two date fields holds no instant of another day, and those *)
(* of its days that come before its last millisecond, however long the     *)
(* days are (fromMs and toMs of PersonalReport and AdminConsole).          *)
DayRangeCoversDays ==
  LET today == LocalDayKey(zone, Now) IN
  \A from, to \in (today - 1) .. (today + 1) : PlainDays(from, to) =>
    /\ Within(Now, DayRange(zone, from, to)) => today \in from .. to
    /\ today \in from .. to /\ Now # DayRange(zone, from, to).to =>
         Within(Now, DayRange(zone, from, to))

(* "epoch ms covering the full days [from, to]" (AdminConsole.tsx, 50):    *)
(* every instant of those days is in their range, the last one, too.       *)
FullDays ==
  LET today == LocalDayKey(zone, Now) IN
  \A from, to \in (today - 1) .. (today + 1) : PlainDays(from, to) =>
    (today \in from .. to => Within(Now, DayRange(zone, from, to)))

(* An entry that is saved as it was opened keeps the minutes it starts and *)
(* ends in, unless its clock shows that time twice ("an unchanged edit     *)
(* round-trips exactly", fromDatetimeInput).                               *)
SaveKeepsMinutes ==
  LET saved == Resaved(zone, entry) IN
  ~IsRunning(entry) =>
    /\ Proper(ToDatetimeInput(zone, entry.start)) =>
         MinuteOf(saved.start) = MinuteOf(entry.start)
    /\ Proper(ToDatetimeInput(zone, entry.end)) =>
         MinuteOf(saved.end) = MinuteOf(entry.end)

(* Saving it once more changes nothing, whatever the first time did: the   *)
(* times and breaks do not creep (EntryEditModal).                         *)
SaveSettles ==
  LET saved == Resaved(zone, entry) IN ~IsRunning(entry) => Resaved(zone, saved) = saved

(* The client counts the seconds the server counts, unless its clock is    *)
(* behind the start of the break (netSeconds, "mirrors server").           *)
ClientAgreesWithServer ==
  \A id \in DOMAIN Table :
    LET e == Table[id].entry IN
    e.onbrk <= Now => NetSeconds(e, Now) = ServerNetSeconds(e, Now)

(* While the clock goes on: an entry that is closed and not on a break has *)
(* settled, one that runs never counts back, and on a break it stands      *)
(* still, but for a second of rounding (netSeconds, the hero of RHSView).  *)
GoesForward ==
  \A id \in DOMAIN Table :
    LET e == Table[id].entry  before == NetSeconds(e, Now)  after == NetSeconds(e, Now')
    IN clock' > clock /\ e.start <= Now /\ e.onbrk <= Now =>
         /\ ~IsRunning(e) /\ ~OnBreak(e) => after = before
         /\ IsRunning(e) /\ ~OnBreak(e) => after >= before
         /\ IsRunning(e) /\ OnBreak(e) => after \in (before - 1) .. (before + 1)

CounterGoesForward == [][GoesForward]_vars

(* The headline, the tables and the server's summary agree on the hours of *)
(* a range: every entry is counted once, whatever it is grouped by         *)
(* (AdminUserSummary, AdminProjectSummary, handleReportSummary).           *)
SumsAgree ==
  \A from \in {LocalDayKey(zone, Now) - 1, LocalDayKey(zone, Now)},
     filter \in {"all"} \cup Status :
    LET ids  == Filtered(ListedIn(DayRange(zone, from, from + 1)), filter)
        days == ServerDays(ids)
        net(d) == days[d].net
    IN /\ \A stats \in {UserStats(ids), ProjectStats(ids)} :
            FootNet(stats) = TotalNet(ids) /\ FootEntries(stats) = Cardinality(ids)
       /\ (\A id \in ids : Table[id].entry.onbrk <= Now) =>
            MapThenSumSet(net, DOMAIN days) = TotalNet(ids)

(* Each day of the weekly table is named once, on its first row, also the  *)
(* day on which the clock goes back, unless that is into the day before    *)
(* (WeeklyTimesheet).                                                      *)
DayShownOnce ==
  LET rows == Sorted(ListedIn(VisibleRange(zone, Now, 0))) IN
  DayOf(Wall(zone, zone.at - 1)) <= DayOf(Wall(zone, zone.at)) =>
    \A i, j \in DayShown(rows) : StartDay(rows[i]) = StartDay(rows[j]) => i = j
=============================================================================
