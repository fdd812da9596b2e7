# Clockwork: TLA+ models and proofs

Clockwork is a Mattermost plugin for time tracking: a Go server part (HTTP API,
slash command, SQL store, schema migration) and a React web client. This
directory holds TLA+ models of it, TLC configurations that check them on small
instances, and proofs of their main properties that TLAPS checks for every
instance. All paths below are relative to the repository's root.

## The system

| Component | State | Operations | Hard behaviour | What makes it correct |
|---|---|---|---|---|
| Store, timer (`server/store/sqlstore.go:161-321`) | one row per entry; open row = `end_at NULL`; row locks | StartTimer, StopTimer, StartBreak, StopBreak, GetRunning | requests in parallel on several nodes; lock waits; a `now` read before the lock; lost acknowledgements | one running entry per user; a break is counted once |
| Store, entries (`:325-506`) | same table | Get, List, Create, Update, Delete | unlocked read, later write; edits racing a submit | submitted entries are frozen; an edit changes what it names |
| Store, approval (`:519-543`) | `status` column | SetStatusRange | sweeps over the same rows, in any lock order | statuses follow the lifecycle; a running timer is not swept up; a sweep is complete |
| Migration and activation (`server/store/migrations.go`, `server/plugin.go`) | table, columns, keys | NewSQLStore, migrate | several nodes at once; each DDL statement commits alone; legacy tables | a node that serves has its columns and the running-entry key |
| HTTP API (`server/api.go`) | none of its own | timer, entries, workflow, admin, report, export, suggestions | reads the clock, the configuration and rows before the store's transaction | each answer is true; nothing is written after a refusal |
| Slash command (`server/command/command.go`) | none | in, out, break, status | break = read, then another transaction | as the timer |
| Configuration (`server/configuration.go`) | pointer under a RWMutex | OnConfigurationChange, getConfiguration | changed while requests run: a call let in before may move statuses after the switch-off | a closed workflow lets no new call in (stated by no property: it is the guard) |
| Timer sidebar (`webapp/src/components/rhs/RHSView.tsx`) | the running entry and the week's entries as last read, `weekOffset`, busy, loading, error, the open dialog | refetch, navigate, start, stop, break, submit, withdraw | reloads without cancellation; continuations that use the week of the click | one action at a time; what is shown is the table, unless calls overlapped |
| Entry editor (`components/EntryEditModal.tsx`) | a form seeded from a row, busy, confirming | save, delete, close | closed while its write is under way; seeded from an old list; minutes | one write per dialog; only closed entries; an unedited save moves nothing |
| Personal report, admin console (`components/PersonalReport.tsx`, `admin/AdminConsole.tsx`) | rows as last read, the dates, the selected user, busy, loading, error | reload, select, submit, withdraw, approve, reject, reopen | reloads that are cancelled by a signal, and those of actions that are not | what is shown belongs to the selection |
| Time utilities (`utils/time.ts`), report sums (`server/api.go`, the tables) | the zone | pure | changes of the offset, half-open ranges, rounding | weeks tile, ranges hold their days, sums agree |
| Deployment tool (`build/pluginctl`) | last line seen | watchLogs | - | part of the plugin template |

Requests are goroutines of one or more nodes and share only the database. The
handlers call the store; the slash command calls the store; the web client
calls the handlers; activation runs the migration before a node serves. In the
browser everything runs on one thread, one continuation at a time; what makes
it concurrent are the answers, which come when they like.

## Modules

| Module | Models |
|---|---|
| `EntryData` | the row, the statuses and their moves, ValidateAt, the break arithmetic, the columns each UPDATE writes |
| `TimeEntryStore` | the store with the handlers and the slash command around it, statement by statement |
| `StoreHistory` | the same with two history variables, for what an answer says about the time of its request |
| `Timesheet` | what the store promises: one table changed by one atomic operation at a time |
| `Migration` | activation of several nodes on one database |
| `WebServer` | the server as the web client meets it: calls sent, executed, answered, failed; the workflow gate; what happens elsewhere |
| `Sidebar` | RHSView with the rows of its timesheet and the entry dialog (on `WebServer`) |
| `Report` | ClockworkApp with the personal report and the admin console (on `WebServer`) |
| `WebClient` | the composition of the two views and the server, with the properties |
| `TimeUtils` | `utils/time.ts`: zones, wall clocks, weeks, net seconds |
| `Reports` | what the views compute: ranges, the form of the dialog, sums and tables, beside the server's |
| `TimeEntryStore_proofs`, `Refinement_proofs`, `StoreHistory_proofs` | proofs about the store: its invariants, that it implements `Timesheet`, what answers say |
| `Migration_proofs`, `Reports_proofs`, `Sums_proofs` | proofs about activation, about the arithmetic, about the tables and their sums |
| `Views_proofs`, `WebClient_proofs` | proofs about the web client: the invariant of flags and calls, then what is shown and what is edited |
| `MCTimeEntryStore`, `MCStoreHistory`, `MCMigration`, `MCWebClient`, `MCReports` | instances for TLC |

### TimeEntryStore

A request is a process. `pc[r]` is the statement it executes next, `call[r]`
what it was asked, `row[r]` the row its transaction read or is about to write,
`todo[r]` the rows a sweep has not locked yet, `answer[r]` the last answer.
`entries` is the committed table (`NoEntry`: the id is unused; `Gone`: deleted),
`locks` who holds which row, `clock` is `model.GetMillis`.

- A statement reads the committed table. A transaction's writes and its COMMIT
  are one action, since the rows are locked before and nothing else of it is
  visible; `StartTimer`'s INSERT is separate from its COMMIT because the pending
  key makes other INSERTs wait (`InsertPending`).
- A statement that waited for a row lock looks at the row again (`TimerLock`,
  `OwnerLock`, `SweepRow`). This is READ COMMITTED on Postgres; the locking reads
  of InnoDB see the latest version too.
- `SetStatusRange` is one UPDATE: it picks its rows when it starts and then locks
  and re-checks them one at a time, in any order. Two sweeps can wait for each
  other; the database rolls one back (`DeadlockVictim`).
- The handlers' `model.GetMillis()` is part of the call (`now`), before the store
  is entered. The slash command's break is a read and then a call of its own.
- `Commit` answers "ok" or "error": the connection can be lost after the server
  committed. `Abort` is any failure before that: everything is rolled back.
- Left out: `project`, `description`, `created_at`, `updated_at` and the derived
  `locked`; no property depends on them. Time is counted in a unit small enough
  that `MillisPerSecond`, the 24 h cap and the 5 min skew are constants.

### Migration

`at[n]` counts the steps of node n's migration (0 inactive, 5 serving);
`schema` is what exists of the table. Postgres uses IF NOT EXISTS; MySQL asks
information_schema and then alters, as two actions. A table may come from a
version before the approval workflow, with or without the running-entry guard,
and that version may still be writing (`LegacyStart`). Any step may fail and a
node may go down at any time; what it did stays.

### WebServer, Sidebar, Report and WebClient

`net` maps each of a set of slots to the call in flight there, or to `NoCall`; a
call is sent into any free slot, and the slots bound how many are in flight at
once. A call has a phase ("sent", "admitted" between the
gate and the transition of a workflow handler, "ok", "error"), the component
whose continuation waits for it (`owner`), what that continuation had closed
over (`then`: the week or selection of the render the button was in, the signal)
and what the answer carries (`got`). Calls are executed in any order and their
answers are dealt with in any order.

- A click is one action: the synchronous part of its handler, up to the call.
  What follows an `await` is another (`ActionArrives`, `RefetchArrives`,
  `SaveArrives`, `MoveArrives`, `ListArrives`), with the `catch` and the
  `finally` that belong to it.
- The sidebar's refetch is three GETs; the server answers the timer and the list
  at different moments (`ServeRefetch`), and the continuation waits for both.
- The table changes by one atomic operation per call. `Refinement_proofs` proves
  that this is what the statements of the store amount to, and
  `TableIsTimesheet` that every operation the client causes is one of `Timesheet`.
- `Fail` is a fetch that rejects: the call was never executed, its answer is lost
  after it was, or the server executes it later and nobody hears of it. `GET
  /config` is read when its answer arrives.
- `OperationElsewhere`, `SettingsElsewhere` and `NewWeek` are the slash command,
  another tab, other users, the administrator's settings, and time.
- An instant is the number of a week, which is what the views' requests differ in.
  No row is of the future but for the tolerance of ValidateAt (`NotFuture`): a
  session may start with any such table (`StartsAssumption`).
- `fresh`, `of` and `by` are history variables kept in the view's record; no step
  of the code reads them.
- Left out: texts, suggestions, export links, the status filter (the rows it
  hides are a part of those that are checked), focus, and typing (a form holds
  any of `Bodies` when Save is pressed). The application shows one of the two
  views at a time. A view that is unmounted leaves its calls behind; its reads
  are dropped, since nobody hears them and they change nothing.

### TimeUtils and Reports

An instant is a number of milliseconds, a wall clock the number of minutes
`Date.UTC` makes of it. A zone has an offset before and after one change; a
conversion looks at instants less than a day apart, and between changes of a
real zone there are weeks. `named` tells whether Mattermost named the zone
(`Intl.DateTimeFormat` and `zonedWallToUtc`) or the browser's is used (`Date`).
`Reports` has the state of one browser: its zone, its clock, and an entry that
is opened and saved unedited now and then.

## What the runs check

| Run | Shows | Instance |
|---|---|---|
| `races` | `TypeOK`; `SingleRunning`; `LifecycleOnly`; `NotRunningIsTrue`: a request that is told "not running" was told the truth of some moment of its duration; `SweepIsComplete`: a sweep that succeeds moved every row that matched all along | 3 requests that start, stop, toggle a break, move an entry or sweep, 2 entries, 1 instant |
| `edits` | `RunningIsOpen`; `StoreInv`, the inductive invariant; `BreaksAccounted`: a break ends once, in a stop or break-stop that adds its duration; `LockedIsFrozen`; `ImplementsTimesheet`: the refinement | 2 requests of all kinds, 2 entries, 2 instants |
| `answered` | `EveryCallAnswered` (liveness) | 2 requests of start, stop, break toggle, edit and submit, 2 entries, 1 instant |
| `migration` | `TypeOK`, `ServedIsComplete`, `ServedIsUnique` | 3 nodes, both databases, 1 user with up to 2 open rows |
| `webclient` | the properties of the web client, below | 3 calls in flight, 2 events (clicks and what happens elsewhere, of which 1), 2 weeks, 2 entries; 3 sessions: an open entry; a submitted and a running one; an administrator with two users |
| `times` | the properties of the arithmetic, below | 224 zones, 8 readings of the clock, 18 entries saved again and again among 4 others |
| `put_on_running`, `put_lost_update`, `stale_now`, `migration_race`, `stale_user`, `full_days` | disagreements of code and comments, below | 2 requests; 3 nodes; an administrator with two users; the instance of `times` |

`webclient`:

- `OneActionPerView`, `OneWritePerDialog`: a busy flag is up exactly while the
  action it belongs to is on its way, whatever reloads overlap it, whatever
  fails, and whichever dialog was closed over a write.
- `EditsTargetClosed`: a dialog opened from an old list never edits or deletes an
  entry that is running, so the PUT of `put_on_running` is not one this client
  sends.
- `SidebarAgrees`, `ReportAgrees`: when all is quiet and the last reload was sent
  alone (in the report: raced with no uncancelled one), what is shown is the
  table. So overlap is the only cause of what goes wrong.
- `SignalIsCurrent`, `StaleIsAnnounced`, `LoadingIsPending`: one live reload at
  most, and for the present selection; rows of another selection only while
  the view is loading, busy or shows an error; no loading without a reload that
  will end it.
- `PersonalIsOwn`: no change of tabs lets the team's rows into the personal report.
- `TableIsTimesheet`: see above.

`times`:

- `WeekHoldsToday`, `WeeksTile`: this week holds all of today, and each week ends
  where the next begins, in weeks of any length.
- `DayRangeCoversDays`: the range of two dates holds no instant of another day,
  and those of its days before its last millisecond; `full_days` is about that one.
- `SaveKeepsMinutes`, `SaveSettles`: an unedited save keeps minutes; a second one
  changes nothing.
- `ClientAgreesWithServer`, `CounterGoesForward`: the client's net seconds are the
  server's, and no timer counts back.
- `SumsAgree`, `DayShownOnce`: headline, tables and server summary agree; each day
  of the weekly table is named once.

**Bounds.** A race needs two requests; an overtaken one (stopped by one request
and started again by another while a third waits) needs three, and two entries.
Two instants are enough for a clock value that is older than the row it is
applied to. One range of which an entry can be edited out is enough for a row
that stops matching. The proofs have none of these bounds. In `races` the skew
constant is 1 so that an entry can be moved to instant 2 while the clock stands
at 1; in the store's other runs it is 0. They all have one user: requests of
different users share no row and no key, and the proofs cover any set of users.

In `webclient` two events are enough for an action that is overtaken by a
navigation, a second action, a failure or a change of the settings, and three
calls for an action with the reload of the mounting and that of the navigation;
mounting, tabs, and opening and closing dialogs are free. Two weeks tell "the
week of the click" from "the week shown". `stale_user` needs four events: select
a user, approve, back to all, select another. In `times` a second has 2 ms, a
minute 2 seconds and a day 12 minutes, so that truncation and rounding both
happen; the change of the offset is at any minute around the midnight of this,
the last or the next Monday or of the Tuesday on which the clock ends, by 2
minutes (a sixth of a day, inside `ChangeAssumption`) forwards or backwards,
east and west of UTC.

**Symmetry and views.** Requests and entry ids of the store are interchangeable,
and so are the slots of the web client; `answered`, a liveness run, uses no
symmetry. The last answers are read by no step, and the view leaves them out.

**Fairness** (`answered` only). Weak fairness of each request's statements: Go
schedules every goroutine and the database executes what it is sent. Strong
fairness of the steps that wait for a lock or a key: the database queues
waiters. Arrivals, the clock and failures are not fair. The web client has no
fairness and so no liveness: `fetch` has no timeout, and a call may stay
unanswered; `LoadingIsPending` and `OneActionPerView` are the safety side of
"loading ends". Deadlock is checked in the runs of the store and the migration,
which never stop; it is off in `webclient`, `stale_user`, `times` and `full_days`, which end
when their bound on events or on the clock is reached.

## Disagreements of code and comments

- `server/api.go:352-354` says that the test of `end_at` blocks the editing of a
  running entry. It tests the patched copy, so a body with `end_at` passes and
  closes the entry, with `break_started_at` still set. (`put_on_running`)
- `server/api.go:322-323` says that absent keys leave the stored value
  untouched. The handler reads without a lock and writes all editable columns
  back. (`put_lost_update`)
- `server/store/sqlstore.go:230-232` says that the row lock keeps a double-click
  from corrupting break accounting. The clock is read before the lock, so a
  stop can be earlier than the break it ends: `break_seconds` falls below zero.
  (`stale_now`; `BreaksAccounted` states what does hold.)
- `server/store/migrations.go:9-10` calls the migration idempotent and safe on
  every activation. Two nodes activated at once on a MySQL table that lacks an
  object both try to add it, and one activation fails. (`migration_race`)
- `webapp/src/components/admin/AdminConsole.tsx:34-35` says that selecting a user
  narrows the loaded entries to that user. The reload after an action has no
  signal and the selection of the click: it may arrive after that of another
  user selected since, and nothing then says that the rows are not that user's.
  (`stale_user`; `StaleIsAnnounced` states what does hold.)
- `webapp/src/components/admin/AdminConsole.tsx:50` says that the range of two
  dates covers the full days. Its upper bound is their last millisecond and the
  store lists `start_at < to` (`sqlstore.go:349-350`): an entry that starts in that
  millisecond is left out, here and in the personal report. (`full_days`;
  `DayRangeCoversDays` states what does hold.)
- Not a run: `webapp/src/utils/time.ts:164-166` says that an unchanged edit
  "round-trips exactly". The text of the field has minutes: a save cuts seconds
  off, and a wall time the clock shows twice may move to its other instant.
  (`SaveKeepsMinutes` states what does hold.)
- Not a run: `time.ts:62` says that `netSeconds` mirrors the server's. It floors
  where Go truncates towards zero, so that the two differ by a second while the
  browser's clock is behind the start of a break. (`ClientAgreesWithServer` states
  what does hold.)
- Not a run: `migrations.go:59-61` says that on MySQL the one-running-entry
  invariant relies on a count check in StartTimer; lines 74-78 of the same file
  and StartTimer itself rely on a unique key.

What the models of the web client show besides, and no document speaks against:

- An older answer of the sidebar overwrites a newer one, also with another week's
  rows; after an action that was refused nothing is reloaded. The range is not
  computed anew at Monday's midnight (`RHSView.tsx:35-42`).
- Escape and the overlay close a dialog that is busy; when its write succeeds the
  dialog opened since is closed (`EntryEditModal.tsx:69-74`, `:125-126`).
- An unedited save rounds breaks to minutes (`EntryEditModal.tsx:28`).
- A workflow call that was let in is executed although the workflow was switched
  off, or the user's permission withdrawn, in the meantime (`api.go:522-537`).
- With the `from` date cleared the list shows everything and a submit is refused.
- Without a named zone, a Monday whose midnight is skipped makes neighbouring
  weeks overlap or leave a gap (`time.ts:109-112`); hence the condition of
  `WeeksTile`. And `weekRange` of a day whose own midnight is skipped starts its
  Monday late by the change; the sidebar computes its range from midday of that
  Monday (`RHSView.tsx:35-42`) and is not affected.
- The default dates are the browser's days, the ranges those of Mattermost's zone.

## What is proved

Every theorem is proved for all sets of users, ids, requests and slots, all
bodies, patches and ranges, and all bounds, from the named assumptions on the
constants, which TLC evaluates in the runs:

- of the data and the store, `MillisAssumption` to `NoReqAssumption`: lengths of
  units and caps are numbers, markers are no rows;
- of the migration, `MaxOpenAssumption`: there may be an open row;
- of the web client, `MeAssumption` to `StartsAssumption`, `NoDialogAssumption`,
  `PeriodsAssumption`: sessions start with tables of well-typed rows that are not
  of the future, markers are neither rows nor dialogs;
- of the arithmetic, `UnitAssumption`, `ReportsAssumption` (the clock goes
  forward, the table is finite and its entries are well formed) and
  `ChangeAssumption`: no change of the offset reaches a quarter of a day.

### Store

- `TypeCorrect`, `StoreInvHolds`, `AtMostOneRunning`, `RunningStaysOpen`. The
  invariant is `Inv == TypeOK /\ StoreInv`. `SingleRunning` alone is not
  inductive: a COMMIT may add a second open row unless a pending insert is the
  only one and its user has no open row (`PendingAlone`), and unless its id is
  nobody else's (`IdFresh`). `RunningIsOpen` needs that a sweep still matches
  what it has locked (`LocksHeld`) and that what a writer read is what is stored
  (`WriterKnows`). One lemma per action; `StepInv`, `RefuseInv` and `CommitInv`
  carry what steps without a write, refusals and commits have in common.
- `SubmittedIsFrozen`, `LifecycleKept`: from `RowSteps`, which says what any step
  can do to a row. `BreaksAreAccounted`: from what a timer write and an edit do
  to the breaks of their row.
- `StoreImplementsTimesheet`: each commit is one Timesheet operation under the
  identity mapping of the table; every other step stutters. An operation takes
  effect at its commit, so the store is linearizable as far as the table goes.
- `NotRunningWasTrue`, `SweepsAreComplete`: from `HistoryInv`, beside `Inv`. If a
  user has no running entry now, the history knows that there was such a moment
  (`IdleKnown`), and it knows one if the entry whose lock a request waits for no
  longer runs (`LostKnown`). A row that matched a sweep all along is one the sweep
  has locked or has still to lock (`StayMatches`, `StayTaken`). `LostKnown` would
  fail if the entry could end in the step in which its user gets another running
  one; `NoneStarts` excludes that by the refinement, since no operation of
  `Timesheet` does both.

### Migration

- `MigrationTypeCorrect`, `ServedTableIsComplete`, `ServedTableIsUnique`: a node
  has ensured the objects of the steps behind it, no step removes an object, and
  rows under the guard are unique, so the guard cannot appear on rows that
  violate it.

### Web client

- `ViewsInvariant`: `Views` is inductive. Beside the types it says which calls the
  flags of a view stand for (`SidebarFlags`, `ReportFlags`) and that one view is
  mounted at a time. `OneActionPerView` is not inductive without it: that a busy
  view has one action on its way is kept by `ActionArrives` only if no other call
  in flight has a continuation of that kind, by `CloseSidebar` only if every
  call it abandons is found. `SidebarStepCalls` and `ReportStepCalls` say what
  a step of one view does to the calls, so that the other view's flags need one
  lemma for all its steps (`KeptFlags`). From `Views` follow `WebTypes`,
  `OneAction`, `OneWrite`, `SignalTheorem`, `StaleTheorem` and `LoadingTheorem`.
- `TableTheorem`: what `RowChange` and a sweep do are operations of `Timesheet`.
- `EditsTheorem`: `SettledTargets` says of every dialog, every write on its way,
  every row shown and every answer under way that a row closed there is closed in
  the table for good, since no operation starts an entry again.
- `OwnTheorem`: `SidebarOwn` and `ReportOwn` say of the rows shown and of the
  reads on their way that they are the user's own; after an action the personal
  report asks for these again.
- `SidebarTheorem`, `ReportTheorem`: while the last reload was one sent alone and
  nothing has happened elsewhere, a write has been executed whose answer will
  bring a reload, or there is one read at most and it carries, or will carry,
  what the table has, or what the table has is shown already (`SidebarFresh`,
  `ReportFresh`).

### Arithmetic

For every zone of one change, every length of the units, all entries and any clock:

- `SavingSettles` and `SavingKeepsMinutes` rest on `ZonedWallShows` and
  `DateShows` (the instant found for a wall clock that some instant shows does
  show it) and `MinuteOfMinutes`; `SavingSettles` has no condition on the
  offsets. `IInv` adds to the types that the entry is well formed, which the
  validation of each save keeps.
- `ClientMirrorsServer` needs that its spans are not negative: there floor is
  truncation. `CountersGoForward` bounds the difference of two floors.
- `RangeCoversDays` compares a day with its first and last minute.
- `ThisWeekHoldsToday` and `WeeksAreTiled` rest on `VisibleWeek`, which gives the
  bounds of every week, not only the few of the run: the reference instant at
  midday of the Monday lies on that Monday. Two errors add up there, a skipped
  midnight of today and an offset that differs between today and the Monday;
  each is at most the change, and midday is half a day away, hence the quarter of
  a day in `ChangeAssumption`. A place that changes sides of the date line
  is excluded.
- `DaysNamedOnce`: in any newest-first sequence of rows each day is named once,
  and `DaysAreShownOnce` applies it to the rows of the weekly table, which
  `SortedExists` shows can be listed so.
- `SumsAreEqual`: for every finite table. The sums of the model are folds, and what
  a fold comes to would need induction over the set. `MinimalSet` stands in for
  it: were a fact false of some subset of a finite set, it would be false of a
  smallest one, and that one is empty or has an element to take away. So
  `SumExists` gives the sums of all subsets at once, `ChosenFold` shows that the
  fold is one of them in whichever order it adds, and `SumOfUnion` and
  `SumOfGroups` that groups add up to the whole. Users, projects and days are
  three such groupings, and the counts of entries are sums of ones.

**Only model-checked:** `EveryCallAnswered` (liveness under fairness is out of the
prover's reach) and the six counterexamples. Every other property of a passing
run is a theorem.

## Plan

What is left to prove are facts beside the properties: that the break seconds of
the server's summary add up as its net seconds do, and that a report of a range
of days is the union of the reports of its days.

## Not modelled

- The authorization middleware: one header test before everything modelled here.
- Suggestions, CSV text, logging, i18n, styles, icons, the writing of numbers and
  times as text, the registration with Mattermost and the locale: no state that a
  property could be about.
- The cap of 10000 rows of a list: a model could only restate it.
- The deployment and manifest scripts, part of the plugin template, and generated
  mocks and type declarations.
