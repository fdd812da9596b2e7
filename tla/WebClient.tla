----------------------------- MODULE WebClient -----------------------------
(***************************************************************************)
(* The web client: the sidebar and the full-page report of one browser, of *)
(* which the application shows one at a time, before one server.           *)
(***************************************************************************)
EXTENDS Sidebar, Report

vars == <<entries, week, approval, admin, elsewhere, clicks, net, rhs, dialog, session, rep>>

Init == ServerInit /\ SidebarInit /\ ReportInit

(* A step of one view leaves the other alone; a click is in the view that  *)
(* is shown.                                                               *)
NotReport  == UNCHANGED <<session, rep>>
NotSidebar == UNCHANGED <<rhs, dialog>>
InSidebar  == ~rep.up /\ NotReport
InReport   == ~rhs.up /\ NotSidebar

Next ==
  \/ OpenSidebar /\ InSidebar
  \/ CloseSidebar /\ InSidebar
  \/ \E d \in (1 - MaxWeek) .. (MaxWeek - 1) : Navigate(d) /\ InSidebar
  \/ ClickStart /\ InSidebar
  \/ ClickStop /\ InSidebar
  \/ ClickBreak /\ InSidebar
  \/ ClickSubmitWeek /\ InSidebar
  \/ ClickWithdrawWeek /\ InSidebar
  \/ \E id \in Id : SelectEntry(id) /\ InSidebar
  \/ AddEntry /\ InSidebar
  \/ \E b \in Bodies : Save(b) /\ InSidebar
  \/ \E confirming \in BOOLEAN : AskDelete(confirming) /\ InSidebar
  \/ Remove /\ InSidebar
  \/ CloseDialog /\ InSidebar
  \/ OpenReport /\ InReport
  \/ CloseReport /\ InReport
  \/ \E mode \in {"personal", "team"} : SwitchMode(mode) /\ InReport
  \/ \E p \in Periods : SetPeriod(p) /\ InReport
  \/ \E u \in User \cup {Nobody} : SelectUser(u) /\ InReport
  \/ ClickSubmit /\ InReport
  \/ ClickWithdraw /\ InReport
  \/ \E move \in {Approve, Reject, Reopen} : Decide(move) /\ InReport
  \/ (ConfigArrives \/ ConfigFails) /\ NotReport
  \/ (ReportConfigArrives \/ ReportConfigFails) /\ NotSidebar
  \/ \E s \in Slot : RefetchArrives(s) /\ NotReport
  \/ \E s \in Slot : ActionArrives(s) /\ NotReport
  \/ \E s \in Slot : SaveArrives(s) /\ NotReport
  \/ \E s \in Slot : ListArrives(s) /\ NotSidebar
  \/ \E s \in Slot : MoveArrives(s) /\ NotSidebar
  \/ \E s \in Slot : ServerStep(s) /\ NotSidebar /\ NotReport
  \/ Elsewhere /\ NotSidebar /\ NotReport

Spec == Init /\ [][Next]_vars

-----------------------------------------------------------------------------
(* Properties. *)

(* A call in flight: what it asks for, what follows its answer, and what   *)
(* the answer carries.                                                     *)
Asks(c) ==
  /\ c.op = "refetch" => c.arg \in Week
  /\ c.op = "list" => c.arg \in Selections
  /\ c.op = "move" =>
       c.arg \in [user : User, period : Period, move : Moves, asAdmin : BOOLEAN]
  /\ c.op = "create" => c.arg \in [body : Bodies]
  /\ c.op = "update" => c.arg \in [id : Id, body : Bodies]
  /\ c.op = "delete" => c.arg \in [id : Id]

Continues(c) ==
  \/ /\ c.owner = "sidebar" /\ c.op \in TimerCalls \cup {"move", "refetch"}
     /\ c.then \in [kind : {"effect", "run", "saved"}, week : Week]
     /\ c.op # "refetch" => c.then.kind = "run"
  \/ /\ c.owner = "dialog" /\ c.op \in EntryCalls
     /\ c.then \in [shown : BOOLEAN, week : Week]
  \/ /\ c.owner = "report" /\ c.op = "list"
     /\ c.then \in [kind : {"effect", "action"}, cancelled : BOOLEAN]
     /\ c.then.cancelled => c.then.kind = "effect"
  \/ c.owner = "report" /\ c.op = "move" /\ c.then \in Selections
  \/ c.owner = "gone" /\ c.op \notin Reads /\ c.then = <<>>

Carries(c) ==
  /\ c.phase = "admitted" => c.op = "move"
  /\ c.op = "refetch" => /\ DOMAIN c.got \subseteq {"current", "list"}
                         /\ \A part \in DOMAIN c.got : AreRows(c.got[part])
                         /\ c.phase = "ok" => DOMAIN c.got = {"current", "list"}
  /\ c.op = "list" /\ c.phase = "ok" => AreRows(c.got)

Op == TimerCalls \cup EntryCalls \cup Reads \cup {"move"}

IsCall(c) ==
  /\ c \in [op : Op, owner : {"sidebar", "dialog", "report", "gone"}, arg : {c.arg},
            then : {c.then}, phase : {"sent", "admitted", "ok", "error"}, got : {c.got}]
  /\ Asks(c) /\ Continues(c) /\ Carries(c)

AreCalls(n) ==
  n = [s \in Slot |-> n[s]] /\ \A s \in Slot : n[s] = NoCall \/ IsCall(n[s])

(* Types of all state. *)
TypeOK ==
  /\ entries \in [Id -> TimeEntry \cup {NoEntry, Gone}]
  /\ \A id \in Stored : NotFuture(entries[id], week)
  /\ week \in Week /\ {approval, admin, session} \subseteq BOOLEAN
  /\ elsewhere \in Nat /\ clicks \in Nat
  /\ AreCalls(net)
  /\ IsSidebar(rhs) /\ IsReport(rep)
  /\ dialog \in Dialogs \cup {NoDialog}

(* An action: its call, then the reload it waits for. *)
SidebarActions ==
  {s \in Pending : net[s].owner = "sidebar" /\ (net[s].op \in Reads => net[s].then.kind = "run")}
ReportActions ==
  {s \in Pending : net[s].owner = "report" /\ (net[s].op \in Reads => net[s].then.kind = "action")}

AtMostOne(S) == \A s, t \in S : s = t

(* The busy flag of a view is up exactly while one action of it is on its  *)
(* way, whatever reloads of other weeks or selections overlap it (run,     *)
(* runAction): a double click sends one request, and no failure leaves the *)
(* buttons disabled.                                                       *)
OneActionPerView ==
  /\ AtMostOne(SidebarActions) /\ (rhs.busy <=> SidebarActions # {})
  /\ AtMostOne(ReportActions) /\ (rep.busy <=> ReportActions # {})

(* An open dialog is busy exactly while its own write is on its way, also  *)
(* after another dialog was closed over a write that goes on               *)
(* (EntryEditModal, submit and remove).                                    *)
OneWritePerDialog ==
  LET own == {s \in Pending : net[s].owner = "dialog" /\ net[s].then.shown}
  IN AtMostOne(own) /\ (own # {} <=> dialog # NoDialog /\ dialog.busy)

(* What the dialog changes or deletes is closed in the table when the      *)
(* server gets to it, however old the list was that the dialog was opened  *)
(* from: the PUT that closes a running entry is not one the client sends   *)
(* (RHSView, WeeklyTimesheet).                                             *)
EditsTargetClosed ==
  \A s \in Pending : net[s].op \in {"update", "delete"} /\ net[s].phase = "sent" =>
    net[s].arg.id \notin Running(Me)

(* With no calls under way and nothing else touching the table, the        *)
(* sidebar shows the timer and the week as they are stored, provided the   *)
(* last reload was sent alone: what goes wrong does so by overlap only     *)
(* (refetch, run, onSaved).                                                *)
SidebarAgrees ==
  rhs.up /\ Pending = {} /\ rhs.fresh /\ elsewhere = 0 =>
    rhs.current = Rows(Running(Me)) /\ rhs.list = Rows(Listed(Me, {VisibleWeek}))

(* The same of the report, where reloads of one selection after another    *)
(* may overlap: the signals see to that, and only an action's reload can   *)
(* go astray.                                                              *)
ReportAgrees ==
  rep.up /\ Racing = {} /\ rep.fresh /\ elsewhere = 0 /\ ~rep.error =>
    rep.rows = Rows(Listed(Selection(rep).user, rep.period.weeks))

(* One reload of an effect is live at most, and it asks for what is        *)
(* selected now (the signals of PersonalReport and AdminConsole).          *)
SignalIsCurrent ==
  LET live == {s \in Racing : net[s].op = "list" /\ net[s].owner = "report"
                              /\ net[s].then.kind = "effect"}
  IN AtMostOne(live) /\ \A s \in live : net[s].arg = Selection(rep)

(* Rows of another selection are not shown without a sign: the report is   *)
(* loading, or busy, or says what failed.  The exception is the reload of  *)
(* an action, which has no signal (see SelectionNarrowsRows).              *)
StaleIsAnnounced ==
  rep.up /\ rep.by # "action" /\ rep.of # Selection(rep) =>
    rep.loading \/ rep.error \/ rep.busy

(* A view that says it is loading waits for a reload that will end that:   *)
(* no cancelled or failed one leaves it so.                                *)
LoadingIsPending ==
  /\ rhs.loading => \E s \in Pending : net[s].op = "refetch" /\ net[s].owner = "sidebar"
  /\ rep.loading => \E s \in Racing : net[s].op = "list"

(* The sidebar and the personal report show the user's own rows, also      *)
(* after a change of tabs under way of a reload of the team's.             *)
PersonalIsOwn ==
  /\ \A id \in DOMAIN rhs.list : rhs.list[id].user = Me
  /\ rep.mode = "personal" => \A id \in DOMAIN rep.rows : rep.rows[id].user = Me

T == INSTANCE Timesheet WITH Instant <- Week

(* Whatever the views send and in whatever order it is executed, the table *)
(* changes by the operations of the abstract timesheet only.               *)
TableIsTimesheet == [][entries' # entries => T!Next]_entries

(* AdminConsole, of the selected user: "Selecting a user narrows BOTH the  *)
(* loaded entries and the CSV export to that user".  It is not so: the     *)
(* reload after an action has no signal and may bring the rows of the      *)
(* selection the action was for.                                           *)
SelectionNarrowsRows ==
  rep.mode = "team" /\ rep.user # Nobody /\ ~rep.loading /\ ~rep.busy /\ ~rep.error =>
    \A id \in DOMAIN rep.rows : rep.rows[id].user = rep.user
=============================================================================
