------------------------------ MODULE Sidebar ------------------------------
(***************************************************************************)
(* The timer sidebar (components/rhs/RHSView.tsx), with the rows of its    *)
(* weekly timesheet (components/WeeklyTimesheet.tsx) and its entry dialog  *)
(* (components/EntryEditModal.tsx).                                        *)
(*                                                                         *)
(* The browser runs one continuation at a time: a click, or what follows   *)
(* the await of an answer.  What a continuation reads is what the render   *)
(* it was created in had closed over: the week of a reload is the one of   *)
(* the click, whatever week is shown when it is sent.  While the dialog is *)
(* open its overlay covers the sidebar.                                    *)
(*                                                                         *)
(* Texts, suggestions and the dialog's own error line are left out; what   *)
(* its fields hold is chosen when Save is pressed.                         *)
(***************************************************************************)
EXTENDS WebServer

CONSTANT NoDialog   \* editing = null

Dialogs == [entry : Id \cup {NoEntry}, locked : BOOLEAN, busy : BOOLEAN,
            confirming : BOOLEAN]

ASSUME NoDialogAssumption == NoDialog \notin Dialogs

VARIABLES
  rhs,     \* the state of RHSView
  dialog   \* the state of EntryEditModal

(* fresh is no state of the code: the reload sent last is for the week     *)
(* shown, and nothing else was in flight when it was sent.                 *)
Unmounted ==
  [up |-> FALSE, current |-> <<>>, list |-> <<>>, base |-> 1, offset |-> 0,
   busy |-> FALSE, loading |-> FALSE, error |-> FALSE, approval |-> "off", fresh |-> FALSE]

IsSidebar(r) ==
  /\ r \in [up : BOOLEAN, current : {r.current}, list : {r.list}, base : Week,
           offset : Int, busy : BOOLEAN, loading : BOOLEAN, error : BOOLEAN,
           approval : {"asked", "on", "off"}, fresh : BOOLEAN]
  /\ AreRows(r.current) /\ AreRows(r.list) /\ r.base + r.offset \in Week

(* The week shown: weekRange of the clock when the memo was last computed, *)
(* which is when weekOffset last changed, shifted by weekOffset.           *)
VisibleWeek == rhs.base + rhs.offset

AllOf(list) == DOMAIN list  \* mutant: the running row has a button, too

Closed(list) == {id \in DOMAIN list : ~IsRunning(list[id])}

ClosedWith(status) == {id \in Closed(rhs.list) : rhs.list[id].status = status}

(* The three GETs of refetch, and what follows them: "run" when the busy   *)
(* flag waits for them.                                                    *)
Refetch(w, kind) == Sent("refetch", "sidebar", w, [kind |-> kind, week |-> w])

-----------------------------------------------------------------------------
(* Mounting, and reloading on a change of the week. *)

(* Both effects of the first render send a request. *)
OpenSidebar ==
  /\ ~rhs.up
  /\ rhs' = [up |-> TRUE, current |-> <<>>, list |-> <<>>, base |-> week, offset |-> 0,
             busy |-> FALSE, loading |-> TRUE, error |-> FALSE, approval |-> "asked",
             fresh |-> Pending = {}]
  /\ Send(Refetch(week, "effect"))
  /\ UNCHANGED <<serverVars, dialog>>

CloseSidebar ==
  /\ rhs.up
  /\ rhs' = Unmounted /\ dialog' = NoDialog
  /\ net' = Orphaned({"sidebar", "dialog"})
  /\ UNCHANGED serverVars

(* setWeekOffset: the memo of the range is computed anew and its effect    *)
(* reloads.  Only weeks the clock reaches.                                 *)
Navigate(d) ==
  /\ rhs.up /\ dialog = NoDialog
  /\ d # rhs.offset /\ (d = 0 \/ d - rhs.offset \in {1, -1})
  /\ week + d \in Week
  /\ Click
  /\ rhs' = [rhs EXCEPT !.offset = d, !.base = week, !.error = FALSE,
                        !.fresh = Pending = {}]
  /\ Send(Refetch(week + d, "effect"))
  /\ UNCHANGED <<tableVars, dialog>>

(* The config is asked for once; until it is known, and when that fails,   *)
(* the workflow is off.                                                    *)
ConfigArrives ==
  /\ rhs.approval = "asked"
  /\ rhs' = [rhs EXCEPT !.approval = Config]
  /\ UNCHANGED <<serverVars, net, dialog>>

ConfigFails ==
  /\ rhs.approval = "asked"
  /\ Happens
  /\ rhs' = [rhs EXCEPT !.approval = "off"]
  /\ UNCHANGED <<entries, week, approval, admin, clicks, net, dialog>>

(* setLoading and setBusy: both are in a finally. *)
Done(c) ==
  [rhs EXCEPT !.loading = FALSE, !.busy = IF c.then.kind = "run" THEN FALSE ELSE @]

RefetchedListOnly(c) ==  \* mutant: the hero keeps the entry it had
  IF c.phase = "error" THEN [Done(c) EXCEPT !.error = TRUE]
  ELSE [Done(c) EXCEPT !.list = c.got["list"]]

Refetched(c) ==
  IF c.phase = "error" THEN [Done(c) EXCEPT !.error = TRUE]
  ELSE [Done(c) EXCEPT !.current = c.got["current"], !.list = c.got["list"]]

RefetchArrives(s) ==
  /\ Answered(s, {"refetch"}, "sidebar")
  /\ rhs' = Refetched(net[s])
  /\ net' = Finished(s)
  /\ UNCHANGED <<serverVars, dialog>>

-----------------------------------------------------------------------------
(* The actions of the sidebar: run(action).  Their buttons are disabled    *)
(* while one of them is on.                                                *)

ClickableAlways == rhs.up /\ dialog = NoDialog  \* mutant: no busy flag

Clickable == rhs.up /\ dialog = NoDialog /\ ~rhs.busy

Run(op, arg) ==
  /\ Click
  /\ rhs' = [rhs EXCEPT !.busy = TRUE, !.error = FALSE]
  /\ Send(Sent(op, "sidebar", arg, [kind |-> "run", week |-> VisibleWeek]))
  /\ UNCHANGED <<tableVars, dialog>>

ClickStart == Clickable /\ rhs.current = <<>> /\ Run("start", <<>>)

ClickStop == Clickable /\ rhs.current # <<>> /\ Run("stop", <<>>)

(* onBreakToggle goes by the entry that is shown. *)
ClickBreak ==
  /\ Clickable
  /\ \E id \in DOMAIN rhs.current :
       Run(IF OnBreak(rhs.current[id]) THEN "breakStop" ELSE "breakStart", <<>>)

ClickSubmitWeek ==
  /\ Clickable /\ rhs.approval = "on" /\ ClosedWith(StatusOpen) # {}
  /\ Run("move", Own(OneWeek(VisibleWeek), Submit))

ClickWithdrawWeek ==
  /\ Clickable /\ rhs.approval = "on" /\ ClosedWith(StatusSubmitted) # {}
  /\ Run("move", Own(OneWeek(VisibleWeek), Withdraw))

(* The refetch of the render the button was in; an error leaves the rows   *)
(* as they are.                                                            *)
ActionArrives(s) ==
  /\ Answered(s, TimerCalls \cup {"move"}, "sidebar")
  /\ IF net[s].phase = "ok"
     THEN /\ rhs' = [rhs EXCEPT !.error = FALSE,
                       !.fresh = Pending = {s} /\ net[s].then.week = VisibleWeek]
          /\ net' = [net EXCEPT ![s] = Refetch(net[s].then.week, "run")]
     ELSE /\ rhs' = [rhs EXCEPT !.busy = FALSE, !.error = TRUE]
          /\ net' = Finished(s)
  /\ UNCHANGED <<serverVars, dialog>>

-----------------------------------------------------------------------------
(* The entry dialog.  entry is the id of an existing entry, or NoEntry;    *)
(* locked is that of the row it was opened with.                           *)

Dialog(entry, locked) ==
  [entry |-> entry, locked |-> locked, busy |-> FALSE, confirming |-> FALSE]

Show(d) ==
  /\ rhs.up /\ dialog = NoDialog
  /\ dialog' = d
  /\ UNCHANGED <<serverVars, rhs, net>>

(* Rows of today and of the week; the running one has no button. *)
SelectEntry(id) ==
  /\ id \in Closed(rhs.list)
  /\ Show(Dialog(id, rhs.list[id].status # StatusOpen))

AddEntry == Show(Dialog(NoEntry, FALSE))

Write(op, arg) ==
  /\ Click
  /\ dialog' = [dialog EXCEPT !.busy = TRUE]
  /\ Send(Sent(op, "dialog", arg, [shown |-> TRUE, week |-> VisibleWeek]))
  /\ UNCHANGED <<tableVars, rhs>>

Enabled == dialog # NoDialog /\ ~dialog.locked /\ ~dialog.busy

(* submit: the checks of the form, then PUT or POST. *)
Save(b) ==
  /\ Enabled
  /\ b.start # 0 /\ b.end # 0 /\ b.end >= b.start
  /\ IF dialog.entry = NoEntry THEN Write("create", [body |-> b])
     ELSE Write("update", [id |-> dialog.entry, body |-> b])

AskDelete(confirming) ==
  /\ Enabled /\ dialog.entry # NoEntry /\ dialog.confirming # confirming
  /\ dialog' = [dialog EXCEPT !.confirming = confirming]
  /\ UNCHANGED <<serverVars, rhs, net>>

Remove ==
  /\ Enabled /\ dialog.entry # NoEntry /\ dialog.confirming
  /\ Write("delete", [id |-> dialog.entry])

StillShown(n) == n  \* mutant: the next dialog takes the answer for its own

(* The dialog is unmounted: what it waits for goes on without it. *)
Detached(n) ==
  [s \in Slot |-> IF n[s].owner = "dialog" THEN [n[s] EXCEPT !.then.shown = FALSE]
                                           ELSE n[s]]

(* Cancel, Escape or a click beside the dialog; the last two work while it *)
(* is busy.                                                                *)
CloseDialog ==
  /\ dialog # NoDialog
  /\ dialog' = NoDialog
  /\ net' = Detached(net)
  /\ UNCHANGED <<serverVars, rhs>>

(* onSaved and onClose are those of the sidebar: a dialog that was closed  *)
(* while it waited closes the one that has been opened since.              *)
SaveArrives(s) ==
  /\ Answered(s, EntryCalls, "dialog")
  /\ IF net[s].phase = "ok"
     THEN /\ dialog' = NoDialog
          /\ rhs' = [rhs EXCEPT !.error = FALSE,
                       !.fresh = Pending = {s} /\ net[s].then.week = VisibleWeek]
          /\ net' = Detached([net EXCEPT ![s] = Refetch(net[s].then.week, "saved")])
     ELSE /\ dialog' = IF ~net[s].then.shown THEN dialog
                       ELSE [dialog EXCEPT !.busy = FALSE,
                               !.confirming = IF net[s].op = "delete" THEN FALSE ELSE @]
          /\ net' = Finished(s)
          /\ UNCHANGED rhs
  /\ UNCHANGED serverVars

-----------------------------------------------------------------------------
SidebarInit == rhs = Unmounted /\ dialog = NoDialog
=============================================================================
