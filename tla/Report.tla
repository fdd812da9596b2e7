------------------------------- MODULE Report -------------------------------
(***************************************************************************)
(* The full-page report (components/ClockworkApp.tsx): everybody's own     *)
(* (components/PersonalReport.tsx) and, for administrators, the one of the *)
(* team (components/admin/AdminConsole.tsx).  Both reload on a change of   *)
(* the selection, with a signal that cancels the reload before it, and     *)
(* after an action, without one.                                           *)
(*                                                                         *)
(* The status filter, the export links and all that is computed from the   *)
(* rows are left out; the sums are in Reports.                          *)
(***************************************************************************)
EXTENDS WebServer

CONSTANT Periods   \* what the date fields may be set to

ASSUME PeriodsAssumption == Periods \subseteq Period

VARIABLES
  session,  \* getIsAdmin(): captured once, by Plugin.initialize
  rep       \* the state of ClockworkApp and the report it shows

(* user is the selected user of the team report, Nobody for all.  The last *)
(* three are no state of the code: of is the selection the rows were asked *)
(* for, by the reload that brought them, and fresh says that the reload    *)
(* sent last is for the present selection and that nothing else it could   *)
(* race with was in flight.                                                *)
NoReport ==
  [up |-> FALSE, mode |-> "personal", period |-> OneWeek(1), user |-> Nobody,
   rows |-> <<>>, loading |-> FALSE, error |-> FALSE, busy |-> FALSE,
   approval |-> "off", of |-> <<>>, by |-> "none", fresh |-> FALSE]

IsReport(r) ==
  /\ r \in [up : BOOLEAN, mode : {"personal", "team"}, period : Period,
           user : User \cup {Nobody}, rows : {r.rows}, loading : BOOLEAN,
           error : BOOLEAN, busy : BOOLEAN, approval : {"asked", "on", "off"},
           of : Selections \cup {<<>>}, by : {"none", "effect", "action"},
           fresh : BOOLEAN]
  /\ AreRows(r.rows)

(* What a reload asks for: listEntries or adminEntries. *)
Selection(r) ==
  IF r.mode = "personal" THEN [user |-> Me, period |-> r.period, asAdmin |-> FALSE]
  ELSE [user |-> r.user, period |-> r.period, asAdmin |-> TRUE]

(* An effect's reload is live until its signal is cancelled; one that      *)
(* follows an action has no signal.                                        *)
Reload(sel, kind) == Sent("list", "report", sel, [kind |-> kind, cancelled |-> FALSE])

Cancelled(c) == c.op = "list" /\ c.then.cancelled

NotCancelled(n) == n  \* mutant: no cleanup

(* The cleanup of the effect cancels the signal of the reload it sent.     *)
Cancel(n) ==
  [s \in Slot |->
     IF n[s].owner = "report" /\ n[s].op = "list" /\ n[s].then.kind = "effect"
     THEN [n[s] EXCEPT !.then.cancelled = TRUE] ELSE n[s]]

(* Calls a reload may race with. *)
Racing == {s \in Pending : ~Cancelled(net[s])}

-----------------------------------------------------------------------------
(* Mounting, the tabs and the selection. *)

(* The defaults are the first of the month and today. *)
Mount(mode, n) ==
  LET r == [up |-> TRUE, mode |-> mode, period |-> [weeks |-> 1 .. week, dated |-> TRUE],
            user |-> Nobody, rows |-> <<>>, loading |-> TRUE, error |-> FALSE,
            busy |-> FALSE, approval |-> "asked", of |-> <<>>, by |-> "none",
            fresh |-> PendingIn(n) = {}]
  IN /\ rep' = r
     /\ SendAfter(n, Reload(Selection(r), "effect"))
     /\ UNCHANGED <<serverVars, session>>

OpenReport == ~rep.up /\ Mount("personal", net)

SwitchMode(mode) ==
  /\ rep.up /\ session /\ mode # rep.mode
  /\ Mount(mode, Orphaned({"report"}))

CloseReport ==
  /\ rep.up
  /\ rep' = NoReport /\ net' = Orphaned({"report"})
  /\ UNCHANGED <<serverVars, session>>

Select(r) ==
  LET n == Cancel(net) IN
  /\ rep.up
  /\ Selection(r) # Selection(rep)
  /\ Click
  /\ rep' = [r EXCEPT !.loading = TRUE, !.error = FALSE,
                      !.fresh = \A s \in Pending : Cancelled(n[s])]
  /\ SendAfter(n, Reload(Selection(r), "effect"))
  /\ UNCHANGED <<tableVars, session>>

SetPeriod(p) == Select([rep EXCEPT !.period = p])

(* A user of the rows that are shown, or all of them. *)
SelectUser(u) ==
  /\ rep.mode = "team"
  /\ u \in {rep.rows[id].user : id \in DOMAIN rep.rows} \cup {Nobody}
  /\ Select([rep EXCEPT !.user = u])

ReportConfigArrives ==
  /\ rep.approval = "asked"
  /\ rep' = [rep EXCEPT !.approval = Config]
  /\ UNCHANGED <<serverVars, net, session>>

ReportConfigFails ==
  /\ rep.approval = "asked"
  /\ Happens
  /\ rep' = [rep EXCEPT !.approval = "off"]
  /\ UNCHANGED <<entries, week, approval, admin, clicks, net, session>>

(* The end of a reload, and of the action it belongs to. *)
Ended(c) ==
  [rep EXCEPT !.loading = FALSE, !.busy = IF c.then.kind = "action" THEN FALSE ELSE @]

(* Mutants: a cancelled answer is shown; a failure is not shown; a failure *)
(* skips setLoading(false).                                                *)
HeardAnyway(c) ==
  IF c.phase = "error" THEN [Ended(c) EXCEPT !.error = TRUE]
  ELSE [Ended(c) EXCEPT !.rows = c.got, !.of = c.arg, !.by = c.then.kind]
HeardSilently(c) ==
  IF c.then.cancelled THEN rep
  ELSE IF c.phase = "error" THEN Ended(c)
  ELSE [Ended(c) EXCEPT !.rows = c.got, !.of = c.arg, !.by = c.then.kind]
HeardForever(c) ==
  IF c.then.cancelled THEN rep
  ELSE IF c.phase = "error" THEN [Ended(c) EXCEPT !.error = TRUE, !.loading = rep.loading]
  ELSE [Ended(c) EXCEPT !.rows = c.got, !.of = c.arg, !.by = c.then.kind]

(* An answer whose signal was cancelled is dropped. *)
Heard(c) ==
  IF c.then.cancelled THEN rep
  ELSE IF c.phase = "error" THEN [Ended(c) EXCEPT !.error = TRUE]
  ELSE [Ended(c) EXCEPT !.rows = c.got, !.of = c.arg, !.by = c.then.kind]

ListArrives(s) ==
  /\ Answered(s, {"list"}, "report")
  /\ rep' = Heard(net[s])
  /\ net' = Finished(s)
  /\ UNCHANGED <<serverVars, session>>

-----------------------------------------------------------------------------
(* The workflow actions: runAction. *)

RunAction(arg) ==
  /\ rep.up /\ rep.approval = "on" /\ ~rep.busy
  /\ Click
  /\ rep' = [rep EXCEPT !.busy = TRUE, !.error = FALSE]
  /\ Send(Sent("move", "report", arg, Selection(rep)))
  /\ UNCHANGED <<tableVars, session>>

RowsWith(status) == {id \in DOMAIN rep.rows : rep.rows[id].status = status}

ClickSubmit ==
  /\ rep.mode = "personal"
  /\ \E id \in RowsWith(StatusOpen) : ~IsRunning(rep.rows[id])
  /\ RunAction(Own(rep.period, Submit))

ClickWithdraw ==
  /\ rep.mode = "personal"
  /\ RowsWith(StatusSubmitted) # {}
  /\ RunAction(Own(rep.period, Withdraw))

(* onApprove, onReject and onReopen, on the selected user.  Nothing looks  *)
(* at the rows.                                                            *)
Decide(move) ==
  /\ rep.mode = "team" /\ rep.user # Nobody
  /\ RunAction(OfUser(rep.user, rep.period, move))

(* The reload of the render the button was in. *)
MoveArrives(s) ==
  /\ Answered(s, {"move"}, "report")
  /\ IF net[s].phase = "ok"
     THEN /\ rep' = [rep EXCEPT !.loading = TRUE, !.error = FALSE,
                       !.fresh = Racing = {s} /\ net[s].then = Selection(rep)]
          /\ net' = [net EXCEPT ![s] = Reload(net[s].then, "action")]
     ELSE /\ rep' = [rep EXCEPT !.busy = FALSE, !.error = TRUE]
          /\ net' = Finished(s)
  /\ UNCHANGED <<serverVars, session>>

-----------------------------------------------------------------------------
ReportInit == rep = NoReport /\ session = admin
=============================================================================
