----------------------------- MODULE WebServer -----------------------------
(***************************************************************************)
(* The plugin's server as the web client meets it through                  *)
(* client/Client.ts: calls that are sent, executed and answered in any     *)
(* order, or fail.  The table changes by one atomic operation per call,    *)
(* which TimeEntryStore is proved to implement (Refinement_proofs); that   *)
(* these operations are those of Timesheet is a property of the web client *)
(* (WebClient, TableIsTimesheet).  The workflow calls are two steps: the   *)
(* handler reads the configuration and the caller's permission, then runs  *)
(* the transition.                                                         *)
(*                                                                         *)
(* Time is coarse: an instant is the number of a week, which is all the    *)
(* views compare.                                                          *)
(***************************************************************************)
EXTENDS EntryData, FiniteSets

CONSTANTS
  Me,            \* the user of the browser
  MaxWeek,       \* bound on the clock
  Bodies,        \* what the entry editor may send: [start, end, brk]
  Starts,        \* how a session may start: [table, approval, admin]
  Slot,          \* places for the calls in flight, which bound their number
  MaxEvents,     \* bound on what the user does in the views and what happens elsewhere
  MaxElsewhere,  \* bound on what happens outside this browser
  NoEntry,       \* no row with this id yet
  Gone,          \* the row was deleted
  Nobody         \* no user: the user_id of a call for all users

ASSUME MeAssumption == Me \in User /\ Nobody \notin User
ASSUME WebBoundsAssumption ==
  MaxWeek \in Nat \ {0} /\ MaxEvents \in Nat /\ MaxElsewhere \in Nat
ASSUME NoRowAssumption ==
  NoEntry \notin TimeEntry /\ Gone \notin TimeEntry /\ NoEntry # Gone
ASSUME BodiesAssumption == Bodies \subseteq [start : Int, end : Int, brk : Int]

(* No row is of the future, but for the tolerance of the validation. *)
NotFuture(e, now) ==
  e.start \in 1 .. now + FutureSkewMillis /\ e.end \in 0 .. now + FutureSkewMillis

ASSUME StartsAssumption ==
  \A start \in Starts :
    /\ start.table \in [Id -> TimeEntry \cup {NoEntry, Gone}]
    /\ start.approval \in BOOLEAN /\ start.admin \in BOOLEAN
    /\ \A id \in Id : start.table[id] \in TimeEntry => NotFuture(start.table[id], 1)

VARIABLES
  entries,    \* the table
  week,       \* the clock
  approval,   \* configuration.EnableApproval
  admin,      \* whether Me may manage the system
  elsewhere,  \* what happened outside this browser so far
  clicks,     \* what the user did so far
  net         \* Slot -> the call in flight there, or NoCall

serverVars == <<entries, week, approval, admin, elsewhere, clicks>>
tableVars  == <<entries, week, approval, admin, elsewhere>>

Week == 1 .. MaxWeek

-----------------------------------------------------------------------------
(* Calls.  owner is the component whose continuation waits for the answer, *)
(* "gone" once it has been unmounted, and then is what that continuation   *)
(* had closed over.  got is what the answer carries.                       *)

Sent(op, owner, arg, then) ==
  [op |-> op, owner |-> owner, arg |-> arg, then |-> then, phase |-> "sent", got |-> <<>>]

(* A place nothing is in flight in. *)
NoCall == Sent("none", "none", <<>>, <<>>)

PendingIn(n) == {s \in Slot : n[s].op # "none"}
Pending == PendingIn(net)

TimerCalls == {"start", "stop", "breakStart", "breakStop"}
EntryCalls == {"create", "update", "delete"}
Reads      == {"refetch", "list"}

Submit   == <<StatusOpen, StatusSubmitted>>
Withdraw == <<StatusSubmitted, StatusOpen>>
Approve  == <<StatusSubmitted, StatusApproved>>
Reject   == <<StatusSubmitted, StatusOpen>>
Reopen   == <<StatusApproved, StatusOpen>>

(* A period is the weeks between two bounds.  It is not dated when the     *)
(* lower bound was cleared: from = 0.                                      *)
Period == [weeks : SUBSET Week, dated : BOOLEAN]
OneWeek(w) == [weeks |-> {w}, dated |-> TRUE]

(* to < from: only a bound that is set can be above the other.             *)
Inverted(p) == p.weeks = {} /\ p.dated

(* What a reload of the reports asks for; user is Nobody for all users.    *)
Selections == [user : User \cup {Nobody}, period : Period, asAdmin : BOOLEAN]

(* The argument of a workflow call, of the user's own and of the admin's.  *)
Own(p, move)       == [user |-> Me, period |-> p, move |-> move, asAdmin |-> FALSE]
OfUser(u, p, move) == [user |-> u, period |-> p, move |-> move, asAdmin |-> TRUE]

(* The calls in flight are then those of n, and c. *)
SendAfter(n, c) ==
  \E s \in Slot \ PendingIn(n) : net' = [n EXCEPT ![s] = c]

Send(c) == SendAfter(net, c)

(* The answer of call s has arrived and been dealt with. *)
Finished(s) == [net EXCEPT ![s] = NoCall]

Answered(s, ops, owner) ==
  /\ s \in Pending /\ net[s].op \in ops /\ net[s].owner = owner
  /\ net[s].phase \in {"ok", "error"}

StillMounted(owners) == net  \* mutant: no cleanup on unmounting

(* A call that is still to be executed, or has been, for nobody. *)
Unowned(c) == [c EXCEPT !.owner = "gone", !.then = <<>>]

(* Views that are unmounted: what they asked for is still executed, but    *)
(* nobody hears the answers, and what a continuation still sends is reads. *)
Orphaned(owners) ==
  [s \in Slot |-> IF net[s].owner \notin owners THEN net[s]
                  ELSE IF net[s].op \in Reads THEN NoCall
                  ELSE Unowned(net[s])]

Click == clicks + elsewhere < MaxEvents /\ clicks' = clicks + 1

-----------------------------------------------------------------------------
(* The table. *)

Stored == {id \in Id : entries[id] \notin {NoEntry, Gone}}

(* Rows as an answer carries them and a view keeps them. *)
AreRows(t) == DOMAIN t \subseteq Id /\ t \in [DOMAIN t -> TimeEntry]

Rows(S) == [id \in S |-> entries[id]]

Running(u) == {id \in Stored : entries[id].user = u /\ IsRunning(entries[id])}

(* List and ListAll: a row belongs to the period it starts in. *)
Listed(u, weeks) ==
  {id \in Stored : u \in {entries[id].user, Nobody} /\ entries[id].start \in weeks}

Set(id, e) == entries' = [entries EXCEPT ![id] = e]

(* Each operation of the store is a condition under which it is refused    *)
(* and a change.                                                           *)
StartTimer(u, id) ==
  /\ Running(u) = {} /\ entries[id] = NoEntry
  /\ Set(id, [user |-> u, start |-> week, end |-> 0, brk |-> 0, onbrk |-> 0,
              status |-> StatusOpen])

StopTimer(u) ==
  \E id \in Running(u) :
    Set(id, SetTimer(entries[id], week, BreakTotal(entries[id], week), 0))

StartBreak(u) ==
  \E id \in Running(u) :
    /\ ~OnBreak(entries[id])
    /\ Set(id, SetTimer(entries[id], 0, entries[id].brk, week))

StopBreak(u) ==
  \E id \in Running(u) :
    /\ OnBreak(entries[id])
    /\ Set(id, SetTimer(entries[id], 0, BreakTotal(entries[id], week), 0))

Manual(u, b) ==
  [user |-> u, start |-> b.start, end |-> b.end, brk |-> b.brk, onbrk |-> 0,
   status |-> StatusOpen]

ValidAnything(b) == TRUE  \* mutant: no validation

(* The validation of the handlers does not look at the rest of the row.    *)
Valid(b) == b.end # 0 /\ ValidateAt(Manual(Me, b), week)

Create(u, id, b) ==
  Valid(b) /\ entries[id] = NoEntry /\ Set(id, Manual(u, b))

EditableAlways(u, id) == id \in Stored /\ entries[id].user = u  \* mutant: no lock

Editable(u, id) ==
  id \in Stored /\ entries[id].user = u /\ entries[id].status = StatusOpen

Update(u, id, b) ==
  Valid(b) /\ Editable(u, id) /\ Set(id, SetBody(entries[id], b.start, b.end, b.brk))

Delete(u, id) == Editable(u, id) /\ Set(id, Gone)

SetStatusRange(u, weeks, m) ==
  LET match == {id \in Stored : /\ entries[id].user = u /\ entries[id].start \in weeks
                                /\ ~IsRunning(entries[id]) /\ entries[id].status = m[1]}
  IN entries' = [id \in Id |-> IF id \in match THEN SetStatus(entries[id], m[2])
                                               ELSE entries[id]]

-----------------------------------------------------------------------------
(* The server executes a call. *)

Answer(s, ok, got) ==
  net' = [net EXCEPT ![s].phase = IF ok THEN "ok" ELSE "error", ![s].got = got]

Waits(s, ops) == s \in Pending /\ net[s].op \in ops /\ net[s].phase = "sent"

(* What a call does to the table if it is not refused. *)
Execute(c) ==
  \/ \E id \in Id : c.op = "start" /\ StartTimer(Me, id)
  \/ c.op = "stop" /\ StopTimer(Me)
  \/ c.op = "breakStart" /\ StartBreak(Me)
  \/ c.op = "breakStop" /\ StopBreak(Me)
  \/ \E id \in Id : c.op = "create" /\ Create(Me, id, c.arg.body)
  \/ c.op = "update" /\ Update(Me, c.arg.id, c.arg.body)
  \/ c.op = "delete" /\ Delete(Me, c.arg.id)

(* The errors of the store and of the handlers' validation.  An INSERT     *)
(* fails when the instance has no id left.                                 *)
Refused(c) ==
  \/ c.op = "start" /\ Running(Me) # {}
  \/ c.op \in {"stop", "breakStart", "breakStop"} /\ Running(Me) = {}
  \/ c.op = "breakStart" /\ \E id \in Running(Me) : OnBreak(entries[id])
  \/ c.op = "breakStop" /\ \E id \in Running(Me) : ~OnBreak(entries[id])
  \/ c.op \in {"start", "create"} /\ NoEntry \notin {entries[id] : id \in Id}
  \/ c.op \in {"create", "update"} /\ ~Valid(c.arg.body)
  \/ c.op \in {"update", "delete"} /\ ~Editable(Me, c.arg.id)

Serve(s) ==
  /\ Waits(s, TimerCalls \cup EntryCalls)
  /\ \/ Execute(net[s]) /\ Answer(s, TRUE, <<>>)
     \/ Refused(net[s]) /\ Answer(s, FALSE, <<>>) /\ UNCHANGED entries
  /\ UNCHANGED <<week, approval, admin, elsewhere, clicks>>

(* The lists of the reports.  The list of all users, or of another one, is *)
(* for administrators (handleAdminEntries).                                *)
ServeList(s) ==
  /\ Waits(s, {"list"})
  /\ LET c == net[s].arg IN
     IF (c.asAdmin => admin) /\ ~Inverted(c.period)
     THEN Answer(s, TRUE, Rows(Listed(c.user, c.period.weeks)))
     ELSE Answer(s, FALSE, <<>>)
  /\ UNCHANGED serverVars

(* The sidebar's three GETs, of which two are read here, in either order.  *)
ServeRefetch(s, part) ==
  /\ Waits(s, {"refetch"}) /\ part \notin DOMAIN net[s].got
  /\ LET c   == net[s]
         new == IF part = "current" THEN Rows(Running(Me)) ELSE Rows(Listed(Me, {c.arg}))
         got == [p \in DOMAIN c.got \cup {part} |-> IF p = part THEN new ELSE c.got[p]]
     IN net' = [net EXCEPT ![s].got = got,
                           ![s].phase = IF DOMAIN got = {"current", "list"}
                                        THEN "ok" ELSE "sent"]
  /\ UNCHANGED serverVars

(* The workflow handlers: approvalEnabled, requireAdmin and the decoding   *)
(* of the range, then the transition.                                      *)
Admits(c) ==
  approval /\ (c.asAdmin => admin) /\ c.period.dated /\ ~Inverted(c.period)

Gate(s) ==
  /\ Waits(s, {"move"})
  /\ net' = [net EXCEPT ![s].phase = IF Admits(net[s].arg) THEN "admitted" ELSE "error"]
  /\ UNCHANGED serverVars

Transition(s) ==
  /\ s \in Pending /\ net[s].phase = "admitted"
  /\ LET c == net[s].arg IN SetStatusRange(c.user, c.period.weeks, c.move)
  /\ Answer(s, TRUE, <<>>)
  /\ UNCHANGED <<week, approval, admin, elsewhere, clicks>>

(* GET /config: what a view that asks for it is told. *)
Config == IF approval THEN "on" ELSE "off"

(* An answer nobody waits for. *)
Unheard(s) ==
  /\ s \in Pending /\ net[s].owner = "gone" /\ net[s].phase \in {"ok", "error"}
  /\ net' = Finished(s)
  /\ UNCHANGED serverVars

ServerStep(s) ==
  \/ Serve(s) \/ ServeList(s)
  \/ \E part \in {"current", "list"} : ServeRefetch(s, part)
  \/ Gate(s) \/ Transition(s) \/ Unheard(s)

-----------------------------------------------------------------------------
(* Outside this browser: the slash command, another tab, other users, the  *)
(* administrator's settings, and time.                                     *)

OperationElsewhere ==
  /\ \/ \E u \in User : \/ \E id \in Id : StartTimer(u, id)
                        \/ StopTimer(u) \/ StartBreak(u) \/ StopBreak(u)
     \/ \E u \in User, id \in Id :
          \/ \E b \in Bodies : Create(u, id, b) \/ Update(u, id, b)
          \/ Delete(u, id)
     \/ approval /\ \E u \in User, m \in Moves : SetStatusRange(u, Week, m)
  /\ UNCHANGED <<week, approval, admin>>

SettingsElsewhere ==
  /\ \/ approval' = ~approval /\ UNCHANGED admin
     \/ admin' = ~admin /\ UNCHANGED approval
  /\ UNCHANGED <<entries, week>>

NewWeek ==
  /\ week < MaxWeek /\ week' = week + 1
  /\ UNCHANGED <<entries, approval, admin>>

(* fetch rejects: the call was never executed, its answer is lost, or the  *)
(* server gets to it only now, with nobody to hear of it.                  *)
Fail(s) ==
  /\ s \in Pending /\ net[s].phase \in {"sent", "admitted", "ok"}
  /\ LET failed == [net EXCEPT ![s].phase = "error", ![s].got = <<>>]
     IN \/ net' = failed
        \/ /\ net[s].op \notin Reads /\ net[s].phase # "ok"
           /\ SendAfter(failed, Unowned(net[s]))
  /\ UNCHANGED <<entries, week, approval, admin>>

Happens ==
  /\ elsewhere < MaxElsewhere /\ clicks + elsewhere < MaxEvents
  /\ elsewhere' = elsewhere + 1

Elsewhere ==
  \/ OperationElsewhere /\ Happens /\ UNCHANGED <<net, clicks>>
  \/ SettingsElsewhere /\ Happens /\ UNCHANGED <<net, clicks>>
  \/ NewWeek /\ Happens /\ UNCHANGED <<net, clicks>>
  \/ \E s \in Slot : Fail(s) /\ Happens /\ UNCHANGED clicks

ServerInit ==
  /\ \E start \in Starts :
       /\ entries = start.table /\ approval = start.approval /\ admin = start.admin
  /\ week = 1
  /\ elsewhere = 0 /\ clicks = 0
  /\ net = [s \in Slot |-> NoCall]
=============================================================================
