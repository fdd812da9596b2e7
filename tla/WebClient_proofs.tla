-------------------------- MODULE WebClient_proofs --------------------------
(***************************************************************************)
(* Proofs about the data of the web client: what its calls do to the       *)
(* table, what may be edited, whose rows are shown and when they are those *)
(* that are stored.                                                        *)
(*                                                                         *)
(* What is shown is right because it was once answered so and has not      *)
(* changed since, or because the answer that will change it is still to    *)
(* come (SettledTargets, ReportOwn, SidebarFresh, ReportFresh).            *)
(***************************************************************************)
EXTENDS Views_proofs

-----------------------------------------------------------------------------
(* The table changes by the operations of the abstract timesheet.          *)

LEMMA SameTimesheet ==
  /\ \A id : T!Live(id) <=> entries[id] \notin {NoEntry, Gone}
  /\ \A e : T!IsRunning(e) <=> IsRunning(e)
  /\ \A e : T!OnBreak(e) <=> OnBreak(e)
  /\ \A e : T!WellFormed(e) <=> WellFormed(e)
  /\ \A e, t : T!BreakTotal(e, t) = BreakTotal(e, t)
  /\ \A e, a, b, c : /\ T!SetTimer(e, a, b, c) = SetTimer(e, a, b, c)
                     /\ T!SetBody(e, a, b, c) = SetBody(e, a, b, c)
  /\ \A e, s : T!SetStatus(e, s) = SetStatus(e, s)
  /\ T!StatusOpen = StatusOpen
  /\ T!Moves = Moves
BY DEF T!Live, T!IsRunning, IsRunning, T!OnBreak, OnBreak, T!WellFormed, WellFormed,
  T!BreakTotal, BreakTotal, T!Seconds, Seconds, T!SetTimer, SetTimer, T!SetBody, SetBody,
  T!SetStatus, SetStatus, T!StatusOpen, StatusOpen, T!StatusSubmitted, StatusSubmitted,
  T!StatusApproved, StatusApproved, T!Moves, Moves

(* What the operations of the timer write. *)
LEMMA SameTimerRow ==
  \A id \in Id : \A end, onbrk, t :
    /\ T!SetTimer(entries[id], end, entries[id].brk, onbrk)
         = SetTimer(entries[id], end, entries[id].brk, onbrk)
    /\ T!SetTimer(entries[id], end, T!BreakTotal(entries[id], t), onbrk)
         = SetTimer(entries[id], end, BreakTotal(entries[id], t), onbrk)
<1>1. \A e, t : T!BreakTotal(e, t) = BreakTotal(e, t)
  BY SameTimesheet
<1>2. \A e, a, b, c : T!SetTimer(e, a, b, c) = SetTimer(e, a, b, c)
  BY SameTimesheet
<1>3. QED
  BY <1>1, <1>2, Zenon

LEMMA RowChangeIsOperation ==
  ASSUME TypeOK, NEW u \in User, NEW id \in Id, NEW e, RowChange(u, id, e), Set(id, e)
  PROVE  T!Next
<1>1. /\ entries \in [Id -> TimeEntry \cup {NoEntry, Gone}] /\ week \in Week
      /\ entries'[id] = e /\ T!Only(id)
  BY DEF TypeOK, Set, T!Only
<1>2. e = Gone \/ e \in TimeEntry
  BY RowChangeType DEF TypeOK
<1>3. id \in Running(u) => T!Running(id)
  BY <1>1, StoredIsRow, SameTimesheet DEF T!Running, Running, Stored
<1>4. CASE /\ entries[id] = NoEntry /\ Running(u) = {}
           /\ e = [user |-> u, start |-> week, end |-> 0, brk |-> 0, onbrk |-> 0,
                   status |-> StatusOpen]
  <2>1. T!Idle(u)
    BY <1>1, <1>4, SameTimesheet DEF T!Idle, T!Running, Running, Stored
  <2>2. T!Start(u, id, week)
    BY <1>1, <1>4, <2>1, SameTimesheet DEF T!Start
  <2>3. QED
    BY <1>1, <2>2 DEF T!Next
<1>5. CASE id \in Running(u) /\ e = SetTimer(entries[id], week, BreakTotal(entries[id], week), 0)
  <2>1. T!Stop(id, week)
    BY <1>1, <1>3, <1>5, SameTimerRow DEF T!Stop
  <2>2. QED
    BY <1>1, <2>1 DEF T!Next
<1>6. CASE /\ id \in Running(u) /\ ~OnBreak(entries[id])
           /\ e = SetTimer(entries[id], 0, entries[id].brk, week)
  <2>1. T!BreakOn(id, week)
    BY <1>1, <1>3, <1>6, SameTimerRow, SameTimesheet DEF T!BreakOn
  <2>2. QED
    BY <1>1, <2>1 DEF T!Next
<1>7. CASE /\ id \in Running(u) /\ OnBreak(entries[id])
           /\ e = SetTimer(entries[id], 0, BreakTotal(entries[id], week), 0)
  <2>1. T!BreakOff(id, week)
    BY <1>1, <1>3, <1>7, SameTimerRow, SameTimesheet DEF T!BreakOff
  <2>2. QED
    BY <1>1, <2>1 DEF T!Next
<1>8. ASSUME entries[id] = NoEntry, NEW b \in Bodies, Valid(b), e = Manual(u, b)
      PROVE  T!Next
  <2>1. /\ e.start > 0 /\ e.brk >= 0 /\ e.end # 0
        /\ e.end >= e.start /\ e.end - e.start <= MaxEntryMillis
    BY <1>1, <1>8, ValidBody, BoundsAssumption DEF Manual, Week
  <2>2. e \in [user : User, start : {e.start}, end : {e.end}, brk : {e.brk},
               onbrk : {e.onbrk}, status : {T!StatusOpen}]
    BY <1>8, SameTimesheet DEF Manual
  <2>3. e \notin {NoEntry, Gone}
    BY <1>1, <1>8, NoRowAssumption, RowChangeType, BodiesAssumption DEF Manual, TimeEntry,
      Status, StatusOpen
  <2>4. ~T!IsRunning(e) /\ T!WellFormed(e) /\ T!Live(id)'
    BY <1>1, <2>1, <2>3, SameTimesheet DEF IsRunning, WellFormed, T!Live
  <2>5. T!Record(id)
    BY <1>1, <1>8, <2>2, <2>4 DEF T!Record
  <2>6. QED
    BY <2>5 DEF T!Next
<1>9. ASSUME Editable(u, id), NEW b \in Bodies, Valid(b),
             e = SetBody(entries[id], b.start, b.end, b.brk)
      PROVE  T!Next
  <2>1. /\ e.start > 0 /\ e.brk >= 0 /\ e.end # 0
        /\ e.end >= e.start /\ e.end - e.start <= MaxEntryMillis
        /\ e.start = b.start /\ e.end = b.end /\ e.brk = b.brk
    BY <1>1, <1>9, ValidBody, BoundsAssumption DEF SetBody, Week
  <2>2. entries[id] \in TimeEntry /\ entries[id].status = StatusOpen
        /\ entries[id] \notin {NoEntry, Gone}
    BY <1>1, <1>9, StoredIsRow DEF Editable, Stored
  <2>3. e \notin {NoEntry, Gone}
    <3>1. b.start \in Int /\ b.end \in Int /\ b.brk \in Int
      BY BodiesAssumption
    <3>2. e \in TimeEntry
      BY <1>9, <2>2, <3>1, RowTypes, OpenIsStatus
    <3>3. QED
      BY <3>2, NoRowAssumption
  <2>4. ~T!IsRunning(e) /\ T!WellFormed(e) /\ T!Live(id) /\ T!Live(id)'
    BY <1>1, <2>1, <2>2, <2>3, SameTimesheet DEF IsRunning, WellFormed, T!Live
  <2>5. e = T!SetBody(entries[id], e.start, e.end, e.brk)
    <3>1. \A x, p, q, r : T!SetBody(x, p, q, r) = SetBody(x, p, q, r)
      BY SameTimesheet
    <3>2. QED
      BY <1>9, <2>1, <3>1
  <2>6. T!Edit(id)
    BY <1>1, <2>2, <2>4, <2>5, SameTimesheet DEF T!Edit
  <2>7. QED
    BY <2>6 DEF T!Next
<1>10. CASE Editable(u, id) /\ e = Gone
  <2>1. T!Live(id) /\ entries[id].status = T!StatusOpen
    BY <1>1, <1>10, StoredIsRow, SameTimesheet DEF Editable
  <2>2. T!Remove(id)
    BY <1>1, <1>10, <2>1 DEF T!Remove
  <2>3. QED
    BY <2>2 DEF T!Next
<1>11. QED
  BY <1>4, <1>5, <1>6, <1>7, <1>8, <1>9, <1>10 DEF RowChange

LEMMA SweepIsOperation ==
  ASSUME TypeOK, NEW u \in User, NEW weeks, NEW m \in Moves, SetStatusRange(u, weeks, m)
  PROVE  T!Next
<1> DEFINE match == {id \in Stored : /\ entries[id].user = u /\ entries[id].start \in weeks
                                     /\ ~IsRunning(entries[id]) /\ entries[id].status = m[1]}
<1>1. match \in SUBSET Id
  BY DEF Stored
<1>2. entries' = [id \in Id |-> IF id \in match THEN SetStatus(entries[id], m[2])
                                                ELSE entries[id]]
  BY DEF SetStatusRange
<1>3. \A id \in match : /\ T!Live(id) /\ ~T!IsRunning(entries[id])
                        /\ entries[id].user = u /\ entries[id].status = m[1]
  BY SameTimesheet DEF Stored
<1> HIDE DEF match
<1>4. \A id \in Id : T!SetStatus(entries[id], m[2]) = SetStatus(entries[id], m[2])
  <2>1. \A x, y : T!SetStatus(x, y) = SetStatus(x, y)
    BY SameTimesheet
  <2>2. QED
    BY <2>1, Zenon
<1>5. T!Decide(u, m, match)
  BY <1>2, <1>3, <1>4 DEF T!Decide
<1>6. m \in T!Moves
  BY SameTimesheet
<1>7. QED
  BY <1>1, <1>5, <1>6 DEF T!Next

(* Whatever the views send and in whatever order it is executed, the table *)
(* changes by the operations of the abstract timesheet only.               *)
THEOREM TableTheorem == Spec => TableIsTimesheet
<1>1. ASSUME Views, [Next]_vars, entries' # entries PROVE T!Next
  <2>1. TypeOK
    BY <1>1 DEF Views
  <2>2. CASE SidebarStep \/ ReportStep
    BY <1>1, <2>2, SidebarStepKeeps, ReportStepKeeps DEF ViewStep
  <2>3. CASE OtherStep
    <3>1. PICK u \in User : TableOperation(u)
      BY <1>1, <2>1, <2>3, OtherStepKeeps
    <3>2. QED
      BY <2>1, <3>1, OperationChanges, RowChangeIsOperation, SweepIsOperation
  <2>4. QED
    BY <1>1, <2>2, <2>3, NextCases DEF vars
<1>2. Views /\ [Next]_vars => [entries' # entries => T!Next]_entries
  BY <1>1
<1>3. QED
  BY <1>2, ViewsInvariant, PTL DEF Spec, TableIsTimesheet
-----------------------------------------------------------------------------
(* What a step of the server does to a call: a write is executed, or       *)
(* refused or let in; a list or a part of a refetch is read; an answer     *)
(* nobody waits for is dropped; or, elsewhere, a call fails.               *)

IsWrite(c) == c.op \notin Reads \cup {"none"}

ListRead(c, d) ==
  /\ c.op = "list" /\ SameCall(c, d)
  /\ \/ d.phase = "error"
     \/ d.phase = "ok" /\ d.got = Rows(Listed(c.arg.user, c.arg.period.weeks))

PartRead(c, d) ==
  /\ c.op = "refetch" /\ SameCall(c, d) /\ d.phase \in {"sent", "ok"}
  /\ \E part \in {"current", "list"} :
       /\ DOMAIN d.got = DOMAIN c.got \cup {part}
       /\ \A p \in DOMAIN d.got : d.got[p] = IF p = part THEN Part(part, c.arg) ELSE c.got[p]

ServerChange(c, d) ==
  \/ IsWrite(c) /\ SameCall(c, d) /\ c.phase # "ok" /\ d.phase # "ok"
  \/ ListRead(c, d) \/ PartRead(c, d)
  \/ c.owner = "gone" /\ d = NoCall

LEMMA ServerAnswers ==
  ASSUME TypeOK, NEW s \in Slot, ServerStep(s)
  PROVE  /\ s \in Pending /\ \A t \in Slot : t # s => net'[t] = net[t]
         /\ \/ IsWrite(net[s]) /\ SameCall(net[s], net'[s]) /\ net'[s].phase = "ok"
            \/ UNCHANGED entries /\ ServerChange(net[s], net'[s])
<1>1. AreCalls(net)
  BY DEF TypeOK
<1>2. CASE Serve(s)
  <2>1. s \in Pending /\ IsWrite(net[s]) /\ net[s].phase = "sent"
    BY <1>2 DEF Serve, Waits, IsWrite, TimerCalls, EntryCalls, Reads
  <2>2. CASE Answer(s, TRUE, <<>>)
    <3>1. net' = [net EXCEPT ![s].phase = "ok", ![s].got = <<>>]
      BY <2>2 DEF Answer
    <3>2. QED
      BY <1>1, <2>1, <3>1, AnsweredCall
  <2>3. CASE Answer(s, FALSE, <<>>) /\ UNCHANGED entries
    <3>1. net' = [net EXCEPT ![s].phase = "error", ![s].got = <<>>]
      BY <2>3 DEF Answer
    <3>2. QED
      BY <1>1, <2>1, <2>3, <3>1, AnsweredCall DEF ServerChange
  <2>4. QED
    BY <1>2, <2>2, <2>3 DEF Serve
<1>3. CASE ServeList(s)
  <2> DEFINE rows == Rows(Listed(net[s].arg.user, net[s].arg.period.weeks))
  <2>1. s \in Pending /\ net[s].op = "list" /\ UNCHANGED entries
    BY <1>3 DEF ServeList, Waits, serverVars
  <2>2. CASE net' = [net EXCEPT ![s].phase = "ok", ![s].got = rows]
    BY <1>1, <2>1, <2>2, AnsweredCall DEF ServerChange, ListRead
  <2>3. CASE net' = [net EXCEPT ![s].phase = "error", ![s].got = <<>>]
    BY <1>1, <2>1, <2>3, AnsweredCall DEF ServerChange, ListRead
  <2>4. QED
    BY <1>3, <2>2, <2>3 DEF ServeList, Answer
<1>4. ASSUME NEW part \in {"current", "list"}, ServeRefetch(s, part)
      PROVE  /\ s \in Pending /\ \A t \in Slot : t # s => net'[t] = net[t]
             /\ UNCHANGED entries /\ ServerChange(net[s], net'[s])
  BY <1>4, ServeRefetchStep DEF ServerChange, PartRead, serverVars
<1>5. CASE Gate(s)
  <2>1. net[s].phase = "sent"
    BY <1>5 DEF Gate, Waits
  <2>2. QED
    BY <1>5, <2>1, GateStep DEF ServerChange, IsWrite, Reads, serverVars
<1>6. CASE Transition(s)
  <2>1. s \in Pending /\ net[s].op = "move"
    BY <1>6, TransitionStep
  <2>2. net' = [net EXCEPT ![s].phase = "ok", ![s].got = <<>>]
    BY <1>6 DEF Transition, Answer
  <2>3. QED
    BY <1>1, <2>1, <2>2, AnsweredCall DEF IsWrite, Reads
<1>7. CASE Unheard(s)
  <2>1. s \in Pending /\ net[s].owner = "gone" /\ UNCHANGED entries /\ net' = Finished(s)
    BY <1>7 DEF Unheard, serverVars
  <2>2. QED
    BY <1>1, <2>1, FinishedCalls DEF ServerChange
<1>8. QED
  BY <1>2, <1>3, <1>4, <1>5, <1>6, <1>7 DEF ServerStep

(* The rows an answer holds were there, or were read just now.             *)
LEMMA OtherAnswers ==
  ASSUME TypeOK, OtherStep, NEW s \in Slot
  PROVE  /\ net'[s].op = "list" /\ net'[s].phase = "ok" =>
              \/ net[s].op = "list" /\ net[s].phase = "ok" /\ net'[s].got = net[s].got
              \/ net'[s].got = Rows(Listed(net'[s].arg.user, net'[s].arg.period.weeks))
         /\ net'[s].op = "refetch" => \A p \in DOMAIN net'[s].got :
              \/ net[s].op = "refetch" /\ p \in DOMAIN net[s].got
                   /\ net'[s].got[p] = net[s].got[p]
              \/ net'[s].got[p] = Part(p, net'[s].arg) /\ UNCHANGED entries
<1>1. ASSUME net'[s] = net[s]
      PROVE  /\ net'[s].op = "list" /\ net'[s].phase = "ok" =>
                  net[s].op = "list" /\ net[s].phase = "ok" /\ net'[s].got = net[s].got
             /\ net'[s].op = "refetch" => \A p \in DOMAIN net'[s].got :
                  net[s].op = "refetch" /\ p \in DOMAIN net[s].got
                    /\ net'[s].got[p] = net[s].got[p]
  BY <1>1
<1>2. ASSUME ServerStep(s)
      PROVE  /\ net'[s].op = "list" /\ net'[s].phase = "ok" =>
                  net'[s].got = Rows(Listed(net'[s].arg.user, net'[s].arg.period.weeks))
             /\ net'[s].op = "refetch" => \A p \in DOMAIN net'[s].got :
                  \/ net[s].op = "refetch" /\ p \in DOMAIN net[s].got
                       /\ net'[s].got[p] = net[s].got[p]
                  \/ net'[s].got[p] = Part(p, net'[s].arg) /\ UNCHANGED entries
  BY <1>2, ServerAnswers, NoCallIsNone
    DEF ServerChange, IsWrite, ListRead, PartRead, SameCall, Reads
<1>3. ASSUME NEW t \in Slot, ServerStep(t), t # s PROVE net'[s] = net[s]
  BY <1>3, ServerAnswers
<1>4. ASSUME NEW t \in Slot, Fail(t)
      PROVE  \/ net'[s] = net[s]
             \/ net'[s].phase = "error" /\ DOMAIN net'[s].got = {}
             \/ net'[s].op \notin Reads
  BY <1>4, FailStep DEF IsLate
<1>5. CASE \E t \in Slot : ServerStep(t)
  BY <1>1, <1>2, <1>3, <1>5
<1>6. CASE Elsewhere
  BY <1>1, <1>4, <1>6 DEF Elsewhere, Reads
<1>7. QED
  BY <1>5, <1>6 DEF OtherStep

(* What the sidebar shows it showed before, or has just been answered; and *)
(* the entry of the dialog is that of the dialog before, or of a closed    *)
(* row that is shown.                                                      *)
LEMMA SidebarShows ==
  ASSUME Views, SidebarStep
  PROVE  /\ \/ rhs'.list \in {rhs.list, <<>>}
            \/ \E s \in Slot : /\ net[s].op = "refetch" /\ "list" \in DOMAIN net[s].got
                               /\ rhs'.list = net[s].got["list"]
         /\ \/ dialog' = NoDialog
            \/ dialog'.entry = NoEntry
            \/ dialog # NoDialog /\ dialog'.entry = dialog.entry
            \/ \E id \in Closed(rhs.list) : dialog'.entry = id
<1>1. TypeOK /\ SidebarFlags
  BY DEF Views
<1>2. dialog # NoDialog => dialog \in Dialogs
  BY <1>1 DEF TypeOK
<1>3. CASE OpenSidebar \/ (\E d \in Int : Navigate(d)) \/ ConfigArrives \/ ConfigFails
  <2>1. UNCHANGED dialog
    BY <1>3 DEF OpenSidebar, Navigate, ConfigArrives, ConfigFails
  <2>2. CASE OpenSidebar
    BY <2>1, <2>2 DEF OpenSidebar
  <2>3. CASE (\E d \in Int : Navigate(d)) \/ ConfigArrives \/ ConfigFails
    <3>1. rhs'.list = rhs.list
      BY <1>1, <2>3 DEF Navigate, ConfigArrives, ConfigFails, TypeOK, IsSidebar
    <3>2. QED
      BY <2>1, <3>1
  <2>4. QED
    BY <1>3, <2>2, <2>3
<1>4. CASE CloseSidebar \/ CloseDialog
  BY <1>4 DEF CloseSidebar, CloseDialog, Unmounted
<1>5. CASE SidebarButton
  <2>1. PICK op, arg : Run(op, arg)
    BY <1>1, <1>5, SidebarButtonRuns
  <2>2. QED
    BY <1>1, <2>1 DEF Run, TypeOK, IsSidebar
<1>6. CASE (\E id \in Id : SelectEntry(id)) \/ AddEntry
  BY <1>6 DEF SelectEntry, AddEntry, Show, Dialog
<1>7. CASE DialogWrite
  <2>1. PICK op, arg : Write(op, arg) /\ dialog # NoDialog
    BY <1>1, <1>7, DialogWrites
  <2>2. QED
    BY <1>2, <2>1 DEF Write, Dialogs
<1>8. CASE \E confirming \in BOOLEAN : AskDelete(confirming)
  BY <1>2, <1>8 DEF AskDelete, Enabled, Dialogs
<1>9. ASSUME NEW s \in Slot, RefetchArrives(s)
      PROVE  /\ UNCHANGED dialog
             /\ \/ rhs'.list = rhs.list
                \/ /\ net[s].op = "refetch" /\ "list" \in DOMAIN net[s].got
                   /\ rhs'.list = net[s].got["list"]
  <2>1. IsCall(net[s]) /\ net[s].op = "refetch" /\ net[s].phase \in {"ok", "error"}
    BY <1>1, <1>9, PendingIsCall DEF TypeOK, RefetchArrives, Answered, Pending
  <2>2. net[s].phase = "ok" => "list" \in DOMAIN net[s].got
    BY <2>1, CallFields DEF Carries
  <2>3. QED
    BY <1>1, <1>9, <2>1, <2>2 DEF RefetchArrives, Refetched, Done, TypeOK, IsSidebar
<1>10. ASSUME NEW s \in Slot, ActionArrives(s)
       PROVE  UNCHANGED dialog /\ rhs'.list = rhs.list
  BY <1>1, <1>10 DEF ActionArrives, TypeOK, IsSidebar
<1>11. ASSUME NEW s \in Slot, SaveArrives(s)
       PROVE  /\ rhs'.list = rhs.list
              /\ \/ dialog' = NoDialog
                 \/ dialog # NoDialog /\ dialog'.entry = dialog.entry
  <2>1. rhs'.list = rhs.list
    BY <1>1, <1>11 DEF SaveArrives, TypeOK, IsSidebar
  <2>2. net[s].then.shown => dialog # NoDialog
    BY <1>1, <1>11, SaveArrivesCall DEF SidebarFlags, IsOwnWrite
  <2>3. CASE net[s].phase = "ok"
    BY <1>11, <2>1, <2>3 DEF SaveArrives
  <2>4. CASE net[s].phase # "ok" /\ ~net[s].then.shown
    BY <1>11, <2>1, <2>4 DEF SaveArrives
  <2>5. CASE net[s].phase # "ok" /\ net[s].then.shown
    BY <1>2, <1>11, <2>1, <2>2, <2>5 DEF SaveArrives, Dialogs
  <2>6. QED
    BY <2>3, <2>4, <2>5
<1>12. CASE \E s \in Slot : RefetchArrives(s) \/ ActionArrives(s) \/ SaveArrives(s)
  BY <1>2, <1>9, <1>10, <1>11, <1>12
<1>13. QED
  BY <1>3, <1>4, <1>5, <1>6, <1>7, <1>8, <1>12 DEF SidebarStep

-----------------------------------------------------------------------------
(* What is to be changed was closed when it was chosen, and stays closed.  *)

(* No operation makes a row run that is closed, or was.                    *)
Settled(id) == entries[id] # NoEntry /\ (id \in Stored => ~IsRunning(entries[id]))

(* What the sidebar takes for closed, the entry of the dialog, and what    *)
(* is to be changed or deleted.                                            *)
SettledTargets ==
  /\ \A id \in Closed(rhs.list) : Settled(id)
  /\ \A s \in Slot : net[s].op = "refetch" /\ "list" \in DOMAIN net[s].got =>
       \A id \in Closed(net[s].got["list"]) : Settled(id)
  /\ dialog # NoDialog /\ dialog.entry # NoEntry => Settled(dialog.entry)
  /\ \A s \in Slot : net[s].op \in {"update", "delete"} => Settled(net[s].arg.id)

(* A row that is closed or gone stays so. *)
LEMMA SettledStays ==
  ASSUME TypeOK, UNCHANGED entries \/ \E u \in User : TableOperation(u),
         NEW id \in Id, Settled(id)
  PROVE  Settled(id)'
<1>1. CASE UNCHANGED entries
  BY <1>1 DEF Settled, Stored
<1>2. ASSUME NEW u \in User, NEW i \in Id, NEW e, RowChange(u, i, e), Set(i, e)
      PROVE  Settled(id)'
  <2>1. entries' = [entries EXCEPT ![i] = e] /\ entries \in [Id -> TimeEntry \cup {NoEntry, Gone}]
    BY <1>2 DEF TypeOK, Set
  <2>2. CASE i # id
    BY <2>1, <2>2 DEF Settled, Stored
  <2>3. CASE i = id
    <3>1. entries[id] # NoEntry /\ id \notin Running(u)
      BY <2>1 DEF Settled, Running, Stored
    <3>2. CASE Editable(u, id) /\ e = Gone
      BY <2>1, <2>3, <3>2, NoRowAssumption DEF Settled, Stored
    <3>3. ASSUME Editable(u, id), NEW b \in Bodies, Valid(b),
                 e = SetBody(entries[id], b.start, b.end, b.brk)
          PROVE  Settled(id)'
      <4>1. e.end # 0
        BY <3>3, ValidBody DEF TypeOK, SetBody
      <4>2. entries[id] \in TimeEntry
        BY <2>1, <3>3, StoredIsRow DEF Editable
      <4>3. e \in TimeEntry
        <5>1. b.start \in Int /\ b.end \in Int /\ b.brk \in Int
          BY BodiesAssumption
        <5>2. QED
          BY <3>3, <4>2, <5>1, RowTypes, OpenIsStatus
      <4>4. QED
        BY <2>1, <2>3, <4>1, <4>3, NoRowAssumption DEF Settled, IsRunning
    <3>4. QED
      BY <1>2, <2>3, <3>1, <3>2, <3>3 DEF RowChange
  <2>4. QED
    BY <2>2, <2>3
<1>3. ASSUME NEW u \in User, NEW weeks \in SUBSET Week, NEW m \in Moves,
             SetStatusRange(u, weeks, m)
      PROVE  Settled(id)'
  <2>1. \/ entries'[id] = entries[id]
        \/ id \in Stored /\ entries'[id] = SetStatus(entries[id], m[2])
    BY <1>3 DEF SetStatusRange
  <2>2. entries \in [Id -> TimeEntry \cup {NoEntry, Gone}] /\ m[2] \in Status
    BY DEF TypeOK, Moves, Status
  <2>3. CASE entries'[id] = entries[id]
    BY <2>3 DEF Settled, Stored
  <2>4. CASE id \in Stored /\ entries'[id] = SetStatus(entries[id], m[2])
    <3>1. entries'[id] \in TimeEntry
      BY <2>2, <2>4, StoredIsRow, RowTypes
    <3>2. entries'[id].end = entries[id].end /\ ~IsRunning(entries[id])
      BY <2>4 DEF SetStatus, Settled
    <3>3. QED
      BY <3>1, <3>2, NoRowAssumption DEF Settled, IsRunning
  <2>5. QED
    BY <2>1, <2>3, <2>4
<1>4. QED
  BY <1>1, <1>2, <1>3, OperationChanges

(* A closed row of a list that is read is settled. *)
LEMMA ReadIsSettled ==
  \A w : \A id \in Closed(Part("list", w)) : Settled(id)
BY DEF Closed, Part, Rows, Listed, Stored, Settled

LEMMA ClosedIsId ==
  ASSUME NEW list, AreRows(list) PROVE Closed(list) \subseteq Id
BY DEF AreRows, Closed

(* At the start nothing is to be changed, *)
LEMMA SettledInit == Init => SettledTargets
<1> SUFFICES ASSUME Init PROVE SettledTargets
  OBVIOUS
<1>1. rhs.list = <<>> /\ dialog = NoDialog /\ \A s \in Slot : net[s] = NoCall
  BY DEF Init, ServerInit, SidebarInit, Unmounted
<1>2. QED
  BY <1>1, NoCallIsNone DEF SettledTargets, Closed

(* and every step keeps what is to be changed settled. *)
LEMMA SettledNext == Views /\ SettledTargets /\ [Next]_vars => SettledTargets'
<1> SUFFICES ASSUME Views, SettledTargets, [Next]_vars PROVE SettledTargets'
  OBVIOUS
<1>1. TypeOK
  BY DEF Views
<1>2. ASSUME NEW s \in Slot, net[s].op = "refetch", "list" \in DOMAIN net[s].got
      PROVE  Closed(net[s].got["list"]) \subseteq Id
  <2>1. IsCall(net[s])
    BY <1>1, <1>2, PendingIsCall DEF TypeOK
  <2>2. QED
    BY <1>2, <2>1, CallFields, ClosedIsId DEF Carries
<1>3. ASSUME NEW s \in Slot, net[s].op \in {"update", "delete"} PROVE net[s].arg.id \in Id
  <2>1. IsCall(net[s])
    BY <1>1, <1>3, PendingIsCall DEF TypeOK
  <2>2. QED
    BY <1>3, <2>1, CallFields DEF Asks
<1>4. Closed(rhs.list) \subseteq Id
  BY <1>1, ClosedIsId DEF TypeOK, IsSidebar
<1>5. dialog # NoDialog /\ dialog.entry # NoEntry => dialog.entry \in Id
  BY <1>1 DEF TypeOK, Dialogs
<1>6. CASE SidebarStep
  <2>1. \A id \in Id : Settled(id) => Settled(id)'
    BY <1>1, <1>6, SidebarStepKeeps, SettledStays DEF ViewStep
  <2>2. \A id \in Closed(rhs.list)' : Settled(id)'
    <3>1. Closed(<<>>) = {}
      BY DEF Closed
    <3>2. QED
      BY <1>2, <1>4, <1>6, <2>1, <3>1, SidebarShows DEF SettledTargets
  <2>3. (dialog # NoDialog /\ dialog.entry # NoEntry => Settled(dialog.entry))'
    <3>1. ASSUME dialog' # NoDialog, dialog'.entry # NoEntry
          PROVE  \E id \in Id : id = dialog'.entry /\ Settled(id)
      BY <1>4, <1>5, <1>6, <3>1, SidebarShows DEF SettledTargets
    <3>2. QED
      BY <2>1, <3>1 DEF Settled, Stored
  <2>4. ASSUME NEW s \in Slot, net'[s].op = "refetch", "list" \in DOMAIN net'[s].got,
               NEW id \in Closed(net'[s].got["list"])
        PROVE  Settled(id)'
    <3>1. net[s].op = "refetch" /\ net'[s].got = net[s].got
      BY <1>6, <2>4, SidebarStepCalls, NoCallIsNone DEF SidebarChange, SidebarSends, SameAnswer
    <3>2. QED
      BY <1>2, <2>1, <2>4, <3>1 DEF SettledTargets
  <2>5. ASSUME NEW s \in Slot, net'[s].op \in {"update", "delete"}
        PROVE  Settled(net[s].arg.id)'
    <3>1. \/ net[s].op = net'[s].op /\ net[s].arg = net'[s].arg
          \/ dialog # NoDialog /\ dialog.entry # NoEntry /\ net'[s].arg.id = dialog.entry
      BY <1>6, <2>5, SidebarStepCalls, NoCallIsNone DEF SidebarChange, SidebarSends, SameAnswer
    <3>2. \E id \in Id : id = net'[s].arg.id /\ Settled(id)
      BY <1>3, <1>5, <2>5, <3>1 DEF SettledTargets
    <3>3. QED
      BY <2>1, <3>2 DEF Settled, Stored
  <2>6. QED
    BY <2>2, <2>3, <2>4, <2>5 DEF SettledTargets
<1>7. CASE ReportStep /\ NotSidebar
  <2>1. \A id \in Id : Settled(id) => Settled(id)'
    BY <1>1, <1>7, ReportStepKeeps, SettledStays DEF ViewStep
  <2>2. ASSUME NEW s \in Slot
        PROVE  \/ SameAnswer(net[s], net'[s])
               \/ net'[s].op \notin {"update", "delete", "refetch"}
    BY <1>7, ReportStepCalls, NoCallIsNone DEF ReportChange, ReportSends, SameAnswer
  <2>3. QED
    BY <1>2, <1>3, <1>4, <1>5, <1>7, <2>1, <2>2 DEF NotSidebar, SettledTargets, SameAnswer
<1>8. CASE OtherStep /\ NotSidebar
  <2>1. \A id \in Id : Settled(id) => Settled(id)'
    BY <1>1, <1>8, OtherStepKeeps, SettledStays
  <2>2. ASSUME NEW s \in Slot, net'[s].op = "refetch", "list" \in DOMAIN net'[s].got,
               NEW id \in Closed(net'[s].got["list"])
        PROVE  Settled(id)'
    <3>1. CASE /\ net[s].op = "refetch" /\ "list" \in DOMAIN net[s].got
               /\ net'[s].got["list"] = net[s].got["list"]
      BY <1>2, <2>1, <2>2, <3>1 DEF SettledTargets
    <3>2. CASE net'[s].got["list"] = Part("list", net'[s].arg) /\ UNCHANGED entries
      <4>1. Settled(id)
        BY <2>2, <3>2, ReadIsSettled
      <4>2. QED
        BY <3>2, <4>1 DEF Settled, Stored
    <3>3. QED
      BY <1>1, <1>8, <2>2, <3>1, <3>2, OtherAnswers
  <2>3. ASSUME NEW s \in Slot, net'[s].op \in {"update", "delete"}
        PROVE  Settled(net[s].arg.id)'
    <3>1. \E t \in Slot : net[t].op = net'[s].op /\ net[t].arg = net'[s].arg
      BY <1>1, <1>8, <2>3, OtherStepKeeps, NoCallIsNone DEF KeepsCalls, SameCall, IsLate
    <3>2. \E id \in Id : id = net'[s].arg.id /\ Settled(id)
      BY <1>3, <2>3, <3>1 DEF SettledTargets
    <3>3. QED
      BY <2>1, <3>2 DEF Settled, Stored
  <2>4. QED
    BY <1>4, <1>5, <1>8, <2>1, <2>2, <2>3 DEF NotSidebar, SettledTargets
<1>9. CASE UNCHANGED vars
  BY <1>9 DEF vars, SettledTargets, Settled, Stored
<1>10. QED
  BY <1>6, <1>7, <1>8, <1>9, NextCases

(* What the dialog changes or deletes is closed when the server gets to    *)
(* it, however old the list was that the dialog was opened from: the PUT   *)
(* that closes a running entry is not one the client sends (RHSView,       *)
(* WeeklyTimesheet).                                                       *)
THEOREM EditsTheorem == Spec => []EditsTargetClosed
<1>1. SettledTargets => EditsTargetClosed
  BY DEF SettledTargets, EditsTargetClosed, Settled, Running, Pending, PendingIn
<1>2. Spec => []SettledTargets
  BY SettledInit, SettledNext, ViewsInvariant, PTL DEF Spec
<1>3. QED
  BY <1>1, <1>2, PTL
-----------------------------------------------------------------------------
(* Whose rows are asked for, and shown. *)

OwnRows(t) == \A id \in DOMAIN t : t[id].user = Me

(* The personal report asks for the user's rows, and so will what follows  *)
(* its actions.                                                            *)
OwnCall(c) ==
  c.owner = "report" => /\ c.op = "list" => /\ c.arg.user = Me
                                            /\ c.phase = "ok" => OwnRows(c.got)
                        /\ c.op = "move" => c.then.user = Me

ReportOwn ==
  rep.mode = "personal" => OwnRows(rep.rows) /\ \A s \in Slot : OwnCall(net[s])

LEMMA ListedIsOwn ==
  /\ \A weeks : OwnRows(Rows(Listed(Me, weeks)))
  /\ \A w : OwnRows(Part("list", w))
  /\ OwnRows(<<>>) /\ OwnCall(NoCall)
BY MeAssumption, NoCallIsNone DEF OwnRows, Rows, Listed, Part, OwnCall

LEMMA ReloadIsOwn ==
  ASSUME NEW sel, NEW kind, sel.user = Me PROVE OwnCall(Reload(sel, kind))
BY ReloadFields DEF OwnCall

LEMMA MountOwn ==
  ASSUME TypeOK, NEW mode \in {"personal", "team"}, NEW n, AreCalls(n),
         \A s \in Slot : n[s].owner # "report", Mount(mode, n)
  PROVE  ReportOwn'
<1> SUFFICES ASSUME rep'.mode = "personal"
             PROVE  OwnRows(rep'.rows) /\ \A s \in Slot : OwnCall(net'[s])
  BY DEF ReportOwn, OwnCall, OwnRows
<1>1. rep'.rows = <<>> /\ SendAfter(n, Reload(Selection(rep'), "effect")) /\ IsReport(rep')
  BY MountType DEF Mount, ReportTyped
<1>2. Selection(rep').user = Me
  BY DEF Selection
<1>3. IsCall(Reload(Selection(rep'), "effect")) /\ OwnCall(Reload(Selection(rep'), "effect"))
  BY <1>1, <1>2, SelectionType, ReloadIsCall, ReloadIsOwn
<1>4. \A s \in Slot : OwnCall(n[s])
  BY DEF OwnCall
<1>5. QED
  BY <1>1, <1>3, <1>4, SendAfterCalls, ListedIsOwn

LEMMA SelectOwn ==
  ASSUME TypeOK, ReportOwn, NEW r, IsReport(r), r.mode = rep.mode, r.rows = rep.rows,
         Select(r)
  PROVE  ReportOwn'
<1> SUFFICES ASSUME rep'.mode = "personal"
             PROVE  OwnRows(rep'.rows) /\ \A s \in Slot : OwnCall(net'[s])
  BY DEF ReportOwn, OwnCall, OwnRows
<1> DEFINE n == Cancel(net)
           c == Reload(Selection(r), "effect")
<1>1. rep'.mode = r.mode /\ rep'.rows = r.rows /\ SendAfter(n, c)
  BY DEF Select, IsReport
<1>2. Selection(r).user = Me
  BY <1>1 DEF Selection
<1>3. IsCall(c) /\ OwnCall(c)
  BY <1>2, SelectionType, ReloadIsCall, ReloadIsOwn
<1>4. AreCalls(n) /\ \A s \in Slot : OwnCall(n[s])
  <2>1. \A s \in Slot : OwnCall(net[s])
    BY <1>1 DEF ReportOwn
  <2>2. QED
    BY <2>1, CancelledCalls DEF TypeOK, OwnCall
<1> HIDE DEF n, c
<1>5. QED
  BY <1>1, <1>3, <1>4, SendAfterCalls DEF ReportOwn

(* The steps of the report keep its personal rows the user's own. *)
LEMMA ReportOwnStep == ASSUME Views, ReportOwn, ReportStep PROVE ReportOwn'
<1>1. TypeOK /\ ReportFlags /\ AreCalls(net) /\ IsReport(rep)
  BY DEF Views, TypeOK
<1>2. CASE OpenReport
  BY <1>1, <1>2, MountOwn DEF OpenReport, ReportFlags
<1>3. CASE CloseReport
  BY <1>1, <1>3, OrphanedCalls, ListedIsOwn DEF CloseReport, NoReport, ReportOwn, OwnCall
<1>4. ASSUME NEW mode \in {"personal", "team"}, SwitchMode(mode) PROVE ReportOwn'
  <2>1. /\ AreCalls(Orphaned({"report"}))
        /\ \A s \in Slot : Orphaned({"report"})[s].owner # "report"
    BY <1>1, OrphanedCalls
  <2>2. QED
    BY <1>1, <1>4, <2>1, MountOwn DEF SwitchMode
<1>5. ASSUME NEW p \in Periods, SetPeriod(p) PROVE ReportOwn'
  <2> DEFINE r == [rep EXCEPT !.period = p]
  <2>1. IsReport(r) /\ r.mode = rep.mode /\ r.rows = rep.rows /\ Select(r)
    BY <1>1, <1>5, SelectedReport DEF IsReport, SetPeriod
  <2> HIDE DEF r
  <2>2. QED
    BY <1>1, <2>1, SelectOwn
<1>6. ASSUME NEW u \in User \cup {Nobody}, SelectUser(u) PROVE ReportOwn'
  <2> DEFINE r == [rep EXCEPT !.user = u]
  <2>1. IsReport(r) /\ r.mode = rep.mode /\ r.rows = rep.rows /\ Select(r)
    BY <1>1, <1>6, SelectedReport DEF IsReport, SelectUser
  <2> HIDE DEF r
  <2>2. QED
    BY <1>1, <2>1, SelectOwn
<1>7. CASE ReportButton
  <2>1. PICK arg : /\ RunAction(arg)
                   /\ arg \in [user : User, period : Period, move : Moves, asAdmin : BOOLEAN]
    BY <1>1, <1>7, ReportButtonRuns
  <2> DEFINE c == Sent("move", "report", arg, Selection(rep))
  <2>2. IsCall(c) /\ SendAfter(net, c) /\ rep'.mode = rep.mode /\ rep'.rows = rep.rows
    BY <1>1, <2>1, RunActionType DEF RunAction, Send, IsReport
  <2>3. rep.mode = "personal" => OwnCall(c)
    BY SentCall DEF OwnCall, Selection
  <2> HIDE DEF c
  <2>4. PICK s \in Slot : /\ net[s] = NoCall /\ net'[s] = c
                          /\ \A t \in Slot : t # s => net'[t] = net[t]
    BY <1>1, <2>2, SendAfterCalls
  <2>5. QED
    BY <2>2, <2>3, <2>4 DEF ReportOwn, OwnCall, OwnRows
<1>8. CASE ReportConfigArrives \/ ReportConfigFails
  <2>1. UNCHANGED net /\ rep'.mode = rep.mode /\ rep'.rows = rep.rows
    BY <1>1, <1>8 DEF ReportConfigArrives, ReportConfigFails, IsReport
  <2>2. QED
    BY <2>1 DEF ReportOwn, OwnCall, OwnRows
<1>9. ASSUME NEW s \in Slot, ListArrives(s) PROVE ReportOwn'
  <2>1. net[s].owner = "report" /\ net[s].op = "list" /\ net[s].phase \in {"ok", "error"}
    BY <1>1, <1>9, ListArrivesCall
  <2>2. net'[s] = NoCall /\ \A t \in Slot : t # s => net'[t] = net[t]
    BY <1>1, <1>9, FinishedCalls DEF ListArrives
  <2>3. /\ rep'.mode = rep.mode
        /\ rep'.rows = rep.rows \/ (net[s].phase = "ok" /\ rep'.rows = net[s].got)
    BY <1>1, <1>9, <2>1 DEF ListArrives, Heard, Ended, IsReport
  <2>4. QED
    BY <2>1, <2>2, <2>3, ListedIsOwn DEF ReportOwn, OwnCall, OwnRows
<1>10. ASSUME NEW s \in Slot, MoveArrives(s) PROVE ReportOwn'
  <2>1. net[s].owner = "report" /\ net[s].op = "move" /\ net[s].then \in Selections
    BY <1>1, <1>10, MoveArrivesCall
  <2>2. rep'.mode = rep.mode /\ rep'.rows = rep.rows
    BY <1>1, <1>10 DEF MoveArrives, IsReport
  <2>3. CASE net[s].phase = "ok"
    <3>1. /\ net'[s] = Reload(net[s].then, "action")
          /\ \A t \in Slot : t # s => net'[t] = net[t]
      BY <1>1, <1>10, <2>1, <2>3, ReloadIsCall, ReplacedCalls DEF MoveArrives
    <3>2. net[s].then.user = Me => OwnCall(net'[s])
      BY <3>1, ReloadIsOwn
    <3>3. QED
      BY <2>1, <2>2, <3>1, <3>2 DEF ReportOwn, OwnCall, OwnRows
  <2>4. CASE net[s].phase # "ok"
    <3>1. net'[s] = NoCall /\ \A t \in Slot : t # s => net'[t] = net[t]
      BY <1>1, <1>10, <2>4, FinishedCalls DEF MoveArrives
    <3>2. QED
      BY <2>2, <3>1, ListedIsOwn DEF ReportOwn, OwnCall, OwnRows
  <2>5. QED
    BY <2>3, <2>4
<1>11. QED
  BY <1>2, <1>3, <1>4, <1>5, <1>6, <1>7, <1>8, <1>9, <1>10 DEF ReportStep

SidebarOwn ==
  /\ OwnRows(rhs.list)
  /\ \A s \in Slot : net[s].op = "refetch" /\ "list" \in DOMAIN net[s].got =>
       OwnRows(net[s].got["list"])

LEMMA OwnInit == Init => SidebarOwn /\ ReportOwn
<1> SUFFICES ASSUME Init PROVE SidebarOwn /\ ReportOwn
  OBVIOUS
<1>1. rhs.list = <<>> /\ rep.rows = <<>> /\ \A s \in Slot : net[s] = NoCall
  BY DEF Init, ServerInit, SidebarInit, Unmounted, ReportInit, NoReport
<1>2. QED
  BY <1>1, NoCallIsNone, ListedIsOwn DEF SidebarOwn, ReportOwn

(* Every step keeps the rows shown the user's own. *)
LEMMA OwnNext ==
  Views /\ SidebarOwn /\ ReportOwn /\ [Next]_vars => SidebarOwn' /\ ReportOwn'
<1> SUFFICES ASSUME Views, SidebarOwn, ReportOwn, [Next]_vars
             PROVE  SidebarOwn' /\ ReportOwn'
  OBVIOUS
<1>1. TypeOK
  BY DEF Views
<1>2. CASE SidebarStep /\ NotReport
  <2>1. OwnRows(rhs.list)'
    BY <1>2, SidebarShows, ListedIsOwn DEF SidebarOwn, OwnRows
  <2>2. \A s \in Slot : net'[s].op = "refetch" /\ "list" \in DOMAIN net'[s].got =>
          net[s].op = "refetch" /\ net'[s].got = net[s].got
    BY <1>2, SidebarStepCalls, NoCallIsNone DEF SidebarChange, SidebarSends, SameAnswer
  <2>3. SidebarOwn'
    BY <2>1, <2>2 DEF SidebarOwn, OwnRows
  <2>4. ReportOwn'
    BY <1>2, SidebarStepTheirs DEF NotReport, Theirs, ReportOwn, OwnCall, OwnRows
  <2>5. QED
    BY <2>3, <2>4
<1>3. CASE ReportStep /\ NotSidebar
  <2>1. \A s \in Slot : net'[s].op = "refetch" =>
          net[s].op = "refetch" /\ net'[s].got = net[s].got
    BY <1>3, ReportStepCalls, NoCallIsNone DEF ReportChange, ReportSends, SameAnswer
  <2>2. SidebarOwn'
    BY <1>3, <2>1 DEF NotSidebar, SidebarOwn, OwnRows
  <2>3. QED
    BY <1>3, <2>2, ReportOwnStep
<1>4. CASE OtherStep /\ NotSidebar /\ NotReport
  <2>1. ASSUME NEW s \in Slot, net'[s].op = "refetch", "list" \in DOMAIN net'[s].got
        PROVE  OwnRows(net'[s].got["list"])
    BY <1>1, <1>4, <2>1, OtherAnswers, ListedIsOwn DEF SidebarOwn
  <2>2. SidebarOwn'
    BY <1>4, <2>1 DEF NotSidebar, SidebarOwn, OwnRows
  <2>3. ASSUME NEW s \in Slot, rep.mode = "personal", net'[s].owner = "report"
        PROVE  /\ net'[s].op = "list" => /\ net'[s].arg.user = Me
                                         /\ net'[s].phase = "ok" => OwnRows(net'[s].got)
               /\ net'[s].op = "move" => net'[s].then.user = Me
    <3>1. SameCall(net[s], net'[s])
      BY <1>1, <1>4, <2>3, OtherStepKeeps, NoCallIsNone DEF KeepsCalls, IsLate
    <3>2. OwnCall(net[s])
      BY <2>3 DEF ReportOwn
    <3>3. net'[s].op = "list" => net'[s].arg.user = Me
      BY <2>3, <3>1, <3>2 DEF SameCall, OwnCall
    <3>4. net'[s].op = "move" => net'[s].then.user = Me
      BY <2>3, <3>1, <3>2 DEF SameCall, OwnCall
    <3>5. ASSUME net'[s].op = "list", net'[s].phase = "ok" PROVE OwnRows(net'[s].got)
      <4>1. CASE net[s].op = "list" /\ net[s].phase = "ok" /\ net'[s].got = net[s].got
        BY <2>3, <3>1, <3>2, <4>1 DEF SameCall, OwnCall
      <4>2. CASE net'[s].got = Rows(Listed(net'[s].arg.user, net'[s].arg.period.weeks))
        <5>1. net'[s].got = Rows(Listed(Me, net'[s].arg.period.weeks))
          BY <3>3, <3>5, <4>2
        <5>2. QED
          BY <5>1, ListedIsOwn
      <4>3. QED
        BY <1>1, <1>4, <3>5, <4>1, <4>2, OtherAnswers
    <3>6. QED
      BY <3>3, <3>4, <3>5
  <2>4. ReportOwn'
    BY <1>4, <2>3 DEF NotReport, ReportOwn, OwnCall, OwnRows
  <2>5. QED
    BY <2>2, <2>4
<1>5. CASE UNCHANGED vars
  BY <1>5 DEF vars, SidebarOwn, ReportOwn, OwnCall, OwnRows
<1>6. QED
  BY <1>2, <1>3, <1>4, <1>5, NextCases

(* The sidebar and the personal report show the user's own rows, also      *)
(* after a change of tabs under way of a reload of the team's.             *)
THEOREM OwnTheorem == Spec => []PersonalIsOwn
<1>1. SidebarOwn /\ ReportOwn => PersonalIsOwn
  BY DEF SidebarOwn, ReportOwn, PersonalIsOwn, OwnRows
<1>2. Spec => [](SidebarOwn /\ ReportOwn)
  BY OwnInit, OwnNext, ViewsInvariant, PTL DEF Spec
<1>3. QED
  BY <1>1, <1>2, PTL
-----------------------------------------------------------------------------
(* What the sidebar shows once nothing is under way. *)

(* A write that has been executed and whose continuation is still to run.  *)
IsExecuted(c) == IsWrite(c) /\ c.phase = "ok"

ShownCurrent == Rows(Running(Me))
ShownList    == Rows(Listed(Me, {VisibleWeek}))

(* A reload of the week shown, of which what has been read is still so.    *)
ReadsPresent(c) ==
  /\ c.arg = VisibleWeek /\ c.phase # "error"
  /\ "current" \in DOMAIN c.got => c.got["current"] = ShownCurrent
  /\ "list" \in DOMAIN c.got => c.got["list"] = ShownList

(* After an executed write a reload will follow, before which the view may *)
(* be stale; else the one reload in flight will show what is stored, or it *)
(* is shown already.                                                       *)
FreshView ==
  \/ \E s \in Slot : IsExecuted(net[s])
  \/ /\ \A s, t \in Slot : net[s].op = "refetch" /\ net[t].op = "refetch" => s = t
     /\ \A s \in Slot : net[s].op = "refetch" => ReadsPresent(net[s])
     /\ (\A s \in Slot : net[s].op # "refetch") =>
          rhs.current = ShownCurrent /\ rhs.list = ShownList

SidebarFresh ==
  rhs.up /\ rhs.fresh /\ elsewhere = 0 =>
    /\ \A s \in Slot : net[s].owner \in {"sidebar", "dialog", "none"}
    /\ FreshView

(* Nothing a reload brings has changed, nor the week that is shown.        *)
SameShown ==
  /\ rhs'.up = rhs.up /\ rhs'.fresh = rhs.fresh
  /\ rhs'.current = rhs.current /\ rhs'.list = rhs.list /\ VisibleWeek' = VisibleWeek

SameReads(c, d) ==
  /\ d.owner \in {c.owner, "sidebar", "dialog", "none"}
  /\ IsExecuted(c) => IsExecuted(d)
  /\ d.op = "refetch" <=> c.op = "refetch"
  /\ d.op = "refetch" => d.arg = c.arg /\ d.phase = c.phase /\ d.got = c.got

(* A step that changes neither the reloads nor what they bring. *)
LEMMA FreshKept ==
  ASSUME SidebarFresh, SameShown, UNCHANGED entries, elsewhere' = 0 => elsewhere = 0,
         \A s \in Slot : SameReads(net[s], net'[s])
  PROVE  SidebarFresh'
<1> SUFFICES ASSUME rhs.up, rhs.fresh, elsewhere = 0
             PROVE  /\ \A s \in Slot : net'[s].owner \in {"sidebar", "dialog", "none"}
                    /\ FreshView'
  BY DEF SidebarFresh, SameShown
<1>1. ShownCurrent' = ShownCurrent /\ ShownList' = ShownList /\ VisibleWeek' = VisibleWeek
  BY DEF SameShown, ShownCurrent, ShownList, Rows, Running, Listed, Stored
<1>2. \A s \in Slot : net[s].op = "refetch" /\ ReadsPresent(net[s]) => ReadsPresent(net[s])'
  BY <1>1 DEF SameReads, ReadsPresent
<1>3. FreshView'
  BY <1>1, <1>2 DEF SidebarFresh, FreshView, SameReads, SameShown
<1>4. QED
  BY <1>3 DEF SidebarFresh, SameReads

(* A reload of the week shown, sent when nothing else was in flight.       *)
LEMMA FreshReload ==
  ASSUME NEW s \in Slot, NEW kind, net'[s] = Refetch(VisibleWeek', kind),
         \A t \in Slot : t # s => net'[t] = NoCall
  PROVE  SidebarFresh'
<1>1. /\ net'[s].op = "refetch" /\ net'[s].owner = "sidebar" /\ net'[s].arg = VisibleWeek'
      /\ net'[s].phase = "sent" /\ DOMAIN net'[s].got = {}
  BY RefetchFields
<1>2. ReadsPresent(net[s])'
  BY <1>1 DEF ReadsPresent
<1>3. \A t \in Slot : t # s => net'[t].op # "refetch" /\ net'[t].owner = "none"
  BY NoCallIsNone
<1>4. QED
  BY <1>1, <1>2, <1>3 DEF SidebarFresh, FreshView

(* With nothing under way every place is empty. *)
LEMMA NothingPending ==
  ASSUME TypeOK, Pending = {}, NEW s \in Slot PROVE net[s] = NoCall
BY PendingIsCall DEF TypeOK, Pending

(* Whose a reload is. *)
LEMMA RefetchOwner ==
  ASSUME TypeOK, NEW s \in Slot
  PROVE  /\ net[s].op = "refetch" => net[s].owner = "sidebar"
         /\ net[s].op = "list" => net[s].owner = "report"
         /\ net[s].owner = "none" => net[s] = NoCall
<1>1. CASE net[s] = NoCall
  BY <1>1, NoCallIsNone
<1>2. CASE IsCall(net[s])
  BY <1>2, CallFields DEF Continues, Reads, TimerCalls, EntryCalls
<1>3. QED
  BY <1>1, <1>2 DEF TypeOK, AreCalls

LEMMA SentReads ==
  ASSUME TypeOK, NEW c, IsCall(c), c.op # "refetch", c.owner \in {"sidebar", "dialog"},
         SendAfter(net, c)
  PROVE  \A s \in Slot : SameReads(net[s], net'[s])
<1>1. PICK s \in Slot : /\ net[s] = NoCall /\ net'[s] = c
                        /\ \A t \in Slot : t # s => net'[t] = net[t]
  BY SendAfterCalls DEF TypeOK
<1>2. QED
  BY <1>1, NoCallIsNone DEF SameReads, IsExecuted

LEMMA FinishedReads ==
  ASSUME TypeOK, NEW s \in Slot, net' = Finished(s), net[s].op # "refetch",
         net[s].phase # "ok"
  PROVE  \A t \in Slot : SameReads(net[t], net'[t])
BY FinishedCalls, NoCallIsNone DEF TypeOK, SameReads, IsExecuted

(* Buttons and the dialog's writes send no reload. *)
LEMMA RunsReads ==
  ASSUME TypeOK, SidebarButton \/ DialogWrite
  PROVE  SameShown /\ \A s \in Slot : SameReads(net[s], net'[s])
<1>1. CASE SidebarButton
  <2>1. PICK op, arg : Run(op, arg) /\ RunArg(op, arg)
    BY <1>1, SidebarButtonRuns
  <2> DEFINE c == Sent(op, "sidebar", arg, [kind |-> "run", week |-> VisibleWeek])
  <2>2. IsCall(c) /\ SendAfter(net, c)
    BY <2>1, RunType DEF Run, Send
  <2>3. c.owner = "sidebar" /\ c.op # "refetch"
    BY <2>1, SentCall DEF RunArg, TimerCalls
  <2> HIDE DEF c
  <2>4. SameShown
    BY <2>1 DEF Run, TypeOK, IsSidebar, SameShown, VisibleWeek
  <2>5. QED
    BY <2>2, <2>3, <2>4, SentReads
<1>2. CASE DialogWrite
  <2>1. PICK op \in EntryCalls : \E arg :
          /\ Write(op, arg)
          /\ \/ op = "create" /\ arg \in [body : Bodies]
             \/ op = "update" /\ arg \in [id : Id, body : Bodies]
             \/ op = "delete" /\ arg \in [id : Id]
    BY <1>2, DialogWrites
  <2>2. PICK arg :
          /\ Write(op, arg)
          /\ \/ op = "create" /\ arg \in [body : Bodies]
             \/ op = "update" /\ arg \in [id : Id, body : Bodies]
             \/ op = "delete" /\ arg \in [id : Id]
    BY <2>1
  <2> DEFINE c == Sent(op, "dialog", arg, [shown |-> TRUE, week |-> VisibleWeek])
  <2>3. dialog # NoDialog
    BY <1>2, DialogWrites
  <2>4. IsCall(c) /\ SendAfter(net, c)
    BY <2>2, <2>3, WriteType DEF Write, Send
  <2>5. c.owner = "dialog" /\ c.op # "refetch"
    BY SentCall DEF EntryCalls
  <2> HIDE DEF c
  <2>6. SameShown
    BY <2>2 DEF Write, SameShown, VisibleWeek
  <2>7. QED
    BY <2>4, <2>5, <2>6, SentReads
<1>3. QED
  BY <1>1, <1>2

(* The answer of a reload is shown. *)
LEMMA RefetchArrivesFresh ==
  ASSUME Views, SidebarFresh, NEW s \in Slot, RefetchArrives(s)
  PROVE  SidebarFresh'
<1>1. /\ TypeOK /\ IsCall(net[s]) /\ net[s].op = "refetch" /\ net[s].phase \in {"ok", "error"}
  BY PendingIsCall DEF Views, TypeOK, RefetchArrives, Answered, Pending
<1>2. net'[s] = NoCall /\ \A t \in Slot : t # s => net'[t] = net[t]
  BY <1>1, FinishedCalls DEF TypeOK, RefetchArrives
<1>3. /\ rhs'.up = rhs.up /\ rhs'.fresh = rhs.fresh /\ VisibleWeek' = VisibleWeek
      /\ net[s].phase = "ok" => /\ rhs'.current = net[s].got["current"]
                                /\ rhs'.list = net[s].got["list"]
  BY <1>1 DEF RefetchArrives, Refetched, Done, TypeOK, IsSidebar, VisibleWeek
<1>4. UNCHANGED <<entries, elsewhere>>
  BY DEF RefetchArrives, serverVars
<1>5. ShownCurrent' = ShownCurrent /\ ShownList' = ShownList
  BY <1>3, <1>4 DEF ShownCurrent, ShownList, Rows, Running, Listed, Stored
<1> SUFFICES ASSUME rhs.up, rhs.fresh, elsewhere = 0
             PROVE  /\ \A t \in Slot : net'[t].owner \in {"sidebar", "dialog", "none"}
                    /\ FreshView'
  BY <1>3, <1>4 DEF SidebarFresh
<1>6. \A t \in Slot : net'[t].owner \in {"sidebar", "dialog", "none"}
  BY <1>2, NoCallIsNone DEF SidebarFresh
<1>7. CASE \E t \in Slot : IsExecuted(net[t])
  <2>1. PICK t \in Slot : IsExecuted(net[t])
    BY <1>7
  <2>2. t # s
    BY <1>1, <2>1 DEF IsExecuted, IsWrite, Reads
  <2>3. QED
    BY <1>2, <1>6, <2>1, <2>2 DEF FreshView
<1>8. CASE ~\E t \in Slot : IsExecuted(net[t])
  <2>1. ReadsPresent(net[s]) /\ \A t \in Slot : t # s => net[t].op # "refetch"
    BY <1>1, <1>8 DEF SidebarFresh, FreshView
  <2>2. net[s].phase = "ok" /\ DOMAIN net[s].got = {"current", "list"}
    BY <1>1, <2>1, CallFields DEF ReadsPresent, Carries
  <2>3. rhs'.current = ShownCurrent /\ rhs'.list = ShownList
    BY <1>3, <2>1, <2>2 DEF ReadsPresent
  <2>4. \A t \in Slot : net'[t].op # "refetch"
    BY <1>2, <2>1, NoCallIsNone
  <2>5. QED
    BY <1>5, <1>6, <2>3, <2>4 DEF FreshView
<1>9. QED
  BY <1>7, <1>8

(* The answer of an action sends its reload. *)
LEMMA ActionArrivesFresh ==
  ASSUME Views, SidebarFresh, NEW s \in Slot, ActionArrives(s)
  PROVE  SidebarFresh'
<1>1. /\ TypeOK /\ net[s].op # "refetch" /\ net[s].then.week \in Week
      /\ net[s].phase \in {"ok", "error"}
  BY ActionArrivesType DEF Views, ActionArrives, Answered, TimerCalls
<1>2. UNCHANGED <<entries, elsewhere>>
  BY DEF ActionArrives, serverVars
<1>3. CASE net[s].phase = "ok"
  <2> DEFINE b == Pending = {s} /\ net[s].then.week = VisibleWeek
  <2>1. rhs' = [rhs EXCEPT !.error = FALSE, !.fresh = b]
    BY <1>3 DEF ActionArrives
  <2>2. b \in BOOLEAN
    OBVIOUS
  <2>3. /\ net'[s] = Refetch(net[s].then.week, "run")
        /\ \A t \in Slot : t # s => net'[t] = net[t]
    BY <1>1, <1>3, RefetchIsCall, ReplacedCalls DEF TypeOK, ActionArrives
  <2>4. b => \A t \in Slot : t # s => net'[t] = NoCall
    BY <1>1, <2>3, PendingIsCall DEF TypeOK, Pending
  <2>5. b => net[s].then.week = VisibleWeek
    OBVIOUS
  <2> HIDE DEF b
  <2>6. rhs'.fresh = b /\ VisibleWeek' = VisibleWeek
    BY <1>1, <2>1 DEF TypeOK, IsSidebar, VisibleWeek
  <2>7. CASE b
    BY <2>3, <2>4, <2>5, <2>6, <2>7, FreshReload
  <2>8. CASE ~b
    BY <2>6, <2>8 DEF SidebarFresh
  <2>9. QED
    BY <2>7, <2>8
<1>4. CASE net[s].phase = "error"
  <2>1. SameShown
    BY <1>1, <1>4 DEF ActionArrives, TypeOK, IsSidebar, SameShown, VisibleWeek
  <2>2. \A t \in Slot : SameReads(net[t], net'[t])
    BY <1>1, <1>4, FinishedReads DEF ActionArrives
  <2>3. QED
    BY <1>2, <2>1, <2>2, FreshKept
<1>5. QED
  BY <1>1, <1>3, <1>4

(* So does the answer of a dialog's write. *)
LEMMA SaveArrivesFresh ==
  ASSUME Views, SidebarFresh, NEW s \in Slot, SaveArrives(s)
  PROVE  SidebarFresh'
<1>1. /\ TypeOK /\ net[s].op # "refetch" /\ net[s].then.week \in Week
      /\ net[s].phase \in {"ok", "error"}
  BY SaveArrivesCall DEF Views, SaveArrives, Answered, EntryCalls
<1>2. UNCHANGED <<entries, elsewhere>>
  BY DEF SaveArrives, serverVars
<1>3. CASE net[s].phase = "ok"
  <2> DEFINE b == Pending = {s} /\ net[s].then.week = VisibleWeek
             c == Refetch(net[s].then.week, "saved")
             n == [net EXCEPT ![s] = c]
  <2>1. rhs' = [rhs EXCEPT !.error = FALSE, !.fresh = b] /\ net' = Detached(n)
    BY <1>3 DEF SaveArrives
  <2>2. b \in BOOLEAN
    OBVIOUS
  <2>3. IsCall(c) /\ c.owner = "sidebar"
    BY <1>1, RefetchIsCall, RefetchFields
  <2>4. b => \A t \in Slot : t # s => net[t] = NoCall
    BY <1>1, PendingIsCall DEF TypeOK, Pending
  <2>5. b => net[s].then.week = VisibleWeek
    OBVIOUS
  <2> HIDE DEF b, c
  <2>6. n[s] = c /\ AreCalls(n) /\ \A t \in Slot : t # s => n[t] = net[t]
    BY <1>1, <2>3 DEF TypeOK, AreCalls
  <2> HIDE DEF n
  <2>7. \A t \in Slot : n[t].owner # "dialog" => net'[t] = n[t]
    BY <2>1, <2>6, DetachedCalls
  <2>8. net'[s] = c /\ (b => \A t \in Slot : t # s => net'[t] = NoCall)
    BY <2>3, <2>4, <2>6, <2>7, NoCallIsNone
  <2>9. rhs'.fresh = b /\ VisibleWeek' = VisibleWeek
    BY <1>1, <2>1 DEF TypeOK, IsSidebar, VisibleWeek
  <2>10. CASE b
    <3>1. net'[s] = Refetch(VisibleWeek', "saved")
      BY <2>5, <2>8, <2>9, <2>10 DEF c
    <3>2. QED
      BY <2>8, <2>10, <3>1, FreshReload
  <2>11. CASE ~b
    BY <2>9, <2>11 DEF SidebarFresh
  <2>12. QED
    BY <2>10, <2>11
<1>4. CASE net[s].phase = "error"
  <2>1. SameShown
    BY <1>1, <1>4 DEF SaveArrives, SameShown, VisibleWeek
  <2>2. \A t \in Slot : SameReads(net[t], net'[t])
    BY <1>1, <1>4, FinishedReads DEF SaveArrives
  <2>3. QED
    BY <1>2, <2>1, <2>2, FreshKept
<1>5. QED
  BY <1>1, <1>3, <1>4
(* The steps of the sidebar, one by one. *)
LEMMA SidebarStepFresh == ASSUME Views, SidebarFresh, SidebarStep PROVE SidebarFresh'
<1>1. TypeOK /\ AreCalls(net) /\ IsSidebar(rhs)
  BY DEF Views, TypeOK
<1>2. UNCHANGED entries /\ (elsewhere' = 0 => elsewhere = 0)
  BY SidebarStepKeeps DEF ViewStep
<1>3. UNCHANGED net => \A s \in Slot : SameReads(net[s], net'[s])
  BY DEF SameReads
<1>4. CASE OpenSidebar
  <2>1. rhs'.fresh <=> Pending = {}
    BY <1>4 DEF OpenSidebar
  <2>2. VisibleWeek' = week
    BY <1>1, <1>4 DEF OpenSidebar, VisibleWeek, TypeOK, Week
  <2>3. PICK s \in Slot : /\ net'[s] = Refetch(week, "effect")
                          /\ \A t \in Slot : t # s => net'[t] = net[t]
    BY <1>1, <1>4, RefetchIsCall, SendAfterCalls DEF TypeOK, OpenSidebar, Send
  <2>4. CASE Pending = {}
    BY <1>1, <2>2, <2>3, <2>4, NothingPending, FreshReload
  <2>5. CASE Pending # {}
    BY <2>1, <2>5 DEF SidebarFresh
  <2>6. QED
    BY <2>4, <2>5
<1>5. CASE CloseSidebar
  BY <1>5 DEF CloseSidebar, Unmounted, SidebarFresh
<1>6. ASSUME NEW d \in Int, Navigate(d) PROVE SidebarFresh'
  <2> DEFINE b == Pending = {}
  <2>1. rhs' = [rhs EXCEPT !.offset = d, !.base = week, !.error = FALSE, !.fresh = b]
    BY <1>6 DEF Navigate
  <2>2. b \in BOOLEAN /\ (b => \A s \in Slot : net[s] = NoCall)
    BY <1>1, NothingPending
  <2> HIDE DEF b
  <2>3. rhs'.fresh = b /\ VisibleWeek' = week + d
    BY <1>1, <2>1 DEF IsSidebar, VisibleWeek
  <2>4. PICK s \in Slot : /\ net'[s] = Refetch(week + d, "effect")
                          /\ \A t \in Slot : t # s => net'[t] = net[t]
    BY <1>1, <1>6, RefetchIsCall, SendAfterCalls DEF Navigate, Send
  <2>5. CASE b
    BY <2>2, <2>3, <2>4, <2>5, FreshReload
  <2>6. CASE ~b
    BY <2>3, <2>6 DEF SidebarFresh
  <2>7. QED
    BY <2>5, <2>6
<1>7. CASE SidebarButton \/ DialogWrite
  BY <1>1, <1>2, <1>7, RunsReads, FreshKept
<1>8. CASE (\E id \in Id : SelectEntry(id)) \/ AddEntry
         \/ (\E confirming \in BOOLEAN : AskDelete(confirming))
  <2>1. UNCHANGED <<net, rhs>>
    BY <1>8 DEF SelectEntry, AddEntry, Show, AskDelete
  <2>2. SameShown
    BY <2>1 DEF SameShown, VisibleWeek
  <2>3. QED
    BY <1>2, <1>3, <2>1, <2>2, FreshKept
<1>9. CASE ConfigArrives \/ ConfigFails
  <2>1. UNCHANGED net /\ SameShown
    BY <1>1, <1>9 DEF ConfigArrives, ConfigFails, IsSidebar, SameShown, VisibleWeek
  <2>2. QED
    BY <1>2, <1>3, <2>1, FreshKept
<1>10. CASE CloseDialog
  <2>1. SameShown
    BY <1>10 DEF CloseDialog, SameShown, VisibleWeek
  <2>2. \A s \in Slot : SameReads(net[s], net'[s])
    BY <1>1, <1>10, DetachedCalls, RefetchOwner DEF CloseDialog, SameReads, IsExecuted, IsWrite
  <2>3. QED
    BY <1>2, <2>1, <2>2, FreshKept
<1>11. QED
  BY <1>4, <1>5, <1>6, <1>7, <1>8, <1>9, <1>10, RefetchArrivesFresh, ActionArrivesFresh,
    SaveArrivesFresh DEF SidebarStep

(* While one view is shown nothing is done in the other. *)
LEMMA ReportIsIdle == ASSUME Views, ReportStep, rhs.up PROVE UNCHANGED net
<1>1. ReportFlags /\ ~rep.up
  BY DEF Views
<1>2. ASSUME NEW s \in Slot, ListArrives(s) \/ MoveArrives(s) PROVE FALSE
  BY <1>1, <1>2 DEF ListArrives, MoveArrives, Answered, ReportFlags
<1>3. CASE ReportButton
  BY <1>1, <1>3 DEF ReportButton, ClickSubmit, ClickWithdraw, Decide, RunAction
<1>4. CASE (\E p \in Periods : SetPeriod(p)) \/ (\E u \in User \cup {Nobody} : SelectUser(u))
         \/ CloseReport \/ (\E mode \in {"personal", "team"} : SwitchMode(mode))
  BY <1>1, <1>4 DEF SetPeriod, SelectUser, Select, CloseReport, SwitchMode
<1>5. CASE ReportConfigArrives \/ ReportConfigFails
  BY <1>5 DEF ReportConfigArrives, ReportConfigFails
<1>6. QED
  BY <1>2, <1>3, <1>4, <1>5 DEF ReportStep

LEMMA SidebarIsIdle == ASSUME Views, SidebarStep, rep.up PROVE UNCHANGED net
<1>1. SidebarFlags /\ ~rhs.up
  BY DEF Views
<1>2. ASSUME NEW s \in Slot, RefetchArrives(s) \/ ActionArrives(s) \/ SaveArrives(s) PROVE FALSE
  BY <1>1, <1>2 DEF RefetchArrives, ActionArrives, SaveArrives, Answered, SidebarFlags
<1>3. CASE SidebarButton
  BY <1>1, <1>3 DEF SidebarButton, ClickStart, ClickStop, ClickBreak, ClickSubmitWeek,
    ClickWithdrawWeek, Clickable
<1>4. CASE DialogWrite \/ (\E confirming \in BOOLEAN : AskDelete(confirming)) \/ CloseDialog
  BY <1>1, <1>4 DEF DialogWrite, Remove, Save, AskDelete, Enabled, CloseDialog, SidebarFlags
<1>5. CASE \/ CloseSidebar \/ (\E d \in Int : Navigate(d))
           \/ (\E id \in Id : SelectEntry(id)) \/ AddEntry
  BY <1>1, <1>5 DEF CloseSidebar, Navigate, SelectEntry, AddEntry, Show
<1>6. CASE ConfigArrives \/ ConfigFails
  BY <1>6 DEF ConfigArrives, ConfigFails
<1>7. QED
  BY <1>2, <1>3, <1>4, <1>5, <1>6 DEF SidebarStep

(* The server reads for the sidebar what is stored, or executes a write.   *)
LEMMA ServerStepFresh ==
  ASSUME Views, SidebarFresh, NEW s \in Slot, ServerStep(s), UNCHANGED rhs
  PROVE  SidebarFresh'
<1>1. TypeOK /\ UNCHANGED elsewhere
  BY ServerStepKeeps DEF Views
<1>2. s \in Pending /\ \A t \in Slot : t # s => net'[t] = net[t]
  BY <1>1, ServerAnswers
<1> SUFFICES ASSUME rhs.up, rhs.fresh, elsewhere = 0
             PROVE  /\ \A t \in Slot : net'[t].owner \in {"sidebar", "dialog", "none"}
                    /\ FreshView'
  BY <1>1 DEF SidebarFresh
<1>3. \A t \in Slot : net[t].owner \in {"sidebar", "dialog", "none"}
  BY DEF SidebarFresh
<1>4. CASE IsWrite(net[s]) /\ SameCall(net[s], net'[s]) /\ net'[s].phase = "ok"
  BY <1>2, <1>3, <1>4 DEF SameCall, IsWrite, FreshView, IsExecuted
<1>5. CASE UNCHANGED entries /\ ServerChange(net[s], net'[s])
  <2>1. /\ ShownCurrent' = ShownCurrent /\ ShownList' = ShownList
        /\ VisibleWeek' = VisibleWeek
    BY <1>5 DEF ShownCurrent, ShownList, VisibleWeek, Rows, Running, Listed, Stored
  <2>2. net[s].op # "list" /\ net[s].owner # "gone"
    BY <1>1, <1>3, RefetchOwner
  <2>3. CASE IsWrite(net[s]) /\ SameCall(net[s], net'[s]) /\ net[s].phase # "ok"
    <3>1. SameReads(net[s], net'[s])
      BY <2>3 DEF SameCall, SameReads, IsWrite, IsExecuted, Reads
    <3>2. \A t \in Slot : SameReads(net[t], net'[t])
      BY <1>2, <3>1 DEF SameReads
    <3>3. SameShown
      BY <2>1 DEF SameShown
    <3>4. SidebarFresh'
      BY <1>1, <1>5, <3>2, <3>3, FreshKept
    <3>5. QED
      BY <1>1, <3>4 DEF SidebarFresh
  <2>4. CASE PartRead(net[s], net'[s])
    <3>1. SameCall(net[s], net'[s]) /\ net[s].op = "refetch" /\ ~IsExecuted(net[s])
      BY <2>4 DEF PartRead, IsExecuted, IsWrite, Reads
    <3>2. \A t \in Slot : net'[t].owner \in {"sidebar", "dialog", "none"}
      BY <1>2, <1>3, <3>1 DEF SameCall
    <3>3. CASE \E t \in Slot : IsExecuted(net[t])
      BY <1>2, <3>1, <3>2, <3>3 DEF FreshView
    <3>4. CASE ~\E t \in Slot : IsExecuted(net[t])
      <4>1. ReadsPresent(net[s]) /\ \A t \in Slot : t # s => net[t].op # "refetch"
        BY <3>1, <3>4 DEF SidebarFresh, FreshView
      <4>2. Part("current", VisibleWeek) = ShownCurrent /\ Part("list", VisibleWeek) = ShownList
        BY DEF Part, ShownCurrent, ShownList
      <4>3. ReadsPresent(net[s])'
        BY <2>1, <2>4, <4>1, <4>2 DEF PartRead, SameCall, ReadsPresent
      <4>4. QED
        BY <1>2, <3>1, <3>2, <4>1, <4>3 DEF SameCall, FreshView
    <3>5. QED
      BY <3>3, <3>4
  <2>5. QED
    BY <1>5, <2>2, <2>3, <2>4 DEF ServerChange, ListRead
<1>6. QED
  BY <1>1, <1>4, <1>5, ServerAnswers

(* What the sidebar shows stays fresh, or will be. *)
LEMMA FreshNext == Views /\ SidebarFresh /\ [Next]_vars => SidebarFresh'
<1> SUFFICES ASSUME Views, SidebarFresh, [Next]_vars PROVE SidebarFresh'
  OBVIOUS
<1>1. TypeOK
  BY DEF Views
<1>2. CASE SidebarStep
  BY <1>2, SidebarStepFresh
<1>3. CASE ReportStep /\ NotSidebar
  <2>1. UNCHANGED rhs
    BY <1>3 DEF NotSidebar
  <2>2. CASE ~rhs.up
    BY <2>1, <2>2 DEF SidebarFresh
  <2>3. CASE rhs.up
    <3>1. UNCHANGED net /\ UNCHANGED entries /\ (elsewhere' = 0 => elsewhere = 0)
      BY <1>3, <2>3, ReportIsIdle, ReportStepKeeps DEF ViewStep
    <3>2. SameShown /\ \A s \in Slot : SameReads(net[s], net'[s])
      BY <2>1, <3>1 DEF SameShown, VisibleWeek, SameReads
    <3>3. QED
      BY <3>1, <3>2, FreshKept
  <2>4. QED
    BY <2>2, <2>3
<1>4. ASSUME NEW s \in Slot, ServerStep(s), NotSidebar PROVE SidebarFresh'
  BY <1>4, ServerStepFresh DEF NotSidebar
<1>5. CASE Elsewhere
  BY <1>1, <1>5, ElsewhereKeeps DEF SidebarFresh
<1>6. CASE UNCHANGED vars
  <2>1. SameShown /\ \A s \in Slot : SameReads(net[s], net'[s])
    BY <1>6 DEF vars, SameShown, VisibleWeek, SameReads
  <2>2. QED
    BY <1>6, <2>1, FreshKept DEF vars
<1>7. QED
  BY <1>2, <1>3, <1>4, <1>5, <1>6, NextCases DEF OtherStep

(* With nothing under way and nothing else touching the table, the sidebar *)
(* shows the timer and the week as they are stored, provided the last      *)
(* reload was sent alone: what goes wrong does so by overlap only          *)
(* (refetch, run, onSaved).                                                *)
THEOREM SidebarTheorem == Spec => []SidebarAgrees
<1>1. ASSUME Views, SidebarFresh PROVE SidebarAgrees
  <2>1. Pending = {} => \A s \in Slot : net[s] = NoCall
    BY <1>1, NothingPending DEF Views
  <2>2. Pending = {} => \A s \in Slot : net[s].op # "refetch" /\ ~IsExecuted(net[s])
    BY <2>1, NoCallIsNone DEF IsExecuted, IsWrite
  <2>3. QED
    BY <1>1, <2>2 DEF SidebarFresh, FreshView, ShownCurrent, ShownList, SidebarAgrees
<1>2. Init => SidebarFresh
  BY DEF Init, SidebarInit, Unmounted, SidebarFresh
<1>3. Spec => []SidebarFresh
  BY <1>2, FreshNext, ViewsInvariant, PTL DEF Spec
<1>4. QED
  BY <1>1, <1>3, ViewsInvariant, PTL
-----------------------------------------------------------------------------
(* What the report shows once nothing it could race with is under way. *)

ShownRows == Rows(Listed(Selection(rep).user, rep.period.weeks))

(* A reload of what is selected, whose answer is still so.                 *)
RowsPresent(c) == c.arg = Selection(rep) /\ (c.phase = "ok" => c.got = ShownRows)

(* After an executed action a reload will follow, before which the report  *)
(* may be stale; else the one live reload will show what is stored, or it  *)
(* is shown already, or an error is, or an action is under way.            *)
FreshRows ==
  \/ \E s \in Slot : IsExecuted(net[s])
  \/ /\ \A s, t \in Slot : IsLiveList(net[s]) /\ IsLiveList(net[t]) => s = t
     /\ \A s \in Slot : IsLiveList(net[s]) => RowsPresent(net[s])
     /\ \/ rep.rows = ShownRows \/ rep.error
        \/ \E s \in Slot : IsLiveList(net[s]) \/ IsWrite(net[s])

ReportFresh ==
  rep.up /\ rep.fresh /\ elsewhere = 0 =>
    /\ \A s \in Slot : net[s].owner \in {"report", "none"}
    /\ FreshRows

(* Nothing a reload brings has changed, nor the selection; an error is     *)
(* forgotten when an action is begun only.                                 *)
SameRows ==
  /\ rep'.up = rep.up /\ rep'.fresh = rep.fresh /\ rep'.rows = rep.rows
  /\ Selection(rep)' = Selection(rep) /\ rep'.period = rep.period
  /\ rep.error => rep'.error \/ \E s \in Slot : IsWrite(net'[s])

SameList(c, d) ==
  /\ d.owner \in {c.owner, "report", "none"}
  /\ IsExecuted(c) => IsExecuted(d)
  /\ IsWrite(c) => IsWrite(d)
  /\ IsLiveList(d) <=> IsLiveList(c)
  /\ IsLiveList(d) => d.arg = c.arg /\ d.phase = c.phase /\ d.got = c.got

(* A step that changes neither the reloads nor what they bring. *)
LEMMA RowsKept ==
  ASSUME ReportFresh, SameRows, UNCHANGED entries, elsewhere' = 0 => elsewhere = 0,
         \A s \in Slot : SameList(net[s], net'[s])
  PROVE  ReportFresh'
<1> SUFFICES ASSUME rep.up, rep.fresh, elsewhere = 0
             PROVE  /\ \A s \in Slot : net'[s].owner \in {"report", "none"}
                    /\ FreshRows'
  BY DEF ReportFresh, SameRows
<1>1. ShownRows' = ShownRows /\ Selection(rep)' = Selection(rep)
  BY DEF SameRows, ShownRows, Rows, Listed, Stored
<1>2. \A s \in Slot : IsLiveList(net'[s]) => IsLiveList(net[s])
        /\ (RowsPresent(net[s]) => RowsPresent(net[s])')
  BY <1>1 DEF SameList, RowsPresent
<1>3. \A s \in Slot : /\ IsExecuted(net[s]) => IsExecuted(net'[s])
                      /\ IsWrite(net[s]) => IsWrite(net'[s])
                      /\ IsLiveList(net[s]) => IsLiveList(net'[s])
  BY DEF SameList
<1>4. /\ rep'.rows = rep.rows
      /\ rep.error => rep'.error \/ \E s \in Slot : IsWrite(net'[s])
  BY DEF SameRows
<1>5. FreshRows
  BY DEF ReportFresh
<1>6. FreshRows'
  BY <1>1, <1>2, <1>3, <1>4, <1>5 DEF FreshRows
<1>7. QED
  BY <1>6 DEF ReportFresh, SameList

(* A reload of the selection, sent when all others were cancelled.         *)
LEMMA RowsReload ==
  ASSUME NEW s \in Slot, NEW kind, net'[s] = Reload(Selection(rep'), kind),
         \A t \in Slot : t # s => ~IsLiveList(net'[t]) /\ net'[t].owner \in {"report", "none"}
  PROVE  ReportFresh'
<1>1. /\ IsLiveList(net'[s]) /\ net'[s].owner = "report"
      /\ net'[s].arg = Selection(rep') /\ net'[s].phase = "sent"
  BY ReloadFields
<1>2. RowsPresent(net[s])'
  BY <1>1 DEF RowsPresent
<1>3. QED
  BY <1>1, <1>2 DEF ReportFresh, FreshRows

(* A report that is mounted with nothing under way. *)
LEMMA MountFresh ==
  ASSUME TypeOK, NEW mode \in {"personal", "team"}, NEW n, AreCalls(n), Mount(mode, n)
  PROVE  ReportFresh'
<1> DEFINE c == Reload(Selection(rep'), "effect")
<1>1. IsReport(rep') /\ SendAfter(n, c) /\ (rep'.fresh <=> PendingIn(n) = {})
  BY MountType DEF Mount, ReportTyped
<1>2. IsCall(c)
  BY <1>1, SelectionType, ReloadIsCall
<1>3. PICK s \in Slot : /\ n[s] = NoCall /\ net'[s] = c
                        /\ \A t \in Slot : t # s => net'[t] = n[t]
  BY <1>1, <1>2, SendAfterCalls
<1>4. PendingIn(n) = {} => \A t \in Slot : n[t] = NoCall
  BY PendingIsCall
<1>5. CASE PendingIn(n) = {}
  BY <1>3, <1>4, <1>5, NoCallIsNone, NoCallIsNoReload, RowsReload
<1>6. CASE PendingIn(n) # {}
  BY <1>1, <1>6 DEF ReportFresh
<1>7. QED
  BY <1>5, <1>6

(* A change of the selection cancels the reload before it. *)
LEMMA SelectFresh ==
  ASSUME TypeOK, NEW r, IsReport(r), Select(r)
  PROVE  ReportFresh'
<1> DEFINE n == Cancel(net)
           c == Reload(Selection(r), "effect")
           b == \A s \in Pending : Cancelled(n[s])
<1>1. rep' = [r EXCEPT !.loading = TRUE, !.error = FALSE, !.fresh = b] /\ SendAfter(n, c)
  BY DEF Select
<1>2. b \in BOOLEAN
  OBVIOUS
<1>3. /\ AreCalls(n) /\ IsCall(c)
      /\ \A t \in Slot : n[t].op = net[t].op /\ n[t].owner = net[t].owner
  BY CancelledCalls, SelectionType, ReloadIsCall DEF TypeOK
<1>4. b => \A t \in Slot : net[t] = NoCall \/ Cancelled(n[t])
  BY PendingIsCall DEF TypeOK, Pending
<1> HIDE DEF b, n
<1>5. rep'.fresh = b /\ Selection(rep') = Selection(r)
  BY <1>1, <1>2 DEF IsReport, Selection
<1>6. PICK s \in Slot : /\ n[s] = NoCall /\ net'[s] = c
                        /\ \A t \in Slot : t # s => net'[t] = n[t]
  BY <1>1, <1>3, SendAfterCalls
<1>7. ASSUME b, NEW t \in Slot
      PROVE  ~IsLiveList(n[t]) /\ n[t].owner \in {"report", "none"}
  <2>1. CASE net[t] = NoCall
    BY <1>3, <2>1, NoCallIsNone DEF IsLiveList
  <2>2. CASE Cancelled(n[t])
    BY <1>3, <2>2, RefetchOwner DEF Cancelled, IsLiveList
  <2>3. QED
    BY <1>4, <1>7, <2>1, <2>2
<1>8. CASE b
  BY <1>5, <1>6, <1>7, <1>8, RowsReload
<1>9. CASE ~b
  BY <1>5, <1>9 DEF ReportFresh
<1>10. QED
  BY <1>8, <1>9

(* An action sends no reload yet, and hides the last error. *)
LEMMA RunActionFresh ==
  ASSUME TypeOK, ReportFresh, NEW arg, RunAction(arg),
         arg \in [user : User, period : Period, move : Moves, asAdmin : BOOLEAN]
  PROVE  ReportFresh'
<1> DEFINE c == Sent("move", "report", arg, Selection(rep))
<1>1. IsCall(c) /\ SendAfter(net, c)
  BY RunActionType DEF RunAction, Send
<1>2. c.op = "move" /\ c.owner = "report" /\ c.phase = "sent"
  BY SentCall
<1> HIDE DEF c
<1>3. PICK s \in Slot : /\ net[s] = NoCall /\ net'[s] = c
                        /\ \A t \in Slot : t # s => net'[t] = net[t]
  BY <1>1, SendAfterCalls DEF TypeOK
<1>4. IsWrite(c) /\ ~IsLiveList(c)
  BY <1>2 DEF IsWrite, Reads, IsLiveList
<1>5. \A t \in Slot : SameList(net[t], net'[t])
  BY <1>2, <1>3, <1>4, NoCallIsNone, NoCallIsNoReload DEF SameList, IsExecuted, IsWrite
<1>6. SameRows
  <2>1. /\ rep'.up = rep.up /\ rep'.fresh = rep.fresh /\ rep'.rows = rep.rows
        /\ rep'.mode = rep.mode /\ rep'.user = rep.user /\ rep'.period = rep.period
    BY DEF RunAction, TypeOK, IsReport
  <2>2. QED
    BY <1>3, <1>4, <2>1, SameSelection DEF SameRows
<1>7. UNCHANGED <<entries, elsewhere>>
  BY DEF RunAction, tableVars
<1>8. QED
  BY <1>5, <1>6, <1>7, RowsKept

(* The answer of a reload is shown, unless it was cancelled. *)
LEMMA ListArrivesFresh ==
  ASSUME Views, ReportFresh, NEW s \in Slot, ListArrives(s)
  PROVE  ReportFresh'
<1>1. /\ TypeOK /\ net[s].op = "list" /\ net[s].owner = "report"
      /\ net[s].phase \in {"ok", "error"} /\ net[s].then.cancelled \in BOOLEAN
  BY ListArrivesCall DEF Views
<1>2. net'[s] = NoCall /\ \A t \in Slot : t # s => net'[t] = net[t]
  BY <1>1, FinishedCalls DEF TypeOK, ListArrives
<1>3. UNCHANGED <<entries, elsewhere>>
  BY DEF ListArrives, serverVars
<1>4. ~IsWrite(net[s]) /\ ~IsWrite(net'[s]) /\ ~IsLiveList(net'[s]) /\ net'[s].owner = "none"
  BY <1>1, <1>2, NoCallIsNone, NoCallIsNoReload DEF IsWrite, Reads
<1>5. CASE net[s].then.cancelled
  <2>1. UNCHANGED rep /\ ~IsLiveList(net[s])
    BY <1>5 DEF ListArrives, Heard, IsLiveList
  <2>2. \A t \in Slot : SameList(net[t], net'[t])
    BY <1>2, <1>4, <2>1 DEF SameList, IsExecuted
  <2>3. SameRows
    BY <2>1 DEF SameRows, Selection
  <2>4. QED
    BY <1>3, <2>2, <2>3, RowsKept
<1>6. CASE ~net[s].then.cancelled
  <2>1. /\ rep'.up = rep.up /\ rep'.fresh = rep.fresh
        /\ rep'.mode = rep.mode /\ rep'.user = rep.user /\ rep'.period = rep.period
        /\ rep'.error \/ (net[s].phase = "ok" /\ rep'.rows = net[s].got)
    BY <1>1, <1>6 DEF ListArrives, Heard, Ended, TypeOK, IsReport
  <2>2. Selection(rep)' = Selection(rep)
    BY <2>1, SameSelection
  <2>3. ShownRows' = ShownRows
    BY <1>3, <2>1, <2>2 DEF ShownRows, Rows, Listed, Stored
  <2> SUFFICES ASSUME rep.up, rep.fresh, elsewhere = 0
               PROVE  /\ \A t \in Slot : net'[t].owner \in {"report", "none"}
                      /\ FreshRows'
    BY <1>3, <2>1 DEF ReportFresh
  <2>4. \A t \in Slot : net'[t].owner \in {"report", "none"}
    BY <1>2, <1>4 DEF ReportFresh
  <2>5. CASE \E t \in Slot : IsExecuted(net[t])
    <3>1. PICK t \in Slot : IsExecuted(net[t]) /\ t # s
      BY <1>4, <2>5 DEF IsExecuted
    <3>2. QED
      BY <1>2, <2>4, <3>1 DEF FreshRows
  <2>6. CASE ~\E t \in Slot : IsExecuted(net[t])
    <3>1. IsLiveList(net[s])
      BY <1>1, <1>6 DEF IsLiveList
    <3>2. RowsPresent(net[s]) /\ \A t \in Slot : t # s => ~IsLiveList(net[t])
      BY <2>6, <3>1 DEF ReportFresh, FreshRows
    <3>3. rep'.error \/ rep'.rows = ShownRows
      BY <2>1, <3>2 DEF RowsPresent
    <3>4. \A t \in Slot : ~IsLiveList(net'[t])
      BY <1>2, <1>4, <3>2
    <3>5. QED
      BY <2>3, <2>4, <3>3, <3>4 DEF FreshRows
  <2>7. QED
    BY <2>5, <2>6
<1>7. QED
  BY <1>1, <1>5, <1>6

(* The answer of an action sends its reload, or shows an error. *)
LEMMA MoveArrivesFresh ==
  ASSUME Views, ReportFresh, NEW s \in Slot, MoveArrives(s)
  PROVE  ReportFresh'
<1>1. /\ TypeOK /\ IsCall(net[s]) /\ net[s].op = "move" /\ net[s].owner = "report"
      /\ net[s].then \in Selections /\ net[s].phase \in {"ok", "error"}
  BY MoveArrivesCall DEF Views
<1>2. UNCHANGED <<entries, elsewhere>>
  BY DEF MoveArrives, serverVars
<1>3. CASE net[s].phase = "ok"
  <2> DEFINE b == Racing = {s} /\ net[s].then = Selection(rep)
  <2>1. rep' = [rep EXCEPT !.loading = TRUE, !.error = FALSE, !.fresh = b]
    BY <1>3 DEF MoveArrives
  <2>2. b \in BOOLEAN
    OBVIOUS
  <2>3. /\ net'[s] = Reload(net[s].then, "action")
        /\ \A t \in Slot : t # s => net'[t] = net[t]
    BY <1>1, <1>3, ReloadIsCall, ReplacedCalls DEF TypeOK, MoveArrives
  <2>4. ASSUME b, NEW t \in Slot, t # s
        PROVE  ~IsLiveList(net[t]) /\ net[t].owner \in {"report", "none"}
    <3>1. t \notin Racing
      BY <2>4
    <3>2. CASE t \notin Pending
      BY <1>1, <3>2, PendingIsCall, NoCallIsNone, NoCallIsNoReload DEF TypeOK, Pending
    <3>3. CASE Cancelled(net[t])
      BY <1>1, <3>3, RefetchOwner DEF Cancelled, IsLiveList
    <3>4. QED
      BY <3>1, <3>2, <3>3 DEF Racing
  <2>5. b => net[s].then = Selection(rep)
    OBVIOUS
  <2> HIDE DEF b
  <2>6. rep'.fresh = b /\ Selection(rep') = Selection(rep)
    BY <1>1, <2>1, <2>2 DEF TypeOK, IsReport, Selection
  <2>7. CASE b
    BY <2>3, <2>4, <2>5, <2>6, <2>7, RowsReload
  <2>8. CASE ~b
    BY <2>6, <2>8 DEF ReportFresh
  <2>9. QED
    BY <2>7, <2>8
<1>4. CASE net[s].phase = "error"
  <2>1. net'[s] = NoCall /\ \A t \in Slot : t # s => net'[t] = net[t]
    BY <1>1, <1>4, FinishedCalls DEF TypeOK, MoveArrives
  <2>2. rep' = [rep EXCEPT !.busy = FALSE, !.error = TRUE]
    BY <1>4 DEF MoveArrives
  <2>3. /\ rep'.up = rep.up /\ rep'.fresh = rep.fresh /\ rep'.error
        /\ rep'.mode = rep.mode /\ rep'.user = rep.user /\ rep'.period = rep.period
    BY <1>1, <2>2 DEF TypeOK, IsReport
  <2>4. Selection(rep)' = Selection(rep)
    BY <2>3, SameSelection
  <2>5. ShownRows' = ShownRows
    BY <1>2, <2>3, <2>4 DEF ShownRows, Rows, Listed, Stored
  <2>6. /\ ~IsExecuted(net[s]) /\ ~IsLiveList(net[s]) /\ ~IsLiveList(net'[s])
        /\ net'[s].owner = "none"
    BY <1>1, <1>4, <2>1, NoCallIsNone, NoCallIsNoReload DEF IsExecuted, IsLiveList
  <2> SUFFICES ASSUME rep.up, rep.fresh, elsewhere = 0
               PROVE  /\ \A t \in Slot : net'[t].owner \in {"report", "none"}
                      /\ FreshRows'
    BY <1>2, <2>3 DEF ReportFresh
  <2>7. FreshRows /\ \A t \in Slot : net'[t].owner \in {"report", "none"}
    BY <2>1, <2>6 DEF ReportFresh
  <2>8. \A t \in Slot : t # s /\ RowsPresent(net[t]) => RowsPresent(net[t])'
    BY <2>1, <2>4, <2>5 DEF RowsPresent
  <2>9. FreshRows'
    BY <2>1, <2>3, <2>6, <2>7, <2>8 DEF FreshRows
  <2>10. QED
    BY <2>7, <2>9
<1>5. QED
  BY <1>1, <1>3, <1>4

(* The steps of the report, one by one. *)
LEMMA ReportStepFresh == ASSUME Views, ReportFresh, ReportStep PROVE ReportFresh'
<1>1. TypeOK /\ AreCalls(net)
  BY DEF Views, TypeOK
<1>2. CASE OpenReport
  BY <1>1, <1>2, MountFresh DEF OpenReport
<1>3. CASE CloseReport
  BY <1>3 DEF CloseReport, NoReport, ReportFresh
<1>4. ASSUME NEW mode \in {"personal", "team"}, SwitchMode(mode) PROVE ReportFresh'
  BY <1>1, <1>4, ReportOrphans, MountFresh DEF SwitchMode
<1>5. CASE (\E p \in Periods : SetPeriod(p)) \/ (\E u \in User \cup {Nobody} : SelectUser(u))
  BY <1>1, <1>5, SelectedReport, SelectFresh DEF SetPeriod, SelectUser
<1>6. CASE ReportButton
  BY <1>1, <1>6, ReportButtonRuns, RunActionFresh
<1>7. CASE ReportConfigArrives \/ ReportConfigFails
  <2>1. /\ UNCHANGED net /\ rep'.up = rep.up /\ rep'.fresh = rep.fresh /\ rep'.rows = rep.rows
        /\ rep'.mode = rep.mode /\ rep'.user = rep.user /\ rep'.period = rep.period
        /\ rep'.error = rep.error
    BY <1>1, <1>7 DEF ReportConfigArrives, ReportConfigFails, TypeOK, IsReport
  <2>2. SameRows /\ \A s \in Slot : SameList(net[s], net'[s])
    BY <2>1, SameSelection DEF SameRows, SameList
  <2>3. UNCHANGED entries /\ (elsewhere' = 0 => elsewhere = 0)
    BY ReportStepKeeps DEF ViewStep
  <2>4. QED
    BY <2>2, <2>3, RowsKept
<1>8. QED
  BY <1>2, <1>3, <1>4, <1>5, <1>6, <1>7, ListArrivesFresh, MoveArrivesFresh DEF ReportStep
(* The server reads the rows that are stored, or executes an action.       *)
LEMMA ServerRowsFresh ==
  ASSUME Views, ReportFresh, NEW s \in Slot, ServerStep(s), UNCHANGED rep
  PROVE  ReportFresh'
<1>1. TypeOK /\ UNCHANGED elsewhere
  BY ServerStepKeeps DEF Views
<1>2. s \in Pending /\ \A t \in Slot : t # s => net'[t] = net[t]
  BY <1>1, ServerAnswers
<1> SUFFICES ASSUME rep.up, rep.fresh, elsewhere = 0
             PROVE  /\ \A t \in Slot : net'[t].owner \in {"report", "none"}
                    /\ FreshRows'
  BY <1>1 DEF ReportFresh
<1>3. \A t \in Slot : net[t].owner \in {"report", "none"}
  BY DEF ReportFresh
<1>4. CASE IsWrite(net[s]) /\ SameCall(net[s], net'[s]) /\ net'[s].phase = "ok"
  BY <1>2, <1>3, <1>4 DEF SameCall, IsWrite, FreshRows, IsExecuted
<1>5. CASE UNCHANGED entries /\ ServerChange(net[s], net'[s])
  <2>1. ShownRows' = ShownRows /\ Selection(rep)' = Selection(rep) /\ SameRows
    BY <1>5 DEF ShownRows, Rows, Listed, Stored, Selection, SameRows
  <2>2. net[s].op # "refetch" /\ net[s].owner # "gone"
    BY <1>1, <1>3, RefetchOwner
  <2>3. CASE SameCall(net[s], net'[s]) /\ SameList(net[s], net'[s])
    <3>1. \A t \in Slot : SameList(net[t], net'[t])
      BY <1>2, <2>3 DEF SameList
    <3>2. ReportFresh'
      BY <1>1, <1>5, <2>1, <3>1, RowsKept
    <3>3. QED
      BY <1>1, <3>2 DEF ReportFresh
  <2>4. CASE IsWrite(net[s]) /\ SameCall(net[s], net'[s]) /\ net[s].phase # "ok"
    <3>1. SameList(net[s], net'[s])
      BY <2>4 DEF SameCall, SameList, IsWrite, IsExecuted, IsLiveList, Reads
    <3>2. QED
      BY <2>3, <2>4, <3>1
  <2>5. CASE ListRead(net[s], net'[s])
    <3>1. /\ SameCall(net[s], net'[s]) /\ net[s].op = "list" /\ ~IsExecuted(net[s])
          /\ ~IsWrite(net[s])
      BY <2>5 DEF ListRead, IsExecuted, IsWrite, Reads
    <3>2. \A t \in Slot : net'[t].owner \in {"report", "none"}
      BY <1>2, <1>3, <3>1 DEF SameCall
    <3>3. CASE \E t \in Slot : IsExecuted(net[t])
      BY <1>2, <3>1, <3>2, <3>3 DEF FreshRows
    <3>4. CASE ~IsLiveList(net[s])
      <4>1. SameList(net[s], net'[s])
        BY <3>1, <3>4 DEF SameCall, SameList, IsLiveList
      <4>2. QED
        BY <2>3, <3>1, <4>1
    <3>5. CASE IsLiveList(net[s]) /\ ~\E t \in Slot : IsExecuted(net[t])
      <4>1. RowsPresent(net[s]) /\ \A t \in Slot : t # s => ~IsLiveList(net[t])
        BY <3>5 DEF ReportFresh, FreshRows
      <4>2. net'[s].arg = Selection(rep) /\ Selection(rep).period = rep.period
        BY <3>1, <4>1 DEF SameCall, RowsPresent, Selection
      <4>3. RowsPresent(net[s])' /\ IsLiveList(net'[s])
        BY <2>1, <2>5, <3>1, <3>5, <4>1, <4>2
          DEF ListRead, SameCall, RowsPresent, ShownRows, IsLiveList
      <4>4. \A t \in Slot : t # s => ~IsLiveList(net'[t])
        BY <1>2, <4>1
      <4>5. QED
        BY <3>2, <4>3, <4>4 DEF FreshRows
    <3>6. QED
      BY <3>3, <3>4, <3>5
  <2>6. QED
    BY <1>5, <2>2, <2>4, <2>5 DEF ServerChange, PartRead
<1>6. QED
  BY <1>1, <1>4, <1>5, ServerAnswers

(* What the report shows stays fresh, or will be. *)
LEMMA RowsNext == Views /\ ReportFresh /\ [Next]_vars => ReportFresh'
<1> SUFFICES ASSUME Views, ReportFresh, [Next]_vars PROVE ReportFresh'
  OBVIOUS
<1>1. TypeOK
  BY DEF Views
<1>2. CASE ReportStep
  BY <1>2, ReportStepFresh
<1>3. CASE SidebarStep /\ NotReport
  <2>1. UNCHANGED rep
    BY <1>3 DEF NotReport
  <2>2. CASE ~rep.up
    BY <2>1, <2>2 DEF ReportFresh
  <2>3. CASE rep.up
    <3>1. UNCHANGED net /\ UNCHANGED entries /\ (elsewhere' = 0 => elsewhere = 0)
      BY <1>3, <2>3, SidebarIsIdle, SidebarStepKeeps DEF ViewStep
    <3>2. SameRows /\ \A s \in Slot : SameList(net[s], net'[s])
      BY <2>1, <3>1 DEF SameRows, Selection, SameList
    <3>3. QED
      BY <3>1, <3>2, RowsKept
  <2>4. QED
    BY <2>2, <2>3
<1>4. ASSUME NEW s \in Slot, ServerStep(s), NotReport PROVE ReportFresh'
  BY <1>4, ServerRowsFresh DEF NotReport
<1>5. CASE Elsewhere
  BY <1>1, <1>5, ElsewhereKeeps DEF ReportFresh
<1>6. CASE UNCHANGED vars
  <2>1. SameRows /\ \A s \in Slot : SameList(net[s], net'[s])
    BY <1>6 DEF vars, SameRows, Selection, SameList
  <2>2. QED
    BY <1>6, <2>1, RowsKept DEF vars
<1>7. QED
  BY <1>2, <1>3, <1>4, <1>5, <1>6, NextCases DEF OtherStep

(* The same of the report, where reloads of one selection after another    *)
(* may overlap: the signals see to that, and only an action's reload can   *)
(* go astray (PersonalReport, AdminConsole).                               *)
THEOREM ReportTheorem == Spec => []ReportAgrees
<1>1. ASSUME Views, ReportFresh PROVE ReportAgrees
  <2>1. Racing = {} => \A s \in Slot : ~IsLiveList(net[s]) /\ ~IsWrite(net[s])
    BY <1>1, RacingLists DEF Views, Racing, Cancelled, Pending, PendingIn, IsWrite, Reads
  <2>2. QED
    BY <1>1, <2>1 DEF ReportFresh, FreshRows, IsExecuted, ShownRows, ReportAgrees
<1>2. Init => ReportFresh
  BY DEF Init, ReportInit, NoReport, ReportFresh
<1>3. Spec => []ReportFresh
  BY <1>2, RowsNext, ViewsInvariant, PTL DEF Spec
<1>4. QED
  BY <1>1, <1>3, ViewsInvariant, PTL
=============================================================================
