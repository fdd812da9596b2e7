----------------------------- MODULE Timesheet -----------------------------
(***************************************************************************)
(* What the store promises its callers (the Store interface of             *)
(* server/store/store.go and docs/API_CONTRACT.md), without transactions,  *)
(* locks or requests: one table, changed by one atomic operation at a      *)
(* time.  TimeEntryStore is shown to implement it.                         *)
(*                                                                         *)
(* An operation is described by the row it leaves, entries'[id], so that   *)
(* times and bodies need not be enumerated.                                *)
(***************************************************************************)
EXTENDS EntryData

CONSTANTS Instant,  \* the clock values a timer operation may record
          NoEntry,  \* no row with this id yet
          Gone      \* the row was deleted

VARIABLE entries

Live(id) == entries[id] \notin {NoEntry, Gone}

Running(id) == Live(id) /\ IsRunning(entries[id])

Idle(u) == ~\E id \in Id : Running(id) /\ entries[id].user = u

(* An operation on one row leaves the others alone. *)
Only(id) == entries' = [entries EXCEPT ![id] = entries'[id]]

(* StartTimer: the user has no running entry, and gets one. *)
Start(u, id, t) ==
  /\ entries[id] = NoEntry /\ Idle(u)
  /\ entries'[id] = [user |-> u, start |-> t, end |-> 0, brk |-> 0,
                     onbrk |-> 0, status |-> StatusOpen]
  /\ Only(id)

(* StopTimer: the entry ends, and with it a break that is active. *)
Stop(id, t) ==
  /\ Running(id)
  /\ entries'[id] = SetTimer(entries[id], t, BreakTotal(entries[id], t), 0)
  /\ Only(id)

(* StartBreak and StopBreak. *)
BreakOn(id, t) ==
  /\ Running(id) /\ ~OnBreak(entries[id])
  /\ entries'[id] = SetTimer(entries[id], 0, entries[id].brk, t)
  /\ Only(id)

BreakOff(id, t) ==
  /\ Running(id) /\ OnBreak(entries[id])
  /\ entries'[id] = SetTimer(entries[id], 0, BreakTotal(entries[id], t), 0)
  /\ Only(id)

(* Create: a closed, open-status, well-formed entry. *)
Record(id) ==
  LET e == entries'[id] IN
  /\ entries[id] = NoEntry /\ Live(id)'
  /\ e \in [user : User, start : {e.start}, end : {e.end}, brk : {e.brk},
            onbrk : {e.onbrk}, status : {StatusOpen}]
  /\ ~IsRunning(e) /\ WellFormed(e)
  /\ Only(id)

(* Update: an entry that is open in status becomes closed and well formed; *)
(* owner, status and break start stay.                                     *)
Edit(id) ==
  LET e == entries'[id] IN
  /\ Live(id) /\ Live(id)' /\ entries[id].status = StatusOpen
  /\ e = SetBody(entries[id], e.start, e.end, e.brk)
  /\ ~IsRunning(e) /\ WellFormed(e)
  /\ Only(id)

(* Delete: only what is open in status. *)
Remove(id) ==
  /\ Live(id) /\ entries[id].status = StatusOpen
  /\ entries'[id] = Gone
  /\ Only(id)

(* SetStatusRange: some closed entries of one user make one move together. *)
Decide(u, m, S) ==
  /\ \A id \in S : /\ Live(id) /\ ~IsRunning(entries[id])
                   /\ entries[id].user = u /\ entries[id].status = m[1]
  /\ entries' = [id \in Id |-> IF id \in S THEN SetStatus(entries[id], m[2])
                                           ELSE entries[id]]

Init == entries = [id \in Id |-> NoEntry]

Next ==
  \/ \E id \in Id :
       \/ \E t \in Instant : \/ \E u \in User : Start(u, id, t)
                             \/ Stop(id, t) \/ BreakOn(id, t) \/ BreakOff(id, t)
       \/ Record(id) \/ Edit(id) \/ Remove(id)
  \/ \E u \in User, m \in Moves, S \in SUBSET Id : Decide(u, m, S)

Spec == Init /\ [][Next]_entries
=============================================================================
