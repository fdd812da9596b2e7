--------------------------- MODULE TimeEntryStore ---------------------------
(***************************************************************************)
(* The entry store (server/store/sqlstore.go) under concurrent requests,   *)
(* together with the parts of the HTTP handlers and of the slash command   *)
(* that read or write it outside one store transaction                     *)
(* (server/api.go, server/command/command.go).                             *)
(*                                                                         *)
(* Every request runs in a goroutine of its own, on any node of the        *)
(* cluster, and talks to one SQL database.  A request is therefore a       *)
(* process: it is called (Arrive), executes its SQL statements one at a    *)
(* time, and answers (Finish).  What a statement sees is the committed     *)
(* table; what it writes becomes visible at the commit.  SELECT ... FOR    *)
(* UPDATE and UPDATE take row locks that are held until the transaction    *)
(* ends; a statement that waited for a lock looks at the row again when it *)
(* gets it (Postgres READ COMMITTED; InnoDB's locking reads do the same).  *)
(*                                                                         *)
(* An UPDATE or DELETE of a row the transaction has already locked and the *)
(* COMMIT after it are one action: between the two nothing is visible to   *)
(* another transaction but the lock, which was held before.                *)
(***************************************************************************)
EXTENDS EntryData, FiniteSets

CONSTANTS
  Req,       \* request slots: the number of requests in flight
  Ops,       \* the operations that are asked for, a subset of AllOps
  MaxClock,  \* bound on model.GetMillis
  Manual,    \* bodies of POST /entries: records [start, end, brk, onbrk]
  Patch,     \* bodies of PUT /entries/{id}: functions on some of PatchFields
  Range,     \* [from, to) ranges of the workflow requests: pairs
  NoEntry,   \* no row with this id yet
  Gone,      \* the row with this id was deleted
  NoReq      \* nobody holds the lock

PatchFields == {"start", "end", "brk"}

AllOps == {"start", "stop", "startBreak", "stopBreak", "toggle", "create",
           "update", "delete", "setStatus"}

ASSUME OpsAssumption == Ops \subseteq AllOps
ASSUME ClockAssumption == MaxClock \in Nat \ {0}
ASSUME ManualAssumption ==
  Manual \subseteq [start : Int, end : Int, brk : Int, onbrk : Int]
ASSUME PatchAssumption ==
  \A p \in Patch : /\ DOMAIN p \subseteq PatchFields
                   /\ \A f \in DOMAIN p : p[f] \in Int
ASSUME RangeAssumption ==
  Range \subseteq {rg \in Int \X Int : 0 < rg[1] /\ rg[1] <= rg[2]}
ASSUME NoEntryAssumption == NoEntry \notin TimeEntry /\ Gone \notin TimeEntry
ASSUME NoReqAssumption == NoReq \notin Req

VARIABLES
  entries,  \* the committed table: Id -> row, NoEntry or Gone
  locks,    \* row locks: Id -> the request whose transaction holds it
  clock,    \* model.GetMillis, one clock for all nodes
  pc,       \* Req -> the statement the request executes next
  call,     \* Req -> what was asked
  row,      \* Req -> the row the transaction read, or is about to write
  todo,     \* Req -> rows a status sweep has still to lock
  answer    \* Req -> the last answer

vars == <<entries, locks, clock, pc, call, row, todo, answer>>

-----------------------------------------------------------------------------
(* What can be asked. *)

Time == 1 .. MaxClock

TimerOps == {"stop", "startBreak", "stopBreak"}

StartCall  == [op : {"start"}, user : User, id : Id, now : Time]
TimerCall  == [op : TimerOps, user : User, id : Id \cup {NoEntry}, now : Time]
ToggleCall == [op : {"toggle"}, user : User]
CreateCall == [op : {"create"}, user : User, id : Id, body : Manual]
UpdateCall == [op : {"update"}, user : User, id : Id, patch : Patch]
DeleteCall == [op : {"delete"}, user : User, id : Id]
StatusCall == [op : {"setStatus"}, user : User, range : Range, move : Moves]

Calls == StartCall \cup TimerCall \cup ToggleCall \cup CreateCall
         \cup UpdateCall \cup DeleteCall \cup StatusCall

NoCall == [op |-> "none"]

Answers == {"none", "ok", "already_running", "not_running", "already_on_break",
            "not_on_break", "locked", "not_found", "invalid", "error"}

Locations == {"idle", "begin", "insert", "commit", "lock", "write", "sweep"}

-----------------------------------------------------------------------------
(* The table. *)

Live(id) == entries[id] \notin {NoEntry, Gone}

(* WHERE user_id = u AND end_at IS NULL *)
RunningOf(u) == {id \in Id : /\ Live(id)
                             /\ entries[id].user = u
                             /\ IsRunning(entries[id])}

(* WHERE id = ? AND user_id = u *)
Owned(id, u) == Live(id) /\ entries[id].user = u

(* SELECT ... FOR UPDATE and UPDATE wait until nobody holds the row. *)
LockIgnored(id) == TRUE  \* mutant: the SELECT without FOR UPDATE
LockFree(id) == locks[id] = NoReq

(* The WHERE clause of SetStatusRange. *)
MatchesRunning(c, id) ==  \* mutant: without end_at IS NOT NULL
  /\ Owned(id, c.user)
  /\ c.range[1] <= entries[id].start
  /\ entries[id].start < c.range[2]
  /\ entries[id].status = c.move[1]
Matches(c, id) == /\ Owned(id, c.user)
                  /\ c.range[1] <= entries[id].start
                  /\ entries[id].start < c.range[2]
                  /\ entries[id].status = c.move[1]
                  /\ ~IsRunning(entries[id])

(* model.NewId: an id no row has had and no request in flight was given. *)
Fresh(id) == /\ entries[id] = NoEntry
             /\ \A r \in Req : call[r].op \in {"start", "create"} =>
                                 call[r].id # id

-----------------------------------------------------------------------------
(* Calls, answers, and the end of a transaction. *)

Call(r, c) ==
  /\ pc[r] = "idle" /\ c.op \in Ops
  /\ pc' = [pc EXCEPT ![r] = "begin"]
  /\ call' = [call EXCEPT ![r] = c]
  /\ answer' = [answer EXCEPT ![r] = "none"]
  /\ UNCHANGED <<entries, locks, clock, row, todo>>

FinishLocked(r, a) ==  \* mutant: the transaction is never ended
  /\ pc' = [pc EXCEPT ![r] = "idle"]
  /\ call' = [call EXCEPT ![r] = NoCall]
  /\ row' = [row EXCEPT ![r] = NoEntry]
  /\ todo' = [todo EXCEPT ![r] = {}]
  /\ answer' = [answer EXCEPT ![r] = a]
  /\ UNCHANGED <<locks, clock>>

(* The request answers a; its transaction, if it has one, is over and its  *)
(* row locks are released.                                                 *)
Finish(r, a) ==
  /\ pc' = [pc EXCEPT ![r] = "idle"]
  /\ call' = [call EXCEPT ![r] = NoCall]
  /\ row' = [row EXCEPT ![r] = NoEntry]
  /\ todo' = [todo EXCEPT ![r] = {}]
  /\ answer' = [answer EXCEPT ![r] = a]
  /\ locks' = [id \in Id |-> IF locks[id] = r THEN NoReq ELSE locks[id]]
  /\ UNCHANGED clock

(* An early return: deferred Rollback, nothing was written. *)
Refuse(r, a) == Finish(r, a) /\ UNCHANGED entries

(* A successful COMMIT that makes the table e.  The connection may be lost *)
(* after the server committed: the code then reports an error for a write  *)
(* that happened.                                                          *)
Commit(r, e) == /\ entries' = e
                /\ \E a \in {"ok", "error"} : Finish(r, a)

(* The request goes on at location l. *)
Goto(r, l) == /\ pc' = [pc EXCEPT ![r] = l]
              /\ UNCHANGED <<entries, clock, answer>>

(* A handler reads the clock before it calls the store. *)
CallStart(r) == \E u \in User, id \in Id :
  /\ Fresh(id)
  /\ Call(r, [op |-> "start", user |-> u, id |-> id, now |-> clock])

CallTimer(r) == \E u \in User, op \in TimerOps :
  Call(r, [op |-> op, user |-> u, id |-> NoEntry, now |-> clock])

CallToggle(r) == \E u \in User : Call(r, [op |-> "toggle", user |-> u])

CallCreate(r) == \E u \in User, id \in Id, b \in Manual :
  /\ Fresh(id)
  /\ Call(r, [op |-> "create", user |-> u, id |-> id, body |-> b])

CallUpdate(r) == \E u \in User, id \in Id, p \in Patch :
  Call(r, [op |-> "update", user |-> u, id |-> id, patch |-> p])

CallDelete(r) == \E u \in User, id \in Id :
  Call(r, [op |-> "delete", user |-> u, id |-> id])

CallSetStatus(r) == \E u \in User, rg \in Range, m \in Moves :
  Call(r, [op |-> "setStatus", user |-> u, range |-> rg, move |-> m])

-----------------------------------------------------------------------------
(* StartTimer: a friendly check, then an INSERT guarded by the unique      *)
(* index on the open row.                                                  *)

NewUnset(c) ==  \* mutant: the status is left unset
  [user |-> c.user, start |-> c.now, end |-> 0, brk |-> 0, onbrk |-> 0,
   status |-> ""]
NewRunning(c) == [user |-> c.user, start |-> c.now, end |-> 0, brk |-> 0,
                  onbrk |-> 0, status |-> StatusOpen]

StartSelect(r) ==
  /\ pc[r] = "begin" /\ call[r].op = "start"
  /\ \/ /\ RunningOf(call[r].user) # {}
        /\ Refuse(r, "already_running")
     \/ /\ RunningOf(call[r].user) = {}
        /\ Goto(r, "insert")
        /\ UNCHANGED <<locks, call, row, todo>>

(* Another transaction has inserted the user's open row and not committed. *)
NeverPending(u) == FALSE  \* mutant: no unique index
InsertPending(u) == \E s \in Req : pc[s] = "commit" /\ call[s].user = u

(* The INSERT waits for such a transaction to end, then either collides    *)
(* with the index (isUniqueViolation) or goes through.                     *)
StartInsert(r) ==
  /\ pc[r] = "insert"
  /\ ~InsertPending(call[r].user)
  /\ \/ /\ RunningOf(call[r].user) # {}
        /\ Refuse(r, "already_running")
     \/ /\ RunningOf(call[r].user) = {}
        /\ Goto(r, "commit")
        /\ row' = [row EXCEPT ![r] = NewRunning(call[r])]
        /\ UNCHANGED <<locks, call, todo>>

StartCommit(r) ==
  /\ pc[r] = "commit"
  /\ Commit(r, [entries EXCEPT ![call[r].id] = row[r]])

-----------------------------------------------------------------------------
(* mutateRunning: SELECT ... FOR UPDATE finds the running row, waits for   *)
(* its lock and looks again; then fn, UPDATE and COMMIT.                   *)

TimerFind(r) ==
  /\ pc[r] = "begin" /\ call[r].op \in TimerOps
  /\ \/ /\ RunningOf(call[r].user) = {}
        /\ Refuse(r, "not_running")
     \/ \E id \in RunningOf(call[r].user) :
          /\ call' = [call EXCEPT ![r].id = id]
          /\ Goto(r, "lock")
          /\ UNCHANGED <<locks, row, todo>>

TimerLock(r) ==
  LET id == call[r].id IN
  /\ pc[r] = "lock" /\ call[r].op \in TimerOps
  /\ LockFree(id)
  /\ \/ /\ id \notin RunningOf(call[r].user)
        /\ Refuse(r, "not_running")
     \/ /\ id \in RunningOf(call[r].user)
        /\ Goto(r, "write")
        /\ locks' = [locks EXCEPT ![id] = r]
        /\ row' = [row EXCEPT ![r] = entries[id]]
        /\ UNCHANGED <<call, todo>>

(* fn, UPDATE of the three timer columns, COMMIT. *)
StopTimer(r) ==
  LET c == call[r] IN
  /\ pc[r] = "write" /\ c.op = "stop"
  /\ Commit(r, [entries EXCEPT ![c.id] =
                  SetTimer(@, c.now, BreakTotal(row[r], c.now), 0)])

StartBreak(r) ==
  LET c == call[r] IN
  /\ pc[r] = "write" /\ c.op = "startBreak"
  /\ \/ OnBreak(row[r]) /\ Refuse(r, "already_on_break")
     \/ /\ ~OnBreak(row[r])
        /\ Commit(r, [entries EXCEPT ![c.id] =
                        SetTimer(@, row[r].end, row[r].brk, c.now)])

StopBreak(r) ==
  LET c == call[r] IN
  /\ pc[r] = "write" /\ c.op = "stopBreak"
  /\ \/ ~OnBreak(row[r]) /\ Refuse(r, "not_on_break")
     \/ /\ OnBreak(row[r])
        /\ Commit(r, [entries EXCEPT ![c.id] =
                        SetTimer(@, row[r].end, BreakTotal(row[r], c.now), 0)])

(* `/track break`: GetRunning, then StopBreak or StartBreak in another     *)
(* transaction, with a clock read of its own.                              *)
BreakToggle(r) ==
  /\ pc[r] = "begin" /\ call[r].op = "toggle"
  /\ \/ /\ RunningOf(call[r].user) = {}
        /\ Refuse(r, "not_running")
     \/ \E id \in RunningOf(call[r].user) :
          /\ call' = [call EXCEPT ![r] =
               [op |-> IF OnBreak(entries[id]) THEN "stopBreak"
                                               ELSE "startBreak",
                user |-> @.user, id |-> NoEntry, now |-> clock]]
          /\ UNCHANGED <<entries, locks, clock, pc, row, todo, answer>>

-----------------------------------------------------------------------------
(* POST /entries: validated, must be closed, one INSERT without a          *)
(* transaction.  The body's break_started_at is stored as it came.         *)

NewManual(c) == [user |-> c.user, start |-> c.body.start, end |-> c.body.end,
                 brk |-> c.body.brk, onbrk |-> c.body.onbrk,
                 status |-> StatusOpen]

CreateEntry(r) ==
  LET e == NewManual(call[r]) IN
  /\ pc[r] = "begin" /\ call[r].op = "create"
  /\ \/ /\ ~ValidateAt(e, clock) \/ IsRunning(e)
        /\ Refuse(r, "invalid")
     \/ /\ ValidateAt(e, clock) /\ ~IsRunning(e)
        /\ Commit(r, [entries EXCEPT ![call[r].id] = e])

-----------------------------------------------------------------------------
(* PUT /entries/{id}: Get without a lock, patch the copy, validate it;     *)
(* then store.Update locks the row, looks at its status and writes every   *)
(* editable column of the copy.  (Update validates once more, with a later *)
(* clock: what was valid stays so.)                                        *)

Field(p, f, old) == IF f \in DOMAIN p THEN p[f] ELSE old

Patched(e, p) == SetBody(e, Field(p, "start", e.start),
                            Field(p, "end", e.end), Field(p, "brk", e.brk))

UpdateGet(r) ==
  LET id == call[r].id
      e  == Patched(entries[id], call[r].patch) IN
  /\ pc[r] = "begin" /\ call[r].op = "update"
  /\ \/ ~Owned(id, call[r].user) /\ Refuse(r, "not_found")
     \/ /\ Owned(id, call[r].user)
        /\ IsRunning(e) \/ ~ValidateAt(e, clock)
        /\ Refuse(r, "invalid")
     \/ /\ Owned(id, call[r].user)
        /\ ~IsRunning(e) /\ ValidateAt(e, clock)
        /\ Goto(r, "lock")
        /\ row' = [row EXCEPT ![r] = e]
        /\ UNCHANGED <<locks, call, todo>>

(* SELECT status ... WHERE id = ? AND user_id = ? FOR UPDATE, in Update    *)
(* and in Delete.                                                          *)
OwnerLockUnread(r) ==  \* mutant: the status is not looked at under the lock
  LET id == call[r].id IN
  /\ \/ pc[r] = "lock" /\ call[r].op = "update"
     \/ pc[r] = "begin" /\ call[r].op = "delete"
  /\ \/ ~Owned(id, call[r].user) /\ Refuse(r, "not_found")
     \/ /\ Owned(id, call[r].user) /\ LockFree(id)
        /\ Goto(r, "write")
        /\ locks' = [locks EXCEPT ![id] = r]
        /\ UNCHANGED <<call, row, todo>>
OwnerLock(r) ==
  LET id == call[r].id IN
  /\ \/ pc[r] = "lock" /\ call[r].op = "update"
     \/ pc[r] = "begin" /\ call[r].op = "delete"
  /\ \/ ~Owned(id, call[r].user) /\ Refuse(r, "not_found")
     \/ /\ Owned(id, call[r].user) /\ LockFree(id)
        /\ entries[id].status # StatusOpen
        /\ Refuse(r, "locked")
     \/ /\ Owned(id, call[r].user) /\ LockFree(id)
        /\ entries[id].status = StatusOpen
        /\ Goto(r, "write")
        /\ locks' = [locks EXCEPT ![id] = r]
        /\ UNCHANGED <<call, row, todo>>

UpdateWhole(r) ==  \* mutant: the timer columns of the copy are written, too
  /\ pc[r] = "write" /\ call[r].op = "update"
  /\ Commit(r, [entries EXCEPT ![call[r].id] = row[r]])
UpdateWrite(r) ==
  /\ pc[r] = "write" /\ call[r].op = "update"
  /\ Commit(r, [entries EXCEPT ![call[r].id] =
                  SetBody(@, row[r].start, row[r].end, row[r].brk)])

DeleteWrite(r) ==
  /\ pc[r] = "write" /\ call[r].op = "delete"
  /\ Commit(r, [entries EXCEPT ![call[r].id] = Gone])

-----------------------------------------------------------------------------
(* SetStatusRange: one UPDATE.  It picks its rows from the table as it is  *)
(* when the statement starts, locks them one by one in the order the plan  *)
(* yields them, and drops a row that no longer matches when it gets it.    *)

SweepBegin(r) ==
  /\ pc[r] = "begin" /\ call[r].op = "setStatus"
  /\ todo' = [todo EXCEPT ![r] = {id \in Id : Matches(call[r], id)}]
  /\ Goto(r, "sweep")
  /\ UNCHANGED <<locks, call, row>>

SweepStale(r) == \E id \in todo[r] :  \* mutant: the row is not looked at again
  /\ pc[r] = "sweep"
  /\ LockFree(id)
  /\ todo' = [todo EXCEPT ![r] = @ \ {id}]
  /\ locks' = [locks EXCEPT ![id] = IF Live(id) THEN r ELSE @]
  /\ UNCHANGED <<entries, clock, pc, call, row, answer>>
SweepSkips(r) == \E id \in todo[r] :  \* mutant: a locked row is passed over
  /\ pc[r] = "sweep"
  /\ todo' = [todo EXCEPT ![r] = @ \ {id}]
  /\ locks' = [locks EXCEPT ![id] =
                 IF LockFree(id) /\ Matches(call[r], id) THEN r ELSE @]
  /\ UNCHANGED <<entries, clock, pc, call, row, answer>>
SweepRow(r) == \E id \in todo[r] :
  /\ pc[r] = "sweep"
  /\ LockFree(id)
  /\ todo' = [todo EXCEPT ![r] = @ \ {id}]
  /\ locks' = [locks EXCEPT ![id] = IF Matches(call[r], id) THEN r ELSE @]
  /\ UNCHANGED <<entries, clock, pc, call, row, answer>>

SweepCommit(r) ==
  /\ pc[r] = "sweep" /\ todo[r] = {}
  /\ Commit(r, [id \in Id |->
                  IF locks[id] = r
                  THEN SetStatus(entries[id], call[r].move[2])
                  ELSE entries[id]])

(* The sweep waits for a row: it can take none of those that are left. *)
SweepBlocked(r) == /\ pc[r] = "sweep" /\ todo[r] # {}
                   /\ \A id \in todo[r] : ~LockFree(id)

(* Sweeps that wait for each other.  The database finds the cycle and      *)
(* rolls one of them back with an error.                                   *)
DeadlockVictim(r) ==
  /\ \E S \in SUBSET Req :
       /\ r \in S
       /\ \A s \in S : /\ SweepBlocked(s)
                       /\ \A id \in todo[s] : locks[id] \in S
  /\ Refuse(r, "error")

-----------------------------------------------------------------------------
(* A statement fails, the connection or the node is lost: the deferred     *)
(* Rollback, or the database when the connection drops, undoes the         *)
(* transaction.                                                            *)
Abort(r) == pc[r] # "idle" /\ Refuse(r, "error")

Tick == /\ clock < MaxClock
        /\ clock' = clock + 1
        /\ UNCHANGED <<entries, locks, pc, call, row, todo, answer>>

Init ==
  /\ entries = [id \in Id |-> NoEntry]
  /\ locks = [id \in Id |-> NoReq]
  /\ clock = 1
  /\ pc = [r \in Req |-> "idle"]
  /\ call = [r \in Req |-> NoCall]
  /\ row = [r \in Req |-> NoEntry]
  /\ todo = [r \in Req |-> {}]
  /\ answer = [r \in Req |-> "none"]

Arrive(r) == \/ CallStart(r) \/ CallTimer(r) \/ CallToggle(r) \/ CallCreate(r)
             \/ CallUpdate(r) \/ CallDelete(r) \/ CallSetStatus(r)

(* Steps that may wait for a lock or a key. *)
Acquire(r) == StartInsert(r) \/ TimerLock(r) \/ OwnerLock(r) \/ SweepRow(r)

Proceed(r) == \/ StartSelect(r) \/ StartCommit(r)
              \/ TimerFind(r) \/ StopTimer(r) \/ StartBreak(r) \/ StopBreak(r)
              \/ BreakToggle(r) \/ CreateEntry(r)
              \/ UpdateGet(r) \/ UpdateWrite(r) \/ DeleteWrite(r)
              \/ SweepBegin(r) \/ SweepCommit(r) \/ DeadlockVictim(r)

Next == \/ \E r \in Req : Arrive(r) \/ Acquire(r) \/ Proceed(r) \/ Abort(r)
        \/ Tick

Spec == Init /\ [][Next]_vars

(* Go schedules every goroutine, so a request that can go on does; a lock  *)
(* that is free again and again is granted at last, because the database   *)
(* queues those who wait for it.  Requests need not arrive, the clock need *)
(* not move and nothing need fail.                                         *)
Fairness == \A r \in Req : WF_vars(Proceed(r)) /\ SF_vars(Acquire(r))

FairSpec == Spec /\ Fairness
-----------------------------------------------------------------------------
(* Properties. *)

(* Types of all state.  An answer never leaves the set the handlers know.  *)
TypeOK ==
  /\ entries \in [Id -> TimeEntry \cup {NoEntry, Gone}]
  /\ locks \in [Id -> Req \cup {NoReq}]
  /\ clock \in Time
  /\ pc \in [Req -> Locations]
  /\ call \in [Req -> Calls \cup {NoCall}]
  /\ row \in [Req -> TimeEntry \cup {NoEntry}]
  /\ todo \in [Req -> SUBSET Id]
  /\ answer \in [Req -> Answers]

(* At most one running entry per user (README, "one running entry per      *)
(* user"), however many starts, stops and edits of the user are in flight. *)
SingleRunning == \A u \in User : \A i, j \in RunningOf(u) : i = j

(* A running entry is open: no submit, approve or reopen that raced with   *)
(* the timer has swept it up (SetStatusRange, "an in-progress timer is     *)
(* never swept into a submitted/approved batch").                          *)
RunningIsOpen == \A id \in Id :
  Live(id) /\ IsRunning(entries[id]) => entries[id].status = StatusOpen

(* What is submitted or approved is frozen: a step leaves such an entry in *)
(* place and changes nothing of it but its status, whatever edits, deletes *)
(* and timer writes were under way when it was submitted.                  *)
Frozen(id) == Live(id) /\ entries[id].status # StatusOpen
FrozenStep == \A id \in Id : Frozen(id) =>
  /\ Live(id)'
  /\ entries'[id] = SetStatus(entries[id], entries'[id].status)
LockedIsFrozen == [][FrozenStep]_vars

(* Statuses move along open -> submitted -> approved and back to open      *)
(* only, also when a withdrawal, an approval and a rejection of the same   *)
(* entries run at the same time and each began before the others ended.    *)
LifecycleStep == \A id \in Id : Live(id) /\ Live(id)' =>
  \/ entries'[id].status = entries[id].status
  \/ <<entries[id].status, entries'[id].status>> \in Moves
LifecycleOnly == [][LifecycleStep]_vars

(* Why these hold.  A row that is locked is there, and whoever holds the   *)
(* lock is about to write it; what the holder knows of the row stays true  *)
(* until it commits, because every write of a row is under its lock.       *)
HolderWrites(r, id) ==
  /\ Live(id)
  /\ \/ pc[r] = "write" /\ call[r].id = id
     \/ pc[r] = "sweep" /\ Matches(call[r], id)

LocksHeld == \A id \in Id : locks[id] # NoReq => HolderWrites(locks[id], id)

WriterKnows(r) ==
  LET id == call[r].id IN
  /\ locks[id] = r
  /\ call[r].op \in TimerOps =>
       id \in RunningOf(call[r].user) /\ row[r] = entries[id]
  /\ call[r].op \in {"update", "delete"} =>
       Live(id) /\ entries[id].status = StatusOpen

(* The request is where its operation goes, with what it needs there.      *)
InPlace(r) ==
  /\ (call[r] = NoCall) <=> (pc[r] = "idle")
  /\ pc[r] \in {"insert", "commit"} => call[r].op = "start"
  /\ pc[r] = "lock" => call[r].op \in TimerOps \cup {"update"}
  /\ pc[r] = "write" => call[r].op \in TimerOps \cup {"update", "delete"}
  /\ pc[r] = "sweep" => call[r].op = "setStatus"
  /\ pc[r] \in {"lock", "write"} => call[r].id \in Id
  /\ pc[r] \in {"lock", "write"} /\ call[r].op = "update" =>
       row[r] \in TimeEntry /\ ~IsRunning(row[r]) /\ WellFormed(row[r])

(* An open row that is inserted and not committed excludes every other     *)
(* open row of the user, committed or not.                                 *)
PendingAlone(r) ==
  /\ row[r] = NewRunning(call[r])
  /\ RunningOf(call[r].user) = {}
  /\ \A s \in Req : pc[s] = "commit" /\ call[s].user = call[r].user => s = r

(* The id a request was given for its new row is its own.                  *)
Inserts(r) == call[r].op \in {"start", "create"}
IdFresh(r) ==
  /\ entries[call[r].id] = NoEntry
  /\ \A s \in Req : Inserts(s) /\ call[s].id = call[r].id => s = r

(* The inductive invariant behind SingleRunning and RunningIsOpen.         *)
StoreInv ==
  /\ LocksHeld
  /\ \A r \in Req : /\ InPlace(r)
                    /\ pc[r] = "write" => WriterKnows(r)
                    /\ pc[r] = "commit" => PendingAlone(r)
                    /\ Inserts(r) => IdFresh(r)
  /\ SingleRunning /\ RunningIsOpen

(* An active break ends only in a stop or a break-stop of that entry,      *)
(* which adds exactly the time from the start of the break to the clock    *)
(* value the request read; brk is otherwise changed only by an edit.  So a *)
(* break is neither lost nor counted twice (mutateRunning: "a double-click *)
(* cannot corrupt break accounting").                                      *)
EndsBreak(r, id) == /\ pc[r] = "write" /\ pc'[r] = "idle"
                    /\ call[r].op \in {"stop", "stopBreak"} /\ call[r].id = id
                    /\ entries'[id].onbrk = 0
                    /\ entries'[id].brk = entries[id].brk
                         + Seconds(call[r].now - entries[id].onbrk)
Edits(r, id) == /\ pc[r] = "write" /\ pc'[r] = "idle"
                /\ call[r].op = "update" /\ call[r].id = id
BreakStep == \A id \in Id : Live(id) /\ Live(id)' =>
  /\ OnBreak(entries[id]) /\ entries'[id].onbrk # entries[id].onbrk
       => \E r \in Req : EndsBreak(r, id)
  /\ entries'[id].brk # entries[id].brk
       => \E r \in Req : EndsBreak(r, id) \/ Edits(r, id)
BreaksAccounted == [][BreakStep]_vars

(* Every request is answered: no request waits for ever for a row lock or  *)
(* for the unique key, and sweeps that wait for each other are resolved.   *)
EveryCallAnswered == \A r \in Req : pc[r] # "idle" ~> pc[r] = "idle"

(* The store does what the timesheet promises: every step of every         *)
(* interleaving is one atomic operation of Timesheet on the table, or      *)
(* leaves the table alone.                                                 *)
Sheet == INSTANCE Timesheet WITH Instant <- Time
ImplementsTimesheet == Sheet!Spec

-----------------------------------------------------------------------------
(* What comments in the code say, and the code does not do.                *)

(* api.go:352-354, of the test that end_at is not zero: "This also blocks  *)
(* editing a still-running entry through this endpoint".                   *)
EditsSpareRunning ==
  [][\A id \in Id : Live(id) /\ IsRunning(entries[id]) =>
       ~\E r \in Req : Edits(r, id) /\ entries'[id] # entries[id]]_vars

(* api.go:322-323: "absent keys leave the stored value untouched".         *)
AbsentKeysUntouched ==
  [][\A r \in Req, id \in Id : Edits(r, id) =>
       \A f \in PatchFields \ DOMAIN call[r].patch :
         entries'[id][f] = entries[id][f]]_vars

(* sqlstore.go:230-232: the row lock "serializes concurrent stop/break     *)
(* operations on the same entry so a double-click cannot corrupt break     *)
(* accounting".  A negative total of breaks is corrupt.                    *)
BreakNeverNegative == \A id \in Id : Live(id) => entries[id].brk >= 0
=============================================================================
