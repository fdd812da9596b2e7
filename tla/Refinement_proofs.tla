------------------------- MODULE Refinement_proofs -------------------------
(* TimeEntryStore implements Timesheet: every step of every interleaving   *)
(* of statements is one atomic operation on the table or leaves it alone.  *)
EXTENDS TimeEntryStore_proofs

(* The definitions the two modules share are the same on both sides. *)
LEMMA SameData ==
  /\ \A id \in Id : Sheet!Live(id) <=> Live(id)
  /\ \A e : Sheet!IsRunning(e) <=> IsRunning(e)
  /\ \A e : Sheet!OnBreak(e) <=> OnBreak(e)
  /\ \A e : Sheet!WellFormed(e) <=> WellFormed(e)
  /\ \A e, t : Sheet!BreakTotal(e, t) = BreakTotal(e, t)
  /\ \A e, a, b, c : /\ Sheet!SetTimer(e, a, b, c) = SetTimer(e, a, b, c)
                     /\ Sheet!SetBody(e, a, b, c) = SetBody(e, a, b, c)
  /\ \A e, s : Sheet!SetStatus(e, s) = SetStatus(e, s)
  /\ Sheet!StatusOpen = StatusOpen
  /\ Sheet!Moves = Moves
BY DEF Sheet!Live, Live, Sheet!IsRunning, IsRunning, Sheet!OnBreak, OnBreak,
  Sheet!WellFormed, WellFormed, Sheet!BreakTotal, BreakTotal, Sheet!Seconds,
  Seconds, Sheet!SetTimer, SetTimer, Sheet!SetBody, SetBody, Sheet!SetStatus,
  SetStatus, Sheet!StatusOpen, StatusOpen, Sheet!StatusSubmitted,
  StatusSubmitted, Sheet!StatusApproved, StatusApproved, Sheet!Moves, Moves

(* In particular, what the timer operations write. *)
LEMMA SameTimer ==
  \A id \in Id : \A end, onbrk, t :
    /\ Sheet!OnBreak(entries[id]) <=> OnBreak(entries[id])
    /\ Sheet!SetTimer(entries[id], end, entries[id].brk, onbrk)
         = SetTimer(entries[id], end, entries[id].brk, onbrk)
    /\ Sheet!SetTimer(entries[id], end, Sheet!BreakTotal(entries[id], t), onbrk)
         = SetTimer(entries[id], end, BreakTotal(entries[id], t), onbrk)
<1>1. \A e, t : Sheet!BreakTotal(e, t) = BreakTotal(e, t)
  BY SameData
<1>2. \A e, a, b, c : Sheet!SetTimer(e, a, b, c) = SetTimer(e, a, b, c)
  BY SameData
<1>3. \A e : Sheet!OnBreak(e) <=> OnBreak(e)
  BY SameData
<1>4. QED
  BY <1>1, <1>2, <1>3, Zenon

(* A write of one row, seen from the table. *)
LEMMA OneRow ==
  ASSUME TypeOK, NEW id \in Id, NEW v, entries' = [entries EXCEPT ![id] = v]
  PROVE  entries'[id] = v /\ Sheet!Only(id)
BY DEF TypeOK, Sheet!Only

(* The commit of StartTimer is Start. *)
LEMMA StartCommitRefines ==
  ASSUME Inv, NEW r \in Req, StartCommit(r) PROVE Sheet!Next
<1> DEFINE c == call[r]
<1>1. /\ c \in StartCall
      /\ row[r] = NewRunning(c) /\ RunningOf(c.user) = {}
      /\ entries[c.id] = NoEntry
      /\ entries' = [entries EXCEPT ![c.id] = row[r]]
  BY CallShape DEF StartCommit, Commit, Inv, StoreInv, InPlace, PendingAlone,
    Inserts, IdFresh
<1>2. c.user \in User /\ c.id \in Id /\ c.now \in Time
  BY <1>1 DEF StartCall
<1>3. entries'[c.id] = NewRunning(c) /\ Sheet!Only(c.id)
  BY <1>1, <1>2, OneRow DEF Inv
<1>4. Sheet!Idle(c.user)
  BY <1>1, SameData DEF Sheet!Idle, Sheet!Running, RunningOf
<1>5. Sheet!Start(c.user, c.id, c.now)
  BY <1>1, <1>3, <1>4, SameData DEF Sheet!Start, NewRunning
<1>6. QED
  BY <1>2, <1>5 DEF Sheet!Next

(* The commits of the three timer operations are Stop, BreakOn, BreakOff. *)
LEMMA TimerWriteRefines ==
  ASSUME Inv, NEW r \in Req, StopTimer(r) \/ StartBreak(r) \/ StopBreak(r)
  PROVE  Sheet!Next \/ UNCHANGED entries
<1> DEFINE c  == call[r]
           id == call[r].id
<1>1. c.op \in TimerOps /\ pc[r] = "write"
  BY DEF StopTimer, StartBreak, StopBreak, TimerOps
<1>2. id \in Id /\ c.now \in Time
  BY <1>1, CallShape DEF Inv, StoreInv, InPlace, TimerCall
<1>3. /\ id \in RunningOf(c.user) /\ row[r] = entries[id]
      /\ Sheet!Running(id) /\ entries[id].end = 0
  BY <1>1, <1>2, SameData DEF Inv, StoreInv, WriterKnows, RunningOf, Sheet!Running,
    IsRunning
<1>4. CASE StopTimer(r)
  <2>1. entries' = [entries EXCEPT ![id] =
          SetTimer(entries[id], c.now, BreakTotal(entries[id], c.now), 0)]
    BY <1>3, <1>4 DEF StopTimer, Commit
  <2>2. /\ entries'[id] = SetTimer(entries[id], c.now, BreakTotal(entries[id], c.now), 0)
        /\ Sheet!Only(id)
    BY <1>2, <2>1, OneRow DEF Inv
  <2>3. Sheet!SetTimer(entries[id], c.now, Sheet!BreakTotal(entries[id], c.now), 0)
          = SetTimer(entries[id], c.now, BreakTotal(entries[id], c.now), 0)
    BY <1>2, SameTimer
  <2>4. Sheet!Stop(id, c.now)
    BY <1>3, <2>1, <2>2, <2>3, SameTimer DEF Sheet!Stop
  <2>5. QED
    BY <1>2, <2>4 DEF Sheet!Next
<1>5. CASE StartBreak(r) /\ entries' # entries
  <2>1. /\ ~OnBreak(entries[id])
        /\ entries' = [entries EXCEPT ![id] =
             SetTimer(entries[id], 0, entries[id].brk, c.now)]
    BY <1>3, <1>5 DEF StartBreak, Commit, Refuse
  <2>2. /\ entries'[id] = SetTimer(entries[id], 0, entries[id].brk, c.now)
        /\ Sheet!Only(id)
    BY <1>2, <2>1, OneRow DEF Inv
  <2>3. Sheet!BreakOn(id, c.now)
    BY <1>2, <1>3, <2>1, <2>2, SameTimer, Zenon DEF Sheet!BreakOn
  <2>4. QED
    BY <1>2, <2>3 DEF Sheet!Next
<1>6. CASE StopBreak(r) /\ entries' # entries
  <2>1. /\ OnBreak(entries[id])
        /\ entries' = [entries EXCEPT ![id] =
             SetTimer(entries[id], 0, BreakTotal(entries[id], c.now), 0)]
    BY <1>3, <1>6 DEF StopBreak, Commit, Refuse
  <2>2. /\ entries'[id] = SetTimer(entries[id], 0, BreakTotal(entries[id], c.now), 0)
        /\ Sheet!Only(id)
    BY <1>2, <2>1, OneRow DEF Inv
  <2>3. Sheet!SetTimer(entries[id], 0, Sheet!BreakTotal(entries[id], c.now), 0)
          = SetTimer(entries[id], 0, BreakTotal(entries[id], c.now), 0)
    BY <1>2, SameTimer
  <2>4. Sheet!OnBreak(entries[id])
    BY <1>2, <2>1, SameTimer
  <2>5. Sheet!BreakOff(id, c.now)
    BY <1>3, <2>2, <2>3, <2>4 DEF Sheet!BreakOff
  <2>6. QED
    BY <1>2, <2>5 DEF Sheet!Next
<1>7. QED
  BY <1>4, <1>5, <1>6

(* POST /entries is Record. *)
LEMMA CreateRefines ==
  ASSUME Inv, NEW r \in Req, CreateEntry(r)
  PROVE  Sheet!Next \/ UNCHANGED entries
<1> DEFINE c == call[r]
           e == NewManual(c)
<1> SUFFICES ASSUME entries' # entries PROVE Sheet!Next
  OBVIOUS
<1>0. PICK id : id = c.id
  OBVIOUS
<1>1. /\ c \in CreateCall /\ entries[c.id] = NoEntry
      /\ ~IsRunning(e) /\ WellFormed(e)
      /\ entries' = [entries EXCEPT ![c.id] = e]
  BY CallShape DEF CreateEntry, Commit, Refuse, Inv, StoreInv, Inserts, IdFresh,
    ValidateAt
<1>2. c.id \in Id /\ c.user \in User /\ e.user = c.user /\ e.status = StatusOpen
  BY <1>1 DEF CreateCall, NewManual
<1>3. /\ e \in TimeEntry
      /\ e \in [user : User, start : {e.start}, end : {e.end}, brk : {e.brk},
                onbrk : {e.onbrk}, status : {StatusOpen}]
  BY <1>1, <1>2, ManualAssumption DEF CreateCall, NewManual, TimeEntry, Status
<1>4. id \in Id /\ entries'[id] = e /\ Sheet!Only(id)
  BY <1>0, <1>1, <1>2, OneRow DEF Inv
<1>5. Sheet!Live(id)'
  BY <1>3, <1>4, NoEntryAssumption DEF Sheet!Live
<1>6. Sheet!Record(id)
  BY <1>0, <1>1, <1>3, <1>4, <1>5, SameData DEF Sheet!Record
<1>7. QED
  BY <1>4, <1>6 DEF Sheet!Next

(* The commits of PUT and DELETE are Edit and Remove. *)
LEMMA EditRefines ==
  ASSUME Inv, NEW r \in Req, UpdateWrite(r) \/ DeleteWrite(r)
  PROVE  Sheet!Next
<1>0. PICK id : id = call[r].id
  OBVIOUS
<1>1. /\ id \in Id /\ Live(id) /\ entries[id].status = StatusOpen
      /\ entries[id] \in TimeEntry
  BY <1>0, LiveType DEF UpdateWrite, DeleteWrite, Inv, StoreInv, InPlace, WriterKnows
<1>2. CASE UpdateWrite(r)
  <2> DEFINE e == SetBody(entries[id], row[r].start, row[r].end, row[r].brk)
  <2>1. row[r] \in TimeEntry /\ ~IsRunning(row[r]) /\ WellFormed(row[r])
    BY <1>2 DEF UpdateWrite, Inv, StoreInv, InPlace
  <2>2. /\ e.start = row[r].start /\ e.end = row[r].end /\ e.brk = row[r].brk
        /\ e \in TimeEntry
    BY <1>1, <2>1 DEF SetBody, TimeEntry
  <2>3. ~IsRunning(e) /\ WellFormed(e)
    BY <2>1, <2>2 DEF IsRunning, WellFormed
  <2>4. entries' = [entries EXCEPT ![id] = e]
    BY <1>0, <1>2 DEF UpdateWrite, Commit
  <2>5. entries'[id] = e /\ Sheet!Only(id)
    BY <1>1, <2>4, OneRow DEF Inv
  <2>6. Sheet!Live(id) /\ Sheet!Live(id)'
    BY <1>1, <2>2, <2>5, NoEntryAssumption, SameData DEF Sheet!Live
  <2>7. Sheet!Edit(id)
    BY <1>1, <2>2, <2>3, <2>5, <2>6, SameData DEF Sheet!Edit
  <2>8. QED
    BY <1>1, <2>7 DEF Sheet!Next
<1>3. CASE DeleteWrite(r)
  <2>1. entries' = [entries EXCEPT ![id] = Gone]
    BY <1>0, <1>3 DEF DeleteWrite, Commit
  <2>2. Sheet!Remove(id)
    BY <1>1, <2>1, OneRow, SameData DEF Sheet!Remove, Inv
  <2>3. QED
    BY <1>1, <2>2 DEF Sheet!Next
<1>4. QED
  BY <1>2, <1>3

(* The commit of SetStatusRange is Decide for the rows it has locked. *)
LEMMA SweepRefines ==
  ASSUME Inv, NEW r \in Req, SweepCommit(r) PROVE Sheet!Next
<1> DEFINE c == call[r]
           S == {id \in Id : locks[id] = r}
<1>1. /\ pc[r] = "sweep" /\ c \in StatusCall
      /\ entries' = [id \in Id |-> IF locks[id] = r
                                   THEN SetStatus(entries[id], c.move[2])
                                   ELSE entries[id]]
  BY CallShape DEF SweepCommit, Commit, Inv, StoreInv, InPlace
<1>2. c.user \in User /\ c.move \in Moves
  BY <1>1 DEF StatusCall
<1>3. ASSUME NEW id \in S
      PROVE  /\ Live(id) /\ ~IsRunning(entries[id])
             /\ entries[id].user = c.user /\ entries[id].status = c.move[1]
  <2>1. HolderWrites(r, id)
    BY NoReqAssumption DEF Inv, StoreInv, LocksHeld
  <2>2. QED
    BY <1>1, <2>1 DEF HolderWrites, Matches, Owned
<1>4. Sheet!Decide(c.user, c.move, S)
  BY <1>1, <1>3, SameData DEF Sheet!Decide
<1>5. S \in SUBSET Id
  OBVIOUS
<1>6. QED
  BY <1>2, <1>4, <1>5, SameData DEF Sheet!Next

(* Every step is a step of Timesheet or leaves the table alone. *)
LEMMA StepRefines == Inv /\ [Next]_vars => [Sheet!Next]_entries
<1> SUFFICES ASSUME Inv, [Next]_vars, entries' # entries PROVE Sheet!Next
  OBVIOUS
<1>1. ASSUME NEW r \in Req, Arrive(r) \/ Acquire(r) \/ Abort(r) PROVE FALSE
  BY <1>1 DEF Arrive, CallStart, CallTimer, CallToggle, CallCreate, CallUpdate,
    CallDelete, CallSetStatus, Call, Acquire, StartInsert, TimerLock, OwnerLock,
    SweepRow, Abort, Refuse, Goto
<1>2. ASSUME NEW r \in Req, \/ StartSelect(r) \/ TimerFind(r) \/ BreakToggle(r)
                            \/ UpdateGet(r) \/ SweepBegin(r) \/ DeadlockVictim(r)
      PROVE  FALSE
  BY <1>2 DEF StartSelect, TimerFind, BreakToggle, UpdateGet, SweepBegin,
    DeadlockVictim, Refuse, Goto
<1>3. ~(Tick \/ UNCHANGED vars)
  BY DEF Tick, vars
<1>4. QED
  BY <1>1, <1>2, <1>3, StartCommitRefines, TimerWriteRefines, CreateRefines,
    EditRefines, SweepRefines DEF Next, Proceed

(* The store does what the timesheet promises its callers, whatever the    *)
(* users, ids, requests, bodies and ranges are.                            *)
THEOREM StoreImplementsTimesheet == Spec => ImplementsTimesheet
<1>1. Init => Sheet!Init
  BY DEF Init, Sheet!Init
<1>2. QED
  BY <1>1, StepRefines, InvHolds, PTL DEF Spec, ImplementsTimesheet, Sheet!Spec
=============================================================================
