----------------------- MODULE TimeEntryStore_proofs -----------------------
(* Proofs about TimeEntryStore, for every set of users, ids, requests,     *)
(* bodies and ranges.                                                      *)
EXTENDS TimeEntryStore, TLAPS

Table == [Id -> TimeEntry \cup {NoEntry, Gone}]

-----------------------------------------------------------------------------
(* Typing. *)

(* The scaled division yields an integer. *)
LEMMA SecondsType == ASSUME NEW ms \in Int PROVE Seconds(ms) \in Int
BY MillisAssumption DEF Seconds

(* A live row is a row. *)
LEMMA LiveType == ASSUME TypeOK, NEW id \in Id, Live(id)
                  PROVE  entries[id] \in TimeEntry
BY DEF TypeOK, Live

(* A request that arrives leaves the state well typed. *)
LEMMA CallType == ASSUME TypeOK, NEW r \in Req, NEW c \in Calls, Call(r, c)
                  PROVE  TypeOK'
BY DEF TypeOK, Call, Locations, Answers

(* So does a request that answers, whatever table it leaves. *)
LEMMA FinishType ==
  ASSUME TypeOK, NEW r \in Req, NEW a \in Answers, Finish(r, a), entries' \in Table
  PROVE  TypeOK'
BY DEF TypeOK, Finish, Locations, Table

LEMMA RefuseType ==
  ASSUME TypeOK, NEW r \in Req, NEW a \in Answers, Refuse(r, a)
  PROVE  TypeOK'
BY FinishType DEF Refuse, TypeOK, Table

LEMMA CommitType ==
  ASSUME TypeOK, NEW r \in Req, NEW e \in Table, Commit(r, e)
  PROVE  TypeOK'
BY FinishType DEF Commit, Answers

(* The break total of a row is an integer. *)
LEMMA BreakTotalType == ASSUME NEW e \in TimeEntry, NEW now \in Int
                        PROVE  BreakTotal(e, now) \in Int
<1>1. e.brk \in Int /\ now - e.onbrk \in Int
  BY DEF TimeEntry
<1>2. Seconds(now - e.onbrk) \in Int
  BY <1>1, SecondsType
<1>3. QED
  BY <1>1, <1>2 DEF BreakTotal

(* The three UPDATEs map rows to rows. *)
LEMMA SetType ==
  ASSUME NEW e \in TimeEntry, NEW a \in Int, NEW b \in Int, NEW c \in Int,
         NEW s \in Status
  PROVE  /\ SetTimer(e, a, b, c) \in TimeEntry
         /\ SetBody(e, a, b, c) \in TimeEntry
         /\ SetStatus(e, s) \in TimeEntry
BY DEF SetTimer, SetBody, SetStatus, TimeEntry

(* What a request is asked for is well typed. *)
LEMMA ArriveType == ASSUME TypeOK, NEW r \in Req, Arrive(r) PROVE TypeOK'
<1>0. clock \in Time
  BY DEF TypeOK
<1>1. CASE CallStart(r)
  BY <1>0, <1>1, CallType DEF CallStart, Calls, StartCall
<1>2. CASE CallTimer(r)
  BY <1>0, <1>2, CallType DEF CallTimer, Calls, TimerCall
<1>3. CASE CallToggle(r)
  BY <1>3, CallType DEF CallToggle, Calls, ToggleCall
<1>4. CASE CallCreate(r)
  BY <1>4, CallType DEF CallCreate, Calls, CreateCall
<1>5. CASE CallUpdate(r)
  BY <1>5, CallType DEF CallUpdate, Calls, UpdateCall
<1>6. CASE CallDelete(r)
  BY <1>6, CallType DEF CallDelete, Calls, DeleteCall
<1>7. CASE CallSetStatus(r)
  BY <1>7, CallType DEF CallSetStatus, Calls, StatusCall
<1>8. QED
  BY <1>1, <1>2, <1>3, <1>4, <1>5, <1>6, <1>7 DEF Arrive

(* The call of a request that is under way, by its operation. *)
LEMMA CallShape ==
  ASSUME TypeOK, NEW r \in Req
  PROVE  /\ call[r].op = "start" => call[r] \in StartCall
         /\ call[r].op \in TimerOps => call[r] \in TimerCall
         /\ call[r].op = "toggle" => call[r] \in ToggleCall
         /\ call[r].op = "create" => call[r] \in CreateCall
         /\ call[r].op = "update" => call[r] \in UpdateCall
         /\ call[r].op = "delete" => call[r] \in DeleteCall
         /\ call[r].op = "setStatus" => call[r] \in StatusCall
<1>1. call[r] \in Calls \cup {NoCall}
  BY DEF TypeOK
<1>2. QED
  BY <1>1 DEF Calls, NoCall, StartCall, TimerCall, ToggleCall, CreateCall,
              UpdateCall, DeleteCall, StatusCall, TimerOps

-----------------------------------------------------------------------------
(* The inductive invariant. *)

Inv == TypeOK /\ StoreInv

(* The other requests are where they were. *)
Others(r) == \A s \in Req : s # r => /\ pc'[s] = pc[s] /\ call'[s] = call[s]
                                     /\ row'[s] = row[s] /\ todo'[s] = todo[s]

(* A step that writes no row keeps the invariant if it takes no lock of    *)
(* another request and its own part of the invariant holds after it.       *)
LEMMA StepInv ==
  ASSUME Inv, NEW r \in Req, TypeOK', Others(r), entries' = entries,
         \A id \in Id : locks'[id] = r \/ locks'[id] = NoReq \/ locks'[id] = locks[id],
         \A s \in Req, id \in Id : s # r /\ locks[id] = s => locks'[id] = s,
         \A id \in Id : locks'[id] = r => HolderWrites(r, id)',
         InPlace(r)',
         pc'[r] = "write" => WriterKnows(r)',
         pc'[r] = "commit" => PendingAlone(r)',
         Inserts(r)' => IdFresh(r)'
  PROVE  Inv'
<1> USE DEF Inv
<1>1. LocksHeld'
  <2> SUFFICES ASSUME NEW id \in Id, NEW s \in Req, locks'[id] = s
               PROVE  HolderWrites(s, id)'
    BY DEF LocksHeld, TypeOK
  <2>1. CASE s = r
    BY <2>1
  <2>2. CASE s # r
    <3>1. locks[id] = s /\ pc'[s] = pc[s] /\ call'[s] = call[s]
      BY <2>2, NoReqAssumption DEF Others
    <3>2. HolderWrites(s, id)
      BY <3>1, NoReqAssumption DEF StoreInv, LocksHeld
    <3>3. QED
      BY <3>1, <3>2 DEF HolderWrites, Live, Matches, Owned
  <2>3. QED
    BY <2>1, <2>2
<1>2. ASSUME NEW s \in Req, s # r
      PROVE  /\ InPlace(s)'
             /\ pc'[s] = "write" => WriterKnows(s)'
             /\ pc'[s] = "commit" => PendingAlone(s)'
             /\ Inserts(s)' => IdFresh(s)'
  <2>1. /\ pc'[s] = pc[s] /\ call'[s] = call[s] /\ row'[s] = row[s]
        /\ InPlace(s)
    BY <1>2 DEF Others, StoreInv
  <2>2. InPlace(s)'
    BY <2>1 DEF InPlace
  <2>3. ASSUME pc'[s] = "write" PROVE WriterKnows(s)'
    <3>1. call[s].id \in Id /\ WriterKnows(s)
      BY <2>1, <2>3 DEF InPlace, StoreInv
    <3>2. locks'[call[s].id] = s
      BY <1>2, <3>1 DEF WriterKnows
    <3>3. QED
      BY <2>1, <3>1, <3>2 DEF WriterKnows, RunningOf, Live
  <2>4. pc'[s] = "commit" => PendingAlone(s)'
    BY <1>2, <2>1 DEF StoreInv, PendingAlone, RunningOf, Live, Others
  <2>5. Inserts(s)' => IdFresh(s)'
    BY <1>2, <2>1 DEF StoreInv, IdFresh, Inserts, Others
  <2>6. QED
    BY <2>2, <2>3, <2>4, <2>5
<1>3. SingleRunning' /\ RunningIsOpen'
  BY DEF StoreInv, SingleRunning, RunningIsOpen, RunningOf, Live
<1>4. QED
  BY <1>1, <1>2, <1>3 DEF StoreInv

(* A request that answers without a write keeps the invariant. *)
LEMMA RefuseInv ==
  ASSUME Inv, NEW r \in Req, NEW a \in Answers, Refuse(r, a)
  PROVE  Inv'
<1>1. TypeOK'
  BY RefuseType DEF Inv
<1>2. Others(r) /\ entries' = entries /\ pc'[r] = "idle" /\ call'[r] = NoCall
  BY DEF Inv, Refuse, Finish, TypeOK, Others
<1>3. /\ \A id \in Id : locks'[id] = NoReq \/ locks'[id] = locks[id]
      /\ \A id \in Id : locks'[id] # r
      /\ \A s \in Req, id \in Id : s # r /\ locks[id] = s => locks'[id] = s
  BY NoReqAssumption DEF Inv, Refuse, Finish, TypeOK
<1>4. InPlace(r)'
  BY <1>2 DEF InPlace, NoCall
<1>5. QED
  BY <1>1, <1>2, <1>3, <1>4, StepInv DEF Inserts, NoCall

(* The table e differs from the committed one only where the request may   *)
(* write: in rows it has locked and in the row it was given an id for.     *)
WritesOwn(r, e) == \A id \in Id : e[id] # entries[id] =>
  \/ locks[id] = r
  \/ Inserts(r) /\ call[r].id = id

(* A running row of e is open, and was running for the same user before,   *)
(* or is the open row that the request inserts.                            *)
RunsAsBefore(r, e) == \A id \in Id :
  e[id] \notin {NoEntry, Gone} /\ IsRunning(e[id]) =>
    /\ e[id].status = StatusOpen
    /\ \/ id \in RunningOf(e[id].user)
       \/ pc[r] = "commit" /\ id = call[r].id /\ e[id].user = call[r].user

(* A request that commits such a table keeps the invariant. *)
LEMMA CommitInv ==
  ASSUME Inv, NEW r \in Req, NEW e \in Table, Commit(r, e),
         WritesOwn(r, e), RunsAsBefore(r, e)
  PROVE  Inv'
<1> USE DEF Inv
<1>1. TypeOK'
  BY CommitType
<1>2. PICK a \in {"ok", "error"} : entries' = e /\ Finish(r, a)
  BY DEF Commit
<1>3. /\ Others(r) /\ pc'[r] = "idle" /\ call'[r] = NoCall
      /\ InPlace(r)'
  BY <1>2 DEF Finish, TypeOK, Others, InPlace, NoCall
<1>4. /\ \A id \in Id : locks'[id] # NoReq => locks'[id] = locks[id] /\ locks[id] # r
      /\ \A s \in Req : s # r => \A id \in Id : locks[id] = s => locks'[id] = s
  BY <1>2, NoReqAssumption DEF Finish, TypeOK
<1>5. \A id \in Id : locks[id] \notin {NoReq, r} => entries'[id] = entries[id]
  BY <1>2 DEF WritesOwn, StoreInv, LocksHeld, HolderWrites, IdFresh, Live
<1>6. LocksHeld'
  <2> SUFFICES ASSUME NEW id \in Id, NEW s \in Req, locks'[id] = s
               PROVE  HolderWrites(s, id)'
    BY <1>1 DEF LocksHeld, TypeOK
  <2>1. s # r /\ locks[id] = s /\ entries'[id] = entries[id]
    BY <1>4, <1>5, NoReqAssumption
  <2>2. pc'[s] = pc[s] /\ call'[s] = call[s]
    BY <1>3, <2>1 DEF Others
  <2>3. HolderWrites(s, id)
    BY <2>1, NoReqAssumption DEF StoreInv, LocksHeld
  <2>4. QED
    BY <2>1, <2>2, <2>3 DEF HolderWrites, Live, Matches, Owned
<1>7. \A u \in User : \A id \in RunningOf(u)' :
         \/ id \in RunningOf(u)
         \/ pc[r] = "commit" /\ id = call[r].id /\ u = call[r].user
  BY <1>2 DEF RunningOf, RunsAsBefore, Live
<1>8. SingleRunning' /\ RunningIsOpen'
  BY <1>2, <1>7
  DEF StoreInv, SingleRunning, RunningIsOpen, PendingAlone, RunsAsBefore, Live
<1>9. ASSUME NEW s \in Req, s # r
      PROVE  /\ InPlace(s)'
             /\ pc'[s] = "write" => WriterKnows(s)'
             /\ pc'[s] = "commit" => PendingAlone(s)'
             /\ Inserts(s)' => IdFresh(s)'
  <2>1. /\ pc'[s] = pc[s] /\ call'[s] = call[s] /\ row'[s] = row[s]
        /\ InPlace(s)
    BY <1>3, <1>9 DEF Others, StoreInv
  <2>2. InPlace(s)'
    BY <2>1 DEF InPlace
  <2>3. ASSUME pc'[s] = "write" PROVE WriterKnows(s)'
    <3>1. call[s].id \in Id /\ WriterKnows(s)
      BY <2>1, <2>3 DEF InPlace, StoreInv
    <3>2. /\ locks'[call[s].id] = s
          /\ entries'[call[s].id] = entries[call[s].id]
      BY <1>4, <1>5, <1>9, <3>1, NoReqAssumption DEF WriterKnows
    <3>3. QED
      BY <2>1, <3>1, <3>2 DEF WriterKnows, RunningOf, Live
  <2>4. ASSUME pc'[s] = "commit" PROVE PendingAlone(s)'
    <3>1. PendingAlone(s) /\ call[s].user \in User
      BY <2>1, <2>4, CallShape DEF StoreInv, InPlace, StartCall
    <3>2. (RunningOf(call[s].user) = {})'
      BY <1>7, <1>9, <2>1, <3>1 DEF PendingAlone
    <3>3. QED
      BY <1>3, <2>1, <3>1, <3>2 DEF PendingAlone, Others, NewRunning
  <2>5. ASSUME Inserts(s)' PROVE IdFresh(s)'
    <3>1. Inserts(s) /\ IdFresh(s)
      BY <2>1, <2>5 DEF Inserts, StoreInv
    <3>2. call[s].id \in Id /\ entries[call[s].id] = NoEntry
      BY <3>1, CallShape DEF Inserts, IdFresh, StartCall, CreateCall
    <3>3. locks[call[s].id] # r
      BY <3>2, NoReqAssumption DEF StoreInv, LocksHeld, HolderWrites, Live
    <3>4. entries'[call[s].id] = NoEntry
      BY <1>2, <1>9, <3>1, <3>2, <3>3 DEF WritesOwn, IdFresh
    <3>5. QED
      BY <1>3, <2>1, <3>1, <3>4 DEF IdFresh, Inserts, Others, NoCall
  <2>6. QED
    BY <2>2, <2>3, <2>4, <2>5
<1>10. ~Inserts(r)'
  BY <1>3 DEF Inserts, NoCall
<1>11. QED
  BY <1>1, <1>3, <1>6, <1>8, <1>9, <1>10 DEF StoreInv

-----------------------------------------------------------------------------
(* Every action keeps the invariant. *)

(* A request that arrives. *)
LEMMA ArriveInv == ASSUME Inv, NEW r \in Req, Arrive(r) PROVE Inv'
<1>1. TypeOK'
  BY ArriveType DEF Inv
<1>2. PICK c \in Calls : /\ Call(r, c)
                         /\ c.op \in {"start", "create"} => Fresh(c.id)
  <2>0. clock \in Time
    BY DEF Inv, TypeOK
  <2>1. CASE CallStart(r)
    BY <2>0, <2>1 DEF CallStart, Calls, StartCall
  <2>2. CASE CallTimer(r)
    BY <2>0, <2>2 DEF CallTimer, Calls, TimerCall, TimerOps
  <2>3. CASE CallToggle(r)
    BY <2>3 DEF CallToggle, Calls, ToggleCall
  <2>4. CASE CallCreate(r)
    BY <2>4 DEF CallCreate, Calls, CreateCall
  <2>5. CASE CallUpdate(r)
    BY <2>5 DEF CallUpdate, Calls, UpdateCall
  <2>6. CASE CallDelete(r)
    BY <2>6 DEF CallDelete, Calls, DeleteCall
  <2>7. CASE CallSetStatus(r)
    BY <2>7 DEF CallSetStatus, Calls, StatusCall
  <2>8. QED
    BY <2>1, <2>2, <2>3, <2>4, <2>5, <2>6, <2>7 DEF Arrive
<1>3. /\ Others(r) /\ pc'[r] = "begin" /\ call'[r] = c /\ pc[r] = "idle"
      /\ entries' = entries /\ locks' = locks
  BY <1>2 DEF Inv, TypeOK, Call, Others
<1>4. c # NoCall
  BY DEF Calls, NoCall, StartCall, TimerCall, ToggleCall, CreateCall,
         UpdateCall, DeleteCall, StatusCall, TimerOps
<1>5. InPlace(r)'
  BY <1>3, <1>4 DEF InPlace
<1>6. \A id \in Id : locks'[id] # r
  BY <1>3, NoReqAssumption DEF Inv, StoreInv, LocksHeld, HolderWrites
<1>7. Inserts(r)' => IdFresh(r)'
  BY <1>2, <1>3 DEF Inserts, IdFresh, Fresh, Others
<1>8. QED
  BY <1>1, <1>3, <1>5, <1>6, <1>7, StepInv

(* StartTimer. *)
LEMMA StartSelectInv == ASSUME Inv, NEW r \in Req, StartSelect(r) PROVE Inv'
<1>1. CASE Refuse(r, "already_running")
  BY <1>1, RefuseInv DEF Answers
<1>2. CASE Goto(r, "insert") /\ UNCHANGED <<locks, call, row, todo>>
  <2>1. TypeOK'
    BY <1>2 DEF Inv, TypeOK, Goto, Locations
  <2>2. /\ Others(r) /\ entries' = entries /\ locks' = locks
        /\ pc'[r] = "insert" /\ call'[r] = call[r]
    BY <1>2 DEF Inv, TypeOK, Goto, Others
  <2>3. call[r].op = "start" /\ pc[r] = "begin"
    BY DEF StartSelect
  <2>4. InPlace(r)'
    BY <2>2, <2>3 DEF InPlace, NoCall
  <2>5. \A id \in Id : locks'[id] # r
    BY <2>2, <2>3, NoReqAssumption DEF Inv, StoreInv, LocksHeld, HolderWrites
  <2>6. Inserts(r)' => IdFresh(r)'
    BY <2>2 DEF Inv, StoreInv, Inserts, IdFresh, Others
  <2>7. QED
    BY <2>1, <2>2, <2>4, <2>5, <2>6, StepInv
<1>3. QED
  BY <1>1, <1>2 DEF StartSelect

LEMMA StartInsertInv == ASSUME Inv, NEW r \in Req, StartInsert(r) PROVE Inv'
<1>0. /\ pc[r] = "insert" /\ call[r].op = "start" /\ call[r] \in StartCall
  BY CallShape DEF StartInsert, Inv, StoreInv, InPlace
<1>1. CASE Refuse(r, "already_running")
  BY <1>1, RefuseInv DEF Answers
<1>2. CASE /\ RunningOf(call[r].user) = {}
           /\ Goto(r, "commit")
           /\ row' = [row EXCEPT ![r] = NewRunning(call[r])]
           /\ UNCHANGED <<locks, call, todo>>
  <2>1. NewRunning(call[r]) \in TimeEntry
    BY <1>0 DEF NewRunning, StartCall, TimeEntry, Status, Time
  <2>2. TypeOK'
    BY <1>2, <2>1 DEF Inv, TypeOK, Goto, Locations
  <2>3. /\ Others(r) /\ entries' = entries /\ locks' = locks /\ call' = call
        /\ pc'[r] = "commit" /\ row'[r] = NewRunning(call[r])
    BY <1>2 DEF Inv, TypeOK, Goto, Others
  <2>4. InPlace(r)'
    BY <1>0, <2>3 DEF InPlace, NoCall
  <2>5. \A id \in Id : locks'[id] # r
    BY <1>0, <2>3, NoReqAssumption DEF Inv, StoreInv, LocksHeld, HolderWrites
  <2>6. Inserts(r)' => IdFresh(r)'
    BY <2>3 DEF Inv, StoreInv, Inserts, IdFresh
  <2>7. PendingAlone(r)'
    BY <1>2, <2>3
    DEF StartInsert, InsertPending, PendingAlone, NewRunning, RunningOf, Live, Others
  <2>8. QED
    BY <2>2, <2>3, <2>4, <2>5, <2>6, <2>7, StepInv
<1>3. QED
  BY <1>1, <1>2 DEF StartInsert

LEMMA StartCommitInv == ASSUME Inv, NEW r \in Req, StartCommit(r) PROVE Inv'
<1> DEFINE e == [entries EXCEPT ![call[r].id] = row[r]]
<1>1. /\ pc[r] = "commit" /\ call[r].op = "start" /\ call[r] \in StartCall
      /\ row[r] = NewRunning(call[r])
  BY CallShape DEF StartCommit, Inv, StoreInv, InPlace, PendingAlone
<1>2. row[r] \in TimeEntry /\ row[r].status = StatusOpen /\ row[r].user = call[r].user
  BY <1>1 DEF NewRunning, StartCall, TimeEntry, Status, Time
<1>3. e \in Table
  BY <1>2 DEF Inv, TypeOK, Table
<1>4. WritesOwn(r, e)
  BY <1>1 DEF WritesOwn, Inserts, Inv, TypeOK
<1>5. RunsAsBefore(r, e)
  BY <1>1, <1>2 DEF RunsAsBefore, Inv, StoreInv, RunningIsOpen, RunningOf, Live,
                    TypeOK, TimeEntry
<1>6. QED
  BY <1>3, <1>4, <1>5, CommitInv DEF StartCommit

(* The timer operations. *)
LEMMA TimerFindInv == ASSUME Inv, NEW r \in Req, TimerFind(r) PROVE Inv'
<1>0. pc[r] = "begin" /\ call[r].op \in TimerOps /\ call[r] \in TimerCall
  BY CallShape DEF TimerFind, Inv
<1>1. CASE Refuse(r, "not_running")
  BY <1>1, RefuseInv DEF Answers
<1>2. ASSUME NEW id \in RunningOf(call[r].user),
             call' = [call EXCEPT ![r].id = id],
             Goto(r, "lock"), UNCHANGED <<locks, row, todo>>
      PROVE  Inv'
  <2>1. id \in Id
    BY DEF RunningOf
  <2>2. [call[r] EXCEPT !.id = id] \in TimerCall
    BY <1>0, <2>1 DEF TimerCall
  <2>3. /\ Others(r) /\ entries' = entries /\ locks' = locks
        /\ pc'[r] = "lock" /\ call'[r] = [call[r] EXCEPT !.id = id]
    BY <1>2 DEF Inv, TypeOK, Goto, Others
  <2>4. TypeOK'
    BY <1>2, <2>2 DEF Inv, TypeOK, Goto, Locations, Calls
  <2>5. call'[r].op = call[r].op /\ call'[r].id = id /\ call'[r] # NoCall
    BY <1>0, <2>3 DEF TimerCall, NoCall, TimerOps
  <2>6. InPlace(r)'
    BY <1>0, <2>1, <2>3, <2>5 DEF InPlace, TimerOps
  <2>7. \A i \in Id : locks'[i] # r
    BY <1>0, <2>3, NoReqAssumption DEF Inv, StoreInv, LocksHeld, HolderWrites
  <2>8. ~Inserts(r)'
    BY <1>0, <2>5 DEF Inserts, TimerOps
  <2>9. QED
    BY <2>3, <2>4, <2>6, <2>7, <2>8, StepInv
<1>3. QED
  BY <1>1, <1>2 DEF TimerFind

LEMMA TimerLockInv == ASSUME Inv, NEW r \in Req, TimerLock(r) PROVE Inv'
<1> DEFINE id == call[r].id
<1>0. pc[r] = "lock" /\ call[r].op \in TimerOps /\ id \in Id /\ locks[id] = NoReq
  BY DEF TimerLock, LockFree, Inv, StoreInv, InPlace
<1>1. CASE Refuse(r, "not_running")
  BY <1>1, RefuseInv DEF Answers
<1>2. CASE /\ id \in RunningOf(call[r].user)
           /\ Goto(r, "write")
           /\ locks' = [locks EXCEPT ![id] = r]
           /\ row' = [row EXCEPT ![r] = entries[id]]
           /\ UNCHANGED <<call, todo>>
  <2>1. entries[id] \in TimeEntry
    BY <1>2, LiveType DEF Inv, RunningOf
  <2>2. TypeOK'
    BY <1>0, <1>2, <2>1 DEF Inv, TypeOK, Goto, Locations
  <2>3. /\ Others(r) /\ entries' = entries /\ call' = call
        /\ pc'[r] = "write" /\ row'[r] = entries[id]
        /\ locks'[id] = r /\ \A i \in Id : i # id => locks'[i] = locks[i]
    BY <1>0, <1>2 DEF Inv, TypeOK, Goto, Others
  <2>4. InPlace(r)'
    BY <1>0, <2>3 DEF Inv, StoreInv, InPlace, TimerOps
  <2>5. \A i \in Id : locks'[i] = r => i = id
    BY <1>0, <2>3, NoReqAssumption DEF Inv, StoreInv, LocksHeld, HolderWrites
  <2>6. HolderWrites(r, id)'
    BY <1>2, <2>3 DEF HolderWrites, RunningOf, Live
  <2>7. WriterKnows(r)'
    BY <1>0, <1>2, <2>3 DEF WriterKnows, RunningOf, Live, TimerOps
  <2>8. ~Inserts(r)'
    BY <1>0, <2>3 DEF Inserts, TimerOps
  <2>9. QED
    BY <1>0, <2>2, <2>3, <2>4, <2>5, <2>6, <2>7, <2>8, NoReqAssumption, StepInv
<1>3. QED
  BY <1>1, <1>2 DEF TimerLock

(* The UPDATE of mutateRunning, whatever it writes in the timer columns:   *)
(* the row was running under the lock, so no row starts to run.            *)
LEMMA TimerWriteInv ==
  ASSUME Inv, NEW r \in Req, pc[r] = "write", call[r].op \in TimerOps,
         NEW a \in Int, NEW b \in Int, NEW c \in Int,
         Commit(r, [entries EXCEPT ![call[r].id] = SetTimer(@, a, b, c)])
  PROVE  Inv'
<1> DEFINE id == call[r].id
           e  == [entries EXCEPT ![id] = SetTimer(entries[id], a, b, c)]
<1>1. /\ id \in Id /\ locks[id] = r
      /\ id \in RunningOf(call[r].user)
  BY DEF Inv, StoreInv, InPlace, WriterKnows
<1>2. /\ entries[id] \in TimeEntry /\ entries[id].status = StatusOpen
      /\ SetTimer(entries[id], a, b, c) \in TimeEntry
  <2>1. entries[id] \in TimeEntry /\ entries[id].status = StatusOpen
    BY <1>1, LiveType DEF Inv, StoreInv, RunningIsOpen, RunningOf
  <2>2. StatusOpen \in Status
    BY DEF Status
  <2>3. QED
    BY <2>1, <2>2, SetType
<1>3. e \in Table
  BY <1>2 DEF Inv, TypeOK, Table
<1>4. WritesOwn(r, e)
  BY <1>1 DEF WritesOwn, Inv, TypeOK
<1>5. RunsAsBefore(r, e)
  <2> SUFFICES ASSUME NEW i \in Id, e[i] \notin {NoEntry, Gone}, IsRunning(e[i])
               PROVE  e[i].status = StatusOpen /\ i \in RunningOf(e[i].user)
    BY DEF RunsAsBefore
  <2>1. CASE i = id
    BY <1>1, <1>2, <2>1 DEF Inv, TypeOK, SetTimer, RunningOf
  <2>2. CASE i # id
    BY <2>2 DEF Inv, TypeOK, StoreInv, RunningIsOpen, RunningOf, Live
  <2>3. QED
    BY <2>1, <2>2
<1>6. QED
  BY <1>3, <1>4, <1>5, CommitInv

LEMMA StopTimerInv == ASSUME Inv, NEW r \in Req, StopTimer(r) PROVE Inv'
<1>1. /\ pc[r] = "write" /\ call[r].op \in TimerOps /\ call[r].now \in Int
      /\ row[r] \in TimeEntry
  BY CallShape, LiveType
  DEF StopTimer, TimerOps, TimerCall, Time, Inv, StoreInv, WriterKnows, RunningOf
<1>2. BreakTotal(row[r], call[r].now) \in Int
  BY <1>1, BreakTotalType
<1>3. QED
  BY <1>1, <1>2, TimerWriteInv DEF StopTimer

LEMMA StartBreakInv == ASSUME Inv, NEW r \in Req, StartBreak(r) PROVE Inv'
<1>1. /\ pc[r] = "write" /\ call[r].op \in TimerOps /\ call[r].now \in Int
      /\ row[r] \in TimeEntry
  BY CallShape, LiveType
  DEF StartBreak, TimerOps, TimerCall, Time, Inv, StoreInv, WriterKnows, RunningOf
<1>2. row[r].end \in Int /\ row[r].brk \in Int
  BY <1>1 DEF TimeEntry
<1>3. CASE Refuse(r, "already_on_break")
  BY <1>3, RefuseInv DEF Answers
<1>4. CASE Commit(r, [entries EXCEPT ![call[r].id] =
                        SetTimer(@, row[r].end, row[r].brk, call[r].now)])
  BY <1>1, <1>2, <1>4, TimerWriteInv
<1>5. QED
  BY <1>3, <1>4 DEF StartBreak

LEMMA StopBreakInv == ASSUME Inv, NEW r \in Req, StopBreak(r) PROVE Inv'
<1>1. /\ pc[r] = "write" /\ call[r].op \in TimerOps /\ call[r].now \in Int
      /\ row[r] \in TimeEntry
  BY CallShape, LiveType
  DEF StopBreak, TimerOps, TimerCall, Time, Inv, StoreInv, WriterKnows, RunningOf
<1>2. row[r].end \in Int /\ BreakTotal(row[r], call[r].now) \in Int
  BY <1>1, BreakTotalType DEF TimeEntry
<1>3. CASE Refuse(r, "not_on_break")
  BY <1>3, RefuseInv DEF Answers
<1>4. CASE Commit(r, [entries EXCEPT ![call[r].id] =
                        SetTimer(@, row[r].end,
                                 BreakTotal(row[r], call[r].now), 0)])
  BY <1>1, <1>2, <1>4, TimerWriteInv
<1>5. QED
  BY <1>3, <1>4 DEF StopBreak

(* `/track break` becomes a break start or a break stop. *)
LEMMA BreakToggleInv == ASSUME Inv, NEW r \in Req, BreakToggle(r) PROVE Inv'
<1>0. pc[r] = "begin" /\ call[r].op = "toggle" /\ call[r] \in ToggleCall
  BY CallShape DEF BreakToggle, Inv
<1>1. CASE Refuse(r, "not_running")
  BY <1>1, RefuseInv DEF Answers
<1>2. ASSUME NEW op \in {"stopBreak", "startBreak"},
             call' = [call EXCEPT ![r] = [op |-> op, user |-> call[r].user,
                                          id |-> NoEntry, now |-> clock]],
             UNCHANGED <<entries, locks, clock, pc, row, todo, answer>>
      PROVE  Inv'
  <2>1. [op |-> op, user |-> call[r].user, id |-> NoEntry, now |-> clock] \in TimerCall
    BY <1>0 DEF Inv, TypeOK, ToggleCall, TimerCall, TimerOps
  <2>2. /\ Others(r) /\ entries' = entries /\ locks' = locks /\ pc'[r] = "begin"
        /\ call'[r] = [op |-> op, user |-> call[r].user, id |-> NoEntry, now |-> clock]
    BY <1>0, <1>2 DEF Inv, TypeOK, Others
  <2>3. TypeOK'
    BY <1>2, <2>1 DEF Inv, TypeOK, Calls
  <2>4. InPlace(r)'
    BY <1>2, <2>2 DEF InPlace, NoCall
  <2>5. \A i \in Id : locks'[i] # r
    BY <1>0, <2>2, NoReqAssumption DEF Inv, StoreInv, LocksHeld, HolderWrites
  <2>6. ~Inserts(r)'
    BY <1>2, <2>2 DEF Inserts
  <2>7. QED
    BY <2>2, <2>3, <2>4, <2>5, <2>6, StepInv
<1>3. QED
  BY <1>1, <1>2 DEF BreakToggle

(* POST /entries. *)
LEMMA CreateEntryInv == ASSUME Inv, NEW r \in Req, CreateEntry(r) PROVE Inv'
<1> DEFINE m == NewManual(call[r])
           e == [entries EXCEPT ![call[r].id] = m]
<1>0. pc[r] = "begin" /\ call[r].op = "create" /\ call[r] \in CreateCall
  BY CallShape DEF CreateEntry, Inv
<1>1. CASE Refuse(r, "invalid")
  BY <1>1, RefuseInv DEF Answers
<1>2. CASE ~IsRunning(m) /\ Commit(r, e)
  <2>1. m \in TimeEntry
    BY <1>0, ManualAssumption DEF NewManual, CreateCall, TimeEntry, Status
  <2>2. e \in Table
    BY <2>1 DEF Inv, TypeOK, Table
  <2>3. WritesOwn(r, e)
    BY <1>0 DEF WritesOwn, Inserts, Inv, TypeOK
  <2>4. RunsAsBefore(r, e)
    <3> SUFFICES ASSUME NEW i \in Id, e[i] \notin {NoEntry, Gone}, IsRunning(e[i])
                 PROVE  e[i].status = StatusOpen /\ i \in RunningOf(e[i].user)
      BY DEF RunsAsBefore
    <3>1. i # call[r].id
      BY <1>2 DEF Inv, TypeOK
    <3>2. QED
      BY <3>1 DEF Inv, TypeOK, StoreInv, RunningIsOpen, RunningOf, Live
  <2>5. QED
    BY <1>2, <2>2, <2>3, <2>4, CommitInv
<1>3. QED
  BY <1>1, <1>2 DEF CreateEntry

(* PUT and DELETE. *)
LEMMA PatchedType ==
  ASSUME NEW e \in TimeEntry, NEW p \in Patch
  PROVE  Patched(e, p) \in TimeEntry
<1>1. /\ Field(p, "start", e.start) \in Int
      /\ Field(p, "end", e.end) \in Int
      /\ Field(p, "brk", e.brk) \in Int
  BY PatchAssumption DEF Field, TimeEntry
<1>2. QED
  BY <1>1 DEF Patched, SetBody, TimeEntry

LEMMA UpdateGetInv == ASSUME Inv, NEW r \in Req, UpdateGet(r) PROVE Inv'
<1> DEFINE id == call[r].id
           e  == Patched(entries[id], call[r].patch)
<1>0. pc[r] = "begin" /\ call[r].op = "update" /\ call[r] \in UpdateCall
  BY CallShape DEF UpdateGet, Inv
<1>1. CASE Refuse(r, "not_found") \/ Refuse(r, "invalid")
  BY <1>1, RefuseInv DEF Answers
<1>2. CASE /\ Owned(id, call[r].user)
           /\ ~IsRunning(e) /\ WellFormed(e)
           /\ Goto(r, "lock")
           /\ row' = [row EXCEPT ![r] = e]
           /\ UNCHANGED <<locks, call, todo>>
  <2>1. e \in TimeEntry
    BY <1>0, <1>2, LiveType, PatchedType DEF Inv, UpdateCall, Owned
  <2>2. /\ Others(r) /\ entries' = entries /\ locks' = locks /\ call' = call
        /\ pc'[r] = "lock" /\ row'[r] = e
    BY <1>2 DEF Inv, TypeOK, Goto, Others
  <2>3. TypeOK'
    BY <1>2, <2>1 DEF Inv, TypeOK, Goto, Locations
  <2>4. InPlace(r)'
    BY <1>0, <1>2, <2>1, <2>2 DEF InPlace, NoCall, UpdateCall
  <2>5. \A i \in Id : locks'[i] # r
    BY <1>0, <2>2, NoReqAssumption DEF Inv, StoreInv, LocksHeld, HolderWrites
  <2>6. ~Inserts(r)'
    BY <1>0, <2>2 DEF Inserts
  <2>7. QED
    BY <2>2, <2>3, <2>4, <2>5, <2>6, StepInv
<1>3. QED
  BY <1>1, <1>2 DEF UpdateGet, ValidateAt

LEMMA OwnerLockInv == ASSUME Inv, NEW r \in Req, OwnerLock(r) PROVE Inv'
<1> DEFINE id == call[r].id
<1>0. /\ call[r].op \in {"update", "delete"} /\ id \in Id
      /\ pc[r] \in {"lock", "begin"}
      /\ call[r].op = "update" =>
           row[r] \in TimeEntry /\ ~IsRunning(row[r]) /\ WellFormed(row[r])
  BY CallShape DEF OwnerLock, Inv, StoreInv, InPlace, UpdateCall, DeleteCall
<1>1. CASE Refuse(r, "not_found") \/ Refuse(r, "locked")
  BY <1>1, RefuseInv DEF Answers
<1>2. CASE /\ Owned(id, call[r].user) /\ locks[id] = NoReq
           /\ entries[id].status = StatusOpen
           /\ Goto(r, "write")
           /\ locks' = [locks EXCEPT ![id] = r]
           /\ UNCHANGED <<call, row, todo>>
  <2>1. TypeOK'
    BY <1>0, <1>2 DEF Inv, TypeOK, Goto, Locations
  <2>2. /\ Others(r) /\ entries' = entries /\ call' = call /\ row' = row
        /\ pc'[r] = "write"
        /\ locks'[id] = r /\ \A i \in Id : i # id => locks'[i] = locks[i]
    BY <1>0, <1>2 DEF Inv, TypeOK, Goto, Others
  <2>3. InPlace(r)'
    BY <1>0, <2>2 DEF InPlace, NoCall, TimerOps
  <2>4. \A i \in Id : locks'[i] = r => i = id
    BY <1>0, <2>2, NoReqAssumption DEF Inv, StoreInv, LocksHeld, HolderWrites
  <2>5. HolderWrites(r, id)'
    BY <1>2, <2>2 DEF HolderWrites, Owned, Live
  <2>6. WriterKnows(r)'
    BY <1>0, <1>2, <2>2 DEF WriterKnows, Owned, Live, TimerOps
  <2>7. ~Inserts(r)'
    BY <1>0, <2>2 DEF Inserts
  <2>8. QED
    BY <1>2, <2>1, <2>2, <2>3, <2>4, <2>5, <2>6, <2>7, NoReqAssumption, StepInv
<1>3. QED
  BY <1>1, <1>2 DEF OwnerLock, LockFree

LEMMA UpdateWriteInv == ASSUME Inv, NEW r \in Req, UpdateWrite(r) PROVE Inv'
<1> DEFINE id == call[r].id
           e  == [entries EXCEPT ![id] =
                    SetBody(entries[id], row[r].start, row[r].end, row[r].brk)]
<1>1. /\ pc[r] = "write" /\ call[r].op = "update" /\ id \in Id /\ locks[id] = r
      /\ entries[id] \in TimeEntry
      /\ row[r] \in TimeEntry /\ row[r].end # 0
  BY LiveType DEF UpdateWrite, Inv, StoreInv, InPlace, WriterKnows, IsRunning
<1>2. SetBody(entries[id], row[r].start, row[r].end, row[r].brk) \in TimeEntry
  BY <1>1 DEF SetBody, TimeEntry
<1>3. e \in Table
  BY <1>2 DEF Inv, TypeOK, Table
<1>4. WritesOwn(r, e)
  BY <1>1 DEF WritesOwn, Inv, TypeOK
<1>5. RunsAsBefore(r, e)
  <2> SUFFICES ASSUME NEW i \in Id, e[i] \notin {NoEntry, Gone}, IsRunning(e[i])
               PROVE  e[i].status = StatusOpen /\ i \in RunningOf(e[i].user)
    BY DEF RunsAsBefore
  <2>1. i # id
    BY <1>1 DEF SetBody, IsRunning, Inv, TypeOK
  <2>2. QED
    BY <2>1 DEF Inv, TypeOK, StoreInv, RunningIsOpen, RunningOf, Live
<1>6. QED
  BY <1>3, <1>4, <1>5, CommitInv DEF UpdateWrite

LEMMA DeleteWriteInv == ASSUME Inv, NEW r \in Req, DeleteWrite(r) PROVE Inv'
<1> DEFINE id == call[r].id
           e  == [entries EXCEPT ![id] = Gone]
<1>1. id \in Id /\ locks[id] = r
  BY DEF DeleteWrite, Inv, StoreInv, InPlace, WriterKnows
<1>2. e \in Table /\ WritesOwn(r, e)
  BY <1>1 DEF Inv, TypeOK, Table, WritesOwn
<1>3. RunsAsBefore(r, e)
  BY <1>1 DEF RunsAsBefore, Inv, TypeOK, StoreInv, RunningIsOpen, RunningOf, Live
<1>4. QED
  BY <1>2, <1>3, CommitInv DEF DeleteWrite

(* SetStatusRange. *)
LEMMA SweepBeginInv == ASSUME Inv, NEW r \in Req, SweepBegin(r) PROVE Inv'
<1>0. pc[r] = "begin" /\ call[r].op = "setStatus"
  BY DEF SweepBegin
<1>1. /\ Others(r) /\ entries' = entries /\ locks' = locks /\ call' = call
      /\ row' = row /\ pc'[r] = "sweep"
  BY DEF SweepBegin, Inv, TypeOK, Goto, Others
<1>2. TypeOK'
  BY DEF SweepBegin, Inv, TypeOK, Goto, Locations
<1>3. InPlace(r)'
  BY <1>0, <1>1 DEF InPlace, NoCall
<1>4. \A i \in Id : locks'[i] # r
  BY <1>0, <1>1, NoReqAssumption DEF Inv, StoreInv, LocksHeld, HolderWrites
<1>5. ~Inserts(r)'
  BY <1>0, <1>1 DEF Inserts
<1>6. QED
  BY <1>1, <1>2, <1>3, <1>4, <1>5, StepInv

LEMMA SweepRowInv == ASSUME Inv, NEW r \in Req, SweepRow(r) PROVE Inv'
<1>0. PICK id \in todo[r] :
        /\ pc[r] = "sweep"
        /\ locks[id] = NoReq
        /\ todo' = [todo EXCEPT ![r] = @ \ {id}]
        /\ locks' = [locks EXCEPT ![id] = IF Matches(call[r], id) THEN r ELSE @]
        /\ UNCHANGED <<entries, clock, pc, call, row, answer>>
  BY DEF SweepRow, LockFree
<1>1. /\ id \in Id /\ call[r].op = "setStatus" /\ InPlace(r)
      /\ \A i \in Id : locks[i] = r => HolderWrites(r, i)
  BY <1>0, NoReqAssumption DEF Inv, TypeOK, StoreInv, InPlace, LocksHeld
<1>2. /\ Others(r) /\ entries' = entries /\ call' = call /\ pc' = pc /\ row' = row
      /\ \A i \in Id : locks'[i] = locks[i] \/ i = id
      /\ locks'[id] = NoReq \/ (locks'[id] = r /\ Matches(call[r], id))
  <2>1. /\ \A i \in Id : locks'[i] = locks[i] \/ i = id
        /\ locks'[id] = IF Matches(call[r], id) THEN r ELSE NoReq
    BY <1>0, <1>1 DEF Inv, TypeOK
  <2>2. Others(r)
    BY <1>0, <1>1 DEF Inv, TypeOK, Others
  <2>3. locks'[id] = NoReq \/ (locks'[id] = r /\ Matches(call[r], id))
    BY <2>1
  <2>4. QED
    BY <1>0, <2>1, <2>2, <2>3
<1>3. TypeOK'
  BY <1>0, <1>1 DEF Inv, TypeOK
<1>4. InPlace(r)'
  BY <1>1, <1>2 DEF InPlace
<1>5. \A i \in Id : locks'[i] = r => HolderWrites(r, i)'
  BY <1>0, <1>1, <1>2, NoReqAssumption DEF HolderWrites, Matches, Owned, Live
<1>6. ~Inserts(r)'
  BY <1>1, <1>2 DEF Inserts
<1>7. \A s \in Req, i \in Id : s # r /\ locks[i] = s => locks'[i] = s
  BY <1>0, <1>2, NoReqAssumption
<1>8. QED
  BY <1>0, <1>2, <1>3, <1>4, <1>5, <1>6, <1>7, StepInv

LEMMA SweepCommitInv == ASSUME Inv, NEW r \in Req, SweepCommit(r) PROVE Inv'
<1> DEFINE e == [id \in Id |-> IF locks[id] = r
                              THEN SetStatus(entries[id], call[r].move[2])
                              ELSE entries[id]]
<1>1. /\ pc[r] = "sweep" /\ call[r].op = "setStatus" /\ call[r].move[2] \in Status
  BY CallShape
  DEF SweepCommit, Inv, StoreInv, InPlace, StatusCall, Moves, Status
<1>2. \A id \in Id : locks[id] = r =>
        /\ Matches(call[r], id) /\ entries[id] \in TimeEntry
        /\ SetStatus(entries[id], call[r].move[2]) \in TimeEntry
  <2> SUFFICES ASSUME NEW id \in Id, locks[id] = r
               PROVE  /\ Matches(call[r], id) /\ entries[id] \in TimeEntry
                      /\ SetStatus(entries[id], call[r].move[2]) \in TimeEntry
    OBVIOUS
  <2>1. HolderWrites(r, id)
    BY NoReqAssumption DEF Inv, StoreInv, LocksHeld
  <2>2. Matches(call[r], id) /\ entries[id] \in TimeEntry
    BY <1>1, <2>1, LiveType DEF HolderWrites, Inv
  <2>3. QED
    BY <1>1, <2>2 DEF SetStatus, TimeEntry
<1>3. e \in Table
  BY <1>2 DEF Inv, TypeOK, Table
<1>4. WritesOwn(r, e)
  BY DEF WritesOwn
<1>5. RunsAsBefore(r, e)
  <2> SUFFICES ASSUME NEW i \in Id, e[i] \notin {NoEntry, Gone}, IsRunning(e[i])
               PROVE  e[i].status = StatusOpen /\ i \in RunningOf(e[i].user)
    BY DEF RunsAsBefore
  <2>1. locks[i] # r
    BY <1>2 DEF SetStatus, IsRunning, Matches
  <2>2. QED
    BY <2>1 DEF Inv, TypeOK, StoreInv, RunningIsOpen, RunningOf, Live
<1>6. QED
  BY <1>3, <1>4, <1>5, CommitInv DEF SweepCommit

LEMMA TickInv == ASSUME Inv, Tick PROVE Inv'
<1>1. TypeOK'
  BY ClockAssumption DEF Inv, Tick, TypeOK, Time
<1>2. QED
  BY <1>1 DEF Inv, Tick, StoreInv, LocksHeld, HolderWrites, Matches, Owned, Live,
    InPlace, WriterKnows, PendingAlone, Inserts, IdFresh, RunningOf,
    SingleRunning, RunningIsOpen

LEMMA StutterInv == ASSUME Inv, UNCHANGED vars PROVE Inv'
BY DEF Inv, vars, TypeOK, StoreInv, LocksHeld, HolderWrites, Matches, Owned, Live,
  InPlace, WriterKnows, PendingAlone, Inserts, IdFresh, RunningOf,
  SingleRunning, RunningIsOpen

LEMMA InitInv == Init => Inv
<1> SUFFICES ASSUME Init PROVE Inv
  OBVIOUS
<1>1. TypeOK
  BY ClockAssumption
  DEF Init, TypeOK, Time, Locations, Answers
<1>2. LocksHeld /\ SingleRunning /\ RunningIsOpen
  BY DEF Init, LocksHeld, SingleRunning, RunningIsOpen, RunningOf, Live
<1>3. ASSUME NEW r \in Req
      PROVE  InPlace(r) /\ pc[r] = "idle" /\ ~Inserts(r)
  BY DEF Init, InPlace, Inserts, NoCall
<1>4. QED
  BY <1>1, <1>2, <1>3 DEF Inv, StoreInv

(* One step of the system keeps the invariant. *)
LEMMA NextInv == Inv /\ [Next]_vars => Inv'
<1> SUFFICES ASSUME Inv, [Next]_vars PROVE Inv'
  OBVIOUS
<1>1. ASSUME NEW r \in Req, Arrive(r) PROVE Inv'
  BY <1>1, ArriveInv
<1>2. ASSUME NEW r \in Req, Acquire(r) PROVE Inv'
  BY <1>2, StartInsertInv, TimerLockInv, OwnerLockInv, SweepRowInv DEF Acquire
<1>3. ASSUME NEW r \in Req, DeadlockVictim(r) \/ Abort(r) PROVE Inv'
  BY <1>3, RefuseInv DEF DeadlockVictim, Abort, Answers
<1>4. ASSUME NEW r \in Req, Proceed(r) PROVE Inv'
  BY <1>3, <1>4, StartSelectInv, StartCommitInv, TimerFindInv, StopTimerInv,
     StartBreakInv, StopBreakInv, BreakToggleInv, CreateEntryInv, UpdateGetInv,
     UpdateWriteInv, DeleteWriteInv, SweepBeginInv, SweepCommitInv
  DEF Proceed
<1>5. QED
  BY <1>1, <1>2, <1>3, <1>4, TickInv, StutterInv DEF Next

-----------------------------------------------------------------------------
(* The results. *)

(* The inductive invariant holds in every state the program reaches. *)
THEOREM InvHolds == Spec => []Inv
BY InitInv, NextInv, PTL DEF Spec

(* All state stays well typed. *)
THEOREM TypeCorrect == Spec => []TypeOK
BY InvHolds, PTL DEF Inv

(* What lock holders rely on holds throughout. *)
THEOREM StoreInvHolds == Spec => []StoreInv
BY InvHolds, PTL DEF Inv

(* A user has at most one running entry, however many requests run. *)
THEOREM AtMostOneRunning == Spec => []SingleRunning
<1>1. Inv => SingleRunning
  BY DEF Inv, StoreInv
<1>2. QED
  BY <1>1, InvHolds, PTL

(* No running entry is ever submitted or approved. *)
THEOREM RunningStaysOpen == Spec => []RunningIsOpen
<1>1. Inv => RunningIsOpen
  BY DEF Inv, StoreInv
<1>2. QED
  BY <1>1, InvHolds, PTL

-----------------------------------------------------------------------------
(* What a step does to a row. *)

(* The row may be inserted; an open row may be written or deleted and, if  *)
(* it is still there, is open; any other write is one of the moves.        *)
RowStep(id) ==
  \/ entries'[id] = entries[id]
  \/ entries[id] = NoEntry
  \/ /\ Live(id) /\ entries[id].status = StatusOpen
     /\ (entries'[id] = Gone) \/ (entries'[id].status = StatusOpen)
  \/ /\ Live(id)
     /\ \E m \in Moves : /\ entries[id].status = m[1]
                         /\ entries'[id] = SetStatus(entries[id], m[2])

(* Every step does one of these to every row. *)
LEMMA RowSteps == ASSUME Inv, [Next]_vars, NEW id \in Id PROVE RowStep(id)
<1>1. CASE entries' = entries
  BY <1>1 DEF RowStep
<1>2. ASSUME NEW r \in Req, StartCommit(r) \/ CreateEntry(r), entries' # entries
      PROVE  RowStep(id)
  <2>1. /\ Inserts(r)
        /\ \E v : entries' = [entries EXCEPT ![call[r].id] = v]
    BY <1>2 DEF StartCommit, CreateEntry, Commit, Refuse, Inserts, Inv, StoreInv, InPlace
  <2>2. QED
    BY <2>1 DEF RowStep, Inv, StoreInv, IdFresh, TypeOK
<1>3. ASSUME NEW r \in Req, StopTimer(r) \/ StartBreak(r) \/ StopBreak(r)
      PROVE  RowStep(id)
  <2>1. pc[r] = "write" /\ call[r].op \in TimerOps /\ call[r].id \in RunningOf(call[r].user)
    BY <1>3 DEF StopTimer, StartBreak, StopBreak, TimerOps, Inv, StoreInv, WriterKnows
  <2>2. entries' = entries \/ \E a, b, c :
          entries' = [entries EXCEPT ![call[r].id] = SetTimer(@, a, b, c)]
    BY <1>3 DEF StopTimer, StartBreak, StopBreak, Commit, Refuse
  <2>3. /\ call[r].id \in Id /\ Live(call[r].id)
        /\ entries[call[r].id].status = StatusOpen
    BY <2>1 DEF RunningOf, Inv, StoreInv, RunningIsOpen
  <2>4. ASSUME NEW a, NEW b, NEW c,
               entries' = [entries EXCEPT ![call[r].id] = SetTimer(@, a, b, c)]
        PROVE  RowStep(id)
    <3>1. CASE id = call[r].id
      BY <2>3, <2>4, <3>1 DEF RowStep, SetTimer, Inv, TypeOK
    <3>2. CASE id # call[r].id
      BY <2>4, <3>2 DEF RowStep, Inv, TypeOK
    <3>3. QED
      BY <3>1, <3>2
  <2>5. QED
    BY <1>1, <2>2, <2>4
<1>4. ASSUME NEW r \in Req, UpdateWrite(r) \/ DeleteWrite(r) PROVE RowStep(id)
  <2>1. /\ Live(call[r].id) /\ entries[call[r].id].status = StatusOpen
        /\ call[r].id \in Id
    BY <1>4 DEF UpdateWrite, DeleteWrite, Inv, StoreInv, InPlace, WriterKnows
  <2>2. \/ entries' = [entries EXCEPT ![call[r].id] = Gone]
        \/ \E a, b, c : entries' = [entries EXCEPT ![call[r].id] = SetBody(@, a, b, c)]
    BY <1>4 DEF UpdateWrite, DeleteWrite, Commit
  <2>3. ASSUME NEW v, entries' = [entries EXCEPT ![call[r].id] = v],
               (v = Gone) \/ (v.status = StatusOpen)
        PROVE  RowStep(id)
    <3>1. CASE id = call[r].id
      BY <2>1, <2>3, <3>1 DEF RowStep, Inv, TypeOK
    <3>2. CASE id # call[r].id
      BY <2>3, <3>2 DEF RowStep, Inv, TypeOK
    <3>3. QED
      BY <3>1, <3>2
  <2>4. QED
    BY <2>1, <2>2, <2>3 DEF SetBody
<1>5. ASSUME NEW r \in Req, SweepCommit(r) PROVE RowStep(id)
  <2>1. /\ entries' = [i \in Id |-> IF locks[i] = r
                                    THEN SetStatus(entries[i], call[r].move[2])
                                    ELSE entries[i]]
        /\ pc[r] = "sweep" /\ call[r] \in StatusCall
    BY <1>5, CallShape DEF SweepCommit, Commit, Inv, StoreInv, InPlace
  <2>2. CASE locks[id] = r
    <3>1. HolderWrites(r, id)
      BY <2>2, NoReqAssumption DEF Inv, StoreInv, LocksHeld
    <3>2. Live(id) /\ entries[id].status = call[r].move[1] /\ call[r].move \in Moves
      BY <2>1, <3>1 DEF HolderWrites, Matches, StatusCall
    <3>3. QED
      BY <2>1, <2>2, <3>2 DEF RowStep
  <2>3. CASE locks[id] # r
    BY <2>1, <2>3 DEF RowStep, Inv, TypeOK
  <2>4. QED
    BY <2>2, <2>3
<1>6. ASSUME NEW r \in Req, Arrive(r) \/ Acquire(r) \/ Abort(r) PROVE RowStep(id)
  <2>1. entries' = entries
    BY <1>6 DEF Arrive, CallStart, CallTimer, CallToggle, CallCreate, CallUpdate,
      CallDelete, CallSetStatus, Call, Acquire, StartInsert, TimerLock, OwnerLock,
      SweepRow, Abort, Refuse, Goto
  <2>2. QED
    BY <2>1, <1>1
<1>7. ASSUME NEW r \in Req, \/ StartSelect(r) \/ TimerFind(r) \/ BreakToggle(r)
                            \/ UpdateGet(r) \/ SweepBegin(r) \/ DeadlockVictim(r)
      PROVE  RowStep(id)
  <2>1. entries' = entries
    BY <1>7 DEF StartSelect, TimerFind, BreakToggle, UpdateGet, SweepBegin,
      DeadlockVictim, Refuse, Goto
  <2>2. QED
    BY <2>1, <1>1
<1>8. CASE Tick \/ UNCHANGED vars
  BY <1>1, <1>8 DEF Tick, vars
<1>9. QED
  BY <1>1, <1>2, <1>3, <1>4, <1>5, <1>6, <1>7, <1>8 DEF Next, Proceed

(* Submitted and approved entries are frozen but for their status. *)
THEOREM SubmittedIsFrozen == Spec => LockedIsFrozen
<1>1. ASSUME Inv, [Next]_vars, NEW id \in Id, Frozen(id)
      PROVE  /\ Live(id)'
             /\ entries'[id] = SetStatus(entries[id], entries'[id].status)
  <2>1. RowStep(id)
    BY <1>1, RowSteps
  <2>2. entries[id] \in TimeEntry /\ Live(id) /\ entries[id].status # StatusOpen
    BY <1>1, LiveType DEF Frozen, Inv
  <2>3. CASE entries'[id] = entries[id]
    BY <2>2, <2>3 DEF SetStatus, TimeEntry, Live
  <2>4. ASSUME NEW m \in Moves, entries'[id] = SetStatus(entries[id], m[2])
        PROVE  /\ Live(id)'
               /\ entries'[id] = SetStatus(entries[id], entries'[id].status)
    <3>1. m[2] \in Status
      BY DEF Moves, Status
    <3>2. entries'[id] \in TimeEntry
      BY <2>2, <2>4, <3>1, SetType
    <3>3. QED
      BY <2>4, <3>2, NoEntryAssumption DEF SetStatus, Live
  <2>5. QED
    BY <2>1, <2>2, <2>3, <2>4 DEF RowStep, Live
<1>2. Inv /\ [Next]_vars => [FrozenStep]_vars
  BY <1>1 DEF FrozenStep
<1>3. QED
  BY <1>2, InvHolds, PTL DEF Spec, LockedIsFrozen

(* Statuses move along the approval lifecycle only. *)
THEOREM LifecycleKept == Spec => LifecycleOnly
<1>1. ASSUME Inv, [Next]_vars, NEW id \in Id, Live(id), Live(id)'
      PROVE  \/ entries'[id].status = entries[id].status
             \/ <<entries[id].status, entries'[id].status>> \in Moves
  <2>1. RowStep(id)
    BY <1>1, RowSteps
  <2>2. ASSUME NEW m \in Moves, entries[id].status = m[1],
               entries'[id] = SetStatus(entries[id], m[2])
        PROVE  <<entries[id].status, entries'[id].status>> \in Moves
    BY <2>2 DEF Moves, SetStatus
  <2>3. QED
    BY <1>1, <2>1, <2>2 DEF RowStep, Live
<1>2. Inv /\ [Next]_vars => [LifecycleStep]_vars
  BY <1>1 DEF LifecycleStep
<1>3. QED
  BY <1>2, InvHolds, PTL DEF Spec, LifecycleOnly

-----------------------------------------------------------------------------
(* The accounting of breaks. *)

(* What a step must do to the breaks of a row that stays. *)
BreakRow(id) ==
  /\ OnBreak(entries[id]) /\ entries'[id].onbrk # entries[id].onbrk
       => \E r \in Req : EndsBreak(r, id)
  /\ entries'[id].brk # entries[id].brk
       => \E r \in Req : EndsBreak(r, id) \/ Edits(r, id)

(* The three timer operations account for the breaks of their row. *)
LEMMA TimerBreaks ==
  ASSUME Inv, NEW r \in Req, StopTimer(r) \/ StartBreak(r) \/ StopBreak(r),
         entries' # entries, NEW id \in Id
  PROVE  BreakRow(id)
<1> DEFINE c == call[r]
           e == entries[id]
<1>1. pc[r] = "write" /\ c.op \in TimerOps /\ row[r] = entries[c.id]
  BY DEF StopTimer, StartBreak, StopBreak, TimerOps, Inv, StoreInv, WriterKnows
<1>2. c.id \in Id /\ entries[c.id] \in TimeEntry /\ pc'[r] = "idle"
  BY <1>1, LiveType DEF StopTimer, StartBreak, StopBreak, Commit, Refuse, Finish,
    Inv, TypeOK, StoreInv, InPlace, WriterKnows, RunningOf
<1>3. CASE id # c.id
  <2>1. entries'[id] = entries[id]
    BY <1>3 DEF StopTimer, StartBreak, StopBreak, Commit, Refuse, Inv, TypeOK
  <2>2. QED
    BY <2>1 DEF BreakRow
<1>4. CASE id = c.id /\ (StopTimer(r) \/ StopBreak(r))
  <2>1. c.op \in {"stop", "stopBreak"}
    BY <1>4 DEF StopTimer, StopBreak
  <2>2. /\ entries'[id].onbrk = 0
        /\ entries'[id].brk = BreakTotal(e, c.now)
    BY <1>1, <1>2, <1>4 DEF StopTimer, StopBreak, Commit, Refuse, SetTimer, Inv,
      TypeOK
  <2>3. CASE OnBreak(e)
    <3>1. entries'[id].brk = e.brk + Seconds(c.now - e.onbrk)
      BY <2>2, <2>3 DEF BreakTotal
    <3>2. EndsBreak(r, id)
      BY <1>1, <1>2, <1>4, <2>1, <2>2, <3>1 DEF EndsBreak
    <3>3. QED
      BY <3>2 DEF BreakRow
  <2>4. CASE ~OnBreak(e)
    <3>1. entries'[id].brk = e.brk
      BY <1>2, <1>4, <2>2, <2>4 DEF BreakTotal, TimeEntry
    <3>2. QED
      BY <2>4, <3>1 DEF BreakRow
  <2>5. QED
    BY <2>3, <2>4
<1>5. CASE id = c.id /\ StartBreak(r)
  <2>1. ~OnBreak(e) /\ entries'[id].brk = e.brk
    BY <1>1, <1>2, <1>5 DEF StartBreak, Commit, Refuse, SetTimer, Inv, TypeOK
  <2>2. QED
    BY <2>1 DEF BreakRow
<1>6. QED
  BY <1>3, <1>4, <1>5

(* An edit may replace the total, and touches no active break. *)
LEMMA EditBreaks ==
  ASSUME Inv, NEW r \in Req, UpdateWrite(r), NEW id \in Id
  PROVE  BreakRow(id)
<1>1. /\ pc[r] = "write" /\ call[r].op = "update" /\ call[r].id \in Id
      /\ pc'[r] = "idle"
      /\ entries' = [entries EXCEPT ![call[r].id] =
           SetBody(entries[call[r].id], row[r].start, row[r].end, row[r].brk)]
  BY DEF UpdateWrite, Commit, Finish, Inv, TypeOK, StoreInv, InPlace
<1>2. CASE id # call[r].id
  BY <1>1, <1>2 DEF BreakRow, Inv, TypeOK
<1>3. CASE id = call[r].id
  <2>1. Edits(r, id) /\ entries'[id].onbrk = entries[id].onbrk
    BY <1>1, <1>3 DEF Edits, SetBody, Inv, TypeOK
  <2>2. QED
    BY <2>1 DEF BreakRow
<1>4. QED
  BY <1>2, <1>3

(* A break is neither lost nor counted twice. *)
THEOREM BreaksAreAccounted == Spec => BreaksAccounted
<1>1. ASSUME Inv, Next, entries' # entries, NEW id \in Id, Live(id), Live(id)'
      PROVE  BreakRow(id)
  <2>1. ASSUME NEW r \in Req, Arrive(r) \/ Acquire(r) \/ Abort(r) PROVE FALSE
    BY <1>1, <2>1 DEF Arrive, CallStart, CallTimer, CallToggle, CallCreate,
      CallUpdate, CallDelete, CallSetStatus, Call, Acquire, StartInsert, TimerLock,
      OwnerLock, SweepRow, Abort, Refuse, Goto
  <2>2. ASSUME NEW r \in Req, \/ StartSelect(r) \/ TimerFind(r) \/ BreakToggle(r)
                              \/ UpdateGet(r) \/ SweepBegin(r) \/ DeadlockVictim(r)
        PROVE  FALSE
    BY <1>1, <2>2 DEF StartSelect, TimerFind, BreakToggle, UpdateGet, SweepBegin,
      DeadlockVictim, Refuse, Goto
  <2>3. ASSUME NEW r \in Req, StartCommit(r) \/ CreateEntry(r) PROVE BreakRow(id)
    <3>1. Inserts(r) /\ \E v : entries' = [entries EXCEPT ![call[r].id] = v]
      BY <1>1, <2>3 DEF StartCommit, CreateEntry, Commit, Refuse, Inserts, Inv,
        StoreInv, InPlace
    <3>2. id # call[r].id
      BY <1>1, <3>1 DEF Inv, StoreInv, IdFresh, Live
    <3>3. entries'[id] = entries[id]
      BY <1>1, <3>1, <3>2 DEF Inv, TypeOK
    <3>4. QED
      BY <3>3 DEF BreakRow
  <2>4. ASSUME NEW r \in Req, DeleteWrite(r) PROVE BreakRow(id)
    <3>1. entries' = [entries EXCEPT ![call[r].id] = Gone]
      BY <2>4 DEF DeleteWrite, Commit
    <3>2. id # call[r].id
      BY <1>1, <3>1 DEF Inv, TypeOK, Live
    <3>3. QED
      BY <1>1, <3>1, <3>2 DEF BreakRow, Inv, TypeOK
  <2>5. ASSUME NEW r \in Req, SweepCommit(r) PROVE BreakRow(id)
    <3>1. \/ entries'[id] = entries[id]
          \/ entries'[id] = SetStatus(entries[id], call[r].move[2])
      BY <2>5 DEF SweepCommit, Commit
    <3>2. QED
      BY <3>1 DEF BreakRow, SetStatus
  <2>6. ~Tick
    BY <1>1 DEF Tick
  <2>7. QED
    BY <1>1, <2>1, <2>2, <2>3, <2>4, <2>5, <2>6, TimerBreaks, EditBreaks
    DEF Next, Proceed
<1>2. ASSUME Inv, [Next]_vars PROVE [BreakStep]_vars
  <2>1. CASE entries' = entries
    BY <2>1 DEF BreakStep
  <2>2. CASE entries' # entries
    BY <1>1, <1>2, <2>2 DEF BreakStep, BreakRow, vars
  <2>3. QED
    BY <2>1, <2>2
<1>3. Inv /\ [Next]_vars => [BreakStep]_vars
  BY <1>2
<1>4. QED
  BY <1>3, InvHolds, PTL DEF Spec, BreaksAccounted
=============================================================================
