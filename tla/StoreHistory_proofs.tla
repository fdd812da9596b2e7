------------------------ MODULE StoreHistory_proofs ------------------------
(* What an answer of the store says about the time of its request, proved  *)
(* for every set of users, ids, requests, bodies and ranges.               *)
EXTENDS StoreHistory, Refinement_proofs

(* A user without a running entry now was without one since the call.  A   *)
(* request that waits for the lock of an entry which no longer runs knows  *)
(* that of the moment at which it was stopped.                             *)
IdleKnown(r) == UserIdle(r) => wasIdle[r]

LostKnown(r) ==
  pc[r] = "lock" /\ call[r].op \in TimerOps =>
    call[r].id \in RunningOf(call[r].user) \/ wasIdle[r]

(* A row that has matched a sweep all along matches it now, and the sweep  *)
(* has locked it or has still to do so.                                    *)
StayMatches(r) == stay[r] \subseteq MatchedBy(r)

StayTaken(r) ==
  pc[r] = "sweep" => \A id \in stay[r] : id \in todo[r] \/ locks[id] = r

(* The inductive invariant of the two histories. *)
HistoryInv ==
  /\ wasIdle \in [Req -> BOOLEAN]
  /\ stay \in [Req -> SUBSET Id]
  /\ \A r \in Req : IdleKnown(r) /\ LostKnown(r) /\ StayMatches(r) /\ StayTaken(r)

-----------------------------------------------------------------------------
(* Steps of the store. *)

(* A step of one request. *)
StepOf(r) == Arrive(r) \/ Acquire(r) \/ Proceed(r) \/ Abort(r)

(* A request that answers leaves the others and their locks alone. *)
LEMMA FinishFrame ==
  ASSUME TypeOK, NEW s \in Req, NEW a, Finish(s, a)
  PROVE  /\ Others(s)
         /\ \A r \in Req, id \in Id : r # s /\ locks[id] = r => locks'[id] = r
BY DEF TypeOK, Finish, Others

(* So does every step of a request. *)
LEMMA StepFrame ==
  ASSUME Inv, NEW s \in Req, StepOf(s)
  PROVE  /\ Others(s)
         /\ \A r \in Req, id \in Id : r # s /\ locks[id] = r => locks'[id] = r
<1>0. TypeOK
  BY DEF Inv
<1> DEFINE Framed == /\ Others(s)
                     /\ \A r \in Req, id \in Id :
                          r # s /\ locks[id] = r => locks'[id] = r
<1>1. ASSUME NEW a, Finish(s, a) PROVE Framed
  BY <1>0, <1>1, FinishFrame
<1>2. CASE Arrive(s)
  <2>1. \E c : Call(s, c)
    BY <1>2 DEF Arrive, CallStart, CallTimer, CallToggle, CallCreate, CallUpdate,
      CallDelete, CallSetStatus
  <2>2. QED
    BY <1>0, <2>1 DEF Call, TypeOK, Others
<1>3. CASE StartInsert(s)
  BY <1>0, <1>1, <1>3 DEF StartInsert, Refuse, Goto, TypeOK, Others
<1>4. CASE TimerLock(s)
  BY <1>0, <1>1, <1>4, NoReqAssumption
  DEF TimerLock, LockFree, Refuse, Goto, TypeOK, Others
<1>5. CASE OwnerLock(s)
  BY <1>0, <1>1, <1>5, NoReqAssumption
  DEF OwnerLock, LockFree, Refuse, Goto, TypeOK, Others
<1>6. CASE SweepRow(s)
  BY <1>0, <1>6, NoReqAssumption DEF SweepRow, LockFree, TypeOK, Others
<1>7. CASE StartSelect(s) \/ TimerFind(s) \/ BreakToggle(s) \/ UpdateGet(s)
  BY <1>0, <1>1, <1>7
  DEF StartSelect, TimerFind, BreakToggle, UpdateGet, Refuse, Goto, TypeOK, Others
<1>8. CASE SweepBegin(s)
  BY <1>0, <1>8 DEF SweepBegin, Goto, TypeOK, Others
<1>9. CASE \/ StartCommit(s) \/ StopTimer(s) \/ StartBreak(s) \/ StopBreak(s)
           \/ CreateEntry(s) \/ UpdateWrite(s) \/ DeleteWrite(s) \/ SweepCommit(s)
           \/ DeadlockVictim(s) \/ Abort(s)
  <2>1. \E a : Finish(s, a)
    BY <1>9 DEF StartCommit, StopTimer, StartBreak, StopBreak, CreateEntry,
      UpdateWrite, DeleteWrite, SweepCommit, DeadlockVictim, Abort, Commit, Refuse
  <2>2. QED
    BY <1>1, <2>1
<1>10. QED
  BY <1>2, <1>3, <1>4, <1>5, <1>6, <1>7, <1>8, <1>9 DEF StepOf, Acquire, Proceed

(* A row that runs after an operation of Timesheet ran for the same user   *)
(* before it, or the user had no running entry.                            *)
LEMMA SheetRuns ==
  ASSUME TypeOK, Sheet!Next, NEW id \in Id, Live(id)', IsRunning(entries'[id])
  PROVE  \/ id \in RunningOf(entries'[id].user)
         \/ RunningOf(entries'[id].user) = {}
<1> DEFINE Ran == \/ id \in RunningOf(entries'[id].user)
                  \/ RunningOf(entries'[id].user) = {}
<1>1. CASE entries'[id] = entries[id]
  BY <1>1 DEF RunningOf, Live
<1>2. ASSUME NEW i \in Id, Sheet!Only(i), i # id PROVE Ran
  BY <1>1, <1>2 DEF Sheet!Only, TypeOK
<1>3. ASSUME NEW u \in User, NEW i \in Id, NEW t \in Time, Sheet!Start(u, i, t)
      PROVE  Ran
  <2>1. Sheet!Only(i) /\ Sheet!Idle(u) /\ entries'[i].user = u
    BY <1>3 DEF Sheet!Start
  <2>2. RunningOf(u) = {}
    BY <2>1, SameData DEF Sheet!Idle, Sheet!Running, RunningOf
  <2>3. QED
    BY <1>2, <2>1, <2>2
<1>4. ASSUME NEW i \in Id, NEW t \in Time,
             Sheet!Stop(i, t) \/ Sheet!BreakOn(i, t) \/ Sheet!BreakOff(i, t)
      PROVE  Ran
  <2>1. Sheet!Only(i) /\ Live(i) /\ IsRunning(entries[i])
    BY <1>4, SameData DEF Sheet!Stop, Sheet!BreakOn, Sheet!BreakOff, Sheet!Running
  <2>2. entries'[i].user = entries[i].user
    BY <1>4 DEF Sheet!Stop, Sheet!BreakOn, Sheet!BreakOff, Sheet!SetTimer
  <2>3. QED
    BY <1>2, <2>1, <2>2 DEF RunningOf
<1>5. ASSUME NEW i \in Id, Sheet!Record(i) \/ Sheet!Edit(i) \/ Sheet!Remove(i)
      PROVE  Ran
  <2>1. Sheet!Only(i)
    BY <1>5 DEF Sheet!Record, Sheet!Edit, Sheet!Remove
  <2>2. ~(Live(i)' /\ IsRunning(entries'[i]))
    BY <1>5, SameData DEF Sheet!Record, Sheet!Edit, Sheet!Remove, Live
  <2>3. QED
    BY <1>2, <2>1, <2>2
<1>6. ASSUME NEW u \in User, NEW m \in Moves, NEW S \in SUBSET Id, Sheet!Decide(u, m, S)
      PROVE  Ran
  <2>1. CASE id \notin S
    BY <1>1, <1>6, <2>1 DEF Sheet!Decide
  <2>2. CASE id \in S
    <3>1. ~Sheet!IsRunning(entries[id]) /\ entries'[id] = Sheet!SetStatus(entries[id], m[2])
      BY <1>6, <2>2 DEF Sheet!Decide
    <3>2. entries'[id].end = entries[id].end
      BY <3>1 DEF Sheet!SetStatus
    <3>3. QED
      BY <3>1, <3>2 DEF Sheet!IsRunning, IsRunning
  <2>3. QED
    BY <2>1, <2>2
<1>7. QED
  BY <1>3, <1>4, <1>5, <1>6, SameData DEF Sheet!Next

(* A user who has a running entry gets no other one in the same step. *)
LEMMA NoneStarts ==
  ASSUME Inv, [Next]_vars, NEW u \in User, RunningOf(u) # {}
  PROVE  RunningOf(u)' \subseteq RunningOf(u)
<1>1. CASE UNCHANGED entries
  BY <1>1 DEF RunningOf, Live
<1>2. CASE Sheet!Next
  BY <1>2, SheetRuns DEF RunningOf, Inv
<1>3. QED
  BY <1>1, <1>2, StepRefines

(* Who waits for the lock of an entry waited for it before the step, or    *)
(* the entry is running.                                                   *)
LEMMA Waiting ==
  ASSUME Inv, [Next]_vars, NEW r \in Req, pc'[r] = "lock", call'[r].op \in TimerOps
  PROVE  \/ pc[r] = "lock" /\ call'[r] = call[r]
         \/ (call[r].id \in RunningOf(call[r].user))'
<1>0. TypeOK
  BY DEF Inv
<1>1. CASE pc'[r] = pc[r] /\ call'[r] = call[r]
  BY <1>1
<1>2. ASSUME NEW s \in Req, StepOf(s), s # r
      PROVE  pc'[r] = pc[r] /\ call'[r] = call[r]
  BY <1>2, StepFrame DEF Others
<1>3. ASSUME NEW a, Finish(r, a) PROVE FALSE
  BY <1>0, <1>3 DEF Finish, TypeOK
<1>4. CASE StepOf(r)
  <2>1. CASE TimerFind(r)
    <3>1. PICK id \in RunningOf(call[r].user) :
            call' = [call EXCEPT ![r].id = id] /\ UNCHANGED entries
      BY <1>3, <2>1 DEF TimerFind, Refuse, Goto
    <3>2. call[r] \in TimerCall
      BY <2>1, CallShape DEF Inv, TimerFind
    <3>3. call'[r] = [call[r] EXCEPT !.id = id]
      BY <1>0, <3>1 DEF TypeOK
    <3>4. call'[r].id = id /\ call'[r].user = call[r].user
      BY <3>2, <3>3 DEF TimerCall
    <3>5. QED
      BY <3>1, <3>4 DEF RunningOf, Live
  <2>2. CASE UpdateGet(r)
    <3>1. call'[r].op = "update"
      BY <1>3, <2>2 DEF UpdateGet, Refuse
    <3>2. QED
      BY <3>1 DEF TimerOps
  <2>3. CASE Arrive(r)
    BY <1>0, <2>3 DEF Arrive, CallStart, CallTimer, CallToggle, CallCreate,
      CallUpdate, CallDelete, CallSetStatus, Call, TypeOK
  <2>4. CASE Acquire(r)
    BY <1>0, <1>3, <2>4, Zenon DEF Acquire, StartInsert, TimerLock, OwnerLock, SweepRow,
      Refuse, Goto, TypeOK
  <2>5. CASE StartSelect(r) \/ BreakToggle(r) \/ SweepBegin(r)
    BY <1>0, <1>3, <2>5 DEF StartSelect, BreakToggle, SweepBegin, Refuse, Goto, TypeOK
  <2>6. CASE \/ StartCommit(r) \/ StopTimer(r) \/ StartBreak(r) \/ StopBreak(r)
             \/ CreateEntry(r) \/ UpdateWrite(r) \/ DeleteWrite(r) \/ SweepCommit(r)
             \/ DeadlockVictim(r) \/ Abort(r)
    BY <1>3, <2>6 DEF StartCommit, StopTimer, StartBreak, StopBreak, CreateEntry,
      UpdateWrite, DeleteWrite, SweepCommit, DeadlockVictim, Abort, Commit, Refuse
  <2>7. QED
    BY <1>4, <2>1, <2>2, <2>3, <2>4, <2>5, <2>6 DEF StepOf, Proceed
<1>5. QED
  BY <1>1, <1>2, <1>4 DEF Next, Tick, vars, StepOf

(* A sweep that is under way after the step has locked, or has still to    *)
(* lock, each row that matches and that it had not lost before.            *)
LEMMA Sweeping ==
  ASSUME Inv, [Next]_vars, NEW r \in Req, pc'[r] = "sweep",
         NEW id \in Id, Matches(call[r], id)',
         pc[r] = "sweep" => id \in todo[r] \/ locks[id] = r
  PROVE  id \in todo'[r] \/ locks'[id] = r
<1>0. TypeOK
  BY DEF Inv
<1>1. CASE UNCHANGED <<pc, todo, locks>>
  BY <1>1
<1>2. ASSUME NEW s \in Req, StepOf(s), s # r
      PROVE  id \in todo'[r] \/ locks'[id] = r
  BY <1>2, StepFrame DEF Others
<1>3. ASSUME NEW a, Finish(r, a) PROVE FALSE
  BY <1>0, <1>3 DEF Finish, TypeOK
<1>4. CASE StepOf(r)
  <2>1. CASE SweepBegin(r)
    <3>1. /\ entries' = entries /\ call' = call
          /\ todo'[r] = {i \in Id : Matches(call[r], i)}
      BY <1>0, <2>1 DEF SweepBegin, Goto, TypeOK
    <3>2. Matches(call[r], id)
      BY <3>1 DEF Matches, Owned, Live
    <3>3. QED
      BY <3>1, <3>2
  <2>2. CASE SweepRow(r)
    <3>1. PICK i \in todo[r] :
            /\ pc[r] = "sweep"
            /\ todo' = [todo EXCEPT ![r] = @ \ {i}]
            /\ locks' = [locks EXCEPT ![i] = IF Matches(call[r], i) THEN r ELSE @]
            /\ UNCHANGED <<entries, call>>
      BY <2>2 DEF SweepRow
    <3>2. Matches(call[r], id)
      BY <3>1 DEF Matches, Owned, Live
    <3>3. /\ todo'[r] = todo[r] \ {i}
          /\ locks'[i] = IF Matches(call[r], i) THEN r ELSE locks[i]
          /\ \A j \in Id : j # i => locks'[j] = locks[j]
      BY <1>0, <3>1 DEF TypeOK
    <3>4. QED
      BY <3>1, <3>2, <3>3
  <2>3. CASE Arrive(r)
    BY <1>0, <2>3 DEF Arrive, CallStart, CallTimer, CallToggle, CallCreate,
      CallUpdate, CallDelete, CallSetStatus, Call, TypeOK
  <2>4. CASE StartInsert(r) \/ TimerLock(r) \/ OwnerLock(r)
    BY <1>0, <1>3, <2>4 DEF StartInsert, TimerLock, OwnerLock, Refuse, Goto, TypeOK
  <2>5. CASE StartSelect(r) \/ TimerFind(r) \/ BreakToggle(r) \/ UpdateGet(r)
    BY <1>0, <1>3, <2>5 DEF StartSelect, TimerFind, BreakToggle, UpdateGet, Refuse,
      Goto, TypeOK
  <2>6. CASE \/ StartCommit(r) \/ StopTimer(r) \/ StartBreak(r) \/ StopBreak(r)
             \/ CreateEntry(r) \/ UpdateWrite(r) \/ DeleteWrite(r) \/ SweepCommit(r)
             \/ DeadlockVictim(r) \/ Abort(r)
    BY <1>3, <2>6 DEF StartCommit, StopTimer, StartBreak, StopBreak, CreateEntry,
      UpdateWrite, DeleteWrite, SweepCommit, DeadlockVictim, Abort, Commit, Refuse
  <2>7. QED
    BY <1>4, <2>1, <2>2, <2>3, <2>4, <2>5, <2>6 DEF StepOf, Acquire, Proceed
<1>5. QED
  BY <1>1, <1>2, <1>4 DEF Next, Tick, vars, StepOf

(* A request that is answered made the step itself. *)
LEMMA AnsweredByOwnStep ==
  ASSUME Inv, Next, NEW r \in Req, NEW a, AnswersWith(r, a)
  PROVE  StepOf(r)
<1>1. ASSUME NEW s \in Req, StepOf(s), s # r PROVE FALSE
  BY <1>1, StepFrame DEF Others, AnswersWith
<1>2. QED
  BY <1>1 DEF Next, StepOf, Tick, AnswersWith

-----------------------------------------------------------------------------
(* The histories. *)

(* Nothing is known of a request before it is called. *)
LEMMA HistoryInitInv == HistoryInit => HistoryInv
BY DEF HistoryInit, Init, HistoryInv, IdleKnown, LostKnown, StayMatches, StayTaken,
  UserIdle, AsksRunning, TimerOps, NoCall

(* Every step keeps what is known. *)
LEMMA HistoryNextInv ==
  ASSUME Inv, HistoryInv, [Next /\ Watch]_historyVars, Inv'
  PROVE  HistoryInv'
<1>1. CASE UNCHANGED historyVars
  BY <1>1 DEF historyVars, vars, HistoryInv, IdleKnown, LostKnown, StayMatches,
    StayTaken, UserIdle, AsksRunning, MatchedBy, Sweeps, Matches, Owned, Live,
    RunningOf
<1>2. CASE Next /\ Watch
  <2>1. /\ wasIdle' \in [Req -> BOOLEAN] /\ stay' \in [Req -> SUBSET Id]
    BY <1>2 DEF Watch, HistoryInv, MatchedBy, UserIdle, AsksRunning
  <2>2. ASSUME NEW r \in Req PROVE IdleKnown(r)'
    BY <1>2 DEF Watch, IdleKnown
  <2>3. ASSUME NEW r \in Req PROVE StayMatches(r)'
    BY <1>2 DEF Watch, StayMatches
  <2>4. ASSUME NEW r \in Req PROVE LostKnown(r)'
    <3> SUFFICES ASSUME pc'[r] = "lock", call'[r].op \in TimerOps,
                        (call[r].id \notin RunningOf(call[r].user))'
                 PROVE  wasIdle'[r]
      BY DEF LostKnown
    <3>1. pc[r] = "lock" /\ call'[r] = call[r]
      BY <1>2, Waiting
    <3>2. AsksRunning(r)'
      BY DEF AsksRunning
    <3>3. call[r].user \in User
      BY <3>1, CallShape DEF Inv, TimerCall
    <3>4. CASE call[r].id \notin RunningOf(call[r].user)
      <4>1. wasIdle[r]
        BY <3>1, <3>4 DEF HistoryInv, LostKnown
      <4>2. QED
        BY <1>2, <3>2, <4>1 DEF Watch
    <3>5. CASE call[r].id \in RunningOf(call[r].user)
      <4>1. RunningOf(call[r].user) = {call[r].id}
        BY <3>3, <3>5 DEF Inv, StoreInv, SingleRunning
      <4>2. RunningOf(call[r].user)' \subseteq RunningOf(call[r].user)
        BY <1>2, <3>1, <3>3, <4>1, NoneStarts DEF RunningOf
      <4>3. (RunningOf(call[r].user) = {})'
        BY <3>1, <4>1, <4>2
      <4>4. UserIdle(r)'
        BY <3>2, <4>3 DEF UserIdle
      <4>5. QED
        BY <1>2, <4>4 DEF Watch
    <3>6. QED
      BY <3>4, <3>5
  <2>5. ASSUME NEW r \in Req PROVE StayTaken(r)'
    <3> SUFFICES ASSUME pc'[r] = "sweep", NEW id \in stay'[r]
                 PROVE  id \in todo'[r] \/ locks'[id] = r
      BY DEF StayTaken
    <3>1. id \in Id /\ Matches(call[r], id)'
      BY <2>1, <2>3 DEF StayMatches, MatchedBy
    <3>2. pc[r] = "sweep" => id \in todo[r] \/ locks[id] = r
      BY <1>2 DEF Watch, HistoryInv, StayTaken
    <3>3. QED
      BY <1>2, <3>1, <3>2, Sweeping
  <2>6. QED
    BY <2>1, <2>2, <2>3, <2>4, <2>5 DEF HistoryInv
<1>3. QED
  BY <1>1, <1>2

(* The histories only watch: what was proved of the store holds with them. *)
LEMMA HistoryIsOfStore == HistorySpec => Spec
<1>1. HistoryInit => Init
  BY DEF HistoryInit
<1>2. [Next /\ Watch]_historyVars => [Next]_vars
  BY DEF historyVars
<1>3. QED
  BY <1>1, <1>2, PTL DEF HistorySpec, Spec

(* What is known of the requests holds in every reachable state. *)
THEOREM HistoryInvHolds == HistorySpec => [](Inv /\ HistoryInv)
<1>1. HistorySpec => []Inv
  BY HistoryIsOfStore, InvHolds, PTL
<1>2. Inv /\ HistoryInv /\ [Next /\ Watch]_historyVars /\ Inv' => HistoryInv'
  BY HistoryNextInv
<1>3. QED
  BY <1>1, <1>2, HistoryInitInv, PTL DEF HistorySpec

(* A request that is told "not running" was told the truth of some moment  *)
(* after it was called, also when it waited for the lock of an entry that  *)
(* was stopped and its user started another one meanwhile (mutateRunning). *)
THEOREM NotRunningWasTrue == HistorySpec => NotRunningIsTrue
<1>1. ASSUME Inv, HistoryInv, Next, NEW r \in Req, AnswersWith(r, "not_running")
      PROVE  wasIdle[r]
  <2>0. TypeOK
    BY <1>1 DEF Inv
  <2>1. ASSUME NEW a, Finish(r, a) PROVE a = "not_running"
    BY <1>1, <2>0, <2>1 DEF AnswersWith, Finish, TypeOK
  <2>2. pc'[r] # pc[r] /\ pc'[r] = "idle" /\ pc[r] # "idle"
    BY <1>1 DEF AnswersWith
  <2>3. ASSUME AsksRunning(r), RunningOf(call[r].user) = {} PROVE wasIdle[r]
    BY <1>1, <2>3 DEF HistoryInv, IdleKnown, UserIdle
  <2>4. CASE TimerFind(r) \/ BreakToggle(r)
    BY <2>0, <2>2, <2>3, <2>4 DEF TimerFind, BreakToggle, Goto, TypeOK, AsksRunning
  <2>5. CASE TimerLock(r)
    <3>1. /\ pc[r] = "lock" /\ call[r].op \in TimerOps
          /\ call[r].id \notin RunningOf(call[r].user)
      BY <2>0, <2>2, <2>5 DEF TimerLock, Goto, TypeOK
    <3>2. QED
      BY <1>1, <3>1 DEF HistoryInv, LostKnown
  <2>6. CASE Arrive(r) \/ SweepRow(r) \/ SweepBegin(r)
    BY <2>0, <2>2, <2>6 DEF Arrive, CallStart, CallTimer, CallToggle, CallCreate,
      CallUpdate, CallDelete, CallSetStatus, Call, SweepRow, SweepBegin, Goto, TypeOK
  <2>7. CASE StartInsert(r) \/ OwnerLock(r) \/ StartSelect(r) \/ UpdateGet(r)
    BY <2>0, <2>1, <2>2, <2>7 DEF StartInsert, OwnerLock, StartSelect, UpdateGet,
      Refuse, Goto, TypeOK
  <2>8. CASE \/ StartCommit(r) \/ StopTimer(r) \/ StartBreak(r) \/ StopBreak(r)
             \/ CreateEntry(r) \/ UpdateWrite(r) \/ DeleteWrite(r) \/ SweepCommit(r)
             \/ DeadlockVictim(r) \/ Abort(r)
    BY <2>1, <2>8 DEF StartCommit, StopTimer, StartBreak, StopBreak, CreateEntry,
      UpdateWrite, DeleteWrite, SweepCommit, DeadlockVictim, Abort, Commit, Refuse
  <2>9. QED
    BY <1>1, <2>4, <2>5, <2>6, <2>7, <2>8, AnsweredByOwnStep
    DEF StepOf, Acquire, Proceed
<1> DEFINE True == \A r \in Req : AnswersWith(r, "not_running") => wasIdle[r]
<1>2. Inv /\ HistoryInv /\ [Next /\ Watch]_historyVars => [True]_historyVars
  BY <1>1
<1>3. QED
  BY <1>2, HistoryInvHolds, PTL DEF HistorySpec, NotRunningIsTrue

(* A submit, withdrawal, approval, rejection or reopening that succeeds    *)
(* has moved every row that matched all the time (SetStatusRange).         *)
THEOREM SweepsAreComplete == HistorySpec => SweepIsComplete
<1>1. ASSUME Inv, HistoryInv, Next, NEW r \in Req, Sweeps(r), AnswersWith(r, "ok"),
             NEW id \in stay[r]
      PROVE  Live(id)' /\ entries'[id].status = call[r].move[2]
  <2>0. TypeOK /\ InPlace(r) /\ call[r].op = "setStatus"
    BY <1>1 DEF Inv, StoreInv, Sweeps
  <2>1. ASSUME NEW a, Finish(r, a) PROVE a = "ok"
    BY <1>1, <2>0, <2>1 DEF AnswersWith, Finish, TypeOK
  <2>2. pc'[r] # pc[r] /\ pc'[r] = "idle" /\ pc[r] # "idle"
    BY <1>1 DEF AnswersWith
  <2>3. SweepCommit(r)
    <3>1. CASE Arrive(r) \/ SweepRow(r) \/ SweepBegin(r)
      BY <2>0, <2>2, <3>1 DEF Arrive, CallStart, CallTimer, CallToggle, CallCreate,
        CallUpdate, CallDelete, CallSetStatus, Call, SweepRow, SweepBegin, Goto,
        TypeOK
    <3>2. CASE \/ StartInsert(r) \/ TimerLock(r) \/ OwnerLock(r) \/ StartSelect(r)
               \/ TimerFind(r) \/ BreakToggle(r) \/ UpdateGet(r)
      BY <2>0, <3>2 DEF StartInsert, TimerLock, OwnerLock, StartSelect, TimerFind,
        BreakToggle, UpdateGet, InPlace, TimerOps
    <3>3. CASE \/ StartCommit(r) \/ StopTimer(r) \/ StartBreak(r) \/ StopBreak(r)
               \/ CreateEntry(r) \/ UpdateWrite(r) \/ DeleteWrite(r)
      BY <2>0, <3>3 DEF StartCommit, StopTimer, StartBreak, StopBreak, CreateEntry,
        UpdateWrite, DeleteWrite, InPlace
    <3>4. CASE DeadlockVictim(r) \/ Abort(r)
      BY <2>1, <3>4 DEF DeadlockVictim, Abort, Refuse
    <3>5. QED
      BY <1>1, <3>1, <3>2, <3>3, <3>4, AnsweredByOwnStep DEF StepOf, Acquire, Proceed
  <2>4. /\ id \in Id /\ pc[r] = "sweep" /\ todo[r] = {}
        /\ entries' = [i \in Id |-> IF locks[i] = r
                                    THEN SetStatus(entries[i], call[r].move[2])
                                    ELSE entries[i]]
    BY <1>1, <2>3 DEF SweepCommit, Commit, HistoryInv
  <2>5. locks[id] = r
    BY <1>1, <2>4 DEF HistoryInv, StayTaken
  <2>6. HolderWrites(r, id)
    BY <1>1, <2>4, <2>5, NoReqAssumption DEF Inv, StoreInv, LocksHeld
  <2>7. /\ entries[id] \in TimeEntry
        /\ call[r].move[2] \in Status
    BY <2>0, <2>4, <2>6, LiveType, CallShape DEF HolderWrites, StatusCall, Moves,
      Status
  <2>8. /\ entries'[id] \in TimeEntry
        /\ entries'[id].status = call[r].move[2]
    BY <2>4, <2>5, <2>7 DEF SetStatus, TimeEntry
  <2>9. QED
    BY <2>8, NoEntryAssumption DEF Live
<1> DEFINE Complete ==
      \A r \in Req : Sweeps(r) /\ AnswersWith(r, "ok") =>
        \A id \in stay[r] : Live(id)' /\ entries'[id].status = call[r].move[2]
<1>2. Inv /\ HistoryInv /\ [Next /\ Watch]_historyVars => [Complete]_historyVars
  BY <1>1
<1>3. QED
  BY <1>2, HistoryInvHolds, PTL DEF HistorySpec, SweepIsComplete
=============================================================================
