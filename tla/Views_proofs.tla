---------------------------- MODULE Views_proofs ----------------------------
(***************************************************************************)
(* Proofs about the views of the web client, for any number of calls in    *)
(* flight: their types, and that the flags of a view say what calls of its *)
(* own are in flight (Views).  This holds because a view is unmounted with *)
(* all that waits for it and one view is mounted at a time.  The invariant *)
(* carries the proofs of WebClient_proofs, too.                            *)
(***************************************************************************)
EXTENDS WebClient, TLAPS

-----------------------------------------------------------------------------
(* Calls. *)

(* A call that has just been sent. *)
LEMMA SentCall ==
  ASSUME NEW op, NEW owner, NEW arg, NEW then, NEW c, c = Sent(op, owner, arg, then)
  PROVE  /\ c.op = op /\ c.owner = owner /\ c.arg = arg /\ c.then = then
         /\ c.phase = "sent" /\ c.got = <<>>
BY DEF Sent

LEMMA NoCallIsNone ==
  /\ NoCall.op = "none" /\ NoCall.owner = "none" /\ NoCall.phase = "sent"
  /\ NoCall.got = <<>> /\ NoCall.then = <<>>
BY SentCall DEF NoCall

(* A slot is pending or empty. *)
LEMMA PendingIsCall ==
  ASSUME NEW n, AreCalls(n), NEW s \in Slot
  PROVE  /\ s \in PendingIn(n) => IsCall(n[s])
         /\ s \notin PendingIn(n) => n[s] = NoCall
         /\ n[s].owner # "none" \/ n[s].op # "none" => s \in PendingIn(n)
<1>1. ASSUME NEW c, IsCall(c) PROVE c.op # "none"
  BY <1>1 DEF IsCall, Op, TimerCalls, EntryCalls, Reads
<1>2. QED
  BY <1>1, NoCallIsNone DEF AreCalls, PendingIn

(* A call by its parts. *)
LEMMA CallFields ==
  ASSUME NEW c, IsCall(c)
  PROVE  /\ c \in [op : Op, owner : {"sidebar", "dialog", "report", "gone"},
                   arg : {c.arg}, then : {c.then},
                   phase : {"sent", "admitted", "ok", "error"}, got : {c.got}]
         /\ Asks(c) /\ Continues(c) /\ Carries(c)
         /\ c.op # "none"
BY DEF IsCall, Op, TimerCalls, EntryCalls, Reads

(* Calls as the views send them. *)
LEMMA SentIsCall ==
  ASSUME NEW op \in Op, NEW owner \in {"sidebar", "dialog", "report"}, NEW arg, NEW then,
         NEW c, c = Sent(op, owner, arg, then), Asks(c), Continues(c)
  PROVE  IsCall(c)
<1>1. Carries(c)
  BY SentCall DEF Carries
<1>2. QED
  BY <1>1 DEF IsCall, Sent

LEMMA RefetchIsCall ==
  ASSUME NEW w \in Week, NEW kind \in {"effect", "run", "saved"}
  PROVE  IsCall(Refetch(w, kind))
<1> DEFINE c == Refetch(w, kind)
<1>1. c.op = "refetch" /\ c.owner = "sidebar" /\ c.arg = w
      /\ c.then = [kind |-> kind, week |-> w]
  BY SentCall DEF Refetch
<1>2. Asks(c) /\ Continues(c)
  BY <1>1 DEF Asks, Continues
<1>3. QED
  BY <1>2, SentIsCall DEF Refetch, Op, Reads

LEMMA ReloadIsCall ==
  ASSUME NEW sel \in Selections, NEW kind \in {"effect", "action"}
  PROVE  IsCall(Reload(sel, kind))
<1> DEFINE c == Reload(sel, kind)
<1>1. c.op = "list" /\ c.owner = "report" /\ c.arg = sel
      /\ c.then = [kind |-> kind, cancelled |-> FALSE]
  BY SentCall DEF Reload
<1>2. Asks(c) /\ Continues(c)
  BY <1>1 DEF Asks, Continues
<1>3. QED
  BY <1>2, SentIsCall DEF Reload, Op, Reads

(* What becomes of the calls when a dialog or a view is closed, and of the *)
(* reloads whose signal is cancelled.                                      *)
LEMMA DetachedCalls ==
  ASSUME NEW n, AreCalls(n), NEW m, m = Detached(n)
  PROVE  /\ AreCalls(m)
         /\ \A s \in Slot :
              /\ m[s].op = n[s].op /\ m[s].owner = n[s].owner /\ m[s].arg = n[s].arg
              /\ m[s].phase = n[s].phase /\ m[s].got = n[s].got
              /\ n[s].owner # "dialog" => m[s] = n[s]
              /\ n[s].owner = "dialog" => ~m[s].then.shown /\ m[s].then.week = n[s].then.week
<1>1. ASSUME NEW c, IsCall(c), c.owner = "dialog",
             NEW d, d = [c EXCEPT !.then.shown = FALSE]
      PROVE  /\ d.op = c.op /\ d.owner = c.owner /\ d.arg = c.arg /\ d.phase = c.phase
             /\ d.got = c.got /\ ~d.then.shown /\ d.then.week = c.then.week
             /\ IsCall(d)
  <2>0. c \in [op : Op, owner : {"sidebar", "dialog", "report", "gone"}, arg : {c.arg},
               then : {c.then}, phase : {"sent", "admitted", "ok", "error"}, got : {c.got}]
    BY <1>1, CallFields
  <2>1. c.then \in [shown : BOOLEAN, week : Week] /\ c.op \in EntryCalls
    BY <1>1, CallFields DEF Continues
  <2>2. /\ d.op = c.op /\ d.owner = c.owner /\ d.arg = c.arg /\ d.phase = c.phase
        /\ d.got = c.got /\ ~d.then.shown /\ d.then.week = c.then.week
        /\ d.then \in [shown : BOOLEAN, week : Week]
    BY <1>1, <2>0, <2>1
  <2>3. d \in [op : Op, owner : {"sidebar", "dialog", "report", "gone"}, arg : {d.arg},
               then : {d.then}, phase : {"sent", "admitted", "ok", "error"}, got : {d.got}]
    BY <1>1, <2>0, <2>1
  <2>4. Asks(d) /\ Continues(d) /\ Carries(d)
    BY <1>1, <2>1, <2>2, CallFields DEF Asks, Continues, Carries
  <2>5. QED
    BY <2>2, <2>3, <2>4 DEF IsCall
<1>2. ASSUME NEW s \in Slot, n[s].owner = "dialog" PROVE IsCall(n[s])
  BY <1>2, NoCallIsNone DEF AreCalls
<1>3. \A s \in Slot : m[s] = IF n[s].owner = "dialog" THEN [n[s] EXCEPT !.then.shown = FALSE]
                                                      ELSE n[s]
  BY DEF Detached
<1>4. QED
  BY <1>1, <1>2, <1>3 DEF AreCalls, Detached

LEMMA CancelledCalls ==
  ASSUME NEW n, AreCalls(n), NEW m, m = Cancel(n)
  PROVE  /\ AreCalls(m)
         /\ \A s \in Slot :
              /\ m[s].op = n[s].op /\ m[s].owner = n[s].owner /\ m[s].arg = n[s].arg
              /\ m[s].phase = n[s].phase /\ m[s].got = n[s].got
              /\ n[s].owner # "report" \/ n[s].op # "list" => m[s] = n[s]
              /\ n[s].owner = "report" /\ n[s].op = "list" =>
                   /\ m[s].then.kind = n[s].then.kind
                   /\ m[s].then.cancelled <=> n[s].then.kind = "effect"
<1>1. ASSUME NEW c, IsCall(c), c.owner = "report", c.op = "list",
             NEW d, d = [c EXCEPT !.then.cancelled = TRUE], c.then.kind = "effect"
      PROVE  /\ d.op = c.op /\ d.owner = c.owner /\ d.arg = c.arg /\ d.phase = c.phase
             /\ d.got = c.got /\ d.then.cancelled /\ d.then.kind = c.then.kind
             /\ IsCall(d)
  <2>0. c \in [op : Op, owner : {"sidebar", "dialog", "report", "gone"}, arg : {c.arg},
               then : {c.then}, phase : {"sent", "admitted", "ok", "error"}, got : {c.got}]
    BY <1>1, CallFields
  <2>1. c.then \in [kind : {"effect", "action"}, cancelled : BOOLEAN]
    BY <1>1, CallFields DEF Continues
  <2>2. /\ d.op = c.op /\ d.owner = c.owner /\ d.arg = c.arg /\ d.phase = c.phase
        /\ d.got = c.got /\ d.then.cancelled /\ d.then.kind = c.then.kind
        /\ d.then \in [kind : {"effect", "action"}, cancelled : BOOLEAN]
    BY <1>1, <2>0, <2>1
  <2>3. d \in [op : Op, owner : {"sidebar", "dialog", "report", "gone"}, arg : {d.arg},
               then : {d.then}, phase : {"sent", "admitted", "ok", "error"}, got : {d.got}]
    BY <1>1, <2>0, <2>1
  <2>4. Asks(d) /\ Continues(d) /\ Carries(d)
    BY <1>1, <2>1, <2>2, CallFields DEF Asks, Continues, Carries
  <2>5. QED
    BY <2>2, <2>3, <2>4 DEF IsCall
<1>2. ASSUME NEW s \in Slot, n[s].owner = "report" PROVE IsCall(n[s])
  BY <1>2, NoCallIsNone DEF AreCalls
<1>3. ASSUME NEW s \in Slot, n[s].owner = "report", n[s].op = "list", n[s].then.kind # "effect"
      PROVE  ~n[s].then.cancelled
  BY <1>2, <1>3, CallFields DEF Continues
<1>4. \A s \in Slot :
        m[s] = IF n[s].owner = "report" /\ n[s].op = "list" /\ n[s].then.kind = "effect"
               THEN [n[s] EXCEPT !.then.cancelled = TRUE] ELSE n[s]
  BY DEF Cancel
<1>5. QED
  BY <1>1, <1>2, <1>3, <1>4 DEF AreCalls, Cancel

LEMMA UnownedCall ==
  ASSUME NEW c, IsCall(c), c.op \notin Reads, NEW d, d = Unowned(c)
  PROVE  /\ d.op = c.op /\ d.owner = "gone" /\ d.arg = c.arg /\ d.phase = c.phase
         /\ d.got = c.got /\ IsCall(d)
<1>1. c \in [op : Op, owner : {"sidebar", "dialog", "report", "gone"}, arg : {c.arg},
             then : {c.then}, phase : {"sent", "admitted", "ok", "error"}, got : {c.got}]
  BY CallFields
<1>2. /\ d.op = c.op /\ d.owner = "gone" /\ d.arg = c.arg /\ d.phase = c.phase
      /\ d.got = c.got /\ d.then = <<>>
  BY <1>1 DEF Unowned
<1>3. d \in [op : Op, owner : {"sidebar", "dialog", "report", "gone"}, arg : {d.arg},
             then : {d.then}, phase : {"sent", "admitted", "ok", "error"}, got : {d.got}]
  BY <1>1 DEF Unowned
<1>4. Asks(d) /\ Continues(d) /\ Carries(d)
  BY <1>2, CallFields DEF Asks, Continues, Carries
<1>5. QED
  BY <1>2, <1>3, <1>4 DEF IsCall

LEMMA OrphanedCalls ==
  ASSUME AreCalls(net), NEW owners, "gone" \notin owners, "none" \notin owners,
         NEW m, m = Orphaned(owners)
  PROVE  /\ AreCalls(m)
         /\ \A s \in Slot :
              /\ net[s].owner \notin owners => m[s] = net[s]
              /\ net[s].owner \in owners /\ net[s].op \in Reads => m[s] = NoCall
              /\ net[s].owner \in owners /\ net[s].op \notin Reads =>
                   /\ m[s].owner = "gone" /\ m[s].op = net[s].op /\ m[s].arg = net[s].arg
                   /\ m[s].phase = net[s].phase /\ m[s].got = net[s].got
         /\ \A s \in Slot : m[s].owner \notin owners
<1>1. \A c : IsCall(c) /\ c.op \notin Reads =>
        /\ Unowned(c).op = c.op /\ Unowned(c).owner = "gone" /\ Unowned(c).arg = c.arg
        /\ Unowned(c).phase = c.phase /\ Unowned(c).got = c.got /\ IsCall(Unowned(c))
  BY UnownedCall
<1>2. ASSUME NEW s \in Slot, net[s].owner \in owners PROVE IsCall(net[s])
  BY <1>2, NoCallIsNone DEF AreCalls
<1>3. \A s \in Slot :
        m[s] = IF net[s].owner \notin owners THEN net[s]
               ELSE IF net[s].op \in Reads THEN NoCall
               ELSE Unowned(net[s])
  BY DEF Orphaned
<1>4. m = [s \in Slot |-> m[s]]
  BY DEF Orphaned
<1>5. ASSUME NEW s \in Slot
      PROVE  /\ m[s] = NoCall \/ IsCall(m[s])
             /\ net[s].owner \notin owners => m[s] = net[s]
             /\ net[s].owner \in owners /\ net[s].op \in Reads => m[s] = NoCall
             /\ net[s].owner \in owners /\ net[s].op \notin Reads =>
                  /\ m[s].owner = "gone" /\ m[s].op = net[s].op /\ m[s].arg = net[s].arg
                  /\ m[s].phase = net[s].phase /\ m[s].got = net[s].got
             /\ m[s].owner \notin owners
  <2>1. CASE net[s].owner \notin owners
    BY <1>3, <2>1 DEF AreCalls
  <2>2. CASE net[s].owner \in owners /\ net[s].op \in Reads
    BY <1>3, <2>2, NoCallIsNone
  <2>3. CASE net[s].owner \in owners /\ net[s].op \notin Reads
    <3>1. m[s] = Unowned(net[s]) /\ IsCall(net[s])
      BY <1>2, <1>3, <2>3
    <3>2. /\ m[s].op = net[s].op /\ m[s].owner = "gone" /\ m[s].arg = net[s].arg
          /\ m[s].phase = net[s].phase /\ m[s].got = net[s].got /\ IsCall(m[s])
      BY <1>1, <2>3, <3>1
    <3>3. QED
      BY <2>3, <3>2
  <2>4. QED
    BY <2>1, <2>2, <2>3
<1>6. QED
  BY <1>4, <1>5 DEF AreCalls

-----------------------------------------------------------------------------
(* The table. *)

(* The operations the server executes, for the browser and for others.     *)
TableOperation(u) ==
  \/ \E id \in Id : StartTimer(u, id)
  \/ StopTimer(u) \/ StartBreak(u) \/ StopBreak(u)
  \/ \E id \in Id, b \in Bodies : Create(u, id, b) \/ Update(u, id, b)
  \/ \E id \in Id : Delete(u, id)
  \/ \E weeks \in SUBSET Week, m \in Moves : SetStatusRange(u, weeks, m)

LEMMA StoredIsRow ==
  ASSUME entries \in [Id -> TimeEntry \cup {NoEntry, Gone}], NEW id \in Id
  PROVE  /\ id \in Stored <=> entries[id] \in TimeEntry
         /\ id \in Stored <=> entries[id] # NoEntry /\ entries[id] # Gone
BY NoRowAssumption DEF Stored

LEMMA BreakTotalType ==
  ASSUME NEW e \in TimeEntry, NEW now \in Int
  PROVE  BreakTotal(e, now) \in Int
<1>1. e.brk \in Int /\ e.onbrk \in Int
  BY DEF TimeEntry
<1>2. \A ms \in Int : Seconds(ms) \in Int
  BY MillisAssumption DEF Seconds
<1>3. Seconds(now - e.onbrk) \in Int
  BY <1>1, <1>2
<1>4. QED
  BY <1>1, <1>3 DEF BreakTotal

LEMMA RowTypes ==
  ASSUME NEW e \in TimeEntry, NEW a \in Int, NEW b \in Int, NEW c \in Int,
         NEW status \in Status
  PROVE  /\ SetTimer(e, a, b, c) \in TimeEntry /\ SetBody(e, a, b, c) \in TimeEntry
         /\ SetStatus(e, status) \in TimeEntry
BY DEF TimeEntry, SetTimer, SetBody, SetStatus

(* What the handlers let into the table. *)
LEMMA ValidBody ==
  ASSUME NEW b \in Bodies, Valid(b), week \in Week
  PROVE  /\ b.start \in 1 .. week + FutureSkewMillis
         /\ b.end \in 1 .. week + FutureSkewMillis
         /\ b.brk \in Int /\ b.brk >= 0 /\ b.end # 0
         /\ b.end >= b.start /\ b.end - b.start <= MaxEntryMillis
<1>1. b.start \in Int /\ b.end \in Int /\ b.brk \in Int /\ week \in Int
  BY BodiesAssumption DEF Week
<1>2. ValidateAt(Manual(Me, b), week) /\ b.end # 0
  BY DEF Valid
<1>3. Manual(Me, b).start = b.start /\ Manual(Me, b).end = b.end /\ Manual(Me, b).brk = b.brk
  BY DEF Manual
<1>4. QED
  BY <1>1, <1>2, <1>3, BoundsAssumption DEF ValidateAt, WellFormed, IsRunning

(* An operation on one row: which, and what it becomes. *)
RowChange(u, id, e) ==
  \/ /\ entries[id] = NoEntry /\ Running(u) = {}
     /\ e = [user |-> u, start |-> week, end |-> 0, brk |-> 0, onbrk |-> 0,
             status |-> StatusOpen]
  \/ id \in Running(u) /\ e = SetTimer(entries[id], week, BreakTotal(entries[id], week), 0)
  \/ /\ id \in Running(u) /\ ~OnBreak(entries[id])
     /\ e = SetTimer(entries[id], 0, entries[id].brk, week)
  \/ /\ id \in Running(u) /\ OnBreak(entries[id])
     /\ e = SetTimer(entries[id], 0, BreakTotal(entries[id], week), 0)
  \/ entries[id] = NoEntry /\ \E b \in Bodies : Valid(b) /\ e = Manual(u, b)
  \/ /\ Editable(u, id)
     /\ \E b \in Bodies : Valid(b) /\ e = SetBody(entries[id], b.start, b.end, b.brk)
  \/ Editable(u, id) /\ e = Gone

(* An operation changes one row, or moves the status of some. *)
LEMMA OperationChanges ==
  ASSUME NEW u \in User, TableOperation(u)
  PROVE  \/ \E id \in Id : \E e : RowChange(u, id, e) /\ Set(id, e)
         \/ \E weeks \in SUBSET Week, m \in Moves : SetStatusRange(u, weeks, m)
<1>1. ASSUME NEW id \in Id, StartTimer(u, id)
      PROVE  \E e : RowChange(u, id, e) /\ Set(id, e)
  BY <1>1 DEF StartTimer, RowChange
<1>2. ASSUME StopTimer(u) PROVE \E id \in Id : \E e : RowChange(u, id, e) /\ Set(id, e)
  BY <1>2 DEF StopTimer, RowChange, Running, Stored
<1>3. ASSUME StartBreak(u) PROVE \E id \in Id : \E e : RowChange(u, id, e) /\ Set(id, e)
  BY <1>3 DEF StartBreak, RowChange, Running, Stored
<1>4. ASSUME StopBreak(u) PROVE \E id \in Id : \E e : RowChange(u, id, e) /\ Set(id, e)
  BY <1>4 DEF StopBreak, RowChange, Running, Stored
<1>5. ASSUME NEW id \in Id, NEW b \in Bodies, Create(u, id, b) \/ Update(u, id, b)
      PROVE  \E e : RowChange(u, id, e) /\ Set(id, e)
  BY <1>5 DEF Create, Update, RowChange
<1>6. ASSUME NEW id \in Id, Delete(u, id) PROVE \E e : RowChange(u, id, e) /\ Set(id, e)
  BY <1>6 DEF Delete, RowChange
<1>7. QED
  BY <1>1, <1>2, <1>3, <1>4, <1>5, <1>6 DEF TableOperation

LEMMA OpenIsStatus == StatusOpen \in Status
BY DEF Status

LEMMA RunningIsRow ==
  ASSUME entries \in [Id -> TimeEntry \cup {NoEntry, Gone}], NEW u, NEW id \in Running(u)
  PROVE  id \in Id /\ entries[id] \in TimeEntry /\ entries[id].user = u /\ entries[id].end = 0
BY StoredIsRow DEF Running, IsRunning, Stored

(* A changed row is still a row, of the past, or gone. *)
LEMMA RowChangeType ==
  ASSUME entries \in [Id -> TimeEntry \cup {NoEntry, Gone}], week \in Week,
         \A i \in Stored : NotFuture(entries[i], week),
         NEW u \in User, NEW id \in Id, NEW e, RowChange(u, id, e)
  PROVE  e = Gone \/ (e \in TimeEntry /\ NotFuture(e, week))
<1>1. week \in Int /\ week \in 1 .. week + FutureSkewMillis
  BY BoundsAssumption DEF Week
<1>2. ASSUME entries[id] \in TimeEntry, NEW brk \in Int, NEW onbrk \in Int, NEW end \in {0, week}
      PROVE  /\ SetTimer(entries[id], end, brk, onbrk) \in TimeEntry
             /\ NotFuture(SetTimer(entries[id], end, brk, onbrk), week)
  <2>1. SetTimer(entries[id], end, brk, onbrk) \in TimeEntry
    BY <1>1, <1>2, RowTypes, OpenIsStatus
  <2>2. NotFuture(entries[id], week)
    BY <1>2, StoredIsRow
  <2>3. QED
    BY <1>1, <2>1, <2>2, BoundsAssumption DEF NotFuture, SetTimer
<1>3. ASSUME id \in Running(u) PROVE entries[id] \in TimeEntry /\ entries[id].brk \in Int
  BY <1>3, RunningIsRow DEF TimeEntry
<1>4. CASE e = [user |-> u, start |-> week, end |-> 0, brk |-> 0, onbrk |-> 0,
                status |-> StatusOpen]
  BY <1>1, <1>4, OpenIsStatus, BoundsAssumption DEF TimeEntry, NotFuture
<1>5. CASE id \in Running(u) /\ e = SetTimer(entries[id], week, BreakTotal(entries[id], week), 0)
  BY <1>1, <1>2, <1>3, <1>5, BreakTotalType
<1>6. CASE id \in Running(u) /\ e = SetTimer(entries[id], 0, entries[id].brk, week)
  BY <1>1, <1>2, <1>3, <1>6
<1>7. CASE id \in Running(u) /\ e = SetTimer(entries[id], 0, BreakTotal(entries[id], week), 0)
  BY <1>1, <1>2, <1>3, <1>7, BreakTotalType
<1>8. ASSUME NEW b \in Bodies, Valid(b), e = Manual(u, b)
      PROVE  e \in TimeEntry /\ NotFuture(e, week)
  BY <1>1, <1>8, ValidBody, OpenIsStatus DEF Manual, TimeEntry, NotFuture
<1>9. ASSUME NEW b \in Bodies, Valid(b), Editable(u, id),
             e = SetBody(entries[id], b.start, b.end, b.brk)
      PROVE  e \in TimeEntry /\ NotFuture(e, week)
  <2>1. entries[id] \in TimeEntry
    BY <1>9, StoredIsRow DEF Editable
  <2>2. b.start \in Int /\ b.end \in Int /\ b.brk \in Int
    BY BodiesAssumption
  <2>3. e \in TimeEntry
    BY <1>9, <2>1, <2>2, RowTypes, OpenIsStatus
  <2>4. QED
    BY <1>1, <1>9, <2>3, ValidBody DEF SetBody, NotFuture
<1>10. QED
  BY <1>4, <1>5, <1>6, <1>7, <1>8, <1>9 DEF RowChange

(* So do the rows of a sweep. *)
LEMMA SweptType ==
  ASSUME entries \in [Id -> TimeEntry \cup {NoEntry, Gone}],
         \A i \in Stored : NotFuture(entries[i], week),
         NEW u, NEW weeks \in SUBSET Week, NEW m \in Moves, SetStatusRange(u, weeks, m)
  PROVE  /\ entries' \in [Id -> TimeEntry \cup {NoEntry, Gone}]
         /\ \A i \in Stored' : i \in Stored /\ NotFuture(entries'[i], week)
<1>1. m[1] \in Status /\ m[2] \in Status
  BY DEF Moves, Status
<1>2. \A id \in Id : \/ entries'[id] = entries[id]
                     \/ id \in Stored /\ entries'[id] = SetStatus(entries[id], m[2])
  BY DEF SetStatusRange
<1>3. ASSUME NEW id \in Id
      PROVE  /\ entries'[id] \in TimeEntry \cup {NoEntry, Gone}
             /\ entries'[id] \in TimeEntry =>
                  id \in Stored /\ NotFuture(entries'[id], week)
  <2>1. ASSUME id \in Stored PROVE SetStatus(entries[id], m[2]) \in TimeEntry
                                   /\ NotFuture(SetStatus(entries[id], m[2]), week)
    BY <1>1, <2>1, StoredIsRow, RowTypes DEF NotFuture, SetStatus
  <2>2. QED
    BY <1>2, <2>1, StoredIsRow
<1>4. entries' \in [Id -> TimeEntry \cup {NoEntry, Gone}]
  BY <1>3 DEF SetStatusRange
<1>5. QED
  BY <1>3, <1>4, NoRowAssumption DEF Stored

(* Types of the table after an operation. *)
LEMMA TableType ==
  ASSUME entries \in [Id -> TimeEntry \cup {NoEntry, Gone}], week \in Week,
         \A i \in Stored : NotFuture(entries[i], week),
         NEW u \in User, TableOperation(u)
  PROVE  /\ entries' \in [Id -> TimeEntry \cup {NoEntry, Gone}]
         /\ \A i \in Stored' : NotFuture(entries'[i], week)
<1>1. ASSUME NEW id \in Id, NEW e, RowChange(u, id, e), Set(id, e)
      PROVE  /\ entries' \in [Id -> TimeEntry \cup {NoEntry, Gone}]
             /\ \A i \in Stored' : NotFuture(entries'[i], week)
  <2>1. e = Gone \/ (e \in TimeEntry /\ NotFuture(e, week))
    BY <1>1, RowChangeType
  <2>2. entries' = [entries EXCEPT ![id] = e]
    BY <1>1 DEF Set
  <2>3. entries' \in [Id -> TimeEntry \cup {NoEntry, Gone}]
    BY <2>1, <2>2
  <2>4. \A i \in Stored' : i \in Id /\ entries'[i] # Gone /\ (i # id => i \in Stored)
    BY <2>2 DEF Stored
  <2>5. QED
    BY <2>1, <2>2, <2>3, <2>4
<1>2. QED
  BY <1>1, OperationChanges, SweptType

-----------------------------------------------------------------------------
(* The server's steps. *)

SameCall(c, d) == d.op = c.op /\ d.owner = c.owner /\ d.arg = c.arg /\ d.then = c.then

(* A call that the server gets to after its sender was told of a failure. *)
IsLate(d) ==
  /\ d.owner = "gone" /\ d.op \notin Reads
  /\ \E s \in Slot : d.op = net[s].op /\ d.arg = net[s].arg

(* No call is sent, and none is dropped that a view waits for.             *)
KeepsCalls ==
  \A s \in Slot : \/ SameCall(net[s], net'[s])
                  \/ net[s].owner = "gone" /\ net'[s] = NoCall
                  \/ net[s] = NoCall /\ IsLate(net'[s])

Told(c, p, g) == [c EXCEPT !.phase = p, !.got = g]

LEMMA ToldCall ==
  ASSUME NEW c, IsCall(c), NEW p \in {"sent", "admitted", "ok", "error"}, NEW g
  PROVE  /\ SameCall(c, Told(c, p, g)) /\ Told(c, p, g).phase = p /\ Told(c, p, g).got = g
         /\ Carries(Told(c, p, g)) => IsCall(Told(c, p, g))
<1> DEFINE d == Told(c, p, g)
<1>1. c \in [op : Op, owner : {"sidebar", "dialog", "report", "gone"}, arg : {c.arg},
             then : {c.then}, phase : {"sent", "admitted", "ok", "error"}, got : {c.got}]
  BY CallFields
<1>2. SameCall(c, d) /\ d.phase = p /\ d.got = g
  BY <1>1 DEF SameCall, Told
<1>3. d \in [op : Op, owner : {"sidebar", "dialog", "report", "gone"}, arg : {d.arg},
             then : {d.then}, phase : {"sent", "admitted", "ok", "error"}, got : {d.got}]
  BY <1>1 DEF Told
<1> HIDE DEF d
<1>4. Asks(d) /\ Continues(d)
  BY <1>2, CallFields DEF SameCall, Asks, Continues
<1>5. QED
  BY <1>2, <1>3, <1>4 DEF IsCall, d

LEMMA AnsweredCall ==
  ASSUME AreCalls(net), NEW s \in Pending, NEW p \in {"sent", "admitted", "ok", "error"},
         NEW g, net' = [net EXCEPT ![s].phase = p, ![s].got = g]
  PROVE  /\ \A t \in Slot : t # s => net'[t] = net[t]
         /\ SameCall(net[s], net'[s]) /\ net'[s].phase = p /\ net'[s].got = g
         /\ KeepsCalls
         /\ Carries(net'[s]) => AreCalls(net')
<1>1. s \in Slot /\ IsCall(net[s])
  BY PendingIsCall DEF Pending, PendingIn
<1>2. /\ net'[s] = Told(net[s], p, g)
      /\ \A t \in Slot : t # s => net'[t] = net[t]
      /\ net' = [t \in Slot |-> net'[t]]
  BY <1>1 DEF AreCalls, Told
<1>3. /\ SameCall(net[s], net'[s]) /\ net'[s].phase = p /\ net'[s].got = g
      /\ Carries(net'[s]) => IsCall(net'[s])
  BY <1>1, <1>2, ToldCall
<1>4. QED
  BY <1>1, <1>2, <1>3 DEF AreCalls, KeepsCalls, SameCall

LEMMA GatedCall ==
  ASSUME AreCalls(net), NEW s \in Pending, NEW p \in {"sent", "admitted", "ok", "error"},
         net' = [net EXCEPT ![s].phase = p]
  PROVE  /\ \A t \in Slot : t # s => net'[t] = net[t]
         /\ SameCall(net[s], net'[s]) /\ net'[s].phase = p /\ net'[s].got = net[s].got
         /\ KeepsCalls
         /\ Carries(net'[s]) => AreCalls(net')
<1>1. s \in Slot /\ IsCall(net[s])
  BY PendingIsCall DEF Pending, PendingIn
<1>2. net[s] \in [op : Op, owner : {"sidebar", "dialog", "report", "gone"}, arg : {net[s].arg},
                  then : {net[s].then}, phase : {"sent", "admitted", "ok", "error"},
                  got : {net[s].got}]
  BY <1>1, CallFields
<1>3. [net[s] EXCEPT !.phase = p] = [net[s] EXCEPT !.phase = p, !.got = net[s].got]
  BY <1>2
<1>4. net' = [net EXCEPT ![s].phase = p, ![s].got = net[s].got]
  BY <1>1, <1>3 DEF AreCalls
<1>5. QED
  BY <1>4, AnsweredCall

LEMMA RowsAreRows ==
  ASSUME entries \in [Id -> TimeEntry \cup {NoEntry, Gone}], NEW S \in SUBSET Stored
  PROVE  AreRows(Rows(S))
<1>1. \A id \in S : id \in Id /\ entries[id] \in TimeEntry
  BY StoredIsRow DEF Stored
<1>2. QED
  BY <1>1 DEF AreRows, Rows

LEMMA ListsAreStored ==
  /\ \A u, weeks : Listed(u, weeks) \in SUBSET Stored
  /\ \A u : Running(u) \in SUBSET Stored
BY DEF Listed, Running

(* What a call of the browser does to the table. *)
LEMMA ExecuteOperates ==
  ASSUME NEW c, IsCall(c), Execute(c)
  PROVE  TableOperation(Me) /\ c.op \in TimerCalls \cup EntryCalls
<1>1. Asks(c)
  BY CallFields
<1>2. CASE c.op = "create"
  BY <1>1, <1>2 DEF Execute, Asks, TableOperation, TimerCalls, EntryCalls
<1>3. CASE c.op = "update"
  BY <1>1, <1>3 DEF Execute, Asks, TableOperation, TimerCalls, EntryCalls
<1>4. CASE c.op = "delete"
  BY <1>1, <1>4 DEF Execute, Asks, TableOperation, TimerCalls, EntryCalls
<1>5. CASE c.op \notin {"create", "update", "delete"}
  BY <1>1, <1>5 DEF Execute, Asks, TableOperation, TimerCalls, EntryCalls
<1>6. QED
  BY <1>2, <1>3, <1>4, <1>5

LEMMA ServeStep ==
  ASSUME TypeOK, NEW s \in Slot, Serve(s)
  PROVE  /\ AreCalls(net') /\ KeepsCalls
         /\ UNCHANGED entries \/ TableOperation(Me)
         /\ UNCHANGED <<week, approval, admin, elsewhere, clicks>>
<1>1. s \in Pending /\ IsCall(net[s]) /\ net[s].op \in TimerCalls \cup EntryCalls
  BY PendingIsCall DEF TypeOK, Serve, Waits, Pending
<1>2. PICK p \in {"sent", "admitted", "ok", "error"} :
        p # "admitted" /\ net' = [net EXCEPT ![s].phase = p, ![s].got = <<>>]
  BY DEF Serve, Answer
<1>3. net'[s].op \notin Reads \cup {"move"} /\ net'[s].phase # "admitted"
  BY <1>1, <1>2, AnsweredCall DEF TypeOK, SameCall, TimerCalls, EntryCalls, Reads
<1>4. Carries(net'[s])
  BY <1>3 DEF Carries, Reads
<1>5. QED
  BY <1>1, <1>2, <1>4, AnsweredCall, ExecuteOperates DEF TypeOK, Serve

LEMMA ServeListStep ==
  ASSUME TypeOK, NEW s \in Slot, ServeList(s)
  PROVE  /\ AreCalls(net') /\ KeepsCalls /\ UNCHANGED serverVars
<1>1. s \in Pending /\ IsCall(net[s]) /\ net[s].op = "list"
  BY PendingIsCall DEF TypeOK, ServeList, Waits, Pending
<1>2. AreRows(Rows(Listed(net[s].arg.user, net[s].arg.period.weeks)))
  BY RowsAreRows, ListsAreStored DEF TypeOK
<1>3. PICK p \in {"ok", "error"},
           g \in {<<>>, Rows(Listed(net[s].arg.user, net[s].arg.period.weeks))} :
        /\ net' = [net EXCEPT ![s].phase = p, ![s].got = g]
        /\ p = "ok" => AreRows(g)
  BY <1>2 DEF ServeList, Answer
<1>4. /\ SameCall(net[s], net'[s]) /\ net'[s].phase = p /\ net'[s].got = g /\ KeepsCalls
      /\ Carries(net'[s]) => AreCalls(net')
  BY <1>1, <1>3, AnsweredCall DEF TypeOK
<1>5. Carries(net'[s])
  BY <1>1, <1>3, <1>4 DEF Carries, SameCall
<1>6. QED
  BY <1>4, <1>5 DEF ServeList

(* What a refetch holds after one of its GETs was read. *)
Part(part, w) == IF part = "current" THEN Rows(Running(Me)) ELSE Rows(Listed(Me, {w}))

LEMMA ServeRefetchStep ==
  ASSUME TypeOK, NEW s \in Slot, NEW part \in {"current", "list"}, ServeRefetch(s, part)
  PROVE  /\ AreCalls(net') /\ KeepsCalls /\ UNCHANGED serverVars
         /\ s \in Pending /\ net[s].op = "refetch" /\ IsCall(net[s])
         /\ \A t \in Slot : t # s => net'[t] = net[t]
         /\ SameCall(net[s], net'[s]) /\ net'[s].phase \in {"ok", "sent"}
         /\ DOMAIN net'[s].got = DOMAIN net[s].got \cup {part}
         /\ \A p \in DOMAIN net'[s].got :
              net'[s].got[p] = IF p = part THEN Part(part, net[s].arg) ELSE net[s].got[p]
<1> DEFINE g == [p \in DOMAIN net[s].got \cup {part} |->
                   IF p = part THEN Part(part, net[s].arg) ELSE net[s].got[p]]
           ph == IF DOMAIN g = {"current", "list"} THEN "ok" ELSE "sent"
<1>1. s \in Pending /\ IsCall(net[s]) /\ net[s].op = "refetch"
  BY PendingIsCall DEF TypeOK, ServeRefetch, Waits, Pending
<1>2. net' = [net EXCEPT ![s].got = g, ![s].phase = ph]
  BY DEF ServeRefetch, Part
<1>3. net' = [net EXCEPT ![s].phase = ph, ![s].got = g]
  <2>1. net[s] \in [op : Op, owner : {"sidebar", "dialog", "report", "gone"}, arg : {net[s].arg},
                    then : {net[s].then}, phase : {"sent", "admitted", "ok", "error"},
                    got : {net[s].got}]
    BY <1>1, CallFields
  <2> HIDE DEF g, ph
  <2>2. [net[s] EXCEPT !.got = g, !.phase = ph] = [net[s] EXCEPT !.phase = ph, !.got = g]
    BY <2>1
  <2>3. QED
    BY <1>1, <1>2, <2>2 DEF TypeOK, AreCalls, Pending, PendingIn
<1>4. ph \in {"ok", "sent"} /\ (ph = "ok" => DOMAIN g = {"current", "list"})
  OBVIOUS
<1>5. \A p \in DOMAIN g : AreRows(g[p])
  <2>1. AreRows(Part(part, net[s].arg))
    BY RowsAreRows, ListsAreStored DEF TypeOK, Part
  <2>2. QED
    BY <1>1, <2>1, CallFields DEF Carries
<1>6. DOMAIN g \subseteq {"current", "list"}
  BY <1>1, CallFields DEF Carries
<1>7. \A t \in Slot : t # s => net'[t] = net[t]
  BY <1>1, <1>3, <1>4, AnsweredCall DEF TypeOK
<1>8. /\ KeepsCalls /\ SameCall(net[s], net'[s]) /\ net'[s].phase = ph /\ net'[s].got = g
      /\ Carries(net'[s]) => AreCalls(net')
  <2> HIDE DEF g, ph
  <2>1. QED
    BY <1>1, <1>3, <1>4, AnsweredCall DEF TypeOK
<1>9. Carries(net'[s])
  <2> HIDE DEF g, ph
  <2>1. QED
    BY <1>1, <1>4, <1>5, <1>6, <1>8 DEF Carries, SameCall
<1>10. QED
  BY <1>1, <1>4, <1>7, <1>8, <1>9 DEF ServeRefetch

LEMMA GateStep ==
  ASSUME TypeOK, NEW s \in Slot, Gate(s)
  PROVE  /\ AreCalls(net') /\ KeepsCalls /\ UNCHANGED serverVars
         /\ s \in Pending /\ \A t \in Slot : t # s => net'[t] = net[t]
         /\ net[s].op = "move" /\ SameCall(net[s], net'[s])
         /\ net'[s].phase = IF Admits(net[s].arg) THEN "admitted" ELSE "error"
<1>1. s \in Pending /\ IsCall(net[s]) /\ net[s].op = "move"
  BY PendingIsCall DEF TypeOK, Gate, Waits, Pending
<1>2. PICK p \in {"admitted", "error"} :
        /\ p = IF Admits(net[s].arg) THEN "admitted" ELSE "error"
        /\ net' = [net EXCEPT ![s].phase = p]
  BY DEF Gate
<1>3. /\ SameCall(net[s], net'[s]) /\ net'[s].phase = p /\ KeepsCalls
      /\ \A t \in Slot : t # s => net'[t] = net[t]
      /\ Carries(net'[s]) => AreCalls(net')
  BY <1>1, <1>2, GatedCall DEF TypeOK
<1>4. Carries(net'[s])
  BY <1>1, <1>3 DEF Carries, SameCall
<1>5. QED
  BY <1>1, <1>2, <1>3, <1>4 DEF Gate

LEMMA TransitionStep ==
  ASSUME TypeOK, NEW s \in Slot, Transition(s)
  PROVE  /\ AreCalls(net') /\ KeepsCalls
         /\ s \in Pending /\ net[s].op = "move" /\ net[s].phase = "admitted"
         /\ \E u \in User, weeks \in SUBSET Week, m \in Moves : SetStatusRange(u, weeks, m)
         /\ \E u \in User : TableOperation(u)
         /\ UNCHANGED <<week, approval, admin, elsewhere, clicks>>
<1>1. s \in Pending /\ IsCall(net[s]) /\ net[s].op = "move" /\ net[s].phase = "admitted"
  <2>1. s \in Pending /\ net[s].phase = "admitted"
    BY DEF Transition
  <2>2. IsCall(net[s])
    BY <2>1, PendingIsCall DEF TypeOK, Pending
  <2>3. QED
    BY <2>1, <2>2, CallFields DEF Carries
<1>2. net[s].arg \in [user : User, period : Period, move : Moves, asAdmin : BOOLEAN]
  BY <1>1, CallFields DEF Asks
<1>3. /\ net[s].arg.user \in User /\ net[s].arg.period.weeks \in SUBSET Week
      /\ net[s].arg.move \in Moves
  BY <1>2 DEF Period
<1>4. SetStatusRange(net[s].arg.user, net[s].arg.period.weeks, net[s].arg.move)
  BY DEF Transition
<1>5. net' = [net EXCEPT ![s].phase = "ok", ![s].got = <<>>]
  BY DEF Transition, Answer
<1>6. net'[s].op = "move" /\ net'[s].phase = "ok" /\ KeepsCalls
      /\ (Carries(net'[s]) => AreCalls(net'))
  BY <1>1, <1>5, AnsweredCall DEF TypeOK, SameCall
<1>7. Carries(net'[s])
  BY <1>6 DEF Carries
<1>8. QED
  BY <1>1, <1>3, <1>4, <1>6, <1>7 DEF Transition, TableOperation

LEMMA UnheardStep ==
  ASSUME TypeOK, NEW s \in Slot, Unheard(s)
  PROVE  /\ AreCalls(net') /\ KeepsCalls /\ UNCHANGED serverVars
         /\ net[s].owner = "gone" /\ net' = [net EXCEPT ![s] = NoCall]
<1>1. net[s].owner = "gone" /\ net' = [net EXCEPT ![s] = NoCall]
  BY DEF Unheard, Finished
<1>2. net'[s] = NoCall /\ AreCalls(net') /\ \A t \in Slot : t # s => net'[t] = net[t]
  BY <1>1 DEF TypeOK, AreCalls
<1>3. QED
  BY <1>1, <1>2 DEF Unheard, KeepsCalls, SameCall

-----------------------------------------------------------------------------
(* Types of all state. *)

(* A call that is sent takes an empty place. *)
LEMMA SendAfterCalls ==
  ASSUME NEW n, AreCalls(n), NEW c, IsCall(c), SendAfter(n, c)
  PROVE  /\ AreCalls(net')
         /\ \E s \in Slot : /\ n[s] = NoCall /\ net'[s] = c
                            /\ \A t \in Slot : t # s => net'[t] = n[t]
<1>1. PICK s \in Slot : s \notin PendingIn(n) /\ net' = [n EXCEPT ![s] = c]
  BY DEF SendAfter, PendingIn
<1>2. n[s] = NoCall
  BY <1>1, PendingIsCall
<1>3. net'[s] = c /\ AreCalls(net') /\ \A t \in Slot : t # s => net'[t] = n[t]
  BY <1>1 DEF AreCalls
<1>4. QED
  BY <1>2, <1>3

(* An answer that was dealt with leaves an empty place. *)
LEMMA FinishedCalls ==
  ASSUME AreCalls(net), NEW s \in Slot, net' = Finished(s)
  PROVE  AreCalls(net') /\ net'[s] = NoCall /\ \A t \in Slot : t # s => net'[t] = net[t]
BY DEF AreCalls, Finished

LEMMA ReplacedCalls ==
  ASSUME AreCalls(net), NEW s \in Slot, NEW c, IsCall(c), NEW m, m = [net EXCEPT ![s] = c]
  PROVE  AreCalls(m) /\ m[s] = c /\ \A t \in Slot : t # s => m[t] = net[t]
BY DEF AreCalls

LEMMA EmptyRows == \A e : e = <<>> => AreRows(e)
BY DEF AreRows

(* A call that fails, and goes on for nobody or not at all. *)
LEMMA FailStep ==
  ASSUME TypeOK, NEW s \in Slot, Fail(s)
  PROVE  /\ AreCalls(net') /\ KeepsCalls /\ s \in Pending
         /\ \A t \in Slot : \/ net'[t] = net[t]
                            \/ net'[t].phase = "error" /\ net'[t].got = <<>>
                            \/ IsLate(net'[t])
<1> DEFINE failed == [net EXCEPT ![s].phase = "error", ![s].got = <<>>]
           late   == Unowned(net[s])
<1>1. s \in Pending /\ IsCall(net[s]) /\ AreCalls(net)
  BY PendingIsCall DEF TypeOK, Fail, Pending
<1>2. /\ SameCall(net[s], failed[s]) /\ failed[s].phase = "error" /\ failed[s].got = <<>>
      /\ \A t \in Slot : t # s => failed[t] = net[t]
      /\ AreCalls(failed)
  <2>1. /\ failed[s] = Told(net[s], "error", <<>>)
        /\ \A t \in Slot : t # s => failed[t] = net[t]
        /\ failed = [t \in Slot |-> failed[t]]
    BY <1>1 DEF AreCalls, Told
  <2> HIDE DEF failed
  <2>2. /\ SameCall(net[s], failed[s]) /\ failed[s].phase = "error" /\ failed[s].got = <<>>
        /\ Carries(failed[s]) => IsCall(failed[s])
    BY <1>1, <2>1, ToldCall
  <2>3. Carries(failed[s])
    BY <2>2 DEF Carries
  <2>4. QED
    BY <1>1, <2>1, <2>2, <2>3 DEF AreCalls
<1>3. \/ net' = failed
      \/ net[s].op \notin Reads /\ SendAfter(failed, late)
  BY DEF Fail
<1> HIDE DEF failed
<1>4. s \in Slot /\ AreCalls(failed)
  BY <1>2 DEF Fail
<1>5. CASE net' = failed
  <2>1. \A t \in Slot : SameCall(net[t], net'[t])
    BY <1>2, <1>5 DEF SameCall
  <2>2. KeepsCalls
    BY <2>1 DEF KeepsCalls
  <2>3. \A t \in Slot : net'[t] = net[t] \/ (net'[t].phase = "error" /\ net'[t].got = <<>>)
    BY <1>2, <1>5
  <2>4. QED
    BY <1>1, <1>4, <1>5, <2>2, <2>3
<1>6. CASE net[s].op \notin Reads /\ SendAfter(failed, late)
  <2>1. IsCall(late) /\ IsLate(late)
    BY <1>1, <1>6, UnownedCall DEF IsLate
  <2> HIDE DEF late
  <2>2. AreCalls(net')
    BY <1>4, <1>6, <2>1, SendAfterCalls
  <2>3. PICK t \in Slot : /\ failed[t] = NoCall /\ net'[t] = late
                          /\ \A i \in Slot : i # t => net'[i] = failed[i]
    BY <1>4, <1>6, <2>1, SendAfterCalls
  <2>4. t # s /\ net[t] = NoCall
    <3>1. failed[s].op # "none"
      BY <1>1, <1>2 DEF SameCall, Pending, PendingIn
    <3>2. QED
      BY <1>2, <2>3, <3>1, NoCallIsNone
  <2>5. QED
    <3>1. \A i \in Slot : i # t => SameCall(net[i], net'[i])
      BY <1>2, <2>3 DEF SameCall
    <3>2. IsLate(net'[t])
      BY <2>1, <2>3 DEF IsLate
    <3>3. KeepsCalls
      BY <2>4, <3>1, <3>2 DEF KeepsCalls
    <3>4. \A i \in Slot : i \notin {s, t} => net'[i] = net[i]
      BY <1>2, <2>3
    <3>5. net'[s].phase = "error" /\ net'[s].got = <<>>
      BY <1>2, <2>3, <2>4
    <3>6. \A i \in Slot : \/ net'[i] = net[i]
                          \/ net'[i].phase = "error" /\ net'[i].got = <<>>
                          \/ IsLate(net'[i])
      BY <3>2, <3>4, <3>5
    <3>7. QED
      BY <1>1, <2>2, <3>3, <3>6
<1>7. QED
  BY <1>3, <1>5, <1>6

(* The types hold at the start. *)
LEMMA InitType == Init => TypeOK
<1> SUFFICES ASSUME Init PROVE TypeOK
  OBVIOUS
<1>1. PICK start \in Starts :
        entries = start.table /\ approval = start.approval /\ admin = start.admin
  BY DEF Init, ServerInit
<1>2. /\ entries \in [Id -> TimeEntry \cup {NoEntry, Gone}]
      /\ approval \in BOOLEAN /\ admin \in BOOLEAN
      /\ \A id \in Id : entries[id] \in TimeEntry => NotFuture(entries[id], 1)
  BY <1>1, StartsAssumption
<1>3. week = 1 /\ week \in Week /\ 1 + 0 = 1 /\ 1 \in Week /\ 1 \in Int
  BY WebBoundsAssumption DEF Init, ServerInit, Week
<1>4. \A id \in Stored : NotFuture(entries[id], week)
  BY <1>2, <1>3, StoredIsRow DEF Stored
<1>5. AreCalls(net)
  BY DEF Init, ServerInit, AreCalls
<1>6. IsSidebar(rhs) /\ dialog \in Dialogs \cup {NoDialog}
  BY <1>3, EmptyRows DEF Init, SidebarInit, Unmounted, IsSidebar
<1>7. IsReport(rep) /\ session \in BOOLEAN
  <2>1. OneWeek(1) \in Period
    BY <1>3 DEF OneWeek, Period
  <2>2. QED
    BY <1>2, <2>1, EmptyRows DEF Init, ReportInit, NoReport, IsReport
<1>8. elsewhere \in Nat /\ clicks \in Nat
  BY DEF Init, ServerInit
<1>9. QED
  BY <1>2, <1>3, <1>4, <1>5, <1>6, <1>7, <1>8 DEF TypeOK

(* The server's step changes the table by an operation, and answers.       *)
LEMMA ServerStepKeeps ==
  ASSUME TypeOK, NEW s \in Slot, ServerStep(s)
  PROVE  /\ AreCalls(net') /\ KeepsCalls
         /\ UNCHANGED entries \/ \E u \in User : TableOperation(u)
         /\ UNCHANGED <<week, approval, admin, elsewhere, clicks>>
<1>1. CASE Serve(s)
  BY <1>1, ServeStep, MeAssumption
<1>2. CASE ServeList(s)
  BY <1>2, ServeListStep DEF serverVars
<1>3. ASSUME NEW part \in {"current", "list"}, ServeRefetch(s, part)
      PROVE  AreCalls(net') /\ KeepsCalls /\ UNCHANGED serverVars
  BY <1>3, ServeRefetchStep
<1>4. CASE Gate(s)
  BY <1>4, GateStep DEF serverVars
<1>5. CASE Transition(s)
  BY <1>5, TransitionStep
<1>6. CASE Unheard(s)
  BY <1>6, UnheardStep DEF serverVars
<1>7. QED
  BY <1>1, <1>2, <1>3, <1>4, <1>5, <1>6 DEF ServerStep, serverVars

(* What happens elsewhere is counted, changes the table by an operation,   *)
(* and may fail a call.                                                    *)
LEMMA ElsewhereKeeps ==
  ASSUME TypeOK, Elsewhere
  PROVE  /\ AreCalls(net') /\ KeepsCalls
         /\ \/ \E u \in User : TableOperation(u) /\ UNCHANGED week
            \/ UNCHANGED entries /\ week' \in Week /\ week' >= week
         /\ approval' \in BOOLEAN /\ admin' \in BOOLEAN
         /\ elsewhere' \in Nat \ {0} /\ UNCHANGED clicks
<1>1. elsewhere' \in Nat \ {0} /\ UNCHANGED clicks
  BY DEF Elsewhere, Happens, TypeOK
<1>2. UNCHANGED net => AreCalls(net') /\ KeepsCalls
  BY DEF TypeOK, KeepsCalls, SameCall
<1>3. week \in Int /\ week >= week
  BY DEF TypeOK, Week
<1>4. CASE OperationElsewhere /\ UNCHANGED net
  <2>1. \E u \in User : TableOperation(u)
    BY <1>4 DEF OperationElsewhere, TableOperation
  <2>2. QED
    BY <1>1, <1>2, <1>4, <2>1 DEF OperationElsewhere, TypeOK
<1>5. CASE SettingsElsewhere /\ UNCHANGED net
  BY <1>1, <1>2, <1>3, <1>5 DEF SettingsElsewhere, TypeOK
<1>6. CASE NewWeek /\ UNCHANGED net
  BY <1>1, <1>2, <1>3, <1>6, WebBoundsAssumption DEF NewWeek, TypeOK, Week
<1>7. ASSUME NEW s \in Slot, Fail(s) PROVE AreCalls(net') /\ KeepsCalls
  BY <1>7, FailStep
<1>8. CASE \E s \in Slot : Fail(s)
  BY <1>1, <1>3, <1>7, <1>8 DEF Fail, TypeOK
<1>9. QED
  BY <1>4, <1>5, <1>6, <1>8 DEF Elsewhere

(* The server's part of the types, in a step that may change the table.    *)
LEMMA ServerPartType ==
  ASSUME TypeOK,
         \/ \E u \in User : TableOperation(u) /\ UNCHANGED week
         \/ UNCHANGED entries /\ week' \in Week /\ week' >= week
  PROVE  /\ entries' \in [Id -> TimeEntry \cup {NoEntry, Gone}]
         /\ \A id \in Stored' : NotFuture(entries'[id], week')
         /\ week' \in Week
<1>1. ASSUME NEW u \in User, TableOperation(u), UNCHANGED week
      PROVE  /\ entries' \in [Id -> TimeEntry \cup {NoEntry, Gone}]
             /\ \A id \in Stored' : NotFuture(entries'[id], week')
  BY <1>1, TableType DEF TypeOK
<1>2. CASE UNCHANGED entries /\ week' \in Week /\ week' >= week
  <2>1. week \in Int /\ week' \in Int
    BY <1>2 DEF TypeOK, Week
  <2>2. \A e : NotFuture(e, week) => NotFuture(e, week')
    BY <1>2, <2>1, BoundsAssumption DEF NotFuture
  <2>3. Stored' = Stored
    BY <1>2 DEF Stored
  <2>4. QED
    BY <1>2, <2>2, <2>3 DEF TypeOK
<1>3. QED
  BY <1>1, <1>2 DEF TypeOK

(* A step of a view leaves the server alone, except that it may count a    *)
(* click or the failure of its GET /config.                                *)
ViewStep ==
  /\ UNCHANGED <<entries, week, approval, admin>>
  /\ clicks' \in Nat /\ elsewhere' \in Nat /\ (elsewhere' = 0 => elsewhere = 0)
  /\ AreCalls(net')

SidebarTyped == IsSidebar(rhs)' /\ dialog' \in Dialogs \cup {NoDialog}
ReportTyped  == IsReport(rep)' /\ session' \in BOOLEAN

LEMMA Counting ==
  ASSUME TypeOK
  PROVE  /\ Click => clicks' \in Nat
         /\ Happens => elsewhere' \in Nat \ {0}
BY DEF TypeOK, Click, Happens

LEMMA OpenSidebarType == ASSUME TypeOK, OpenSidebar PROVE ViewStep /\ SidebarTyped
<1>1. week \in Week /\ week \in Int /\ week + 0 = week
  BY DEF TypeOK, Week
<1>2. IsSidebar(rhs')
  BY <1>1, EmptyRows DEF TypeOK, OpenSidebar, IsSidebar
<1>3. AreCalls(net')
  BY <1>1, RefetchIsCall, SendAfterCalls DEF TypeOK, OpenSidebar, Send
<1>4. QED
  BY <1>2, <1>3 DEF TypeOK, OpenSidebar, ViewStep, SidebarTyped, serverVars

LEMMA CloseSidebarType == ASSUME TypeOK, CloseSidebar PROVE ViewStep /\ SidebarTyped
<1>1. 1 + 0 = 1 /\ 1 \in Int /\ 1 \in Week
  BY WebBoundsAssumption DEF Week
<1>2. IsSidebar(rhs')
  BY <1>1, EmptyRows DEF CloseSidebar, IsSidebar, Unmounted
<1>3. AreCalls(net')
  BY OrphanedCalls DEF TypeOK, CloseSidebar
<1>4. QED
  BY <1>2, <1>3 DEF TypeOK, CloseSidebar, ViewStep, SidebarTyped, serverVars

LEMMA NavigateType ==
  ASSUME TypeOK, NEW d \in Int, Navigate(d) PROVE ViewStep /\ SidebarTyped
<1>1. week \in Int /\ week + d \in Week
  BY DEF TypeOK, Week, Navigate
<1>2. IsSidebar(rhs')
  BY <1>1 DEF TypeOK, IsSidebar, Navigate
<1>3. AreCalls(net')
  BY <1>1, RefetchIsCall, SendAfterCalls DEF TypeOK, Navigate, Send
<1>4. QED
  BY <1>2, <1>3, Counting DEF TypeOK, Navigate, ViewStep, SidebarTyped, tableVars

LEMMA ConfigType ==
  ASSUME TypeOK, ConfigArrives \/ ConfigFails PROVE ViewStep /\ SidebarTyped
<1>1. IsSidebar(rhs')
  BY DEF TypeOK, IsSidebar, ConfigArrives, ConfigFails, Config
<1>2. elsewhere' \in Nat /\ (elsewhere' = 0 => elsewhere = 0) /\ UNCHANGED net
  BY Counting DEF TypeOK, ConfigArrives, ConfigFails, serverVars
<1>3. QED
  BY <1>1, <1>2 DEF TypeOK, ConfigArrives, ConfigFails, ViewStep, SidebarTyped, serverVars

LEMMA RefetchArrivesType ==
  ASSUME TypeOK, NEW s \in Slot, RefetchArrives(s) PROVE ViewStep /\ SidebarTyped
<1>1. IsCall(net[s]) /\ net[s].op = "refetch"
  BY PendingIsCall DEF TypeOK, RefetchArrives, Answered, Pending
<1>2. IsSidebar(rhs')
  BY <1>1, CallFields DEF TypeOK, IsSidebar, RefetchArrives, Refetched, Done, Carries, Answered
<1>3. AreCalls(net')
  BY FinishedCalls DEF TypeOK, RefetchArrives
<1>4. QED
  BY <1>2, <1>3 DEF TypeOK, RefetchArrives, ViewStep, SidebarTyped, serverVars

(* What the buttons send. *)
RunArg(op, arg) ==
  \/ op \in TimerCalls
  \/ op = "move" /\ arg \in [user : User, period : Period, move : Moves, asAdmin : BOOLEAN]

LEMMA RunType ==
  ASSUME TypeOK, NEW op, NEW arg, Run(op, arg), RunArg(op, arg)
  PROVE  /\ ViewStep /\ SidebarTyped
         /\ IsCall(Sent(op, "sidebar", arg, [kind |-> "run", week |-> VisibleWeek]))
<1> DEFINE c == Sent(op, "sidebar", arg, [kind |-> "run", week |-> VisibleWeek])
<1>1. VisibleWeek \in Week
  BY DEF TypeOK, IsSidebar, VisibleWeek
<1>2. /\ c.op = op /\ c.arg = arg /\ c.owner = "sidebar"
      /\ c.then = [kind |-> "run", week |-> VisibleWeek]
  BY SentCall
<1>3. Asks(c) /\ Continues(c) /\ op \in Op
  BY <1>1, <1>2 DEF RunArg, Asks, Continues, TimerCalls, Op
<1>4. IsCall(c)
  BY <1>3, SentIsCall
<1>5. AreCalls(net')
  BY <1>4, SendAfterCalls DEF TypeOK, Run, Send
<1>6. IsSidebar(rhs')
  BY DEF TypeOK, IsSidebar, Run
<1>7. QED
  BY <1>4, <1>5, <1>6, Counting DEF TypeOK, Run, ViewStep, SidebarTyped, tableVars

SidebarButton ==
  ClickStart \/ ClickStop \/ ClickBreak \/ ClickSubmitWeek \/ ClickWithdrawWeek

(* Each button of the sidebar runs an action. *)
LEMMA SidebarButtonRuns ==
  ASSUME TypeOK, SidebarButton
  PROVE  /\ Clickable
         /\ \E op, arg : Run(op, arg) /\ RunArg(op, arg)
<1>1. VisibleWeek \in Week
  BY DEF TypeOK, IsSidebar, VisibleWeek
<1>2. Submit \in Moves /\ Withdraw \in Moves
  BY DEF Submit, Withdraw, Moves
<1>3. OneWeek(VisibleWeek) \in Period
  BY <1>1 DEF OneWeek, Period
<1>4. \A m \in Moves : Own(OneWeek(VisibleWeek), m) \in
        [user : User, period : Period, move : Moves, asAdmin : BOOLEAN]
  BY <1>3, MeAssumption DEF Own
<1>5. \A op \in TimerCalls : RunArg(op, <<>>)
  BY DEF RunArg
<1>6. \A m \in Moves : RunArg("move", Own(OneWeek(VisibleWeek), m))
  BY <1>4 DEF RunArg
<1>7. CASE ClickStart
  BY <1>5, <1>7 DEF ClickStart, TimerCalls
<1>8. CASE ClickStop
  BY <1>5, <1>8 DEF ClickStop, TimerCalls
<1>9. CASE ClickBreak
  BY <1>5, <1>9 DEF ClickBreak, TimerCalls
<1>10. CASE ClickSubmitWeek
  BY <1>2, <1>6, <1>10 DEF ClickSubmitWeek
<1>11. CASE ClickWithdrawWeek
  BY <1>2, <1>6, <1>11 DEF ClickWithdrawWeek
<1>12. QED
  BY <1>7, <1>8, <1>9, <1>10, <1>11 DEF SidebarButton

LEMMA ActionArrivesType ==
  ASSUME TypeOK, NEW s \in Slot, ActionArrives(s)
  PROVE  ViewStep /\ SidebarTyped /\ net[s].then.week \in Week
<1>1. IsCall(net[s]) /\ net[s].owner = "sidebar"
  BY PendingIsCall DEF TypeOK, ActionArrives, Answered, Pending
<1>2. net[s].then.week \in Week
  BY <1>1, CallFields DEF Continues
<1>3. AreCalls(net')
  BY <1>2, FinishedCalls, ReplacedCalls, RefetchIsCall DEF TypeOK, ActionArrives
<1>4. IsSidebar(rhs')
  <2>1. IsSidebar(rhs)
    BY DEF TypeOK
  <2>2. QED
    BY <2>1 DEF IsSidebar, ActionArrives
<1>5. QED
  BY <1>2, <1>3, <1>4 DEF TypeOK, ActionArrives, ViewStep, SidebarTyped, serverVars

(* The dialog. *)
LEMMA ShowType ==
  ASSUME TypeOK, NEW d \in Dialogs, Show(d) PROVE ViewStep /\ SidebarTyped
BY DEF TypeOK, Show, ViewStep, SidebarTyped, serverVars

LEMMA DialogIsDialog ==
  ASSUME NEW id \in Id \cup {NoEntry}, NEW locked \in BOOLEAN
  PROVE  Dialog(id, locked) \in Dialogs
BY DEF Dialog, Dialogs

LEMMA WriteType ==
  ASSUME TypeOK, dialog # NoDialog, NEW op \in EntryCalls, NEW arg, Write(op, arg),
         \/ op = "create" /\ arg \in [body : Bodies]
         \/ op = "update" /\ arg \in [id : Id, body : Bodies]
         \/ op = "delete" /\ arg \in [id : Id]
  PROVE  /\ ViewStep /\ SidebarTyped
         /\ IsCall(Sent(op, "dialog", arg, [shown |-> TRUE, week |-> VisibleWeek]))
<1> DEFINE c == Sent(op, "dialog", arg, [shown |-> TRUE, week |-> VisibleWeek])
<1>1. VisibleWeek \in Week
  BY DEF TypeOK, IsSidebar, VisibleWeek
<1>2. /\ c.op = op /\ c.arg = arg /\ c.owner = "dialog"
      /\ c.then = [shown |-> TRUE, week |-> VisibleWeek]
  BY SentCall
<1>3. Asks(c) /\ Continues(c) /\ op \in Op
  <2> HIDE DEF c
  <2>0. c.then \in [shown : BOOLEAN, week : Week]
    BY <1>1, <1>2
  <2>1. Continues(c) /\ op \in Op
    BY <1>2, <2>0 DEF Continues, Op
  <2>2. Asks(c)
    BY <1>2 DEF Asks
  <2>3. QED
    BY <2>1, <2>2
<1>4. IsCall(c)
  BY <1>3, SentIsCall
<1>5. AreCalls(net')
  BY <1>4, SendAfterCalls DEF TypeOK, Write, Send
<1>6. dialog' \in Dialogs
  BY DEF TypeOK, Write, Dialogs
<1>7. QED
  BY <1>4, <1>5, <1>6, Counting DEF TypeOK, Write, ViewStep, SidebarTyped, tableVars

DialogWrite == Remove \/ \E b \in Bodies : Save(b)

(* Save and Delete send a write of the dialog's entry. *)
LEMMA DialogWrites ==
  ASSUME TypeOK, DialogWrite
  PROVE  /\ Enabled /\ dialog # NoDialog
         /\ \E op \in EntryCalls : \E arg :
              /\ Write(op, arg)
              /\ \/ op = "create" /\ arg \in [body : Bodies]
                 \/ op = "update" /\ arg \in [id : Id, body : Bodies]
                 \/ op = "delete" /\ arg \in [id : Id]
              /\ op \in {"update", "delete"} => dialog.entry # NoEntry /\ arg.id = dialog.entry
<1>1. Enabled /\ dialog # NoDialog /\ dialog.entry \in Id \cup {NoEntry}
  BY DEF DialogWrite, Remove, Save, Enabled, TypeOK, Dialogs
<1>2. CASE Remove
  <2>1. [id |-> dialog.entry].id = dialog.entry /\ [id |-> dialog.entry] \in [id : Id]
    BY <1>1, <1>2 DEF Remove
  <2>2. QED
    BY <1>1, <1>2, <2>1 DEF Remove, EntryCalls
<1>3. ASSUME NEW b \in Bodies, Save(b), dialog.entry = NoEntry
      PROVE  Write("create", [body |-> b]) /\ [body |-> b] \in [body : Bodies]
  BY <1>3 DEF Save
<1>4. ASSUME NEW b \in Bodies, Save(b), dialog.entry # NoEntry
      PROVE  /\ Write("update", [id |-> dialog.entry, body |-> b])
             /\ [id |-> dialog.entry, body |-> b] \in [id : Id, body : Bodies]
             /\ [id |-> dialog.entry, body |-> b].id = dialog.entry
  BY <1>1, <1>4 DEF Save
<1>5. QED
  BY <1>1, <1>2, <1>3, <1>4 DEF DialogWrite, EntryCalls

LEMMA AskDeleteType ==
  ASSUME TypeOK, NEW confirming \in BOOLEAN, AskDelete(confirming)
  PROVE  ViewStep /\ SidebarTyped
<1>1. dialog \in Dialogs
  BY DEF TypeOK, AskDelete, Enabled
<1>2. dialog' \in Dialogs
  BY <1>1 DEF AskDelete, Dialogs
<1>3. QED
  BY <1>2 DEF TypeOK, AskDelete, ViewStep, SidebarTyped, serverVars

LEMMA CloseDialogType == ASSUME TypeOK, CloseDialog PROVE ViewStep /\ SidebarTyped
<1>1. AreCalls(net')
  BY DetachedCalls DEF TypeOK, CloseDialog
<1>2. QED
  BY <1>1 DEF TypeOK, CloseDialog, ViewStep, SidebarTyped, serverVars

(* The answer to a write of the dialog. *)
LEMMA SaveArrivesCall ==
  ASSUME TypeOK, NEW s \in Slot, SaveArrives(s)
  PROVE  /\ s \in Pending /\ IsCall(net[s]) /\ net[s].owner = "dialog"
         /\ net[s].op \in EntryCalls /\ net[s].then \in [shown : BOOLEAN, week : Week]
<1>1. IsCall(net[s]) /\ net[s].owner = "dialog" /\ s \in Pending /\ net[s].op \in EntryCalls
  BY PendingIsCall DEF TypeOK, SaveArrives, Answered, Pending
<1>2. QED
  BY <1>1, CallFields DEF Continues

(* The answer of a write, apart from the dialog it may or may not find.    *)
LEMMA SaveArrivesType ==
  ASSUME TypeOK, NEW s \in Slot, SaveArrives(s),
         net[s].then.shown => dialog # NoDialog
  PROVE  ViewStep /\ SidebarTyped
<1>1. net[s].then.week \in Week
  BY SaveArrivesCall
<1>2. AreCalls(net')
  <2>1. CASE net[s].phase = "ok"
    <3>1. AreCalls([net EXCEPT ![s] = Refetch(net[s].then.week, "saved")])
      BY <1>1, ReplacedCalls, RefetchIsCall DEF TypeOK
    <3>2. QED
      BY <2>1, <3>1, DetachedCalls DEF SaveArrives
  <2>2. CASE net[s].phase # "ok"
    BY <2>2, FinishedCalls DEF TypeOK, SaveArrives
  <2>3. QED
    BY <2>1, <2>2
<1>3. IsSidebar(rhs')
  BY DEF TypeOK, IsSidebar, SaveArrives
<1>4. dialog' \in Dialogs \cup {NoDialog}
  BY DEF TypeOK, SaveArrives, Dialogs
<1>5. QED
  BY <1>2, <1>3, <1>4 DEF TypeOK, SaveArrives, ViewStep, SidebarTyped, serverVars

(* The report. *)

LEMMA SelectionType ==
  ASSUME NEW r, IsReport(r)
  PROVE  Selection(r) \in Selections
BY MeAssumption DEF IsReport, Selection, Selections

(* A report that is mounted. *)
LEMMA MountType ==
  ASSUME TypeOK, NEW mode \in {"personal", "team"}, NEW n, AreCalls(n), Mount(mode, n)
  PROVE  ViewStep /\ ReportTyped
<1>1. [weeks |-> 1 .. week, dated |-> TRUE] \in Period
  <2>1. 1 .. week \in SUBSET Week
    BY WebBoundsAssumption DEF TypeOK, Week
  <2>2. QED
    BY <2>1 DEF Period
<1>2. IsReport(rep')
  BY <1>1, EmptyRows DEF Mount, IsReport
<1>3. SendAfter(n, Reload(Selection(rep'), "effect"))
  BY DEF Mount
<1>4. AreCalls(net')
  BY <1>2, <1>3, SelectionType, ReloadIsCall, SendAfterCalls
<1>5. QED
  BY <1>2, <1>4 DEF TypeOK, Mount, ViewStep, ReportTyped, serverVars

LEMMA OpenReportType == ASSUME TypeOK, OpenReport PROVE ViewStep /\ ReportTyped
BY MountType DEF TypeOK, OpenReport

LEMMA SwitchModeType ==
  ASSUME TypeOK, NEW mode \in {"personal", "team"}, SwitchMode(mode)
  PROVE  ViewStep /\ ReportTyped
<1>1. AreCalls(Orphaned({"report"}))
  BY OrphanedCalls DEF TypeOK
<1>2. QED
  BY <1>1, MountType DEF SwitchMode

LEMMA CloseReportType == ASSUME TypeOK, CloseReport PROVE ViewStep /\ ReportTyped
<1>1. OneWeek(1) \in Period
  BY WebBoundsAssumption DEF OneWeek, Period, Week
<1>2. IsReport(rep')
  BY <1>1, EmptyRows DEF CloseReport, NoReport, IsReport
<1>3. AreCalls(net')
  BY OrphanedCalls DEF TypeOK, CloseReport
<1>4. QED
  BY <1>2, <1>3 DEF TypeOK, CloseReport, ViewStep, ReportTyped, serverVars

LEMMA SelectType ==
  ASSUME TypeOK, NEW r, IsReport(r), Select(r) PROVE ViewStep /\ ReportTyped
<1>1. IsReport(rep')
  BY DEF IsReport, Select
<1>2. AreCalls(Cancel(net))
  BY CancelledCalls DEF TypeOK
<1>3. SendAfter(Cancel(net), Reload(Selection(r), "effect"))
  BY DEF Select
<1>4. AreCalls(net')
  BY <1>2, <1>3, SelectionType, ReloadIsCall, SendAfterCalls
<1>5. QED
  BY <1>1, <1>4, Counting DEF TypeOK, Select, ViewStep, ReportTyped, tableVars

LEMMA SelectedReport ==
  ASSUME TypeOK
  PROVE  /\ \A p \in Periods : IsReport([rep EXCEPT !.period = p])
         /\ \A u \in User \cup {Nobody} : IsReport([rep EXCEPT !.user = u])
BY PeriodsAssumption DEF TypeOK, IsReport

LEMMA ReportConfigType ==
  ASSUME TypeOK, ReportConfigArrives \/ ReportConfigFails PROVE ViewStep /\ ReportTyped
<1>1. IsReport(rep')
  BY DEF TypeOK, IsReport, ReportConfigArrives, ReportConfigFails, Config
<1>2. elsewhere' \in Nat /\ (elsewhere' = 0 => elsewhere = 0) /\ UNCHANGED net
  BY Counting DEF TypeOK, ReportConfigArrives, ReportConfigFails, serverVars
<1>3. QED
  BY <1>1, <1>2 DEF TypeOK, ReportConfigArrives, ReportConfigFails, ViewStep, ReportTyped,
    serverVars

(* The answer to a reload of the report. *)
LEMMA ListArrivesCall ==
  ASSUME TypeOK, NEW s \in Slot, ListArrives(s)
  PROVE  /\ s \in Pending /\ IsCall(net[s]) /\ net[s].owner = "report" /\ net[s].op = "list"
         /\ net[s].phase \in {"ok", "error"}
         /\ net[s].then \in [kind : {"effect", "action"}, cancelled : BOOLEAN]
         /\ net[s].then.cancelled => net[s].then.kind = "effect"
         /\ net[s].arg \in Selections
<1>1. /\ s \in Pending /\ IsCall(net[s]) /\ net[s].owner = "report" /\ net[s].op = "list"
      /\ net[s].phase \in {"ok", "error"}
  BY PendingIsCall DEF TypeOK, ListArrives, Answered, Pending
<1>2. QED
  BY <1>1, CallFields DEF Continues, Asks

LEMMA ListArrivesType ==
  ASSUME TypeOK, NEW s \in Slot, ListArrives(s) PROVE ViewStep /\ ReportTyped
<1>1. /\ net[s].then.kind \in {"effect", "action"} /\ net[s].arg \in Selections
      /\ net[s].phase # "error" => AreRows(net[s].got)
  BY ListArrivesCall, CallFields DEF Carries
<1>2. IsReport(rep')
  <2>1. IsReport(rep)
    BY DEF TypeOK
  <2>2. QED
    BY <1>1, <2>1 DEF IsReport, ListArrives, Heard, Ended
<1>3. AreCalls(net')
  BY FinishedCalls DEF TypeOK, ListArrives
<1>4. QED
  BY <1>2, <1>3 DEF TypeOK, ListArrives, ViewStep, ReportTyped, serverVars

LEMMA RunActionType ==
  ASSUME TypeOK, NEW arg, RunAction(arg),
         arg \in [user : User, period : Period, move : Moves, asAdmin : BOOLEAN]
  PROVE  /\ ViewStep /\ ReportTyped
         /\ IsCall(Sent("move", "report", arg, Selection(rep)))
<1> DEFINE c == Sent("move", "report", arg, Selection(rep))
<1>1. Selection(rep) \in Selections
  BY SelectionType DEF TypeOK
<1>2. c.op = "move" /\ c.arg = arg /\ c.owner = "report" /\ c.then = Selection(rep)
  BY SentCall
<1>3. Asks(c) /\ Continues(c) /\ "move" \in Op
  BY <1>1, <1>2 DEF Asks, Continues, Op
<1>4. IsCall(c)
  BY <1>3, SentIsCall
<1>5. AreCalls(net')
  BY <1>4, SendAfterCalls DEF TypeOK, RunAction, Send
<1>6. IsReport(rep')
  BY DEF TypeOK, IsReport, RunAction
<1>7. QED
  BY <1>4, <1>5, <1>6, Counting DEF TypeOK, RunAction, ViewStep, ReportTyped, tableVars

ReportButton ==
  ClickSubmit \/ ClickWithdraw \/ \E move \in {Approve, Reject, Reopen} : Decide(move)

(* Each button of the report runs an action. *)
LEMMA ReportButtonRuns ==
  ASSUME TypeOK, ReportButton
  PROVE  \E arg : /\ RunAction(arg)
                  /\ arg \in [user : User, period : Period, move : Moves, asAdmin : BOOLEAN]
<1>1. rep.period \in Period /\ rep.user \in User \cup {Nobody}
  BY DEF TypeOK, IsReport
<1>2. {Submit, Withdraw, Approve, Reject, Reopen} \subseteq Moves
  BY DEF Submit, Withdraw, Approve, Reject, Reopen, Moves
<1>3. \A m \in Moves : Own(rep.period, m) \in
        [user : User, period : Period, move : Moves, asAdmin : BOOLEAN]
  BY <1>1, MeAssumption DEF Own
<1>4. rep.user # Nobody => \A m \in Moves : OfUser(rep.user, rep.period, m) \in
        [user : User, period : Period, move : Moves, asAdmin : BOOLEAN]
  BY <1>1 DEF OfUser
<1>5. CASE ClickSubmit \/ ClickWithdraw
  BY <1>2, <1>3, <1>5 DEF ClickSubmit, ClickWithdraw
<1>6. CASE \E move \in {Approve, Reject, Reopen} : Decide(move)
  BY <1>2, <1>4, <1>6 DEF Decide
<1>7. QED
  BY <1>5, <1>6 DEF ReportButton

(* The answer to an action of the report. *)
LEMMA MoveArrivesCall ==
  ASSUME TypeOK, NEW s \in Slot, MoveArrives(s)
  PROVE  /\ s \in Pending /\ IsCall(net[s]) /\ net[s].owner = "report" /\ net[s].op = "move"
         /\ net[s].then \in Selections /\ net[s].phase \in {"ok", "error"}
<1>1. /\ s \in Pending /\ IsCall(net[s]) /\ net[s].owner = "report" /\ net[s].op = "move"
      /\ net[s].phase \in {"ok", "error"}
  BY PendingIsCall DEF TypeOK, MoveArrives, Answered, Pending
<1>2. QED
  BY <1>1, CallFields DEF Continues

LEMMA MoveArrivesType ==
  ASSUME TypeOK, NEW s \in Slot, MoveArrives(s) PROVE ViewStep /\ ReportTyped
<1>1. AreCalls(net')
  <2>1. IsCall(Reload(net[s].then, "action"))
    BY MoveArrivesCall, ReloadIsCall
  <2>2. QED
    BY <2>1, FinishedCalls, ReplacedCalls DEF TypeOK, MoveArrives
<1>2. IsReport(rep')
  <2>1. IsReport(rep)
    BY DEF TypeOK
  <2>2. QED
    <3>1. CASE net[s].phase = "ok"
      <4> DEFINE b == Racing = {s} /\ net[s].then = Selection(rep)
      <4>1. rep' = [rep EXCEPT !.loading = TRUE, !.error = FALSE, !.fresh = b]
        BY <3>1 DEF MoveArrives
      <4>2. b \in BOOLEAN
        OBVIOUS
      <4> HIDE DEF b
      <4>3. QED
        BY <2>1, <4>1, <4>2 DEF IsReport
    <3>2. CASE net[s].phase # "ok"
      <4>1. rep' = [rep EXCEPT !.busy = FALSE, !.error = TRUE]
        BY <3>2 DEF MoveArrives
      <4>2. QED
        BY <2>1, <4>1 DEF IsReport
    <3>3. QED
      BY <3>1, <3>2
<1>3. QED
  BY <1>1, <1>2 DEF TypeOK, MoveArrives, ViewStep, ReportTyped, serverVars

-----------------------------------------------------------------------------
(* The steps of the two views, and those of neither. *)

SidebarStep ==
  \/ OpenSidebar /\ ~rep.up
  \/ CloseSidebar \/ (\E d \in Int : Navigate(d)) \/ SidebarButton
  \/ (\E id \in Id : SelectEntry(id)) \/ AddEntry \/ DialogWrite
  \/ (\E confirming \in BOOLEAN : AskDelete(confirming)) \/ CloseDialog
  \/ ConfigArrives \/ ConfigFails
  \/ \E s \in Slot : RefetchArrives(s) \/ ActionArrives(s) \/ SaveArrives(s)

ReportStep ==
  \/ OpenReport /\ ~rhs.up
  \/ CloseReport \/ (\E mode \in {"personal", "team"} : SwitchMode(mode))
  \/ (\E p \in Periods : SetPeriod(p)) \/ (\E u \in User \cup {Nobody} : SelectUser(u))
  \/ ReportButton \/ ReportConfigArrives \/ ReportConfigFails
  \/ \E s \in Slot : ListArrives(s) \/ MoveArrives(s)

OtherStep == (\E s \in Slot : ServerStep(s)) \/ Elsewhere

(* A step is one of the sidebar, of the report or of neither. *)
LEMMA NextCases ==
  ASSUME Next
  PROVE  \/ SidebarStep /\ NotReport
         \/ ReportStep /\ NotSidebar
         \/ OtherStep /\ NotSidebar /\ NotReport
<1>1. (1 - MaxWeek) .. (MaxWeek - 1) \subseteq Int
  BY WebBoundsAssumption
<1>2. QED
  BY <1>1, Zenon DEF Next, SidebarStep, ReportStep, OtherStep, SidebarButton, ReportButton,
    DialogWrite, InSidebar, InReport

(* Each view leaves the calls of the other alone. *)
Theirs(owners) ==
  \A s \in Slot : net[s].owner \in owners \/ net'[s].owner \in owners => net'[s] = net[s]

-----------------------------------------------------------------------------
(* The flags of the sidebar and of its dialog. *)

IsAction(c, view, kind) == c.owner = view /\ (c.op \in Reads => c.then.kind = kind)
IsRun(c)      == IsAction(c, "sidebar", "run")
IsOwnWrite(c) == c.owner = "dialog" /\ c.then.shown

SidebarFlags ==
  /\ ~rhs.up => dialog = NoDialog /\ \A s \in Slot : net[s].owner \notin {"sidebar", "dialog"}
  /\ \A s, t \in Slot : IsRun(net[s]) /\ IsRun(net[t]) => s = t
  /\ rhs.busy <=> \E s \in Slot : IsRun(net[s])
  /\ \A s, t \in Slot : IsOwnWrite(net[s]) /\ IsOwnWrite(net[t]) => s = t
  /\ (\E s \in Slot : IsOwnWrite(net[s])) <=> (dialog # NoDialog /\ dialog.busy)
  /\ rhs.loading => \E s \in Slot : net[s].op = "refetch" /\ net[s].owner = "sidebar"

LEMMA NoCallIsNeither ==
  /\ ~IsRun(NoCall) /\ ~IsOwnWrite(NoCall)
  /\ NoCall.owner \notin {"sidebar", "dialog", "report", "gone"}
BY NoCallIsNone DEF IsRun, IsAction, IsOwnWrite

LEMMA RefetchFields ==
  \A w, kind :
    /\ Refetch(w, kind).op = "refetch" /\ Refetch(w, kind).owner = "sidebar"
    /\ Refetch(w, kind).arg = w /\ Refetch(w, kind).phase = "sent"
    /\ Refetch(w, kind).got = <<>>
    /\ Refetch(w, kind).then.kind = kind /\ Refetch(w, kind).then.week = w
    /\ IsRun(Refetch(w, kind)) <=> kind = "run"
    /\ ~IsOwnWrite(Refetch(w, kind))
<1> SUFFICES ASSUME NEW w, NEW kind
             PROVE  /\ Refetch(w, kind).op = "refetch" /\ Refetch(w, kind).owner = "sidebar"
                    /\ Refetch(w, kind).arg = w /\ Refetch(w, kind).phase = "sent"
                    /\ Refetch(w, kind).got = <<>>
                    /\ Refetch(w, kind).then.kind = kind /\ Refetch(w, kind).then.week = w
                    /\ IsRun(Refetch(w, kind)) <=> kind = "run"
                    /\ ~IsOwnWrite(Refetch(w, kind))
  OBVIOUS
<1>1. QED
  BY SentCall DEF Refetch, IsRun, IsAction, IsOwnWrite, Reads

LEMMA OpenSidebarFlags ==
  ASSUME TypeOK, SidebarFlags, OpenSidebar PROVE SidebarFlags'
<1>1. IsCall(Refetch(week, "effect"))
  BY RefetchIsCall DEF TypeOK
<1>2. PICK s \in Slot : /\ net[s] = NoCall /\ net'[s] = Refetch(week, "effect")
                        /\ \A t \in Slot : t # s => net'[t] = net[t]
  BY <1>1, SendAfterCalls DEF TypeOK, OpenSidebar, Send
<1>3. rhs'.up /\ rhs'.loading /\ ~rhs'.busy /\ UNCHANGED dialog /\ ~rhs.up
  BY DEF OpenSidebar
<1>4. /\ net'[s].op = "refetch" /\ net'[s].owner = "sidebar"
      /\ ~IsRun(net'[s]) /\ ~IsOwnWrite(net'[s])
  BY <1>2, RefetchFields
<1>5. \A t \in Slot : ~IsRun(net'[t]) /\ ~IsOwnWrite(net'[t])
  BY <1>2, <1>3, <1>4 DEF SidebarFlags, IsRun, IsAction, IsOwnWrite
<1>6. QED
  BY <1>3, <1>4, <1>5 DEF SidebarFlags

LEMMA CloseSidebarFlags ==
  ASSUME TypeOK, SidebarFlags, CloseSidebar PROVE SidebarFlags'
<1>1. \A s \in Slot : net'[s].owner \notin {"sidebar", "dialog"}
  BY OrphanedCalls DEF TypeOK, CloseSidebar
<1>2. ~rhs'.up /\ ~rhs'.busy /\ ~rhs'.loading /\ dialog' = NoDialog
  BY DEF CloseSidebar, Unmounted
<1>3. QED
  BY <1>1, <1>2 DEF SidebarFlags, IsRun, IsAction, IsOwnWrite

LEMMA NavigateFlags ==
  ASSUME TypeOK, SidebarFlags, NEW d \in Int, Navigate(d) PROVE SidebarFlags'
<1>1. IsCall(Refetch(week + d, "effect"))
  BY RefetchIsCall DEF TypeOK, Navigate
<1>2. PICK s \in Slot : /\ net[s] = NoCall /\ net'[s] = Refetch(week + d, "effect")
                        /\ \A t \in Slot : t # s => net'[t] = net[t]
  BY <1>1, SendAfterCalls DEF TypeOK, Navigate, Send
<1>3. /\ rhs'.up /\ rhs'.loading = rhs.loading /\ rhs'.busy = rhs.busy /\ UNCHANGED dialog
      /\ rhs.up
  BY DEF Navigate, TypeOK, IsSidebar
<1>4. /\ net'[s].op = "refetch" /\ net'[s].owner = "sidebar"
      /\ ~IsRun(net'[s]) /\ ~IsOwnWrite(net'[s])
  BY <1>2, RefetchFields
<1>5. \A t \in Slot : /\ IsRun(net'[t]) <=> IsRun(net[t])
                      /\ IsOwnWrite(net'[t]) <=> IsOwnWrite(net[t])
  BY <1>2, <1>4, NoCallIsNeither
<1>6. QED
  BY <1>3, <1>4, <1>5 DEF SidebarFlags

LEMMA RunFlags ==
  ASSUME TypeOK, SidebarFlags, NEW op, NEW arg, Run(op, arg), RunArg(op, arg), Clickable
  PROVE  SidebarFlags'
<1> DEFINE c == Sent(op, "sidebar", arg, [kind |-> "run", week |-> VisibleWeek])
<1>1. IsCall(c)
  BY RunType
<1>2. PICK s \in Slot : /\ net[s] = NoCall /\ net'[s] = c
                        /\ \A t \in Slot : t # s => net'[t] = net[t]
  BY <1>1, SendAfterCalls DEF TypeOK, Run, Send
<1>3. /\ rhs'.up /\ rhs'.loading = rhs.loading /\ rhs'.busy /\ UNCHANGED dialog
      /\ rhs.up /\ ~rhs.busy
  BY DEF Run, Clickable, TypeOK, IsSidebar
<1>4. IsRun(net'[s]) /\ ~IsOwnWrite(net'[s])
  BY <1>2, SentCall DEF IsRun, IsAction, IsOwnWrite, RunArg
<1>5. \A t \in Slot : t # s => /\ IsRun(net'[t]) <=> IsRun(net[t])
                               /\ IsOwnWrite(net'[t]) <=> IsOwnWrite(net[t])
  BY <1>2
<1>6. ~IsRun(net[s]) /\ ~IsOwnWrite(net[s]) /\ net[s].owner # "sidebar"
  BY <1>2, NoCallIsNeither
<1>7. QED
  BY <1>2, <1>3, <1>4, <1>5, <1>6 DEF SidebarFlags

LEMMA RefetchArrivesFlags ==
  ASSUME TypeOK, SidebarFlags, NEW s \in Slot, RefetchArrives(s) PROVE SidebarFlags'
<1>1. net[s].op = "refetch" /\ net[s].owner = "sidebar" /\ rhs.up
  BY DEF RefetchArrives, Answered, SidebarFlags
<1>2. net'[s] = NoCall /\ \A t \in Slot : t # s => net'[t] = net[t]
  BY FinishedCalls DEF TypeOK, RefetchArrives
<1>3. IsRun(net[s]) <=> net[s].then.kind = "run"
  BY <1>1 DEF IsRun, IsAction, Reads
<1>4. /\ rhs'.up /\ ~rhs'.loading /\ UNCHANGED dialog
      /\ rhs'.busy = IF net[s].then.kind = "run" THEN FALSE ELSE rhs.busy
  BY <1>1 DEF RefetchArrives, Refetched, Done, TypeOK, IsSidebar
<1>5. ~IsRun(net'[s]) /\ ~IsOwnWrite(net'[s]) /\ ~IsOwnWrite(net[s])
  BY <1>1, <1>2, NoCallIsNeither DEF IsOwnWrite
<1>6. QED
  BY <1>1, <1>2, <1>3, <1>4, <1>5 DEF SidebarFlags

LEMMA ActionArrivesFlags ==
  ASSUME TypeOK, SidebarFlags, NEW s \in Slot, ActionArrives(s) PROVE SidebarFlags'
<1>1. /\ net[s].op \notin Reads /\ net[s].owner = "sidebar" /\ rhs.up
      /\ IsRun(net[s]) /\ ~IsOwnWrite(net[s])
  BY DEF ActionArrives, Answered, SidebarFlags, TimerCalls, Reads, IsRun, IsAction, IsOwnWrite
<1>2. net[s].then.week \in Week
  BY ActionArrivesType
<1>3. rhs'.up /\ rhs'.loading = rhs.loading /\ UNCHANGED dialog
  BY <1>1 DEF ActionArrives, TypeOK, IsSidebar
<1>4. CASE net[s].phase = "ok"
  <2>1. /\ net'[s] = Refetch(net[s].then.week, "run")
        /\ \A t \in Slot : t # s => net'[t] = net[t]
    BY <1>2, <1>4, RefetchIsCall, ReplacedCalls DEF TypeOK, ActionArrives
  <2>2. IsRun(net'[s]) /\ ~IsOwnWrite(net'[s])
    BY <2>1, RefetchFields
  <2>3. rhs'.busy = rhs.busy
    BY <1>4 DEF ActionArrives, TypeOK, IsSidebar
  <2>4. QED
    BY <1>1, <1>3, <2>1, <2>2, <2>3, RefetchFields DEF SidebarFlags
<1>5. CASE net[s].phase # "ok"
  <2>1. net'[s] = NoCall /\ \A t \in Slot : t # s => net'[t] = net[t]
    BY <1>5, FinishedCalls DEF TypeOK, ActionArrives
  <2>2. ~rhs'.busy
    BY <1>5 DEF ActionArrives, TypeOK, IsSidebar
  <2>3. QED
    BY <1>1, <1>3, <2>1, <2>2, NoCallIsNeither DEF SidebarFlags, Reads
<1>6. QED
  BY <1>4, <1>5

LEMMA ShowFlags ==
  ASSUME TypeOK, SidebarFlags, NEW d \in Dialogs, ~d.busy, Show(d) PROVE SidebarFlags'
BY NoDialogAssumption DEF SidebarFlags, Show

LEMMA WriteFlags ==
  ASSUME TypeOK, SidebarFlags, NEW op \in EntryCalls, NEW arg, Write(op, arg), Enabled,
         IsCall(Sent(op, "dialog", arg, [shown |-> TRUE, week |-> VisibleWeek]))
  PROVE  SidebarFlags'
<1> DEFINE c == Sent(op, "dialog", arg, [shown |-> TRUE, week |-> VisibleWeek])
<1>1. PICK s \in Slot : /\ net[s] = NoCall /\ net'[s] = c
                        /\ \A t \in Slot : t # s => net'[t] = net[t]
  BY SendAfterCalls DEF TypeOK, Write, Send
<1>2. dialog \in Dialogs /\ ~dialog.busy
  BY DEF Enabled, TypeOK
<1>3. dialog' \in Dialogs /\ dialog'.busy /\ UNCHANGED rhs
  BY <1>2 DEF Write, Dialogs
<1>4. dialog' # NoDialog /\ dialog # NoDialog /\ rhs.up
  BY <1>2, <1>3, NoDialogAssumption DEF SidebarFlags
<1>5. ~IsRun(net'[s]) /\ IsOwnWrite(net'[s])
  BY <1>1, SentCall DEF IsRun, IsAction, IsOwnWrite
<1>6. ~IsRun(net[s]) /\ ~IsOwnWrite(net[s]) /\ net[s].owner # "sidebar"
  BY <1>1, NoCallIsNeither
<1>7. QED
  BY <1>1, <1>2, <1>3, <1>4, <1>5, <1>6 DEF SidebarFlags

LEMMA AskDeleteFlags ==
  ASSUME TypeOK, SidebarFlags, NEW confirming \in BOOLEAN, AskDelete(confirming)
  PROVE  SidebarFlags'
<1>1. dialog \in Dialogs /\ dialog' \in Dialogs /\ dialog'.busy = dialog.busy
  BY DEF AskDelete, Enabled, TypeOK, Dialogs
<1>2. QED
  BY <1>1, NoDialogAssumption DEF SidebarFlags, AskDelete

LEMMA CloseDialogFlags ==
  ASSUME TypeOK, SidebarFlags, CloseDialog PROVE SidebarFlags'
<1>1. \A s \in Slot : /\ net'[s].op = net[s].op /\ net'[s].owner = net[s].owner
                      /\ net[s].owner # "dialog" => net'[s] = net[s]
                      /\ ~IsOwnWrite(net'[s])
  BY DetachedCalls DEF TypeOK, CloseDialog, IsOwnWrite
<1>2. \A s \in Slot : IsRun(net'[s]) <=> IsRun(net[s])
  BY <1>1 DEF IsRun, IsAction
<1>3. QED
  BY <1>1, <1>2 DEF SidebarFlags, CloseDialog

LEMMA SaveArrivesFlags ==
  ASSUME TypeOK, SidebarFlags, NEW s \in Slot, SaveArrives(s) PROVE SidebarFlags'
<1>1. /\ s \in Pending /\ IsCall(net[s]) /\ net[s].owner = "dialog" /\ ~IsRun(net[s])
      /\ net[s].then.shown \in BOOLEAN /\ net[s].then.week \in Week
      /\ rhs.up /\ s \in Slot
  BY SaveArrivesCall DEF SidebarFlags, IsRun, IsAction
<1>2. CASE net[s].phase = "ok"
  <2> DEFINE n == [net EXCEPT ![s] = Refetch(net[s].then.week, "saved")]
  <2>1. /\ n[s] = Refetch(net[s].then.week, "saved") /\ AreCalls(n)
        /\ \A t \in Slot : t # s => n[t] = net[t]
    BY <1>1, RefetchIsCall, ReplacedCalls DEF TypeOK
  <2>2. net' = Detached(n)
    BY <1>2 DEF SaveArrives
  <2> HIDE DEF n
  <2>3. \A t \in Slot : /\ net'[t].op = n[t].op /\ net'[t].owner = n[t].owner
                        /\ n[t].owner # "dialog" => net'[t] = n[t]
                        /\ ~IsOwnWrite(net'[t])
    BY <2>1, <2>2, DetachedCalls DEF IsOwnWrite
  <2>4. ~IsRun(net'[s])
    BY <2>1, <2>3, RefetchFields
  <2>5. \A t \in Slot : IsRun(net'[t]) <=> IsRun(net[t])
    BY <1>1, <2>1, <2>3, <2>4 DEF IsRun, IsAction
  <2>6. rhs'.up /\ rhs'.loading = rhs.loading /\ rhs'.busy = rhs.busy /\ dialog' = NoDialog
    BY <1>1, <1>2 DEF SaveArrives, TypeOK, IsSidebar
  <2>7. \A t \in Slot : net[t].owner = "sidebar" =>
          net'[t].owner = "sidebar" /\ net'[t].op = net[t].op
    BY <1>1, <2>1, <2>3
  <2>8. QED
    BY <2>3, <2>5, <2>6, <2>7 DEF SidebarFlags
<1>3. CASE net[s].phase # "ok"
  <2>1. net'[s] = NoCall /\ \A t \in Slot : t # s => net'[t] = net[t]
    BY <1>3, FinishedCalls DEF TypeOK, SaveArrives
  <2>2. UNCHANGED rhs
    BY <1>3 DEF SaveArrives
  <2>3. ~IsRun(net'[s]) /\ ~IsOwnWrite(net'[s])
    BY <2>1, NoCallIsNeither
  <2>4. CASE net[s].then.shown
    <3>1. dialog \in Dialogs /\ dialog.busy
      BY <1>1, <2>4 DEF SidebarFlags, IsOwnWrite, TypeOK
    <3>2. dialog' \in Dialogs /\ ~dialog'.busy
      BY <1>3, <2>4, <3>1 DEF SaveArrives, Dialogs
    <3>3. \A t \in Slot : ~IsOwnWrite(net'[t])
      BY <1>1, <2>1, <2>3, <2>4 DEF SidebarFlags, IsOwnWrite
    <3>4. QED
      BY <1>1, <2>1, <2>2, <2>3, <3>2, <3>3 DEF SidebarFlags
  <2>5. CASE ~net[s].then.shown
    <3>1. UNCHANGED dialog /\ ~IsOwnWrite(net[s])
      BY <1>3, <2>5 DEF SaveArrives, IsOwnWrite
    <3>2. QED
      BY <1>1, <2>1, <2>2, <2>3, <3>1 DEF SidebarFlags
  <2>6. QED
    BY <2>4, <2>5
<1>4. QED
  BY <1>2, <1>3

-----------------------------------------------------------------------------
(* The flags and the signal of the report. *)

IsReportRun(c)  == IsAction(c, "report", "action")
IsLiveEffect(c) ==
  c.op = "list" /\ c.owner = "report" /\ c.then.kind = "effect" /\ ~c.then.cancelled
IsLiveList(c)   == c.op = "list" /\ c.owner = "report" /\ ~c.then.cancelled

ReportFlags ==
  /\ ~rep.up => \A s \in Slot : net[s].owner # "report"
  /\ \A s, t \in Slot : IsReportRun(net[s]) /\ IsReportRun(net[t]) => s = t
  /\ rep.busy <=> \E s \in Slot : IsReportRun(net[s])
  /\ \A s, t \in Slot : IsLiveEffect(net[s]) /\ IsLiveEffect(net[t]) => s = t
  /\ \A s \in Slot : IsLiveEffect(net[s]) => net[s].arg = Selection(rep)
  /\ rep.loading => \E s \in Slot : IsLiveList(net[s])
  /\ StaleIsAnnounced

LEMMA NoCallIsNoReload ==
  ~IsReportRun(NoCall) /\ ~IsLiveEffect(NoCall) /\ ~IsLiveList(NoCall)
BY NoCallIsNone DEF IsReportRun, IsAction, IsLiveEffect, IsLiveList

LEMMA ReloadFields ==
  \A sel, kind :
    /\ Reload(sel, kind).op = "list" /\ Reload(sel, kind).owner = "report"
    /\ Reload(sel, kind).arg = sel /\ Reload(sel, kind).phase = "sent"
    /\ Reload(sel, kind).got = <<>>
    /\ Reload(sel, kind).then.kind = kind /\ ~Reload(sel, kind).then.cancelled
    /\ IsReportRun(Reload(sel, kind)) <=> kind = "action"
    /\ IsLiveEffect(Reload(sel, kind)) <=> kind = "effect"
    /\ IsLiveList(Reload(sel, kind))
<1> SUFFICES ASSUME NEW sel, NEW kind
             PROVE  /\ Reload(sel, kind).op = "list" /\ Reload(sel, kind).owner = "report"
                    /\ Reload(sel, kind).arg = sel /\ Reload(sel, kind).phase = "sent"
                    /\ Reload(sel, kind).got = <<>>
                    /\ Reload(sel, kind).then.kind = kind /\ ~Reload(sel, kind).then.cancelled
                    /\ IsReportRun(Reload(sel, kind)) <=> kind = "action"
                    /\ IsLiveEffect(Reload(sel, kind)) <=> kind = "effect"
                    /\ IsLiveList(Reload(sel, kind))
  OBVIOUS
<1>1. QED
  BY SentCall DEF Reload, IsReportRun, IsAction, IsLiveEffect, IsLiveList, Reads

(* The selection is that of the tab, the user and the period. *)
LEMMA SameSelection ==
  ASSUME rep'.mode = rep.mode, rep'.user = rep.user, rep'.period = rep.period
  PROVE  Selection(rep)' = Selection(rep)
BY DEF Selection

(* A report that is mounted waits for one reload, and nothing else.        *)
LEMMA MountFlags ==
  ASSUME TypeOK, NEW mode \in {"personal", "team"}, NEW n, AreCalls(n),
         \A s \in Slot : n[s].owner # "report", Mount(mode, n)
  PROVE  ReportFlags'
<1>1. /\ rep'.up /\ rep'.loading /\ ~rep'.busy /\ IsReport(rep')
      /\ SendAfter(n, Reload(Selection(rep'), "effect"))
  BY MountType DEF Mount, ReportTyped
<1>2. IsCall(Reload(Selection(rep'), "effect"))
  BY <1>1, SelectionType, ReloadIsCall
<1>3. PICK s \in Slot : /\ n[s] = NoCall /\ net'[s] = Reload(Selection(rep'), "effect")
                        /\ \A t \in Slot : t # s => net'[t] = n[t]
  BY <1>1, <1>2, SendAfterCalls
<1>4. \A t \in Slot : t # s =>
        ~IsReportRun(net'[t]) /\ ~IsLiveEffect(net'[t]) /\ ~IsLiveList(net'[t])
  BY <1>3 DEF IsReportRun, IsAction, IsLiveEffect, IsLiveList
<1>5. /\ ~IsReportRun(net'[s]) /\ IsLiveEffect(net'[s]) /\ IsLiveList(net'[s])
      /\ net'[s].arg = Selection(rep')
  BY <1>3, ReloadFields
<1>6. StaleIsAnnounced'
  BY <1>1 DEF StaleIsAnnounced
<1>7. QED
  BY <1>1, <1>4, <1>5, <1>6 DEF ReportFlags

LEMMA OpenReportFlags == ASSUME TypeOK, ReportFlags, OpenReport PROVE ReportFlags'
BY MountFlags DEF TypeOK, OpenReport, ReportFlags

LEMMA SwitchModeFlags ==
  ASSUME TypeOK, NEW mode \in {"personal", "team"}, SwitchMode(mode) PROVE ReportFlags'
<1>1. AreCalls(Orphaned({"report"})) /\ \A s \in Slot : Orphaned({"report"})[s].owner # "report"
  BY OrphanedCalls DEF TypeOK
<1>2. QED
  BY <1>1, MountFlags DEF SwitchMode

LEMMA CloseReportFlags == ASSUME TypeOK, CloseReport PROVE ReportFlags'
<1>1. \A s \in Slot : net'[s].owner # "report"
  BY OrphanedCalls DEF TypeOK, CloseReport
<1>2. ~rep'.up /\ ~rep'.busy /\ ~rep'.loading
  BY DEF CloseReport, NoReport
<1>3. QED
  BY <1>1, <1>2 DEF ReportFlags, IsReportRun, IsAction, IsLiveEffect, StaleIsAnnounced

LEMMA SelectFlags ==
  ASSUME TypeOK, ReportFlags, NEW r, IsReport(r), r.busy = rep.busy, r.up = rep.up, Select(r)
  PROVE  ReportFlags'
<1>1. /\ rep'.up /\ rep'.loading /\ rep'.busy = rep.busy /\ rep.up
      /\ rep'.mode = r.mode /\ rep'.user = r.user /\ rep'.period = r.period
  BY DEF Select, IsReport
<1>2. Selection(rep') = Selection(r)
  BY <1>1 DEF Selection
<1>3. /\ AreCalls(Cancel(net)) /\ IsCall(Reload(Selection(r), "effect"))
      /\ SendAfter(Cancel(net), Reload(Selection(r), "effect"))
  BY CancelledCalls, SelectionType, ReloadIsCall DEF TypeOK, Select
<1> DEFINE n == Cancel(net)
<1>4. PICK s \in Slot : /\ n[s] = NoCall /\ net'[s] = Reload(Selection(r), "effect")
                        /\ \A t \in Slot : t # s => net'[t] = n[t]
  BY <1>3, SendAfterCalls
<1>5. \A t \in Slot : /\ n[t].op = net[t].op /\ n[t].owner = net[t].owner
                      /\ net[t].owner # "report" \/ net[t].op # "list" => n[t] = net[t]
                      /\ net[t].owner = "report" /\ net[t].op = "list" =>
                           /\ n[t].then.kind = net[t].then.kind
                           /\ n[t].then.cancelled <=> net[t].then.kind = "effect"
  BY CancelledCalls DEF TypeOK
<1> HIDE DEF n
<1>6. \A t \in Slot : /\ IsReportRun(n[t]) <=> IsReportRun(net[t])
                      /\ ~IsLiveEffect(n[t])
  BY <1>5 DEF IsReportRun, IsAction, IsLiveEffect, Reads
<1>7. /\ ~IsReportRun(net'[s]) /\ IsLiveEffect(net'[s]) /\ IsLiveList(net'[s])
      /\ net'[s].arg = Selection(rep') /\ ~IsReportRun(n[s])
  BY <1>2, <1>4, ReloadFields, NoCallIsNoReload
<1>8. \A t \in Slot : /\ IsReportRun(net'[t]) <=> IsReportRun(net[t])
                      /\ t # s => ~IsLiveEffect(net'[t])
  BY <1>4, <1>6, <1>7
<1>9. StaleIsAnnounced'
  BY <1>1 DEF StaleIsAnnounced
<1>10. QED
  BY <1>1, <1>7, <1>8, <1>9 DEF ReportFlags

LEMMA ReportConfigFlags ==
  ASSUME TypeOK, ReportFlags, ReportConfigArrives \/ ReportConfigFails PROVE ReportFlags'
<1>1. /\ UNCHANGED net /\ rep'.up = rep.up /\ rep'.busy = rep.busy /\ rep'.loading = rep.loading
      /\ rep'.mode = rep.mode /\ rep'.user = rep.user /\ rep'.period = rep.period
      /\ rep'.of = rep.of /\ rep'.by = rep.by /\ rep'.error = rep.error
  BY DEF ReportConfigArrives, ReportConfigFails, TypeOK, IsReport
<1>2. Selection(rep)' = Selection(rep)
  BY <1>1, SameSelection
<1>3. QED
  BY <1>1, <1>2 DEF ReportFlags, StaleIsAnnounced

LEMMA ListArrivesFlags ==
  ASSUME TypeOK, ReportFlags, NEW s \in Slot, ListArrives(s) PROVE ReportFlags'
<1>1. /\ net[s].owner = "report" /\ net[s].op = "list" /\ net[s].phase \in {"ok", "error"}
      /\ net[s].then.kind \in {"effect", "action"} /\ net[s].then.cancelled \in BOOLEAN
      /\ net[s].then.cancelled => net[s].then.kind = "effect"
      /\ rep.up
  BY ListArrivesCall DEF ReportFlags
<1>2. net'[s] = NoCall /\ \A t \in Slot : t # s => net'[t] = net[t]
  BY FinishedCalls DEF TypeOK, ListArrives
<1>3. ~IsReportRun(net'[s]) /\ ~IsLiveEffect(net'[s]) /\ ~IsLiveList(net'[s])
  BY <1>2, NoCallIsNoReload
<1>4. CASE net[s].then.cancelled
  <2>1. UNCHANGED rep
    BY <1>4 DEF ListArrives, Heard
  <2>2. ~IsReportRun(net[s]) /\ ~IsLiveEffect(net[s]) /\ ~IsLiveList(net[s])
    BY <1>1, <1>4 DEF IsReportRun, IsAction, IsLiveEffect, IsLiveList, Reads
  <2>3. \A t \in Slot : /\ IsReportRun(net'[t]) <=> IsReportRun(net[t])
                        /\ IsLiveEffect(net'[t]) <=> IsLiveEffect(net[t])
                        /\ IsLiveList(net'[t]) <=> IsLiveList(net[t])
    BY <1>2, <1>3, <2>2
  <2>4. QED
    BY <1>1, <1>2, <1>3, <2>1, <2>3 DEF ReportFlags, StaleIsAnnounced
<1>5. CASE ~net[s].then.cancelled
  <2>1. /\ rep'.up /\ ~rep'.loading
        /\ rep'.busy = IF net[s].then.kind = "action" THEN FALSE ELSE rep.busy
        /\ rep'.mode = rep.mode /\ rep'.user = rep.user /\ rep'.period = rep.period
        /\ \/ rep'.error
           \/ rep'.of = net[s].arg /\ rep'.by = net[s].then.kind
    BY <1>1, <1>5 DEF ListArrives, Heard, Ended, TypeOK, IsReport
  <2>2. Selection(rep)' = Selection(rep)
    BY <2>1, SameSelection
  <2>3. /\ IsReportRun(net[s]) <=> net[s].then.kind = "action"
        /\ IsLiveEffect(net[s]) <=> net[s].then.kind = "effect"
    BY <1>1, <1>5 DEF IsReportRun, IsAction, IsLiveEffect, Reads
  <2>4. StaleIsAnnounced'
    BY <1>1, <2>1, <2>2, <2>3 DEF ReportFlags, StaleIsAnnounced
  <2>5. QED
    BY <1>1, <1>2, <1>3, <2>1, <2>2, <2>3, <2>4 DEF ReportFlags
<1>6. QED
  BY <1>1, <1>4, <1>5

LEMMA RunActionFlags ==
  ASSUME TypeOK, ReportFlags, NEW arg, RunAction(arg),
         IsCall(Sent("move", "report", arg, Selection(rep)))
  PROVE  ReportFlags'
<1> DEFINE c == Sent("move", "report", arg, Selection(rep))
<1>1. PICK s \in Slot : /\ net[s] = NoCall /\ net'[s] = c
                        /\ \A t \in Slot : t # s => net'[t] = net[t]
  BY SendAfterCalls DEF TypeOK, RunAction, Send
<1>2. /\ rep'.up /\ rep'.busy /\ ~rep.busy /\ rep'.loading = rep.loading
      /\ rep'.mode = rep.mode /\ rep'.user = rep.user /\ rep'.period = rep.period
  BY DEF RunAction, TypeOK, IsReport
<1>3. Selection(rep)' = Selection(rep)
  BY <1>2, SameSelection
<1>4. IsReportRun(net'[s]) /\ ~IsLiveEffect(net'[s])
  BY <1>1, SentCall DEF IsReportRun, IsAction, IsLiveEffect, Reads
<1>5. ~IsReportRun(net[s]) /\ ~IsLiveEffect(net[s]) /\ ~IsLiveList(net[s])
  BY <1>1, NoCallIsNoReload
<1>6. StaleIsAnnounced'
  BY <1>2 DEF StaleIsAnnounced
<1>7. QED
  BY <1>1, <1>2, <1>3, <1>4, <1>5, <1>6 DEF ReportFlags

LEMMA MoveArrivesFlags ==
  ASSUME TypeOK, ReportFlags, NEW s \in Slot, MoveArrives(s) PROVE ReportFlags'
<1>1. /\ net[s].owner = "report" /\ net[s].op = "move" /\ IsReportRun(net[s])
      /\ ~IsLiveEffect(net[s]) /\ ~IsLiveList(net[s])
      /\ net[s].then \in Selections /\ rep.up
  BY MoveArrivesCall DEF IsReportRun, IsAction, IsLiveEffect, IsLiveList, Reads, ReportFlags
<1>2. CASE net[s].phase = "ok"
  <2>1. /\ net'[s] = Reload(net[s].then, "action")
        /\ \A t \in Slot : t # s => net'[t] = net[t]
    BY <1>1, <1>2, ReloadIsCall, ReplacedCalls DEF TypeOK, MoveArrives
  <2>2. /\ rep'.up /\ rep'.loading /\ rep'.busy = rep.busy
        /\ rep'.mode = rep.mode /\ rep'.user = rep.user /\ rep'.period = rep.period
    BY <1>1, <1>2 DEF MoveArrives, TypeOK, IsReport
  <2>3. Selection(rep)' = Selection(rep)
    BY <2>2, SameSelection
  <2>4. IsReportRun(net'[s]) /\ ~IsLiveEffect(net'[s]) /\ IsLiveList(net'[s])
    BY <2>1, ReloadFields
  <2>5. StaleIsAnnounced'
    BY <2>2 DEF StaleIsAnnounced
  <2>6. QED
    BY <1>1, <2>1, <2>2, <2>3, <2>4, <2>5 DEF ReportFlags
<1>3. CASE net[s].phase # "ok"
  <2>1. net'[s] = NoCall /\ \A t \in Slot : t # s => net'[t] = net[t]
    BY <1>3, FinishedCalls DEF TypeOK, MoveArrives
  <2>2. rep' = [rep EXCEPT !.busy = FALSE, !.error = TRUE]
    BY <1>3 DEF MoveArrives
  <2>3. /\ rep'.up /\ rep'.loading = rep.loading /\ ~rep'.busy /\ rep'.error
        /\ rep'.mode = rep.mode /\ rep'.user = rep.user /\ rep'.period = rep.period
    BY <1>1, <2>2 DEF TypeOK, IsReport
  <2>4. Selection(rep)' = Selection(rep)
    BY <2>3, SameSelection
  <2>5. ~IsReportRun(net'[s]) /\ ~IsLiveEffect(net'[s]) /\ ~IsLiveList(net'[s])
    BY <2>1, NoCallIsNoReload
  <2>6. StaleIsAnnounced'
    BY <2>3 DEF StaleIsAnnounced
  <2>7. QED
    BY <1>1, <2>1, <2>3, <2>4, <2>5, <2>6 DEF ReportFlags
<1>4. QED
  BY <1>2, <1>3

LEMMA ConfigFlags ==
  ASSUME TypeOK, SidebarFlags, ConfigArrives \/ ConfigFails PROVE SidebarFlags'
<1>1. /\ UNCHANGED <<net, dialog>>
      /\ rhs'.up = rhs.up /\ rhs'.busy = rhs.busy /\ rhs'.loading = rhs.loading
  BY DEF ConfigArrives, ConfigFails, TypeOK, IsSidebar
<1>2. QED
  BY <1>1 DEF SidebarFlags

-----------------------------------------------------------------------------
(* The inductive invariant: the types, the flags, and one view at a time.  *)

Views ==
  TypeOK /\ SidebarFlags /\ ReportFlags /\ ~(rhs.up /\ rep.up)

(* A step of the sidebar keeps its types and flags. *)
LEMMA SidebarStepKeeps ==
  ASSUME Views, SidebarStep
  PROVE  ViewStep /\ SidebarTyped /\ SidebarFlags' /\ (rhs'.up => rhs.up \/ ~rep.up)
<1>1. TypeOK /\ SidebarFlags
  BY DEF Views
<1>2. CASE OpenSidebar /\ ~rep.up
  BY <1>1, <1>2, OpenSidebarType, OpenSidebarFlags
<1>3. CASE CloseSidebar
  BY <1>1, <1>3, CloseSidebarType, CloseSidebarFlags DEF CloseSidebar
<1>4. ASSUME NEW d \in Int, Navigate(d)
      PROVE  ViewStep /\ SidebarTyped /\ SidebarFlags' /\ rhs.up
  BY <1>1, <1>4, NavigateType, NavigateFlags DEF Navigate
<1>5. CASE SidebarButton
  BY <1>1, <1>5, SidebarButtonRuns, RunType, RunFlags DEF Clickable
<1>6. ASSUME NEW id \in Id, SelectEntry(id)
      PROVE  ViewStep /\ SidebarTyped /\ SidebarFlags' /\ rhs.up
  <2> DEFINE d == Dialog(id, rhs.list[id].status # StatusOpen)
  <2>1. d \in Dialogs /\ ~d.busy
    BY DialogIsDialog DEF Dialog
  <2>2. Show(d)
    BY <1>6 DEF SelectEntry
  <2> HIDE DEF d
  <2>3. QED
    BY <1>1, <2>1, <2>2, ShowType, ShowFlags DEF Show
<1>7. CASE AddEntry
  <2> DEFINE d == Dialog(NoEntry, FALSE)
  <2>1. d \in Dialogs /\ ~d.busy /\ Show(d)
    BY <1>7, DialogIsDialog DEF Dialog, AddEntry
  <2> HIDE DEF d
  <2>2. QED
    BY <1>1, <2>1, ShowType, ShowFlags DEF Show
<1>8. CASE DialogWrite
  <2>1. PICK op \in EntryCalls : \E arg :
          /\ Write(op, arg)
          /\ \/ op = "create" /\ arg \in [body : Bodies]
             \/ op = "update" /\ arg \in [id : Id, body : Bodies]
             \/ op = "delete" /\ arg \in [id : Id]
    BY <1>1, <1>8, DialogWrites
  <2>2. Enabled /\ dialog # NoDialog /\ rhs.up
    BY <1>1, <1>8, DialogWrites DEF SidebarFlags
  <2>3. QED
    BY <1>1, <2>1, <2>2, WriteType, WriteFlags
<1>9. ASSUME NEW confirming \in BOOLEAN, AskDelete(confirming)
      PROVE  ViewStep /\ SidebarTyped /\ SidebarFlags' /\ UNCHANGED rhs
  BY <1>1, <1>9, AskDeleteType, AskDeleteFlags DEF AskDelete
<1>10. CASE CloseDialog
  BY <1>1, <1>10, CloseDialogType, CloseDialogFlags DEF CloseDialog
<1>11. CASE ConfigArrives \/ ConfigFails
  <2>1. rhs'.up = rhs.up
    BY <1>1, <1>11 DEF ConfigArrives, ConfigFails, TypeOK, IsSidebar
  <2>2. QED
    BY <1>1, <1>11, <2>1, ConfigType, ConfigFlags
<1>12. ASSUME NEW s \in Slot, RefetchArrives(s)
       PROVE  ViewStep /\ SidebarTyped /\ SidebarFlags' /\ rhs.up
  BY <1>1, <1>12, RefetchArrivesType, RefetchArrivesFlags
    DEF RefetchArrives, Answered, SidebarFlags
<1>13. ASSUME NEW s \in Slot, ActionArrives(s)
       PROVE  ViewStep /\ SidebarTyped /\ SidebarFlags' /\ rhs.up
  BY <1>1, <1>13, ActionArrivesType, ActionArrivesFlags
    DEF ActionArrives, Answered, SidebarFlags
<1>14. ASSUME NEW s \in Slot, SaveArrives(s)
       PROVE  ViewStep /\ SidebarTyped /\ SidebarFlags' /\ rhs.up
  <2>1. net[s].owner = "dialog" /\ rhs.up
    BY <1>1, <1>14, SaveArrivesCall DEF SidebarFlags
  <2>2. net[s].then.shown => dialog # NoDialog
    BY <1>1, <2>1 DEF SidebarFlags, IsOwnWrite
  <2>3. QED
    BY <1>1, <1>14, <2>1, <2>2, SaveArrivesType, SaveArrivesFlags
<1>15. QED
  BY <1>2, <1>3, <1>4, <1>5, <1>6, <1>7, <1>8, <1>9, <1>10, <1>11, <1>12, <1>13, <1>14
    DEF SidebarStep

(* A step of the report keeps its own. *)
LEMMA ReportStepKeeps ==
  ASSUME Views, ReportStep
  PROVE  ViewStep /\ ReportTyped /\ ReportFlags' /\ (rep'.up => rep.up \/ ~rhs.up)
<1>1. TypeOK /\ ReportFlags
  BY DEF Views
<1>2. CASE OpenReport /\ ~rhs.up
  BY <1>1, <1>2, OpenReportType, OpenReportFlags
<1>3. CASE CloseReport
  BY <1>1, <1>3, CloseReportType, CloseReportFlags DEF CloseReport
<1>4. ASSUME NEW mode \in {"personal", "team"}, SwitchMode(mode)
      PROVE  ViewStep /\ ReportTyped /\ ReportFlags' /\ rep.up
  BY <1>1, <1>4, SwitchModeType, SwitchModeFlags DEF SwitchMode
<1>5. ASSUME NEW p \in Periods, SetPeriod(p)
      PROVE  ViewStep /\ ReportTyped /\ ReportFlags' /\ rep.up
  <2> DEFINE r == [rep EXCEPT !.period = p]
  <2>1. IsReport(r) /\ r.busy = rep.busy /\ r.up = rep.up
    BY <1>1, SelectedReport DEF TypeOK, IsReport
  <2>2. Select(r)
    BY <1>5 DEF SetPeriod
  <2> HIDE DEF r
  <2>3. QED
    BY <1>1, <2>1, <2>2, SelectType, SelectFlags DEF Select
<1>6. ASSUME NEW u \in User \cup {Nobody}, SelectUser(u)
      PROVE  ViewStep /\ ReportTyped /\ ReportFlags' /\ rep.up
  <2> DEFINE r == [rep EXCEPT !.user = u]
  <2>1. IsReport(r) /\ r.busy = rep.busy /\ r.up = rep.up
    BY <1>1, SelectedReport DEF TypeOK, IsReport
  <2>2. Select(r)
    BY <1>6 DEF SelectUser
  <2> HIDE DEF r
  <2>3. QED
    BY <1>1, <2>1, <2>2, SelectType, SelectFlags DEF Select
<1>7. CASE ReportButton
  <2>1. PICK arg : /\ RunAction(arg)
                   /\ arg \in [user : User, period : Period, move : Moves, asAdmin : BOOLEAN]
    BY <1>1, <1>7, ReportButtonRuns
  <2>2. QED
    BY <1>1, <2>1, RunActionType, RunActionFlags DEF RunAction
<1>8. CASE ReportConfigArrives \/ ReportConfigFails
  <2>1. rep'.up = rep.up
    BY <1>1, <1>8 DEF ReportConfigArrives, ReportConfigFails, TypeOK, IsReport
  <2>2. QED
    BY <1>1, <1>8, <2>1, ReportConfigType, ReportConfigFlags
<1>9. ASSUME NEW s \in Slot, ListArrives(s)
      PROVE  ViewStep /\ ReportTyped /\ ReportFlags' /\ rep.up
  BY <1>1, <1>9, ListArrivesType, ListArrivesFlags, ListArrivesCall DEF ReportFlags
<1>10. ASSUME NEW s \in Slot, MoveArrives(s)
       PROVE  ViewStep /\ ReportTyped /\ ReportFlags' /\ rep.up
  BY <1>1, <1>10, MoveArrivesType, MoveArrivesFlags, MoveArrivesCall DEF ReportFlags
<1>11. QED
  BY <1>2, <1>3, <1>4, <1>5, <1>6, <1>7, <1>8, <1>9, <1>10 DEF ReportStep
-----------------------------------------------------------------------------
(* What a step of a view does to the calls: it sends one, ends one, or     *)
(* changes who hears the answer, and it leaves those of the other alone.   *)

SameAnswer(c, d) == d.op = c.op /\ d.arg = c.arg /\ d.phase = c.phase /\ d.got = c.got

(* A write of the dialog is of its entry. *)
SidebarSends(c) ==
  /\ c.owner \in {"sidebar", "dialog"} /\ c.phase = "sent" /\ c.got = <<>>
  /\ c.op \in {"update", "delete"} =>
       dialog # NoDialog /\ dialog.entry # NoEntry /\ c.arg.id = dialog.entry

SidebarChange(c, d) ==
  \/ d = c
  \/ c.owner \in {"sidebar", "dialog"} /\ d.owner \in {c.owner, "gone"} /\ SameAnswer(c, d)
  \/ c.owner \in {"sidebar", "dialog", "none"} /\ (d = NoCall \/ SidebarSends(d))

ReportSends(c) ==
  /\ c.owner = "report" /\ c.phase = "sent" /\ c.got = <<>>
  /\ c.op \in {"list", "move"}

ReportChange(c, d) ==
  \/ d = c
  \/ c.owner = "report" /\ d.owner \in {"report", "gone"} /\ SameAnswer(c, d)
  \/ c.owner \in {"report", "none"} /\ (d = NoCall \/ ReportSends(d))

LEMMA SentChange ==
  ASSUME AreCalls(net), NEW c, IsCall(c), SendAfter(net, c), SidebarSends(c)
  PROVE  \A s \in Slot : SidebarChange(net[s], net'[s])
<1>1. PICK s \in Slot : /\ net[s] = NoCall /\ net'[s] = c
                        /\ \A t \in Slot : t # s => net'[t] = net[t]
  BY SendAfterCalls
<1>2. QED
  BY <1>1, NoCallIsNone DEF SidebarChange

LEMMA ReloadedChange ==
  ASSUME NEW n, AreCalls(n), \A s \in Slot : ReportChange(net[s], n[s]),
         NEW c, IsCall(c), SendAfter(n, c), ReportSends(c)
  PROVE  \A s \in Slot : ReportChange(net[s], net'[s])
<1>1. PICK s \in Slot : /\ n[s] = NoCall /\ net'[s] = c
                        /\ \A t \in Slot : t # s => net'[t] = n[t]
  BY SendAfterCalls
<1>2. net[s].owner \in {"report", "none"}
  BY <1>1, NoCallIsNone DEF ReportChange
<1>3. QED
  BY <1>1, <1>2 DEF ReportChange

LEMMA RefetchIsSent ==
  \A w, kind : SidebarSends(Refetch(w, kind))
BY RefetchFields DEF SidebarSends

LEMMA ReloadIsSent ==
  \A sel, kind : ReportSends(Reload(sel, kind))
BY ReloadFields DEF ReportSends

(* What the sidebar's steps do to the calls, action by action. *)
LEMMA SidebarStepCalls ==
  ASSUME Views, SidebarStep
  PROVE  \A s \in Slot : SidebarChange(net[s], net'[s])
<1>1. TypeOK /\ AreCalls(net)
  BY DEF Views, TypeOK
<1>2. UNCHANGED net => \A s \in Slot : SidebarChange(net[s], net'[s])
  BY DEF SidebarChange
<1>3. CASE OpenSidebar
  <2>1. IsCall(Refetch(week, "effect")) /\ SidebarSends(Refetch(week, "effect"))
    BY <1>1, RefetchIsCall, RefetchIsSent DEF TypeOK
  <2>2. QED
    BY <1>1, <1>3, <2>1, SentChange DEF OpenSidebar, Send
<1>4. CASE CloseSidebar
  <2>1. "gone" \notin {"sidebar", "dialog"} /\ "none" \notin {"sidebar", "dialog"}
    OBVIOUS
  <2>2. QED
    BY <1>1, <1>4, <2>1, OrphanedCalls DEF CloseSidebar, SidebarChange, SameAnswer
<1>5. ASSUME NEW d \in Int, Navigate(d)
      PROVE  \A s \in Slot : SidebarChange(net[s], net'[s])
  <2>1. IsCall(Refetch(week + d, "effect")) /\ SidebarSends(Refetch(week + d, "effect"))
    BY <1>5, RefetchIsCall, RefetchIsSent DEF Navigate
  <2>2. QED
    BY <1>1, <1>5, <2>1, SentChange DEF Navigate, Send
<1>6. CASE SidebarButton
  <2>1. PICK op, arg : Run(op, arg) /\ RunArg(op, arg)
    BY <1>1, <1>6, SidebarButtonRuns
  <2> DEFINE c == Sent(op, "sidebar", arg, [kind |-> "run", week |-> VisibleWeek])
  <2>2. IsCall(c) /\ SendAfter(net, c)
    BY <1>1, <2>1, RunType DEF Run, Send
  <2>3. c.owner = "sidebar" /\ c.op = op /\ c.phase = "sent" /\ c.got = <<>>
    BY SentCall
  <2> HIDE DEF c
  <2>4. SidebarSends(c)
    BY <2>1, <2>3 DEF SidebarSends, RunArg, TimerCalls
  <2>5. QED
    BY <1>1, <2>2, <2>4, SentChange
<1>7. CASE DialogWrite
  <2>1. PICK op \in EntryCalls : \E arg :
          /\ Write(op, arg)
          /\ \/ op = "create" /\ arg \in [body : Bodies]
             \/ op = "update" /\ arg \in [id : Id, body : Bodies]
             \/ op = "delete" /\ arg \in [id : Id]
          /\ op \in {"update", "delete"} => dialog.entry # NoEntry /\ arg.id = dialog.entry
    BY <1>1, <1>7, DialogWrites
  <2>2. PICK arg :
          /\ Write(op, arg)
          /\ \/ op = "create" /\ arg \in [body : Bodies]
             \/ op = "update" /\ arg \in [id : Id, body : Bodies]
             \/ op = "delete" /\ arg \in [id : Id]
          /\ op \in {"update", "delete"} => dialog.entry # NoEntry /\ arg.id = dialog.entry
    BY <2>1
  <2> DEFINE c == Sent(op, "dialog", arg, [shown |-> TRUE, week |-> VisibleWeek])
  <2>3. dialog # NoDialog
    BY <1>1, <1>7, DialogWrites
  <2>4. IsCall(c) /\ SendAfter(net, c)
    BY <1>1, <2>2, <2>3, WriteType DEF Write, Send
  <2>5. c.owner = "dialog" /\ c.op = op /\ c.arg = arg /\ c.phase = "sent" /\ c.got = <<>>
    BY SentCall
  <2> HIDE DEF c
  <2>6. SidebarSends(c)
    BY <2>2, <2>3, <2>5 DEF SidebarSends
  <2>7. QED
    BY <1>1, <2>4, <2>6, SentChange
<1>8. CASE CloseDialog
  BY <1>1, <1>8, DetachedCalls DEF CloseDialog, SidebarChange, SameAnswer
<1>9. ASSUME NEW s \in Slot, net[s].owner \in {"sidebar", "dialog"}, net' = Finished(s)
      PROVE  \A t \in Slot : SidebarChange(net[t], net'[t])
  BY <1>1, <1>9, FinishedCalls DEF SidebarChange
<1>10. ASSUME NEW s \in Slot, RefetchArrives(s)
       PROVE  \A t \in Slot : SidebarChange(net[t], net'[t])
  BY <1>9, <1>10 DEF RefetchArrives, Answered
<1>11. ASSUME NEW s \in Slot, ActionArrives(s)
       PROVE  \A t \in Slot : SidebarChange(net[t], net'[t])
  <2>1. net[s].owner = "sidebar" /\ net[s].then.week \in Week
    BY <1>1, <1>11, ActionArrivesType DEF ActionArrives, Answered
  <2>2. CASE net[s].phase = "ok"
    BY <1>1, <1>11, <2>1, <2>2, RefetchIsCall, ReplacedCalls, RefetchIsSent
      DEF ActionArrives, SidebarChange
  <2>3. CASE net[s].phase # "ok"
    BY <1>9, <1>11, <2>1, <2>3 DEF ActionArrives
  <2>4. QED
    BY <2>2, <2>3
<1>12. ASSUME NEW s \in Slot, SaveArrives(s)
       PROVE  \A t \in Slot : SidebarChange(net[t], net'[t])
  <2>1. net[s].owner = "dialog" /\ net[s].then.week \in Week
    BY <1>1, <1>12, SaveArrivesCall
  <2>2. CASE net[s].phase = "ok"
    <3> DEFINE c == Refetch(net[s].then.week, "saved")
               n == [net EXCEPT ![s] = c]
    <3>1. IsCall(c) /\ c.owner = "sidebar" /\ SidebarSends(c)
      BY <2>1, RefetchIsCall, RefetchFields, RefetchIsSent
    <3>2. net' = Detached(n)
      BY <1>12, <2>2 DEF SaveArrives
    <3> HIDE DEF c
    <3>3. n[s] = c /\ AreCalls(n) /\ \A t \in Slot : t # s => n[t] = net[t]
      BY <1>1, <3>1 DEF AreCalls
    <3> HIDE DEF n
    <3>4. QED
      BY <2>1, <3>1, <3>2, <3>3, DetachedCalls DEF SidebarChange, SameAnswer
  <2>3. CASE net[s].phase # "ok"
    BY <1>9, <1>12, <2>1, <2>3 DEF SaveArrives
  <2>4. QED
    BY <2>2, <2>3
<1>13. CASE (\E id \in Id : SelectEntry(id)) \/ AddEntry
         \/ (\E confirming \in BOOLEAN : AskDelete(confirming)) \/ ConfigArrives \/ ConfigFails
  BY <1>2, <1>13 DEF SelectEntry, AddEntry, Show, AskDelete, ConfigArrives, ConfigFails
<1>14. QED
  BY <1>3, <1>4, <1>5, <1>6, <1>7, <1>8, <1>10, <1>11, <1>12, <1>13 DEF SidebarStep

LEMMA MountCalls ==
  ASSUME TypeOK, NEW mode \in {"personal", "team"}, NEW n, AreCalls(n), Mount(mode, n),
         \A s \in Slot : ReportChange(net[s], n[s])
  PROVE  \A s \in Slot : ReportChange(net[s], net'[s])
<1> DEFINE c == Reload(Selection(rep'), "effect")
<1>1. IsReport(rep') /\ SendAfter(n, c)
  BY MountType DEF Mount, ReportTyped
<1>2. IsCall(c) /\ ReportSends(c)
  BY <1>1, SelectionType, ReloadIsCall, ReloadIsSent
<1> HIDE DEF c
<1>3. QED
  BY <1>1, <1>2, ReloadedChange

LEMMA SelectCalls ==
  ASSUME TypeOK, NEW r, IsReport(r), Select(r)
  PROVE  \A s \in Slot : ReportChange(net[s], net'[s])
<1> DEFINE c == Reload(Selection(r), "effect")
           n == Cancel(net)
<1>1. IsCall(c) /\ ReportSends(c) /\ SendAfter(n, c)
  BY SelectionType, ReloadIsCall, ReloadIsSent DEF Select
<1>2. AreCalls(n) /\ \A s \in Slot : ReportChange(net[s], n[s])
  BY CancelledCalls DEF TypeOK, ReportChange, SameAnswer
<1> HIDE DEF c, n
<1>3. QED
  BY <1>1, <1>2, ReloadedChange

LEMMA ReportOrphans ==
  ASSUME AreCalls(net)
  PROVE  /\ AreCalls(Orphaned({"report"}))
         /\ \A s \in Slot : ReportChange(net[s], Orphaned({"report"})[s])
<1>1. "gone" \notin {"report"} /\ "none" \notin {"report"}
  OBVIOUS
<1>2. QED
  BY <1>1, OrphanedCalls DEF ReportChange, SameAnswer

(* What the report's steps do to them. *)
LEMMA ReportStepCalls ==
  ASSUME Views, ReportStep
  PROVE  \A s \in Slot : ReportChange(net[s], net'[s])
<1>1. TypeOK /\ AreCalls(net)
  BY DEF Views, TypeOK
<1>2. \A s \in Slot : ReportChange(net[s], net[s])
  BY DEF ReportChange
<1>3. CASE OpenReport
  BY <1>1, <1>2, <1>3, MountCalls DEF OpenReport
<1>4. CASE CloseReport
  BY <1>1, <1>4, ReportOrphans DEF CloseReport
<1>5. ASSUME NEW mode \in {"personal", "team"}, SwitchMode(mode)
      PROVE  \A s \in Slot : ReportChange(net[s], net'[s])
  BY <1>1, <1>5, ReportOrphans, MountCalls DEF SwitchMode
<1>6. CASE (\E p \in Periods : SetPeriod(p)) \/ (\E u \in User \cup {Nobody} : SelectUser(u))
  BY <1>1, <1>6, SelectedReport, SelectCalls DEF SetPeriod, SelectUser
<1>7. CASE ReportButton
  <2>1. PICK arg : /\ RunAction(arg)
                   /\ arg \in [user : User, period : Period, move : Moves, asAdmin : BOOLEAN]
    BY <1>1, <1>7, ReportButtonRuns
  <2> DEFINE c == Sent("move", "report", arg, Selection(rep))
  <2>2. IsCall(c) /\ SendAfter(net, c)
    BY <1>1, <2>1, RunActionType DEF RunAction, Send
  <2>3. ReportSends(c)
    BY SentCall DEF ReportSends
  <2> HIDE DEF c
  <2>4. QED
    BY <1>1, <1>2, <2>2, <2>3, ReloadedChange
<1>8. CASE ReportConfigArrives \/ ReportConfigFails
  BY <1>2, <1>8 DEF ReportConfigArrives, ReportConfigFails
<1>9. ASSUME NEW s \in Slot, net[s].owner = "report", net' = Finished(s)
      PROVE  \A t \in Slot : ReportChange(net[t], net'[t])
  BY <1>1, <1>9, FinishedCalls DEF ReportChange
<1>10. ASSUME NEW s \in Slot, ListArrives(s)
       PROVE  \A t \in Slot : ReportChange(net[t], net'[t])
  BY <1>9, <1>10 DEF ListArrives, Answered
<1>11. ASSUME NEW s \in Slot, MoveArrives(s)
       PROVE  \A t \in Slot : ReportChange(net[t], net'[t])
  <2>1. net[s].owner = "report" /\ net[s].then \in Selections
    BY <1>1, <1>11, MoveArrivesCall
  <2>2. CASE net[s].phase = "ok"
    BY <1>1, <1>11, <2>1, <2>2, ReloadIsCall, ReplacedCalls, ReloadIsSent
      DEF MoveArrives, ReportChange
  <2>3. CASE net[s].phase # "ok"
    BY <1>9, <1>11, <2>1, <2>3 DEF MoveArrives
  <2>4. QED
    BY <2>2, <2>3
<1>12. QED
  BY <1>3, <1>4, <1>5, <1>6, <1>7, <1>8, <1>10, <1>11 DEF ReportStep

LEMMA SidebarStepTheirs == ASSUME Views, SidebarStep PROVE Theirs({"report"})
BY SidebarStepCalls, NoCallIsNone DEF SidebarChange, SidebarSends, Theirs

LEMMA ReportStepTheirs == ASSUME Views, ReportStep PROVE Theirs({"sidebar", "dialog"})
BY ReportStepCalls, NoCallIsNone DEF ReportChange, ReportSends, Theirs

-----------------------------------------------------------------------------
(* The flags of a view, in the steps of others. *)

(* Flags hold on while nobody touches the calls they speak of. *)
LEMMA SidebarFlagsFrame ==
  ASSUME SidebarFlags, UNCHANGED <<rhs, dialog>>, Theirs({"sidebar", "dialog"})
  PROVE  SidebarFlags'
<1>1. \A s \in Slot : /\ IsRun(net'[s]) <=> IsRun(net[s])
                      /\ IsOwnWrite(net'[s]) <=> IsOwnWrite(net[s])
  BY DEF Theirs, IsRun, IsAction, IsOwnWrite
<1>2. QED
  BY <1>1 DEF SidebarFlags, Theirs

LEMMA ReportFlagsFrame ==
  ASSUME ReportFlags, UNCHANGED rep, Theirs({"report"})
  PROVE  ReportFlags'
<1>1. \A s \in Slot : /\ IsReportRun(net'[s]) <=> IsReportRun(net[s])
                      /\ IsLiveEffect(net'[s]) <=> IsLiveEffect(net[s])
                      /\ IsLiveList(net'[s]) <=> IsLiveList(net[s])
                      /\ IsLiveEffect(net[s]) => net'[s] = net[s]
  BY DEF Theirs, IsReportRun, IsAction, IsLiveEffect, IsLiveList
<1>2. UNCHANGED Selection(rep)
  BY DEF Selection
<1>3. QED
  BY <1>1, <1>2 DEF ReportFlags, Theirs, StaleIsAnnounced

(* An answer of the server changes no flag. *)
LEMMA KeptFlags ==
  ASSUME Views, KeepsCalls, UNCHANGED <<rhs, dialog, rep>>
  PROVE  SidebarFlags' /\ ReportFlags'
<1>1. \A s \in Slot : \/ SameCall(net[s], net'[s])
                      \/ {net[s].owner, net'[s].owner} \subseteq {"gone", "none"}
  BY NoCallIsNone DEF KeepsCalls, IsLate
<1>2. \A s \in Slot : /\ IsRun(net'[s]) <=> IsRun(net[s])
                      /\ IsOwnWrite(net'[s]) <=> IsOwnWrite(net[s])
                      /\ IsReportRun(net'[s]) <=> IsReportRun(net[s])
                      /\ IsLiveEffect(net'[s]) <=> IsLiveEffect(net[s])
                      /\ IsLiveList(net'[s]) <=> IsLiveList(net[s])
                      /\ IsLiveEffect(net[s]) => net'[s].arg = net[s].arg
                      /\ \A o \in {"sidebar", "dialog", "report"} :
                           net'[s].owner = o <=> net[s].owner = o
                      /\ net[s].owner = "sidebar" => net'[s].op = net[s].op
  BY <1>1 DEF SameCall, IsRun, IsReportRun, IsAction, IsOwnWrite, IsLiveEffect, IsLiveList
<1>3. UNCHANGED Selection(rep)
  BY DEF Selection
<1>4. SidebarFlags'
  BY <1>2 DEF Views, SidebarFlags
<1>5. ReportFlags'
  BY <1>2, <1>3 DEF Views, ReportFlags, StaleIsAnnounced
<1>6. QED
  BY <1>4, <1>5

(* What is done by the server or elsewhere keeps the types. *)
LEMMA OtherStepKeeps ==
  ASSUME TypeOK, OtherStep
  PROVE  /\ AreCalls(net') /\ KeepsCalls
         /\ \/ (\E u \in User : TableOperation(u)) /\ UNCHANGED week
            \/ UNCHANGED entries /\ week' \in Week /\ week' >= week
         /\ approval' \in BOOLEAN /\ admin' \in BOOLEAN
         /\ elsewhere' \in Nat /\ UNCHANGED clicks
         /\ elsewhere' = 0 => elsewhere = 0
<1>1. week \in Int /\ week >= week /\ week \in Week /\ approval \in BOOLEAN /\ admin \in BOOLEAN
      /\ elsewhere \in Nat
  BY DEF TypeOK, Week
<1>2. ASSUME NEW s \in Slot, ServerStep(s)
      PROVE  /\ AreCalls(net') /\ KeepsCalls
             /\ UNCHANGED entries \/ \E u \in User : TableOperation(u)
             /\ UNCHANGED <<week, approval, admin, elsewhere, clicks>>
  BY <1>2, ServerStepKeeps
<1>3. CASE Elsewhere
  BY <1>3, ElsewhereKeeps
<1>4. QED
  BY <1>1, <1>2, <1>3 DEF OtherStep

(* The invariant holds at the start, *)
LEMMA ViewsInit == Init => Views
<1> SUFFICES ASSUME Init PROVE Views
  OBVIOUS
<1>1. \A s \in Slot : net[s] = NoCall
  BY DEF Init, ServerInit
<1>2. ~rhs.up /\ ~rhs.busy /\ ~rhs.loading /\ dialog = NoDialog
  BY DEF Init, SidebarInit, Unmounted
<1>3. ~rep.up /\ ~rep.busy /\ ~rep.loading
  BY DEF Init, ReportInit, NoReport
<1>4. SidebarFlags
  BY <1>1, <1>2, NoCallIsNeither DEF SidebarFlags
<1>5. ReportFlags
  BY <1>1, <1>3, NoCallIsNeither, NoCallIsNoReload DEF ReportFlags, StaleIsAnnounced
<1>6. QED
  BY <1>2, <1>4, <1>5, InitType DEF Views

(* and every step keeps it. *)
LEMMA ViewsNext == Views /\ [Next]_vars => Views'
<1> SUFFICES ASSUME Views, [Next]_vars PROVE Views'
  OBVIOUS
<1>1. CASE SidebarStep /\ NotReport
  <2>1. ViewStep /\ SidebarTyped /\ SidebarFlags' /\ (rhs'.up => rhs.up \/ ~rep.up)
    BY <1>1, SidebarStepKeeps
  <2>2. UNCHANGED <<session, rep>> /\ ReportFlags'
    BY <1>1, SidebarStepTheirs, ReportFlagsFrame DEF Views, NotReport
  <2>3. \A id \in Stored' : NotFuture(entries'[id], week')
    BY <2>1 DEF ViewStep, Views, TypeOK, Stored
  <2>4. TypeOK'
    BY <2>1, <2>2, <2>3 DEF ViewStep, SidebarTyped, Views, TypeOK
  <2>5. QED
    BY <2>1, <2>2, <2>4 DEF Views
<1>2. CASE ReportStep /\ NotSidebar
  <2>1. ViewStep /\ ReportTyped /\ ReportFlags' /\ (rep'.up => rep.up \/ ~rhs.up)
    BY <1>2, ReportStepKeeps
  <2>2. UNCHANGED <<rhs, dialog>> /\ SidebarFlags'
    BY <1>2, ReportStepTheirs, SidebarFlagsFrame DEF Views, NotSidebar
  <2>3. \A id \in Stored' : NotFuture(entries'[id], week')
    BY <2>1 DEF ViewStep, Views, TypeOK, Stored
  <2>4. TypeOK'
    BY <2>1, <2>2, <2>3 DEF ViewStep, ReportTyped, Views, TypeOK
  <2>5. QED
    BY <2>1, <2>2, <2>4 DEF Views
<1>3. CASE OtherStep /\ NotSidebar /\ NotReport
  <2>1. UNCHANGED <<rhs, dialog, session, rep>>
    BY <1>3 DEF NotSidebar, NotReport
  <2>2. /\ AreCalls(net') /\ KeepsCalls
        /\ \/ (\E u \in User : TableOperation(u)) /\ UNCHANGED week
           \/ UNCHANGED entries /\ week' \in Week /\ week' >= week
        /\ approval' \in BOOLEAN /\ admin' \in BOOLEAN
        /\ elsewhere' \in Nat /\ UNCHANGED clicks
    BY <1>3, OtherStepKeeps DEF Views
  <2>3. /\ entries' \in [Id -> TimeEntry \cup {NoEntry, Gone}]
        /\ \A id \in Stored' : NotFuture(entries'[id], week')
        /\ week' \in Week
    BY <2>2, ServerPartType DEF Views
  <2>4. TypeOK'
    BY <2>1, <2>2, <2>3 DEF Views, TypeOK
  <2>5. QED
    BY <2>1, <2>2, <2>4, KeptFlags DEF Views
<1>4. CASE UNCHANGED vars
  BY <1>4 DEF vars, Views, TypeOK, SidebarFlags, ReportFlags, StaleIsAnnounced, Selection,
    Stored
<1>5. QED
  BY <1>1, <1>2, <1>3, <1>4, NextCases
-----------------------------------------------------------------------------
(* What follows from the invariant at once. *)

THEOREM ViewsInvariant == Spec => []Views
BY ViewsInit, ViewsNext, PTL DEF Spec

(* The views, the calls in flight and the table keep their types, whatever *)
(* the number of calls, users, weeks and rows (WebClient, TypeOK).         *)
THEOREM WebTypes == Spec => []TypeOK
<1>1. Views => TypeOK
  BY DEF Views
<1>2. QED
  BY <1>1, ViewsInvariant, PTL

(* What a slot holds, for the sets of pending calls the properties name.   *)
LEMMA PendingCalls ==
  ASSUME TypeOK
  PROVE  /\ \A s \in Slot : IsRun(net[s]) <=> s \in SidebarActions
         /\ \A s \in Slot : IsReportRun(net[s]) <=> s \in ReportActions
         /\ SidebarActions \subseteq Slot /\ ReportActions \subseteq Slot
         /\ \A s \in Slot : s \in Pending <=> IsCall(net[s])
<1>1. \A s \in Slot : /\ s \in Pending => IsCall(net[s])
                      /\ s \notin Pending => net[s] = NoCall
  BY PendingIsCall DEF TypeOK, Pending
<1>2. \A s \in Slot : IsCall(net[s]) => s \in Pending
  BY CallFields DEF Pending, PendingIn
<1>3. QED
  BY <1>1, <1>2, NoCallIsNeither, NoCallIsNoReload
    DEF SidebarActions, ReportActions, IsRun, IsReportRun, IsAction, Pending, PendingIn

(* The busy flag of each view is up exactly while one action of it is on   *)
(* its way: a double click sends one request, and no failure leaves the    *)
(* buttons disabled (run and runAction, RHSView and the reports).          *)
THEOREM OneAction == Spec => []OneActionPerView
<1>1. ASSUME Views PROVE OneActionPerView
  <2>1. TypeOK /\ SidebarFlags /\ ReportFlags
    BY <1>1 DEF Views
  <2>2. AtMostOne(SidebarActions) /\ (rhs.busy <=> SidebarActions # {})
    BY <2>1, PendingCalls DEF SidebarFlags, AtMostOne
  <2>3. AtMostOne(ReportActions) /\ (rep.busy <=> ReportActions # {})
    BY <2>1, PendingCalls DEF ReportFlags, AtMostOne
  <2>4. QED
    BY <2>2, <2>3 DEF OneActionPerView
<1>2. QED
  BY <1>1, ViewsInvariant, PTL

(* An open dialog is busy exactly while its own write is on its way, also  *)
(* after another was closed over a write (EntryEditModal).                 *)
THEOREM OneWrite == Spec => []OneWritePerDialog
<1>1. ASSUME Views PROVE OneWritePerDialog
  <2> DEFINE own == {s \in Pending : net[s].owner = "dialog" /\ net[s].then.shown}
  <2>1. TypeOK /\ SidebarFlags
    BY <1>1 DEF Views
  <2>2. \A s \in Slot : IsOwnWrite(net[s]) => s \in Pending
    BY <2>1, PendingIsCall, NoCallIsNeither DEF TypeOK, Pending
  <2>3. \A s \in Slot : s \in own <=> IsOwnWrite(net[s])
    BY <2>2 DEF IsOwnWrite
  <2>4. own \subseteq Slot
    BY DEF Pending, PendingIn
  <2> HIDE DEF own
  <2>5. AtMostOne(own) /\ (own # {} <=> dialog # NoDialog /\ dialog.busy)
    BY <2>1, <2>3, <2>4 DEF SidebarFlags, AtMostOne
  <2>6. QED
    BY <2>5 DEF OneWritePerDialog, own
<1>2. QED
  BY <1>1, ViewsInvariant, PTL

LEMMA RacingLists ==
  ASSUME TypeOK, NEW s \in Slot
  PROVE  /\ IsLiveList(net[s]) <=> s \in Racing /\ net[s].op = "list"
         /\ IsLiveEffect(net[s]) <=>
              /\ s \in Racing /\ net[s].op = "list" /\ net[s].owner = "report"
              /\ net[s].then.kind = "effect"
<1>1. s \in Pending <=> net[s].op # "none"
  BY DEF Pending, PendingIn
<1>2. net[s].op = "list" => net[s].owner = "report"
  <2>1. ASSUME net[s].op = "list" PROVE net[s].owner = "report"
    <3>1. IsCall(net[s])
      BY <1>1, <2>1, PendingIsCall DEF TypeOK, Pending
    <3>2. Continues(net[s])
      BY <3>1, CallFields
    <3>3. QED
      BY <2>1, <3>2 DEF Continues, Reads, TimerCalls, EntryCalls
  <2>2. QED
    BY <2>1
<1>3. QED
  BY <1>1, <1>2 DEF Racing, Cancelled, IsLiveList, IsLiveEffect

(* One reload of an effect is live at most, for what is selected now: the  *)
(* signals of PersonalReport and AdminConsole.                             *)
THEOREM SignalTheorem == Spec => []SignalIsCurrent
<1>1. ASSUME Views PROVE SignalIsCurrent
  <2> DEFINE live == {s \in Racing : net[s].op = "list" /\ net[s].owner = "report"
                                     /\ net[s].then.kind = "effect"}
  <2>1. TypeOK /\ ReportFlags
    BY <1>1 DEF Views
  <2>2. \A s \in live : s \in Slot /\ IsLiveEffect(net[s])
    BY <2>1, RacingLists DEF Racing, Pending, PendingIn
  <2> HIDE DEF live
  <2>3. AtMostOne(live) /\ \A s \in live : net[s].arg = Selection(rep)
    BY <2>1, <2>2 DEF ReportFlags, AtMostOne
  <2>4. QED
    BY <2>3 DEF SignalIsCurrent, live
<1>2. QED
  BY <1>1, ViewsInvariant, PTL

(* Rows of another selection are not shown without a sign, but for those   *)
(* an action's reload brought.                                             *)
THEOREM StaleTheorem == Spec => []StaleIsAnnounced
<1>1. Views => StaleIsAnnounced
  BY DEF Views, ReportFlags
<1>2. QED
  BY <1>1, ViewsInvariant, PTL

(* A view that says it is loading waits for a reload that will end that.   *)
THEOREM LoadingTheorem == Spec => []LoadingIsPending
<1>1. ASSUME Views PROVE LoadingIsPending
  <2>1. rhs.loading => \E s \in Pending : net[s].op = "refetch" /\ net[s].owner = "sidebar"
    BY <1>1 DEF Views, SidebarFlags, Pending, PendingIn
  <2>2. rep.loading => \E s \in Racing : net[s].op = "list"
    BY <1>1, RacingLists DEF Views, ReportFlags, Racing, Pending, PendingIn
  <2>3. QED
    BY <2>1, <2>2 DEF LoadingIsPending
<1>2. QED
  BY <1>1, ViewsInvariant, PTL
=============================================================================
