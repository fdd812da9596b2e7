----------------------------- MODULE EntryData -----------------------------
(***************************************************************************)
(* The data model shared by every module of this project: the row of the   *)
(* timetracking_entries table (server/store/store.go, TimeEntry), the      *)
(* approval statuses, the validation of manual input and the arithmetic of *)
(* breaks.                                                                 *)
(*                                                                         *)
(* Time is a small integer instead of unix milliseconds.  A value of 0     *)
(* means "unset", as in the code: end = 0 is a running entry, onbrk = 0    *)
(* is "no active break".  project and description are one opaque column    *)
(* the properties never look at and are left out; created_at, updated_at   *)
(* and locked (derived from status on every read) are left out too.        *)
(***************************************************************************)
EXTENDS Integers

CONSTANTS
  User,             \* Mattermost user ids
  Id,               \* entry ids (model.NewId)
  MillisPerSecond,  \* the divisor 1000 of the code, scaled with the clock
  MaxEntryMillis,   \* maxEntryMillis, the 24h cap on a closed entry
  FutureSkewMillis  \* futureSkewMillis, the 5m tolerance

ASSUME MillisAssumption == MillisPerSecond \in Nat \ {0}
ASSUME BoundsAssumption == MaxEntryMillis \in Nat /\ FutureSkewMillis \in Nat

StatusOpen      == "open"
StatusSubmitted == "submitted"
StatusApproved  == "approved"
Status == {StatusOpen, StatusSubmitted, StatusApproved}

(* The status moves of the five workflow endpoints: submit, withdraw and   *)
(* reject (the same move), approve, reopen.                                *)
Moves == { <<StatusOpen, StatusSubmitted>>, <<StatusSubmitted, StatusOpen>>,
           <<StatusSubmitted, StatusApproved>>, <<StatusApproved, StatusOpen>> }

(* One row: break_seconds is brk, break_started_at is onbrk. *)
TimeEntry == [user : User, start : Int, end : Int, brk : Int, onbrk : Int,
              status : Status]

IsRunning(e) == e.end = 0
OnBreak(e)   == e.onbrk # 0

(* Go's integer division by 1000 truncates toward zero; \div is the floor. *)
Seconds(ms) == IF ms >= 0 THEN ms \div MillisPerSecond
                          ELSE -((-ms) \div MillisPerSecond)

(* Break seconds as of now, an active break included. *)
BreakTotal(e, now) == e.brk + (IF OnBreak(e) THEN Seconds(now - e.onbrk) ELSE 0)

(* The columns an UPDATE writes: the timer's, the editable ones, the       *)
(* status.                                                                 *)
SetTimer(e, end, brk, onbrk) ==
  [user |-> e.user, start |-> e.start, end |-> end, brk |-> brk,
   onbrk |-> onbrk, status |-> e.status]
SetBody(e, start, end, brk) ==
  [user |-> e.user, start |-> start, end |-> end, brk |-> brk,
   onbrk |-> e.onbrk, status |-> e.status]
SetStatus(e, status) ==
  [user |-> e.user, start |-> e.start, end |-> e.end, brk |-> e.brk,
   onbrk |-> e.onbrk, status |-> status]

WellFormedAnyOrder(e) ==  \* mutant: the end may be before the start
  e.start > 0 /\ e.brk >= 0 /\ (~IsRunning(e) => e.end - e.start <= MaxEntryMillis)

(* TimeEntry.ValidateAt: what does not depend on the clock, and the bounds *)
(* that do.  user_id is never empty behind the auth middleware.            *)
WellFormed(e) ==
  /\ e.start > 0
  /\ e.brk >= 0
  /\ ~IsRunning(e) => e.end >= e.start /\ e.end - e.start <= MaxEntryMillis

ValidateAt(e, now) ==
  /\ WellFormed(e)
  /\ e.start <= now + FutureSkewMillis
  /\ ~IsRunning(e) => e.end <= now + FutureSkewMillis
=============================================================================
