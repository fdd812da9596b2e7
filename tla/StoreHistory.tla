---------------------------- MODULE StoreHistory ----------------------------
(***************************************************************************)
(* TimeEntryStore with two history variables, for what an answer says of   *)
(* the time during which the request was under way.  They are only         *)
(* written: no step of the store is added, removed or changed.             *)
(***************************************************************************)
EXTENDS TimeEntryStore

VARIABLES
  wasIdle,  \* Req -> the user had no running entry at some moment since the call
  stay      \* Req -> the rows that matched the sweep at every moment since the call

historyVars == <<vars, wasIdle, stay>>

(* A request that asks for the running entry, and one that sweeps. *)
AsksRunning(r) == call[r].op \in TimerOps \cup {"toggle"}
Sweeps(r)      == call[r].op = "setStatus"

UserIdle(r)  == AsksRunning(r) /\ RunningOf(call[r].user) = {}
MatchedBy(r) == IF Sweeps(r) THEN {id \in Id : Matches(call[r], id)} ELSE {}

Watch ==
  /\ wasIdle' = [r \in Req |->
                   UserIdle(r)' \/ (wasIdle[r] /\ AsksRunning(r)')]
  /\ stay' = [r \in Req |->
                IF pc[r] = "idle" THEN MatchedBy(r)'
                                  ELSE stay[r] \cap MatchedBy(r)']

HistoryInit == /\ Init
               /\ wasIdle = [r \in Req |-> FALSE]
               /\ stay = [r \in Req |-> {}]

HistorySpec == HistoryInit /\ [][Next /\ Watch]_historyVars

-----------------------------------------------------------------------------

AnswersWith(r, a) == pc[r] # "idle" /\ pc'[r] = "idle" /\ answer'[r] = a

(* A stop or a break that is told "no running timer" was told the truth of *)
(* some moment after it was asked for, also when it waited for the lock of *)
(* an entry that another request stopped and a third started a new one     *)
(* meanwhile (mutateRunning, ErrNotRunning).                               *)
NotRunningIsTrue ==
  [][\A r \in Req : AnswersWith(r, "not_running") => wasIdle[r]]_historyVars

(* A submit, withdrawal, approval, rejection or reopening that succeeds    *)
(* has moved every row that matched it all the time it was under way: a    *)
(* row that was locked meanwhile is waited for and not passed over         *)
(* (SetStatusRange, "transitions the user's entries whose StartAt is in    *)
(* [from, to)").                                                           *)
SweepIsComplete == [][\A r \in Req : Sweeps(r) /\ AnswersWith(r, "ok") =>
  \A id \in stay[r] : Live(id)' /\ entries'[id].status = call[r].move[2]]_historyVars
=============================================================================
