----------------------------- MODULE Migration -----------------------------
(***************************************************************************)
(* Activation of the plugin on the nodes of a cluster                      *)
(* (server/plugin.go, OnActivate; server/store/migrations.go): each node   *)
(* runs the schema migration on the shared database before it serves.      *)
(*                                                                         *)
(* Every statement commits on its own, so nodes that are activated at the  *)
(* same time interleave statement by statement, and a node that fails or   *)
(* crashes leaves what it has done.  The table may be there already, as a  *)
(* version before the approval workflow or before the running-entry guard  *)
(* left it, with rows in it and with that version still serving.           *)
(***************************************************************************)
EXTENDS Integers

CONSTANTS
  Node,     \* nodes of the cluster
  User,     \* users with open rows
  MaxOpen   \* bound on the open rows a user has

ASSUME MaxOpenAssumption == MaxOpen \in Nat \ {0}

VARIABLES
  driver,  \* the database all nodes share
  schema,  \* the objects of the table that exist
  open,    \* User -> rows with end_at NULL
  at,      \* Node -> 0 inactive, the step its migration is at, or Serving
  absent,  \* Node -> MySQL: the object was checked for and is not there
  cause    \* Node -> why the last activation failed

vars == <<driver, schema, open, at, absent, cause>>

Drivers == {"postgres", "mysql"}
Objects == {"table", "status", "index", "column", "guard"}
Causes  == {"none", "fault", "duplicate_object", "duplicate_rows"}

(* migratePostgres and migrateMySQL, in the order of their statements.     *)
(* guard is idx_tt_user_running or uniq_tt_user_running, column the        *)
(* generated running_user_id the latter is a key on.                       *)
Steps(d) == IF d = "postgres" THEN <<"table", "status", "index", "guard">>
                              ELSE <<"table", "status", "column", "guard">>
Serving == 5

(* What CREATE TABLE makes when there is no table.                         *)
Created(d) == IF d = "postgres" THEN {"table", "status"} ELSE Objects

-----------------------------------------------------------------------------
(* The migration of a node. *)

Activate(n) ==
  /\ at[n] = 0
  /\ at' = [at EXCEPT ![n] = 1]
  /\ cause' = [cause EXCEPT ![n] = "none"]
  /\ UNCHANGED <<driver, schema, open, absent>>

(* The node is about to ensure object o. *)
Ensuring(n, o) == at[n] \in 1 .. 4 /\ Steps(driver)[at[n]] = o

(* The object is there; after the last one the node serves.                *)
Done(n) ==
  /\ at' = [at EXCEPT ![n] = @ + 1]
  /\ absent' = [absent EXCEPT ![n] = FALSE]
  /\ UNCHANGED <<driver, open, cause>>

(* OnActivate returns an error: the server deactivates the plugin.         *)
Fail(n, c) ==
  /\ at' = [at EXCEPT ![n] = 0]
  /\ absent' = [absent EXCEPT ![n] = FALSE]
  /\ cause' = [cause EXCEPT ![n] = c]
  /\ UNCHANGED <<driver, schema, open>>

(* CREATE TABLE IF NOT EXISTS *)
CreateTable(n) ==
  /\ Ensuring(n, "table")
  /\ schema' = IF "table" \in schema THEN schema ELSE Created(driver)
  /\ Done(n)

(* A unique key cannot be built on rows that violate it.                   *)
Duplicates == \E u \in User : open[u] > 1
NeverRefused(o) == FALSE  \* mutant: a key that is not unique
Refused(o) == o = "guard" /\ Duplicates

(* An ALTER TABLE or CREATE INDEX of an object that is not there.          *)
Add(n, o) ==
  \/ Refused(o) /\ Fail(n, "duplicate_rows")
  \/ /\ ~Refused(o)
     /\ schema' = schema \cup {o}
     /\ Done(n)

(* Postgres: each statement has IF NOT EXISTS.                             *)
Ensure(n) == \E o \in Objects \ {"table"} :
  /\ driver = "postgres" /\ Ensuring(n, o)
  /\ \/ o \in schema /\ Done(n) /\ UNCHANGED schema
     \/ o \notin schema /\ Add(n, o)

(* MySQL: the count in information_schema, and the early return.           *)
Probe(n) == \E o \in Objects \ {"table"} :
  /\ driver = "mysql" /\ Ensuring(n, o) /\ ~absent[n]
  /\ \/ o \in schema /\ Done(n) /\ UNCHANGED schema
     \/ /\ o \notin schema
        /\ absent' = [absent EXCEPT ![n] = TRUE]
        /\ UNCHANGED <<driver, schema, open, at, cause>>

(* MySQL: the ALTER TABLE the check called for.                            *)
AlterUnchecked(n) == \E o \in Objects \ {"table"} :  \* mutant: errors ignored
  /\ driver = "mysql" /\ Ensuring(n, o) /\ absent[n]
  /\ schema' = IF Refused(o) THEN schema ELSE schema \cup {o}
  /\ Done(n)
Alter(n) == \E o \in Objects \ {"table"} :
  /\ driver = "mysql" /\ Ensuring(n, o) /\ absent[n]
  /\ \/ o \in schema /\ Fail(n, "duplicate_object")
     \/ o \notin schema /\ Add(n, o)

(* A statement fails for another reason, or the node goes down; and a node *)
(* that serves is deactivated or goes down.                                *)
Fault(n) == at[n] \in 1 .. 4 /\ Fail(n, "fault")
Deactivate(n) == at[n] = Serving /\ Fail(n, "none")

-----------------------------------------------------------------------------
(* The rows. *)

(* An open row more.  Where there is the guard it lets in one for each     *)
(* user; without it requests that all saw none insert several.             *)
Insert(u) ==
  /\ IF "guard" \in schema THEN open[u] = 0 ELSE open[u] < MaxOpen
  /\ open' = [open EXCEPT ![u] = @ + 1]
  /\ UNCHANGED <<driver, schema, at, absent, cause>>

(* StartTimer on a node that serves (TimeEntryStore has its statements).   *)
StartTimer(n) == at[n] = Serving /\ \E u \in User : Insert(u)

(* A version before the guard, still serving on a node not yet upgraded.   *)
LegacyStart == "table" \in schema /\ \E u \in User : Insert(u)

(* Any version: a timer is stopped or a running entry deleted.             *)
CloseTwice == \E u \in User :  \* mutant: a row that is not open is closed
  /\ open' = [open EXCEPT ![u] = @ - 1]
  /\ UNCHANGED <<driver, schema, at, absent, cause>>
Close == \E u \in User :
  /\ open[u] > 0
  /\ open' = [open EXCEPT ![u] = @ - 1]
  /\ UNCHANGED <<driver, schema, at, absent, cause>>

(* No table, or the table of a version before the approval workflow, with  *)
(* and without the guard.                                                  *)
Legacy(d) ==
  {{}, {"table", "index"},
   {"table", "index", "guard"} \cup (IF d = "mysql" THEN {"column"} ELSE {})}

Init ==
  /\ driver \in Drivers
  /\ schema \in Legacy(driver)
  /\ open \in [User -> 0 .. MaxOpen]
  /\ "table" \notin schema => \A u \in User : open[u] = 0
  /\ "guard" \in schema => ~Duplicates
  /\ at = [n \in Node |-> 0]
  /\ absent = [n \in Node |-> FALSE]
  /\ cause = [n \in Node |-> "none"]

Migrate(n) == CreateTable(n) \/ Ensure(n) \/ Probe(n) \/ Alter(n)

Next == \/ \E n \in Node : \/ Activate(n) \/ Migrate(n) \/ Fault(n)
                           \/ Deactivate(n) \/ StartTimer(n)
        \/ LegacyStart \/ Close

Spec == Init /\ [][Next]_vars

-----------------------------------------------------------------------------
(* Properties. *)

(* Types of all state. *)
TypeOK == /\ driver \in Drivers
          /\ schema \subseteq Objects
          /\ open \in [User -> 0 .. MaxOpen]
          /\ at \in [Node -> 0 .. Serving]
          /\ absent \in [Node -> BOOLEAN]
          /\ cause \in [Node -> Causes]

(* A node that serves can rely on the table: whatever the other nodes did  *)
(* or left undone, every column and key its statements need is there       *)
(* ("the invariant is never silently absent on an upgraded install").      *)
ServedIsComplete ==
  \A n \in Node : at[n] = Serving =>
    \A i \in 1 .. 4 : Steps(driver)[i] \in schema

(* While any node serves, no user has two open rows, also when the table   *)
(* was taken over from a version without the guard, and that version goes  *)
(* on writing (addMySQLRunningGuard: "fails loudly ... rather than running *)
(* without the guard").                                                    *)
ServedIsUnique == (\E n \in Node : at[n] = Serving) => ~Duplicates

(* Why: a node has ensured the objects of the steps behind it, rows under  *)
(* the guard are unique, and without the table there is nothing.           *)
MigrationInv ==
  /\ \A n \in Node, i \in 1 .. 4 : i < at[n] => Steps(driver)[i] \in schema
  /\ "guard" \in schema => ~Duplicates
  /\ "table" \notin schema => schema = {} /\ \A u \in User : open[u] = 0

(* migrations.go:9-10: the migration "is idempotent and safe to run on     *)
(* every plugin activation".  An activation does not fail because another  *)
(* node made the very object it was about to make.                         *)
SafeOnEveryActivation == \A n \in Node : cause[n] # "duplicate_object"
=============================================================================
