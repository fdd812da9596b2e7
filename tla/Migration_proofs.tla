-------------------------- MODULE Migration_proofs --------------------------
(* Proofs about Migration, for every cluster and every set of users.       *)
EXTENDS Migration, TLAPS

Inv == TypeOK /\ MigrationInv

(* The step a node is at, and the driver that gave it. *)
LEMMA StepsType == ASSUME NEW d \in Drivers, NEW i \in 1 .. 4
                   PROVE  Steps(d)[i] \in Objects
BY DEF Drivers, Steps, Objects

(* A node that gives up changes no row and no object. *)
LEMMA FailInv == ASSUME Inv, NEW n \in Node, NEW c \in Causes, Fail(n, c)
                 PROVE  Inv'
<1>1. TypeOK'
  BY DEF Inv, TypeOK, Fail, Serving
<1>2. /\ \A m \in Node : at'[m] = at[m] \/ at'[m] = 0
      /\ driver' = driver /\ schema' = schema /\ open' = open
  BY DEF Inv, TypeOK, Fail
<1>3. MigrationInv'
  BY <1>2 DEF Inv, MigrationInv, Duplicates, Steps
<1>4. QED
  BY <1>1, <1>3 DEF Inv

(* A node goes on when its object is there and no object is lost, and the  *)
(* guard is not put on rows that violate it.                               *)
LEMMA DoneInv ==
  ASSUME Inv, NEW n \in Node, Done(n), at[n] \in 1 .. 4,
         schema \subseteq schema', schema' \subseteq Objects,
         Steps(driver)[at[n]] \in schema', "table" \in schema',
         "guard" \in schema' /\ "guard" \notin schema => ~Duplicates
  PROVE  Inv'
<1>1. TypeOK'
  BY DEF Inv, TypeOK, Done, Serving
<1>2. /\ driver' = driver /\ open' = open
      /\ at'[n] = at[n] + 1 /\ \A m \in Node : m # n => at'[m] = at[m]
  BY DEF Inv, TypeOK, Done
<1>3. ASSUME NEW m \in Node, NEW i \in 1 .. 4, i < at'[m]
      PROVE  Steps(driver)[i] \in schema'
  <2>1. CASE i < at[m]
    BY <2>1 DEF Inv, MigrationInv
  <2>2. CASE ~(i < at[m])
    <3>1. m = n /\ i = at[n]
      BY <1>2, <1>3, <2>2
    <3>2. QED
      BY <3>1
  <2>3. QED
    BY <2>1, <2>2
<1>4. "guard" \in schema' => ~Duplicates'
  BY <1>2 DEF Inv, MigrationInv, Duplicates
<1>5. MigrationInv'
  BY <1>2, <1>3, <1>4 DEF MigrationInv, Steps
<1>6. QED
  BY <1>1, <1>5 DEF Inv

(* A node that is past the first step has its table. *)
LEMMA HasTable ==
  ASSUME Inv, NEW n \in Node, NEW o \in Objects \ {"table"}, Ensuring(n, o)
  PROVE  "table" \in schema
<1>1. Steps(driver)[1] = "table" /\ at[n] \in 1 .. 4 /\ at[n] # 1
  BY DEF Ensuring, Steps
<1>2. QED
  BY <1>1 DEF Inv, MigrationInv

(* Objects are added to rows that allow them. *)
LEMMA AddInv ==
  ASSUME Inv, NEW n \in Node, NEW o \in Objects \ {"table"}, Ensuring(n, o),
         Add(n, o)
  PROVE  Inv'
<1>1. CASE Fail(n, "duplicate_rows")
  BY <1>1, FailInv DEF Causes
<1>2. CASE ~Refused(o) /\ schema' = schema \cup {o} /\ Done(n)
  <2>1. "guard" \in schema' /\ "guard" \notin schema => ~Duplicates
    BY <1>2 DEF Refused
  <2>2. schema' \subseteq Objects
    BY <1>2 DEF Inv, TypeOK
  <2>3. QED
    BY <1>2, <2>1, <2>2, HasTable, DoneInv DEF Ensuring
<1>3. QED
  BY <1>1, <1>2 DEF Add

(* Every step of a migration keeps the invariant. *)
LEMMA MigrateInv == ASSUME Inv, NEW n \in Node, Migrate(n) PROVE Inv'
<1>1. CASE CreateTable(n)
  <2>1. /\ schema \subseteq schema' /\ schema' \subseteq Objects
        /\ "table" \in schema' /\ Done(n)
    <3>1. Created(driver) \subseteq Objects /\ "table" \in Created(driver)
      BY DEF Created, Objects
    <3>2. schema \subseteq schema' /\ Done(n)
      BY <1>1 DEF CreateTable, Inv, MigrationInv
    <3>3. CASE "table" \in schema
      BY <1>1, <3>2, <3>3 DEF CreateTable, Inv, TypeOK
    <3>4. CASE "table" \notin schema
      BY <1>1, <3>1, <3>2, <3>4 DEF CreateTable
    <3>5. QED
      BY <3>3, <3>4
  <2>2. "guard" \in schema' /\ "guard" \notin schema => ~Duplicates
    BY <1>1 DEF CreateTable, Inv, MigrationInv, Duplicates
  <2>3. at[n] \in 1 .. 4 /\ Steps(driver)[at[n]] = "table"
    BY <1>1 DEF CreateTable, Ensuring
  <2>4. QED
    BY <2>1, <2>2, <2>3, DoneInv
<1>2. CASE Ensure(n)
  <2>1. PICK o \in Objects \ {"table"} :
          /\ Ensuring(n, o)
          /\ (o \in schema /\ Done(n) /\ UNCHANGED schema) \/ Add(n, o)
    BY <1>2 DEF Ensure
  <2>2. CASE o \in schema /\ Done(n) /\ UNCHANGED schema
    BY <2>1, <2>2, HasTable, DoneInv DEF Ensuring, Inv, TypeOK
  <2>3. QED
    BY <2>1, <2>2, AddInv
<1>3. CASE Probe(n)
  <2>1. PICK o \in Objects \ {"table"} :
          /\ Ensuring(n, o)
          /\ \/ o \in schema /\ Done(n) /\ UNCHANGED schema
             \/ /\ absent' = [absent EXCEPT ![n] = TRUE]
                /\ UNCHANGED <<driver, schema, open, at, cause>>
    BY <1>3 DEF Probe
  <2>2. CASE o \in schema /\ Done(n) /\ UNCHANGED schema
    BY <2>1, <2>2, HasTable, DoneInv DEF Ensuring, Inv, TypeOK
  <2>3. CASE /\ absent' = [absent EXCEPT ![n] = TRUE]
             /\ UNCHANGED <<driver, schema, open, at, cause>>
    BY <2>3 DEF Inv, TypeOK, MigrationInv, Duplicates, Steps
  <2>4. QED
    BY <2>1, <2>2, <2>3
<1>4. CASE Alter(n)
  <2>1. PICK o \in Objects \ {"table"} :
          Ensuring(n, o) /\ (Fail(n, "duplicate_object") \/ Add(n, o))
    BY <1>4 DEF Alter
  <2>2. QED
    BY <2>1, FailInv, AddInv DEF Causes
<1>5. QED
  BY <1>1, <1>2, <1>3, <1>4 DEF Migrate

(* An insert respects the guard. *)
LEMMA InsertInv ==
  ASSUME Inv, NEW u \in User, "table" \in schema, Insert(u) PROVE Inv'
<1>1. TypeOK'
  BY MaxOpenAssumption DEF Inv, TypeOK, Insert
<1>2. "guard" \in schema' => ~Duplicates'
  BY DEF Inv, TypeOK, MigrationInv, Insert, Duplicates
<1>3. MigrationInv'
  BY <1>2 DEF Inv, MigrationInv, Insert, Steps
<1>4. QED
  BY <1>1, <1>3 DEF Inv

(* The tables a migration starts from satisfy it. *)
LEMMA InitInv == Init => Inv
<1> SUFFICES ASSUME Init PROVE Inv
  OBVIOUS
<1>1. schema \subseteq Objects
  BY DEF Init, Legacy, Objects
<1>2. TypeOK
  BY <1>1 DEF Init, TypeOK, Serving, Causes
<1>3. MigrationInv
  <2>1. "table" \notin schema => schema = {}
    BY DEF Init, Legacy
  <2>2. QED
    BY <2>1 DEF Init, MigrationInv
<1>4. QED
  BY <1>2, <1>3 DEF Inv

(* Every step of the cluster keeps it. *)
LEMMA NextInv == Inv /\ [Next]_vars => Inv'
<1> SUFFICES ASSUME Inv, [Next]_vars PROVE Inv'
  OBVIOUS
<1>1. ASSUME NEW n \in Node, Activate(n) PROVE Inv'
  <2>1. TypeOK'
    BY <1>1 DEF Inv, TypeOK, Activate, Serving, Causes
  <2>2. \A m \in Node : at'[m] = at[m] \/ at'[m] = 1
    BY <1>1 DEF Inv, TypeOK, Activate
  <2>3. MigrationInv'
    BY <1>1, <2>2 DEF Inv, MigrationInv, Activate, Duplicates, Steps
  <2>4. QED
    BY <2>1, <2>3 DEF Inv
<1>2. ASSUME NEW n \in Node, Fault(n) \/ Deactivate(n) PROVE Inv'
  BY <1>2, FailInv DEF Fault, Deactivate, Causes
<1>3. ASSUME NEW n \in Node, StartTimer(n) PROVE Inv'
  <2>1. Steps(driver)[1] = "table" /\ Steps(driver)[1] \in schema
    BY <1>3 DEF StartTimer, Inv, MigrationInv, Steps, Serving
  <2>2. QED
    BY <1>3, <2>1, InsertInv DEF StartTimer
<1>4. CASE LegacyStart
  BY <1>4, InsertInv DEF LegacyStart
<1>5. CASE Close
  <2>1. TypeOK'
    <3>1. PICK u \in User : open[u] > 0 /\ open' = [open EXCEPT ![u] = open[u] - 1]
      BY <1>5 DEF Close
    <3>2. open[u] - 1 \in 0 .. MaxOpen
      BY <3>1, MaxOpenAssumption DEF Inv, TypeOK
    <3>3. open' \in [User -> 0 .. MaxOpen]
      BY <3>1, <3>2 DEF Inv, TypeOK
    <3>4. QED
      BY <1>5, <3>3 DEF Inv, TypeOK, Close
  <2>2. "guard" \in schema' => ~Duplicates'
    BY <1>5 DEF Inv, TypeOK, MigrationInv, Close, Duplicates
  <2>3. "table" \notin schema => open' = open
    BY <1>5 DEF Inv, MigrationInv, Close
  <2>4. MigrationInv'
    BY <1>5, <2>2, <2>3 DEF Inv, MigrationInv, Close, Steps
  <2>5. QED
    BY <2>1, <2>4 DEF Inv
<1>6. CASE UNCHANGED vars
  BY <1>6 DEF vars, Inv, TypeOK, MigrationInv, Duplicates, Steps
<1>7. QED
  BY <1>1, <1>2, <1>3, <1>4, <1>5, <1>6, MigrateInv DEF Next

(* The inductive invariant holds throughout. *)
THEOREM MigrationInvHolds == Spec => []Inv
BY InitInv, NextInv, PTL DEF Spec

(* The types of all state: no user has less than no open row, and no node  *)
(* is beyond the last step of its migration.                               *)
THEOREM MigrationTypeCorrect == Spec => []TypeOK
<1>1. Inv => TypeOK
  BY DEF Inv
<1>2. QED
  BY <1>1, MigrationInvHolds, PTL

(* A node that serves finds every object its statements need. *)
THEOREM ServedTableIsComplete == Spec => []ServedIsComplete
<1>1. Inv => ServedIsComplete
  BY DEF Inv, MigrationInv, ServedIsComplete, Serving
<1>2. QED
  BY <1>1, MigrationInvHolds, PTL

(* While a node serves, no user has two open rows. *)
THEOREM ServedTableIsUnique == Spec => []ServedIsUnique
<1>1. Inv => ServedIsUnique
  <2> SUFFICES ASSUME Inv, NEW n \in Node, at[n] = Serving PROVE ~Duplicates
    BY DEF ServedIsUnique
  <2>1. Steps(driver)[4] = "guard"
    BY DEF Steps
  <2>2. Steps(driver)[4] \in schema
    BY DEF Inv, MigrationInv, Serving
  <2>3. QED
    BY <2>1, <2>2 DEF Inv, MigrationInv
<1>2. QED
  BY <1>1, MigrationInvHolds, PTL
=============================================================================
