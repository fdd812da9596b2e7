---------------------------- MODULE Sums_proofs ----------------------------
(***************************************************************************)
(* Proofs about the tables and sums of the reports, for every finite table *)
(* of entries.  The sums of the model are folds; what they come to is      *)
(* proved from a smallest set of which it would be false.                  *)
(***************************************************************************)
EXTENDS Reports_proofs, FiniteSetTheorems

(* A set of finite sets has a minimal member. *)
LEMMA MinimalSet ==
  ASSUME NEW G, IsFiniteSet(G), NEW F \in SUBSET SUBSET G, F # {}
  PROVE  \E T \in F : \A U \in F : U \subseteq T => U = T
<1>1. IsWellFoundedOn(StrictSubsetOrdering(G), FiniteSubsetsOf(G)) /\ FiniteSubsetsOf(G) = SUBSET G
  BY FS_StrictSubsetOrderingWellFounded, FS_FiniteSubsetsOfFinite
<1>2. \E T \in F : \A U \in F : ~ (<<U, T>> \in StrictSubsetOrdering(G))
  BY <1>1, WFMin
<1> QED BY <1>2 DEF StrictSubsetOrdering

AddsUp(h, f, G) ==
  /\ h \in [SUBSET G -> Int] /\ h[{}] = 0
  /\ \A s \in SUBSET G : \A x \in s : h[s] = f[x] + h[s \ {x}]

LEMMA SumExists ==
  ASSUME NEW G, IsFiniteSet(G), NEW f \in [G -> Int]
  PROVE  \E h : AddsUp(h, f, G)
<1> DEFINE F == {T \in SUBSET G : ~ \E h : AddsUp(h, f, T)}
<1> SUFFICES ASSUME F # {} PROVE FALSE
  OBVIOUS
<1>1. PICK T \in F : \A U \in F : U \subseteq T => U = T
  <2> HIDE DEF F
  <2>1. F \in SUBSET SUBSET G
    BY DEF F
  <2> QED BY <2>1, MinimalSet
<1>2. CASE T = {}
  <2>1. AddsUp([s \in SUBSET T |-> 0], f, T)
    BY <1>2 DEF AddsUp
  <2> QED BY <2>1
<1>3. ASSUME NEW x \in T PROVE FALSE
  <2>1. T \ {x} \in SUBSET G /\ T \ {x} \notin F
    BY <1>1, <1>3
  <2>2. PICK h : AddsUp(h, f, T \ {x})
    BY <2>1
  <2> DEFINE k == [s \in SUBSET T |-> IF x \in s THEN f[x] + h[s \ {x}] ELSE h[s]]
  <2>3. f[x] \in Int /\ h \in [SUBSET (T \ {x}) -> Int] /\ h[{}] = 0
    BY <2>2 DEF AddsUp
  <2>4. k \in [SUBSET T -> Int]
    <3>1. ASSUME NEW s \in SUBSET T
          PROVE  (IF x \in s THEN f[x] + h[s \ {x}] ELSE h[s]) \in Int
      <4>1. s \ {x} \in SUBSET (T \ {x})
        OBVIOUS
      <4>2. h[s \ {x}] \in Int
        BY <2>3, <4>1
      <4>3. x \notin s => h[s] \in Int
        BY <4>1, <2>3
      <4> QED BY <2>3, <4>2, <4>3
    <3> QED BY <3>1
  <2>5. k[{}] = 0
    BY <2>3
  <2>6. ASSUME NEW s \in SUBSET T, NEW y \in s PROVE k[s] = f[y] + k[s \ {y}]
    <3>0. s \ {x} \in SUBSET (T \ {x}) /\ s \ {y} \in SUBSET T /\ f[y] \in Int
      OBVIOUS
    <3>1. CASE y = x
      <4>1. k[s] = f[x] + h[s \ {x}] /\ k[s \ {x}] = h[s \ {x}]
        BY <3>1
      <4> QED BY <3>1, <4>1
    <3>2. CASE y # x /\ x \in s
      <4>1. h[s \ {x}] = f[y] + h[(s \ {x}) \ {y}]
        BY <2>2, <3>0, <3>2 DEF AddsUp
      <4>2. k[s] = f[x] + h[s \ {x}] /\ k[s \ {y}] = f[x] + h[(s \ {y}) \ {x}]
        BY <3>0, <3>2
      <4>3. (s \ {y}) \ {x} = (s \ {x}) \ {y} /\ (s \ {x}) \ {y} \in SUBSET (T \ {x})
        OBVIOUS
      <4>4. h[(s \ {x}) \ {y}] \in Int
        BY <2>3, <4>3
      <4>5. k[s \ {y}] = f[x] + h[(s \ {x}) \ {y}]
        BY <4>2, <4>3
      <4> HIDE DEF k
      <4> QED BY <4>1, <4>2, <4>4, <4>5, <2>3, <3>0
    <3>3. CASE x \notin s
      <4>1. k[s] = h[s] /\ k[s \ {y}] = h[s \ {y}] /\ s \in SUBSET (T \ {x})
        BY <3>0, <3>3
      <4> QED BY <2>2, <4>1 DEF AddsUp
    <3> QED BY <3>1, <3>2, <3>3
  <2>7. AddsUp(k, f, T)
    <3> HIDE DEF k
    <3> QED BY <2>4, <2>5, <2>6 DEF AddsUp
  <2> QED BY <2>7
<1> QED BY <1>2, <1>3
(* The sums of a set and of those of its subsets. *)
LEMMA SumOfUnion ==
  ASSUME NEW G, IsFiniteSet(G), NEW f \in [G -> Int], NEW h, AddsUp(h, f, G),
         NEW A \in SUBSET G, NEW B \in SUBSET G, A \cap B = {}
  PROVE  h[A \cup B] = h[A] + h[B]
<1> DEFINE F == {T \in SUBSET A : h[T \cup B] # h[T] + h[B]}
<1> SUFFICES ASSUME F # {} PROVE FALSE
  OBVIOUS
<1>1. PICK T \in F : \A U \in F : U \subseteq T => U = T
  <2> HIDE DEF F
  <2>1. F \in SUBSET SUBSET A /\ IsFiniteSet(A)
    BY FS_Subset DEF F
  <2> QED BY <2>1, MinimalSet
<1>2. h[T \cup B] # h[T] + h[B] /\ T \in SUBSET G
  BY <1>1
<1>3. \A S \in SUBSET G : h[S] \in Int
  BY DEF AddsUp
<1>4. CASE T = {}
  <2>1. h[T] = 0 /\ h[T \cup B] = h[B] /\ h[B] \in Int
    BY <1>3, <1>4 DEF AddsUp
  <2> QED BY <1>2, <2>1
<1>5. ASSUME NEW x \in T PROVE FALSE
  <2>1. T \ {x} \in SUBSET A /\ T \ {x} \notin F
    BY <1>1, <1>5
  <2>2. h[(T \ {x}) \cup B] = h[T \ {x}] + h[B]
    BY <2>1
  <2>3. h[T] = f[x] + h[T \ {x}]
    BY <1>5 DEF AddsUp
  <2>4. h[T \cup B] = f[x] + h[(T \cup B) \ {x}]
    BY <1>5 DEF AddsUp
  <2>5. (T \cup B) \ {x} = (T \ {x}) \cup B
    BY <1>5
  <2>6. f[x] \in Int /\ h[T \ {x}] \in Int /\ h[B] \in Int
    BY <1>3, <1>5
  <2>7. h[T \cup B] = f[x] + (h[T \ {x}] + h[B])
    BY <2>2, <2>4, <2>5
  <2> QED BY <1>2, <2>3, <2>6, <2>7
<1> QED BY <1>4, <1>5

(* A set is the sum of its groups. *)
LEMMA SumOfGroups ==
  ASSUME NEW G, IsFiniteSet(G), NEW f \in [G -> Int], NEW h, AddsUp(h, f, G),
         NEW K, IsFiniteSet(K), NEW key \in [G -> K], NEW g, NEW e,
         \A k \in K : e[k] = h[{x \in G : key[x] = k}],
         AddsUp(g, e, K)
  PROVE  g[K] = h[G]
<1> DEFINE In(J) == {x \in G : key[x] \in J}
           F == {J \in SUBSET K : g[J] # h[In(J)]}
<1>1. ASSUME F # {} PROVE FALSE
  <2>1. PICK J \in F : \A U \in F : U \subseteq J => U = J
    <3> HIDE DEF F
    <3>1. F \in SUBSET SUBSET K
      BY DEF F
    <3> QED BY <1>1, <3>1, MinimalSet
  <2>2. CASE J = {}
    <3>1. In(J) = {}
      BY <2>2
    <3> QED BY <2>1, <2>2, <3>1 DEF AddsUp
  <2>3. ASSUME NEW k \in J PROVE FALSE
    <3>1. g[J \ {k}] = h[In(J \ {k})]
      BY <2>1, <2>3
    <3>2. g[J] = e[k] + g[J \ {k}]
      BY <2>3 DEF AddsUp
    <3> DEFINE group == {x \in G : key[x] = k}
               rest  == In(J \ {k})
    <3>3. group \cup rest = In(J) /\ group \cap rest = {}
          /\ group \in SUBSET G /\ rest \in SUBSET G
      BY <2>3
    <3>4. e[k] = h[group]
      BY <2>3
    <3> HIDE DEF group, rest
    <3>5. h[group \cup rest] = h[group] + h[rest]
      BY <3>3, SumOfUnion
    <3>6. g[J] = h[group] + h[rest]
      BY <3>1, <3>2, <3>4 DEF rest
    <3> QED BY <2>1, <3>3, <3>5, <3>6
  <2> QED BY <2>2, <2>3
<1>2. g[K] = h[In(K)]
  BY <1>1
<1>3. In(K) = G
  OBVIOUS
<1> QED BY <1>2, <1>3

(* A fold that adds in the order of its choice has this sum. *)
Folds(r, f, S) ==
  r = [s \in SUBSET S |->
         IF s = {} THEN 0 ELSE LET x == CHOOSE x \in s : TRUE IN f[x] + r[s \ {x}]]

LEMMA FoldExists ==
  ASSUME NEW G, NEW f, NEW h, AddsUp(h, f, G), NEW S \in SUBSET G
  PROVE  \E r : Folds(r, f, S)
<1>1. Folds([s \in SUBSET S |-> h[s]], f, S)
  <2> DEFINE r == [s \in SUBSET S |-> h[s]]
  <2>1. ASSUME NEW s \in SUBSET S
        PROVE  r[s] = IF s = {} THEN 0
                      ELSE LET x == CHOOSE x \in s : TRUE IN f[x] + r[s \ {x}]
    <3>1. CASE s = {}
      BY <3>1 DEF AddsUp
    <3>2. CASE s # {}
      <4> DEFINE x == CHOOSE x \in s : TRUE
      <4>1. x \in s
        BY <3>2
      <4>2. r[s \ {x}] = h[s \ {x}] /\ r[s] = h[s]
        OBVIOUS
      <4> HIDE DEF r, x
      <4>3. h[s] = f[x] + h[s \ {x}]
        BY <4>1 DEF AddsUp
      <4> QED BY <3>2, <4>2, <4>3 DEF x
    <3> QED BY <3>1, <3>2
  <2> QED BY <2>1 DEF Folds
<1> QED BY <1>1

LEMMA FoldAddsUp ==
  ASSUME NEW G, IsFiniteSet(G), NEW f, NEW h, AddsUp(h, f, G),
         NEW S \in SUBSET G, NEW r, Folds(r, f, S)
  PROVE  r[S] = h[S]
<1> DEFINE F == {T \in SUBSET S : r[T] # h[T]}
<1>1. ASSUME F # {} PROVE FALSE
  <2>1. PICK T \in F : \A U \in F : U \subseteq T => U = T
    <3> HIDE DEF F
    <3>1. F \in SUBSET SUBSET S /\ IsFiniteSet(S)
      BY FS_Subset DEF F
    <3> QED BY <1>1, <3>1, MinimalSet
  <2>2. r[T] = IF T = {} THEN 0
               ELSE LET x == CHOOSE x \in T : TRUE IN f[x] + r[T \ {x}]
    BY <2>1 DEF Folds
  <2>3. CASE T = {}
    BY <2>1, <2>2, <2>3 DEF AddsUp
  <2>4. CASE T # {}
    <3> DEFINE x == CHOOSE x \in T : TRUE
    <3>1. x \in T
      BY <2>4
    <3>2. r[T] = f[x] + r[T \ {x}]
      BY <2>2, <2>4
    <3> HIDE DEF x
    <3>3. r[T \ {x}] = h[T \ {x}]
      BY <2>1, <3>1
    <3>4. h[T] = f[x] + h[T \ {x}]
      BY <2>1, <3>1 DEF AddsUp
    <3> QED BY <2>1, <3>2, <3>3, <3>4
  <2> QED BY <2>3, <2>4
<1> QED BY <1>1

LEMMA ChosenFold ==
  ASSUME NEW G, IsFiniteSet(G), NEW f, NEW h, AddsUp(h, f, G), NEW S \in SUBSET G
  PROVE  (CHOOSE r : Folds(r, f, S))[S] = h[S]
<1>1. \E r : Folds(r, f, S)
  BY FoldExists
<1> DEFINE chosen == CHOOSE r : Folds(r, f, S)
<1>2. Folds(chosen, f, S)
  BY <1>1
<1> HIDE DEF chosen
<1>3. chosen[S] = h[S]
  BY <1>2, FoldAddsUp
<1> QED BY <1>3 DEF chosen

-----------------------------------------------------------------------------
(* The sums of the reports. *)

Nets(ids) == [id \in ids |-> Net(id)]

LEMMA TotalAddsUp ==
  ASSUME NEW ids, IsFiniteSet(ids), NEW h, AddsUp(h, Nets(ids), ids),
         NEW S \in SUBSET ids
  PROVE  TotalNet(S) = h[S]
<1> DEFINE Q(r) == r = [s \in SUBSET S |->
                          IF s = {} THEN 0
                          ELSE LET x == CHOOSE x \in s : TRUE IN Net(x) + r[s \ {x}]]
           total == CHOOSE r : Q(r)
<1>1. TotalNet(S) = total[S]
  BY Zenon DEF TotalNet, MapThenSumSet, MapThenFoldSet
<1>2. ASSUME NEW r PROVE Q(r) <=> Folds(r, Nets(ids), S)
  <2>1. ASSUME NEW s \in SUBSET S, s # {}
        PROVE  Net(CHOOSE x \in s : TRUE) = Nets(ids)[CHOOSE x \in s : TRUE]
    <3>1. (CHOOSE x \in s : TRUE) \in ids
      BY <2>1
    <3> QED BY <3>1 DEF Nets
  <2> QED BY <2>1 DEF Folds
<1>3. total = CHOOSE r : Folds(r, Nets(ids), S)
  <2> HIDE DEF Q
  <2> QED BY <1>2, Zenon
<1> QED BY <1>1, <1>3, ChosenFold

(* The line below a table is the sum over the entries of the table. *)
LEMMA FootNetIsTotal ==
  ASSUME NEW ids, IsFiniteSet(ids), \A id \in ids : Net(id) \in Int,
         NEW K, IsFiniteSet(K), NEW key \in [ids -> K], NEW stats,
         DOMAIN stats = K,
         \A k \in K : stats[k].net = TotalNet({id \in ids : key[id] = k})
  PROVE  FootNet(stats) = TotalNet(ids)
<1>1. Nets(ids) \in [ids -> Int]
  BY DEF Nets
<1>2. PICK h : AddsUp(h, Nets(ids), ids)
  BY <1>1, SumExists
<1> DEFINE e == [k \in K |-> stats[k].net]
<1>3. ASSUME NEW k \in K
      PROVE  e[k] = h[{id \in ids : key[id] = k}] /\ e[k] \in Int
  <2>1. e[k] = h[{id \in ids : key[id] = k}]
    BY <1>2, TotalAddsUp
  <2> QED BY <1>2, <2>1 DEF AddsUp
<1>4. e \in [K -> Int]
  BY <1>3
<1> HIDE DEF e
<1>5. PICK g : AddsUp(g, e, K)
  BY <1>4, SumExists
<1>6. g[K] = h[ids]
  BY <1>1, <1>2, <1>3, <1>5, SumOfGroups
<1> DEFINE Q(r) == r = [s \in SUBSET K |->
                          IF s = {} THEN 0
                          ELSE LET x == CHOOSE x \in s : TRUE
                               IN stats[x].net + r[s \ {x}]]
           foot == CHOOSE r : Q(r)
<1>7. FootNet(stats) = foot[K]
  BY Zenon DEF FootNet, MapThenSumSet, MapThenFoldSet
<1>8. ASSUME NEW r PROVE Q(r) <=> Folds(r, e, K)
  <2>1. ASSUME NEW s \in SUBSET K, s # {}
        PROVE  stats[CHOOSE x \in s : TRUE].net = e[CHOOSE x \in s : TRUE]
    <3>1. (CHOOSE x \in s : TRUE) \in K
      BY <2>1
    <3> QED BY <3>1 DEF e
  <2> QED BY <2>1 DEF Folds
<1>9. foot = CHOOSE r : Folds(r, e, K)
  <2> HIDE DEF Q
  <2> QED BY <1>8, Zenon
<1>10. foot[K] = g[K]
  <2>1. K \in SUBSET K
    OBVIOUS
  <2> HIDE DEF foot
  <2> QED BY <1>5, <1>9, <2>1, ChosenFold
<1> QED BY <1>2, <1>6, <1>7, <1>10, TotalAddsUp

(* The elements of a set are counted one by one. *)
LEMMA CountAddsUp ==
  ASSUME NEW ids, IsFiniteSet(ids)
  PROVE  AddsUp([s \in SUBSET ids |-> Cardinality(s)], [id \in ids |-> 1], ids)
<1>1. ASSUME NEW s \in SUBSET ids
      PROVE  IsFiniteSet(s) /\ Cardinality(s) \in Nat
  BY FS_Subset, FS_CardinalityType
<1>2. ASSUME NEW s \in SUBSET ids, NEW x \in s
      PROVE  Cardinality(s) = 1 + Cardinality(s \ {x})
  <2>1. Cardinality(s \ {x}) = Cardinality(s) - 1
    BY <1>1, FS_RemoveElement
  <2> QED BY <1>1, <2>1
<1>3. Cardinality({}) = 0
  BY FS_EmptySet
<1> QED BY <1>1, <1>2, <1>3 DEF AddsUp

LEMMA FootEntriesIsCount ==
  ASSUME NEW ids, IsFiniteSet(ids),
         NEW K, IsFiniteSet(K), NEW key \in [ids -> K], NEW stats,
         DOMAIN stats = K,
         \A k \in K : stats[k].entries = Cardinality({id \in ids : key[id] = k})
  PROVE  FootEntries(stats) = Cardinality(ids)
<1> DEFINE one == [id \in ids |-> 1]
           h   == [s \in SUBSET ids |-> Cardinality(s)]
           e   == [k \in K |-> stats[k].entries]
<1>1. one \in [ids -> Int] /\ AddsUp(h, one, ids)
  BY CountAddsUp
<1>2. ASSUME NEW k \in K
      PROVE  e[k] = h[{id \in ids : key[id] = k}] /\ e[k] \in Int
  <2>1. {id \in ids : key[id] = k} \in SUBSET ids
    OBVIOUS
  <2>2. e[k] = h[{id \in ids : key[id] = k}]
    BY <2>1
  <2> HIDE DEF h, e
  <2> QED BY <1>1, <2>1, <2>2 DEF AddsUp
<1>3. e \in [K -> Int]
  BY <1>2
<1>4. h[ids] = Cardinality(ids)
  OBVIOUS
<1> HIDE DEF e, h, one
<1>5. PICK g : AddsUp(g, e, K)
  BY <1>3, SumExists
<1>6. g[K] = h[ids]
  BY <1>1, <1>2, <1>5, SumOfGroups
<1> DEFINE Q(r) == r = [s \in SUBSET K |->
                          IF s = {} THEN 0
                          ELSE LET x == CHOOSE x \in s : TRUE
                               IN stats[x].entries + r[s \ {x}]]
           foot == CHOOSE r : Q(r)
<1>7. FootEntries(stats) = foot[K]
  BY Zenon DEF FootEntries, MapThenSumSet, MapThenFoldSet
<1>8. ASSUME NEW r PROVE Q(r) <=> Folds(r, e, K)
  <2>1. ASSUME NEW s \in SUBSET K, s # {}
        PROVE  stats[CHOOSE x \in s : TRUE].entries = e[CHOOSE x \in s : TRUE]
    <3>1. (CHOOSE x \in s : TRUE) \in K
      BY <2>1
    <3> QED BY <3>1 DEF e
  <2> QED BY <2>1 DEF Folds
<1>9. foot = CHOOSE r : Folds(r, e, K)
  <2> HIDE DEF Q
  <2> QED BY <1>8, Zenon
<1>10. foot[K] = g[K]
  <2>1. K \in SUBSET K
    OBVIOUS
  <2> HIDE DEF foot
  <2> QED BY <1>5, <1>9, <2>1, ChosenFold
<1> QED BY <1>4, <1>6, <1>7, <1>10

(* The day a summary of the server counts is the day the views count, if   *)
(* no break of it starts after the clock.                                  *)
LEMMA ServerTotal ==
  ASSUME NEW S, \A id \in S : ServerNetSeconds(Table[id].entry, Now) = Net(id)
  PROVE  LET net(id) == ServerNetSeconds(Table[id].entry, Now)
         IN  MapThenSumSet(net, S) = TotalNet(S)
<1> DEFINE Q(r) == r = [s \in SUBSET S |->
                          IF s = {} THEN 0
                          ELSE LET x == CHOOSE x \in s : TRUE IN Net(x) + r[s \ {x}]]
           P(r) == r = [s \in SUBSET S |->
                          IF s = {} THEN 0
                          ELSE LET x == CHOOSE x \in s : TRUE
                               IN ServerNetSeconds(Table[x].entry, Now) + r[s \ {x}]]
<1>1. TotalNet(S) = (CHOOSE r : Q(r))[S]
  BY Zenon DEF TotalNet, MapThenSumSet, MapThenFoldSet
<1>2. LET net(id) == ServerNetSeconds(Table[id].entry, Now)
      IN  MapThenSumSet(net, S) = (CHOOSE r : P(r))[S]
  BY Zenon DEF MapThenSumSet, MapThenFoldSet
<1>3. ASSUME NEW r PROVE Q(r) <=> P(r)
  <2>1. ASSUME NEW s \in SUBSET S, s # {}
        PROVE  LET x == CHOOSE x \in s : TRUE
               IN  Net(x) = ServerNetSeconds(Table[x].entry, Now)
    <3>1. (CHOOSE x \in s : TRUE) \in S
      BY <2>1
    <3> QED BY <3>1
  <2> QED BY <2>1
<1>4. (CHOOSE r : Q(r)) = (CHOOSE r : P(r))
  <2> HIDE DEF Q, P
  <2> QED BY <1>3, Zenon
<1> QED BY <1>1, <1>2, <1>4

(* What is listed is finite, and its net seconds are numbers. *)
LEMMA ListedNet ==
  ASSUME IInv, NEW ids \in SUBSET DOMAIN Table
  PROVE  /\ IsFiniteSet(ids) /\ \A id \in ids : Net(id) \in Int
         /\ \A id \in ids : Table[id].entry.onbrk <= Now =>
              ServerNetSeconds(Table[id].entry, Now) = Net(id)
<1>1. DOMAIN Table = DOMAIN Rows \cup {"mine"}
  BY DEF Table
<1>2. IsFiniteSet(DOMAIN Table)
  BY <1>1, ReportsAssumption, FS_AddElement
<1>3. ASSUME NEW e \in TimeEntry, NEW now \in Int PROVE NetSeconds(e, now) \in Int
  BY <1>3, MillisAssumption DEF NetSeconds, TimeEntry
<1> QED BY <1>2, <1>3, FS_Subset, TableEntries, SameSeconds DEF Net

(* A table whose lines are the groups of the entries under some key.       *)
LEMMA SummaryIsTotal ==
  ASSUME IInv, NEW ids \in SUBSET DOMAIN Table, NEW K, NEW key \in [ids -> K],
         \A k \in K : \E id \in ids : key[id] = k, NEW stats, DOMAIN stats = K,
         \A k \in K : stats[k].net = TotalNet({id \in ids : key[id] = k}),
         \A k \in K : stats[k].entries = Cardinality({id \in ids : key[id] = k})
  PROVE  FootNet(stats) = TotalNet(ids) /\ FootEntries(stats) = Cardinality(ids)
<1>1. IsFiniteSet(ids) /\ \A id \in ids : Net(id) \in Int
  BY ListedNet
<1>2. IsFiniteSet(K)
  <2>1. key \in Surjection(ids, K)
    BY DEF Surjection
  <2> QED BY <1>1, <2>1, FS_Surjection
<1> QED BY <1>1, <1>2, FootNetIsTotal, FootEntriesIsCount

(* The headline, the two tables and the server's summary by days come to   *)
(* the same hours and the same number of entries: each groups the listed   *)
(* entries in its way, and each counts every one once.                     *)
THEOREM SumsAreEqual == Spec => []SumsAgree
<1>1. ASSUME IInv PROVE SumsAgree
  <2> SUFFICES ASSUME NEW from, NEW filter
               PROVE  LET ids  == Filtered(ListedIn(DayRange(zone, from, from + 1)), filter)
                          days == ServerDays(ids)
                          net(d) == days[d].net
                      IN /\ \A stats \in {UserStats(ids), ProjectStats(ids)} :
                              FootNet(stats) = TotalNet(ids) /\ FootEntries(stats) = Cardinality(ids)
                         /\ (\A id \in ids : Table[id].entry.onbrk <= Now) =>
                              MapThenSumSet(net, DOMAIN days) = TotalNet(ids)
    BY DEF SumsAgree
  <2> DEFINE ids == Filtered(ListedIn(DayRange(zone, from, from + 1)), filter)
  <2>1. ids \in SUBSET DOMAIN Table
    BY DEF Filtered, ListedIn
  <2> HIDE DEF ids
  <2>2. FootNet(UserStats(ids)) = TotalNet(ids) /\ FootEntries(UserStats(ids)) = Cardinality(ids)
    <3> DEFINE key   == [id \in ids |-> UserOf(id)]
               K     == {UserOf(id) : id \in ids}
               stats == UserStats(ids)
    <3>1. key \in [ids -> K] /\ (\A k \in K : \E id \in ids : key[id] = k)
          /\ DOMAIN stats = K
      BY DEF UserStats, Stats
    <3>2. ASSUME NEW k \in K
          PROVE  /\ stats[k].net = TotalNet({id \in ids : key[id] = k})
                 /\ stats[k].entries = Cardinality({id \in ids : key[id] = k})
      <4>1. {id \in ids : UserOf(id) = k} = {id \in ids : key[id] = k}
        OBVIOUS
      <4> HIDE DEF key
      <4> QED BY <4>1 DEF UserStats, Stats
    <3> HIDE DEF key, K, stats
    <3>3. /\ \A k \in K : stats[k].net = TotalNet({id \in ids : key[id] = k})
          /\ \A k \in K : stats[k].entries = Cardinality({id \in ids : key[id] = k})
      BY <3>2
    <3>4. FootNet(stats) = TotalNet(ids) /\ FootEntries(stats) = Cardinality(ids)
      BY <1>1, <2>1, <3>1, <3>3, SummaryIsTotal
    <3> QED BY <3>4 DEF stats
  <2>3. FootNet(ProjectStats(ids)) = TotalNet(ids) /\ FootEntries(ProjectStats(ids)) = Cardinality(ids)
    <3> DEFINE key   == [id \in ids |-> ProjectOf(id)]
               K     == {ProjectOf(id) : id \in ids}
               stats == ProjectStats(ids)
    <3>1. key \in [ids -> K] /\ (\A k \in K : \E id \in ids : key[id] = k)
          /\ DOMAIN stats = K
      BY DEF ProjectStats, Stats
    <3>2. ASSUME NEW k \in K
          PROVE  /\ stats[k].net = TotalNet({id \in ids : key[id] = k})
                 /\ stats[k].entries = Cardinality({id \in ids : key[id] = k})
      <4>1. {id \in ids : ProjectOf(id) = k} = {id \in ids : key[id] = k}
        OBVIOUS
      <4> HIDE DEF key
      <4> QED BY <4>1 DEF ProjectStats, Stats
    <3> HIDE DEF key, K, stats
    <3>3. /\ \A k \in K : stats[k].net = TotalNet({id \in ids : key[id] = k})
          /\ \A k \in K : stats[k].entries = Cardinality({id \in ids : key[id] = k})
      BY <3>2
    <3>4. FootNet(stats) = TotalNet(ids) /\ FootEntries(stats) = Cardinality(ids)
      BY <1>1, <2>1, <3>1, <3>3, SummaryIsTotal
    <3> QED BY <3>4 DEF stats
  <2>4. ASSUME \A id \in ids : Table[id].entry.onbrk <= Now
        PROVE  FootNet(ServerDays(ids)) = TotalNet(ids)
    <3> DEFINE K   == {StartDay(id) : id \in ids}
               key == [id \in ids |-> StartDay(id)]
    <3>1. IsFiniteSet(ids) /\ \A id \in ids : Net(id) \in Int
      BY <1>1, <2>1, ListedNet
    <3>2. key \in [ids -> K] /\ DOMAIN ServerDays(ids) = K
      BY DEF ServerDays
    <3>3. IsFiniteSet(K)
      <4>1. key \in Surjection(ids, K)
        BY DEF Surjection
      <4> QED BY <3>1, <4>1, FS_Surjection
    <3>4. ASSUME NEW k \in K
          PROVE  ServerDays(ids)[k].net = TotalNet({id \in ids : key[id] = k})
      <4> DEFINE group == {id \in ids : StartDay(id) = k}
      <4>1. group = {id \in ids : key[id] = k}
        OBVIOUS
      <4>2. \A id \in group : ServerNetSeconds(Table[id].entry, Now) = Net(id)
        BY <1>1, <2>1, <2>4, ListedNet
      <4>3. LET net(id) == ServerNetSeconds(Table[id].entry, Now)
            IN  ServerDays(ids)[k].net = MapThenSumSet(net, group)
        BY DEF ServerDays
      <4> HIDE DEF group
      <4> QED BY <4>1, <4>2, <4>3, ServerTotal
    <3> HIDE DEF K, key
    <3> QED BY <3>1, <3>2, <3>3, <3>4, FootNetIsTotal
  <2>5. LET days == ServerDays(ids)
            net(d) == days[d].net
        IN  MapThenSumSet(net, DOMAIN days) = FootNet(days)
    BY DEF FootNet
  <2> QED BY <2>2, <2>3, <2>4, <2>5 DEF ids
<1> QED BY <1>1, AlwaysIInv, PTL

-----------------------------------------------------------------------------
(* The rows of the weekly table. *)

(* Some row of a table starts first. *)
LEMMA FirstExists ==
  ASSUME NEW G, IsFiniteSet(G), G # {}, NEW start \in [G -> Int]
  PROVE  \E x \in G : \A y \in G : start[x] <= start[y]
<1> DEFINE F == {T \in SUBSET G : T # {} /\ ~ \E x \in T : \A y \in T : start[x] <= start[y]}
<1>1. ASSUME F # {} PROVE FALSE
  <2>1. PICK T \in F : \A U \in F : U \subseteq T => U = T
    <3> HIDE DEF F
    <3>1. F \in SUBSET SUBSET G
      BY DEF F
    <3> QED BY <1>1, <3>1, MinimalSet
  <2>2. PICK x \in T : TRUE
    BY <2>1
  <2>3. CASE T = {x}
    <3>1. \A y \in T : start[x] <= start[y]
      BY <2>1, <2>3
    <3> QED BY <2>1, <2>2, <3>1
  <2>4. CASE T # {x}
    <3>1. T \ {x} \in SUBSET G /\ T \ {x} # {} /\ T \ {x} \notin F
      BY <2>1, <2>2, <2>4
    <3>2. PICK y \in T \ {x} : \A z \in T \ {x} : start[y] <= start[z]
      BY <3>1
    <3> DEFINE first == IF start[x] <= start[y] THEN x ELSE y
    <3>3. \A z \in T : start[z] \in Int
      BY <2>1
    <3>4. first \in T /\ \A z \in T : start[first] <= start[z]
      BY <2>2, <3>2, <3>3
    <3> HIDE DEF first
    <3> QED BY <2>1, <3>4
  <2> QED BY <2>3, <2>4
<1> QED BY <1>1

NewestFirst(q, start) == \A i, j \in DOMAIN q : i < j => start[q[i]] >= start[q[j]]

(* Finitely many rows can be listed, newest first. *)
LEMMA SortedExists ==
  ASSUME NEW G, IsFiniteSet(G), NEW start \in [G -> Int]
  PROVE  \E q \in SetToSeqs(G) : NewestFirst(q, start)
<1> DEFINE F == {T \in SUBSET G : ~ \E q \in SetToSeqs(T) : NewestFirst(q, start)}
<1>1. ASSUME F # {} PROVE FALSE
  <2>1. PICK T \in F : \A U \in F : U \subseteq T => U = T
    <3> HIDE DEF F
    <3>1. F \in SUBSET SUBSET G
      BY DEF F
    <3> QED BY <1>1, <3>1, MinimalSet
  <2>2. IsFiniteSet(T) /\ Cardinality(T) \in Nat
    BY <2>1, FS_Subset, FS_CardinalityType
  <2>3. CASE T = {}
    <3>1. 1 .. Cardinality(T) = {}
      BY <2>3, FS_EmptySet
    <3> DEFINE q == [i \in 1 .. Cardinality(T) |-> 0]
    <3>2. q \in SetToSeqs(T) /\ NewestFirst(q, start)
      BY <3>1 DEF SetToSeqs, NewestFirst
    <3> HIDE DEF q
    <3> QED BY <2>1, <3>2
  <2>4. CASE T # {}
    <3>1. [y \in T |-> start[y]] \in [T -> Int]
      BY <2>1
    <3>2. PICK x \in T : \A y \in T : start[x] <= start[y]
      BY <2>2, <2>4, <3>1, FirstExists
    <3>3. T \ {x} \in SUBSET G /\ T \ {x} \notin F
      BY <2>1, <3>2
    <3>4. PICK p \in SetToSeqs(T \ {x}) : NewestFirst(p, start)
      BY <3>3
    <3> DEFINE n == Cardinality(T)
               q == [i \in 1 .. n |-> IF i = n THEN x ELSE p[i]]
    <3>5. Cardinality(T \ {x}) = n - 1 /\ n \in Nat /\ IsFiniteSet(T \ {x})
      BY <2>2, <3>2, FS_RemoveElement
    <3>6. p \in [1 .. n - 1 -> T \ {x}] /\ \A i, j \in 1 .. n - 1 : i # j => p[i] # p[j]
      BY <3>5 DEF SetToSeqs
    <3> HIDE DEF n
    <3>7. q \in SetToSeqs(T)
      <4>1. \A i \in 1 .. n : i # n => i \in 1 .. n - 1
        BY <3>5
      <4>2. q \in [1 .. n -> T]
        BY <3>6, <4>1
      <4>3. \A i, j \in 1 .. n : i # j => q[i] # q[j]
        BY <3>6, <4>1
      <4> HIDE DEF q
      <4> QED BY <4>2, <4>3 DEF SetToSeqs, n
    <3>8. NewestFirst(q, start)
      <4>1. ASSUME NEW i \in 1 .. n, NEW j \in 1 .. n, i < j
            PROVE  start[q[i]] >= start[q[j]]
        <5>1. i \in 1 .. n - 1 /\ p[i] \in T /\ q[i] = p[i] /\ start[p[i]] \in Int
          BY <2>1, <3>5, <3>6, <4>1
        <5>2. CASE j = n
          <6>1. q[j] = x /\ start[x] <= start[p[i]] /\ start[x] \in Int
            BY <2>1, <3>2, <5>1, <5>2
          <6> QED BY <5>1, <6>1
        <5>3. CASE j # n
          <6>1. j \in 1 .. n - 1 /\ q[j] = p[j]
            BY <3>5, <5>3
          <6> QED BY <3>4, <3>6, <4>1, <5>1, <6>1 DEF NewestFirst
        <5> QED BY <5>2, <5>3
      <4> QED BY <4>1 DEF NewestFirst
    <3> HIDE DEF q
    <3> QED BY <2>1, <3>7, <3>8
  <2> QED BY <2>3, <2>4
<1> QED BY <1>1

(* The weekly table names each day once, with whatever rows it has: its    *)
(* days never go up again, unless the clock goes back over a midnight.     *)
THEOREM DaysAreShownOnce == Spec => []DayShownOnce
<1>1. ASSUME IInv, zone \in Zone, DaysGoOn(zone) PROVE DayShownOnce
  <2> DEFINE ids   == ListedIn(VisibleRange(zone, Now, 0))
             rows  == Sorted(ids)
             start == [id \in ids |-> Table[id].entry.start]
  <2>1. ids \in SUBSET DOMAIN Table
    BY DEF ListedIn
  <2>2. IsFiniteSet(ids) /\ \A id \in DOMAIN Table : Table[id].entry.start \in Int
    BY <1>1, <2>1, ListedNet, TableEntries DEF TimeEntry
  <2>3. start \in [ids -> Int]
    BY <2>1, <2>2
  <2> HIDE DEF ids
  <2>4. \E q \in SetToSeqs(ids) : NewestFirst(q, start)
    <3> HIDE DEF start
    <3> QED BY <2>2, <2>3, SortedExists
  <2>5. ASSUME NEW q \in SetToSeqs(ids)
        PROVE  /\ \A i \in DOMAIN q : q[i] \in ids
               /\ NewestFirst(q, start) <=>
                    \A i, j \in DOMAIN q :
                      i < j => Table[q[i]].entry.start >= Table[q[j]].entry.start
    BY DEF SetToSeqs, NewestFirst
  <2>6. /\ rows \in SetToSeqs(ids)
        /\ \A i, j \in DOMAIN rows :
             i < j => Table[rows[i]].entry.start >= Table[rows[j]].entry.start
    BY <2>4, <2>5 DEF Sorted
  <2> HIDE DEF rows
  <2>7. rows \in Seq(DOMAIN Table)
    BY <2>1, <2>2, <2>6, FS_CardinalityType DEF SetToSeqs
  <2>8. \A i, j \in DayShown(rows) : StartDay(rows[i]) = StartDay(rows[j]) => i = j
    BY <1>1, <2>2, <2>6, <2>7, DaysNamedOnce
  <2> QED BY <2>8 DEF DayShownOnce, rows, ids
<1>2. ASSUME IInv PROVE DayShownOnce
  <2>1. zone \in Zone
    BY <1>2 DEF IInv, TypeOK
  <2>2. ~DaysGoOn(zone) => DayShownOnce
    BY DEF DayShownOnce, DaysGoOn
  <2> QED BY <1>1, <1>2, <2>1, <2>2
<1> QED BY <1>2, AlwaysIInv, PTL
=============================================================================
