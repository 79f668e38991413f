--------------------------- MODULE BuildDb_proofs ---------------------------
(***************************************************************************)
(* Theorems about BuildDb for any set of workbooks, runs and readers: of   *)
(* any number of overlapping runs, TypeCorrect, MetaAlwaysFromOneWorkbook  *)
(* and SoloRebuildsExactly; while at most two overlap, TwoRunsNeverMix,    *)
(* TwoRunsSuccessIsExact and TwoRunsPublishWholeWorkbooks.                 *)
(* StatementsRunOut gives the measure by which every run ends.             *)
(***************************************************************************)
EXTENDS BuildDb, TLAPS

Idx == 1..LastStep

\* A table that does not exist has no rows.
MissingIsEmpty == \A t \in Tables \ schema : rows[t] = {}

\* The write lock is held exactly from a run's first INSERT to its end.
WriterInserts ==
  \A r \in Runs :
    writer = r <=> pc[r] = "commit" \/ (pc[r] = "insert" /\ step[r] > 1)

\* No other run drops a table that uncommitted rows have gone into.
InsertedExist ==
  \A r \in Runs :
    /\ pc[r] = "insert" => \A i \in Idx : i < step[r] => InsertOrder[i] \in schema
    /\ pc[r] = "commit" => \A i \in Idx : InsertOrder[i] \in schema

BookLoaded == \A r \in Runs : Active(r) => book[r] \in Workbooks

\* While uncommitted rows are pending, the committed dataset_meta is empty.
MetaReserved == writer # NoRun => rows["dataset_meta"] = {}

\* How far a run that has the file to itself has brought it.
SoloAt(r) ==
  /\ Active(r)
  /\ \A p \in Runs : Active(p) => p = r
  /\ pc[r] = "drop" => \A i \in Idx : i < step[r] => DropOrder[i] \notin schema
  /\ pc[r] = "create" =>
       /\ \A t \in Tables : rows[t] = {}
       /\ \A i \in Idx : i >= step[r] => CreateOrder[i] \notin schema
       /\ \A i \in Idx : i < step[r] => CreateOrder[i] \in schema
  /\ pc[r] \in {"insert", "commit"} =>
       schema = Tables /\ \A t \in Tables : rows[t] = {}

SoloProgress == \A r \in Runs : alone[r] => SoloAt(r)

IInv ==
  /\ TypeOK
  /\ MissingIsEmpty
  /\ WriterInserts
  /\ InsertedExist
  /\ BookLoaded
  /\ MetaReserved
  /\ MetaFromOneWorkbook
  /\ SoloProgress

-----------------------------------------------------------------------------

\* The two orders of _SCHEMA name each table once.
LEMMA OrderFacts ==
  /\ \A i \in Idx : DropOrder[i] \in Tables /\ CreateOrder[i] \in Tables
  /\ \A i, j \in Idx : DropOrder[i] = DropOrder[j] => i = j
  /\ \A i, j \in Idx : CreateOrder[i] = CreateOrder[j] => i = j
  /\ \A t \in Tables : \E i \in Idx : DropOrder[i] = t
  /\ \A t \in Tables : \E i \in Idx : CreateOrder[i] = t
<1>1. Idx = {1, 2, 3, 4}
  BY DEF Idx, LastStep
<1>2. /\ DropOrder[1] = "accounts" /\ DropOrder[2] = "orders"
      /\ DropOrder[3] = "tickets" /\ DropOrder[4] = "dataset_meta"
  BY DEF DropOrder
<1>3. /\ CreateOrder[1] = "dataset_meta" /\ CreateOrder[2] = "accounts"
      /\ CreateOrder[3] = "orders" /\ CreateOrder[4] = "tickets"
  BY DEF CreateOrder
<1>4. Tables = {"accounts", "orders", "tickets", "dataset_meta"}
  BY DEF Tables, DataTables
<1>5. QED
  BY <1>1, <1>2, <1>3, <1>4

\* Rows of a workbook are rows, and any two workbooks have the same five
\* keys in dataset_meta: the second of two inserts always clashes.
LEMMA RowsOfType ==
  ASSUME NEW w \in Workbooks, NEW t \in Tables
  PROVE  RowsOf(w, t) \subseteq Row
BY ContentAssumption DEF RowsOf, Row, Tables, DataTables

\* Two workbooks always clash in dataset_meta: its keys are the same for all.
LEMMA MetaClash ==
  ASSUME NEW v \in Workbooks, NEW w \in Workbooks,
         rows["dataset_meta"] = RowsOf(v, "dataset_meta")
  PROVE  Clash(w, "dataset_meta")
<1>1. [key |-> "currency", from |-> v] \in RowsOf(v, "dataset_meta")
  BY DEF RowsOf, MetaKeys
<1>2. [key |-> "currency", from |-> w] \in RowsOf(w, "dataset_meta")
  BY DEF RowsOf, MetaKeys
<1>3. QED
  BY <1>1, <1>2 DEF Clash

-----------------------------------------------------------------------------

\* The invariant holds of a file that does not exist yet.
LEMMA InitIInv == Init => IInv
<1> SUFFICES ASSUME Init PROVE IInv
  OBVIOUS
<1>1. TypeOK
  BY DEF Init, TypeOK, Phases, Results, LastStep
<1>2. MissingIsEmpty /\ MetaReserved /\ MetaFromOneWorkbook
  BY DEF Init, MissingIsEmpty, MetaReserved, MetaFromOneWorkbook, Tables
<1>3. WriterInserts /\ InsertedExist /\ BookLoaded /\ SoloProgress
  BY NoRunAssumption
  DEF Init, WriterInserts, InsertedExist, BookLoaded, SoloProgress, SoloAt, Active
<1>4. QED
  BY <1>1, <1>2, <1>3 DEF IInv

\* Every way a run ends without committing leaves the invariant true.
LEMMA EndKeepsIInv ==
  ASSUME IInv, NEW r \in Runs, NEW how \in Results, Active(r),
         End(r, how), UNCHANGED <<schema, rows, readers>>
  PROVE  IInv'
<1> USE DEF IInv
<1>1. TypeOK'
  BY DEF TypeOK, End, Phases, LastStep
<1>2. MissingIsEmpty' /\ MetaFromOneWorkbook'
  BY DEF MissingIsEmpty, MetaFromOneWorkbook
<1>3. WriterInserts'
  BY NoRunAssumption DEF TypeOK, WriterInserts, End
<1>4. BookLoaded' /\ InsertedExist'
  BY DEF TypeOK, BookLoaded, InsertedExist, Active, End
<1>5. MetaReserved'
  BY DEF MetaReserved, End
<1>6. SoloProgress'
  BY DEF TypeOK, SoloProgress, SoloAt, Active, End
<1>7. QED
  BY <1>1, <1>2, <1>3, <1>4, <1>5, <1>6

\* A run that starts has written nothing.
LEMMA LoadKeepsIInv ==
  ASSUME IInv, NEW r \in Runs, NEW w \in Workbooks, Load(r, w)
  PROVE  IInv'
<1> USE DEF IInv
<1>1. TypeOK'
  BY DEF TypeOK, Load, Phases, Results, LastStep
<1>2. MissingIsEmpty' /\ MetaFromOneWorkbook' /\ MetaReserved'
  BY DEF MissingIsEmpty, MetaFromOneWorkbook, MetaReserved, Load
<1>3. WriterInserts'
  BY DEF TypeOK, WriterInserts, Load, Active
<1>4. BookLoaded' /\ InsertedExist'
  BY DEF TypeOK, BookLoaded, InsertedExist, Active, Load
<1>5. SoloProgress'
  BY DEF TypeOK, SoloProgress, SoloAt, Active, Load, Idx, LastStep
<1>6. QED
  BY <1>1, <1>2, <1>3, <1>4, <1>5

\* A workbook that does not load leaves the file alone.
LEMMA LoadFailsKeepsIInv ==
  ASSUME IInv, NEW r \in Runs, NEW w \in Workbooks, LoadFails(r, w)
  PROVE  IInv'
<1> USE DEF IInv
<1>1. TypeOK'
  BY DEF TypeOK, LoadFails, Results
<1>2. MissingIsEmpty' /\ MetaFromOneWorkbook' /\ MetaReserved' /\ WriterInserts'
  BY DEF MissingIsEmpty, MetaFromOneWorkbook, MetaReserved, WriterInserts, LoadFails
<1>3. BookLoaded' /\ InsertedExist' /\ SoloProgress'
  BY DEF BookLoaded, InsertedExist, SoloProgress, SoloAt, Active, LoadFails
<1>4. QED
  BY <1>1, <1>2, <1>3

\* DDL touches no committed dataset_meta row while a transaction is open: the
\* dropped table is missing, or the writer is not in the script.
LEMMA DropKeepsIInv ==
  ASSUME IInv, NEW r \in Runs, Drop(r)
  PROVE  IInv'
<1> USE DEF IInv
<1> DEFINE t == DropOrder[step[r]]
<1>0. /\ step[r] \in Idx
      /\ t \in Tables
      /\ pc[r] = "drop"
      /\ t \in schema => MayCommit(r)
      /\ schema' = schema \ {t}
      /\ rows' = [rows EXCEPT ![t] = {}]
      /\ writer' = writer /\ readers' = readers
      /\ pc' = [pc EXCEPT ![r] = IF step[r] = 4 THEN "create" ELSE "drop"]
      /\ step' = [step EXCEPT ![r] = IF step[r] = 4 THEN 1 ELSE step[r] + 1]
      /\ book' = book /\ result' = result /\ alone' = alone
  BY OrderFacts DEF Drop, Advance, TypeOK, Idx, LastStep
<1> HIDE DEF t
<1>1. TypeOK'
  BY <1>0 DEF TypeOK, Phases, Idx, LastStep
<1>2. MissingIsEmpty'
  BY <1>0 DEF TypeOK, MissingIsEmpty
<1>3. MetaFromOneWorkbook' /\ MetaReserved'
  BY <1>0 DEF TypeOK, MetaFromOneWorkbook, MetaReserved, Tables
<1>4. WriterInserts'
  BY <1>0 DEF TypeOK, WriterInserts
<1>5. BookLoaded'
  BY <1>0 DEF TypeOK, BookLoaded, Active
<1>6. InsertedExist'
  <2> SUFFICES ASSUME NEW q \in Runs, NEW i \in Idx,
                      \/ pc'[q] = "insert" /\ i < step'[q]
                      \/ pc'[q] = "commit"
               PROVE  InsertOrder[i] \in schema'
    BY DEF InsertedExist
  <2>1. q # r /\ pc'[q] = pc[q] /\ step'[q] = step[q]
    BY <1>0 DEF TypeOK, Idx, LastStep
  <2>2. writer = q /\ InsertOrder[i] \in schema
    BY <2>1 DEF InsertedExist, WriterInserts, TypeOK, Idx, LastStep
  <2>3. t \notin schema
    BY <2>1, <2>2, <1>0, NoRunAssumption DEF MayCommit, MayWrite
  <2>4. QED
    BY <2>2, <2>3, <1>0
<1>7. SoloProgress'
  <2> SUFFICES ASSUME NEW q \in Runs, alone'[q]
               PROVE  SoloAt(q)'
    BY DEF SoloProgress
  <2>1. alone[q] /\ Active(q)
    BY <1>0 DEF SoloProgress, SoloAt
  <2>2. q = r
    BY <2>1, <1>0 DEF SoloProgress, SoloAt, Active
  <2>3. \A i \in Idx : i < step[r] => DropOrder[i] \notin schema
    BY <2>1, <2>2, <1>0 DEF SoloProgress, SoloAt
  <2>4. \A i \in Idx : i <= step[r] => DropOrder[i] \notin schema'
    BY <2>3, <1>0 DEF t, Idx, LastStep
  <2>5. Active(r)' /\ \A p \in Runs : Active(p)' => p = r
    BY <2>1, <2>2, <1>0 DEF SoloProgress, SoloAt, Active, TypeOK
  <2>6. CASE step[r] = 4
    <3>1. schema' = {}
      BY <2>4, <2>6, <1>0, <1>1, OrderFacts DEF TypeOK, Idx, LastStep
    <3>2. \A u \in Tables : rows'[u] = {}
      BY <3>1, <1>2 DEF MissingIsEmpty
    <3>3. pc'[r] = "create" /\ step'[r] = 1
      BY <2>6, <1>0 DEF TypeOK
    <3>4. QED
      BY <2>2, <2>5, <3>1, <3>2, <3>3 DEF SoloAt, Idx, LastStep
  <2>7. CASE step[r] # 4
    <3>1. pc'[r] = "drop" /\ step'[r] = step[r] + 1
      BY <2>7, <1>0 DEF TypeOK
    <3>2. QED
      BY <2>2, <2>4, <2>5, <3>1, <1>0 DEF SoloAt, Idx, LastStep
  <2>8. QED
    BY <2>6, <2>7
<1>8. QED
  BY <1>1, <1>2, <1>3, <1>4, <1>5, <1>6, <1>7

\* A new table is empty, so nobody has inserted into it yet.
LEMMA CreateKeepsIInv ==
  ASSUME IInv, NEW r \in Runs, Create(r)
  PROVE  IInv'
<1> USE DEF IInv
<1> DEFINE t == CreateOrder[step[r]]
<1>0. /\ step[r] \in Idx
      /\ t \in Tables
      /\ pc[r] = "create"
      /\ t \notin schema
      /\ schema' = schema \cup {t}
      /\ rows' = [rows EXCEPT ![t] = {}]
      /\ writer' = writer /\ readers' = readers
      /\ pc' = [pc EXCEPT ![r] = IF step[r] = 4 THEN "insert" ELSE "create"]
      /\ step' = [step EXCEPT ![r] = IF step[r] = 4 THEN 1 ELSE step[r] + 1]
      /\ book' = book /\ result' = result /\ alone' = alone
  BY OrderFacts DEF Create, Advance, TypeOK, Idx, LastStep
<1> HIDE DEF t
<1>1. TypeOK'
  BY <1>0 DEF TypeOK, Phases, Idx, LastStep
<1>2. MissingIsEmpty'
  BY <1>0 DEF TypeOK, MissingIsEmpty
<1>3. MetaFromOneWorkbook' /\ MetaReserved'
  BY <1>0 DEF TypeOK, MetaFromOneWorkbook, MetaReserved, Tables
<1>4. WriterInserts'
  BY <1>0 DEF TypeOK, WriterInserts
<1>5. BookLoaded'
  BY <1>0 DEF TypeOK, BookLoaded, Active
<1>6. InsertedExist'
  <2> SUFFICES ASSUME NEW q \in Runs, NEW i \in Idx,
                      \/ pc'[q] = "insert" /\ i < step'[q]
                      \/ pc'[q] = "commit"
               PROVE  InsertOrder[i] \in schema'
    BY DEF InsertedExist
  <2>1. q # r /\ pc'[q] = pc[q] /\ step'[q] = step[q]
    BY <1>0 DEF TypeOK, Idx, LastStep
  <2>2. QED
    BY <2>1, <1>0 DEF InsertedExist
<1>7. SoloProgress'
  <2> SUFFICES ASSUME NEW q \in Runs, alone'[q]
               PROVE  SoloAt(q)'
    BY DEF SoloProgress
  <2>1. q = r /\ SoloAt(r)
    BY <1>0 DEF SoloProgress, SoloAt, Active
  <2>2. Active(r)' /\ \A p \in Runs : Active(p)' => p = r
    BY <2>1, <1>0 DEF SoloAt, Active, TypeOK
  <2>3. \A u \in Tables : rows'[u] = {}
    BY <2>1, <1>0 DEF SoloAt, TypeOK
  <2>4. \A i \in Idx : i <= step[r] => CreateOrder[i] \in schema'
    BY <2>1, <1>0 DEF SoloAt, t, Idx, LastStep
  <2>5. \A i \in Idx : i > step[r] => CreateOrder[i] \notin schema'
    BY <2>1, <1>0, OrderFacts DEF SoloAt, t, Idx, LastStep
  <2>6. CASE step[r] = 4
    <3>1. \A i \in Idx : CreateOrder[i] \in schema'
      BY <2>4, <2>6 DEF Idx, LastStep
    <3>2. \A u \in Tables : u \in schema'
      BY <3>1, OrderFacts
    <3>3. schema' = Tables
      BY <3>2, <1>1 DEF TypeOK
    <3>4. pc'[r] = "insert"
      BY <2>6, <1>0 DEF TypeOK
    <3>5. QED
      BY <2>1, <2>2, <2>3, <3>3, <3>4 DEF SoloAt
  <2>7. CASE step[r] # 4
    <3>1. pc'[r] = "create" /\ step'[r] = step[r] + 1
      BY <2>7, <1>0 DEF TypeOK
    <3>2. QED
      BY <2>1, <2>2, <2>3, <2>4, <2>5, <3>1, <1>0 DEF SoloAt, Idx, LastStep
  <2>8. QED
    BY <2>6, <2>7
<1>8. QED
  BY <1>1, <1>2, <1>3, <1>4, <1>5, <1>6, <1>7

\* The first INSERT, into dataset_meta, passes only if no row is committed there.
LEMMA InsertKeepsIInv ==
  ASSUME IInv, NEW r \in Runs, Insert(r)
  PROVE  IInv'
<1> USE DEF IInv
<1> DEFINE t == InsertOrder[step[r]]
<1>0. /\ step[r] \in Idx
      /\ t \in Tables
      /\ t \in schema
      /\ pc[r] = "insert"
      /\ book[r] \in Workbooks
      /\ MayWrite(r)
      /\ ~Clash(book[r], t)
      /\ schema' = schema /\ rows' = rows
      /\ writer' = r /\ readers' = readers
      /\ pc' = [pc EXCEPT ![r] = IF step[r] = 4 THEN "commit" ELSE "insert"]
      /\ step' = [step EXCEPT ![r] = IF step[r] = 4 THEN 1 ELSE step[r] + 1]
      /\ book' = book /\ result' = result /\ alone' = alone
  BY OrderFacts DEF Insert, InsertOrder, Advance, TypeOK, BookLoaded, Active, Idx, LastStep
<1>1. TypeOK'
  BY <1>0 DEF TypeOK, Phases, Idx, LastStep
<1>2. MissingIsEmpty' /\ MetaFromOneWorkbook'
  BY <1>0 DEF MissingIsEmpty, MetaFromOneWorkbook
<1>3. MetaReserved'
  <2>1. CASE writer = NoRun
    <3>1. step[r] = 1
      BY <2>1, <1>0, NoRunAssumption DEF WriterInserts, Idx, LastStep
    <3>2. t = "dataset_meta"
      BY <3>1 DEF InsertOrder, CreateOrder
    <3>3. rows["dataset_meta"] = {}
      BY <3>2, <1>0, MetaClash DEF MetaFromOneWorkbook
    <3>4. QED
      BY <3>3, <1>0 DEF MetaReserved
  <2>2. CASE writer = r
    BY <2>2, <1>0, NoRunAssumption DEF MetaReserved
  <2>3. QED
    BY <2>1, <2>2, <1>0 DEF MayWrite
<1>4. WriterInserts'
  <2> SUFFICES ASSUME NEW q \in Runs
               PROVE  writer' = q <=> pc'[q] = "commit" \/ (pc'[q] = "insert" /\ step'[q] > 1)
    BY DEF WriterInserts
  <2>1. CASE q = r
    BY <2>1, <1>0 DEF TypeOK, Idx, LastStep
  <2>2. CASE q # r
    BY <2>2, <1>0, NoRunAssumption DEF TypeOK, WriterInserts, MayWrite
  <2>3. QED
    BY <2>1, <2>2
<1>5. BookLoaded'
  BY <1>0 DEF TypeOK, BookLoaded, Active
<1>6. InsertedExist'
  <2> SUFFICES ASSUME NEW q \in Runs, NEW i \in Idx,
                      \/ pc'[q] = "insert" /\ i < step'[q]
                      \/ pc'[q] = "commit"
               PROVE  InsertOrder[i] \in schema
    BY <1>0 DEF InsertedExist
  <2>1. CASE q # r
    BY <2>1, <1>0 DEF InsertedExist, TypeOK
  <2>2. CASE q = r
    BY <2>2, <1>0 DEF InsertedExist, TypeOK, Idx, LastStep
  <2>3. QED
    BY <2>1, <2>2
<1>7. SoloProgress'
  BY <1>0 DEF TypeOK, SoloProgress, SoloAt, Active
<1>8. QED
  BY <1>1, <1>2, <1>3, <1>4, <1>5, <1>6, <1>7

\* The write lock and the primary key keep a commit from mixing meta rows.
LEMMA CommitKeepsIInv ==
  ASSUME IInv, NEW r \in Runs, Commit(r)
  PROVE  IInv'
<1> USE DEF IInv
<1>0. /\ pc[r] = "commit" /\ Active(r) /\ writer = r
      /\ book[r] \in Workbooks
      /\ schema' = schema /\ readers' = readers
      /\ rows' = [t \in Tables |-> rows[t] \cup RowsOf(book[r], t)]
      /\ End(r, "success")
  BY DEF Commit, WriterInserts, BookLoaded, Active
<1>1. TypeOK'
  <2>1. rows' \in [Tables -> SUBSET Row]
    BY <1>0, RowsOfType DEF TypeOK
  <2>2. QED
    BY <2>1, <1>0 DEF TypeOK, End, Phases, Results, LastStep
<1>2. MissingIsEmpty'
  <2>1. Tables \subseteq schema
    BY <1>0, OrderFacts DEF InsertedExist, InsertOrder
  <2>2. QED
    BY <2>1, <1>0 DEF MissingIsEmpty
<1>3. MetaFromOneWorkbook' /\ MetaReserved'
  BY <1>0, NoRunAssumption
  DEF MetaFromOneWorkbook, MetaReserved, End, Tables
<1>4. WriterInserts'
  BY <1>0, NoRunAssumption DEF TypeOK, WriterInserts, End
<1>5. BookLoaded' /\ InsertedExist' /\ SoloProgress'
  BY <1>0 DEF TypeOK, BookLoaded, InsertedExist, SoloProgress, SoloAt, Active, End
<1>6. QED
  BY <1>1, <1>2, <1>3, <1>4, <1>5
-----------------------------------------------------------------------------

\* Every step, taken together.
LEMMA NextKeepsIInv == IInv /\ [Next]_vars => IInv'
<1> SUFFICES ASSUME IInv, [Next]_vars PROVE IInv'
  OBVIOUS
<1>1. ASSUME NEW r \in Runs, Start(r) PROVE IInv'
  BY <1>1, LoadKeepsIInv, LoadFailsKeepsIInv DEF Start
<1>2. ASSUME NEW r \in Runs, Statement(r) PROVE IInv'
  <2>1. CASE Drop(r)
    BY <2>1, DropKeepsIInv
  <2>2. CASE Create(r)
    BY <2>2, CreateKeepsIInv
  <2>3. CASE Insert(r)
    BY <2>3, InsertKeepsIInv
  <2>4. CASE Commit(r)
    BY <2>4, CommitKeepsIInv
  <2>5. CASE Refused(r)
    BY <2>5, EndKeepsIInv DEF Refused, Results, Active
  <2>6. CASE Collide(r)
    BY <2>6, EndKeepsIInv DEF Collide, Results, Active
  <2>7. QED
    BY <1>2, <2>1, <2>2, <2>3, <2>4, <2>5, <2>6 DEF Statement
<1>3. ASSUME NEW r \in Runs, LockTimeout(r) PROVE IInv'
  BY <1>3, EndKeepsIInv DEF LockTimeout, Blocked, Results, Active
<1>4. ASSUME NEW r \in Runs, Crash(r) PROVE IInv'
  BY <1>4, EndKeepsIInv DEF Crash, Results
<1>5. ASSUME NEW q \in Readers, BeginRead(q) \/ EndRead(q) PROVE IInv'
  <2> USE DEF IInv, run
  <2>1. TypeOK'
    BY <1>5 DEF TypeOK, BeginRead, EndRead
  <2>2. MissingIsEmpty' /\ MetaReserved' /\ MetaFromOneWorkbook'
    BY <1>5 DEF MissingIsEmpty, MetaReserved, MetaFromOneWorkbook, BeginRead, EndRead
  <2>3. WriterInserts' /\ InsertedExist' /\ BookLoaded'
    BY <1>5 DEF WriterInserts, InsertedExist, BookLoaded, Active, BeginRead, EndRead
  <2>4. SoloProgress'
    BY <1>5 DEF SoloProgress, SoloAt, Active, BeginRead, EndRead
  <2>5. QED
    BY <2>1, <2>2, <2>3, <2>4
<1>6. CASE UNCHANGED vars
  <2> USE <1>6 DEF IInv, vars
  <2>1. TypeOK' /\ MissingIsEmpty' /\ MetaReserved' /\ MetaFromOneWorkbook'
    BY DEF TypeOK, MissingIsEmpty, MetaReserved, MetaFromOneWorkbook
  <2>2. WriterInserts' /\ InsertedExist' /\ BookLoaded' /\ SoloProgress'
    BY DEF WriterInserts, InsertedExist, BookLoaded, SoloProgress, SoloAt, Active
  <2>3. QED
    BY <2>1, <2>2
<1>7. QED
  BY <1>1, <1>2, <1>3, <1>4, <1>5, <1>6 DEF Next

\* The inductive invariant holds in every reachable state.
LEMMA Invariance == Spec => []IInv
<1>1. QED
  BY InitIInv, NextKeepsIInv, PTL DEF Spec

\* Every variable of build_database's model keeps its type, for any number of
\* runs, readers and workbooks.
THEOREM TypeCorrect == Spec => []TypeOK
<1>1. IInv => TypeOK
  BY DEF IInv
<1>2. QED
  BY <1>1, Invariance, PTL

\* get_dataset_meta reads the metadata of one workbook or none, however many
\* builds overlap: the primary key of dataset_meta, the first table inserted,
\* makes every build but one fail.
THEOREM MetaAlwaysFromOneWorkbook == Spec => []MetaFromOneWorkbook
<1>1. IInv => MetaFromOneWorkbook
  BY DEF IInv
<1>2. QED
  BY <1>1, Invariance, PTL

\* A build nobody overlaps never fails on what it finds in the file, and its
\* success makes the file exactly its workbook, whatever came before.
THEOREM SoloRebuildsExactly == Spec => SoloRebuild
<1> DEFINE Rebuilt(r) ==
      alone[r] /\ ~Active(r)' =>
         /\ result'[r] # "collision"
         /\ result'[r] = "success" =>
              \A w \in Workbooks : w = book[r] => Exact(w)'
<1>1. ASSUME IInv, Next, NEW r \in Runs, alone[r], ~Active(r)'
      PROVE  /\ result'[r] # "collision"
             /\ result'[r] = "success" =>
                  \A w \in Workbooks : w = book[r] => Exact(w)'
  <2>1. SoloAt(r) /\ TypeOK /\ InsertedExist
    BY <1>1 DEF IInv, SoloProgress
  <2>2. ASSUME NEW p \in Runs, Start(p)  PROVE FALSE
    BY <2>1, <2>2, <1>1 DEF SoloAt, Start, Load, LoadFails, Active, TypeOK
  <2>3. ASSUME NEW q \in Readers, BeginRead(q) \/ EndRead(q)  PROVE FALSE
    BY <2>1, <2>3, <1>1 DEF SoloAt, BeginRead, EndRead, run, Active
  <2>4. ASSUME NEW p \in Runs, LockTimeout(p) \/ Crash(p)
        PROVE  result'[r] \in {"locked", "crashed"}
    <3>1. p = r
      BY <2>1, <2>4 DEF SoloAt, LockTimeout, Blocked, Crash, Active
    <3>2. QED
      BY <3>1, <2>1, <2>4 DEF LockTimeout, Crash, End, TypeOK
  <2>5. ASSUME NEW p \in Runs, Statement(p)
        PROVE  /\ result'[r] # "collision"
               /\ result'[r] = "success" =>
                    \A w \in Workbooks : w = book[r] => Exact(w)'
    <3>1. p = r
      BY <2>1, <2>5 DEF SoloAt, Statement, Drop, Create, Insert, Commit, Refused, Collide, Active
    <3>2. ~Drop(r) /\ ~Create(r) /\ ~Insert(r)
      BY <2>1, <1>1 DEF SoloAt, Drop, Create, Insert, Advance, Active, TypeOK
    <3>3. ~Collide(r)
      <4>1. step[r] \in Idx
        BY <2>1 DEF TypeOK, Idx, LastStep
      <4>2. CreateOrder[step[r]] \in Tables
        BY <4>1, OrderFacts
      <4>3. QED
        BY <2>1, <4>1, <4>2 DEF SoloAt, Collide, Clash, InsertOrder, Idx, LastStep
    <3>4. CASE Refused(r)
      BY <3>4, <2>1 DEF Refused, End, TypeOK
    <3>5. CASE Commit(r)
      <4>1. result'[r] = "success"
        BY <3>5, <2>1 DEF Commit, End, TypeOK
      <4>2. schema' = Tables
        BY <3>5, <2>1 DEF Commit, SoloAt
      <4>3. \A t \in Tables : rows'[t] = RowsOf(book[r], t)
        BY <3>5, <2>1 DEF Commit, SoloAt
      <4>4. QED
        BY <4>1, <4>2, <4>3 DEF Exact
    <3>6. QED
      BY <2>5, <3>1, <3>2, <3>3, <3>4, <3>5 DEF Statement
  <2>6. QED
    BY <1>1, <2>2, <2>3, <2>4, <2>5 DEF Next
<1>2. IInv /\ [Next]_vars => [\A r \in Runs : Rebuilt(r)]_vars
  BY <1>1
<1>3. QED
  BY <1>2, Invariance, PTL DEF Spec, SoloRebuild
-----------------------------------------------------------------------------
(* Runs that overlap, at most two at a time: what BuildDb says of them with *)
(* three is refuted by TLC.                                                 *)

AtMostTwoActive ==
  \A p, q, r \in Runs : Active(p) /\ Active(q) /\ Active(r) => p = q \/ q = r \/ p = r

\* The accounts sheet of no workbook is empty.
AccountsInEveryBook == \A w \in Workbooks : Content[w]["accounts"] # {}

JobsRecorded ==
  \A r \in Runs : IF Active(r) THEN result[r] = "none" ELSE book[r] = NoBook

\* Run r has dropped every table, and has not ended.
Past(r) == pc[r] \in {"create", "insert", "commit"}

CreatedBy(r, i) == \/ pc[r] = "create" /\ i < step[r]
                   \/ pc[r] \in {"insert", "commit"}

\* Where dataset_meta is empty, so is every table an active run has created:
\* another run that filled it has dropped it before dataset_meta, or will not.
CreatedEmpty ==
  rows["dataset_meta"] = {} =>
    \A r \in Runs, i \in Idx : CreatedBy(r, i) => rows[CreateOrder[i]] = {}

\* What a run has dropped stays empty while the other run has not ended since.
DroppedEmpty ==
  \A r, s \in Runs, i \in Idx :
    /\ r # s
    /\ pc[s] = "drop" /\ i < step[s]
    /\ Past(r) \/ (pc[r] = "drop" /\ i < step[r])
    => rows[DropOrder[i]] = {}

\* A run that creates orders or tickets next to a filled dataset_meta does not
\* complete a dataset: the other run has dropped the accounts.
AccountsFirst ==
  \A r \in Runs :
    pc[r] = "create" /\ step[r] >= 3 /\ rows["dataset_meta"] # {} =>
      rows["accounts"] = {} \/ {"orders", "tickets"} \subseteq schema

\* No table holds half a sheet.
TablesWhole ==
  \A t \in Tables : rows[t] = {} \/ \E w \in Workbooks : rows[t] = RowsOf(w, t)

OInv ==
  /\ CreatedEmpty
  /\ DroppedEmpty
  /\ AccountsFirst
  /\ JobsRecorded
  /\ NoMixing
  /\ TablesWhole

-----------------------------------------------------------------------------

\* Nothing is dropped, created or loaded yet.
LEMMA InitOInv == Init => OInv
BY DEF Init, OInv, CreatedEmpty, CreatedBy, DroppedEmpty, AccountsFirst,
       JobsRecorded, NoMixing, TablesWhole, Active, Tables

\* dataset_meta has rows in every workbook.
LEMMA MetaNonempty ==
  ASSUME NEW w
  PROVE  RowsOf(w, "dataset_meta") # {}
BY DEF RowsOf, MetaKeys

\* A run that starts has dropped and created nothing.
LEMMA LoadKeepsOInv ==
  ASSUME IInv, OInv, NEW r \in Runs, NEW w \in Workbooks, Load(r, w)
  PROVE  OInv'
<1>0. /\ pc' = [pc EXCEPT ![r] = "drop"] /\ step' = [step EXCEPT ![r] = 1]
      /\ schema' = schema /\ rows' = rows
      /\ \A q \in Runs \ {r} : pc'[q] = pc[q] /\ step'[q] = step[q] /\ book'[q] = book[q] /\ result'[q] = result[q]
      /\ pc'[r] = "drop" /\ step'[r] = 1 /\ result'[r] = "none"
  BY DEF Load, IInv, TypeOK
<1>1. CreatedEmpty' /\ AccountsFirst'
  BY <1>0 DEF OInv, CreatedEmpty, CreatedBy, AccountsFirst
<1>2. DroppedEmpty'
  BY <1>0 DEF OInv, DroppedEmpty, Past, Idx, LastStep
<1>3. JobsRecorded'
  BY <1>0 DEF OInv, JobsRecorded, Active
<1>4. NoMixing' /\ TablesWhole'
  BY <1>0 DEF OInv, NoMixing, TablesWhole
<1>5. QED
  BY <1>1, <1>2, <1>3, <1>4 DEF OInv

\* A run that ends without committing leaves the tables as they are.
LEMMA EndKeepsOInv ==
  ASSUME IInv, OInv, NEW r \in Runs, NEW how, End(r, how), UNCHANGED <<schema, rows, readers>>
  PROVE  OInv'
<1>0. /\ schema' = schema /\ rows' = rows
      /\ \A q \in Runs \ {r} : pc'[q] = pc[q] /\ step'[q] = step[q] /\ book'[q] = book[q] /\ result'[q] = result[q]
      /\ pc'[r] = "idle" /\ book'[r] = NoBook
  BY DEF End, IInv, TypeOK
<1>1. CreatedEmpty' /\ AccountsFirst'
  BY <1>0 DEF OInv, CreatedEmpty, CreatedBy, AccountsFirst
<1>2. DroppedEmpty'
  BY <1>0 DEF OInv, DroppedEmpty, Past
<1>3. JobsRecorded'
  BY <1>0 DEF OInv, JobsRecorded, Active
<1>4. NoMixing' /\ TablesWhole'
  BY <1>0 DEF OInv, NoMixing, TablesWhole
<1>5. QED
  BY <1>1, <1>2, <1>3, <1>4 DEF OInv

\* dataset_meta is dropped last: when it goes, everything is empty for a run
\* that is already creating.
LEMMA DropKeepsOInv ==
  ASSUME IInv, OInv, AtMostTwoActive, NEW r \in Runs, Drop(r)
  PROVE  OInv'
<1> DEFINE t == DropOrder[step[r]]
<1>0. /\ step[r] \in Idx
      /\ t \in Tables
      /\ pc[r] = "drop"
      /\ schema' = schema \ {t}
      /\ rows \in [Tables -> SUBSET Row]
      /\ rows' = [rows EXCEPT ![t] = {}]
      /\ pc'[r] = IF step[r] = 4 THEN "create" ELSE "drop"
      /\ step'[r] = IF step[r] = 4 THEN 1 ELSE step[r] + 1
      /\ \A q \in Runs \ {r} : pc'[q] = pc[q] /\ step'[q] = step[q]
      /\ book' = book /\ result' = result
  BY OrderFacts DEF IInv, Drop, Advance, TypeOK, Idx, LastStep
<1>1. \A u \in Tables : rows[u] = {} => rows'[u] = {}
  BY <1>0
<1>2. \A u \in Tables : rows'[u] = {} \/ rows'[u] = rows[u]
  BY <1>0
<1>3. rows'[t] = {}
  BY <1>0
<1>4. t = "dataset_meta" => step[r] = 4
  <2>1. "dataset_meta" = DropOrder[4]
    BY DEF DropOrder
  <2>2. QED
    BY <2>1, <1>0, OrderFacts DEF Idx, LastStep
<1>5. DropOrder[1] = "accounts" /\ "dataset_meta" \in Tables /\ "accounts" \in Tables
  BY DEF DropOrder, Tables, DataTables
<1> HIDE DEF t
<1>6. CreatedEmpty'
  <2> SUFFICES ASSUME rows'["dataset_meta"] = {}, NEW q \in Runs, NEW i \in Idx, CreatedBy(q, i)'
               PROVE  rows'[CreateOrder[i]] = {}
    BY DEF CreatedEmpty
  <2>1. q # r /\ CreatedBy(q, i) /\ Past(q)
    BY <1>0 DEF CreatedBy, Past, Idx, LastStep
  <2>2. CASE rows["dataset_meta"] = {}
    BY <2>1, <2>2, <1>1, OrderFacts DEF OInv, CreatedEmpty
  <2>3. CASE rows["dataset_meta"] # {}
    <3>1. step[r] = 4 /\ t = "dataset_meta"
      BY <2>3, <1>4, <1>5, <1>0
    <3>2. \A j \in Idx : j < 4 => rows[DropOrder[j]] = {}
      BY <3>1, <2>1, <1>0 DEF OInv, DroppedEmpty
    <3>3. \A j \in Idx : j = 4 => DropOrder[j] = t
      BY <3>1 DEF DropOrder
    <3>4. \A j \in Idx : rows'[DropOrder[j]] = {}
      BY <3>2, <3>3, <1>1, <1>3, OrderFacts DEF Idx, LastStep
    <3>5. QED
      BY <3>4, OrderFacts
  <2>4. QED
    BY <2>2, <2>3
<1>7. DroppedEmpty'
  <2> SUFFICES ASSUME NEW q \in Runs, NEW s \in Runs, NEW i \in Idx, q # s,
                      pc'[s] = "drop", i < step'[s],
                      Past(q)' \/ (pc'[q] = "drop" /\ i < step'[q])
               PROVE  rows'[DropOrder[i]] = {}
    BY DEF DroppedEmpty
  <2>1. CASE rows[DropOrder[i]] = {}
    BY <2>1, <1>1, OrderFacts
  <2>2. CASE DropOrder[i] = t
    BY <2>2, <1>3
  <2>3. CASE rows[DropOrder[i]] # {} /\ DropOrder[i] # t
    <3>1. i # step[r]
      BY <2>3 DEF t
    <3>2. CASE s = r
      BY <3>1, <3>2, <2>3, <1>0 DEF OInv, DroppedEmpty, Past, Idx, LastStep
    <3>3. CASE q = r
      BY <3>1, <3>3, <2>3, <1>0 DEF OInv, DroppedEmpty, Past, Idx, LastStep
    <3>4. CASE s # r /\ q # r
      BY <3>4, <2>3, <1>0 DEF OInv, DroppedEmpty, Past
    <3>5. QED
      BY <3>2, <3>3, <3>4
  <2>4. QED
    BY <2>1, <2>2, <2>3
<1>8. AccountsFirst'
  <2> SUFFICES ASSUME NEW q \in Runs, pc'[q] = "create", step'[q] >= 3,
                      rows'["dataset_meta"] # {}
               PROVE  rows'["accounts"] = {} \/ {"orders", "tickets"} \subseteq schema'
    BY DEF AccountsFirst
  <2>1. q # r /\ pc[q] = "create" /\ step[q] >= 3
    BY <1>0
  <2>2. rows["dataset_meta"] # {}
    BY <1>1, <1>5
  <2>3. CASE rows["accounts"] = {}
    BY <2>3, <1>1, <1>5
  <2>4. CASE step[r] = 1
    BY <2>4, <1>3, <1>5 DEF t
  <2>5. CASE step[r] > 1
    BY <2>5, <2>1, <1>0, <1>1, <1>5 DEF OInv, DroppedEmpty, Past, Idx, LastStep
  <2>6. QED
    BY <2>4, <2>5, <1>0 DEF Idx, LastStep
<1>9. JobsRecorded'
  BY <1>0 DEF OInv, JobsRecorded, Active
<1>10. NoMixing' /\ TablesWhole'
  BY <1>2 DEF OInv, NoMixing, TablesWhole
<1>11. QED
  BY <1>6, <1>7, <1>8, <1>9, <1>10 DEF OInv

\* A table is created empty.
LEMMA CreateKeepsOInv ==
  ASSUME IInv, OInv, NEW r \in Runs, Create(r)
  PROVE  OInv'
<1> DEFINE t == CreateOrder[step[r]]
<1>0. /\ step[r] \in Idx
      /\ t \in Tables
      /\ t \notin schema
      /\ pc[r] = "create"
      /\ schema' = schema \cup {t}
      /\ rows \in [Tables -> SUBSET Row]
      /\ rows[t] = {} /\ rows' = rows
      /\ pc'[r] = IF step[r] = 4 THEN "insert" ELSE "create"
      /\ step'[r] = IF step[r] = 4 THEN 1 ELSE step[r] + 1
      /\ \A q \in Runs \ {r} : pc'[q] = pc[q] /\ step'[q] = step[q]
      /\ book' = book /\ result' = result
  BY OrderFacts DEF IInv, MissingIsEmpty, Create, Advance, TypeOK, Idx, LastStep
<1>1. CreatedEmpty'
  <2> SUFFICES ASSUME rows["dataset_meta"] = {}, NEW q \in Runs, NEW i \in Idx, CreatedBy(q, i)'
               PROVE  rows[CreateOrder[i]] = {}
    BY <1>0 DEF CreatedEmpty
  <2>1. CASE q = r /\ i = step[r]
    BY <2>1, <1>0
  <2>2. CASE q # r \/ i # step[r]
    <3>1. CreatedBy(q, i)
      BY <2>2, <1>0 DEF CreatedBy, Idx, LastStep
    <3>2. QED
      BY <3>1 DEF OInv, CreatedEmpty
  <2>3. QED
    BY <2>1, <2>2
<1>2. DroppedEmpty'
  BY <1>0 DEF OInv, DroppedEmpty, Past
<1>3. AccountsFirst'
  <2> SUFFICES ASSUME NEW q \in Runs, pc'[q] = "create", step'[q] >= 3,
                      rows["dataset_meta"] # {}
               PROVE  rows["accounts"] = {} \/ {"orders", "tickets"} \subseteq schema'
    BY <1>0 DEF AccountsFirst
  <2>1. CASE pc[q] = "create" /\ step[q] >= 3
    BY <2>1, <1>0 DEF OInv, AccountsFirst
  <2>2. CASE ~(pc[q] = "create" /\ step[q] >= 3)
    <3>1. q = r /\ step[r] = 2
      BY <2>2, <1>0 DEF Idx, LastStep
    <3>2. t = "accounts"
      BY <3>1 DEF CreateOrder
    <3>3. QED
      BY <3>2, <1>0
  <2>3. QED
    BY <2>1, <2>2
<1>4. JobsRecorded'
  BY <1>0 DEF OInv, JobsRecorded, Active
<1>5. NoMixing' /\ TablesWhole'
  BY <1>0 DEF OInv, NoMixing, TablesWhole
<1>6. QED
  BY <1>1, <1>2, <1>3, <1>4, <1>5 DEF OInv

\* Uncommitted rows are nobody's.
LEMMA InsertKeepsOInv ==
  ASSUME IInv, OInv, NEW r \in Runs, Insert(r)
  PROVE  OInv'
<1>0. /\ pc[r] = "insert" /\ pc'[r] \in {"insert", "commit"}
      /\ schema' = schema /\ rows' = rows /\ book' = book /\ result' = result
      /\ \A q \in Runs \ {r} : pc'[q] = pc[q] /\ step'[q] = step[q]
  BY DEF IInv, Insert, Advance, TypeOK
<1>1. CreatedEmpty' /\ AccountsFirst'
  BY <1>0 DEF OInv, CreatedEmpty, CreatedBy, AccountsFirst
<1>2. DroppedEmpty'
  BY <1>0 DEF OInv, DroppedEmpty, Past
<1>3. JobsRecorded'
  BY <1>0 DEF OInv, JobsRecorded, Active
<1>4. NoMixing' /\ TablesWhole'
  BY <1>0 DEF OInv, NoMixing, TablesWhole
<1>5. QED
  BY <1>1, <1>2, <1>3, <1>4 DEF OInv

\* A run that commits finds every table empty, and leaves its workbook.
LEMMA CommitIsExact ==
  ASSUME IInv, OInv, NEW r \in Runs, Commit(r)
  PROVE  /\ \A t \in Tables : rows[t] = {}
         /\ \A t \in Tables : rows'[t] = RowsOf(book[r], t)
         /\ schema = Tables /\ schema' = Tables
<1>1. writer = r /\ pc[r] = "commit"
  BY DEF Commit, IInv, WriterInserts
<1>2. rows["dataset_meta"] = {}
  BY <1>1, NoRunAssumption DEF IInv, MetaReserved
<1>3. \A i \in Idx : rows[CreateOrder[i]] = {} /\ CreateOrder[i] \in schema
  BY <1>1, <1>2 DEF OInv, CreatedEmpty, CreatedBy, IInv, InsertedExist, InsertOrder
<1>4. ASSUME NEW t \in Tables PROVE rows[t] = {} /\ t \in schema
  <2>1. PICK i \in Idx : CreateOrder[i] = t
    BY OrderFacts
  <2>2. QED
    BY <2>1, <1>3
<1>5. \A t \in Tables : rows'[t] = RowsOf(book[r], t)
  BY <1>4 DEF Commit
<1>6. schema = Tables /\ schema' = Tables
  BY <1>4 DEF Commit, IInv, TypeOK
<1>7. QED
  BY <1>4, <1>5, <1>6

\* The committed rows of the four tables are those of one workbook.
LEMMA CommitKeepsOInv ==
  ASSUME IInv, OInv, AtMostTwoActive, NEW r \in Runs, Commit(r)
  PROVE  OInv'
<1>0. /\ schema' = schema
      /\ \A q \in Runs \ {r} : pc'[q] = pc[q] /\ step'[q] = step[q] /\ book'[q] = book[q] /\ result'[q] = result[q]
      /\ pc[r] = "commit" /\ pc'[r] = "idle" /\ book'[r] = NoBook
      /\ Tables \subseteq schema
      /\ \A t \in Tables : rows'[t] = RowsOf(book[r], t)
  BY CommitIsExact DEF Commit, End, IInv, TypeOK
<1>1. rows'["dataset_meta"] # {}
  BY <1>0, MetaNonempty DEF Tables
<1>2. CreatedEmpty' /\ AccountsFirst'
  BY <1>0, <1>1 DEF CreatedEmpty, AccountsFirst, Tables, DataTables
<1>3. DroppedEmpty'
  <2> SUFFICES ASSUME NEW q \in Runs, NEW s \in Runs, q # s, pc'[s] = "drop",
                      Past(q)' \/ pc'[q] = "drop"
               PROVE  FALSE
    BY DEF DroppedEmpty
  <2>1. q # r /\ s # r
    BY <1>0 DEF Past
  <2>2. Active(q) /\ Active(s) /\ Active(r)
    BY <2>1, <1>0 DEF Active, Past
  <2>3. QED
    BY <2>1, <2>2 DEF AtMostTwoActive
<1>4. JobsRecorded'
  BY <1>0 DEF OInv, JobsRecorded, Active
<1>5. NoMixing' /\ TablesWhole'
  <2>1. NoMixing'
    BY <1>0 DEF NoMixing, RowsOf
  <2>2. TablesWhole'
    BY <1>0 DEF TablesWhole, IInv, BookLoaded, Active
  <2>3. QED
    BY <2>1, <2>2
<1>6. QED
  BY <1>2, <1>3, <1>4, <1>5 DEF OInv

-----------------------------------------------------------------------------

\* Every step, while at most two runs are active.
LEMMA NextKeepsOInv == IInv /\ OInv /\ AtMostTwoActive /\ [Next]_vars => OInv'
<1> SUFFICES ASSUME IInv, OInv, AtMostTwoActive, [Next]_vars PROVE OInv'
  OBVIOUS
<1>1. ASSUME NEW r \in Runs, NEW w \in Workbooks, LoadFails(r, w) PROVE OInv'
  BY <1>1 DEF LoadFails, OInv, CreatedEmpty, CreatedBy, DroppedEmpty, Past, AccountsFirst,
              JobsRecorded, NoMixing, TablesWhole, Active, IInv, TypeOK
<1>2. ASSUME UNCHANGED <<schema, rows, pc, step, book, result>> PROVE OInv'
  BY <1>2 DEF OInv, CreatedEmpty, CreatedBy, DroppedEmpty, Past, AccountsFirst,
              JobsRecorded, NoMixing, TablesWhole, Active
<1>3. ASSUME NEW r \in Runs, Start(r) PROVE OInv'
  BY <1>1, <1>3, LoadKeepsOInv DEF Start
<1>4. ASSUME NEW r \in Runs, Statement(r) PROVE OInv'
  BY <1>4, DropKeepsOInv, CreateKeepsOInv, InsertKeepsOInv, CommitKeepsOInv, EndKeepsOInv
  DEF Statement, Refused, Collide
<1>5. ASSUME NEW r \in Runs, LockTimeout(r) \/ Crash(r) PROVE OInv'
  BY <1>5, EndKeepsOInv DEF LockTimeout, Crash
<1>6. ASSUME NEW q \in Readers, BeginRead(q) \/ EndRead(q) PROVE OInv'
  BY <1>2, <1>6 DEF BeginRead, EndRead, run
<1>7. QED
  BY <1>2, <1>3, <1>4, <1>5, <1>6 DEF Next, vars

\* What holds of all overlaps of at most two runs.
LEMMA OverlapInvariance == Spec /\ []AtMostTwoActive => []OInv
<1>1. QED
  BY InitOInv, NextKeepsOInv, Invariance, PTL DEF Spec

\* While at most two runs overlap, the committed rows of the four tables are
\* those of one workbook: no leftovers, whatever failed or crashed before.
THEOREM TwoRunsNeverMix == Spec /\ []AtMostTwoActive => []NoMixing
<1>1. OInv => NoMixing
  BY DEF OInv
<1>2. QED
  BY <1>1, OverlapInvariance, PTL

\* While at most two runs overlap, a run that reports success has made the
\* file exactly its workbook; of three, TLC finds one that has not.
THEOREM TwoRunsSuccessIsExact == Spec /\ []AtMostTwoActive => SuccessIsExact
<1> DEFINE Done(r) ==
      Active(r) /\ result'[r] = "success" =>
        \A w \in Workbooks : w = book[r] => Exact(w)'
<1>1. ASSUME IInv, OInv, Next, NEW r \in Runs
      PROVE  Done(r)
  <2>0. TypeOK /\ (Active(r) => result[r] = "none")
    BY <1>1 DEF IInv, OInv, JobsRecorded
  <2>1. CASE Commit(r)
    BY <2>1, <1>1, CommitIsExact DEF Exact
  <2>2. ASSUME NEW p \in Runs, NEW how \in Results, End(p, how), how # "success" \/ p # r
        PROVE  Done(r)
    BY <2>0, <2>2 DEF End, TypeOK
  <2>3. ASSUME NEW p \in Runs, Start(p)
        PROVE  Done(r)
    BY <2>0, <2>3 DEF Start, Load, LoadFails, TypeOK
  <2>4. ASSUME NEW p \in Runs, LockTimeout(p) \/ Crash(p) \/ Refused(p) \/ Collide(p)
        PROVE  Done(r)
    BY <2>2, <2>4 DEF LockTimeout, Crash, Refused, Collide, Results
  <2>5. ASSUME NEW p \in Runs, Drop(p) \/ Create(p) \/ Insert(p)
        PROVE  Done(r)
    BY <2>0, <2>5 DEF Drop, Create, Insert, Advance
  <2>6. ASSUME NEW p \in Runs, Commit(p), p # r
        PROVE  Done(r)
    BY <2>2, <2>6 DEF Commit, Results
  <2>7. ASSUME NEW q \in Readers, BeginRead(q) \/ EndRead(q)
        PROVE  Done(r)
    BY <2>0, <2>7 DEF BeginRead, EndRead, run
  <2> HIDE DEF Done
  <2>8. QED
    BY <1>1, <2>1, <2>3, <2>4, <2>5, <2>6, <2>7 DEF Next, Statement
<1>2. IInv /\ OInv /\ [Next]_vars => [\A r \in Runs : Done(r)]_vars
  BY <1>1
<1>3. QED
  BY <1>2, Invariance, OverlapInvariance, PTL DEF Spec, SuccessIsExact

-----------------------------------------------------------------------------
(* BuildDb implements Rebuild while at most two runs overlap. *)

\* The metadata tells one workbook from another.
LEMMA MetaTells ==
  ASSUME NEW v \in Workbooks, NEW w \in Workbooks,
         RowsOf(v, "dataset_meta") = RowsOf(w, "dataset_meta")
  PROVE  v = w
<1>1. [key |-> "currency", from |-> v] \in RowsOf(v, "dataset_meta")
  BY DEF RowsOf, MetaKeys
<1>2. PICK k \in MetaKeys : [key |-> "currency", from |-> v] = [key |-> k, from |-> w]
  BY <1>1 DEF RowsOf
<1>3. QED
  BY <1>2

\* An incomplete file is nobody's dataset.
LEMMA ServedWhenNot ==
  ASSUME ~Built
  PROVE  Served = NoBook
BY DEF Served

\* A Create completes no dataset.
LEMMA CreateServesNothing ==
  ASSUME IInv, OInv, AccountsInEveryBook, NEW r \in Runs, Create(r)
  PROVE  ~Built /\ ~Built'
<1> DEFINE t == CreateOrder[step[r]]
<1>0. /\ step[r] \in Idx /\ t \in Tables /\ t \notin schema
      /\ pc[r] = "create" /\ schema' = schema \cup {t}
      /\ rows[t] = {} /\ rows' = rows
  BY OrderFacts DEF IInv, MissingIsEmpty, Create, TypeOK, Idx, LastStep
<1>1. ~Built
  BY <1>0 DEF Built, Exact
<1>2. ASSUME NEW w \in Workbooks, Exact(w)' PROVE FALSE
  <2>1. /\ schema \cup {t} = Tables
        /\ \A u \in Tables : rows[u] = RowsOf(w, u)
    BY <1>2, <1>0 DEF Exact
  <2>2. rows["dataset_meta"] # {}
    BY <2>1, MetaNonempty DEF Tables
  <2>3. rows["accounts"] # {}
    <3>1. PICK k : k \in Content[w]["accounts"]
      BY DEF AccountsInEveryBook
    <3>2. [key |-> k, from |-> w] \in RowsOf(w, "accounts")
      BY <3>1 DEF RowsOf
    <3>3. QED
      BY <3>2, <2>1 DEF Tables, DataTables
  <2>4. step[r] >= 3 /\ t \in {"orders", "tickets"}
    BY <1>0, <2>2, <2>3 DEF CreateOrder, Idx, LastStep
  <2>5. QED
    BY <2>2, <2>3, <2>4, <1>0 DEF OInv, AccountsFirst
<1>3. QED
  BY <1>1, <1>2, <1>0 DEF Built

\* A file that does not exist is no dataset.
LEMMA InitRefines == Init => Promise!Init
BY DEF Init, Promise!Init, Served, Built, Exact, Tables

\* Each step of build_database is a step of Rebuild, or changes neither what
\* the file is nor who is working on it.
LEMMA StepRefines ==
  ASSUME IInv, OInv, [Next]_vars,
         \A r \in Runs : Create(r) => ~Built /\ ~Built'
  PROVE  [Promise!Next]_<<Served, book>>
<1>0. book \in [Runs -> Workbooks \cup {NoBook}] /\ rows \in [Tables -> SUBSET Row]
  BY DEF IInv, TypeOK
<1>1. UNCHANGED <<schema, rows>> => UNCHANGED Served
  BY DEF Served, Built, Exact
<1>2. ASSUME NEW r \in Runs, Active(r)
      PROVE  book[r] \in Workbooks /\ book[r] # NoBook
  BY <1>2, NoBookAssumption DEF IInv, BookLoaded
<1>3. ASSUME NEW r \in Runs, Active(r), NEW how, End(r, how), UNCHANGED <<schema, rows>>
      PROVE  Promise!GiveUp(r)
  BY <1>1, <1>2, <1>3 DEF End, Promise!GiveUp
<1>4. ASSUME NEW r \in Runs, NEW w \in Workbooks, Load(r, w)
      PROVE  Promise!Begin(r, w)
  BY <1>1, <1>4 DEF Load, Promise!Begin, OInv, JobsRecorded
<1>5. ASSUME NEW r \in Runs, Drop(r)
      PROVE  Promise!Withdraw(r)
  <2>1. DropOrder[step[r]] \in Tables \ schema'
    BY <1>5, OrderFacts DEF Drop, IInv, TypeOK, Idx, LastStep
  <2>2. ~Built'
    BY <2>1 DEF Built, Exact
  <2>3. Served' = NoBook
    BY <2>2 DEF Served
  <2>4. QED
    BY <2>3, <1>2, <1>5 DEF Drop, Advance, Active, Promise!Withdraw
<1>6. ASSUME NEW r \in Runs, Create(r)
      PROVE  UNCHANGED <<Served, book>>
  BY <1>6 DEF Served, Create, Advance
<1>7. ASSUME NEW r \in Runs, Commit(r)
      PROVE  Promise!Publish(r)
  <2>1. pc[r] = "commit" /\ book[r] \in Workbooks /\ book[r] # NoBook
    BY <1>7, <1>2 DEF Commit, Active
  <2>2. /\ rows["dataset_meta"] = {}
        /\ schema' = Tables
        /\ \A t \in Tables : rows'[t] = RowsOf(book[r], t)
    BY <1>7, CommitIsExact DEF Tables
  <2>3. ~Built
    BY <2>2, MetaNonempty DEF Built, Exact, Tables
  <2>4. ASSUME NEW w \in Workbooks, w = book[r] PROVE Served' = w
    <3>1. Exact(w)'
      BY <2>2, <2>4 DEF Exact
    <3>2. \A v \in Workbooks : Exact(v)' => v = w
      BY <3>1, MetaTells DEF Exact, Tables
    <3>3. QED
      BY <3>1, <3>2 DEF Served, Built
  <2>5. QED
    BY <2>1, <2>3, <2>4, ServedWhenNot, <1>7 DEF Commit, End, Promise!Publish
<1>8. ASSUME NEW r \in Runs, Statement(r)
      PROVE  [Promise!Next]_<<Served, book>>
  <2>1. CASE Insert(r)
    BY <2>1, <1>1 DEF Insert, Advance
  <2>2. CASE Refused(r) \/ Collide(r)
    BY <2>2, <1>3 DEF Refused, Collide, Active, Promise!Next
  <2>3. QED
    BY <1>8, <2>1, <2>2, <1>5, <1>6, <1>7 DEF Statement, Promise!Next
<1>9. ASSUME NEW r \in Runs, LockTimeout(r) \/ Crash(r)
      PROVE  [Promise!Next]_<<Served, book>>
  BY <1>9, <1>3 DEF LockTimeout, Blocked, Crash, Active, Promise!Next
<1>10. ASSUME NEW r \in Runs, Start(r)
       PROVE  [Promise!Next]_<<Served, book>>
  BY <1>10, <1>4, <1>1 DEF Start, LoadFails, Promise!Next
<1>11. ASSUME NEW q \in Readers, BeginRead(q) \/ EndRead(q)
       PROVE  UNCHANGED <<Served, book>>
  BY <1>11, <1>1 DEF BeginRead, EndRead, run
<1>12. CASE UNCHANGED vars
  BY <1>12, <1>1 DEF vars
<1>13. QED
  BY <1>8, <1>9, <1>10, <1>11, <1>12 DEF Next

\* While at most two runs overlap, and no workbook comes without accounts,
\* the file goes from one whole dataset to none to another, and only a run
\* that succeeds publishes.
THEOREM TwoRunsPublishWholeWorkbooks ==
  ASSUME AccountsInEveryBook
  PROVE  Spec /\ []AtMostTwoActive => PublishesWholeWorkbooks
<1>1. IInv /\ OInv /\ [Next]_vars => [Promise!Next]_<<Served, book>>
  BY StepRefines, CreateServesNothing
<1>2. QED
  BY <1>1, InitRefines, Invariance, OverlapInvariance, PTL
  DEF Spec, PublishesWholeWorkbooks, Promise!Spec

-----------------------------------------------------------------------------
(* A run ends: what can be proved of RunsEnd is that it has a measure. *)

\* How many statements r may still execute.
Left(r) ==
  CASE pc[r] = "drop"   -> 14 - step[r]
    [] pc[r] = "create" -> 10 - step[r]
    [] pc[r] = "insert" -> 6 - step[r]
    [] pc[r] = "commit" -> 1
    [] pc[r] = "idle"   -> 0

LEMMA LeftIsNat ==
  ASSUME TypeOK, NEW r \in Runs
  PROVE  Left(r) \in 0..13 /\ (Left(r) = 0 <=> ~Active(r))
<1>1. pc[r] \in Phases /\ step[r] \in 1..4
  BY DEF TypeOK, LastStep
<1> QED
  BY <1>1 DEF Left, Active, Phases

\* A run that has ended has nothing left.
LEMMA EndLeavesNothing ==
  ASSUME TypeOK, NEW r \in Runs, Active(r), NEW how, End(r, how)
  PROVE  /\ Left(r)' < Left(r)
         /\ \A q \in Runs : q # r => Left(q)' = Left(q)
<1>1. pc'[r] = "idle" /\ \A q \in Runs : q # r => pc'[q] = pc[q] /\ step'[q] = step[q]
  BY DEF End, TypeOK
<1>2. Left(r)' = 0 /\ \A q \in Runs : q # r => Left(q)' = Left(q)
  BY <1>1 DEF Left
<1> QED
  BY <1>2, LeftIsNat

LEMMA AdvanceLeavesLess ==
  ASSUME TypeOK, NEW r \in Runs, NEW next, Advance(r, next),
         <<pc[r], next>> \in {<<"drop", "create">>, <<"create", "insert">>, <<"insert", "commit">>}
  PROVE  /\ Left(r)' < Left(r)
         /\ \A q \in Runs : q # r => Left(q)' = Left(q)
<1>1. /\ step[r] \in 1..4
      /\ pc'[r] = IF step[r] = 4 THEN next ELSE pc[r]
      /\ step'[r] = IF step[r] = 4 THEN 1 ELSE step[r] + 1
      /\ \A q \in Runs : q # r => pc'[q] = pc[q] /\ step'[q] = step[q]
  BY DEF Advance, TypeOK, LastStep
<1>2. \A q \in Runs : q # r => Left(q)' = Left(q)
  BY <1>1 DEF Left
<1>3. Left(r)' < Left(r)
  BY <1>1 DEF Left
<1> QED
  BY <1>2, <1>3

\* Every statement, also one that raises or times out, brings its run nearer
\* to its end, at most thirteen statements away; the other runs and the
\* readers never send it back.
THEOREM StatementsRunOut ==
  Spec => /\ [](\A r \in Runs : Left(r) \in 0..13 /\ (Left(r) = 0 <=> ~Active(r)))
          /\ [][\A r \in Runs :
                  /\ Statement(r) \/ LockTimeout(r) \/ Crash(r) => Left(r)' < Left(r)
                  /\ Active(r) => Left(r)' <= Left(r)]_vars
<1> DEFINE Shorter(r) ==
             /\ Statement(r) \/ LockTimeout(r) \/ Crash(r) => Left(r)' < Left(r)
             /\ Active(r) => Left(r)' <= Left(r)
<1>1. (TypeOK => \A r \in Runs : Left(r) \in 0..13)'
  <2>1. TypeOK => \A r \in Runs : Left(r) \in 0..13
    BY LeftIsNat
  <2> QED
    BY <2>1, PTL
<1>2. ASSUME IInv, Next PROVE \A r \in Runs : Shorter(r)
  <2>0. TypeOK /\ TypeOK'
    BY <1>2, NextKeepsIInv DEF IInv
  <2>1. ASSUME NEW p \in Runs, Statement(p) \/ LockTimeout(p) \/ Crash(p)
        PROVE  /\ Left(p)' < Left(p)
               /\ \A q \in Runs : q # p => Left(q)' = Left(q)
    <3>1. CASE Drop(p) \/ Create(p) \/ Insert(p)
      BY <2>0, <3>1, AdvanceLeavesLess DEF Drop, Create, Insert
    <3>2. CASE Commit(p) \/ Refused(p) \/ Collide(p) \/ LockTimeout(p) \/ Crash(p)
      BY <2>0, <3>2, EndLeavesNothing DEF Commit, Refused, Collide, LockTimeout, Blocked, Crash, Active
    <3> QED
      BY <2>1, <3>1, <3>2 DEF Statement
  <2>2. \A r \in Runs : Left(r) \in 0..13 /\ Left(r)' \in 0..13
    BY <1>1, <2>0, LeftIsNat
  <2>3. ASSUME NEW r \in Runs, Active(r) PROVE Left(r)' <= Left(r)
    <3>1. ASSUME NEW p \in Runs, Start(p) PROVE Left(r)' = Left(r)
      BY <2>0, <2>3, <3>1 DEF Start, Load, LoadFails, Active, Left, TypeOK
    <3>2. ASSUME NEW q \in Readers, BeginRead(q) \/ EndRead(q) PROVE Left(r)' = Left(r)
      BY <3>2 DEF BeginRead, EndRead, run, Left
    <3>3. ASSUME NEW p \in Runs, Statement(p) \/ LockTimeout(p) \/ Crash(p)
          PROVE  Left(r)' = Left(r) \/ Left(r)' < Left(r)
      BY <2>1, <3>3
    <3>4. Left(r)' = Left(r) \/ Left(r)' < Left(r)
      BY <1>2, <3>1, <3>2, <3>3 DEF Next
    <3> QED
      BY <2>2, <3>4
  <2> QED
    BY <2>1, <2>3
<1>3. IInv /\ [Next]_vars => [\A r \in Runs : Shorter(r)]_vars
  BY <1>2
<1>4. IInv => \A r \in Runs : Left(r) \in 0..13 /\ (Left(r) = 0 <=> ~Active(r))
  BY LeftIsNat DEF IInv
<1> QED
  BY <1>3, <1>4, Invariance, PTL DEF Spec
=============================================================================
