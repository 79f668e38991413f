------------------------------ MODULE BuildDb ------------------------------
(***************************************************************************)
(* Rebuilding the structured tables of var/app.db from a workbook:         *)
(* build_database() of src/backend/ingestion/build_db.py, as any number of *)
(* invocations ("runs") over one SQLite file, with readers of the file.    *)
(*                                                                         *)
(* One run is: load the whole workbook; execute the script _SCHEMA, eight  *)
(* DDL statements, each of which SQLite commits on its own because         *)
(* executescript() leaves the connection in autocommit mode; insert the    *)
(* four tables in one transaction, which the first INSERT opens; commit.   *)
(* A statement that raises ends the run through `finally: conn.close()`,   *)
(* which rolls back the open transaction and nothing else.                 *)
(*                                                                         *)
(* SQLite's locks (rollback journal, python's default timeout) are modelled*)
(* by what the code can observe: at most one connection has a transaction  *)
(* with writes (`writer`), another writer waits for it, and nothing is     *)
(* committed while a SELECT is open (`readers`); a wait may end in the     *)
(* exception "database is locked".                                         *)
(***************************************************************************)
EXTENDS Naturals, Sequences

CONSTANTS
  Workbooks,   \* the workbooks a run may be given
  Keys,        \* primary keys of accounts, orders and tickets
  Content,     \* Content[w][t]: the keys of sheet t of workbook w
  Defect,      \* Defect[w]: where w is unusable, see Defects
  Runs,        \* invocations of build_database
  Readers,     \* connections opened by backend/db/connection.py
  NoBook,      \* no workbook
  NoRun        \* no run

DataTables == {"accounts", "orders", "tickets"}
Tables     == DataTables \cup {"dataset_meta"}

\* "load": the workbook does not load (no such sheet, no snapshot row, a
\* ragged row).  A table: some row of that sheet is refused (no such column,
\* a malformed timestamp, NULL in a NOT NULL column, a repeated key).
Defects == {"none", "load"} \cup DataTables

ASSUME ContentAssumption == Content \in [Workbooks -> [DataTables -> SUBSET Keys]]
ASSUME DefectAssumption  == Defect \in [Workbooks -> Defects]
ASSUME NoBookAssumption  == NoBook \notin Workbooks
ASSUME NoRunAssumption   == NoRun \notin Runs

MetaKeys == {"snapshot_time", "currency", "notes", "important", "source_workbook"}

\* A row is its primary key and the workbook its other columns come from.
Row == [key : Keys \cup MetaKeys, from : Workbooks]

RowsOf(w, t) ==
  {[key |-> k, from |-> w] :
     k \in IF t = "dataset_meta" THEN MetaKeys ELSE Content[w][t]}

\* Mutant: the script forgets to drop dataset_meta.
DropOrderWithoutMeta == <<"accounts", "orders", "tickets", "tickets">>

DropOrder   == <<"accounts", "orders", "tickets", "dataset_meta">>
CreateOrder == <<"dataset_meta", "accounts", "orders", "tickets">>
InsertOrder == CreateOrder
LastStep    == 4

VARIABLES
  schema,    \* the tables that exist in the file
  rows,      \* rows[t]: the committed rows of t
  writer,    \* the run whose transaction holds uncommitted rows, or NoRun
  readers,   \* the readers with an open SELECT
  pc,        \* pc[r]: the part of build_database run r is in
  step,      \* step[r]: its position in that part
  book,      \* book[r]: the workbook it has loaded
  result,    \* result[r]: how the last run of r ended
  alone      \* history: no other run was active since r started

run  == <<pc, step, book, result, alone>>
vars == <<schema, rows, writer, readers, pc, step, book, result, alone>>

Phases  == {"idle", "drop", "create", "insert", "commit"}
Results == {"none", "success", "unreadable", "refused", "collision", "locked", "crashed"}

Active(r) == pc[r] # "idle"

TypeOK ==
  /\ schema \subseteq Tables
  /\ rows \in [Tables -> SUBSET Row]
  /\ writer \in Runs \cup {NoRun}
  /\ readers \subseteq Readers
  /\ pc \in [Runs -> Phases]
  /\ step \in [Runs -> 1..LastStep]
  /\ book \in [Runs -> Workbooks \cup {NoBook}]
  /\ result \in [Runs -> Results]
  /\ alone \in [Runs -> BOOLEAN]

Init ==
  /\ schema = {}
  /\ rows = [t \in Tables |-> {}]
  /\ writer = NoRun
  /\ readers = {}
  /\ pc = [r \in Runs |-> "idle"]
  /\ step = [r \in Runs |-> 1]
  /\ book = [r \in Runs |-> NoBook]
  /\ result = [r \in Runs |-> "none"]
  /\ alone = [r \in Runs |-> FALSE]

-----------------------------------------------------------------------------
(* Control of one run *)

\* Mutant: the position is not reset between two parts.
AdvanceWithoutReset(r, next) ==
  /\ pc' = [pc EXCEPT ![r] = IF step[r] = LastStep THEN next ELSE @]
  /\ step' = [step EXCEPT ![r] = @ + 1]
  /\ UNCHANGED <<book, result, alone>>

\* The next statement of the part r is in, or the first of the next part.
Advance(r, next) ==
  /\ pc' = [pc EXCEPT ![r] = IF step[r] = LastStep THEN next ELSE @]
  /\ step' = [step EXCEPT ![r] = IF @ = LastStep THEN 1 ELSE @ + 1]
  /\ UNCHANGED <<book, result, alone>>

\* The run returns or raises; conn.close() rolls back an open transaction.
End(r, how) ==
  /\ pc' = [pc EXCEPT ![r] = "idle"]
  /\ step' = [step EXCEPT ![r] = 1]
  /\ book' = [book EXCEPT ![r] = NoBook]
  /\ result' = [result EXCEPT ![r] = how]
  /\ alone' = [alone EXCEPT ![r] = FALSE]
  /\ writer' = IF writer = r THEN NoRun ELSE writer

MayWrite(r) == writer \in {NoRun, r}
MayCommit(r) == MayWrite(r) /\ readers = {}

\* openpyxl.load_workbook, read_readme and read_sheet_rows, then connect().
Load(r, w) ==
  /\ ~Active(r)
  /\ Defect[w] # "load"
  /\ pc' = [pc EXCEPT ![r] = "drop"]
  /\ step' = [step EXCEPT ![r] = 1]
  /\ book' = [book EXCEPT ![r] = w]
  /\ result' = [result EXCEPT ![r] = "none"]
  /\ alone' = [q \in Runs |-> q = r /\ \A p \in Runs : ~Active(p)]
  /\ UNCHANGED <<schema, rows, writer, readers>>

\* The workbook is read in full before the file is opened.
LoadFails(r, w) ==
  /\ ~Active(r)
  /\ Defect[w] = "load"
  /\ result' = [result EXCEPT ![r] = "unreadable"]
  /\ UNCHANGED <<schema, rows, writer, readers, pc, step, book, alone>>

\* DROP TABLE IF EXISTS t; of a missing table it takes no lock.
Drop(r) ==
  /\ pc[r] = "drop"
  /\ LET t == DropOrder[step[r]] IN
       /\ t \in schema => MayCommit(r)
       /\ schema' = schema \ {t}
       /\ rows' = [rows EXCEPT ![t] = {}]
  /\ Advance(r, "create")
  /\ UNCHANGED <<writer, readers>>

\* CREATE TABLE t
Create(r) ==
  /\ pc[r] = "create"
  /\ LET t == CreateOrder[step[r]] IN
       /\ t \notin schema
       /\ MayCommit(r)
       /\ schema' = schema \cup {t}
       /\ rows' = [rows EXCEPT ![t] = {}]
  /\ Advance(r, "insert")
  /\ UNCHANGED <<writer, readers>>

\* Mutant: tables without primary keys.
ClashNever(w, t) == FALSE

\* Mutant: dataset_meta without its primary key.
ClashInData(w, t) ==
  t # "dataset_meta" /\ \E new \in RowsOf(w, t), old \in rows[t] : new.key = old.key

\* A row of workbook w has the primary key of a committed row of t.
Clash(w, t) ==
  \E new \in RowsOf(w, t), old \in rows[t] : new.key = old.key

\* Mutant: a connection in autocommit mode.
InsertCommitting(r) ==
  /\ pc[r] = "insert"
  /\ LET t == InsertOrder[step[r]] IN
       /\ Defect[book[r]] # t
       /\ t \in schema
       /\ MayCommit(r)
       /\ ~Clash(book[r], t)
       /\ rows' = [rows EXCEPT ![t] = @ \cup RowsOf(book[r], t)]
  /\ Advance(r, "commit")
  /\ UNCHANGED <<schema, readers, writer>>

\* executemany("INSERT INTO t ..."): the rows stay in r's transaction, which
\* holds the write lock; no other connection sees them before the commit.
Insert(r) ==
  /\ pc[r] = "insert"
  /\ LET t == InsertOrder[step[r]] IN
       /\ Defect[book[r]] # t
       /\ t \in schema
       /\ MayWrite(r)
       /\ ~Clash(book[r], t)
  /\ writer' = r
  /\ Advance(r, "commit")
  /\ UNCHANGED <<schema, rows, readers>>

\* Mutant: the tickets are never inserted.
CommitWithoutTickets(r) ==
  /\ pc[r] = "commit"
  /\ MayCommit(r)
  /\ rows' = [t \in Tables |-> IF t = "tickets" THEN rows[t] ELSE rows[t] \cup RowsOf(book[r], t)]
  /\ End(r, "success")
  /\ UNCHANGED <<schema, readers>>

Commit(r) ==
  /\ pc[r] = "commit"
  /\ MayCommit(r)
  /\ rows' = [t \in Tables |-> rows[t] \cup RowsOf(book[r], t)]
  /\ End(r, "success")
  /\ UNCHANGED <<schema, readers>>

-----------------------------------------------------------------------------
(* The ways a run ends early *)

\* KeyError, ValueError or IntegrityError on a row of the workbook itself.
Refused(r) ==
  /\ pc[r] = "insert"
  /\ Defect[book[r]] = InsertOrder[step[r]]
  /\ End(r, "refused")
  /\ UNCHANGED <<schema, rows, readers>>

\* "table ... already exists", "no such table" or "UNIQUE constraint failed":
\* another run has changed the file under this one.
Collide(r) ==
  /\ \/ pc[r] = "create" /\ CreateOrder[step[r]] \in schema
     \/ pc[r] = "insert" /\ InsertOrder[step[r]] \notin schema
     \/ /\ pc[r] = "insert"
        /\ MayWrite(r)
        /\ Clash(book[r], InsertOrder[step[r]])
  /\ End(r, "collision")
  /\ UNCHANGED <<schema, rows, readers>>

\* Mutant: a commit waits for readers without a timeout.
BlockedBeforeCommit(r) ==
  \/ pc[r] = "drop"   /\ DropOrder[step[r]] \in schema      /\ ~MayCommit(r)
  \/ pc[r] = "create" /\ CreateOrder[step[r]] \notin schema /\ ~MayCommit(r)
  \/ pc[r] = "insert" /\ InsertOrder[step[r]] \in schema    /\ ~MayWrite(r)

\* A lock that statement needs is held by another connection.
Blocked(r) ==
  \/ pc[r] = "drop"   /\ DropOrder[step[r]] \in schema      /\ ~MayCommit(r)
  \/ pc[r] = "create" /\ CreateOrder[step[r]] \notin schema /\ ~MayCommit(r)
  \/ pc[r] = "insert" /\ InsertOrder[step[r]] \in schema    /\ ~MayWrite(r)
  \/ pc[r] = "commit" /\ ~MayCommit(r)

\* sqlite3.OperationalError: database is locked
LockTimeout(r) ==
  /\ Blocked(r)
  /\ End(r, "locked")
  /\ UNCHANGED <<schema, rows, readers>>

\* The process is killed; SQLite rolls its transaction back.
Crash(r) ==
  /\ Active(r)
  /\ End(r, "crashed")
  /\ UNCHANGED <<schema, rows, readers>>

-----------------------------------------------------------------------------
(* Readers: one SELECT of backend/db/queries.py each *)

BeginRead(q) ==
  /\ q \notin readers
  /\ readers' = readers \cup {q}
  /\ UNCHANGED <<schema, rows, writer, run>>

EndRead(q) ==
  /\ q \in readers
  /\ readers' = readers \ {q}
  /\ UNCHANGED <<schema, rows, writer, run>>

-----------------------------------------------------------------------------

Statement(r) ==
  Drop(r) \/ Create(r) \/ Insert(r) \/ Commit(r) \/ Refused(r) \/ Collide(r)

Start(r) == \E w \in Workbooks : Load(r, w) \/ LoadFails(r, w)

Next ==
  \/ \E r \in Runs : Start(r) \/ Statement(r) \/ LockTimeout(r) \/ Crash(r)
  \/ \E q \in Readers : BeginRead(q) \/ EndRead(q)

Spec == Init /\ [][Next]_vars

\* A run that has started keeps executing: each statement returns, raises, or
\* times out on a lock.  Nobody is obliged to start a run, to read, or to kill.
Fairness == \A r \in Runs : WF_vars(Statement(r) \/ LockTimeout(r))

FairSpec == Spec /\ Fairness

-----------------------------------------------------------------------------
(* Properties *)

\* The file holds exactly the dataset of workbook w.
Exact(w) == schema = Tables /\ \A t \in Tables : rows[t] = RowsOf(w, t)

Built == \E w \in Workbooks : Exact(w)

\* However many runs overlap, dataset_meta is empty or holds the five rows of
\* one workbook: get_dataset_meta never combines the snapshot time of one
\* data pack with the currency of another.
MetaFromOneWorkbook ==
  \/ rows["dataset_meta"] = {}
  \/ \E w \in Workbooks : rows["dataset_meta"] = RowsOf(w, "dataset_meta")

\* All committed rows of the four tables come from one workbook: "no leftover
\* rows from a previous version or a previously-supplied data pack".
NoMixing ==
  \A t1, t2 \in Tables :
    \A x \in rows[t1], y \in rows[t2] : x.from = y.from

\* A run that reports success has made the file exactly its workbook.
SuccessIsExact ==
  [][\A r \in Runs :
       Active(r) /\ result'[r] = "success" =>
         \A w \in Workbooks : w = book[r] => Exact(w)']_vars

\* "Safe to re-run at any time": whatever state earlier runs, failures and
\* crashes have left the file in, a run nobody overlaps never collides with
\* it, and if it reports success the file is exactly its workbook.
SoloRebuild ==
  [][\A r \in Runs :
       alone[r] /\ ~Active(r)' =>
         /\ result'[r] # "collision"
         /\ result'[r] = "success" =>
              \A w \in Workbooks : w = book[r] => Exact(w)']_vars

\* Every run that starts ends, by success or by an exception: two runs never
\* wait for each other for ever.
RunsEnd == \A r \in Runs : Active(r) ~> ~Active(r)

\* The workbook a consumer of the file sees, NoBook while it is incomplete.
Served == IF Built THEN CHOOSE w \in Workbooks : Exact(w) ELSE NoBook

Promise == INSTANCE Rebuild WITH content <- Served, job <- book

\* Runs publish a whole workbook in one step, only where nothing was
\* published, and never publish when they fail.
PublishesWholeWorkbooks == Promise!Spec

\* What build_db.py says of re-runs ("the database always reflects exactly
\* what is currently in the source workbook"), taken at its weakest: once the
\* file is the dataset of some workbook, it is again whenever no run is active
\* and none was killed or locked out.
DatasetNeverLost ==
  [](Built => [](
    (\A r \in Runs : ~Active(r) /\ result[r] \notin {"crashed", "locked"}) => Built))
=============================================================================
