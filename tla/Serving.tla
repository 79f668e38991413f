------------------------------ MODULE Serving ------------------------------
(***************************************************************************)
(* Clients of var/app.db while build_database rebuilds it: the functions   *)
(* of src/backend/db/queries.py over connections of                        *)
(* src/backend/db/connection.py.  Each call is one SELECT in autocommit    *)
(* mode (a read-only connection that is handed from call to call opens no  *)
(* transaction either), so each sees the rows committed when it runs, and  *)
(* two calls may see two states of the file.                               *)
(***************************************************************************)
EXTENDS BuildDb

CONSTANT Asked   \* the tables the clients read
ASSUME AskedAssumption == Asked \subseteq Tables

VARIABLES
  answer,     \* answer[q][t]: what the latest query of t told reader q
  fresh,      \* history: the tables q has read since the latest commit
  certified,  \* history: those get_dataset_meta has been read after
  overlapped  \* history: two runs have been active at once

session == <<answer, fresh, certified>>
allvars == <<vars, session, overlapped>>

\* The call has not been made, raises, or returns these rows.
Unread == [how |-> "unread", rows |-> {}]
Raises == [how |-> "raises", rows |-> {}]
Rows(R) == [how |-> "rows", rows |-> R]

Answer == [how : {"unread", "raises", "rows"}, rows : SUBSET Row]

-----------------------------------------------------------------------------

\* Mutant: a missing database reads as one without rows.
LenientQuery(t) == IF t = "dataset_meta" /\ rows[t] = {} THEN Raises ELSE Rows(rows[t])

\* OperationalError where there is no file or no such table; get_dataset_meta
\* also raises KeyError where a key is missing.
Query(t) ==
  IF t \notin schema \/ (t = "dataset_meta" /\ rows[t] = {})
    THEN Raises
    ELSE Rows(rows[t])

ServingInit ==
  /\ Init
  /\ answer = [q \in Readers |-> [t \in Asked |-> Unread]]
  /\ fresh = [q \in Readers |-> {}]
  /\ certified = [q \in Readers |-> {}]
  /\ overlapped = FALSE

\* get_dataset_meta, list_accounts, list_orders or list_tickets, and the gets.
Select(q, t) ==
  /\ BeginRead(q)
  /\ answer' = [answer EXCEPT ![q][t] = Query(t)]
  /\ fresh' = [fresh EXCEPT ![q] = @ \cup {t}]
  /\ certified' =
       [certified EXCEPT ![q] = IF t # "dataset_meta" THEN @ \ {t}
                                ELSE IF Query(t).how = "rows" THEN fresh[q] ELSE {}]

\* connect() closes the connection.
Close(q) == EndRead(q) /\ UNCHANGED session

Rebuilding ==
  \/ /\ \E r \in Runs : Start(r) \/ Drop(r) \/ Create(r) \/ Insert(r) \/ Refused(r)
                          \/ Collide(r) \/ LockTimeout(r) \/ Crash(r)
     /\ UNCHANGED session
  \/ /\ \E r \in Runs : Commit(r)
     /\ fresh' = [q \in Readers |-> {}]
     /\ UNCHANGED <<answer, certified>>

AtMostOneActive == \A p, r \in Runs : Active(p) /\ Active(r) => p = r

ServingNext ==
  /\ \/ Rebuilding
     \/ \E q \in Readers : Close(q) \/ \E t \in Asked : Select(q, t)
  /\ overlapped' = (overlapped \/ ~AtMostOneActive')

ServingSpec == ServingInit /\ [][ServingNext]_allvars

-----------------------------------------------------------------------------
(* Properties *)

\* One call never returns half a sheet, nor rows of two workbooks, however
\* two overlapping runs drop, create and commit.
AnswersWhole ==
  \A q \in Readers, t \in Asked :
    \/ answer[q][t].rows = {}
    \/ \E w \in Workbooks : answer[q][t].rows = RowsOf(w, t)

\* What a client has read since the last commit, over any DROP and CREATE,
\* comes from one workbook: only a commit between two calls can combine the
\* snapshot time of one data pack with the orders of another.
FreshAnswersAgree ==
  \A q \in Readers : \A t1, t2 \in fresh[q] :
    \A x \in answer[q][t1].rows, y \in answer[q][t2].rows : x.from = y.from

\* What was read before dataset_meta is the complete sheet of the workbook
\* that dataset_meta names.
MetaVouches ==
  \A q \in Readers : \A t \in certified[q] :
    answer[q][t].how = "rows" =>
      \E w \in Workbooks :
        /\ answer[q]["dataset_meta"] = Rows(RowsOf(w, "dataset_meta"))
        /\ answer[q][t] = Rows(RowsOf(w, t))

\* As long as no runs have overlapped, rows read before a get_dataset_meta
\* that succeeds, with no commit between, are the complete sheet of the
\* workbook it names: dataset_meta is dropped after the other tables and
\* committed with them.  Read first, it tells nothing of the rows.
CertifiedComplete == ~overlapped => MetaVouches

\* The reference time a rule is given is "the dataset's own snapshot time":
\* that of the orders it is asked about.
SnapshotIsTheDatasets ==
  \A q \in Readers : \A t \in Asked :
    \A x \in answer[q]["dataset_meta"].rows, y \in answer[q][t].rows : x.from = y.from

\* A query fails loudly where there is no dataset; zero rows mean that the
\* workbook has none.
EmptyMeansEmpty ==
  [][\A q \in Readers, t \in Asked :
       Select(q, t) /\ answer'[q][t] = Rows({}) =>
         \E w \in Workbooks : Exact(w) /\ RowsOf(w, t) = {}]_allvars
=============================================================================
