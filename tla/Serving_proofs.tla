--------------------------- MODULE Serving_proofs ---------------------------
(***************************************************************************)
(* Theorems about Serving for any workbooks, runs, readers and tables      *)
(* asked for: MetaAnswersOfOneWorkbook for any runs;                       *)
(* AnswersAreWhole and FreshAnswersOfOneWorkbook while at most two runs    *)
(* overlap; MetaReadLastCertifies as long as none have.  They rest on the  *)
(* invariants of BuildDb_proofs, which carry over because every step of a  *)
(* client is a reader's step of BuildDb.  The last section uses what is    *)
(* found here of runs that do not overlap for the file itself.             *)
(***************************************************************************)
EXTENDS Serving, BuildDb_proofs

\* A client neither writes nor starts a run.
LEMMA NextIsBuildStep == [ServingNext]_allvars => [Next]_vars
BY DEF ServingNext, allvars, Rebuilding, Select, Close, Next, Statement

\* Serving is BuildDb with the answers recorded.
LEMMA ServingIsBuildDb == ServingSpec => Spec
<1>1. ServingInit => Init
  BY DEF ServingInit
<1>2. QED
  BY <1>1, NextIsBuildStep, PTL DEF ServingSpec, Spec

-----------------------------------------------------------------------------
(* Types *)

\* The types of what a client was told, on top of those of the file.
SessionTypeOK ==
  /\ TypeOK
  /\ answer \in [Readers -> [Asked -> Answer]]
  /\ fresh \in [Readers -> SUBSET Asked]
  /\ certified \in [Readers -> SUBSET Asked]
  /\ overlapped \in BOOLEAN

\* A query answers or raises.
LEMMA QueryOfType ==
  ASSUME TypeOK, NEW t \in Tables
  PROVE  Query(t) \in Answer
BY DEF TypeOK, Query, Raises, Rows, Answer

\* Every step of the clients and of the runs.
LEMMA NextKeepsSessionType ==
  ASSUME SessionTypeOK, IInv, [ServingNext]_allvars
  PROVE  SessionTypeOK'
<1> USE AskedAssumption
<1>0. overlapped' \in BOOLEAN
  BY DEF ServingNext, allvars, SessionTypeOK
<1>1. TypeOK'
  BY NextIsBuildStep, NextKeepsIInv DEF IInv
<1>2. ASSUME UNCHANGED session PROVE SessionTypeOK'
  BY <1>0, <1>1, <1>2 DEF SessionTypeOK, session
<1>3. CASE Rebuilding
  BY <1>0, <1>1, <1>2, <1>3 DEF SessionTypeOK, Rebuilding
<1>4. ASSUME NEW q \in Readers, NEW t \in Asked, Select(q, t) PROVE SessionTypeOK'
  <2>1. answer' \in [Readers -> [Asked -> Answer]]
    BY <1>4, QueryOfType DEF SessionTypeOK, Select
  <2>2. fresh' \in [Readers -> SUBSET Asked] /\ certified' \in [Readers -> SUBSET Asked]
    BY <1>4 DEF SessionTypeOK, Select
  <2>3. QED
    BY <1>0, <1>1, <2>1, <2>2 DEF SessionTypeOK
<1>5. QED
  BY <1>2, <1>3, <1>4 DEF ServingNext, Close, allvars

\* Every answer is a set of rows or an exception.
LEMMA SessionsTypeCorrect == ServingSpec => []SessionTypeOK
<1>1. ServingInit => SessionTypeOK
  <2> SUFFICES ASSUME ServingInit PROVE SessionTypeOK
    OBVIOUS
  <2>1. TypeOK
    BY InitIInv DEF ServingInit, IInv
  <2>2. QED
    BY <2>1 DEF ServingInit, SessionTypeOK, Answer, Unread
<1>2. QED
  BY <1>1, NextKeepsSessionType, ServingIsBuildDb, Invariance, PTL DEF ServingSpec

-----------------------------------------------------------------------------
(* Any number of overlapping runs *)

\* What a client knows of the metadata.
MetaAnswerWhole ==
  \A q \in Readers :
    "dataset_meta" \in Asked =>
      \/ answer[q]["dataset_meta"] \in {Unread, Raises}
      \/ \E w \in Workbooks : answer[q]["dataset_meta"] = Rows(RowsOf(w, "dataset_meta"))

\* However many runs overlap, get_dataset_meta raises or returns all five
\* rows of one workbook: never half of them, never none, never of two.
THEOREM MetaAnswersOfOneWorkbook == ServingSpec => []MetaAnswerWhole
<1>1. ServingInit => MetaAnswerWhole
  BY DEF ServingInit, MetaAnswerWhole
<1>2. ASSUME MetaAnswerWhole, SessionTypeOK, IInv, [ServingNext]_allvars
      PROVE  MetaAnswerWhole'
  <2>1. ASSUME UNCHANGED answer PROVE MetaAnswerWhole'
    BY <1>2, <2>1 DEF MetaAnswerWhole
  <2>2. ASSUME NEW q \in Readers, NEW t \in Asked, Select(q, t) PROVE MetaAnswerWhole'
    <3>1. answer' = [answer EXCEPT ![q][t] = Query(t)]
      BY <2>2 DEF Select
    <3>2. \/ Query("dataset_meta") = Raises
          \/ \E w \in Workbooks : Query("dataset_meta") = Rows(RowsOf(w, "dataset_meta"))
      BY <1>2 DEF Query, IInv, MetaFromOneWorkbook
    <3>3. \A p \in Readers : "dataset_meta" \in Asked =>
            answer'[p]["dataset_meta"] \in {answer[p]["dataset_meta"], Query("dataset_meta")}
      BY <1>2, <3>1 DEF SessionTypeOK
    <3> QED
      BY <1>2, <3>2, <3>3 DEF MetaAnswerWhole
  <2> QED
    BY <1>2, <2>1, <2>2 DEF ServingNext, Rebuilding, Close, session, allvars
<1> QED
  BY <1>1, <1>2, SessionsTypeCorrect, ServingIsBuildDb, Invariance, PTL DEF ServingSpec

-----------------------------------------------------------------------------
(* Overlapping runs *)

\* What a client read since the last commit and what the tables hold now are
\* of one workbook: since then rows have only gone.
FreshLikeRows ==
  \A q \in Readers : \A t \in fresh[q], u \in Tables :
    \A x \in answer[q][t].rows, y \in rows[u] : x.from = y.from

SInv == AnswersWhole /\ FreshAnswersAgree /\ FreshLikeRows

\* Only a commit adds rows to a table.
LEMMA RowsOnlyGo ==
  ASSUME IInv, NEW r \in Runs,
         Start(r) \/ Drop(r) \/ Create(r) \/ Insert(r) \/ Refused(r)
           \/ Collide(r) \/ LockTimeout(r) \/ Crash(r)
  PROVE  \A u \in Tables : rows'[u] = rows[u] \/ rows'[u] = {}
BY DEF IInv, TypeOK, Start, Load, LoadFails, Drop, Create, Insert, Refused, Collide,
       LockTimeout, Crash

\* A query returns what its table holds.
LEMMA QueryReturns ==
  ASSUME NEW t
  PROVE  Query(t).rows = {} \/ Query(t).rows = rows[t]
BY DEF Query, Raises, Rows

\* A query adds what its table holds to answers that agree with it.
LEMMA NextKeepsSInv ==
  ASSUME SInv, SessionTypeOK, IInv, OInv, [ServingNext]_allvars
  PROVE  SInv'
<1> USE AskedAssumption
<1>1. ASSUME UNCHANGED session,
             \A u \in Tables : rows'[u] = rows[u] \/ rows'[u] = {}
      PROVE  SInv'
  <2>1. AnswersWhole' /\ FreshAnswersAgree'
    BY <1>1 DEF SInv, AnswersWhole, FreshAnswersAgree, session
  <2>2. FreshLikeRows'
    BY <1>1 DEF SInv, FreshLikeRows, session
  <2>3. QED
    BY <2>1, <2>2 DEF SInv
<1>2. CASE Rebuilding
  <2>1. ASSUME fresh' = [q \in Readers |-> {}], UNCHANGED answer
        PROVE  SInv'
    BY <2>1 DEF SInv, AnswersWhole, FreshAnswersAgree, FreshLikeRows
  <2>2. QED
    BY <1>1, <1>2, <2>1, RowsOnlyGo DEF Rebuilding
<1>3. ASSUME NEW q \in Readers, NEW t \in Asked, Select(q, t) PROVE SInv'
  <2>1. /\ rows' = rows
        /\ answer' = [answer EXCEPT ![q][t] = Query(t)]
        /\ fresh' = [fresh EXCEPT ![q] = @ \cup {t}]
    BY <1>3 DEF Select, BeginRead
  <2>2. ASSUME NEW p \in Readers, NEW u \in Asked
        PROVE  \/ p = q /\ u = t /\ answer'[p][u].rows \in {{}, rows[t]}
               \/ /\ answer'[p][u] = answer[p][u]
                  /\ u \in fresh'[p] => u \in fresh[p]
    BY <2>1, QueryReturns DEF SessionTypeOK
  <2>3. AnswersWhole'
    BY <2>2 DEF SInv, AnswersWhole, OInv, TablesWhole
  <2>4. fresh' \in [Readers -> SUBSET Asked]
    BY <2>1 DEF SessionTypeOK
  <2>5. FreshAnswersAgree'
    BY <2>2, <2>4 DEF SInv, FreshAnswersAgree, FreshLikeRows, OInv, NoMixing
  <2>6. FreshLikeRows'
    BY <2>1, <2>2, <2>4 DEF SInv, FreshLikeRows, OInv, NoMixing
  <2>7. QED
    BY <2>3, <2>5, <2>6 DEF SInv
<1>4. ASSUME NEW q \in Readers, Close(q) PROVE SInv'
  BY <1>1, <1>4 DEF Close, EndRead
<1>5. CASE UNCHANGED allvars
  BY <1>1, <1>5 DEF allvars, vars
<1>6. QED
  BY <1>2, <1>3, <1>4, <1>5 DEF ServingNext

\* A client's answers, while at most two runs overlap.
LEMMA SessionInvariance == ServingSpec /\ []AtMostTwoActive => []SInv
<1>1. ServingInit => SInv
  BY DEF ServingInit, SInv, AnswersWhole, FreshAnswersAgree, FreshLikeRows, Unread
<1>2. QED
  BY <1>1, NextKeepsSInv, SessionsTypeCorrect, ServingIsBuildDb, Invariance,
     OverlapInvariance, PTL DEF ServingSpec

\* While at most two runs overlap, a query returns nothing or a whole sheet of
\* one workbook.
THEOREM AnswersAreWhole == ServingSpec /\ []AtMostTwoActive => []AnswersWhole
<1>1. SInv => AnswersWhole
  BY DEF SInv
<1>2. QED
  BY <1>1, SessionInvariance, PTL

\* While at most two runs overlap, what a client has read since the latest
\* commit is of one workbook.
THEOREM FreshAnswersOfOneWorkbook ==
  ServingSpec /\ []AtMostTwoActive => []FreshAnswersAgree
<1>1. SInv => FreshAnswersAgree
  BY DEF SInv
<1>2. QED
  BY <1>1, SessionInvariance, PTL

-----------------------------------------------------------------------------
(* Runs that do not overlap *)

\* What the run has dropped or created is empty until it commits.
SoloEmpty ==
  \A r \in Runs :
    /\ pc[r] = "drop" => \A i \in Idx : i < step[r] => rows[DropOrder[i]] = {}
    /\ Past(r) => \A t \in Tables : rows[t] = {}

\* A filled dataset_meta vouches for every table that exists.
MetaCertifies ==
  \A w \in Workbooks :
    rows["dataset_meta"] = RowsOf(w, "dataset_meta") =>
      \A t \in Tables \cap schema : rows[t] = RowsOf(w, t)

\* Where dataset_meta is filled, it has been since the latest commit, and what
\* a client has read since was complete.
FreshComplete ==
  \A q \in Readers, w \in Workbooks :
    rows["dataset_meta"] = RowsOf(w, "dataset_meta") =>
      \A t \in fresh[q] :
        answer[q][t].how = "rows" => answer[q][t] = Rows(RowsOf(w, t))

CInv == SoloEmpty /\ MetaCertifies /\ FreshComplete /\ MetaVouches

\* The file and its clients until two runs overlap.
UnlessOverlapped == ~overlapped => AtMostOneActive /\ CInv

\* The file, whatever its runs do one after the other.
LEMMA NextKeepsMetaCertifies ==
  ASSUME SoloEmpty, MetaCertifies, IInv, AtMostOneActive, [Next]_vars
  PROVE  SoloEmpty' /\ MetaCertifies'
<1>0. /\ rows \in [Tables -> SUBSET Row] /\ pc \in [Runs -> Phases]
      /\ step \in [Runs -> Idx]
      /\ "dataset_meta" \in Tables
  BY DEF IInv, TypeOK, Idx, Tables
<1>1. ASSUME schema' = schema, rows' = rows,
             \A r \in Runs : \/ pc'[r] = "idle"
                             \/ pc'[r] = "drop" /\ step'[r] = 1
                             \/ pc'[r] = pc[r] /\ step'[r] = step[r]
                             \/ pc[r] = "insert" /\ pc'[r] \in {"insert", "commit"}
      PROVE  SoloEmpty' /\ MetaCertifies'
  <2>1. SoloEmpty'
    BY <1>1 DEF SoloEmpty, Past, Idx, LastStep
  <2>2. MetaCertifies'
    BY <1>1 DEF MetaCertifies
  <2>3. QED
    BY <2>1, <2>2
<1>2. ASSUME NEW r \in Runs, NEW how, End(r, how), schema' = schema, rows' = rows
      PROVE  SoloEmpty' /\ MetaCertifies'
  <2>1. \A p \in Runs : pc'[p] = "idle" \/ (pc'[p] = pc[p] /\ step'[p] = step[p])
    BY <1>0, <1>2 DEF End
  <2>2. QED
    BY <1>1, <1>2, <2>1
<1>3. ASSUME NEW r \in Runs, Start(r)
      PROVE  SoloEmpty' /\ MetaCertifies'
  <2>1. schema' = schema /\ rows' = rows
    BY <1>3 DEF Start, Load, LoadFails
  <2>2. \A p \in Runs : \/ pc'[p] = "drop" /\ step'[p] = 1
                        \/ pc'[p] = pc[p] /\ step'[p] = step[p]
    BY <1>0, <1>3 DEF Start, Load, LoadFails
  <2>3. QED
    BY <1>1, <2>1, <2>2
<1>4. ASSUME NEW r \in Runs, Drop(r)
      PROVE  SoloEmpty' /\ MetaCertifies'
  <2> DEFINE t == DropOrder[step[r]]
  <2>1. /\ pc[r] = "drop" /\ t \in Tables
        /\ rows'[t] = {} /\ schema' = schema \ {t}
        /\ \A u \in Tables \ {t} : rows'[u] = rows[u]
        /\ pc'[r] = IF step[r] = 4 THEN "create" ELSE "drop"
        /\ step'[r] = IF step[r] = 4 THEN 1 ELSE step[r] + 1
        /\ \A p \in Runs \ {r} : pc'[p] = "idle"
    BY <1>0, <1>4, OrderFacts DEF Drop, Advance, AtMostOneActive, Active, LastStep
  <2>2. \A i \in Idx : i <= step[r] => rows'[DropOrder[i]] = {}
    BY <1>0, <2>1, OrderFacts DEF SoloEmpty, Idx, LastStep
  <2>3. CASE step[r] = 4
    <3>1. \A u \in Tables : rows'[u] = {}
      BY <2>2, <2>3, OrderFacts DEF Idx, LastStep
    <3>2. QED
      BY <1>0, <2>1, <2>3, <3>1, MetaNonempty DEF SoloEmpty, MetaCertifies, Past
  <2>4. CASE step[r] # 4
    <3>1. SoloEmpty'
      BY <1>0, <2>1, <2>2, <2>4 DEF SoloEmpty, Past, Idx, LastStep
    <3>2. MetaCertifies'
      BY <1>0, <2>1, MetaNonempty DEF MetaCertifies
    <3>3. QED
      BY <3>1, <3>2
  <2>5. QED
    BY <2>3, <2>4
<1>5. ASSUME NEW r \in Runs, Create(r)
      PROVE  SoloEmpty' /\ MetaCertifies'
  <2>1. /\ \A u \in Tables : rows'[u] = {}
        /\ Past(r) /\ Past(r)'
        /\ \A p \in Runs \ {r} : pc'[p] = "idle"
    BY <1>0, <1>5 DEF Create, Advance, SoloEmpty, Past, AtMostOneActive, Active
  <2>2. SoloEmpty'
    BY <2>1 DEF SoloEmpty, Past
  <2>3. MetaCertifies'
    BY <1>0, <2>1, MetaNonempty DEF MetaCertifies
  <2>4. QED
    BY <2>2, <2>3
<1>6. ASSUME NEW r \in Runs, Insert(r)
      PROVE  SoloEmpty' /\ MetaCertifies'
  <2>1. schema' = schema /\ rows' = rows
    BY <1>6 DEF Insert
  <2>2. \A p \in Runs : \/ pc'[p] = pc[p] /\ step'[p] = step[p]
                        \/ pc[p] = "insert" /\ pc'[p] \in {"insert", "commit"}
    BY <1>0, <1>6 DEF Insert, Advance
  <2>3. QED
    BY <1>1, <2>1, <2>2
<1>7. ASSUME NEW r \in Runs, Commit(r)
      PROVE  SoloEmpty' /\ MetaCertifies'
  <2>1. /\ \A u \in Tables : rows'[u] = RowsOf(book[r], u)
        /\ \A p \in Runs : pc'[p] = "idle"
        /\ book[r] \in Workbooks
    BY <1>0, <1>7 DEF Commit, End, SoloEmpty, Past, AtMostOneActive, Active, IInv, BookLoaded
  <2>2. SoloEmpty'
    BY <2>1 DEF SoloEmpty, Past
  <2>3. MetaCertifies'
    BY <1>0, <2>1, MetaTells DEF MetaCertifies
  <2>4. QED
    BY <2>2, <2>3
<1>8. ASSUME schema' = schema, rows' = rows, pc' = pc, step' = step
      PROVE  SoloEmpty' /\ MetaCertifies'
  BY <1>1, <1>8
<1>9. QED
  BY <1>2, <1>3, <1>4, <1>5, <1>6, <1>7, <1>8
  DEF Next, Statement, Refused, Collide, LockTimeout, Crash, BeginRead, EndRead, run, vars

\* A workbook's metadata in the table, before or after a step that is not a
\* commit, was there before it.
LEMMA NextKeepsCInv ==
  ASSUME CInv, SessionTypeOK, IInv, AtMostOneActive, [ServingNext]_allvars
  PROVE  CInv'
<1> USE AskedAssumption
<1>0. "dataset_meta" \in Tables
  BY DEF Tables
<1>1. SoloEmpty' /\ MetaCertifies'
  BY NextIsBuildStep, NextKeepsMetaCertifies DEF CInv
<1>2. ASSUME UNCHANGED session,
             \A u \in Tables : rows'[u] = rows[u] \/ rows'[u] = {}
      PROVE  CInv'
  <2>1. FreshComplete'
    BY <1>0, <1>2, MetaNonempty DEF CInv, FreshComplete, session
  <2>2. MetaVouches'
    BY <1>2 DEF CInv, MetaVouches, session
  <2>3. QED
    BY <1>1, <2>1, <2>2 DEF CInv
<1>3. CASE Rebuilding
  <2>1. ASSUME fresh' = [q \in Readers |-> {}], UNCHANGED <<answer, certified>>
        PROVE  CInv'
    BY <1>1, <2>1 DEF CInv, FreshComplete, MetaVouches
  <2>2. QED
    BY <1>2, <1>3, <2>1, RowsOnlyGo DEF Rebuilding
<1>4. ASSUME NEW q \in Readers, NEW t \in Asked, Select(q, t) PROVE CInv'
  <2>0. /\ \A p \in Readers : p # q => certified'[p] = certified[p]
        /\ t # "dataset_meta" => certified'[q] = certified[q] \ {t}
        /\ t = "dataset_meta" => certified'[q] = IF Query(t).how = "rows" THEN fresh[q] ELSE {}
    BY <1>4 DEF Select, SessionTypeOK
  <2>1. /\ rows' = rows
        /\ answer' = [answer EXCEPT ![q][t] = Query(t)]
        /\ fresh' = [fresh EXCEPT ![q] = @ \cup {t}]
    BY <1>4 DEF Select, BeginRead
  <2>2. ASSUME NEW p \in Readers, NEW u \in Asked
        PROVE  \/ p = q /\ u = t /\ answer'[p][u] = Query(t)
               \/ /\ answer'[p][u] = answer[p][u]
                  /\ u \in fresh'[p] => u \in fresh[p]
                  /\ ~(p = q /\ u = t)
    BY <2>1 DEF SessionTypeOK
  <2>3. ASSUME NEW w \in Workbooks, rows["dataset_meta"] = RowsOf(w, "dataset_meta"),
               Query(t).how = "rows"
        PROVE  Query(t) = Rows(RowsOf(w, t))
    BY <2>3 DEF CInv, MetaCertifies, Query, Raises, Rows
  <2>4. fresh' \in [Readers -> SUBSET Asked]
    BY <2>1 DEF SessionTypeOK
  <2>5. FreshComplete'
    BY <2>1, <2>2, <2>3, <2>4 DEF CInv, FreshComplete
  <2>6. MetaVouches'
    <3> SUFFICES ASSUME NEW p \in Readers, NEW u \in certified'[p], answer'[p][u].how = "rows"
                 PROVE  \E w \in Workbooks :
                          /\ answer'[p]["dataset_meta"] = Rows(RowsOf(w, "dataset_meta"))
                          /\ answer'[p][u] = Rows(RowsOf(w, u))
      BY DEF MetaVouches
    <3>1. CASE p # q
      <4>1. u \in certified[p] /\ answer'[p] = answer[p]
        BY <3>1, <2>0, <2>1 DEF SessionTypeOK
      <4>2. QED
        BY <4>1 DEF CInv, MetaVouches
    <3>2. CASE p = q /\ t # "dataset_meta"
      <4>1. u \in certified[p] /\ u # t
        BY <3>2, <2>0
      <4>2. answer'[p][u] = answer[p][u]
        BY <4>1, <2>2 DEF SessionTypeOK
      <4>3. answer'[p]["dataset_meta"] = answer[p]["dataset_meta"]
        BY <3>2, <2>1 DEF SessionTypeOK
      <4>4. QED
        BY <4>1, <4>2, <4>3 DEF CInv, MetaVouches
    <3>3. CASE p = q /\ t = "dataset_meta"
      <4>1. u \in fresh[q] /\ Query(t).how = "rows"
        BY <3>3, <2>0
      <4>2. rows["dataset_meta"] # {}
        BY <3>3, <4>1 DEF Query, Raises
      <4>3. PICK w \in Workbooks : rows["dataset_meta"] = RowsOf(w, "dataset_meta")
        BY <4>2 DEF IInv, MetaFromOneWorkbook
      <4>4. answer'[p]["dataset_meta"] = Rows(RowsOf(w, "dataset_meta"))
        BY <3>3, <4>1, <4>3, <2>2, <2>3
      <4>5. answer'[p][u] = Rows(RowsOf(w, u))
        BY <3>3, <4>1, <4>3, <2>2, <2>4, <2>5, <2>1 DEF FreshComplete, SessionTypeOK
      <4>6. QED
        BY <4>4, <4>5
    <3>4. QED
      BY <3>1, <3>2, <3>3
  <2>7. QED
    BY <1>1, <2>5, <2>6 DEF CInv
<1>5. ASSUME NEW q \in Readers, Close(q) PROVE CInv'
  BY <1>2, <1>5 DEF Close, EndRead
<1>6. CASE UNCHANGED allvars
  BY <1>2, <1>6 DEF allvars, vars
<1>7. QED
  BY <1>3, <1>4, <1>5, <1>6 DEF ServingNext

\* Runs that have not overlapped do not overlap now.
LEMMA NextKeepsUnlessOverlapped ==
  ASSUME UnlessOverlapped, SessionTypeOK, IInv, [ServingNext]_allvars
  PROVE  UnlessOverlapped'
<1> SUFFICES ASSUME ~overlapped' PROVE AtMostOneActive' /\ CInv'
  BY DEF UnlessOverlapped
<1>1. ~overlapped
  BY DEF ServingNext, allvars, SessionTypeOK
<1>2. AtMostOneActive /\ CInv
  BY <1>1 DEF UnlessOverlapped
<1>3. AtMostOneActive'
  BY <1>2 DEF ServingNext, allvars, vars, AtMostOneActive, Active
<1>4. CInv'
  BY <1>2, NextKeepsCInv
<1>5. QED
  BY <1>3, <1>4

\* As long as no runs have overlapped, get_dataset_meta vouches for what was
\* read before it since the latest commit: the complete sheets of the workbook
\* it names.
THEOREM MetaReadLastCertifies == ServingSpec => []CertifiedComplete
<1>1. ServingInit => CInv
  BY MetaNonempty
  DEF ServingInit, Init, CInv, SoloEmpty, MetaCertifies, FreshComplete, MetaVouches,
      Past, Tables
<1>2. ServingInit => UnlessOverlapped
  BY <1>1 DEF ServingInit, Init, UnlessOverlapped, AtMostOneActive, Active
<1>3. UnlessOverlapped => CertifiedComplete
  BY DEF UnlessOverlapped, CInv, CertifiedComplete
<1>4. QED
  BY <1>2, <1>3, NextKeepsUnlessOverlapped, SessionsTypeCorrect, ServingIsBuildDb,
     Invariance, PTL
  DEF ServingSpec

-----------------------------------------------------------------------------
(* A file whose runs never overlap *)

\* What holds as long as no two runs are active.
LEMMA SoloInvariance == Spec /\ []AtMostOneActive => [](SoloEmpty /\ MetaCertifies)
<1>1. Init => SoloEmpty /\ MetaCertifies
  BY MetaNonempty DEF Init, SoloEmpty, MetaCertifies, Past, Tables
<1> QED
  BY <1>1, NextKeepsMetaCertifies, Invariance, PTL DEF Spec

\* While runs follow one another, however they end, a filled dataset_meta says
\* of every table that exists that it is the complete sheet of that workbook.
THEOREM SoloMetaVouchesForTheFile == Spec /\ []AtMostOneActive => []MetaCertifies
  BY SoloInvariance, PTL

\* While runs follow one another the file goes from one whole dataset to none
\* to another, and only a run that succeeds publishes, also for workbooks
\* without accounts.
THEOREM SoloRunsPublishWholeWorkbooks ==
  Spec /\ []AtMostOneActive => PublishesWholeWorkbooks
<1>1. AtMostOneActive => AtMostTwoActive
  BY DEF AtMostOneActive, AtMostTwoActive
<1>2. ASSUME IInv, SoloEmpty, NEW r \in Runs, Create(r)
      PROVE  ~Built /\ ~Built'
  <2>1. /\ \A t \in Tables : rows[t] = {} /\ rows'[t] = {}
        /\ "dataset_meta" \in Tables
    BY <1>2 DEF SoloEmpty, Past, Create, IInv, TypeOK, Tables
  <2> QED
    BY <2>1, MetaNonempty DEF Built, Exact
<1>3. IInv /\ OInv /\ SoloEmpty /\ [Next]_vars => [Promise!Next]_<<Served, book>>
  BY <1>2, StepRefines
<1> QED
  BY <1>1, <1>3, InitRefines, Invariance, OverlapInvariance, SoloInvariance, PTL
  DEF Spec, PublishesWholeWorkbooks, Promise!Spec
=============================================================================
