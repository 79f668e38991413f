--------------------------- MODULE BuildDocIndex ---------------------------
(***************************************************************************)
(* Rebuilding the document index: build_document_index() of                *)
(* src/backend/ingestion/build_doc_index.py as any number of runs over one *)
(* database and one documents directory, which people change at any time.  *)
(*                                                                         *)
(* One run loads the manifest, drops and creates doc_chunks (each DDL      *)
(* statement commits on its own), then reads the documents one by one,     *)
(* inserting the sections of each as it goes, and commits.  The first      *)
(* INSERT opens the transaction and takes the write lock; a run that finds *)
(* no text never takes it.  `others` stands for the other programs with a  *)
(* connection to the same file: readers, and build_db.py.                  *)
(***************************************************************************)
EXTENDS Naturals, Sequences

CONSTANTS
  Manifests,    \* the manifests a run may load: sequences of Entry
  Files,        \* names of documents
  Accounts,     \* accounts a contract may belong to
  Texts,        \* texts a document may have
  SectionsOf,   \* SectionsOf[x]: how many chunks split_sections makes of x
  Folders,      \* contents the documents directory may take
  Runs,
  General, Absent, Unreadable, NoRun

Entry == [filename : Files, customer_account_id : Accounts \cup {General}]

ASSUME ManifestsAssumption == \A m \in Manifests : m \in Seq(Entry)
ASSUME SectionsAssumption  == SectionsOf \in [Texts -> Nat]
ASSUME FoldersAssumption   == Folders \subseteq [Files -> Texts \cup {Absent, Unreadable}]
ASSUME TextsAssumption     == Texts \cap {Absent, Unreadable} = {}
ASSUME NoRunAssumption     == NoRun \notin Runs

\* chunk_id is the position of the chunk: AUTOINCREMENT starts again when the
\* table is dropped, nothing else deletes a chunk, a rollback restores it.
Chunk == [filename : Files, customer_account_id : Accounts \cup {General},
          text : Texts, section : Nat \ {0}]

\* The chunks of manifest entry d when its document reads x, in order.
ChunksOf(d, x) ==
  IF x \notin Texts THEN <<>> ELSE
    [i \in 1..SectionsOf[x] |->
       [filename |-> d.filename, customer_account_id |-> d.customer_account_id,
        text |-> x, section |-> i]]

VARIABLES
  exists,    \* doc_chunks exists
  chunks,    \* its committed rows, by chunk_id
  pending,   \* the rows of the open transaction
  writer,    \* the run whose transaction that is, or NoRun
  others,    \* the strongest lock another program holds
  folder,    \* folder[f]: what is at documents_dir / f
  pc, plan,  \* the part run r is in, and the manifest it has loaded
  found,     \* found[r]: the texts r has met, by position in its manifest
  result,    \* how the last run of r ended
  alone      \* history: no other run was active since r started

vars == <<exists, chunks, pending, writer, others, folder, pc, plan, found, result, alone>>

Phases  == {"idle", "drop", "create", "documents"}
Results == {"none", "success", "unreadable", "collision", "locked", "crashed"}

Active(r) == pc[r] # "idle"

TypeOK ==
  /\ exists \in BOOLEAN
  /\ chunks \in Seq(Chunk) /\ pending \in Seq(Chunk)
  /\ writer \in Runs \cup {NoRun}
  /\ others \in {"none", "reading", "writing"}
  /\ folder \in Folders
  /\ pc \in [Runs -> Phases]
  /\ plan \in [Runs -> Manifests \cup {<<>>}]
  /\ found \in [Runs -> Seq(Texts \cup {Absent})]
  /\ \A r \in Runs : Len(found[r]) <= Len(plan[r])
  /\ result \in [Runs -> Results]
  /\ alone \in [Runs -> BOOLEAN]
  /\ ~exists => chunks = <<>>
  /\ writer = NoRun => pending = <<>>

Init ==
  /\ exists = FALSE
  /\ chunks = <<>> /\ pending = <<>>
  /\ writer = NoRun
  /\ others = "none"
  /\ folder \in Folders
  /\ pc = [r \in Runs |-> "idle"]
  /\ plan = [r \in Runs |-> <<>>]
  /\ found = [r \in Runs |-> <<>>]
  /\ result = [r \in Runs |-> "none"]
  /\ alone = [r \in Runs |-> FALSE]

-----------------------------------------------------------------------------

MayWrite(r)  == writer = r \/ (writer = NoRun /\ others # "writing")
MayCommit(r) == writer \in {r, NoRun} /\ others = "none"

Load(r, m) ==
  /\ ~Active(r)
  /\ pc' = [pc EXCEPT ![r] = "drop"]
  /\ plan' = [plan EXCEPT ![r] = m]
  /\ result' = [result EXCEPT ![r] = "none"]
  /\ alone' = [q \in Runs |-> q = r /\ \A p \in Runs : ~Active(p)]
  /\ UNCHANGED <<exists, chunks, pending, writer, others, folder, found>>

\* Mutant: the rows of a failed run survive in the next transaction.
EndKeepingRows(r, how) ==
  /\ pc' = [pc EXCEPT ![r] = "idle"]
  /\ plan' = [plan EXCEPT ![r] = <<>>]
  /\ found' = [found EXCEPT ![r] = <<>>]
  /\ result' = [result EXCEPT ![r] = how]
  /\ alone' = [alone EXCEPT ![r] = FALSE]
  /\ writer' = IF writer = r THEN NoRun ELSE writer
  /\ UNCHANGED pending

\* The run returns or raises; conn.close() rolls back its transaction.
End(r, how) ==
  /\ pc' = [pc EXCEPT ![r] = "idle"]
  /\ plan' = [plan EXCEPT ![r] = <<>>]
  /\ found' = [found EXCEPT ![r] = <<>>]
  /\ result' = [result EXCEPT ![r] = how]
  /\ alone' = [alone EXCEPT ![r] = FALSE]
  /\ IF writer = r THEN writer' = NoRun /\ pending' = <<>> ELSE UNCHANGED <<writer, pending>>

\* Mutant: the script has no DROP.
DropNothing(r) ==
  /\ pc[r] = "drop"
  /\ pc' = [pc EXCEPT ![r] = "create"]
  /\ UNCHANGED <<exists, chunks, pending, writer, others, folder, plan, found, result, alone>>

\* DROP TABLE IF EXISTS doc_chunks
Drop(r) ==
  /\ pc[r] = "drop"
  /\ exists => MayCommit(r)
  /\ exists' = FALSE
  /\ chunks' = <<>>
  /\ pc' = [pc EXCEPT ![r] = "create"]
  /\ UNCHANGED <<pending, writer, others, folder, plan, found, result, alone>>

\* CREATE TABLE doc_chunks
Create(r) ==
  /\ pc[r] = "create"
  /\ ~exists
  /\ MayCommit(r)
  /\ exists' = TRUE
  /\ pc' = [pc EXCEPT ![r] = "documents"]
  /\ UNCHANGED <<chunks, pending, writer, others, folder, plan, found, result, alone>>

\* The entry whose document r looks at next.
Reading(r) == pc[r] = "documents" /\ Len(found[r]) < Len(plan[r])
Current(r)  == plan[r][Len(found[r]) + 1]
At(r)       == folder[Current(r).filename]
Sections(r) == ChunksOf(Current(r), At(r))

\* `if not doc_path.exists(): continue`
SkipDocument(r) ==
  /\ Reading(r)
  /\ At(r) = Absent
  /\ found' = [found EXCEPT ![r] = Append(@, Absent)]
  /\ UNCHANGED <<exists, chunks, pending, writer, others, folder, pc, plan, result, alone>>

\* Mutant: the rows are inserted after the loop, those of the last document only.
InsertLastDocument(r) ==
  /\ Reading(r)
  /\ At(r) \in Texts
  /\ exists
  /\ IF Sections(r) = <<>> THEN UNCHANGED writer ELSE MayWrite(r) /\ writer' = r
  /\ pending' = IF Sections(r) = <<>> THEN pending ELSE Sections(r)
  /\ found' = [found EXCEPT ![r] = Append(@, At(r))]
  /\ UNCHANGED <<exists, chunks, others, folder, pc, plan, result, alone>>

\* Mutant: a connection in autocommit mode, killed between two rows.
InsertAutocommitting(r) ==
  /\ Reading(r)
  /\ At(r) \in Texts
  /\ exists
  /\ MayCommit(r)
  /\ \E n \in 0..Len(Sections(r)) :
       /\ chunks' = chunks \o SubSeq(Sections(r), 1, n)
       /\ IF n < Len(Sections(r)) THEN End(r, "crashed")
          ELSE /\ found' = [found EXCEPT ![r] = Append(@, At(r))]
               /\ UNCHANGED <<pending, writer, pc, plan, result, alone>>
  /\ UNCHANGED <<exists, others, folder>>

\* extract_text, split_sections and the executemany of one document.
InsertDocument(r) ==
  /\ Reading(r)
  /\ At(r) \in Texts
  /\ exists
  /\ IF Sections(r) = <<>> THEN UNCHANGED writer ELSE MayWrite(r) /\ writer' = r
  /\ pending' = pending \o Sections(r)
  /\ found' = [found EXCEPT ![r] = Append(@, At(r))]
  /\ UNCHANGED <<exists, chunks, others, folder, pc, plan, result, alone>>

Commit(r) ==
  /\ pc[r] = "documents" /\ ~Reading(r)
  /\ writer = r => MayCommit(r)
  /\ chunks' = IF writer = r THEN chunks \o pending ELSE chunks
  /\ End(r, "success")
  /\ UNCHANGED <<exists, others, folder>>

\* extract_text raises: not a PDF, not UTF-8, or gone since exists().
ExtractFails(r) ==
  /\ Reading(r)
  /\ At(r) \in {Unreadable, Absent}
  /\ End(r, "unreadable")
  /\ UNCHANGED <<exists, chunks, others, folder>>

\* "table doc_chunks already exists" or "no such table: doc_chunks"
Collide(r) ==
  /\ \/ pc[r] = "create" /\ exists
     \/ Reading(r) /\ At(r) \in Texts /\ ~exists
  /\ End(r, "collision")
  /\ UNCHANGED <<exists, chunks, others, folder>>

\* Mutant: a commit waits for readers without a timeout.
LockTimeoutBeforeCommit(r) ==
  /\ \/ pc[r] = "drop" /\ exists /\ ~MayCommit(r)
     \/ pc[r] = "create" /\ ~exists /\ ~MayCommit(r)
     \/ Reading(r) /\ exists /\ Sections(r) # <<>> /\ ~MayWrite(r)
  /\ End(r, "locked")
  /\ UNCHANGED <<exists, chunks, others, folder>>

\* "database is locked"
LockTimeout(r) ==
  /\ \/ pc[r] = "drop" /\ exists /\ ~MayCommit(r)
     \/ pc[r] = "create" /\ ~exists /\ ~MayCommit(r)
     \/ Reading(r) /\ exists /\ Sections(r) # <<>> /\ ~MayWrite(r)
     \/ pc[r] = "documents" /\ ~Reading(r) /\ writer = r /\ ~MayCommit(r)
  /\ End(r, "locked")
  /\ UNCHANGED <<exists, chunks, others, folder>>

Crash(r) ==
  /\ Active(r)
  /\ End(r, "crashed")
  /\ UNCHANGED <<exists, chunks, others, folder>>

-----------------------------------------------------------------------------
(* The surroundings of the runs *)

\* Somebody puts, removes or replaces documents.
ChangeDocuments ==
  /\ folder' \in Folders
  /\ UNCHANGED <<exists, chunks, pending, writer, others, pc, plan, found, result, alone>>

\* Another program takes or releases its lock; there is one writer at a time,
\* and nobody starts to read while a commit is under way.
OtherProgram ==
  /\ others' \in {"none", "reading"} \cup (IF writer = NoRun THEN {"writing"} ELSE {})
  /\ UNCHANGED <<exists, chunks, pending, writer, folder, pc, plan, found, result, alone>>

Statement(r) ==
  Drop(r) \/ Create(r) \/ SkipDocument(r) \/ InsertDocument(r) \/ Commit(r)
    \/ ExtractFails(r) \/ Collide(r)

Next ==
  \/ \E r \in Runs : \/ \E m \in Manifests : Load(r, m)
                     \/ Statement(r) \/ LockTimeout(r) \/ Crash(r)
  \/ ChangeDocuments
  \/ OtherProgram

Spec == Init /\ [][Next]_vars

\* A started run keeps executing; a statement that waits times out.
Fairness == \A r \in Runs : WF_vars(Statement(r) \/ LockTimeout(r))

FairSpec == Spec /\ Fairness

-----------------------------------------------------------------------------
(* Properties *)

\* The index of the documents of manifest m read so far: x[1], x[2], ...
IndexOf(m, x) ==
  LET upto[n \in 0..Len(x)] ==
        IF n = 0 THEN <<>> ELSE upto[n - 1] \o ChunksOf(m[n], x[n])
  IN  upto[Len(x)]

EndsWith(s, end) ==
  /\ Len(end) <= Len(s)
  /\ \A i \in 1..Len(end) : s[Len(s) - Len(end) + i] = end[i]

\* A run nobody overlaps, whatever earlier failures left behind, never
\* collides, and its success makes the index exactly the sections of the
\* documents it found, each once, numbered in manifest order; a document that
\* was not there is left out and shifts nothing else's order.
SoloIndexExact ==
  [][\A r \in Runs :
       alone[r] /\ ~Active(r)' =>
         /\ result'[r] # "collision"
         /\ result'[r] = "success" => chunks' = IndexOf(plan[r], found[r])]_vars

\* Even when runs overlap, the sections a run reports indexed are consecutive
\* in the index, complete and in manifest order, at the moment it reports.
SuccessIndexesAll ==
  [][\A r \in Runs :
       Active(r) /\ result'[r] = "success" /\ IndexOf(plan[r], found[r]) # <<>> =>
         EndsWith(chunks', IndexOf(plan[r], found[r]))]_vars

\* Each row stands among the other sections of its document, in their order.
Whole(s) ==
  \A i \in 1..Len(s) :
    LET next(n) == [s[i] EXCEPT !.section = n] IN
      /\ s[i].section <= SectionsOf[s[i].text]
      /\ s[i].section > 1 => i > 1 /\ s[i - 1] = next(s[i].section - 1)
      /\ s[i].section < SectionsOf[s[i].text] => i < Len(s) /\ s[i + 1] = next(s[i].section + 1)

\* However many runs overlap, fail or are killed, list_doc_chunks never sees
\* part of a document, nor its sections out of order or mixed with another's.
DocumentsWhole == Whole(chunks)

\* Every run that starts ends.
RunsEnd == \A r \in Runs : Active(r) ~> ~Active(r)

\* "rebuilds the doc_chunks table. Safe to re-run at any time": a rebuilt
\* index holds each section of each document once.
NoDuplicateChunks ==
  \A i, j \in DOMAIN chunks : chunks[i] = chunks[j] => i = j
=============================================================================
