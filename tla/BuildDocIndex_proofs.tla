------------------------ MODULE BuildDocIndex_proofs ------------------------
(***************************************************************************)
(* Theorems about BuildDocIndex for any manifests, documents and number of *)
(* runs.  The inductive invariant says that a run's sections so far are    *)
(* exactly the open transaction when it holds the write lock, and none     *)
(* when it does not; and what a run that is alone finds in the file.       *)
(* DocumentsStayWhole holds however the runs overlap, the theorems whose   *)
(* names begin with Solo while each has ended before the next begins.      *)
(* StatementsRunOut gives the measure by which every run ends.             *)
(***************************************************************************)
EXTENDS BuildDocIndex, SequenceTheorems, WellFoundedInduction, TLAPS

\* A set of numbers with 0 and with every successor is all of them.
LEMMA Induct ==
  ASSUME NEW S \in SUBSET Nat, 0 \in S, \A n \in S : n + 1 \in S
  PROVE  S = Nat
<1> SUFFICES ASSUME Nat \ S # {} PROVE FALSE
  OBVIOUS
<1> DEFINE R == OpToRel(<, Nat)
<1>1. IsWellFoundedOn(R, Nat)
  BY NatLessThanWellFounded
<1>2. \A i, j \in Nat : i < j => <<i, j>> \in R
  BY DEF OpToRel
<1> HIDE DEF R
<1>3. PICK m \in Nat \ S : \A k \in Nat \ S : <<k, m>> \notin R
  BY <1>1, WFMin
<1>4. m # 0 /\ m - 1 \in Nat /\ m - 1 < m /\ (m - 1) + 1 = m
  BY <1>3
<1>5. m - 1 \in S
  BY <1>2, <1>3, <1>4
<1> QED
  BY <1>3, <1>4, <1>5

-----------------------------------------------------------------------------
(* The index of the documents read so far *)

\* The index after each of the documents read.
Indexing(m, x, upto) ==
  upto = [n \in 0..Len(x) |->
            IF n = 0 THEN <<>> ELSE upto[n - 1] \o ChunksOf(m[n], x[n])]

LEMMA IndexingExists ==
  ASSUME NEW m, NEW x, Len(x) \in Nat
  PROVE  \E upto : Indexing(m, x, upto) /\ IndexOf(m, x) = upto[Len(x)]
<1> DEFINE First(N, g) ==
             g = [n \in 0..N |-> IF n = 0 THEN <<>> ELSE g[n - 1] \o ChunksOf(m[n], x[n])]
           OK == {N \in Nat : \E g : First(N, g)}
<1>1. 0 \in OK
  <2> DEFINE g == [n \in 0..0 |-> <<>>]
  <2>1. First(0, g)
    OBVIOUS
  <2> QED
    BY <2>1
<1>2. ASSUME NEW N \in OK PROVE N + 1 \in OK
  <2>1. PICK g : First(N, g)
    OBVIOUS
  <2> DEFINE h == [n \in 0..(N + 1) |->
                     IF n = 0 THEN <<>> ELSE g[n - 1] \o ChunksOf(m[n], x[n])]
  <2>2. \A n \in 0..N : n \in 0..(N + 1) /\ h[n] = g[n]
    <3>1. N \in Nat
      OBVIOUS
    <3>2. \A n \in 0..N : n \in 0..(N + 1)
      BY <3>1
    <3>3. \A n \in 0..N : h[n] = IF n = 0 THEN <<>> ELSE g[n - 1] \o ChunksOf(m[n], x[n])
      BY <3>2, Zenon
    <3>4. \A n \in 0..N : g[n] = IF n = 0 THEN <<>> ELSE g[n - 1] \o ChunksOf(m[n], x[n])
      BY <2>1, Zenon
    <3> QED
      BY <3>2, <3>3, <3>4, Zenon
  <2>3. First(N + 1, h)
    <3>1. \A n \in 0..(N + 1) : n # 0 => n - 1 \in 0..N
      <4>1. N \in Nat
        OBVIOUS
      <4> HIDE DEF h, First, OK
      <4> QED
        BY <4>1
    <3>2. \A n \in 0..(N + 1) : n # 0 => g[n - 1] = h[n - 1]
      <4> HIDE DEF h, First, OK
      <4> QED
        BY <2>2, <3>1, Zenon
    <3> QED
      BY <3>2, Zenon
  <2> HIDE DEF h, First
  <2>4. N + 1 \in Nat
    OBVIOUS
  <2> QED
    BY <2>3, <2>4
<1> HIDE DEF OK
<1>3. OK = Nat
  BY <1>1, <1>2, Induct DEF OK
<1>4. \E g : First(Len(x), g)
  BY <1>3 DEF OK
<1>5. /\ Indexing(m, x, CHOOSE g : First(Len(x), g))
      /\ IndexOf(m, x) = (CHOOSE g : First(Len(x), g))[Len(x)]
  BY <1>4, Zenon DEF Indexing, IndexOf
<1> QED
  BY <1>5

\* Nothing has been read, nothing is indexed.
LEMMA IndexOfNothing ==
  ASSUME NEW m
  PROVE  IndexOf(m, <<>>) = <<>>
<1>1. Len(<<>>) = 0
  OBVIOUS
<1>2. PICK upto : Indexing(m, <<>>, upto) /\ IndexOf(m, <<>>) = upto[Len(<<>>)]
  BY <1>1, IndexingExists
<1>3. upto[0] = <<>>
  BY <1>1, <1>2 DEF Indexing
<1> QED
  BY <1>1, <1>2, <1>3

\* The next document's sections are indexed after those before them.
LEMMA IndexOfNext ==
  ASSUME NEW m, NEW T, NEW x \in Seq(T), NEW t \in T
  PROVE  IndexOf(m, Append(x, t)) = IndexOf(m, x) \o ChunksOf(m[Len(x) + 1], t)
<1> DEFINE y == Append(x, t)
           N == Len(x)
<1>1. /\ N \in Nat /\ Len(y) = N + 1 /\ y[N + 1] = t
      /\ \A n \in 1..N : y[n] = x[n]
  OBVIOUS
<1>2. PICK f : Indexing(m, x, f) /\ IndexOf(m, x) = f[N]
  BY <1>1, IndexingExists
<1> HIDE DEF y, N
<1>3. PICK g : Indexing(m, y, g) /\ IndexOf(m, y) = g[N + 1]
  <2>1. Len(y) \in Nat
    BY <1>1
  <2> QED
    BY <1>1, <2>1, IndexingExists
<1>4. f[0] = <<>> /\ g[0] = <<>>
  BY <1>1, <1>2, <1>3 DEF Indexing, N
<1>5. \A n \in 1..N : f[n] = f[n - 1] \o ChunksOf(m[n], x[n])
  BY <1>1, <1>2 DEF Indexing, N
<1>6. \A n \in 1..(N + 1) : g[n] = g[n - 1] \o ChunksOf(m[n], y[n])
  BY <1>1, <1>3 DEF Indexing
<1> DEFINE OK == {n \in Nat : n <= N => f[n] = g[n]}
<1>7. 0 \in OK
  BY <1>4
<1>8. ASSUME NEW n \in OK PROVE n + 1 \in OK
  <2>1. n \in Nat /\ n + 1 \in Nat
    OBVIOUS
  <2> SUFFICES ASSUME n + 1 <= N PROVE f[n + 1] = g[n + 1]
    BY <2>1
  <2>2. n + 1 \in 1..N /\ n + 1 \in 1..(N + 1) /\ (n + 1) - 1 = n /\ n <= N
    BY <1>1, <2>1
  <2>3. f[n] = g[n]
    BY <2>2
  <2> HIDE DEF OK
  <2>4. f[n + 1] = f[n] \o ChunksOf(m[n + 1], x[n + 1])
    BY <1>5, <2>2
  <2>5. g[n + 1] = g[n] \o ChunksOf(m[n + 1], y[n + 1])
    BY <1>6, <2>2
  <2> QED
    BY <1>1, <2>2, <2>3, <2>4, <2>5
<1> HIDE DEF OK
<1>9. OK = Nat
  BY <1>7, <1>8, Induct DEF OK
<1>10. f[N] = g[N]
  BY <1>1, <1>9 DEF OK
<1>11. N + 1 \in 1..(N + 1) /\ (N + 1) - 1 = N
  BY <1>1
<1>12. g[N + 1] = g[N] \o ChunksOf(m[N + 1], t)
  BY <1>1, <1>6, <1>11
<1> QED
  BY <1>2, <1>3, <1>10, <1>12 DEF y, N

\* The chunks of a document are chunks.
LEMMA ChunksOfType ==
  ASSUME NEW d \in Entry, NEW x
  PROVE  ChunksOf(d, x) \in Seq(Chunk)
<1>1. CASE x \notin Texts
  BY <1>1 DEF ChunksOf
<1>2. CASE x \in Texts
  <2>1. SectionsOf[x] \in Nat
    BY <1>2, SectionsAssumption
  <2>2. ASSUME NEW i \in 1..SectionsOf[x]
        PROVE  [filename |-> d.filename, customer_account_id |-> d.customer_account_id,
                text |-> x, section |-> i] \in Chunk
    BY <1>2, <2>1 DEF Chunk, Entry
  <2> QED
    BY <1>2, <2>1, <2>2 DEF ChunksOf
<1> QED
  BY <1>1, <1>2

-----------------------------------------------------------------------------
(* The inductive invariant *)

\* Only a run that is inserting, into a table that is there, has a transaction.
WriterInserts == writer # NoRun => pc[writer] = "documents" /\ exists

\* The open transaction is all a run has indexed, and there is no other.
Collected ==
  \A r \in Runs : IndexOf(plan[r], found[r]) = IF writer = r THEN pending ELSE <<>>

FoundOnlyReading == \A r \in Runs : pc[r] # "documents" => found[r] = <<>>

\* A run that is alone meets only what it made itself.
AloneIsAlone ==
  \A r \in Runs : alone[r] =>
    /\ Active(r) /\ \A q \in Runs : Active(q) => q = r
    /\ pc[r] = "create" => ~exists
    /\ pc[r] = "documents" => exists /\ chunks = <<>>

ResultPending == \A r \in Runs : Active(r) => result[r] = "none"

IInv ==
  /\ TypeOK
  /\ WriterInserts
  /\ Collected
  /\ FoundOnlyReading
  /\ ResultPending
  /\ AloneIsAlone

LEMMA InitInvariant == Init => IInv
<1> SUFFICES ASSUME Init PROVE IInv
  OBVIOUS
<1>1. TypeOK
  <2>1. <<>> \in Seq(Chunk) /\ <<>> \in Seq(Texts \cup {Absent}) /\ Len(<<>>) <= Len(<<>>)
    OBVIOUS
  <2> QED
    BY <2>1 DEF Init, TypeOK, Phases, Results
<1>2. Collected
  BY IndexOfNothing DEF Init, Collected
<1> QED
  BY <1>1, <1>2 DEF Init, IInv, WriterInserts, FoundOnlyReading, ResultPending, AloneIsAlone, Active

\* The entries of a loaded manifest.
LEMMA PlanType ==
  ASSUME TypeOK, NEW r \in Runs
  PROVE  plan[r] \in Seq(Entry) /\ found[r] \in Seq(Texts \cup {Absent})
BY ManifestsAssumption DEF TypeOK

LEMMA LoadInvariant ==
  ASSUME IInv, NEW r \in Runs, NEW m \in Manifests, Load(r, m)
  PROVE  IInv'
<1>1. /\ pc[r] = "idle" /\ pc' = [pc EXCEPT ![r] = "drop"]
      /\ plan' = [plan EXCEPT ![r] = m]
      /\ result' = [result EXCEPT ![r] = "none"]
      /\ alone' = [q \in Runs |-> q = r /\ \A p \in Runs : ~Active(p)]
      /\ exists' = exists /\ chunks' = chunks /\ pending' = pending /\ writer' = writer
      /\ others' = others /\ folder' = folder /\ found' = found
  BY DEF Load, Active
<1>2. /\ pc \in [Runs -> Phases] /\ plan \in [Runs -> Manifests \cup {<<>>}]
      /\ found[r] = <<>> /\ writer # r
  BY <1>1, NoRunAssumption DEF IInv, TypeOK, FoundOnlyReading, WriterInserts
<1>3. TypeOK'
  <2>1. Len(found[r]) <= Len(m)
    BY <1>2, ManifestsAssumption
  <2>2. \A q \in Runs : Len(found'[q]) <= Len(plan'[q])
    BY <1>1, <1>2, <2>1 DEF IInv, TypeOK
  <2>3. pc' \in [Runs -> Phases] /\ plan' \in [Runs -> Manifests \cup {<<>>}]
        /\ result' \in [Runs -> Results] /\ alone' \in [Runs -> BOOLEAN]
    BY <1>1, <1>2 DEF IInv, TypeOK, Phases, Results
  <2> QED
    BY <1>1, <2>2, <2>3 DEF IInv, TypeOK
<1>4. WriterInserts'
  BY <1>1, <1>2 DEF IInv, WriterInserts, TypeOK
<1>5. Collected'
  <2> SUFFICES ASSUME NEW q \in Runs
               PROVE  IndexOf(plan'[q], found'[q]) = IF writer' = q THEN pending' ELSE <<>>
    BY DEF Collected
  <2>1. CASE q = r
    BY <1>1, <1>2, <2>1, IndexOfNothing
  <2>2. CASE q # r
    BY <1>1, <1>2, <2>2 DEF IInv, Collected
  <2> QED
    BY <2>1, <2>2
<1>6. FoundOnlyReading' /\ ResultPending'
  BY <1>1, <1>2 DEF IInv, TypeOK, FoundOnlyReading, ResultPending, Active
<1>7. AloneIsAlone'
  <2> SUFFICES ASSUME NEW q \in Runs, alone'[q]
               PROVE  /\ Active(q)' /\ \A p \in Runs : Active(p)' => p = q
                      /\ pc'[q] = "create" => ~exists'
                      /\ pc'[q] = "documents" => exists' /\ chunks' = <<>>
    BY DEF AloneIsAlone
  <2>1. q = r /\ \A p \in Runs : pc[p] = "idle"
    BY <1>1 DEF Active
  <2> QED
    BY <1>1, <1>2, <2>1 DEF Active
<1> QED
  BY <1>3, <1>4, <1>5, <1>6, <1>7 DEF IInv

\* However a run ends, with its transaction committed or rolled back.
LEMMA EndInvariant ==
  ASSUME IInv, NEW r \in Runs, Active(r), NEW how \in Results, End(r, how),
         exists' = exists, others' = others, folder' = folder,
         chunks' \in Seq(Chunk), ~exists => chunks' = <<>>
  PROVE  IInv'
<1>1. /\ pc' = [pc EXCEPT ![r] = "idle"]
      /\ plan' = [plan EXCEPT ![r] = <<>>]
      /\ found' = [found EXCEPT ![r] = <<>>]
      /\ result' = [result EXCEPT ![r] = how]
      /\ alone' = [alone EXCEPT ![r] = FALSE]
      /\ writer = r => writer' = NoRun /\ pending' = <<>>
      /\ writer # r => writer' = writer /\ pending' = pending
  BY DEF End
<1>2. /\ pc \in [Runs -> Phases] /\ plan \in [Runs -> Manifests \cup {<<>>}]
      /\ found \in [Runs -> Seq(Texts \cup {Absent})] /\ alone \in [Runs -> BOOLEAN]
      /\ writer \in Runs \cup {NoRun}
  BY DEF IInv, TypeOK
<1>3. TypeOK'
  <2>1. pc' \in [Runs -> Phases] /\ plan' \in [Runs -> Manifests \cup {<<>>}]
        /\ result' \in [Runs -> Results] /\ alone' \in [Runs -> BOOLEAN]
    BY <1>1, <1>2 DEF IInv, TypeOK, Phases
  <2>2. found' \in [Runs -> Seq(Texts \cup {Absent})]
    BY <1>1, <1>2
  <2>3. \A q \in Runs : Len(found'[q]) <= Len(plan'[q])
    BY <1>1, <1>2 DEF IInv, TypeOK
  <2>4. /\ writer' \in Runs \cup {NoRun} /\ pending' \in Seq(Chunk)
        /\ writer' = NoRun => pending' = <<>>
    <3>1. /\ pending \in Seq(Chunk) /\ <<>> \in Seq(Chunk)
          /\ writer = NoRun => pending = <<>>
      BY DEF IInv, TypeOK
    <3>2. CASE writer = r
      BY <1>1, <3>1, <3>2
    <3>3. CASE writer # r
      BY <1>1, <1>2, <3>1, <3>3
    <3> QED
      BY <3>2, <3>3
  <2> QED
    BY <2>1, <2>2, <2>3, <2>4 DEF IInv, TypeOK
<1>4. WriterInserts'
  BY <1>1, <1>2 DEF IInv, WriterInserts
<1>5. Collected'
  <2> SUFFICES ASSUME NEW q \in Runs
               PROVE  IndexOf(plan'[q], found'[q]) = IF writer' = q THEN pending' ELSE <<>>
    BY DEF Collected
  <2>1. CASE q = r
    <3>1. writer' # r
      BY <1>1, NoRunAssumption
    <3> QED
      BY <1>1, <1>2, <2>1, <3>1, IndexOfNothing
  <2>2. CASE q # r
    <3>1. IndexOf(plan'[q], found'[q]) = IndexOf(plan[q], found[q])
      BY <1>1, <1>2, <2>2
    <3>2. writer' = q <=> writer = q
      BY <1>1, <2>2, NoRunAssumption
    <3>3. writer = q => pending' = pending
      BY <1>1, <2>2
    <3> QED
      BY <3>1, <3>2, <3>3 DEF IInv, Collected
  <2> QED
    BY <2>1, <2>2
<1>6. FoundOnlyReading' /\ ResultPending'
  BY <1>1, <1>2 DEF IInv, TypeOK, FoundOnlyReading, ResultPending, Active
<1>7. AloneIsAlone'
  <2>1. \A q \in Runs : ~alone'[q]
    BY <1>1, <1>2 DEF IInv, AloneIsAlone
  <2> QED
    BY <2>1 DEF AloneIsAlone
<1> QED
  BY <1>3, <1>4, <1>5, <1>6, <1>7 DEF IInv

LEMMA DropInvariant ==
  ASSUME IInv, NEW r \in Runs, Drop(r)
  PROVE  IInv'
<1>1. /\ pc[r] = "drop" /\ (exists => writer \in {r, NoRun})
      /\ exists' = FALSE /\ chunks' = <<>> /\ pc' = [pc EXCEPT ![r] = "create"]
      /\ pending' = pending /\ writer' = writer /\ others' = others /\ folder' = folder
      /\ plan' = plan /\ found' = found /\ result' = result /\ alone' = alone
  BY DEF Drop, MayCommit
<1>2. pc \in [Runs -> Phases] /\ writer = NoRun
  BY <1>1 DEF IInv, TypeOK, WriterInserts
<1>3. TypeOK'
  <2>1. pc' \in [Runs -> Phases]
    BY <1>1, <1>2 DEF Phases
  <2>2. exists' \in BOOLEAN /\ chunks' \in Seq(Chunk) /\ (~exists' => chunks' = <<>>)
    BY <1>1, EmptySeq DEF IInv, TypeOK
  <2> QED
    BY <1>1, <2>1, <2>2 DEF IInv, TypeOK
<1>4. WriterInserts' /\ Collected' /\ FoundOnlyReading' /\ ResultPending'
  BY <1>1, <1>2
  DEF IInv, WriterInserts, Collected, FoundOnlyReading, ResultPending, Active
<1>5. AloneIsAlone'
  BY <1>1, <1>2 DEF IInv, AloneIsAlone, Active
<1> QED
  BY <1>3, <1>4, <1>5 DEF IInv

LEMMA CreateInvariant ==
  ASSUME IInv, NEW r \in Runs, Create(r)
  PROVE  IInv'
<1>1. /\ pc[r] = "create" /\ ~exists
      /\ exists' = TRUE /\ pc' = [pc EXCEPT ![r] = "documents"]
      /\ chunks' = chunks /\ pending' = pending /\ writer' = writer
      /\ others' = others /\ folder' = folder
      /\ plan' = plan /\ found' = found /\ result' = result /\ alone' = alone
  BY DEF Create
<1>2. pc \in [Runs -> Phases] /\ writer = NoRun /\ chunks = <<>>
  BY <1>1 DEF IInv, TypeOK, WriterInserts
<1>3. TypeOK'
  <2>1. pc' \in [Runs -> Phases]
    BY <1>1, <1>2 DEF Phases
  <2>2. exists' \in BOOLEAN /\ chunks' \in Seq(Chunk) /\ (~exists' => chunks' = <<>>)
    BY <1>1, EmptySeq DEF IInv, TypeOK
  <2> QED
    BY <1>1, <2>1, <2>2 DEF IInv, TypeOK
<1>4. WriterInserts' /\ Collected' /\ FoundOnlyReading' /\ ResultPending'
  BY <1>1, <1>2
  DEF IInv, WriterInserts, Collected, FoundOnlyReading, ResultPending, Active
<1>5. AloneIsAlone'
  BY <1>1, <1>2 DEF IInv, AloneIsAlone, Active
<1> QED
  BY <1>3, <1>4, <1>5 DEF IInv

\* What reading one more document, of text t, adds to a run's index.
LEMMA OneMore ==
  ASSUME TypeOK, NEW r \in Runs, Reading(r), NEW t \in Texts \cup {Absent},
         found' = [found EXCEPT ![r] = Append(@, t)], plan' = plan
  PROVE  /\ found' \in [Runs -> Seq(Texts \cup {Absent})]
         /\ \A q \in Runs : Len(found'[q]) <= Len(plan'[q])
         /\ Current(r) \in Entry
         /\ IndexOf(plan'[r], found'[r]) = IndexOf(plan[r], found[r]) \o ChunksOf(Current(r), t)
         /\ \A q \in Runs \ {r} : IndexOf(plan'[q], found'[q]) = IndexOf(plan[q], found[q])
<1> DEFINE T == Texts \cup {Absent}
<1>1. found \in [Runs -> Seq(T)] /\ plan[r] \in Seq(Entry)
  BY PlanType DEF TypeOK
<1>2. found[r] \in Seq(T) /\ Len(found[r]) \in Nat /\ Len(found[r]) < Len(plan[r])
  BY <1>1 DEF Reading
<1>3. /\ Append(found[r], t) \in Seq(T)
      /\ Len(Append(found[r], t)) = Len(found[r]) + 1
  BY <1>2, AppendProperties
<1>4. /\ found'[r] = Append(found[r], t) /\ \A q \in Runs \ {r} : found'[q] = found[q]
      /\ found' \in [Runs -> Seq(T)]
  BY <1>1, <1>3
<1>5. Len(found'[r]) <= Len(plan'[r])
  BY <1>1, <1>2, <1>3, <1>4
<1>6. Current(r) \in Entry
  BY <1>1, <1>2 DEF Current
<1>7. IndexOf(plan[r], Append(found[r], t)) =
        IndexOf(plan[r], found[r]) \o ChunksOf(Current(r), t)
  BY <1>2, IndexOfNext DEF Current
<1> QED
  BY <1>4, <1>5, <1>6, <1>7 DEF TypeOK

LEMMA SkipInvariant ==
  ASSUME IInv, NEW r \in Runs, SkipDocument(r)
  PROVE  IInv'
<1>1. /\ Reading(r)
      /\ found' = [found EXCEPT ![r] = Append(@, Absent)]
      /\ exists' = exists /\ chunks' = chunks /\ pending' = pending /\ writer' = writer
      /\ others' = others /\ folder' = folder /\ pc' = pc
      /\ plan' = plan /\ result' = result /\ alone' = alone
  BY DEF SkipDocument
<1>2. /\ found' \in [Runs -> Seq(Texts \cup {Absent})]
      /\ \A q \in Runs : Len(found'[q]) <= Len(plan'[q])
      /\ IndexOf(plan'[r], found'[r]) = IndexOf(plan[r], found[r]) \o ChunksOf(Current(r), Absent)
      /\ \A q \in Runs \ {r} : IndexOf(plan'[q], found'[q]) = IndexOf(plan[q], found[q])
  BY <1>1, OneMore DEF IInv
<1>3. IndexOf(plan'[r], found'[r]) = IndexOf(plan[r], found[r])
  <2>1. ChunksOf(Current(r), Absent) = <<>>
    BY TextsAssumption DEF ChunksOf
  <2>2. IndexOf(plan[r], found[r]) \in Seq(Chunk)
    BY EmptySeq DEF IInv, Collected, TypeOK
  <2> QED
    BY <1>2, <2>1, <2>2, ConcatEmptySeq
<1>4. TypeOK'
  BY <1>1, <1>2 DEF IInv, TypeOK
<1>5. Collected'
  BY <1>1, <1>2, <1>3 DEF IInv, Collected
<1>6. FoundOnlyReading'
  BY <1>1 DEF IInv, TypeOK, FoundOnlyReading, Reading
<1>7. WriterInserts' /\ ResultPending' /\ AloneIsAlone'
  BY <1>1 DEF IInv, WriterInserts, ResultPending, AloneIsAlone, Active
<1> QED
  BY <1>4, <1>5, <1>6, <1>7 DEF IInv

LEMMA InsertInvariant ==
  ASSUME IInv, NEW r \in Runs, InsertDocument(r)
  PROVE  IInv'
<1> DEFINE s == ChunksOf(Current(r), At(r))
<1>1. /\ Reading(r) /\ At(r) \in Texts /\ exists
      /\ s = <<>> => writer' = writer
      /\ s # <<>> => writer \in {r, NoRun} /\ writer' = r
      /\ pending' = pending \o s
      /\ found' = [found EXCEPT ![r] = Append(@, At(r))]
      /\ exists' = exists /\ chunks' = chunks
      /\ others' = others /\ folder' = folder /\ pc' = pc
      /\ plan' = plan /\ result' = result /\ alone' = alone
  BY DEF InsertDocument, MayWrite, Sections
<1>2. /\ found' \in [Runs -> Seq(Texts \cup {Absent})]
      /\ \A q \in Runs : Len(found'[q]) <= Len(plan'[q])
      /\ Current(r) \in Entry
      /\ IndexOf(plan'[r], found'[r]) = IndexOf(plan[r], found[r]) \o s
      /\ \A q \in Runs \ {r} : IndexOf(plan'[q], found'[q]) = IndexOf(plan[q], found[q])
  BY <1>1, OneMore DEF IInv
<1>3. s \in Seq(Chunk) /\ pending \in Seq(Chunk)
  BY <1>2, ChunksOfType DEF IInv, TypeOK
<1> HIDE DEF s
<1>4. pending' \in Seq(Chunk) /\ (s = <<>> => pending' = pending)
  BY <1>1, <1>3, ConcatProperties, ConcatEmptySeq
<1>5. /\ writer \in Runs \cup {NoRun} /\ (writer = NoRun => pending = <<>>)
      /\ \A q \in Runs : IndexOf(plan[q], found[q]) = IF writer = q THEN pending ELSE <<>>
      /\ pc[r] = "documents"
  BY <1>1 DEF IInv, TypeOK, Collected, Reading
<1>6. TypeOK'
  <2>1. writer' \in Runs \cup {NoRun} /\ (writer' = NoRun => pending' = <<>>)
    BY <1>1, <1>4, <1>5, NoRunAssumption
  <2> QED
    BY <1>1, <1>2, <1>4, <2>1 DEF IInv, TypeOK
<1>7. Collected'
  <2> SUFFICES ASSUME NEW q \in Runs
               PROVE  IndexOf(plan'[q], found'[q]) = IF writer' = q THEN pending' ELSE <<>>
    BY DEF Collected
  <2>1. CASE s = <<>>
    <3>1. IndexOf(plan[r], found[r]) \in Seq(Chunk)
      BY <1>3, <1>5, EmptySeq
    <3>2. IndexOf(plan'[r], found'[r]) = IndexOf(plan[r], found[r])
      BY <1>2, <2>1, <3>1, ConcatEmptySeq
    <3> QED
      BY <1>1, <1>2, <1>4, <1>5, <2>1, <3>2
  <2>2. CASE s # <<>> /\ q = r
    <3>1. IndexOf(plan[r], found[r]) = pending
      BY <1>1, <1>5, <2>2
    <3> QED
      BY <1>1, <1>2, <2>2, <3>1
  <2>3. CASE s # <<>> /\ q # r
    BY <1>1, <1>2, <1>5, <2>3, NoRunAssumption
  <2> QED
    BY <2>1, <2>2, <2>3
<1>8. FoundOnlyReading'
  BY <1>1, <1>5 DEF IInv, TypeOK, FoundOnlyReading
<1>9. WriterInserts' /\ ResultPending' /\ AloneIsAlone'
  BY <1>1, <1>5 DEF IInv, WriterInserts, ResultPending, AloneIsAlone, Active
<1> QED
  BY <1>6, <1>7, <1>8, <1>9 DEF IInv

LEMMA CommitInvariant ==
  ASSUME IInv, NEW r \in Runs, Commit(r)
  PROVE  IInv'
<1>1. /\ pc[r] = "documents"
      /\ chunks' = IF writer = r THEN chunks \o pending ELSE chunks
      /\ End(r, "success")
      /\ exists' = exists /\ others' = others /\ folder' = folder
  BY DEF Commit
<1>2. chunks \in Seq(Chunk) /\ pending \in Seq(Chunk) /\ (~exists => chunks = <<>>)
  BY DEF IInv, TypeOK
<1>3. chunks' \in Seq(Chunk)
  BY <1>1, <1>2, ConcatProperties
<1>4. ~exists => chunks' = <<>>
  BY <1>1, <1>2, NoRunAssumption DEF IInv, WriterInserts
<1> QED
  BY <1>1, <1>3, <1>4, EndInvariant DEF Active, Results

LEMMA FailureInvariant ==
  ASSUME IInv, NEW r \in Runs,
         ExtractFails(r) \/ Collide(r) \/ LockTimeout(r) \/ Crash(r)
  PROVE  IInv'
<1>1. PICK how \in Results : End(r, how)
  BY DEF ExtractFails, Collide, LockTimeout, Crash, Results
<1>2. /\ Active(r) /\ exists' = exists /\ chunks' = chunks
      /\ others' = others /\ folder' = folder
  BY DEF ExtractFails, Collide, LockTimeout, Crash, Active, Reading
<1> QED
  BY <1>1, <1>2, EndInvariant DEF IInv, TypeOK

LEMMA StepInvariant == IInv /\ [Next]_vars => IInv'
<1> SUFFICES ASSUME IInv, [Next]_vars PROVE IInv'
  OBVIOUS
<1>1. CASE ChangeDocuments \/ OtherProgram
  <2>1. /\ exists' = exists /\ chunks' = chunks /\ pending' = pending /\ writer' = writer
        /\ pc' = pc /\ plan' = plan /\ found' = found /\ result' = result /\ alone' = alone
        /\ folder' \in Folders /\ others' \in {"none", "reading", "writing"}
    BY <1>1 DEF ChangeDocuments, OtherProgram, IInv, TypeOK
  <2> QED
    BY <2>1
    DEF IInv, TypeOK, WriterInserts, Collected, FoundOnlyReading, ResultPending,
        AloneIsAlone, Active
<1>2. CASE UNCHANGED vars
  BY <1>2
  DEF vars, IInv, TypeOK, WriterInserts, Collected, FoundOnlyReading, ResultPending,
      AloneIsAlone, Active
<1>3. ASSUME NEW r \in Runs,
             (\E m \in Manifests : Load(r, m)) \/ Statement(r) \/ LockTimeout(r) \/ Crash(r)
      PROVE  IInv'
  BY <1>3, LoadInvariant, DropInvariant, CreateInvariant, SkipInvariant, InsertInvariant,
     CommitInvariant, FailureInvariant DEF Statement
<1> QED
  BY <1>1, <1>2, <1>3 DEF Next

LEMMA Invariant == Spec => []IInv
BY InitInvariant, StepInvariant, PTL DEF Spec

-----------------------------------------------------------------------------

\* The state keeps its types.
THEOREM TypeCorrect == Spec => []TypeOK
<1>1. IInv => TypeOK
  BY DEF IInv
<1> QED
  BY <1>1, Invariant, PTL

\* A step that ends an active run, by the way it ends.
LEMMA HowItEnds ==
  ASSUME IInv, Next, NEW r \in Runs, Active(r), ~Active(r)'
  PROVE  \/ Commit(r)
         \/ /\ ExtractFails(r) \/ Collide(r) \/ LockTimeout(r) \/ Crash(r)
            /\ result'[r] # "success"
            /\ result'[r] = "collision" => Collide(r)
<1>1. pc \in [Runs -> Phases] /\ result \in [Runs -> Results] /\ pc[r] # "idle" /\ pc'[r] = "idle"
  BY DEF IInv, TypeOK, Active
<1>2. PICK q \in Runs : (\E m \in Manifests : Load(q, m))
                          \/ Statement(q) \/ LockTimeout(q) \/ Crash(q)
  BY <1>1 DEF Next, ChangeDocuments, OtherProgram
<1>3. /\ ~(\E m \in Manifests : Load(q, m))
      /\ ~(Drop(q) \/ Create(q) \/ SkipDocument(q) \/ InsertDocument(q))
  BY <1>1 DEF Load, Drop, Create, SkipDocument, InsertDocument, Active
<1>4. q = r
  BY <1>1, <1>2, <1>3
  DEF Statement, Commit, ExtractFails, Collide, LockTimeout, Crash, End
<1>5. \/ Commit(r)
      \/ ExtractFails(r) \/ Collide(r) \/ LockTimeout(r) \/ Crash(r)
  BY <1>2, <1>3, <1>4 DEF Statement
<1>6. /\ ExtractFails(r) => result'[r] = "unreadable"
      /\ Collide(r) => result'[r] = "collision"
      /\ LockTimeout(r) => result'[r] = "locked"
      /\ Crash(r) => result'[r] = "crashed"
  BY <1>1 DEF ExtractFails, Collide, LockTimeout, Crash, End
<1> QED
  BY <1>5, <1>6

\* What a commit makes of the index.
LEMMA CommitAppends ==
  ASSUME IInv, NEW r \in Runs, Commit(r)
  PROVE  /\ chunks \in Seq(Chunk) /\ IndexOf(plan[r], found[r]) \in Seq(Chunk)
         /\ chunks' = chunks \o IndexOf(plan[r], found[r])
<1>1. IndexOf(plan[r], found[r]) = IF writer = r THEN pending ELSE <<>>
  BY DEF IInv, Collected
<1>2. chunks \in Seq(Chunk) /\ pending \in Seq(Chunk)
  BY DEF IInv, TypeOK
<1>3. chunks' = IF writer = r THEN chunks \o pending ELSE chunks
  BY DEF Commit
<1> QED
  BY <1>1, <1>2, <1>3, EmptySeq, ConcatEmptySeq

\* A run nobody overlaps never collides and leaves exactly its documents.
THEOREM SoloRunsAreExact == Spec => SoloIndexExact
<1>1. ASSUME IInv, [Next]_vars, NEW r \in Runs, alone[r], ~Active(r)'
      PROVE  /\ result'[r] # "collision"
             /\ result'[r] = "success" => chunks' = IndexOf(plan[r], found[r])
  <2>1. /\ Active(r)
        /\ pc[r] = "create" => ~exists
        /\ pc[r] = "documents" => exists /\ chunks = <<>>
    BY <1>1 DEF IInv, AloneIsAlone
  <2>2. Next
    BY <1>1, <2>1 DEF vars, Active
  <2>3. ~Collide(r)
    BY <2>1 DEF Collide, Reading
  <2>4. CASE Commit(r)
    <3>1. chunks = <<>> /\ result'[r] = "success"
      BY <1>1, <2>1, <2>4 DEF Commit, End, IInv, TypeOK
    <3>2. chunks' = <<>> \o IndexOf(plan[r], found[r])
      BY <1>1, <2>4, <3>1, CommitAppends
    <3> QED
      BY <1>1, <2>4, <3>1, <3>2, CommitAppends, ConcatEmptySeq
  <2> QED
    BY <1>1, <2>1, <2>2, <2>3, <2>4, HowItEnds
<1>2. IInv /\ [Next]_vars =>
        [\A r \in Runs :
           alone[r] /\ ~Active(r)' =>
             /\ result'[r] # "collision"
             /\ result'[r] = "success" => chunks' = IndexOf(plan[r], found[r])]_vars
  BY <1>1
<1> QED
  BY <1>2, Invariant, PTL DEF Spec, SoloIndexExact

\* Runs may overlap: a success still ends the index with its own documents.
THEOREM SuccessIsComplete == Spec => SuccessIndexesAll
<1>1. ASSUME IInv, [Next]_vars, NEW r \in Runs, Active(r), result'[r] = "success"
      PROVE  EndsWith(chunks', IndexOf(plan[r], found[r]))
  <2>1. Next /\ result[r] = "none" /\ result \in [Runs -> Results]
    BY <1>1 DEF vars, IInv, ResultPending, TypeOK
  <2>2. ~Active(r)'
    <3> SUFFICES ASSUME Active(r)' PROVE result'[r] = result[r]
      BY <1>1, <2>1
    <3>1. \A q \in Runs : End(q, "crashed") \/ End(q, "locked") \/ End(q, "collision")
                            \/ End(q, "unreadable") \/ End(q, "success") =>
            result'[r] = result[r]
      <4>1. pc \in [Runs -> Phases]
        BY <1>1 DEF IInv, TypeOK
      <4> QED
        BY <2>1, <4>1 DEF End, Active
    <3>2. \A q \in Runs, m \in Manifests : Load(q, m) => result'[r] = result[r]
      BY <1>1, <2>1 DEF Load
    <3>3. CASE ChangeDocuments \/ OtherProgram
      BY <3>3 DEF ChangeDocuments, OtherProgram
    <3>4. ASSUME NEW q \in Runs, Statement(q) \/ LockTimeout(q) \/ Crash(q)
          PROVE  result'[r] = result[r]
      BY <3>1, <3>4
      DEF Statement, Drop, Create, SkipDocument, InsertDocument, Commit, ExtractFails,
          Collide, LockTimeout, Crash
    <3> QED
      BY <2>1, <3>2, <3>3, <3>4 DEF Next
  <2>3. Commit(r)
    BY <1>1, <2>1, <2>2, HowItEnds
  <2> DEFINE own == IndexOf(plan[r], found[r])
  <2>4. chunks \in Seq(Chunk) /\ own \in Seq(Chunk) /\ chunks' = chunks \o own
    BY <1>1, <2>3, CommitAppends
  <2> HIDE DEF own
  <2>5. /\ Len(chunks') = Len(chunks) + Len(own)
        /\ Len(chunks) \in Nat /\ Len(own) \in Nat
        /\ \A i \in 1..Len(own) : chunks'[Len(chunks) + i] = own[i]
    BY <2>4
  <2>6. EndsWith(chunks', own)
    BY <2>5 DEF EndsWith
  <2> QED
    BY <2>6 DEF own
<1>2. IInv /\ [Next]_vars =>
        [\A r \in Runs :
           Active(r) /\ result'[r] = "success" /\ IndexOf(plan[r], found[r]) # <<>> =>
             EndsWith(chunks', IndexOf(plan[r], found[r]))]_vars
  BY <1>1
<1> QED
  BY <1>2, Invariant, PTL DEF Spec, SuccessIndexesAll

-----------------------------------------------------------------------------
(* Any number of overlapping runs: documents *)

LEMMA WholeNothing == Whole(<<>>)
BY DEF Whole

\* The sections split_sections makes of one document are all of them.
LEMMA WholeChunksOf ==
  ASSUME NEW d \in Entry, NEW x
  PROVE  Whole(ChunksOf(d, x))
<1>1. CASE x \notin Texts
  BY <1>1, WholeNothing DEF ChunksOf
<1>2. CASE x \in Texts
  <2> DEFINE s == ChunksOf(d, x)
             n == SectionsOf[x]
             chunk(i) == [filename |-> d.filename, customer_account_id |-> d.customer_account_id,
                          text |-> x, section |-> i]
  <2>1. n \in Nat
    BY <1>2, SectionsAssumption
  <2>2. s = [i \in 1..n |-> chunk(i)] /\ Len(s) = n
    BY <1>2, <2>1 DEF ChunksOf
  <2>3. \A i \in 1..n : s[i] = chunk(i)
    BY <2>2
  <2>4. \A i, j : [chunk(i) EXCEPT !.section = j] = chunk(j)
    OBVIOUS
  <2>5. \A i : chunk(i).section = i /\ chunk(i).text = x
    OBVIOUS
  <2> HIDE DEF s, chunk
  <2>6. ASSUME NEW i \in 1..n
        PROVE  /\ s[i].section <= SectionsOf[s[i].text]
               /\ s[i].section > 1 => i > 1 /\ s[i - 1] = [s[i] EXCEPT !.section = s[i].section - 1]
               /\ s[i].section < SectionsOf[s[i].text] =>
                    i < n /\ s[i + 1] = [s[i] EXCEPT !.section = s[i].section + 1]
    <3>1. s[i] = chunk(i) /\ s[i].section = i /\ s[i].text = x
      BY <2>3, <2>5
    <3>2. i > 1 => i - 1 \in 1..n
      BY <2>1
    <3>3. i < n => i + 1 \in 1..n
      BY <2>1
    <3> QED
      BY <2>1, <2>3, <2>4, <3>1, <3>2, <3>3
  <2> QED
    BY <2>2, <2>6 DEF Whole, s
<1> QED
  BY <1>1, <1>2

\* Whole documents after whole documents are whole documents.
LEMMA WholeConcat ==
  ASSUME NEW s \in Seq(Chunk), NEW t \in Seq(Chunk), Whole(s), Whole(t)
  PROVE  Whole(s \o t)
<1> DEFINE u == s \o t
           m == Len(s)
           n == Len(t)
<1>1. /\ m \in Nat /\ n \in Nat /\ Len(u) = m + n
      /\ \A i \in 1..m : u[i] = s[i]
      /\ \A i \in 1..n : u[m + i] = t[i]
  OBVIOUS
<1> HIDE DEF u, m, n
<1>2. ASSUME NEW i \in 1..(m + n)
      PROVE  /\ u[i].section <= SectionsOf[u[i].text]
             /\ u[i].section > 1 => i > 1 /\ u[i - 1] = [u[i] EXCEPT !.section = u[i].section - 1]
             /\ u[i].section < SectionsOf[u[i].text] =>
                  i < m + n /\ u[i + 1] = [u[i] EXCEPT !.section = u[i].section + 1]
  <2>1. CASE i \in 1..m
    <3>1. u[i] = s[i]
      BY <1>1, <2>1
    <3>2. /\ s[i].section <= SectionsOf[s[i].text]
          /\ s[i].section > 1 => i > 1 /\ s[i - 1] = [s[i] EXCEPT !.section = s[i].section - 1]
          /\ s[i].section < SectionsOf[s[i].text] =>
               i < m /\ s[i + 1] = [s[i] EXCEPT !.section = s[i].section + 1]
      BY <2>1 DEF Whole, m
    <3>3. i > 1 => u[i - 1] = s[i - 1]
      <4>1. i > 1 => i - 1 \in 1..m
        BY <1>1, <2>1
      <4> QED
        BY <1>1, <4>1
    <3>4. i < m => i < m + n /\ u[i + 1] = s[i + 1]
      <4>1. i < m => i + 1 \in 1..m /\ i < m + n
        BY <1>1, <2>1
      <4> QED
        BY <1>1, <4>1
    <3> QED
      BY <3>1, <3>2, <3>3, <3>4
  <2>2. CASE i \notin 1..m
    <3> DEFINE j == i - m
    <3>1. j \in 1..n /\ i = m + j
      BY <1>1, <2>2
    <3>2. u[i] = t[j]
      BY <1>1, <3>1
    <3>3. /\ t[j].section <= SectionsOf[t[j].text]
          /\ t[j].section > 1 => j > 1 /\ t[j - 1] = [t[j] EXCEPT !.section = t[j].section - 1]
          /\ t[j].section < SectionsOf[t[j].text] =>
               j < n /\ t[j + 1] = [t[j] EXCEPT !.section = t[j].section + 1]
      BY <3>1 DEF Whole, n
    <3>4. j > 1 => i > 1 /\ u[i - 1] = t[j - 1]
      <4>1. j > 1 => j - 1 \in 1..n /\ i > 1 /\ i - 1 = m + (j - 1)
        BY <1>1, <3>1
      <4> QED
        BY <1>1, <4>1
    <3>5. j < n => i < m + n /\ u[i + 1] = t[j + 1]
      <4>1. j < n => j + 1 \in 1..n /\ i < m + n /\ i + 1 = m + (j + 1)
        BY <1>1, <3>1
      <4> QED
        BY <1>1, <4>1
    <3> HIDE DEF j
    <3> QED
      BY <3>2, <3>3, <3>4, <3>5
  <2> QED
    BY <2>1, <2>2
<1>3. \A i \in 1..Len(u) :
        /\ u[i].section <= SectionsOf[u[i].text]
        /\ u[i].section > 1 => i > 1 /\ u[i - 1] = [u[i] EXCEPT !.section = u[i].section - 1]
        /\ u[i].section < SectionsOf[u[i].text] =>
             i < Len(u) /\ u[i + 1] = [u[i] EXCEPT !.section = u[i].section + 1]
  BY <1>1, <1>2
<1>4. Whole(u)
  BY <1>3, Zenon DEF Whole
<1> QED
  BY <1>4 DEF u

\* However many runs overlap, the index holds whole documents, section after
\* section.
THEOREM DocumentsStayWhole == Spec => []DocumentsWhole
<1> DEFINE WInv == Whole(chunks) /\ Whole(pending)
<1>1. Init => WInv
  BY WholeNothing DEF Init
<1>2. ASSUME IInv, WInv, [Next]_vars PROVE WInv'
  <2>0. /\ chunks \in Seq(Chunk) /\ pending \in Seq(Chunk)
        /\ (Whole(chunks))' <=> Whole(chunks')
        /\ (Whole(pending))' <=> Whole(pending')
    <3>1. chunks \in Seq(Chunk) /\ pending \in Seq(Chunk)
      BY <1>2 DEF IInv, TypeOK
    <3>2. (Whole(chunks))' <=> Whole(chunks')
      BY Zenon DEF Whole
    <3>3. (Whole(pending))' <=> Whole(pending')
      BY Zenon DEF Whole
    <3> QED
      BY <3>1, <3>2, <3>3
  <2> SUFFICES Whole(chunks') /\ Whole(pending')
    BY <2>0
  <2>1. ASSUME NEW r \in Runs, NEW how, End(r, how) PROVE Whole(pending')
    BY <1>2, <2>1, WholeNothing DEF End
  <2>2. ASSUME NEW r \in Runs, Commit(r) PROVE Whole(chunks') /\ Whole(pending')
    <3>1. Whole(chunks \o pending)
      BY <1>2, <2>0, WholeConcat
    <3> QED
      BY <1>2, <2>1, <2>2, <3>1 DEF Commit
  <2>3. ASSUME NEW r \in Runs, InsertDocument(r) PROVE Whole(chunks') /\ Whole(pending')
    <3>1. Current(r) \in Entry
      BY <1>2, <2>3, OneMore DEF InsertDocument, IInv
    <3>2. Sections(r) \in Seq(Chunk) /\ Whole(Sections(r))
      BY <3>1, ChunksOfType, WholeChunksOf DEF Sections
    <3>3. Whole(pending \o Sections(r))
      BY <1>2, <2>0, <3>2, WholeConcat
    <3> QED
      BY <1>2, <2>3, <3>3 DEF InsertDocument
  <2>4. ASSUME NEW r \in Runs, Drop(r) PROVE Whole(chunks') /\ Whole(pending')
    BY <1>2, <2>4, WholeNothing DEF Drop
  <2>5. ASSUME NEW r \in Runs,
               ExtractFails(r) \/ Collide(r) \/ LockTimeout(r) \/ Crash(r)
        PROVE  Whole(chunks') /\ Whole(pending')
    <3>1. chunks' = chunks
      BY <2>5 DEF ExtractFails, Collide, LockTimeout, Crash
    <3>2. Whole(pending')
      BY <2>1, <2>5 DEF ExtractFails, Collide, LockTimeout, Crash
    <3> QED
      BY <1>2, <3>1, <3>2
  <2>6. ASSUME UNCHANGED <<chunks, pending>> PROVE Whole(chunks') /\ Whole(pending')
    BY <1>2, <2>6
  <2>7. ASSUME NEW r \in Runs, (\E m \in Manifests : Load(r, m)) \/ Create(r) \/ SkipDocument(r)
        PROVE  UNCHANGED <<chunks, pending>>
    BY <2>7 DEF Load, Create, SkipDocument
  <2> QED
    BY <1>2, <2>2, <2>3, <2>4, <2>5, <2>6, <2>7
    DEF Next, Statement, ChangeDocuments, OtherProgram, vars
<1>3. WInv => DocumentsWhole
  BY DEF DocumentsWhole
<1> QED
  BY <1>1, <1>2, <1>3, Invariant, PTL DEF Spec

-----------------------------------------------------------------------------
(* Runs that follow one another *)

AtMostOneActive == \A p, r \in Runs : Active(p) /\ Active(r) => p = r

\* A run finds the table empty once it has dropped it.
EmptyForTheRun == \A r \in Runs : pc[r] \in {"create", "documents"} => chunks = <<>>

\* The index is empty, or all that one run has made of one manifest.
OneIndex ==
  \/ chunks = <<>>
  \/ \E m \in Manifests, x \in Seq(Texts \cup {Absent}) :
       Len(x) = Len(m) /\ chunks = IndexOf(m, x)

\* A step that is not a commit leaves the index or empties it, and a run that
\* begins to drop finds no other.
LEMMA SoloStep ==
  ASSUME IInv, AtMostOneActive, EmptyForTheRun, [Next]_vars
  PROVE  /\ EmptyForTheRun'
         /\ \/ \E r \in Runs : Commit(r) /\ chunks = <<>>
            \/ chunks' \in {chunks, <<>>}
<1>0. pc \in [Runs -> Phases]
  BY DEF IInv, TypeOK
<1>1. ASSUME chunks' = chunks, \A r \in Runs : pc'[r] \in {"create", "documents"} =>
                                               pc[r] \in {"create", "documents"}
      PROVE  EmptyForTheRun'
  BY <1>1 DEF EmptyForTheRun
<1>2. ASSUME NEW r \in Runs, NEW how, End(r, how)
      PROVE  \A q \in Runs : pc'[q] \in {"create", "documents"} => q # r /\ pc'[q] = pc[q]
  BY <1>0, <1>2 DEF End
<1>3. ASSUME NEW r \in Runs, NEW m \in Manifests, Load(r, m)
      PROVE  EmptyForTheRun' /\ chunks' = chunks
  BY <1>0, <1>1, <1>3 DEF Load
<1>4. ASSUME NEW r \in Runs, Drop(r)
      PROVE  EmptyForTheRun' /\ chunks' = <<>>
  BY <1>4 DEF Drop, EmptyForTheRun
<1>5. ASSUME NEW r \in Runs, Create(r) \/ SkipDocument(r) \/ InsertDocument(r)
      PROVE  EmptyForTheRun' /\ chunks' = chunks
  BY <1>0, <1>1, <1>5 DEF Create, SkipDocument, InsertDocument
<1>6. ASSUME NEW r \in Runs, ExtractFails(r) \/ Collide(r) \/ LockTimeout(r) \/ Crash(r)
      PROVE  EmptyForTheRun' /\ chunks' = chunks
  BY <1>1, <1>2, <1>6 DEF ExtractFails, Collide, LockTimeout, Crash
<1>7. ASSUME NEW r \in Runs, Commit(r)
      PROVE  EmptyForTheRun' /\ chunks = <<>>
  <2>1. pc[r] = "documents" /\ chunks = <<>>
    BY <1>7 DEF Commit, EmptyForTheRun
  <2>2. \A q \in Runs : pc'[q] \notin {"create", "documents"}
    BY <1>2, <1>7, <2>1 DEF Commit, AtMostOneActive, Active
  <2> QED
    BY <2>1, <2>2 DEF EmptyForTheRun
<1>8. ASSUME ChangeDocuments \/ OtherProgram \/ UNCHANGED vars
      PROVE  EmptyForTheRun' /\ chunks' = chunks
  BY <1>1, <1>8 DEF ChangeDocuments, OtherProgram, vars
<1> QED
  BY <1>3, <1>4, <1>5, <1>6, <1>7, <1>8 DEF Next, Statement

LEMMA SoloInvariant == Spec /\ []AtMostOneActive => []EmptyForTheRun
<1>1. Init => EmptyForTheRun
  BY DEF Init, EmptyForTheRun
<1> QED
  BY <1>1, SoloStep, Invariant, PTL DEF Spec

\* While runs follow one another, however they fail, the index is at any time
\* empty or that of one manifest and the documents one run found for it.
THEOREM SoloIndexIsWhole == Spec /\ []AtMostOneActive => []OneIndex
<1>1. Init => OneIndex
  BY DEF Init, OneIndex
<1>2. ASSUME IInv, AtMostOneActive, EmptyForTheRun, OneIndex, [Next]_vars
      PROVE  OneIndex'
  <2>1. CASE chunks' \in {chunks, <<>>}
    BY <1>2, <2>1 DEF OneIndex
  <2>2. ASSUME NEW r \in Runs, Commit(r), chunks = <<>>
        PROVE  OneIndex'
    <3>1. chunks' = IndexOf(plan[r], found[r])
      BY <1>2, <2>2, CommitAppends, ConcatEmptySeq
    <3>2. /\ plan[r] \in Manifests \cup {<<>>} /\ found[r] \in Seq(Texts \cup {Absent})
          /\ Len(found[r]) = Len(plan[r])
      <4>1. Len(found[r]) \in Nat /\ Len(plan[r]) \in Nat
        BY <1>2, PlanType DEF IInv
      <4> QED
        BY <1>2, <2>2, <4>1 DEF Commit, Reading, IInv, TypeOK
    <3>3. CASE plan[r] = <<>>
      <4>1. found[r] = <<>>
        BY <3>2, <3>3, EmptySeq
      <4> QED
        BY <3>1, <4>1, IndexOfNothing DEF OneIndex
    <3>4. CASE plan[r] \in Manifests
      BY <3>1, <3>2, <3>4 DEF OneIndex
    <3> QED
      BY <3>2, <3>3, <3>4
  <2> QED
    BY <1>2, <2>1, <2>2, SoloStep
<1> QED
  BY <1>1, <1>2, SoloInvariant, Invariant, PTL DEF Spec

\* No manifest names a document twice for the same account.
DistinctEntries ==
  \A m \in Manifests : \A i, j \in 1..Len(m) : m[i] = m[j] => i = j

NoTwice(s) == \A i, j \in 1..Len(s) : s[i] = s[j] => i = j

\* The open transaction has each row once, each of a document already read.
PendingOnce ==
  /\ NoTwice(pending)
  /\ writer # NoRun =>
       \A i \in 1..Len(pending) : \E k \in 1..Len(found[writer]) :
         /\ pending[i].filename = plan[writer][k].filename
         /\ pending[i].customer_account_id = plan[writer][k].customer_account_id

LEMMA NoTwiceConcat ==
  ASSUME NEW s \in Seq(Chunk), NEW t \in Seq(Chunk), NoTwice(s), NoTwice(t),
         \A i \in 1..Len(s), j \in 1..Len(t) : s[i] # t[j]
  PROVE  NoTwice(s \o t)
<1> DEFINE u == s \o t
<1>1. /\ Len(s) \in Nat /\ Len(t) \in Nat /\ Len(u) = Len(s) + Len(t)
      /\ \A i \in 1..Len(u) : \/ i \in 1..Len(s) /\ u[i] = s[i]
                              \/ /\ i - Len(s) \in 1..Len(t)
                                 /\ u[i] = t[i - Len(s)]
  OBVIOUS
<1> HIDE DEF u
<1>2. ASSUME NEW i \in 1..Len(u), NEW j \in 1..Len(u), u[i] = u[j] PROVE i = j
  <2>1. CASE i \in 1..Len(s) /\ u[i] = s[i] /\ j \in 1..Len(s) /\ u[j] = s[j]
    BY <1>2, <2>1 DEF NoTwice
  <2>2. CASE /\ i - Len(s) \in 1..Len(t) /\ u[i] = t[i - Len(s)]
             /\ j - Len(s) \in 1..Len(t) /\ u[j] = t[j - Len(s)]
    <3>1. i - Len(s) = j - Len(s)
      BY <1>2, <2>2 DEF NoTwice
    <3> QED
      BY <1>1, <3>1
  <2> QED
    BY <1>1, <1>2, <2>1, <2>2
<1> QED
  BY <1>2 DEF NoTwice, u

\* The next state's transaction, in its variables.
LEMMA PendingOnceNext ==
  PendingOnce' <=>
    /\ NoTwice(pending')
    /\ writer' # NoRun =>
         \A i \in 1..Len(pending') : \E k \in 1..Len(found'[writer']) :
           /\ pending'[i].filename = plan'[writer'][k].filename
           /\ pending'[i].customer_account_id = plan'[writer'][k].customer_account_id
BY DEF PendingOnce, NoTwice

LEMMA EntryIsItsFields ==
  ASSUME NEW d \in Entry, NEW e \in Entry,
         d.filename = e.filename, d.customer_account_id = e.customer_account_id
  PROVE  d = e
BY DEF Entry

\* The rows of one document differ in their section.
LEMMA ChunksOfOnce ==
  ASSUME NEW d \in Entry, NEW x
  PROVE  /\ NoTwice(ChunksOf(d, x))
         /\ \A i \in 1..Len(ChunksOf(d, x)) :
              /\ ChunksOf(d, x)[i].filename = d.filename
              /\ ChunksOf(d, x)[i].customer_account_id = d.customer_account_id
<1>1. CASE x \notin Texts
  BY <1>1 DEF ChunksOf, NoTwice
<1>2. CASE x \in Texts
  <2> DEFINE s == ChunksOf(d, x)
  <2>1. SectionsOf[x] \in Nat
    BY <1>2, SectionsAssumption
  <2>2. /\ Len(s) = SectionsOf[x]
        /\ \A i \in 1..SectionsOf[x] :
             s[i] = [filename |-> d.filename, customer_account_id |-> d.customer_account_id,
                     text |-> x, section |-> i]
    BY <1>2, <2>1 DEF ChunksOf
  <2> HIDE DEF s
  <2>3. ASSUME NEW i \in 1..Len(s)
        PROVE  /\ s[i].section = i /\ s[i].filename = d.filename
               /\ s[i].customer_account_id = d.customer_account_id
    <3>1. i \in 1..SectionsOf[x]
      BY <2>2
    <3>2. s[i] = [filename |-> d.filename, customer_account_id |-> d.customer_account_id,
                  text |-> x, section |-> i]
      BY <2>2, <3>1
    <3> QED
      BY <3>2
  <2>4. NoTwice(s)
    BY <2>3 DEF NoTwice
  <2> QED
    BY <2>3, <2>4 DEF s
<1> QED
  BY <1>1, <1>2

\* One more document in the open transaction.
LEMMA InsertOnce ==
  ASSUME DistinctEntries, IInv, PendingOnce, NEW r \in Runs, InsertDocument(r)
  PROVE  PendingOnce'
<1> DEFINE s == ChunksOf(Current(r), At(r))
           n == Len(found[r])
<1>1. /\ Reading(r) /\ At(r) \in Texts
      /\ s = <<>> => writer' = writer
      /\ s # <<>> => writer \in {r, NoRun} /\ writer' = r
      /\ pending' = pending \o s
      /\ found' = [found EXCEPT ![r] = Append(@, At(r))]
      /\ plan' = plan
  BY DEF InsertDocument, MayWrite, Sections
<1>2. /\ plan[r] \in Seq(Entry) /\ plan[r] \in Manifests \cup {<<>>}
      /\ found \in [Runs -> Seq(Texts \cup {Absent})]
      /\ found[r] \in Seq(Texts \cup {Absent}) /\ n \in Nat /\ n + 1 \in 1..Len(plan[r])
      /\ Current(r) = plan[r][n + 1] /\ Current(r) \in Entry
  <2>1. plan[r] \in Seq(Entry) /\ found[r] \in Seq(Texts \cup {Absent}) /\ n \in Nat
    BY PlanType DEF IInv
  <2>2. n + 1 \in 1..Len(plan[r])
    BY <1>1, <2>1 DEF Reading
  <2>3. Current(r) \in Entry
    BY <2>1, <2>2 DEF Current
  <2> QED
    BY <2>1, <2>2, <2>3 DEF IInv, TypeOK, Current
<1>3. /\ s \in Seq(Chunk) /\ pending \in Seq(Chunk) /\ NoTwice(s)
      /\ \A i \in 1..Len(s) : /\ s[i].filename = Current(r).filename
                              /\ s[i].customer_account_id = Current(r).customer_account_id
  BY <1>2, ChunksOfType, ChunksOfOnce DEF IInv, TypeOK
<1>4. /\ found'[r] = Append(found[r], At(r)) /\ Len(found'[r]) = n + 1
      /\ \A q \in Runs : q # r => found'[q] = found[q]
  BY <1>1, <1>2, AppendProperties
<1>5. writer \in Runs \cup {NoRun} /\ (writer = NoRun => pending = <<>>)
  BY DEF IInv, TypeOK
<1> HIDE DEF s, n
<1>6. CASE s = <<>>
  <2>1. pending' = pending /\ writer' = writer
    BY <1>1, <1>3, <1>6, ConcatEmptySeq
  <2>2. writer # NoRun =>
          \A k \in 1..Len(found[writer]) : k \in 1..Len(found'[writer])
    BY <1>2, <1>4, <1>5 DEF n
  <2> QED
    BY <1>1, <2>1, <2>2, PendingOnceNext DEF PendingOnce
<1>7. CASE s # <<>>
  <2>1. \A i \in 1..Len(pending) :
          /\ writer = r
          /\ \E k \in 1..n : /\ pending[i].filename = plan[r][k].filename
                             /\ pending[i].customer_account_id = plan[r][k].customer_account_id
    <3>1. CASE writer = NoRun
      <4>1. Len(pending) = 0
        BY <1>5, <3>1
      <4> QED
        BY <4>1
    <3>2. CASE writer = r
      BY <3>2, NoRunAssumption DEF PendingOnce, n
    <3> QED
      BY <1>1, <1>7, <3>1, <3>2
  <2>2. ASSUME NEW k \in 1..n
        PROVE  \/ plan[r][k].filename # Current(r).filename
               \/ plan[r][k].customer_account_id # Current(r).customer_account_id
    <3>1. k \in 1..Len(plan[r]) /\ k # n + 1
      BY <1>2
    <3>2. plan[r] \in Manifests
      BY <1>2
    <3>3. plan[r][k] # Current(r)
      BY <1>2, <3>1, <3>2 DEF DistinctEntries
    <3>4. plan[r][k] \in Entry
      BY <1>2, <3>1
    <3> QED
      BY <1>2, <3>3, <3>4, EntryIsItsFields
  <2>3. \A i \in 1..Len(pending), j \in 1..Len(s) : pending[i] # s[j]
    BY <1>3, <2>1, <2>2
  <2>4. NoTwice(pending \o s)
    BY <1>3, <2>3, NoTwiceConcat DEF PendingOnce
  <2>5. ASSUME NEW i \in 1..Len(pending \o s)
        PROVE  \E k \in 1..(n + 1) :
                 /\ (pending \o s)[i].filename = plan[r][k].filename
                 /\ (pending \o s)[i].customer_account_id = plan[r][k].customer_account_id
    <3>1. \/ i \in 1..Len(pending) /\ (pending \o s)[i] = pending[i]
          \/ i - Len(pending) \in 1..Len(s) /\ (pending \o s)[i] = s[i - Len(pending)]
      BY <1>3
    <3>2. \A k \in 1..n : k \in 1..(n + 1)
      BY <1>2
    <3>3. n + 1 \in 1..(n + 1)
      BY <1>2
    <3> HIDE DEF PendingOnce
    <3>4. CASE i \in 1..Len(pending) /\ (pending \o s)[i] = pending[i]
      BY <2>1, <3>2, <3>4
    <3>5. CASE i - Len(pending) \in 1..Len(s) /\ (pending \o s)[i] = s[i - Len(pending)]
      BY <1>2, <1>3, <3>3, <3>5
    <3> QED
      BY <3>1, <3>4, <3>5
  <2>6. NoTwice(pending')
    BY <1>1, <2>4
  <2>7. \A i \in 1..Len(pending') : \E k \in 1..Len(found'[r]) :
          /\ pending'[i].filename = plan'[r][k].filename
          /\ pending'[i].customer_account_id = plan'[r][k].customer_account_id
    BY <1>1, <1>4, <2>5
  <2>8. writer' = r
    BY <1>1, <1>7
  <2> HIDE DEF PendingOnce
  <2> QED
    BY <2>6, <2>7, <2>8, PendingOnceNext
<1> QED
  BY <1>6, <1>7

\* While runs follow one another, a rebuilt index holds each section of each
\* document of its manifest once; of runs that overlap TLC shows the contrary.
THEOREM SoloIndexHasNoDuplicates ==
  ASSUME DistinctEntries
  PROVE  Spec /\ []AtMostOneActive => []NoDuplicateChunks
<1> DEFINE DInv == PendingOnce /\ NoTwice(chunks)
<1>0. DistinctEntries
  OBVIOUS
<1>1. Init => DInv
  BY DEF Init, PendingOnce, NoTwice
<1>2. ASSUME IInv, AtMostOneActive, EmptyForTheRun, DInv, [Next]_vars
      PROVE  DInv'
  <2>1. (NoTwice(chunks))'
    <3>1. CASE chunks' \in {chunks, <<>>}
      BY <1>2, <3>1 DEF NoTwice
    <3>2. ASSUME NEW r \in Runs, Commit(r), chunks = <<>>
          PROVE  (NoTwice(chunks))'
      <4>1. chunks' \in {<<>>, pending}
        BY <1>2, <3>2, ConcatEmptySeq DEF Commit, IInv, TypeOK
      <4> QED
        BY <1>2, <4>1 DEF PendingOnce, NoTwice
    <3> QED
      BY <1>2, <3>1, <3>2, SoloStep
  <2>2. PendingOnce'
    <3>0. /\ pc \in [Runs -> Phases] /\ found \in [Runs -> Seq(Texts \cup {Absent})]
          /\ writer \in Runs \cup {NoRun} /\ (writer = NoRun => pending = <<>>)
          /\ plan \in [Runs -> Manifests \cup {<<>>}]
      BY <1>2 DEF IInv, TypeOK
    <3>1. /\ pending' = pending /\ writer' = writer
          /\ writer # NoRun => found'[writer] = found[writer] /\ plan'[writer] = plan[writer]
          => PendingOnce'
      <4> SUFFICES ASSUME pending' = pending, writer' = writer,
                          writer # NoRun =>
                            found'[writer] = found[writer] /\ plan'[writer] = plan[writer]
                   PROVE  PendingOnce'
        OBVIOUS
      <4>1. PendingOnce
        BY <1>2
      <4>2. NoTwice(pending')
        BY <4>1 DEF PendingOnce
      <4>3. ASSUME writer # NoRun, NEW i \in 1..Len(pending)
            PROVE  \E k \in 1..Len(found'[writer]) :
                     /\ pending[i].filename = plan'[writer][k].filename
                     /\ pending[i].customer_account_id = plan'[writer][k].customer_account_id
        <5>1. PICK k \in 1..Len(found[writer]) :
                /\ pending[i].filename = plan[writer][k].filename
                /\ pending[i].customer_account_id = plan[writer][k].customer_account_id
          BY <4>1, <4>3 DEF PendingOnce
        <5>2. found'[writer] = found[writer] /\ plan'[writer] = plan[writer]
          BY <4>3
        <5> QED
          BY <5>1, <5>2
      <4> QED
        BY <4>2, <4>3, PendingOnceNext
    <3>2. ASSUME NEW r \in Runs, NEW how, End(r, how) PROVE PendingOnce'
      <4>1. CASE writer = r
        BY <3>2, <4>1, PendingOnceNext DEF End, NoTwice
      <4>2. CASE writer # r
        BY <3>0, <3>1, <3>2, <4>2 DEF End
      <4> QED
        BY <4>1, <4>2
    <3>3. ASSUME NEW r \in Runs, NEW m \in Manifests, Load(r, m) PROVE PendingOnce'
      <4>1. writer # r
        BY <1>2, <3>3, NoRunAssumption DEF Load, Active, IInv, WriterInserts
      <4> QED
        BY <3>0, <3>1, <3>3, <4>1 DEF Load
    <3>4. ASSUME NEW r \in Runs, SkipDocument(r) PROVE PendingOnce'
      <4>1. /\ UNCHANGED <<pending, writer, plan>>
            /\ found' = [found EXCEPT ![r] = Append(@, Absent)]
        BY <3>4 DEF SkipDocument
      <4>2. writer # NoRun =>
              \A k \in 1..Len(found[writer]) : k \in 1..Len(found'[writer])
        <5>1. /\ Len(found[r]) \in Nat /\ Len(found'[r]) = Len(found[r]) + 1
              /\ \A q \in Runs : q # r => found'[q] = found[q]
          BY <3>0, <4>1, AppendProperties
        <5> QED
          BY <3>0, <5>1
      <4> QED
        BY <1>2, <4>1, <4>2, PendingOnceNext DEF PendingOnce
    <3>5. ASSUME NEW r \in Runs, InsertDocument(r) PROVE PendingOnce'
      BY <1>0, <1>2, <3>5, InsertOnce
    <3>6. ASSUME NEW r \in Runs, Drop(r) \/ Create(r) PROVE PendingOnce'
      BY <3>1, <3>6 DEF Drop, Create
    <3>7. ASSUME NEW r \in Runs,
                 Commit(r) \/ ExtractFails(r) \/ Collide(r) \/ LockTimeout(r) \/ Crash(r)
          PROVE  PendingOnce'
      BY <3>2, <3>7 DEF Commit, ExtractFails, Collide, LockTimeout, Crash
    <3>8. ASSUME ChangeDocuments \/ OtherProgram \/ UNCHANGED vars PROVE PendingOnce'
      BY <3>1, <3>8 DEF ChangeDocuments, OtherProgram, vars
    <3> QED
      BY <1>2, <3>3, <3>4, <3>5, <3>6, <3>7, <3>8 DEF Next, Statement
  <2> QED
    BY <2>1, <2>2
<1>3. IInv /\ DInv => NoDuplicateChunks
  <2>1. IInv => DOMAIN chunks = 1..Len(chunks)
    BY DEF IInv, TypeOK
  <2> QED
    BY <2>1 DEF NoTwice, NoDuplicateChunks
<1> HIDE DEF DInv
<1>4. IInv /\ AtMostOneActive /\ EmptyForTheRun /\ DInv /\ [Next]_vars => DInv'
  BY <1>2
<1> QED
  BY <1>1, <1>3, <1>4, SoloInvariant, Invariant, PTL DEF Spec

-----------------------------------------------------------------------------
(* A run ends: what can be proved of RunsEnd is that it has a measure. *)

\* How many statements r may still execute.
Left(r) ==
  CASE pc[r] = "drop"      -> Len(plan[r]) + 3
    [] pc[r] = "create"    -> Len(plan[r]) + 2
    [] pc[r] = "documents" -> (Len(plan[r]) - Len(found[r])) + 1
    [] pc[r] = "idle"      -> 0

LEMMA LeftIsNat ==
  ASSUME TypeOK, NEW r \in Runs
  PROVE  Left(r) \in Nat /\ (Left(r) = 0 <=> ~Active(r))
<1>1. /\ pc[r] \in Phases
      /\ Len(plan[r]) \in Nat /\ Len(found[r]) \in Nat /\ Len(found[r]) <= Len(plan[r])
  BY ManifestsAssumption DEF TypeOK
<1> QED
  BY <1>1 DEF Left, Active, Phases

\* The parts of r's state that Left reads stay with every other run.
LeftOfOthers(r) ==
  \A q \in Runs : q # r => pc'[q] = pc[q] /\ plan'[q] = plan[q] /\ found'[q] = found[q]

LEMMA StatementLeavesLess ==
  ASSUME IInv, NEW r \in Runs, Statement(r) \/ LockTimeout(r) \/ Crash(r)
  PROVE  Left(r)' < Left(r) /\ LeftOfOthers(r)
<1>0. /\ TypeOK
      /\ pc \in [Runs -> Phases]
      /\ plan \in [Runs -> Manifests \cup {<<>>}]
      /\ found \in [Runs -> Seq(Texts \cup {Absent})]
      /\ Len(plan[r]) \in Nat /\ Len(found[r]) \in Nat /\ Len(found[r]) <= Len(plan[r])
  BY ManifestsAssumption DEF IInv, TypeOK
<1>1. ASSUME Active(r), NEW how, End(r, how) PROVE Left(r)' < Left(r) /\ LeftOfOthers(r)
  <2>1. pc'[r] = "idle" /\ LeftOfOthers(r)
    BY <1>0, <1>1 DEF End, LeftOfOthers
  <2>2. Left(r)' = 0
    BY <2>1 DEF Left
  <2> QED
    BY <1>0, <1>1, <2>1, <2>2, LeftIsNat
<1>2. CASE Drop(r) \/ Create(r)
  <2>1. /\ plan' = plan /\ found' = found /\ LeftOfOthers(r)
        /\ \/ pc[r] = "drop" /\ pc'[r] = "create"
           \/ pc[r] = "create" /\ pc'[r] = "documents"
    BY <1>0, <1>2 DEF Drop, Create, LeftOfOthers
  <2> QED
    BY <1>0, <2>1 DEF Left
<1>3. CASE SkipDocument(r) \/ InsertDocument(r)
  <2>1. /\ pc[r] = "documents" /\ Len(found[r]) < Len(plan[r])
        /\ pc' = pc /\ plan' = plan
        /\ \E x \in Texts \cup {Absent} : found' = [found EXCEPT ![r] = Append(@, x)]
    BY <1>3 DEF SkipDocument, InsertDocument, Reading
  <2>2. Len(found'[r]) = Len(found[r]) + 1 /\ LeftOfOthers(r)
    BY <1>0, <2>1 DEF LeftOfOthers
  <2> QED
    BY <1>0, <2>1, <2>2 DEF Left
<1>4. CASE Commit(r) \/ ExtractFails(r) \/ Collide(r) \/ LockTimeout(r) \/ Crash(r)
  BY <1>1, <1>4 DEF Commit, ExtractFails, Collide, LockTimeout, Crash, Reading, Active
<1> QED
  BY <1>2, <1>3, <1>4 DEF Statement

\* Every statement, also one that raises or times out, brings its run nearer
\* to its end, at most three statements more than its manifest has documents
\* away; the other runs, the other programs and whoever changes the documents
\* never send it back.
THEOREM StatementsRunOut ==
  Spec => /\ [](\A r \in Runs : /\ Left(r) \in 0..(Len(plan[r]) + 3)
                                /\ Left(r) = 0 <=> ~Active(r))
          /\ [][\A r \in Runs :
                  /\ Statement(r) \/ LockTimeout(r) \/ Crash(r) => Left(r)' < Left(r)
                  /\ Active(r) => Left(r)' <= Left(r)]_vars
<1> DEFINE Bounded == \A r \in Runs : /\ Left(r) \in 0..(Len(plan[r]) + 3)
                                      /\ Left(r) = 0 <=> ~Active(r)
           Shorter(r) ==
             /\ Statement(r) \/ LockTimeout(r) \/ Crash(r) => Left(r)' < Left(r)
             /\ Active(r) => Left(r)' <= Left(r)
<1>0. (IInv => \A r \in Runs : Left(r) \in Nat)'
  <2>1. IInv => \A r \in Runs : Left(r) \in Nat
    BY LeftIsNat DEF IInv
  <2> QED
    BY <2>1, PTL
<1>1. IInv => Bounded
  <2>1. ASSUME TypeOK, NEW r \in Runs PROVE Left(r) <= Len(plan[r]) + 3
    <3>1. /\ pc[r] \in Phases
          /\ Len(plan[r]) \in Nat /\ Len(found[r]) \in Nat
      BY <2>1, ManifestsAssumption DEF TypeOK
    <3>2. \/ Left(r) = Len(plan[r]) + 3 \/ Left(r) = Len(plan[r]) + 2
          \/ Left(r) = (Len(plan[r]) - Len(found[r])) + 1 \/ Left(r) = 0
      BY <3>1 DEF Left, Phases
    <3>3. \A n, k \in Nat : \A l : l \in {n + 3, n + 2, (n - k) + 1, 0} => l <= n + 3
      OBVIOUS
    <3> QED
      BY <3>1, <3>2, <3>3
  <2>2. ASSUME TypeOK, NEW r \in Runs PROVE Len(plan[r]) \in Nat
    BY <2>2, ManifestsAssumption DEF TypeOK
  <2> QED
    BY <2>1, <2>2, LeftIsNat DEF IInv
<1>2. ASSUME IInv, Next, NEW r \in Runs PROVE Shorter(r)
  <2>1. Statement(r) \/ LockTimeout(r) \/ Crash(r) => Left(r)' < Left(r)
    BY <1>2, StatementLeavesLess
  <2>2. Left(r) \in Nat
    BY <1>2, LeftIsNat DEF IInv
  <2>3. CASE pc'[r] = pc[r] /\ plan'[r] = plan[r] /\ found'[r] = found[r]
    <3>1. Left(r)' = Left(r)
      BY <2>3 DEF Left
    <3> QED
      BY <2>1, <2>2, <3>1
  <2>4. CASE Statement(r) \/ LockTimeout(r) \/ Crash(r)
    <3>1. Left(r)' < Left(r) /\ Left(r)' \in Int
      <4>1. IInv'
        BY <1>2, StepInvariant
      <4>2. (IInv => Left(r) \in Nat)'
        BY <1>0, <1>2
      <4> QED
        BY <2>1, <2>4, <4>1, <4>2
    <3> QED
      BY <2>2, <3>1
  <2>5. ASSUME NEW p \in Runs, Statement(p) \/ LockTimeout(p) \/ Crash(p), p # r
        PROVE  Shorter(r)
    BY <1>2, <2>3, <2>5, StatementLeavesLess DEF LeftOfOthers
  <2>6. ASSUME NEW p \in Runs, NEW m \in Manifests, Load(p, m) PROVE Shorter(r)
    <3>1. CASE p = r
      BY <2>1, <2>6, <3>1 DEF Load
    <3>2. CASE p # r
      BY <1>2, <2>3, <2>6, <3>2 DEF Load, IInv, TypeOK
    <3> QED
      BY <3>1, <3>2
  <2>7. CASE ChangeDocuments \/ OtherProgram
    BY <2>3, <2>7 DEF ChangeDocuments, OtherProgram
  <2> QED
    BY <1>2, <2>4, <2>5, <2>6, <2>7 DEF Next
<1>3. IInv /\ [Next]_vars => [\A r \in Runs : Shorter(r)]_vars
  BY <1>2
<1> QED
  BY <1>1, <1>3, Invariant, PTL DEF Spec
=============================================================================
