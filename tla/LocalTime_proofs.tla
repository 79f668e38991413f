-------------------------- MODULE LocalTime_proofs --------------------------
(***************************************************************************)
(* Proofs about LocalTime, for any set of zones with one change of offset. *)
(* The inductive invariant says what the last data pack holds, and that    *)
(* packs are taken, and ingested, in the order of their instants.          *)
(***************************************************************************)
EXTENDS LocalTime, TLAPS

\* The cells a person writes for the instants of a data pack.
Written(local, taken) ==
  /\ local.snapshot = Wall(taken.snapshot)
  /\ \A f \in Fields :
       local.cells[f] = IF taken.cells[f] = NULL THEN NULL ELSE Wall(taken.cells[f])

\* What StoredOffByTheFold says of an ingestion and the data pack it read.
Faithful(stored, taken) ==
  /\ OffByTheFold(stored.snapshot, taken.snapshot)
  /\ \A f \in Fields :
       /\ stored.cells[f] = NULL <=> taken.cells[f] = NULL
       /\ stored.cells[f] # NULL => OffByTheFold(stored.cells[f], taken.cells[f])

\* What a data pack recorded is not taken back by a later one.
Extends(older, newer) ==
  /\ older.snapshot <= newer.snapshot
  /\ \A f \in Fields : older.cells[f] # NULL => newer.cells[f] = older.cells[f]

WorkbookWritten == workbook # NULL => Written(workbook.local, workbook.taken)

WorkbookIsPast ==
  workbook # NULL \/ db # NULL =>
    Extends(workbook.taken, [snapshot |-> now, cells |-> happened])

StoredIsOlder ==
  db # NULL => /\ workbook.taken \in Stamps(Instants)
               /\ meant \in Stamps(Instants)
               /\ Extends(meant, workbook.taken)

IInv ==
  /\ TypeOK
  /\ WorkbookWritten
  /\ WorkbookIsPast
  /\ StoredIsOlder
  /\ StoredOffByTheFold

-----------------------------------------------------------------------------

\* Writing an instant on the clock of the zone and reading it back.
LEMMA ReadBack ==
  ASSUME zone \in Zones, NEW t \in Int
  PROVE  OffByTheFold(attach(Wall(t)), t) /\ attach(Wall(t)) \in Int
<1>1. zone.at \in Int /\ zone.before \in Int /\ zone.after \in Int
  BY ZonesAssumption DEF Zone
<1> QED
  BY <1>1 DEF OffByTheFold, attach, Wall, Settled, SecondPass, Fold

LEMMA InitInvariant == Init => IInv
BY HorizonAssumption
DEF Init, IInv, TypeOK, Instants, WorkbookWritten, WorkbookIsPast, StoredIsOlder,
    StoredOffByTheFold

LEMMA TickInvariant == IInv /\ Tick => IInv'
<1> SUFFICES ASSUME IInv, Tick PROVE IInv'
  OBVIOUS
<1>1. /\ now' = now + 1 /\ now' \in Instants
      /\ zone' = zone /\ happened' = happened /\ workbook' = workbook
      /\ db' = db /\ meant' = meant
  BY HorizonAssumption DEF IInv, TypeOK, Tick, Instants
<1>2. TypeOK'
  BY <1>1 DEF IInv, TypeOK
<1>3. WorkbookWritten'
  BY <1>1 DEF IInv, WorkbookWritten, Written, Wall
<1>4. WorkbookIsPast'
  <2> SUFFICES ASSUME workbook # NULL \/ db # NULL
               PROVE  Extends(workbook.taken, [snapshot |-> now + 1, cells |-> happened])
    BY <1>1 DEF WorkbookIsPast
  <2>1. Extends(workbook.taken, [snapshot |-> now, cells |-> happened])
    BY DEF IInv, WorkbookIsPast
  <2>2. workbook.taken.snapshot \in Int /\ now \in Int
    BY DEF IInv, TypeOK, StoredIsOlder, Stamps, Instants
  <2> QED
    BY <2>1, <2>2 DEF Extends
<1>5. StoredIsOlder' /\ StoredOffByTheFold'
  BY <1>1 DEF IInv, StoredIsOlder, Extends, StoredOffByTheFold, OffByTheFold, SecondPass, Fold
<1> QED
  BY <1>2, <1>3, <1>4, <1>5 DEF IInv

LEMMA HappenInvariant ==
  ASSUME IInv, NEW e \in Fields, Happen(e) PROVE IInv'
<1>1. /\ happened[e] = NULL /\ happened' = [happened EXCEPT ![e] = now]
      /\ zone' = zone /\ now' = now /\ workbook' = workbook /\ db' = db /\ meant' = meant
  BY DEF Happen
<1>2. happened \in [Fields -> Instants \cup {NULL}] /\ now \in Instants
  BY DEF IInv, TypeOK
<1>3. TypeOK'
  BY <1>1, <1>2 DEF IInv, TypeOK
<1>4. WorkbookWritten'
  BY <1>1 DEF IInv, WorkbookWritten, Written, Wall
<1>5. \A f \in Fields : happened[f] # NULL => happened'[f] = happened[f]
  BY <1>1, <1>2
<1>6. WorkbookIsPast'
  <2> SUFFICES ASSUME workbook # NULL \/ db # NULL
               PROVE  Extends(workbook.taken, [snapshot |-> now, cells |-> happened'])
    BY <1>1 DEF WorkbookIsPast
  <2>1. Extends(workbook.taken, [snapshot |-> now, cells |-> happened])
    BY DEF IInv, WorkbookIsPast
  <2> QED
    BY <2>1, <1>5 DEF Extends
<1>7. StoredIsOlder' /\ StoredOffByTheFold'
  BY <1>1 DEF IInv, StoredIsOlder, Extends, StoredOffByTheFold, OffByTheFold, SecondPass, Fold
<1> QED
  BY <1>3, <1>4, <1>6, <1>7 DEF IInv

LEMMA ExportInvariant == IInv /\ Export => IInv'
<1> SUFFICES ASSUME IInv, Export PROVE IInv'
  OBVIOUS
<1> DEFINE local == [snapshot |-> Wall(now),
                     cells |-> [f \in Fields |->
                                  IF happened[f] = NULL THEN NULL ELSE Wall(happened[f])]]
           taken == [snapshot |-> now, cells |-> happened]
<1>1. /\ workbook' = [local |-> local, taken |-> taken]
      /\ zone' = zone /\ now' = now /\ happened' = happened /\ db' = db /\ meant' = meant
  BY DEF Export
<1>2. /\ happened \in [Fields -> Instants \cup {NULL}] /\ now \in Instants
      /\ \A t \in Instants : Wall(t) \in Int
  BY ZonesAssumption, HorizonAssumption DEF IInv, TypeOK, Wall, Zone, Instants
<1>3. taken \in Stamps(Instants)
  BY <1>2 DEF Stamps
<1>4. local \in Stamps(Int)
  <2>1. \A f \in Fields :
          (IF happened[f] = NULL THEN NULL ELSE Wall(happened[f])) \in Int \cup {NULL}
    BY <1>2
  <2>2. [f \in Fields |-> IF happened[f] = NULL THEN NULL ELSE Wall(happened[f])]
          \in [Fields -> Int \cup {NULL}]
    BY <2>1
  <2> QED
    BY <1>2, <2>2 DEF Stamps
<1>5. Written(local, taken)
  BY DEF Written
<1>6. Extends(taken, [snapshot |-> now, cells |-> happened])
  BY <1>2, HorizonAssumption DEF Extends, Instants
<1>7. db # NULL => Extends(meant, taken)
  <2> SUFFICES ASSUME db # NULL PROVE Extends(meant, taken)
    OBVIOUS
  <2>1. /\ workbook.taken \in Stamps(Instants) /\ meant \in Stamps(Instants)
        /\ Extends(meant, workbook.taken)
    BY DEF IInv, StoredIsOlder
  <2>2. meant.snapshot \in Int /\ workbook.taken.snapshot \in Int /\ taken.snapshot \in Int
    BY <2>1, <1>3 DEF Stamps, Instants
  <2>3. Extends(workbook.taken, taken)
    BY DEF IInv, WorkbookIsPast
  <2> QED
    BY <2>1, <2>2, <2>3 DEF Extends
<1> HIDE DEF local, taken
<1>8. workbook'.local = local /\ workbook'.taken = taken
  BY <1>1
<1>9. TypeOK'
  BY <1>1, <1>3, <1>4 DEF IInv, TypeOK
<1>10. WorkbookWritten'
  BY <1>1, <1>5, <1>8 DEF WorkbookWritten, Written, Wall
<1>11. WorkbookIsPast'
  BY <1>1, <1>6, <1>8 DEF WorkbookIsPast
<1>12. StoredIsOlder'
  BY <1>1, <1>3, <1>7, <1>8 DEF IInv, StoredIsOlder, Stamps, Instants
<1>13. StoredOffByTheFold'
  BY <1>1 DEF IInv, StoredOffByTheFold, OffByTheFold, SecondPass, Fold
<1> QED
  BY <1>9, <1>10, <1>11, <1>12, <1>13 DEF IInv

LEMMA IngestInvariant ==
  ASSUME IInv, Ingest
  PROVE  IInv' /\ Faithful(db', workbook.taken) /\ db'.snapshot \in Int
<1> DEFINE cells == [f \in Fields |-> parse_local_timestamp(workbook.local.cells[f])]
           stored == [snapshot |-> parse_snapshot(workbook.local.snapshot), cells |-> cells]
<1>1. /\ workbook # NULL /\ db' = stored /\ meant' = workbook.taken
      /\ zone' = zone /\ now' = now /\ happened' = happened /\ workbook' = workbook
  BY DEF Ingest
<1>2. workbook.taken \in Stamps(Instants) /\ Instants \subseteq Int /\ zone \in Zones
  BY <1>1, HorizonAssumption DEF IInv, TypeOK, Instants
<1>3. Written(workbook.local, workbook.taken)
  BY <1>1 DEF IInv, WorkbookWritten
<1>4. /\ OffByTheFold(stored.snapshot, workbook.taken.snapshot)
      /\ stored.snapshot \in Int
  <2>1. stored.snapshot = attach(Wall(workbook.taken.snapshot))
    BY <1>3 DEF Written, parse_snapshot
  <2>2. workbook.taken.snapshot \in Int
    BY <1>2 DEF Stamps
  <2> QED
    BY <2>1, <2>2, <1>2, ReadBack
<1>5. ASSUME NEW f \in Fields
      PROVE  /\ cells[f] \in Int \cup {NULL}
             /\ cells[f] = NULL <=> workbook.taken.cells[f] = NULL
             /\ cells[f] # NULL => OffByTheFold(cells[f], workbook.taken.cells[f])
  <2>1. workbook.taken.cells[f] \in Int \cup {NULL}
    BY <1>2 DEF Stamps
  <2>2. CASE workbook.taken.cells[f] = NULL
    BY <2>2, <1>3 DEF Written, parse_local_timestamp
  <2>3. CASE workbook.taken.cells[f] # NULL
    <3>1. workbook.taken.cells[f] \in Int
      BY <2>1, <2>3
    <3>2. workbook.local.cells[f] = Wall(workbook.taken.cells[f])
      BY <1>3, <2>3 DEF Written
    <3>3. Wall(workbook.taken.cells[f]) \in Int
      BY <3>1, <1>2, ZonesAssumption DEF Wall, Zone
    <3>4. cells[f] = attach(Wall(workbook.taken.cells[f]))
      BY <3>2, <3>3, NullTimeAssumption DEF parse_local_timestamp
    <3>5. /\ OffByTheFold(cells[f], workbook.taken.cells[f])
          /\ cells[f] \in Int
      BY <3>1, <3>4, <1>2, ReadBack
    <3> QED
      BY <3>5, <2>3, NullTimeAssumption
  <2> QED
    BY <2>2, <2>3
<1>6. stored \in Stamps(Int)
  BY <1>4, <1>5 DEF Stamps
<1>7. Extends(workbook.taken, workbook.taken)
  <2>1. workbook.taken.snapshot \in Int
    BY <1>2 DEF Stamps
  <2> QED
    BY <2>1 DEF Extends
<1>8. db'.snapshot = stored.snapshot /\ db'.cells = cells
  BY <1>1
<1> HIDE DEF stored, cells
<1>9. TypeOK'
  BY <1>1, <1>2, <1>6 DEF IInv, TypeOK
<1>10. WorkbookWritten' /\ WorkbookIsPast'
  BY <1>1 DEF IInv, WorkbookWritten, WorkbookIsPast, Written, Wall
<1>11. StoredIsOlder'
  BY <1>1, <1>2, <1>7 DEF StoredIsOlder
<1>12. Faithful(db', workbook.taken)
  BY <1>4, <1>5, <1>8 DEF Faithful
<1>13. StoredOffByTheFold'
  BY <1>1, <1>12 DEF Faithful, StoredOffByTheFold, OffByTheFold, SecondPass, Fold
<1> QED
  BY <1>4, <1>8, <1>9, <1>10, <1>11, <1>12, <1>13 DEF IInv

LEMMA StepInvariant == IInv /\ [Next]_vars => IInv'
<1> SUFFICES ASSUME IInv, [Next]_vars PROVE IInv'
  OBVIOUS
<1>1. CASE Next
  BY <1>1, TickInvariant, HappenInvariant, ExportInvariant, IngestInvariant DEF Next
<1>2. CASE UNCHANGED vars
  BY <1>2
  DEF vars, IInv, TypeOK, WorkbookWritten, Written, Wall, WorkbookIsPast, StoredIsOlder,
      StoredOffByTheFold, OffByTheFold, SecondPass, Fold
<1> QED
  BY <1>1, <1>2

LEMMA Invariant == Spec => []IInv
BY InitInvariant, StepInvariant, PTL DEF Spec

-----------------------------------------------------------------------------

\* The state keeps its types: a time is stored for every instant.
THEOREM TypeCorrect == Spec => []TypeOK
<1>1. IInv => TypeOK
  BY DEF IInv
<1> QED
  BY <1>1, Invariant, PTL

\* What build_db.py stores is exact but for the second pass of a repeated hour.
THEOREM StoredTimes == Spec => []StoredOffByTheFold
<1>1. IInv => StoredOffByTheFold
  BY DEF IInv
<1> QED
  BY <1>1, Invariant, PTL

\* The instants of db and of meant are integers.
LEMMA StoredInstants ==
  ASSUME IInv, db # NULL
  PROVE  /\ db.snapshot \in Int /\ meant.snapshot \in Int /\ Fold \in Nat
         /\ zone.at \in Int
         /\ \A f \in Fields : db.cells[f] \in Int \cup {NULL}
         /\ \A f \in Fields : meant.cells[f] \in Int \cup {NULL}
<1>1. db \in Stamps(Int) /\ zone \in Zone
  BY ZonesAssumption DEF IInv, TypeOK
<1>2. meant \in Stamps(Instants)
  BY DEF IInv, StoredIsOlder
<1>3. Fold \in Nat
  BY <1>1 DEF Fold, Zone
<1> QED
  BY <1>1, <1>2, <1>3 DEF Stamps, Instants, Zone

\* Two stored times are in the wrong order only because of a repeated hour.
THEOREM StoredOrder == Spec => []MisorderedOnlyInFold
<1>1. ASSUME IInv PROVE MisorderedOnlyInFold
  <2> SUFFICES ASSUME db # NULL, NEW f \in Fields, NEW g \in Fields,
                      db.cells[f] # NULL, db.cells[g] # NULL,
                      meant.cells[f] < meant.cells[g],
                      db.cells[g] <= db.cells[f]
               PROVE  SecondPass(meant.cells[g]) /\ meant.cells[g] - meant.cells[f] <= Fold
    BY DEF MisorderedOnlyInFold
  <2>1. /\ OffByTheFold(db.cells[f], meant.cells[f])
        /\ OffByTheFold(db.cells[g], meant.cells[g])
        /\ meant.cells[f] # NULL /\ meant.cells[g] # NULL
    BY <1>1 DEF IInv, StoredOffByTheFold
  <2> QED
    BY <1>1, <2>1, StoredInstants DEF OffByTheFold
<1> QED
  BY <1>1, Invariant, PTL

\* A verdict on a target is wrong only because of a repeated hour.
THEOREM Verdicts == Spec => []WrongVerdictOnlyInFold
<1>1. ASSUME IInv PROVE WrongVerdictOnlyInFold
  <2> SUFFICES ASSUME db # NULL, NEW f \in Fields
               PROVE  /\ Breached(db, f) /\ ~Breached(meant, f) => SecondPass(meant.cells[f])
                      /\ ~Breached(db, f) /\ Breached(meant, f) => SecondPass(meant.snapshot)
    BY DEF WrongVerdictOnlyInFold
  <2>1. /\ OffByTheFold(db.snapshot, meant.snapshot)
        /\ db.cells[f] = NULL <=> meant.cells[f] = NULL
        /\ db.cells[f] # NULL => OffByTheFold(db.cells[f], meant.cells[f])
    BY <1>1 DEF IInv, StoredOffByTheFold
  <2> QED
    BY <1>1, <2>1, StoredInstants, TargetAssumption
    DEF OffByTheFold, Breached, Rule!Elapsed
<1> QED
  BY <1>1, Invariant, PTL

\* A later data pack takes the snapshot time, or a breach, back only in the
\* second pass of a repeated hour.
THEOREM PacksGoForward == Spec => BackwardsOnlyInFold
<1>1. ASSUME IInv, [Next]_vars, db # NULL,
             \/ db'.snapshot < db.snapshot
             \/ \E f \in Fields : Breached(db, f) /\ ~Breached(db', f)
      PROVE  SecondPass(meant'.snapshot)
  <2>1. CASE Ingest
    <3> SUFFICES ASSUME ~SecondPass(meant'.snapshot) PROVE FALSE
      OBVIOUS
    <3>1. /\ meant' = workbook.taken /\ Fold' = Fold
          /\ Faithful(db', workbook.taken) /\ db'.snapshot \in Int
          /\ ~SecondPass(workbook.taken.snapshot)
      BY <1>1, <2>1, IngestInvariant DEF Ingest, Fold, SecondPass
    <3>2. /\ Extends(meant, workbook.taken)
          /\ workbook.taken.snapshot \in Int
          /\ Faithful(db, meant)
      BY <1>1 DEF IInv, StoredIsOlder, StoredOffByTheFold, Faithful, Stamps, Instants
    <3>3. db.snapshot <= db'.snapshot
      BY <1>1, <3>1, <3>2, StoredInstants DEF Faithful, Extends, OffByTheFold
    <3>4. PICK f \in Fields : Breached(db, f) /\ ~Breached(db', f)
      BY <1>1, <3>1, <3>3, StoredInstants
    <3>5. db.cells[f] # NULL /\ db'.cells[f] = db.cells[f]
      <4>1. db.cells[f] # NULL
        BY <3>4 DEF Breached
      <4>2. /\ meant.cells[f] # NULL /\ workbook.taken.cells[f] = meant.cells[f]
            /\ OffByTheFold(db.cells[f], meant.cells[f])
        BY <4>1, <3>2 DEF Faithful, Extends
      <4>3. OffByTheFold(db'.cells[f], workbook.taken.cells[f])
        BY <4>2, <3>1 DEF Faithful
      <4> QED
        BY <4>1, <4>2, <4>3 DEF OffByTheFold
    <3> QED
      BY <1>1, <3>1, <3>3, <3>4, <3>5, StoredInstants, TargetAssumption
      DEF Breached, Rule!Elapsed
  <2>2. CASE ~Ingest
    <3>1. db' = db
      BY <1>1, <2>2 DEF Next, Tick, Happen, Export, vars
    <3> QED
      BY <1>1, <3>1, StoredInstants DEF Breached, Rule!Elapsed
  <2> QED
    BY <2>1, <2>2
<1>2. IInv /\ [Next]_vars =>
        [/\ db # NULL
         /\ \/ db'.snapshot < db.snapshot
            \/ \E f \in Fields : Breached(db, f) /\ ~Breached(db', f)
         => SecondPass(meant'.snapshot)]_vars
  BY <1>1
<1> QED
  BY <1>2, Invariant, PTL DEF Spec, BackwardsOnlyInFold
=============================================================================
