----------------------------- MODULE LocalTime -----------------------------
(***************************************************************************)
(* The timestamps of a workbook: its cells are wall-clock times without an *)
(* offset, and src/backend/ingestion/build_db.py attaches the timezone the *)
(* README sheet names (parse_snapshot, parse_local_timestamp).  Here a     *)
(* zone changes its UTC offset once, so that an hour is skipped or         *)
(* repeated, and the times stored are compared with the instants meant.    *)
(*                                                                         *)
(* Instants and wall-clock times are minutes.  The people who write the    *)
(* cells, and the calendar of the zone, are outside src/.                  *)
(***************************************************************************)
EXTENDS Integers

CONSTANTS
  NULL,
  Zones,     \* timezones: [at, before, after], the change and the UTC offsets
  Horizon,   \* bound on the instants
  Fields,    \* the timestamp columns of one row
  Target     \* an SLA target, in minutes

Zone == [at : Int, before : Int, after : Int]

ASSUME ZonesAssumption   == Zones \subseteq Zone
ASSUME HorizonAssumption == Horizon \in Nat
ASSUME TargetAssumption  == Target \in Int
ASSUME NullTimeAssumption == NULL \notin Int

Rule == INSTANCE RuleEngine

Instants == 0..Horizon

VARIABLES
  zone,       \* the timezone of the dataset
  now,        \* the instant it is
  happened,   \* per field, the instant of its event, NULL until it happens
  workbook,   \* the last data pack: its snapshot and cells in local time
  db,         \* what the last ingestion stored, as instants
  meant       \* the instants that `db` should hold (history)

vars == <<zone, now, happened, workbook, db, meant>>

Stamps(T) == [snapshot : T, cells : [Fields -> T \cup {NULL}]]

TypeOK ==
  /\ zone \in Zones
  /\ now \in Instants
  /\ happened \in [Fields -> Instants \cup {NULL}]
  /\ workbook \in [local : Stamps(Int), taken : Stamps(Instants)] \cup {NULL}
  /\ db \in Stamps(Int) \cup {NULL}
  /\ meant \in Stamps(Instants) \cup {NULL}

Init ==
  /\ zone \in Zones
  /\ now = 0
  /\ happened = [f \in Fields |-> NULL]
  /\ workbook = NULL /\ db = NULL /\ meant = NULL

-----------------------------------------------------------------------------
(* The world: events happen, somebody exports a data pack *)

\* What a clock in the zone shows at an instant.
Wall(t) == t + (IF t < zone.at THEN zone.before ELSE zone.after)

Tick ==
  /\ now < Horizon
  /\ now' = now + 1
  /\ UNCHANGED <<zone, happened, workbook, db, meant>>

Happen(f) ==
  /\ happened[f] = NULL
  /\ happened' = [happened EXCEPT ![f] = now]
  /\ UNCHANGED <<zone, now, workbook, db, meant>>

Export ==
  /\ workbook' =
       [local |-> [snapshot |-> Wall(now),
                   cells |-> [f \in Fields |->
                                IF happened[f] = NULL THEN NULL ELSE Wall(happened[f])]],
        taken |-> [snapshot |-> now, cells |-> happened]]
  /\ UNCHANGED <<zone, now, happened, db, meant>>

-----------------------------------------------------------------------------
(* Ingestion *)

\* The first wall-clock time whose meaning the change no longer affects.
Settled == zone.at + (IF zone.before < zone.after THEN zone.after ELSE zone.before)

\* Mutant: the two offsets change places.
attach_swapped(local) == local - (IF local < Settled THEN zone.after ELSE zone.before)

\* Mutant: one UTC offset, today's, for the whole workbook.
attach_current(local) == local - (IF now < zone.at THEN zone.before ELSE zone.after)

\* `naive.replace(tzinfo=tz)` and its UTC offset: fold is 0, so a time that
\* was repeated or skipped is read with the offset before the change.
attach(local) == local - (IF local < Settled THEN zone.before ELSE zone.after)

\* Mutant: a time with two readings gives none.
parse_unambiguous(value) ==
  IF Wall(zone.at) <= value /\ value < Settled THEN NULL ELSE attach(value)

parse_snapshot(value) == attach(value)

parse_local_timestamp(value) == IF value = NULL THEN NULL ELSE attach(value)

\* build_database, as far as times go.
Ingest ==
  /\ workbook # NULL
  /\ db' = [snapshot |-> parse_snapshot(workbook.local.snapshot),
            cells |-> [f \in Fields |-> parse_local_timestamp(workbook.local.cells[f])]]
  /\ meant' = workbook.taken
  /\ UNCHANGED <<zone, now, happened, workbook>>

Next == Tick \/ (\E f \in Fields : Happen(f)) \/ Export \/ Ingest

Spec == Init /\ [][Next]_vars

-----------------------------------------------------------------------------
(* Properties *)

\* The length of the repeated period, 0 where a period is skipped.
Fold == IF zone.after < zone.before THEN zone.before - zone.after ELSE 0

\* The instants whose wall-clock time had been shown before.
SecondPass(t) == zone.at <= t /\ t < zone.at + Fold

\* A stored time is the instant that was meant, unless that was the second
\* pass of a repeated hour: then it is early by the length of the repetition.
OffByTheFold(stored, t) == stored = t - (IF SecondPass(t) THEN Fold ELSE 0)

\* Everything an ingestion stores is exact but for the second pass of a
\* repeated hour, and no empty cell is given a time or lost one.
StoredOffByTheFold ==
  db # NULL =>
    /\ OffByTheFold(db.snapshot, meant.snapshot)
    /\ \A f \in Fields :
         /\ db.cells[f] = NULL <=> meant.cells[f] = NULL
         /\ db.cells[f] # NULL => OffByTheFold(db.cells[f], meant.cells[f])

\* Two events are stored in the wrong order, or as one moment, only if the
\* later was in the second pass and less than a repetition after the earlier.
MisorderedOnlyInFold ==
  db # NULL =>
    \A f, g \in Fields :
      /\ NULL \notin {db.cells[f], db.cells[g]}
      /\ meant.cells[f] < meant.cells[g]
      /\ db.cells[g] <= db.cells[f]
      => SecondPass(meant.cells[g]) /\ meant.cells[g] - meant.cells[f] <= Fold

Breached(stamps, f) ==
  /\ stamps.cells[f] # NULL
  /\ Rule!Elapsed([created_at |-> stamps.cells[f]], stamps.snapshot) > Target

\* A target is judged breached when it is not only for something created in
\* the second pass, and is judged kept when it is breached only in a data pack
\* whose snapshot is in the second pass.
WrongVerdictOnlyInFold ==
  db # NULL =>
    \A f \in Fields :
      /\ Breached(db, f) /\ ~Breached(meant, f) => SecondPass(meant.cells[f])
      /\ ~Breached(db, f) /\ Breached(meant, f) => SecondPass(meant.snapshot)

\* Data packs are ingested in the order they were taken, so the stored snapshot
\* time goes back, and with it a breach, only on a pack of the second pass.
BackwardsOnlyInFold ==
  [][/\ db # NULL
     /\ \/ db'.snapshot < db.snapshot
        \/ \E f \in Fields : Breached(db, f) /\ ~Breached(db', f)
     => SecondPass(meant'.snapshot)]_vars
=============================================================================
