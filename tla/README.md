# ParcelPilot AI: a TLA+ model

This directory models the back end in `src/backend`: the two ingestion scripts
that rebuild `var/app.db` and the clients that query it meanwhile, the scoped
repository that answers from it, the deterministic rules on cancellation, service
credit and SLA, and the loaders of the configuration the rules take. TLC checks the
models on small instances; TLAPS proves the main properties for any instance.

## Inventory

| Part | Source | State | Operations | What is hard | What makes it correct |
|---|---|---|---|---|---|
| Structured ingestion | `ingestion/build_db.py` | four tables of `var/app.db`; the connection's transaction | `build_database`: load workbook, run the script `_SCHEMA`, insert four tables, commit | the script is committed statement by statement; runs overlap; rows are refused; a process is killed; locks time out | a success is exactly its workbook; packs never mix; a re-run works after anything |
| Local times | `build_db.py`: `parse_snapshot`, `parse_local_timestamp` | none | attach the zone named in the workbook to a wall-clock time | a zone whose offset changes shows some times twice and some never | a stored time is the instant meant, or its error is known |
| Document index | `ingestion/build_doc_index.py` | table `doc_chunks`; the documents directory | `build_document_index`, `split_sections` | as above, and documents change while they are read; headings are found by a pattern in running text | every section of every document found is indexed once, in order; splitting loses no text |
| Connections and queries | `db/connection.py`, `db/queries.py` | none (a read-only connection per call) | gets and lists | readers hold up commits; each call is a snapshot of its own, so two calls may see two data packs | filters select what they say; `None` means absence |
| Scoped repository | `auth/authorize.py`, `permissions.py`, `principal.py` | principal | eight methods over accounts, orders, tickets, chunks | arguments that name foreign rows; absent rows; redaction on every path | an answer is what the caller's view holds, and depends on nothing else |
| Cancellation and credit rules | `rules/cancellation.py`, `rules/service_credit.py` | none (pure) | two decisions | facts arrive late, in any order, or never; boundaries | answers move with time in one direction; a recorded fact fixes them |
| SLA rule | `rules/sla.py` | none (pure) | one verdict | severity is settled late and revised; contract and plan targets mix | breach is final; nothing is judged without a severity |
| Contract overrides | `rules/contract_overrides.py` | a registry per load | `load_contract_overrides`, `get_override` | several entries per account and topic, in any order | the latest entry of an account and topic counts, and no other |
| Policy defaults | `rules/policy_defaults.py` | a record per load | `default_config_path`, `load_policy_defaults` | real files appear, change and vanish; a file is read while it is saved; the two loaders choose real or example independently | a load is that of one moment and one document |
| Principals and mock sessions | `auth/principal.py`, `auth/mock_sessions.py` | constants | three personas | - | only a customer has an account |
| Settings, YAML files | `config.py`, `src/config` | constants | load | - | data, parameters of the models |
| Retrieval, actions, agent, API, insights, UI | `docs/system-design.md` only | - | - | - | no code exists at this commit |

The parts meet in `var/app.db`: the scripts write it, every query opens it. The
rules take rows, the snapshot time of `dataset_meta` and the loaded terms as
arguments; their caller is a later milestone, so the models of the rules play
its part.

## Modules

| Module | Models | State and actions |
|---|---|---|
| `BuildDb` | `build_database` as any number of runs | `schema` and `rows` are the committed file; `pc[r]`, `step[r]` the next statement of run r; `writer` and `readers` SQLite's locks. `Load`, `Drop`, `Create`, `Insert`, `Commit` are the statements in source order; `LoadFails`, `Refused`, `Collide`, `LockTimeout`, `Crash` the ways a run ends early; `BeginRead`, `EndRead` one SELECT |
| `Rebuild` | what a consumer of the file may count on | the file is one workbook's dataset or under reconstruction; runs withdraw and publish. `BuildDb` implements it with `content <- Served`, `job <- book` |
| `Serving` | clients of `db/queries.py` while `build_database` runs | extends `BuildDb`: `Select` is one query function, `Close` its connection's end; `answer[q][t]` what the client was told; histories `fresh` (read since the latest commit), `certified` (read before a `get_dataset_meta`, no commit between), `overlapped` |
| `LocalTime` | `parse_snapshot` and `parse_local_timestamp` over a change of offset | `Happen` is an event in the business, `Export` writes its wall-clock times into `workbook`, `Ingest` stores them in `db`; `meant` keeps the instants that `db` should hold |
| `BuildDocIndex` | `build_document_index` as any number of runs | as `BuildDb`, with `folder` (the documents directory, which changes at any time) and `pending` (the uncommitted chunks) |
| `Sections` | `split_sections`, `_heading_label` | one pass over the pieces of a text: header, then a section per heading |
| `Queries` | the query functions | operators over one committed `store` |
| `ScopedRepository` | class `ScopedRepository` | `Call` answers one request of one principal; `Build` replaces the contents |
| `RuleEngine` | the three rules | pure operators |
| `OrderDesk` | the order rules over the life of one order | `sheet` is the order's row, `now` the snapshot time; the actions are the edits people make to the row, and `Wait` is a later data pack |
| `ContractOverrides` | the override loader | pure operators over a manifest |
| `RuleConfig` | both loaders of the YAML files, and what a process gets | `disk` is the real files, `Save`, `Saved`, `Remove` a person at them (a reader may meet a text that breaks off anywhere); `Resolve` is `default_config_path`, `Read` the load; `met` is a history of what a file was, from the start of a process to its load; composes `ContractOverrides` |
| `TicketDesk` | the SLA rule over the life of one ticket | `manifest` is amended and reordered, the ticket triaged, `Wait` is a later data pack; composes `ContractOverrides` and `RuleEngine` |

`MC*` modules and the `.cfg` files instantiate these. The eight `*_proofs` modules
hold the theorems. An operator whose comment begins with "Mutant" is a plausible bug in
the definition that follows; PROJECT.json pairs each with the property that
excludes it.

### Choices

- A row in `BuildDb` is its primary key and the workbook it came from: enough to
  tell apart whole, mixed and partial datasets and primary-key collisions. A
  workbook has at most one defect, at the sheet where the script meets it.
- `executescript` leaves the connection in autocommit mode, so each `Drop` and
  `Create` is a commit. The first INSERT takes the write lock until `Commit` or
  the end of the run. A wait for a lock may end in an exception at any moment
  (`LockTimeout`). Locks are external to `src/`; they are modelled by what a
  connection can observe, and the violating trace of three runs was replayed
  against SQLite.
- An `executemany` of no rows takes no lock (`BuildDocIndex`, a document without
  text).
- A read-only connection opens no transaction, so a client's calls are separate
  snapshots whether it hands one connection on or opens several.
- A piece of text in `Sections` is what the pattern of a heading tells apart: a
  marker, the head of a number, a capitalised or another word, a bullet. Which
  words they are is left out; `pypdf` may extract any text.
- A zone in `LocalTime` changes its offset once. The exporter's clock shows the
  later offset in the second pass of a repeated hour, `replace(tzinfo=...)` takes
  the earlier one (`fold=0`).
- Processes of `RuleConfig` share only a disk they never write, so one process
  stands for any number.
- Every method of `ScopedRepository` issues one query, so a call is one step.
  Lists are sets: every query orders by the primary key. The staff columns are
  kept, the other columns follow the key.
- Times in the rules are minutes and money is paise, as integers. The floats of
  the code agree with them on such values; rounding of fractional minutes or
  percentages is not modelled. Evidence texts are left out.
- In `RuleConfig` the text of a file being saved may break off anywhere. It is
  what `yaml.safe_load` and the loader make of it that counts: most such texts
  raise (`Unloadable`), but the parser accepts `9` of `900` and a mapping that lacks its
  last keys, `_parse_service_credit` takes every field with `.get`, `_parse_sla` the
  severities present, and `bool("fals")` is true. Only the entry or section in which
  the text ends can differ from what was meant; `Cut` gives the readings of it,
  any entries at all in the theorems. Entries before it are as written. The sections
  of a policy may be written in any order, so the damaged one may be any; a policy
  without one of them does not load. Of a manifest an empty text loads, as
  no entries, and `overrides:` alone raises.
- In `OrderDesk` facts are recorded late, in any order, and incompletely, but not
  erased: a row whose pickup time is deleted again is not considered. A pickup time
  may stand on a row of any status, DRAFT included, since neither the sheet nor
  `_insert_orders` relates the two.

## Runs

| Run | Instance | Shows |
|---|---|---|
| `build_db` | 2 runs, 1 reader, 4 workbooks: two with disjoint keys (one has an empty sheet), one refused at its orders, one that does not load | `MetaFromOneWorkbook`, `NoMixing`; `SuccessIsExact`, `SoloRebuild`; the refinement of `Rebuild`; `RunsEnd` |
| `build_db_failure` | 1 run | violated: a refused workbook destroys the dataset that was there |
| `serving` | 2 runs, 1 client of metadata and orders, 2 workbooks with disjoint keys | `AnswersWhole`, `FreshAnswersAgree`, `CertifiedComplete` |
| `local_time` | a zone with a repeated, a skipped and no period of 2 at instant 4, 8 instants, two time columns | `MisorderedOnlyInFold`, `WrongVerdictOnlyInFold`, `BackwardsOnlyInFold` |
| `access` | 2 accounts, 2 orders, 1 ticket, 2 chunks, 2 statuses; a customer of each account, an agent and an admin; all 432 databases of the instance | `AnswersFromView`, `NonInterference` |
| `doc_index` | 2 runs, a policy and a contract, texts of 0, 1 and 2 sections, unreadable and absent documents | `DocumentsWhole`, `SoloIndexExact`, `SuccessIndexesAll`, `RunsEnd` |
| `sections` | every text of up to six pieces | `Lossless`, `OneHeadingEach`, `LabelsNonempty` |
| `sections_numbers` | every text of up to three pieces | violated: a section begins inside a date or an amount |
| `orders` | times on and one minute past the free window, the default threshold and a zero threshold; four contracts, one misconfigured | `CancellationStable`, `CreditStable`, `PickupEndsCancellation`, `PromiseStands`, `QuestionsEnd` |
| `orders_unknown_fault` | same | violated: a blank fault cell counts as no fault and the credit is promised |
| `tickets` | two accounts, two topics in use, manifests of up to 3 entries, times up to more than a day | `BreachIsFinal`, `LatestEntryCounts`, `UnrelatedEntriesLocal` |
| `rule_config` | one process; a policy, one that lacks a section, two manifests of which one has a faulty entry, examples; texts that end in an amount, a name, `false` or after the first severity; any sequence of saves and removals | `LoadedAtOneMoment`, `PolicyOfOneDocument`, `ContractsOfOneManifest` |

The violated properties quote a docstring or message of the repository; see the
findings in PROJECT.json.

What `serving` and `local_time` tell a maintainer. Reading `dataset_meta` *last*
vouches for the rows read before it, provided nothing was committed between the
calls; read first, it says nothing of what follows. A zone whose offset does not
change over the data, such as the `Asia/Kolkata` of the fixtures, has exact times;
in any other only the second pass of a repeated hour is wrong, and the
properties say how far.

What `orders` and `rule_config` tell one. `cancellation.py:39` answers a DRAFT
order "under any circumstance", before line 72 looks at the pickup time, so a row
that still says DRAFT is allowed free of charge although a pickup is on record;
from the moment it is booked nothing allows it again. A configuration file should
be put in place by a rename: one that is read while it is written in place may load
with a shortened rule or number and without an error. The properties bound the damage
(one section; or one rule and the entries not yet written) and say who is safe: a
process during whose start nobody was saving the file.

### Counterexamples kept beside the runs

These configurations end in an error by design. Each shows where a statement
stops being true, and can be run with `tlc -config X.cfg M`.

| Configuration, module | Statement that fails | How |
|---|---|---|
| `BuildDbThreeRuns`, `MCBuildDb` | `SuccessIsExact` | three overlapping runs: a run reports success over a mixed file, so the limit of two in the theorems is tight |
| `ServingTorn`, `MCServing` | `SnapshotIsTheDatasets` | metadata of one data pack, orders of the next |
| `ServingEmpty`, `MCServing` | `EmptyMeansEmpty` | a query between CREATE and commit answers zero rows |
| `BuildDocIndexOverlap`, `MCBuildDocIndex` | `NoDuplicateChunks` | two overlapping index runs both succeed and hold every chunk twice |
| `ScopedRepositoryNotFound`, `MCScopedRepository` | `NotFoundOnlyForInternal` | a customer without an account row meets `NotFoundError`, which `auth/authorize.py:66` keeps for internal roles |
| `OrderDeskClock`, `MCOrderDesk` | `PickedUpIgnoresSnapshot` | a PICKED_UP order without a pickup time is measured to the snapshot (`rules/service_credit.py:14-16`) |
| `OrderDeskMisconfigured`, `MCOrderDesk` | `ValidatedTermsNeverRaise` | a fixed credit without an amount loads, and raises for an eligible order |
| `OrderDeskDraft`, `MCOrderDesk` | `PickupNeverAllowed` | a DRAFT row with a pickup time may be cancelled free of charge |
| `RuleConfigHalf`, `MCRuleConfig` | `ConfigAsMeant` | a process reads a file that is being saved, and its text loads as something nobody wrote |
| `RuleConfigMixed`, `MCRuleConfig` | `ExampleStandsInForNothing` | real contracts are combined with the example policy |

### Bounds

Two runs are the least that interleave, and two is also where `SuccessIsExact`
and `NoMixing` still hold. Two workbooks are needed to tell old rows from new, two
keys to have disjoint and shared ones. The client of `serving` has two tables, of
which metadata is one, because its properties relate the metadata to one other
answer. The access instance varies every combination of owner, status, staff
column and scope over two keys of each table (one of tickets), so a customer's own
rows, another's, common ones and those whose account is absent all occur together.
`Times` in `orders` is chosen at the comparisons of the rules, so each `<=`, `<`
and `>` is exercised at equality and beyond. Three entries are the fewest with a
replaced entry and an unrelated one between. Six pieces hold a header, two
adjacent headings with labels, and a bullet or a number between. In `local_time`
the repeated period is two instants long and there are instants before, inside
and after each pass. Lengths and times are the only counters, bounded by
`MaxEntries`, `MaxPieces` and `MaxWords`, `Horizon` and `Times`.

Deadlock checking is off for `orders`, `tickets` and the runs of `MCSections`,
where an instance ends when all facts are in and the last snapshot is reached, or
the text is split. The others never stop.

## Fairness

`FairSpec` of `BuildDb` and `BuildDocIndex` assumes weak fairness of
`Statement(r) \/ LockTimeout(r)` for every run: the process of a started run is
scheduled, and each statement returns, raises or times out on a lock, since
`sqlite3.connect` sets a finite busy timeout. No fairness is assumed of starting a run, of
reading or stopping to read, of crashes, or of changes to documents. `RunsEnd`
therefore holds even if a reader never finishes.

## Theorems

All theorems are for any values of the constants that satisfy the named
assumptions of the modules, which only state the constants' types and that the
sentinels differ from ordinary values. A theorem with a further hypothesis (at most
one or two active runs, complete terms, accounts on file) names it in its statement.

- `BuildDb_proofs`: `TypeCorrect`, `MetaAlwaysFromOneWorkbook` and
  `SoloRebuildsExactly`, for any number of runs. The invariants are not
  inductive: two runs could have passed the key check and then commit one after
  the other. `IInv` adds that only the holder of the write lock has inserted
  (`WriterInserts`), that the tables it inserted into exist (`InsertedExist`),
  that while it holds the lock past the first insert `dataset_meta` is empty
  (`MetaReserved`), and, for a run that has been alone since it started, how far
  the file is at each of its statements (`SoloProgress`).
  `TwoRunsNeverMix`, `TwoRunsSuccessIsExact` and `TwoRunsPublishWholeWorkbooks`
  are for any set of runs of which never more than two are active at once
  (`[]AtMostTwoActive`). `OInv` says that where `dataset_meta`
  is empty so is every table an active run has created (`CreatedEmpty`), that what
  one run has dropped stays empty while the other drops too or is past it
  (`DroppedEmpty`), and that a run creating tables next to a filled
  `dataset_meta` does not complete a dataset (`AccountsFirst`). The last is the refinement
  of `Rebuild` and assumes that every workbook has an account: where an
  accounts sheet is empty, a stale `CREATE` of `accounts` can make the file equal
  to a workbook again without a commit, and the refinement fails. `StatementsRunOut`
  is what can be proved of `RunsEnd`: `Left(r)`, between 0 and 13 and 0 exactly of
  a run that has ended, decreases with every statement, timeout or crash of run r
  and is raised by nobody while r is active. That such a step is eventually taken
  is the fairness, and that conclusion stays with TLC.
- `Serving_proofs`: `AnswersAreWhole` and `FreshAnswersOfOneWorkbook` (at most two
  runs active), and `MetaReadLastCertifies` for any runs until two overlap. A step
  of a client is a reader's step of `BuildDb`, so the invariants of `BuildDb_proofs` carry over.
  What must be added is that fresh answers agree with what the tables hold now
  (`FreshLikeRows`), that a filled `dataset_meta` vouches for the tables
  (`MetaCertifies`), and for what was read since (`FreshComplete`).
  `MetaAnswersOfOneWorkbook` needs no bound on the runs: it carries
  `MetaFromOneWorkbook` to the client, who gets the metadata of one workbook, whole,
  or an exception. `SoloMetaVouchesForTheFile` and
  `SoloRunsPublishWholeWorkbooks` are for runs each of which ends before the next
  begins (`[]AtMostOneActive`). Then every table is empty while the
  run creates tables (`SoloEmpty`), so no `CREATE` can complete a dataset, and the
  refinement of `Rebuild` holds also where a workbook has no accounts.
- `LocalTime_proofs`: `TypeCorrect`, `StoredTimes`, `StoredOrder`, `Verdicts` and
  `PacksGoForward`, for any zone with one change of offset and any SLA target.
  `IInv` says that a data pack holds the clock's reading of what was meant
  (`WorkbookWritten`), that it is in the past (`WorkbookIsPast`), and that what is
  stored is not newer than the pack at hand (`StoredIsOlder`).
- `Sections_proofs`: `TypeCorrect`, `SplitLosesNothing`, `SectionsAreHeadings`,
  `LabelsAreNonempty`, for texts of any length. The next heading is the least
  position with one; that the least element exists comes from the well-foundedness
  of `<`, which needs no induction over an operator.
  `SectionsPartitionTheText` (every piece in exactly one section once the text is
  split) and `HeadingsOpenSections` (every heading opens a section with a label) are
  consequences no run states: what is covered so far lies before the cursor
  (`Laid`).
- `BuildDocIndex_proofs`: `TypeCorrect`, `SoloRunsAreExact`, `SuccessIsComplete`,
  for any manifest, documents and number of runs. `IInv` adds that only the writer
  has pending chunks (`WriterInserts`), that they are the sections of the documents
  already visited (`Collected`), and what a run alone can rely on (`AloneIsAlone`).
  `DocumentsStayWhole` needs the same of the open transaction as of the file: both
  are put together from the complete sections of documents, and joining two such
  sequences gives another (`WholeConcat`). `SoloIndexIsWhole` and
  `SoloIndexHasNoDuplicates` are for runs each of which ends before the next begins:
  a run then drops whatever is there before it inserts (`EmptyForTheRun`). The
  latter also needs that no manifest repeats an entry (`DistinctEntries`), which
  the code does not check; that each pending row belongs to a document already read
  (`PendingOnce`) makes the next document's rows new. Overlapping runs refute it
  (`BuildDocIndexOverlap`). `StatementsRunOut` gives the measure of a run, at most
  three more than its documents, as in `BuildDb_proofs`.
- `ScopedRepository_proofs`: `AnswersAlwaysFromView`,
  `CustomersCannotInterfere` and `RepliesTypeCorrect`, for any accounts, rows,
  principals and databases. Method by method, a customer's answer is shown to be a
  function of the request and the customer's view; non-interference follows.
  `CustomersNotFoundExplained` is exact about the counterexample
  `ScopedRepositoryNotFound`: a customer meets `NotFoundError` where it asks for its
  own account and the row is missing, and nowhere else; `NotFoundIsInternal` is the
  docstring, for data packs with the account of every customer.
- `OrderDesk_proofs`: `DeskTypeCorrect`, `OnceBookedPickupEndsCancellation`,
  `CreditNeverTakenBack`, `PromisesStand`, `CancellationNeverImproves` and
  `QuestionsAreAnswerable`, for any times, fees, policy and contract terms. The pickup
  property follows from two facts: no edit makes a row DRAFT again
  (`DraftNeverReturns`), and with a pickup on record the rule allows a DRAFT row only
  (`AllowedOnlyAsDraft`). The stability properties rest on lemmas about the rules
  themselves (`CreditInTime`, `CancellationInTime`): lateness is only gained, and a
  recorded time removes the snapshot from the arithmetic. `PromisesStand` adds
  what an edit can do: it only fills cells (`CellsAreAdded`), an eligible answer has
  a window, a carrier fault and, where the amount needs it, a fee already
  (`EligibleMeans`, `CreditOfFee`), so what is left to arrive is a customer fault
  or the pickup time. `CompleteTermsNeverRaise` bounds the counterexample
  `OrderDeskMisconfigured`: a fixed credit without an amount is the only thing that
  makes the credit rule raise. The loader does not check for it, so that every
  fixed credit has an amount is a hypothesis.
- `ContractOverrides_proofs`, about the overrides and the two modules that use
  them. The loader is a recursive function over the entries; its value is proved by
  taking the least length at which it would be wrong (`Induct`,
  `LoadedReflects`). For a ticket judged under manifests of any length:
  `TypeCorrect`, `LatestCounts`, `SeverityNotInvented`, `OtherEntriesDoNotCount`,
  `BreachStays`. For the files a process loads: `ConfigTypeCorrect`,
  `LoadsAreAtOneMoment`, `PoliciesOfOneDocument` and `RegistriesOfOneManifest`, for
  any processes, documents and examples and whatever a text that breaks off reads
  as, under any sequence of saves and removals. `ConfigInv` adds that a file
  holds a damaged text only while it is saved (`PartsOnlyWhileSaving`), that a process
  opens one file at a time (`OneOpening`), that its history has seen the file
  missing if it chose the example and there if it chose the real one
  (`PathsMet`), that until the load the history includes the present (`MomentMet`),
  and that what was loaded is a document's, or that of a beginning of one if
  the process met a saving (`FromTexts`). `ContractsOfOneManifest` follows from the
  last by `LoadedReflects`; `UndisturbedLoadsAsMeant` and `ExamplesOnlyForMissing`
  are exact about `RuleConfigHalf` and `RuleConfigMixed`.

Model-checked only: `RunsEnd` of both scripts, since liveness is beyond the
prover; the measure it rests on is proved. The counterexamples are by nature
TLC's. Every other property of the runs is a theorem.
`SeverityNotInvented` has no run: it holds by the shape of the rule for every
ticket, and a theorem says so more briefly.

## Not modelled

- What `pypdf` extracts from a file, and the wording of labels and evidence texts.
- How a workbook fails to parse: only at which sheet it is refused matters.
- The two filters of `list_doc_chunks`, which have no caller in `src/`, and the
  table of proposable action types, constant data without a consumer in `src/`.
- Settings and the contents of the YAML files: parameters of the models. A target
  under a misspelt severity is dropped without an error
  (`rules/policy_defaults.py:65`); no text says whether such a file should load.
- Zones whose offset changes more than once between the times of a data pack.
- Clients that remember chunk ids over a rebuild of the index. `SoloIndexExact`
  pins the id of every chunk of a run that is alone; over different manifests an
  id names whatever stands at its position.
- The milestones that exist in the design document only.

The design document also says (line 217) that a customer's `account_id` is
"ignored/overridden" by the account lookup; the code overrides it in the lists
and raises `AuthorizationError` in `get_account`. The model follows the code.

## Plan

1. The manifest of documents with entries that repeat a file.
2. Clients of the document index over its rebuilds, as `Serving` is of the tables.
3. The caller of the rules, once it exists: `Serving` composed with `OrderDesk`, to
   carry a torn snapshot time into a decision.
