\* Two runs that may overlap.
SPECIFICATION FairSpec
CONSTANTS
  policy = policy
  contract = contract
  acct = acct
  short = short
  long = long
  blank = blank
  General = General
  Absent = Absent
  Unreadable = Unreadable
  NoRun = NoRun
  Files = {policy, contract}
  Accounts = {acct}
  Texts = {short, long, blank}
  SectionsOf <- MCSectionsOf
  Manifests <- MCManifests
  Folders <- MCFolders
  Runs = {r1, r2}
INVARIANTS
  TypeOK
  DocumentsWhole
PROPERTIES
  SoloIndexExact
  SuccessIndexesAll
  RunsEnd
