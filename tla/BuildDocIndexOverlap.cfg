\* Two overlapping runs of one manifest.
SPECIFICATION Spec
CONSTANTS
  policy = policy
  contract = contract
  acct = acct
  short = short
  long = long
  blank = blank
  General = General
  Absent = Absent
  Unreadable = Unreadable
  NoRun = NoRun
  Files = {policy, contract}
  Accounts = {acct}
  Texts = {short, long, blank}
  SectionsOf <- MCSectionsOf
  Manifests <- MCManifests
  Folders <- MCFolders
  Runs = {r1, r2}
INVARIANT
  NoDuplicateChunks
