SPECIFICATION Spec
CONSTANTS
  a1 = a1
  a2 = a2
  o1 = o1
  o2 = o2
  t1 = t1
  c1 = c1
  c2 = c2
  open = open
  closed = closed
  s1 = s1
  NULL = NULL
  AccountIds = {a1, a2}
  OrderIds = {o1, o2}
  TicketIds = {t1}
  ChunkIds = {c1, c2}
  Statuses = {open, closed}
  Staff = {s1}
  Datasets <- MCDatasets
  Principals <- MCPrincipals
INVARIANTS
  TypeOK
  AnswersFromView
  NonInterference
