\* One run at a time; a client reads the orders.
SPECIFICATION ServingSpec
CONSTANTS
  w1 = w1
  w2 = w2
  k1 = k1
  k2 = k2
  NoBook = NoBook
  NoRun = NoRun
  Workbooks = {w1}
  Keys = {k1, k2}
  Content <- MCContent
  Defect <- MCDefect
  Runs = {r1}
  Readers = {q1}
  Asked = {"orders"}
PROPERTIES
  EmptyMeansEmpty
