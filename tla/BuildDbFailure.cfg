\* One run at a time, one workbook whose orders are refused.
SPECIFICATION FairSpec
CONSTANTS
  w1 = w1
  w2 = w2
  wBad = wBad
  wNoLoad = wNoLoad
  k1 = k1
  k2 = k2
  NoBook = NoBook
  NoRun = NoRun
  Workbooks = {w1, wBad}
  Keys = {k1, k2}
  Content <- MCContent
  Defect <- MCDefect
  Runs = {r1}
  Readers = {}
PROPERTIES
  DatasetNeverLost
