SPECIFICATION MCSpec
CONSTANTS
  c1 = c1
  c2 = c2
  e1 = e1
  i1 = i1
  s1 = s1
  t1 = t1
  Campaigns = {c1, c2}
  Employees = {e1}
  Reachable = {e1}
  Images = {i1}
  Servers = {s1}
  Tickers = {t1}
  NoImage = NoImage
  NoKey = NoKey
  NoNote = NoNote
  MaxCrashes = 1
INVARIANTS
  OneSender
  ReportIsTrue
  AdminImageKept
PROPERTIES
  DueDispatched
  DispatchesOnce
CHECK_DEADLOCK FALSE
