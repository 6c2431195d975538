SPECIFICATION MCSpec
CONSTANTS
  h1 = h1
  h2 = h2
  d1 = d1
  d2 = d2
  l1 = l1
  l2 = l2
  q1 = q1
  q2 = q2
  Handlers = {h1, h2}
  Days = {d1, d2}
  Leaves = {l1, l2}
  Corrections = {q1, q2}
  MaxRows = 2
  MaxUsed = 3
  NoDay = NoDay
  NoItem = NoItem
  NoHandler = NoHandler
  Basis = 3
  LeaveLimit = 1
  Lengths = {2, 3, 4}
  Salaries = {100, 101}
INVARIANTS
  CorrectionsOnce
  
  
  SheetReconciles
  AttendingPays
PROPERTIES
  AutoKeepsManual
  CancelledIsFinal
CHECK_DEADLOCK FALSE
