\* The audit row of a sale that needed a second attempt.
SPECIFICATION Spec
CONSTANTS
  c1 = c1
  c2 = c2
  c3 = c3
  bread = bread
  milk = milk
  Calls = {c1, c2, c3}
  Content <- MCContent
  Tender <- MCTender
  Bill = 1
  MaxAttempts = 2
  MaxCrashes = 1
  NoRow = NoRow
INVARIANTS
  AuditRecordsTender
CHECK_DEADLOCK FALSE
