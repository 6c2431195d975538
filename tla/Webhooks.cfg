SPECIFICATION MCSpec
CONSTANTS
  bill1 = bill1
  bill2 = bill2
  r1 = r1
  r2 = r2
  e = e
  a = a
  b = b
  sold = sold
  shorter = shorter
  conflict = conflict
  void = void
  ret1 = ret1
  more1 = more1
  less1 = less1
  ret2 = ret2
  swap = swap
  junk = junk
  w1 = w1
  w2 = w2
  MaxReceived = 4
  Logs = {sold, shorter, conflict, void, ret1, more1, less1, ret2, swap, junk}
  Content <- MCContent
  Unsupported = {junk}
  Sales = {bill1, bill2}
  Refunds = {r1, r2, e}
  Items = {a, b}
  Policies <- MCPolicies
  Workers = {w1, w2}
  NoPolicy = NoPolicy
  NoLine = NoLine
  NoWorker = NoWorker
  NoAmount = NoAmount
  e1 = e1
  e2 = e2
  i1 = i1
  i2 = i2
  i3 = i3
  opened = opened
  reopened = reopened
  altered = altered
  dropped = dropped
  unnamed = unnamed
  MaxDelivered = 3
  Deliveries = {opened, reopened, altered, dropped, unnamed}
  Payload <- MCPayload
  Employees = {e1, e2}
  Rate = 1
  NoId = NoId
  NoDelivery = NoDelivery
SYMMETRY MCSymmetry
INVARIANTS
  LedgerExplainsLines
  RefundsWithinSale
  ExchangesAreWhole
  CreditsFollowRows
  EventAppliedOnce
PROPERTIES
  RevisionsOnlyAdvance
  
CHECK_DEADLOCK FALSE
