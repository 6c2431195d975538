\* A request, its retry and a stranger with the same key; one crash.
SPECIFICATION FairSpec
CONSTANTS
  c1 = c1
  c2 = c2
  c3 = c3
  bread = bread
  milk = milk
  Calls = {c1, c2, c3}
  Content <- MCContent
  Tender <- MCTender
  Bill = 1
  MaxAttempts = 3
  MaxCrashes = 1
  NoRow = NoRow
INVARIANTS
  BookedOnce
PROPERTIES
  KeepsPromise
  EveryCallAnswered
CHECK_DEADLOCK FALSE
