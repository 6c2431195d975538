\* Commission synchronisation against a bill that is cancelled meanwhile.
SPECIFICATION MCSpec
CONSTANTS
  s1 = s1
  c1 = c1
  Stores = {s1}
  Variants = {v1}
  StockKeys = {}
  Transfers = {}
  Documents <- MCDocuments
  MaxUnits = 1
  NoRow = NoRow
  Cashiers = {c1}
  StoreAccounts = {}
  HomeStore <- MCHomeStore
  Registers = {r1}
  Sessions = {x1}
  CashKeys = {}
  MaxCash = 0
  Sales = {b1}
  Returns = {e1}
  CommissionType = "FIXED"
  FixedBasis = "LINE"
  CommissionStores = {s1}
  Rates = {1}
  SyncJobs = {j1}
  Manual = Manual
  LinePrices <- MCPrices
  DraftKinds = {"none"}
SYMMETRY Symmetry
INVARIANTS
  CommissionFollowsBill
CHECK_DEADLOCK FALSE
