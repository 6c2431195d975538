\* One bill of two units at a price no split divides evenly, with its commission; two
\* bills and two sessions, money in and out; commission
\* synchronisations against a bill that changes meanwhile.
SPECIFICATION MCSpec
CONSTANTS
  s1 = s1
  c1 = c1
  Stores = {s1}
  Variants = {v1}
  StockKeys = {}
  Transfers = {}
  Documents <- MCDocuments
  MaxUnits = 2
  NoRow = NoRow
  Cashiers = {c1}
  StoreAccounts = {}
  HomeStore <- MCHomeStore
  Registers = {r1}
  Sessions = {x1, x2}
  CashKeys = {k1}
  MaxCash = 1
  Sales = {b1, b2}
  Returns = {e1, e2}
  CommissionType = "FIXED"
  FixedBasis = "LINE"
  CommissionStores = {s1}
  Rates = {1, 2, 3}
  SyncJobs = {j1, j2}
  Manual = Manual
  LinePrices <- MCPrices
  DraftKinds = {"none", "with breaks"}
SYMMETRY Symmetry
INVARIANTS
  StockFollowsBills
  ReturnsMatchBill
PROPERTIES
  DrawerNeverOverdrawn
  ClosedSessionsAreHistory
  SnapshotsAreFinal
  
CHECK_DEADLOCK FALSE
