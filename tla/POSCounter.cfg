\* Stock: two variants in two stores, two references, two transfers of one or
\* both.  Bills of up to three lines, every kind of discount, returned in every
\* split.  Registers: two cashiers and the shared account of one store, a
\* cashier of another.
SPECIFICATION MCSpec
CONSTANTS
  s1 = s1
  s2 = s2
  v1 = v1
  v2 = v2
  c1 = c1
  c2 = c2
  c3 = c3
  a1 = a1
  k1 = k1
  k2 = k2
  t1 = t1
  t2 = t2
  r1 = r1
  r2 = r2
  x1 = x1
  x2 = x2
  Stores = {s1, s2}
  Variants = {v1, v2}
  StockKeys = {k1, k2}
  Transfers = {t1, t2}
  Documents <- MCDocuments
  MaxUnits = 1
  NoRow = NoRow
  Cashiers = {c1, c2, c3}
  StoreAccounts = {a1}
  HomeStore <- MCHomeStore
  Registers = {r1, r2}
  Sessions = {x1, x2}
  CashKeys = {m1}
  MaxCash = 1
  Prices = {3, 7}
  Quantities = {1, 3}
  Discounts = {1}
  TaxRates = {18}
  OrderDiscounts = {5, 33}
  MaxLines = 3
INVARIANTS
  LedgerExplainsBalance
  AuditedOnce
  TransferMovesOnce
  BillAddsUp
  RefundsTelescope
  OneOpenSessionPerRegister
CHECK_DEADLOCK FALSE
