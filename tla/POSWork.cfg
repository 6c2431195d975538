\* Two stores, three writes and a sale among them.
SPECIFICATION WorkSpec
CONSTANTS
  Stores = {s1, s2}
  Variants = {}
  NoRow = NoRow
  Keys = {k1, k2, k3}
  Drafts = {d1, d2}
  Sessions = {x1}
  Sales = {c1}
  Empty = Empty
  Carts = {g1}
SYMMETRY Symmetry
PROPERTIES
  NoLostEdit
  SettledDraftsFrozen
  SoldAsShown
CHECK_DEADLOCK FALSE
