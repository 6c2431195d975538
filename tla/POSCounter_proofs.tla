-------------------------- MODULE POSCounter_proofs --------------------------
(***************************************************************************)
(* Proofs about the counter, for every number of stores, variants, keys,   *)
(* transfers, accounts, registers, sessions, bills, returns and commission *)
(* jobs, and any bound on units and cash:                                  *)
(*                                                                         *)
(*   POSStock     balances are explained by their movements, references    *)
(*                and transfers move stock once;                           *)
(*   POSRegister  no two open sessions share a register, no register is    *)
(*                created twice;                                           *)
(*   POSSales     both composed with bills, returns and commission.        *)
(*                CounterInv keeps the tables; Effects says, handler by    *)
(*                handler, what a step leaves, and every later invariant   *)
(*                is proved over Effects: commission rows are snapshots    *)
(*                and follow the bill, drawers cover what leaves them,     *)
(*                closed sessions are history, refunds match the bill,     *)
(*                every bill implements POSBillLife, and stock follows     *)
(*                bills and returns.                                       *)
(***************************************************************************)
EXTENDS POSSales, SumLemmas, TLAPS

\* The kinds of document a stock handler books under are different ids.
LEMMA DocumentsApart ==
  /\ \A k \in StockKeys : k \in Documents /\ k \notin Transfers /\ k \notin Variants
  /\ \A t \in Transfers : t \in Documents /\ t \notin StockKeys /\ t \notin Variants
  /\ \A v \in Variants : v \in Documents /\ v \notin StockKeys /\ v \notin Transfers
  BY StockAssumption

\* Two deltas with equal components are equal.
LEMMA DeltaExtensional ==
  ASSUME NEW a \in Delta, NEW b \in Delta, a.q = b.q, a.d = b.d
  PROVE  a = b
  BY DEF Delta

\* A movement has added its delta to the balances, to the movement rows and to its
\* document, line by line, and has left everything else.
MovedBy(doc, s, lines, delta) ==
  /\ quantity' \in [Stores -> [Variants -> Nat]]
  /\ damaged' \in [Stores -> [Variants -> Nat]]
  /\ ledger' \in [Stores -> [Variants -> [rows : Nat, q : Int, d : Int]]]
  /\ docLedger' \in [Documents -> [Stores -> [Variants -> Delta]]]
  /\ \A v \in lines :
       /\ quantity'[s][v] = quantity[s][v] + delta[v].q
       /\ damaged'[s][v] = damaged[s][v] + delta[v].d
       /\ ledger'[s][v].rows = ledger[s][v].rows + 1
       /\ ledger'[s][v].q = ledger[s][v].q + delta[v].q
       /\ ledger'[s][v].d = ledger[s][v].d + delta[v].d
       /\ docLedger'[doc][s][v].q = docLedger[doc][s][v].q + delta[v].q
       /\ docLedger'[doc][s][v].d = docLedger[doc][s][v].d + delta[v].d
  /\ \A r \in Stores, v \in Variants : ~(r = s /\ v \in lines) =>
       /\ quantity'[r][v] = quantity[r][v]
       /\ damaged'[r][v] = damaged[r][v]
       /\ ledger'[r][v] = ledger[r][v]
  /\ \A x \in Documents, r \in Stores, v \in Variants :
       ~(x = doc /\ r = s /\ v \in lines) => docLedger'[x][r][v] = docLedger[x][r][v]

\* What movement() leaves behind: well-typed tables (no balance below zero),
\* the same delta on the balance and on the ledger of each of its lines, booked
\* under its own document, and nothing anywhere else.
LEMMA MovementEffect ==
  ASSUME StockTypeOK, NEW doc \in Documents, NEW s \in Stores, NEW lines \in SUBSET Variants,
         NEW delta \in [Variants -> Delta], Movement(doc, s, lines, delta)
  PROVE  MovedBy(doc, s, lines, delta)
<1>. USE DEF StockTypeOK, Movement, Covers, Logged
<1>1. \A v \in Variants : delta[v].q \in Int /\ delta[v].d \in Int
  BY DEF Delta
<1>2. quantity' \in [Stores -> [Variants -> Nat]]
  <2>1. \A v \in lines : quantity[s][v] + delta[v].q \in Nat
    BY <1>1
  <2>. QED
    BY <2>1
<1>3. damaged' \in [Stores -> [Variants -> Nat]]
  <2>1. \A v \in lines : damaged[s][v] + delta[v].d \in Nat
    BY <1>1
  <2>. QED
    BY <2>1
<1>4. ledger' \in [Stores -> [Variants -> [rows : Nat, q : Int, d : Int]]]
  BY <1>1
<1>5. docLedger' \in [Documents -> [Stores -> [Variants -> Delta]]]
  BY <1>1 DEF Delta
<1>6. ASSUME NEW v \in lines
      PROVE  /\ quantity'[s][v] = quantity[s][v] + delta[v].q
             /\ damaged'[s][v] = damaged[s][v] + delta[v].d
             /\ ledger'[s][v].rows = ledger[s][v].rows + 1
             /\ ledger'[s][v].q = ledger[s][v].q + delta[v].q
             /\ ledger'[s][v].d = ledger[s][v].d + delta[v].d
             /\ docLedger'[doc][s][v].q = docLedger[doc][s][v].q + delta[v].q
             /\ docLedger'[doc][s][v].d = docLedger[doc][s][v].d + delta[v].d
  OBVIOUS
<1>7. ASSUME NEW r \in Stores, NEW v \in Variants, ~(r = s /\ v \in lines)
      PROVE  /\ quantity'[r][v] = quantity[r][v]
             /\ damaged'[r][v] = damaged[r][v]
             /\ ledger'[r][v] = ledger[r][v]
  BY <1>7
<1>8. ASSUME NEW x \in Documents, NEW r \in Stores, NEW v \in Variants,
             ~(x = doc /\ r = s /\ v \in lines)
      PROVE  docLedger'[x][r][v] = docLedger[x][r][v]
  BY <1>8
<1>. QED
  BY <1>2, <1>3, <1>4, <1>5, <1>6, <1>7, <1>8 DEF MovedBy

-----------------------------------------------------------------------------
(* The inductive invariant.                                                *)

\* What the guards rely on: rows exist wherever something was booked, nothing was
\* booked for a variant not in the catalog yet, and a transfer joins two stores.
RowsRemember ==
  /\ \A s \in Stores, v \in Variants : v \notin catalog => ledger[s][v].rows = 0
  /\ \A s \in Stores, v \in Variants : ledger[s][v].rows = 0 => docLedger[v][s][v] = NoDelta
  /\ \A k \in StockKeys : stockLog[k] # NoRow =>
       ledger[stockLog[k].store][stockLog[k].variant].rows > 0
  /\ \A t \in Transfers : transfers[t] # NoRow =>
       Lines(transfers[t].items) \subseteq catalog /\ transfers[t].from # transfers[t].to

IInv ==
  /\ StockTypeOK
  /\ LedgerExplainsBalance
  /\ AuditedOnce
  /\ TransferMovesOnce
  /\ RowsRemember
  /\ OneOpening

\* What every handler that moves stock owes to Movement alone.
LEMMA MovementKeeps ==
  ASSUME IInv, NEW doc \in Documents, NEW s \in Stores, NEW lines \in SUBSET Variants,
         NEW delta \in [Variants -> Delta], Movement(doc, s, lines, delta),
         catalog \subseteq catalog', lines \subseteq catalog'
  PROVE  /\ LedgerExplainsBalance'
         /\ \A r \in Stores, v \in Variants : v \notin catalog' => ledger'[r][v].rows = 0
         /\ \A r \in Stores, v \in Variants : ledger'[r][v].rows >= ledger[r][v].rows
         /\ \A v \in lines : ledger'[s][v].rows > 0
<1>0. StockTypeOK /\ LedgerExplainsBalance /\ RowsRemember
  BY DEF IInv
<1>m. MovedBy(doc, s, lines, delta)
  BY <1>0, MovementEffect
<1>1. \A v \in lines :
        /\ quantity'[s][v] = quantity[s][v] + delta[v].q
        /\ damaged'[s][v] = damaged[s][v] + delta[v].d
        /\ ledger'[s][v].rows = ledger[s][v].rows + 1
        /\ ledger'[s][v].q = ledger[s][v].q + delta[v].q
        /\ ledger'[s][v].d = ledger[s][v].d + delta[v].d
        /\ docLedger'[doc][s][v].q = docLedger[doc][s][v].q + delta[v].q
        /\ docLedger'[doc][s][v].d = docLedger[doc][s][v].d + delta[v].d
  BY <1>m DEF MovedBy
<1>2. \A r \in Stores, v \in Variants : ~(r = s /\ v \in lines) =>
        /\ quantity'[r][v] = quantity[r][v]
        /\ damaged'[r][v] = damaged[r][v]
        /\ ledger'[r][v] = ledger[r][v]
  BY <1>m DEF MovedBy
<1>3. \A r \in Stores, v \in Variants : ledger[r][v].rows \in Nat
  BY <1>0 DEF StockTypeOK
<1>4. ASSUME NEW r \in Stores, NEW v \in Variants
      PROVE  quantity'[r][v] = ledger'[r][v].q /\ damaged'[r][v] = ledger'[r][v].d
  <2>1. quantity[r][v] = ledger[r][v].q /\ damaged[r][v] = ledger[r][v].d
    BY <1>0 DEF LedgerExplainsBalance
  <2>2. CASE r = s /\ v \in lines
    BY <1>1, <2>1, <2>2
  <2>3. CASE ~(r = s /\ v \in lines)
    BY <1>2, <2>1, <2>3
  <2>. QED
    BY <2>2, <2>3
<1>5. \A r \in Stores, v \in Variants : v \notin catalog' => ledger'[r][v].rows = 0
  BY <1>0, <1>2 DEF RowsRemember
<1>6. \A r \in Stores, v \in Variants : ledger'[r][v].rows >= ledger[r][v].rows
  BY <1>1, <1>2, <1>3
<1>7. \A v \in lines : ledger'[s][v].rows > 0
  BY <1>1, <1>3
<1>. QED
  BY <1>4, <1>5, <1>6, <1>7 DEF LedgerExplainsBalance

\* The audit row matches the movement it explains, and the guards let it in.
Admissible(k, s, v, delta, entry) ==
  /\ v \in catalog /\ stockLog[k] = NoRow
  /\ entry.type = "OPENING" => ledger[s][v].rows = 0
  /\ entry.store = s /\ entry.variant = v /\ entry.delta = delta[v]

\* adjust() and reconcileStock(): one movement under a fresh reference, and its audit row.
LEMMA AuditedMovement ==
  ASSUME IInv, NEW k \in StockKeys, NEW s \in Stores, NEW v \in Variants,
         NEW delta \in [Variants -> Delta], NEW entry \in StockEntry,
         Admissible(k, s, v, delta, entry), Movement(k, s, {v}, delta),
         stockLog' = [stockLog EXCEPT ![k] = entry],
         UNCHANGED <<catalog, transfers>>
  PROVE  IInv'
<1>0. /\ StockTypeOK /\ LedgerExplainsBalance /\ AuditedOnce /\ TransferMovesOnce
      /\ RowsRemember /\ OneOpening
  BY DEF IInv
<1>a. /\ v \in catalog /\ stockLog[k] = NoRow
      /\ entry.type = "OPENING" => ledger[s][v].rows = 0
      /\ entry.store = s /\ entry.variant = v /\ entry.delta = delta[v]
  BY DEF Admissible
<1>1. /\ k \in Documents /\ {v} \in SUBSET Variants
      /\ catalog \subseteq catalog' /\ {v} \subseteq catalog'
  BY <1>0, <1>a, DocumentsApart DEF StockTypeOK
<1>2. /\ quantity' \in [Stores -> [Variants -> Nat]]
      /\ damaged' \in [Stores -> [Variants -> Nat]]
      /\ ledger' \in [Stores -> [Variants -> [rows : Nat, q : Int, d : Int]]]
      /\ docLedger' \in [Documents -> [Stores -> [Variants -> Delta]]]
      /\ docLedger'[k][s][v].q = docLedger[k][s][v].q + delta[v].q
      /\ docLedger'[k][s][v].d = docLedger[k][s][v].d + delta[v].d
      /\ \A x \in Documents, r \in Stores, w \in Variants :
           ~(x = k /\ r = s /\ w \in {v}) => docLedger'[x][r][w] = docLedger[x][r][w]
  <2>1. v \in {v}
    OBVIOUS
  <2>2. MovedBy(k, s, {v}, delta)
    BY <1>0, <1>1, MovementEffect
  <2>. QED
    BY <2>1, <2>2 DEF MovedBy
<1>3. /\ LedgerExplainsBalance'
      /\ \A r \in Stores, w \in Variants : w \notin catalog' => ledger'[r][w].rows = 0
      /\ \A r \in Stores, w \in Variants : ledger'[r][w].rows >= ledger[r][w].rows
      /\ ledger'[s][v].rows > 0
  <2>1. v \in {v}
    OBVIOUS
  <2>. QED
    BY <1>1, <2>1, MovementKeeps, Zenon
<1>4. /\ delta[v] \in Delta
      /\ stockLog' \in [StockKeys -> StockEntry \cup {NoRow}]
      /\ stockLog'[k] = entry /\ stockLog'[k] # NoRow
      /\ \A j \in StockKeys \ {k} : stockLog'[j] = stockLog[j]
  BY <1>0, StockRowAssumption DEF StockTypeOK
<1>5. \A w \in Variants, r \in Stores : docLedger'[w][r][w] = docLedger[w][r][w]
  BY <1>2, DocumentsApart
<1>6. StockTypeOK'
  BY <1>0, <1>2, <1>4 DEF StockTypeOK
<1>7. AuditedOnce'
  <2>. SUFFICES ASSUME NEW j \in StockKeys, NEW r \in Stores, NEW w \in Variants
                PROVE  docLedger'[j][r][w] =
                         IF /\ stockLog'[j] # NoRow
                            /\ stockLog'[j].store = r /\ stockLog'[j].variant = w
                         THEN stockLog'[j].delta ELSE NoDelta
    BY DEF AuditedOnce
  <2>1. CASE j # k
    <3>1. docLedger'[j][r][w] = docLedger[j][r][w]
      BY <1>2, <2>1, DocumentsApart
    <3>2. stockLog'[j] = stockLog[j]
      BY <1>a, <1>4, <2>1
    <3>. QED
      BY <1>0, <3>1, <3>2 DEF AuditedOnce
  <2>2. CASE j = k /\ r = s /\ w = v
    <3>1. docLedger[k][s][v] = NoDelta
      BY <1>0, <1>a DEF AuditedOnce
    <3>2. docLedger'[k][s][v].q = delta[v].q /\ docLedger'[k][s][v].d = delta[v].d
      BY <1>2, <1>4, <3>1 DEF NoDelta, Delta
    <3>3. docLedger'[k][s][v] \in Delta
      BY <1>1, <1>2
    <3>4. docLedger'[k][s][v] = delta[v]
      BY <1>a, <1>4, <3>2, <3>3, DeltaExtensional
    <3>. QED
      BY <1>a, <1>4, <2>2, <3>4
  <2>3. CASE j = k /\ ~(r = s /\ w = v)
    <3>1. docLedger'[k][r][w] = docLedger[k][r][w]
      BY <1>1, <1>2, <2>3
    <3>2. docLedger[k][r][w] = NoDelta
      BY <1>0, <1>a DEF AuditedOnce
    <3>. QED
      BY <1>a, <1>4, <2>3, <3>1, <3>2
  <2>. QED
    BY <2>1, <2>2, <2>3
<1>8. TransferMovesOnce'
  <2>1. \A t \in Transfers, r \in Stores, w \in Variants :
          docLedger'[t][r][w] = docLedger[t][r][w]
    BY <1>2, DocumentsApart
  <2>. QED
    BY <1>0, <2>1 DEF TransferMovesOnce, TransferredUnits
<1>9. RowsRemember'
  <2>1. ASSUME NEW r \in Stores, NEW w \in Variants, ledger'[r][w].rows = 0
        PROVE  docLedger'[w][r][w] = NoDelta
    <3>1. ledger[r][w].rows \in Nat /\ ledger'[r][w].rows >= ledger[r][w].rows
      BY <1>0, <1>3 DEF StockTypeOK
    <3>2. ledger[r][w].rows = 0
      BY <2>1, <3>1
    <3>. QED
      BY <1>0, <1>5, <3>2 DEF RowsRemember
  <2>2. ASSUME NEW j \in StockKeys, stockLog'[j] # NoRow
        PROVE  ledger'[stockLog'[j].store][stockLog'[j].variant].rows > 0
    <3>1. CASE j = k
      BY <1>a, <1>3, <1>4, <3>1
    <3>2. CASE j # k
      <4>1. stockLog'[j] = stockLog[j] /\ stockLog[j] \in StockEntry
        BY <1>0, <1>4, <2>2, <3>2 DEF StockTypeOK
      <4>2. ledger[stockLog[j].store][stockLog[j].variant].rows > 0
        BY <1>0, <2>2, <4>1 DEF RowsRemember
      <4>3. stockLog[j].store \in Stores /\ stockLog[j].variant \in Variants
        BY <4>1 DEF StockEntry
      <4>4. /\ ledger[stockLog[j].store][stockLog[j].variant].rows \in Nat
            /\ ledger'[stockLog[j].store][stockLog[j].variant].rows \in Nat
        BY <1>0, <1>2, <4>3 DEF StockTypeOK
      <4>. QED
        BY <1>3, <4>1, <4>2, <4>3, <4>4
    <3>. QED
      BY <3>1, <3>2
  <2>3. \A t \in Transfers : transfers'[t] # NoRow =>
          Lines(transfers'[t].items) \subseteq catalog' /\ transfers'[t].from # transfers'[t].to
    BY <1>0 DEF RowsRemember, Lines
  <2>. QED
    BY <1>3, <2>1, <2>2, <2>3 DEF RowsRemember, Lines
<1>10. OneOpening'
  <2>1. \A j \in StockKeys : stockLog[j] # NoRow /\ entry.type = "OPENING" =>
          stockLog[j].store # s \/ stockLog[j].variant # v
    BY <1>0, <1>a DEF RowsRemember
  <2>2. entry.type = "OPENING" => docLedger[v][s][v].q = 0
    BY <1>0, <1>a DEF RowsRemember, NoDelta
  <2>. SUFFICES ASSUME NEW i \in StockKeys, stockLog'[i] # NoRow,
                       stockLog'[i].type = "OPENING"
                PROVE  /\ docLedger'[stockLog'[i].variant][stockLog'[i].store][stockLog'[i].variant].q = 0
                       /\ \A j \in StockKeys \ {i} :
                            stockLog'[j] # NoRow /\ stockLog'[j].type = "OPENING" =>
                              \/ stockLog'[j].store # stockLog'[i].store
                              \/ stockLog'[j].variant # stockLog'[i].variant
    BY DEF OneOpening
  <2>3. CASE i = k
    BY <1>a, <1>4, <1>5, <2>1, <2>2, <2>3
  <2>4. CASE i # k
    <3>1. stockLog'[i] = stockLog[i] /\ stockLog[i] \in StockEntry
      BY <1>0, <1>4, <2>4 DEF StockTypeOK
    <3>2. stockLog[i].store \in Stores /\ stockLog[i].variant \in Variants
      BY <3>1 DEF StockEntry
    <3>3. /\ docLedger[stockLog[i].variant][stockLog[i].store][stockLog[i].variant].q = 0
          /\ \A j \in StockKeys \ {i} :
               stockLog[j] # NoRow /\ stockLog[j].type = "OPENING" =>
                 \/ stockLog[j].store # stockLog[i].store
                 \/ stockLog[j].variant # stockLog[i].variant
      BY <1>0, <3>1 DEF OneOpening
    <3>4. entry.type = "OPENING" => stockLog[i].store # s \/ stockLog[i].variant # v
      BY <2>1, <3>1
    <3>. QED
      BY <1>a, <1>4, <1>5, <3>1, <3>2, <3>3, <3>4
  <2>. QED
    BY <2>3, <2>4
<1>. QED
  BY <1>3, <1>6, <1>7, <1>8, <1>9, <1>10 DEF IInv

\* The units of the movement are the difference between what the transfer has
\* moved as its old status says and as its new one does.
Accounted(t, row, s, lines, delta) ==
  /\ row.from = transfers[t].from /\ row.to = transfers[t].to /\ row.items = transfers[t].items
  /\ \A v \in lines :
       delta[v].d = 0 /\ TransferredUnits(row, s, v) = TransferredUnits(transfers[t], s, v) + delta[v].q
  /\ \A r \in Stores, v \in Variants : ~(r = s /\ v \in lines) =>
       TransferredUnits(row, r, v) = TransferredUnits(transfers[t], r, v)

\* The step both halves of progressTransfer() make: one movement under the
\* transfer's own id that brings its booked units to what its new status says.
LEMMA TransferMovement ==
  ASSUME IInv, NEW t \in Transfers, NEW s \in Stores, NEW lines \in SUBSET Variants,
         NEW delta \in [Variants -> Delta], NEW row \in TransferRow,
         transfers[t] # NoRow, lines \subseteq catalog, Movement(t, s, lines, delta),
         transfers' = [transfers EXCEPT ![t] = row],
         Accounted(t, row, s, lines, delta),
         UNCHANGED <<catalog, stockLog>>
  PROVE  IInv'
<1>0. /\ StockTypeOK /\ LedgerExplainsBalance /\ AuditedOnce /\ TransferMovesOnce
      /\ RowsRemember /\ OneOpening
  BY DEF IInv
<1>1. t \in Documents /\ catalog \subseteq catalog' /\ lines \subseteq catalog'
  BY DocumentsApart
<1>2. /\ quantity' \in [Stores -> [Variants -> Nat]]
      /\ damaged' \in [Stores -> [Variants -> Nat]]
      /\ ledger' \in [Stores -> [Variants -> [rows : Nat, q : Int, d : Int]]]
      /\ docLedger' \in [Documents -> [Stores -> [Variants -> Delta]]]
      /\ \A v \in lines :
           /\ docLedger'[t][s][v].q = docLedger[t][s][v].q + delta[v].q
           /\ docLedger'[t][s][v].d = docLedger[t][s][v].d + delta[v].d
      /\ \A x \in Documents, r \in Stores, w \in Variants :
           ~(x = t /\ r = s /\ w \in lines) => docLedger'[x][r][w] = docLedger[x][r][w]
  <2>1. MovedBy(t, s, lines, delta)
    BY <1>0, <1>1, MovementEffect
  <2>. QED
    BY <2>1 DEF MovedBy
<1>3. /\ LedgerExplainsBalance'
      /\ \A r \in Stores, w \in Variants : w \notin catalog' => ledger'[r][w].rows = 0
      /\ \A r \in Stores, w \in Variants : ledger'[r][w].rows >= ledger[r][w].rows
  BY <1>1, MovementKeeps, Zenon
<1>4. /\ transfers' \in [Transfers -> TransferRow \cup {NoRow}]
      /\ transfers'[t] = row
      /\ \A u \in Transfers \ {t} : transfers'[u] = transfers[u]
  BY <1>0 DEF StockTypeOK
<1>5. /\ \A w \in Variants, r \in Stores : docLedger'[w][r][w] = docLedger[w][r][w]
      /\ \A k \in StockKeys, r \in Stores, w \in Variants : docLedger'[k][r][w] = docLedger[k][r][w]
  BY <1>2, DocumentsApart
<1>6. StockTypeOK'
  BY <1>0, <1>2, <1>4 DEF StockTypeOK
<1>7. AuditedOnce'
  BY <1>0, <1>5 DEF AuditedOnce
<1>8. TransferMovesOnce'
  <2>. SUFFICES ASSUME NEW u \in Transfers, NEW r \in Stores, NEW w \in Variants
                PROVE  docLedger'[u][r][w] = [q |-> TransferredUnits(transfers'[u], r, w), d |-> 0]
    BY DEF TransferMovesOnce
  <2>0. docLedger[u][r][w] = [q |-> TransferredUnits(transfers[u], r, w), d |-> 0]
    BY <1>0 DEF TransferMovesOnce
  <2>1. CASE u # t
    <3>1. docLedger'[u][r][w] = docLedger[u][r][w]
      BY <1>2, <2>1, DocumentsApart
    <3>2. TransferredUnits(transfers'[u], r, w) = TransferredUnits(transfers[u], r, w)
      BY <1>4, <2>1 DEF TransferredUnits
    <3>. QED
      BY <2>0, <3>1, <3>2
  <2>2. CASE u = t /\ r = s /\ w \in lines
    <3>1. /\ docLedger'[t][s][w].q = docLedger[t][s][w].q + delta[w].q
          /\ docLedger'[t][s][w].d = docLedger[t][s][w].d + delta[w].d
      BY <1>2, <2>2
    <3>2. docLedger[t][s][w].q = TransferredUnits(transfers[t], s, w) /\ docLedger[t][s][w].d = 0
      BY <2>0, <2>2
    <3>3. delta[w].d = 0 /\ TransferredUnits(transfers'[t], s, w) = TransferredUnits(transfers[t], s, w) + delta[w].q
      BY <1>4, <2>2 DEF Accounted
    <3>4. docLedger'[t][s][w] \in Delta
      BY <1>1, <1>2, <2>2
    <3>5. docLedger'[t][s][w].q = TransferredUnits(transfers'[t], s, w) /\ docLedger'[t][s][w].d = 0
      BY <3>1, <3>2, <3>3
    <3>6. docLedger'[t][s][w] = [q |-> docLedger'[t][s][w].q, d |-> docLedger'[t][s][w].d]
      BY <3>4 DEF Delta
    <3>. QED
      BY <2>2, <3>5, <3>6
  <2>3. CASE u = t /\ ~(r = s /\ w \in lines)
    <3>1. docLedger'[t][r][w] = docLedger[t][r][w]
      BY <1>1, <1>2, <2>3
    <3>2. TransferredUnits(transfers'[t], r, w) = TransferredUnits(transfers[t], r, w)
      BY <1>4, <2>3 DEF Accounted
    <3>. QED
      BY <2>0, <2>3, <3>1, <3>2
  <2>. QED
    BY <2>1, <2>2, <2>3
<1>9. RowsRemember'
  <2>1. ASSUME NEW r \in Stores, NEW w \in Variants, ledger'[r][w].rows = 0
        PROVE  docLedger'[w][r][w] = NoDelta
    <3>1. ledger[r][w].rows \in Nat /\ ledger'[r][w].rows >= ledger[r][w].rows
      BY <1>0, <1>3 DEF StockTypeOK
    <3>2. ledger[r][w].rows = 0
      BY <2>1, <3>1
    <3>. QED
      BY <1>0, <1>5, <3>2 DEF RowsRemember
  <2>2. ASSUME NEW j \in StockKeys, stockLog'[j] # NoRow
        PROVE  ledger'[stockLog'[j].store][stockLog'[j].variant].rows > 0
    <3>1. stockLog'[j] = stockLog[j] /\ stockLog[j] \in StockEntry
      BY <1>0, <2>2 DEF StockTypeOK
    <3>2. ledger[stockLog[j].store][stockLog[j].variant].rows > 0
      BY <1>0, <2>2, <3>1 DEF RowsRemember
    <3>3. stockLog[j].store \in Stores /\ stockLog[j].variant \in Variants
      BY <3>1 DEF StockEntry
    <3>4. /\ ledger[stockLog[j].store][stockLog[j].variant].rows \in Nat
          /\ ledger'[stockLog[j].store][stockLog[j].variant].rows \in Nat
      BY <1>0, <1>2, <3>3 DEF StockTypeOK
    <3>. QED
      BY <1>3, <3>1, <3>2, <3>3, <3>4
  <2>3. ASSUME NEW u \in Transfers, transfers'[u] # NoRow
        PROVE  /\ Lines(transfers'[u].items) \subseteq catalog'
               /\ transfers'[u].from # transfers'[u].to
    <3>1. transfers[u] # NoRow /\ transfers'[u].items = transfers[u].items
          /\ transfers'[u].from = transfers[u].from /\ transfers'[u].to = transfers[u].to
      BY <1>4, <2>3 DEF Accounted
    <3>. QED
      BY <1>0, <3>1 DEF RowsRemember, Lines
  <2>. QED
    BY <1>3, <2>1, <2>2, <2>3 DEF RowsRemember, Lines
<1>10. OneOpening'
  <2>. SUFFICES ASSUME NEW i \in StockKeys, stockLog'[i] # NoRow,
                       stockLog'[i].type = "OPENING"
                PROVE  /\ docLedger'[stockLog'[i].variant][stockLog'[i].store][stockLog'[i].variant].q = 0
                       /\ \A j \in StockKeys \ {i} :
                            stockLog'[j] # NoRow /\ stockLog'[j].type = "OPENING" =>
                              \/ stockLog'[j].store # stockLog'[i].store
                              \/ stockLog'[j].variant # stockLog'[i].variant
    BY DEF OneOpening
  <2>1. stockLog[i].store \in Stores /\ stockLog[i].variant \in Variants
    BY <1>0 DEF StockTypeOK, StockEntry
  <2>. QED
    BY <1>0, <1>5, <2>1 DEF OneOpening
<1>. QED
  BY <1>3, <1>6, <1>7, <1>8, <1>9, <1>10 DEF IInv

\* A transfer row runs between two stores and names variants that exist
\* (createTransfer).
LEMMA LinesCatalogued ==
  ASSUME IInv, NEW t \in Transfers, transfers[t] # NoRow
  PROVE  /\ transfers[t] \in TransferRow
         /\ transfers[t].from # transfers[t].to
         /\ transfers[t].items \in [Variants -> Nat]
         /\ Lines(transfers[t].items) \in SUBSET Variants
         /\ Lines(transfers[t].items) \subseteq catalog
  BY DEF IInv, StockTypeOK, RowsRemember, TransferRow, Lines

\* progressTransfer(receive = false) keeps the invariant.
LEMMA DispatchStep ==
  ASSUME IInv, NEW t \in Transfers, DispatchTransfer(t)
  PROVE  IInv'
<1>1. /\ transfers[t] \in TransferRow
      /\ transfers[t] # NoRow /\ transfers[t].status = "DRAFT"
      /\ transfers[t].from # transfers[t].to
      /\ transfers[t].items \in [Variants -> Nat]
      /\ Lines(transfers[t].items) \in SUBSET Variants /\ Lines(transfers[t].items) \subseteq catalog
  BY LinesCatalogued DEF DispatchTransfer, InStatus
<1>2. PICK s \in Stores, lines \in SUBSET Variants, delta \in [Variants -> Delta],
           row \in TransferRow :
        /\ s = transfers[t].from /\ lines = Lines(transfers[t].items)
        /\ delta = [v \in Variants |-> [q |-> -transfers[t].items[v], d |-> 0]]
        /\ row = [transfers[t] EXCEPT !.status = "DISPATCHED"]
  <2>1. transfers[t].from \in Stores
    BY <1>1 DEF TransferRow
  <2>2. [v \in Variants |-> [q |-> -transfers[t].items[v], d |-> 0]] \in [Variants -> Delta]
    BY <1>1 DEF Delta
  <2>3. [transfers[t] EXCEPT !.status = "DISPATCHED"] \in TransferRow
    BY <1>1 DEF TransferRow
  <2>. QED
    BY <1>1, <2>1, <2>2, <2>3, Zenon
<1>3. /\ row.from = transfers[t].from /\ row.to = transfers[t].to
      /\ row.items = transfers[t].items /\ row.status = "DISPATCHED" /\ lines \subseteq catalog
  BY <1>1, <1>2 DEF TransferRow
<1>4. /\ Movement(t, s, lines, delta)
      /\ transfers' = [transfers EXCEPT ![t] = row]
      /\ UNCHANGED <<catalog, stockLog>>
  BY <1>2 DEF DispatchTransfer, InStatus
<1>5. row # NoRow
  BY <1>3, StockRowAssumption
<1>6. \A v \in lines : delta[v].d = 0 /\ TransferredUnits(row, s, v) = TransferredUnits(transfers[t], s, v) + delta[v].q
  <2>. SUFFICES ASSUME NEW v \in lines
                PROVE  delta[v].d = 0 /\ TransferredUnits(row, s, v) = TransferredUnits(transfers[t], s, v) + delta[v].q
    OBVIOUS
  <2>1. v \in Variants /\ transfers[t].items[v] \in Nat
    BY <1>1, <1>2
  <2>2. delta[v].d = 0 /\ delta[v].q = -transfers[t].items[v]
    BY <1>2, <2>1
  <2>3. TransferredUnits(transfers[t], s, v) = 0
    BY <1>1, <1>2 DEF TransferredUnits
  <2>4. TransferredUnits(row, s, v) = -transfers[t].items[v]
    BY <1>2, <1>3, <1>5 DEF TransferredUnits
  <2>. QED
    BY <2>1, <2>2, <2>3, <2>4
<1>7. \A r \in Stores, v \in Variants : ~(r = s /\ v \in lines) =>
        TransferredUnits(row, r, v) = TransferredUnits(transfers[t], r, v)
  <2>. SUFFICES ASSUME NEW r \in Stores, NEW v \in Variants, ~(r = s /\ v \in lines)
                PROVE  TransferredUnits(row, r, v) = TransferredUnits(transfers[t], r, v)
    OBVIOUS
  <2>1. TransferredUnits(transfers[t], r, v) = 0
    BY <1>1, <1>2 DEF TransferredUnits
  <2>2. CASE r # s
    BY <1>2, <1>3, <1>5, <2>1, <2>2 DEF TransferredUnits
  <2>3. CASE r = s
    <3>1. transfers[t].items[v] = 0
      BY <1>1, <1>2, <2>3 DEF Lines
    <3>. QED
      BY <1>2, <1>3, <1>5, <2>1, <2>3, <3>1 DEF TransferredUnits
  <2>. QED
    BY <2>2, <2>3
<1>8. Accounted(t, row, s, lines, delta)
  BY <1>3, <1>6, <1>7 DEF Accounted
<1>. QED
  BY <1>1, <1>3, <1>4, <1>8, TransferMovement, Zenon

\* progressTransfer(receive = true) keeps the invariant.
LEMMA ReceiveStep ==
  ASSUME IInv, NEW t \in Transfers, ReceiveTransfer(t)
  PROVE  IInv'
<1>1. /\ transfers[t] \in TransferRow
      /\ transfers[t] # NoRow /\ transfers[t].status = "DISPATCHED"
      /\ transfers[t].from # transfers[t].to
      /\ transfers[t].items \in [Variants -> Nat]
      /\ Lines(transfers[t].items) \in SUBSET Variants /\ Lines(transfers[t].items) \subseteq catalog
  BY LinesCatalogued DEF ReceiveTransfer, InStatus
<1>2. PICK s \in Stores, lines \in SUBSET Variants, delta \in [Variants -> Delta],
           row \in TransferRow :
        /\ s = transfers[t].to /\ lines = Lines(transfers[t].items)
        /\ delta = [v \in Variants |-> [q |-> transfers[t].items[v], d |-> 0]]
        /\ row = [transfers[t] EXCEPT !.status = "RECEIVED"]
  <2>1. transfers[t].to \in Stores
    BY <1>1 DEF TransferRow
  <2>2. [v \in Variants |-> [q |-> transfers[t].items[v], d |-> 0]] \in [Variants -> Delta]
    BY <1>1 DEF Delta
  <2>3. [transfers[t] EXCEPT !.status = "RECEIVED"] \in TransferRow
    BY <1>1 DEF TransferRow
  <2>. QED
    BY <1>1, <2>1, <2>2, <2>3, Zenon
<1>3. /\ row.from = transfers[t].from /\ row.to = transfers[t].to
      /\ row.items = transfers[t].items /\ row.status = "RECEIVED" /\ lines \subseteq catalog
  BY <1>1, <1>2 DEF TransferRow
<1>4. /\ Movement(t, s, lines, delta)
      /\ transfers' = [transfers EXCEPT ![t] = row]
      /\ UNCHANGED <<catalog, stockLog>>
  BY <1>2 DEF ReceiveTransfer, InStatus
<1>5. row # NoRow
  BY <1>3, StockRowAssumption
<1>6. \A v \in lines : delta[v].d = 0 /\ TransferredUnits(row, s, v) = TransferredUnits(transfers[t], s, v) + delta[v].q
  <2>. SUFFICES ASSUME NEW v \in lines
                PROVE  delta[v].d = 0 /\ TransferredUnits(row, s, v) = TransferredUnits(transfers[t], s, v) + delta[v].q
    OBVIOUS
  <2>1. v \in Variants /\ transfers[t].items[v] \in Nat
    BY <1>1, <1>2
  <2>2. delta[v].d = 0 /\ delta[v].q = transfers[t].items[v]
    BY <1>2, <2>1
  <2>3. TransferredUnits(transfers[t], s, v) = 0
    BY <1>1, <1>2 DEF TransferredUnits
  <2>4. TransferredUnits(row, s, v) = transfers[t].items[v]
    BY <1>1, <1>2, <1>3, <1>5 DEF TransferredUnits
  <2>. QED
    BY <2>1, <2>2, <2>3, <2>4
<1>7. \A r \in Stores, v \in Variants : ~(r = s /\ v \in lines) =>
        TransferredUnits(row, r, v) = TransferredUnits(transfers[t], r, v)
  <2>. SUFFICES ASSUME NEW r \in Stores, NEW v \in Variants, ~(r = s /\ v \in lines)
                PROVE  TransferredUnits(row, r, v) = TransferredUnits(transfers[t], r, v)
    OBVIOUS
  <2>2. CASE r # s
    BY <1>1, <1>2, <1>3, <1>5, <2>2 DEF TransferredUnits
  <2>3. CASE r = s
    <3>1. transfers[t].items[v] = 0
      BY <1>1, <1>2, <2>3 DEF Lines
    <3>. QED
      BY <1>1, <1>2, <1>3, <1>5, <2>3, <3>1 DEF TransferredUnits
  <2>. QED
    BY <2>2, <2>3
<1>8. Accounted(t, row, s, lines, delta)
  BY <1>3, <1>6, <1>7 DEF Accounted
<1>. QED
  BY <1>1, <1>3, <1>4, <1>8, TransferMovement, Zenon

\* createTransfer() keeps the invariant: a draft moves nothing.
LEMMA CreateTransferStep ==
  ASSUME IInv, NEW t \in Transfers, NEW from \in Stores, NEW to \in Stores,
         NEW items \in [Variants -> Nat], CreateTransfer(t, from, to, items)
  PROVE  IInv'
<1>0. /\ StockTypeOK /\ LedgerExplainsBalance /\ AuditedOnce /\ TransferMovesOnce
      /\ RowsRemember /\ OneOpening
  BY DEF IInv
<1>1. PICK row \in TransferRow :
        row = [status |-> "DRAFT", from |-> from, to |-> to, items |-> items]
  BY DEF TransferRow
<1>2. /\ row.status = "DRAFT" /\ row.from = from /\ row.to = to /\ row.items = items
      /\ row # NoRow /\ from # to /\ Lines(items) \subseteq catalog
  BY <1>1, StockRowAssumption DEF CreateTransfer
<1>3. /\ transfers' = [transfers EXCEPT ![t] = row] /\ transfers[t] = NoRow
      /\ UNCHANGED <<catalog, quantity, damaged, ledger, docLedger, stockLog>>
  BY <1>1 DEF CreateTransfer
<1>4. /\ transfers' \in [Transfers -> TransferRow \cup {NoRow}]
      /\ transfers'[t] = row
      /\ \A u \in Transfers \ {t} : transfers'[u] = transfers[u]
  BY <1>0, <1>3 DEF StockTypeOK
<1>5. StockTypeOK'
  BY <1>0, <1>3, <1>4 DEF StockTypeOK
<1>6. LedgerExplainsBalance' /\ AuditedOnce' /\ OneOpening'
  <2>1. LedgerExplainsBalance'
    BY <1>0, <1>3 DEF LedgerExplainsBalance
  <2>2. AuditedOnce' /\ OneOpening'
    BY <1>0, <1>3 DEF AuditedOnce, OneOpening
  <2>. QED
    BY <2>1, <2>2
<1>7. TransferMovesOnce'
  <2>. SUFFICES ASSUME NEW u \in Transfers, NEW r \in Stores, NEW w \in Variants
                PROVE  docLedger[u][r][w] = [q |-> TransferredUnits(transfers'[u], r, w), d |-> 0]
    BY <1>3 DEF TransferMovesOnce
  <2>1. TransferredUnits(transfers'[u], r, w) = TransferredUnits(transfers[u], r, w)
    BY <1>2, <1>3, <1>4 DEF TransferredUnits
  <2>. QED
    BY <1>0, <2>1 DEF TransferMovesOnce
<1>8. RowsRemember'
  <2>1. ASSUME NEW u \in Transfers, transfers'[u] # NoRow
        PROVE  /\ Lines(transfers'[u].items) \subseteq catalog'
               /\ transfers'[u].from # transfers'[u].to
    BY <1>0, <1>2, <1>3, <1>4, <2>1 DEF RowsRemember
  <2>. QED
    BY <1>0, <1>3, <2>1 DEF RowsRemember, Lines
<1>. QED
  BY <1>5, <1>6, <1>7, <1>8 DEF IInv

\* A product registered with opening stock: the one movement booked under the variant.
LEMMA OpeningMovement ==
  ASSUME IInv, NEW s \in Stores, NEW v \in Variants, NEW delta \in [Variants -> Delta],
         v \notin catalog, catalog' = catalog \cup {v}, Movement(v, s, {v}, delta),
         UNCHANGED <<stockLog, transfers>>
  PROVE  IInv'
<1>0. /\ StockTypeOK /\ LedgerExplainsBalance /\ AuditedOnce /\ TransferMovesOnce
      /\ RowsRemember /\ OneOpening
  BY DEF IInv
<1>1. /\ v \in Documents /\ {v} \in SUBSET Variants
      /\ catalog \subseteq catalog' /\ {v} \subseteq catalog' /\ catalog' \subseteq Variants
  BY <1>0, DocumentsApart DEF StockTypeOK
<1>2. /\ quantity' \in [Stores -> [Variants -> Nat]]
      /\ damaged' \in [Stores -> [Variants -> Nat]]
      /\ ledger' \in [Stores -> [Variants -> [rows : Nat, q : Int, d : Int]]]
      /\ docLedger' \in [Documents -> [Stores -> [Variants -> Delta]]]
      /\ \A x \in Documents, r \in Stores, w \in Variants :
           ~(x = v /\ r = s /\ w \in {v}) => docLedger'[x][r][w] = docLedger[x][r][w]
  <2>1. MovedBy(v, s, {v}, delta)
    BY <1>0, <1>1, MovementEffect
  <2>. QED
    BY <2>1 DEF MovedBy
<1>3. /\ LedgerExplainsBalance'
      /\ \A r \in Stores, w \in Variants : w \notin catalog' => ledger'[r][w].rows = 0
      /\ \A r \in Stores, w \in Variants : ledger'[r][w].rows >= ledger[r][w].rows
      /\ ledger'[s][v].rows > 0
  <2>1. v \in {v}
    OBVIOUS
  <2>. QED
    BY <1>1, <2>1, MovementKeeps, Zenon
<1>4. /\ \A k \in StockKeys, r \in Stores, w \in Variants : docLedger'[k][r][w] = docLedger[k][r][w]
      /\ \A t \in Transfers, r \in Stores, w \in Variants : docLedger'[t][r][w] = docLedger[t][r][w]
  BY <1>2, DocumentsApart
<1>5. StockTypeOK'
  BY <1>0, <1>1, <1>2 DEF StockTypeOK
<1>6. AuditedOnce' /\ TransferMovesOnce'
  BY <1>0, <1>4 DEF AuditedOnce, TransferMovesOnce
<1>7. ASSUME NEW j \in StockKeys, stockLog[j] # NoRow
      PROVE  /\ stockLog[j].store \in Stores /\ stockLog[j].variant \in Variants \ {v}
             /\ ledger'[stockLog[j].store][stockLog[j].variant].rows > 0
  <2>1. /\ stockLog[j].store \in Stores /\ stockLog[j].variant \in Variants
        /\ ledger[stockLog[j].store][stockLog[j].variant].rows > 0
    BY <1>0, <1>7 DEF StockTypeOK, StockEntry, RowsRemember
  <2>2. stockLog[j].variant # v
    BY <1>0, <2>1 DEF RowsRemember
  <2>3. /\ ledger[stockLog[j].store][stockLog[j].variant].rows \in Nat
        /\ ledger'[stockLog[j].store][stockLog[j].variant].rows \in Nat
    BY <1>0, <1>2, <2>1 DEF StockTypeOK
  <2>. QED
    BY <1>3, <2>1, <2>2, <2>3
<1>8. RowsRemember'
  <2>1. ASSUME NEW r \in Stores, NEW w \in Variants, ledger'[r][w].rows = 0
        PROVE  docLedger'[w][r][w] = NoDelta
    <3>1. ledger[r][w].rows \in Nat /\ ledger'[r][w].rows >= ledger[r][w].rows
      BY <1>0, <1>3 DEF StockTypeOK
    <3>2. ledger[r][w].rows = 0 /\ ~(r = s /\ w = v)
      BY <1>3, <2>1, <3>1
    <3>3. docLedger'[w][r][w] = docLedger[w][r][w]
      BY <1>2, <3>2, DocumentsApart
    <3>. QED
      BY <1>0, <3>2, <3>3 DEF RowsRemember
  <2>2. \A t \in Transfers : transfers'[t] # NoRow =>
          Lines(transfers'[t].items) \subseteq catalog' /\ transfers'[t].from # transfers'[t].to
    BY <1>0, <1>1 DEF RowsRemember, Lines
  <2>. QED
    BY <1>3, <1>7, <2>1, <2>2 DEF RowsRemember, Lines
<1>9. OneOpening'
  <2>1. ASSUME NEW j \in StockKeys, stockLog[j] # NoRow
        PROVE  docLedger'[stockLog[j].variant][stockLog[j].store][stockLog[j].variant] =
                 docLedger[stockLog[j].variant][stockLog[j].store][stockLog[j].variant]
    BY <1>2, <1>7, <2>1, DocumentsApart
  <2>. QED
    BY <1>0, <2>1 DEF OneOpening
<1>. QED
  BY <1>3, <1>5, <1>6, <1>8, <1>9 DEF IInv

\* createProduct() keeps the invariant: its opening stock is the variant's first movement.
LEMMA CreateProductStep ==
  ASSUME IInv, NEW v \in Variants, CreateProduct(v)
  PROVE  IInv'
<1>1. /\ v \notin catalog /\ catalog' = catalog \cup {v}
      /\ UNCHANGED <<stockLog, transfers>>
  BY DEF CreateProduct
<1>2. CASE UNCHANGED <<quantity, damaged, ledger, docLedger>>
  <2>0. /\ StockTypeOK /\ LedgerExplainsBalance /\ AuditedOnce /\ TransferMovesOnce
        /\ RowsRemember /\ OneOpening
    BY DEF IInv
  <2>1. StockTypeOK'
    BY <1>1, <1>2, <2>0 DEF StockTypeOK
  <2>2. LedgerExplainsBalance' /\ AuditedOnce' /\ TransferMovesOnce' /\ OneOpening'
    <3>1. LedgerExplainsBalance'
      BY <1>2, <2>0 DEF LedgerExplainsBalance
    <3>2. AuditedOnce' /\ OneOpening'
      BY <1>1, <1>2, <2>0 DEF AuditedOnce, OneOpening
    <3>3. TransferMovesOnce'
      BY <1>1, <1>2, <2>0 DEF TransferMovesOnce
    <3> QED
      BY <3>1, <3>2, <3>3
  <2>3. RowsRemember'
    BY <1>1, <1>2, <2>0 DEF RowsRemember, Lines
  <2>. QED
    BY <2>1, <2>2, <2>3 DEF IInv
<1>3. CASE \E s \in Stores, n \in 1..MaxUnits :
             Movement(v, s, {v}, [w \in Variants |-> [q |-> n, d |-> 0]])
  <2>1. PICK s \in Stores, n \in 1..MaxUnits :
               Movement(v, s, {v}, [w \in Variants |-> [q |-> n, d |-> 0]])
    BY <1>3
  <2>2. [w \in Variants |-> [q |-> n, d |-> 0]] \in [Variants -> Delta]
    BY StockAssumption DEF Delta
  <2>. QED
    BY <1>1, <2>1, <2>2, OpeningMovement, Zenon
<1>. QED
  BY <1>2, <1>3 DEF CreateProduct

-----------------------------------------------------------------------------
\* Empty tables satisfy the invariant.
LEMMA InitEstablishes == StockInit => IInv
<1>. SUFFICES ASSUME StockInit
              PROVE  IInv
  OBVIOUS
<1>. USE DEF StockInit
<1>1. StockTypeOK
  BY DEF StockTypeOK, Delta, NoDelta
<1>2. LedgerExplainsBalance
  BY DEF LedgerExplainsBalance
<1>3. AuditedOnce
  BY DocumentsApart DEF AuditedOnce
<1>4. TransferMovesOnce
  BY DocumentsApart DEF TransferMovesOnce, TransferredUnits, NoDelta
<1>5. RowsRemember
  BY DocumentsApart DEF RowsRemember
<1>6. OneOpening
  BY DEF OneOpening
<1>. QED
  BY <1>1, <1>2, <1>3, <1>4, <1>5, <1>6 DEF IInv

\* No stock handler breaks the invariant.
LEMMA StepKeeps == IInv /\ [StockNext]_stockVars => IInv'
<1>. SUFFICES ASSUME IInv, [StockNext]_stockVars
              PROVE  IInv'
  OBVIOUS
<1>1. ASSUME NEW v \in Variants, CreateProduct(v)
      PROVE  IInv'
  BY <1>1, CreateProductStep
<1>2. ASSUME NEW k \in StockKeys, NEW s \in Stores, NEW v \in Variants,
             NEW type \in MovementTypes, NEW q \in -MaxUnits..MaxUnits,
             NEW d \in -MaxUnits..MaxUnits, Adjust(k, s, v, type, [q |-> q, d |-> d])
      PROVE  IInv'
  <2>1. PICK delta \in [Variants -> Delta] : delta = [w \in Variants |-> [q |-> q, d |-> d]]
    <3>1. q \in Int /\ d \in Int
      BY StockAssumption
    <3>2. [w \in Variants |-> [q |-> q, d |-> d]] \in [Variants -> Delta]
      BY <3>1 DEF Delta
    <3>. QED
      BY <3>2, Zenon
  <2>2. delta[v] = [q |-> q, d |-> d]
    BY <2>1
  <2>4. PICK entry \in StockEntry :
          entry = [store |-> s, variant |-> v, type |-> type, delta |-> delta[v]]
    BY DEF StockEntry, MovementTypes
  <2>5. /\ entry.store = s /\ entry.variant = v /\ entry.type = type
        /\ entry.delta = delta[v]
    BY <2>4
  <2>3. Admissible(k, s, v, delta, entry)
    BY <1>2, <2>5 DEF Adjust, FreshReference, FirstMovement, Admissible
  <2>6. /\ Movement(k, s, {v}, delta)
        /\ stockLog' = [stockLog EXCEPT ![k] = entry]
        /\ UNCHANGED <<catalog, transfers>>
    BY <1>2, <2>1, <2>2, <2>4 DEF Adjust, FreshReference, FirstMovement
  <2>. QED
    BY <2>3, <2>6, AuditedMovement, Zenon
<1>3. ASSUME NEW k \in StockKeys, NEW s \in Stores, NEW v \in Variants,
             NEW q \in 0..MaxUnits, NEW d \in 0..MaxUnits, ReconcileStock(k, s, v, q, d)
      PROVE  IInv'
  <2>0. quantity[s][v] \in Nat /\ damaged[s][v] \in Nat /\ q \in Int /\ d \in Int
    BY StockAssumption DEF IInv, StockTypeOK
  <2>1. PICK delta \in [Variants -> Delta] :
          delta = [w \in Variants |-> [q |-> q - quantity[s][v], d |-> d - damaged[s][v]]]
    <3>1. [w \in Variants |-> [q |-> q - quantity[s][v], d |-> d - damaged[s][v]]] \in [Variants -> Delta]
      BY <2>0 DEF Delta
    <3>. QED
      BY <3>1, Zenon
  <2>2. delta[v] = [q |-> q - quantity[s][v], d |-> d - damaged[s][v]]
    BY <2>1
  <2>4. PICK entry \in StockEntry :
          entry = [store |-> s, variant |-> v, type |-> "RECONCILIATION", delta |-> delta[v]]
    BY DEF StockEntry, MovementTypes
  <2>5. /\ entry.store = s /\ entry.variant = v /\ entry.type = "RECONCILIATION"
        /\ entry.delta = delta[v]
    BY <2>4
  <2>3. Admissible(k, s, v, delta, entry)
    BY <1>3, <2>5 DEF ReconcileStock, FreshReference, Admissible
  <2>6. /\ Movement(k, s, {v}, delta)
        /\ stockLog' = [stockLog EXCEPT ![k] = entry]
        /\ UNCHANGED <<catalog, transfers>>
    BY <1>3, <2>1, <2>2, <2>4 DEF ReconcileStock, FreshReference
  <2>. QED
    BY <2>3, <2>6, AuditedMovement, Zenon
<1>4. ASSUME NEW t \in Transfers, NEW from \in Stores, NEW to \in Stores,
             NEW items \in [Variants -> 0..MaxUnits], CreateTransfer(t, from, to, items)
      PROVE  IInv'
  <2>1. items \in [Variants -> Nat]
    BY StockAssumption
  <2>. QED
    BY <1>4, <2>1, CreateTransferStep
<1>5. ASSUME NEW t \in Transfers, DispatchTransfer(t)
      PROVE  IInv'
  BY <1>5, DispatchStep
<1>6. ASSUME NEW t \in Transfers, ReceiveTransfer(t)
      PROVE  IInv'
  BY <1>6, ReceiveStep
<1>7. CASE UNCHANGED stockVars
  <2>1. /\ UNCHANGED <<catalog, quantity, damaged, ledger>>
        /\ UNCHANGED <<docLedger, stockLog, transfers>>
    BY <1>7 DEF stockVars
  <2>2. StockTypeOK' /\ LedgerExplainsBalance'
    BY <2>1 DEF IInv, StockTypeOK, LedgerExplainsBalance
  <2>3. AuditedOnce' /\ TransferMovesOnce'
    BY <2>1 DEF IInv, AuditedOnce, TransferMovesOnce
  <2>4. RowsRemember' /\ OneOpening'
    BY <2>1 DEF IInv, RowsRemember, OneOpening
  <2> QED
    BY <2>2, <2>3, <2>4 DEF IInv
<1>. QED
  BY <1>1, <1>2, <1>3, <1>4, <1>5, <1>6, <1>7 DEF StockNext

\* The inductive invariant holds after any sequence of stock handlers.
THEOREM StockInvariant == StockSpec => []IInv
<1>. QED
  BY InitEstablishes, StepKeeps, PTL DEF StockSpec

\* No balance is ever negative and every table keeps its shape, whatever
\* handlers run (the database's CHECK constraints never fire).
THEOREM StockTypes == StockSpec => []StockTypeOK
<1>1. IInv => StockTypeOK
  BY DEF IInv
<1>. QED
  BY <1>1, StockInvariant, PTL

\* movement(): balances and movement rows agree for every store and variant.
THEOREM BalancesAreExplained == StockSpec => []LedgerExplainsBalance
<1>1. IInv => LedgerExplainsBalance
  BY DEF IInv
<1>. QED
  BY <1>1, StockInvariant, PTL

\* adjust(), reconcileStock(): a reference moves stock once, as its audit row says.
THEOREM ReferencesApplyOnce == StockSpec => []AuditedOnce
<1>1. IInv => AuditedOnce
  BY DEF IInv
<1>. QED
  BY <1>1, StockInvariant, PTL

\* progressTransfer(): a transfer leaves its source once and arrives once.
THEOREM TransfersMoveOnce == StockSpec => []TransferMovesOnce
<1>1. IInv => TransferMovesOnce
  BY DEF IInv
<1>. QED
  BY <1>1, StockInvariant, PTL

\* adjust(), createProduct(): opening stock is booked once per store and variant.
THEOREM OpeningBookedOnce == StockSpec => []OneOpening
<1>1. IInv => OneOpening
  BY DEF IInv
<1>. QED
  BY <1>1, StockInvariant, PTL

-----------------------------------------------------------------------------
(* Registers *)

\* The tables: every id has its row, or none.
Tables ==
  /\ registers \in [Registers -> RegisterRow \cup {NoRow}]
  /\ DOMAIN sessions = Sessions /\ sessions = [x \in Sessions |-> sessions[x]]

RegisterInv == Tables /\ OneOpenSessionPerRegister /\ NoDuplicateRegister

\* What any opening, whichever its handler, does to the sessions.
LEMMA CreateSessionStep ==
  ASSUME Tables, OneOpenSessionPerRegister,
         NEW x \in Sessions, NEW r, NEW a, NEW cashier, NEW opening,
         CreateSession(x, r, a, cashier, opening)
  PROVE  /\ DOMAIN sessions' = Sessions /\ sessions' = [y \in Sessions |-> sessions'[y]]
         /\ OneOpenSessionPerRegister'
<1> DEFINE row == NewSessionRow(r, a, cashier, opening)
<1>1. sessions' = [sessions EXCEPT ![x] = row] /\ ~Occupied(r)
  BY DEF CreateSession
<1>2. row.register = r
  BY DEF NewSessionRow
<1>3. sessions'[x] = row /\ \A y \in Sessions \ {x} : sessions'[y] = sessions[y]
  BY <1>1 DEF Tables
<1>4. \A y \in Sessions \ {x} : IsOpen(y)' => IsOpen(y) /\ sessions'[y].register = sessions[y].register
  BY <1>3 DEF IsOpen
<1>5. \A y \in Sessions \ {x} : IsOpen(y) => sessions[y].register # r
  BY <1>1 DEF Occupied
<1>6. OneOpenSessionPerRegister'
  BY <1>2, <1>3, <1>4, <1>5 DEF OneOpenSessionPerRegister
<1> QED
  BY <1>1, <1>6 DEF Tables

\* What creating a register on demand or by hand does to the registers.
LEMMA CreateRegisterStep ==
  ASSUME Tables, NoDuplicateRegister,
         NEW r \in Registers, NEW store \in Stores, NEW name \in RegisterNames,
         CreateRegister(r, store, name)
  PROVE  registers' \in [Registers -> RegisterRow \cup {NoRow}] /\ NoDuplicateRegister'
<1> DEFINE row == [store |-> store, name |-> name]
<1>1. registers' = [registers EXCEPT ![r] = row] /\ NameFree(store, name)
  BY DEF CreateRegister
<1>2. row \in RegisterRow
  BY DEF RegisterRow
<1>3. registers'[r] = row /\ \A q \in Registers \ {r} : registers'[q] = registers[q]
  BY <1>1 DEF Tables
<1>4. \A q \in Registers \ {r} : registers[q] # NoRow =>
        \/ registers[q].store # store \/ registers[q].name # name \/ name = "Own Name"
  BY <1>1 DEF NameFree, RegistersOf
<1>5. NoDuplicateRegister'
  <2> SUFFICES ASSUME NEW p \in Registers, NEW q \in Registers \ {p},
                      registers'[p] # NoRow, registers'[q] # NoRow
               PROVE  \/ registers'[p].store # registers'[q].store
                      \/ registers'[p].name # registers'[q].name \/ registers'[p].name = "Own Name"
    BY DEF NoDuplicateRegister
  <2>1. row.store = store /\ row.name = name
    OBVIOUS
  <2>2. CASE p = r
    BY <1>3, <1>4, <2>1, <2>2
  <2>3. CASE q = r
    BY <1>3, <1>4, <2>1, <2>3
  <2>4. CASE p # r /\ q # r
    BY <1>3, <2>4 DEF NoDuplicateRegister
  <2> QED
    BY <2>2, <2>3, <2>4
<1> QED
  BY <1>1, <1>2, <1>5 DEF Tables

\* The register of a session opened without naming one.
LEMMA AllocateRegisterStep ==
  ASSUME Tables, NoDuplicateRegister,
         NEW r \in Registers, NEW store \in Stores, NEW a \in Actors,
         AllocateRegister(a, store, r)
  PROVE  registers' \in [Registers -> RegisterRow \cup {NoRow}] /\ NoDuplicateRegister'
<1>1. CASE UNCHANGED registers
  BY <1>1 DEF Tables, NoDuplicateRegister
<1>2. CASE CreateRegister(r, store, "Main Register")
  BY <1>2, CreateRegisterStep DEF RegisterNames
<1>3. CASE a \in StoreAccounts /\ CreateRegister(r, store, a)
  BY <1>3, CreateRegisterStep DEF RegisterNames
<1> QED
  BY <1>1, <1>2, <1>3 DEF AllocateRegister

\* The counter opens with no register and no session.
LEMMA RegisterInitEstablishes == RegisterInit => RegisterInv
BY DEF RegisterInit, RegisterInv, Tables, OneOpenSessionPerRegister, NoDuplicateRegister, IsOpen

\* Every handler of POSRegister keeps open sessions apart.
LEMMA RegisterStepKeeps == RegisterInv /\ [RegisterNext]_registerVars => RegisterInv'
<1> SUFFICES ASSUME RegisterInv, [RegisterNext]_registerVars
             PROVE  RegisterInv'
  OBVIOUS
<1>0. Tables /\ OneOpenSessionPerRegister /\ NoDuplicateRegister
  BY DEF RegisterInv
\* The registers, and the sessions, of a step that leaves them alone.
<1>a. UNCHANGED registers => registers' \in [Registers -> RegisterRow \cup {NoRow}] /\ NoDuplicateRegister'
  BY <1>0 DEF Tables, NoDuplicateRegister
<1>b. UNCHANGED sessions =>
        /\ DOMAIN sessions' = Sessions /\ sessions' = [y \in Sessions |-> sessions'[y]]
        /\ OneOpenSessionPerRegister'
  BY <1>0 DEF Tables, OneOpenSessionPerRegister, IsOpen
<1>1. ASSUME NEW r \in Registers, NEW store \in Stores, NEW name \in RegisterNames,
             AddRegister(r, store, name)
      PROVE  RegisterInv'
  BY <1>0, <1>1, <1>b, CreateRegisterStep DEF AddRegister, RegisterInv, Tables
<1>2. ASSUME NEW a \in Actors, NEW r \in Registers, NEW cashier \in Cashiers, NEW x \in Sessions,
             NEW n \in 0..MaxCash, OpenRegister(a, r, cashier, x, n)
      PROVE  RegisterInv'
  BY <1>0, <1>2, <1>a, CreateSessionStep DEF OpenRegister, RegisterInv, Tables
<1>3. ASSUME NEW a \in Actors, NEW store \in Stores, NEW preferred \in Registers \cup {NoRow},
             NEW cashier \in Cashiers, NEW r \in Registers, NEW x \in Sessions, NEW n \in 0..MaxCash,
             OpenRegisterSession(a, store, preferred, cashier, r, x, n)
      PROVE  RegisterInv'
  <2>1. registers' \in [Registers -> RegisterRow \cup {NoRow}] /\ NoDuplicateRegister'
    BY <1>0, <1>3, <1>a, AllocateRegisterStep DEF OpenRegisterSession
  <2> QED
    BY <1>0, <1>3, <2>1, CreateSessionStep DEF OpenRegisterSession, RegisterInv, Tables
<1>4. ASSUME NEW a \in Cashiers, NEW store \in Stores, NEW x \in Sessions, NewSession(a, store, x)
      PROVE  RegisterInv'
  <2>1. PICK r \in Registers : AllocateRegister(a, store, r) /\ CreateSession(x, r, a, a, 0)
    BY <1>4 DEF NewSession
  <2>2. registers' \in [Registers -> RegisterRow \cup {NoRow}] /\ NoDuplicateRegister'
    BY <1>0, <2>1, AllocateRegisterStep DEF Actors
  <2> QED
    BY <1>0, <2>1, <2>2, CreateSessionStep DEF RegisterInv, Tables
<1>5. ASSUME NEW k \in CashKeys, NEW x \in Sessions, NEW n \in -MaxCash..MaxCash, CashMovement(k, x, n, 0)
      PROVE  RegisterInv'
  BY <1>5, <1>a, <1>b DEF CashMovement, RegisterInv, Tables
<1>6. ASSUME NEW x \in Sessions, CloseSession(x, 0)
      PROVE  RegisterInv'
  <2>1. \A y \in Sessions : IsOpen(y)' => IsOpen(y) /\ sessions'[y] = sessions[y]
    BY <1>0, <1>6 DEF CloseSession, IsOpen, Tables
  <2>2. OneOpenSessionPerRegister'
    BY <1>0, <2>1 DEF OneOpenSessionPerRegister
  <2>3. DOMAIN sessions' = Sessions /\ sessions' = [y \in Sessions |-> sessions'[y]]
    BY <1>0, <1>6 DEF CloseSession, Tables
  <2> QED
    BY <1>6, <1>a, <2>2, <2>3 DEF CloseSession, RegisterInv, Tables
<1>7. CASE UNCHANGED registerVars
  BY <1>7, <1>a, <1>b DEF registerVars, RegisterInv, Tables
<1> QED
  BY <1>1, <1>2, <1>3, <1>4, <1>5, <1>6, <1>7 DEF RegisterNext

\* openRegister, openRegisterSession, ensureSession, cashMovement and closeSession keep
\* the tables of registers and sessions, and open sessions on different registers.
THEOREM RegisterInvariant == RegisterSpec => []RegisterInv
BY RegisterInitEstablishes, RegisterStepKeeps, PTL DEF RegisterSpec

\* Whichever of the three opening handlers ran, in any order and for any number
\* of accounts, a register never has two open sessions.
THEOREM DrawersAreNotShared == RegisterSpec => []OneOpenSessionPerRegister
<1>1. RegisterInv => OneOpenSessionPerRegister
  BY DEF RegisterInv
<1> QED
  BY <1>1, RegisterInvariant, PTL

\* Registers created on demand are never created twice.
THEOREM RegistersAreNotDuplicated == RegisterSpec => []NoDuplicateRegister
<1>1. RegisterInv => NoDuplicateRegister
  BY DEF RegisterInv
<1> QED
  BY <1>1, RegisterInvariant, PTL

-----------------------------------------------------------------------------
(* Shares of an amount.                                                     *)

\* A quotient, and that division keeps the order.
LEMMA Quotients ==
  /\ \A a \in Nat, d \in Nat \ {0} : a \div d \in Nat
  /\ \A a \in Nat, b \in Nat, d \in Nat \ {0} : a <= b => a \div d <= b \div d
  /\ \A a \in Int, d \in Nat, q \in Int : d > 0 /\ q * d <= a /\ a < q * d + d => a \div d = q
<1>1. \A a \in Nat, d \in Nat \ {0} : a \div d \in Nat
  OBVIOUS
<1>2. ASSUME NEW a \in Nat, NEW b \in Nat, NEW d \in Nat \ {0}, a <= b
      PROVE  a \div d <= b \div d
  <2> DEFINE p == a \div d
             q == b \div d
  <2>1. p \in Int /\ q \in Int
    OBVIOUS
  <2>2. d * p <= a /\ b < d * q + d
    OBVIOUS
  <2> HIDE DEF p, q
  <2>3. ~(q < p)
    <3> SUFFICES ASSUME q < p PROVE FALSE
      OBVIOUS
    <3>1. q + 1 <= p
      BY <2>1
    <3>2. d * (q + 1) <= d * p
      BY <2>1, <3>1
    <3>3. d * (q + 1) = d * q + d
      BY <2>1
    <3> QED
      BY <1>2, <2>1, <2>2, <3>2, <3>3
  <2>4. p <= q
    BY <2>1, <2>3
  <2> QED
    BY <2>4 DEF p, q
<1>3. \A a \in Int, d \in Nat, q \in Int : d > 0 /\ q * d <= a /\ a < q * d + d => a \div d = q
  OBVIOUS
<1> QED
  BY <1>1, <1>2, <1>3

\* The share of `quantity` units that k of them have in a total: a whole
\* amount, no more for fewer units, nothing for none, all of it for all.
LEMMA Shares ==
  ASSUME NEW total \in Nat, NEW units \in Nat \ {0}
  PROVE  /\ \A k \in Nat : RoundDiv(total * k, units) \in Nat
         /\ \A j \in Nat, k \in Nat : j <= k => RoundDiv(total * j, units) <= RoundDiv(total * k, units)
         /\ RoundDiv(total * 0, units) = 0
         /\ RoundDiv(total * units, units) = total
<1> DEFINE q == units
<1>0. 2 * q \in Nat \ {0} /\ q \in Nat
  OBVIOUS
<1>1. \A k \in Nat : total * k \in Nat /\ 2 * (total * k) + q \in Nat
  OBVIOUS
<1>2. \A k \in Nat : RoundDiv(total * k, q) \in Nat
  BY <1>0, <1>1, Quotients DEF RoundDiv
<1>3. ASSUME NEW j \in Nat, NEW k \in Nat, j <= k
      PROVE  RoundDiv(total * j, q) <= RoundDiv(total * k, q)
  <2>1. total * j <= total * k
    BY <1>3
  <2>2. 2 * (total * j) + q <= 2 * (total * k) + q
    BY <1>1, <2>1
  <2> QED
    BY <1>0, <1>1, <2>2, Quotients DEF RoundDiv
<1>4. RoundDiv(total * 0, q) = 0
  <2>1. total * 0 = 0
    OBVIOUS
  <2>2. 0 * (2 * q) <= 2 * 0 + q /\ 2 * 0 + q < 0 * (2 * q) + 2 * q
    BY <1>0
  <2>3. (2 * 0 + q) \div (2 * q) = 0
    BY <1>0, <2>2, Quotients
  <2> QED
    BY <2>1, <2>3 DEF RoundDiv
<1>5. RoundDiv(total * q, q) = total
  <2> DEFINE a == 2 * (total * q) + q
             d == 2 * q
  <2>1. a \in Nat /\ d \in Nat /\ d > 0
    OBVIOUS
  <2>2. total * d = 2 * (total * q)
    BY <1>0
  <2>3. total * d <= a /\ a < total * d + d
    BY <1>0, <2>1, <2>2
  <2>4. a \div d = total
    BY <2>1, <2>3, Quotients
  <2> QED
    BY <2>4 DEF RoundDiv
<1> QED
  BY <1>2, <1>3, <1>4, <1>5

-----------------------------------------------------------------------------
(* The stock and register handlers, as a composed step sees them.           *)

\* A step moves balances and their ledgers alike.
Evenly ==
  \A s \in Stores, v \in Variants :
    /\ quantity'[s][v] - ledger'[s][v].q = quantity[s][v] - ledger[s][v].q
    /\ damaged'[s][v] - ledger'[s][v].d = damaged[s][v] - ledger[s][v].d

\* Documents other than `doc` keep their movements.
OnlyUnder(doc) == \A x \in Documents : x # doc => docLedger'[x] = docLedger[x]

\* movement() moves a balance and its ledger by the same delta.
LEMMA MovementEvenly ==
  ASSUME StockTypeOK, NEW doc \in Documents, NEW s \in Stores, NEW lines \in SUBSET Variants,
         NEW delta \in [Variants -> Delta], Movement(doc, s, lines, delta)
  PROVE  /\ quantity' \in [Stores -> [Variants -> Nat]]
         /\ damaged' \in [Stores -> [Variants -> Nat]]
         /\ ledger' \in [Stores -> [Variants -> [rows : Nat, q : Int, d : Int]]]
         /\ docLedger' \in [Documents -> [Stores -> [Variants -> Delta]]]
         /\ Evenly /\ OnlyUnder(doc)
<1>m. MovedBy(doc, s, lines, delta)
  BY MovementEffect
<1>1. /\ quantity' \in [Stores -> [Variants -> Nat]]
      /\ damaged' \in [Stores -> [Variants -> Nat]]
      /\ ledger' \in [Stores -> [Variants -> [rows : Nat, q : Int, d : Int]]]
      /\ docLedger' \in [Documents -> [Stores -> [Variants -> Delta]]]
  BY <1>m DEF MovedBy
<1>a. ASSUME NEW v \in lines
      PROVE  /\ quantity'[s][v] = quantity[s][v] + delta[v].q
             /\ damaged'[s][v] = damaged[s][v] + delta[v].d
             /\ ledger'[s][v].q = ledger[s][v].q + delta[v].q
             /\ ledger'[s][v].d = ledger[s][v].d + delta[v].d
  BY <1>m DEF MovedBy
<1>b. ASSUME NEW r \in Stores, NEW v \in Variants, ~(r = s /\ v \in lines)
      PROVE  /\ quantity'[r][v] = quantity[r][v]
             /\ damaged'[r][v] = damaged[r][v]
             /\ ledger'[r][v] = ledger[r][v]
  BY <1>m, <1>b DEF MovedBy
<1>2. OnlyUnder(doc)
  BY DEF OnlyUnder, Movement, StockTypeOK
<1>3. Evenly
  <2> SUFFICES ASSUME NEW r \in Stores, NEW v \in Variants
               PROVE  /\ quantity'[r][v] - ledger'[r][v].q = quantity[r][v] - ledger[r][v].q
                      /\ damaged'[r][v] - ledger'[r][v].d = damaged[r][v] - ledger[r][v].d
    BY DEF Evenly
  <2>1. /\ quantity[r][v] \in Int /\ ledger[r][v].q \in Int
        /\ damaged[r][v] \in Int /\ ledger[r][v].d \in Int
        /\ delta[v].q \in Int /\ delta[v].d \in Int
    BY DEF StockTypeOK, Delta
  <2>2. CASE r = s /\ v \in lines
    BY <1>a, <2>1, <2>2
  <2>3. CASE ~(r = s /\ v \in lines)
    BY <1>b, <2>3
  <2> QED
    BY <2>2, <2>3
<1> QED
  BY <1>1, <1>2, <1>3

\* The handlers of POSStock as bills see them.
LEMMA StockStepAside ==
  ASSUME StockTypeOK, StockNext
  PROVE  StockTypeOK' /\ Evenly /\ \A x \in Sales \cup Returns : docLedger'[x] = docLedger[x]
<1>0. /\ \A x \in Sales \cup Returns :
           x \in Documents /\ x \notin StockKeys /\ x \notin Transfers /\ x \notin Variants
      /\ \A x \in StockKeys \cup Transfers \cup Variants : x \in Documents
  BY SalesAssumption, StockAssumption
<1>a. ASSUME NEW doc \in StockKeys \cup Transfers \cup Variants, NEW s \in Stores,
             NEW lines \in SUBSET Variants, NEW delta \in [Variants -> Delta],
             Movement(doc, s, lines, delta)
      PROVE  /\ quantity' \in [Stores -> [Variants -> Nat]]
             /\ damaged' \in [Stores -> [Variants -> Nat]]
             /\ ledger' \in [Stores -> [Variants -> [rows : Nat, q : Int, d : Int]]]
             /\ docLedger' \in [Documents -> [Stores -> [Variants -> Delta]]]
             /\ Evenly /\ \A x \in Sales \cup Returns : docLedger'[x] = docLedger[x]
  BY <1>0, <1>a, MovementEvenly DEF OnlyUnder
<1>b. UNCHANGED <<quantity, damaged, ledger, docLedger>> =>
        /\ quantity' \in [Stores -> [Variants -> Nat]]
        /\ damaged' \in [Stores -> [Variants -> Nat]]
        /\ ledger' \in [Stores -> [Variants -> [rows : Nat, q : Int, d : Int]]]
        /\ docLedger' \in [Documents -> [Stores -> [Variants -> Delta]]]
        /\ Evenly /\ \A x \in Sales \cup Returns : docLedger'[x] = docLedger[x]
  BY DEF StockTypeOK, Evenly
<1>c. MaxUnits \in Nat
  BY StockAssumption
<1>1. ASSUME NEW v \in Variants, CreateProduct(v)
      PROVE  StockTypeOK' /\ Evenly /\ \A x \in Sales \cup Returns : docLedger'[x] = docLedger[x]
  <2>1. catalog' \subseteq Variants /\ UNCHANGED <<stockLog, transfers>>
    BY <1>1 DEF CreateProduct, StockTypeOK
  <2>2. CASE UNCHANGED <<quantity, damaged, ledger, docLedger>>
    BY <1>b, <2>1, <2>2 DEF StockTypeOK
  <2>3. ASSUME NEW s \in Stores, NEW n \in 1..MaxUnits,
               Movement(v, s, {v}, [w \in Variants |-> [q |-> n, d |-> 0]])
        PROVE  StockTypeOK' /\ Evenly /\ \A x \in Sales \cup Returns : docLedger'[x] = docLedger[x]
    <3>1. [w \in Variants |-> [q |-> n, d |-> 0]] \in [Variants -> Delta] /\ {v} \in SUBSET Variants
      BY <1>c DEF Delta
    <3> QED
      BY <1>a, <2>1, <2>3, <3>1 DEF StockTypeOK
  <2> QED
    BY <1>1, <2>2, <2>3 DEF CreateProduct
<1>2. ASSUME NEW k \in StockKeys, NEW s \in Stores, NEW v \in Variants, NEW type \in MovementTypes,
             NEW delta \in Delta,
             Movement(k, s, {v}, [w \in Variants |-> delta]),
             stockLog' = [stockLog EXCEPT ![k] = [store |-> s, variant |-> v, type |-> type, delta |-> delta]],
             UNCHANGED <<catalog, transfers>>
      PROVE  StockTypeOK' /\ Evenly /\ \A x \in Sales \cup Returns : docLedger'[x] = docLedger[x]
  <2>1. stockLog' \in [StockKeys -> StockEntry \cup {NoRow}]
    BY <1>2 DEF StockTypeOK, StockEntry
  <2>2. [w \in Variants |-> delta] \in [Variants -> Delta] /\ {v} \in SUBSET Variants
    OBVIOUS
  <2> QED
    BY <1>a, <1>2, <2>1, <2>2 DEF StockTypeOK
<1>3. ASSUME NEW k \in StockKeys, NEW s \in Stores, NEW v \in Variants, NEW type \in MovementTypes,
             NEW q \in -MaxUnits..MaxUnits, NEW d \in -MaxUnits..MaxUnits,
             Adjust(k, s, v, type, [q |-> q, d |-> d])
      PROVE  StockTypeOK' /\ Evenly /\ \A x \in Sales \cup Returns : docLedger'[x] = docLedger[x]
  <2>1. [q |-> q, d |-> d] \in Delta
    BY <1>c DEF Delta
  <2> QED
    BY <1>2, <1>3, <2>1 DEF Adjust
<1>4. ASSUME NEW k \in StockKeys, NEW s \in Stores, NEW v \in Variants,
             NEW q \in 0..MaxUnits, NEW d \in 0..MaxUnits, ReconcileStock(k, s, v, q, d)
      PROVE  StockTypeOK' /\ Evenly /\ \A x \in Sales \cup Returns : docLedger'[x] = docLedger[x]
  <2> DEFINE delta == [q |-> q - quantity[s][v], d |-> d - damaged[s][v]]
  <2>1. delta \in Delta /\ "RECONCILIATION" \in MovementTypes
    BY <1>c DEF Delta, StockTypeOK, MovementTypes
  <2>2. /\ Movement(k, s, {v}, [w \in Variants |-> delta])
        /\ stockLog' = [stockLog EXCEPT ![k] =
             [store |-> s, variant |-> v, type |-> "RECONCILIATION", delta |-> delta]]
        /\ UNCHANGED <<catalog, transfers>>
    BY <1>4 DEF ReconcileStock
  <2> HIDE DEF delta
  <2> QED
    BY <1>2, <2>1, <2>2
<1>5. ASSUME NEW t \in Transfers, NEW from \in Stores, NEW to \in Stores,
             NEW items \in [Variants -> 0..MaxUnits], CreateTransfer(t, from, to, items)
      PROVE  StockTypeOK' /\ Evenly /\ \A x \in Sales \cup Returns : docLedger'[x] = docLedger[x]
  <2>1. items \in [Variants -> Nat]
    BY <1>c
  <2>2. transfers' \in [Transfers -> TransferRow \cup {NoRow}]
    BY <1>5, <2>1 DEF CreateTransfer, StockTypeOK, TransferRow
  <2> QED
    BY <1>b, <1>5, <2>2 DEF CreateTransfer, StockTypeOK
<1>6. ASSUME NEW t \in Transfers, NEW s \in Stores, NEW sign \in {-1, 1}, NEW status \in {"DISPATCHED", "RECEIVED"},
             transfers[t] # NoRow,
             Movement(t, s, Lines(transfers[t].items),
                      [v \in Variants |-> [q |-> sign * transfers[t].items[v], d |-> 0]]),
             transfers' = [transfers EXCEPT ![t].status = status],
             UNCHANGED <<catalog, stockLog>>
      PROVE  StockTypeOK' /\ Evenly /\ \A x \in Sales \cup Returns : docLedger'[x] = docLedger[x]
  <2>1. transfers[t] \in TransferRow
    BY <1>6 DEF StockTypeOK
  <2>2. transfers' \in [Transfers -> TransferRow \cup {NoRow}]
    BY <1>6, <2>1 DEF StockTypeOK, TransferRow
  <2>3. [v \in Variants |-> [q |-> sign * transfers[t].items[v], d |-> 0]] \in [Variants -> Delta]
    BY <2>1 DEF TransferRow, Delta
  <2>4. Lines(transfers[t].items) \in SUBSET Variants
    BY DEF Lines
  <2> QED
    BY <1>a, <1>6, <2>2, <2>3, <2>4 DEF StockTypeOK
<1>7. ASSUME NEW t \in Transfers, DispatchTransfer(t)
      PROVE  StockTypeOK' /\ Evenly /\ \A x \in Sales \cup Returns : docLedger'[x] = docLedger[x]
  <2>1. transfers[t] \in TransferRow /\ transfers[t] # NoRow
    BY <1>7 DEF StockTypeOK, DispatchTransfer, InStatus
  <2>2. [v \in Variants |-> [q |-> -transfers[t].items[v], d |-> 0]]
          = [v \in Variants |-> [q |-> (-1) * transfers[t].items[v], d |-> 0]]
    BY <2>1 DEF TransferRow
  <2>3. transfers[t].from \in Stores
    BY <2>1 DEF TransferRow
  <2>4. Movement(t, transfers[t].from, Lines(transfers[t].items),
                 [v \in Variants |-> [q |-> (-1) * transfers[t].items[v], d |-> 0]])
    BY <1>7, <2>2 DEF DispatchTransfer
  <2> QED
    BY <1>6, <1>7, <2>1, <2>3, <2>4 DEF DispatchTransfer
<1>8. ASSUME NEW t \in Transfers, ReceiveTransfer(t)
      PROVE  StockTypeOK' /\ Evenly /\ \A x \in Sales \cup Returns : docLedger'[x] = docLedger[x]
  <2>1. transfers[t] \in TransferRow /\ transfers[t] # NoRow
    BY <1>8 DEF StockTypeOK, ReceiveTransfer, InStatus
  <2>2. [v \in Variants |-> [q |-> transfers[t].items[v], d |-> 0]]
          = [v \in Variants |-> [q |-> 1 * transfers[t].items[v], d |-> 0]]
    BY <2>1 DEF TransferRow
  <2>3. transfers[t].to \in Stores
    BY <2>1 DEF TransferRow
  <2> QED
    BY <1>6, <1>8, <2>1, <2>2, <2>3 DEF ReceiveTransfer
<1> QED
  BY <1>1, <1>3, <1>4, <1>5, <1>7, <1>8 DEF StockNext

\* What opening a session leaves of the registers: the sessions there were are as
\* they were, the new one is open.
Opened(x, opening) ==
  /\ RegisterTypeOK' /\ RegisterInv' /\ UNCHANGED cashMoves
  /\ sessions[x] = NoRow /\ IsOpen(x)' /\ sessions'[x].opening = opening
  /\ \A y \in Sessions : y # x => sessions'[y] = sessions[y]

\* Every way to open a session ends here.
LEMMA CreateSessionOpens ==
  ASSUME RegisterTypeOK, RegisterInv,
         NEW x \in Sessions, NEW r \in Registers, NEW a \in Actors, NEW cashier \in Cashiers,
         NEW opening \in Nat, CreateSession(x, r, a, cashier, opening),
         registers' \in [Registers -> RegisterRow \cup {NoRow}], NoDuplicateRegister',
         UNCHANGED cashMoves
  PROVE  Opened(x, opening)
<1> DEFINE row == NewSessionRow(r, a, cashier, opening)
<1>1. /\ row \in SessionRow /\ row # NoRow /\ ~row.closed /\ row.opening = opening
  <2>1. row \in SessionRow
    BY DEF NewSessionRow, SessionRow
  <2> QED
    BY <2>1, NoRowAssumption DEF NewSessionRow
<1>2. sessions' = [sessions EXCEPT ![x] = row] /\ sessions[x] = NoRow
  BY DEF CreateSession
<1> HIDE DEF row
<1>3. sessions' \in [Sessions -> SessionRow \cup {NoRow}]
  BY <1>1, <1>2 DEF RegisterTypeOK
<1>4. sessions'[x] = row /\ \A y \in Sessions : y # x => sessions'[y] = sessions[y]
  BY <1>2 DEF RegisterTypeOK
<1>5. RegisterTypeOK'
  BY <1>3 DEF RegisterTypeOK
<1>6. RegisterInv'
  <2>1. DOMAIN sessions' = Sessions /\ sessions' = [y \in Sessions |-> sessions'[y]]
        /\ OneOpenSessionPerRegister'
    BY CreateSessionStep DEF RegisterInv
  <2> QED
    BY <2>1 DEF RegisterInv, Tables
<1> QED
  BY <1>1, <1>2, <1>4, <1>5, <1>6 DEF Opened, IsOpen

\* The handlers that open sessions.
LEMMA OpenRegisterOpens ==
  ASSUME RegisterTypeOK, RegisterInv,
         NEW a \in Actors, NEW r \in Registers, NEW cashier \in Cashiers, NEW x \in Sessions,
         NEW n \in 0..MaxCash, OpenRegister(a, r, cashier, x, n)
  PROVE  Opened(x, n)
<1>1. n \in Nat
  BY RegisterAssumption
<1>2. registers' \in [Registers -> RegisterRow \cup {NoRow}] /\ NoDuplicateRegister'
  BY DEF OpenRegister, RegisterTypeOK, RegisterInv, NoDuplicateRegister
<1> QED
  BY <1>1, <1>2, CreateSessionOpens DEF OpenRegister

\* openRegisterSession: on a register of the store, or one created for it.
LEMMA OpenRegisterSessionOpens ==
  ASSUME RegisterTypeOK, RegisterInv,
         NEW a \in Actors, NEW store \in Stores, NEW preferred \in Registers \cup {NoRow},
         NEW cashier \in Cashiers, NEW r \in Registers, NEW x \in Sessions, NEW n \in 0..MaxCash,
         OpenRegisterSession(a, store, preferred, cashier, r, x, n)
  PROVE  Opened(x, n)
<1>1. n \in Nat
  BY RegisterAssumption
<1>2. Tables /\ NoDuplicateRegister
  BY DEF RegisterInv
<1>3. registers' \in [Registers -> RegisterRow \cup {NoRow}] /\ NoDuplicateRegister'
  <2>1. CASE UNCHANGED registers
    BY <1>2, <2>1 DEF Tables, NoDuplicateRegister
  <2>2. CASE AllocateRegister(a, store, r)
    BY <1>2, <2>2, AllocateRegisterStep
  <2> QED
    BY <2>1, <2>2 DEF OpenRegisterSession
<1> QED
  BY <1>1, <1>3, CreateSessionOpens DEF OpenRegisterSession

\* A checkout that finds no session of the cashier opens one with nothing in it.
LEMMA NewSessionOpens ==
  ASSUME RegisterTypeOK, RegisterInv,
         NEW a \in Actors, NEW store \in Stores, NEW x \in Sessions, NewSession(a, store, x)
  PROVE  Opened(x, 0)
<1>1. a \in Cashiers /\ UNCHANGED cashMoves
  BY DEF NewSession
<1>2. PICK r \in Registers : AllocateRegister(a, store, r) /\ CreateSession(x, r, a, a, 0)
  BY DEF NewSession
<1>3. registers' \in [Registers -> RegisterRow \cup {NoRow}] /\ NoDuplicateRegister'
  BY <1>2, AllocateRegisterStep DEF RegisterInv
<1> QED
  BY <1>1, <1>2, <1>3, CreateSessionOpens

\* A bill goes to an open session, there already or opened empty for it.
LEMMA BillSession ==
  ASSUME RegisterTypeOK, RegisterInv,
         NEW a \in Actors, NEW store \in Stores, NEW x \in Sessions, EnsureOrOpenSession(a, store, x)
  PROVE  Opened(x, 0) \/ (IsOpen(x) /\ UNCHANGED registerVars)
<1>1. CASE NamedSession(a, store, x) \/ OwnSession(a, store, x)
  BY <1>1 DEF NamedSession, OwnSession
<1>2. CASE NewSession(a, store, x)
  BY <1>2, NewSessionOpens
<1> QED
  BY <1>1, <1>2 DEF EnsureOrOpenSession

\* A step that leaves the registers leaves what is known of them.
LEMMA RegistersSame ==
  ASSUME RegisterTypeOK, RegisterInv, UNCHANGED registerVars
  PROVE  RegisterTypeOK' /\ RegisterInv'
<1>1. UNCHANGED <<registers, sessions, cashMoves>>
  BY DEF registerVars
<1>2. RegisterTypeOK'
  BY <1>1 DEF RegisterTypeOK
<1>3. Tables' /\ NoDuplicateRegister'
  BY <1>1 DEF RegisterInv, Tables, NoDuplicateRegister
<1>4. OneOpenSessionPerRegister'
  BY <1>1 DEF RegisterInv, OneOpenSessionPerRegister, IsOpen
<1> QED
  BY <1>2, <1>3, <1>4 DEF RegisterInv

\* Money in or out of a drawer.
LEMMA CashMovementStep ==
  ASSUME RegisterTypeOK, RegisterInv, NEW k \in CashKeys, NEW x \in Sessions,
         NEW n \in -MaxCash..MaxCash, NEW receipts, CashMovement(k, x, n, receipts)
  PROVE  /\ RegisterTypeOK' /\ RegisterInv' /\ UNCHANGED <<registers, sessions>>
         /\ cashMoves[k] = NoRow /\ IsOpen(x) /\ (n < 0 => Drawer(x, receipts) >= -n)
         /\ cashMoves'[k] = [session |-> x, amount |-> n] /\ cashMoves'[k] # NoRow
         /\ \A j \in CashKeys : j # k => cashMoves'[j] = cashMoves[j]
<1>1. [session |-> x, amount |-> n] \in CashRow /\ [session |-> x, amount |-> n] # NoRow
  BY RegisterAssumption, NoRowAssumption DEF CashRow
<1>2. /\ cashMoves' = [cashMoves EXCEPT ![k] = [session |-> x, amount |-> n]]
      /\ UNCHANGED <<registers, sessions>> /\ cashMoves[k] = NoRow /\ IsOpen(x)
  BY DEF CashMovement
<1>3. cashMoves' \in [CashKeys -> CashRow \cup {NoRow}]
  BY <1>1, <1>2 DEF RegisterTypeOK
<1>4. RegisterTypeOK'
  BY <1>2, <1>3 DEF RegisterTypeOK
<1>5. RegisterInv'
  <2>1. Tables' /\ NoDuplicateRegister'
    BY <1>2 DEF RegisterInv, Tables, NoDuplicateRegister
  <2>2. OneOpenSessionPerRegister'
    BY <1>2 DEF RegisterInv, OneOpenSessionPerRegister, IsOpen
  <2> QED
    BY <2>1, <2>2 DEF RegisterInv
<1>6. /\ cashMoves'[k] = [session |-> x, amount |-> n]
      /\ \A j \in CashKeys : j # k => cashMoves'[j] = cashMoves[j]
  BY <1>2 DEF RegisterTypeOK
<1>7. n < 0 => Drawer(x, receipts) >= -n
  BY DEF CashMovement, CashCovered
<1> QED
  BY <1>1, <1>2, <1>4, <1>5, <1>6, <1>7

\* Closing a session freezes what its drawer should hold.
LEMMA CloseSessionStep ==
  ASSUME RegisterTypeOK, RegisterInv, NEW x \in Sessions, NEW receipts,
         Drawer(x, receipts) \in Int, CloseSession(x, receipts)
  PROVE  /\ RegisterTypeOK' /\ RegisterInv' /\ UNCHANGED <<registers, cashMoves>>
         /\ IsOpen(x) /\ sessions'[x] # NoRow /\ sessions'[x].opening = sessions[x].opening
         /\ \A y \in Sessions : y # x => sessions'[y] = sessions[y]
<1> DEFINE row == [sessions[x] EXCEPT !.closed = TRUE, !.expected = Drawer(x, receipts)]
<1>0. sessions[x] \in SessionRow /\ IsOpen(x) /\ sessions[x] # NoRow
  BY DEF CloseSession, IsOpen, RegisterTypeOK
<1>1. row \in SessionRow /\ row # NoRow /\ row.closed /\ row.opening = sessions[x].opening
  BY <1>0, NoRowAssumption DEF SessionRow
<1>2. sessions' = [sessions EXCEPT ![x] = row] /\ UNCHANGED <<registers, cashMoves>>
  BY DEF CloseSession
<1> HIDE DEF row
<1>3. sessions' \in [Sessions -> SessionRow \cup {NoRow}]
  BY <1>1, <1>2 DEF RegisterTypeOK
<1>4. sessions'[x] = row /\ \A y \in Sessions : y # x => sessions'[y] = sessions[y]
  BY <1>2 DEF RegisterTypeOK
<1>5. RegisterTypeOK'
  BY <1>2, <1>3 DEF RegisterTypeOK
<1>6. \A y \in Sessions : IsOpen(y)' => IsOpen(y) /\ sessions'[y] = sessions[y]
  BY <1>1, <1>4 DEF IsOpen
<1>7. OneOpenSessionPerRegister'
  BY <1>6 DEF OneOpenSessionPerRegister, RegisterInv
<1>8. RegisterInv'
  BY <1>2, <1>3, <1>7 DEF RegisterInv, Tables, NoDuplicateRegister
<1> QED
  BY <1>0, <1>1, <1>2, <1>4, <1>5, <1>8

-----------------------------------------------------------------------------
(* Bills and returns: the invariant of the whole counter, and refunds.      *)

\* Only finitely many rows have been written.
FiniteRows ==
  /\ IsFiniteSet({id \in Sales : sales[id] # NoRow})
  /\ IsFiniteSet({ret \in Returns : returns[ret] # NoRow})
  /\ IsFiniteSet({k \in CashKeys : cashMoves[k] # NoRow})

\* No more units of a line have come back than went out.
UnitsWithin ==
  \A id \in Sales : sales[id] # NoRow => \A l \in SaleLines : sales[id].returned[l] <= sales[id].items[l]

CounterInv == SalesTypeOK /\ RegisterInv /\ FiniteRows /\ UnitsWithin

\* The lines a bill may have: the catalogue and the manual line.
LEMMA SaleLinesFinite == IsFiniteSet(SaleLines) /\ Manual \in SaleLines /\ Variants \subseteq SaleLines
BY SalesRowAssumption, FS_AddElement DEF SaleLines

\* What requests carry.
LEMMA RequestTypes ==
  /\ Items \subseteq [SaleLines -> Nat]
  /\ Prices \subseteq [SaleLines -> [net : Nat, tax : Nat]]
  /\ 0..MaxCash \subseteq Nat
<1>1. MaxUnits \in Nat /\ MaxCash \in Nat
  BY StockAssumption, RegisterAssumption
<1>2. LinePrices \subseteq [net : Nat, tax : Nat]
  BY SalesAssumption
<1>3. [net |-> 0, tax |-> 0] \in [net : Nat, tax : Nat]
  OBVIOUS
<1>4. LinePrices \cup {[net |-> 0, tax |-> 0]} \subseteq [net : Nat, tax : Nat]
  BY <1>2, <1>3
<1> QED
  BY <1>1, <1>4 DEF Items, Prices

\* What a bill comes to is an amount of money.
LEMMA TotalType ==
  ASSUME NEW price \in [SaleLines -> [net : Nat, tax : Nat]]
  PROVE  Total(price) \in Nat
<1> DEFINE f == [l \in SaleLines |-> price[l].net + price[l].tax]
<1>1. IsFiniteSet(DOMAIN f) /\ \A l \in DOMAIN f : f[l] \in Nat
  BY SaleLinesFinite
<1> HIDE DEF f
<1>2. SumFunction(f) \in Nat
  BY <1>1, TotalNat
<1> QED
  BY <1>2 DEF Total, f

\* What has been refunded of a line once `back` of its units are back.
Refunded(price, units, back) ==
  IF units = 0 THEN 0 ELSE RoundDiv(price.net * back, units) + RoundDiv(price.tax * back, units)

\* A refund is an amount of money, no line refunding less than nothing.
LEMMA RefundPart ==
  ASSUME NEW price \in [net : Nat, tax : Nat], NEW units \in Nat \ {0}, NEW back \in Nat, NEW n \in Nat,
         NEW part, part = RefundComponents(price.net + price.tax, price.tax, units, back, n).refundAmount
  PROVE  /\ part \in Nat
         /\ part = Refunded(price, units, back + n) - Refunded(price, units, back)
<1> DEFINE net == price.net
           tax == price.tax
<1>0. net \in Nat /\ tax \in Nat
  OBVIOUS
<1>. HIDE DEF net, tax
<1>1. net + tax - tax = net
  BY <1>0
<1>2. back + n \in Nat /\ back <= back + n
  OBVIOUS
<1>3. /\ RoundDiv(net * (back + n), units) \in Nat /\ RoundDiv(net * back, units) \in Nat
      /\ RoundDiv(net * back, units) <= RoundDiv(net * (back + n), units)
  BY <1>0, <1>2, Shares
<1>4. /\ RoundDiv(tax * (back + n), units) \in Nat /\ RoundDiv(tax * back, units) \in Nat
      /\ RoundDiv(tax * back, units) <= RoundDiv(tax * (back + n), units)
  BY <1>0, <1>2, Shares
<1>5. part = (RoundDiv(net * (back + n), units) - RoundDiv(net * back, units))
             + (RoundDiv(tax * (back + n), units) - RoundDiv(tax * back, units))
  BY <1>1 DEF RefundComponents, RefundAllocation, net, tax
<1> DEFINE a == RoundDiv(net * (back + n), units)
           b == RoundDiv(net * back, units)
           c == RoundDiv(tax * (back + n), units)
           d == RoundDiv(tax * back, units)
<1>6. a \in Nat /\ b \in Nat /\ c \in Nat /\ d \in Nat /\ b <= a /\ d <= c
  BY <1>3, <1>4
<1>7. part = (a - b) + (c - d)
  BY <1>5
<1>8. Refunded(price, units, back + n) = a + c /\ Refunded(price, units, back) = b + d
  BY DEF Refunded, net, tax
<1> HIDE DEF a, b, c, d
<1> QED
  BY <1>6, <1>7, <1>8

RefundParts(sale, returning) ==
  [l \in SoldLines(returning) |->
    RefundComponents(sale.price[l].net + sale.price[l].tax, sale.price[l].tax,
                     sale.items[l], sale.returned[l], returning[l]).refundAmount]

\* Each line of a return refunds what its units add to the share refunded so far.
LEMMA RefundPartsType ==
  ASSUME NEW sale \in SaleRow, NEW returning \in [SaleLines -> Nat], Returnable(sale, returning)
  PROVE  /\ IsFiniteSet(SoldLines(returning)) /\ SoldLines(returning) \subseteq SaleLines
         /\ \A l \in SoldLines(returning) :
              /\ RefundParts(sale, returning)[l] \in Nat
              /\ RefundParts(sale, returning)[l] =
                   Refunded(sale.price[l], sale.items[l], sale.returned[l] + returning[l])
                     - Refunded(sale.price[l], sale.items[l], sale.returned[l])
<1>1. IsFiniteSet(SoldLines(returning)) /\ SoldLines(returning) \subseteq SaleLines
  BY SaleLinesFinite, FS_Subset DEF SoldLines
<1>2. ASSUME NEW l \in SoldLines(returning)
      PROVE  /\ RefundParts(sale, returning)[l] \in Nat
             /\ RefundParts(sale, returning)[l] =
                  Refunded(sale.price[l], sale.items[l], sale.returned[l] + returning[l])
                    - Refunded(sale.price[l], sale.items[l], sale.returned[l])
  <2>0. l \in SaleLines /\ returning[l] \in Nat /\ returning[l] > 0
    BY DEF SoldLines
  <2>1. /\ sale.price[l].net \in Nat /\ sale.price[l].tax \in Nat
        /\ sale.returned[l] \in Nat /\ sale.items[l] \in Nat
    BY <2>0 DEF SaleRow
  <2>2. sale.returned[l] + returning[l] <= sale.items[l]
    BY <2>0 DEF Returnable
  <2>3. sale.items[l] \in Nat \ {0}
    BY <2>0, <2>1, <2>2
  <2>4. sale.price[l] \in [net : Nat, tax : Nat]
    BY <2>0 DEF SaleRow
  <2>5. RefundParts(sale, returning)[l] =
          RefundComponents(sale.price[l].net + sale.price[l].tax, sale.price[l].tax,
                           sale.items[l], sale.returned[l], returning[l]).refundAmount
    BY DEF RefundParts
  <2> DEFINE price == sale.price[l]
             units == sale.items[l]
             back == sale.returned[l]
             part == RefundParts(sale, returning)[l]
             n == returning[l]
  <2>6. /\ price \in [net : Nat, tax : Nat] /\ units \in Nat \ {0} /\ back \in Nat /\ n \in Nat
        /\ part = RefundComponents(price.net + price.tax, price.tax, units, back, n).refundAmount
    BY <2>0, <2>1, <2>3, <2>4, <2>5
  <2> HIDE DEF price, units, back, part, n
  <2>7. part \in Nat /\ part = Refunded(price, units, back + n) - Refunded(price, units, back)
    BY <2>6, RefundPart
  <2> QED
    BY <2>7 DEF price, units, back, part, n
<1> QED
  BY <1>1, <1>2

\* A return refunds an amount of money.
LEMMA RefundAmountType ==
  ASSUME NEW sale \in SaleRow, NEW returning \in [SaleLines -> Nat], Returnable(sale, returning)
  PROVE  RefundAmount(sale, returning) \in Nat
<1> DEFINE f == RefundParts(sale, returning)
<1>1. DOMAIN f = SoldLines(returning)
  BY DEF RefundParts
<1>2. IsFiniteSet(DOMAIN f) /\ \A l \in DOMAIN f : f[l] \in Nat
  BY <1>1, RefundPartsType
<1>3. RefundAmount(sale, returning) = SumFunction(f)
  BY DEF RefundAmount, RefundParts
<1> HIDE DEF f
<1> QED
  BY <1>2, <1>3, TotalNat

\* What a drawer is computed from.
LEMMA DrawerTypes ==
  ASSUME CounterInv, NEW x \in Sessions
  PROVE  /\ IsFiniteSet(BookedTo(x)) /\ IsFiniteSet(PaidOutOf(x))
         /\ \A id \in BookedTo(x) : sales[id] \in SaleRow /\ sales[id].cash \in Nat
         /\ \A ret \in PaidOutOf(x) : returns[ret] \in ReturnRow /\ returns[ret].amount \in Nat
         /\ Receipts(x) \in Int /\ CashMovementNet(x) \in Int
         /\ sessions[x] # NoRow => Drawer(x, Receipts(x)) \in Int
<1>0. SalesTypeOK /\ FiniteRows
  BY DEF CounterInv
<1>1. IsFiniteSet(BookedTo(x))
  <2>1. BookedTo(x) \in SUBSET {id \in Sales : sales[id] # NoRow}
    BY DEF BookedTo, Received, Live
  <2> QED
    BY <1>0, <2>1, FS_Subset DEF FiniteRows
<1>2. IsFiniteSet(PaidOutOf(x))
  <2>1. PaidOutOf(x) \in SUBSET {ret \in Returns : returns[ret] # NoRow}
    BY DEF PaidOutOf
  <2> QED
    BY <1>0, <2>1, FS_Subset DEF FiniteRows
<1>3. \A id \in BookedTo(x) : sales[id] \in SaleRow /\ sales[id].cash \in Nat
  <2>1. \A id \in BookedTo(x) : id \in Sales /\ sales[id] # NoRow
    BY DEF BookedTo, Received, Live
  <2>2. \A id \in BookedTo(x) : sales[id] \in SaleRow
    BY <1>0, <2>1 DEF SalesTypeOK
  <2> QED
    BY <2>2 DEF SaleRow
<1>4. \A ret \in PaidOutOf(x) : returns[ret] \in ReturnRow /\ returns[ret].amount \in Nat
  <2>1. \A ret \in PaidOutOf(x) : ret \in Returns /\ returns[ret] # NoRow
    BY DEF PaidOutOf
  <2>2. \A ret \in PaidOutOf(x) : returns[ret] \in ReturnRow
    BY <1>0, <2>1 DEF SalesTypeOK
  <2> QED
    BY <2>2 DEF ReturnRow
<1>5. Receipts(x) \in Int
  <2> DEFINE f == [id \in BookedTo(x) |-> sales[id].cash]
             g == [ret \in PaidOutOf(x) |-> returns[ret].amount]
  <2>1. IsFiniteSet(DOMAIN f) /\ \A i \in DOMAIN f : f[i] \in Nat
    BY <1>1, <1>3
  <2>2. IsFiniteSet(DOMAIN g) /\ \A i \in DOMAIN g : g[i] \in Nat
    BY <1>2, <1>4
  <2>3. Receipts(x) = SumFunction(f) - SumFunction(g)
    BY DEF Receipts
  <2> HIDE DEF f, g
  <2>4. SumFunction(f) \in Nat
    BY <2>1, TotalNat
  <2>5. SumFunction(g) \in Nat
    BY <2>2, TotalNat
  <2> QED
    BY <2>3, <2>4, <2>5
<1>6. CashMovementNet(x) \in Int
  <2> DEFINE K == {key \in CashKeys : cashMoves[key] # NoRow /\ cashMoves[key].session = x}
             f == [k \in K |-> cashMoves[k].amount]
  <2>1. IsFiniteSet(K)
    <3>1. K \in SUBSET {k \in CashKeys : cashMoves[k] # NoRow}
      OBVIOUS
    <3> QED
      BY <1>0, <3>1, FS_Subset DEF FiniteRows
  <2>2. \A k \in K : cashMoves[k] \in CashRow
    BY <1>0 DEF SalesTypeOK, RegisterTypeOK
  <2>3. \A k \in K : f[k] \in Int
    BY <2>2 DEF CashRow
  <2>4. DOMAIN f = K /\ CashMovementNet(x) = SumFunction(f)
    BY DEF CashMovementNet
  <2> HIDE DEF f, K
  <2>5. SumFunctionOnSet(f, K) \in Int
    BY <2>1, <2>3, SumWithout
  <2> QED
    BY <2>4, <2>5 DEF SumFunction
<1>7. sessions[x] # NoRow => sessions[x].opening \in Nat
  BY <1>0 DEF SalesTypeOK, RegisterTypeOK, SessionRow
<1> QED
  BY <1>1, <1>2, <1>3, <1>4, <1>5, <1>6, <1>7 DEF Drawer

-----------------------------------------------------------------------------
(* What the calls of POSRetailCommission do to the rows of a bill *)

MaybeRow == CommissionRow \cup {NoRow}

\* A row just accrued for n units.
Fresh(row, n) == row.status = "ACTIVE" /\ row.quantity = n /\ n > 0 /\ row.reversed = 0

\* A row that has been closed.
ClosedAs(row, status, old) ==
  /\ row # NoRow /\ row.status = status /\ row.amount = old.amount /\ row.quantity = old.quantity
  /\ row.reversed = old.amount

\* Rows there were stay as they are; others appear for units sold.
AccruedFor(old, new, items) ==
  \A v \in Variants :
    /\ old[v] # NoRow => new[v] = old[v]
    /\ old[v] = NoRow => new[v] = NoRow \/ (new[v] # NoRow /\ Fresh(new[v], items[v]))

\* accrueRetailCommission leaves rows that are there and makes the others for the units sold.
LEMMA AccruedRows ==
  ASSUME NEW rows \in [Variants -> MaybeRow], NEW items, \A v \in Variants : items[v] \in Nat,
         NEW amounts \in [Variants -> Nat]
  PROVE  Accrued(rows, items, amounts) \in [Variants -> MaybeRow]
         /\ AccruedFor(rows, Accrued(rows, items, amounts), items)
<1> DEFINE row(v) == [status |-> "ACTIVE", quantity |-> items[v], amount |-> amounts[v],
                      reversed |-> 0, returnedQuantity |-> 0]
<1>1. ASSUME NEW v \in Variants, items[v] > 0
      PROVE  row(v) \in CommissionRow /\ row(v) # NoRow /\ Fresh(row(v), items[v])
  <2>1. row(v) \in CommissionRow
    BY <1>1 DEF CommissionRow
  <2> QED
    BY <1>1, <2>1, CommissionRowAssumption DEF Fresh
<1>2. Accrued(rows, items, amounts) = [v \in Variants |-> IF items[v] > 0 /\ rows[v] = NoRow THEN row(v) ELSE rows[v]]
  BY DEF Accrued
<1> HIDE DEF row
<1> QED
  BY <1>1, <1>2 DEF AccruedFor, MaybeRow

\* closeRetailCommission reverses all of every row.
LEMMA ClosedRows ==
  ASSUME NEW rows \in [Variants -> MaybeRow], NEW status \in {"CANCELLED", "DELETED"}
  PROVE  /\ Closed(rows, status) \in [Variants -> MaybeRow]
         /\ \A v \in Variants :
              IF rows[v] = NoRow THEN Closed(rows, status)[v] = NoRow
              ELSE ClosedAs(Closed(rows, status)[v], status, rows[v])
<1> DEFINE row(v) == [rows[v] EXCEPT !.status = status, !.reversed = rows[v].amount,
                                     !.returnedQuantity = rows[v].quantity]
<1>1. ASSUME NEW v \in Variants, rows[v] # NoRow
      PROVE  row(v) \in CommissionRow /\ ClosedAs(row(v), status, rows[v])
  <2>1. rows[v] \in CommissionRow
    BY <1>1 DEF MaybeRow
  <2>2. row(v) \in CommissionRow
    BY <2>1 DEF CommissionRow
  <2>3. /\ row(v).status = status /\ row(v).amount = rows[v].amount
        /\ row(v).quantity = rows[v].quantity /\ row(v).reversed = rows[v].amount
    BY <2>1 DEF CommissionRow
  <2> QED
    BY <2>2, <2>3, CommissionRowAssumption DEF ClosedAs
<1>2. Closed(rows, status) = [v \in Variants |-> IF rows[v] = NoRow THEN NoRow ELSE row(v)]
  BY DEF Closed
<1> HIDE DEF row
<1> QED
  BY <1>1, <1>2 DEF MaybeRow

\* The commission of a line is an amount of money.
LEMMA LineCommissionType ==
  ASSUME NEW items, \A v \in Variants : items[v] \in Nat, NEW net \in [Variants -> Nat], rate \in Nat
  PROVE  LineCommission(items, net) \in [Variants -> Nat]
<1>1. ASSUME NEW v \in Variants PROVE RetailAmount(net[v], rate, CommissionType, items[v], FixedBasis) \in Nat
  <2>1. net[v] \in Nat /\ items[v] \in Nat
    OBVIOUS
  <2>2. RoundDiv(net[v] * rate, 100) \in Nat
    BY <2>1, Shares
  <2>3. rate * items[v] \in Nat /\ rate * 1 \in Nat
    BY <2>1
  <2> QED
    BY <2>2, <2>3 DEF RetailAmount
<1> QED
  BY <1>1 DEF LineCommission

\* A debit for a row is an adjustment.
LEMMA DebitType ==
  ASSUME NEW event \in Events, NEW cause \in Sales \cup Returns, NEW id \in Sales, NEW v \in Variants,
         NEW amount \in Int
  PROVE  Debit(event, cause, id, v, amount) \in Adjustment
BY DEF Debit, Adjustment

\* Debits join the adjustments.
LEMMA DebitedType ==
  ASSUME adjustments \subseteq Adjustment, NEW rows, rows \subseteq Adjustment
  PROVE  Debited(rows) \subseteq Adjustment
BY DEF Debited

\* The numbers of a commission row.
LEMMA RowType ==
  ASSUME CommissionTypeOK, NEW id \in Sales, NEW v \in Variants, commissions[id][v] # NoRow
  PROVE  /\ commissions[id][v] \in CommissionRow
         /\ commissions[id][v].amount \in Nat /\ commissions[id][v].quantity \in Nat \ {0}
         /\ commissions[id][v].reversed \in Nat
<1>1. commissions[id][v] \in CommissionRow
  BY DEF CommissionTypeOK
<1> QED
  BY <1>1 DEF CommissionRow

\* A step that leaves the commissions leaves their types.
LEMMA CommissionsSame == ASSUME CommissionTypeOK, UNCHANGED commissionVars PROVE CommissionTypeOK'
BY DEF CommissionTypeOK, commissionVars

\* accrueRetailCommission for a bill being created.
LEMMA AccrueStep ==
  ASSUME CommissionTypeOK, NEW id \in Sales, NEW store, NEW items, \A v \in Variants : items[v] \in Nat,
         NEW net \in [Variants -> Nat], AccrueRetailCommission(id, store, items, net)
  PROVE  /\ CommissionTypeOK' /\ UNCHANGED syncing
         /\ AccruedFor(commissions[id], commissions'[id], items)
         /\ \A i \in Sales : i # id => commissions'[i] = commissions[i]
<1>0. /\ rate \in Nat /\ commissions \in [Sales -> [Variants -> MaybeRow]]
      /\ UNCHANGED <<enabledStores, rate, adjustments, syncing>>
  BY DEF CommissionTypeOK, MaybeRow, AccrueRetailCommission
<1> DEFINE new == Accrued(commissions[id], items, LineCommission(items, net))
<1>1. LineCommission(items, net) \in [Variants -> Nat]
  BY <1>0, LineCommissionType
<1>2. commissions[id] \in [Variants -> MaybeRow]
  BY <1>0
<1>3. new \in [Variants -> MaybeRow] /\ AccruedFor(commissions[id], new, items)
  BY <1>1, <1>2, AccruedRows
<1>4. commissions' = [commissions EXCEPT ![id] = new] \/ commissions' = commissions
  BY DEF AccrueRetailCommission
<1> HIDE DEF new
<1>5. AccruedFor(commissions[id], commissions[id], items)
  BY DEF AccruedFor
<1>6. commissions' \in [Sales -> [Variants -> MaybeRow]]
  BY <1>0, <1>3, <1>4
<1>7. AccruedFor(commissions[id], commissions'[id], items)
  BY <1>0, <1>3, <1>4, <1>5
<1>8. \A i \in Sales : i # id => commissions'[i] = commissions[i]
  BY <1>0, <1>4
<1>9. CommissionTypeOK'
  BY <1>0, <1>6 DEF CommissionTypeOK, MaybeRow
<1> QED
  BY <1>0, <1>7, <1>8, <1>9

\* The rows of the bills in `ids` are closed, the others stay.
ClosesOnly(ids, status) ==
  /\ \A id \in ids, v \in Variants :
       IF commissions[id][v] = NoRow THEN commissions'[id][v] = NoRow
       ELSE ClosedAs(commissions'[id][v], status, commissions[id][v])
  /\ \A id \in Sales : id \notin ids => commissions'[id] = commissions[id]

\* closeRetailCommission
LEMMA CloseStep ==
  ASSUME CommissionTypeOK, NEW ids \in SUBSET Sales, NEW status \in {"CANCELLED", "DELETED"},
         CloseRetailCommission(ids, status)
  PROVE  CommissionTypeOK' /\ UNCHANGED syncing /\ ClosesOnly(ids, status)
<1>0. /\ commissions \in [Sales -> [Variants -> MaybeRow]]
      /\ UNCHANGED <<enabledStores, rate, syncing>>
      /\ commissions' = [id \in Sales |-> IF id \in ids THEN Closed(commissions[id], status) ELSE commissions[id]]
  BY DEF CommissionTypeOK, MaybeRow, CloseRetailCommission
<1>1. ASSUME NEW id \in ids
      PROVE  /\ Closed(commissions[id], status) \in [Variants -> MaybeRow]
             /\ \A v \in Variants :
                  IF commissions[id][v] = NoRow THEN Closed(commissions[id], status)[v] = NoRow
                  ELSE ClosedAs(Closed(commissions[id], status)[v], status, commissions[id][v])
  <2>1. commissions[id] \in [Variants -> MaybeRow]
    BY <1>0
  <2> QED
    BY <2>1, ClosedRows
<1>2. commissions' \in [Sales -> [Variants -> MaybeRow]]
  BY <1>0, <1>1
<1>3. ClosesOnly(ids, status)
  BY <1>0, <1>1 DEF ClosesOnly
<1>4. adjustments' \subseteq Adjustment
  <2> DEFINE lines == {p \in ids \X Variants : commissions[p[1]][p[2]] # NoRow}
             outstanding(p) == commissions[p[1]][p[2]].amount - commissions[p[1]][p[2]].reversed
             rows == {Debit(status, p[1], p[1], p[2], outstanding(p)) : p \in lines}
  <2>1. adjustments' = Debited(rows)
    BY DEF CloseRetailCommission
  <2>2. ASSUME NEW p \in lines PROVE Debit(status, p[1], p[1], p[2], outstanding(p)) \in Adjustment
    <3>1. p[1] \in Sales /\ p[2] \in Variants /\ status \in Events
      BY DEF Events
    <3>2. outstanding(p) \in Int
      BY <3>1, RowType
    <3> QED
      BY <3>1, <3>2, DebitType
  <2>3. rows \subseteq Adjustment
    BY <2>2
  <2> HIDE DEF rows
  <2> QED
    BY <2>1, <2>3, DebitedType DEF CommissionTypeOK
<1> QED
  BY <1>0, <1>2, <1>3, <1>4 DEF CommissionTypeOK, MaybeRow

\* What a return reverses of a row: the share of the units now back.
ReversedAs(row, old, back) ==
  /\ row # NoRow /\ row.status = "ACTIVE" /\ row.amount = old.amount /\ row.quantity = old.quantity
  /\ row.reversed = RoundDiv(old.amount * back, old.quantity)

ReversesOnly(id, returning, returned) ==
  /\ \A v \in Variants :
       IF returning[v] > 0 /\ commissions[id][v] # NoRow /\ commissions[id][v].status = "ACTIVE"
       THEN ReversedAs(commissions'[id][v], commissions[id][v], returned[v])
       ELSE commissions'[id][v] = commissions[id][v]
  /\ \A i \in Sales : i # id => commissions'[i] = commissions[i]

\* reverseRetailCommission
LEMMA ReverseStep ==
  ASSUME CommissionTypeOK, NEW ret \in Returns, NEW id \in Sales, NEW returning, NEW returned,
         \A v \in Variants : returned[v] \in Nat,
         ReverseRetailCommission(ret, id, returning, returned)
  PROVE  CommissionTypeOK' /\ UNCHANGED syncing /\ ReversesOnly(id, returning, returned)
<1> DEFINE lines == {v \in Variants : /\ returning[v] > 0 /\ commissions[id][v] # NoRow
                                      /\ commissions[id][v].status = "ACTIVE"}
           reversed(v) == RefundAllocation(commissions[id][v].amount, commissions[id][v].quantity, 0, returned[v])
           row(v) == [commissions[id][v] EXCEPT !.reversed = reversed(v), !.returnedQuantity = returned[v]]
           debit(v) == IF reversed(v) > commissions[id][v].reversed
                       THEN reversed(v) - commissions[id][v].reversed ELSE 0
           rows == {Debit("RETURN", ret, id, v, debit(v)) : v \in lines}
<1>0. /\ commissions \in [Sales -> [Variants -> MaybeRow]]
      /\ UNCHANGED <<enabledStores, rate, syncing>>
  BY DEF CommissionTypeOK, MaybeRow, ReverseRetailCommission
<1>a. commissions' = [commissions EXCEPT ![id] = [v \in Variants |-> IF v \in lines THEN row(v) ELSE commissions[id][v]]]
  BY <1>0 DEF ReverseRetailCommission
<1>b. adjustments' = Debited(rows)
  BY DEF ReverseRetailCommission
<1>1. ASSUME NEW v \in lines
      PROVE  /\ v \in Variants /\ commissions[id][v] \in CommissionRow
             /\ reversed(v) \in Nat
             /\ reversed(v) = RoundDiv(commissions[id][v].amount * returned[v], commissions[id][v].quantity)
             /\ commissions[id][v].reversed \in Nat /\ commissions[id][v].status = "ACTIVE"
  <2>1. v \in Variants /\ commissions[id][v] # NoRow /\ commissions[id][v].status = "ACTIVE"
    OBVIOUS
  <2>2. /\ commissions[id][v] \in CommissionRow
        /\ commissions[id][v].amount \in Nat /\ commissions[id][v].quantity \in Nat \ {0}
        /\ commissions[id][v].reversed \in Nat
    BY <2>1, RowType
  <2> DEFINE a == commissions[id][v].amount
             q == commissions[id][v].quantity
             n == returned[v]
  <2>3. a \in Nat /\ q \in Nat \ {0} /\ n \in Nat
    BY <2>1, <2>2
  <2>a. 0 + n = n
    BY <2>3
  <2>4. reversed(v) = RoundDiv(a * n, q) - RoundDiv(a * 0, q)
    BY <2>a DEF RefundAllocation
  <2> HIDE DEF a, q, n, reversed
  <2>5. RoundDiv(a * n, q) \in Nat
    BY <2>3, Shares
  <2>b. RoundDiv(a * 0, q) = 0
    BY <2>3, Shares
  <2>6. reversed(v) = RoundDiv(a * n, q) /\ reversed(v) \in Nat
    BY <2>4, <2>5, <2>b
  <2> QED
    BY <2>1, <2>2, <2>6 DEF a, q, n
<1> HIDE DEF lines, reversed
<1>2. ASSUME NEW v \in lines
      PROVE  row(v) \in CommissionRow /\ ReversedAs(row(v), commissions[id][v], returned[v])
  <2>1. row(v) \in CommissionRow
    BY <1>1 DEF CommissionRow, lines
  <2>2. /\ row(v).status = "ACTIVE" /\ row(v).amount = commissions[id][v].amount
        /\ row(v).quantity = commissions[id][v].quantity
        /\ row(v).reversed = RoundDiv(commissions[id][v].amount * returned[v], commissions[id][v].quantity)
    BY <1>1 DEF CommissionRow
  <2> QED
    BY <2>1, <2>2, CommissionRowAssumption DEF ReversedAs
<1> HIDE DEF row
<1>3. commissions' \in [Sales -> [Variants -> MaybeRow]]
  <2>1. [v \in Variants |-> IF v \in lines THEN row(v) ELSE commissions[id][v]] \in [Variants -> MaybeRow]
    BY <1>0, <1>2 DEF MaybeRow
  <2> QED
    BY <1>0, <1>a, <2>1
<1>4. ReversesOnly(id, returning, returned)
  <2>1. \A v \in Variants : commissions'[id][v] = IF v \in lines THEN row(v) ELSE commissions[id][v]
    BY <1>0, <1>a
  <2>2. \A i \in Sales : i # id => commissions'[i] = commissions[i]
    BY <1>0, <1>a
  <2> QED
    BY <1>2, <2>1, <2>2 DEF ReversesOnly, lines
<1>5. adjustments' \subseteq Adjustment
  <2>1. ASSUME NEW v \in lines PROVE Debit("RETURN", ret, id, v, debit(v)) \in Adjustment
    <3>1. "RETURN" \in Events /\ ret \in Sales \cup Returns /\ v \in Variants
      BY <1>1 DEF Events
    <3>2. debit(v) \in Int
      BY <1>1
    <3> QED
      BY <3>1, <3>2, DebitType
  <2>2. rows \subseteq Adjustment
    BY <2>1
  <2> HIDE DEF rows
  <2> QED
    BY <1>b, <2>2, DebitedType DEF CommissionTypeOK
<1> QED
  BY <1>0, <1>3, <1>4, <1>5 DEF CommissionTypeOK, MaybeRow

-----------------------------------------------------------------------------
(* Every step keeps the tables typed, finite, and no line back more often   *)
(* than it went out.                                                        *)

Tabled == 
  /\ StockTypeOK /\ RegisterTypeOK /\ CommissionTypeOK
  /\ sales \in [Sales -> SaleRow \cup {NoRow}]
  /\ returns \in [Returns -> ReturnRow \cup {NoRow}]

\* The parts of the invariant, by name.
LEMMA CounterParts == CounterInv <=> Tabled /\ RegisterInv /\ FiniteRows /\ UnitsWithin
BY DEF CounterInv, SalesTypeOK, Tabled

\* A row is never taken for its absence.
LEMMA RowsApartFromNone == (\A row \in SaleRow : row # NoRow) /\ (\A row \in ReturnRow : row # NoRow)
BY SalesRowAssumption

\* A bill that is there.
LEMMA BillType ==
  ASSUME Tabled, NEW id \in Sales, sales[id] # NoRow
  PROVE  /\ sales[id] \in SaleRow
         /\ sales[id].store \in Stores /\ sales[id].session \in Sessions
         /\ sales[id].items \in [SaleLines -> Nat] /\ sales[id].returned \in [SaleLines -> Nat]
         /\ sales[id].price \in [SaleLines -> [net : Nat, tax : Nat]]
         /\ sales[id].cash \in Nat /\ sales[id].other \in Nat
<1>1. sales[id] \in SaleRow
  BY DEF Tabled
<1> QED
  BY <1>1 DEF SaleRow

\* What stock handlers and bills leave of the sums of movements.
LEMMA OutType == ASSUME NEW items \in [SaleLines -> Nat] PROVE Out(items) \in [Variants -> Delta]
<1>1. \A v \in Variants : -items[v] \in Int
  BY SaleLinesFinite
<1> QED
  BY <1>1 DEF Out, Delta

\* One bill written: the others, and the returns, stay.
Billed(id, row) ==
  /\ row \in SaleRow /\ sales'[id] = row
  /\ sales' \in [Sales -> SaleRow \cup {NoRow}]
  /\ \A i \in Sales : i # id => sales'[i] = sales[i]

\* Writing one bill keeps the table of bills, and leaves finitely many.
LEMMA BillWritten ==
  ASSUME Tabled, FiniteRows, UnitsWithin, NEW id \in Sales, NEW row \in SaleRow,
         sales' = [sales EXCEPT ![id] = row], \A l \in SaleLines : row.returned[l] <= row.items[l]
  PROVE  /\ Billed(id, row) /\ UnitsWithin'
         /\ IsFiniteSet({i \in Sales : sales'[i] # NoRow})
<1>1. sales \in [Sales -> SaleRow \cup {NoRow}] /\ IsFiniteSet({i \in Sales : sales[i] # NoRow})
  BY DEF Tabled, FiniteRows
<1>2. row # NoRow
  BY RowsApartFromNone
<1>3. /\ sales' \in [Sales -> SaleRow \cup {NoRow}]
      /\ sales'[id] = row /\ \A i \in Sales : i # id => sales'[i] = sales[i]
  BY <1>1
<1>4. {i \in Sales : sales'[i] # NoRow} \subseteq {i \in Sales : sales[i] # NoRow} \cup {id}
  BY <1>3
<1>5. IsFiniteSet({i \in Sales : sales'[i] # NoRow})
  BY <1>1, <1>4, FS_AddElement, FS_Subset
<1> QED
  BY <1>3, <1>5 DEF Billed, UnitsWithin

\* One return written.
Returned(ret, row) ==
  /\ row \in ReturnRow /\ returns'[ret] = row
  /\ returns' \in [Returns -> ReturnRow \cup {NoRow}]
  /\ \A i \in Returns : i # ret => returns'[i] = returns[i]

\* Writing one return keeps the table of returns, and leaves finitely many.
LEMMA ReturnWritten ==
  ASSUME Tabled, FiniteRows, NEW ret \in Returns, NEW row \in ReturnRow,
         returns' = [returns EXCEPT ![ret] = row]
  PROVE  Returned(ret, row) /\ IsFiniteSet({i \in Returns : returns'[i] # NoRow})
<1>1. returns \in [Returns -> ReturnRow \cup {NoRow}] /\ IsFiniteSet({i \in Returns : returns[i] # NoRow})
  BY DEF Tabled, FiniteRows
<1>2. /\ returns' \in [Returns -> ReturnRow \cup {NoRow}]
      /\ returns'[ret] = row /\ \A i \in Returns : i # ret => returns'[i] = returns[i]
  BY <1>1
<1>3. {i \in Returns : returns'[i] # NoRow} \subseteq {i \in Returns : returns[i] # NoRow} \cup {ret}
  BY <1>2
<1>4. IsFiniteSet({i \in Returns : returns'[i] # NoRow})
  BY <1>1, <1>3, FS_AddElement, FS_Subset
<1> QED
  BY <1>2, <1>4 DEF Returned

\* Bills and returns changed where they were, by a step that adds none.
LEMMA NoneAdded ==
  ASSUME FiniteRows
  PROVE  /\ (\A i \in Sales : sales[i] = NoRow => sales'[i] = NoRow) =>
              IsFiniteSet({i \in Sales : sales'[i] # NoRow})
         /\ (\A i \in Returns : returns[i] = NoRow => returns'[i] = NoRow) =>
              IsFiniteSet({i \in Returns : returns'[i] # NoRow})
         /\ UNCHANGED cashMoves => IsFiniteSet({k \in CashKeys : cashMoves'[k] # NoRow})
<1>1. (\A i \in Sales : sales[i] = NoRow => sales'[i] = NoRow) =>
        {i \in Sales : sales'[i] # NoRow} \subseteq {i \in Sales : sales[i] # NoRow}
  OBVIOUS
<1>2. (\A i \in Returns : returns[i] = NoRow => returns'[i] = NoRow) =>
        {i \in Returns : returns'[i] # NoRow} \subseteq {i \in Returns : returns[i] # NoRow}
  OBVIOUS
<1>3. UNCHANGED cashMoves => {k \in CashKeys : cashMoves'[k] # NoRow} \subseteq {k \in CashKeys : cashMoves[k] # NoRow}
  OBVIOUS
<1> QED
  BY <1>1, <1>2, <1>3, FS_Subset DEF FiniteRows

\* A movement keeps the tables of the stock.
LEMMA StockKept ==
  ASSUME Tabled, UNCHANGED <<catalog, stockLog, transfers>>,
         NEW doc \in Documents, NEW s \in Stores, NEW lines \in SUBSET Variants,
         NEW delta \in [Variants -> Delta], Movement(doc, s, lines, delta)
  PROVE  StockTypeOK' /\ Evenly /\ OnlyUnder(doc)
<1>1. StockTypeOK
  BY DEF Tabled
<1>2. /\ quantity' \in [Stores -> [Variants -> Nat]]
      /\ damaged' \in [Stores -> [Variants -> Nat]]
      /\ ledger' \in [Stores -> [Variants -> [rows : Nat, q : Int, d : Int]]]
      /\ docLedger' \in [Documents -> [Stores -> [Variants -> Delta]]]
      /\ Evenly /\ OnlyUnder(doc)
  BY <1>1, MovementEvenly
<1> QED
  BY <1>1, <1>2 DEF StockTypeOK

\* The units, sold or damaged, that a document moves in a step.
Carries(doc, s, units) ==
  \A v \in Variants : Units(docLedger'[doc][s][v]) = Units(docLedger[doc][s][v]) + units[v]

\* movement() adds its delta to its document, line by line.
LEMMA DocumentMoved ==
  ASSUME StockTypeOK, NEW doc \in Documents, NEW s \in Stores, NEW lines \in SUBSET Variants,
         NEW delta \in [Variants -> Delta], Movement(doc, s, lines, delta)
  PROVE  /\ \A v \in lines : /\ docLedger'[doc][s][v].q = docLedger[doc][s][v].q + delta[v].q
                             /\ docLedger'[doc][s][v].d = docLedger[doc][s][v].d + delta[v].d
         /\ \A v \in Variants : v \notin lines => docLedger'[doc][s][v] = docLedger[doc][s][v]
<1>m. MovedBy(doc, s, lines, delta)
  BY MovementEffect
<1>1. \A v \in lines : /\ docLedger'[doc][s][v].q = docLedger[doc][s][v].q + delta[v].q
                       /\ docLedger'[doc][s][v].d = docLedger[doc][s][v].d + delta[v].d
  BY <1>m DEF MovedBy
<1>a. \A x \in Documents, r \in Stores, v \in Variants :
        ~(x = doc /\ r = s /\ v \in lines) => docLedger'[x][r][v] = docLedger[x][r][v]
  BY <1>m DEF MovedBy
<1>2. \A v \in Variants : v \notin lines => docLedger'[doc][s][v] = docLedger[doc][s][v]
  BY <1>a
<1> QED
  BY <1>1, <1>2

\* The units of a movement, sold and damaged together.
LEMMA StockCarried ==
  ASSUME Tabled, NEW doc \in Documents, NEW s \in Stores, NEW lines \in SUBSET Variants,
         NEW delta \in [Variants -> Delta], Movement(doc, s, lines, delta),
         NEW units, \A v \in Variants : IF v \in lines THEN Units(delta[v]) = units[v] ELSE units[v] = 0
  PROVE  Carries(doc, s, units)
<1>0. StockTypeOK
  BY DEF Tabled
<1>1. \A v \in Variants : /\ docLedger[doc][s][v].q \in Int /\ docLedger[doc][s][v].d \in Int
                          /\ delta[v].q \in Int /\ delta[v].d \in Int
  BY <1>0 DEF StockTypeOK, Delta
<1>2. \A v \in lines : /\ docLedger'[doc][s][v].q = docLedger[doc][s][v].q + delta[v].q
                       /\ docLedger'[doc][s][v].d = docLedger[doc][s][v].d + delta[v].d
  BY <1>0, DocumentMoved
<1>3. \A v \in Variants : v \notin lines => docLedger'[doc][s][v] = docLedger[doc][s][v]
  BY <1>0, DocumentMoved
<1>4. ASSUME NEW v \in lines PROVE Units(docLedger'[doc][s][v]) = Units(docLedger[doc][s][v]) + units[v]
  BY <1>1, <1>2, <1>4 DEF Units
<1>5. ASSUME NEW v \in Variants, v \notin lines
      PROVE  Units(docLedger'[doc][s][v]) = Units(docLedger[doc][s][v]) + units[v]
  BY <1>1, <1>3, <1>5 DEF Units
<1> QED
  BY <1>4, <1>5 DEF Carries

\* checkout
NewBill(store, x, items, price, cash, draft) ==
  [store |-> store, session |-> x, items |-> items, price |-> price,
   returned |-> [l \in SaleLines |-> 0], cash |-> cash, other |-> Total(price) - cash,
   reconciled |-> {}, draft |-> draft, restored |-> FALSE, status |-> "COMPLETED"]

\* checkout writes one bill on an open session, takes its units out of the store
\* under its own id and accrues its commission.
LEMMA CheckoutStep ==
  ASSUME CounterInv,
         NEW id \in Sales, NEW a \in Actors, NEW store \in Stores, NEW x \in Sessions,
         NEW items \in Items, NEW price \in Prices, NEW cash \in 0..MaxCash, NEW draft \in DraftKinds,
         Checkout(id, a, store, x, items, price, cash, draft)
  PROVE  /\ CounterInv'
         /\ sales[id] = NoRow /\ Billed(id, NewBill(store, x, items, price, cash, draft))
         /\ UNCHANGED <<returns, syncing>>
         /\ AccruedFor(commissions[id], commissions'[id], items)
         /\ \A i \in Sales : i # id => commissions'[i] = commissions[i]
         /\ Opened(x, 0) \/ (IsOpen(x) /\ UNCHANGED registerVars)
         /\ Evenly /\ OnlyUnder(id)
         /\ items \in [SaleLines -> Nat] /\ price \in [SaleLines -> [net : Nat, tax : Nat]]
         /\ Carries(id, store, [v \in Variants |-> -items[v]])
         /\ \A l \in SaleLines : items[l] = 0 => price[l].net = 0 /\ price[l].tax = 0
<1>0. Tabled /\ RegisterInv /\ FiniteRows /\ UnitsWithin
  BY CounterParts
<1>1. /\ items \in [SaleLines -> Nat] /\ price \in [SaleLines -> [net : Nat, tax : Nat]] /\ cash \in Nat
  BY RequestTypes
<1> DEFINE row == NewBill(store, x, items, price, cash, draft)
<1>2. row \in SaleRow
  <2>1. Total(price) - cash \in Nat
    BY <1>1, TotalType DEF Checkout
  <2>2. "COMPLETED" \in Recognized /\ draft \in DraftKinds
    BY DEF Recognized
  <2> QED
    BY <1>1, <2>1, <2>2 DEF NewBill, SaleRow
<1>3. sales' = [sales EXCEPT ![id] = row] /\ sales[id] = NoRow /\ UNCHANGED <<catalog, stockLog, transfers, returns>>
  BY DEF Checkout, NewBill
<1>4. \A l \in SaleLines : row.returned[l] <= row.items[l]
  BY <1>1 DEF NewBill
<1> HIDE DEF row
<1>5. Billed(id, row) /\ UnitsWithin' /\ IsFiniteSet({i \in Sales : sales'[i] # NoRow})
  BY <1>0, <1>2, <1>3, <1>4, BillWritten
<1>6. RegisterTypeOK' /\ RegisterInv' /\ UNCHANGED cashMoves
      /\ (Opened(x, 0) \/ (IsOpen(x) /\ UNCHANGED registerVars))
  <2>1. Opened(x, 0) \/ (IsOpen(x) /\ UNCHANGED registerVars)
    BY <1>0, BillSession DEF Tabled, Checkout
  <2>2. CASE Opened(x, 0)
    BY <2>2 DEF Opened
  <2>3. CASE IsOpen(x) /\ UNCHANGED registerVars
    <3>1. RegisterTypeOK' /\ RegisterInv'
      BY <1>0, <2>3, RegistersSame DEF Tabled
    <3> QED
      BY <2>3, <3>1 DEF registerVars
  <2> QED
    BY <2>1, <2>2, <2>3
<1>7. /\ CommissionTypeOK' /\ UNCHANGED syncing
      /\ AccruedFor(commissions[id], commissions'[id], items)
      /\ \A i \in Sales : i # id => commissions'[i] = commissions[i]
  <2>1. \A v \in Variants : items[v] \in Nat /\ price[v].net \in Nat
    BY <1>1, SaleLinesFinite
  <2>2. [v \in Variants |-> price[v].net] \in [Variants -> Nat]
    BY <2>1
  <2>3. AccrueRetailCommission(id, store, items, [v \in Variants |-> price[v].net])
    BY DEF Checkout
  <2> QED
    BY <1>0, <2>1, <2>2, <2>3, AccrueStep DEF Tabled
<1>8. StockTypeOK' /\ Evenly /\ OnlyUnder(id) /\ Carries(id, store, [v \in Variants |-> -items[v]])
  <2>1. Out(items) \in [Variants -> Delta] /\ id \in Documents
    BY <1>1, OutType, SalesAssumption
  <2>2. SoldLines(items) \ {Manual} \in SUBSET Variants
    BY DEF SoldLines, SaleLines
  <2>3. Movement(id, store, SoldLines(items) \ {Manual}, Out(items))
    BY DEF Checkout
  <2>4. StockTypeOK' /\ Evenly /\ OnlyUnder(id)
    BY <1>0, <1>3, <2>1, <2>2, <2>3, StockKept
  <2> DEFINE lines == SoldLines(items) \ {Manual}
             units == [v \in Variants |-> -items[v]]
             delta == Out(items)
  <2>5. \A v \in Variants : v \in SaleLines /\ items[v] \in Nat /\ v # Manual
    BY <1>1, SaleLinesFinite, SalesAssumption
  <2>6. \A v \in Variants : v \in lines <=> items[v] > 0
    BY <2>5 DEF SoldLines
  <2>7. \A v \in Variants : Units(delta[v]) = units[v] /\ (v \notin lines => units[v] = 0)
    <3> SUFFICES ASSUME NEW v \in Variants
                 PROVE  Units(delta[v]) = units[v] /\ (v \notin lines => units[v] = 0)
      OBVIOUS
    <3>1. items[v] \in Nat /\ units[v] = -items[v] /\ delta[v].q = -items[v] /\ delta[v].d = 0
      BY <2>5 DEF Out
    <3>2. v \notin lines => items[v] = 0
      BY <2>5, <2>6
    <3> HIDE DEF lines, units, delta
    <3> QED
      BY <3>1, <3>2 DEF Units
  <2> HIDE DEF lines, units, delta
  <2>8. Carries(id, store, units)
    BY <1>0, <2>1, <2>2, <2>3, <2>7, StockCarried DEF lines, delta
  <2> QED
    BY <2>4, <2>8 DEF units
<1>9. FiniteRows'
  BY <1>0, <1>3, <1>5, <1>6, NoneAdded DEF FiniteRows
<1>10. Tabled'
  BY <1>0, <1>3, <1>5, <1>6, <1>7, <1>8 DEF Tabled, Billed
<1>11. CounterInv'
  BY <1>5, <1>6, <1>9, <1>10 DEF CounterInv, Tabled, SalesTypeOK
<1>12. \A l \in SaleLines : items[l] = 0 => price[l].net = 0 /\ price[l].tax = 0
  <2>1. \A l \in SaleLines \ SoldLines(items) : price[l] = [net |-> 0, tax |-> 0]
    BY DEF Checkout
  <2>2. \A l \in SaleLines : items[l] = 0 => l \notin SoldLines(items)
    BY DEF SoldLines
  <2> QED
    BY <2>1, <2>2
<1> QED
  BY <1>1, <1>3, <1>5, <1>6, <1>7, <1>8, <1>11, <1>12 DEF row

\* The units of a bill that are back once `returning` more are.
NowBack(sale, returning) == [l \in SaleLines |-> sale.returned[l] + returning[l]]

NewReturn(id, x, cash, returning) ==
  [sale |-> id, session |-> x, cash |-> cash, amount |-> RefundAmount(sales[id], returning),
   quantity |-> returning, reconciled |-> FALSE, deleted |-> FALSE]

BillWith(sale, back, status) == [sale EXCEPT !.returned = back, !.status = status]

\* What a refund of either kind leaves.
TakenBack(ret, id, x, returning, cash, status) ==
  /\ Live(id) /\ sales[id].status \in {"COMPLETED", "PARTIALLY_RETURNED"} /\ returns[ret] = NoRow
  /\ IsOpen(x) /\ (cash => DrawerHolds(x, RefundAmount(sales[id], returning)))
  /\ SoldLines(returning) # {} /\ Returnable(sales[id], returning)
  /\ NowBack(sales[id], returning) \in [SaleLines -> Nat]
  /\ Returned(ret, NewReturn(id, x, cash, returning))
  /\ Billed(id, BillWith(sales[id], NowBack(sales[id], returning), status))
  /\ UNCHANGED registerVars /\ Carries(ret, sales[id].store, returning)

\* The movements of what came back, resellable or damaged.
Back(returning, resellable) ==
  [v \in Variants |-> IF v \in resellable THEN [q |-> returning[v], d |-> 0] ELSE [q |-> 0, d |-> returning[v]]]

\* Units that come back are a movement.
LEMMA BackType ==
  ASSUME NEW returning \in [SaleLines -> Nat], NEW resellable
  PROVE  Back(returning, resellable) \in [Variants -> Delta]
<1>1. \A v \in Variants : returning[v] \in Nat
  BY SaleLinesFinite
<1> QED
  BY <1>1 DEF Back, Delta

\* What returnSale and cancelSale share keeps every table and leaves a TakenBack.
LEMMA TakeBackStep ==
  ASSUME CounterInv,
         NEW ret \in Returns, NEW id \in Sales, NEW a, NEW x \in Sessions,
         NEW returning \in [SaleLines -> Nat], NEW resellable, NEW cash \in BOOLEAN,
         NEW status \in {"RETURNED", "PARTIALLY_RETURNED", "CANCELLED"},
         TakeBack(ret, id, a, x, returning, resellable, cash, status)
  PROVE  /\ TakenBack(ret, id, x, returning, cash, status)
         /\ StockTypeOK' /\ RegisterTypeOK' /\ RegisterInv' /\ FiniteRows' /\ UnitsWithin'
         /\ Evenly /\ OnlyUnder(ret)
<1>0. Tabled /\ RegisterInv /\ FiniteRows /\ UnitsWithin
  BY CounterParts
<1> DEFINE sale == sales[id]
           back == NowBack(sale, returning)
           row == NewReturn(id, x, cash, returning)
           bill == BillWith(sale, back, status)
<1>1. Live(id) /\ sale \in SaleRow /\ sale.items \in [SaleLines -> Nat] /\ sale.returned \in [SaleLines -> Nat]
      /\ sale.store \in Stores
  BY <1>0, BillType DEF TakeBack, Live
<1>2. /\ sale.status \in {"COMPLETED", "PARTIALLY_RETURNED"} /\ returns[ret] = NoRow
      /\ IsOpen(x) /\ (cash => DrawerHolds(x, RefundAmount(sale, returning)))
      /\ SoldLines(returning) # {} /\ Returnable(sale, returning)
      /\ UNCHANGED <<catalog, stockLog, transfers, registerVars>>
      /\ returns' = [returns EXCEPT ![ret] = row]
      /\ sales' = [sales EXCEPT ![id].returned = back, ![id].status = status]
      /\ Movement(ret, sale.store, SoldLines(returning) \ {Manual}, Back(returning, resellable))
  BY DEF TakeBack, NewReturn, NowBack, Back
<1>3. sales' = [sales EXCEPT ![id] = bill]
  BY <1>0, <1>1, <1>2 DEF BillWith, Tabled
<1>4. RefundAmount(sale, returning) \in Nat
  BY <1>1, <1>2, RefundAmountType
<1>5. row \in ReturnRow
  BY <1>4 DEF NewReturn, ReturnRow
<1>6. back \in [SaleLines -> Nat]
  BY <1>1 DEF NowBack
<1>7. bill \in SaleRow
  BY <1>1, <1>6 DEF BillWith, SaleRow, Recognized
<1>8. \A l \in SaleLines : bill.returned[l] <= bill.items[l]
  <2>1. bill.returned = back /\ bill.items = sale.items
    BY <1>1 DEF BillWith, SaleRow
  <2>2. \A l \in SaleLines : back[l] <= sale.items[l]
    BY <1>2 DEF Returnable, NowBack
  <2> QED
    BY <2>1, <2>2
<1>9. StockTypeOK' /\ Evenly /\ OnlyUnder(ret)
  <2>1. Back(returning, resellable) \in [Variants -> Delta] /\ ret \in Documents
    BY BackType, SalesAssumption
  <2>2. SoldLines(returning) \ {Manual} \in SUBSET Variants
    BY DEF SoldLines, SaleLines
  <2> QED
    BY <1>0, <1>1, <1>2, <2>1, <2>2, StockKept
<1>a. Carries(ret, sale.store, returning)
  <2> DEFINE lines == SoldLines(returning) \ {Manual}
             delta == Back(returning, resellable)
  <2>1. delta \in [Variants -> Delta] /\ ret \in Documents /\ lines \in SUBSET Variants
    BY BackType, SalesAssumption DEF SoldLines, SaleLines
  <2>2. \A v \in Variants : v \in SaleLines /\ returning[v] \in Nat /\ v # Manual
    BY SaleLinesFinite, SalesAssumption
  <2>3. \A v \in Variants : v \in lines <=> returning[v] > 0
    BY <2>2 DEF SoldLines
  <2>4. \A v \in Variants : Units(delta[v]) = returning[v]
    BY <2>2 DEF Back, Units
  <2>5. \A v \in Variants : v \notin lines => returning[v] = 0
    BY <2>2, <2>3
  <2>6. Movement(ret, sale.store, lines, delta)
    BY <1>2
  <2> HIDE DEF lines, delta, sale
  <2>7. sale.store \in Stores
    BY <1>1
  <2> QED
    BY <1>0, <2>1, <2>4, <2>5, <2>6, <2>7, StockCarried
<1> HIDE DEF row, bill, back
<1>10. Billed(id, bill) /\ UnitsWithin' /\ IsFiniteSet({i \in Sales : sales'[i] # NoRow})
  BY <1>0, <1>3, <1>7, <1>8, BillWritten
<1>11. Returned(ret, row) /\ IsFiniteSet({i \in Returns : returns'[i] # NoRow})
  BY <1>0, <1>2, <1>5, ReturnWritten
<1>12. RegisterTypeOK' /\ RegisterInv' /\ UNCHANGED cashMoves
  BY <1>0, <1>2, RegistersSame DEF Tabled, registerVars
<1>13. FiniteRows'
  BY <1>0, <1>10, <1>11, <1>12, NoneAdded DEF FiniteRows
<1>14. TakenBack(ret, id, x, returning, cash, status)
  BY <1>1, <1>2, <1>6, <1>10, <1>11, <1>a DEF TakenBack, row, bill, back
<1> QED
  BY <1>9, <1>10, <1>12, <1>13, <1>14

\* The parts of the invariant, put together again.
LEMMA TypedAgain ==
  ASSUME StockTypeOK', RegisterTypeOK', CommissionTypeOK', RegisterInv', FiniteRows', UnitsWithin',
         sales' \in [Sales -> SaleRow \cup {NoRow}], returns' \in [Returns -> ReturnRow \cup {NoRow}]
  PROVE  CounterInv'
BY DEF CounterInv, SalesTypeOK

\* returnSale
LEMMA ReturnSaleStep ==
  ASSUME CounterInv,
         NEW ret \in Returns, NEW id \in Sales, NEW a, NEW x \in Sessions,
         NEW returning \in Items, NEW resellable, NEW cash \in BOOLEAN,
         ReturnSale(ret, id, a, x, returning, resellable, cash)
  PROVE  /\ CounterInv' /\ returning \in [SaleLines -> Nat]
         /\ TakenBack(ret, id, x, returning, cash,
              IF NowBack(sales[id], returning) = sales[id].items THEN "RETURNED" ELSE "PARTIALLY_RETURNED")
         /\ UNCHANGED syncing
         /\ ReversesOnly(id, returning, NowBack(sales[id], returning))
         /\ Evenly /\ OnlyUnder(ret)
<1> DEFINE back == NowBack(sales[id], returning)
           status == IF back = sales[id].items THEN "RETURNED" ELSE "PARTIALLY_RETURNED"
<1>1. returning \in [SaleLines -> Nat]
  BY RequestTypes
<1>2. status \in {"RETURNED", "PARTIALLY_RETURNED", "CANCELLED"}
  OBVIOUS
<1>3. TakeBack(ret, id, a, x, returning, resellable, cash, status)
      /\ ReverseRetailCommission(ret, id, returning, back)
  BY DEF ReturnSale, NowBack
<1> HIDE DEF status
<1>4. /\ TakenBack(ret, id, x, returning, cash, status)
      /\ StockTypeOK' /\ RegisterTypeOK' /\ RegisterInv' /\ FiniteRows' /\ UnitsWithin'
      /\ Evenly /\ OnlyUnder(ret)
  BY <1>1, <1>2, <1>3, TakeBackStep
<1>5. CommissionTypeOK
  BY DEF CounterInv, SalesTypeOK
<1>6. \A v \in Variants : back[v] \in Nat
  BY <1>4, SaleLinesFinite DEF TakenBack
<1>7. CommissionTypeOK' /\ UNCHANGED syncing /\ ReversesOnly(id, returning, back)
  BY <1>3, <1>5, <1>6, ReverseStep
<1>8. CounterInv'
  BY <1>4, <1>7, TypedAgain DEF TakenBack, Billed, Returned
<1> QED
  BY <1>1, <1>4, <1>7, <1>8 DEF status

\* cancelSale with a refund
LEMMA CancelWithRefundStep ==
  ASSUME CounterInv,
         NEW ret \in Returns, NEW id \in Sales, NEW a, NEW x \in Sessions, NEW cash \in BOOLEAN,
         CancelWithRefund(ret, id, a, x, cash)
  PROVE  /\ CounterInv' /\ sales[id].items \in [SaleLines -> Nat]
         /\ sales[id].returned = [l \in SaleLines |-> 0]
         /\ TakenBack(ret, id, x, sales[id].items, cash, "CANCELLED")
         /\ UNCHANGED syncing
         /\ ClosesOnly({id}, "CANCELLED")
         /\ Evenly /\ OnlyUnder(ret)
<1>0. Tabled /\ CommissionTypeOK
  BY CounterParts DEF Tabled
<1>1. Live(id) /\ sales[id].items \in [SaleLines -> Nat] /\ sales[id].returned = [l \in SaleLines |-> 0]
  BY <1>0, BillType DEF CancelWithRefund, Live
<1>2. TakeBack(ret, id, a, x, sales[id].items, Variants, cash, "CANCELLED")
  BY DEF CancelWithRefund
<1>4. /\ TakenBack(ret, id, x, sales[id].items, cash, "CANCELLED")
      /\ StockTypeOK' /\ RegisterTypeOK' /\ RegisterInv' /\ FiniteRows' /\ UnitsWithin'
      /\ Evenly /\ OnlyUnder(ret)
  BY <1>1, <1>2, TakeBackStep
<1>5. /\ UNCHANGED <<enabledStores, rate, syncing>>
      /\ commissions' = [commissions EXCEPT ![id] = Closed(commissions[id], "CANCELLED")]
  BY <1>0 DEF CancelWithRefund, CommissionTypeOK
<1>6. commissions \in [Sales -> [Variants -> MaybeRow]]
  BY <1>0 DEF CommissionTypeOK, MaybeRow
<1>7. /\ Closed(commissions[id], "CANCELLED") \in [Variants -> MaybeRow]
      /\ \A v \in Variants :
           IF commissions[id][v] = NoRow THEN Closed(commissions[id], "CANCELLED")[v] = NoRow
           ELSE ClosedAs(Closed(commissions[id], "CANCELLED")[v], "CANCELLED", commissions[id][v])
  <2>1. commissions[id] \in [Variants -> MaybeRow]
    BY <1>6
  <2> QED
    BY <2>1, ClosedRows
<1>8. ClosesOnly({id}, "CANCELLED") /\ commissions' \in [Sales -> [Variants -> MaybeRow]]
  BY <1>5, <1>6, <1>7 DEF ClosesOnly
<1>9. adjustments' \subseteq Adjustment
  <2> DEFINE lines == {v \in Variants : commissions[id][v] # NoRow}
             outstanding(v) == commissions[id][v].amount - commissions[id][v].reversed
             rows == {Debit("RETURN", ret, id, v, outstanding(v)) : v \in lines}
  <2>1. adjustments' = Debited(rows)
    BY DEF CancelWithRefund
  <2>2. ASSUME NEW v \in lines PROVE Debit("RETURN", ret, id, v, outstanding(v)) \in Adjustment
    <3>1. "RETURN" \in Events /\ ret \in Sales \cup Returns
      BY DEF Events
    <3>2. outstanding(v) \in Int
      BY <1>0, RowType
    <3> QED
      BY <3>1, <3>2, DebitType
  <2>3. rows \subseteq Adjustment
    BY <2>2
  <2> HIDE DEF rows
  <2> QED
    BY <1>0, <2>1, <2>3, DebitedType DEF CommissionTypeOK
<1>10. CommissionTypeOK'
  BY <1>0, <1>5, <1>8, <1>9 DEF CommissionTypeOK, MaybeRow
<1>11. CounterInv'
  BY <1>4, <1>10, TypedAgain DEF TakenBack, Billed, Returned
<1> QED
  BY <1>1, <1>4, <1>5, <1>8, <1>11

\* A set of bills of which only the status, and what a deletion notes, changes.
WithStatus(ids, status) ==
  /\ sales' \in [Sales -> SaleRow \cup {NoRow}]
  /\ \A id \in ids : /\ sales[id] # NoRow /\ sales'[id] \in SaleRow /\ sales'[id] # NoRow
                     /\ sales'[id].status = status
                     /\ sales'[id].store = sales[id].store /\ sales'[id].session = sales[id].session
                     /\ sales'[id].items = sales[id].items /\ sales'[id].price = sales[id].price
                     /\ sales'[id].returned = sales[id].returned
                     /\ sales'[id].cash = sales[id].cash /\ sales'[id].other = sales[id].other
  /\ \A id \in Sales : id \notin ids => sales'[id] = sales[id]

\* Changing the status of bills returns no unit and adds no bill.
LEMMA WithStatusKeeps ==
  ASSUME Tabled, FiniteRows, UnitsWithin, NEW ids \in SUBSET Sales, NEW status, WithStatus(ids, status)
  PROVE  UnitsWithin' /\ IsFiniteSet({i \in Sales : sales'[i] # NoRow})
<1>1. \A i \in Sales : sales[i] = NoRow => sales'[i] = NoRow
  BY DEF WithStatus
<1>2. IsFiniteSet({i \in Sales : sales'[i] # NoRow})
  BY <1>1, NoneAdded
<1>3. UnitsWithin'
  BY DEF UnitsWithin, WithStatus
<1> QED
  BY <1>2, <1>3

\* Only the status of a bill changes.
Restatused(bill, row, status) ==
  /\ row \in SaleRow /\ row # NoRow /\ row.status = status /\ row.restored = bill.restored
  /\ row.store = bill.store /\ row.session = bill.session
  /\ row.items = bill.items /\ row.price = bill.price /\ row.returned = bill.returned
  /\ row.cash = bill.cash /\ row.other = bill.other

\* Changing the status of a bill changes nothing else of it.
LEMMA StatusOnly ==
  ASSUME NEW bill \in SaleRow, NEW status \in {"CANCELLED", "DELETED"}
  PROVE  Restatused(bill, [bill EXCEPT !.status = status], status)
<1> DEFINE row == [bill EXCEPT !.status = status]
<1>1. row \in SaleRow
  BY DEF SaleRow
<1>2. row # NoRow
  BY <1>1, RowsApartFromNone
<1>3. /\ row.status = status /\ row.restored = bill.restored
      /\ row.store = bill.store /\ row.session = bill.session
      /\ row.items = bill.items /\ row.price = bill.price /\ row.returned = bill.returned
      /\ row.cash = bill.cash /\ row.other = bill.other
  BY DEF SaleRow
<1> QED
  BY <1>1, <1>2, <1>3 DEF Restatused

\* Bills restated together.
LEMMA StatusWritten ==
  ASSUME Tabled, NEW ids \in SUBSET Sales, \A id \in ids : Live(id), NEW status \in {"CANCELLED", "DELETED"},
         sales' = [id \in Sales |-> IF id \in ids THEN [sales[id] EXCEPT !.status = status] ELSE sales[id]]
  PROVE  WithStatus(ids, status) /\ \A id \in Sales : sales[id] # NoRow => sales'[id].restored = sales[id].restored
<1>1. ASSUME NEW id \in ids
      PROVE  sales[id] # NoRow /\ Restatused(sales[id], sales'[id], status)
  <2>1. sales[id] # NoRow /\ sales[id] \in SaleRow
    BY BillType DEF Live
  <2>2. sales'[id] = [sales[id] EXCEPT !.status = status]
    OBVIOUS
  <2> QED
    BY <2>1, <2>2, StatusOnly
<1>2. \A id \in Sales : id \notin ids => sales'[id] = sales[id]
  OBVIOUS
<1>3. DOMAIN sales' = Sales /\ \A id \in Sales : sales'[id] \in SaleRow \cup {NoRow}
  <2>1. \A id \in ids : sales'[id] \in SaleRow
    BY <1>1 DEF Restatused
  <2> QED
    BY <1>2, <2>1 DEF Tabled
<1>4. sales' \in [Sales -> SaleRow \cup {NoRow}]
  BY <1>3
<1> QED
  BY <1>1, <1>2, <1>4 DEF WithStatus, Restatused

\* The units put back of the voided bills of a store.
BackAt(ids, s, v) == SumFunction([id \in {i \in ids : sales[i].store = s} |-> sales[id].items[v]])

\* The units that voided bills of a store put back are a number of units.
LEMMA BackAtType ==
  ASSUME Tabled, FiniteRows, NEW ids \in SUBSET Sales, \A id \in ids : Live(id),
         NEW s \in Stores, NEW v \in Variants
  PROVE  BackAt(ids, s, v) \in Nat /\ IsFiniteSet(ids)
<1> DEFINE S == {i \in ids : sales[i].store = s}
           f == [id \in S |-> sales[id].items[v]]
<1>1. IsFiniteSet({i \in Sales : sales[i] # NoRow})
  BY DEF FiniteRows
<1>2. IsFiniteSet(ids)
  <2>1. ids \in SUBSET {i \in Sales : sales[i] # NoRow}
    BY DEF Live
  <2> QED
    BY <1>1, <2>1, FS_Subset
<1>3. IsFiniteSet(S)
  <2>1. S \in SUBSET ids
    OBVIOUS
  <2> QED
    BY <1>2, <2>1, FS_Subset
<1>4. ASSUME NEW id \in S PROVE f[id] \in Nat
  <2>1. id \in Sales /\ sales[id] # NoRow
    BY DEF Live
  <2>2. sales[id].items \in [SaleLines -> Nat]
    BY <2>1, BillType
  <2> QED
    BY <2>2, SaleLinesFinite
<1>5. DOMAIN f = S /\ BackAt(ids, s, v) = SumFunction(f)
  BY DEF BackAt
<1> HIDE DEF f, S
<1>6. BackAt(ids, s, v) \in Nat
  BY <1>3, <1>4, <1>5, TotalNat
<1> QED
  BY <1>2, <1>6

\* voidSale, of one bill or of all the completed ones of a scope
Voided(ids) ==
  /\ WithStatus(ids, "CANCELLED") /\ ClosesOnly(ids, "CANCELLED")
  /\ \A id \in ids : Live(id) /\ Voidable(id)
  /\ \A id \in Sales : sales[id] # NoRow => sales'[id].restored = sales[id].restored
  /\ UNCHANGED <<returns, syncing, registerVars>>
  /\ Evenly
  /\ \A x \in Documents, s \in Stores, v \in Variants :
       docLedger'[x][s][v] =
         IF x \in ids /\ s = sales[x].store
         THEN [docLedger[x][s][v] EXCEPT !.q = @ + sales[x].items[v]] ELSE docLedger[x][s][v]

\* voidSale and dataManagementClear(CANCEL) close bills without returns and put their
\* units back under their own ids.
LEMMA VoidSalesStep ==
  ASSUME CounterInv, NEW ids \in SUBSET Sales, \A id \in ids : Live(id), VoidSales(ids)
  PROVE  CounterInv' /\ Voided(ids)
<1>0. Tabled /\ RegisterInv /\ FiniteRows /\ UnitsWithin /\ StockTypeOK /\ CommissionTypeOK
  BY CounterParts DEF Tabled
<1>1. /\ sales' = [id \in Sales |-> IF id \in ids THEN [sales[id] EXCEPT !.status = "CANCELLED"] ELSE sales[id]]
      /\ \A id \in ids : Voidable(id)
      /\ CloseRetailCommission(ids, "CANCELLED")
      /\ UNCHANGED <<catalog, damaged, stockLog, transfers, registerVars, returns>>
      /\ quantity' = [s \in Stores |-> [v \in Variants |-> quantity[s][v] + BackAt(ids, s, v)]]
      /\ docLedger' = [x \in Documents |-> [s \in Stores |-> [v \in Variants |->
           IF x \in ids /\ s = sales[x].store
           THEN [docLedger[x][s][v] EXCEPT !.q = @ + sales[x].items[v]] ELSE docLedger[x][s][v]]]]
  BY DEF VoidSales, BackAt
<1> DEFINE voided(s, v) == {id \in ids : sales[id].store = s /\ sales[id].items[v] > 0}
<1>2. ledger' = [s \in Stores |-> [v \in Variants |->
        [ledger[s][v] EXCEPT !.rows = @ + Cardinality(voided(s, v)), !.q = @ + BackAt(ids, s, v)]]]
  BY DEF VoidSales, BackAt
<1>3. ASSUME NEW s \in Stores, NEW v \in Variants
      PROVE  BackAt(ids, s, v) \in Nat /\ Cardinality(voided(s, v)) \in Nat
  <2>1. BackAt(ids, s, v) \in Nat /\ IsFiniteSet(ids)
    BY <1>0, BackAtType
  <2>2. voided(s, v) \in SUBSET ids
    OBVIOUS
  <2>3. IsFiniteSet(voided(s, v))
    BY <2>1, <2>2, FS_Subset
  <2> QED
    BY <2>1, <2>3, FS_CardinalityType
<1> HIDE DEF voided
<1>4. WithStatus(ids, "CANCELLED") /\ \A id \in Sales : sales[id] # NoRow => sales'[id].restored = sales[id].restored
  BY <1>0, <1>1, StatusWritten
<1>5. CommissionTypeOK' /\ UNCHANGED syncing /\ ClosesOnly(ids, "CANCELLED")
  BY <1>0, <1>1, CloseStep
<1>6. RegisterTypeOK' /\ RegisterInv' /\ UNCHANGED cashMoves
  BY <1>0, <1>1, RegistersSame DEF Tabled, registerVars
<1>7. UnitsWithin' /\ IsFiniteSet({i \in Sales : sales'[i] # NoRow})
  BY <1>0, <1>4, WithStatusKeeps
<1>8. FiniteRows'
  BY <1>0, <1>1, <1>6, <1>7, NoneAdded DEF FiniteRows
<1>9. \A x \in Documents, s \in Stores, v \in Variants :
        docLedger'[x][s][v] =
          IF x \in ids /\ s = sales[x].store
          THEN [docLedger[x][s][v] EXCEPT !.q = @ + sales[x].items[v]] ELSE docLedger[x][s][v]
  BY <1>1
<1>10. docLedger' \in [Documents -> [Stores -> [Variants -> Delta]]]
  <2>1. ASSUME NEW x \in Documents, NEW s \in Stores, NEW v \in Variants
        PROVE  (IF x \in ids /\ s = sales[x].store
                THEN [docLedger[x][s][v] EXCEPT !.q = @ + sales[x].items[v]] ELSE docLedger[x][s][v]) \in Delta
    <3>1. docLedger[x][s][v] \in Delta
      BY <1>0 DEF StockTypeOK
    <3>2. x \in ids => sales[x].items[v] \in Nat
      <4>1. x \in ids => sales[x].items \in [SaleLines -> Nat]
        BY <1>0, BillType DEF Live
      <4> QED
        BY <4>1, SaleLinesFinite
    <3> QED
      BY <3>1, <3>2 DEF Delta
  <2> QED
    BY <1>1, <2>1
<1>11. quantity' \in [Stores -> [Variants -> Nat]]
  <2>1. \A s \in Stores, v \in Variants : quantity[s][v] + BackAt(ids, s, v) \in Nat
    BY <1>0, <1>3 DEF StockTypeOK
  <2> QED
    BY <1>1, <2>1
<1>12. ledger' \in [Stores -> [Variants -> [rows : Nat, q : Int, d : Int]]]
  <2>1. ASSUME NEW s \in Stores, NEW v \in Variants
        PROVE  [ledger[s][v] EXCEPT !.rows = @ + Cardinality(voided(s, v)), !.q = @ + BackAt(ids, s, v)]
                 \in [rows : Nat, q : Int, d : Int]
    <3>1. ledger[s][v] \in [rows : Nat, q : Int, d : Int]
      BY <1>0 DEF StockTypeOK
    <3>2. ledger[s][v].rows + Cardinality(voided(s, v)) \in Nat /\ ledger[s][v].q + BackAt(ids, s, v) \in Int
      BY <1>3, <3>1
    <3> QED
      BY <3>1, <3>2
  <2> QED
    BY <1>2, <2>1
<1>13. StockTypeOK'
  BY <1>0, <1>1, <1>10, <1>11, <1>12 DEF StockTypeOK
<1>14. Evenly
  <2> SUFFICES ASSUME NEW s \in Stores, NEW v \in Variants
               PROVE  /\ quantity'[s][v] - ledger'[s][v].q = quantity[s][v] - ledger[s][v].q
                      /\ damaged'[s][v] - ledger'[s][v].d = damaged[s][v] - ledger[s][v].d
    BY DEF Evenly
  <2>1. quantity[s][v] \in Int /\ ledger[s][v] \in [rows : Nat, q : Int, d : Int] /\ damaged'[s][v] = damaged[s][v]
    BY <1>0, <1>1 DEF StockTypeOK
  <2>2. quantity'[s][v] = quantity[s][v] + BackAt(ids, s, v)
    BY <1>1
  <2>3. ledger'[s][v].q = ledger[s][v].q + BackAt(ids, s, v) /\ ledger'[s][v].d = ledger[s][v].d
    BY <1>2, <2>1
  <2> QED
    BY <1>3, <2>1, <2>2, <2>3
<1>15. Voided(ids)
  BY <1>1, <1>4, <1>5, <1>9, <1>14 DEF Voided
<1>16. CounterInv'
  BY <1>0, <1>1, <1>4, <1>5, <1>6, <1>7, <1>8, <1>13, TypedAgain DEF WithStatus, Tabled
<1> QED
  BY <1>15, <1>16

\* The returns of deleted bills are marked.
Marked(ids) ==
  /\ returns' \in [Returns -> ReturnRow \cup {NoRow}]
  /\ \A ret \in Returns :
       IF returns[ret] # NoRow /\ returns[ret].sale \in ids
       THEN returns'[ret] # NoRow /\ returns'[ret].deleted /\ returns'[ret].sale = returns[ret].sale
       ELSE returns'[ret] = returns[ret]

\* The returns of deleted bills go with them.
LEMMA DeleteReturnsStep ==
  ASSUME Tabled, FiniteRows, NEW ids, DeleteReturns(ids)
  PROVE  Marked(ids) /\ IsFiniteSet({i \in Returns : returns'[i] # NoRow})
<1>1. ASSUME NEW ret \in Returns, returns[ret] # NoRow
      PROVE  returns[ret] \in ReturnRow /\ [returns[ret] EXCEPT !.deleted = TRUE] \in ReturnRow
  <2>1. returns[ret] \in ReturnRow
    BY <1>1 DEF Tabled
  <2> QED
    BY <2>1 DEF ReturnRow
<1>2. returns' = [ret \in Returns |->
        IF returns[ret] # NoRow /\ returns[ret].sale \in ids
        THEN [returns[ret] EXCEPT !.deleted = TRUE] ELSE returns[ret]]
  BY DEF DeleteReturns
<1>3. returns' \in [Returns -> ReturnRow \cup {NoRow}]
  BY <1>1, <1>2 DEF Tabled
<1>4. ASSUME NEW ret \in Returns, returns[ret] # NoRow, returns[ret].sale \in ids
      PROVE  returns'[ret] # NoRow /\ returns'[ret].deleted /\ returns'[ret].sale = returns[ret].sale
  <2>1. returns'[ret] = [returns[ret] EXCEPT !.deleted = TRUE]
    BY <1>2, <1>4
  <2> QED
    BY <1>1, <1>4, <2>1, RowsApartFromNone DEF ReturnRow
<1>5. Marked(ids)
  BY <1>2, <1>3, <1>4 DEF Marked
<1>6. IsFiniteSet({i \in Returns : returns'[i] # NoRow})
  BY <1>2, NoneAdded
<1> QED
  BY <1>5, <1>6

\* deleteSaleInternal
DeletedOne(id) ==
  LET back == sales[id].status = "COMPLETED"
  IN /\ Live(id) /\ WithStatus({id}, "DELETED") /\ sales'[id].restored = back
     /\ Marked({id}) /\ ClosesOnly({id}, "DELETED")
     /\ UNCHANGED <<damaged, ledger, docLedger, syncing, registerVars>>
     /\ \A s \in Stores, v \in Variants :
          quantity'[s][v] = IF s = sales[id].store /\ back THEN quantity[s][v] + sales[id].items[v] ELSE quantity[s][v]

\* deleteSaleInternal marks the bill and its returns and, if it was completed, adds its
\* units to the balance.
LEMMA DeleteSaleStep ==
  ASSUME CounterInv, NEW id \in Sales, DeleteSale(id)
  PROVE  CounterInv' /\ DeletedOne(id)
<1>0. Tabled /\ RegisterInv /\ FiniteRows /\ UnitsWithin /\ StockTypeOK /\ CommissionTypeOK
  BY CounterParts DEF Tabled
<1> DEFINE back == sales[id].status = "COMPLETED"
           row == [sales[id] EXCEPT !.status = "DELETED", !.restored = back]
<1>1. /\ Live(id) /\ CloseRetailCommission({id}, "DELETED") /\ DeleteReturns({id})
      /\ sales' = [sales EXCEPT ![id].status = "DELETED", ![id].restored = back]
      /\ quantity' = [quantity EXCEPT ![sales[id].store] =
           [v \in Variants |-> IF back THEN quantity[sales[id].store][v] + sales[id].items[v]
                               ELSE quantity[sales[id].store][v]]]
      /\ UNCHANGED <<catalog, damaged, ledger, docLedger, stockLog, transfers, registerVars>>
  BY <1>0, BillType DEF DeleteSale, StockTypeOK, Live
<1>2. sales[id] # NoRow /\ sales[id] \in SaleRow /\ sales[id].items \in [SaleLines -> Nat] /\ sales[id].store \in Stores
  BY <1>0, <1>1, BillType DEF Live
<1>3. row \in SaleRow /\ back \in BOOLEAN
  BY <1>2 DEF SaleRow
<1>4. sales' = [sales EXCEPT ![id] = row]
  BY <1>0, <1>1, <1>2 DEF Tabled
<1>5. /\ row.status = "DELETED" /\ row.restored = back /\ row.store = sales[id].store
      /\ row.session = sales[id].session /\ row.items = sales[id].items /\ row.price = sales[id].price
      /\ row.returned = sales[id].returned /\ row.cash = sales[id].cash /\ row.other = sales[id].other
      /\ row # NoRow
  BY <1>2, <1>3, RowsApartFromNone DEF SaleRow
<1> HIDE DEF row
<1>6. /\ sales' \in [Sales -> SaleRow \cup {NoRow}] /\ sales'[id] = row
      /\ \A i \in Sales : i # id => sales'[i] = sales[i]
  BY <1>0, <1>3, <1>4 DEF Tabled
<1>7. WithStatus({id}, "DELETED") /\ sales'[id].restored = back
  BY <1>2, <1>3, <1>5, <1>6 DEF WithStatus
<1>8. UnitsWithin' /\ IsFiniteSet({i \in Sales : sales'[i] # NoRow})
  BY <1>0, <1>7, WithStatusKeeps
<1>9. Marked({id}) /\ IsFiniteSet({i \in Returns : returns'[i] # NoRow})
  BY <1>0, <1>1, DeleteReturnsStep
<1>10. CommissionTypeOK' /\ UNCHANGED syncing /\ ClosesOnly({id}, "DELETED")
  BY <1>0, <1>1, CloseStep
<1>11. RegisterTypeOK' /\ RegisterInv' /\ UNCHANGED cashMoves
  BY <1>0, <1>1, RegistersSame DEF Tabled, registerVars
<1>12. FiniteRows'
  BY <1>0, <1>8, <1>9, <1>11, NoneAdded DEF FiniteRows
<1>13. quantity' \in [Stores -> [Variants -> Nat]]
  <2>1. \A v \in Variants : sales[id].items[v] \in Nat
    BY <1>2, SaleLinesFinite
  <2>2. [v \in Variants |-> IF back THEN quantity[sales[id].store][v] + sales[id].items[v]
                            ELSE quantity[sales[id].store][v]] \in [Variants -> Nat]
    BY <1>0, <1>2, <2>1 DEF StockTypeOK
  <2> QED
    BY <1>0, <1>1, <2>2 DEF StockTypeOK
<1>14. \A s \in Stores, v \in Variants :
         quantity'[s][v] = IF s = sales[id].store /\ back THEN quantity[s][v] + sales[id].items[v] ELSE quantity[s][v]
  BY <1>0, <1>1, <1>2 DEF StockTypeOK
<1>15. StockTypeOK'
  BY <1>0, <1>1, <1>13 DEF StockTypeOK
<1>16. DeletedOne(id)
  BY <1>1, <1>7, <1>9, <1>10, <1>14 DEF DeletedOne
<1>17. CounterInv'
  BY <1>6, <1>8, <1>9, <1>10, <1>11, <1>12, <1>15, TypedAgain DEF Marked
<1> QED
  BY <1>16, <1>17

\* dataManagementClear(DELETE)
Cleared(ids) ==
  /\ WithStatus(ids, "DELETED") /\ Marked(ids)
  /\ \A id \in Sales : sales[id] # NoRow => sales'[id].restored = sales[id].restored
  /\ UNCHANGED <<stockVars, registerVars, commissionVars>>

\* dataManagementClear(DELETE) marks bills and returns and moves no stock.
LEMMA ClearDeleteStep ==
  ASSUME CounterInv, NEW stores, NEW status, ClearDelete(stores, status)
  PROVE  CounterInv' /\ \E ids \in SUBSET Sales : (\A id \in ids : Live(id)) /\ Cleared(ids)
<1>0. Tabled /\ RegisterInv /\ FiniteRows /\ UnitsWithin /\ StockTypeOK /\ CommissionTypeOK
  BY CounterParts DEF Tabled
<1> DEFINE ids == Scope(stores, status)
<1>1. /\ sales' = [id \in Sales |-> IF id \in ids THEN [sales[id] EXCEPT !.status = "DELETED"] ELSE sales[id]]
      /\ DeleteReturns(ids)
      /\ UNCHANGED <<stockVars, registerVars, commissionVars>>
  BY DEF ClearDelete
<1>2. ids \in SUBSET Sales /\ \A id \in ids : Live(id)
  BY DEF Scope
<1> HIDE DEF ids
<1>3. WithStatus(ids, "DELETED") /\ \A id \in Sales : sales[id] # NoRow => sales'[id].restored = sales[id].restored
  BY <1>0, <1>1, <1>2, StatusWritten
<1>4. Marked(ids) /\ IsFiniteSet({i \in Returns : returns'[i] # NoRow})
  BY <1>0, <1>1, DeleteReturnsStep
<1>5. UnitsWithin' /\ IsFiniteSet({i \in Sales : sales'[i] # NoRow})
  BY <1>0, <1>2, <1>3, WithStatusKeeps
<1>6. RegisterTypeOK' /\ RegisterInv' /\ UNCHANGED cashMoves
  BY <1>0, <1>1, RegistersSame DEF Tabled, registerVars
<1>7. FiniteRows'
  BY <1>0, <1>4, <1>5, <1>6, NoneAdded DEF FiniteRows
<1>8. CommissionTypeOK' /\ StockTypeOK'
  BY <1>0, <1>1, CommissionsSame DEF StockTypeOK, stockVars
<1>9. CounterInv'
  BY <1>3, <1>4, <1>5, <1>6, <1>7, <1>8, TypedAgain DEF Marked, WithStatus
<1>10. Cleared(ids)
  BY <1>1, <1>3, <1>4 DEF Cleared
<1> QED
  BY <1>2, <1>9, <1>10

\* Bills and returns of which only the reconciliation changes.
SameBills ==
  \A id \in Sales :
    /\ sales[id] = NoRow <=> sales'[id] = NoRow
    /\ sales[id] # NoRow =>
         /\ sales'[id].status = sales[id].status /\ sales'[id].restored = sales[id].restored
         /\ sales'[id].store = sales[id].store /\ sales'[id].session = sales[id].session
         /\ sales'[id].items = sales[id].items /\ sales'[id].price = sales[id].price
         /\ sales'[id].returned = sales[id].returned
         /\ sales'[id].cash = sales[id].cash /\ sales'[id].other = sales[id].other

SameReturns ==
  \A ret \in Returns :
    /\ returns[ret] = NoRow <=> returns'[ret] = NoRow
    /\ returns[ret] # NoRow =>
         /\ returns'[ret].sale = returns[ret].sale /\ returns'[ret].session = returns[ret].session
         /\ returns'[ret].cash = returns[ret].cash /\ returns'[ret].amount = returns[ret].amount
         /\ returns'[ret].quantity = returns[ret].quantity /\ returns'[ret].deleted = returns[ret].deleted

\* A step that leaves the stock keeps its types and moves nothing.
LEMMA StocksSame == ASSUME StockTypeOK, UNCHANGED stockVars PROVE StockTypeOK' /\ Evenly
BY DEF StockTypeOK, stockVars, Evenly

\* reconcilePayment of a payment changes nothing a bill is judged by.
LEMMA ReconcilePaymentStep ==
  ASSUME CounterInv, NEW id \in Sales, NEW method \in {"CASH", "OTHER"}, NEW reconciled,
         ReconcilePayment(id, method, reconciled)
  PROVE  CounterInv' /\ SameBills /\ UNCHANGED <<stockVars, registerVars, commissionVars, returns>>
<1>0. Tabled /\ RegisterInv /\ FiniteRows /\ UnitsWithin /\ StockTypeOK /\ CommissionTypeOK
  BY CounterParts DEF Tabled
<1>1. sales[id] # NoRow /\ sales[id] \in SaleRow /\ UNCHANGED <<stockVars, registerVars, commissionVars, returns>>
  BY <1>0, BillType DEF ReconcilePayment, Live
<1>2. PICK marks \in SUBSET {"CASH", "OTHER"} : sales' = [sales EXCEPT ![id] = [sales[id] EXCEPT !.reconciled = marks]]
  <2> DEFINE marks == IF reconciled THEN sales[id].reconciled \cup {method} ELSE sales[id].reconciled \ {method}
  <2>1. marks \in SUBSET {"CASH", "OTHER"}
    BY <1>1 DEF SaleRow
  <2>2. sales' = [sales EXCEPT ![id] = [sales[id] EXCEPT !.reconciled = marks]]
    BY <1>0, <1>1 DEF ReconcilePayment, Tabled
  <2> QED
    BY <2>1, <2>2
<1> DEFINE row == [sales[id] EXCEPT !.reconciled = marks]
<1>3. row \in SaleRow
  BY <1>1 DEF SaleRow
<1>4. /\ row.status = sales[id].status /\ row.restored = sales[id].restored
      /\ row.store = sales[id].store /\ row.session = sales[id].session
      /\ row.items = sales[id].items /\ row.price = sales[id].price
      /\ row.returned = sales[id].returned /\ row.cash = sales[id].cash /\ row.other = sales[id].other
  BY <1>1 DEF SaleRow
<1>5. row # NoRow /\ \A l \in SaleLines : row.returned[l] <= row.items[l]
  BY <1>0, <1>1, <1>3, <1>4, RowsApartFromNone DEF UnitsWithin
<1> HIDE DEF row
<1>6. sales' = [sales EXCEPT ![id] = row]
  BY <1>2 DEF row
<1>7. Billed(id, row) /\ UnitsWithin' /\ IsFiniteSet({i \in Sales : sales'[i] # NoRow})
  BY <1>0, <1>3, <1>5, <1>6, BillWritten
<1>8. SameBills
  BY <1>1, <1>4, <1>5, <1>7 DEF SameBills, Billed
<1>9. RegisterTypeOK' /\ RegisterInv' /\ UNCHANGED cashMoves
  BY <1>0, <1>1, RegistersSame DEF Tabled, registerVars
<1>10. FiniteRows'
  BY <1>0, <1>1, <1>7, <1>9, NoneAdded DEF FiniteRows
<1>11. CommissionTypeOK' /\ StockTypeOK'
  BY <1>0, <1>1, CommissionsSame, StocksSame
<1>12. CounterInv'
  BY <1>0, <1>1, <1>7, <1>9, <1>10, <1>11, TypedAgain DEF Billed, Tabled
<1> QED
  BY <1>1, <1>8, <1>12

\* reconcilePayment of a refund changes nothing a return is judged by.
LEMMA ReconcileRefundStep ==
  ASSUME CounterInv, NEW ret \in Returns, NEW reconciled \in BOOLEAN, ReconcileRefund(ret, reconciled)
  PROVE  CounterInv' /\ SameReturns /\ UNCHANGED <<stockVars, registerVars, commissionVars, sales>>
<1>0. Tabled /\ RegisterInv /\ FiniteRows /\ UnitsWithin /\ StockTypeOK /\ CommissionTypeOK
  BY CounterParts DEF Tabled
<1> DEFINE row == [returns[ret] EXCEPT !.reconciled = reconciled]
<1>1. returns[ret] # NoRow /\ returns[ret] \in ReturnRow /\ UNCHANGED <<stockVars, registerVars, commissionVars, sales>>
  BY <1>0 DEF ReconcileRefund, Tabled
<1>2. returns' = [returns EXCEPT ![ret] = row]
  BY <1>0, <1>1 DEF ReconcileRefund, Tabled
<1>3. row \in ReturnRow
  BY <1>1 DEF ReturnRow
<1>4. /\ row.sale = returns[ret].sale /\ row.session = returns[ret].session
      /\ row.cash = returns[ret].cash /\ row.amount = returns[ret].amount
      /\ row.quantity = returns[ret].quantity /\ row.deleted = returns[ret].deleted
  BY <1>1 DEF ReturnRow
<1> HIDE DEF row
<1>5. Returned(ret, row) /\ IsFiniteSet({i \in Returns : returns'[i] # NoRow})
  BY <1>0, <1>2, <1>3, ReturnWritten
<1>6. SameReturns
  BY <1>1, <1>3, <1>4, <1>5, RowsApartFromNone DEF SameReturns, Returned
<1>7. RegisterTypeOK' /\ RegisterInv' /\ UNCHANGED cashMoves
  BY <1>0, <1>1, RegistersSame DEF Tabled, registerVars
<1>8. FiniteRows' /\ UnitsWithin'
  BY <1>0, <1>1, <1>5, <1>7, NoneAdded DEF FiniteRows, UnitsWithin
<1>9. CommissionTypeOK' /\ StockTypeOK'
  BY <1>0, <1>1, CommissionsSame, StocksSame
<1>10. CounterInv'
  BY <1>0, <1>1, <1>5, <1>7, <1>8, <1>9, TypedAgain DEF Returned, Tabled
<1> QED
  BY <1>1, <1>6, <1>10

\* A step of the registers: sessions opened, one closed, money moved.
RegisterMoved ==
  \/ \E x \in Sessions, n \in Nat : Opened(x, n)
  \/ \E k \in CashKeys, x \in Sessions, n \in Int :
       /\ UNCHANGED <<registers, sessions>> /\ cashMoves[k] = NoRow /\ IsOpen(x)
       /\ n < 0 => Drawer(x, Receipts(x)) >= -n
       /\ cashMoves'[k] = [session |-> x, amount |-> n] /\ cashMoves'[k] # NoRow
       /\ \A j \in CashKeys : j # k => cashMoves'[j] = cashMoves[j]
  \/ \E x \in Sessions :
       /\ UNCHANGED <<registers, cashMoves>> /\ IsOpen(x)
       /\ sessions'[x] # NoRow /\ sessions'[x].opening = sessions[x].opening
       /\ \A y \in Sessions : y # x => sessions'[y] = sessions[y]

\* The handlers of registers and drawers, as steps of the counter.
LEMMA RegisterStepStep ==
  ASSUME CounterInv, RegisterStep
  PROVE  CounterInv' /\ RegisterMoved /\ UNCHANGED <<stockVars, commissionVars, sales, returns>>
<1>0. Tabled /\ RegisterInv /\ FiniteRows /\ UnitsWithin /\ StockTypeOK /\ CommissionTypeOK /\ RegisterTypeOK
  BY CounterParts DEF Tabled
<1>1. UNCHANGED <<stockVars, commissionVars, sales, returns>>
  BY DEF RegisterStep
<1>2. CommissionTypeOK' /\ StockTypeOK' /\ UnitsWithin'
  BY <1>0, <1>1, CommissionsSame, StocksSame DEF UnitsWithin
<1>3. RegisterTypeOK' /\ RegisterInv' /\ IsFiniteSet({k \in CashKeys : cashMoves'[k] # NoRow}) => CounterInv'
  <2> SUFFICES ASSUME RegisterTypeOK', RegisterInv', IsFiniteSet({k \in CashKeys : cashMoves'[k] # NoRow})
               PROVE  CounterInv'
    OBVIOUS
  <2>1. FiniteRows'
    BY <1>0, <1>1, NoneAdded DEF FiniteRows
  <2> QED
    BY <1>0, <1>1, <1>2, <2>1, TypedAgain DEF Tabled
<1>4. ASSUME NEW x \in Sessions, NEW n \in 0..MaxCash, Opened(x, n)
      PROVE  CounterInv' /\ RegisterMoved
  <2>1. IsFiniteSet({k \in CashKeys : cashMoves'[k] # NoRow}) /\ n \in Nat
    BY <1>0, <1>4, NoneAdded, RequestTypes DEF Opened
  <2> QED
    BY <1>3, <1>4, <2>1 DEF Opened, RegisterMoved
<1>5. ASSUME NEW a \in Actors, NEW r \in Registers, NEW cashier \in Cashiers, NEW x \in Sessions, NEW n \in 0..MaxCash,
             OpenRegister(a, r, cashier, x, n)
      PROVE  CounterInv' /\ RegisterMoved
  <2>1. Opened(x, n)
    BY <1>0, <1>5, OpenRegisterOpens
  <2> QED
    BY <1>4, <2>1
<1>6. ASSUME NEW a \in Actors, NEW store \in Stores, NEW preferred \in Registers \cup {NoRow}, NEW cashier \in Cashiers,
             NEW r \in Registers, NEW x \in Sessions, NEW n \in 0..MaxCash,
             OpenRegisterSession(a, store, preferred, cashier, r, x, n)
      PROVE  CounterInv' /\ RegisterMoved
  <2>1. Opened(x, n)
    BY <1>0, <1>6, OpenRegisterSessionOpens
  <2> QED
    BY <1>4, <2>1
<1>7. ASSUME NEW k \in CashKeys, NEW x \in Sessions, NEW n \in -MaxCash..MaxCash, CashMovement(k, x, n, Receipts(x))
      PROVE  CounterInv' /\ RegisterMoved
  <2> DEFINE money == Receipts(x)
  <2>0. CashMovement(k, x, n, money) /\ n \in Int
    BY <1>7, RegisterAssumption
  <2> HIDE DEF money
  <2>1. /\ RegisterTypeOK' /\ RegisterInv' /\ UNCHANGED <<registers, sessions>>
        /\ cashMoves[k] = NoRow /\ IsOpen(x) /\ (n < 0 => Drawer(x, money) >= -n)
        /\ cashMoves'[k] = [session |-> x, amount |-> n] /\ cashMoves'[k] # NoRow
        /\ \A j \in CashKeys : j # k => cashMoves'[j] = cashMoves[j]
    BY <1>0, <2>0, CashMovementStep
  <2>2. {j \in CashKeys : cashMoves'[j] # NoRow} \subseteq {j \in CashKeys : cashMoves[j] # NoRow} \cup {k}
    BY <2>1
  <2>3. IsFiniteSet({j \in CashKeys : cashMoves[j] # NoRow})
    BY <1>0 DEF FiniteRows
  <2>4. IsFiniteSet({j \in CashKeys : cashMoves'[j] # NoRow})
    BY <2>2, <2>3, FS_AddElement, FS_Subset
  <2>5. RegisterMoved
    BY <2>0, <2>1 DEF RegisterMoved, money
  <2> QED
    BY <1>3, <2>1, <2>4, <2>5
<1>8. ASSUME NEW x \in Sessions, sessions[x] # NoRow, CloseSession(x, Receipts(x))
      PROVE  CounterInv' /\ RegisterMoved
  <2>1. Drawer(x, Receipts(x)) \in Int
    BY <1>8, DrawerTypes
  <2>2. /\ RegisterTypeOK' /\ RegisterInv' /\ UNCHANGED <<registers, cashMoves>>
        /\ IsOpen(x) /\ sessions'[x] # NoRow /\ sessions'[x].opening = sessions[x].opening
        /\ \A y \in Sessions : y # x => sessions'[y] = sessions[y]
    BY <1>0, <1>8, <2>1, CloseSessionStep
  <2>3. IsFiniteSet({k \in CashKeys : cashMoves'[k] # NoRow})
    BY <1>0, <2>2, NoneAdded
  <2> QED
    BY <1>3, <2>2, <2>3 DEF RegisterMoved
<1> QED
  BY <1>1, <1>5, <1>6, <1>7, <1>8 DEF RegisterStep

\* What a synchronisation reads of a bill, and what it writes.
ReadBill(j, id) ==
  /\ Live(id) /\ UNCHANGED commissions
  /\ syncing'[j] # NoRow /\ syncing'[j].sale = id
  /\ \A v \in Variants : syncing'[j].items[v] = sales[id].items[v]
  /\ \A i \in SyncJobs : i # j => syncing'[i] = syncing[i]

WroteBill(j) ==
  /\ syncing[j] # NoRow /\ syncing'[j] = NoRow
  /\ AccruedFor(commissions[syncing[j].sale], commissions'[syncing[j].sale], syncing[j].items)
  /\ \A i \in Sales : i # syncing[j].sale => commissions'[i] = commissions[i]
  /\ \A i \in SyncJobs : i # j => syncing'[i] = syncing[i]

CommissionMoved ==
  \/ UNCHANGED <<commissions, syncing>>
  \/ \E j \in SyncJobs, id \in Sales : ReadBill(j, id)
  \/ \E j \in SyncJobs : WroteBill(j)

\* A synchronisation takes a bill as it is.
LEMMA SyncReadStep ==
  ASSUME Tabled, NEW j \in SyncJobs, NEW id \in Sales, Live(id),
         SyncRead(j, id, sales[id].store, [v \in Variants |-> sales[id].items[v]],
                  [v \in Variants |-> sales[id].price[v].net])
  PROVE  CommissionTypeOK' /\ ReadBill(j, id)
<1> DEFINE items == [v \in Variants |-> sales[id].items[v]]
           net == [v \in Variants |-> sales[id].price[v].net]
           row == [sale |-> id, items |-> items, amounts |-> LineCommission(items, net)]
<1>1. sales[id].items \in [SaleLines -> Nat] /\ sales[id].price \in [SaleLines -> [net : Nat, tax : Nat]]
  BY BillType DEF Live
<1>2. items \in [Variants -> Nat] /\ net \in [Variants -> Nat]
  BY <1>1, SaleLinesFinite
<1>3. /\ rate \in Nat /\ syncing \in [SyncJobs -> SyncRow \cup {NoRow}] /\ CommissionTypeOK
  BY DEF Tabled, CommissionTypeOK
<1>4. syncing' = [syncing EXCEPT ![j] = row] /\ UNCHANGED <<enabledStores, rate, commissions, adjustments>>
  BY DEF SyncRead
<1>5. row.sale = id /\ row.items = items /\ \A v \in Variants : items[v] = sales[id].items[v]
  OBVIOUS
<1> HIDE DEF items, net
<1>6. LineCommission(items, net) \in [Variants -> Nat]
  BY <1>2, <1>3, LineCommissionType
<1>7. row \in SyncRow
  BY <1>2, <1>6 DEF SyncRow
<1>8. row # NoRow
  BY <1>7, CommissionRowAssumption
<1> HIDE DEF row
<1>9. syncing' \in [SyncJobs -> SyncRow \cup {NoRow}] /\ syncing'[j] = row
      /\ \A i \in SyncJobs : i # j => syncing'[i] = syncing[i]
  BY <1>3, <1>4, <1>7
<1>10. CommissionTypeOK'
  BY <1>3, <1>4, <1>9 DEF CommissionTypeOK
<1> QED
  BY <1>4, <1>5, <1>8, <1>9, <1>10 DEF ReadBill

\* A synchronisation accrues for the bill it read.
LEMMA SyncWriteStep ==
  ASSUME Tabled, NEW j \in SyncJobs, SyncWrite(j)
  PROVE  CommissionTypeOK' /\ WroteBill(j) /\ syncing[j] \in SyncRow
<1>1. /\ syncing \in [SyncJobs -> SyncRow \cup {NoRow}] /\ CommissionTypeOK
      /\ commissions \in [Sales -> [Variants -> MaybeRow]]
  BY DEF Tabled, CommissionTypeOK, MaybeRow
<1>2. syncing[j] # NoRow /\ syncing[j] \in SyncRow
  BY <1>1 DEF SyncWrite
<1> DEFINE id == syncing[j].sale
           items == syncing[j].items
           amounts == syncing[j].amounts
           new == Accrued(commissions[id], items, amounts)
<1>3. id \in Sales /\ items \in [Variants -> Nat] /\ amounts \in [Variants -> Nat]
  BY <1>2 DEF SyncRow
<1>4. /\ commissions' = [commissions EXCEPT ![id] = new]
      /\ syncing' = [syncing EXCEPT ![j] = NoRow] /\ UNCHANGED <<enabledStores, rate, adjustments>>
  BY <1>1, <1>3 DEF SyncWrite
<1> HIDE DEF id, items, amounts
<1>5. commissions[id] \in [Variants -> MaybeRow] /\ \A v \in Variants : items[v] \in Nat
  BY <1>1, <1>3
<1>6. new \in [Variants -> MaybeRow] /\ AccruedFor(commissions[id], new, items)
  BY <1>3, <1>5, AccruedRows
<1> HIDE DEF new
<1>7. commissions' \in [Sales -> [Variants -> MaybeRow]] /\ commissions'[id] = new
      /\ \A i \in Sales : i # id => commissions'[i] = commissions[i]
  BY <1>1, <1>3, <1>4, <1>6
<1>8. syncing' \in [SyncJobs -> SyncRow \cup {NoRow}] /\ syncing'[j] = NoRow
      /\ \A i \in SyncJobs : i # j => syncing'[i] = syncing[i]
  BY <1>1, <1>4
<1>9. CommissionTypeOK'
  BY <1>1, <1>4, <1>7, <1>8 DEF CommissionTypeOK, MaybeRow
<1> QED
  BY <1>2, <1>6, <1>7, <1>8, <1>9 DEF WroteBill, id, items

\* Configuration, review and synchronisation of commission, as steps of the counter.
LEMMA CommissionStepStep ==
  ASSUME CounterInv, CommissionStep
  PROVE  CounterInv' /\ CommissionMoved /\ UNCHANGED <<stockVars, registerVars, sales, returns>>
<1>0. Tabled /\ RegisterInv /\ FiniteRows /\ UnitsWithin /\ StockTypeOK /\ CommissionTypeOK /\ RegisterTypeOK
  BY CounterParts DEF Tabled
<1>1. UNCHANGED <<stockVars, registerVars, sales, returns>>
  BY DEF CommissionStep
<1>2. RegisterTypeOK' /\ RegisterInv' /\ StockTypeOK' /\ UnitsWithin' /\ UNCHANGED cashMoves
  BY <1>0, <1>1, RegistersSame, StocksSame DEF UnitsWithin, registerVars
<1>3. FiniteRows'
  BY <1>0, <1>1, <1>2, NoneAdded DEF FiniteRows
<1>4. CommissionTypeOK' => CounterInv'
  BY <1>0, <1>1, <1>2, <1>3, TypedAgain DEF Tabled
<1>5. ASSUME NEW store \in CommissionStores, ConfigureCommission(store) PROVE CounterInv' /\ CommissionMoved
  <2>1. enabledStores' \subseteq Stores
    BY <1>0, <1>5, CommissionAssumption DEF ConfigureCommission, CommissionTypeOK
  <2>2. CommissionTypeOK'
    BY <1>0, <1>5, <2>1 DEF ConfigureCommission, CommissionTypeOK
  <2> QED
    BY <1>4, <1>5, <2>2 DEF CommissionMoved, ConfigureCommission
<1>6. ASSUME NEW r \in Rates, ConfigureRate(r) PROVE CounterInv' /\ CommissionMoved
  <2>1. CommissionTypeOK'
    BY <1>0, <1>6, CommissionAssumption DEF ConfigureRate, CommissionTypeOK
  <2> QED
    BY <1>4, <1>6, <2>1 DEF CommissionMoved, ConfigureRate
<1>7. ASSUME NEW a \in adjustments, NEW decision \in Decisions, ReviewAdjustment(a, decision)
      PROVE  CounterInv' /\ CommissionMoved
  <2>1. a \in Adjustment
    BY <1>0 DEF CommissionTypeOK
  <2>2. [a EXCEPT !.status = decision] \in Adjustment
    BY <2>1 DEF Adjustment, Decisions
  <2>3. adjustments' \subseteq Adjustment
    BY <1>0, <1>7, <2>2 DEF ReviewAdjustment, CommissionTypeOK
  <2>4. CommissionTypeOK'
    BY <1>0, <1>7, <2>3 DEF ReviewAdjustment, CommissionTypeOK
  <2> QED
    BY <1>4, <1>7, <2>4 DEF CommissionMoved, ReviewAdjustment
<1>8. ASSUME NEW j \in SyncJobs, NEW id \in Sales, Live(id),
             SyncRead(j, id, sales[id].store, [v \in Variants |-> sales[id].items[v]],
                      [v \in Variants |-> sales[id].price[v].net])
      PROVE  CounterInv' /\ CommissionMoved
  BY <1>0, <1>4, <1>8, SyncReadStep DEF CommissionMoved
<1>9. ASSUME NEW j \in SyncJobs, SyncWrite(j) PROVE CounterInv' /\ CommissionMoved
  BY <1>0, <1>4, <1>9, SyncWriteStep DEF CommissionMoved
<1> QED
  BY <1>1, <1>5, <1>6, <1>7, <1>8, <1>9 DEF CommissionStep

\* The stock handlers move no document of a bill or a return.
LEMMA StockStepStep ==
  ASSUME CounterInv, StockStep
  PROVE  /\ CounterInv' /\ UNCHANGED <<registerVars, commissionVars, sales, returns>>
         /\ Evenly /\ \A x \in Sales \cup Returns : docLedger'[x] = docLedger[x]
<1>0. Tabled /\ RegisterInv /\ FiniteRows /\ UnitsWithin /\ StockTypeOK /\ CommissionTypeOK /\ RegisterTypeOK
  BY CounterParts DEF Tabled
<1>1. UNCHANGED <<registerVars, commissionVars, sales, returns>> /\ StockNext
  BY DEF StockStep
<1>2. StockTypeOK' /\ Evenly /\ \A x \in Sales \cup Returns : docLedger'[x] = docLedger[x]
  BY <1>0, <1>1, StockStepAside
<1>3. RegisterTypeOK' /\ RegisterInv' /\ CommissionTypeOK' /\ UnitsWithin' /\ UNCHANGED cashMoves
  BY <1>0, <1>1, RegistersSame, CommissionsSame DEF UnitsWithin, registerVars
<1>4. FiniteRows'
  BY <1>0, <1>1, <1>3, NoneAdded DEF FiniteRows
<1> QED
  BY <1>0, <1>1, <1>2, <1>3, <1>4, TypedAgain DEF Tabled

\* The counter opens with its tables empty.
LEMMA CounterInitially == Init => CounterInv
<1> SUFFICES ASSUME Init PROVE CounterInv
  OBVIOUS
<1>1. StockTypeOK
  BY DEF Init, StockInit, StockTypeOK, NoDelta, Delta
<1>2. RegisterTypeOK /\ RegisterInv
  BY RegisterInitEstablishes DEF Init, RegisterInit, RegisterTypeOK
<1>3. CommissionTypeOK
  BY DEF Init, CommissionInit, CommissionTypeOK
<1>4. /\ {id \in Sales : sales[id] # NoRow} = {} /\ {ret \in Returns : returns[ret] # NoRow} = {}
      /\ {k \in CashKeys : cashMoves[k] # NoRow} = {}
  BY DEF Init, RegisterInit
<1>5. FiniteRows
  BY <1>4, FS_EmptySet DEF FiniteRows
<1>6. UnitsWithin
  BY DEF Init, UnitsWithin
<1> QED
  BY <1>1, <1>2, <1>3, <1>5, <1>6 DEF CounterInv, SalesTypeOK, Init

-----------------------------------------------------------------------------
(* What any step of the counter leaves, handler by handler.                 *)

BillMade(id, store, x, items, price, cash, draft) ==
  /\ sales[id] = NoRow /\ Billed(id, NewBill(store, x, items, price, cash, draft))
  /\ UNCHANGED <<returns, syncing>>
  /\ AccruedFor(commissions[id], commissions'[id], items)
  /\ \A i \in Sales : i # id => commissions'[i] = commissions[i]
  /\ Opened(x, 0) \/ (IsOpen(x) /\ UNCHANGED registerVars)
  /\ Evenly /\ OnlyUnder(id)
  /\ items \in [SaleLines -> Nat] /\ price \in [SaleLines -> [net : Nat, tax : Nat]]
  /\ Carries(id, store, [v \in Variants |-> -items[v]])
  /\ \A l \in SaleLines : items[l] = 0 => price[l].net = 0 /\ price[l].tax = 0

UnitsReturned(ret, id, x, returning, cash) ==
  /\ returning \in [SaleLines -> Nat]
  /\ TakenBack(ret, id, x, returning, cash,
       IF NowBack(sales[id], returning) = sales[id].items THEN "RETURNED" ELSE "PARTIALLY_RETURNED")
  /\ UNCHANGED syncing
  /\ ReversesOnly(id, returning, NowBack(sales[id], returning))
  /\ Evenly /\ OnlyUnder(ret)

Refunds(ret, id, x, cash) ==
  /\ sales[id].items \in [SaleLines -> Nat]
  /\ sales[id].returned = [l \in SaleLines |-> 0]
  /\ TakenBack(ret, id, x, sales[id].items, cash, "CANCELLED")
  /\ UNCHANGED syncing
  /\ ClosesOnly({id}, "CANCELLED")
  /\ Evenly /\ OnlyUnder(ret)

Reconciled ==
  \/ SameBills /\ UNCHANGED <<stockVars, registerVars, commissionVars, returns>>
  \/ SameReturns /\ UNCHANGED <<stockVars, registerVars, commissionVars, sales>>

StockMoved ==
  /\ UNCHANGED <<registerVars, commissionVars, sales, returns>>
  /\ Evenly /\ \A x \in Sales \cup Returns : docLedger'[x] = docLedger[x]

Effects ==
  \/ \E id \in Sales, store \in Stores, x \in Sessions, items \in Items, price \in Prices,
        cash \in 0..MaxCash, draft \in DraftKinds : BillMade(id, store, x, items, price, cash, draft)
  \/ \E ret \in Returns, id \in Sales, x \in Sessions, returning \in Items, cash \in BOOLEAN :
       UnitsReturned(ret, id, x, returning, cash)
  \/ \E ret \in Returns, id \in Sales, x \in Sessions, cash \in BOOLEAN : Refunds(ret, id, x, cash)
  \/ \E ids \in SUBSET Sales : Voided(ids)
  \/ \E id \in Sales : DeletedOne(id)
  \/ \E ids \in SUBSET Sales : (\A id \in ids : Live(id)) /\ Cleared(ids)
  \/ Reconciled
  \/ RegisterMoved /\ UNCHANGED <<stockVars, commissionVars, sales, returns>>
  \/ CommissionMoved /\ UNCHANGED <<stockVars, registerVars, sales, returns>>
  \/ StockMoved
  \/ UNCHANGED vars

\* checkout, as a step of the counter.
LEMMA CheckoutNextStep == ASSUME CounterInv, CheckoutNext PROVE CounterInv' /\ Effects
<1>1. PICK id \in Sales, a \in Actors, store \in Stores, x \in Sessions, items \in Items, price \in Prices,
           cash \in 0..MaxCash, draft \in DraftKinds : Checkout(id, a, store, x, items, price, cash, draft)
  BY DEF CheckoutNext
<1>2. CounterInv' /\ BillMade(id, store, x, items, price, cash, draft)
  BY <1>1, CheckoutStep DEF BillMade
<1> QED
  BY <1>2 DEF Effects

\* returnSale and cancelSale with a refund, as steps of the counter.
LEMMA ReturnNextStep == ASSUME CounterInv, ReturnNext PROVE CounterInv' /\ Effects
<1>1. ASSUME NEW ret \in Returns, NEW id \in Sales, NEW a \in Actors, NEW x \in Sessions, NEW cash \in BOOLEAN,
             NEW returning \in Items, NEW resellable \in SUBSET Variants,
             ReturnSale(ret, id, a, x, returning, resellable, cash)
      PROVE  CounterInv' /\ Effects
  <2>1. CounterInv' /\ UnitsReturned(ret, id, x, returning, cash)
    BY <1>1, ReturnSaleStep DEF UnitsReturned
  <2> QED
    BY <2>1 DEF Effects
<1>2. ASSUME NEW ret \in Returns, NEW id \in Sales, NEW a \in Actors, NEW x \in Sessions, NEW cash \in BOOLEAN,
             CancelWithRefund(ret, id, a, x, cash)
      PROVE  CounterInv' /\ Effects
  <2>0. /\ CounterInv' /\ sales[id].items \in [SaleLines -> Nat]
        /\ sales[id].returned = [l \in SaleLines |-> 0]
        /\ TakenBack(ret, id, x, sales[id].items, cash, "CANCELLED")
        /\ UNCHANGED syncing
        /\ ClosesOnly({id}, "CANCELLED")
        /\ Evenly /\ OnlyUnder(ret)
    BY <1>2, CancelWithRefundStep
  <2>1. CounterInv' /\ Refunds(ret, id, x, cash)
    BY <2>0 DEF Refunds
  <2> QED
    BY <2>1 DEF Effects
<1> QED
  BY <1>1, <1>2 DEF ReturnNext

\* Voids, deletions, clearing and reconciliation, as steps of the counter.
LEMMA AdminNextStep == ASSUME CounterInv, AdminNext PROVE CounterInv' /\ Effects
<1>1. ASSUME NEW ids \in SUBSET Sales, \A id \in ids : Live(id), VoidSales(ids)
      PROVE  CounterInv' /\ Effects
  BY <1>1, VoidSalesStep DEF Effects
<1>2. ASSUME NEW id \in Sales, VoidSale(id) PROVE CounterInv' /\ Effects
  <2>1. {id} \in SUBSET Sales /\ \A i \in {id} : Live(i)
    BY <1>2 DEF VoidSale
  <2>2. VoidSales({id})
    BY <1>2 DEF VoidSale
  <2> QED
    BY <1>1, <2>1, <2>2
<1>3. ASSUME NEW id \in Sales, DeleteSale(id) PROVE CounterInv' /\ Effects
  BY <1>3, DeleteSaleStep DEF Effects
<1>4. ASSUME NEW stores, NEW status, ClearCancel(stores, status) PROVE CounterInv' /\ Effects
  <2> DEFINE ids == {id \in Scope(stores, status) : sales[id].status = "COMPLETED"}
  <2>1. ids \in SUBSET Sales /\ (\A id \in ids : Live(id)) /\ VoidSales(ids)
    BY <1>4 DEF ClearCancel, Scope
  <2> HIDE DEF ids
  <2> QED
    BY <1>1, <2>1
<1>5. ASSUME NEW stores, NEW status, ClearDelete(stores, status) PROVE CounterInv' /\ Effects
  BY <1>5, ClearDeleteStep DEF Effects
<1>6. ASSUME NEW id \in Sales, NEW method \in {"CASH", "OTHER"}, NEW reconciled \in BOOLEAN,
             ReconcilePayment(id, method, reconciled)
      PROVE  CounterInv' /\ Effects
  BY <1>6, ReconcilePaymentStep DEF Effects, Reconciled
<1>7. ASSUME NEW ret \in Returns, NEW reconciled \in BOOLEAN, ReconcileRefund(ret, reconciled)
      PROVE  CounterInv' /\ Effects
  BY <1>7, ReconcileRefundStep DEF Effects, Reconciled
<1> QED
  BY <1>2, <1>3, <1>4, <1>5, <1>6, <1>7 DEF AdminNext

\* A step that changes nothing.
LEMMA NothingStep == ASSUME CounterInv, UNCHANGED vars PROVE CounterInv' /\ Effects
<1>1. UNCHANGED <<stockVars, registerVars, commissionVars, sales, returns>>
  BY DEF vars
<1>2. Tabled /\ RegisterInv /\ FiniteRows /\ UnitsWithin /\ StockTypeOK /\ CommissionTypeOK
  BY CounterParts DEF Tabled
<1>3. StockTypeOK' /\ CommissionTypeOK' /\ UnitsWithin'
  BY <1>1, <1>2, CommissionsSame, StocksSame DEF UnitsWithin
<1>4. RegisterTypeOK' /\ RegisterInv' /\ UNCHANGED cashMoves
  BY <1>1, <1>2, RegistersSame DEF Tabled, registerVars
<1>5. FiniteRows'
  BY <1>1, <1>2, <1>4, NoneAdded DEF FiniteRows
<1> QED
  BY <1>1, <1>2, <1>3, <1>4, <1>5, TypedAgain DEF Tabled, Effects, vars

\* Every step, and what it leaves.
LEMMA CounterStep == ASSUME CounterInv, [Next]_vars PROVE CounterInv' /\ Effects
<1>1. ASSUME RegisterStep PROVE CounterInv' /\ Effects
  BY <1>1, RegisterStepStep DEF Effects
<1>2. ASSUME CommissionStep PROVE CounterInv' /\ Effects
  BY <1>2, CommissionStepStep DEF Effects
<1>3. ASSUME StockStep PROVE CounterInv' /\ Effects
  BY <1>3, StockStepStep DEF Effects, StockMoved
<1> QED
  BY <1>1, <1>2, <1>3, CheckoutNextStep, ReturnNextStep, AdminNextStep, NothingStep DEF Next

\* The whole counter keeps its tables: bills, returns, stock, registers and
\* commission rows stay typed, and no line is returned more often than sold.
THEOREM CounterInvariant == Spec => []CounterInv
BY CounterInitially, CounterStep, PTL DEF Spec

\* checkout, returnSale, cancelSale, deleteSaleInternal, dataManagementClear and
\* every other handler of the counter: no balance, payment, refund or commission
\* ever leaves its type (no CHECK constraint fires).
THEOREM SalesTyped == Spec => []SalesTypeOK
<1>1. CounterInv => SalesTypeOK
  BY DEF CounterInv
<1> QED
  BY <1>1, CounterInvariant, PTL

-----------------------------------------------------------------------------
(* Bills once written, and the commission rows that follow them.            *)

\* A bill never goes away, and keeps what was sold, for how much, where.
Kept(old, new) ==
  /\ new # NoRow
  /\ new.items = old.items /\ new.price = old.price
  /\ new.store = old.store /\ new.session = old.session
  /\ new.cash = old.cash /\ new.other = old.other
  /\ \A l \in SaleLines : old.returned[l] <= new.returned[l]

\* A bill that stays keeps what it is.
LEMMA KeptSame == ASSUME NEW bill \in SaleRow PROVE Kept(bill, bill)
<1>1. \A l \in SaleLines : bill.returned[l] \in Nat
  BY DEF SaleRow
<1> QED
  BY <1>1, RowsApartFromNone DEF Kept

\* A bill of which units come back keeps what was sold.
LEMMA KeptBack ==
  ASSUME NEW bill \in SaleRow, NEW returning \in [SaleLines -> Nat], NEW status,
         BillWith(bill, NowBack(bill, returning), status) # NoRow
  PROVE  Kept(bill, BillWith(bill, NowBack(bill, returning), status))
<1> DEFINE back == NowBack(bill, returning)
           new == BillWith(bill, back, status)
<1>1. \A l \in SaleLines : back[l] = bill.returned[l] + returning[l]
                           /\ bill.returned[l] \in Nat /\ returning[l] \in Nat
  BY DEF NowBack, SaleRow
<1>2. \A l \in SaleLines : bill.returned[l] <= back[l]
  BY <1>1
<1> HIDE DEF back
<1>3. /\ new.items = bill.items /\ new.price = bill.price
      /\ new.store = bill.store /\ new.session = bill.session
      /\ new.cash = bill.cash /\ new.other = bill.other /\ new.returned = back
  BY DEF BillWith, SaleRow
<1> QED
  BY <1>2, <1>3 DEF Kept, back

\* Over any step, a bill stays and keeps what was sold, for how much and where.
LEMMA BillsKept ==
  ASSUME CounterInv, CounterInv', Effects, NEW id \in Sales, sales[id] # NoRow
  PROVE  Kept(sales[id], sales'[id])
<1>0. Tabled /\ sales[id] \in SaleRow
  BY CounterParts, BillType
<1>1. sales'[id] = sales[id] => Kept(sales[id], sales'[id])
  BY <1>0, KeptSame
<1>2. ASSUME NEW back \in [SaleLines -> Nat], NEW status,
             Billed(id, BillWith(sales[id], NowBack(sales[id], back), status))
      PROVE  Kept(sales[id], sales'[id])
  BY <1>0, <1>2, RowsApartFromNone, KeptBack DEF Billed
<1>3. ASSUME NEW ids \in SUBSET Sales, NEW status, WithStatus(ids, status)
      PROVE  Kept(sales[id], sales'[id])
  <2>1. CASE id \notin ids
    BY <1>1, <1>3, <2>1 DEF WithStatus
  <2>2. CASE id \in ids
    <3>1. \A l \in SaleLines : sales[id].returned[l] \in Nat
      BY <1>0 DEF SaleRow
    <3> QED
      BY <1>3, <2>2, <3>1 DEF WithStatus, Kept
  <2> QED
    BY <2>1, <2>2
<1>4. ASSUME NEW i \in Sales, NEW store, NEW x, NEW items, NEW price, NEW cash, NEW draft,
             BillMade(i, store, x, items, price, cash, draft)
      PROVE  Kept(sales[id], sales'[id])
  BY <1>1, <1>4 DEF BillMade, Billed
<1>5. ASSUME NEW ret, NEW i \in Sales, NEW x, NEW cash, NEW back \in [SaleLines -> Nat], NEW status,
             TakenBack(ret, i, x, back, cash, status)
      PROVE  Kept(sales[id], sales'[id])
  <2>1. CASE i = id
    BY <1>2, <1>5, <2>1 DEF TakenBack
  <2>2. CASE i # id
    BY <1>1, <1>5, <2>2 DEF TakenBack, Billed
  <2> QED
    BY <2>1, <2>2
<1>6. ASSUME NEW ret, NEW i \in Sales, NEW x, NEW returning, NEW cash, UnitsReturned(ret, i, x, returning, cash)
      PROVE  Kept(sales[id], sales'[id])
  BY <1>5, <1>6 DEF UnitsReturned
<1>7. ASSUME NEW ret, NEW i \in Sales, NEW x, NEW cash, Refunds(ret, i, x, cash)
      PROVE  Kept(sales[id], sales'[id])
  BY <1>5, <1>7 DEF Refunds
<1>8. ASSUME SameBills PROVE Kept(sales[id], sales'[id])
  <2>1. \A l \in SaleLines : sales[id].returned[l] \in Nat
    BY <1>0 DEF SaleRow
  <2> QED
    BY <1>8, <2>1 DEF SameBills, Kept
<1>9. ASSUME Reconciled PROVE Kept(sales[id], sales'[id])
  BY <1>1, <1>8, <1>9 DEF Reconciled
<1>10. UNCHANGED sales => Kept(sales[id], sales'[id])
  BY <1>1
<1>11. ASSUME NEW ids \in SUBSET Sales, Voided(ids) \/ Cleared(ids) PROVE Kept(sales[id], sales'[id])
  BY <1>3, <1>11 DEF Voided, Cleared
<1>12. ASSUME NEW i \in Sales, DeletedOne(i) PROVE Kept(sales[id], sales'[id])
  BY <1>3, <1>12 DEF DeletedOne
<1> QED
  BY <1>4, <1>6, <1>7, <1>9, <1>10, <1>11, <1>12 DEF Effects, StockMoved, vars

\* How one commission row may change.
RowMoved(old, new, n, back) ==
  \/ new = old
  \/ old = NoRow /\ new # NoRow /\ Fresh(new, n)
  \/ old # NoRow /\ old.status = "ACTIVE" /\ ReversedAs(new, old, back)
  \/ old # NoRow /\ \E status \in {"CANCELLED", "DELETED"} : ClosedAs(new, status, old)

\* What a synchronisation holds is still what was sold.
SyncedBills ==
  \A j \in SyncJobs : syncing[j] # NoRow =>
    /\ sales[syncing[j].sale] # NoRow
    /\ \A v \in Variants : syncing[j].items[v] = sales[syncing[j].sale].items[v]

RowsMoved ==
  \A id \in Sales, v \in Variants :
    \/ commissions'[id][v] = commissions[id][v]
    \/ /\ sales'[id] # NoRow
       /\ RowMoved(commissions[id][v], commissions'[id][v], sales'[id].items[v], sales'[id].returned[v])

\* Accruing moves a row as RowMoved says.
LEMMA AccruedMoved ==
  ASSUME NEW id \in Sales, NEW v \in Variants, NEW items, NEW back,
         AccruedFor(commissions[id], commissions'[id], items)
  PROVE  RowMoved(commissions[id][v], commissions'[id][v], items[v], back)
BY DEF AccruedFor, RowMoved

\* Closing bills moves their rows as RowMoved says, and no others.
LEMMA ClosedMoved ==
  ASSUME NEW ids \in SUBSET Sales, NEW status \in {"CANCELLED", "DELETED"}, ClosesOnly(ids, status),
         \A id \in ids : sales'[id] # NoRow
  PROVE  RowsMoved
<1> SUFFICES ASSUME NEW id \in Sales, NEW v \in Variants
             PROVE  \/ commissions'[id][v] = commissions[id][v]
                    \/ /\ sales'[id] # NoRow
                       /\ RowMoved(commissions[id][v], commissions'[id][v],
                                   sales'[id].items[v], sales'[id].returned[v])
  BY DEF RowsMoved
<1>1. CASE id \notin ids
  BY <1>1 DEF ClosesOnly
<1>2. CASE id \in ids /\ commissions[id][v] = NoRow
  BY <1>2 DEF ClosesOnly
<1>3. CASE id \in ids /\ commissions[id][v] # NoRow
  <2>1. ClosedAs(commissions'[id][v], status, commissions[id][v])
    BY <1>3 DEF ClosesOnly
  <2> QED
    BY <1>3, <2>1 DEF RowMoved
<1> QED
  BY <1>1, <1>2, <1>3

\* Every step moves every row as RowMoved says.
LEMMA RowsMovedStep ==
  ASSUME CounterInv, CounterInv', SyncedBills, Effects
  PROVE  RowsMoved
<1>0. Tabled
  BY CounterParts
<1>1. UNCHANGED commissions => RowsMoved
  BY DEF RowsMoved
<1>2. ASSUME NEW id \in Sales, NEW store, NEW x, NEW items, NEW price, NEW cash, NEW draft,
             BillMade(id, store, x, items, price, cash, draft)
      PROVE  RowsMoved
  <2>0. Billed(id, NewBill(store, x, items, price, cash, draft))
    BY <1>2 DEF BillMade
  <2>1. sales'[id] # NoRow /\ sales'[id].items = items
    <3>1. sales'[id] = NewBill(store, x, items, price, cash, draft) /\ sales'[id] # NoRow
      BY <2>0, RowsApartFromNone DEF Billed
    <3> QED
      BY <3>1 DEF NewBill
  <2>2. AccruedFor(commissions[id], commissions'[id], items)
        /\ \A i \in Sales : i # id => commissions'[i] = commissions[i]
    BY <1>2 DEF BillMade
  <2>3. \A v \in Variants :
          RowMoved(commissions[id][v], commissions'[id][v], items[v], sales'[id].returned[v])
    BY <2>2, AccruedMoved
  <2> QED
    BY <2>1, <2>2, <2>3 DEF RowsMoved
<1>3. ASSUME NEW ret, NEW id \in Sales, NEW x, NEW returning, NEW cash, UnitsReturned(ret, id, x, returning, cash)
      PROVE  RowsMoved
  <2> DEFINE back == NowBack(sales[id], returning)
             status == IF back = sales[id].items THEN "RETURNED" ELSE "PARTIALLY_RETURNED"
  <2>1. TakenBack(ret, id, x, returning, cash, status) /\ ReversesOnly(id, returning, back)
    BY <1>3 DEF UnitsReturned
  <2>2. sales[id] # NoRow /\ sales'[id] = BillWith(sales[id], back, status) /\ sales'[id] # NoRow
    BY <2>1, RowsApartFromNone DEF TakenBack, Billed, Live
  <2> HIDE DEF back, status
  <2>3. sales'[id].returned = back
    <3>1. sales[id] \in SaleRow
      BY <1>0, <2>2, BillType
    <3> QED
      BY <2>2, <3>1 DEF BillWith, SaleRow
  <2>4. \A v \in Variants :
          \/ commissions'[id][v] = commissions[id][v]
          \/ /\ commissions[id][v] # NoRow /\ commissions[id][v].status = "ACTIVE"
             /\ ReversedAs(commissions'[id][v], commissions[id][v], back[v])
    BY <2>1 DEF ReversesOnly
  <2>5. \A i \in Sales : i # id => commissions'[i] = commissions[i]
    BY <2>1 DEF ReversesOnly
  <2> QED
    BY <2>2, <2>3, <2>4, <2>5 DEF RowsMoved, RowMoved
<1>4. ASSUME NEW ret, NEW id \in Sales, NEW x, NEW cash, Refunds(ret, id, x, cash)
      PROVE  RowsMoved
  <2>1. ClosesOnly({id}, "CANCELLED") /\ sales'[id] # NoRow
    BY <1>4, RowsApartFromNone DEF Refunds, TakenBack, Billed
  <2> QED
    BY <2>1, ClosedMoved
<1>5. ASSUME NEW ids \in SUBSET Sales, Voided(ids) PROVE RowsMoved
  <2>1. ClosesOnly(ids, "CANCELLED") /\ \A id \in ids : sales'[id] # NoRow
    BY <1>5 DEF Voided, WithStatus
  <2> QED
    BY <2>1, ClosedMoved
<1>6. ASSUME NEW id \in Sales, DeletedOne(id) PROVE RowsMoved
  <2>1. ClosesOnly({id}, "DELETED") /\ sales'[id] # NoRow
    BY <1>6 DEF DeletedOne, WithStatus
  <2> QED
    BY <2>1, ClosedMoved
<1>7. ASSUME NEW j \in SyncJobs, WroteBill(j), UNCHANGED sales PROVE RowsMoved
  <2> DEFINE id == syncing[j].sale
             items == syncing[j].items
  <2>1. /\ syncing[j] # NoRow /\ AccruedFor(commissions[id], commissions'[id], items)
        /\ \A i \in Sales : i # id => commissions'[i] = commissions[i]
    BY <1>7 DEF WroteBill
  <2>2. syncing[j] \in SyncRow
    BY <1>0, <2>1 DEF Tabled, CommissionTypeOK
  <2>3. id \in Sales
    BY <2>2 DEF SyncRow
  <2>4. sales'[id] # NoRow /\ \A v \in Variants : items[v] = sales'[id].items[v]
    BY <1>7, <2>1 DEF SyncedBills
  <2> HIDE DEF id, items
  <2>5. \A v \in Variants :
          RowMoved(commissions[id][v], commissions'[id][v], items[v], sales'[id].returned[v])
    BY <2>1, <2>3, AccruedMoved
  <2> QED
    BY <2>1, <2>4, <2>5 DEF RowsMoved
<1>8. ASSUME CommissionMoved, UNCHANGED sales PROVE RowsMoved
  BY <1>1, <1>7, <1>8 DEF CommissionMoved, ReadBill
<1> QED
  BY <1>1, <1>2, <1>3, <1>4, <1>5, <1>6, <1>8
     DEF Effects, Reconciled, RegisterMoved, StockMoved, vars, commissionVars, Cleared

-----------------------------------------------------------------------------
(* Commission rows are snapshots.                                           *)

\* A row of a bill: for the units sold, nothing reversed beyond its amount nor,
\* while it is active, beyond the share of the units that are back.
RowFits(row, bill, v) ==
  /\ row.quantity = bill.items[v]
  /\ row.reversed <= row.amount
  /\ row.status = "ACTIVE" => row.reversed <= RoundDiv(row.amount * bill.returned[v], row.quantity)

RowsFit ==
  \A id \in Sales, v \in Variants : commissions[id][v] # NoRow =>
    sales[id] # NoRow /\ RowFits(commissions[id][v], sales[id], v)

SnapshotInv == RowsFit /\ SyncedBills

\* What a row is later.
Onward(old, new) ==
  /\ new # NoRow /\ new.amount = old.amount /\ new.reversed >= old.reversed
  /\ old.status # "ACTIVE" => new.status # "ACTIVE"

\* Units sold and units back, of a catalog line.
LEMMA BillUnits ==
  ASSUME NEW bill \in SaleRow, NEW v \in Variants
  PROVE  bill.items[v] \in Nat /\ bill.returned[v] \in Nat
<1>1. bill.items \in [SaleLines -> Nat] /\ bill.returned \in [SaleLines -> Nat] /\ v \in SaleLines
  BY SaleLinesFinite DEF SaleRow
<1> QED
  BY <1>1

\* The numbers of a row.
LEMMA RowUnits ==
  ASSUME NEW row \in CommissionRow
  PROVE  /\ row.amount \in Nat /\ row.quantity \in Nat \ {0} /\ row.reversed \in Nat
         /\ row.status \in {"ACTIVE", "CANCELLED", "DELETED"}
BY DEF CommissionRow

\* A row that stays, of a bill of which more comes back, still fits.
LEMMA StillFits ==
  ASSUME NEW row \in CommissionRow, NEW old \in SaleRow, NEW new \in SaleRow, Kept(old, new),
         NEW v \in Variants, RowFits(row, old, v)
  PROVE  RowFits(row, new, v)
<1>1. old.returned[v] \in Nat /\ new.returned[v] \in Nat /\ old.returned[v] <= new.returned[v]
      /\ new.items[v] = old.items[v]
  BY BillUnits, SaleLinesFinite DEF Kept
<1>2. row.amount \in Nat /\ row.quantity \in Nat \ {0} /\ row.reversed \in Nat
  BY RowUnits
<1> DEFINE a == RoundDiv(row.amount * old.returned[v], row.quantity)
           b == RoundDiv(row.amount * new.returned[v], row.quantity)
<1>3. a \in Nat /\ b \in Nat /\ a <= b
  BY <1>1, <1>2, Shares
<1>4. row.status = "ACTIVE" => row.reversed <= a
  BY DEF RowFits
<1>5. row.status = "ACTIVE" => row.reversed <= b
  <2> HIDE DEF a, b
  <2> QED
    BY <1>2, <1>3, <1>4
<1> QED
  BY <1>1, <1>5 DEF RowFits

\* A row just accrued fits its bill.
LEMMA FreshFits ==
  ASSUME NEW row \in CommissionRow, NEW bill \in SaleRow, NEW v \in Variants, Fresh(row, bill.items[v])
  PROVE  RowFits(row, bill, v)
<1>1. row.amount \in Nat /\ row.quantity \in Nat \ {0}
  BY RowUnits
<1>2. RoundDiv(row.amount * bill.returned[v], row.quantity) \in Nat
  BY <1>1, BillUnits, Shares
<1> QED
  BY <1>1, <1>2 DEF Fresh, RowFits

\* A row reversed to the share of the units back fits, and only more of it is reversed.
LEMMA ReversedFits ==
  ASSUME NEW old \in CommissionRow, NEW row \in CommissionRow, NEW was \in SaleRow, NEW bill \in SaleRow,
         NEW v \in Variants, Kept(was, bill), RowFits(old, was, v), old.status = "ACTIVE",
         bill.returned[v] <= bill.items[v], ReversedAs(row, old, bill.returned[v])
  PROVE  RowFits(row, bill, v) /\ Onward(old, row)
<1>1. old.amount \in Nat /\ old.quantity \in Nat \ {0} /\ old.reversed \in Nat
  BY RowUnits
<1>2. was.returned[v] \in Nat /\ bill.returned[v] \in Nat /\ was.returned[v] <= bill.returned[v]
      /\ bill.items[v] = was.items[v] /\ old.quantity = bill.items[v]
  BY BillUnits, SaleLinesFinite DEF Kept, RowFits
<1> DEFINE a == RoundDiv(old.amount * was.returned[v], old.quantity)
           b == RoundDiv(old.amount * bill.returned[v], old.quantity)
<1>3. a \in Nat /\ b \in Nat /\ a <= b
  BY <1>1, <1>2, Shares
<1>4. b <= old.amount
  <2> DEFINE c == RoundDiv(old.amount * old.quantity, old.quantity)
  <2>1. c = old.amount /\ b <= c
    BY <1>1, <1>2, Shares
  <2> HIDE DEF b, c
  <2> QED
    BY <2>1
<1>5. old.reversed <= a
  BY DEF RowFits
<1>6. /\ row # NoRow /\ row.status = "ACTIVE" /\ row.amount = old.amount /\ row.quantity = old.quantity
      /\ row.reversed = b
  BY DEF ReversedAs
<1>7. old.reversed <= b
  <2> HIDE DEF a, b
  <2> QED
    BY <1>1, <1>3, <1>5
<1>8. RowFits(row, bill, v)
  <2>1. RoundDiv(row.amount * bill.returned[v], row.quantity) = b
    BY <1>6
  <2> HIDE DEF b
  <2> QED
    BY <1>2, <1>3, <1>4, <1>6, <2>1 DEF RowFits
<1>9. Onward(old, row)
  <2> HIDE DEF b
  <2> QED
    BY <1>6, <1>7 DEF Onward
<1> QED
  BY <1>8, <1>9

\* A closed row fits, whatever happens to its bill.
LEMMA ClosedFits ==
  ASSUME NEW old \in CommissionRow, NEW row \in CommissionRow, NEW was \in SaleRow, NEW bill \in SaleRow,
         NEW v \in Variants, Kept(was, bill), RowFits(old, was, v),
         NEW status \in {"CANCELLED", "DELETED"}, ClosedAs(row, status, old)
  PROVE  RowFits(row, bill, v) /\ Onward(old, row)
<1>1. old.amount \in Nat /\ old.reversed \in Nat
  BY RowUnits
<1>2. bill.items[v] = was.items[v] /\ old.quantity = was.items[v] /\ old.reversed <= old.amount
  BY DEF Kept, RowFits
<1>3. /\ row # NoRow /\ row.status # "ACTIVE" /\ row.amount = old.amount /\ row.quantity = old.quantity
      /\ row.reversed = old.amount
  BY DEF ClosedAs
<1> QED
  BY <1>1, <1>2, <1>3 DEF RowFits, Onward

\* Every step: rows that were there go onward, and all fit.
LEMMA SnapshotStep ==
  ASSUME CounterInv, CounterInv', SnapshotInv, Effects
  PROVE  /\ SnapshotInv'
         /\ \A id \in Sales, v \in Variants : commissions[id][v] # NoRow =>
              Onward(commissions[id][v], commissions'[id][v])
<1>0. Tabled /\ SyncedBills /\ RowsFit /\ UnitsWithin'
  BY CounterParts DEF SnapshotInv, CounterInv
<1>1. RowsMoved
  BY <1>0, RowsMovedStep
<1>2. /\ \A id \in Sales, v \in Variants : commissions[id][v] # NoRow => commissions[id][v] \in CommissionRow
      /\ \A id \in Sales, v \in Variants : commissions'[id][v] # NoRow => commissions'[id][v] \in CommissionRow
  BY DEF CounterInv, SalesTypeOK, CommissionTypeOK
<1>3. /\ \A id \in Sales : sales[id] # NoRow => sales[id] \in SaleRow
      /\ \A id \in Sales : sales'[id] # NoRow => sales'[id] \in SaleRow
  BY DEF CounterInv, SalesTypeOK
<1>4. \A id \in Sales : sales[id] # NoRow => Kept(sales[id], sales'[id])
  BY BillsKept
<1>5. ASSUME NEW id \in Sales, NEW v \in Variants
      PROVE  /\ commissions'[id][v] # NoRow => sales'[id] # NoRow /\ RowFits(commissions'[id][v], sales'[id], v)
             /\ commissions[id][v] # NoRow => Onward(commissions[id][v], commissions'[id][v])
  <2> DEFINE old == commissions[id][v]
             new == commissions'[id][v]
             was == sales[id]
             bill == sales'[id]
  <2>1. old # NoRow => /\ was # NoRow /\ RowFits(old, was, v) /\ old \in CommissionRow /\ was \in SaleRow
                       /\ bill # NoRow /\ bill \in SaleRow /\ Kept(was, bill)
    BY <1>0, <1>2, <1>3, <1>4 DEF RowsFit, Kept
  <2>2. new # NoRow => new \in CommissionRow
    BY <1>2
  <2>3. bill # NoRow => bill \in SaleRow /\ bill.returned[v] <= bill.items[v]
    BY <1>0, <1>3, SaleLinesFinite DEF UnitsWithin
  <2>4. new = old \/ (bill # NoRow /\ RowMoved(old, new, bill.items[v], bill.returned[v]))
    BY <1>1 DEF RowsMoved
  <2> HIDE DEF old, new, was, bill
  <2>5. CASE new = old
    <3>1. old # NoRow => RowFits(new, bill, v)
      BY <2>1, <2>5, StillFits
    <3>2. old # NoRow => Onward(old, new)
      <4> SUFFICES ASSUME old # NoRow PROVE Onward(old, new)
        OBVIOUS
      <4>1. old.reversed \in Nat
        BY <2>1, RowUnits
      <4> QED
        BY <2>5, <4>1 DEF Onward
    <3> QED
      BY <2>1, <2>5, <3>1, <3>2 DEF old, new, was, bill
  <2>6. CASE bill # NoRow /\ old = NoRow /\ new # NoRow /\ Fresh(new, bill.items[v])
    <3>1. RowFits(new, bill, v)
      BY <2>2, <2>3, <2>6, FreshFits
    <3> QED
      BY <2>6, <3>1 DEF old, new, was, bill
  <2>7. CASE bill # NoRow /\ old # NoRow /\ old.status = "ACTIVE" /\ ReversedAs(new, old, bill.returned[v])
    <3>1. new # NoRow
      BY <2>7 DEF ReversedAs
    <3>2. RowFits(new, bill, v) /\ Onward(old, new)
      BY <2>1, <2>2, <2>3, <2>7, <3>1, ReversedFits
    <3> QED
      BY <2>7, <3>2 DEF old, new, was, bill
  <2>8. ASSUME bill # NoRow, old # NoRow, NEW status \in {"CANCELLED", "DELETED"}, ClosedAs(new, status, old)
        PROVE  RowFits(new, bill, v) /\ Onward(old, new)
    <3>1. new # NoRow
      BY <2>8 DEF ClosedAs
    <3> QED
      BY <2>1, <2>2, <2>8, <3>1, ClosedFits
  <2>9. CASE bill # NoRow /\ old # NoRow /\ \E status \in {"CANCELLED", "DELETED"} : ClosedAs(new, status, old)
    BY <2>8, <2>9 DEF old, new, was, bill
  <2> QED
    BY <2>4, <2>5, <2>6, <2>7, <2>9 DEF RowMoved
<1>6. SyncedBills'
  <2> SUFFICES ASSUME NEW j \in SyncJobs, syncing'[j] # NoRow
               PROVE  /\ sales'[syncing'[j].sale] # NoRow
                      /\ \A v \in Variants : syncing'[j].items[v] = sales'[syncing'[j].sale].items[v]
    BY DEF SyncedBills
  <2>1. ASSUME syncing'[j] = syncing[j]
        PROVE  /\ sales'[syncing'[j].sale] # NoRow
               /\ \A v \in Variants : syncing'[j].items[v] = sales'[syncing'[j].sale].items[v]
    <3>1. syncing[j] # NoRow /\ syncing[j] \in SyncRow
      BY <1>0, <2>1 DEF Tabled, CommissionTypeOK
    <3>2. syncing[j].sale \in Sales
      BY <3>1 DEF SyncRow
    <3>3. /\ sales[syncing[j].sale] # NoRow
          /\ \A v \in Variants : syncing[j].items[v] = sales[syncing[j].sale].items[v]
      BY <1>0, <3>1 DEF SyncedBills
    <3>4. Kept(sales[syncing[j].sale], sales'[syncing[j].sale])
      BY <1>4, <3>2, <3>3
    <3> QED
      BY <2>1, <3>3, <3>4 DEF Kept
  <2>2. ASSUME NEW k \in SyncJobs, NEW id \in Sales, ReadBill(k, id)
        PROVE  /\ sales'[syncing'[j].sale] # NoRow
               /\ \A v \in Variants : syncing'[j].items[v] = sales'[syncing'[j].sale].items[v]
    <3>1. CASE j = k
      <4>1. /\ sales[id] # NoRow /\ syncing'[j].sale = id
            /\ \A v \in Variants : syncing'[j].items[v] = sales[id].items[v]
        BY <2>2, <3>1 DEF ReadBill, Live
      <4> QED
        BY <1>4, <4>1 DEF Kept
    <3>2. CASE j # k
      BY <2>1, <2>2, <3>2 DEF ReadBill
    <3> QED
      BY <3>1, <3>2
  <2>3. ASSUME NEW k \in SyncJobs, WroteBill(k) PROVE syncing'[j] = syncing[j]
    BY <2>3 DEF WroteBill
  <2>4. UNCHANGED syncing \/ CommissionMoved
    <3>1. \A id, store, x, items, price, cash, draft :
            BillMade(id, store, x, items, price, cash, draft) => UNCHANGED syncing
      BY DEF BillMade
    <3>2. \A ret, id, x, returning, cash : UnitsReturned(ret, id, x, returning, cash) => UNCHANGED syncing
      BY DEF UnitsReturned
    <3>3. \A ret, id, x, cash : Refunds(ret, id, x, cash) => UNCHANGED syncing
      BY DEF Refunds
    <3>4. \A ids : Voided(ids) => UNCHANGED syncing
      BY DEF Voided
    <3>5. \A id : DeletedOne(id) => UNCHANGED syncing
      BY DEF DeletedOne
    <3>6. \A ids : Cleared(ids) => UNCHANGED syncing
      BY DEF Cleared, commissionVars
    <3>7. (Reconciled => UNCHANGED syncing) /\ (StockMoved => UNCHANGED syncing)
      BY DEF Reconciled, StockMoved, commissionVars
    <3>8. (UNCHANGED commissionVars => UNCHANGED syncing) /\ (UNCHANGED vars => UNCHANGED syncing)
      BY DEF commissionVars, vars
    <3> QED
      BY <3>1, <3>2, <3>3, <3>4, <3>5, <3>6, <3>7, <3>8 DEF Effects
  <2> QED
    BY <2>1, <2>2, <2>3, <2>4 DEF CommissionMoved
<1> QED
  BY <1>5, <1>6 DEF SnapshotInv, RowsFit

\* No bill, no row, no synchronisation.
LEMMA SnapshotInitially == Init => SnapshotInv
BY DEF Init, CommissionInit, SnapshotInv, RowsFit, SyncedBills

\* Every row of commission was made for the units its bill sold and never gives
\* up more than it earned, however synchronisations, returns and cancellations
\* of the bill overlap.
THEOREM SnapshotInvariant == Spec => [](CounterInv /\ SnapshotInv)
<1>1. Init => CounterInv /\ SnapshotInv
  BY CounterInitially, SnapshotInitially
<1>2. (CounterInv /\ SnapshotInv) /\ [Next]_vars => (CounterInv /\ SnapshotInv)'
  BY CounterStep, SnapshotStep
<1> QED
  BY <1>1, <1>2, PTL DEF Spec

\* accrueRetailCommission's upsert, reverseRetailCommission and
\* closeRetailCommission: no later accrual, rate change or synchronisation
\* changes an amount, and what was reversed is never given back.
THEOREM SnapshotsFinal == Spec => SnapshotsAreFinal
<1>1. (CounterInv /\ SnapshotInv) /\ [Next]_vars =>
        [\A id \in Sales, v \in Variants : commissions[id][v] # NoRow =>
           /\ commissions'[id][v] # NoRow
           /\ commissions'[id][v].amount = commissions[id][v].amount
           /\ commissions'[id][v].reversed >= commissions[id][v].reversed
           /\ commissions[id][v].status # "ACTIVE" => commissions'[id][v].status # "ACTIVE"]_commissions
  BY CounterStep, SnapshotStep DEF Onward
<1> QED
  BY <1>1, SnapshotInvariant, PTL DEF Spec, SnapshotsAreFinal

-----------------------------------------------------------------------------
(* Commission follows the bill.                                             *)

\* What RowFollowsBill says of a row and its bill.
Follows(row, bill, v) ==
  IF bill.status = "CANCELLED"
  THEN row.status = "CANCELLED" /\ row.reversed = row.amount
  ELSE /\ row.status = "ACTIVE"
       /\ row.reversed = RoundDiv(row.amount * bill.returned[v], row.quantity)

\* A synchronisation writes the first row of a line whose bill has moved on.
StaleSync(id, v) ==
  /\ commissions[id][v] = NoRow /\ sales[id].status # "COMPLETED"
  /\ \E j \in SyncJobs : syncing[j] # NoRow /\ syncing[j].sale = id /\ syncing'[j] = NoRow

\* Nothing is back of a bill that is still completed.
NothingBack ==
  \A id \in Sales, v \in Variants :
    Live(id) /\ sales[id].status = "COMPLETED" => sales[id].returned[v] = 0

\* Every other step keeps a row and its bill in step.
LEMMA FollowStep ==
  ASSUME CounterInv, CounterInv', SnapshotInv, NothingBack, Effects, NEW id \in Sales, NEW v \in Variants,
         RowFollowsBill(id, v), ~StaleSync(id, v)
  PROVE  RowFollowsBill(id, v)'
<1> SUFFICES ASSUME sales'[id] # NoRow, sales'[id].status # "DELETED", commissions'[id][v] # NoRow
             PROVE  Follows(commissions'[id][v], sales'[id], v)
  BY DEF RowFollowsBill, Follows, Live
<1>0. Tabled
  BY CounterParts
<1>1. sales[id] # NoRow => sales[id] \in SaleRow
  BY <1>0, BillType
<1>2. commissions[id][v] # NoRow => sales[id] # NoRow
  BY DEF SnapshotInv, RowsFit
<1>3. ASSUME Live(id), commissions[id][v] # NoRow
      PROVE  Follows(commissions[id][v], sales[id], v)
  BY <1>3 DEF RowFollowsBill, Follows
<1>4. ASSUME commissions'[id][v] = commissions[id][v], sales[id] # NoRow,
             sales'[id].status = sales[id].status, sales'[id].returned = sales[id].returned
      PROVE  Follows(commissions'[id][v], sales'[id], v)
  <2>1. Follows(commissions[id][v], sales[id], v)
    BY <1>3, <1>4 DEF Live
  <2> QED
    BY <1>4, <2>1 DEF Follows
<1>5. ASSUME commissions'[id] = commissions[id], sales'[id] = sales[id]
      PROVE  Follows(commissions'[id][v], sales'[id], v)
  BY <1>4, <1>5
<1>f. ASSUME NEW n, Fresh(commissions'[id][v], n), sales'[id].status = "COMPLETED", sales'[id].returned[v] = 0
      PROVE  Follows(commissions'[id][v], sales'[id], v)
  <2> DEFINE row == commissions'[id][v]
  <2>1. row \in CommissionRow
    BY DEF CounterInv, SalesTypeOK, CommissionTypeOK
  <2>2. row.amount \in Nat /\ row.quantity \in Nat \ {0}
    BY <2>1, RowUnits
  <2>3. row.status = "ACTIVE" /\ row.reversed = 0
    BY <1>f DEF Fresh
  <2> HIDE DEF row
  <2>4. RoundDiv(row.amount * 0, row.quantity) = 0
    BY <2>2, Shares
  <2>5. Follows(row, sales'[id], v)
    BY <1>f, <2>3, <2>4 DEF Follows
  <2> QED
    BY <2>5 DEF row
<1>6. ASSUME NEW i \in Sales, NEW store, NEW x, NEW items, NEW price, NEW cash, NEW draft,
             BillMade(i, store, x, items, price, cash, draft)
      PROVE  Follows(commissions'[id][v], sales'[id], v)
  <2>1. CASE i # id
    BY <1>5, <1>6, <2>1 DEF BillMade, Billed
  <2>2. CASE i = id
    <3>1. sales[id] = NoRow /\ Billed(id, NewBill(store, x, items, price, cash, draft))
          /\ AccruedFor(commissions[id], commissions'[id], items)
      BY <1>6, <2>2 DEF BillMade
    <3>2. Fresh(commissions'[id][v], items[v])
      BY <1>2, <3>1 DEF AccruedFor
    <3>3. sales'[id] = NewBill(store, x, items, price, cash, draft)
      BY <3>1 DEF Billed
    <3>4. sales'[id].status = "COMPLETED" /\ sales'[id].returned[v] = 0
      BY <3>3, SaleLinesFinite DEF NewBill
    <3> QED
      BY <1>f, <3>2, <3>4
  <2> QED
    BY <2>1, <2>2
<1>7. ASSUME NEW ret, NEW i \in Sales, NEW x, NEW returning, NEW cash, UnitsReturned(ret, i, x, returning, cash)
      PROVE  Follows(commissions'[id][v], sales'[id], v)
  <2> DEFINE back == NowBack(sales[i], returning)
             status == IF back = sales[i].items THEN "RETURNED" ELSE "PARTIALLY_RETURNED"
  <2>1. TakenBack(ret, i, x, returning, cash, status) /\ ReversesOnly(i, returning, back)
        /\ returning \in [SaleLines -> Nat]
    BY <1>7 DEF UnitsReturned
  <2>2. CASE i # id
    <3>1. sales'[id] = sales[id] /\ commissions'[id] = commissions[id]
      BY <2>1, <2>2 DEF TakenBack, Billed, ReversesOnly
    <3> QED
      BY <1>5, <3>1
  <2>3. CASE i = id
    <3>1. /\ Live(id) /\ sales[id].status \in {"COMPLETED", "PARTIALLY_RETURNED"}
          /\ sales'[id] = BillWith(sales[id], back, status)
      BY <2>1, <2>3 DEF TakenBack, Billed
    <3>2. sales[id] \in SaleRow
      BY <1>1, <3>1 DEF Live
    <3>3. sales'[id].returned = back /\ sales'[id].status = status
      BY <3>1, <3>2 DEF BillWith, SaleRow
    <3>4. status # "CANCELLED"
      OBVIOUS
    <3>5. back[v] = sales[id].returned[v] + returning[v] /\ returning[v] \in Nat /\ sales[id].returned[v] \in Nat
      BY <2>1, <2>3, <3>2, SaleLinesFinite, BillUnits DEF NowBack
    <3> HIDE DEF back, status
    <3>6. commissions[id][v] # NoRow
      BY <2>1, <2>3 DEF ReversesOnly, ReversedAs
    <3>7. Follows(commissions[id][v], sales[id], v)
      BY <1>3, <3>1, <3>6
    <3>8. /\ commissions[id][v].status = "ACTIVE"
          /\ commissions[id][v].reversed =
               RoundDiv(commissions[id][v].amount * sales[id].returned[v], commissions[id][v].quantity)
      BY <3>1, <3>7 DEF Follows
    <3>9. CASE returning[v] > 0
      <4>1. ReversedAs(commissions'[id][v], commissions[id][v], back[v])
        BY <2>1, <2>3, <3>6, <3>8, <3>9 DEF ReversesOnly
      <4> QED
        BY <3>3, <3>4, <4>1 DEF ReversedAs, Follows
    <3>10. CASE ~(returning[v] > 0)
      <4>1. back[v] = sales[id].returned[v]
        BY <3>5, <3>10
      <4>2. commissions'[id][v] = commissions[id][v]
        BY <2>1, <2>3, <3>10 DEF ReversesOnly
      <4> QED
        BY <3>3, <3>4, <3>8, <4>1, <4>2 DEF Follows
    <3> QED
      BY <3>9, <3>10
  <2> QED
    BY <2>2, <2>3
<1>8. ASSUME NEW ids \in SUBSET Sales, ClosesOnly(ids, "CANCELLED"),
             \A i \in ids : sales'[i].status = "CANCELLED",
             \A i \in Sales : i \notin ids => sales'[i] = sales[i]
      PROVE  Follows(commissions'[id][v], sales'[id], v)
  <2>1. CASE id \notin ids
    BY <1>5, <1>8, <2>1 DEF ClosesOnly
  <2>2. CASE id \in ids
    <3>1. ClosedAs(commissions'[id][v], "CANCELLED", commissions[id][v])
      BY <1>8, <2>2 DEF ClosesOnly
    <3> QED
      BY <1>8, <2>2, <3>1 DEF ClosedAs, Follows
  <2> QED
    BY <2>1, <2>2
<1>9. ASSUME NEW ret, NEW i \in Sales, NEW x, NEW cash, Refunds(ret, i, x, cash)
      PROVE  Follows(commissions'[id][v], sales'[id], v)
  <2>1. /\ ClosesOnly({i}, "CANCELLED")
        /\ Billed(i, BillWith(sales[i], NowBack(sales[i], sales[i].items), "CANCELLED")) /\ Live(i)
    BY <1>9 DEF Refunds, TakenBack
  <2>2. sales[i] \in SaleRow
    BY <1>0, <2>1, BillType DEF Live
  <2>3. sales'[i].status = "CANCELLED" /\ \A k \in Sales : k \notin {i} => sales'[k] = sales[k]
    BY <2>1, <2>2 DEF Billed, BillWith, SaleRow
  <2> QED
    BY <1>8, <2>1, <2>3
<1>10. ASSUME NEW ids \in SUBSET Sales, Voided(ids)
       PROVE  Follows(commissions'[id][v], sales'[id], v)
  <2>1. /\ ClosesOnly(ids, "CANCELLED") /\ \A i \in ids : sales'[i].status = "CANCELLED"
        /\ \A i \in Sales : i \notin ids => sales'[i] = sales[i]
    BY <1>10 DEF Voided, WithStatus
  <2> QED
    BY <1>8, <2>1
<1>11. ASSUME NEW i \in Sales, DeletedOne(i)
       PROVE  Follows(commissions'[id][v], sales'[id], v)
  <2>1. id # i /\ sales'[id] = sales[id] /\ commissions'[id] = commissions[id]
    BY <1>11 DEF DeletedOne, WithStatus, ClosesOnly
  <2> QED
    BY <1>5, <2>1
<1>12. ASSUME NEW ids \in SUBSET Sales, Cleared(ids)
       PROVE  Follows(commissions'[id][v], sales'[id], v)
  <2>1. id \notin ids /\ sales'[id] = sales[id] /\ commissions'[id] = commissions[id]
    BY <1>12 DEF Cleared, WithStatus, commissionVars
  <2> QED
    BY <1>5, <2>1
<1>13. ASSUME SameBills, UNCHANGED commissions
       PROVE  Follows(commissions'[id][v], sales'[id], v)
  BY <1>4, <1>13 DEF SameBills
<1>14. UNCHANGED <<sales, commissions>> => Follows(commissions'[id][v], sales'[id], v)
  BY <1>5
<1>15. ASSUME NEW j \in SyncJobs, WroteBill(j), UNCHANGED sales
       PROVE  Follows(commissions'[id][v], sales'[id], v)
  <2>1. CASE syncing[j].sale # id
    BY <1>5, <1>15, <2>1 DEF WroteBill
  <2>2. CASE syncing[j].sale = id
    <3>1. AccruedFor(commissions[id], commissions'[id], syncing[j].items)
      BY <1>15, <2>2 DEF WroteBill
    <3>2. CASE commissions[id][v] # NoRow
      <4>1. commissions'[id][v] = commissions[id][v] /\ sales[id] # NoRow
        BY <1>2, <3>1, <3>2 DEF AccruedFor
      <4> QED
        BY <1>4, <1>15, <4>1
    <3>3. CASE commissions[id][v] = NoRow
      <4>1. Fresh(commissions'[id][v], syncing[j].items[v])
        BY <3>1, <3>3 DEF AccruedFor
      <4>2. sales[id].status = "COMPLETED"
        BY <1>15, <2>2, <3>3 DEF StaleSync, WroteBill
      <4>3. sales[id].returned[v] = 0
        BY <1>15, <4>2 DEF NothingBack, Live
      <4> QED
        BY <1>f, <1>15, <4>1, <4>2, <4>3
    <3> QED
      BY <3>2, <3>3
  <2> QED
    BY <2>1, <2>2
<1>16. ASSUME CommissionMoved, UNCHANGED sales PROVE Follows(commissions'[id][v], sales'[id], v)
  BY <1>14, <1>15, <1>16 DEF CommissionMoved, ReadBill
<1> QED
  BY <1>6, <1>7, <1>9, <1>10, <1>11, <1>12, <1>13, <1>14, <1>16
     DEF Effects, Reconciled, StockMoved, commissionVars, vars

-----------------------------------------------------------------------------
(* Drawers.                                                                 *)

\* The sums a drawer is made of.
MovesOf(x) == {k \in CashKeys : cashMoves[k] # NoRow /\ cashMoves[k].session = x}
CashOf(table, S) == SumFunction([i \in S |-> table[i].cash])
AmountOf(table, S) == SumFunction([i \in S |-> table[i].amount])

\* A drawer is its opening, the cash of bills less refunds, and its cash movements.
LEMMA DrawerIs ==
  ASSUME NEW x \in Sessions
  PROVE  /\ Drawer(x, Receipts(x)) =
              sessions[x].opening + (CashOf(sales, BookedTo(x)) - AmountOf(returns, PaidOutOf(x)))
                + AmountOf(cashMoves, MovesOf(x))
         /\ Drawer(x, Receipts(x))' =
              sessions'[x].opening + (CashOf(sales', BookedTo(x)') - AmountOf(returns', PaidOutOf(x)'))
                + AmountOf(cashMoves', MovesOf(x)')
<1>1. /\ Receipts(x) = CashOf(sales, BookedTo(x)) - AmountOf(returns, PaidOutOf(x))
      /\ Receipts(x)' = CashOf(sales', BookedTo(x)') - AmountOf(returns', PaidOutOf(x)')
  BY DEF Receipts, CashOf, AmountOf
<1>2. /\ CashMovementNet(x) = AmountOf(cashMoves, MovesOf(x))
      /\ CashMovementNet(x)' = AmountOf(cashMoves', MovesOf(x)')
  BY DEF CashMovementNet, AmountOf, MovesOf
<1> QED
  BY <1>1, <1>2 DEF Drawer

\* Sums over rows that keep their amounts.
LEMMA SumsSame ==
  ASSUME NEW t, NEW u, NEW S
  PROVE  /\ (\A i \in S : u[i].cash = t[i].cash) => CashOf(u, S) = CashOf(t, S)
         /\ (\A i \in S : u[i].amount = t[i].amount) => AmountOf(u, S) = AmountOf(t, S)
<1>1. (\A i \in S : u[i].cash = t[i].cash) => [i \in S |-> u[i].cash] = [i \in S |-> t[i].cash]
  OBVIOUS
<1>2. (\A i \in S : u[i].amount = t[i].amount) => [i \in S |-> u[i].amount] = [i \in S |-> t[i].amount]
  OBVIOUS
<1> QED
  BY <1>1, <1>2 DEF CashOf, AmountOf

\* The cash of one bill more.
LEMMA CashMore ==
  ASSUME NEW t, NEW u, NEW S, IsFiniteSet(S), NEW e, e \notin S, u[e].cash \in Int,
         \A i \in S : t[i].cash \in Int /\ u[i].cash = t[i].cash
  PROVE  CashOf(t, S) \in Int /\ CashOf(u, S \cup {e}) = CashOf(t, S) + u[e].cash
<1> DEFINE f == [i \in S |-> t[i].cash]
           g == [i \in S \cup {e} |-> u[i].cash]
<1>1. /\ IsFiniteSet(DOMAIN f) /\ e \notin DOMAIN f /\ DOMAIN g = DOMAIN f \cup {e} /\ g[e] \in Int
      /\ \A i \in DOMAIN f : f[i] \in Int /\ g[i] = f[i]
  OBVIOUS
<1>2. g[e] = u[e].cash /\ CashOf(t, S) = SumFunction(f) /\ CashOf(u, S \cup {e}) = SumFunction(g)
  BY DEF CashOf
<1> HIDE DEF f, g
<1>3. SumFunction(f) \in Int /\ SumFunction(g) = g[e] + SumFunction(f)
  BY <1>1, TotalWith
<1> QED
  BY <1>2, <1>3

\* The amount of one row more.
LEMMA AmountMore ==
  ASSUME NEW t, NEW u, NEW S, IsFiniteSet(S), NEW e, e \notin S, u[e].amount \in Int,
         \A i \in S : t[i].amount \in Int /\ u[i].amount = t[i].amount
  PROVE  AmountOf(t, S) \in Int /\ AmountOf(u, S \cup {e}) = AmountOf(t, S) + u[e].amount
<1> DEFINE f == [i \in S |-> t[i].amount]
           g == [i \in S \cup {e} |-> u[i].amount]
<1>1. /\ IsFiniteSet(DOMAIN f) /\ e \notin DOMAIN f /\ DOMAIN g = DOMAIN f \cup {e} /\ g[e] \in Int
      /\ \A i \in DOMAIN f : f[i] \in Int /\ g[i] = f[i]
  OBVIOUS
<1>2. g[e] = u[e].amount /\ AmountOf(t, S) = SumFunction(f) /\ AmountOf(u, S \cup {e}) = SumFunction(g)
  BY DEF AmountOf
<1> HIDE DEF f, g
<1>3. SumFunction(f) \in Int /\ SumFunction(g) = g[e] + SumFunction(f)
  BY <1>1, TotalWith
<1> QED
  BY <1>2, <1>3

\* What the sums of a drawer range over.
LEMMA DrawerParts ==
  ASSUME CounterInv, NEW x \in Sessions, sessions[x] # NoRow
  PROVE  /\ sessions[x].opening \in Nat
         /\ IsFiniteSet(BookedTo(x)) /\ IsFiniteSet(PaidOutOf(x)) /\ IsFiniteSet(MovesOf(x))
         /\ \A id \in BookedTo(x) : sales[id].cash \in Nat
         /\ \A ret \in PaidOutOf(x) : returns[ret].amount \in Nat
         /\ \A k \in MovesOf(x) : cashMoves[k].amount \in Int
         /\ CashOf(sales, BookedTo(x)) \in Int
         /\ AmountOf(returns, PaidOutOf(x)) \in Int
         /\ AmountOf(cashMoves, MovesOf(x)) \in Int
<1>0. SalesTypeOK /\ FiniteRows
  BY DEF CounterInv
<1>1. /\ IsFiniteSet(BookedTo(x)) /\ IsFiniteSet(PaidOutOf(x))
      /\ \A id \in BookedTo(x) : sales[id].cash \in Nat
      /\ \A ret \in PaidOutOf(x) : returns[ret].amount \in Nat
      /\ CashMovementNet(x) \in Int
  BY DrawerTypes
<1>2. IsFiniteSet(MovesOf(x)) /\ \A k \in MovesOf(x) : cashMoves[k].amount \in Int
  <2>1. MovesOf(x) \in SUBSET {k \in CashKeys : cashMoves[k] # NoRow}
    BY DEF MovesOf
  <2>2. \A k \in MovesOf(x) : cashMoves[k] \in CashRow
    BY <1>0 DEF MovesOf, SalesTypeOK, RegisterTypeOK
  <2> QED
    BY <1>0, <2>1, <2>2, FS_Subset DEF FiniteRows, CashRow
<1>3. CashOf(sales, BookedTo(x)) \in Int
  <2> DEFINE f == [i \in BookedTo(x) |-> sales[i].cash]
  <2>1. IsFiniteSet(DOMAIN f) /\ \A i \in DOMAIN f : f[i] \in Nat
    BY <1>1
  <2> HIDE DEF f
  <2>2. SumFunction(f) \in Nat
    BY <2>1, TotalNat
  <2> QED
    BY <2>2 DEF CashOf, f
<1>4. AmountOf(returns, PaidOutOf(x)) \in Int
  <2> DEFINE f == [i \in PaidOutOf(x) |-> returns[i].amount]
  <2>1. IsFiniteSet(DOMAIN f) /\ \A i \in DOMAIN f : f[i] \in Nat
    BY <1>1
  <2> HIDE DEF f
  <2>2. SumFunction(f) \in Nat
    BY <2>1, TotalNat
  <2> QED
    BY <2>2 DEF AmountOf, f
<1>5. AmountOf(cashMoves, MovesOf(x)) \in Int
  BY <1>1 DEF AmountOf, CashMovementNet, MovesOf
<1>6. sessions[x].opening \in Nat
  BY <1>0 DEF SalesTypeOK, RegisterTypeOK, SessionRow
<1> QED
  BY <1>1, <1>2, <1>3, <1>4, <1>5, <1>6

\* What the drawer of a session may do in a step.
DrawerMoves(x) ==
  \/ \E id \in Sales : Unbooked(id, x)
  \/ Drawer(x, Receipts(x))' = Drawer(x, Receipts(x))
  \/ /\ IsOpen(x)
     /\ Drawer(x, Receipts(x)) >= 0 => ~(Drawer(x, Receipts(x))' < 0)

\* A drawer whose rows keep their amounts stays as it is.
LEMMA DrawerStays ==
  ASSUME NEW x \in Sessions,
         sessions'[x].opening = sessions[x].opening,
         BookedTo(x)' = BookedTo(x), \A id \in BookedTo(x) : sales'[id].cash = sales[id].cash,
         PaidOutOf(x)' = PaidOutOf(x), \A ret \in PaidOutOf(x) : returns'[ret].amount = returns[ret].amount,
         MovesOf(x)' = MovesOf(x), \A k \in MovesOf(x) : cashMoves'[k].amount = cashMoves[k].amount
  PROVE  DrawerMoves(x)
<1>1. CashOf(sales', BookedTo(x)) = CashOf(sales, BookedTo(x))
  BY SumsSame
<1>2. AmountOf(returns', PaidOutOf(x)) = AmountOf(returns, PaidOutOf(x))
  BY SumsSame
<1>3. AmountOf(cashMoves', MovesOf(x)) = AmountOf(cashMoves, MovesOf(x))
  BY SumsSame
<1> QED
  BY <1>1, <1>2, <1>3, DrawerIs DEF DrawerMoves

\* checkout puts its cash into the drawer it bills on.
LEMMA DrawerBilled ==
  ASSUME CounterInv, NEW x \in Sessions, sessions[x] # NoRow,
         NEW id \in Sales, NEW store, NEW y \in Sessions, NEW items, NEW price, NEW cash, NEW draft,
         BillMade(id, store, y, items, price, cash, draft)
  PROVE  DrawerMoves(x)
<1> DEFINE row == NewBill(store, y, items, price, cash, draft)
           B == BookedTo(x)
<1>1. /\ sales[id] = NoRow /\ sales'[id] = row /\ row \in SaleRow /\ UNCHANGED <<returns, cashMoves>>
      /\ \A i \in Sales : i # id => sales'[i] = sales[i]
  BY DEF BillMade, Billed, Opened, registerVars
<1>2. row.session = y /\ row.status = "COMPLETED" /\ row.cash \in Nat
  BY <1>1 DEF NewBill, SaleRow
<1>3. sessions'[x].opening = sessions[x].opening /\ (x = y => IsOpen(x))
  BY DEF BillMade, Opened, registerVars
<1>4. PaidOutOf(x)' = PaidOutOf(x) /\ MovesOf(x)' = MovesOf(x)
  BY <1>1 DEF PaidOutOf, MovesOf
<1>5. \A i \in Sales : i # id => (i \in BookedTo(x)' <=> i \in BookedTo(x))
  BY <1>1 DEF BookedTo, Received, Live, ReturnsOf
<1>6. id \notin BookedTo(x) /\ \A i \in BookedTo(x) : i \in Sales /\ i # id
  BY <1>1 DEF BookedTo, Received, Live
<1>7. id \in BookedTo(x)' <=> x = y
  BY <1>1, <1>2, RowsApartFromNone DEF BookedTo, Received, Live, Recognized
<1>8. \A i \in BookedTo(x)' : i \in Sales
  BY DEF BookedTo
<1> HIDE DEF row
<1>9. CASE x # y
  <2>1. BookedTo(x)' = BookedTo(x)
    BY <1>5, <1>6, <1>7, <1>8, <1>9
  <2> QED
    BY <1>1, <1>3, <1>4, <1>6, <2>1, DrawerStays
<1>10. CASE x = y
  <2>1. BookedTo(x)' = BookedTo(x) \cup {id}
    BY <1>5, <1>6, <1>7, <1>8, <1>10
  <2>2. /\ IsFiniteSet(B) /\ id \notin B /\ sales'[id].cash \in Int
        /\ \A i \in B : sales[i].cash \in Int /\ sales'[i].cash = sales[i].cash
    BY <1>1, <1>2, <1>6, DrawerParts
  <2> HIDE DEF B
  <2>3. CashOf(sales, B) \in Int /\ CashOf(sales', B \cup {id}) = CashOf(sales, B) + sales'[id].cash
    BY <2>2, CashMore
  <2>4. AmountOf(returns', PaidOutOf(x)') = AmountOf(returns, PaidOutOf(x))
        /\ AmountOf(cashMoves', MovesOf(x)') = AmountOf(cashMoves, MovesOf(x))
    BY <1>1, <1>4
  <2>5. Drawer(x, Receipts(x)) = sessions[x].opening + (CashOf(sales, B) - AmountOf(returns, PaidOutOf(x)))
                + AmountOf(cashMoves, MovesOf(x))
    BY DrawerIs DEF B
  <2>6. Drawer(x, Receipts(x))' = sessions[x].opening
           + ((CashOf(sales, B) + sales'[id].cash) - AmountOf(returns, PaidOutOf(x)))
           + AmountOf(cashMoves, MovesOf(x))
    BY <1>3, <2>1, <2>3, <2>4, DrawerIs DEF B
  <2> DEFINE o == sessions[x].opening
             c == CashOf(sales, B)
             p == AmountOf(returns, PaidOutOf(x))
             m == AmountOf(cashMoves, MovesOf(x))
             n == sales'[id].cash
             d == Drawer(x, Receipts(x))
             e == Drawer(x, Receipts(x))'
  <2>7. o \in Int /\ c \in Int /\ p \in Int /\ m \in Int /\ n \in Nat
    BY <1>1, <1>2, <2>3, DrawerParts
  <2>8. d = o + (c - p) + m /\ e = o + ((c + n) - p) + m
    BY <2>5, <2>6
  <2> HIDE DEF o, c, p, m, n, d, e
  <2>9. d >= 0 => ~(e < 0)
    BY <2>7, <2>8
  <2> QED
    BY <1>3, <1>10, <2>9 DEF DrawerMoves, d, e
<1> QED
  BY <1>9, <1>10

\* A refund in cash leaves the drawer that pays it, and no other.
LEMMA DrawerRefunded ==
  ASSUME CounterInv, CounterInv', NEW x \in Sessions, sessions[x] # NoRow,
         NEW ret \in Returns, NEW id \in Sales, NEW y \in Sessions, NEW back, NEW cash \in BOOLEAN,
         NEW status \in {"RETURNED", "PARTIALLY_RETURNED", "CANCELLED"},
         TakenBack(ret, id, y, back, cash, status)
  PROVE  DrawerMoves(x)
<1> DEFINE row == NewReturn(id, y, cash, back)
           bill == BillWith(sales[id], NowBack(sales[id], back), status)
           P == PaidOutOf(x)
<1>1. /\ Live(id) /\ sales[id].status \in Recognized /\ returns[ret] = NoRow
      /\ IsOpen(y) /\ (cash => DrawerHolds(y, row.amount))
      /\ returns'[ret] = row /\ row \in ReturnRow
      /\ \A i \in Returns : i # ret => returns'[i] = returns[i]
      /\ sales'[id] = bill /\ bill \in SaleRow
      /\ \A i \in Sales : i # id => sales'[i] = sales[i]
      /\ UNCHANGED <<sessions, cashMoves>>
  BY DEF TakenBack, Returned, Billed, NewReturn, Recognized, registerVars
<1>2. /\ row.sale = id /\ row.session = y /\ row.cash = cash /\ ~row.deleted /\ row.amount \in Nat /\ row # NoRow
  BY <1>1, RowsApartFromNone DEF NewReturn, ReturnRow
<1>3. /\ bill.session = sales[id].session /\ bill.status = status /\ bill.cash = sales[id].cash /\ bill # NoRow
  <2>1. sales[id] \in SaleRow
    BY <1>1, CounterParts, BillType DEF Live
  <2> QED
    BY <1>1, <2>1, RowsApartFromNone DEF BillWith, SaleRow
<1> HIDE DEF row, bill
<1>4. MovesOf(x)' = MovesOf(x) /\ sessions'[x].opening = sessions[x].opening
  BY <1>1 DEF MovesOf
<1>5. \A i \in Sales : i # id => ReturnsOf(i)' = ReturnsOf(i)
  BY <1>1, <1>2 DEF ReturnsOf
<1>6. ret \in ReturnsOf(id)'
  BY <1>1, <1>2 DEF ReturnsOf
<1>7. BookedTo(x)' = BookedTo(x)
  <2>1. \A i \in Sales : i # id => (i \in BookedTo(x)' <=> i \in BookedTo(x))
    BY <1>1, <1>5 DEF BookedTo, Received, Live
  <2>2. Received(id) /\ Received(id)'
    BY <1>1, <1>3, <1>6 DEF Received, Live, Recognized
  <2>3. id \in BookedTo(x)' <=> id \in BookedTo(x)
    BY <1>1, <1>3, <2>2 DEF BookedTo
  <2>4. (\A i \in BookedTo(x)' : i \in Sales) /\ \A i \in BookedTo(x) : i \in Sales
    BY DEF BookedTo
  <2> QED
    BY <2>1, <2>3, <2>4
<1>8. \A i \in BookedTo(x) : sales'[i].cash = sales[i].cash
  BY <1>1, <1>3 DEF BookedTo
<1>9. /\ ret \notin P /\ (\A i \in P : i \in Returns /\ i # ret /\ returns'[i].amount = returns[i].amount)
      /\ \A i \in Returns : i # ret => (i \in PaidOutOf(x)' <=> i \in P)
      /\ ret \in PaidOutOf(x)' <=> cash /\ x = y
      /\ \A i \in PaidOutOf(x)' : i \in Returns
  BY <1>1, <1>2 DEF PaidOutOf
<1>10. CASE ~(cash /\ x = y)
  <2>1. PaidOutOf(x)' = PaidOutOf(x)
    BY <1>9, <1>10
  <2> QED
    BY <1>1, <1>4, <1>7, <1>8, <1>9, <2>1, DrawerStays
<1>11. CASE cash /\ x = y
  <2>1. PaidOutOf(x)' = P \cup {ret}
    BY <1>9, <1>11
  <2>2. /\ IsFiniteSet(P) /\ returns'[ret].amount \in Int
        /\ \A i \in P : returns[i].amount \in Int
    BY <1>1, <1>2, DrawerParts
  <2> HIDE DEF P
  <2>3. AmountOf(returns, P) \in Int /\ AmountOf(returns', P \cup {ret}) = AmountOf(returns, P) + returns'[ret].amount
    BY <1>9, <2>2, AmountMore
  <2>4. CashOf(sales', BookedTo(x)) = CashOf(sales, BookedTo(x))
    BY <1>8, SumsSame
  <2>5. Drawer(x, Receipts(x)) = sessions[x].opening + (CashOf(sales, BookedTo(x)) - AmountOf(returns, P))
                + AmountOf(cashMoves, MovesOf(x))
    BY DrawerIs DEF P
  <2>6. Drawer(x, Receipts(x))' = sessions[x].opening
           + (CashOf(sales, BookedTo(x)) - (AmountOf(returns, P) + row.amount))
           + AmountOf(cashMoves, MovesOf(x))
    <3>1. AmountOf(cashMoves', MovesOf(x)') = AmountOf(cashMoves, MovesOf(x))
      BY <1>1, <1>4
    <3> QED
      BY <1>1, <1>7, <2>1, <2>3, <2>4, <3>1, DrawerIs DEF P
  <2> DEFINE o == sessions[x].opening
             c == CashOf(sales, BookedTo(x))
             p == AmountOf(returns, P)
             m == AmountOf(cashMoves, MovesOf(x))
             n == row.amount
             d == Drawer(x, Receipts(x))
             e == Drawer(x, Receipts(x))'
  <2>7. o \in Int /\ c \in Int /\ p \in Int /\ m \in Int /\ n \in Nat /\ d >= n
    BY <1>1, <1>2, <1>11, <2>3, DrawerParts DEF DrawerHolds
  <2>8. d = o + (c - p) + m /\ e = o + (c - (p + n)) + m
    BY <2>5, <2>6
  <2> HIDE DEF o, c, p, m, n, d, e
  <2>9. ~(e < 0)
    BY <2>7, <2>8
  <2> QED
    BY <1>1, <1>11, <2>9 DEF DrawerMoves, e
<1> QED
  BY <1>10, <1>11

\* Bills voided or deleted change the drawer only of sessions they are unbooked from.
LEMMA DrawerUnbooked ==
  ASSUME CounterInv, NEW x \in Sessions, sessions[x] # NoRow,
         NEW ids \in SUBSET Sales, \A id \in ids : Live(id), NEW status, WithStatus(ids, status),
         UNCHANGED registerVars,
         (status = "CANCELLED" /\ UNCHANGED returns) \/ (status = "DELETED" /\ Marked(ids))
  PROVE  DrawerMoves(x)
<1>1. CASE \E id \in Sales : Unbooked(id, x)
  BY <1>1 DEF DrawerMoves
<1>2. CASE ~\E id \in Sales : Unbooked(id, x)
  <2>1. \A id \in ids : sales[id].session # x /\ \A ret \in ReturnsOf(id) : returns[ret].session # x
    <3> SUFFICES ASSUME NEW id \in ids
                 PROVE  sales[id].session # x /\ \A ret \in ReturnsOf(id) : returns[ret].session # x
      OBVIOUS
    <3>1. id \in Sales /\ Live(id) /\ sales'[id].status = status
      BY DEF WithStatus
    <3>2. sales'[id].status = "DELETED" \/ (sales'[id].status = "CANCELLED" /\ returns' = returns)
      BY <3>1
    <3> QED
      BY <1>2, <3>1, <3>2 DEF Unbooked
  <2>2. \A i \in Sales : i \notin ids => sales'[i] = sales[i]
    BY DEF WithStatus
  <2>3. \A i \in ids : sales'[i].session # x /\ sales[i].session # x
    BY <2>1 DEF WithStatus
  <2>4. \A i \in Sales : i \notin ids => ReturnsOf(i)' = ReturnsOf(i)
    BY DEF ReturnsOf, Marked
  <2>5. \A i \in Sales : i \in BookedTo(x)' <=> i \in BookedTo(x)
    BY <2>2, <2>3, <2>4 DEF BookedTo, Received, Live
  <2>6. BookedTo(x)' = BookedTo(x)
    <3>1. (\A i \in BookedTo(x)' : i \in Sales) /\ \A i \in BookedTo(x) : i \in Sales
      BY DEF BookedTo
    <3> QED
      BY <2>5, <3>1
  <2>7. \A i \in BookedTo(x) : sales'[i].cash = sales[i].cash
    BY <2>2, <2>3 DEF BookedTo
  <2>8. \A ret \in Returns : ret \in PaidOutOf(x)' <=> ret \in PaidOutOf(x)
    <3>1. CASE UNCHANGED returns
      BY <3>1 DEF PaidOutOf
    <3>2. CASE Marked(ids)
      <4> SUFFICES ASSUME NEW ret \in Returns PROVE ret \in PaidOutOf(x)' <=> ret \in PaidOutOf(x)
        OBVIOUS
      <4>1. CASE returns[ret] # NoRow /\ returns[ret].sale \in ids
        <5>1. ret \notin PaidOutOf(x)'
          BY <3>2, <4>1 DEF Marked, PaidOutOf
        <5>2. ret \in PaidOutOf(x) => ret \in ReturnsOf(returns[ret].sale) /\ returns[ret].session = x
          BY DEF PaidOutOf, ReturnsOf
        <5> QED
          BY <2>1, <4>1, <5>1, <5>2
      <4>2. CASE ~(returns[ret] # NoRow /\ returns[ret].sale \in ids)
        BY <3>2, <4>2 DEF Marked, PaidOutOf
      <4> QED
        BY <4>1, <4>2
    <3> QED
      BY <3>1, <3>2
  <2>9. PaidOutOf(x)' = PaidOutOf(x)
    <3>1. (\A i \in PaidOutOf(x)' : i \in Returns) /\ \A i \in PaidOutOf(x) : i \in Returns
      BY DEF PaidOutOf
    <3> QED
      BY <2>8, <3>1
  <2>10. \A ret \in PaidOutOf(x) : returns'[ret].amount = returns[ret].amount
    <3> SUFFICES ASSUME NEW ret \in PaidOutOf(x) PROVE returns'[ret].amount = returns[ret].amount
      OBVIOUS
    <3>1. CASE UNCHANGED returns
      BY <3>1
    <3>2. CASE Marked(ids)
      <4>1. ret \in Returns /\ returns[ret] # NoRow /\ ret \in ReturnsOf(returns[ret].sale) /\ returns[ret].session = x
        BY DEF PaidOutOf, ReturnsOf
      <4>2. returns[ret].sale \notin ids
        BY <2>1, <4>1
      <4> QED
        BY <3>2, <4>1, <4>2 DEF Marked
    <3> QED
      BY <3>1, <3>2
  <2>11. MovesOf(x)' = MovesOf(x) /\ sessions'[x].opening = sessions[x].opening
         /\ \A k \in MovesOf(x) : cashMoves'[k].amount = cashMoves[k].amount
    BY DEF MovesOf, registerVars
  <2> QED
    BY <2>6, <2>7, <2>9, <2>10, <2>11, DrawerStays
<1> QED
  BY <1>1, <1>2

\* reconcilePayment moves no drawer.
LEMMA DrawerReconciled ==
  ASSUME CounterInv, NEW x \in Sessions, Reconciled
  PROVE  DrawerMoves(x)
<1>1. UNCHANGED registerVars
  BY DEF Reconciled
<1>2. MovesOf(x)' = MovesOf(x) /\ sessions'[x].opening = sessions[x].opening
      /\ \A k \in MovesOf(x) : cashMoves'[k].amount = cashMoves[k].amount
  BY <1>1 DEF MovesOf, registerVars
<1>3. CASE SameBills /\ UNCHANGED returns
  <2>1. BookedTo(x)' = BookedTo(x)
    BY <1>3 DEF BookedTo, Received, Live, ReturnsOf, SameBills
  <2>2. \A i \in BookedTo(x) : sales'[i].cash = sales[i].cash
    BY <1>3 DEF BookedTo, Received, Live, SameBills
  <2>3. PaidOutOf(x)' = PaidOutOf(x) /\ \A ret \in PaidOutOf(x) : returns'[ret].amount = returns[ret].amount
    BY <1>3 DEF PaidOutOf
  <2> QED
    BY <1>2, <2>1, <2>2, <2>3, DrawerStays
<1>4. CASE SameReturns /\ UNCHANGED sales
  <2>1. \A i \in Sales : ReturnsOf(i)' = ReturnsOf(i)
    BY <1>4 DEF ReturnsOf, SameReturns
  <2>2. BookedTo(x)' = BookedTo(x) /\ \A i \in BookedTo(x) : sales'[i].cash = sales[i].cash
    BY <1>4, <2>1 DEF BookedTo, Received, Live
  <2>3. PaidOutOf(x)' = PaidOutOf(x) /\ \A ret \in PaidOutOf(x) : returns'[ret].amount = returns[ret].amount
    BY <1>4 DEF PaidOutOf, SameReturns
  <2> QED
    BY <1>2, <2>2, <2>3, DrawerStays
<1> QED
  BY <1>3, <1>4 DEF Reconciled

\* Opening, cash movements and closing leave what bills brought.
LEMMA DrawerUnsold ==
  ASSUME NEW x \in Sessions, UNCHANGED <<sales, returns>>
  PROVE  /\ BookedTo(x)' = BookedTo(x) /\ \A i \in BookedTo(x) : sales'[i].cash = sales[i].cash
         /\ PaidOutOf(x)' = PaidOutOf(x) /\ \A ret \in PaidOutOf(x) : returns'[ret].amount = returns[ret].amount
<1>1. \A i \in Sales : ReturnsOf(i)' = ReturnsOf(i)
  BY DEF ReturnsOf
<1> QED
  BY <1>1 DEF BookedTo, PaidOutOf, Received, Live

\* Steps that leave registers, bills and returns leave the drawers.
LEMMA DrawerUntouched ==
  ASSUME NEW x \in Sessions, UNCHANGED <<registerVars, sales, returns>>
  PROVE  DrawerMoves(x)
<1>1. MovesOf(x)' = MovesOf(x) /\ sessions'[x].opening = sessions[x].opening
      /\ \A k \in MovesOf(x) : cashMoves'[k].amount = cashMoves[k].amount
  BY DEF MovesOf, registerVars
<1> QED
  BY <1>1, DrawerUnsold, DrawerStays

\* Registers: a movement out of a drawer is covered by it.
LEMMA DrawerRegister ==
  ASSUME CounterInv, NEW x \in Sessions, sessions[x] # NoRow, RegisterMoved, UNCHANGED <<sales, returns>>
  PROVE  DrawerMoves(x)
<1>1. ASSUME UNCHANGED cashMoves, sessions'[x].opening = sessions[x].opening
      PROVE  DrawerMoves(x)
  <2>1. MovesOf(x)' = MovesOf(x) /\ \A k \in MovesOf(x) : cashMoves'[k].amount = cashMoves[k].amount
    BY <1>1 DEF MovesOf
  <2> QED
    BY <1>1, <2>1, DrawerUnsold, DrawerStays
<1>2. ASSUME NEW y \in Sessions, NEW n, Opened(y, n) PROVE DrawerMoves(x)
  BY <1>1, <1>2 DEF Opened
<1>3. ASSUME NEW y \in Sessions, UNCHANGED cashMoves, sessions'[y].opening = sessions[y].opening,
             \A z \in Sessions : z # y => sessions'[z] = sessions[z]
      PROVE  DrawerMoves(x)
  <2>1. sessions'[x].opening = sessions[x].opening
    BY <1>3
  <2> QED
    BY <1>1, <1>3, <2>1
<1>4. ASSUME NEW k \in CashKeys, NEW y \in Sessions, NEW n \in Int,
             UNCHANGED sessions, cashMoves[k] = NoRow, IsOpen(y), n < 0 => Drawer(y, Receipts(y)) >= -n,
             cashMoves'[k] = [session |-> y, amount |-> n], cashMoves'[k] # NoRow,
             \A j \in CashKeys : j # k => cashMoves'[j] = cashMoves[j]
      PROVE  DrawerMoves(x)
  <2> DEFINE K == MovesOf(x)
  <2>1. /\ k \notin K /\ (\A i \in K : i \in CashKeys /\ i # k /\ cashMoves'[i].amount = cashMoves[i].amount)
        /\ \A i \in CashKeys : i # k => (i \in MovesOf(x)' <=> i \in K)
        /\ k \in MovesOf(x)' <=> x = y
        /\ \A i \in MovesOf(x)' : i \in CashKeys
    BY <1>4 DEF MovesOf
  <2>2. CASE x # y
    <3>1. MovesOf(x)' = MovesOf(x)
      BY <2>1, <2>2
    <3> QED
      BY <1>4, <2>1, <3>1, DrawerUnsold, DrawerStays
  <2>3. CASE x = y
    <3>1. MovesOf(x)' = K \cup {k}
      BY <2>1, <2>3
    <3>2. IsFiniteSet(K) /\ cashMoves'[k].amount \in Int /\ \A i \in K : cashMoves[i].amount \in Int
      BY <1>4, DrawerParts
    <3>a. k \notin K /\ \A i \in K : cashMoves[i].amount \in Int /\ cashMoves'[i].amount = cashMoves[i].amount
      BY <2>1, <3>2
    <3> HIDE DEF K
    <3>3. AmountOf(cashMoves, K) \in Int /\ AmountOf(cashMoves', K \cup {k}) = AmountOf(cashMoves, K) + cashMoves'[k].amount
      BY <3>2, <3>a, AmountMore
    <3>b. cashMoves'[k].amount = n
      BY <1>4
    <3>c. sessions'[x].opening = sessions[x].opening
      BY <1>4
    <3>4. /\ CashOf(sales', BookedTo(x)') = CashOf(sales, BookedTo(x))
          /\ AmountOf(returns', PaidOutOf(x)') = AmountOf(returns, PaidOutOf(x))
      BY DrawerUnsold
    <3>5. Drawer(x, Receipts(x)) = sessions[x].opening
             + (CashOf(sales, BookedTo(x)) - AmountOf(returns, PaidOutOf(x))) + AmountOf(cashMoves, K)
      BY DrawerIs DEF K
    <3>6. Drawer(x, Receipts(x))' = sessions[x].opening
             + (CashOf(sales, BookedTo(x)) - AmountOf(returns, PaidOutOf(x))) + (AmountOf(cashMoves, K) + n)
      BY <3>1, <3>3, <3>4, <3>b, <3>c, DrawerIs DEF K
    <3> DEFINE o == sessions[x].opening
               c == CashOf(sales, BookedTo(x))
               p == AmountOf(returns, PaidOutOf(x))
               m == AmountOf(cashMoves, K)
               d == Drawer(x, Receipts(x))
               e == Drawer(x, Receipts(x))'
    <3>7. o \in Int /\ c \in Int /\ p \in Int /\ m \in Int /\ n \in Int /\ (n < 0 => d >= -n)
      BY <1>4, <2>3, <3>3, DrawerParts
    <3>8. d = o + (c - p) + m /\ e = o + (c - p) + (m + n)
      BY <3>5, <3>6
    <3> HIDE DEF o, c, p, m, d, e
    <3>9. d >= 0 => ~(e < 0)
      BY <3>7, <3>8
    <3> QED
      BY <1>4, <2>3, <3>9 DEF DrawerMoves, d, e
  <2> QED
    BY <2>2, <2>3
<1> QED
  BY <1>2, <1>3, <1>4 DEF RegisterMoved

\* Every step moves a drawer as it may.
LEMMA DrawerStep ==
  ASSUME CounterInv, CounterInv', Effects, NEW x \in Sessions, sessions[x] # NoRow
  PROVE  DrawerMoves(x)
<1>1. ASSUME NEW id \in Sales, NEW store \in Stores, NEW y \in Sessions, NEW items \in Items, NEW price \in Prices,
             NEW cash \in 0..MaxCash, NEW draft \in DraftKinds, BillMade(id, store, y, items, price, cash, draft)
      PROVE  DrawerMoves(x)
  BY <1>1, DrawerBilled
<1>2. ASSUME NEW ret \in Returns, NEW id \in Sales, NEW y \in Sessions, NEW returning \in Items, NEW cash \in BOOLEAN,
             UnitsReturned(ret, id, y, returning, cash)
      PROVE  DrawerMoves(x)
  <2> DEFINE status == IF NowBack(sales[id], returning) = sales[id].items THEN "RETURNED" ELSE "PARTIALLY_RETURNED"
  <2>1. TakenBack(ret, id, y, returning, cash, status) /\ status \in {"RETURNED", "PARTIALLY_RETURNED", "CANCELLED"}
    BY <1>2 DEF UnitsReturned
  <2> HIDE DEF status
  <2> QED
    BY <2>1, DrawerRefunded
<1>3. ASSUME NEW ret \in Returns, NEW id \in Sales, NEW y \in Sessions, NEW cash \in BOOLEAN, Refunds(ret, id, y, cash)
      PROVE  DrawerMoves(x)
  <2> DEFINE back == sales[id].items
  <2>1. TakenBack(ret, id, y, back, cash, "CANCELLED")
    BY <1>3 DEF Refunds
  <2> HIDE DEF back
  <2> QED
    BY <2>1, DrawerRefunded
<1>4. ASSUME NEW ids \in SUBSET Sales, Voided(ids) PROVE DrawerMoves(x)
  <2>1. WithStatus(ids, "CANCELLED") /\ (\A id \in ids : Live(id)) /\ UNCHANGED registerVars /\ UNCHANGED returns
    BY <1>4 DEF Voided
  <2> QED
    BY <2>1, DrawerUnbooked
<1>5. ASSUME NEW id \in Sales, DeletedOne(id) PROVE DrawerMoves(x)
  <2>1. WithStatus({id}, "DELETED") /\ (\A i \in {id} : Live(i)) /\ UNCHANGED registerVars /\ Marked({id})
        /\ {id} \in SUBSET Sales
    BY <1>5 DEF DeletedOne
  <2> QED
    BY <2>1, DrawerUnbooked
<1>6. ASSUME NEW ids \in SUBSET Sales, \A id \in ids : Live(id), Cleared(ids) PROVE DrawerMoves(x)
  <2>1. WithStatus(ids, "DELETED") /\ UNCHANGED registerVars /\ Marked(ids)
    BY <1>6 DEF Cleared
  <2> QED
    BY <1>6, <2>1, DrawerUnbooked
<1>7. ASSUME RegisterMoved, UNCHANGED <<stockVars, commissionVars, sales, returns>> PROVE DrawerMoves(x)
  BY <1>7, DrawerRegister
<1>8. ASSUME UNCHANGED <<registerVars, sales, returns>> PROVE DrawerMoves(x)
  BY <1>8, DrawerUntouched
<1> QED
  BY <1>1, <1>2, <1>3, <1>4, <1>5, <1>6, <1>7, <1>8, DrawerReconciled DEF Effects, StockMoved, vars

\* A closed session keeps its row.
LEMMA ClosedStays ==
  ASSUME CounterInv, Effects, NEW x \in Sessions, sessions[x] # NoRow, sessions[x].closed
  PROVE  sessions'[x] = sessions[x]
<1>1. ASSUME RegisterMoved PROVE sessions'[x] = sessions[x]
  BY <1>1 DEF RegisterMoved, Opened, IsOpen
<1>2. \A id, store, y, items, price, cash, draft :
        BillMade(id, store, y, items, price, cash, draft) => sessions'[x] = sessions[x]
  BY DEF BillMade, Opened, registerVars
<1>3. \A ret, id, y, back, cash, status : TakenBack(ret, id, y, back, cash, status) => sessions'[x] = sessions[x]
  BY DEF TakenBack, registerVars
<1>4. \A ret, id, y, returning, cash : UnitsReturned(ret, id, y, returning, cash) => sessions'[x] = sessions[x]
  BY <1>3 DEF UnitsReturned
<1>5. \A ret, id, y, cash : Refunds(ret, id, y, cash) => sessions'[x] = sessions[x]
  BY <1>3 DEF Refunds
<1>6. \A ids : Voided(ids) \/ Cleared(ids) => sessions'[x] = sessions[x]
  BY DEF Voided, Cleared, registerVars
<1>7. \A id : DeletedOne(id) => sessions'[x] = sessions[x]
  BY DEF DeletedOne, registerVars
<1>8. Reconciled \/ StockMoved => sessions'[x] = sessions[x]
  BY DEF Reconciled, StockMoved, registerVars
<1>9. UNCHANGED registerVars \/ UNCHANGED vars => sessions'[x] = sessions[x]
  BY DEF registerVars, vars
<1> QED
  BY <1>1, <1>2, <1>4, <1>5, <1>6, <1>7, <1>8, <1>9 DEF Effects

\* returnSale, cancelSale with a refund, cashMovement: what leaves a drawer is in
\* it, whatever other sessions, bills and returns do.
THEOREM DrawersCovered == Spec => DrawerNeverOverdrawn
<1>1. CounterInv /\ [Next]_vars =>
        [\A x \in Sessions :
           /\ sessions[x] # NoRow
           /\ Drawer(x, Receipts(x)) >= 0 /\ Drawer(x, Receipts(x))' < 0
           => \E id \in Sales : Unbooked(id, x)]_vars
  <2> SUFFICES ASSUME CounterInv, [Next]_vars, NEW x \in Sessions, sessions[x] # NoRow,
                      Drawer(x, Receipts(x)) >= 0, Drawer(x, Receipts(x))' < 0
               PROVE  \E id \in Sales : Unbooked(id, x)
    OBVIOUS
  <2>1. CounterInv' /\ DrawerMoves(x)
    BY CounterStep, DrawerStep
  <2> DEFINE d == Drawer(x, Receipts(x))
             e == Drawer(x, Receipts(x))'
  <2>2. (\E id \in Sales : Unbooked(id, x)) \/ e = d \/ ~(e < 0)
    BY <2>1 DEF DrawerMoves
  <2>3. d \in Int /\ d >= 0 /\ e < 0
    BY DrawerTypes
  <2> HIDE DEF d, e
  <2>4. ~(e = d)
    BY <2>3
  <2> QED
    BY <2>2, <2>3, <2>4
<1> QED
  BY <1>1, CounterInvariant, PTL DEF Spec, DrawerNeverOverdrawn

\* closeSession freezes what the drawer should hold: neither the row nor the
\* recomputed drawer of a closed session changes, unless a bill is unbooked.
THEOREM ClosedSessionsKept == Spec => ClosedSessionsAreHistory
<1>1. CounterInv /\ [Next]_vars =>
        [\A x \in Sessions : sessions[x] # NoRow /\ sessions[x].closed =>
           /\ sessions'[x] = sessions[x]
           /\ Drawer(x, Receipts(x))' # Drawer(x, Receipts(x)) => \E id \in Sales : Unbooked(id, x)]_vars
  <2> SUFFICES ASSUME CounterInv, [Next]_vars, NEW x \in Sessions, sessions[x] # NoRow, sessions[x].closed
               PROVE  /\ sessions'[x] = sessions[x]
                      /\ Drawer(x, Receipts(x))' # Drawer(x, Receipts(x)) => \E id \in Sales : Unbooked(id, x)
    OBVIOUS
  <2>1. CounterInv' /\ Effects
    BY CounterStep
  <2>2. DrawerMoves(x) /\ sessions'[x] = sessions[x]
    BY <2>1, DrawerStep, ClosedStays
  <2> QED
    BY <2>2 DEF DrawerMoves, IsOpen
<1> QED
  BY <1>1, CounterInvariant, PTL DEF Spec, ClosedSessionsAreHistory

-----------------------------------------------------------------------------
(* What a bill and its returns say of each other.                           *)

\* Refunds of a line: amounts of money, nothing while nothing is back, the line's
\* price once all of it is.
LEMMA RefundedShare ==
  ASSUME NEW price \in [net : Nat, tax : Nat], NEW units \in Nat, NEW back \in Nat
  PROVE  /\ Refunded(price, units, back) \in Nat
         /\ back = 0 => Refunded(price, units, back) = 0
         /\ units > 0 /\ back = units => Refunded(price, units, back) = price.net + price.tax
         /\ back <= units => Refunded(price, units, back) <= price.net + price.tax
<1> DEFINE net == price.net
           tax == price.tax
           r == Refunded(price, units, back)
           n == RoundDiv(net * back, units)
           t == RoundDiv(tax * back, units)
<1>0. net \in Nat /\ tax \in Nat
  OBVIOUS
<1>1. CASE units = 0
  <2>1. r = 0
    BY <1>1 DEF Refunded
  <2> HIDE DEF r, net, tax
  <2>2. r \in Nat /\ (back = 0 => r = 0) /\ (units > 0 /\ back = units => r = net + tax)
        /\ (back <= units => r <= net + tax)
    BY <1>0, <1>1, <2>1
  <2> QED
    BY <2>2 DEF r, net, tax
<1>2. CASE units # 0
  <2>0. units \in Nat \ {0}
    BY <1>2
  <2>1. r = n + t
    BY <1>2 DEF Refunded
  <2> HIDE DEF net, tax
  <2>2. /\ n \in Nat /\ (back = 0 => n = 0) /\ (back = units => n = net)
        /\ back <= units => n <= net
    <3>1. /\ \A k \in Nat : RoundDiv(net * k, units) \in Nat
          /\ \A j \in Nat, k \in Nat : j <= k => RoundDiv(net * j, units) <= RoundDiv(net * k, units)
          /\ RoundDiv(net * 0, units) = 0 /\ RoundDiv(net * units, units) = net
      BY <1>0, <2>0, Shares
    <3>2. n \in Nat
      BY <3>1
    <3>3. back <= units => n <= RoundDiv(net * units, units)
      BY <3>1
    <3> QED
      BY <3>1, <3>2, <3>3
  <2>3. /\ t \in Nat /\ (back = 0 => t = 0) /\ (back = units => t = tax)
        /\ back <= units => t <= tax
    <3>1. /\ \A k \in Nat : RoundDiv(tax * k, units) \in Nat
          /\ \A j \in Nat, k \in Nat : j <= k => RoundDiv(tax * j, units) <= RoundDiv(tax * k, units)
          /\ RoundDiv(tax * 0, units) = 0 /\ RoundDiv(tax * units, units) = tax
      BY <1>0, <2>0, Shares
    <3>2. t \in Nat
      BY <3>1
    <3>3. back <= units => t <= RoundDiv(tax * units, units)
      BY <3>1
    <3> QED
      BY <3>1, <3>2, <3>3
  <2> HIDE DEF r, n, t
  <2>4. r \in Nat /\ (back = 0 => r = 0) /\ (back = units => r = net + tax)
        /\ (back <= units => r <= net + tax)
    BY <1>0, <2>1, <2>2, <2>3
  <2> QED
    BY <2>4 DEF r, net, tax
<1> QED
  BY <1>1, <1>2

\* All that has been refunded of a bill, and the units of a line in its returns.
RefundsOf(sale) == [l \in SaleLines |-> Refunded(sale.price[l], sale.items[l], sale.returned[l])]
SoFar(sale) == SumFunction(RefundsOf(sale))
QuantityOf(rets, R, l) == SumFunction([ret \in R |-> rets[ret].quantity[l]])

\* The numbers of a line.
LEMMA BillLine ==
  ASSUME NEW sale \in SaleRow, NEW l \in SaleLines
  PROVE  /\ sale.price[l] \in [net : Nat, tax : Nat] /\ sale.price[l].net \in Nat /\ sale.price[l].tax \in Nat
         /\ sale.items[l] \in Nat /\ sale.returned[l] \in Nat
<1>1. /\ sale.price \in [SaleLines -> [net : Nat, tax : Nat]]
      /\ sale.items \in [SaleLines -> Nat] /\ sale.returned \in [SaleLines -> Nat]
  BY DEF SaleRow
<1> QED
  BY <1>1

\* What is refunded of each line is an amount of money.
LEMMA RefundsOfType ==
  ASSUME NEW sale \in SaleRow
  PROVE  /\ DOMAIN RefundsOf(sale) = SaleLines /\ IsFiniteSet(SaleLines)
         /\ \A l \in SaleLines : RefundsOf(sale)[l] \in Nat
<1>1. \A l \in SaleLines : RefundsOf(sale)[l] = Refunded(sale.price[l], sale.items[l], sale.returned[l])
  BY DEF RefundsOf
<1>2. ASSUME NEW l \in SaleLines PROVE RefundsOf(sale)[l] \in Nat
  <2>1. sale.price[l] \in [net : Nat, tax : Nat] /\ sale.items[l] \in Nat /\ sale.returned[l] \in Nat
    BY BillLine
  <2>2. Refunded(sale.price[l], sale.items[l], sale.returned[l]) \in Nat
    BY <2>1, RefundedShare
  <2> QED
    BY <1>1, <2>2
<1> QED
  BY <1>2, SaleLinesFinite DEF RefundsOf

\* The whole bill.
LEMMA RefundsWithinBill ==
  ASSUME NEW sale \in SaleRow, \A l \in SaleLines : sale.returned[l] <= sale.items[l]
  PROVE  SoFar(sale) \in Nat /\ SoFar(sale) <= Total(sale.price)
<1> DEFINE f == RefundsOf(sale)
           g == [l \in SaleLines |-> sale.price[l].net + sale.price[l].tax]
<1>1. /\ DOMAIN f = SaleLines /\ IsFiniteSet(SaleLines) /\ DOMAIN g = SaleLines
      /\ \A l \in SaleLines : f[l] \in Nat
  BY RefundsOfType
<1>2. ASSUME NEW l \in SaleLines PROVE g[l] \in Nat /\ f[l] <= g[l]
  <2>1. f[l] = Refunded(sale.price[l], sale.items[l], sale.returned[l]) /\ g[l] = sale.price[l].net + sale.price[l].tax
    BY DEF RefundsOf
  <2> HIDE DEF f, g
  <2>2. /\ sale.price[l] \in [net : Nat, tax : Nat] /\ sale.price[l].net \in Nat /\ sale.price[l].tax \in Nat
        /\ sale.items[l] \in Nat /\ sale.returned[l] \in Nat
    BY BillLine
  <2>3. Refunded(sale.price[l], sale.items[l], sale.returned[l]) <= sale.price[l].net + sale.price[l].tax
    BY <2>2, RefundedShare
  <2> QED
    BY <2>1, <2>2, <2>3
<1>3. SoFar(sale) = SumFunction(f) /\ Total(sale.price) = SumFunction(g)
  BY DEF SoFar, Total
<1> HIDE DEF f, g
<1>4. SumFunction(f) \in Nat
  BY <1>1, TotalNat
<1>5. SumFunction(f) <= SumFunction(g)
  <2>1. \A l \in DOMAIN f : f[l] \in Int /\ g[l] \in Int /\ f[l] <= g[l]
    BY <1>1, <1>2
  <2> QED
    BY <1>1, <2>1, TotalWithin
<1> QED
  BY <1>3, <1>4, <1>5

\* Once every unit is back everything is refunded, whatever the rounding of the parts.
LEMMA AllBackAllRefunded ==
  ASSUME NEW sale \in SaleRow, sale.returned = sale.items,
         \A l \in SaleLines : sale.items[l] = 0 => sale.price[l].net = 0 /\ sale.price[l].tax = 0
  PROVE  SoFar(sale) = Total(sale.price)
<1>1. ASSUME NEW l \in SaleLines
      PROVE  Refunded(sale.price[l], sale.items[l], sale.returned[l]) = sale.price[l].net + sale.price[l].tax
  <2>1. /\ sale.price[l] \in [net : Nat, tax : Nat] /\ sale.items[l] \in Nat /\ sale.returned[l] \in Nat
        /\ sale.returned[l] = sale.items[l]
    BY BillLine
  <2>2. CASE sale.items[l] = 0
    BY <2>1, <2>2 DEF Refunded
  <2>3. CASE sale.items[l] > 0
    BY <2>1, <2>3, RefundedShare
  <2> QED
    BY <2>1, <2>2, <2>3
<1>2. RefundsOf(sale) = [l \in SaleLines |-> sale.price[l].net + sale.price[l].tax]
  BY <1>1 DEF RefundsOf
<1> QED
  BY <1>2 DEF SoFar, Total

\* Nothing back, nothing refunded.
LEMMA NoneBackNoneRefunded ==
  ASSUME NEW sale \in SaleRow, \A l \in SaleLines : sale.returned[l] = 0
  PROVE  SoFar(sale) = 0
<1> DEFINE f == RefundsOf(sale)
<1>1. ASSUME NEW l \in SaleLines PROVE f[l] = 0
  <2>1. f[l] = Refunded(sale.price[l], sale.items[l], sale.returned[l])
    BY DEF RefundsOf
  <2>2. sale.price[l] \in [net : Nat, tax : Nat] /\ sale.items[l] \in Nat /\ sale.returned[l] \in Nat
    BY BillLine
  <2> QED
    BY <2>1, <2>2, RefundedShare
<1>2. DOMAIN f = SaleLines /\ IsFiniteSet(SaleLines)
  BY RefundsOfType
<1> HIDE DEF f
<1>3. SumFunction(f) = 0
  BY <1>1, <1>2, TotalZero
<1> QED
  BY <1>3 DEF SoFar, f

\* A return refunds what its units add to the shares of the bill.
LEMMA RefundAdds ==
  ASSUME NEW sale \in SaleRow, NEW returning \in [SaleLines -> Nat], Returnable(sale, returning),
         NEW bill \in SaleRow, bill.price = sale.price, bill.items = sale.items,
         bill.returned = NowBack(sale, returning)
  PROVE  SoFar(bill) = SoFar(sale) + RefundAmount(sale, returning)
<1> DEFINE S == SoldLines(returning)
           f == RefundsOf(sale)
           h == RefundsOf(bill)
           p == RefundParts(sale, returning)
           g == [l \in SaleLines |-> IF l \in S THEN p[l] ELSE 0]
<1>1. /\ DOMAIN f = SaleLines /\ DOMAIN h = SaleLines /\ DOMAIN g = SaleLines /\ IsFiniteSet(SaleLines)
      /\ \A l \in SaleLines : f[l] \in Nat /\ h[l] \in Nat
  BY RefundsOfType
<1>2. /\ DOMAIN p = S /\ S \subseteq SaleLines
      /\ \A l \in S : /\ p[l] \in Nat
                      /\ p[l] = Refunded(sale.price[l], sale.items[l], sale.returned[l] + returning[l])
                                  - Refunded(sale.price[l], sale.items[l], sale.returned[l])
  BY RefundPartsType DEF RefundParts
<1>3. \A l \in SaleLines : IF l \in S THEN g[l] = p[l] ELSE g[l] = 0
  OBVIOUS
<1>4. ASSUME NEW l \in SaleLines
      PROVE  /\ f[l] = Refunded(sale.price[l], sale.items[l], sale.returned[l])
             /\ h[l] = Refunded(sale.price[l], sale.items[l], sale.returned[l] + returning[l])
  BY DEF RefundsOf, NowBack
<1>5. \A l \in SaleLines : l \notin S => returning[l] = 0
  BY DEF SoldLines
<1> HIDE DEF f, g, h, p, S
<1>6. ASSUME NEW l \in SaleLines PROVE g[l] \in Nat /\ h[l] = f[l] + g[l]
  <2>1. CASE l \in S
    <3>1. g[l] = p[l] /\ p[l] \in Nat /\ p[l] = h[l] - f[l]
      BY <1>2, <1>3, <1>4, <2>1
    <3> QED
      BY <1>1, <3>1
  <2>2. CASE l \notin S
    <3>1. g[l] = 0 /\ returning[l] = 0 /\ sale.returned[l] \in Nat
      BY <1>3, <1>5, <2>2, BillLine
    <3>2. sale.returned[l] + returning[l] = sale.returned[l]
      BY <3>1
    <3>3. h[l] = f[l]
      BY <1>4, <3>2
    <3> QED
      BY <1>1, <3>1, <3>3
  <2> QED
    BY <2>1, <2>2
<1>7. SumFunction(f) \in Int /\ SumFunction(h) = SumFunction(f) + SumFunction(g)
  <2>1. \A l \in DOMAIN f : f[l] \in Int /\ g[l] \in Int /\ h[l] = f[l] + g[l]
    BY <1>1, <1>6
  <2> QED
    BY <1>1, <2>1, TotalOfBoth
<1>8. SumFunction(g) = SumFunction(p)
  <2>1. /\ IsFiniteSet(DOMAIN g) /\ DOMAIN p \subseteq DOMAIN g
        /\ \A l \in DOMAIN g : g[l] \in Int
        /\ \A l \in DOMAIN g : IF l \in DOMAIN p THEN g[l] = p[l] ELSE g[l] = 0
    BY <1>1, <1>2, <1>3, <1>6
  <2> QED
    BY <2>1, TotalBeyond
<1>9. RefundAmount(sale, returning) = SumFunction(p)
  BY DEF RefundAmount, RefundParts, p
<1> QED
  BY <1>7, <1>8, <1>9 DEF SoFar, f, h

\* Status and returns of a bill tell one story.
StatusFits(sale, R) ==
  /\ sale.status = "COMPLETED" => R = {}
  /\ sale.status = "RETURNED" => sale.returned = sale.items
  /\ sale.status = "PARTIALLY_RETURNED" => R # {} /\ sale.returned # sale.items
  /\ sale.status = "CANCELLED" => R = {} \/ sale.returned = sale.items

\* What the returns R, rows of rets, say of a bill: what they refund is what the
\* shares of the units back come to, and the units are those the bill counts.
Settled(sale, rets, R) ==
  /\ AmountOf(rets, R) = SoFar(sale)
  /\ \A l \in SaleLines : QuantityOf(rets, R, l) = sale.returned[l]
  /\ sale.cash + sale.other = Total(sale.price)
  /\ \A l \in SaleLines : sale.items[l] = 0 => sale.price[l].net = 0 /\ sale.price[l].tax = 0
  /\ StatusFits(sale, R)

SettledBills == \A id \in Sales : Live(id) => Settled(sales[id], returns, ReturnsOf(id))

\* A return is of a bill that is, or was, there.
ReturnsOwned == \A ret \in Returns : returns[ret] # NoRow => sales[returns[ret].sale] # NoRow

\* The rows of a bill's returns.
LEMMA ReturnsFinite ==
  ASSUME CounterInv, NEW id
  PROVE  /\ IsFiniteSet(ReturnsOf(id)) /\ ReturnsOf(id) \subseteq Returns
         /\ \A ret \in ReturnsOf(id) :
              /\ returns[ret] \in ReturnRow /\ returns[ret].amount \in Nat
              /\ \A l \in SaleLines : returns[ret].quantity[l] \in Nat
<1>0. FiniteRows /\ Tabled
  BY CounterParts
<1>1. ReturnsOf(id) \subseteq {ret \in Returns : returns[ret] # NoRow}
  BY DEF ReturnsOf
<1>2. IsFiniteSet(ReturnsOf(id))
  BY <1>0, <1>1, FS_Subset DEF FiniteRows
<1>3. ASSUME NEW ret \in ReturnsOf(id) PROVE returns[ret] \in ReturnRow
  BY <1>0, <1>1 DEF Tabled
<1>4. \A row \in ReturnRow : row.amount \in Nat /\ \A l \in SaleLines : row.quantity[l] \in Nat
  BY DEF ReturnRow
<1> QED
  BY <1>1, <1>2, <1>3, <1>4

\* A bill that keeps its lines and its money, and whose returns keep theirs.
LEMMA SettledAlike ==
  ASSUME NEW sale, NEW bill, NEW rets, NEW rows, NEW R, Settled(sale, rets, R),
         bill.items = sale.items, bill.price = sale.price, bill.returned = sale.returned,
         bill.cash = sale.cash, bill.other = sale.other,
         \A ret \in R : rows[ret].amount = rets[ret].amount /\ rows[ret].quantity = rets[ret].quantity,
         StatusFits(bill, R)
  PROVE  Settled(bill, rows, R)
<1>1. AmountOf(rows, R) = AmountOf(rets, R)
  BY SumsSame
<1>2. SoFar(bill) = SoFar(sale)
  BY DEF SoFar, RefundsOf
<1>3. ASSUME NEW l \in SaleLines PROVE QuantityOf(rows, R, l) = QuantityOf(rets, R, l)
  <2>1. [ret \in R |-> rows[ret].quantity[l]] = [ret \in R |-> rets[ret].quantity[l]]
    OBVIOUS
  <2> QED
    BY <2>1 DEF QuantityOf
<1> QED
  BY <1>1, <1>2, <1>3 DEF Settled

\* A bill and returns that keep their lines and amounts stay settled; a void of a
\* completed bill leaves it without returns.
LEMMA SettledSame ==
  ASSUME NEW id \in Sales, Settled(sales[id], returns, ReturnsOf(id)),
         sales'[id].items = sales[id].items, sales'[id].price = sales[id].price,
         sales'[id].returned = sales[id].returned,
         sales'[id].cash = sales[id].cash, sales'[id].other = sales[id].other,
         ReturnsOf(id)' = ReturnsOf(id),
         \A ret \in ReturnsOf(id) :
           returns'[ret].amount = returns[ret].amount /\ returns'[ret].quantity = returns[ret].quantity,
         sales'[id].status = sales[id].status
           \/ (sales[id].status = "COMPLETED" /\ sales'[id].status = "CANCELLED")
  PROVE  Settled(sales'[id], returns', ReturnsOf(id)')
<1> DEFINE R == ReturnsOf(id)
<1>1. StatusFits(sales[id], R)
  BY DEF Settled
<1>2. StatusFits(sales'[id], R)
  BY <1>1 DEF StatusFits
<1> HIDE DEF R
<1>3. Settled(sales'[id], returns', R)
  BY <1>2, SettledAlike DEF R
<1> QED
  BY <1>3 DEF R

\* A new bill has no returns.
LEMMA SettledNew ==
  ASSUME NEW bill \in SaleRow, NEW rets, \A l \in SaleLines : bill.returned[l] = 0,
         bill.status = "COMPLETED", bill.cash + bill.other = Total(bill.price),
         \A l \in SaleLines : bill.items[l] = 0 => bill.price[l].net = 0 /\ bill.price[l].tax = 0
  PROVE  Settled(bill, rets, {})
<1>1. AmountOf(rets, {}) = 0
  <2> DEFINE f == [i \in {} |-> rets[i].amount]
  <2>1. IsFiniteSet(DOMAIN f) /\ \A i \in DOMAIN f : f[i] = 0
    BY FS_EmptySet
  <2> HIDE DEF f
  <2>2. SumFunction(f) = 0
    BY <2>1, TotalZero
  <2> QED
    BY <2>2 DEF AmountOf, f
<1>2. ASSUME NEW l \in SaleLines PROVE QuantityOf(rets, {}, l) = 0
  <2> DEFINE f == [i \in {} |-> rets[i].quantity[l]]
  <2>1. IsFiniteSet(DOMAIN f) /\ \A i \in DOMAIN f : f[i] = 0
    BY FS_EmptySet
  <2> HIDE DEF f
  <2>2. SumFunction(f) = 0
    BY <2>1, TotalZero
  <2> QED
    BY <2>2 DEF QuantityOf, f
<1>3. SoFar(bill) = 0
  BY NoneBackNoneRefunded
<1> QED
  BY <1>1, <1>2, <1>3 DEF Settled, StatusFits

\* One return more.
LEMMA SettledMore ==
  ASSUME NEW sale \in SaleRow, NEW rets, NEW rows, NEW R, IsFiniteSet(R), Settled(sale, rets, R),
         NEW ret, ret \notin R, NEW returning \in [SaleLines -> Nat], Returnable(sale, returning),
         rows[ret].amount = RefundAmount(sale, returning), rows[ret].quantity = returning,
         \A i \in R : /\ rows[i] = rets[i] /\ rets[i].amount \in Int
                      /\ \A l \in SaleLines : rets[i].quantity[l] \in Int,
         NEW status \in Recognized \cup {"CANCELLED"}, NEW bill \in SaleRow,
         bill = BillWith(sale, NowBack(sale, returning), status),
         StatusFits(bill, R \cup {ret})
  PROVE  Settled(bill, rows, R \cup {ret})
<1>1. /\ bill.price = sale.price /\ bill.items = sale.items /\ bill.cash = sale.cash /\ bill.other = sale.other
      /\ bill.returned = NowBack(sale, returning)
  BY DEF BillWith, SaleRow
<1>2. SoFar(bill) = SoFar(sale) + RefundAmount(sale, returning)
  BY <1>1, RefundAdds
<1>3. AmountOf(rows, R \cup {ret}) = AmountOf(rets, R) + RefundAmount(sale, returning)
  <2>1. RefundAmount(sale, returning) \in Nat
    BY RefundAmountType
  <2>2. rows[ret].amount \in Int /\ \A i \in R : rets[i].amount \in Int /\ rows[i].amount = rets[i].amount
    BY <2>1
  <2>3. AmountOf(rows, R \cup {ret}) = AmountOf(rets, R) + rows[ret].amount
    BY <2>2, AmountMore
  <2> QED
    BY <2>3
<1>4. ASSUME NEW l \in SaleLines PROVE QuantityOf(rows, R \cup {ret}, l) = bill.returned[l]
  <2>1. rows[ret].quantity[l] \in Int
        /\ \A i \in R : rets[i].quantity[l] \in Int /\ rows[i].quantity[l] = rets[i].quantity[l]
    OBVIOUS
  <2>2. QuantityOf(rows, R \cup {ret}, l) = QuantityOf(rets, R, l) + rows[ret].quantity[l]
    <3> DEFINE f == [i \in R |-> rets[i].quantity[l]]
               g == [i \in R \cup {ret} |-> rows[i].quantity[l]]
    <3>1. /\ IsFiniteSet(DOMAIN f) /\ ret \notin DOMAIN f /\ DOMAIN g = DOMAIN f \cup {ret} /\ g[ret] \in Int
          /\ \A i \in DOMAIN f : f[i] \in Int /\ g[i] = f[i]
      BY <2>1
    <3>2. /\ g[ret] = rows[ret].quantity[l] /\ QuantityOf(rets, R, l) = SumFunction(f)
          /\ QuantityOf(rows, R \cup {ret}, l) = SumFunction(g)
      BY DEF QuantityOf
    <3> HIDE DEF f, g
    <3>3. SumFunction(f) \in Int /\ SumFunction(g) = g[ret] + SumFunction(f)
      BY <3>1, TotalWith
    <3>4. g[ret] \in Int
      BY <3>1
    <3> QED
      BY <3>2, <3>3, <3>4
  <2>3. QuantityOf(rets, R, l) = sale.returned[l] /\ rows[ret].quantity[l] = returning[l]
    BY DEF Settled
  <2>4. bill.returned[l] = sale.returned[l] + returning[l]
    BY <1>1 DEF NowBack
  <2> QED
    BY <2>2, <2>3, <2>4
<1> QED
  <2>1. /\ AmountOf(rets, R) = SoFar(sale) /\ sale.cash + sale.other = Total(sale.price)
        /\ \A l \in SaleLines : sale.items[l] = 0 => sale.price[l].net = 0 /\ sale.price[l].tax = 0
    BY DEF Settled
  <2>2. AmountOf(rows, R \cup {ret}) = SoFar(bill)
    BY <1>2, <1>3, <2>1, Zenon
  <2>3. bill.cash + bill.other = Total(bill.price)
    BY <1>1, <2>1, Zenon
  <2>4. \A l \in SaleLines : bill.items[l] = 0 => bill.price[l].net = 0 /\ bill.price[l].tax = 0
    BY <1>1, <2>1, Zenon
  <2> QED
    BY <1>4, <2>2, <2>3, <2>4, Zenon DEF Settled

\* returnSale, and cancelSale with a refund.
LEMMA SettledTaken ==
  ASSUME CounterInv, SettledBills, NEW ret \in Returns, NEW id \in Sales, NEW x, NEW cash,
         NEW returning \in [SaleLines -> Nat], NEW status \in Recognized \cup {"CANCELLED"},
         TakenBack(ret, id, x, returning, cash, status),
         status # "COMPLETED",
         status \in {"RETURNED", "CANCELLED"} => NowBack(sales[id], returning) = sales[id].items,
         status = "PARTIALLY_RETURNED" => NowBack(sales[id], returning) # sales[id].items,
         NEW i \in Sales, Live(i)'
  PROVE  Settled(sales'[i], returns', ReturnsOf(i)')
<1>0. Tabled
  BY CounterParts
<1> DEFINE sale == sales[id]
           back == NowBack(sale, returning)
           bill == BillWith(sale, back, status)
           row == NewReturn(id, x, cash, returning)
           R == ReturnsOf(id)
<1>1. /\ Live(id) /\ sale \in SaleRow /\ Returnable(sale, returning)
      /\ returns[ret] = NoRow /\ returns'[ret] = row /\ row \in ReturnRow
      /\ \A j \in Returns : j # ret => returns'[j] = returns[j]
      /\ sales'[id] = bill /\ bill \in SaleRow
      /\ \A j \in Sales : j # id => sales'[j] = sales[j]
  BY <1>0, BillType DEF TakenBack, Returned, Billed, Live
<1>2. /\ row.sale = id /\ ~row.deleted /\ row # NoRow
      /\ row.amount = RefundAmount(sale, returning) /\ row.quantity = returning
  BY <1>1, RowsApartFromNone DEF NewReturn
<1> HIDE DEF row
<1>3. CASE i # id
  <2>1. ReturnsOf(i)' = ReturnsOf(i) /\ ret \notin ReturnsOf(i)
    BY <1>1, <1>2, <1>3 DEF ReturnsOf
  <2>2. sales'[i] = sales[i] /\ Live(i)
    BY <1>1, <1>3 DEF Live
  <2>3. \A j \in ReturnsOf(i) : returns'[j] = returns[j]
    BY <1>1, <2>1 DEF ReturnsOf
  <2>4. Settled(sales[i], returns, ReturnsOf(i))
    BY <2>2 DEF SettledBills
  <2> QED
    BY <2>1, <2>2, <2>3, <2>4, SettledSame
<1>4. CASE i = id
  <2>1. ReturnsOf(id)' = R \cup {ret} /\ ret \notin R
    BY <1>1, <1>2 DEF ReturnsOf
  <2>2. /\ IsFiniteSet(R)
        /\ \A j \in R : /\ returns[j].amount \in Int
                        /\ \A l \in SaleLines : returns[j].quantity[l] \in Int
    BY ReturnsFinite
  <2>3. \A j \in R : returns'[j] = returns[j]
    BY <1>1, <2>1 DEF ReturnsOf
  <2>4. Settled(sale, returns, R)
    BY <1>1 DEF SettledBills
  <2>5. StatusFits(bill, R \cup {ret})
    <3>1. bill.status = status /\ bill.returned = back /\ bill.items = sale.items
      BY <1>1 DEF BillWith, SaleRow
    <3> HIDE DEF bill, back
    <3>2. (status \in {"RETURNED", "CANCELLED"} => back = sale.items)
          /\ (status = "PARTIALLY_RETURNED" => back # sale.items)
      BY DEF back
    <3> QED
      BY <3>1, <3>2 DEF StatusFits
  <2> HIDE DEF R, sale
  <2>6. Settled(bill, returns', R \cup {ret})
    BY <1>1, <1>2, <2>1, <2>2, <2>3, <2>4, <2>5, SettledMore
  <2> QED
    BY <1>1, <1>4, <2>1, <2>6
<1> QED
  BY <1>3, <1>4

\* Bills and returns that no step but a refund relates.
LEMMA SettledUntouched ==
  ASSUME SettledBills, NEW i \in Sales, Live(i), sales'[i] = sales[i],
         ReturnsOf(i)' = ReturnsOf(i), \A ret \in ReturnsOf(i) : returns'[ret] = returns[ret]
  PROVE  Settled(sales'[i], returns', ReturnsOf(i)')
<1>1. Settled(sales[i], returns, ReturnsOf(i))
  BY DEF SettledBills
<1> QED
  BY <1>1, SettledSame

\* checkout adds a bill without returns.
LEMMA SettledBilled ==
  ASSUME CounterInv, SettledBills, ReturnsOwned, NEW id \in Sales, NEW store, NEW x, NEW items, NEW price,
         NEW cash \in 0..MaxCash, NEW draft, BillMade(id, store, x, items, price, cash, draft),
         NEW i \in Sales, Live(i)'
  PROVE  Settled(sales'[i], returns', ReturnsOf(i)')
<1> DEFINE bill == NewBill(store, x, items, price, cash, draft)
<1>1. /\ sales[id] = NoRow /\ sales'[id] = bill /\ bill \in SaleRow /\ UNCHANGED returns
      /\ \A j \in Sales : j # id => sales'[j] = sales[j]
      /\ items \in [SaleLines -> Nat] /\ price \in [SaleLines -> [net : Nat, tax : Nat]]
      /\ \A l \in SaleLines : items[l] = 0 => price[l].net = 0 /\ price[l].tax = 0
  BY DEF BillMade, Billed
<1>2. ReturnsOf(i)' = ReturnsOf(i)
  BY <1>1 DEF ReturnsOf
<1>3. CASE i # id
  <2>1. Live(i) /\ sales'[i] = sales[i]
    BY <1>1, <1>3 DEF Live
  <2>2. \A ret \in ReturnsOf(i) : returns'[ret] = returns[ret]
    BY <1>1
  <2> QED
    BY <1>2, <2>1, <2>2, SettledUntouched
<1>4. CASE i = id
  <2>1. ReturnsOf(i)' = {}
    BY <1>1, <1>2, <1>4 DEF ReturnsOf, ReturnsOwned
  <2>2. /\ bill.items = items /\ bill.price = price /\ bill.status = "COMPLETED"
        /\ bill.cash = cash /\ bill.other = Total(price) - cash
        /\ bill.returned = [l \in SaleLines |-> 0]
    BY DEF NewBill
  <2>3. Total(price) \in Nat /\ cash \in Int
    BY <1>1, TotalType, RequestTypes
  <2> HIDE DEF bill
  <2>4. bill.cash + bill.other = Total(bill.price)
    BY <2>2, <2>3
  <2>5. (\A l \in SaleLines : bill.returned[l] = 0)
        /\ \A l \in SaleLines : bill.items[l] = 0 => bill.price[l].net = 0 /\ bill.price[l].tax = 0
    BY <1>1, <2>2
  <2>6. Settled(bill, returns', {})
    BY <1>1, <2>2, <2>4, <2>5, SettledNew
  <2> QED
    BY <1>1, <1>4, <2>1, <2>6
<1> QED
  BY <1>3, <1>4

\* Voiding leaves a bill without returns; deleting leaves nothing of it.
LEMMA SettledVoided ==
  ASSUME SettledBills, NEW ids \in SUBSET Sales, Voided(ids), NEW i \in Sales, Live(i)'
  PROVE  Settled(sales'[i], returns', ReturnsOf(i)')
<1>1. UNCHANGED returns /\ ReturnsOf(i)' = ReturnsOf(i) /\ WithStatus(ids, "CANCELLED")
  BY DEF Voided, ReturnsOf
<1>2. \A ret \in ReturnsOf(i) : returns'[ret] = returns[ret]
  BY <1>1
<1>3. CASE i \notin ids
  <2>1. Live(i) /\ sales'[i] = sales[i]
    BY <1>1, <1>3 DEF Live, WithStatus
  <2> QED
    BY <1>1, <1>2, <2>1, SettledUntouched
<1>4. CASE i \in ids
  <2>1. /\ Live(i) /\ sales[i].status = "COMPLETED" /\ sales'[i].status = "CANCELLED"
        /\ sales'[i].items = sales[i].items /\ sales'[i].price = sales[i].price
        /\ sales'[i].returned = sales[i].returned
        /\ sales'[i].cash = sales[i].cash /\ sales'[i].other = sales[i].other
    BY <1>1, <1>4 DEF Voided, Voidable, WithStatus
  <2>2. Settled(sales[i], returns, ReturnsOf(i))
    BY <2>1 DEF SettledBills
  <2> QED
    BY <1>1, <1>2, <2>1, <2>2, SettledSame
<1> QED
  BY <1>3, <1>4

\* The returns of bills that are not deleted stay.
LEMMA MarkedOthers ==
  ASSUME NEW ids, Marked(ids), NEW i, i \notin ids
  PROVE  ReturnsOf(i)' = ReturnsOf(i) /\ \A ret \in ReturnsOf(i) : returns'[ret] = returns[ret]
<1>1. \A ret \in Returns : IF returns[ret] # NoRow /\ returns[ret].sale \in ids
                           THEN returns'[ret] # NoRow /\ returns'[ret].deleted /\ returns'[ret].sale = returns[ret].sale
                           ELSE returns'[ret] = returns[ret]
  BY DEF Marked
<1>2. ASSUME NEW ret \in Returns PROVE ret \in ReturnsOf(i)' <=> ret \in ReturnsOf(i)
  BY <1>1 DEF ReturnsOf
<1>3. (\A ret \in ReturnsOf(i)' : ret \in Returns) /\ (\A ret \in ReturnsOf(i) : ret \in Returns)
  BY DEF ReturnsOf
<1>4. \A ret \in ReturnsOf(i) : returns'[ret] = returns[ret]
  BY <1>1 DEF ReturnsOf
<1> QED
  BY <1>2, <1>3, <1>4

\* What is deleted is no longer judged, and takes no return of another bill along.
LEMMA SettledDeleted ==
  ASSUME SettledBills, NEW ids \in SUBSET Sales, WithStatus(ids, "DELETED"), Marked(ids),
         NEW i \in Sales, Live(i)'
  PROVE  Settled(sales'[i], returns', ReturnsOf(i)')
<1>1. i \notin ids
  BY DEF WithStatus, Live
<1>2. Live(i) /\ sales'[i] = sales[i]
  BY <1>1 DEF WithStatus, Live
<1> QED
  BY <1>1, <1>2, MarkedOthers, SettledUntouched

\* reconcilePayment keeps bills settled.
LEMMA SettledReconciled ==
  ASSUME SettledBills, Reconciled, NEW i \in Sales, Live(i)'
  PROVE  Settled(sales'[i], returns', ReturnsOf(i)')
<1>1. CASE SameBills /\ UNCHANGED returns
  <2>1. ReturnsOf(i)' = ReturnsOf(i)
    BY <1>1 DEF ReturnsOf
  <2>2. Live(i) /\ sales'[i].status = sales[i].status
        /\ sales'[i].items = sales[i].items /\ sales'[i].price = sales[i].price
        /\ sales'[i].returned = sales[i].returned
        /\ sales'[i].cash = sales[i].cash /\ sales'[i].other = sales[i].other
    BY <1>1 DEF SameBills, Live
  <2>3. Settled(sales[i], returns, ReturnsOf(i))
    BY <2>2 DEF SettledBills
  <2> QED
    BY <1>1, <2>1, <2>2, <2>3, SettledSame
<1>2. CASE SameReturns /\ UNCHANGED sales
  <2>1. ReturnsOf(i)' = ReturnsOf(i)
    BY <1>2 DEF SameReturns, ReturnsOf
  <2>2. \A ret \in ReturnsOf(i) :
          returns'[ret].amount = returns[ret].amount /\ returns'[ret].quantity = returns[ret].quantity
    BY <1>2 DEF SameReturns, ReturnsOf
  <2>3. Live(i) /\ Settled(sales[i], returns, ReturnsOf(i)) /\ sales'[i] = sales[i]
    BY <1>2 DEF SettledBills, Live
  <2> QED
    BY <2>1, <2>2, <2>3, SettledSame
<1> QED
  BY <1>1, <1>2 DEF Reconciled

\* Steps that leave bills and returns leave them settled.
LEMMA SettledElsewhere ==
  ASSUME SettledBills, UNCHANGED <<sales, returns>>, NEW i \in Sales, Live(i)'
  PROVE  Settled(sales'[i], returns', ReturnsOf(i)')
<1>1. Live(i) /\ sales'[i] = sales[i] /\ ReturnsOf(i)' = ReturnsOf(i)
  BY DEF Live, ReturnsOf
<1>2. \A ret \in ReturnsOf(i) : returns'[ret] = returns[ret]
  OBVIOUS
<1> QED
  BY <1>1, <1>2, SettledUntouched

\* Every step keeps every bill settled with its returns.
LEMMA SettledStep ==
  ASSUME CounterInv, CounterInv', SettledBills, ReturnsOwned, Effects
  PROVE  SettledBills'
<1> SUFFICES ASSUME NEW i \in Sales, Live(i)' PROVE Settled(sales'[i], returns', ReturnsOf(i)')
  BY DEF SettledBills
<1> DEFINE Fits == Settled(sales'[i], returns', ReturnsOf(i)')
<1> HIDE DEF Fits
<1>1. ASSUME NEW id \in Sales, NEW store \in Stores, NEW x \in Sessions, NEW items \in Items, NEW price \in Prices,
             NEW cash \in 0..MaxCash, NEW draft \in DraftKinds, BillMade(id, store, x, items, price, cash, draft)
      PROVE  Fits
  BY <1>1, SettledBilled DEF Fits
<1>2. ASSUME NEW ret \in Returns, NEW id \in Sales, NEW x \in Sessions, NEW returning \in Items, NEW cash \in BOOLEAN,
             UnitsReturned(ret, id, x, returning, cash)
      PROVE  Fits
  <2> DEFINE whole == NowBack(sales[id], returning) = sales[id].items
             status == IF whole THEN "RETURNED" ELSE "PARTIALLY_RETURNED"
  <2>1. TakenBack(ret, id, x, returning, cash, status) /\ returning \in [SaleLines -> Nat]
    BY <1>2 DEF UnitsReturned
  <2>2. /\ status \in Recognized \cup {"CANCELLED"} /\ status # "COMPLETED"
        /\ status \in {"RETURNED", "CANCELLED"} => NowBack(sales[id], returning) = sales[id].items
        /\ status = "PARTIALLY_RETURNED" => NowBack(sales[id], returning) # sales[id].items
    BY DEF Recognized
  <2> HIDE DEF status
  <2> QED
    BY <2>1, <2>2, SettledTaken DEF Fits
<1>3. ASSUME NEW ret \in Returns, NEW id \in Sales, NEW x \in Sessions, NEW cash \in BOOLEAN, Refunds(ret, id, x, cash)
      PROVE  Fits
  <2> DEFINE sale == sales[id]
             returning == sale.items
  <2>1. /\ TakenBack(ret, id, x, returning, cash, "CANCELLED") /\ returning \in [SaleLines -> Nat]
        /\ sale.returned = [l \in SaleLines |-> 0]
    BY <1>3 DEF Refunds
  <2>2. NowBack(sale, returning) = sale.items
    <3>1. \A l \in SaleLines : NowBack(sale, returning)[l] = sale.items[l]
      BY <2>1 DEF NowBack
    <3> QED
      BY <2>1, <3>1 DEF NowBack
  <2> HIDE DEF returning
  <2> QED
    BY <2>1, <2>2, SettledTaken DEF Fits
<1>4. ASSUME NEW ids \in SUBSET Sales, Voided(ids) PROVE Fits
  BY <1>4, SettledVoided DEF Fits
<1>5. ASSUME NEW id \in Sales, DeletedOne(id) PROVE Fits
  <2>1. {id} \in SUBSET Sales /\ WithStatus({id}, "DELETED") /\ Marked({id})
    BY <1>5 DEF DeletedOne
  <2> QED
    BY <2>1, SettledDeleted DEF Fits
<1>6. ASSUME NEW ids \in SUBSET Sales, Cleared(ids) PROVE Fits
  <2>1. WithStatus(ids, "DELETED") /\ Marked(ids)
    BY <1>6 DEF Cleared
  <2> QED
    BY <2>1, SettledDeleted DEF Fits
<1>7. Reconciled => Fits
  BY SettledReconciled DEF Fits
<1>8. UNCHANGED <<sales, returns>> => Fits
  BY SettledElsewhere DEF Fits
<1> QED
  BY <1>1, <1>2, <1>3, <1>4, <1>5, <1>6, <1>7, <1>8 DEF Effects, StockMoved, vars, Fits

\* Every step keeps returns with their bills.
LEMMA ReturnsOwnedStep ==
  ASSUME CounterInv, CounterInv', ReturnsOwned, Effects
  PROVE  ReturnsOwned'
<1>0. \A id \in Sales : sales[id] # NoRow => sales'[id] # NoRow
  BY BillsKept DEF Kept
<1>1. \A ret \in Returns : returns[ret] # NoRow =>
        returns[ret].sale \in Sales /\ sales[returns[ret].sale] # NoRow
  BY CounterParts DEF Tabled, ReturnRow, ReturnsOwned
<1>2. ASSUME \A ret \in Returns : returns'[ret] # NoRow =>
               (returns[ret] # NoRow /\ returns'[ret].sale = returns[ret].sale)
                 \/ \E id \in Sales : returns'[ret].sale = id /\ sales[id] # NoRow
      PROVE  ReturnsOwned'
  BY <1>0, <1>1, <1>2 DEF ReturnsOwned
<1>3. UNCHANGED returns => ReturnsOwned'
  BY <1>2
<1>4. \A ids : Marked(ids) => ReturnsOwned'
  BY <1>2 DEF Marked
<1>5. SameReturns => ReturnsOwned'
  BY <1>2 DEF SameReturns
<1>6. ASSUME NEW ret, NEW id \in Sales, NEW x, NEW returning, NEW cash, NEW status,
             TakenBack(ret, id, x, returning, cash, status)
      PROVE  ReturnsOwned'
  <2>1. /\ sales[id] # NoRow /\ returns'[ret].sale = id
        /\ \A j \in Returns : j # ret => returns'[j] = returns[j]
    BY <1>6 DEF TakenBack, Live, Returned, NewReturn
  <2> QED
    BY <1>2, <2>1
<1>7. \A ret, x, returning, cash : \A id \in Sales : UnitsReturned(ret, id, x, returning, cash) => ReturnsOwned'
  BY <1>6 DEF UnitsReturned
<1>8. \A ret, x, cash : \A id \in Sales : Refunds(ret, id, x, cash) => ReturnsOwned'
  BY <1>6 DEF Refunds
<1>9. /\ \A id, store, x, items, price, cash, draft :
           BillMade(id, store, x, items, price, cash, draft) => ReturnsOwned'
      /\ \A ids : Voided(ids) => ReturnsOwned'
  BY <1>3 DEF BillMade, Voided
<1>10. (\A id : DeletedOne(id) => ReturnsOwned') /\ (\A ids : Cleared(ids) => ReturnsOwned')
  BY <1>4 DEF DeletedOne, Cleared
<1>11. Reconciled => ReturnsOwned'
  BY <1>3, <1>5 DEF Reconciled
<1> QED
  BY <1>3, <1>7, <1>8, <1>9, <1>10, <1>11 DEF Effects, StockMoved, vars

BillsInv == CounterInv /\ SettledBills /\ ReturnsOwned

\* Over every handler of the counter: what is back, what was refunded and the
\* status of a bill agree.
THEOREM BillsInvariant == Spec => []BillsInv
<1>1. Init => BillsInv
  BY CounterInitially DEF BillsInv, SettledBills, ReturnsOwned, Init, Live
<1>2. BillsInv /\ [Next]_vars => BillsInv'
  <2> SUFFICES ASSUME BillsInv, [Next]_vars PROVE BillsInv'
    OBVIOUS
  <2>1. CounterInv' /\ Effects
    BY CounterStep DEF BillsInv
  <2> QED
    BY <2>1, SettledStep, ReturnsOwnedStep DEF BillsInv
<1> QED
  BY <1>1, <1>2, PTL DEF Spec

\* returnSale, cancelSale: in whatever order bills were returned, cancelled and
\* voided, the refunds of a bill never exceed what was paid, and equal it once
\* everything is back.
THEOREM ReturnsMatch == Spec => []ReturnsMatchBill
<1>1. BillsInv => ReturnsMatchBill
  <2> SUFFICES ASSUME BillsInv, NEW id \in Sales, Live(id)
               PROVE  LET sale == sales[id]
                          refunded == SumFunction([ret \in ReturnsOf(id) |-> returns[ret].amount])
                      IN /\ refunded <= sale.cash + sale.other
                         /\ sale.returned = sale.items => refunded = sale.cash + sale.other
                         /\ \A l \in SaleLines :
                              /\ sale.returned[l] = SumFunction([ret \in ReturnsOf(id) |-> returns[ret].quantity[l]])
                              /\ sale.returned[l] <= sale.items[l]
                         /\ sale.status = "COMPLETED" => ReturnsOf(id) = {}
                         /\ sale.status = "RETURNED" => sale.returned = sale.items
                         /\ sale.status = "PARTIALLY_RETURNED" => ReturnsOf(id) # {} /\ sale.returned # sale.items
                         /\ sale.status = "CANCELLED" => ReturnsOf(id) = {} \/ sale.returned = sale.items
    BY DEF ReturnsMatchBill
  <2> DEFINE sale == sales[id]
             R == ReturnsOf(id)
             refunded == SumFunction([ret \in R |-> returns[ret].amount])
  <2>1. /\ sale \in SaleRow /\ \A l \in SaleLines : sale.returned[l] <= sale.items[l]
    BY BillType, CounterParts DEF BillsInv, Live, UnitsWithin
  <2>2. Settled(sale, returns, R)
    BY DEF BillsInv, SettledBills
  <2>3. refunded = AmountOf(returns, R) /\ \A l \in SaleLines :
          QuantityOf(returns, R, l) = SumFunction([ret \in R |-> returns[ret].quantity[l]])
    BY DEF AmountOf, QuantityOf
  <2> HIDE DEF sale, R, refunded
  <2>4. refunded = SoFar(sale) /\ sale.cash + sale.other = Total(sale.price)
    BY <2>2, <2>3 DEF Settled
  <2>5. SoFar(sale) <= Total(sale.price)
    BY <2>1, RefundsWithinBill
  <2>6. sale.returned = sale.items => SoFar(sale) = Total(sale.price)
    BY <2>1, <2>2, AllBackAllRefunded DEF Settled
  <2>7. \A l \in SaleLines : sale.returned[l] = SumFunction([ret \in R |-> returns[ret].quantity[l]])
    BY <2>2, <2>3 DEF Settled
  <2>8. StatusFits(sale, R)
    BY <2>2 DEF Settled
  <2> QED
    BY <2>1, <2>4, <2>5, <2>6, <2>7, <2>8 DEF StatusFits, sale, R, refunded
<1> QED
  BY <1>1, BillsInvariant, PTL

\* Nothing is back of a completed bill: it has no returns.
LEMMA CompletedHasNothingBack == BillsInv => NothingBack
<1> SUFFICES ASSUME BillsInv, NEW id \in Sales, NEW v \in Variants, Live(id), sales[id].status = "COMPLETED"
             PROVE  sales[id].returned[v] = 0
  BY DEF NothingBack
<1>1. Settled(sales[id], returns, ReturnsOf(id))
  BY DEF BillsInv, SettledBills
<1>2. ReturnsOf(id) = {}
  BY <1>1 DEF Settled, StatusFits
<1>3. v \in SaleLines
  BY SaleLinesFinite
<1>4. QuantityOf(returns, {}, v) = sales[id].returned[v]
  BY <1>1, <1>2, <1>3 DEF Settled
<1>5. QuantityOf(returns, {}, v) = 0
  <2> DEFINE none == [ret \in {} |-> returns[ret].quantity[v]]
  <2>1. DOMAIN none = {} /\ \A ret \in DOMAIN none : none[ret] = 0
    OBVIOUS
  <2>2. QuantityOf(returns, {}, v) = SumFunction(none)
    BY DEF QuantityOf
  <2> HIDE DEF none
  <2> QED
    BY <2>1, <2>2, FS_EmptySet, TotalZero
<1> QED
  BY <1>4, <1>5

\* checkout, returnSale, cancelSale, the administrative voids and deletions, rate
\* changes, reviews and timely synchronisations keep the commission of a bill in
\* step with it, in any order: only a synchronisation that writes the first row of
\* a bill that has been returned or cancelled since it was read parts them.
THEOREM CommissionParted == Spec => OnlyStaleSyncPartsCommission
<1>1. CounterInv /\ SnapshotInv /\ BillsInv /\ [Next]_vars =>
        [\A id \in Sales, v \in Variants :
           RowFollowsBill(id, v) /\ ~RowFollowsBill(id, v)' =>
             /\ commissions[id][v] = NoRow /\ sales[id].status # "COMPLETED"
             /\ \E j \in SyncJobs :
                  syncing[j] # NoRow /\ syncing[j].sale = id /\ syncing'[j] = NoRow]_vars
  <2> SUFFICES ASSUME CounterInv, SnapshotInv, BillsInv, [Next]_vars, NEW id \in Sales, NEW v \in Variants,
                      RowFollowsBill(id, v), ~RowFollowsBill(id, v)'
               PROVE  StaleSync(id, v)
    BY DEF StaleSync
  <2> QED
    BY CounterStep, CompletedHasNothingBack, FollowStep
<1>2. Spec => [](CounterInv /\ SnapshotInv)
  BY SnapshotInvariant
<1> QED
  BY <1>1, <1>2, BillsInvariant, PTL DEF Spec, OnlyStaleSyncPartsCommission

\* Where no synchronisation runs, the share of the units that are back is
\* reversed, all of it once the bill is cancelled.
THEOREM CommissionFollows ==
  ASSUME SyncJobs = {}
  PROVE  Spec => []CommissionFollowsBill
<1>1. Init => CommissionFollowsBill
  BY DEF Init, CommissionFollowsBill, RowFollowsBill, Live
<1>2. CounterInv /\ SnapshotInv /\ BillsInv /\ CommissionFollowsBill /\ [Next]_vars => CommissionFollowsBill'
  <2> SUFFICES ASSUME CounterInv, SnapshotInv, BillsInv, CommissionFollowsBill, [Next]_vars,
                      NEW id \in Sales, NEW v \in Variants
               PROVE  RowFollowsBill(id, v)'
    BY DEF CommissionFollowsBill
  <2>1. RowFollowsBill(id, v) /\ ~StaleSync(id, v)
    BY DEF CommissionFollowsBill, StaleSync
  <2> QED
    BY <2>1, CounterStep, CompletedHasNothingBack, FollowStep
<1>3. Spec => [](CounterInv /\ SnapshotInv)
  BY SnapshotInvariant
<1> QED
  BY <1>1, <1>2, <1>3, BillsInvariant, PTL DEF Spec

-----------------------------------------------------------------------------
(* The life of a bill (POSBillLife), step by step.                          *)

PaperOf(sale) ==
  [items |-> sale.items, back |-> sale.returned, total |-> Total(sale.price), refunded |-> SoFar(sale)]

Papered(id) == Live(id) =>
  /\ sales[id] \in SaleRow /\ StatusOf(id) = sales[id].status
  /\ Paper(id) = PaperOf(sales[id])
  /\ Paper(id) \in Life(id)!Bill /\ Life(id)!Within(Paper(id))

\* What the return rows say of a bill is what its own row says: the paper of a bill
\* is a matter of its lines, prices and returned units.
LEMMA PaperIs == BillsInv => \A id \in Sales : Papered(id)
<1> SUFFICES ASSUME BillsInv, NEW id \in Sales, Live(id)
             PROVE  /\ sales[id] \in SaleRow /\ StatusOf(id) = sales[id].status
                    /\ Paper(id) = PaperOf(sales[id])
                    /\ Paper(id) \in Life(id)!Bill /\ Life(id)!Within(Paper(id))
  BY DEF Papered
<1> DEFINE sale == sales[id]
           R == ReturnsOf(id)
<1>1. /\ sale \in SaleRow /\ sale # NoRow
      /\ sale.items \in [SaleLines -> Nat] /\ sale.returned \in [SaleLines -> Nat]
      /\ \A l \in SaleLines : sale.returned[l] <= sale.items[l]
  BY BillType, CounterParts DEF BillsInv, Live, UnitsWithin
<1>2. Settled(sale, returns, R)
  BY DEF BillsInv, SettledBills
<1>3. BroughtBack(id) = sale.returned
  <2>1. \A l \in SaleLines : SumFunction([ret \in R |-> returns[ret].quantity[l]]) = sale.returned[l]
    BY <1>2 DEF Settled, QuantityOf
  <2> QED
    BY <1>1, <2>1 DEF BroughtBack
<1>4. PaidBack(id) = SoFar(sale) /\ sale.cash + sale.other = Total(sale.price)
  BY <1>2 DEF Settled, AmountOf, PaidBack
<1>5. Paper(id) = PaperOf(sale)
  BY <1>3, <1>4 DEF Paper, PaperOf
<1>6. SoFar(sale) \in Nat /\ SoFar(sale) <= Total(sale.price) /\ Total(sale.price) \in Nat
  <2>1. sale.cash \in Nat /\ sale.other \in Nat
    BY <1>1 DEF SaleRow
  <2> QED
    BY <1>1, <1>4, <2>1, RefundsWithinBill
<1>7. sale.returned = sale.items => SoFar(sale) = Total(sale.price)
  BY <1>1, <1>2, AllBackAllRefunded DEF Settled
<1> HIDE DEF sale
<1>8. PaperOf(sale) \in Life(id)!Bill
  BY <1>1, <1>6 DEF PaperOf, Life!Bill
<1>9. Life(id)!Within(PaperOf(sale))
  BY <1>1, <1>6, <1>7 DEF PaperOf, Life!Within, Life!Whole
<1> QED
  BY <1>1, <1>5, <1>8, <1>9 DEF StatusOf, sale

\* The same after a step.
LEMMA PaperIsNext == BillsInv' => (\A id \in Sales : Papered(id))'
BY PaperIs, PTL

\* A step that leaves the status, the lines and the returned units of a bill, or
\* leaves it away, leaves its life alone.
SameLife(id) ==
  \/ sales[id] = NoRow /\ sales'[id] = NoRow
  \/ /\ sales[id] # NoRow /\ sales'[id] # NoRow
     /\ sales'[id].status = sales[id].status /\ sales'[id].items = sales[id].items
     /\ sales'[id].price = sales[id].price /\ sales'[id].returned = sales[id].returned

LEMMA LifeSame ==
  ASSUME BillsInv, BillsInv', NEW id \in Sales, SameLife(id)
  PROVE  Paper(id)' = Paper(id) /\ StatusOf(id)' = StatusOf(id)
<1>1. StatusOf(id)' = StatusOf(id) /\ (Live(id)' <=> Live(id))
  BY DEF SameLife, StatusOf, Live
<1>2. CASE ~Live(id)
  BY <1>1, <1>2 DEF Paper
<1>3. CASE Live(id)
  <2>1. Paper(id) = PaperOf(sales[id])
    BY <1>3, PaperIs DEF Papered
  <2>2. Paper(id)' = PaperOf(sales'[id])
    BY <1>1, <1>3, PaperIsNext DEF Papered
  <2>3. PaperOf(sales'[id]) = PaperOf(sales[id])
    BY <1>3 DEF SameLife, Live, PaperOf, SoFar, RefundsOf
  <2> QED
    BY <1>1, <2>1, <2>2, <2>3
<1> QED
  BY <1>1, <1>2, <1>3

\* checkout begins a life.
LEMMA LifeSold ==
  ASSUME BillsInv', NEW id \in Sales, sales[id] = NoRow, sales'[id] # NoRow,
         sales'[id].status = "COMPLETED", sales'[id].returned = [l \in SaleLines |-> 0]
  PROVE  Life(id)!Sell
<1>1. StatusOf(id) = "NONE" /\ StatusOf(id)' = "COMPLETED" /\ Live(id)'
  BY DEF StatusOf, Live
<1>2. sales'[id] \in SaleRow /\ Paper(id)' = PaperOf(sales'[id]) /\ Paper(id)' \in Life(id)!Bill
  BY <1>1, PaperIsNext DEF Papered
<1>3. SoFar(sales'[id]) = 0
  <2>1. \A l \in SaleLines : sales'[id].returned[l] = 0
    OBVIOUS
  <2> QED
    BY <1>2, <2>1, NoneBackNoneRefunded
<1>4. Paper(id)'.back = [l \in SaleLines |-> 0] /\ Paper(id)'.refunded = 0
  BY <1>2, <1>3 DEF PaperOf
<1> QED
  BY <1>1, <1>2, <1>4 DEF Life!Sell, Life!Bill

\* returnSale, and cancelSale with a refund, bring units back and pay for them.
LEMMA LifeTaken ==
  ASSUME BillsInv, BillsInv', NEW ret \in Returns, NEW id \in Sales, NEW x, NEW cash,
         NEW returning \in [SaleLines -> Nat], NEW status \in Recognized \cup {"CANCELLED"},
         TakenBack(ret, id, x, returning, cash, status)
  PROVE  /\ Life(id)!MoreBack
         /\ StatusOf(id)' = status
         /\ Paper(id).back = sales[id].returned
         /\ Life(id)!Whole(Paper(id)') <=> NowBack(sales[id], returning) = sales[id].items
<1> DEFINE sale == sales[id]
           back == NowBack(sale, returning)
           row == sales'[id]
<1>1. /\ Live(id) /\ sale.status \in {"COMPLETED", "PARTIALLY_RETURNED"}
      /\ SoldLines(returning) # {} /\ Returnable(sale, returning)
      /\ row \in SaleRow /\ row = BillWith(sale, back, status)
  BY DEF TakenBack, Billed
<1>2. /\ sale \in SaleRow /\ StatusOf(id) = sale.status /\ Paper(id) = PaperOf(sale)
      /\ Paper(id) \in Life(id)!Bill
  BY <1>1, PaperIs DEF Papered
<1>3. /\ row.items = sale.items /\ row.price = sale.price /\ row.returned = back /\ row.status = status
  BY <1>1, <1>2 DEF BillWith, SaleRow
<1>4. Live(id)'
  BY <1>1, <1>3, RowsApartFromNone DEF Live, Recognized
<1>5. /\ StatusOf(id)' = row.status /\ Paper(id)' = PaperOf(row)
      /\ Life(id)!Within(Paper(id)')
  BY <1>4, PaperIsNext DEF Papered
<1>6. Paper(id)' \in Life(id)!Bill
  BY <1>4, PaperIsNext DEF Papered
<1>7. SoFar(sale) <= SoFar(row)
  <2>1. SoFar(row) = SoFar(sale) + RefundAmount(sale, returning)
    BY <1>1, <1>2, <1>3, RefundAdds
  <2>2. RefundAmount(sale, returning) \in Nat
    BY <1>1, <1>2, RefundAmountType
  <2>3. SoFar(sale) \in Nat
    BY <1>2 DEF PaperOf, Life!Bill
  <2> QED
    BY <2>1, <2>2, <2>3
<1>8. back # sale.returned /\ \A l \in SaleLines : sale.returned[l] <= back[l]
  <2>1. \A l \in SaleLines : sale.returned[l] \in Nat /\ returning[l] \in Nat
    BY <1>2 DEF SaleRow
  <2>2. PICK l \in SaleLines : returning[l] > 0
    BY <1>1 DEF SoldLines
  <2>3. \A k \in SaleLines : back[k] = sale.returned[k] + returning[k]
    BY DEF NowBack
  <2> HIDE DEF back
  <2>4. back[l] # sale.returned[l]
    BY <2>1, <2>2, <2>3
  <2>5. \A k \in SaleLines : sale.returned[k] <= back[k]
    BY <2>1, <2>3
  <2> QED
    BY <2>4, <2>5
<1> HIDE DEF sale, back, row
<1>9. /\ Paper(id).items = sale.items /\ Paper(id).back = sale.returned
      /\ Paper(id).total = Total(sale.price) /\ Paper(id).refunded = SoFar(sale)
      /\ Paper(id)'.items = sale.items /\ Paper(id)'.back = back
      /\ Paper(id)'.total = Total(sale.price) /\ Paper(id)'.refunded = SoFar(row)
  BY <1>2, <1>3, <1>5 DEF PaperOf
<1>10. Life(id)!MoreBack
  BY <1>1, <1>2, <1>5, <1>6, <1>7, <1>8, <1>9 DEF Life!MoreBack, Life!Bill, Life!Within, Life!Whole
<1> QED
  BY <1>3, <1>5, <1>9, <1>10 DEF Life!Whole, sale, back

\* voidSale and dataManagementClear(CANCEL) end the life of a bill nothing is back of.
LEMMA LifeVoided ==
  ASSUME BillsInv, BillsInv', NEW ids \in SUBSET Sales, Voided(ids), NEW id \in ids
  PROVE  Life(id)!Void
<1>1. /\ id \in Sales /\ sales[id].status = "COMPLETED" /\ sales[id] # NoRow
      /\ sales'[id] # NoRow /\ sales'[id].status = "CANCELLED" /\ sales'[id].items = sales[id].items
      /\ sales'[id].price = sales[id].price /\ sales'[id].returned = sales[id].returned
  BY DEF Voided, Voidable, WithStatus, Live
<1>2. Live(id) /\ Live(id)'
  BY <1>1 DEF Live
<1>3. StatusOf(id) = "COMPLETED" /\ StatusOf(id)' = "CANCELLED"
  BY <1>1 DEF StatusOf
<1>4. Paper(id) = PaperOf(sales[id]) /\ Paper(id)' = PaperOf(sales'[id])
  BY <1>1, <1>2, PaperIs, PaperIsNext DEF Papered
<1>5. PaperOf(sales'[id]) = PaperOf(sales[id])
  BY <1>1 DEF PaperOf, SoFar, RefundsOf
<1> QED
  BY <1>3, <1>4, <1>5 DEF Life!Void

\* Deletion, of one bill or of many, ends the life of a bill that is there.
LEMMA LifeDeleted ==
  ASSUME BillsInv, NEW ids \in SUBSET Sales, WithStatus(ids, "DELETED"), NEW id \in ids, Live(id)
  PROVE  Life(id)!Delete
<1>1. sales'[id] # NoRow /\ sales'[id].status = "DELETED"
  BY DEF WithStatus
<1>2. StatusOf(id)' = "DELETED" /\ Paper(id)' = NoRow
  BY <1>1 DEF StatusOf, Paper, Live
<1>3. StatusOf(id) # "NONE" /\ StatusOf(id) # "DELETED"
  <2>1. sales[id].status # "NONE"
    BY PaperIs DEF Papered, SaleRow, Recognized
  <2> QED
    BY <2>1 DEF StatusOf, Live
<1> QED
  BY <1>2, <1>3 DEF Life!Delete

\* What a step does to a bill, whatever it does to others.
LEMMA LifeStep ==
  ASSUME BillsInv, BillsInv', Effects, NEW id \in Sales
  PROVE  Life(id)!Next \/ UNCHANGED <<StatusOf(id), Paper(id)>>
<1> DEFINE Lives == Life(id)!Next \/ UNCHANGED <<StatusOf(id), Paper(id)>>
<1>0. /\ Life(id)!Sell \/ Life(id)!Return \/ Life(id)!Refund \/ Life(id)!Void \/ Life(id)!Delete => Lives
      /\ SameLife(id) => Lives
  BY LifeSame DEF Life!Next
<1> HIDE DEF Lives
<1>a. sales'[id] = sales[id] => Lives
  BY <1>0 DEF SameLife
<1>1. ASSUME NEW i \in Sales, NEW store, NEW x, NEW items, NEW price, NEW cash, NEW draft,
             BillMade(i, store, x, items, price, cash, draft)
      PROVE  Lives
  <2>1. CASE i # id
    BY <1>1, <1>a, <2>1 DEF BillMade, Billed
  <2>2. CASE i = id
    <3>1. /\ sales[id] = NoRow /\ sales'[id] \in SaleRow
          /\ sales'[id] = NewBill(store, x, items, price, cash, draft)
      BY <1>1, <2>2 DEF BillMade, Billed
    <3>2. sales'[id].status = "COMPLETED" /\ sales'[id].returned = [l \in SaleLines |-> 0]
      BY <3>1 DEF NewBill
    <3>3. sales'[id] # NoRow
      BY <3>1, RowsApartFromNone
    <3> QED
      BY <1>0, <3>1, <3>2, <3>3, LifeSold
  <2> QED
    BY <2>1, <2>2
<1>2. ASSUME NEW ret \in Returns, NEW i \in Sales, NEW x, NEW returning, NEW cash,
             UnitsReturned(ret, i, x, returning, cash)
      PROVE  Lives
  <2> DEFINE whole == NowBack(sales[i], returning) = sales[i].items
             status == IF whole THEN "RETURNED" ELSE "PARTIALLY_RETURNED"
  <2>1. TakenBack(ret, i, x, returning, cash, status) /\ returning \in [SaleLines -> Nat]
    BY <1>2 DEF UnitsReturned
  <2>2. CASE i # id
    BY <1>a, <2>1, <2>2 DEF TakenBack, Billed
  <2>3. CASE i = id
    <3>1. status \in Recognized \cup {"CANCELLED"}
      BY DEF Recognized
    <3>2. status = IF whole THEN "RETURNED" ELSE "PARTIALLY_RETURNED"
      OBVIOUS
    <3> HIDE DEF status
    <3>3. /\ Life(id)!MoreBack /\ StatusOf(id)' = status
          /\ Life(id)!Whole(Paper(id)') <=> whole
      BY <2>1, <2>3, <3>1, LifeTaken DEF Life!MoreBack, Life!Whole
    <3> HIDE DEF whole
    <3>4. Life(id)!Return
      BY <3>2, <3>3 DEF Life!Return, Life!MoreBack, Life!Whole
    <3> QED
      BY <1>0, <3>4
  <2> QED
    BY <2>2, <2>3
<1>3. ASSUME NEW ret \in Returns, NEW i \in Sales, NEW x, NEW cash, Refunds(ret, i, x, cash)
      PROVE  Lives
  <2> DEFINE returning == sales[i].items
  <2>1. /\ TakenBack(ret, i, x, returning, cash, "CANCELLED") /\ returning \in [SaleLines -> Nat]
        /\ sales[i].returned = [l \in SaleLines |-> 0]
    BY <1>3 DEF Refunds
  <2>2. CASE i # id
    BY <1>a, <2>1, <2>2 DEF TakenBack, Billed
  <2>3. CASE i = id
    <3>1. NowBack(sales[id], returning) = sales[id].items
      <4>1. \A l \in SaleLines : NowBack(sales[id], returning)[l] = sales[id].items[l]
        BY <2>1, <2>3 DEF NowBack
      <4> QED
        BY <2>1, <2>3, <4>1 DEF NowBack
    <3> HIDE DEF returning
    <3>2. /\ Life(id)!MoreBack /\ StatusOf(id)' = "CANCELLED" /\ Paper(id).back = sales[id].returned
          /\ Life(id)!Whole(Paper(id)')
      BY <2>1, <2>3, <3>1, LifeTaken DEF Life!MoreBack, Life!Whole
    <3>3. Life(id)!Refund
      BY <2>1, <2>3, <3>2 DEF Life!Refund, Life!MoreBack, Life!Whole
    <3> QED
      BY <1>0, <3>3
  <2> QED
    BY <2>2, <2>3
<1>4. ASSUME NEW ids \in SUBSET Sales, Voided(ids) PROVE Lives
  <2>1. id \notin ids => sales'[id] = sales[id]
    BY <1>4 DEF Voided, WithStatus
  <2>2. id \in ids => Life(id)!Void
    BY <1>4, LifeVoided
  <2> QED
    BY <1>0, <1>a, <2>1, <2>2
<1>5. ASSUME NEW ids \in SUBSET Sales, WithStatus(ids, "DELETED"), \A i \in ids : Live(i) PROVE Lives
  <2>1. id \notin ids => sales'[id] = sales[id]
    BY <1>5 DEF WithStatus
  <2>2. id \in ids => Life(id)!Delete
    BY <1>5, LifeDeleted
  <2> QED
    BY <1>0, <1>a, <2>1, <2>2
<1>6. \A i \in Sales : DeletedOne(i) => Lives
  <2> SUFFICES ASSUME NEW i \in Sales, DeletedOne(i) PROVE Lives
    OBVIOUS
  <2>1. {i} \in SUBSET Sales /\ WithStatus({i}, "DELETED") /\ \A j \in {i} : Live(j)
    BY DEF DeletedOne
  <2> QED
    BY <1>5, <2>1
<1>7. \A ids \in SUBSET Sales : (\A i \in ids : Live(i)) /\ Cleared(ids) => Lives
  BY <1>5 DEF Cleared
<1>8. Reconciled => Lives
  <2>1. SameBills => SameLife(id)
    BY DEF SameBills, SameLife
  <2> QED
    BY <1>0, <1>a, <2>1 DEF Reconciled
<1>9. UNCHANGED sales => Lives
  BY <1>a
<1>10. Lives
  BY <1>1, <1>2, <1>3, <1>4, <1>6, <1>7, <1>8, <1>9 DEF Effects, StockMoved, vars
<1> QED
  BY <1>10 DEF Lives

\* Every handler of the counter together: each bill lives the life POSBillLife
\* describes, whatever happens to the others; checkout, returnSale, cancelSale, voidSale,
\* deleteSale and dataManagementClear are its steps, all else leaves it alone.
THEOREM EveryBillLivesOnce ==
  ASSUME NEW id \in Sales
  PROVE  Spec => Life(id)!Spec
<1>1. Init => Life(id)!Init
  BY DEF Init, Life!Init, StatusOf, Paper, Live
<1>2. BillsInv /\ BillsInv' /\ [Next]_vars => [Life(id)!Next]_(Life(id)!lifeVars)
  <2> SUFFICES ASSUME BillsInv, BillsInv', [Next]_vars
               PROVE  Life(id)!Next \/ UNCHANGED <<StatusOf(id), Paper(id)>>
    BY DEF Life!lifeVars
  <2> QED
    BY CounterStep, LifeStep DEF BillsInv
<1> QED
  BY <1>1, <1>2, BillsInvariant, PTL DEF Spec, Life!Spec

-----------------------------------------------------------------------------
(* What bills and returns move in the store.                                *)

Still(doc) == \A s \in Stores, v \in Variants : Units(doc[s][v]) = 0

\* The movements of a bill: its units out, or nothing once it is void.
BillMoved(sale, R, doc) ==
  \A v \in Variants :
    Units(doc[sale.store][v]) = IF sale.status = "CANCELLED" /\ R = {} THEN 0 ELSE -sale.items[v]

ReturnMoved(sale, row, doc) == \A v \in Variants : Units(doc[sale.store][v]) = row.quantity[v]

MovesFollow ==
  /\ \A id \in Sales : sales[id] = NoRow => Still(docLedger[id])
  /\ \A ret \in Returns : returns[ret] = NoRow => Still(docLedger[ret])
  /\ \A id \in Sales : Live(id) => BillMoved(sales[id], ReturnsOf(id), docLedger[id])
  /\ \A id \in Sales : Live(id) => \A ret \in ReturnsOf(id) : ReturnMoved(sales[id], returns[ret], docLedger[ret])

\* What a step may do to the movements of one bill and its returns.
BillFollows(id) == Live(id)' =>
  /\ BillMoved(sales'[id], ReturnsOf(id)', docLedger'[id])
  /\ \A ret \in ReturnsOf(id)' : ReturnMoved(sales'[id], returns'[ret], docLedger'[ret])

\* A bill that keeps its lines, status and returns, and whose documents move nothing.
LEMMA BillFollowsSame ==
  ASSUME MovesFollow, NEW id \in Sales, Live(id), sales'[id].store = sales[id].store,
         sales'[id].items = sales[id].items, sales'[id].status = sales[id].status,
         ReturnsOf(id)' = ReturnsOf(id), docLedger'[id] = docLedger[id],
         \A ret \in ReturnsOf(id) : docLedger'[ret] = docLedger[ret] /\ returns'[ret].quantity = returns[ret].quantity
  PROVE  BillFollows(id)
<1>1. /\ BillMoved(sales[id], ReturnsOf(id), docLedger[id])
      /\ \A ret \in ReturnsOf(id) : ReturnMoved(sales[id], returns[ret], docLedger[ret])
  BY DEF MovesFollow
<1>2. BillMoved(sales'[id], ReturnsOf(id)', docLedger'[id])
  <2>1. BillMoved(sales'[id], ReturnsOf(id), docLedger[id])
    BY <1>1 DEF BillMoved
  <2> QED
    BY <2>1
<1>3. \A ret \in ReturnsOf(id) : ReturnMoved(sales'[id], returns'[ret], docLedger'[ret])
  BY <1>1 DEF ReturnMoved
<1> QED
  BY <1>2, <1>3 DEF BillFollows

\* Documents that are no bill and no return move nothing here.
DocsKept == \A x \in Sales \cup Returns : docLedger'[x] = docLedger[x]

\* The same, of bills that are left alone.
LEMMA FollowsApart ==
  ASSUME MovesFollow, NEW id \in Sales, Live(id), sales'[id] = sales[id],
         ReturnsOf(id)' = ReturnsOf(id), docLedger'[id] = docLedger[id],
         \A ret \in ReturnsOf(id) : docLedger'[ret] = docLedger[ret] /\ returns'[ret] = returns[ret]
  PROVE  BillFollows(id)
BY BillFollowsSame

\* checkout
LEMMA FollowsBilled ==
  ASSUME CounterInv, MovesFollow, ReturnsOwned, NEW id \in Sales, NEW store \in Stores, NEW x, NEW items, NEW price,
         NEW cash, NEW draft, BillMade(id, store, x, items, price, cash, draft)
  PROVE  MovesFollow'
<1> DEFINE bill == NewBill(store, x, items, price, cash, draft)
<1>1. /\ sales[id] = NoRow /\ sales'[id] = bill /\ bill \in SaleRow /\ UNCHANGED returns
      /\ \A j \in Sales : j # id => sales'[j] = sales[j]
      /\ OnlyUnder(id) /\ Carries(id, store, [v \in Variants |-> -items[v]])
      /\ items \in [SaleLines -> Nat]
  BY DEF BillMade, Billed
<1>2. /\ bill.store = store /\ bill.items = items /\ bill.status = "COMPLETED" /\ bill # NoRow
  BY <1>1, RowsApartFromNone DEF NewBill
<1> HIDE DEF bill
<1>3. \A y \in Sales \cup Returns : y # id => docLedger'[y] = docLedger[y]
  BY <1>1, SalesAssumption DEF OnlyUnder
<1>4. \A ret \in Returns : ret # id
  BY SalesRowAssumption
<1>5. ASSUME NEW i \in Sales, i # id, Live(i)' PROVE BillFollows(i)
  <2>1. /\ Live(i) /\ sales'[i] = sales[i] /\ ReturnsOf(i)' = ReturnsOf(i) /\ docLedger'[i] = docLedger[i]
    BY <1>1, <1>3, <1>5 DEF Live, ReturnsOf
  <2>2. \A ret \in ReturnsOf(i) : docLedger'[ret] = docLedger[ret] /\ returns'[ret] = returns[ret]
    BY <1>1, <1>3, <1>4 DEF ReturnsOf
  <2> QED
    BY <2>1, <2>2, FollowsApart
<1>6. BillFollows(id)
  <2>1. ReturnsOf(id)' = {}
    BY <1>1 DEF ReturnsOf, ReturnsOwned
  <2>2. BillMoved(bill, {}, docLedger'[id])
    <3> SUFFICES ASSUME NEW v \in Variants PROVE Units(docLedger'[id][store][v]) = -items[v]
      BY <1>2 DEF BillMoved
    <3>1. Units(docLedger[id][store][v]) = 0
      BY <1>1 DEF MovesFollow, Still
    <3>2. Units(docLedger'[id][store][v]) = Units(docLedger[id][store][v]) + (-items[v])
      BY <1>1 DEF Carries
    <3>3. items[v] \in Nat
      BY <1>1, SaleLinesFinite
    <3> QED
      BY <3>1, <3>2, <3>3
  <2> QED
    BY <1>1, <2>1, <2>2 DEF BillFollows
<1>7. \A i \in Sales : sales'[i] = NoRow => Still(docLedger'[i])
  BY <1>1, <1>2, <1>3 DEF MovesFollow
<1>8. \A ret \in Returns : returns'[ret] = NoRow => Still(docLedger'[ret])
  BY <1>1, <1>3, <1>4 DEF MovesFollow
<1> QED
  BY <1>5, <1>6, <1>7, <1>8 DEF MovesFollow, BillFollows

\* returnSale, and cancelSale with a refund
LEMMA FollowsTaken ==
  ASSUME CounterInv, MovesFollow, NEW ret \in Returns, NEW id \in Sales, NEW x, NEW cash,
         NEW returning \in [SaleLines -> Nat], NEW status,
         TakenBack(ret, id, x, returning, cash, status), OnlyUnder(ret)
  PROVE  MovesFollow'
<1>0. Tabled
  BY CounterParts
<1> DEFINE sale == sales[id]
           bill == BillWith(sale, NowBack(sale, returning), status)
           row == NewReturn(id, x, cash, returning)
           R == ReturnsOf(id)
<1>1. /\ Live(id) /\ sale \in SaleRow /\ sale.store \in Stores
      /\ sale.status \in {"COMPLETED", "PARTIALLY_RETURNED"}
      /\ returns[ret] = NoRow /\ returns'[ret] = row /\ row \in ReturnRow
      /\ \A j \in Returns : j # ret => returns'[j] = returns[j]
      /\ sales'[id] = bill /\ bill \in SaleRow
      /\ \A j \in Sales : j # id => sales'[j] = sales[j]
      /\ Carries(ret, sale.store, returning)
  BY <1>0, BillType DEF TakenBack, Returned, Billed, Live
<1>2. row.sale = id /\ ~row.deleted /\ row # NoRow /\ row.quantity = returning
  BY <1>1, RowsApartFromNone DEF NewReturn
<1>a. bill.store = sale.store /\ bill.items = sale.items /\ bill # NoRow
  BY <1>1, RowsApartFromNone DEF BillWith, SaleRow
<1> HIDE DEF row, bill
<1>3. \A y \in Sales \cup Returns : y # ret => docLedger'[y] = docLedger[y]
  BY SalesAssumption DEF OnlyUnder
<1>4. \A i \in Sales : i # ret
  BY SalesRowAssumption
<1>5. ASSUME NEW i \in Sales, i # id, Live(i)' PROVE BillFollows(i)
  <2>1. /\ Live(i) /\ sales'[i] = sales[i] /\ docLedger'[i] = docLedger[i]
    BY <1>1, <1>3, <1>4, <1>5 DEF Live
  <2>2. ReturnsOf(i)' = ReturnsOf(i) /\ ret \notin ReturnsOf(i)
    BY <1>1, <1>2, <1>5 DEF ReturnsOf
  <2>3. \A j \in ReturnsOf(i) : docLedger'[j] = docLedger[j] /\ returns'[j] = returns[j]
    BY <1>1, <1>3, <2>2 DEF ReturnsOf
  <2> QED
    BY <2>1, <2>2, <2>3, FollowsApart
<1>6. BillFollows(id)
  <2>1. ReturnsOf(id)' = R \cup {ret} /\ ret \notin R
    BY <1>1, <1>2 DEF ReturnsOf
  <2>2. BillMoved(sale, R, docLedger[id]) /\ \A j \in R : ReturnMoved(sale, returns[j], docLedger[j])
    BY <1>1 DEF MovesFollow
  <2>3. \A j \in R : j \in Returns /\ docLedger'[j] = docLedger[j] /\ returns'[j] = returns[j]
    BY <1>1, <1>3, <2>1 DEF ReturnsOf
  <2>4. docLedger'[id] = docLedger[id]
    BY <1>3, <1>4
  <2> HIDE DEF sale, R
  <2>5. BillMoved(bill, R \cup {ret}, docLedger'[id])
    BY <1>1, <1>a, <2>2, <2>4 DEF BillMoved
  <2>6. \A j \in R : ReturnMoved(bill, returns'[j], docLedger'[j])
    BY <1>a, <2>2, <2>3 DEF ReturnMoved
  <2>7. ReturnMoved(bill, row, docLedger'[ret])
    <3> SUFFICES ASSUME NEW v \in Variants PROVE Units(docLedger'[ret][sale.store][v]) = returning[v]
      BY <1>2, <1>a DEF ReturnMoved
    <3>1. Units(docLedger[ret][sale.store][v]) = 0
      BY <1>1 DEF MovesFollow, Still
    <3>2. Units(docLedger'[ret][sale.store][v]) = Units(docLedger[ret][sale.store][v]) + returning[v]
      BY <1>1 DEF Carries
    <3>3. returning[v] \in Nat
      BY SaleLinesFinite
    <3> QED
      BY <3>1, <3>2, <3>3
  <2> QED
    BY <1>1, <2>1, <2>5, <2>6, <2>7 DEF BillFollows
<1>7. \A i \in Sales : sales'[i] = NoRow => Still(docLedger'[i])
  BY <1>1, <1>a, <1>3, <1>4 DEF MovesFollow
<1>8. \A j \in Returns : returns'[j] = NoRow => Still(docLedger'[j])
  BY <1>1, <1>2, <1>3 DEF MovesFollow
<1> QED
  BY <1>5, <1>6, <1>7, <1>8 DEF MovesFollow, BillFollows

\* voidSale, of one bill or many
LEMMA FollowsVoided ==
  ASSUME CounterInv, SettledBills, MovesFollow, NEW ids \in SUBSET Sales, Voided(ids)
  PROVE  MovesFollow'
<1>0. Tabled /\ StockTypeOK
  BY CounterParts DEF Tabled
<1>1. /\ UNCHANGED returns /\ WithStatus(ids, "CANCELLED")
      /\ \A id \in ids : Live(id) /\ Voidable(id)
      /\ \A y \in Documents, s \in Stores, v \in Variants :
           docLedger'[y][s][v] =
             IF y \in ids /\ s = sales[y].store
             THEN [docLedger[y][s][v] EXCEPT !.q = @ + sales[y].items[v]] ELSE docLedger[y][s][v]
  BY DEF Voided
<1>2. \A ret \in Returns : ret \notin ids
  BY SalesRowAssumption
<1>3. \A y \in Sales \cup Returns : y \in Documents
  BY SalesAssumption
<1>4. \A y \in Sales \cup Returns : y \notin ids =>
        \A s \in Stores, v \in Variants : docLedger'[y][s][v] = docLedger[y][s][v]
  <2> SUFFICES ASSUME NEW y \in Sales \cup Returns, y \notin ids, NEW s \in Stores, NEW v \in Variants
               PROVE  docLedger'[y][s][v] = docLedger[y][s][v]
    OBVIOUS
  <2>1. y \in Documents
    BY <1>3
  <2> QED
    BY <1>1, <2>1
<1>5. \A i : ReturnsOf(i)' = ReturnsOf(i)
  BY <1>1 DEF ReturnsOf
<1>6. ASSUME NEW i \in Sales, Live(i)' PROVE BillFollows(i)
  <2>0. sales[i] # NoRow /\ sales[i] \in SaleRow /\ sales[i].store \in Stores /\ sales[i].items \in [SaleLines -> Nat]
        /\ sales'[i].store = sales[i].store /\ sales'[i].items = sales[i].items
    <3>1. sales[i] # NoRow
      BY <1>1, <1>6 DEF Live, WithStatus
    <3> QED
      BY <1>0, <1>1, <3>1, BillType DEF WithStatus
  <2>1. Live(i)
    <3>1. CASE i \in ids
      BY <1>1, <3>1
    <3>2. CASE i \notin ids
      BY <1>1, <1>6, <3>2 DEF Live, WithStatus
    <3> QED
      BY <3>1, <3>2
  <2>2. \A ret \in ReturnsOf(i) : ReturnMoved(sales'[i], returns'[ret], docLedger'[ret])
    <3>1. \A ret \in ReturnsOf(i) : ret \in Returns /\ ReturnMoved(sales[i], returns[ret], docLedger[ret])
      BY <2>1 DEF MovesFollow, ReturnsOf
    <3> QED
      BY <1>1, <1>2, <1>4, <2>0, <3>1 DEF ReturnMoved
  <2>3. BillMoved(sales[i], ReturnsOf(i), docLedger[i])
    BY <2>1 DEF MovesFollow
  <2>4. BillMoved(sales'[i], ReturnsOf(i), docLedger'[i])
    <3>1. CASE i \notin ids
      <4>1. sales'[i] = sales[i]
        BY <1>1, <3>1 DEF WithStatus
      <4> QED
        BY <1>4, <2>0, <2>3, <3>1, <4>1 DEF BillMoved
    <3>2. CASE i \in ids
      <4>1. sales[i].status = "COMPLETED" /\ sales'[i].status = "CANCELLED"
        BY <1>1, <3>2 DEF Voidable, WithStatus
      <4>2. ReturnsOf(i) = {}
        BY <2>1, <4>1 DEF SettledBills, Settled, StatusFits
      <4> SUFFICES ASSUME NEW v \in Variants PROVE Units(docLedger'[i][sales[i].store][v]) = 0
        BY <2>0, <4>1, <4>2 DEF BillMoved
      <4> DEFINE d == docLedger[i][sales[i].store][v]
                 e == docLedger'[i][sales[i].store][v]
                 n == sales[i].items[v]
      <4>3. Units(d) = -n
        BY <2>3, <4>1 DEF BillMoved
      <4>4. n \in Nat /\ d \in Delta
        BY <1>0, <1>3, <2>0, SaleLinesFinite DEF StockTypeOK
      <4>5. e = [d EXCEPT !.q = @ + n]
        BY <1>1, <1>3, <2>0, <3>2
      <4> HIDE DEF d, e, n
      <4>6. d.q \in Int /\ d.d \in Int /\ e.q = d.q + n /\ e.d = d.d
        BY <4>4, <4>5 DEF Delta
      <4>7. Units(e) = 0
        BY <4>3, <4>4, <4>6 DEF Units
      <4> QED
        BY <4>7 DEF e
    <3> QED
      BY <3>1, <3>2
  <2> QED
    BY <1>5, <2>2, <2>4 DEF BillFollows
<1>7. \A i \in Sales : sales'[i] = NoRow => Still(docLedger'[i])
  <2>1. \A i \in Sales : sales'[i] = NoRow => sales[i] = NoRow /\ i \notin ids
    BY <1>1 DEF WithStatus
  <2> QED
    BY <1>4, <2>1 DEF MovesFollow, Still
<1>8. \A ret \in Returns : returns'[ret] = NoRow => Still(docLedger'[ret])
  BY <1>1, <1>2, <1>4 DEF MovesFollow, Still
<1> QED
  BY <1>6, <1>7, <1>8 DEF MovesFollow, BillFollows

\* What neither bills out nor takes back.
LEMMA FollowsDeleted ==
  ASSUME MovesFollow, NEW ids \in SUBSET Sales, WithStatus(ids, "DELETED"), Marked(ids), DocsKept
  PROVE  MovesFollow'
<1>1. ASSUME NEW i \in Sales, Live(i)' PROVE BillFollows(i)
  <2>1. i \notin ids
    BY <1>1 DEF WithStatus, Live
  <2>2. Live(i) /\ sales'[i] = sales[i]
    BY <1>1, <2>1 DEF WithStatus, Live
  <2>3. ReturnsOf(i)' = ReturnsOf(i) /\ \A ret \in ReturnsOf(i) : returns'[ret] = returns[ret]
    BY <2>1, MarkedOthers
  <2>4. docLedger'[i] = docLedger[i] /\ \A ret \in ReturnsOf(i) : docLedger'[ret] = docLedger[ret]
    BY DEF DocsKept, ReturnsOf
  <2> QED
    BY <2>2, <2>3, <2>4, FollowsApart
<1>2. \A i \in Sales : sales'[i] = NoRow => Still(docLedger'[i])
  BY DEF WithStatus, MovesFollow, DocsKept
<1>3. \A ret \in Returns : returns'[ret] = NoRow => Still(docLedger'[ret])
  BY DEF Marked, MovesFollow, DocsKept
<1> QED
  BY <1>1, <1>2, <1>3 DEF MovesFollow, BillFollows

\* reconcilePayment moves no stock.
LEMMA FollowsReconciled ==
  ASSUME MovesFollow, Reconciled
  PROVE  MovesFollow'
<1>0. DocsKept
  BY DEF Reconciled, DocsKept, stockVars
<1>1. ASSUME NEW i \in Sales, Live(i)' PROVE BillFollows(i)
  <2>1. docLedger'[i] = docLedger[i] /\ \A ret \in ReturnsOf(i) : docLedger'[ret] = docLedger[ret]
    BY <1>0 DEF DocsKept, ReturnsOf
  <2>2. CASE SameBills /\ UNCHANGED returns
    <3>1. Live(i) /\ sales'[i].status = sales[i].status /\ sales'[i].store = sales[i].store
          /\ sales'[i].items = sales[i].items
      BY <1>1, <2>2 DEF SameBills, Live
    <3>2. ReturnsOf(i)' = ReturnsOf(i) /\ \A ret \in ReturnsOf(i) : returns'[ret].quantity = returns[ret].quantity
      BY <2>2 DEF ReturnsOf
    <3> QED
      BY <2>1, <3>1, <3>2, BillFollowsSame
  <2>3. CASE SameReturns /\ UNCHANGED sales
    <3>1. Live(i) /\ sales'[i] = sales[i]
      BY <1>1, <2>3 DEF Live
    <3>2. ReturnsOf(i)' = ReturnsOf(i) /\ \A ret \in ReturnsOf(i) : returns'[ret].quantity = returns[ret].quantity
      BY <2>3 DEF SameReturns, ReturnsOf
    <3> QED
      BY <2>1, <3>1, <3>2, BillFollowsSame
  <2> QED
    BY <2>2, <2>3 DEF Reconciled
<1>2. \A i \in Sales : sales'[i] = NoRow => Still(docLedger'[i])
  BY <1>0 DEF Reconciled, SameBills, MovesFollow, DocsKept
<1>3. \A ret \in Returns : returns'[ret] = NoRow => Still(docLedger'[ret])
  BY <1>0 DEF Reconciled, SameReturns, MovesFollow, DocsKept
<1> QED
  BY <1>1, <1>2, <1>3 DEF MovesFollow, BillFollows

\* Steps that leave bills, returns and their documents.
LEMMA FollowsElsewhere ==
  ASSUME MovesFollow, UNCHANGED <<sales, returns>>, DocsKept
  PROVE  MovesFollow'
<1>1. ASSUME NEW i \in Sales, Live(i)' PROVE BillFollows(i)
  <2>1. Live(i) /\ sales'[i] = sales[i] /\ ReturnsOf(i)' = ReturnsOf(i)
        /\ \A ret \in ReturnsOf(i) : returns'[ret] = returns[ret]
    BY <1>1 DEF Live, ReturnsOf
  <2>2. docLedger'[i] = docLedger[i] /\ \A ret \in ReturnsOf(i) : docLedger'[ret] = docLedger[ret]
    BY DEF DocsKept, ReturnsOf
  <2> QED
    BY <2>1, <2>2, FollowsApart
<1>2. \A i \in Sales : sales'[i] = NoRow => Still(docLedger'[i])
  BY DEF MovesFollow, DocsKept
<1>3. \A ret \in Returns : returns'[ret] = NoRow => Still(docLedger'[ret])
  BY DEF MovesFollow, DocsKept
<1> QED
  BY <1>1, <1>2, <1>3 DEF MovesFollow, BillFollows

\* Every step keeps the movements of bills and returns in step with them.
LEMMA MovesFollowStep ==
  ASSUME CounterInv, SettledBills, ReturnsOwned, MovesFollow, Effects
  PROVE  MovesFollow'
<1>1. ASSUME NEW id \in Sales, NEW store \in Stores, NEW x \in Sessions, NEW items \in Items, NEW price \in Prices,
             NEW cash \in 0..MaxCash, NEW draft \in DraftKinds, BillMade(id, store, x, items, price, cash, draft)
      PROVE  MovesFollow'
  BY <1>1, FollowsBilled
<1>2. ASSUME NEW ret \in Returns, NEW id \in Sales, NEW x \in Sessions, NEW returning \in Items, NEW cash \in BOOLEAN,
             UnitsReturned(ret, id, x, returning, cash)
      PROVE  MovesFollow'
  <2> DEFINE status == IF NowBack(sales[id], returning) = sales[id].items THEN "RETURNED" ELSE "PARTIALLY_RETURNED"
  <2>1. TakenBack(ret, id, x, returning, cash, status) /\ returning \in [SaleLines -> Nat] /\ OnlyUnder(ret)
    BY <1>2 DEF UnitsReturned
  <2> HIDE DEF status
  <2> QED
    BY <2>1, FollowsTaken
<1>3. ASSUME NEW ret \in Returns, NEW id \in Sales, NEW x \in Sessions, NEW cash \in BOOLEAN, Refunds(ret, id, x, cash)
      PROVE  MovesFollow'
  <2> DEFINE returning == sales[id].items
  <2>1. TakenBack(ret, id, x, returning, cash, "CANCELLED") /\ returning \in [SaleLines -> Nat] /\ OnlyUnder(ret)
    BY <1>3 DEF Refunds
  <2> HIDE DEF returning
  <2> QED
    BY <2>1, FollowsTaken
<1>4. ASSUME NEW ids \in SUBSET Sales, Voided(ids) PROVE MovesFollow'
  BY <1>4, FollowsVoided
<1>5. ASSUME NEW id \in Sales, DeletedOne(id) PROVE MovesFollow'
  <2>1. {id} \in SUBSET Sales /\ WithStatus({id}, "DELETED") /\ Marked({id}) /\ DocsKept
    BY <1>5 DEF DeletedOne, DocsKept
  <2> QED
    BY <2>1, FollowsDeleted
<1>6. ASSUME NEW ids \in SUBSET Sales, Cleared(ids) PROVE MovesFollow'
  <2>1. WithStatus(ids, "DELETED") /\ Marked(ids) /\ DocsKept
    BY <1>6 DEF Cleared, DocsKept, stockVars
  <2> QED
    BY <2>1, FollowsDeleted
<1>7. UNCHANGED <<sales, returns>> /\ DocsKept => MovesFollow'
  BY FollowsElsewhere
<1>8. UNCHANGED stockVars \/ StockMoved => DocsKept
  BY DEF DocsKept, stockVars, StockMoved
<1> QED
  BY <1>1, <1>2, <1>3, <1>4, <1>5, <1>6, <1>7, <1>8, FollowsReconciled DEF Effects, StockMoved, vars

-----------------------------------------------------------------------------
(* Balances and movement rows.                                              *)

\* Bills whose deletion put their units back without a movement.
RestoredAt(s) == {id \in Sales : sales[id] # NoRow /\ sales[id].restored /\ sales[id].store = s}
UnitsOf(table, S, v) == SumFunction([id \in S |-> table[id].items[v]])

\* Only a deletion restores, and nothing of a bill moves after it.
DeletedStay == \A id \in Sales : sales[id] # NoRow /\ sales[id].restored => sales[id].status = "DELETED"

\* A bill that a step does not restore.
Unrestored(id) ==
  \/ sales[id] = NoRow /\ (sales'[id] = NoRow \/ ~sales'[id].restored)
  \/ /\ sales[id] # NoRow /\ sales'[id].restored = sales[id].restored
     /\ sales[id].status = "DELETED" => sales'[id].status = "DELETED"

\* Every handler but one restores nothing and keeps balances and movements apart alike.
LEMMA OnlyOneRestores ==
  ASSUME CounterInv, Effects
  PROVE  \/ Evenly /\ \A i \in Sales : Unrestored(i)
         \/ \E id \in Sales : DeletedOne(id)
<1> DEFINE Same == Evenly /\ \A i \in Sales : Unrestored(i)
<1>0. Tabled
  BY CounterParts
<1>1. \A i \in Sales : sales'[i] = sales[i] => Unrestored(i)
  BY DEF Unrestored
<1>2. UNCHANGED stockVars => Evenly
  BY <1>0, StocksSame DEF Tabled
<1>3. ASSUME NEW id \in Sales, NEW store, NEW x, NEW items, NEW price, NEW cash, NEW draft,
             BillMade(id, store, x, items, price, cash, draft)
      PROVE  Same
  <2>1. /\ Evenly /\ sales[id] = NoRow /\ sales'[id] = NewBill(store, x, items, price, cash, draft)
        /\ \A i \in Sales : i # id => sales'[i] = sales[i]
    BY <1>3 DEF BillMade, Billed
  <2>2. Unrestored(id)
    BY <2>1 DEF Unrestored, NewBill
  <2> QED
    BY <1>1, <2>1, <2>2
<1>4. ASSUME NEW ret, NEW id \in Sales, NEW x, NEW returning, NEW cash, NEW status,
             TakenBack(ret, id, x, returning, cash, status)
      PROVE  \A i \in Sales : Unrestored(i)
  <2>1. /\ Live(id) /\ sales[id] \in SaleRow
        /\ sales'[id] = BillWith(sales[id], NowBack(sales[id], returning), status)
        /\ \A i \in Sales : i # id => sales'[i] = sales[i]
    BY <1>0, <1>4, BillType DEF TakenBack, Billed, Live
  <2>2. sales'[id].restored = sales[id].restored
    BY <2>1 DEF BillWith, SaleRow
  <2>3. Unrestored(id)
    BY <2>1, <2>2 DEF Unrestored, Live
  <2> QED
    BY <1>1, <2>1, <2>3
<1>5. ASSUME NEW ret, NEW id \in Sales, NEW x, NEW returning, NEW cash, UnitsReturned(ret, id, x, returning, cash)
      PROVE  Same
  BY <1>4, <1>5 DEF UnitsReturned
<1>6. ASSUME NEW ret, NEW id \in Sales, NEW x, NEW cash, Refunds(ret, id, x, cash)
      PROVE  Same
  BY <1>4, <1>6 DEF Refunds
<1>7. ASSUME NEW ids \in SUBSET Sales, NEW status, \A id \in ids : Live(id), WithStatus(ids, status),
             \A id \in Sales : sales[id] # NoRow => sales'[id].restored = sales[id].restored
      PROVE  \A i \in Sales : Unrestored(i)
  <2> SUFFICES ASSUME NEW i \in Sales PROVE Unrestored(i)
    OBVIOUS
  <2>1. CASE i \notin ids
    BY <1>1, <1>7, <2>1 DEF WithStatus
  <2>2. CASE i \in ids
    BY <1>7, <2>2 DEF Unrestored, Live
  <2> QED
    BY <2>1, <2>2
<1>8. ASSUME NEW ids \in SUBSET Sales, Voided(ids) PROVE Same
  BY <1>7, <1>8 DEF Voided
<1>9. ASSUME NEW ids \in SUBSET Sales, \A id \in ids : Live(id), Cleared(ids) PROVE Same
  BY <1>2, <1>7, <1>9 DEF Cleared
<1>10. Reconciled => Same
  <2>1. SameBills => \A i \in Sales : Unrestored(i)
    BY DEF SameBills, Unrestored
  <2> QED
    BY <1>1, <1>2, <2>1 DEF Reconciled
<1>11. UNCHANGED sales => \A i \in Sales : Unrestored(i)
  BY <1>1
<1>12. StockMoved => Same
  BY <1>11 DEF StockMoved
<1>13. UNCHANGED <<stockVars, sales>> => Same
  BY <1>2, <1>11
<1> HIDE DEF Same
<1>14. Same \/ \E id \in Sales : DeletedOne(id)
  BY <1>3, <1>5, <1>6, <1>8, <1>9, <1>10, <1>12, <1>13 DEF Effects, vars
<1> QED
  BY <1>14 DEF Same

\* A balance is its movements and what deletions put back.
LedgerFollows ==
  \A s \in Stores, v \in Variants :
    /\ damaged[s][v] = ledger[s][v].d
    /\ quantity[s][v] = ledger[s][v].q + UnitsOf(sales, RestoredAt(s), v)

\* Balances and ledgers are numbers.
LEMMA StockNumbers ==
  ASSUME CounterInv, NEW s \in Stores, NEW v \in Variants
  PROVE  /\ quantity[s][v] \in Int /\ damaged[s][v] \in Int
         /\ ledger[s][v].q \in Int /\ ledger[s][v].d \in Int
<1>1. StockTypeOK
  BY CounterParts DEF Tabled
<1> QED
  BY <1>1 DEF StockTypeOK

\* Finitely many bills were restored, each of a number of units.
LEMMA RestoredRows ==
  ASSUME CounterInv, NEW s
  PROVE  /\ IsFiniteSet(RestoredAt(s))
         /\ \A i \in RestoredAt(s) : i \in Sales /\ sales[i] # NoRow
                                     /\ \A v \in Variants : sales[i].items[v] \in Nat
<1>0. Tabled /\ FiniteRows
  BY CounterParts
<1>1. RestoredAt(s) \subseteq {i \in Sales : sales[i] # NoRow}
  BY DEF RestoredAt
<1>2. IsFiniteSet(RestoredAt(s))
  BY <1>0, <1>1, FS_Subset DEF FiniteRows
<1>3. ASSUME NEW i \in RestoredAt(s), NEW v \in Variants PROVE sales[i].items[v] \in Nat
  <2>1. sales[i].items \in [SaleLines -> Nat]
    BY <1>0, <1>1, BillType
  <2> QED
    BY <2>1, SaleLinesFinite
<1> QED
  BY <1>1, <1>2, <1>3

\* Sums over bills that keep their lines.
LEMMA UnitsSame ==
  ASSUME NEW t, NEW u, NEW S, NEW v, \A i \in S : u[i].items = t[i].items
  PROVE  UnitsOf(u, S, v) = UnitsOf(t, S, v)
<1>1. [i \in S |-> u[i].items[v]] = [i \in S |-> t[i].items[v]]
  OBVIOUS
<1> QED
  BY <1>1 DEF UnitsOf

\* A step that restores nothing.
LEMMA LedgerEvenly ==
  ASSUME CounterInv, CounterInv', LedgerFollows, Effects, Evenly, \A i \in Sales : Unrestored(i)
  PROVE  LedgerFollows'
<1> SUFFICES ASSUME NEW s \in Stores, NEW v \in Variants
             PROVE  /\ damaged'[s][v] = ledger'[s][v].d
                    /\ quantity'[s][v] = ledger'[s][v].q + UnitsOf(sales', RestoredAt(s)', v)
  BY DEF LedgerFollows
<1> DEFINE S == RestoredAt(s)
<1>1. \A i \in Sales : sales[i] # NoRow => Kept(sales[i], sales'[i])
  BY BillsKept
<1>2. RestoredAt(s)' = S
  <2>1. ASSUME NEW i \in Sales PROVE i \in RestoredAt(s)' <=> i \in S
    <3>1. CASE sales[i] = NoRow
      BY <3>1 DEF Unrestored, RestoredAt
    <3>2. CASE sales[i] # NoRow
      BY <1>1, <3>2 DEF Unrestored, RestoredAt, Kept
    <3> QED
      BY <3>1, <3>2
  <2>2. (\A i \in RestoredAt(s)' : i \in Sales) /\ \A i \in S : i \in Sales
    BY DEF RestoredAt
  <2> QED
    BY <2>1, <2>2
<1>3. \A i \in S : sales'[i].items = sales[i].items
  BY <1>1 DEF RestoredAt, Kept
<1> HIDE DEF S
<1>4. UnitsOf(sales', RestoredAt(s)', v) = UnitsOf(sales, S, v)
  BY <1>2, <1>3, UnitsSame
<1>5. UnitsOf(sales, S, v) \in Int
  <2> DEFINE f == [i \in S |-> sales[i].items[v]]
  <2>1. IsFiniteSet(DOMAIN f) /\ \A i \in DOMAIN f : f[i] \in Nat
    BY RestoredRows DEF S
  <2> HIDE DEF f
  <2>2. SumFunction(f) \in Nat
    BY <2>1, TotalNat
  <2> QED
    BY <2>2 DEF UnitsOf, f
<1> DEFINE q == quantity[s][v]
           d == damaged[s][v]
           lq == ledger[s][v].q
           ld == ledger[s][v].d
           q2 == quantity'[s][v]
           d2 == damaged'[s][v]
           lq2 == ledger'[s][v].q
           ld2 == ledger'[s][v].d
           n == UnitsOf(sales, S, v)
<1>6. q \in Int /\ d \in Int /\ lq \in Int /\ ld \in Int
  BY StockNumbers
<1>7. q2 \in Int /\ d2 \in Int /\ lq2 \in Int /\ ld2 \in Int
  <2>1. StockTypeOK'
    BY DEF CounterInv, SalesTypeOK
  <2> QED
    BY <2>1 DEF StockTypeOK
<1>8. q2 - lq2 = q - lq /\ d2 - ld2 = d - ld
  BY DEF Evenly
<1>9. d = ld /\ q = lq + n
  BY DEF LedgerFollows, S
<1> HIDE DEF q, d, lq, ld, q2, d2, lq2, ld2, n
<1>10. d2 = ld2 /\ q2 = lq2 + n
  BY <1>5, <1>6, <1>7, <1>8, <1>9 DEF n
<1> QED
  BY <1>4, <1>10 DEF q2, d2, lq2, ld2, n

\* deleteSaleInternal of a completed bill adds its units, to the balance and to
\* what is restored, and to no movement.
LEMMA LedgerDeleted ==
  ASSUME CounterInv, CounterInv', DeletedStay, LedgerFollows, Effects, NEW id \in Sales, DeletedOne(id)
  PROVE  LedgerFollows'
<1>0. Tabled
  BY CounterParts
<1> DEFINE back == sales[id].status = "COMPLETED"
           at == sales[id].store
<1>1. /\ Live(id) /\ WithStatus({id}, "DELETED") /\ sales'[id].restored = back
      /\ UNCHANGED <<damaged, ledger>>
      /\ \A s \in Stores, v \in Variants :
           quantity'[s][v] = IF s = at /\ back THEN quantity[s][v] + sales[id].items[v] ELSE quantity[s][v]
  BY DEF DeletedOne
<1>2. /\ sales[id] # NoRow /\ sales'[id] # NoRow /\ sales'[id].store = at /\ sales'[id].items = sales[id].items
      /\ \A i \in Sales : i # id => sales'[i] = sales[i]
      /\ ~sales[id].restored
  <2>1. sales[id] # NoRow /\ sales[id].status # "DELETED"
    BY <1>1 DEF Live
  <2>2. ~sales[id].restored
    BY <2>1 DEF DeletedStay
  <2>3. \A i \in Sales : i # id => sales'[i] = sales[i]
    BY <1>1 DEF WithStatus
  <2> QED
    BY <1>1, <2>1, <2>2, <2>3 DEF WithStatus
<1> HIDE DEF back, at
<1> SUFFICES ASSUME NEW s \in Stores, NEW v \in Variants
             PROVE  /\ damaged'[s][v] = ledger'[s][v].d
                    /\ quantity'[s][v] = ledger'[s][v].q + UnitsOf(sales', RestoredAt(s)', v)
  BY DEF LedgerFollows
<1> DEFINE S == RestoredAt(s)
<1>3. /\ id \notin S /\ \A i \in S : i \in Sales /\ i # id /\ sales'[i] = sales[i]
      /\ \A i \in Sales : i # id => (i \in RestoredAt(s)' <=> i \in S)
      /\ \A i \in RestoredAt(s)' : i \in Sales
      /\ id \in RestoredAt(s)' <=> back /\ s = at
  BY <1>1, <1>2 DEF RestoredAt
<1>4. IsFiniteSet(S) /\ \A i \in S : sales[i].items[v] \in Nat
  BY RestoredRows
<1>5. damaged[s][v] = ledger[s][v].d /\ quantity[s][v] = ledger[s][v].q + UnitsOf(sales, S, v)
  BY DEF LedgerFollows
<1> HIDE DEF S
<1>6. CASE back /\ s = at
  <2>1. RestoredAt(s)' = S \cup {id}
    BY <1>3, <1>6
  <2>2. sales[id].items[v] \in Nat
    <3>1. sales[id].items \in [SaleLines -> Nat]
      BY <1>0, <1>2, BillType
    <3> QED
      BY <3>1, SaleLinesFinite
  <2> DEFINE f == [i \in S |-> sales[i].items[v]]
             g == [i \in S \cup {id} |-> sales'[i].items[v]]
  <2>3. /\ IsFiniteSet(DOMAIN f) /\ id \notin DOMAIN f /\ DOMAIN g = DOMAIN f \cup {id} /\ g[id] \in Int
        /\ \A i \in DOMAIN f : f[i] \in Int /\ g[i] = f[i]
    BY <1>2, <1>3, <1>4, <2>2
  <2>4. /\ g[id] = sales[id].items[v] /\ UnitsOf(sales, S, v) = SumFunction(f)
        /\ UnitsOf(sales', S \cup {id}, v) = SumFunction(g)
    BY <1>2 DEF UnitsOf
  <2> HIDE DEF f, g
  <2>5. SumFunction(f) \in Int /\ SumFunction(g) = g[id] + SumFunction(f)
    BY <2>3, TotalWith
  <2>6. quantity'[s][v] = quantity[s][v] + sales[id].items[v] /\ damaged' = damaged /\ ledger' = ledger
    BY <1>1, <1>6
  <2>7. ledger[s][v].q \in Int /\ quantity[s][v] \in Int
    BY StockNumbers
  <2> DEFINE n == sales[id].items[v]
             q == quantity[s][v]
             lq == ledger[s][v].q
             m == SumFunction(f)
  <2>8. n \in Nat /\ q \in Int /\ lq \in Int /\ m \in Int /\ q = lq + m
    BY <1>5, <2>2, <2>4, <2>5, <2>7
  <2> HIDE DEF n, q, lq, m
  <2>9. q + n = lq + (n + m)
    BY <2>8
  <2>10. quantity'[s][v] = q + n /\ ledger'[s][v].q = lq /\ UnitsOf(sales', RestoredAt(s)', v) = n + m
    BY <2>1, <2>4, <2>5, <2>6 DEF n, q, lq, m
  <2> QED
    BY <1>5, <2>6, <2>9, <2>10
<1>7. CASE ~(back /\ s = at)
  <2>1. RestoredAt(s)' = S
    BY <1>3, <1>7
  <2>2. \A i \in S : sales'[i].items = sales[i].items
    BY <1>3
  <2>3. UnitsOf(sales', S, v) = UnitsOf(sales, S, v)
    BY <2>2, UnitsSame
  <2>4. quantity'[s][v] = quantity[s][v] /\ damaged' = damaged /\ ledger' = ledger
    BY <1>1, <1>7
  <2> QED
    BY <1>5, <2>1, <2>3, <2>4
<1> QED
  BY <1>6, <1>7

\* Only deletions restore.
LEMMA DeletedStayStep ==
  ASSUME CounterInv, DeletedStay, Effects
  PROVE  DeletedStay'
<1>1. ASSUME \A i \in Sales : Unrestored(i) PROVE DeletedStay'
  BY <1>1 DEF Unrestored, DeletedStay
<1>2. ASSUME NEW id \in Sales, DeletedOne(id) PROVE DeletedStay'
  BY <1>2 DEF DeletedOne, WithStatus, DeletedStay
<1> QED
  BY <1>1, <1>2, OnlyOneRestores

StoreInv == BillsInv /\ MovesFollow /\ DeletedStay /\ LedgerFollows

\* The store opens empty.
LEMMA StoreInitially == Init => StoreInv
<1> SUFFICES ASSUME Init PROVE StoreInv
  OBVIOUS
<1>1. BillsInv
  BY CounterInitially DEF BillsInv, SettledBills, ReturnsOwned, Init, Live
<1>2. /\ sales = [id \in Sales |-> NoRow] /\ returns = [ret \in Returns |-> NoRow]
      /\ quantity = [s \in Stores |-> [v \in Variants |-> 0]]
      /\ damaged = [s \in Stores |-> [v \in Variants |-> 0]]
      /\ ledger = [s \in Stores |-> [v \in Variants |-> [rows |-> 0, q |-> 0, d |-> 0]]]
      /\ docLedger = [x \in Documents |-> [s \in Stores |-> [v \in Variants |-> NoDelta]]]
  BY DEF Init, StockInit
<1>3. ASSUME NEW x \in Sales \cup Returns PROVE Still(docLedger[x])
  <2>1. x \in Documents
    BY SalesAssumption
  <2>2. \A s \in Stores, v \in Variants : docLedger[x][s][v] = NoDelta
    BY <1>2, <2>1
  <2>3. Units(NoDelta) = 0
    BY DEF Units, NoDelta
  <2> QED
    BY <2>2, <2>3 DEF Still
<1>4. MovesFollow /\ DeletedStay
  BY <1>2, <1>3 DEF MovesFollow, DeletedStay, Live
<1>5. LedgerFollows
  <2> SUFFICES ASSUME NEW s \in Stores, NEW v \in Variants
               PROVE  /\ damaged[s][v] = ledger[s][v].d
                      /\ quantity[s][v] = ledger[s][v].q + UnitsOf(sales, RestoredAt(s), v)
    BY DEF LedgerFollows
  <2>1. RestoredAt(s) = {}
    BY <1>2 DEF RestoredAt
  <2> DEFINE f == [i \in {} |-> sales[i].items[v]]
  <2>2. IsFiniteSet(DOMAIN f) /\ \A i \in DOMAIN f : f[i] = 0
    BY FS_EmptySet
  <2>3. UnitsOf(sales, RestoredAt(s), v) = SumFunction(f)
    BY <2>1 DEF UnitsOf
  <2> HIDE DEF f
  <2>4. SumFunction(f) = 0
    BY <2>2, TotalZero
  <2> QED
    BY <1>2, <2>3, <2>4
<1> QED
  BY <1>1, <1>4, <1>5 DEF StoreInv

\* Bills, their returns and the stock of the store move together.
THEOREM StoreInvariant == Spec => []StoreInv
<1>1. StoreInv /\ [Next]_vars => StoreInv'
  <2> SUFFICES ASSUME StoreInv, [Next]_vars PROVE StoreInv'
    OBVIOUS
  <2>0. CounterInv /\ SettledBills /\ ReturnsOwned /\ MovesFollow /\ DeletedStay /\ LedgerFollows
    BY DEF StoreInv, BillsInv
  <2>1. CounterInv' /\ Effects
    BY <2>0, CounterStep
  <2>2. SettledBills' /\ ReturnsOwned' /\ MovesFollow' /\ DeletedStay'
    BY <2>0, <2>1, SettledStep, ReturnsOwnedStep, MovesFollowStep, DeletedStayStep
  <2>3. LedgerFollows'
    BY <2>0, <2>1, OnlyOneRestores, LedgerEvenly, LedgerDeleted
  <2> QED
    BY <2>1, <2>2, <2>3 DEF StoreInv, BillsInv
<1> QED
  BY <1>1, StoreInitially, PTL DEF Spec

\* The movements of a bill and of its returns, together.
LEMMA MovesTogether ==
  ASSUME StoreInv, NEW id \in Sales, Live(id), NEW v \in Variants
  PROVE  SumFunction([x \in {id} \cup ReturnsOf(id) |-> Units(docLedger[x][sales[id].store][v])]) =
           IF sales[id].status = "CANCELLED" THEN 0 ELSE sales[id].returned[v] - sales[id].items[v]
<1>0. CounterInv /\ SettledBills /\ MovesFollow
  BY DEF StoreInv, BillsInv
<1> DEFINE sale == sales[id]
           R == ReturnsOf(id)
           f == [ret \in R |-> returns[ret].quantity[v]]
           g == [x \in {id} \cup R |-> Units(docLedger[x][sale.store][v])]
<1>1. /\ Settled(sale, returns, R) /\ BillMoved(sale, R, docLedger[id])
      /\ \A ret \in R : ReturnMoved(sale, returns[ret], docLedger[ret])
  BY <1>0 DEF SettledBills, MovesFollow
<1>2. IsFiniteSet(R) /\ R \subseteq Returns /\ \A ret \in R : returns[ret].quantity[v] \in Nat
  BY <1>0, ReturnsFinite, SaleLinesFinite
<1>3. sale.items[v] \in Nat /\ sale.returned[v] \in Nat
  BY <1>0, BillType, CounterParts, BillUnits DEF Live
<1>4. id \notin R
  BY <1>2, SalesRowAssumption
<1>5. g[id] = IF sale.status = "CANCELLED" /\ R = {} THEN 0 ELSE -sale.items[v]
  <2>1. g[id] = Units(docLedger[id][sale.store][v])
    OBVIOUS
  <2> QED
    BY <1>1, <2>1 DEF BillMoved
<1>6. \A ret \in R : g[ret] = f[ret]
  <2>1. \A ret \in R : g[ret] = Units(docLedger[ret][sale.store][v])
    OBVIOUS
  <2> QED
    BY <1>1, <2>1 DEF ReturnMoved
<1>7. DOMAIN f = R /\ DOMAIN g = R \cup {id} /\ \A ret \in R : f[ret] \in Int
  BY <1>2
<1>8. SumFunction(f) = sale.returned[v]
  <2>1. SumFunction(f) = QuantityOf(returns, R, v) /\ v \in SaleLines
    BY SaleLinesFinite DEF QuantityOf
  <2> QED
    BY <1>1, <2>1 DEF Settled
<1>9. StatusFits(sale, R)
  BY <1>1 DEF Settled
<1> HIDE DEF f, g, R, sale
<1>10. g[id] \in Int
  BY <1>3, <1>5
<1>11. SumFunction(g) = g[id] + SumFunction(f)
  BY <1>2, <1>4, <1>6, <1>7, <1>10, TotalWith
<1>12. CASE sale.status = "CANCELLED" /\ R = {}
  <2>1. SumFunction(f) = 0
    BY <1>7, <1>12, FS_EmptySet, TotalZero
  <2> QED
    BY <1>5, <1>11, <1>12, <2>1 DEF g, sale, R
<1>13. CASE sale.status = "CANCELLED" /\ R # {}
  <2>1. sale.returned = sale.items
    BY <1>9, <1>13 DEF StatusFits
  <2>2. SumFunction(g) = 0
    BY <1>3, <1>5, <1>8, <1>11, <1>13, <2>1
  <2> QED
    BY <1>13, <2>2 DEF g, sale, R
<1>14. CASE sale.status # "CANCELLED"
  <2>1. SumFunction(g) = sale.returned[v] - sale.items[v]
    BY <1>3, <1>5, <1>8, <1>11, <1>14
  <2> QED
    BY <1>14, <2>1 DEF g, sale, R
<1> QED
  BY <1>12, <1>13, <1>14

\* checkout, returnSale, cancelSale, voidSale and the stock handlers: a bill and
\* its returns take from the store what the customer holds, and a balance differs
\* from its movement rows by what deletions of completed bills put back.
THEOREM StockFollows == Spec => []StockFollowsBills
<1>1. StoreInv => BillSettlesStock
  BY MovesTogether DEF BillSettlesStock
<1>2. StoreInv => OnlyDeletionEscapesLedger
  BY DEF StoreInv, LedgerFollows, OnlyDeletionEscapesLedger, UnitsOf, RestoredAt
<1> QED
  BY <1>1, <1>2, StoreInvariant, PTL DEF StockFollowsBills

=============================================================================
