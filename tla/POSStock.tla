------------------------------ MODULE POSStock ------------------------------
(***************************************************************************)
(* Store stock of the point of sale (src/pos/service.ts): the balance      *)
(* table POSInventoryBalance, the append-only movement table               *)
(* POSStockMovement, and the handlers that touch nothing else: product     *)
(* registration with opening stock, adjustments, physical counts and       *)
(* store-to-store transfers.                                               *)
(*                                                                         *)
(* Every handler runs in one Serializable transaction that is retried on   *)
(* 40001 (service.ts, transaction), so a handler is one atomic step.  A    *)
(* failed ensure() aborts the transaction: it is a disabled action.        *)
(* Movement rows are kept as the two sums the code's readers group them    *)
(* by: per (store, variant) and per reference.  An adjustment may print    *)
(* another document in its rows; they are summed under its own key here.   *)
(***************************************************************************)
EXTENDS POSCommon, Integers, FiniteSetsExt

CONSTANTS
  StockKeys,    \* references of adjustments and counts: idempotency keys or UUIDs
  Transfers,    \* ids of POSStockTransfer rows
  Documents,    \* everything a movement row can reference
  MaxUnits      \* bound on the units one request moves

ASSUME StockAssumption ==
  /\ StockKeys \cup Transfers \cup Variants \subseteq Documents
  /\ StockKeys \cap Transfers = {} /\ StockKeys \cap Variants = {}
  /\ Transfers \cap Variants = {}
  /\ MaxUnits \in Nat

MovementTypes == {"ADJUSTMENT", "OPENING", "RECEIPT", "DAMAGE", "RECONCILIATION"}

Delta == [q : Int, d : Int]
NoDelta == [q |-> 0, d |-> 0]

StockEntry == [store : Stores, variant : Variants, type : MovementTypes, delta : Delta]

TransferRow == [status : {"DRAFT", "DISPATCHED", "RECEIVED"},
                from : Stores, to : Stores, items : [Variants -> Nat]]

ASSUME StockRowAssumption == NoRow \notin StockEntry \cup TransferRow

VARIABLES
  catalog,      \* variants that exist
  quantity,     \* POSInventoryBalance.quantity, resellable units
  damaged,      \* POSInventoryBalance.damaged
  ledger,       \* movement rows summed by store and variant
  docLedger,    \* movement rows summed by reference, store and variant
  stockLog,     \* audit rows STOCK_ADJUSTED / STOCK_RECONCILED by reference
  transfers     \* POSStockTransfer rows

stockVars == <<catalog, quantity, damaged, ledger, docLedger, stockLog, transfers>>

StockTypeOK ==
  /\ catalog \subseteq Variants
  /\ quantity \in [Stores -> [Variants -> Nat]]
  /\ damaged \in [Stores -> [Variants -> Nat]]
  /\ ledger \in [Stores -> [Variants -> [rows : Nat, q : Int, d : Int]]]
  /\ docLedger \in [Documents -> [Stores -> [Variants -> Delta]]]
  /\ stockLog \in [StockKeys -> StockEntry \cup {NoRow}]
  /\ transfers \in [Transfers -> TransferRow \cup {NoRow}]

StockInit ==
  /\ catalog = {}
  /\ quantity = [s \in Stores |-> [v \in Variants |-> 0]]
  /\ damaged = [s \in Stores |-> [v \in Variants |-> 0]]
  /\ ledger = [s \in Stores |-> [v \in Variants |-> [rows |-> 0, q |-> 0, d |-> 0]]]
  /\ docLedger = [x \in Documents |-> [s \in Stores |-> [v \in Variants |-> NoDelta]]]
  /\ stockLog = [k \in StockKeys |-> NoRow]
  /\ transfers = [t \in Transfers |-> NoRow]

-----------------------------------------------------------------------------
(* The one way stock changes hands: the calls movement() makes for the     *)
(* lines of one document.  The conditional update refuses a balance that   *)
(* would go below zero; one refused line aborts the whole transaction.     *)
Covers(s, lines, delta) ==
  \A v \in lines : quantity[s][v] >= -delta[v].q /\ damaged[s][v] >= -delta[v].d

LoggedResellable(row, delta) == [row EXCEPT !.rows = @ + 1, !.q = @ + delta.q]   \* mutation

\* A sum of movement rows with one row more.
Logged(row, delta) == [rows |-> row.rows + 1, q |-> row.q + delta.q, d |-> row.d + delta.d]

Movement(doc, s, lines, delta) ==
  /\ Covers(s, lines, delta)
  /\ quantity' = [quantity EXCEPT ![s] =
       [v \in Variants |-> IF v \in lines THEN @[v] + delta[v].q ELSE @[v]]]
  /\ damaged' = [damaged EXCEPT ![s] =
       [v \in Variants |-> IF v \in lines THEN @[v] + delta[v].d ELSE @[v]]]
  /\ ledger' = [ledger EXCEPT ![s] =
       [v \in Variants |-> IF v \in lines THEN Logged(@[v], delta[v]) ELSE @[v]]]
  /\ docLedger' = [docLedger EXCEPT ![doc][s] =
       [v \in Variants |-> IF v \in lines
                           THEN [q |-> @[v].q + delta[v].q, d |-> @[v].d + delta[v].d]
                           ELSE @[v]]]

\* createProduct: a product of one variant, with opening stock when a store is given.
CreateProduct(v) ==
  /\ v \notin catalog
  /\ catalog' = catalog \cup {v}
  /\ \/ UNCHANGED <<quantity, damaged, ledger, docLedger>>
     \/ \E s \in Stores, n \in 1..MaxUnits :
          Movement(v, s, {v}, [w \in Variants |-> [q |-> n, d |-> 0]])
  /\ UNCHANGED <<stockLog, transfers>>

\* The input rules adjust() applies before it opens its transaction.
ValidAdjustment(type, delta) ==
  /\ type \in MovementTypes \ {"RECONCILIATION"}
  /\ delta # NoDelta
  /\ type \in {"OPENING", "RECEIPT"} => delta.q > 0 /\ delta.d = 0
  /\ type = "DAMAGE" => delta.d > 0 /\ delta.q = -delta.d

RepeatedReference(k) == k \in StockKeys   \* mutation

\* No adjustment or count has been booked under the reference.
FreshReference(k) == stockLog[k] = NoRow

\* Opening stock is for a store and variant that never moved.
FirstMovement(type, s, v) == type = "OPENING" => ledger[s][v].rows = 0

\* adjust: a key already in the audit log is answered from it and changes nothing.
Adjust(k, s, v, type, delta) ==
  /\ ValidAdjustment(type, delta)
  /\ v \in catalog
  /\ FreshReference(k)
  /\ FirstMovement(type, s, v)
  /\ Movement(k, s, {v}, [w \in Variants |-> delta])
  /\ stockLog' = [stockLog EXCEPT ![k] =
       [store |-> s, variant |-> v, type |-> type, delta |-> delta]]
  /\ UNCHANGED <<catalog, transfers>>

\* reconcileStock: the count becomes the balance; the difference is a movement,
\* written even when it is zero.
ReconcileStock(k, s, v, countedQuantity, countedDamaged) ==
  LET delta == [q |-> countedQuantity - quantity[s][v], d |-> countedDamaged - damaged[s][v]]
  IN /\ v \in catalog
     /\ FreshReference(k)
     /\ Movement(k, s, {v}, [w \in Variants |-> delta])
     /\ stockLog' = [stockLog EXCEPT ![k] =
          [store |-> s, variant |-> v, type |-> "RECONCILIATION", delta |-> delta]]
     /\ UNCHANGED <<catalog, transfers>>

Lines(items) == {v \in Variants : items[v] > 0}

CreateTransfer(t, from, to, items) ==
  /\ transfers[t] = NoRow
  /\ from # to
  /\ Lines(items) # {} /\ Lines(items) \subseteq catalog
  /\ transfers' = [transfers EXCEPT ![t] =
       [status |-> "DRAFT", from |-> from, to |-> to, items |-> items]]
  /\ UNCHANGED <<catalog, quantity, damaged, ledger, docLedger, stockLog>>

NotReceived(t, status) == transfers[t] # NoRow /\ transfers[t].status # "RECEIVED"   \* mutation

\* The status progressTransfer asks of the row it has locked.
InStatus(t, status) == transfers[t] # NoRow /\ transfers[t].status = status

\* progressTransfer(receive = false); a DISPATCHED transfer is answered unchanged.
DispatchTransfer(t) ==
  /\ InStatus(t, "DRAFT")
  /\ LET items == transfers[t].items
     IN Movement(t, transfers[t].from, Lines(items), [v \in Variants |-> [q |-> -items[v], d |-> 0]])
  /\ transfers' = [transfers EXCEPT ![t].status = "DISPATCHED"]
  /\ UNCHANGED <<catalog, stockLog>>

\* progressTransfer(receive = true)
ReceiveTransfer(t) ==
  /\ InStatus(t, "DISPATCHED")
  /\ LET items == transfers[t].items
     IN Movement(t, transfers[t].to, Lines(items), [v \in Variants |-> [q |-> items[v], d |-> 0]])
  /\ transfers' = [transfers EXCEPT ![t].status = "RECEIVED"]
  /\ UNCHANGED <<catalog, stockLog>>

StockNext ==
  \/ \E v \in Variants : CreateProduct(v)
  \/ \E k \in StockKeys, s \in Stores, v \in Variants, type \in MovementTypes,
        q \in -MaxUnits..MaxUnits, d \in -MaxUnits..MaxUnits :
       Adjust(k, s, v, type, [q |-> q, d |-> d])
  \/ \E k \in StockKeys, s \in Stores, v \in Variants, q \in 0..MaxUnits, d \in 0..MaxUnits :
       ReconcileStock(k, s, v, q, d)
  \/ \E t \in Transfers, from \in Stores, to \in Stores, items \in [Variants -> 0..MaxUnits] :
       CreateTransfer(t, from, to, items)
  \/ \E t \in Transfers : DispatchTransfer(t)
  \/ \E t \in Transfers : ReceiveTransfer(t)

StockSpec == StockInit /\ [][StockNext]_stockVars
-----------------------------------------------------------------------------
(* Properties.                                                             *)

\* Every unit of a balance, resellable or damaged, is accounted for by the
\* movement rows of that store and variant (comment in movement()).
LedgerExplainsBalance ==
  \A s \in Stores, v \in Variants :
    quantity[s][v] = ledger[s][v].q /\ damaged[s][v] = ledger[s][v].d

\* An adjustment or count reference moves stock once and exactly as its audit
\* row says, however often adjust() is retried with the key: the movements
\* under a reference are the audited delta at the audited place, and none
\* anywhere else or before the audit row exists.
AuditedOnce ==
  \A k \in StockKeys, s \in Stores, v \in Variants :
    docLedger[k][s][v] =
      IF /\ stockLog[k] # NoRow
         /\ stockLog[k].store = s /\ stockLog[k].variant = v
      THEN stockLog[k].delta ELSE NoDelta

\* The units a transfer has moved at a store, as its status promises: out of
\* the source once dispatched, into the destination once received.
TransferredUnits(row, s, v) ==
  IF row = NoRow THEN 0
  ELSE IF s = row.from /\ row.status # "DRAFT" THEN -row.items[v]
  ELSE IF s = row.to /\ row.status = "RECEIVED" THEN row.items[v]
  ELSE 0

\* progressTransfer moves each transfer out once and in once, whatever order
\* and however often dispatch and receive are called, and never half of it.
TransferMovesOnce ==
  \A t \in Transfers, s \in Stores, v \in Variants :
    docLedger[t][s][v] = [q |-> TransferredUnits(transfers[t], s, v), d |-> 0]

\* adjust() lets opening stock in only where no movement exists: a store and
\* variant have at most one OPENING row, counting createProduct's own.
OneOpening ==
  \A k \in StockKeys :
    stockLog[k] # NoRow /\ stockLog[k].type = "OPENING" =>
      LET s == stockLog[k].store
          v == stockLog[k].variant
      IN /\ docLedger[v][s][v].q = 0
         /\ \A j \in StockKeys \ {k} :
              stockLog[j] # NoRow /\ stockLog[j].type = "OPENING" =>
                stockLog[j].store # s \/ stockLog[j].variant # v
=============================================================================
