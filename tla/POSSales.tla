------------------------------ MODULE POSSales ------------------------------
(***************************************************************************)
(* Bills of the point of sale (src/pos/service.ts): checkout, returns,     *)
(* cancellation, administrative void, permanent deletion, bulk clearing    *)
(* and payment reconciliation, composed with store stock, register         *)
(* sessions and retail commission.                                         *)
(*                                                                         *)
(* Each handler is one Serializable transaction, retried on conflict: one  *)
(* atomic step.  An idempotency key that already has its row is answered   *)
(* from it, so a key stands for the id of the row it creates.  Rows that a *)
(* deletion removes are kept with status DELETED for the properties; the   *)
(* handlers treat them as absent.                                          *)
(***************************************************************************)
EXTENDS POSStock, POSRegister, POSRetailCommission

CONSTANTS
  Manual,      \* the manual line of a bill: no variant, no stock
  LinePrices,  \* what a line may cost after all discounts: [net, tax]
  DraftKinds   \* the billing drafts bills may come from

SaleLines == Variants \cup {Manual}

ASSUME SalesAssumption ==
  /\ Sales \cup Returns \subseteq Documents
  /\ (Sales \cup Returns) \cap (StockKeys \cup Transfers \cup Variants) = {}
  /\ Manual \notin Variants
  /\ LinePrices \subseteq [net : Nat, tax : Nat]
  /\ DraftKinds \subseteq {"none", "plain", "with breaks"}

Recognized == {"COMPLETED", "PARTIALLY_RETURNED", "RETURNED"}

\* cash, other: the payments by method, which add up to the bill; reconciled:
\* those marked RECONCILED.  draft: the billing draft that refers to the sale.
\* restored: a deletion that put the units back without a movement.
SaleRow == [store : Stores, session : Sessions, items : [SaleLines -> Nat],
            price : [SaleLines -> [net : Nat, tax : Nat]], returned : [SaleLines -> Nat],
            cash : Nat, other : Nat, reconciled : SUBSET {"CASH", "OTHER"},
            draft : DraftKinds, restored : BOOLEAN,
            status : Recognized \cup {"CANCELLED", "DELETED"}]

ReturnRow == [sale : Sales, session : Sessions, cash : BOOLEAN, amount : Nat,
              quantity : [SaleLines -> Nat], reconciled : BOOLEAN, deleted : BOOLEAN]

\* A row is not its absence, a bill is no return, and the catalogue is finite.
ASSUME SalesRowAssumption ==
  /\ NoRow \notin SaleRow \cup ReturnRow
  /\ Sales \cap Returns = {}
  /\ IsFiniteSet(Variants)

VARIABLES
  sales,    \* POSSale with its items and payments
  returns   \* POSReturn with its items

vars == <<stockVars, registerVars, commissionVars, sales, returns>>

SalesTypeOK ==
  /\ StockTypeOK /\ RegisterTypeOK /\ CommissionTypeOK
  /\ sales \in [Sales -> SaleRow \cup {NoRow}]
  /\ returns \in [Returns -> ReturnRow \cup {NoRow}]

Init ==
  /\ StockInit /\ RegisterInit /\ CommissionInit
  /\ sales = [id \in Sales |-> NoRow]
  /\ returns = [ret \in Returns |-> NoRow]
-----------------------------------------------------------------------------
Live(id) == sales[id] # NoRow /\ sales[id].status # "DELETED"

ReturnsOf(id) == {ret \in Returns : /\ returns[ret] # NoRow /\ ~returns[ret].deleted
                                    /\ returns[ret].sale = id}

Total(price) == SumFunction([l \in SaleLines |-> price[l].net + price[l].tax])

SoldLines(items) == {l \in SaleLines : items[l] > 0}

\* Units of a bill as movements of its catalog lines.
Out(items) == [v \in Variants |-> [q |-> -items[v], d |-> 0]]

ReceivedIfRecognized(id) == Live(id) /\ sales[id].status \in Recognized   \* mutation

\* receivedSaleWhere: recognised bills, and cancelled ones that were refunded.
Received(id) ==
  /\ Live(id)
  /\ sales[id].status \in Recognized \/ ReturnsOf(id) # {}

\* What bills brought to a session's drawer and refunds took out of it.
BookedTo(x) == {id \in Sales : Received(id) /\ sales[id].session = x}
PaidOutOf(x) == {ret \in Returns : /\ returns[ret] # NoRow /\ ~returns[ret].deleted
                                   /\ returns[ret].session = x /\ returns[ret].cash}

Receipts(x) ==
  SumFunction([id \in BookedTo(x) |-> sales[id].cash])
    - SumFunction([ret \in PaidOutOf(x) |-> returns[ret].amount])

\* checkout: the session it finds or opens, the bill, its stock movements and
\* its commission.
Checkout(id, a, store, x, items, price, cash, draft) ==
  /\ sales[id] = NoRow
  /\ HomeStore[a] = store
  /\ SoldLines(items) # {} /\ SoldLines(items) \subseteq catalog \cup {Manual}
  /\ \A l \in SaleLines \ SoldLines(items) : price[l] = [net |-> 0, tax |-> 0]
  /\ cash <= Total(price)
  /\ EnsureOrOpenSession(a, store, x)
  /\ sales' = [sales EXCEPT ![id] =
       [store |-> store, session |-> x, items |-> items, price |-> price,
        returned |-> [l \in SaleLines |-> 0], cash |-> cash, other |-> Total(price) - cash,
        reconciled |-> {}, draft |-> draft, restored |-> FALSE, status |-> "COMPLETED"]]
  /\ Movement(id, store, SoldLines(items) \ {Manual}, Out(items))
  /\ AccrueRetailCommission(id, store, items, [v \in Variants |-> price[v].net])
  /\ UNCHANGED <<catalog, stockLog, transfers, returns>>

\* The refund of a return: the lines' cumulative shares.
RefundAmount(sale, returning) ==
  SumFunction([l \in SoldLines(returning) |->
    RefundComponents(sale.price[l].net + sale.price[l].tax, sale.price[l].tax,
                     sale.items[l], sale.returned[l], returning[l]).refundAmount])

ReturnableByItself(sale, returning) == \A l \in SaleLines : returning[l] <= sale.items[l]   \* mutation

\* No more units come back than are out (CHECK on returnedQuantity).
Returnable(sale, returning) == \A l \in SaleLines : sale.returned[l] + returning[l] <= sale.items[l]

HeldWithoutPayouts(x, amount) == sessions[x].opening + Receipts(x) >= amount   \* mutation

\* The drawer of the session that pays holds the refund.
DrawerHolds(x, amount) == Drawer(x, Receipts(x)) >= amount

\* What returnSale and a refunded cancellation share: units and money back,
\* the return row, the bill's new status.  `resellable` lines go back on sale,
\* the others are booked as damaged.
TakeBack(ret, id, a, x, returning, resellable, cash, status) ==
  LET sale == sales[id]
      returned == [l \in SaleLines |-> sale.returned[l] + returning[l]]
      amount == RefundAmount(sale, returning)
      back == SoldLines(returning) \ {Manual}
  IN /\ returns[ret] = NoRow
     /\ Live(id) /\ sale.status \in {"COMPLETED", "PARTIALLY_RETURNED"}
     /\ IsOpen(x) /\ SessionStore(x) = sale.store /\ Owns(a, x)
     /\ SoldLines(returning) # {}
     /\ Returnable(sale, returning)
     /\ cash => DrawerHolds(x, amount)
     /\ returns' = [returns EXCEPT ![ret] =
          [sale |-> id, session |-> x, cash |-> cash, amount |-> amount, quantity |-> returning,
           reconciled |-> FALSE, deleted |-> FALSE]]
     /\ sales' = [sales EXCEPT ![id].returned = returned, ![id].status = status]
     /\ Movement(ret, sale.store, back,
          [v \in Variants |-> IF v \in resellable THEN [q |-> returning[v], d |-> 0]
                                                  ELSE [q |-> 0, d |-> returning[v]]])
     /\ UNCHANGED <<catalog, stockLog, transfers, registerVars>>

\* returnSale
ReturnSale(ret, id, a, x, returning, resellable, cash) ==
  LET returned == [l \in SaleLines |-> sales[id].returned[l] + returning[l]]
  IN /\ Live(id)
     /\ TakeBack(ret, id, a, x, returning, resellable, cash,
          IF returned = sales[id].items THEN "RETURNED" ELSE "PARTIALLY_RETURNED")
     /\ ReverseRetailCommission(ret, id, returning, returned)

\* cancelSale with a session and a refund method: everything comes back at
\* once and the commission rows are closed in the same transaction.
CancelWithRefund(ret, id, a, x, cash) ==
  /\ Live(id)
  /\ sales[id].returned = [l \in SaleLines |-> 0]
  /\ TakeBack(ret, id, a, x, sales[id].items, Variants, cash, "CANCELLED")
  /\ LET lines == {v \in Variants : commissions[id][v] # NoRow}
         outstanding(v) == commissions[id][v].amount - commissions[id][v].reversed
     IN /\ adjustments' = Debited({Debit("RETURN", ret, id, v, outstanding(v)) : v \in lines})
        /\ commissions' = [commissions EXCEPT ![id] = Closed(@, "CANCELLED")]
        /\ UNCHANGED <<enabledStores, rate, syncing>>

VoidableUnlessClosed(id) == sales[id].status \in {"COMPLETED", "PARTIALLY_RETURNED"}   \* mutation

\* Only completed bills without returns are voided.
Voidable(id) == sales[id].status = "COMPLETED" /\ sales[id].returned = [l \in SaleLines |-> 0]

\* voidSale for each bill of a set, in one transaction: units go back under the
\* bill's own id, no money moves.  cancelSale and bulkCancelSales void one bill
\* at a time; dataManagementClear(CANCEL) all the completed ones of its scope.
VoidSales(ids) ==
  LET back(s, v) == SumFunction([id \in {i \in ids : sales[i].store = s} |-> sales[id].items[v]])
      voided(s, v) == {id \in ids : sales[id].store = s /\ sales[id].items[v] > 0}
  IN /\ ids # {}
     /\ \A id \in ids : Voidable(id)
     /\ sales' = [id \in Sales |->
          IF id \in ids THEN [sales[id] EXCEPT !.status = "CANCELLED"] ELSE sales[id]]
     /\ quantity' = [s \in Stores |-> [v \in Variants |-> quantity[s][v] + back(s, v)]]
     /\ ledger' = [s \in Stores |-> [v \in Variants |->
          [ledger[s][v] EXCEPT !.rows = @ + Cardinality(voided(s, v)), !.q = @ + back(s, v)]]]
     /\ docLedger' = [x \in Documents |-> [s \in Stores |-> [v \in Variants |->
          IF x \in ids /\ s = sales[x].store
          THEN [docLedger[x][s][v] EXCEPT !.q = @ + sales[x].items[v]] ELSE docLedger[x][s][v]]]]
     /\ CloseRetailCommission(ids, "CANCELLED")
     /\ UNCHANGED <<catalog, damaged, stockLog, transfers, registerVars, returns>>

VoidSale(id) == Live(id) /\ VoidSales({id})

\* The filters of dataManagementClear without a date range.
Scope(stores, status) ==
  {id \in Sales : Live(id) /\ sales[id].store \in stores /\ status \in {"ALL", sales[id].status}}

ClearCancel(stores, status) ==
  VoidSales({id \in Scope(stores, status) : sales[id].status = "COMPLETED"})

\* Rows of returns that go with the deleted bills.
DeleteReturns(ids) ==
  returns' = [ret \in Returns |->
    IF returns[ret] # NoRow /\ returns[ret].sale \in ids
    THEN [returns[ret] EXCEPT !.deleted = TRUE] ELSE returns[ret]]

Unreconciled(id) ==
  /\ sales[id].reconciled = {}
  /\ \A ret \in ReturnsOf(id) : ~returns[ret].reconciled

\* deleteSaleInternal (deleteSale, bulkCancelSales permanent): refuses a bill
\* with a reconciled payment or refund, closes its commission, removes its rows
\* and its draft - which fails if the draft has breaks (ON DELETE RESTRICT) -
\* and puts the units of a COMPLETED bill back with a plain update of the balance.
DeleteSale(id) ==
  LET back == sales[id].status = "COMPLETED"
  IN /\ Live(id)
     /\ Unreconciled(id)
     /\ sales[id].draft # "with breaks"
     /\ CloseRetailCommission({id}, "DELETED")
     /\ sales' = [sales EXCEPT ![id].status = "DELETED", ![id].restored = back]
     /\ DeleteReturns({id})
     /\ quantity' = [quantity EXCEPT ![sales[id].store] =
          [v \in Variants |-> IF back THEN @[v] + sales[id].items[v] ELSE @[v]]]
     /\ UNCHANGED <<catalog, damaged, ledger, docLedger, stockLog, transfers, registerVars>>

\* dataManagementClear(DELETE): removes the rows of every bill in scope and
\* nothing else; a draft that refers to one of them (ON DELETE RESTRICT) fails
\* the whole transaction.
ClearDelete(stores, status) ==
  LET ids == Scope(stores, status)
  IN /\ ids # {}
     /\ \A id \in ids : sales[id].draft = "none"
     /\ sales' = [id \in Sales |->
          IF id \in ids THEN [sales[id] EXCEPT !.status = "DELETED"] ELSE sales[id]]
     /\ DeleteReturns(ids)
     /\ UNCHANGED <<stockVars, registerVars, commissionVars>>

\* reconcilePayment: RECONCILED or DISPUTED, and it may change its mind.
ReconcilePayment(id, method, reconciled) ==
  /\ Live(id)
  /\ (IF method = "CASH" THEN sales[id].cash ELSE sales[id].other) > 0
  /\ reconciled # (method \in sales[id].reconciled)
  /\ sales' = [sales EXCEPT ![id].reconciled = IF reconciled THEN @ \cup {method} ELSE @ \ {method}]
  /\ UNCHANGED <<stockVars, registerVars, commissionVars, returns>>

ReconcileRefund(ret, reconciled) ==
  /\ returns[ret] # NoRow /\ ~returns[ret].deleted
  /\ reconciled # returns[ret].reconciled
  /\ returns' = [returns EXCEPT ![ret].reconciled = reconciled]
  /\ UNCHANGED <<stockVars, registerVars, commissionVars, sales>>
-----------------------------------------------------------------------------
Items == [SaleLines -> 0..MaxUnits]
Prices == [SaleLines -> LinePrices \cup {[net |-> 0, tax |-> 0]}]
Statuses == Recognized \cup {"CANCELLED", "ALL"}

CheckoutNext ==
  \E id \in Sales, a \in Actors, store \in Stores, x \in Sessions, items \in Items, price \in Prices,
     cash \in 0..MaxCash, draft \in DraftKinds :
    Checkout(id, a, store, x, items, price, cash, draft)

ReturnNext ==
  \E ret \in Returns, id \in Sales, a \in Actors, x \in Sessions, cash \in BOOLEAN :
    \/ \E returning \in Items, resellable \in SUBSET Variants :
         /\ resellable \subseteq SoldLines(returning)
         /\ ReturnSale(ret, id, a, x, returning, resellable, cash)
    \/ CancelWithRefund(ret, id, a, x, cash)

AdminNext ==
  \/ \E id \in Sales : VoidSale(id)
  \/ \E id \in Sales : DeleteSale(id)
  \/ \E stores \in SUBSET Stores, status \in Statuses : ClearCancel(stores, status)
  \/ \E stores \in SUBSET Stores, status \in Statuses : ClearDelete(stores, status)
  \/ \E id \in Sales, method \in {"CASH", "OTHER"}, reconciled \in BOOLEAN :
       ReconcilePayment(id, method, reconciled)
  \/ \E ret \in Returns, reconciled \in BOOLEAN : ReconcileRefund(ret, reconciled)

RegisterStep ==
  /\ \/ \E a \in Actors, r \in Registers, cashier \in Cashiers, x \in Sessions, n \in 0..MaxCash :
          OpenRegister(a, r, cashier, x, n)
     \/ \E a \in Actors, store \in Stores, preferred \in Registers \cup {NoRow}, cashier \in Cashiers,
           r \in Registers, x \in Sessions, n \in 0..MaxCash :
          OpenRegisterSession(a, store, preferred, cashier, r, x, n)
     \/ \E k \in CashKeys, x \in Sessions, n \in -MaxCash..MaxCash :
          sessions[x] # NoRow /\ CashMovement(k, x, n, Receipts(x))
     \/ \E x \in Sessions : sessions[x] # NoRow /\ CloseSession(x, Receipts(x))
  /\ UNCHANGED <<stockVars, commissionVars, sales, returns>>

CommissionStep ==
  /\ \/ \E store \in CommissionStores : ConfigureCommission(store)
     \/ \E r \in Rates : ConfigureRate(r)
     \/ \E a \in adjustments, decision \in Decisions : ReviewAdjustment(a, decision)
     \/ \E j \in SyncJobs, id \in Sales :
          /\ Live(id) /\ sales[id].status = "COMPLETED"
          /\ SyncRead(j, id, sales[id].store, [v \in Variants |-> sales[id].items[v]],
               [v \in Variants |-> sales[id].price[v].net])
     \/ \E j \in SyncJobs : SyncWrite(j)
  /\ UNCHANGED <<stockVars, registerVars, sales, returns>>

StockStep == StockNext /\ UNCHANGED <<registerVars, commissionVars, sales, returns>>

Next == CheckoutNext \/ ReturnNext \/ AdminNext \/ RegisterStep \/ CommissionStep \/ StockStep

Spec == Init /\ [][Next]_vars
-----------------------------------------------------------------------------
(* Properties.                                                             *)

\* returnedQuantity, the return rows, the status and the money of a bill tell one
\* story, in whatever order returns, cancellations and voids were tried: refunds
\* never exceed what was paid, and equal it exactly when everything is back.
ReturnsMatchBill ==
  \A id \in Sales : Live(id) =>
    LET sale == sales[id]
        refunded == SumFunction([ret \in ReturnsOf(id) |-> returns[ret].amount])
    IN /\ refunded <= sale.cash + sale.other
       /\ sale.returned = sale.items => refunded = sale.cash + sale.other
       /\ \A l \in SaleLines :
            /\ sale.returned[l] = SumFunction([ret \in ReturnsOf(id) |-> returns[ret].quantity[l]])
            /\ sale.returned[l] <= sale.items[l]
       /\ sale.status = "COMPLETED" => ReturnsOf(id) = {}
       /\ sale.status = "RETURNED" => sale.returned = sale.items
       /\ sale.status = "PARTIALLY_RETURNED" => ReturnsOf(id) # {} /\ sale.returned # sale.items
       /\ sale.status = "CANCELLED" => ReturnsOf(id) = {} \/ sale.returned = sale.items

\* A bill as its own row and the rows of its returns tell it.
BroughtBack(id) ==
  [l \in SaleLines |-> SumFunction([ret \in ReturnsOf(id) |-> returns[ret].quantity[l]])]
PaidBack(id) == SumFunction([ret \in ReturnsOf(id) |-> returns[ret].amount])

Paper(id) ==
  IF Live(id)
  THEN [items |-> sales[id].items, back |-> BroughtBack(id),
        total |-> sales[id].cash + sales[id].other, refunded |-> PaidBack(id)]
  ELSE NoRow

StatusOf(id) == IF sales[id] = NoRow THEN "NONE" ELSE sales[id].status

\* Every bill lives the one life POSBillLife allows, whatever happens to other
\* bills between its own steps.
Life(id) == INSTANCE POSBillLife WITH
              LineIds <- SaleLines, status <- StatusOf(id), bill <- Paper(id)

Units(delta) == delta.q + delta.d

\* The stock movements of a bill and its returns say what the customer holds:
\* nothing after a void or a full return, never units twice.
BillSettlesStock ==
  \A id \in Sales, v \in Variants : Live(id) =>
    SumFunction([x \in {id} \cup ReturnsOf(id) |-> Units(docLedger[x][sales[id].store][v])]) =
      IF sales[id].status = "CANCELLED" THEN 0 ELSE sales[id].returned[v] - sales[id].items[v]

\* Balances differ from the movement rows by exactly the units that permanent
\* deletion of a completed bill puts back, and by nothing else.
OnlyDeletionEscapesLedger ==
  \A s \in Stores, v \in Variants :
    /\ damaged[s][v] = ledger[s][v].d
    /\ quantity[s][v] = ledger[s][v].q +
         SumFunction([id \in {i \in Sales : sales[i] # NoRow /\ sales[i].restored /\ sales[i].store = s} |->
           sales[id].items[v]])

\* Both: the stock a bill moves follows the bill, and every other unit its movement row.
StockFollowsBills == BillSettlesStock /\ OnlyDeletionEscapesLedger

\* A bill was taken out of the books of session x: deleted, or voided without
\* a refund.
Unbooked(id, x) ==
  /\ Live(id)
  /\ sales'[id].status = "DELETED" \/ (sales'[id].status = "CANCELLED" /\ returns' = returns)
  /\ sales[id].session = x \/ \E ret \in ReturnsOf(id) : returns[ret].session = x

\* No checkout, refund, cash movement or opening ever drives a drawer below
\* zero: only taking a bill out of the books afterwards can.
DrawerNeverOverdrawn ==
  [][\A x \in Sessions :
       /\ sessions[x] # NoRow
       /\ Drawer(x, Receipts(x)) >= 0 /\ Drawer(x, Receipts(x))' < 0
       => \E id \in Sales : Unbooked(id, x)]_vars

\* A closed session is history: its row never changes again, no bill, refund or
\* movement is added to it, and its recomputed drawer moves only when a bill is
\* voided or deleted ("Closed-session cash snapshots are preserved").
ClosedSessionsAreHistory ==
  [][\A x \in Sessions : sessions[x] # NoRow /\ sessions[x].closed =>
       /\ sessions'[x] = sessions[x]
       /\ Drawer(x, Receipts(x))' # Drawer(x, Receipts(x)) => \E id \in Sales : Unbooked(id, x)]_vars

\* The commission of a line follows its bill: the share of the units returned
\* is reversed, all of it once the bill is cancelled.
RowFollowsBill(id, v) ==
  Live(id) /\ commissions[id][v] # NoRow =>
    LET row == commissions[id][v]
    IN IF sales[id].status = "CANCELLED"
       THEN row.status = "CANCELLED" /\ row.reversed = row.amount
       ELSE /\ row.status = "ACTIVE"
            /\ row.reversed = RoundDiv(row.amount * sales[id].returned[v], row.quantity)

\* At any time, commission follows the bills (what reverseRetailCommissions and
\* closeRetailCommissions are for; a synchronisation may break it).
CommissionFollowsBill == \A id \in Sales, v \in Variants : RowFollowsBill(id, v)

\* Nothing but a stale synchronisation parts commission from its bill: one that
\* writes the first row of a line whose bill, read as COMPLETED, has been
\* returned or cancelled since.  No return, cancellation, void, deletion, rate
\* change, review or other synchronisation does, in any order.
OnlyStaleSyncPartsCommission ==
  [][\A id \in Sales, v \in Variants :
       RowFollowsBill(id, v) /\ ~RowFollowsBill(id, v)' =>
         /\ commissions[id][v] = NoRow /\ sales[id].status # "COMPLETED"
         /\ \E j \in SyncJobs :
              syncing[j] # NoRow /\ syncing[j].sale = id /\ syncing'[j] = NoRow]_vars
=============================================================================
