------------------------ MODULE POSRetailCommission -------------------------
(***************************************************************************)
(* Retail commission snapshots and their debits                            *)
(* (src/pos/retailCommissions.ts): one POSRetailCommission row per sold    *)
(* catalog line, one POSRetailCommissionAdjustment per event that takes    *)
(* commission back.  The operators here are the calls that sales make; the *)
(* module that records sales composes them.                                *)
(*                                                                         *)
(* All variants belong to one subcategory, whose rate an administrator may *)
(* change.  Lines without a subcategory get a row of amount zero, which    *)
(* nothing can reverse: they are left out, as is eligibleRevenue, which is *)
(* reversed by the same arithmetic as the amount.                          *)
(***************************************************************************)
EXTENDS POSCommon, POSFinance, FiniteSetsExt

CONSTANTS
  Sales,          \* ids of POSSale rows
  Returns,        \* ids of POSReturn rows
  CommissionType, \* "PERCENTAGE" or "FIXED", of the subcategory
  FixedBasis,     \* POSConfiguration.fixedCommissionBasis, "UNIT" or "LINE"
  CommissionStores, \* stores whose configuration an administrator changes
  Rates,          \* rates the subcategory may be given; 0: none configured
  SyncJobs        \* concurrent calls of syncRetailCommissionsFromSales

ASSUME CommissionAssumption ==
  /\ CommissionType \in {"PERCENTAGE", "FIXED"} /\ FixedBasis \in {"UNIT", "LINE"}
  /\ CommissionStores \subseteq Stores /\ Rates \subseteq Nat /\ Sales \cap Returns = {}

CommissionRow == [status : {"ACTIVE", "CANCELLED", "DELETED"}, quantity : Nat \ {0},
                  amount : Nat, reversed : Nat, returnedQuantity : Nat]

\* What a synchronisation holds between its reading and its writing.
SyncRow == [sale : Sales, items : [Variants -> Nat], amounts : [Variants -> Nat]]

ASSUME CommissionRowAssumption == NoRow \notin CommissionRow \cup SyncRow

Events == {"RETURN", "CANCELLED", "DELETED"}
Decisions == {"APPROVED", "REJECTED"}

\* eventKey is `${event}-${cause}-${line}`; the cause is a return or the sale.
Adjustment == [event : Events, cause : Sales \cup Returns, sale : Sales, line : Variants,
               amount : Int, status : Decisions \cup {"PENDING"}]

VARIABLES
  enabledStores,  \* stores whose POSConfiguration.commissionEnabled is set
  rate,           \* commissionRate of the subcategory
  commissions,    \* POSRetailCommission rows by sale and line
  adjustments,    \* POSRetailCommissionAdjustment rows
  syncing         \* by job: the sale it has read and the amounts it will write

commissionVars == <<enabledStores, rate, commissions, adjustments, syncing>>

CommissionTypeOK ==
  /\ enabledStores \subseteq Stores /\ rate \in Nat
  /\ commissions \in [Sales -> [Variants -> CommissionRow \cup {NoRow}]]
  /\ adjustments \subseteq Adjustment
  /\ syncing \in [SyncJobs -> SyncRow \cup {NoRow}]

CommissionInit ==
  /\ enabledStores = {} /\ rate = 0
  /\ commissions = [id \in Sales |-> [v \in Variants |-> NoRow]]
  /\ adjustments = {}
  /\ syncing = [j \in SyncJobs |-> NoRow]

\* The commission of each line at today's rate.
LineCommission(items, net) ==
  [v \in Variants |-> RetailAmount(net[v], rate, CommissionType, items[v], FixedBasis)]

AccruedAnew(rows, items, amounts) ==   \* mutation
  [v \in Variants |->
     IF items[v] > 0
     THEN [status |-> "ACTIVE", quantity |-> items[v], amount |-> amounts[v],
           reversed |-> 0, returnedQuantity |-> 0]
     ELSE rows[v]]

\* The upserts of accrueRetailCommission: a row that exists keeps its amount.
Accrued(rows, items, amounts) ==
  [v \in Variants |->
     IF items[v] > 0 /\ rows[v] = NoRow
     THEN [status |-> "ACTIVE", quantity |-> items[v], amount |-> amounts[v],
           reversed |-> 0, returnedQuantity |-> 0]
     ELSE rows[v]]

\* accrueRetailCommission as checkout calls it, for a sale just created.
AccrueRetailCommission(id, store, items, net) ==
  /\ commissions' = IF store \in enabledStores
       THEN [commissions EXCEPT ![id] = Accrued(@, items, LineCommission(items, net))]
       ELSE commissions
  /\ UNCHANGED <<enabledStores, rate, adjustments, syncing>>

\* Upsert by event key with an empty update: an event debits a line once.
Debited(rows) ==
  adjustments \cup
    {a \in rows : a.amount # 0 /\ ~\E b \in adjustments :
       b.event = a.event /\ b.cause = a.cause /\ b.line = a.line}

Debit(event, cause, id, v, amount) ==
  [event |-> event, cause |-> cause, sale |-> id, line |-> v, amount |-> -amount, status |-> "PENDING"]

\* reverseRetailCommission: the cumulative share of the units back, of the
\* lines in this return that have an active row.
ReverseRetailCommission(ret, id, returning, returned) ==
  LET lines == {v \in Variants : /\ returning[v] > 0 /\ commissions[id][v] # NoRow
                                 /\ commissions[id][v].status = "ACTIVE"}
      reversed(v) == RefundAllocation(commissions[id][v].amount, commissions[id][v].quantity, 0, returned[v])
      debit(v) == IF reversed(v) > commissions[id][v].reversed
                  THEN reversed(v) - commissions[id][v].reversed ELSE 0
  IN /\ adjustments' = Debited({Debit("RETURN", ret, id, v, debit(v)) : v \in lines})
     /\ commissions' = [commissions EXCEPT ![id] =
          [v \in Variants |-> IF v \in lines
             THEN [@[v] EXCEPT !.reversed = reversed(v), !.returnedQuantity = returned[v]]
             ELSE @[v]]]
     /\ UNCHANGED <<enabledStores, rate, syncing>>

ClosedByStatus(rows, status) ==   \* mutation
  [v \in Variants |-> IF rows[v] = NoRow THEN NoRow ELSE [rows[v] EXCEPT !.status = status]]

\* What closeRetailCommission does to the rows of the sales in `ids`.
Closed(rows, status) ==
  [v \in Variants |-> IF rows[v] = NoRow THEN NoRow
     ELSE [rows[v] EXCEPT !.status = status, !.reversed = rows[v].amount,
                          !.returnedQuantity = rows[v].quantity]]

CloseRetailCommission(ids, status) ==
  LET lines == {p \in ids \X Variants : commissions[p[1]][p[2]] # NoRow}
      outstanding(p) == commissions[p[1]][p[2]].amount - commissions[p[1]][p[2]].reversed
  IN /\ adjustments' = Debited({Debit(status, p[1], p[1], p[2], outstanding(p)) : p \in lines})
     /\ commissions' = [id \in Sales |->
          IF id \in ids THEN Closed(commissions[id], status) ELSE commissions[id]]
     /\ UNCHANGED <<enabledStores, rate, syncing>>

-----------------------------------------------------------------------------
\* PUT configuration and configureSubcategoryCommission.
ConfigureCommission(store) ==
  /\ store \in CommissionStores
  /\ enabledStores' = IF store \in enabledStores THEN enabledStores \ {store} ELSE enabledStores \cup {store}
  /\ UNCHANGED <<rate, commissions, adjustments, syncing>>

ConfigureRate(r) ==
  /\ r \in Rates \ {rate}
  /\ rate' = r
  /\ UNCHANGED <<enabledStores, commissions, adjustments, syncing>>

\* reviewRetailAdjustment: a decision is final.
ReviewAdjustment(a, decision) ==
  /\ a \in adjustments /\ a.status = "PENDING"
  /\ adjustments' = (adjustments \ {a}) \cup {[a EXCEPT !.status = decision]}
  /\ UNCHANGED <<enabledStores, rate, commissions, syncing>>

\* syncRetailCommissionsFromSales runs accrueRetailCommission in a transaction
\* of the default isolation level (ReadCommitted) and takes no lock on the
\* sale: it reads the sale, then writes rows, and sales change in between.
SyncRead(j, id, store, items, net) ==
  /\ syncing[j] = NoRow
  /\ store \in enabledStores
  /\ syncing' = [syncing EXCEPT ![j] =
       [sale |-> id, items |-> items, amounts |-> LineCommission(items, net)]]
  /\ UNCHANGED <<enabledStores, rate, commissions, adjustments>>

SyncWrite(j) ==
  /\ syncing[j] # NoRow
  /\ commissions' = [commissions EXCEPT ![syncing[j].sale] =
       Accrued(@, syncing[j].items, syncing[j].amounts)]
  /\ syncing' = [syncing EXCEPT ![j] = NoRow]
  /\ UNCHANGED <<enabledStores, rate, adjustments>>
-----------------------------------------------------------------------------
(* Properties of the rows by themselves.                                   *)

\* A snapshot is final: no later accrual, rate change or synchronisation
\* changes a row's amount, and what was reversed is never given back
\* (POS_SUBCATEGORY_COMMISSION.md: "non-overwriting upsert").
SnapshotsAreFinal ==
  [][\A id \in Sales, v \in Variants : commissions[id][v] # NoRow =>
       /\ commissions'[id][v] # NoRow
       /\ commissions'[id][v].amount = commissions[id][v].amount
       /\ commissions'[id][v].reversed >= commissions[id][v].reversed
       /\ commissions[id][v].status # "ACTIVE" => commissions'[id][v].status # "ACTIVE"]_commissions
=============================================================================
