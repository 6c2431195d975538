----------------------------- MODULE MCPOSSales -----------------------------
(* Three scenes share the runs of POSSales: a bill of two units at a price no  *)
(* split divides evenly, with its commission, through everything that happens *)
(* to bills; the cash of two bills in two sessions; and the commission of one *)
(* bill while rates change and synchronisations run.                           *)
EXTENDS POSSales, TLC

CONSTANTS s1, c1

VARIABLE scene

MCHomeStore == [a \in Actors |-> s1]
MCDocuments == Variants \cup StockKeys \cup Transfers \cup Sales \cup Returns

Even == [net |-> 1, tax |-> 0]
Uneven == [net |-> 3, tax |-> 1]
MCPrices == {Even, Uneven}

Rows(table) == Cardinality({id \in DOMAIN table : table[id] # NoRow})
MCSales == {id \in Sales : sales[id] # NoRow}
Priced(price) ==
    \A id \in MCSales : \A l \in SaleLines : sales[id].items[l] > 0 => sales[id].price[l] = price

NoCash ==
    /\ Rows(sales) <= 1 /\ Rows(sessions) <= 1 /\ Rows(cashMoves) = 0
    /\ \A x \in Sessions : sessions[x] # NoRow => sessions[x].opening = 0
    /\ \A id \in MCSales : sales[id].cash = 0

Small ==
    /\ Rows(returns) <= 1
    /\ \A id \in MCSales : sales[id].reconciled = {}
    /\ \A ret \in Returns : returns[ret] # NoRow => ~returns[ret].reconciled
    /\ Priced(Even)
    /\ \A id \in MCSales : sales[id].draft = "none" /\ \A l \in SaleLines : sales[id].items[l] <= 1
    /\ \A v \in Variants : quantity[s1][v] <= 1

Bill == NoCash /\ Priced(Uneven) /\ rate \in {0, 3} /\ syncing = [j \in SyncJobs |-> NoRow]

Cash == catalog = {} /\ Small

Commission == NoCash /\ Small /\ rate # 3

MCInit == Init /\ scene \in {"bill", "cash", "commission"}

MCNext ==
    /\ UNCHANGED scene
    /\ \/ (scene = "cash" \/ MCSales = {}) /\ CheckoutNext
       \/ ReturnNext \/ AdminNext \/ RegisterStep
       \/ scene # "cash" /\ (CommissionStep \/ StockStep)
    /\ CASE scene = "bill" -> Bill'
         [] scene = "cash" -> Cash' /\ UNCHANGED commissionVars
         [] scene = "commission" -> Commission'

MCSpec == MCInit /\ [][MCNext]_<<vars, scene>>

Symmetry == Permutations(Sales) \cup Permutations(Returns) \cup Permutations(Sessions)
=============================================================================
