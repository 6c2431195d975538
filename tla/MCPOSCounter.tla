---------------------------- MODULE MCPOSCounter ----------------------------
(* Three components that share no state share one run: stock, the arithmetic  *)
(* of a bill, and registers.  Identifiers of one kind are used in their order, *)
(* which loses nothing, as the code treats them alike; and two references meet *)
(* one transfer, or two transfers one reference.                               *)
EXTENDS POSStock, POSBill, POSRegister, TLC

CONSTANTS s1, s2, v1, v2, c1, c2, c3, a1, k1, k2, t1, t2, r1, r2, x1, x2

VARIABLE scene

MCHomeStore == (c1 :> s1) @@ (c2 :> s1) @@ (c3 :> s2) @@ (a1 :> s1)
MCDocuments == StockKeys \cup Transfers \cup Variants

NoBill ==
    /\ lines = << >> /\ discount = 0 /\ discountType = "AMOUNT"
    /\ totals = << >> /\ returned = << >> /\ refunds = << >>

MCInit ==
    /\ StockInit /\ RegisterInit
    /\ \/ scene \in {"stock", "register"} /\ NoBill
       \/ scene = "bill" /\ BillInit

Touched(s) == \E v \in Variants : ledger[s][v].rows > 0

InOrder ==
    /\ v2 \in catalog => v1 \in catalog
    /\ Touched(s2) => Touched(s1)
    /\ stockLog[k2] # NoRow => stockLog[k1] # NoRow
    /\ transfers[t2] # NoRow => transfers[t1] # NoRow
    /\ stockLog[k2] = NoRow \/ transfers[t2] = NoRow
    /\ registers[r2] # NoRow => registers[r1] # NoRow
    /\ sessions[x2] # NoRow => sessions[x1] # NoRow

MCNext ==
    /\ UNCHANGED scene
    /\ \/ scene = "stock" /\ StockNext /\ UNCHANGED <<billVars, registerVars>>
       \/ scene = "bill" /\ BillNext /\ UNCHANGED <<stockVars, registerVars>>
       \/ scene = "register" /\ RegisterNext /\ UNCHANGED <<stockVars, billVars>>
    /\ InOrder'

MCSpec == MCInit /\ [][MCNext]_<<stockVars, billVars, registerVars, scene>>
=============================================================================
