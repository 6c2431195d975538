---------------------------- MODULE POSBillLife ----------------------------
(***************************************************************************)
(* What the counter promises about one bill, whatever happens to others:   *)
(* it is sold once; units come back and money goes out until all of it is  *)
(* back, never more than was sold or paid; a bill is voided only while     *)
(* nothing is back; and one that is returned, cancelled or deleted is      *)
(* closed for good.  Every bill of POSSales implements this.               *)
(***************************************************************************)
EXTENDS Naturals

CONSTANTS
  LineIds,  \* lines a bill may have
  NoRow

VARIABLES
  status, \* of the bill, NONE before it is sold
  bill    \* what was sold, what is back and what was refunded

lifeVars == <<status, bill>>

Bill == [items : [LineIds -> Nat], back : [LineIds -> Nat], total : Nat, refunded : Nat]

Whole(b) == b.back = b.items

\* No more comes back than was sold, no more is refunded than was paid, and all of
\* it once everything is back.
Within(b) ==
  /\ \A l \in LineIds : b.back[l] <= b.items[l]
  /\ b.refunded <= b.total
  /\ Whole(b) => b.refunded = b.total

Init == status = "NONE" /\ bill = NoRow

Sell ==
  /\ status = "NONE" /\ status' = "COMPLETED"
  /\ bill' \in Bill
  /\ bill'.back = [l \in LineIds |-> 0] /\ bill'.refunded = 0

\* More units come back, and the money for them goes out.
MoreBack ==
  /\ status \in {"COMPLETED", "PARTIALLY_RETURNED"}
  /\ bill' \in Bill /\ Within(bill')
  /\ bill'.items = bill.items /\ bill'.total = bill.total
  /\ bill'.back # bill.back /\ \A l \in LineIds : bill.back[l] <= bill'.back[l]
  /\ bill.refunded <= bill'.refunded

Return == MoreBack /\ status' = IF Whole(bill') THEN "RETURNED" ELSE "PARTIALLY_RETURNED"

\* Everything comes back at once.
Refund == MoreBack /\ bill.back = [l \in LineIds |-> 0] /\ Whole(bill') /\ status' = "CANCELLED"

Void == status = "COMPLETED" /\ status' = "CANCELLED" /\ UNCHANGED bill

Delete == status \notin {"NONE", "DELETED"} /\ status' = "DELETED" /\ bill' = NoRow

Next == Sell \/ Return \/ Refund \/ Void \/ Delete

Spec == Init /\ [][Next]_lifeVars
=============================================================================
