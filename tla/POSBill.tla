------------------------------ MODULE POSBill -------------------------------
(***************************************************************************)
(* One bill of the point of sale: quoted and sold (billTotals), then       *)
(* returned piece by piece (returnSale's use of refundComponents).         *)
(***************************************************************************)
EXTENDS POSFinance

CONSTANTS
  Prices, Quantities, Discounts, TaxRates,   \* values a bill line may carry
  OrderDiscounts,                            \* order discounts asked for
  MaxLines                                   \* lines of a bill

ASSUME BillAssumption ==
  /\ Prices \subseteq Nat \ {0} /\ Quantities \subseteq Nat \ {0}
  /\ Discounts \subseteq Nat /\ OrderDiscounts \subseteq Nat
  /\ TaxRates \subseteq 0..100
  /\ MaxLines \in Nat \ {0}

VARIABLES
  lines,      \* the request: lines, order discount and its type
  discount,
  discountType,
  totals,     \* what was charged: BillTotals of the request
  returned,   \* POSSaleItem.returnedQuantity by line
  refunds     \* components refunded so far by line

billVars == <<lines, discount, discountType, totals, returned, refunds>>

RequestLine ==
  [price : Prices, quantity : Quantities, discount : Discounts, discountType : DiscountTypes,
   taxRate : TaxRates, eligible : BOOLEAN]

BillInit ==
  /\ \E n \in 1..MaxLines : lines \in [1..n -> {l \in RequestLine : ValidLine(l)}]
  /\ discount \in OrderDiscounts /\ discountType \in DiscountTypes
  /\ ValidOrderDiscount(lines, discount, discountType)
  /\ totals = BillTotals(lines, discount, discountType)
  /\ returned = [i \in DOMAIN lines |-> 0]
  /\ refunds = [i \in DOMAIN lines |-> [revenue |-> 0, tax |-> 0]]

\* returnSale, one line of it: `returning` units of line i.
Refund(i, returning) ==
  LET t == totals.snapshots[i]
      part == RefundComponents(t.lineTotal, t.taxTotal, t.quantity, returned[i], returning)
  IN /\ returned[i] + returning <= t.quantity
     /\ returned' = [returned EXCEPT ![i] = @ + returning]
     /\ refunds' = [refunds EXCEPT ![i] =
          [revenue |-> @.revenue + part.revenueRefund, tax |-> @.tax + part.taxRefund]]
     /\ UNCHANGED <<lines, discount, discountType, totals>>

BillNext == \E i \in DOMAIN lines, returning \in Quantities : Refund(i, returning)

BillSpec == BillInit /\ [][BillNext]_billVars
-----------------------------------------------------------------------------
(* Properties.                                                             *)

\* What the customer pays is what the bill says: subtotal less discounts plus
\* tax, never less than nothing; and the order discount, split over the eligible
\* lines, is given away to the last unit (billTotals' own ensure(
\* remaining.isZero(), "Could not allocate order discount") never fires), to no
\* line more than it costs.
BillAddsUp ==
  LET allocation == Allocation(lines, discount, discountType)
  IN lines # << >> =>
       /\ totals.grandTotal = totals.subtotal - totals.discountTotal + totals.taxTotal
       /\ totals.grandTotal >= 0
       /\ allocation.remaining = 0
       /\ SumOver(allocation.shares, LAMBDA n : n) = OrderDiscountTotal(lines, discount, discountType)
       /\ \A i \in DOMAIN lines :
            /\ allocation.shares[i] >= 0
            /\ allocation.shares[i] <= IF lines[i].eligible THEN Base(lines[i]) ELSE 0

\* However a line is split into partial returns, what has been refunded depends
\* only on how many units are back: never more than was paid, exactly the line
\* total (tax included) once all of them are ("ensures successive partial returns
\* refund exactly the original line total"), and no return takes tax back.
RefundsTelescope ==
  \A i \in DOMAIN lines :
    LET t == totals.snapshots[i]
    IN /\ refunds[i].revenue = RoundDiv((t.lineTotal - t.taxTotal) * returned[i], t.quantity)
       /\ refunds[i].tax = RoundDiv(t.taxTotal * returned[i], t.quantity)
       /\ refunds[i].tax <= t.taxTotal /\ refunds[i].revenue <= t.lineTotal - t.taxTotal
       /\ returned[i] = t.quantity => refunds[i].revenue + refunds[i].tax = t.lineTotal
=============================================================================
