----------------------------- MODULE POSFinance -----------------------------
(***************************************************************************)
(* Money arithmetic of the point of sale (src/pos/finance.ts): the quote   *)
(* of a bill, the refunds of its lines and the commission on them.         *)
(* Amounts are integers of the smallest unit (two decimals), rates and     *)
(* percentages whole percents.                                             *)
(***************************************************************************)
EXTENDS Integers, SequencesExt

\* round(n / d): two decimals, half up; n is never negative here.
RoundDiv(n, d) == (2 * n + d) \div (2 * d)

DiscountTypes == {"amount", "percent"}

Line == [price : Nat, quantity : Nat, discount : Nat, discountType : DiscountTypes,
         taxRate : Nat, eligible : BOOLEAN]

\* The ensure()s of lineTotals: what a quote accepts as a line.
ValidLine(l) == l.discount <= IF l.discountType = "percent" THEN 100 ELSE l.price

LineTotals(l) ==
  LET subtotal == l.price * l.quantity
      discountTotal == IF l.discountType = "percent"
                       THEN RoundDiv(subtotal * l.discount, 100) ELSE l.discount * l.quantity
      taxTotal == RoundDiv((subtotal - discountTotal) * l.taxRate, 100)
  IN [subtotal |-> subtotal, discountTotal |-> discountTotal, taxTotal |-> taxTotal,
      lineTotal |-> subtotal - discountTotal + taxTotal]

Base(l) == LineTotals(l).subtotal - LineTotals(l).discountTotal

SumOver(s, f(_)) == FoldLeft(LAMBDA n, x : n + f(x), 0, s)

Eligible(lines) == SumOver(lines, LAMBDA l : IF l.eligible THEN Base(l) ELSE 0)

OrderDiscountTotal(lines, discount, type) ==
  IF type = "percent" THEN RoundDiv(Eligible(lines) * discount, 100) ELSE discount

ValidOrderDiscount(lines, discount, type) ==
  discount <= IF type = "percent" THEN 100 ELSE Eligible(lines)

Lesser(a, b) == IF a < b THEN a ELSE b

AllocateProportionally(acc, l) ==   \* mutation
  LET base == Base(l)
      share == IF ~l.eligible \/ acc.baseLeft = 0 THEN 0
               ELSE Lesser(base, (acc.remaining * base) \div acc.baseLeft)
  IN [remaining |-> acc.remaining - share,
      baseLeft |-> acc.baseLeft,
      shares |-> Append(acc.shares, share)]

\* One step of the allocation loop of billTotals: each eligible line takes its
\* share of what is left, the line that is all that is left takes the rest.
Allocate(acc, l) ==
  LET base == Base(l)
      share == IF ~l.eligible \/ acc.baseLeft = 0 THEN 0
               ELSE IF base = acc.baseLeft THEN acc.remaining
               ELSE Lesser(base, RoundDiv(acc.remaining * base, acc.baseLeft))
  IN [remaining |-> acc.remaining - share,
      baseLeft |-> IF l.eligible /\ acc.baseLeft > 0 THEN acc.baseLeft - base ELSE acc.baseLeft,
      shares |-> Append(acc.shares, share)]

Allocation(lines, discount, type) ==
  FoldLeft(Allocate,
    [remaining |-> OrderDiscountTotal(lines, discount, type), baseLeft |-> Eligible(lines), shares |-> <<>>],
    lines)

\* What is charged and kept for a line.
Snapshot(l, share) ==
  LET t == LineTotals(l)
      taxable == Base(l) - share
      taxTotal == RoundDiv(taxable * l.taxRate, 100)
  IN [quantity |-> l.quantity, subtotal |-> t.subtotal, itemDiscountTotal |-> t.discountTotal,
      orderDiscountTotal |-> share, discountTotal |-> t.discountTotal + share,
      taxTotal |-> taxTotal, lineTotal |-> taxable + taxTotal]

BillTotals(lines, discount, type) ==
  LET shares == Allocation(lines, discount, type).shares
      snapshots == [i \in DOMAIN lines |-> Snapshot(lines[i], shares[i])]
  IN [snapshots |-> snapshots,
      subtotal |-> SumOver(snapshots, LAMBDA t : t.subtotal),
      discountTotal |-> SumOver(snapshots, LAMBDA t : t.discountTotal),
      taxTotal |-> SumOver(snapshots, LAMBDA t : t.taxTotal),
      grandTotal |-> SumOver(snapshots, LAMBDA t : t.lineTotal)]

RefundShare(total, quantity, alreadyReturned, returning) ==   \* mutation
  RoundDiv(total * returning, quantity)

\* refundAllocation: the cumulative share minus what was refunded already.
RefundAllocation(total, quantity, alreadyReturned, returning) ==
  RoundDiv(total * (alreadyReturned + returning), quantity)
    - RoundDiv(total * alreadyReturned, quantity)

\* refundComponents: taxable revenue and tax are allocated separately.
RefundComponents(lineTotal, taxTotal, quantity, alreadyReturned, returning) ==
  LET revenue == RefundAllocation(lineTotal - taxTotal, quantity, alreadyReturned, returning)
      tax == RefundAllocation(taxTotal, quantity, alreadyReturned, returning)
  IN [revenueRefund |-> revenue, taxRefund |-> tax, refundAmount |-> revenue + tax]

\* retailAmount: the commission of one line, on its revenue or at a fixed rate.
RetailAmount(revenue, rate, type, quantity, fixedBasis) ==
  IF type = "PERCENTAGE" THEN RoundDiv(revenue * rate, 100)
  ELSE rate * IF fixedBasis = "UNIT" THEN quantity ELSE 1
=============================================================================
