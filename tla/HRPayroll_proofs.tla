--------------------------- MODULE HRPayroll_proofs ---------------------------
(***************************************************************************)
(* However reviews, repayments, payslips and payments overlap, and for any *)
(* number of advances, requests, months and handlers: an advance's books   *)
(* close, the wallet is what its transactions say, and an RKD request is   *)
(* credited to one payslip, once, with its money.                          *)
(***************************************************************************)
EXTENDS HRPayroll, TLAPS

\* Months are told apart from "no month".
LEMMA PeriodsAreMonths == Periods \subseteq Nat \ {0} /\ NoPeriod = 0
BY PayrollAssumption DEF NoPeriod

AdvanceRow == [status : AdvanceStatus, emi : Int, paid : Nat, remaining : Nat, since : Nat]
RkdRow == [status : RkdStatus, period : Nat, credited : BOOLEAN, slip : Nat]

\* The rows of advances and the wallet.
Money ==
  /\ advance \in [Advances -> AdvanceRow]
  /\ \A a \in Advances : advance[a].paid + advance[a].remaining = Amount[a]
  /\ wallet \in Int
  /\ entries \in [advanced : Int, fromWallet : Int, outside : Int]
  /\ wallet = entries.advanced - entries.fromWallet

\* The payslips: figures of any kind, which no step but a calculation looks at.
Slips ==
  /\ DOMAIN slip = Periods /\ slip = [m \in Periods |-> slip[m]]
  /\ \A m \in Periods :
       /\ slip[m].status \in SlipStatus
       /\ slip[m] = [status |-> slip[m].status, deduction |-> slip[m].deduction,
                     rkd |-> slip[m].rkd]

Credits ==
  /\ rkd \in [Rkds -> RkdRow]
  /\ \A r \in Rkds : rkd[r].credited => rkd[r].slip \in Periods
  /\ CreditMatchesAllocation

\* What a handler has read still closes the books of an advance when written.
Closes(row, a) == row.paid \in Nat /\ row.remaining \in Nat /\ row.paid + row.remaining = Amount[a]
Pending(t) ==
  /\ t.op = "repay" =>
       /\ t.adv \in Advances /\ Closes(t, t.adv)
       /\ t.x \in Nat \ {0} /\ t.kind \in {"fromWallet", "outside"}
  /\ t.op = "recover" =>
       /\ DOMAIN t.rows \subseteq Advances
       /\ \A a \in DOMAIN t.rows : Closes(t.rows[a], a)
  /\ t.op \in {"keep", "approved", "rewrite", "pay", "recover"} => t.period \in Periods

Tasks ==
  /\ DOMAIN task = Handlers /\ task = [h \in Handlers |-> task[h]]
  /\ \A h \in Handlers : Pending(task[h])

\* A payment that has claimed its payslip keeps it approved, and other payments out.
Claims ==
  /\ \A h \in Handlers : task[h].op = "recover" => slip[task[h].period].status = "Approved"
  /\ \A h \in Handlers, g \in Handlers :
       task[h].op = "recover" /\ task[g].op = "recover" => h = g

IInv == month \in Nat /\ Money /\ Slips /\ Credits /\ Tasks /\ Claims

-----------------------------------------------------------------------------
(* The advances and the wallet *)

\* The actions that write neither, each with what it does to the other rows.
QuietForMoney == UNCHANGED <<advance, wallet, entries>>

LEMMA ApproveMoney ==
  ASSUME IInv, NEW h \in Handlers, NEW a \in Advances, NEW n \in Tenures, ApproveWrite(h, a, n)
  PROVE  Money' /\ \A b \in Advances : ~(advance'[b].paid > advance[b].paid)
<1> DEFINE row == [status |-> "APPROVED", emi |-> Instalment(Amount[a], n),
                   paid |-> 0, remaining |-> Amount[a], since |-> month]
<1>1. Amount[a] \in Nat /\ n \in Nat \ {0} /\ month \in Nat
  BY PayrollAssumption DEF IInv
<1>2. Instalment(Amount[a], n) \in Int
  <2>1. 2 * Amount[a] + n \in Int /\ 2 * n \in Nat \ {0}
    BY <1>1
  <2> QED
    BY <2>1 DEF Instalment
<1>3. row \in AdvanceRow /\ row.paid = 0 /\ row.remaining = Amount[a]
  BY <1>1, <1>2 DEF AdvanceRow, AdvanceStatus
<1>4. advance' = [advance EXCEPT ![a] = row]
  BY DEF ApproveWrite
<1> HIDE DEF row
<1>5. advance'[a] = row /\ \A b \in Advances \ {a} : advance'[b] = advance[b]
  BY <1>4 DEF IInv, Money
<1>6. advance' \in [Advances -> AdvanceRow]
  BY <1>3, <1>4 DEF IInv, Money
<1>7. \A b \in Advances : advance'[b].paid + advance'[b].remaining = Amount[b]
  BY <1>1, <1>3, <1>5 DEF IInv, Money
<1>8. /\ wallet' = wallet + Amount[a]
      /\ entries' = [advanced |-> entries.advanced + Amount[a],
                     fromWallet |-> entries.fromWallet, outside |-> entries.outside]
  BY DEF ApproveWrite, IInv, Money
<1>9. \A b \in Advances : ~(advance'[b].paid > advance[b].paid)
  BY <1>3, <1>5 DEF IInv, Money, AdvanceRow
<1> QED
  BY <1>1, <1>6, <1>7, <1>8, <1>9 DEF IInv, Money

LEMMA RepayMoney ==
  ASSUME IInv, NEW h \in Handlers, NEW a \in Advances, RepayWrite(h, a)
  PROVE  Money' /\ entries' # entries
<1> DEFINE t == task[h]
           s == IF t.remaining <= 0 THEN "COMPLETED" ELSE "APPROVED"
           row == [advance[a] EXCEPT !.paid = t.paid, !.remaining = t.remaining, !.status = s]
<1>1. /\ t.paid \in Nat /\ t.remaining \in Nat /\ t.paid + t.remaining = Amount[a]
      /\ t.x \in Nat \ {0} /\ t.kind \in {"fromWallet", "outside"}
  BY DEF RepayWrite, IInv, Tasks, Pending, Closes
<1>2. advance[a] \in AdvanceRow
  BY DEF IInv, Money
<1>3. row \in AdvanceRow /\ row.paid = t.paid /\ row.remaining = t.remaining
  BY <1>1, <1>2 DEF AdvanceRow, AdvanceStatus
<1>4. advance' = [advance EXCEPT ![a] = row]
  BY DEF RepayWrite, IInv, Money
<1>w. /\ entries' = [entries EXCEPT ![t.kind] = @ + t.x]
      /\ wallet' = IF t.kind = "fromWallet" THEN wallet - t.x ELSE wallet
  BY DEF RepayWrite
<1> HIDE DEF row, t
<1>5. advance'[a] = row /\ \A b \in Advances \ {a} : advance'[b] = advance[b]
  BY <1>4 DEF IInv, Money
<1>6. advance' \in [Advances -> AdvanceRow]
  BY <1>3, <1>4 DEF IInv, Money
<1>7. \A b \in Advances : advance'[b].paid + advance'[b].remaining = Amount[b]
  BY <1>1, <1>3, <1>5 DEF IInv, Money
<1>8. CASE t.kind = "fromWallet"
  <2>1. /\ wallet' = wallet - t.x
        /\ entries' = [advanced |-> entries.advanced, fromWallet |-> entries.fromWallet + t.x,
                       outside |-> entries.outside]
    BY <1>8, <1>w DEF IInv, Money
  <2>2. wallet \in Int /\ entries.fromWallet \in Int /\ wallet = entries.advanced - entries.fromWallet
          /\ entries.advanced \in Int /\ entries.outside \in Int
    BY DEF IInv, Money
  <2>3. entries'.fromWallet # entries.fromWallet
    BY <1>1, <2>1, <2>2
  <2> QED
    BY <1>1, <1>6, <1>7, <2>1, <2>2, <2>3 DEF Money
<1>9. CASE t.kind = "outside"
  <2>1. /\ wallet' = wallet
        /\ entries' = [advanced |-> entries.advanced, fromWallet |-> entries.fromWallet,
                       outside |-> entries.outside + t.x]
    BY <1>9, <1>w DEF IInv, Money
  <2>2. wallet \in Int /\ entries.fromWallet \in Int /\ wallet = entries.advanced - entries.fromWallet
          /\ entries.advanced \in Int /\ entries.outside \in Int
    BY DEF IInv, Money
  <2>3. entries'.outside # entries.outside
    BY <1>1, <2>1, <2>2
  <2> QED
    BY <1>1, <1>6, <1>7, <2>1, <2>2, <2>3 DEF Money
<1> QED
  BY <1>1, <1>8, <1>9

LEMMA StatusMoney ==
  ASSUME IInv, NEW a \in Advances, NEW s \in AdvanceStatus,
         advance' = [advance EXCEPT ![a].status = s], UNCHANGED <<wallet, entries>>
  PROVE  Money' /\ \A b \in Advances : advance'[b].paid = advance[b].paid
<1>1. advance[a] \in AdvanceRow
  BY DEF IInv, Money
<1> DEFINE row == [advance[a] EXCEPT !.status = s]
<1>2. row \in AdvanceRow /\ row.paid = advance[a].paid /\ row.remaining = advance[a].remaining
  BY <1>1 DEF AdvanceRow
<1>3. advance' = [advance EXCEPT ![a] = row]
  BY DEF IInv, Money
<1> HIDE DEF row
<1>4. advance'[a] = row /\ \A b \in Advances \ {a} : advance'[b] = advance[b]
  BY <1>3 DEF IInv, Money
<1>5. advance' \in [Advances -> AdvanceRow]
  BY <1>2, <1>3 DEF IInv, Money
<1> QED
  BY <1>2, <1>4, <1>5 DEF IInv, Money

LEMMA PaymentMoney ==
  ASSUME IInv, NEW h \in Handlers, MarkPayslipPaid(h)
  PROVE  Money' /\ UNCHANGED entries
<1> DEFINE rows == task[h].rows
           new(a) == IF a \in DOMAIN rows
                     THEN [advance[a] EXCEPT !.paid = rows[a].paid, !.remaining = rows[a].remaining]
                     ELSE advance[a]
<1>1. DOMAIN rows \subseteq Advances /\ \A a \in DOMAIN rows : Closes(rows[a], a)
  BY DEF MarkPayslipPaid, IInv, Tasks, Pending
<1>2. advance' = [a \in Advances |-> new(a)] /\ UNCHANGED <<wallet, entries>>
  BY DEF MarkPayslipPaid
<1>3. ASSUME NEW a \in Advances
      PROVE  new(a) \in AdvanceRow /\ new(a).paid + new(a).remaining = Amount[a]
  <2>1. advance[a] \in AdvanceRow /\ advance[a].paid + advance[a].remaining = Amount[a]
    BY DEF IInv, Money
  <2>2. CASE a \in DOMAIN rows
    <3>1. rows[a].paid \in Nat /\ rows[a].remaining \in Nat
            /\ rows[a].paid + rows[a].remaining = Amount[a]
      BY <1>1, <2>2 DEF Closes
    <3> HIDE DEF rows
    <3> QED
      BY <2>1, <2>2, <3>1 DEF AdvanceRow
  <2> QED
    BY <2>1, <2>2
<1> HIDE DEF new
<1> QED
  BY <1>2, <1>3 DEF IInv, Money

-----------------------------------------------------------------------------
(* The payslips *)

\* A payslip changes in one of these ways; m is its period.
Figures(m) ==
  \E d, r : slip' = [slip EXCEPT ![m].deduction = d, ![m].rkd = r]
Reviewed(m) ==
  \E s \in {"Approved", "Rejected"} :
    slip[m].status \in {"Approved", "Rejected"} /\ slip' = [slip EXCEPT ![m].status = s]
Saved(m) ==
  \E s \in {"Approved", "Rejected"} : \E d, r :
    ~Locked(m) /\ slip' = [slip EXCEPT ![m] = [status |-> s, deduction |-> d, rkd |-> r]]
PaidNow(m) ==
  slip[m].status = "Approved" /\ slip' = [slip EXCEPT ![m].status = "Paid"]

\* All of them: the row becomes another, and a paid one stays paid.
Becomes(m, s, d, r) ==
  /\ slip' = [slip EXCEPT ![m] = [status |-> s, deduction |-> d, rkd |-> r]]
  /\ slip[m].status = "Paid" => s = "Paid"
  /\ slip[m].status # "none" => s # "none"

Written(m) == Figures(m) \/ Reviewed(m) \/ Saved(m) \/ PaidNow(m)

LEMMA SlipFigures ==
  ASSUME NEW row, NEW d, NEW r,
         row = [status |-> row.status, deduction |-> row.deduction, rkd |-> row.rkd]
  PROVE  [row EXCEPT !.deduction = d, !.rkd = r]
           = [status |-> row.status, deduction |-> d, rkd |-> r]
<1>1. [row EXCEPT !.deduction = d] = [status |-> row.status, deduction |-> d, rkd |-> row.rkd]
  OBVIOUS
<1>2. [[status |-> row.status, deduction |-> d, rkd |-> row.rkd] EXCEPT !.rkd = r]
        = [status |-> row.status, deduction |-> d, rkd |-> r]
  OBVIOUS
<1> QED
  BY <1>1, <1>2, Zenon

\* Whatever happens to it, a payslip stays one, a paid one stays paid, and the
\* others are left alone; only figures and credits go along with a calculation.
LEMMA SlipWritten ==
  ASSUME Slips, NEW m \in Periods, Written(m)
  PROVE  /\ Slips'
         /\ \A q \in Periods \ {m} : slip'[q] = slip[q]
         /\ \A q \in Periods : /\ slip[q].status = "Paid" => slip'[q].status = "Paid"
                               /\ Exists(q) => Exists(q)'
<1>1. /\ slip[m].status \in SlipStatus
      /\ slip[m] = [status |-> slip[m].status, deduction |-> slip[m].deduction, rkd |-> slip[m].rkd]
  BY DEF Slips
<1>p. PICK s, d, r : s \in SlipStatus /\ Becomes(m, s, d, r)
  <2>1. CASE Figures(m)
    <3>1. PICK d, r : slip' = [slip EXCEPT ![m].deduction = d, ![m].rkd = r]
      BY <2>1 DEF Figures
    <3>2. [slip[m] EXCEPT !.deduction = d, !.rkd = r]
            = [status |-> slip[m].status, deduction |-> d, rkd |-> r]
      BY <1>1, SlipFigures, Zenon
    <3>3. slip' = [slip EXCEPT ![m] = [status |-> slip[m].status, deduction |-> d, rkd |-> r]]
      BY <3>1, <3>2 DEF Slips
    <3>4. Becomes(m, slip[m].status, d, r)
      BY <3>3 DEF Becomes
    <3> QED
      BY <1>1, <3>4, Zenon
  <2>2. CASE Reviewed(m)
    <3>1. PICK s \in {"Approved", "Rejected"} :
            slip[m].status \in {"Approved", "Rejected"} /\ slip' = [slip EXCEPT ![m].status = s]
      BY <2>2 DEF Reviewed
    <3>2. [slip[m] EXCEPT !.status = s]
            = [status |-> s, deduction |-> slip[m].deduction, rkd |-> slip[m].rkd]
      BY <1>1
    <3>3. slip' = [slip EXCEPT ![m] = [status |-> s, deduction |-> slip[m].deduction, rkd |-> slip[m].rkd]]
      BY <3>1, <3>2 DEF Slips
    <3>4. s \in SlipStatus /\ slip[m].status # "Paid" /\ s # "none"
      BY <3>1 DEF SlipStatus
    <3>5. Becomes(m, s, slip[m].deduction, slip[m].rkd)
      BY <3>3, <3>4 DEF Becomes
    <3> QED
      BY <3>4, <3>5, Zenon
  <2>3. CASE Saved(m)
    <3>1. PICK s, d, r :
            s \in {"Approved", "Rejected"} /\ ~Locked(m) /\ slip' = [slip EXCEPT ![m] = [status |-> s, deduction |-> d, rkd |-> r]]
      BY <2>3 DEF Saved
    <3>2. s \in SlipStatus /\ Becomes(m, s, d, r)
      BY <3>1 DEF Becomes, Locked, SlipStatus
    <3> QED
      BY <3>2, Zenon
  <2>4. CASE PaidNow(m)
    <3>2. [slip[m] EXCEPT !.status = "Paid"]
            = [status |-> "Paid", deduction |-> slip[m].deduction, rkd |-> slip[m].rkd]
      BY <1>1
    <3>3. slip' = [slip EXCEPT ![m] = [status |-> "Paid", deduction |-> slip[m].deduction, rkd |-> slip[m].rkd]]
      BY <2>4, <3>2 DEF PaidNow, Slips
    <3>4. "Paid" \in SlipStatus /\ Becomes(m, "Paid", slip[m].deduction, slip[m].rkd)
      BY <3>3 DEF Becomes, SlipStatus
    <3> QED
      BY <3>4, Zenon
  <2> QED
    BY <2>1, <2>2, <2>3, <2>4 DEF Written
<1>2. /\ slip' = [slip EXCEPT ![m] = [status |-> s, deduction |-> d, rkd |-> r]]
      /\ slip[m].status = "Paid" => s = "Paid"
      /\ slip[m].status # "none" => s # "none"
  BY <1>p, Zenon DEF Becomes
<1>3. /\ slip'[m] = [status |-> s, deduction |-> d, rkd |-> r]
      /\ \A q \in Periods \ {m} : slip'[q] = slip[q]
  BY <1>2 DEF Slips
<1>4. slip'[m].status = s /\ slip'[m].deduction = d /\ slip'[m].rkd = r
  BY <1>3
<1>5. Slips'
  BY <1>p, <1>2, <1>3, <1>4 DEF Slips
<1> QED
  BY <1>2, <1>3, <1>4, <1>5 DEF Exists
-----------------------------------------------------------------------------
(* The credited requests *)

\* What a step may do to credits and payslips.
PaidStays == \A m \in Periods : slip[m].status = "Paid" => slip'[m].status = "Paid"
CreditsStay == \A r \in Rkds : rkd[r].credited => rkd'[r] = rkd[r]
CreditsArePaid ==
  \A m \in Periods : CreditedTo(m)' # CreditedTo(m) => slip'[m].rkd = Incentives(CreditedTo(m)')
SlipsRemain == \A m \in Periods : Exists(m) => Exists(m)'
CreditsOK == Credits' /\ CreditsStay /\ CreditsArePaid

LEMMA QuietCredits ==
  ASSUME Credits, SlipsRemain, UNCHANGED rkd
  PROVE  CreditsOK
<1>1. \A m \in Periods : CreditedTo(m)' = CreditedTo(m)
  BY DEF CreditedTo
<1>2. Credits'
  BY DEF Credits, SlipsRemain, CreditMatchesAllocation
<1> QED
  BY <1>1, <1>2 DEF CreditsOK, CreditsStay, CreditsArePaid

\* A request that is not credited becomes one that is not credited.
LEMMA UncreditedSet ==
  ASSUME Credits, SlipsRemain, NEW r \in Rkds, NEW row \in RkdRow,
         ~rkd[r].credited, ~row.credited, rkd' = [rkd EXCEPT ![r] = row]
  PROVE  CreditsOK
<1>1. rkd'[r] = row /\ \A q \in Rkds \ {r} : rkd'[q] = rkd[q]
  BY DEF Credits
<1>2. \A m \in Periods : CreditedTo(m)' = CreditedTo(m)
  BY <1>1 DEF CreditedTo
<1>3. rkd' \in [Rkds -> RkdRow]
  BY DEF Credits
<1>4. Credits'
  BY <1>1, <1>3 DEF Credits, SlipsRemain, CreditMatchesAllocation
<1>5. CreditsStay
  BY <1>1 DEF CreditsStay
<1> QED
  BY <1>2, <1>4, <1>5 DEF CreditsOK, CreditsArePaid

LEMMA SaveCredits ==
  ASSUME IInv, NEW h \in Handlers, SavePayslip(h), NEW m, m = task[h].period,
         ~(Locked(m) \/ Incentives(RkdEarnings(m)) # task[h].rkd)
  PROVE  m \in Periods /\ Saved(m) /\ Unclaimed(m) /\ (SlipsRemain => CreditsOK)
<1> DEFINE t == task[h]
           new(r) == IF r \in RkdEarnings(m) THEN [rkd[r] EXCEPT !.slip = m, !.credited = TRUE]
                     ELSE rkd[r]
           s == IF t.op = "approved" \/ slip[m].status = "none" THEN "Approved" ELSE slip[m].status
           row == [status |-> s, deduction |-> t.deduction, rkd |-> t.rkd]
<1>1. m \in Periods /\ m \in Nat
  BY PeriodsAreMonths DEF SavePayslip, IInv, Tasks, Pending
<1>2. /\ slip' = [slip EXCEPT ![m] = row]
      /\ rkd' = [r \in Rkds |-> new(r)]
      /\ Unclaimed(m)
  BY DEF SavePayslip
<1>3. ~Locked(m) /\ Incentives(RkdEarnings(m)) = t.rkd
  OBVIOUS
<1>4. s \in {"Approved", "Rejected"}
  BY <1>1, <1>3 DEF Locked, IInv, Slips, SlipStatus
<1>5. slip'[m] = row /\ row.rkd = t.rkd /\ row.status # "none"
  BY <1>1, <1>2, <1>4 DEF IInv, Slips
<1>6. Saved(m)
  BY <1>1, <1>2, <1>3, <1>4 DEF Saved
<1>7. ASSUME NEW r \in Rkds
      PROVE  /\ new(r) \in RkdRow
             /\ r \in RkdEarnings(m) =>
                  /\ rkd[r].status = "APPROVED" /\ rkd[r].period = m
                  /\ new(r).status = "APPROVED" /\ new(r).period = m
                  /\ new(r).slip = m /\ new(r).credited
             /\ r \notin RkdEarnings(m) => new(r) = rkd[r]
             /\ rkd[r].credited => new(r) = rkd[r]
  <2>1. rkd[r] \in RkdRow /\ (rkd[r].credited => rkd[r].slip = rkd[r].period)
    BY DEF IInv, Credits, CreditMatchesAllocation
  <2>2. CASE r \in RkdEarnings(m)
    <3>1. rkd[r].status = "APPROVED" /\ rkd[r].period = m /\ (rkd[r].credited => rkd[r].slip = m)
      BY <2>1, <2>2 DEF RkdEarnings
    <3> DEFINE old == rkd[r]
    <3>2. new(r) = [old EXCEPT !.slip = m, !.credited = TRUE]
      BY <2>2
    <3> HIDE DEF new
    <3>3. new(r) \in RkdRow /\ new(r).status = old.status /\ new(r).period = old.period
            /\ new(r).slip = m /\ new(r).credited
      BY <1>1, <2>1, <3>2 DEF RkdRow
    <3>4. old.credited => new(r) = old
      BY <1>1, <2>1, <3>1, <3>3 DEF RkdRow
    <3> QED
      BY <2>2, <3>1, <3>3, <3>4
  <2>3. CASE r \notin RkdEarnings(m)
    BY <2>1, <2>3
  <2> QED
    BY <2>2, <2>3
<1> HIDE DEF row
<1>8. \A r \in Rkds : rkd'[r] = new(r)
  BY <1>2
<1> HIDE DEF new
<1>9. rkd' \in [Rkds -> RkdRow] /\ CreditsStay
  BY <1>2, <1>7, <1>8 DEF CreditsStay
<1>10. Exists(m)'
  BY <1>5 DEF Exists
<1>11. ASSUME SlipsRemain
       PROVE  Credits'
  <2> SUFFICES ASSUME NEW r \in Rkds, rkd'[r].credited
               PROVE  /\ rkd'[r].slip \in Periods /\ rkd'[r].status = "APPROVED"
                      /\ rkd'[r].slip = rkd'[r].period /\ slip'[rkd'[r].slip].status # "none"
    BY <1>9 DEF Credits, CreditMatchesAllocation, Exists
  <2>1. CASE r \in RkdEarnings(m)
    BY <1>1, <1>7, <1>8, <1>10, <2>1 DEF Exists
  <2>2. CASE r \notin RkdEarnings(m)
    <3>1. rkd'[r] = rkd[r]
      BY <1>7, <1>8, <2>2
    <3> QED
      BY <1>11, <3>1 DEF IInv, Credits, CreditMatchesAllocation, SlipsRemain, Exists
  <2> QED
    BY <2>1, <2>2
<1>12. CreditsArePaid
  <2>1. CreditedTo(m)' = RkdEarnings(m)
    <3>1. \A r \in Rkds : rkd'[r].credited /\ rkd'[r].slip = m <=> r \in RkdEarnings(m)
      <4> SUFFICES ASSUME NEW r \in Rkds, rkd'[r].credited, rkd'[r].slip = m,
                          r \notin RkdEarnings(m)
                   PROVE  FALSE
        BY <1>7, <1>8
      <4>1. rkd[r].credited /\ rkd[r].slip = m
        BY <1>7, <1>8
      <4> QED
        BY <4>1 DEF IInv, Credits, CreditMatchesAllocation, RkdEarnings
    <3> QED
      BY <3>1 DEF CreditedTo, RkdEarnings
  <2>2. ASSUME NEW q \in Periods \ {m}
        PROVE  CreditedTo(q)' = CreditedTo(q)
    <3>1. \A r \in Rkds : rkd'[r].credited /\ rkd'[r].slip = q <=> rkd[r].credited /\ rkd[r].slip = q
      BY <1>7, <1>8
    <3> QED
      BY <3>1 DEF CreditedTo
  <2>3. slip'[m].rkd = Incentives(RkdEarnings(m))
    BY <1>3, <1>5
  <2>4. slip'[m].rkd = Incentives(CreditedTo(m)')
    BY <2>1, <2>3
  <2> QED
    BY <2>2, <2>4 DEF CreditsArePaid
<1> QED
  BY <1>1, <1>2, <1>6, <1>9, <1>11, <1>12 DEF CreditsOK

-----------------------------------------------------------------------------
(* Every step *)

\* A payment that holds a payslip finds it approved after the step, too.
ClaimsHold == \A g \in Handlers : task[g].op = "recover" => slip'[task[g].period].status = "Approved"
SlipsOK == Slips' /\ SlipsRemain /\ PaidStays
Recovered ==
  (\E a \in Advances : advance'[a].paid > advance[a].paid) =>
    \/ entries' # entries
    \/ \E m \in Periods : slip[m].status = "Approved" /\ slip'[m].status = "Paid"
Result == IInv' /\ CreditsStay /\ CreditsArePaid /\ PaidStays /\ Recovered

LEMMA QuietMoney ==
  ASSUME IInv, UNCHANGED <<advance, wallet, entries>>
  PROVE  Money' /\ Recovered
<1>1. Money'
  BY DEF IInv, Money
<1>2. \A a \in Advances : ~(advance'[a].paid > advance[a].paid)
  BY DEF IInv, Money, AdvanceRow
<1> QED
  BY <1>1, <1>2 DEF Recovered

LEMMA QuietSlips ==
  ASSUME IInv, UNCHANGED slip
  PROVE  SlipsOK /\ ClaimsHold
BY DEF IInv, Slips, SlipsOK, SlipsRemain, PaidStays, ClaimsHold, Claims, Exists

LEMMA FreeSlip ==
  ASSUME IInv, NEW m \in Periods, Unclaimed(m), Figures(m) \/ Reviewed(m) \/ Saved(m)
  PROVE  SlipsOK /\ ClaimsHold
<1>1. Slips /\ Written(m)
  BY DEF IInv, Written
<1>2. SlipsOK /\ \A q \in Periods \ {m} : slip'[q] = slip[q]
  BY <1>1, SlipWritten DEF SlipsOK, SlipsRemain, PaidStays
<1>3. \A g \in Handlers : task[g].op = "recover" =>
        task[g].period \in Periods \ {m} /\ slip[task[g].period].status = "Approved"
  BY DEF Unclaimed, IInv, Tasks, Claims, Pending
<1>4. ClaimsHold
  BY <1>2, <1>3 DEF ClaimsHold
<1> QED
  BY <1>2, <1>4

LEMMA OtherTask ==
  ASSUME IInv, ClaimsHold, NEW h \in Handlers, NEW t, Pending(t), t.op # "recover",
         task' = [task EXCEPT ![h] = t]
  PROVE  Tasks' /\ Claims'
<1>1. task'[h] = t /\ \A g \in Handlers \ {h} : task'[g] = task[g]
  BY DEF IInv, Tasks
<1>2. DOMAIN task' = Handlers /\ task' = [g \in Handlers |-> task'[g]]
  BY DEF IInv, Tasks
<1>3. \A g \in Handlers : Pending(task'[g])
  BY <1>1 DEF IInv, Tasks
<1>4. \A g \in Handlers : task'[g].op = "recover" => g # h /\ task'[g] = task[g]
  BY <1>1
<1>5. Claims'
  BY <1>4 DEF Claims, ClaimsHold, IInv
<1> QED
  BY <1>2, <1>3, <1>5 DEF Tasks, Pending, Closes

LEMMA SameTasks ==
  ASSUME IInv, ClaimsHold, UNCHANGED task
  PROVE  Tasks' /\ Claims'
BY DEF IInv, Tasks, Claims, ClaimsHold, Pending, Closes

LEMMA Idles ==
  ASSUME IInv, ClaimsHold, NEW h \in Handlers, Finish(h)
  PROVE  Tasks' /\ Claims'
<1>1. Pending(Idle) /\ Idle.op # "recover"
  BY DEF Pending, Idle
<1> QED
  BY <1>1, OtherTask DEF Finish

\* A step that leaves payslips and requests alone and puts t in hand.
LEMMA Reads ==
  ASSUME IInv, NEW h \in Handlers, NEW t, Pending(t), t.op # "recover", Start(h, t),
         UNCHANGED <<advance, wallet, entries, slip, rkd, month>>
  PROVE  Result
<1>1. Money' /\ Recovered /\ SlipsOK /\ ClaimsHold
  BY QuietMoney, QuietSlips
<1>2. CreditsOK
  BY <1>1, QuietCredits DEF SlipsOK, IInv
<1>3. Tasks' /\ Claims'
  BY <1>1, OtherTask DEF Start
<1> QED
  BY <1>1, <1>2, <1>3 DEF Result, IInv, SlipsOK, CreditsOK

\* A step on the advances that is done with what was in hand, or had nothing.
LEMMA OnAdvances ==
  ASSUME IInv, NEW h \in Handlers, Finish(h) \/ UNCHANGED task, Money', Recovered,
         UNCHANGED <<slip, rkd, month>>
  PROVE  Result
<1>1. SlipsOK /\ ClaimsHold
  BY QuietSlips
<1>2. CreditsOK
  BY <1>1, QuietCredits DEF SlipsOK, IInv
<1>3. Tasks' /\ Claims'
  BY <1>1, Idles, SameTasks
<1> QED
  BY <1>1, <1>2, <1>3 DEF Result, IInv, SlipsOK, CreditsOK

\* A step on one payslip that no payment holds.
LEMMA Writes ==
  ASSUME IInv, NEW h \in Handlers, Finish(h) \/ UNCHANGED task, NEW m \in Periods, Unclaimed(m),
         Figures(m) \/ Reviewed(m) \/ Saved(m), SlipsRemain => CreditsOK,
         UNCHANGED <<advance, wallet, entries, month>>
  PROVE  Result
<1>1. Money' /\ Recovered /\ SlipsOK /\ ClaimsHold
  BY QuietMoney, FreeSlip
<1>2. CreditsOK
  BY <1>1 DEF SlipsOK
<1>3. Tasks' /\ Claims'
  BY <1>1, Idles, SameTasks
<1> QED
  BY <1>1, <1>2, <1>3 DEF Result, IInv, SlipsOK, CreditsOK

\* A step on one request that is not credited.
LEMMA Requests ==
  ASSUME IInv, NEW h \in Handlers, NEW r \in Rkds, NEW row \in RkdRow,
         ~rkd[r].credited, ~row.credited, rkd' = [rkd EXCEPT ![r] = row],
         UNCHANGED task \/ (\E m \in Periods : Start(h, [op |-> "refresh", period |-> m])),
         UNCHANGED <<advance, wallet, entries, slip, month>>
  PROVE  Result
<1>1. Money' /\ Recovered /\ SlipsOK /\ ClaimsHold
  BY QuietMoney, QuietSlips
<1>2. CreditsOK
  BY <1>1, UncreditedSet DEF SlipsOK, IInv
<1>3. Tasks' /\ Claims'
  <2>1. CASE UNCHANGED task
    BY <1>1, <2>1, SameTasks
  <2>2. ASSUME NEW m \in Periods, Start(h, [op |-> "refresh", period |-> m])
        PROVE  Tasks' /\ Claims'
    <3> DEFINE t == [op |-> "refresh", period |-> m]
    <3>1. Pending(t) /\ t.op # "recover" /\ task' = [task EXCEPT ![h] = t]
      BY <2>2 DEF Pending, Start
    <3> QED
      BY <1>1, <3>1, OtherTask
  <2> QED
    BY <2>1, <2>2
<1> QED
  BY <1>1, <1>2, <1>3 DEF Result, IInv, SlipsOK, CreditsOK

LEMMA ClaimStep ==
  ASSUME IInv, NEW h \in Handlers, ClaimPayment(h)
  PROVE  Result
<1> DEFINE old == task[h]
<1>1. old.period \in Periods /\ \A g \in Handlers : task[g].op # "recover"
  BY DEF ClaimPayment, IInv, Tasks, Pending
<1>2. UNCHANGED <<advance, wallet, entries, slip, rkd, month>>
  BY DEF ClaimPayment, advanceVars
<1>3. CASE slip[old.period].status # "Approved"
  <2>1. Finish(h)
    BY <1>3 DEF ClaimPayment
  <2>2. Money' /\ Recovered
    BY <1>2, QuietMoney
  <2> QED
    BY <1>2, <2>1, <2>2, OnAdvances
<1>4. CASE slip[old.period].status = "Approved"
  <2>1. PICK rec \in Recoveries(old.deduction) :
          Start(h, [op |-> "recover", period |-> old.period,
                    rows |-> [a \in DOMAIN rec |-> [paid |-> advance[a].paid + rec[a],
                                                    remaining |-> advance[a].remaining - rec[a]]]])
    BY <1>4 DEF ClaimPayment
  <2>2. PICK p : p = old.period
    OBVIOUS
  <2> DEFINE new(a) == [paid |-> advance[a].paid + rec[a], remaining |-> advance[a].remaining - rec[a]]
  <2>3. PICK rows : rows = [a \in DOMAIN rec |-> new(a)]
    OBVIOUS
  <2> DEFINE t == [op |-> "recover", period |-> p, rows |-> rows]
  <2>4. task' = [task EXCEPT ![h] = t]
    BY <2>1, <2>2, <2>3 DEF Start
  <2>5. \A a \in DOMAIN rec : a \in Advances /\ rec[a] \in Nat /\ rec[a] <= advance[a].remaining
    <3>1. DOMAIN rec \subseteq Advances
      BY DEF Recoveries
    <3>2. \A a \in Advances : advance[a].remaining \in Nat
      BY DEF IInv, Money, AdvanceRow
    <3>3. \A a \in DOMAIN rec : rec[a] \in UNION {0 .. advance[b].remaining : b \in DOMAIN rec}
      BY DEF Recoveries
    <3>4. \A a \in DOMAIN rec : rec[a] \in Nat
      BY <3>1, <3>2, <3>3
    <3> QED
      BY <3>1, <3>4 DEF Recoveries
  <2>6. \A a \in DOMAIN rows : a \in Advances /\ Closes(rows[a], a)
    <3> SUFFICES ASSUME NEW a \in DOMAIN rec
                 PROVE  a \in Advances /\ Closes(new(a), a)
      BY <2>3
    <3>1. /\ advance[a].paid \in Nat /\ advance[a].remaining \in Nat
          /\ advance[a].paid + advance[a].remaining = Amount[a] /\ rec[a] \in Nat
          /\ rec[a] <= advance[a].remaining /\ a \in Advances
      BY <2>5 DEF IInv, Money, AdvanceRow
    <3> QED
      BY <3>1 DEF Closes
  <2> HIDE DEF new
  <2>7. Pending(t) /\ t.op = "recover" /\ t.period = p
    BY <1>1, <2>2, <2>6 DEF Pending
  <2> HIDE DEF t
  <2>8. task'[h] = t /\ \A g \in Handlers \ {h} : task'[g] = task[g]
    BY <2>4 DEF IInv, Tasks
  <2>9. Tasks'
    <3>1. DOMAIN task' = Handlers /\ task' = [g \in Handlers |-> task'[g]]
      BY <2>4 DEF IInv, Tasks
    <3>2. \A g \in Handlers : Pending(task'[g])
      BY <2>7, <2>8 DEF IInv, Tasks
    <3> QED
      BY <3>1, <3>2 DEF Tasks, Pending, Closes
  <2>10. Claims'
    <3>1. \A g \in Handlers : task'[g].op = "recover" => g = h
      BY <1>1, <2>8
    <3>2. slip'[p].status = "Approved"
      BY <1>2, <1>4, <2>2
    <3> QED
      BY <2>7, <2>8, <3>1, <3>2 DEF Claims
  <2>11. Money' /\ Recovered /\ SlipsOK
    BY <1>2, QuietMoney, QuietSlips
  <2>12. CreditsOK
    BY <1>2, <2>11, QuietCredits DEF SlipsOK, IInv
  <2> QED
    BY <1>2, <2>9, <2>10, <2>11, <2>12 DEF Result, IInv, SlipsOK, CreditsOK
<1> QED
  BY <1>3, <1>4

LEMMA PayStep ==
  ASSUME IInv, NEW h \in Handlers, MarkPayslipPaid(h)
  PROVE  Result
<1>1. PICK m \in Periods : m = task[h].period
  BY DEF MarkPayslipPaid, IInv, Tasks, Pending
<1>2. /\ slip[m].status = "Approved" /\ slip' = [slip EXCEPT ![m].status = "Paid"]
      /\ \A g \in Handlers \ {h} : task[g].op # "recover"
  BY <1>1 DEF MarkPayslipPaid, IInv, Claims
<1>3. Slips /\ Written(m)
  BY <1>2 DEF IInv, Written, PaidNow
<1>4. SlipsOK
  BY <1>3, SlipWritten DEF SlipsOK, SlipsRemain, PaidStays
<1>5. slip'[m].status = "Paid"
  BY <1>2, <1>3 DEF Slips
<1>6. Money' /\ Recovered
  BY <1>2, <1>5, PaymentMoney DEF Recovered
<1>7. CreditsOK
  BY <1>4, QuietCredits DEF SlipsOK, IInv, MarkPayslipPaid
<1>8. task' = [task EXCEPT ![h] = Idle]
  BY DEF MarkPayslipPaid, Finish
<1>9. Pending(Idle) /\ Idle.op # "recover"
  BY DEF Pending, Idle
<1>10. \A g \in Handlers : task'[g].op # "recover" /\ Pending(task'[g])
  BY <1>2, <1>8, <1>9 DEF IInv, Tasks
<1>11. Tasks' /\ Claims'
  <2>1. DOMAIN task' = Handlers /\ task' = [g \in Handlers |-> task'[g]]
    BY <1>8 DEF IInv, Tasks
  <2> QED
    BY <1>10, <2>1 DEF Tasks, Claims, Pending, Closes
<1> QED
  BY <1>4, <1>6, <1>7, <1>11 DEF Result, IInv, SlipsOK, CreditsOK, MarkPayslipPaid

LEMMA InitEstablishes == PayrollInit => IInv
<1> SUFFICES ASSUME PayrollInit PROVE IInv
  OBVIOUS
<1>1. Money
  <2>1. \A a \in Advances : Amount[a] \in Nat
    BY PayrollAssumption
  <2> QED
    BY <2>1 DEF PayrollInit, Money, AdvanceRow, AdvanceStatus, NoPeriod
<1>2. Slips
  BY DEF PayrollInit, Slips, SlipStatus
<1>3. Credits
  BY DEF PayrollInit, Credits, RkdRow, RkdStatus, CreditMatchesAllocation, NoPeriod
<1>4. Tasks /\ Claims
  BY DEF PayrollInit, Tasks, Claims, Pending, Idle
<1> QED
  BY <1>1, <1>2, <1>3, <1>4 DEF IInv, PayrollInit

LEMMA ApproveRkdStep ==
  ASSUME IInv, NEW h \in Handlers, NEW r \in Rkds, ApproveRkd(h, r)
  PROVE  Result
<1>0. /\ UNCHANGED <<advance, wallet, entries, slip, month>> /\ month \in Nat
      /\ rkd \in [Rkds -> RkdRow]
  BY DEF ApproveRkd, advanceVars, IInv, Credits
<1>t. UNCHANGED task \/ \E t : Pending(t) /\ t.op # "recover" /\ Start(h, t)
  <2>1. CASE UNCHANGED task
    BY <2>1
  <2>2. CASE Start(h, [op |-> "refresh", period |-> rkd'[r].period])
    <3>1. PICK m : m = rkd'[r].period
      OBVIOUS
    <3> DEFINE t == [op |-> "refresh", period |-> m]
    <3>2. Pending(t) /\ t.op # "recover" /\ Start(h, t)
      BY <2>2, <3>1 DEF Pending
    <3> QED
      BY <3>2
  <2> QED
    BY <2>1, <2>2 DEF ApproveRkd
<1>1. SlipsOK /\ ClaimsHold /\ Money' /\ Recovered
  BY <1>0, QuietMoney, QuietSlips
<1>2. CreditsOK
  <2>1. CASE rkd[r].status = "APPROVED"
    <3>1. UNCHANGED rkd
      BY <2>1 DEF ApproveRkd
    <3> QED
      BY <1>1, <3>1, QuietCredits DEF SlipsOK, IInv
  <2>2. CASE rkd[r].status # "APPROVED"
    <3>1. ~rkd[r].credited /\ rkd[r] \in RkdRow
      BY <2>2 DEF IInv, Credits, CreditMatchesAllocation
    <3>2. PICK p : p = IF Locked(month) THEN NoPeriod ELSE month
      OBVIOUS
    <3>3. p \in Nat
      BY <1>0, <3>2, PeriodsAreMonths
    <3> DEFINE row == [rkd[r] EXCEPT !.status = "APPROVED", !.credited = FALSE, !.period = p]
    <3>4. row \in RkdRow /\ ~row.credited
      BY <3>1, <3>3 DEF RkdRow, RkdStatus
    <3>5. rkd' = [rkd EXCEPT ![r].status = "APPROVED", ![r].credited = FALSE, ![r].period = p]
      BY <2>2, <3>2 DEF ApproveRkd
    <3>6. rkd' = [rkd EXCEPT ![r] = row]
      BY <1>0, <3>5
    <3> HIDE DEF row
    <3> QED
      BY <1>1, <3>1, <3>4, <3>6, UncreditedSet DEF SlipsOK, IInv
  <2> QED
    BY <2>1, <2>2
<1>3. Tasks' /\ Claims'
  BY <1>1, <1>t, SameTasks, OtherTask DEF Start
<1> QED
  BY <1>0, <1>1, <1>2, <1>3 DEF Result, IInv, SlipsOK, CreditsOK

\* One step per action.
LEMMA Step == IInv /\ [PayrollNext]_payrollVars => Result
<1> SUFFICES ASSUME IInv, [PayrollNext]_payrollVars
             PROVE  Result
  OBVIOUS
<1>q. UNCHANGED <<advance, wallet, entries, slip, rkd>> /\ UNCHANGED task /\ month' \in Nat => Result
  <2> SUFFICES ASSUME UNCHANGED <<advance, wallet, entries, slip, rkd>>, UNCHANGED task, month' \in Nat
               PROVE  Result
    OBVIOUS
  <2>1. Money' /\ Recovered /\ SlipsOK /\ ClaimsHold
    BY QuietMoney, QuietSlips
  <2>2. CreditsOK
    BY <2>1, QuietCredits DEF SlipsOK, IInv
  <2>3. Tasks' /\ Claims'
    BY <2>1, SameTasks
  <2> QED
    BY <2>1, <2>2, <2>3 DEF Result, IInv, SlipsOK, CreditsOK
<1>1. CASE NextMonth
  BY <1>1, <1>q DEF NextMonth, advanceVars, IInv
<1>2. CASE UNCHANGED payrollVars
  BY <1>2, <1>q DEF payrollVars, IInv
<1>3. ASSUME NEW h \in Handlers, SavePayslip(h)
      PROVE  Result
  <2>1. PICK m : m = task[h].period
    OBVIOUS
  <2>2. UNCHANGED <<advance, wallet, entries, month>> /\ Finish(h)
    BY <1>3 DEF SavePayslip, advanceVars
  <2>3. CASE Locked(m) \/ Incentives(RkdEarnings(m)) # task[h].rkd
    <3>1. UNCHANGED <<slip, rkd>>
      BY <1>3, <2>1, <2>3 DEF SavePayslip
    <3>2. Money' /\ Recovered
      BY <2>2, QuietMoney
    <3> QED
      BY <2>2, <3>1, <3>2, OnAdvances
  <2>4. CASE ~(Locked(m) \/ Incentives(RkdEarnings(m)) # task[h].rkd)
    <3>1. m \in Periods /\ Saved(m) /\ Unclaimed(m) /\ (SlipsRemain => CreditsOK)
      BY <1>3, <2>1, <2>4, SaveCredits
    <3> QED
      BY <2>2, <3>1, Writes
  <2> QED
    BY <2>3, <2>4
<1>4. ASSUME NEW h \in Handlers, RewritePayslip(h)
      PROVE  Result
  <2>1. PICK m \in Periods : m = task[h].period
    BY <1>4 DEF RewritePayslip, IInv, Tasks, Pending
  <2>2. Figures(m) /\ Unclaimed(m) /\ Finish(h) /\ UNCHANGED <<advance, wallet, entries, month, rkd>>
    BY <1>4, <2>1 DEF RewritePayslip, Figures, advanceVars
  <2>3. SlipsRemain => CreditsOK
    BY <2>2, QuietCredits DEF IInv
  <2> QED
    BY <2>2, <2>3, Writes
<1>5. ASSUME NEW h \in Handlers, ClaimPayment(h) \/ MarkPayslipPaid(h)
      PROVE  Result
  BY <1>5, ClaimStep, PayStep
<1>6. ASSUME NEW h \in Handlers, NothingToRefresh(h) \/ Crash(h)
      PROVE  Result
  <2>1. Finish(h) /\ UNCHANGED <<advance, wallet, entries, slip, rkd, month>>
    BY <1>6 DEF NothingToRefresh, Crash, advanceVars
  <2>2. Money' /\ Recovered
    BY <2>1, QuietMoney
  <2> QED
    BY <2>1, <2>2, OnAdvances
<1>7. ASSUME NEW h \in Handlers, NEW l \in Limits, UpdateLimit(h, l)
      PROVE  Result
  <2>1. PICK m : m = month
    OBVIOUS
  <2> DEFINE t == [op |-> "refresh", period |-> m]
  <2>2. Pending(t) /\ t.op # "recover" /\ Start(h, t)
    BY <1>7, <2>1 DEF Pending, UpdateLimit
  <2>3. UNCHANGED <<advance, wallet, entries, slip, rkd, month>>
    BY <1>7 DEF UpdateLimit
  <2> HIDE DEF t
  <2> QED
    BY <2>2, <2>3, Reads
<1>8. ASSUME NEW h \in Handlers, NEW a \in Advances, RequestRead(h, a) \/ ApproveRead(h, a)
      PROVE  Result
  <2>1. PICK t \in {[op |-> "request", adv |-> a], [op |-> "approve", adv |-> a]} : Start(h, t)
    BY <1>8 DEF RequestRead, ApproveRead
  <2>2. Pending(t) /\ t.op # "recover"
    BY DEF Pending
  <2>3. UNCHANGED <<advance, wallet, entries, slip, rkd, month>>
    BY <1>8 DEF RequestRead, ApproveRead, advanceVars
  <2> QED
    BY <2>1, <2>2, <2>3, Reads
<1>9. ASSUME NEW h \in Handlers, NEW a \in Advances, RequestWrite(h, a) \/ RejectAdvance(h, a)
      PROVE  Result
  <2>1. PICK s \in AdvanceStatus : advance' = [advance EXCEPT ![a].status = s]
    BY <1>9 DEF RequestWrite, RejectAdvance, AdvanceStatus
  <2>2. UNCHANGED <<wallet, entries, slip, rkd, month>> /\ (Finish(h) \/ UNCHANGED task)
    BY <1>9 DEF RequestWrite, RejectAdvance
  <2>3. Money' /\ \A b \in Advances : advance'[b].paid = advance[b].paid
    BY <2>1, <2>2, StatusMoney
  <2>4. Recovered
    BY <2>3 DEF Recovered, IInv, Money, AdvanceRow
  <2> QED
    BY <2>2, <2>3, <2>4, OnAdvances
<1>10. ASSUME NEW h \in Handlers, NEW a \in Advances, NEW n \in Tenures, ApproveWrite(h, a, n)
       PROVE  Result
  <2>1. Money' /\ Recovered
    BY <1>10, ApproveMoney DEF Recovered
  <2> QED
    BY <1>10, <2>1, OnAdvances DEF ApproveWrite
<1>11. ASSUME NEW h \in Handlers, NEW a \in Advances, RepayWrite(h, a)
       PROVE  Result
  <2>1. Money' /\ Recovered
    BY <1>11, RepayMoney DEF Recovered
  <2> QED
    BY <1>11, <2>1, OnAdvances DEF RepayWrite
<1>12. ASSUME NEW h \in Handlers, NEW a \in Advances, NEW offered \in Repayments,
              NEW kind \in {"fromWallet", "outside"}, RepayRead(h, a, offered, kind)
       PROVE  Result
  <2>1. /\ advance[a].paid \in Nat /\ advance[a].remaining \in Nat
        /\ advance[a].paid + advance[a].remaining = Amount[a]
        /\ offered \in Nat \ {0} /\ advance[a].remaining > 0
    BY <1>12, PayrollAssumption DEF IInv, Money, AdvanceRow, RepayRead, AdvanceOwed
  <2>2. PICK x, p, r : /\ x = Least(offered, advance[a].remaining)
                       /\ p = advance[a].paid + x /\ r = advance[a].remaining - x
    OBVIOUS
  <2>3. x \in Nat \ {0} /\ p \in Nat /\ r \in Nat /\ p + r = Amount[a]
    BY <2>1, <2>2 DEF Least
  <2> DEFINE t == [op |-> "repay", adv |-> a, x |-> x, kind |-> kind, paid |-> p, remaining |-> r]
  <2>4. Start(h, t)
    BY <1>12, <2>2 DEF RepayRead
  <2>5. Pending(t) /\ t.op # "recover"
    BY <2>3 DEF Pending, Closes
  <2>6. UNCHANGED <<advance, wallet, entries, slip, rkd, month>>
    BY <1>12 DEF RepayRead, advanceVars
  <2> HIDE DEF t
  <2> QED
    BY <2>4, <2>5, <2>6, Reads
<1>13. ASSUME NEW h \in Handlers, NEW m \in Periods, ApprovePayslip(h, m) \/ RejectPayslip(h, m)
       PROVE  Result
  <2>1. /\ Reviewed(m) /\ Unclaimed(m) /\ UNCHANGED task
        /\ UNCHANGED <<advance, wallet, entries, month, rkd>>
    BY <1>13 DEF ApprovePayslip, RejectPayslip, Reviewed, advanceVars
  <2>2. SlipsRemain => CreditsOK
    BY <2>1, QuietCredits DEF IInv
  <2> QED
    BY <2>1, <2>2, Writes
<1>14. ASSUME NEW h \in Handlers, NEW m \in Periods, DisburseRead(h, m)
       PROVE  Result
  <2>1. PICK d : d = slip[m].deduction
    OBVIOUS
  <2> DEFINE t == [op |-> "pay", period |-> m, deduction |-> d]
  <2>2. Start(h, t) /\ Pending(t) /\ t.op # "recover"
    BY <1>14, <2>1 DEF DisburseRead, Pending
  <2>3. UNCHANGED <<advance, wallet, entries, slip, rkd, month>>
    BY <1>14 DEF DisburseRead, advanceVars
  <2> HIDE DEF t
  <2> QED
    BY <2>2, <2>3, Reads
<1>15. ASSUME NEW h \in Handlers, NEW m \in Periods, NEW as \in {"keep", "approved", "rewrite"},
              Calculate(h, m, as)
       PROVE  Result
  <2>1. PICK d, r : d = AdvanceDeduction(m) /\ r = Incentives(RkdEarnings(m))
    OBVIOUS
  <2> DEFINE t == [op |-> as, period |-> m, deduction |-> d, rkd |-> r]
  <2>2. Start(h, t) /\ Pending(t) /\ t.op # "recover"
    BY <1>15, <2>1 DEF Calculate, Pending
  <2>3. UNCHANGED <<advance, wallet, entries, slip, rkd, month>>
    BY <1>15 DEF Calculate, advanceVars
  <2> HIDE DEF t
  <2> QED
    BY <2>2, <2>3, Reads
<1>16. ASSUME NEW h \in Handlers, NEW m \in Periods, NEW r \in Rkds, AdjustRkd(h, r, m)
       PROVE  Result
  <2>1. rkd[r] \in RkdRow /\ ~rkd[r].credited /\ m \in Nat
    BY <1>16, PeriodsAreMonths DEF AdjustRkd, IInv, Credits
  <2> DEFINE row == [rkd[r] EXCEPT !.period = m]
  <2>2. row \in RkdRow /\ ~row.credited
    BY <2>1 DEF RkdRow
  <2>3. rkd' = [rkd EXCEPT ![r] = row]
    BY <1>16 DEF AdjustRkd, IInv, Credits
  <2> HIDE DEF row
  <2>4. /\ Start(h, [op |-> "refresh", period |-> m])
        /\ UNCHANGED <<advance, wallet, entries, slip, month>>
    BY <1>16 DEF AdjustRkd, advanceVars
  <2> QED
    BY <2>1, <2>2, <2>3, <2>4, Requests
<1>17. ASSUME NEW h \in Handlers, NEW r \in Rkds, SubmitRkd(h, r) \/ RejectRkd(h, r)
       PROVE  Result
  <2>0. rkd \in [Rkds -> RkdRow] /\ rkd[r] \in RkdRow /\ UNCHANGED task
          /\ UNCHANGED <<advance, wallet, entries, slip, month>>
    BY <1>17 DEF SubmitRkd, RejectRkd, IInv, Credits, advanceVars
  <2>1. ~rkd[r].credited
    BY <1>17 DEF SubmitRkd, RejectRkd, IInv, Credits, CreditMatchesAllocation
  <2>2. CASE SubmitRkd(h, r)
    <3> DEFINE row == [rkd[r] EXCEPT !.status = "PENDING"]
    <3>1. row \in RkdRow /\ ~row.credited
      BY <2>0, <2>1 DEF RkdRow, RkdStatus
    <3>2. rkd' = [rkd EXCEPT ![r] = row]
      BY <2>0, <2>2 DEF SubmitRkd
    <3> HIDE DEF row
    <3> QED
      BY <2>0, <2>1, <3>1, <3>2, Requests
  <2>3. CASE RejectRkd(h, r)
    <3> DEFINE row == [rkd[r] EXCEPT !.status = "REJECTED", !.credited = FALSE]
    <3>1. row \in RkdRow /\ ~row.credited
      BY <2>0, <2>1 DEF RkdRow, RkdStatus
    <3>2. rkd' = [rkd EXCEPT ![r] = row]
      BY <2>0, <2>3 DEF RejectRkd
    <3> HIDE DEF row
    <3> QED
      BY <2>0, <2>1, <3>1, <3>2, Requests
  <2> QED
    BY <1>17, <2>2, <2>3
<1>18. ASSUME NEW h \in Handlers, NEW r \in Rkds, ApproveRkd(h, r)
       PROVE  Result
  BY <1>18, ApproveRkdStep
<1> QED
  BY <1>1, <1>2, <1>3, <1>4, <1>5, <1>6, <1>7, <1>8, <1>9, <1>10, <1>11, <1>12, <1>13, <1>14,
     <1>15, <1>16, <1>17, <1>18 DEF PayrollNext

THEOREM PayrollInvariant == PayrollSpec => []IInv
<1>1. IInv /\ [PayrollNext]_payrollVars => IInv'
  BY Step DEF Result
<1> QED
  BY <1>1, InitEstablishes, PTL DEF PayrollSpec

\* Reviews, repayments and salary payments write absolute figures they computed
\* from what they had read, and still no advance is paid back more or less than
\* its amount.
THEOREM AdvancesClose == PayrollSpec => []AdvanceBooksClose
<1>1. IInv => AdvanceBooksClose
  BY DEF IInv, Money, AdvanceRow, AdvanceBooksClose
<1> QED
  BY <1>1, PayrollInvariant, PTL

\* The balance of the wallet is what its transactions say.
THEOREM WalletIsExplained == PayrollSpec => []WalletExplained
<1>1. IInv => WalletExplained
  BY DEF IInv, Money, WalletExplained
<1> QED
  BY <1>1, PayrollInvariant, PTL

\* A credited request is approved and in the payslip of its own month.
THEOREM CreditsMatch == PayrollSpec => []CreditMatchesAllocation
<1>1. IInv => CreditMatchesAllocation
  BY DEF IInv, Credits
<1> QED
  BY <1>1, PayrollInvariant, PTL

\* No handler credits a request twice, moves its credit or takes it back.
THEOREM CreditsAreFinal == PayrollSpec => CreditIsFinal
<1>1. IInv /\ [PayrollNext]_payrollVars =>
        [\A r \in Rkds : rkd[r].credited => rkd'[r] = rkd[r]]_payrollVars
  BY Step DEF Result, CreditsStay
<1> QED
  BY <1>1, PayrollInvariant, PTL DEF PayrollSpec, CreditIsFinal

\* Crediting requests to a payslip and putting their total in it is one step.
THEOREM CreditsComeWithTheirMoney == PayrollSpec => CreditedIsPaid
<1>1. IInv /\ [PayrollNext]_payrollVars =>
        [\A m \in Periods : CreditedTo(m)' # CreditedTo(m) =>
            slip'[m].rkd = Incentives(CreditedTo(m)')]_payrollVars
  BY Step DEF Result, CreditsArePaid
<1> QED
  BY <1>1, PayrollInvariant, PTL DEF PayrollSpec, CreditedIsPaid

\* A deduction reaches the advances only with the step that pays its payslip,
\* and a paid payslip is never paid again.
THEOREM DeductionsRecoveredOnce == PayrollSpec => RecoveredWhenPaid
<1>1. IInv /\ [PayrollNext]_payrollVars =>
        [/\ \A m \in Periods : slip[m].status = "Paid" => slip'[m].status = "Paid"
         /\ (\E a \in Advances : advance'[a].paid > advance[a].paid) =>
              \/ entries' # entries
              \/ \E m \in Periods : slip[m].status = "Approved" /\ slip'[m].status = "Paid"]_payrollVars
  BY Step DEF Result, PaidStays, Recovered
<1> QED
  BY <1>1, PayrollInvariant, PTL DEF PayrollSpec, RecoveredWhenPaid
=============================================================================
