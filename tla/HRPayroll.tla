------------------------------ MODULE HRPayroll ------------------------------
(***************************************************************************)
(* Salary advances, the wallet, RKD incentives and payslips of one         *)
(* employee: every query and lock of this code is keyed by the employee,   *)
(* so employees do not interact.                                           *)
(*                                                                         *)
(* A handler that reads before it writes is two actions, with what it read *)
(* kept in task: the reads are outside the transaction that writes, or in  *)
(* a ReadCommitted one that locks nothing. What runs under an advisory     *)
(* lock (saving and paying a payslip, reviewing and allocating an RKD      *)
(* request) is one action. Money is counted in the smallest amount that is *)
(* repaid; salary itself is left out, only what is added to it and taken   *)
(* off it is modelled.                                                     *)
(***************************************************************************)
EXTENDS Integers, FiniteSetsExt, SequencesExt

CONSTANTS
    Advances,      \* identifiers of salary advances
    Amount,        \* Amount[a]: what advance a asks for
    Tenures,       \* numbers of months a reviewer may choose
    Limits,        \* values of salaryAdvanceLimit
    Rkds,          \* identifiers of RKD requests
    Incentive,     \* Incentive[r]: the commissionAmount of request r
    Sale,          \* Sale[r]: the sale request r refers to
    Periods,       \* months that have a payroll, 1..n
    Repayments,    \* amounts offered when an advance is repaid by hand
    Handlers       \* requests and jobs the servers work on at one time

ASSUME PayrollAssumption ==
    /\ \A a \in Advances : Amount[a] \in Nat \ {0}
    /\ \A r \in Rkds : Incentive[r] \in Nat \ {0}
    /\ Tenures \subseteq Nat \ {0} /\ Limits \subseteq Nat
    /\ Repayments \subseteq Nat \ {0}
    /\ Periods \subseteq Nat \ {0} /\ 1 \in Periods

VARIABLES
    advance,   \* SalaryAdvance rows
    order,     \* approved advances, oldest approval first (orderBy approvedAt)
    limit,     \* salaryStructure.salaryAdvanceLimit
    wallet,    \* Wallet.availableBalance
    entries,   \* sums of the successful WalletTransaction rows, by kind
    slip,      \* Payslip rows, one per period
    rkd,       \* RkdRequest rows
    month,     \* the current month
    task       \* what each handler has read and not yet written

payrollVars == <<advance, order, limit, wallet, entries, slip, rkd, month, task>>
advanceVars == <<advance, order, limit, wallet, entries>>

AdvanceStatus == {"none", "PENDING", "APPROVED", "REJECTED", "COMPLETED"}
SlipStatus == {"none", "Approved", "Rejected", "Paid"}
RkdStatus == {"none", "PENDING", "APPROVED", "REJECTED"}
NoPeriod == 0
Idle == [op |-> "idle"]

Exists(m) == slip[m].status # "none"
Locked(m) == slip[m].status \in {"Approved", "Paid"}

AdvanceOwed(a) == advance[a].status = "APPROVED" /\ advance[a].remaining > 0
Outstanding(S) == MapThenSumSet(LAMBDA a : advance[a].remaining, {a \in S : AdvanceOwed(a)})
Asked == MapThenSumSet(LAMBDA a : Amount[a], {a \in Advances : advance[a].status = "PENDING"})

Least(x, y) == IF x <= y THEN x ELSE y
Positive(x) == IF x > 0 THEN x ELSE 0
\* amount / months to the nearest unit, halves up (Math.round)
Instalment(amount, months) == (2 * amount + months) \div (2 * months)

\* RKD requests a payslip of period m may hold: those already credited to it,
\* and approved ones allocated to the period and credited to none.
RkdEarnings(m) ==
    {r \in Rkds :
        /\ rkd[r].status = "APPROVED"
        /\ \/ rkd[r].credited /\ Exists(m) /\ rkd[r].slip = m
           \/ ~rkd[r].credited /\ rkd[r].period = m /\ rkd[r].slip \in {NoPeriod, m}}
Incentives(S) == MapThenSumSet(LAMBDA r : Incentive[r], S)

\* What payslips already paid for earlier periods have deducted.
PriorRecovered(m) ==
    MapThenSumSet(LAMBDA q : slip[q].deduction,
                  {q \in Periods : q < m /\ slip[q].status = "Paid"})

\* The instalments due in period m: advances in order of approval share the
\* pool of earlier deductions, and what the pool does not cover is due.
AdvanceDeduction(m) ==
    LET Due(acc, a) ==
          LET paid == IF advance[a].paid >= Least(Amount[a], acc.pool)
                      THEN advance[a].paid ELSE Least(Amount[a], acc.pool)
              rest == Positive(Amount[a] - paid)
          IN [pool |-> Positive(acc.pool - paid),
              due |-> acc.due + Least(advance[a].emi, rest)]
        active == SelectSeq(order, LAMBDA a : AdvanceOwed(a) /\ advance[a].since <= m)
    IN FoldLeft(Due, [pool |-> PriorRecovered(m), due |-> 0], active).due

\* How a deduction is spread over the advances: the oldest first, each up to
\* what remains of it, until the deduction is used up.
Recoveries(deduction) ==
    LET owed == {a \in Advances : AdvanceOwed(a)}
        older(a, b) == \E i, j \in DOMAIN order : i < j /\ order[i] = a /\ order[j] = b
        total(f) == MapThenSumSet(LAMBDA a : f[a], owed)
    IN {f \in [owed -> UNION {0 .. advance[a].remaining : a \in owed}] :
          /\ \A a \in owed : f[a] <= advance[a].remaining
          /\ \A a, b \in owed :
               older(a, b) /\ f[b] > 0 => f[a] = advance[a].remaining
          /\ total(f) = Least(deduction, Outstanding(Advances))}

-----------------------------------------------------------------------------

PayrollInit ==
    /\ advance = [a \in Advances |->
                    [status |-> "none", emi |-> 0, paid |-> 0,
                     remaining |-> Amount[a], since |-> NoPeriod]]
    /\ order = <<>>
    /\ limit \in Limits
    /\ wallet = 0
    /\ entries = [advanced |-> 0, fromWallet |-> 0, outside |-> 0]
    /\ slip = [m \in Periods |-> [status |-> "none", deduction |-> 0, rkd |-> 0]]
    /\ rkd = [r \in Rkds |-> [status |-> "none", period |-> NoPeriod,
                              credited |-> FALSE, slip |-> NoPeriod]]
    /\ month = 1
    /\ task = [h \in Handlers |-> Idle]

Free(h) == task[h] = Idle
\* No payment of period m is between its first statement and its commit: the
\* others wait for the lock of the period or of the row.
Unclaimed(m) == ~\E h \in Handlers : task[h].op = "recover" /\ task[h].period = m
Start(h, t) == task' = [task EXCEPT ![h] = t]
Finish(h) == task' = [task EXCEPT ![h] = Idle]

-----------------------------------------------------------------------------
(* Salary advances *)

\* requestSalaryAdvance: the limit is compared with what is asked for and owed.
RequestRead(h, a) ==
    /\ Free(h)
    /\ advance[a].status = "none"
    /\ Amount[a] <= Positive(limit - (Asked + Outstanding(Advances)))
    /\ Start(h, [op |-> "request", adv |-> a])
    /\ UNCHANGED <<advanceVars, slip, rkd, month>>

\* The reviewer may replace the months asked for, so only the amount matters.
RequestWrite(h, a) ==
    /\ task[h] = [op |-> "request", adv |-> a]
    /\ advance[a].status = "none"
    /\ advance' = [advance EXCEPT ![a].status = "PENDING"]
    /\ Finish(h)
    /\ UNCHANGED <<order, limit, wallet, entries, slip, rkd, month>>

\* reviewSalaryAdvance, REJECT: whatever the status of the advance.
RejectAdvance(h, a) ==
    /\ Free(h)
    /\ advance[a].status # "none"
    /\ advance' = [advance EXCEPT ![a].status = "REJECTED"]
    /\ UNCHANGED <<order, limit, wallet, entries, slip, rkd, month, task>>

\* reviewSalaryAdvance, APPROVE: whatever the status of the advance. The others
\* are read by the first statement of a transaction that locks none of them.
ApproveRead(h, a) ==
    /\ Free(h)
    /\ advance[a].status # "none"
    /\ Outstanding(Advances \ {a}) + Amount[a] <= limit
    /\ Start(h, [op |-> "approve", adv |-> a])
    /\ UNCHANGED <<advanceVars, slip, rkd, month>>

ApproveKeepingPaid(h, a, months) ==   \* mutation
    /\ task[h] = [op |-> "approve", adv |-> a]
    /\ advance' = [advance EXCEPT ![a] =
                     [@ EXCEPT !.status = "APPROVED", !.emi = Instalment(Amount[a], months),
                               !.remaining = Amount[a], !.since = month]]
    /\ order' = Append(SelectSeq(order, LAMBDA b : b # a), a)
    /\ wallet' = wallet + Amount[a]
    /\ entries' = [entries EXCEPT !.advanced = @ + Amount[a]]
    /\ Finish(h)
    /\ UNCHANGED <<limit, slip, rkd, month>>

ApproveWrite(h, a, months) ==
    /\ task[h] = [op |-> "approve", adv |-> a]
    /\ advance' = [advance EXCEPT ![a] =
                     [status |-> "APPROVED", emi |-> Instalment(Amount[a], months),
                      paid |-> 0, remaining |-> Amount[a], since |-> month]]
    /\ order' = Append(SelectSeq(order, LAMBDA b : b # a), a)
    /\ wallet' = wallet + Amount[a]
    /\ entries' = [entries EXCEPT !.advanced = @ + Amount[a]]
    /\ Finish(h)
    /\ UNCHANGED <<limit, slip, rkd, month>>

\* repaySalaryAdvance computes the new row before its transaction begins.
RepayRead(h, a, offered, kind) ==
    /\ Free(h)
    /\ AdvanceOwed(a)
    /\ LET x == Least(offered, advance[a].remaining)
       IN Start(h, [op |-> "repay", adv |-> a, x |-> x, kind |-> kind,
                    paid |-> advance[a].paid + x,
                    remaining |-> advance[a].remaining - x])
    /\ UNCHANGED <<advanceVars, slip, rkd, month>>

RepayWrite(h, a) ==
    LET t == task[h] IN
    /\ t.op = "repay" /\ t.adv = a
    /\ advance' = [advance EXCEPT
                     ![a].paid = t.paid,
                     ![a].remaining = t.remaining,
                     ![a].status = IF t.remaining <= 0 THEN "COMPLETED" ELSE "APPROVED"]
    /\ entries' = [entries EXCEPT ![t.kind] = @ + t.x]
    /\ wallet' = IF t.kind = "fromWallet" THEN wallet - t.x ELSE wallet
    /\ Finish(h)
    /\ UNCHANGED <<order, limit, slip, rkd, month>>

-----------------------------------------------------------------------------
(* Payslips *)

\* calculatePayroll: all it takes from advances and RKD requests. as is what
\* the caller does with it: save the payslip, keeping its status or making it
\* Approved, or rewrite the figures of the row.
Calculate(h, m, as) ==
    /\ task[h] \in {Idle, [op |-> "refresh", period |-> m]}
    /\ m <= month
    /\ as = "approved" => ~Locked(m)
    /\ as = "rewrite" \/ ~Free(h) => Exists(m)
    /\ ~Free(h) => as = "keep"
    /\ Start(h, [op |-> as, period |-> m, deduction |-> AdvanceDeduction(m),
                 rkd |-> Incentives(RkdEarnings(m))])
    /\ UNCHANGED <<advanceVars, slip, rkd, month>>

\* A refresh finds no payslip to bring up to date.
NothingToRefresh(h) ==
    /\ task[h].op = "refresh"
    /\ ~Exists(task[h].period)
    /\ Finish(h)
    /\ UNCHANGED <<advanceVars, slip, rkd, month>>

SaveUnchecked(h) ==   \* mutation
    LET t == task[h]
        m == t.period
    IN
    /\ t.op \in {"keep", "approved"}
    /\ Unclaimed(m) /\ ~Locked(m)
    /\ Finish(h)
    /\ slip' = [slip EXCEPT ![m] = [status |-> "Approved", deduction |-> t.deduction, rkd |-> t.rkd]]
    /\ rkd' = [r \in Rkds |->
                 IF r \in RkdEarnings(m) THEN [rkd[r] EXCEPT !.slip = m, !.credited = TRUE]
                 ELSE rkd[r]]
    /\ UNCHANGED <<advanceVars, month>>

\* savePayslip: a locked payslip stays as it is; otherwise the row takes the
\* figures, and its RKD requests are credited if their total has not changed
\* (if it has, the transaction throws).
SavePayslip(h) ==
    LET t == task[h]
        m == t.period
        s == slip[m].status
    IN
    /\ t.op \in {"keep", "approved"}
    /\ Unclaimed(m)
    /\ Finish(h)
    /\ IF Locked(m) \/ Incentives(RkdEarnings(m)) # t.rkd
       THEN UNCHANGED <<slip, rkd>>
       ELSE /\ slip' = [slip EXCEPT ![m] =
                          [status |-> IF t.op = "approved" \/ s = "none" THEN "Approved" ELSE s,
                           deduction |-> t.deduction, rkd |-> t.rkd]]
            /\ rkd' = [r \in Rkds |->
                         IF r \in RkdEarnings(m)
                         THEN [rkd[r] EXCEPT !.slip = m, !.credited = TRUE]
                         ELSE rkd[r]]
    /\ UNCHANGED <<advanceVars, month>>

\* recalculatePayslipIfPresent, after an attendance correction: no lock, no
\* look at the status, and no request is credited.
RewritePayslip(h) ==
    LET t == task[h] IN
    /\ t.op = "rewrite"
    /\ Unclaimed(t.period)
    /\ slip' = [slip EXCEPT ![t.period].deduction = t.deduction, ![t.period].rkd = t.rkd]
    /\ Finish(h)
    /\ UNCHANGED <<advanceVars, rkd, month>>

\* approvePayslip and approveAdminPayslip. The check that the slip is up to date
\* compares two readings of the same set, so it never refuses.
ApprovePayslip(h, m) ==
    /\ Free(h)
    /\ Unclaimed(m)
    /\ slip[m].status \in {"Approved", "Rejected"}
    /\ slip' = [slip EXCEPT ![m].status = "Approved"]
    /\ UNCHANGED <<advanceVars, rkd, month, task>>

RejectPayslip(h, m) ==
    /\ Free(h)
    /\ Unclaimed(m)
    /\ slip[m].status \in {"Approved", "Rejected"}
    /\ slip' = [slip EXCEPT ![m].status = "Rejected"]
    /\ UNCHANGED <<advanceVars, rkd, month, task>>

\* disburseAdminPayslip and bulkDisbursePayroll read the payslips they will pay.
DisburseRead(h, m) ==
    /\ Free(h)
    /\ slip[m].status = "Approved"
    /\ Start(h, [op |-> "pay", period |-> m, deduction |-> slip[m].deduction])
    /\ UNCHANGED <<advanceVars, slip, rkd, month>>

\* markPayslipPaid: the conditional update claims the payment, and the new rows
\* of the advances are computed from the deduction that was read. The lock of the
\* employee keeps other payments out, but not a review or a repayment.
ClaimPayment(h) ==
    LET t == task[h] IN
    /\ t.op = "pay"
    /\ \A g \in Handlers : task[g].op # "recover"
    /\ IF slip[t.period].status # "Approved"
       THEN Finish(h)
       ELSE \E rec \in Recoveries(t.deduction) :
              Start(h, [op |-> "recover", period |-> t.period,
                        rows |-> [a \in DOMAIN rec |->
                                    [paid |-> advance[a].paid + rec[a],
                                     remaining |-> advance[a].remaining - rec[a]]]])
    /\ UNCHANGED <<advanceVars, slip, rkd, month>>

MarkPayslipPaid(h) ==
    LET t == task[h] IN
    /\ t.op = "recover"
    /\ slip' = [slip EXCEPT ![t.period].status = "Paid"]
    /\ advance' = [a \in Advances |->
                     IF a \in DOMAIN t.rows
                     THEN [advance[a] EXCEPT !.paid = t.rows[a].paid,
                                             !.remaining = t.rows[a].remaining]
                     ELSE advance[a]]
    /\ Finish(h)
    /\ UNCHANGED <<order, limit, wallet, entries, rkd, month>>

\* updateSalaryStructure: a new limit, then the unpaid payslip of the month anew.
UpdateLimit(h, l) ==
    /\ Free(h)
    /\ limit' = l
    /\ Start(h, [op |-> "refresh", period |-> month])
    /\ UNCHANGED <<advance, order, wallet, entries, slip, rkd, month>>

-----------------------------------------------------------------------------
(* RKD requests *)

\* createRkdRequestOnce: one row per submission key, and one live row per sale.
SubmitRkd(h, r) ==
    /\ Free(h)
    /\ rkd[r].status = "none"
    /\ ~\E q \in Rkds : Sale[q] = Sale[r] /\ rkd[q].status \in {"PENDING", "APPROVED"}
    /\ rkd' = [rkd EXCEPT ![r].status = "PENDING"]
    /\ UNCHANGED <<advanceVars, slip, month, task>>

\* transitionRkdReview to APPROVED: allocated to the current month unless its
\* payslip is locked; approveRkdRequest then refreshes that payslip, also when
\* the request had been approved before.
ApproveRkd(h, r) ==
    /\ Free(h)
    /\ rkd[r].status # "none"
    /\ Unclaimed(month)
    /\ rkd' = IF rkd[r].status = "APPROVED" THEN rkd
              ELSE [rkd EXCEPT ![r].status = "APPROVED", ![r].credited = FALSE,
                               ![r].period = IF Locked(month) THEN NoPeriod ELSE month]
    /\ IF rkd'[r].period = NoPeriod \/ Locked(rkd'[r].period) THEN UNCHANGED task
       ELSE Start(h, [op |-> "refresh", period |-> rkd'[r].period])
    /\ UNCHANGED <<advanceVars, slip, month>>

\* transitionRkdReview to REJECTED: an approved request cannot be taken back.
RejectRkd(h, r) ==
    /\ Free(h)
    /\ rkd[r].status \notin {"none", "APPROVED"}
    /\ rkd' = [rkd EXCEPT ![r].status = "REJECTED", ![r].credited = FALSE]
    /\ UNCHANGED <<advanceVars, slip, month, task>>

AdjustAnyRkd(h, r, m) ==   \* mutation
    /\ Free(h)
    /\ rkd[r].status = "APPROVED"
    /\ Unclaimed(m)
    /\ slip[m].status = "Approved"
    /\ rkd' = [rkd EXCEPT ![r].period = m]
    /\ Start(h, [op |-> "refresh", period |-> m])
    /\ UNCHANGED <<advanceVars, slip, month>>

\* adjustRkdPayrollPeriod: an approved request in no payslip moves to a period
\* whose payslip is open, and an approved payslip counts as open here.
AdjustRkd(h, r, m) ==
    /\ Free(h)
    /\ rkd[r].status = "APPROVED"
    /\ ~rkd[r].credited
    /\ Unclaimed(m)
    /\ slip[m].status = "Approved"
    /\ rkd' = [rkd EXCEPT ![r].period = m]
    /\ Start(h, [op |-> "refresh", period |-> m])
    /\ UNCHANGED <<advanceVars, slip, month>>

-----------------------------------------------------------------------------

\* The server stops, or a statement fails, between what was read and the write.
Crash(h) ==
    /\ ~Free(h)
    /\ Finish(h)
    /\ UNCHANGED <<advanceVars, slip, rkd, month>>

NextMonth ==
    /\ month + 1 \in Periods
    /\ month' = month + 1
    /\ UNCHANGED <<advanceVars, slip, rkd, task>>

PayrollNext ==
    \/ NextMonth
    \/ \E h \in Handlers :
         \/ SavePayslip(h) \/ RewritePayslip(h)
         \/ ClaimPayment(h) \/ MarkPayslipPaid(h)
         \/ NothingToRefresh(h) \/ Crash(h)
         \/ \E l \in Limits : UpdateLimit(h, l)
         \/ \E a \in Advances :
              \/ RequestRead(h, a) \/ RequestWrite(h, a) \/ RejectAdvance(h, a)
              \/ ApproveRead(h, a) \/ RepayWrite(h, a)
              \/ \E n \in Tenures : ApproveWrite(h, a, n)
              \/ \E x \in Repayments, k \in {"fromWallet", "outside"} : RepayRead(h, a, x, k)
         \/ \E m \in Periods :
              \/ ApprovePayslip(h, m) \/ RejectPayslip(h, m) \/ DisburseRead(h, m)
              \/ \E as \in {"keep", "approved", "rewrite"} : Calculate(h, m, as)
              \/ \E r \in Rkds : AdjustRkd(h, r, m)
         \/ \E r \in Rkds : SubmitRkd(h, r) \/ ApproveRkd(h, r) \/ RejectRkd(h, r)

PayrollSpec == PayrollInit /\ [][PayrollNext]_payrollVars

-----------------------------------------------------------------------------
(* What must hold *)

\* Whatever reviews, repayments and salary payments overlap, what is paid of an
\* advance and what remains of it add up to its amount, and neither is negative
\* (paidAmount and remainingAmount are written as absolute values by all of them).
AdvanceBooksClose ==
    \A a \in Advances :
        /\ advance[a].paid >= 0 /\ advance[a].remaining >= 0
        /\ advance[a].paid + advance[a].remaining = Amount[a]

\* The balance of the wallet is what its successful transactions say: advances
\* paid in, less repayments taken from the wallet.
WalletExplained == wallet = entries.advanced - entries.fromWallet

\* A request credited to a payslip is approved and was allocated to its period.
CreditMatchesAllocation ==
    \A r \in Rkds : rkd[r].credited =>
        rkd[r].status = "APPROVED" /\ rkd[r].slip = rkd[r].period /\ Exists(rkd[r].slip)

\* Once credited, a request is never credited again or elsewhere, nor taken back.
CreditIsFinal ==
    [][\A r \in Rkds : rkd[r].credited => rkd'[r] = rkd[r]]_payrollVars

\* The step that credits requests to a payslip leaves exactly their total in it.
CreditedTo(m) == {r \in Rkds : rkd[r].credited /\ rkd[r].slip = m}
CreditedIsPaid ==
    [][\A m \in Periods : CreditedTo(m)' # CreditedTo(m) =>
          slip'[m].rkd = Incentives(CreditedTo(m)')]_payrollVars

\* A paid payslip stays paid, and the deduction of a payslip is recovered by no
\* step but the one that pays it.
RecoveredWhenPaid ==
    [][/\ \A m \in Periods : slip[m].status = "Paid" => slip'[m].status = "Paid"
       /\ (\E a \in Advances : advance'[a].paid > advance[a].paid) =>
            \/ entries' # entries
            \/ \E m \in Periods : slip[m].status = "Approved" /\ slip'[m].status = "Paid"]_payrollVars

\* A payslip is paid with every approved request that was allocated to its
\* period: otherwise the payment is refused with "RKD earnings changed.
\* Regenerate the salary slip before disbursement." (payrollController.ts:902).
PaidSlipIncludesItsRkd ==
    \A m \in Periods, r \in Rkds :
        slip[m].status = "Paid" /\ rkd[r].status = "APPROVED" /\ rkd[r].period = m
        => rkd[r].credited /\ rkd[r].slip = m

=============================================================================
