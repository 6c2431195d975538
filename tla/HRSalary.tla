------------------------------- MODULE HRSalary -------------------------------
(***************************************************************************)
(* The attendance of one employee in one month turned into a salary. The     *)
(* program does it twice: payroll counts the days of a payslip, and the      *)
(* date-wise sheet counts them again for the employee to read, with rules    *)
(* of its own for the row of a date and for what proves attendance. Both     *)
(* walk the month date by date, so a step is a date.                         *)
(*                                                                          *)
(* Half days are counted in units of half a day. Late marks, overtime,       *)
(* shifts of a period, approvals of single extra dates, statutory and other  *)
(* deductions, commission and reimbursements are left out (HRPayroll has the *)
(* last three).                                                              *)
(***************************************************************************)
EXTENDS Integers, Sequences

CONSTANTS
    Basis,        \* SALARY_BASIS_DAYS
    LeaveLimit,   \* MONTHLY_PAID_LEAVE_LIMIT
    Lengths,      \* numbers of days of a month
    Salaries      \* monthly salaries, in the smallest unit of money

ASSUME SalaryAssumption ==
    /\ Basis \in Nat \ {0} /\ LeaveLimit \in Nat
    /\ Lengths \subseteq Nat \ {0} /\ Salaries \subseteq Nat

VARIABLES
    month,     \* what the calculation read: length, joining, today, salary, reward
    date,      \* the date it counts next; 0 before a calculation
    counted,   \* payroll's AttendanceClassification: days per bucket
    sheet,     \* the counts of the date-wise sheet
    better,    \* payroll's counts, had the employee been present on one more date
    attended,  \* that date has passed
    parted     \* the two calculations read different evidence of some date

salaryVars == <<month, date, counted, sheet, better, attended, parted>>

Buckets == {"before", "holiday", "holidayWorked", "off", "offWorked", "half", "present",
            "paid", "unpaid", "absent", "remaining"}
NoDays == [b \in Buckets |-> 0]
NoMonth == [length |-> 0, joining |-> 0, today |-> 0, salary |-> 0, reward |-> FALSE]

Least(x, y) == IF x <= y THEN x ELSE y
Most(x, y) == IF x >= y THEN x ELSE y
Rounded(n, k) == (2 * n + k) \div (2 * k)   \* n / k, as Math.round

-----------------------------------------------------------------------------
(* The row of a date *)

NoRecord == [status |-> "", punched |-> FALSE]
Present == [status |-> "PRESENT", punched |-> TRUE]
LeaveStatus == {"LEAVE", "PAID"}   \* PAID is the holiday job's
Records == [status : {"PRESENT", "HALF_DAY", "ABSENT"} \cup LeaveStatus, punched : BOOLEAN]

Rank(rec) ==
    CASE rec.status = "PRESENT" -> 5
      [] rec.status = "HALF_DAY" -> 4
      [] rec.status \in LeaveStatus -> IF rec.punched THEN 3 ELSE 2
      [] OTHER -> IF rec.punched THEN 1 ELSE 0

\* dedupeAttendanceByDate: of two rows the higher rank, then the one with punches.
Authoritative(rows) ==
    IF rows = <<>> THEN NoRecord
    ELSE IF Len(rows) = 1 THEN rows[1]
    ELSE IF \/ Rank(rows[2]) > Rank(rows[1])
            \/ (Rank(rows[2]) = Rank(rows[1]) /\ rows[2].punched)
         THEN rows[2] ELSE rows[1]

\* The sheet keeps the first row, unless the second is worked or punched and it is not.
Displayed(rows) ==
    IF rows = <<>> THEN NoRecord
    ELSE IF Len(rows) = 1 THEN rows[1]
    ELSE IF \/ rows[2].status = "PRESENT" /\ rows[1].status # "PRESENT"
            \/ (rows[2].punched /\ ~rows[1].punched)
         THEN rows[2] ELSE rows[1]

-----------------------------------------------------------------------------
(* The bucket of a date *)

\* A date: its kind, its rows, the approved leave that covers it, and whether a
\* leave that is not approved covers it too.
Early == date < month.joining
Elapsed == date <= month.today

\* A date to come has at most the row of an approved leave.
RowsWithin(n) ==
    IF Elapsed THEN UNION {[1 .. k -> Records] : k \in 0 .. n}
    ELSE {<<>>, <<[status |-> "LEAVE", punched |-> FALSE]>>}

DatesWithin(n) == [kind : {"working", "off", "holiday"}, rows : RowsWithin(n),
                   leave : {"none", "paid", "unpaid"}, pending : BOOLEAN]

IsPresent(rec) ==
    rec.status = "PRESENT" \/ (rec.punched /\ rec.status \notin {"ABSENT", "HALF_DAY", "LEAVE"})

\* The order both loops ask in, given the row, what each takes for evidence of
\* employment and for a missed date, and the paid leaves counted so far.
BucketOf(d, rec, evidence, missed, paid) ==
    IF Early /\ ~evidence THEN "before"
    ELSE IF d.kind = "holiday" THEN IF IsPresent(rec) \/ rec.punched THEN "holidayWorked" ELSE "holiday"
    ELSE IF d.kind = "off" THEN IF IsPresent(rec) \/ rec.punched THEN "offWorked" ELSE "off"
    ELSE IF rec.status = "HALF_DAY" THEN "half"
    ELSE IF IsPresent(rec) THEN "present"
    ELSE IF d.leave # "none" THEN IF d.leave = "unpaid" \/ paid >= LeaveLimit THEN "unpaid" ELSE "paid"
    ELSE IF missed THEN "absent" ELSE "remaining"

Evident(d, rec) == IsPresent(rec) \/ rec.status = "HALF_DAY" \/ d.leave # "none" \/ rec.punched

\* classifyPayrollAttendance: a leave row proves nothing while its leave is not approved.
Classified(d, counts) ==
    LET rec == Authoritative(d.rows) IN
    BucketOf(d, rec, Evident(d, rec) \/ (rec.status \in LeaveStatus /\ ~d.pending),
             rec.status = "ABSENT" \/ Elapsed, counts["paid"])

DateWiseUnproven(d, counts) ==   \* mutation
    LET rec == Displayed(d.rows) IN
    BucketOf(d, rec, Evident(d, rec), rec.status = "ABSENT" \/ d.pending \/ Elapsed, counts["paid"])

\* getDateWiseBreakdown: any leave row is evidence, and a leave not approved is an absence.
DateWise(d, counts) ==
    LET rec == Displayed(d.rows) IN
    BucketOf(d, rec, Evident(d, rec) \/ rec.status \in LeaveStatus,
             rec.status = "ABSENT" \/ d.pending \/ Elapsed, counts["paid"])

Plus(counts, b) == [counts EXCEPT ![b] = @ + 1]

-----------------------------------------------------------------------------
(* Thirty days' pay *)

UnpaidLeave(c) == c["unpaid"] + Most(0, c["paid"] - LeaveLimit)

CreditedTwice(c, paid) ==   \* mutation
    2 * (c["present"] + paid + c["holiday"] + c["off"] + c["holidayWorked"] + c["offWorked"])
    + 3 * c["half"]

Credited(c, paid) ==
    2 * (c["present"] + paid + c["holiday"] + c["off"] + c["holidayWorked"] + c["offWorked"])
    + c["half"]

\* A short month without a gap is paid as a whole one, a long one never as more.
PayableOf(credit, covered) ==
    LET short == IF covered /\ month.length < Basis THEN Most(0, 2 * Basis - credit) ELSE 0
    IN Least(2 * Basis, credit + short)

Gaps == {"absent", "half", "before", "remaining"}

\* fixedThirtyDaySalary, in half days.
Payable(c) ==
    PayableOf(Credited(c, Least(LeaveLimit, c["paid"])),
              UnpaidLeave(c) = 0 /\ \A b \in Gaps : c[b] = 0)

\* The reconciliation at the end of the sheet.
SheetPayable(c) == PayableOf(Credited(c, c["paid"]), \A b \in Gaps \cup {"unpaid"} : c[b] = 0)

Daily == Rounded(month.salary, Basis)

\* The reward for attendance, at the rate of a day.
Extra(c) ==
    IF month.reward /\ c["present"] >= Basis THEN Most(1, c["present"] - Basis + 1) * Daily ELSE 0

\* calculatePayroll: the deduction for the days not paid, told apart on the slip.
SlipOf(c) ==
    LET deduction == Rounded((2 * Basis - Payable(c)) * Daily, 2)
        half == Least(deduction, Rounded(c["half"] * month.salary, 2 * Basis))
        leave == Least(Most(0, deduction - half), Rounded(UnpaidLeave(c) * month.salary, Basis))
        absent == Most(0, deduction - half - leave)
        earned == month.salary + (c["holidayWorked"] + c["offWorked"]) * Daily + Extra(c)
    IN [half |-> half, leave |-> leave, absent |-> absent,
        net |-> Most(0, earned - (half + leave + absent))]

-----------------------------------------------------------------------------
SalaryInit ==
    /\ month = NoMonth /\ date = 0
    /\ counted = NoDays /\ sheet = NoDays /\ better = NoDays
    /\ attended = FALSE /\ parted = FALSE

\* The reads of calculatePayroll and of the sheet.
Calculate(length, joining, today, salary, reward) ==
    /\ date = 0
    /\ month' = [length |-> length, joining |-> joining, today |-> today,
                 salary |-> salary, reward |-> reward]
    /\ date' = 1
    /\ UNCHANGED <<counted, sheet, better, attended, parted>>

\* What the two loops read differently: two rows of a date, and before joining
\* the row of a leave that is not approved.
Parted(d) ==
    \/ Authoritative(d.rows) # Displayed(d.rows)
    \/ /\ Early /\ d.kind # "working" /\ d.pending /\ d.leave = "none"
       /\ Displayed(d.rows).status \in LeaveStatus

CountDate(d) ==
    /\ date \in 1 .. month.length
    /\ counted' = Plus(counted, Classified(d, counted))
    /\ sheet' = Plus(sheet, DateWise(d, sheet))
    /\ parted' = (parted \/ Parted(d))
    /\ \/ better' = Plus(better, Classified(d, better)) /\ UNCHANGED attended
       \/ /\ ~attended /\ Elapsed
          /\ better' = Plus(better, Classified([d EXCEPT !.rows = <<Present>>], better))
          /\ attended' = TRUE
    /\ date' = date + 1
    /\ UNCHANGED month

Starting ==
    \E length \in Lengths : \E joining \in 1 .. length, today \in 1 .. length,
      salary \in Salaries, reward \in BOOLEAN : Calculate(length, joining, today, salary, reward)

SalaryNext == Starting \/ \E d \in DatesWithin(2) : CountDate(d)

SalarySpec == SalaryInit /\ [][SalaryNext]_salaryVars

-----------------------------------------------------------------------------
(* What must hold *)

Closed == date > month.length

\* The sheet calls itself reconciled: it comes to the days that payroll pays,
\* though it counts by rules of its own, unless both read different evidence.
SheetReconciles == Closed /\ ~parted => SheetPayable(sheet) = Payable(counted)

\* Present on one more date never makes the salary less, whatever the date was
\* before: payable days, deductions, pay for days off and reward together.
AttendingPays == Closed => SlipOf(better).net >= SlipOf(counted).net
=============================================================================
