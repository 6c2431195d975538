# QuickBoom HRM backend: specifications

TLA+ modules of the backend in `src/`, the TLC runs that check them on small
instances, and TLAPS proofs of what holds for every instance. Line numbers
refer to files below `src/src/`: `pos/` is the point of sale, `hrmCommission/`
the projection of external sales; controllers and services without a directory
are in `controllers/` and `services/`. Paths that begin with `docs/` are in
`src/docs/`.

## 1. The system

An Express server over PostgreSQL (Prisma). HR staff and employees use it for
attendance, leave, payroll, advances, expenses and notifications; stores use it
as a point of sale; an external shop (HopKid) sends it its invoices as webhooks.
All durable state is in the database; every request is a handler that runs one
or more transactions, so the actors are concurrent requests, background jobs
(campaign, attendance, payroll, projection) and, below them, the database with
its isolation levels. The POS writes in Serializable transactions that are
retried; the HR parts mostly in single statements at ReadCommitted, so that
what they read may be stale when they write.

### Inventory

| Part | State | Operations | What is hard, and what makes it correct |
|---|---|---|---|
| Store stock (`pos/service.ts`) | `POSInventoryBalance`, append-only `POSStockMovement`, `POSStockTransfer`, audit rows | create product, adjust, count, create / dispatch / receive transfer; all through `movement()` | any order of handlers; retried keys; one line of several failing. A balance is never negative and is the sum of its movements; a reference moves stock once; transfers lose nothing |
| Registers and sessions (`pos/service.ts`, `pos/routes.ts`) | `POSRegister`, `POSSession`, `POSCashMovement` | open a register (three paths), close, cash in / out | two openings of one register; cash out of an empty drawer; late events for a closed session. One open session per register; no overdrawn drawer; closed is closed |
| Money arithmetic (`pos/finance.ts`) | none | quote, refund share, commission | rounding. Discounts are allocated completely; partial refunds telescope to what was paid |
| Bills (`pos/service.ts`, `pos/operations.ts`, `pos/salesLifecycle.ts`) | `POSSale`, items, payments, `POSReturn` | checkout, return, exchange, cancel with or without refund, void, delete, bulk delete, clear, reconcile payments | long sequences of legal calls over one bill; stock, drawer, refunds and commission must all follow it |
| Checkout protocol (`pos/service.ts` 35-56, 1211-1489) | idempotency key, advisory lock, retry counter | `transaction()`, checkout, recovery | snapshots older than the lock, conflicts, timeouts, crashes, client retries. One sale per key, truthful answers, an answer at all |
| Retail commission (`pos/retailCommissions.ts`) | `POSRetailCommission`, `POSRetailCommissionAdjustment` | accrue, reverse, close, review, synchronise, configure | reversal by several routes; synchronisation at ReadCommitted next to sales. Debits explain reversals; commission follows the bill |
| Drafts and breaks (`pos/workSessions.ts`) | `POSBillingDraft`, `POSWorkBreak` | save, break, resume, read, consume at checkout | several tabs, late and repeated requests. No lost edit, bill sold as shown, paused bill unchanged |
| POS rights, reports, exports, validation, configuration, customers | permission rows, configuration rows | lookups, single-row upserts, reads | no protocol of their own |
| Notification campaigns (`campaignService.ts`, `campaignScheduler.ts`, `campaignImageService.ts`) | campaign status and lock time, notifications, image assets | edit, schedule, claim, send, recover, birthday occurrences, collect images | a sender that outlives its lock; a crash between sending and recording. Nobody is pushed twice, reports tell the truth, what is due is sent |
| Leave (`leaveReviewTransition.ts`, `leaveCancellationService.ts`, `leaveBalanceService.ts`, three review routes) | requests, balances, attendance rows | apply, review, cancel | reviews against each other and against cancellation; a balance that is read, then written. A leave is charged once; cancelled is final |
| Attendance (`mobileAttendanceController.ts`, `autoPunchOutService.ts`, `attendanceCorrectionController.ts`) | attendance rows, correction requests | punch in and out, prepare rows, automatic punch-out, correct | automatic close against a manual one; rows deleted under a punch. A correction is applied once, manual punches stay |
| Wallet and salary advances (`salaryAdvanceController.ts`, `employeeController.ts`) | advances, wallet, its transactions | request, review, repay, recover from a payslip | checks outside the transaction that writes. The books of an advance close, the wallet is what its rows say |
| Payroll and RKD requests (`payrollService.ts`, `payrollController.ts`, `rkdPayrollService.ts`, `rkdNotificationWorkflow.ts`) | payslips, RKD requests, allocations | calculate, save, approve, pay, refresh; submit, review, allocate, credit | calculation, saving and payment each act on older readings. What is credited is in the payslip with its money |
| Salary over attendance (`utils/attendanceSummary.ts`, `utils/fixedThirtyDaySalary.ts`, `payrollService.ts`, `dateWiseSalaryService.ts`) | none: attendance rows, leaves and holidays in, days and money out | classify every date of a month, payable days, deductions, extra pay; the same again for the date-wise sheet | two loops with rules of their own for duplicate rows, unapproved leaves and dates before joining; a basis of 30 days for months of 28 to 31. Both come to the same payable days; attending never costs |
| Projection of external sales (`hrmCommission/`) | inbox of logs, documents, lines, ledger | receive, find, normalise, apply, retry | late, repeated and conflicting revisions; refunds of revised sales; exchanges of two documents; workers that stop. The ledger explains the lines |
| Invoice webhooks and commission (`webhookController.ts`, `webhookIdempotency.ts`, `commissionController.ts`, `invoiceCommissionService.ts`) | log rows, commission rows, wallet transactions, history | deliver, deduplicate, calculate, apply; approve, reject, reconcile, settle | concurrent redeliveries; an approval while a delivery calculates. Wallets follow the rows, frozen rows stay |
| User sessions, device tokens | session rows, token hashes | login, refresh, revoke | concurrent rotation of one token |
| Expenses, tasks, assets, projects, roles, employees, tracking, push | single rows | CRUD, reads, network output | record keeping |

Interactions: checkout is where the parts of the POS meet. In one Serializable
transaction it opens or finds a register session, consumes the account's
draft, prices the lines, moves stock, accrues commission and writes the bill.
Returns, cancellations and deletions undo parts of that in other transactions.
A webhook of the external shop is stored raw and then read twice: at once by the
invoice pipeline, and later by the projection's worker, which keeps books of its
own. RKD incentives and recoveries of advances meet in the payslip; advances,
repayments and commission meet in the wallet. Leave reviews and cancellations
write the attendance rows that punches and corrections write.

The hazards these parts are exposed to are listed, at their lines, in
`PROJECT.json`, with the properties that cover each.

## 2. Modules

| Module | Models | State | Actions |
|---|---|---|---|
| `POSCommon` | the constants everything shares: stores, variants, the absent row | | |
| `POSStock` | store stock | `catalog`, `quantity`, `damaged` (balances), `ledger` and `docLedger` (movement rows, summed per place and per reference), `stockLog` (audit rows by key), `transfers` | `CreateProduct`, `Adjust`, `ReconcileStock`, `CreateTransfer`, `DispatchTransfer`, `ReceiveTransfer`, each through `Movement` |
| `POSRegister` | registers, sessions, drawer cash | `registers`, `sessions`, `cashMoves` | `AddRegister`, `OpenRegister`, `OpenRegisterSession`, `NewSession` (a checkout that opens one), `CashMovement`, `CloseSession` |
| `POSFinance` | `finance.ts` as operators over integers | | |
| `POSBill` | one bill: quoted, then returned piece by piece | `lines`, `totals`, `returned`, `refunds` | `Refund` |
| `POSRetailCommission` | commission rows and debits | `enabledStores`, `rate`, `commissions`, `adjustments`, `syncing` | the calls sales make (`AccrueRetailCommission`, `ReverseRetailCommission`, `CloseRetailCommission`), `ReviewAdjustment`, `ConfigureCommission`, `ConfigureRate`, `SyncRead`, `SyncWrite` |
| `POSSales` | bills; composes the four modules above | all of the above, `sales`, `returns` | `Checkout`, `ReturnSale`, `CancelWithRefund`, `VoidSale`, `DeleteSale`, `ClearCancel`, `ClearDelete`, `ReconcilePayment`, `ReconcileRefund`, and the stock, register and commission actions |
| `POSBillLife` | what the counter promises about one bill | `status`, `bill` | `Sell`, `Return`, `Refund`, `Void`, `Delete` |
| `POSCheckout` | checkout and `transaction()` statement by statement, for the calls with one key | `sale`, `booked`, `tendered`, and per call `pc`, `attempt`, `view` (its snapshot), `payment`, `sum`, `answer`; `holder` of the lock | `Call`, `FastPath`, `Begin`, `Lock`, `FindExisting`, `Refuse`, `Price`, `Commit`, `Acknowledge`, `UniqueViolation`, `SerializationFailure`, `Timeout`, `Recover`, `Crash` |
| `POSSaleOnce` | what checkout promises about a key | `sale`, `answer` | `Sell`, `Answer` |
| `POSWork` | drafts and breaks of one account | `drafts`, `breaks`, `sessions`, `requests` (in flight for ever), `checkouts` | `Compose`, `CreateDraft`, `UpdateDraft`, `SwitchStore`, `Resume`, `ComposeSale`, `BeginSale`, `CommitSale`, `AbortSale`, `OpenSession`, `CloseSession` |
| `HRPayroll` | advances, the wallet, payslips and RKD requests of one employee | `advance`, `order` (of approval), `limit`, `wallet`, `entries` (sums of its transactions), `slip`, `rkd`, `month`, `task` (what each handler has read) | `RequestRead` / `RequestWrite`, `RejectAdvance`, `ApproveRead` / `ApproveWrite`, `RepayRead` / `RepayWrite`, `Calculate`, `NothingToRefresh`, `SavePayslip`, `RewritePayslip`, `ApprovePayslip`, `RejectPayslip`, `DisburseRead`, `ClaimPayment`, `MarkPayslipPaid`, `UpdateLimit`, `SubmitRkd`, `ApproveRkd`, `RejectRkd`, `AdjustRkd`, `Crash`, `NextMonth` |
| `Campaign` | campaigns, their dispatch, the scheduler, birthday occurrences, images | `camp`, `note`, `pushes`, `asset`, `task`, `crashes` | administration (`CreateCampaign` ... `DeleteCampaign`), `SendCampaign` and then `sendCampaign` statement by statement (`ClaimCampaign`, `ResolveAudience`, `NotifyEmployee`, `PushBatch`, `RecordOutcome`, `FinishDispatch`, `SendFails`), the tick (`TickRecover` ... `TickEnd`), `BirthdayWish`, `UploadImage`, `CleanupImages`, time and `Crash` |
| `CampaignOnce` | what a dispatch promises | `phase`, `reached` | `Open`, `Withdraw`, `Claim`, `Reach`, `Close`, `CloseAll` |
| `HRAttendance` | attendance rows and corrections of one employee | `row`, `leave`, `corr`, `lock` (advisory, per day), `task` | `PunchIn`, `PunchOut`, `Mark`, `Prepare` and their reads and writes, `AutoFind` / `AutoClose` / `AutoEnd`, `AskCorrection` ... `CreateCorrection`, `ReadCorrection`, `ApproveCorrection`, `RejectCorrection` |
| `HRLeave` | leave requests, extends `HRAttendance` | and `used` (balance), `posted` and `calm` (history variables) | `Apply`, `ReadLeave`, `ClaimReview`, `ReadBalance`, `PostBalance`, `ReadDay` / `WriteDay`, `ReadForCancel`, `Cancel`, `FindPlaceholder`, `DeletePlaceholder`, `LeaveEnd`, `AdminReview` |
| `HRSalary` | a month of attendance turned into a salary, by payroll and by the date-wise sheet | `month` (what was read), `date` (to count next), `counted` and `sheet` (days per bucket in either), `parted` (they read other evidence of a date), `better` and `attended` (payroll's counts had the employee attended one more date) | `Calculate`, `CountDate` |
| `HRMProjection` | the projection, statement by statement | `inbox`, `book` (committed), `work` (as the open transaction sees it), `holder` of the advisory lock, `policy`, `batch`, `task` | `Receive`, `FindLogs`, `TakeLog`, `RetryException`, `OpenInbox`, `Begin`, `SkipDocument`, `OpenDocument`, `ApplySaleLine`, `ApplyRefundLine`, `RetireLine`, `CloseDocument`, `Commit`, `Abort`, `Crash`, `ConfigureRate` |
| `HRInvoice` | the deliveries of one invoice, and its reviews | `log`, `aged`, `configured`, `commission`, `credited` (wallet transactions), `review`, `invoiceLock`, `delivery`, `settling` | `Deliver`, `CheckDelivery`, `InsertLog`, `RefuseLog`, `Calculate`, `LockInvoice`, `ApplyInvoice`, `CompleteLog`, `FailDelivery`, `CrashDelivery`, `WindowPasses`, `Configure`, `ApproveCommission`, `RejectCommission`, `SettleRead`, `SettleWrite` |
| `POSCounter_proofs` | theorems about `POSStock`, `POSRegister` and what `POSSales` composes of them | | |
| `POSTill_proofs` | theorems about `POSCheckout` and `POSBill` | | |
| `POSWork_proofs`, `HRPayroll_proofs`, `Campaign_proofs` | theorems about the module they are named after | | |
| `People_proofs` | theorems about `HRAttendance`, `HRLeave` and `HRSalary` | | |
| `Webhooks_proofs` | theorems about `HRMProjection` and `HRInvoice` | | |
| `SumLemmas` | what the proofs need about sums over finite sets | | |
| `MCPOSCounter`, `MCPOSSales`, `MCPOSWork`, `MCPOSCheckout`, `MCHRPayroll`, `MCCampaign`, `MCHRLeave`, `MCWebhooks` | instances for TLC: values of function constants, bounds, symmetry, scenes | `scene` | |

How the code is abstracted:

- **A handler is one step** where the code makes it one: stock, register and
  bill handlers run in a Serializable transaction that `transaction()` retries
  on 40001 and 40P01, so their effect is that of one atomic step; a failed
  `ensure()` leaves nothing and is a disabled action. Where atomicity is the
  question, the steps are apart: `POSCheckout` has the statements of checkout,
  `POSWork` the first statement and the commit of a sale, and
  `POSRetailCommission` the read and the write of a synchronisation, which runs
  at ReadCommitted without a lock on the sale.
- **In the HR parts a statement is one step**, for their handlers read, decide
  and write at ReadCommitted without a transaction, or in one that does not
  lock what it read. `task` is what a handler has read; a handler may stop at
  any point (`Crash`). A compare-and-set (`updateMany` with a condition) or an
  increment is one step on the current row; an absolute write of what was read
  is a step that uses the old value.
- **An open transaction** that others may meet halfway (`HRMProjection`) works
  on its own copy of the tables, which `Commit` publishes and a roll-back or a
  crash drops.
- **A request key stands for the row it creates.** A handler that finds the row
  answers from it and changes nothing: its action is disabled.
- **Rows a deletion removes** are kept with status `DELETED` so that properties
  can speak of them; handlers treat them as absent.
- **Movement rows** are kept as the sums their readers group them by.
- **Money** is in the smallest unit, rounding as in `round()`: half up.
- Definitions marked `\* mutation` are deliberately faulty variants of the
  definition that follows them. Nothing uses them; replacing the right
  definition by one must break the property named for it under `mutants` in
  `PROJECT.json`, which is how every property is known to be able to fail.

## 3. Runs

Deadlock checking is off in all runs: the models are sets of requests, each of
which is made a bounded number of times, and the system may rest when they are
used up. Where components share no state, one run holds several *scenes*, each
chosen by the initial state.

| Run | Shows | Bounds, and why they are enough |
|---|---|---|
| `counter` | balances equal their movements, a reference applies once, transfers move all lines once or none; bills add up and are refunded exactly; no two open sessions share a register | stock: two stores, two variants (so that one line of two can fail), two keys, two transfers, one unit a request: every property relates one place, key or transfer to its rows. Bills: up to three lines at 3 and 7, one and three units, 18 percent tax, discounts of 5 and 33, as amount and percent: they divide badly into each other, so rounding goes both ways. Registers: three cashiers and a shared account, two registers, two sessions |
| `sales` | stock, refunds and commission follow a bill (`StockFollowsBills` is `BillSettlesStock` and `OnlyDeletionEscapesLedger`); only taking a bill out of the books overdraws a drawer or changes a closed session; snapshots are final | one bill of up to two units at 3 plus 1 tax (no even split), two returns, rate 3; two bills in two sessions with one return and one cash movement; one bill with two synchronisations and two rates |
| `checkout` | `POSCheckout` implements `POSSaleOnce`; one booking; every call is answered | three calls: a request, its retry, and another request with the same key; three attempts each (the code has four; nothing but `RetriesLeft` depends on the number), one crash |
| `work` | no lost edit, settled drafts frozen, a bill sold as shown | three writes and a sale in two stores, two drafts, one register session |
| `payroll` | the books of an advance close; a credited request is approved, in the period it was allocated to, and its money is in the payslip | two advances of 2 recovered over two months, two requests of 1 and 2 for one sale, two months, two handlers; three rows together, one unit repaid by hand: the hazards are two handlers on one row, and a row against a payslip |
| `campaign` | one sender, truthful reports, managed images kept, what is due is dispatched, and the dispatch implements `CampaignOnce` | two campaigns (a second one is needed for a tick to be blocked by the first, and for an occurrence next to its template), one employee, one image, a server, a scheduler, one crash |
| `people` | one pending correction a day, applied once; reviews charge once, a cancelled leave stays; manual punches outlive the automatic one; a balance without overlap is exact; the date-wise sheet comes to the days payroll pays, and attending one more date never lowers the salary | two handlers, two days, two leaves (one and two days), two corrections, two attendance rows, three days used. Salaries: a basis of 3 days with months of 2, 3 and 4, so that months are short, even and long; one paid leave; salaries of 100 and 101, so that a third of them rounds down and up; a second row only of the second date, and the date attended in addition is sought while the two loops agree; the proofs have no such bounds |
| `webhooks` | the ledger explains every line, refunds stay within their sale, exchanges are whole, revisions advance; wallets follow the commission rows, an event applies once, frozen rows stay | projection: a sale of three units with a second line, an older, a conflicting and an untimed revision, two refunds of which one grows and is cancelled, an exchange, an unsupported log; two of its logs received at any time and taken by two workers, or four by one worker, where a log is received when those before it were taken (late and repeated revisions arrive in either). Invoice: two salesmen, an event delivered twice, an update, a cancellation, an event without id; three deliveries, two at a time and one settlement at a time, or two with administrators and lines that fail |
| `sales_sync_race`, `checkout_tender`, `payroll_unpaid_rkd`, `leave_punch` | each finds what section 5 describes | the smallest instance that shows it |

**Fairness.** `checkout`: weak fairness of `Serve(c)` for every call, i.e. a
server process that is up keeps working on a call it has accepted, and the
database answers its statements. Nothing is assumed of the client (`Call`), of
crashes, or of one outcome of a statement over another: conflicts and timeouts
may happen at every turn. A call that waits for the lock of another is not left
disabled for ever, because its own 20 s timeout stays possible; what ends the
retries is the count. `campaign`: weak fairness of `Dispatch(h)` (a handler that
runs goes on), `Tick(h)` (the scheduler's interval fires again and again),
`BecomesDue` and `LockGetsStale` (time passes). No administrator's step and no
outcome of a push is assumed. The other runs check safety only.

## 4. Proofs

All proofs are for arbitrary constants under the named assumptions of the
modules (documents of different kinds differ, calls tender at least the bill,
amounts are positive, payloads are normalised, a missing row is no row), and
none assumes how many stores, documents, employees, handlers or crashes there
are.

`SumLemmas`

- Balances, drawers, refunds and wallets are sums over rows, of which there is no
  bound. `SumWith`: a sum over a finite set (`SumFunctionOnSet` of the library) is
  the sum without an element and that element. The fold behind it takes its
  elements in an order of its own, so that this needs an induction over the number
  of elements; it is made with the library's well-founded order of the naturals
  and the existence of a least counterexample (`CountingUp`), which names sets and
  not predicates. The others follow: one value changes, all are zero, all are
  natural numbers, one sum is below another, sums of two functions.

`POSCounter_proofs`, stock

- `StockTypes`: `StockSpec => []StockTypeOK`. That balances stay natural
  numbers is the content: the type invariant is inductive because `Movement` is
  guarded by `Covers`.
- `BalancesAreExplained`, `ReferencesApplyOnce`, `TransfersMoveOnce`,
  `OpeningBookedOnce`: what the `counter` run checks of stock, and that opening
  stock is booked once. The facts about one call
  of `movement()` (what it does to balances, sums per place and sums per
  reference) are lemmas that every action cites; the properties are then proved
  action by action. The second and third need that documents of different kinds
  differ, so that a movement under one reference leaves the sums of the others
  alone. The last is not inductive:
  whether an opening was booked must be visible in the rows `adjust` counts. The
  strengthening `RowsRemember` says that a place with an audited adjustment or
  an opening by `CreateProduct` has rows, and that variants that do not exist
  have none and are in no transfer; with it, `FirstMovement` excludes a second
  opening.

`POSTill_proofs`, checkout

- `SaleBookedOnce`, `SnapshotsTellTheTruth`: from an inductive invariant that
  says that a call which is not done has no answer, that a committed call left
  its own content in the sale, that a snapshot holds nothing or the one sale,
  and that the sale is booked exactly when it exists. It says nothing of the
  advisory lock: the unique index carries the proof, the lock only spares work.
- `CheckoutKeepsPromise`: `Spec => KeepsPromise`, the refinement, for any number
  of calls, attempts and crashes. Under the invariant every step is a `Sell`
  (`Commit`), an `Answer` (every `Reply`) or a stutter; `Acknowledge` is the case
  that needs the invariant, since its truth rests on the sale still being the
  one this call committed.
- `OnlyRetriesForgetTender`: the audit row records the tender of the call that made
  the sale, or the bill if the call was retried. What section 5 describes is thus
  the only way to lose the tender. Inductive with what is known of each call's
  payment (`PaymentFits`): it is the tender until the first attempt has priced it.

`POSTill_proofs`, bills

- `BillsAddUp`: `BillSpec => []BillAddsUp`, for any number of lines and any prices,
  discounts and rates. The folds of `billTotals` take the greatest of a set of
  positions, so that over the first k + 1 lines they are those over the first k and one
  step (`SumsStep`, `AllocatesStep`); induction is over k. The invariant of the
  allocation loop is that what remains of the discount is at most what the lines to
  come are worth (`AllocateLine`): a rounded share neither exceeds its line nor leaves
  more than the other lines can take (`ProportionalShare`), so nothing remains after
  the last.
- `RefundsAddUp`: `BillSpec => []RefundsTelescope`; each refund is the difference of two
  cumulative shares, and the share of some units is natural, at most the total, and
  the total once all are back (`ShareOfUnits`).

`POSCounter_proofs`, registers

- `DrawersAreNotShared`, `RegistersAreNotDuplicated`: both are inductive once the
  tables are known to be functions. Two lemmas say what `CreateSession` and
  `CreateRegister` do; each opening handler is one or both of them. It is proved of
  registers with cash that only movements change.

`POSCounter_proofs`, the counter: bills, returns, drawers and commission over stock
and registers, i.e. the properties of the `sales` run

- Every handler of the counter is first reduced to what it leaves behind
  (`Effects`: a bill made, units returned, a refund, bills voided, one deleted, some
  cleared, a reconciliation, or a step of one component). `CounterInvariant`: the
  types, the invariant of the registers, no more units of a line back than sold,
  and that only finitely many rows exist at a time (`FiniteRows`), without which
  sums over all rows would say nothing. What follows is proved over `Effects`.
- `SnapshotInvariant`, `SnapshotsFinal`: a row of commission was made for the units
  its bill sold, and never reverses more than it earned (`RowsFit`); what a
  synchronisation has read is of a bill that exists (`SyncedBills`), so that its
  write, however late, books a row once.
- `CommissionParted`: what a bill earned follows its status and its units through
  every step, except one: a synchronisation that writes the first row of a bill
  returned or cancelled since the bill was read. That a bill still `COMPLETED` has
  nothing back, so that every other first row is right, is a matter of
  `BillsInvariant`. `CommissionFollows` is `CommissionFollowsBill` where that step
  cannot happen (`SyncJobs = {}`); with it the run `sales_sync_race` finds it
  violated (section 5).
- `DrawersCovered`, `ClosedSessionsKept`: how much a step changes the drawer of
  a session (`Receipts`, a difference of two sums, and the movements), one step of
  the counter at a time.
- `ReturnsMatch`: not inductive, for the amount of a refund is a difference of
  cumulative shares. What was refunded of a bill is the sum of the shares of the
  units that are back (`Settled`, with `SoFar`), whatever the returns were; the
  shares of all units are the total, and the status follows the quantities
  (`StatusFits`). A return is of a bill that exists (`ReturnsOwned`).
- `EveryBillLivesOnce`: each bill implements `POSBillLife`, with the units that are
  back and the money refunded read off its return rows (`Paper`). `BillsInvariant`
  says what the rows come to (`PaperIs`); every effect of a step is then one action
  of the abstract bill or a stutter, steps on other bills included. The guard of
  `Refund`, nothing back, is the one `CancelWithRefund` states. The instance takes
  the bill as a parameter, so the refinement is proved for each and not a property
  of a run.
- `StockFollows`: what the movement rows of a bill and of each of its returns
  say is a matter of the bill's status, lines and stock conditions (`MovesFollow`);
  the sum over the returns is then a sum of quantities, which `ReturnsMatch` knows.
  Balances differ from rows by the restored bills, one of which a deletion adds
  (`LedgerFollows`, `DeletedStay`).
- Assumed: the catalogue is finite, and ids of bills and of returns differ. They
  key the movement rows and are cuids of two tables.

`POSWork_proofs`

- `WorkTypes`, `EditsAreNotLost`, `SettledStaysSettled`, `BreaksKeepBills`,
  `SalesAreAsShown`. A draft changes in three ways only (`Wrote`, `Resumed`,
  `Sold`), to which every action is reduced first. The invariant adds to the
  types: a view that has the current revision of a draft shows what is saved in
  it (`Faithful`; this is why comparing revisions is enough, and it rests on
  revisions growing with every write but archiving, which keeps the bill); an open
  break's draft is `ON_BREAK` and has no other open break (`Held`; this is why a
  late resume cannot reopen a sold bill); a sale that has begun saw an active draft
  (`Begun`; together with `SameRow`, the conflict detection of the database, this
  makes the snapshot as good as the current row).

`HRPayroll_proofs`

- `AdvancesClose`, `WalletIsExplained`: the invariant carries the books through
  what handlers have read: a repayment or recovery that has been computed closes
  the books of its advance whenever it is written, however stale (`Pending`).
- `CreditsMatch`, `CreditsAreFinal`, `CreditsComeWithTheirMoney`: every action
  that writes a request either leaves credited ones alone or is the saving of
  their payslip, which re-reads and compares before it credits.
- `DeductionsRecoveredOnce`: a payment that has claimed its payslip keeps it
  approved and other payments out (`Claims`).

`Campaign_proofs`

- `OneSenderEver`: every campaign with a sender is taken, no two senders have one
  campaign, and a sender before its push has pushed nobody (`Senders`); all
  changes of a row are reduced to being born, kept, deleted, claimed or closed.
- `DispatchImplementsOnce`: under that invariant every step is one of
  `CampaignOnce` or a stutter: initial state and steps, for any number of
  campaigns, servers, schedulers and crashes. The abstract fairness stays with
  TLC.
- `ReportsAreTrue`: `NotesInvariant` says of a dispatch at each of its statements whose
  notifications exist and what they say (`Stage`), and of every campaign that its
  status tells them (`Reported`); the lock of `OneSenderEver` keeps others from
  writing them. A missing notification is none of its rows (`NoNoteAssumption`).
- `AdminImagesKept`: about the asset row, the object in storage and the handler that
  uploads, edits or collects between them.

`People_proofs`, attendance and corrections

- `CorrectionsApplyOnce`: who is about to create a request holds the lock of the
  day and has seen none pending (`LockHeld`, `NoneYet`), so at most one is
  pending; that it is applied once rests on the compare-and-set of the review.
  `ManualPunchStays` and `CancelledStays` are
  facts about every way a row or a leave changes; the second needs that no review
  works on a leave it has read as cancelled.

`People_proofs`, balances

- `ReviewsCharge`: what the reviews of a leave have posted, and what handlers that
  claimed it are still to post, add up to what its status costs. The second part is
  a sum over handlers, of which only finitely many can have claimed a leave
  (`Finite`): nothing is assumed of `Handlers`. A review that claims has read
  another status than it writes (`Reviewers`), so it owes the difference.
- `CalmBalances`: while nobody has overlapped, what a handler has read of a leave
  or of the balance is still so, and the balance lacks at most what that handler
  is to charge (`CalmNow`).

`Webhooks_proofs`, projection

- `LedgerExplains`, `RevisionsAdvance`: the invariant is about two copies of the
  tables, committed and as the lock's holder sees them. They agree while nobody
  holds the lock; in each the ledger explains the lines, refunds belong to lines
  that exist, and a cancelled document and its refunds are worth nothing; what
  the second has changed belongs to documents that advance or to the one being
  applied.
- `ExchangesStayWhole`: what a log's transaction has applied is what precedes the
  document it is at (`Wholeness`). Assumed (`Together`): logs that share a document
  have the same documents. The run's logs do. A return that also comes by
  itself is applied by itself, and neither speaks of it.
- `RefundsStayWithin`: of the refunds of a line, revised and cancelled ones among
  them, the amounts taken back are kept within what the sale earned in both copies
  (`Tallies`), line by line as they are written: the new amount is capped by what the
  sum over the other refunds leaves.
- Assumed of payloads besides their normal form: the content of a log is a finite
  sequence.

`Webhooks_proofs`, invoices

- `InvoiceInvariant`: a delivery that is about to apply holds the lock, and the rows
  are as it has read them (`ReadUnderLock`; reviews and settlements write rows only
  while no delivery holds them); whoever is past the insertion has a log row, and no
  two rows are of one event (`LoggedOnce`).
- `CreditsFollow`, `EventsOnce`, `SnapshotsKept` follow, for any salesmen, deliveries
  and crashes.

`People_proofs`, salary

- `SheetsReconcile`: while both loops have read the same evidence they put every
  date into the same bucket, or into two of the three that nobody is paid for
  (`Alike`): before joining, absent, to come. Credited days are then equal, and so
  is whether the month has a gap.
- `AttendanceIsPaid`: with one more date attended the counts of payroll are the
  same in a paid leave more or less that moved along the month, a date without
  pay less and one with pay more (`Ahead`); the rest is arithmetic of caps and
  rounding, which is monotone in the payable days, and of the split of the
  deduction, whose parts always add up to it.

Every safety invariant and action property of the passing runs is a theorem. Only
model-checked:

- What rests on fairness, which is out of the prover's reach: `EveryCallAnswered`,
  `DueDispatched`, and that campaigns close in `DispatchesOnce`.
- What a run finds violated.

## 5. Where code and documents disagree

Shown by a run:

1. **A retried checkout forgets what was tendered** (`checkout_tender`).
   `pos/service.ts:1359` overwrites `payments[0].amount` in the array all
   attempts share; after a conflict the retry takes the bill for the amount
   tendered. `docs/POS_REPORTING_AND_DISCOUNTS.md:31` promises tendered amount
   and change in the audit row.
2. **Synchronisation can book commission on a cancelled bill**
   (`sales_sync_race`): it reads the bill and writes the row without a lock
   (`pos/retailCommissions.ts:522`); `docs/POS_SUBCATEGORY_COMMISSION.md:23`.
3. **A request allocated to an approved payslip is never paid**
   (`payroll_unpaid_rkd`). The refresh leaves approved payslips alone, and the
   comparison before the payment (`payrollController.ts:900`) compares two readings
   of the same set, although its message says that such a payment is refused.
4. **A punch can be deleted** (`leave_punch`). A cancellation that found a row
   without punches deletes it by its id after the employee has punched in
   (`leaveCancellationService.ts:197` against the comment at 178).

Met while modelling, visible in the models but without a run of their own:

- **POS.** A purge deletes bills without closing their commission
  (`pos/service.ts:2741`; `docs/POS_SUBCATEGORY_COMMISSION.md:23`). A sale whose
  snapshot is older than the account lock can pass the account's first break
  (`pos/workSessions.ts:139`; `docs/POS_WORK_BREAKS.md:37`). Permanent deletion puts
  units back without a movement row (`pos/service.ts:2467`;
  `docs/POS_DELIVERY.md:10`); `OnlyDeletionEscapesLedger` states what is true
  instead. Voiding a cash bill takes its receipt out of the drawer computation
  without moving money (`DrawerNeverOverdrawn` names this exception). A late copy
  of the first save of a bill creates a fresh draft after the bill was sold.
- **Campaigns.** A birthday occurrence copies the image of its template without
  the image lock (`campaignScheduler.ts:74`). A process that stops after creating
  the occurrence of a day leaves a draft with the day's key that nothing sends.
- **Advances and payslips.** Two reviewers who both read PENDING approve an
  advance twice and pay it twice; the books of the advance still close, those of
  the payments do not. A paid payslip is rewritten by the refresh after a
  correction of attendance.
- **Salary.** Two rows of one date, which nothing prevents, are resolved by rank in
  payroll (`utils/attendanceSummary.ts:142`) and by order in the date-wise sheet
  (`dateWiseSalaryService.ts:251`, whose comment says "highest rank"); a leave row
  before joining whose leave is not approved is evidence in the sheet only. The
  sheet then shows other days than payroll pays and still says `reconciled: true`
  (line 677); `parted` names the two cases, and `SheetReconciles` says that there
  is no third. Since a month is worth 30 days, the first absence of a 31-day month
  costs nothing and the first of a 28-day month three days' pay. A half day
  worked on an approved paid leave pays half a day less than not coming, which is
  why `AttendingPays` speaks of whole days.
- **Leave.** A cancellation does not compare the status it has read: overlapping
  a review it restores the days twice or not at all, which is why the exact
  balance is stated for `calm` behaviours only. A rejection of an approved leave
  on the mobile and HR routes leaves its LEAVE rows. Two punches at once make two
  rows of one day.
- **Projection.** A worker that stops between the inbox row and its transaction
  leaves the log PENDING (`hrmCommission/projection.ts:114`): the worker looks for logs
  without a row (`projection.ts:140`) and the retry route for exceptions, while
  `docs/HRM_EXTERNAL_SUBCATEGORY_COMMISSION.md:29` says that only successful and
  unsupported receipts are final. A subcategory is also matched by its name
  (`hrmCommission/resolution.ts:13`, against the same document, line 13). The
  promise that "full returns reverse the exact original commission" (the document,
  line 35) holds of all units and not of all revenue: rounding goes to the refund that
  was written last (`hrmCommission/projection.ts:86`), so that with one paisa earned on
  four units worth three paise a credit note without revenue can reverse it; once that
  one is cancelled and the three paise are back, the paisa is not, until the fourth
  unit is returned.
- **Invoice webhooks.** A delivery with an event id that failed is answered as a
  duplicate when it is sent again, for its FAILED row counts
  (`webhookIdempotency.ts:64`), so does any event whose payload contains the id; any
  error of the insert is answered as a duplicate (`webhookController.ts:1677`);
  a genuine second update within 30 seconds is dropped (line 114 of the former).
  An approved salesman whom an update no longer names gets no REVIEW_REQUIRED
  entry (`webhookController.ts:843`; `docs/MOBILE_INVOICE_SUBCATEGORY_COMMISSION.md:45`).
  A rejection downgrades PAID (`commissionController.ts:1117`; the same document, line
  43). A settlement reads and marks in separate statements: what was rejected or
  settled meanwhile is marked PAID. A late active event revives a cancelled
  invoice. A line that fails drops its salesman, whose commission is then
  reversed.
- **Wallet.** Commission reads the balance and writes it absolutely, under a
  lock that advances and repayments, which increment, do not take
  (`utils/commissionHelper.ts:1829`; `docs/COMMISSION_OVERVIEW_RESTORE.md:17`), and a
  debit stops at zero. `CreditsFollowRows` is therefore about the transactions of
  the wallet, not its balance.

## 6. Not modelled

In the modelled parts:

- POS: exchange (a return and a checkout in one transaction), permission checks
  and administrators acting for others, deactivated registers, shift
  assignments, the return window, configuration of payment methods and
  discounts, the legacy `POSCommissionLine` rows of `pos/commissions.ts`,
  zero-amount commission rows. Checkout's idempotency key is not combined with
  the deletion of the sale.
- Payroll: late marks, overtime, shifts of a period, the approval of single extra
  dates, statutory and policy deductions, deleting payslips, the healing of legacy component rows, the commission-history rows of
  RKD requests.
- Leave and attendance: breaks, the correction of times by HR, balances entered
  by hand, `toggleLeaveDeduction`, the fiscal year, `autoApproveLeave` (no route
  calls it), summaries.
- Campaigns: audiences by rule (a set of employees stands for them), analytics.
- Projection: the enabled switch, effective dates of rates and the resolution of
  subcategories (a rate is configured once), reports, the other configuration
  routes.
- Invoices: credit notes, exchanges and employee webhooks of the old pipeline,
  monthly totals, transactions entered by hand, employees and stores found in
  free-form payloads, negative shares (lines marked old), the wallet balance.

Not modelled at all: user sessions and device tokens (rows rotated by single
statements); expenses, tasks, assets, projects, roles, employees and stores
(record keeping without a protocol between rows); reports, exports and
dashboards (they only read, and are the largest part of the source by far);
live tracking, geofence, websocket and push (network output); wording and
layout of everything. The share of the source lines the modules stand for is
bounded by that: the protocols are in a few of the files.

## 7. What is left

In the order in which it would add most:

1. The wallet balance as the place where advances (`HRPayroll`) and commission
   (`HRInvoice`) meet, with the lost update of section 5 as a run.
2. Exchange in `POSSales`; deletion in `POSCheckout`.
3. Credit notes and exchanges of the invoice pipeline, against the projection
   of the same events: the two should agree on what an employee earned.
4. Breaks and the correction of times in `HRAttendance`.
5. User sessions under concurrent refreshes.
