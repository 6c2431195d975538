------------------------------ MODULE HRInvoice ------------------------------
(***************************************************************************)
(* The webhooks of one invoice of the external shop, from their delivery   *)
(* to the commission of its salesmen and the transactions of their wallets *)
(* (webhookController, webhookIdempotency), with the administrators'       *)
(* reviews, reconciliation and settlements of the same rows.               *)
(*                                                                         *)
(* A delivery is a request of its own; several may deliver one event. What *)
(* Prisma sends as one statement, or as one transaction whose rows are     *)
(* locked before they are read, is one step. Wallets are kept as the sum   *)
(* of their commission transactions. The raw log, the monthly totals and   *)
(* the notifications that follow a delivery are left out, and so are the   *)
(* rows of credit notes and exchanges, which have bill ids of their own.   *)
(***************************************************************************)
EXTENDS Integers, Sequences, FiniteSets, Functions

CONSTANTS
    Deliveries,
    Payload,      \* Payload[d]: what delivery d says
    Employees,
    Rate,         \* commission of a unit sold
    NoId, NoDelivery

\* An invoice: what each of its salesmen, finitely many, sold; no share is negative.
Event(p) ==
    /\ p.type \in {"INVOICE_CREATED", "INVOICE_UPDATED"}
    /\ p.cancelled \in BOOLEAN
    /\ DOMAIN p.share \subseteq Employees /\ DOMAIN p.share # {} /\ IsFiniteSet(DOMAIN p.share)
    /\ \A e \in DOMAIN p.share : p.share[e] \in Nat /\ p.share[e] > 0

ASSUME InvoiceAssumption ==
    /\ \A d \in Deliveries : Event(Payload[d])
    /\ \A c, d \in Deliveries : Payload[c].id = Payload[d].id /\ Payload[c].id # NoId => Payload[c] = Payload[d]
    /\ Rate \in Nat /\ NoDelivery \notin Deliveries

VARIABLES
    log,          \* WebhookLog, oldest first: [of |-> delivery, status]
    aged,         \* how many of its rows are older than 30 seconds
    configured,   \* whether the products have a rate
    commission,   \* the CommissionTransaction of each employee
    credited,     \* their wallet's commission transactions, credits less debits
    review,       \* the REVIEW_REQUIRED entries of CommissionHistory
    invoiceLock,  \* the delivery whose transaction holds the bill and its rows
    delivery,     \* where each delivery is
    settling      \* by employee, the row a settlement has read

rows == <<commission, credited, review>>
invoiceVars == <<log, aged, configured, rows, invoiceLock, delivery, settling>>

NoTransaction == [status |-> "none", com |-> 0, sale |-> 0, paid |-> FALSE]

InvoiceInit ==
    /\ log = <<>> /\ aged = 0
    /\ configured \in BOOLEAN
    /\ commission = [e \in Employees |-> NoTransaction]
    /\ credited = [e \in Employees |-> 0]
    /\ review = {}
    /\ invoiceLock = NoDelivery
    /\ delivery = [d \in Deliveries |-> [at |-> "out", applied |-> FALSE]]
    /\ settling = [e \in Employees |-> FALSE]

Move(d, place) == delivery' = [delivery EXCEPT ![d].at = place]

-----------------------------------------------------------------------------
(* executeWebhookPipeline *)

\* The raw copy comes first; whether it is stored does not matter here.
Deliver(d) ==
    /\ delivery[d].at = "out"
    /\ Move(d, "check")
    /\ UNCHANGED <<log, aged, configured, rows, invoiceLock, settling>>

\* checkWebhookIdempotency: a row of the same event, however it ended; or one
\* of the same content and not failed; or a success within 30 seconds.
Duplicate(d) ==
    \E n \in DOMAIN log :
        LET p == Payload[log[n].of] IN
        \/ p.id = Payload[d].id /\ p.id # NoId
        \/ p = Payload[d] /\ log[n].status # "FAILED"
        \/ p.type = Payload[d].type /\ log[n].status = "SUCCESS" /\ n > aged

CheckDelivery(d) ==
    /\ delivery[d].at = "check"
    /\ Move(d, IF Duplicate(d) THEN "done" ELSE "insert")
    /\ UNCHANGED <<log, aged, configured, rows, invoiceLock, settling>>

NeverRefused(d) == d \in Deliveries   \* mutation

\* WebhookLog.eventId is unique, where there is one.
Unlogged(d) ==
    \A n \in DOMAIN log : Payload[d].id = NoId \/ Payload[log[n].of].id # Payload[d].id

InsertLog(d) ==
    /\ delivery[d].at = "insert"
    /\ Unlogged(d)
    /\ log' = Append(log, [of |-> d, status |-> "PROCESSING"])
    /\ Move(d, "calculate")
    /\ UNCHANGED <<aged, configured, rows, invoiceLock, settling>>

\* Any error of the insert is answered as a duplicate.
RefuseLog(d) ==
    /\ delivery[d].at = "insert"
    /\ Move(d, "done")
    /\ UNCHANGED <<log, aged, configured, rows, invoiceLock, settling>>

Logged(d, status) ==
    log' = [n \in DOMAIN log |-> IF log[n].of = d THEN [log[n] EXCEPT !.status = status] ELSE log[n]]

Release(d) == invoiceLock' = IF invoiceLock = d THEN NoDelivery ELSE invoiceLock

\* The catch block: the transaction is rolled back, the row says so.
FailDelivery(d) ==
    /\ delivery[d].at \in {"calculate", "lock", "apply"}
    /\ Logged(d, "FAILED")
    /\ Release(d)
    /\ Move(d, "done")
    /\ UNCHANGED <<aged, configured, rows, settling>>

\* An error of this update is ignored.
CompleteLog(d) ==
    /\ delivery[d].at = "complete"
    /\ Logged(d, "SUCCESS") \/ UNCHANGED log
    /\ Move(d, "done")
    /\ UNCHANGED <<aged, configured, rows, invoiceLock, settling>>

CrashDelivery(d) ==
    /\ delivery[d].at \notin {"out", "done"}
    /\ Release(d)
    /\ Move(d, "done")
    /\ UNCHANGED <<log, aged, configured, rows, settling>>

WindowPasses ==
    /\ aged # Len(log)
    /\ aged' = Len(log)
    /\ UNCHANGED <<log, configured, rows, invoiceLock, delivery, settling>>

Configure ==
    /\ ~configured
    /\ configured' = TRUE
    /\ UNCHANGED <<log, aged, rows, invoiceLock, delivery, settling>>

-----------------------------------------------------------------------------
(* processInvoiceInternal *)

\* groupAndCalculateCommissionBySalesman, before the transaction: a line whose
\* salesman or product causes an error is left out.
Calculate(d) ==
    /\ delivery[d].at = "calculate"
    /\ \E S \in SUBSET DOMAIN Payload[d].share :
         delivery' = [delivery EXCEPT ![d] =
             [at |-> "lock", applied |-> FALSE, complete |-> configured,
              share |-> [e \in S |-> Payload[d].share[e]]]]
    /\ UNCHANGED <<log, aged, configured, rows, invoiceLock, settling>>

\* The lock of the bill, then the rows FOR UPDATE, then what they say.
LockInvoice(d) ==
    /\ delivery[d].at = "lock"
    /\ invoiceLock = NoDelivery
    /\ invoiceLock' = d
    /\ delivery' = [delivery EXCEPT ![d] =
         [at |-> "apply", applied |-> FALSE, complete |-> @.complete, share |-> @.share, seen |-> commission]]
    /\ UNCHANGED <<log, aged, configured, rows, settling>>

FrozenUnlessPaid(t) == t.status = "APPROVED"   \* mutation

Frozen(t) == t.status \in {"APPROVED", "PAID"}

\* What the invoice makes of the transaction t of employee e: of a salesman it
\* names and of one it names no longer.
Named(d, e, t) ==
    LET sale == IF Payload[d].cancelled THEN 0 ELSE delivery[d].share[e]
    IN [status |-> IF Payload[d].cancelled THEN "REJECTED"
                   ELSE IF delivery[d].complete THEN "APPROVED" ELSE "PENDING",
        sale |-> sale,
        com |-> IF delivery[d].complete THEN Rate * sale ELSE 0,
        paid |-> t.paid]

Removed(t) == [t EXCEPT !.status = "REJECTED", !.sale = 0, !.com = 0]

Revised(d, e) ==
    LET t == delivery[d].seen[e] IN
    IF Frozen(t) /\ ~Payload[d].cancelled THEN t
    ELSE IF e \in DOMAIN delivery[d].share THEN Named(d, e, t)
    ELSE IF t.com > 0 \/ t.sale > 0 THEN Removed(t)
    ELSE t

\* A frozen row that the invoice would change is put up for review.
Differing(d) ==
    {e \in DOMAIN delivery[d].share :
        LET t == delivery[d].seen[e]
            new == Named(d, e, t)
        IN Frozen(t) /\ ~Payload[d].cancelled /\ (new.com # t.com \/ new.sale # t.sale)}

\* updateEmployeeWalletCommission: a credit or a debit of the difference.
Credited(e, t, com) == credited[e] + com - t.com

\* Rows, wallets and history commit together.
ApplyInvoice(d) ==
    /\ delivery[d].at = "apply"
    /\ LET changed == {e \in Employees : Revised(d, e) # delivery[d].seen[e]}
       IN /\ commission' = [e \in Employees |-> IF e \in changed THEN Revised(d, e) ELSE commission[e]]
          /\ credited' = [e \in Employees |->
               IF e \in changed THEN Credited(e, delivery[d].seen[e], Revised(d, e).com) ELSE credited[e]]
    /\ review' = review \cup {<<e, Payload[d].id>> : e \in Differing(d)}
    /\ invoiceLock' = NoDelivery
    /\ delivery' = [delivery EXCEPT ![d] = [at |-> "complete", applied |-> TRUE]]
    /\ UNCHANGED <<log, aged, configured, settling>>

-----------------------------------------------------------------------------
(* Administrators *)

UnlockedAnyway == invoiceLock \in Deliveries \cup {NoDelivery}   \* mutation

\* No transaction of a delivery holds the rows.
Unlocked == invoiceLock = NoDelivery

Latest == Payload[log[Len(log)].of]

\* prepareInvoiceApproval: the whole of the latest payload of the bill goes to
\* one employee, nothing of a cancelled one; no other may have a row.
Approvable(e) ==
    /\ log # <<>>
    /\ configured \/ Latest.cancelled
    /\ \A f \in Employees \ {e} : commission[f].status = "none"

WholeInvoice ==
    IF Latest.cancelled THEN 0
    ELSE Rate * SumFunction(Latest.share)

\* approveCommissionTransaction and, of what is PENDING,
\* reconcilePendingInvoiceCommissions.
ApproveCommission(e) ==
    /\ Unlocked
    /\ commission[e].status # "none" /\ ~Frozen(commission[e])
    /\ Approvable(e)
    /\ commission' = [commission EXCEPT ![e].status = "APPROVED", ![e].com = WholeInvoice]
    /\ credited' = [credited EXCEPT ![e] = Credited(e, commission[e], WholeInvoice)]
    /\ UNCHANGED <<log, aged, configured, review, invoiceLock, delivery, settling>>

\* rejectCommissionTransaction: whatever the status is, and nothing but it.
RejectCommission(e) ==
    /\ Unlocked
    /\ commission[e].status \notin {"none", "REJECTED"}
    /\ commission' = [commission EXCEPT ![e].status = "REJECTED"]
    /\ UNCHANGED <<log, aged, configured, credited, review, invoiceLock, delivery, settling>>

\* createCommissionSettlement: what was APPROVED and unpaid when it was read is
\* PAID, whatever it is now.
SettleRead(e) ==
    /\ commission[e].status = "APPROVED" /\ ~commission[e].paid
    /\ ~settling[e]
    /\ settling' = [settling EXCEPT ![e] = TRUE]
    /\ UNCHANGED <<log, aged, configured, rows, invoiceLock, delivery>>

SettleWrite(e) ==
    /\ Unlocked
    /\ settling[e]
    /\ settling' = [settling EXCEPT ![e] = FALSE]
    /\ commission' = [commission EXCEPT ![e].status = "PAID", ![e].paid = TRUE]
    /\ UNCHANGED <<log, aged, configured, credited, review, invoiceLock, delivery>>

-----------------------------------------------------------------------------
InvoiceNext ==
    \/ \E d \in Deliveries :
         \/ Deliver(d) \/ CheckDelivery(d) \/ InsertLog(d) \/ RefuseLog(d)
         \/ Calculate(d) \/ LockInvoice(d) \/ ApplyInvoice(d)
         \/ CompleteLog(d) \/ FailDelivery(d) \/ CrashDelivery(d)
    \/ \E e \in Employees :
         ApproveCommission(e) \/ RejectCommission(e) \/ SettleRead(e) \/ SettleWrite(e)
    \/ WindowPasses \/ Configure

InvoiceSpec == InvoiceInit /\ [][InvoiceNext]_invoiceVars

-----------------------------------------------------------------------------
(* What must hold *)

\* "Re-processing the same webhook produces zero net wallet change", and so does
\* whatever else happens to an invoice: what its commission transactions put into
\* a wallet is what they say now.
CreditsFollowRows ==
    \A e \in Employees : credited[e] = commission[e].com

\* Deliveries "preserve approved/paid monetary snapshots, and record REVIEW_REQUIRED
\* history when amounts differ": only the cancellation of the invoice changes what
\* was approved, although a delivery calculates and locks at different times.
SnapshotsPreserved ==
    [][\A d \in Deliveries : ~delivery[d].applied /\ delivery'[d].applied /\ ~Payload[d].cancelled =>
         \A e \in Employees : commission[e].status \in {"APPROVED", "PAID"} =>
            /\ commission'[e] = commission[e]
            /\ LET sale == delivery[d].share[e] IN
               e \in DOMAIN delivery[d].share
                 /\ (sale # commission[e].sale
                       \/ commission[e].com # (IF delivery[d].complete THEN Rate * sale ELSE 0))
               => <<e, Payload[d].id>> \in review']_invoiceVars

\* An event is applied once, however often and however concurrently it is delivered.
EventAppliedOnce ==
    \A c, d \in Deliveries :
        delivery[c].applied /\ delivery[d].applied /\ Payload[c].id = Payload[d].id /\ Payload[c].id # NoId
        => c = d
=============================================================================
