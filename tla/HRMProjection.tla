---------------------------- MODULE HRMProjection ----------------------------
(***************************************************************************)
(* The projection of stored sales webhooks to subcategory commission       *)
(* (src/hrmCommission): documents with their lines, and the ledger that    *)
(* explains them, for one store: its advisory lock, its documents and the  *)
(* references between them are the store's own.                            *)
(*                                                                         *)
(* A log is one or two normalized documents: an exchange is a return and a *)
(* sale. The transaction of a log is taken statement by statement on a     *)
(* copy of the tables that its commit installs; the lock lets one          *)
(* transaction at a time work on them. Receipts are taken in any order,    *)
(* for logs are received in any order. Amounts are in paise.               *)
(***************************************************************************)
EXTENDS Integers, Sequences, FiniteSets, Functions

CONSTANTS
    Logs,          \* rows of HopkidWebhookLog
    Content,       \* Content[l]: the normalized documents of log l
    Unsupported,   \* logs of an event that is no document
    Sales, Refunds, \* keys of documents (storeId:kind:externalId)
    Items,         \* external line ids
    Policies,      \* rates that may apply to a new line
    Workers,       \* cron workers and administrators' requests
    NoPolicy, NoLine, NoWorker,
    NoAmount       \* a refund line that says its quantity only

Docs == Sales \cup Refunds
Lines == Docs \X Items

Policy == [type : {"PERCENTAGE", "UNIT", "LINE"}, rate : Nat]

\* What normalizeDocuments lets pass: a cancelled document has no lines, a line
\* has units, and an amount or, in a refund, the sale line it takes back.
Normalized(d) ==
    /\ d.key \in Docs /\ d.at \in Nat
    /\ DOMAIN d.lines \subseteq Items
    /\ d.cancelled <=> DOMAIN d.lines = {}
    /\ \A i \in DOMAIN d.lines :
         LET s == d.lines[i] IN
         /\ s.qty \in Nat /\ s.qty > 0
         /\ IF d.key \in Sales THEN s.rev \in Nat /\ s.of = NoLine
            ELSE s.rev \in Nat \cup {NoAmount} /\ s.of \in Sales \X Items

ASSUME ProjectionAssumption ==
    /\ \A l \in Logs : Content[l] \in Seq(Range(Content[l]))
    /\ \A l \in Logs : \A n \in 1 .. Len(Content[l]) : Normalized(Content[l][n])
    /\ Sales \cap Refunds = {}
    /\ Policies \subseteq Policy /\ NoPolicy \notin Policy
    /\ NoLine \notin Lines /\ NoAmount \notin Nat /\ NoWorker \notin Workers
    /\ Unsupported \subseteq Logs

VARIABLES
    inbox,    \* HrmCommissionInbox by log; "absent" and "received" precede its row
    book,     \* documents, lines, ledger and events, as committed
    work,     \* the same, as the transaction that holds the lock sees them
    holder,   \* who holds the advisory lock of the store
    policy,   \* the version of the rate in effect at the sales' date
    batch,    \* the logs each worker has found and not yet taken
    task      \* where each worker is

tables == <<book, work, holder>>
projectionVars == <<inbox, tables, policy, batch, task>>

\* A document of version 0 has no timestamp. A ledger entry is the sum of the
\* rows of a line. `of` is the sale line that a refund line takes back. A line
\* that exists has a policy.
NoRow == [qty |-> 0, rev |-> 0, com |-> 0, policy |-> NoPolicy, of |-> NoLine]
EmptyBook ==
    [doc |-> [k \in Docs |-> [status |-> "none", at |-> 0]],
     line |-> [x \in Lines |-> NoRow],
     ledger |-> [x \in Lines |-> [qty |-> 0, rev |-> 0, com |-> 0]],
     events |-> {}]

Idle == [at |-> "idle"]

ProjectionInit ==
    /\ inbox = [l \in Logs |-> "absent"]
    /\ book = EmptyBook
    /\ work = EmptyBook
    /\ holder = NoWorker
    /\ policy \in Policies \cup {NoPolicy}
    /\ batch = [h \in Workers |-> {}]
    /\ task = [h \in Workers |-> Idle]

Goto(h, t) == task' = [task EXCEPT ![h] = t]

\* money: two decimals, half up.
Money(n, d) == (2 * n + d) \div (2 * d)

Earning(rev, qty, p) ==
    IF rev = 0 THEN 0
    ELSE CASE p.type = "PERCENTAGE" -> Money(rev * p.rate, 100)
           [] p.type = "UNIT" -> p.rate * qty
           [] p.type = "LINE" -> p.rate

-----------------------------------------------------------------------------
(* What arrives and is configured *)

\* The webhook handlers store what they receive.
Receive(l) ==
    /\ inbox[l] = "absent"
    /\ inbox' = [inbox EXCEPT ![l] = "received"]
    /\ UNCHANGED <<tables, policy, batch, task>>

\* Versions of a rate are appended, and may be effective at a past date.
ConfigureRate(p) ==
    /\ policy # p
    /\ policy' = p
    /\ UNCHANGED <<inbox, tables, batch, task>>

-----------------------------------------------------------------------------
(* processStoredLog *)

\* projectStoredHopkidLogs finds the logs without a row in the inbox, and works
\* on them one by one.
FindLogs(h) ==
    /\ task[h] = Idle /\ batch[h] = {}
    /\ batch' = [batch EXCEPT ![h] = {l \in Logs : inbox[l] = "received"}]
    /\ UNCHANGED <<inbox, tables, policy, task>>

TakeLog(h, l) ==
    /\ task[h] = Idle /\ l \in batch[h]
    /\ batch' = [batch EXCEPT ![h] = @ \ {l}]
    /\ Goto(h, [at |-> "open", log |-> l])
    /\ UNCHANGED <<inbox, tables, policy>>

\* An administrator retries what is held as an exception.
RetryException(h, l) ==
    /\ task[h] = Idle /\ batch[h] = {}
    /\ inbox[l] = "EXCEPTION"
    /\ Goto(h, [at |-> "open", log |-> l])
    /\ UNCHANGED <<inbox, tables, policy, batch>>

\* The row of the inbox is upserted; a log that is settled is left alone.
OpenInbox(h) ==
    LET l == task[h].log IN
    /\ task[h].at = "open"
    /\ IF inbox[l] \in {"PROCESSED", "IGNORED"}
       THEN UNCHANGED inbox /\ Goto(h, Idle)
       ELSE /\ inbox' = [inbox EXCEPT ![l] = IF @ = "EXCEPTION" THEN @ ELSE "PENDING"]
            /\ Goto(h, [at |-> IF l \in Unsupported \/ Content[l] = <<>> THEN "failed" ELSE "begin",
                        log |-> l])
    /\ UNCHANGED <<tables, policy, batch>>

\* The lock of the store comes first; what follows reads what is committed.
Begin(h) ==
    /\ task[h].at = "begin"
    /\ holder = NoWorker
    /\ holder' = h
    /\ work' = book
    /\ Goto(h, [at |-> "document", log |-> task[h].log, n |-> 1])
    /\ UNCHANGED <<inbox, book, policy, batch>>

\* requireValue, a constraint, the timeout of the transaction, also while it waits
\* for the lock: it is rolled back.
RollBack(h) ==
    IF holder = h THEN holder' = NoWorker /\ work' = book ELSE UNCHANGED <<holder, work>>

Abort(h) ==
    /\ task[h].at \in {"begin", "document", "lines"}
    /\ RollBack(h)
    /\ Goto(h, [at |-> "failed", log |-> task[h].log])
    /\ UNCHANGED <<inbox, book, policy, batch>>

\* The catch block, after the transaction.
Settle(h) ==
    LET l == task[h].log IN
    /\ task[h].at = "failed"
    /\ inbox' = [inbox EXCEPT ![l] = IF l \in Unsupported THEN "IGNORED" ELSE "EXCEPTION"]
    /\ Goto(h, Idle)
    /\ UNCHANGED <<tables, policy, batch>>

-----------------------------------------------------------------------------
(* applyDocument *)

Doc(h) == Content[task[h].log][task[h].n]
NextDoc(h) == Goto(h, [at |-> "document", log |-> task[h].log, n |-> task[h].n + 1])

Stored(b, x) == b.line[x].policy # NoPolicy
LinesOf(b, k) == {x \in Lines : x[1] = k /\ Stored(b, x)}
RefundsOf(b, x) == {y \in Lines : b.line[y].of = x}

Superseded(b, d) == d.at # 0 /\ b.doc[d.key].at # 0 /\ d.at < b.doc[d.key].at

\* Seen before, by its fingerprint, or older than what is there.
SkipDocument(h) ==
    /\ task[h].at = "document" /\ task[h].n <= Len(Content[task[h].log])
    /\ Doc(h) \in work.events \/ Superseded(work, Doc(h))
    /\ NextDoc(h)
    /\ UNCHANGED <<inbox, tables, policy, batch>>

AcceptableSameTime(b, d) ==   \* mutation
    LET known == b.doc[d.key] IN
    known.status = "none" \/ d.cancelled
        \/ (known.status # "CANCELLED" /\ (d.at # 0 /\ (known.at = 0 \/ d.at >= known.at)))

\* Only a cancellation applies to a cancelled document, and anything else needs
\* a newer timestamp than the document has.
Acceptable(b, d) ==
    LET known == b.doc[d.key] IN
    known.status = "none" \/ d.cancelled
        \/ (known.status # "CANCELLED" /\ (d.at # 0 /\ (known.at = 0 \/ d.at > known.at)))

OpenDocument(h) ==
    LET d == Doc(h) IN
    /\ task[h].at = "document" /\ task[h].n <= Len(Content[task[h].log])
    /\ d \notin work.events /\ ~Superseded(work, d)
    /\ Acceptable(work, d)
    /\ work' = [work EXCEPT
         !.doc[d.key] = IF @.status = "none"
                        THEN [status |-> IF d.cancelled THEN "CANCELLED" ELSE "ACTIVE", at |-> d.at]
                        ELSE @,
         !.events = @ \cup {d}]
    /\ Goto(h, [at |-> "lines", log |-> task[h].log, n |-> task[h].n,
                todo |-> DOMAIN d.lines,
                gone |-> {x \in LinesOf(work, d.key) : x[2] \notin DOMAIN d.lines}])
    /\ UNCHANGED <<inbox, book, holder, policy, batch>>

RecordedAs(k, b, x, row) ==   \* mutation
    LET old == b.line[x]
        sign == IF k \in Refunds THEN -1 ELSE 1
    IN [b EXCEPT
          !.line[x] = row,
          !.ledger[x] = [qty |-> @.qty + sign * (row.qty - old.qty), rev |-> @.rev + sign * (row.rev - old.rev),
                         com |-> @.com + sign * (row.com - old.com)]]

\* record: the line takes the new figures, the ledger the signed difference;
\* refund lines count negative, whichever document changes them (k).
Recorded(k, b, x, row) ==
    LET old == b.line[x]
        sign == IF x[1] \in Refunds THEN -1 ELSE 1
    IN [b EXCEPT
          !.line[x] = row,
          !.ledger[x] = [qty |-> @.qty + sign * (row.qty - old.qty), rev |-> @.rev + sign * (row.rev - old.rev),
                         com |-> @.com + sign * (row.com - old.com)]]

Emptied(l) == [qty |-> 0, rev |-> 0, com |-> 0, policy |-> l.policy, of |-> l.of]

\* What the refund lines S take back.
Taken(b, S) ==
    [qty |-> SumFunction([y \in S |-> b.line[y].qty]), rev |-> SumFunction([y \in S |-> b.line[y].rev]),
     com |-> SumFunction([y \in S |-> b.line[y].com])]

\* A line of a sale: a known one keeps its policy, and its figures while refunds
\* refer to it; a new one takes the policy in effect.
ApplySaleLine(h, i) ==
    LET d == Doc(h)
        x == <<d.key, i>>
        s == d.lines[i]
        old == work.line[x]
        p == IF Stored(work, x) THEN old.policy ELSE policy
        row == [qty |-> s.qty, rev |-> s.rev, com |-> Earning(s.rev, s.qty, p), policy |-> p, of |-> NoLine]
    IN
    /\ task[h].at = "lines" /\ i \in task[h].todo
    /\ d.key \in Sales
    /\ p # NoPolicy
    /\ (Stored(work, x) /\ (old.qty # s.qty \/ old.rev # s.rev)) =>
          \A y \in RefundsOf(work, x) : work.line[y].qty = 0
    /\ work' = Recorded(d.key, work, x, row)
    /\ Goto(h, [task[h] EXCEPT !.todo = @ \ {i}])
    /\ UNCHANGED <<inbox, book, holder, policy, batch>>

ShareAlone(orig, others, qty, rev) ==   \* mutation
    IF orig.policy.type # "PERCENTAGE" THEN Money(orig.com * qty, orig.qty)
    ELSE IF orig.rev = 0 THEN 0 ELSE Money(orig.com * rev, orig.rev)

\* What a refund takes back of the commission: the share of all refunds so far,
\* less what the others took.
ReversedShare(orig, others, qty, rev) ==
    (IF orig.policy.type # "PERCENTAGE" THEN Money(orig.com * (others.qty + qty), orig.qty)
     ELSE IF orig.rev = 0 THEN 0 ELSE Money(orig.com * (others.rev + rev), orig.rev))
    - others.com

\* A line of a refund: it refers to one line of an active sale, and all refunds
\* of that line stay within it.
ApplyRefundLine(h, i) ==
    LET d == Doc(h)
        x == <<d.key, i>>
        s == d.lines[i]
        orig == work.line[s.of]
        others == Taken(work, RefundsOf(work, s.of) \ {x})
        rev == IF s.rev = NoAmount THEN Money(orig.rev * s.qty, orig.qty) ELSE s.rev
        com == ReversedShare(orig, others, s.qty, rev)
        row == [qty |-> s.qty, rev |-> rev, com |-> com, policy |-> orig.policy, of |-> s.of]
    IN
    /\ task[h].at = "lines" /\ i \in task[h].todo
    /\ d.key \in Refunds
    /\ work.doc[s.of[1]].status = "ACTIVE" /\ Stored(work, s.of) /\ orig.qty > 0
    /\ Stored(work, x) => work.line[x].of = s.of
    /\ others.qty + s.qty <= orig.qty /\ others.rev + rev <= orig.rev
    /\ com \in Nat /\ others.com + com <= orig.com
    /\ work' = Recorded(d.key, work, x, row)
    /\ Goto(h, [task[h] EXCEPT !.todo = @ \ {i}])
    /\ UNCHANGED <<inbox, book, holder, policy, batch>>

\* A line the document no longer has is zeroed; a cancelled sale zeroes its
\* refunds first, and a sale that is not cancelled keeps what was refunded.
RetireRefund(h, y) ==
    /\ task[h].at = "lines" /\ task[h].todo = {}
    /\ Doc(h).cancelled
    /\ \E x \in task[h].gone : y \in RefundsOf(work, x) /\ work.line[y].qty > 0
    /\ work' = Recorded(Doc(h).key, work, y, Emptied(work.line[y]))
    /\ UNCHANGED <<inbox, book, holder, policy, batch, task>>

RetireLine(h, x) ==
    /\ task[h].at = "lines" /\ task[h].todo = {} /\ x \in task[h].gone
    /\ \A y \in RefundsOf(work, x) : work.line[y].qty = 0
    /\ work' = Recorded(Doc(h).key, work, x, Emptied(work.line[x]))
    /\ Goto(h, [task[h] EXCEPT !.gone = @ \ {x}])
    /\ UNCHANGED <<inbox, book, holder, policy, batch>>

CloseDocument(h) ==
    LET d == Doc(h) IN
    /\ task[h].at = "lines" /\ task[h].todo = {} /\ task[h].gone = {}
    /\ work' = [work EXCEPT !.doc[d.key] =
                  [status |-> IF d.cancelled THEN "CANCELLED" ELSE "ACTIVE",
                   at |-> IF d.at = 0 THEN @.at ELSE d.at]]
    /\ NextDoc(h)
    /\ UNCHANGED <<inbox, book, holder, policy, batch>>

CommitEach(h) ==   \* mutation
    LET l == task[h].log IN
    /\ task[h].at = "document" /\ task[h].n > 1
    /\ book' = work
    /\ inbox' = [inbox EXCEPT ![l] = IF task[h].n > Len(Content[l]) THEN "PROCESSED" ELSE @]
    /\ IF task[h].n > Len(Content[l])
       THEN Goto(h, Idle) /\ holder' = NoWorker
       ELSE UNCHANGED <<task, holder>>
    /\ UNCHANGED <<work, policy, batch>>

\* The last statement of the transaction settles the log.
Commit(h) ==
    LET l == task[h].log IN
    /\ task[h].at = "document" /\ task[h].n > Len(Content[l])
    /\ book' = work
    /\ inbox' = [inbox EXCEPT ![l] = "PROCESSED"]
    /\ holder' = NoWorker
    /\ Goto(h, Idle)
    /\ UNCHANGED <<work, policy, batch>>

\* The process stops; the database rolls its transaction back.
Crash(h) ==
    /\ task[h] # Idle \/ batch[h] # {}
    /\ RollBack(h)
    /\ Goto(h, Idle)
    /\ batch' = [batch EXCEPT ![h] = {}]
    /\ UNCHANGED <<inbox, book, policy>>

-----------------------------------------------------------------------------
Projecting(h) ==
    \/ OpenInbox(h) \/ Begin(h) \/ Abort(h) \/ Settle(h)
    \/ SkipDocument(h) \/ OpenDocument(h) \/ CloseDocument(h) \/ Commit(h)
    \/ \E i \in Items : ApplySaleLine(h, i) \/ ApplyRefundLine(h, i)
    \/ \E x \in Lines : RetireRefund(h, x) \/ RetireLine(h, x)

ProjectionNext ==
    \/ \E l \in Logs : Receive(l)
    \/ \E p \in Policies : ConfigureRate(p)
    \/ \E h \in Workers :
         \/ FindLogs(h) \/ Projecting(h) \/ Crash(h)
         \/ \E l \in Logs : TakeLog(h, l) \/ RetryException(h, l)

ProjectionSpec == ProjectionInit /\ [][ProjectionNext]_projectionVars

-----------------------------------------------------------------------------
(* What must hold *)

\* What the ledger says of a line is the line: sales count positive, refunds
\* negative, also when the cancellation of a sale zeroes refunds of its lines.
LedgerExplainsLines ==
    \A x \in Lines :
        LET sign == IF x[1] \in Refunds THEN -1 ELSE 1
            l == book.line[x]
        IN book.ledger[x] = [qty |-> sign * l.qty, rev |-> sign * l.rev, com |-> sign * l.com]

\* "Refund revenue and quantity cannot exceed the original sale across credit
\* notes", nor can the commission taken back; and "full returns", of every unit and,
\* where a percentage of the revenue was earned, of all revenue, "reverse the exact
\* original commission", however many revised and cancelled credit notes led there.
RefundsWithinSale ==
    \A x \in Sales \X Items :
        LET orig == book.line[x]
            all == Taken(book, RefundsOf(book, x))
        IN /\ all.qty <= orig.qty /\ all.rev <= orig.rev /\ all.com <= orig.com
           /\ all.qty > 0 /\ all.qty = orig.qty /\ (orig.policy.type = "PERCENTAGE" => all.rev = orig.rev)
                => all.com = orig.com

\* "Older timestamped versions cannot overwrite newer state" and "tombstones
\* prevent a cancelled document from being automatically resurrected": what a
\* document says changes only as its version advances or it is cancelled; a refund
\* also when its sale is cancelled.
Advances(k) ==
    \/ book.doc[k].status = "none"
    \/ book'.doc[k].at > book.doc[k].at
    \/ book.doc[k].status # "CANCELLED" /\ book'.doc[k].status = "CANCELLED"

RevisionsOnlyAdvance ==
    [][/\ \A k \in Docs : book.doc[k].status # "none" =>
            /\ book'.doc[k].at >= book.doc[k].at
            /\ book.doc[k].status = "CANCELLED" => book'.doc[k].status = "CANCELLED"
       /\ \A x \in Lines : book'.line[x] # book.line[x] =>
            Advances(x[1]) \/ (book.line[x].of # NoLine /\ Advances(book.line[x].of[1]))]_book

\* "Both sides commit in one transaction; an invalid replacement rolls back the
\* return": of the documents of a log all have been applied or none, but for one
\* that was older than what is there; where no other log brings some of them alone.
ExchangesAreWhole ==
    \A l \in Logs : \A m, n \in DOMAIN Content[l] :
        Content[l][m] \in book.events =>
            Content[l][n] \in book.events \/ Superseded(book, Content[l][n])
=============================================================================
