---------------------------- MODULE POSCheckout -----------------------------
(***************************************************************************)
(* checkout and transaction of src/pos/service.ts, statement by statement, *)
(* for the calls that carry one idempotency key: the read before the       *)
(* transaction, the Serializable transaction with its advisory lock and    *)
(* bounded retries, and the recovery of a sale another call committed.     *)
(*                                                                         *)
(* A Serializable transaction reads from the snapshot its first statement  *)
(* takes.  Here that statement is the one that waits for the advisory      *)
(* lock: the snapshot may be older than the lock.                          *)
(***************************************************************************)
EXTENDS Integers

CONSTANTS
  Calls, Content,   \* as in POSSaleOnce
  Tender,           \* cash handed over by each call's single payment
  Bill,             \* what the bill comes to
  MaxAttempts,      \* 4: the first attempt and the retries attempt < 3 allows
  MaxCrashes,       \* bound on how often the server process dies
  NoRow

ASSUME CheckoutAssumption ==
  /\ MaxAttempts \in Nat \ {0} /\ MaxCrashes \in Nat /\ Bill \in Nat
  /\ Tender \in [Calls -> Nat]
  /\ \A c \in Calls : Tender[c] >= Bill /\ Content[c] # NoRow
  /\ NoRow \notin Calls \cup Nat \cup {"sale", "conflict", "error"}

VARIABLES
  sale,      \* the POSSale row under the key: content of the call that wrote it
  tendered,  \* tenderedTotal of the SALE_COMPLETED audit row
  booked,    \* how often the effects of a sale were committed
  pc,        \* by call: the statement it is at
  attempt,   \* by call: transactions begun
  view,      \* by call: the sale as its transaction's snapshot has it
  payment,   \* by call: payments[0].amount in memory, and
  sum,       \* tenderedTotal as this attempt computed it
  holder,    \* call that holds the advisory lock of the key
  answer,    \* by call: what the client was told
  crashes

vars == <<sale, tendered, booked, pc, attempt, view, payment, sum, holder, answer, crashes>>

InTransaction == {"waiting", "locked", "priced"}

CheckoutTypeOK ==
  /\ sale \in {Content[c] : c \in Calls} \cup {NoRow}
  /\ tendered \in Nat \cup {NoRow} /\ booked \in Nat
  /\ pc \in [Calls -> {"idle", "called", "begin", "committed", "recover", "done", "lost"} \cup InTransaction]
  /\ attempt \in [Calls -> 0..MaxAttempts]
  /\ view \in [Calls -> {Content[c] : c \in Calls} \cup {NoRow}]
  /\ payment \in [Calls -> Nat] /\ sum \in [Calls -> Nat]
  /\ holder \in Calls \cup {NoRow}
  /\ answer \in [Calls -> {"sale", "conflict", "error", NoRow}]
  /\ crashes \in 0..MaxCrashes

Init ==
  /\ sale = NoRow /\ tendered = NoRow /\ booked = 0
  /\ pc = [c \in Calls |-> "idle"]
  /\ attempt = [c \in Calls |-> 0]
  /\ view = [c \in Calls |-> NoRow]
  /\ payment = Tender /\ sum = [c \in Calls |-> 0]
  /\ holder = NoRow
  /\ answer = [c \in Calls |-> NoRow]
  /\ crashes = 0
-----------------------------------------------------------------------------
Goto(c, label) == pc' = [pc EXCEPT ![c] = label]

AboutKeyOnly(s, c) == IF s = NoRow THEN "conflict" ELSE "sale"   \* mutation

\* The reply about a sale that was found: the original one to the account,
\* store and request that made it, 409 to any other.
About(s, c) == IF s = Content[c] THEN "sale" ELSE "conflict"

Reply(c, a) ==
  /\ Goto(c, "done")
  /\ answer' = [answer EXCEPT ![c] = a]

\* The advisory lock goes with the transaction, however it ends.
Release(c) == holder' = IF holder = c THEN NoRow ELSE holder

Call(c) ==
  /\ pc[c] = "idle"
  /\ Goto(c, "called")
  /\ UNCHANGED <<sale, tendered, booked, attempt, view, payment, sum, holder, answer, crashes>>

\* The read before the transaction.
FastPath(c) ==
  /\ pc[c] = "called"
  /\ IF sale # NoRow THEN Reply(c, About(sale, c)) ELSE Goto(c, "begin") /\ UNCHANGED answer
  /\ UNCHANGED <<sale, tendered, booked, attempt, view, payment, sum, holder, crashes>>

Uncounted(n) == n   \* mutation

Counted(n) == n + 1

\* The first statement of an attempt takes the snapshot and queues for the lock.
Begin(c) ==
  /\ pc[c] = "begin"
  /\ Goto(c, "waiting")
  /\ attempt' = [attempt EXCEPT ![c] = Counted(@)]
  /\ view' = [view EXCEPT ![c] = sale]
  /\ UNCHANGED <<sale, tendered, booked, payment, sum, holder, answer, crashes>>

Lock(c) ==
  /\ pc[c] = "waiting" /\ holder = NoRow
  /\ Goto(c, "locked")
  /\ holder' = c
  /\ UNCHANGED <<sale, tendered, booked, attempt, view, payment, sum, answer, crashes>>

\* The sale the snapshot has under the key is the answer.
FindExisting(c) ==
  /\ pc[c] = "locked" /\ view[c] # NoRow
  /\ Reply(c, About(view[c], c))
  /\ Release(c)
  /\ UNCHANGED <<sale, tendered, booked, attempt, view, payment, sum, crashes>>

\* Some ensure() of the sale fails: break, session, stock, price, payment.
Refuse(c) ==
  /\ pc[c] \in {"locked", "priced"} /\ view[c] = NoRow
  /\ Reply(c, "error")
  /\ Release(c)
  /\ UNCHANGED <<sale, tendered, booked, attempt, view, payment, sum, crashes>>

\* Pricing: tenderedTotal is read off the payments, then the one payment is
\* overwritten with the bill, in the array every attempt of the call shares.
Price(c) ==
  /\ pc[c] = "locked" /\ view[c] = NoRow
  /\ Goto(c, "priced")
  /\ sum' = [sum EXCEPT ![c] = payment[c]]
  /\ payment' = [payment EXCEPT ![c] = Bill]
  /\ UNCHANGED <<sale, tendered, booked, attempt, view, holder, answer, crashes>>

UniqueInSnapshot(c) == view[c] = NoRow   \* mutation

\* The unique index on idempotencyKey looks at committed rows, not at the snapshot.
UniqueKey(c) == sale = NoRow

Commit(c) ==
  /\ pc[c] = "priced" /\ UniqueKey(c)
  /\ sale' = Content[c] /\ tendered' = sum[c] /\ booked' = booked + 1
  /\ Goto(c, "committed")
  /\ Release(c)
  /\ UNCHANGED <<attempt, view, payment, sum, answer, crashes>>

Acknowledge(c) ==
  /\ pc[c] = "committed"
  /\ Reply(c, About(Content[c], c))
  /\ UNCHANGED <<sale, tendered, booked, attempt, view, payment, sum, holder, crashes>>

\* P2002: not retried; the failed transaction's caller looks for the sale.
UniqueViolation(c) ==
  /\ pc[c] = "priced" /\ ~UniqueKey(c)
  /\ Goto(c, "recover")
  /\ Release(c)
  /\ UNCHANGED <<sale, tendered, booked, attempt, view, payment, sum, answer, crashes>>

RetriesLeft(c) == attempt[c] < MaxAttempts

\* 40001 or 40P01 at any statement, as P2034 or, from a raw query, as P2010:
\* retried while attempts are left; then only P2034 gets to the recovery.
SerializationFailure(c) ==
  /\ pc[c] \in InTransaction
  /\ IF RetriesLeft(c) THEN Goto(c, "begin") /\ UNCHANGED answer
     ELSE (Goto(c, "recover") /\ UNCHANGED answer) \/ Reply(c, "error")
  /\ Release(c)
  /\ UNCHANGED <<sale, tendered, booked, attempt, view, payment, sum, crashes>>

\* The 20 s timeout of the transaction.
Timeout(c) ==
  /\ pc[c] \in InTransaction
  /\ Reply(c, "error")
  /\ Release(c)
  /\ UNCHANGED <<sale, tendered, booked, attempt, view, payment, sum, crashes>>

\* The read outside the failed transaction.
Recover(c) ==
  /\ pc[c] = "recover"
  /\ Reply(c, IF sale # NoRow THEN About(sale, c) ELSE "error")
  /\ UNCHANGED <<sale, tendered, booked, attempt, view, payment, sum, holder, crashes>>

\* The server dies: open transactions roll back, nobody hears of their calls.
Crash ==
  /\ crashes < MaxCrashes
  /\ crashes' = crashes + 1
  /\ pc' = [c \in Calls |-> IF pc[c] \in {"idle", "done"} THEN pc[c] ELSE "lost"]
  /\ holder' = NoRow
  /\ UNCHANGED <<sale, tendered, booked, attempt, view, payment, sum, answer>>

\* What the server and its database do for a call once it has come in.
Serve(c) ==
  \/ FastPath(c) \/ Begin(c) \/ Lock(c) \/ FindExisting(c) \/ Refuse(c) \/ Price(c)
  \/ Commit(c) \/ Acknowledge(c) \/ UniqueViolation(c) \/ SerializationFailure(c)
  \/ Timeout(c) \/ Recover(c)

Next == Crash \/ \E c \in Calls : Call(c) \/ Serve(c)

Spec == Init /\ [][Next]_vars

\* A process that is up keeps serving every call it has accepted.
FairSpec == Spec /\ \A c \in Calls : WF_vars(Serve(c))
-----------------------------------------------------------------------------
(* Properties.                                                             *)

\* The abstract promise, with the same sale and answers.
Promise == INSTANCE POSSaleOnce WITH
  Calls <- Calls, Content <- Content, NoRow <- NoRow, sale <- sale, answer <- answer

\* Checkout keeps it: no interleaving of attempts, conflicts, crashes and
\* client retries makes a second sale or answers with one that is not there.
KeepsPromise == Promise!Spec

\* The effects of the sale (stock, commission, audit) are committed as often as
\* the sale itself: once, although the advisory lock alone would let a call
\* with an old snapshot sell again.
BookedOnce == booked = IF sale = NoRow THEN 0 ELSE 1

\* A call that was told "sale" got the sale of its own request; a call that has
\* seen a sale in its snapshot has seen the one that exists.
SnapshotsAgree ==
  /\ \A c \in Calls : view[c] # NoRow => view[c] = sale
  /\ \A c \in Calls : answer[c] = "sale" => sale = Content[c]

\* The retry loop ends: every call that came in is answered, unless the server
\* died under it.
EveryCallAnswered ==
  \A c \in Calls : pc[c] = "called" ~> pc[c] \in {"done", "lost"}

\* The audit row records what was tendered (docs/POS_REPORTING_AND_DISCOUNTS.md:
\* "New completion audit metadata records ... tendered amount and change").
AuditRecordsTender ==
  tendered # NoRow => \E c \in Calls : sale = Content[c] /\ tendered = Tender[c]
=============================================================================
