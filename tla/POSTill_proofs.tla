--------------------------- MODULE POSTill_proofs ---------------------------
(***************************************************************************)
(* What a till does with one bill.                                         *)
(*                                                                         *)
(* For any number of calls, attempts and crashes: a sale is booked once,   *)
(* snapshots never disagree about it, checkout implements POSSaleOnce, and *)
(* only a retry makes the audit row forget the tender.                     *)
(*                                                                         *)
(* For any request: a bill adds up, its order discount is allocated to the *)
(* last unit, and partial returns give back what was charged.  What folds  *)
(* over the lines compute is proved by induction over their positions: a   *)
(* fold from the left takes the greatest position from a set of them, so   *)
(* over the first k + 1 it is that over the first k and one step.          *)
(***************************************************************************)
EXTENDS POSCheckout, POSBill, SumLemmas

Labels == {"idle", "called", "begin", "committed", "recover", "done", "lost"} \cup InTransaction
Answers == {"sale", "conflict", "error", NoRow}

\* A call is at one of its statements, and is answered only when it is done.
Unanswered ==
  /\ sale \in {Content[c] : c \in Calls} \cup {NoRow}
  /\ pc \in [Calls -> Labels] /\ view \in [Calls -> {Content[c] : c \in Calls} \cup {NoRow}]
  /\ answer \in [Calls -> Answers]
  /\ \A c \in Calls : pc[c] # "done" => answer[c] = NoRow

\* The call that made the sale is still to be acknowledged.
Committed == \A c \in Calls : pc[c] = "committed" => sale = Content[c]

\* What is known of the sale wherever the calls are: the inductive invariant.
IInv == Unanswered /\ Committed /\ SnapshotsAgree /\ BookedOnce

\* What one step may do to the sale and its effects: nothing, or one call makes
\* it, books it and is left to be acknowledged.
Made(c) ==
  /\ sale = NoRow /\ sale' = Content[c] /\ booked' = booked + 1
  /\ UNCHANGED answer

Kept == UNCHANGED <<sale, booked>>

\* Every statement keeps the sale, or is the commit that makes it.
LEMMA SaleIsMadeOrKept ==
  ASSUME Next
  PROVE  Kept \/ \E c \in Calls : Made(c)
<1>1. CASE Crash
  BY <1>1 DEF Crash, Kept
<1>2. ASSUME NEW c \in Calls, Call(c) \/ Serve(c)
      PROVE  Kept \/ Made(c)
  BY <1>2 DEF Call, Serve, FastPath, Begin, Lock, FindExisting, Refuse, Price, Commit, UniqueKey,
              Acknowledge, UniqueViolation, SerializationFailure, Timeout, Recover, Kept, Made
<1> QED
  BY <1>1, <1>2 DEF Next

\* An answer is given to a call that has none, and is the truth about the sale
\* as it then stands, or an error.
Answered(c) ==
  /\ answer[c] = NoRow
  /\ \/ answer' = [answer EXCEPT ![c] = "error"]
     \/ sale # NoRow /\ answer' = [answer EXCEPT ![c] = About(sale, c)]

\* Every reply of checkout is such an answer.
LEMMA AnswersAreTrue ==
  ASSUME IInv, Next
  PROVE  UNCHANGED answer \/ (UNCHANGED sale /\ \E c \in Calls : Answered(c))
<1>1. CASE Crash
  BY <1>1 DEF Crash
<1>2. ASSUME NEW c \in Calls, Call(c) \/ Serve(c)
      PROVE  UNCHANGED answer \/ (UNCHANGED sale /\ Answered(c))
  <2>1. pc[c] # "done" => answer[c] = NoRow
    BY DEF IInv, Unanswered
  <2>2. CASE FastPath(c)
    BY <2>1, <2>2 DEF FastPath, Reply, Goto, Answered
  <2>3. CASE FindExisting(c)
    <3>1. view[c] = sale /\ sale # NoRow
      BY <2>3 DEF FindExisting, IInv, SnapshotsAgree
    <3> QED
      BY <2>1, <2>3, <3>1 DEF FindExisting, Reply, Goto, Answered
  <2>4. CASE Acknowledge(c)
    <3>1. sale = Content[c] /\ sale # NoRow
      BY <2>4, CheckoutAssumption DEF Acknowledge, IInv, Committed
    <3> QED
      BY <2>1, <2>4, <3>1 DEF Acknowledge, Reply, Goto, Answered
  <2>5. CASE Recover(c)
    BY <2>1, <2>5 DEF Recover, Reply, Goto, Answered
  <2>6. CASE Refuse(c) \/ Timeout(c)
    BY <2>1, <2>6 DEF Refuse, Timeout, InTransaction, Reply, Goto, Answered
  <2>7. CASE SerializationFailure(c)
    BY <2>1, <2>7 DEF SerializationFailure, InTransaction, Reply, Goto, Answered
  <2>8. CASE Call(c) \/ Begin(c) \/ Lock(c) \/ Price(c) \/ Commit(c) \/ UniqueViolation(c)
    BY <2>8 DEF Call, Begin, Lock, Price, Commit, UniqueViolation
  <2> QED
    BY <1>2, <2>2, <2>3, <2>4, <2>5, <2>6, <2>7, <2>8 DEF Serve
<1> QED
  BY <1>1, <1>2 DEF Next

\* No call, no sale: the invariant holds at the start (checkout).
LEMMA InitEstablishes == Init => IInv
BY CheckoutAssumption
   DEF Init, IInv, Unanswered, Labels, Answers, Committed, SnapshotsAgree, BookedOnce

\* Where a step takes a call: nobody but the call itself moves it, except a crash.
LEMMA ControlKept ==
  ASSUME IInv, Next
  PROVE  /\ pc' \in [Calls -> Labels]
         /\ \A c \in Calls : pc'[c] = "committed" => pc[c] = "committed" \/ Commit(c)
         /\ \A c \in Calls : pc'[c] # "done" => pc[c] # "done" /\ answer'[c] = answer[c]
<1> USE DEF IInv, Unanswered, Labels, InTransaction, Goto
<1>1. CASE Crash
  BY <1>1 DEF Crash
<1>2. ASSUME NEW c \in Calls, Call(c) \/ Serve(c)
      PROVE  /\ pc' \in [Calls -> Labels]
             /\ \A d \in Calls : pc'[d] = "committed" => pc[d] = "committed" \/ Commit(d)
             /\ \A d \in Calls : pc'[d] # "done" => pc[d] # "done" /\ answer'[d] = answer[d]
  <2>1. CASE Call(c) \/ Begin(c) \/ Lock(c) \/ Price(c) \/ Commit(c) \/ UniqueViolation(c)
    BY <2>1 DEF Call, Begin, Lock, Price, Commit, UniqueViolation
  <2>2. CASE FindExisting(c) \/ Refuse(c) \/ Timeout(c) \/ Recover(c) \/ Acknowledge(c)
    BY <2>2 DEF FindExisting, Refuse, Timeout, Recover, Acknowledge, Reply
  <2>3. CASE FastPath(c)
    BY <2>3 DEF FastPath, Reply
  <2>4. CASE SerializationFailure(c)
    BY <2>4 DEF SerializationFailure, Reply
  <2> QED
    BY <1>2, <2>1, <2>2, <2>3, <2>4 DEF Serve
<1> QED
  BY <1>1, <1>2 DEF Next

\* Snapshots are taken of the sale as it stands.
LEMMA ViewsTaken ==
  ASSUME IInv, Next
  PROVE  /\ view' \in [Calls -> {Content[c] : c \in Calls} \cup {NoRow}]
         /\ \A c \in Calls : view'[c] \in {view[c], sale}
<1> USE DEF IInv, Unanswered
<1>1. ASSUME NEW c \in Calls, Begin(c)
      PROVE  /\ view' \in [Calls -> {Content[d] : d \in Calls} \cup {NoRow}]
             /\ \A d \in Calls : view'[d] \in {view[d], sale}
  BY <1>1 DEF Begin
<1>2. CASE ~\E c \in Calls : Begin(c)
  <2>1. view' = view
    BY <1>2 DEF Next, Crash, Call, Serve, FastPath, Lock, FindExisting, Refuse, Price, Commit,
                Acknowledge, UniqueViolation, SerializationFailure, Timeout, Recover
  <2> QED
    BY <2>1
<1> QED
  BY <1>1, <1>2

\* No statement of any attempt breaks the invariant (checkout, transaction).
LEMMA StepKeeps ==
  ASSUME IInv, [Next]_vars
  PROVE  IInv'
<1>1. CASE UNCHANGED vars
  BY <1>1 DEF vars, IInv, Unanswered, Committed, SnapshotsAgree, BookedOnce
<1>2. CASE Next
  <2>2. Kept \/ (sale = NoRow /\ (\E c \in Calls : sale' = Content[c]) /\ booked' = booked + 1)
    BY <1>2, SaleIsMadeOrKept DEF Made
  <2>3. sale # NoRow => sale' = sale
    BY <2>2 DEF Kept
  <2>4. sale' \in {Content[c] : c \in Calls} \cup {NoRow}
    BY <2>2 DEF Kept, IInv, Unanswered
  <2>5. BookedOnce'
    BY <2>2, CheckoutAssumption DEF Kept, IInv, BookedOnce
  <2>6. Committed'
    <3>1. \A c \in Calls : Commit(c) => sale' = Content[c]
      BY DEF Commit
    <3>2. \A c \in Calls : pc[c] = "committed" => sale' = Content[c]
      BY <2>3, CheckoutAssumption DEF IInv, Committed
    <3> QED
      BY <1>2, ControlKept, <3>1, <3>2 DEF Committed
  <2>7. \A c \in Calls : view'[c] # NoRow => view'[c] = sale'
    BY <1>2, ViewsTaken, <2>3 DEF IInv, SnapshotsAgree
  <2>8. answer' \in [Calls -> Answers] /\ \A c \in Calls : answer'[c] = "sale" => sale' = Content[c]
    <3>1. CASE UNCHANGED answer
      BY <3>1, <2>3, CheckoutAssumption DEF IInv, Unanswered, SnapshotsAgree
    <3>2. ASSUME NEW c \in Calls, UNCHANGED sale, Answered(c)
          PROVE  /\ answer' \in [Calls -> Answers]
                 /\ \A d \in Calls : answer'[d] = "sale" => sale' = Content[d]
      BY <3>2 DEF Answered, About, Answers, IInv, Unanswered, SnapshotsAgree
    <3> QED
      BY <1>2, AnswersAreTrue, <3>1, <3>2
  <2>9. Unanswered'
    <3>1. \A c \in Calls : pc'[c] # "done" => answer'[c] = NoRow
      BY <1>2, ControlKept DEF IInv, Unanswered
    <3> QED
      BY <1>2, ControlKept, ViewsTaken, <2>4, <2>8, <3>1 DEF Unanswered
  <2> QED
    BY <2>5, <2>6, <2>7, <2>8, <2>9 DEF IInv, SnapshotsAgree
<1> QED
  BY <1>1, <1>2

\* Whatever the calls, conflicts and crashes, everything IInv says of the sale
\* stays true (checkout, transaction).
THEOREM CheckoutInvariant == Spec => []IInv
BY InitEstablishes, StepKeeps, PTL DEF Spec

\* A key books one sale, however many attempts run at once (checkout).
THEOREM SaleBookedOnce == Spec => []BookedOnce
<1>1. IInv => BookedOnce
  BY DEF IInv
<1> QED
  BY <1>1, CheckoutInvariant, PTL

\* Old snapshots never answer with anything but the sale that exists (checkout).
THEOREM SnapshotsTellTheTruth == Spec => []SnapshotsAgree
<1>1. IInv => SnapshotsAgree
  BY DEF IInv
<1> QED
  BY <1>1, CheckoutInvariant, PTL

\* checkout implements the abstract promise of an idempotency key: every step is
\* a sale, an answer, or nothing that anybody can see.
THEOREM CheckoutKeepsPromise == Spec => KeepsPromise
<1>1. Init => Promise!Init
  BY DEF Init, Promise!Init
<1>2. IInv /\ [Next]_vars => [Promise!Next]_(Promise!vars)
  <2> SUFFICES ASSUME IInv, [Next]_vars
               PROVE  [Promise!Next]_(Promise!vars)
    OBVIOUS
  <2>1. CASE UNCHANGED vars
    BY <2>1 DEF vars, Promise!vars
  <2>2. CASE Next
    <3>1. CASE UNCHANGED answer
      <4>1. UNCHANGED sale \/ \E c \in Calls : Made(c)
        BY <2>2, SaleIsMadeOrKept DEF Kept
      <4> QED
        BY <3>1, <4>1 DEF Made, Promise!Next, Promise!Sell, Promise!vars
    <3>2. CASE UNCHANGED sale /\ \E c \in Calls : Answered(c)
      BY <3>2 DEF Answered, About, Promise!Next, Promise!Answer, Promise!About
    <3> QED
      BY <2>2, AnswersAreTrue, <3>1, <3>2
  <2> QED
    BY <2>1, <2>2
<1> QED
  BY <1>1, <1>2, CheckoutInvariant, PTL DEF Spec, KeepsPromise, Promise!Spec

-----------------------------------------------------------------------------
(* What the audit row records of the tender *)

\* What was recorded is the tender of the call that made the sale or, if that call
\* needed more than one attempt, the bill.
TenderKnown ==
  tendered # NoRow =>
    \E c \in Calls : sale = Content[c] /\ (tendered = Tender[c] \/ (attempt[c] > 1 /\ tendered = Bill))

PaymentsTyped ==
  /\ pc \in [Calls -> Labels] /\ attempt \in [Calls -> Nat]
  /\ payment \in [Calls -> Nat] /\ sum \in [Calls -> Nat]

\* The payment of a call is the tender until its first attempt prices it, and what an
\* attempt has read off it is the tender unless an earlier attempt priced it.
PaymentFits(c) ==
  /\ payment[c] \in {Tender[c], Bill}
  /\ attempt[c] = 0 => payment[c] = Tender[c]
  /\ pc[c] \in InTransaction => attempt[c] > 0
  /\ pc[c] \in {"waiting", "locked"} /\ attempt[c] = 1 => payment[c] = Tender[c]
  /\ pc[c] = "priced" => sum[c] = Tender[c] \/ (attempt[c] > 1 /\ sum[c] = Bill)

TenderInv == PaymentsTyped /\ (\A c \in Calls : PaymentFits(c)) /\ TenderKnown

\* What a statement of one call leaves to the others.
OthersKept(c) ==
  \A d \in Calls : d # c => /\ pc'[d] = pc[d] /\ attempt'[d] = attempt[d]
                            /\ payment'[d] = payment[d] /\ sum'[d] = sum[d]

\* Pricing alone touches payments, beginning alone counts attempts (checkout).
LEMMA PaymentsStep ==
  ASSUME TenderInv, NEW c \in Calls, Call(c) \/ Serve(c)
  PROVE  PaymentsTyped' /\ OthersKept(c) /\ PaymentFits(c)' /\ attempt'[c] >= attempt[c]
<1> USE DEF TenderInv, PaymentsTyped, Labels, InTransaction, Goto
<1>0. PaymentFits(c) /\ pc[c] \in Labels /\ attempt[c] \in Nat
  OBVIOUS
<1> DEFINE Goal == PaymentsTyped' /\ OthersKept(c) /\ PaymentFits(c)' /\ attempt'[c] >= attempt[c]
<1>1. CASE Price(c)
  BY <1>0, <1>1, CheckoutAssumption DEF Price, OthersKept, PaymentFits
<1>2. CASE Begin(c)
  BY <1>0, <1>2 DEF Begin, Counted, OthersKept, PaymentFits
<1>3. ASSUME UNCHANGED <<attempt, payment, sum>>, NEW label \in Labels \ {"waiting", "locked", "priced"},
             pc' = [pc EXCEPT ![c] = label]
      PROVE  Goal
  BY <1>0, <1>3 DEF OthersKept, PaymentFits
<1>4. CASE Lock(c)
  BY <1>0, <1>4 DEF Lock, OthersKept, PaymentFits
<1>5. CASE Call(c) \/ Commit(c) \/ UniqueViolation(c)
  BY <1>3, <1>5 DEF Call, Commit, UniqueViolation
<1>6. CASE FastPath(c) \/ FindExisting(c) \/ Refuse(c) \/ Timeout(c) \/ Recover(c) \/ Acknowledge(c)
  BY <1>3, <1>6 DEF FastPath, FindExisting, Refuse, Timeout, Recover, Acknowledge, Reply
<1>7. CASE SerializationFailure(c)
  BY <1>3, <1>7 DEF SerializationFailure, Reply
<1> QED
  BY <1>1, <1>2, <1>4, <1>5, <1>6, <1>7 DEF Serve

\* The commit records what its attempt read, nothing else records anything (checkout).
LEMMA TenderStep ==
  ASSUME TenderInv, [Next]_vars
  PROVE  TenderInv'
<1>0. PaymentsTyped /\ (\A c \in Calls : PaymentFits(c)) /\ TenderKnown
  BY DEF TenderInv
<1>1. CASE UNCHANGED vars
  BY <1>0, <1>1 DEF vars, TenderInv, PaymentsTyped, PaymentFits, TenderKnown
<1>2. CASE Crash
  <2>1. UNCHANGED <<sale, tendered, attempt, payment, sum>>
    BY <1>2 DEF Crash
  <2>2. pc' \in [Calls -> Labels] /\ \A c \in Calls : pc'[c] \in {pc[c], "lost"} /\ pc'[c] \notin InTransaction
    BY <1>0, <1>2 DEF Crash, PaymentsTyped, Labels, InTransaction
  <2>3. \A c \in Calls : PaymentFits(c)'
    BY <1>0, <2>1, <2>2 DEF PaymentFits, InTransaction
  <2>4. TenderKnown'
    BY <1>0, <2>1 DEF TenderKnown
  <2> QED
    BY <1>0, <2>1, <2>2, <2>3, <2>4 DEF TenderInv, PaymentsTyped
<1>3. ASSUME NEW c \in Calls, Call(c) \/ Serve(c) PROVE TenderInv'
  <2>1. PaymentsTyped' /\ OthersKept(c) /\ PaymentFits(c)' /\ attempt'[c] >= attempt[c]
    BY <1>3, PaymentsStep
  <2>2. \A d \in Calls : PaymentFits(d)'
    BY <1>0, <2>1 DEF OthersKept, PaymentFits
  <2>3. \A d \in Calls : attempt[d] \in Nat /\ attempt'[d] \in Nat /\ attempt'[d] >= attempt[d]
    BY <1>0, <2>1 DEF OthersKept, PaymentsTyped
  <2>4. ASSUME Commit(c) PROVE TenderKnown'
    <3>1. sale' = Content[c] /\ tendered' = sum[c] /\ pc[c] = "priced" /\ attempt' = attempt
      BY <2>4 DEF Commit
    <3>2. sum[c] = Tender[c] \/ (attempt'[c] > 1 /\ sum[c] = Bill)
      BY <1>0, <3>1 DEF PaymentFits
    <3>3. sale' = Content[c] /\ (tendered' = Tender[c] \/ (attempt'[c] > 1 /\ tendered' = Bill))
      BY <3>1, <3>2
    <3> QED
      BY <3>3 DEF TenderKnown
  <2>5. ASSUME ~Commit(c) PROVE TenderKnown'
    <3>1. UNCHANGED <<sale, tendered>>
      BY <1>3, <2>5 DEF Call, Serve, FastPath, Begin, Lock, FindExisting, Refuse, Price, Acknowledge,
                        UniqueViolation, SerializationFailure, Timeout, Recover
    <3>2. ASSUME NEW d \in Calls, attempt[d] > 1 PROVE attempt'[d] > 1
      BY <2>3, <3>2
    <3>3. CASE tendered = NoRow
      BY <3>1, <3>3 DEF TenderKnown
    <3>4. CASE tendered # NoRow
      <4>1. PICK d \in Calls : sale = Content[d] /\ (tendered = Tender[d] \/ (attempt[d] > 1 /\ tendered = Bill))
        BY <1>0, <3>4 DEF TenderKnown
      <4>2. sale' = Content[d] /\ (tendered' = Tender[d] \/ (attempt'[d] > 1 /\ tendered' = Bill))
        BY <3>1, <3>2, <4>1
      <4> QED
        BY <4>2 DEF TenderKnown
    <3> QED
      BY <3>3, <3>4
  <2>6. TenderKnown'
    BY <2>4, <2>5
  <2> QED
    BY <2>1, <2>2, <2>6 DEF TenderInv
<1> QED
  BY <1>1, <1>2, <1>3 DEF Next

\* checkout: only a retry makes the audit row forget the tender, for whatever else
\* overlaps it, and then it is the bill that is recorded.
THEOREM OnlyRetriesForgetTender == Spec => []TenderKnown
<1>1. Init => TenderInv
  BY CheckoutAssumption
     DEF Init, TenderInv, PaymentsTyped, PaymentFits, TenderKnown, Labels, InTransaction
<1>2. TenderInv => TenderKnown
  BY DEF TenderInv
<1> QED
  BY <1>1, <1>2, TenderStep, PTL DEF Spec

-----------------------------------------------------------------------------
(* Rounding *)

\* The rounded quotient of natural numbers lies between the whole ones around it.
LEMMA Rounding ==
  ASSUME NEW n \in Nat, NEW d \in Nat \ {0}
  PROVE  /\ RoundDiv(n, d) \in Nat
         /\ \A m \in Nat : n <= m * d => RoundDiv(n, d) <= m
         /\ \A m \in Nat : m * d <= n => m <= RoundDiv(n, d)
<1> DEFINE q == (2 * n + d) \div (2 * d)
<1>1. q \in Int /\ (2 * d) * q <= 2 * n + d /\ 2 * n + d < (2 * d) * (q + 1)
  <2>1. 2 * n + d \in Nat /\ 2 * d \in Nat \ {0}
    OBVIOUS
  <2>2. \A x \in Nat, y \in Nat \ {0} :
          x \div y \in Int /\ y * (x \div y) <= x /\ x < y * ((x \div y) + 1)
    OBVIOUS
  <2> QED
    BY <2>1, <2>2
<1>2. q = RoundDiv(n, d)
  BY DEF RoundDiv
<1> HIDE DEF q
<1>3. (2 * d) * q = 2 * (d * q) /\ (2 * d) * (q + 1) = 2 * (d * q) + 2 * d /\ d * q \in Int
  BY <1>1
<1>4. q >= 0
  <2> SUFFICES ASSUME q + 1 <= 0 PROVE FALSE
    BY <1>1
  <2>1. d * (q + 1) <= 0
    BY <1>1
  <2>2. d * (q + 1) = d * q + d
    BY <1>1
  <2> QED
    BY <1>1, <1>3, <2>1, <2>2
<1>5. ASSUME NEW m \in Nat, n <= m * d PROVE q <= m
  <2> SUFFICES ASSUME m + 1 <= q PROVE FALSE
    BY <1>1
  <2>1. d * (m + 1) <= d * q
    BY <1>1
  <2>2. d * (m + 1) = m * d + d /\ m * d \in Int
    OBVIOUS
  <2> QED
    BY <1>1, <1>3, <1>5, <2>1, <2>2
<1>6. ASSUME NEW m \in Nat, m * d <= n PROVE m <= q
  <2> SUFFICES ASSUME q + 1 <= m PROVE FALSE
    BY <1>1
  <2>1. d * (q + 1) <= d * m
    BY <1>1
  <2>2. d * (q + 1) = d * q + d /\ d * m = m * d /\ m * d \in Int
    BY <1>1
  <2> QED
    BY <1>1, <1>3, <1>6, <2>1, <2>2
<1> QED
  BY <1>1, <1>2, <1>4, <1>5, <1>6

\* The share of a part takes no more than the part or what is left, and leaves
\* no more than the other parts can take.
LEMMA ProportionalShare ==
  ASSUME NEW whole \in Nat, NEW part \in Nat, NEW left \in Nat, part < whole, left <= whole
  PROVE  LET share == RoundDiv(left * part, whole)
         IN share \in Nat /\ share <= part /\ share <= left /\ left - share <= whole - part
<1> DEFINE share == RoundDiv(left * part, whole)
<1>1. left * part \in Nat /\ whole \in Nat \ {0}
  OBVIOUS
<1>2. left * part <= part * whole
  OBVIOUS
<1>3. left * part <= left * whole
  OBVIOUS
<1>4. share \in Nat /\ share <= part /\ share <= left
  BY <1>1, <1>2, <1>3, Rounding
<1>5. left - share <= whole - part
  <2> DEFINE m == left + part - whole
  <2>1. CASE m <= 0
    BY <1>4, <2>1
  <2>2. CASE m > 0
    <3>1. (whole - left) * (whole - part) >= 0
      OBVIOUS
    <3>2. (whole - left) * (whole - part) = left * part - m * whole
      OBVIOUS
    <3>3. m \in Nat /\ m * whole \in Int
      BY <2>2
    <3>4. m * whole <= left * part
      BY <1>1, <3>1, <3>2, <3>3
    <3>5. m <= share
      BY <1>1, <3>3, <3>4, Rounding
    <3> QED
      BY <1>4, <3>5
  <2> QED
    BY <2>1, <2>2
<1> QED
  BY <1>4, <1>5
-----------------------------------------------------------------------------
(* Folding from the left *)

\* The greatest element of a set of positions is its greatest element.
LEMMA Greatest ==
  ASSUME NEW n \in Nat, NEW s \in SUBSET (1..n), s # {}
  PROVE  Max(s) \in s /\ \A i \in s : i <= Max(s)
<1> DEFINE T == {k \in Nat : \A r \in SUBSET (1..k) : r # {} => \E x \in r : \A y \in r : x >= y}
<1>1. 0 \in T
  <2>1. 1..0 = {}
    OBVIOUS
  <2>2. \A r \in SUBSET (1..0) : r = {}
    BY <2>1
  <2> QED
    BY <2>2
<1>2. ASSUME NEW k \in Nat, k \in T PROVE k + 1 \in T
  <2> SUFFICES ASSUME NEW r \in SUBSET (1..(k + 1)), r # {} PROVE \E x \in r : \A y \in r : x >= y
    OBVIOUS
  <2>1. CASE k + 1 \in r
    BY <2>1
  <2>2. CASE k + 1 \notin r
    <3>1. r \in SUBSET (1..k)
      BY <2>2
    <3> QED
      BY <1>2, <3>1
  <2> QED
    BY <2>1, <2>2
<1> HIDE DEF T
<1>3. n \in T
  BY <1>1, <1>2, CountingUp
<1>4. \E x \in s : \A y \in s : x >= y
  BY <1>3 DEF T
<1>5. \A x \in s, y \in s : x \in Int /\ y \in Int
  OBVIOUS
<1> QED
  BY <1>4, <1>5 DEF Max

\* Of the first k + 1 positions the greatest is k + 1, which leaves the first k.
LEMMA LastPosition ==
  ASSUME NEW k \in Nat, NEW s \in SUBSET (1..(k + 1)), s # {}
  PROVE  /\ s \ {Max(s)} \in SUBSET (1..k)
         /\ s = 1..(k + 1) => Max(s) = k + 1 /\ s \ {Max(s)} = 1..k
<1>1. k + 1 \in Nat
  OBVIOUS
<1>2. Max(s) \in s /\ \A i \in s : i <= Max(s)
  BY <1>1, Greatest
<1>3. Max(s) \in 1..(k + 1)
  BY <1>2
<1>4. k + 1 \in s => Max(s) = k + 1
  BY <1>2, <1>3
<1>5. \A i \in 1..(k + 1) : i = k + 1 \/ i \in 1..k
  OBVIOUS
<1>6. s \ {Max(s)} \in SUBSET (1..k)
  BY <1>4, <1>5
<1>7. k + 1 \in 1..(k + 1) /\ 1..(k + 1) \ {k + 1} = 1..k
  OBVIOUS
<1> QED
  BY <1>4, <1>6, <1>7

\* F sums g over every set of the positions up to n.
Sums(F, g, n) == F = [s \in SUBSET (1..n) |-> IF s = {} THEN 0 ELSE F[s \ {Max(s)}] + g[Max(s)]]

LEMMA SumsExist == ASSUME NEW g PROVE \A n \in Nat : \E F : Sums(F, g, n)
<1> DEFINE T == {n \in Nat : \E F : Sums(F, g, n)}
<1>1. 0 \in T
  <2> DEFINE F == [s \in SUBSET (1..0) |-> 0]
  <2>1. Sums(F, g, 0)
    BY DEF Sums
  <2> QED
    BY <2>1
<1>2. ASSUME NEW n \in Nat, n \in T PROVE n + 1 \in T
  <2>1. PICK F : Sums(F, g, n)
    BY <1>2
  <2> DEFINE H == [s \in SUBSET (1..(n + 1)) |-> IF s = {} THEN 0 ELSE F[s \ {Max(s)}] + g[Max(s)]]
  <2>0. 1..n \subseteq 1..(n + 1)
    OBVIOUS
  <2>2. \A s \in SUBSET (1..n) : s \in SUBSET (1..(n + 1)) /\ H[s] = F[s]
    BY <2>0, <2>1 DEF Sums
  <2>3. \A s \in SUBSET (1..(n + 1)) : s # {} => H[s \ {Max(s)}] = F[s \ {Max(s)}]
    BY <2>2, LastPosition
  <2>4. Sums(H, g, n + 1)
    BY <2>3 DEF Sums
  <2> HIDE DEF H
  <2> QED
    BY <2>4
<1> HIDE DEF T
<1>3. Nat \subseteq T
  BY <1>1, <1>2, CountingUp
<1> QED
  BY <1>3 DEF T

\* Over the first positions it adds one value after the other.
LEMMA SumsStep ==
  ASSUME NEW n \in Nat, NEW F, NEW g, Sums(F, g, n)
  PROVE  /\ F[1..0] = 0
         /\ \A k \in Nat : k + 1 <= n => F[1..(k + 1)] = F[1..k] + g[k + 1]
<1>1. F[1..0] = 0
  <2>1. 1..0 = {} /\ 1..0 \in SUBSET (1..n)
    OBVIOUS
  <2> QED
    BY <2>1 DEF Sums
<1>2. ASSUME NEW k \in Nat, k + 1 <= n PROVE F[1..(k + 1)] = F[1..k] + g[k + 1]
  <2> DEFINE r == 1..(k + 1)
  <2>1. k + 1 \in r /\ r \subseteq 1..n /\ r \in SUBSET (1..(k + 1))
    BY <1>2
  <2>2. r = 1..(k + 1)
    OBVIOUS
  <2> HIDE DEF r
  <2>3. r # {} /\ r \in SUBSET (1..n)
    BY <2>1
  <2>4. \A s \in SUBSET (1..(k + 1)) :
          s # {} /\ s = 1..(k + 1) => Max(s) = k + 1 /\ s \ {Max(s)} = 1..k
    BY LastPosition, Zenon
  <2>5. Max(r) = k + 1 /\ r \ {Max(r)} = 1..k
    BY <2>1, <2>2, <2>3, <2>4, Zenon
  <2>6. F[r] = F[r \ {Max(r)}] + g[Max(r)]
    BY <2>3 DEF Sums
  <2> QED
    BY <2>2, <2>5, <2>6
<1> QED
  BY <1>1, <1>2

\* Induction over the positions up to n.
LEMMA UpTo ==
  ASSUME NEW n \in Nat, NEW T, 0 \in T, \A k \in Nat : k + 1 <= n /\ k \in T => k + 1 \in T
  PROVE  \A k \in 0..n : k \in T
<1> DEFINE U == {k \in Nat : k <= n => k \in T}
<1>1. 0 \in U
  OBVIOUS
<1>2. \A k \in Nat : k \in U => k + 1 \in U
  OBVIOUS
<1> HIDE DEF U
<1>3. Nat \subseteq U
  BY <1>1, <1>2, CountingUp
<1> QED
  BY <1>3 DEF U

\* Sums of natural numbers grow along the positions.
LEMMA SumsGrow ==
  ASSUME NEW n \in Nat, NEW F, NEW g, Sums(F, g, n), \A i \in 1..n : g[i] \in Nat
  PROVE  /\ \A k \in 0..n : F[1..k] \in Nat
         /\ \A k \in 0..n : F[1..k] <= F[1..n]
<1>1. /\ F[1..0] = 0
      /\ \A k \in Nat : k + 1 <= n => F[1..(k + 1)] = F[1..k] + g[k + 1]
  BY SumsStep
<1> DEFINE f(k) == F[1..k]
           T == {k \in Nat : f(k) \in Nat /\ \A j \in 0..k : f(j) \in Nat /\ f(j) <= f(k)}
<1>2. f(0) = 0 /\ \A k \in Nat : k + 1 <= n => f(k + 1) = f(k) + g[k + 1]
  BY <1>1
<1> HIDE DEF f
<1>3. 0 \in T
  BY <1>2
<1>4. ASSUME NEW k \in Nat, k + 1 <= n, k \in T PROVE k + 1 \in T
  <2>1. k + 1 \in 1..n
    BY <1>4
  <2>2. f(k + 1) = f(k) + g[k + 1] /\ g[k + 1] \in Nat /\ f(k) \in Nat
    BY <1>2, <1>4, <2>1
  <2>3. \A j \in 0..k : f(j) \in Nat /\ f(j) <= f(k)
    BY <1>4
  <2>4. ASSUME NEW j \in 0..(k + 1) PROVE f(j) \in Nat /\ f(j) <= f(k + 1)
    <3>1. CASE j = k + 1
      BY <2>2, <3>1
    <3>2. CASE j # k + 1
      <4>1. j \in 0..k
        BY <3>2
      <4> QED
        BY <2>2, <2>3, <4>1
    <3> QED
      BY <3>1, <3>2
  <2> QED
    BY <2>2, <2>4
<1> HIDE DEF T
<1>5. \A k \in 0..n : k \in T
  BY <1>3, <1>4, UpTo
<1>6. n \in T /\ n \in 0..n
  BY <1>5
<1>7. \A k \in 0..n : f(k) \in Nat /\ f(k) <= f(n)
  BY <1>5, <1>6 DEF T
<1> QED
  BY <1>7 DEF f

-----------------------------------------------------------------------------
(* What SumOver computes *)

\* Of the fields of snapshots, and of shares: the value of such a function.
LEMMA SumOfSubtotals ==
  ASSUME NEW seq, NEW n \in Nat, DOMAIN seq = 1..n
  PROVE  \E F : Sums(F, [i \in 1..n |-> seq[i].subtotal], n) /\ SumOver(seq, LAMBDA t : t.subtotal) = F[1..n]
<1> DEFINE g == [i \in 1..n |-> seq[i].subtotal]
           P(F) == F = [s \in SUBSET (1..n) |->
                          IF s = {} THEN 0 ELSE F[s \ {Max(s)}] + seq[Max(s)].subtotal]
<1>1. \A s \in SUBSET (1..n) : s # {} => g[Max(s)] = seq[Max(s)].subtotal
  BY Greatest
<1>2. \A F : Sums(F, g, n) <=> P(F)
  BY <1>1 DEF Sums
<1>3. SumOver(seq, LAMBDA t : t.subtotal) = (CHOOSE F : P(F))[1..n]
  BY DEF SumOver, FoldLeft, MapThenFoldSet
<1> HIDE DEF P
<1>4. \E F : P(F)
  BY <1>2, SumsExist
<1> QED
  BY <1>2, <1>3, <1>4

LEMMA SumOfDiscounts ==
  ASSUME NEW seq, NEW n \in Nat, DOMAIN seq = 1..n
  PROVE  \E F : Sums(F, [i \in 1..n |-> seq[i].discountTotal], n) /\ SumOver(seq, LAMBDA t : t.discountTotal) = F[1..n]
<1> DEFINE g == [i \in 1..n |-> seq[i].discountTotal]
           P(F) == F = [s \in SUBSET (1..n) |->
                          IF s = {} THEN 0 ELSE F[s \ {Max(s)}] + seq[Max(s)].discountTotal]
<1>1. \A s \in SUBSET (1..n) : s # {} => g[Max(s)] = seq[Max(s)].discountTotal
  BY Greatest
<1>2. \A F : Sums(F, g, n) <=> P(F)
  BY <1>1 DEF Sums
<1>3. SumOver(seq, LAMBDA t : t.discountTotal) = (CHOOSE F : P(F))[1..n]
  BY DEF SumOver, FoldLeft, MapThenFoldSet
<1> HIDE DEF P
<1>4. \E F : P(F)
  BY <1>2, SumsExist
<1> QED
  BY <1>2, <1>3, <1>4

LEMMA SumOfTaxes ==
  ASSUME NEW seq, NEW n \in Nat, DOMAIN seq = 1..n
  PROVE  \E F : Sums(F, [i \in 1..n |-> seq[i].taxTotal], n) /\ SumOver(seq, LAMBDA t : t.taxTotal) = F[1..n]
<1> DEFINE g == [i \in 1..n |-> seq[i].taxTotal]
           P(F) == F = [s \in SUBSET (1..n) |->
                          IF s = {} THEN 0 ELSE F[s \ {Max(s)}] + seq[Max(s)].taxTotal]
<1>1. \A s \in SUBSET (1..n) : s # {} => g[Max(s)] = seq[Max(s)].taxTotal
  BY Greatest
<1>2. \A F : Sums(F, g, n) <=> P(F)
  BY <1>1 DEF Sums
<1>3. SumOver(seq, LAMBDA t : t.taxTotal) = (CHOOSE F : P(F))[1..n]
  BY DEF SumOver, FoldLeft, MapThenFoldSet
<1> HIDE DEF P
<1>4. \E F : P(F)
  BY <1>2, SumsExist
<1> QED
  BY <1>2, <1>3, <1>4

LEMMA SumOfTotals ==
  ASSUME NEW seq, NEW n \in Nat, DOMAIN seq = 1..n
  PROVE  \E F : Sums(F, [i \in 1..n |-> seq[i].lineTotal], n) /\ SumOver(seq, LAMBDA t : t.lineTotal) = F[1..n]
<1> DEFINE g == [i \in 1..n |-> seq[i].lineTotal]
           P(F) == F = [s \in SUBSET (1..n) |->
                          IF s = {} THEN 0 ELSE F[s \ {Max(s)}] + seq[Max(s)].lineTotal]
<1>1. \A s \in SUBSET (1..n) : s # {} => g[Max(s)] = seq[Max(s)].lineTotal
  BY Greatest
<1>2. \A F : Sums(F, g, n) <=> P(F)
  BY <1>1 DEF Sums
<1>3. SumOver(seq, LAMBDA t : t.lineTotal) = (CHOOSE F : P(F))[1..n]
  BY DEF SumOver, FoldLeft, MapThenFoldSet
<1> HIDE DEF P
<1>4. \E F : P(F)
  BY <1>2, SumsExist
<1> QED
  BY <1>2, <1>3, <1>4

LEMMA SumOfShares ==
  ASSUME NEW seq, NEW n \in Nat, DOMAIN seq = 1..n
  PROVE  \E F : Sums(F, [i \in 1..n |-> seq[i]], n) /\ SumOver(seq, LAMBDA k : k) = F[1..n]
<1> DEFINE g == [i \in 1..n |-> seq[i]]
           P(F) == F = [s \in SUBSET (1..n) |->
                          IF s = {} THEN 0 ELSE F[s \ {Max(s)}] + seq[Max(s)]]
<1>1. \A s \in SUBSET (1..n) : s # {} => g[Max(s)] = seq[Max(s)]
  BY Greatest
<1>2. \A F : Sums(F, g, n) <=> P(F)
  BY <1>1 DEF Sums
<1>3. SumOver(seq, LAMBDA k : k) = (CHOOSE F : P(F))[1..n]
  BY DEF SumOver, FoldLeft, MapThenFoldSet
<1> HIDE DEF P
<1>4. \E F : P(F)
  BY <1>2, SumsExist
<1> QED
  BY <1>2, <1>3, <1>4

\* What an order discount may take of a line.
Worth(l) == IF l.eligible THEN Base(l) ELSE 0

LEMMA SumOfWorth ==
  ASSUME NEW seq, NEW n \in Nat, DOMAIN seq = 1..n
  PROVE  \E F : Sums(F, [i \in 1..n |-> Worth(seq[i])], n) /\ Eligible(seq) = F[1..n]
<1> DEFINE g == [i \in 1..n |-> Worth(seq[i])]
           P(F) == F = [s \in SUBSET (1..n) |->
                          IF s = {} THEN 0 ELSE F[s \ {Max(s)}] + Worth(seq[Max(s)])]
<1>1. \A s \in SUBSET (1..n) : s # {} => g[Max(s)] = Worth(seq[Max(s)])
  BY Greatest
<1>2. \A F : Sums(F, g, n) <=> P(F)
  BY <1>1 DEF Sums
<1>3. Eligible(seq) = (CHOOSE F : P(F))[1..n]
  BY DEF Worth, Eligible, SumOver, FoldLeft, MapThenFoldSet
<1> HIDE DEF P
<1>4. \E F : P(F)
  BY <1>2, SumsExist
<1> QED
  BY <1>2, <1>3, <1>4

-----------------------------------------------------------------------------
(* The allocation of the order discount *)

\* F allocates over every set of the positions up to n, from the state `first`.
Allocates(F, ls, first, n) ==
  F = [s \in SUBSET (1..n) |-> IF s = {} THEN first ELSE Allocate(F[s \ {Max(s)}], ls[Max(s)])]

LEMMA AllocatesExist == ASSUME NEW ls, NEW first PROVE \A n \in Nat : \E F : Allocates(F, ls, first, n)
<1> DEFINE T == {n \in Nat : \E F : Allocates(F, ls, first, n)}
<1>1. 0 \in T
  <2> DEFINE F == [s \in SUBSET (1..0) |-> first]
  <2>1. \A s \in SUBSET (1..0) : s = {}
    OBVIOUS
  <2>2. Allocates(F, ls, first, 0)
    BY <2>1 DEF Allocates
  <2> QED
    BY <2>2
<1>2. ASSUME NEW n \in Nat, n \in T PROVE n + 1 \in T
  <2>1. PICK F : Allocates(F, ls, first, n)
    BY <1>2
  <2> DEFINE H == [s \in SUBSET (1..(n + 1)) |->
                     IF s = {} THEN first ELSE Allocate(F[s \ {Max(s)}], ls[Max(s)])]
  <2>0. 1..n \subseteq 1..(n + 1)
    OBVIOUS
  <2>2. \A s \in SUBSET (1..n) : s \in SUBSET (1..(n + 1)) /\ H[s] = F[s]
    BY <2>0, <2>1 DEF Allocates
  <2>3. \A s \in SUBSET (1..(n + 1)) : s # {} => H[s \ {Max(s)}] = F[s \ {Max(s)}]
    BY <2>2, LastPosition
  <2>4. Allocates(H, ls, first, n + 1)
    BY <2>3 DEF Allocates
  <2> HIDE DEF H
  <2> QED
    BY <2>4
<1> HIDE DEF T
<1>3. Nat \subseteq T
  BY <1>1, <1>2, CountingUp
<1> QED
  BY <1>3 DEF T

\* Over the first positions it allocates to one line after the other.
LEMMA AllocatesStep ==
  ASSUME NEW n \in Nat, NEW F, NEW ls, NEW first, Allocates(F, ls, first, n)
  PROVE  /\ F[1..0] = first
         /\ \A k \in Nat : k + 1 <= n => F[1..(k + 1)] = Allocate(F[1..k], ls[k + 1])
<1>1. F[1..0] = first
  <2>1. 1..0 = {} /\ 1..0 \in SUBSET (1..n)
    OBVIOUS
  <2> QED
    BY <2>1 DEF Allocates
<1>2. ASSUME NEW k \in Nat, k + 1 <= n PROVE F[1..(k + 1)] = Allocate(F[1..k], ls[k + 1])
  <2> DEFINE r == 1..(k + 1)
  <2>1. k + 1 \in r /\ r \subseteq 1..n /\ r \in SUBSET (1..(k + 1))
    BY <1>2
  <2>2. r = 1..(k + 1)
    OBVIOUS
  <2> HIDE DEF r
  <2>3. r # {} /\ r \in SUBSET (1..n)
    BY <2>1
  <2>4. \A s \in SUBSET (1..(k + 1)) :
          s # {} /\ s = 1..(k + 1) => Max(s) = k + 1 /\ s \ {Max(s)} = 1..k
    BY LastPosition, Zenon
  <2>5. Max(r) = k + 1 /\ r \ {Max(r)} = 1..k
    BY <2>1, <2>2, <2>3, <2>4, Zenon
  <2>6. F[r] = Allocate(F[r \ {Max(r)}], ls[Max(r)])
    BY <2>3 DEF Allocates
  <2> QED
    BY <2>2, <2>5, <2>6
<1> QED
  BY <1>1, <1>2

\* The state the loop of billTotals starts from.
Start(ls, amount, type) ==
  [remaining |-> OrderDiscountTotal(ls, amount, type), baseLeft |-> Eligible(ls), shares |-> <<>>]

\* The allocation of billTotals is the value of such a function.
LEMMA AllocationIs ==
  ASSUME NEW ls, NEW n \in Nat, DOMAIN ls = 1..n, NEW amount, NEW type
  PROVE  \E F : /\ Allocates(F, ls, Start(ls, amount, type), n)
                /\ Allocation(ls, amount, type) = F[1..n]
<1> DEFINE P(F) == Allocates(F, ls, Start(ls, amount, type), n)
<1>1. Allocation(ls, amount, type) = (CHOOSE F : P(F))[1..n]
  BY DEF Allocation, FoldLeft, MapThenFoldSet, Allocates, Start
<1> HIDE DEF P
<1>2. \E F : P(F)
  BY AllocatesExist DEF P
<1> QED
  BY <1>1, <1>2 DEF P

-----------------------------------------------------------------------------
(* Lines *)

\* A line that a quote accepts.
BillLine == {l \in RequestLine : ValidLine(l)}

\* Its discount is at most its subtotal.
LEMMA LineWorth ==
  ASSUME NEW l \in BillLine
  PROVE  /\ LineTotals(l).subtotal \in Nat /\ LineTotals(l).discountTotal \in Nat
         /\ Base(l) \in Nat /\ Base(l) = LineTotals(l).subtotal - LineTotals(l).discountTotal
         /\ Worth(l) \in Nat /\ Worth(l) <= Base(l)
         /\ l.quantity \in Nat \ {0} /\ l.taxRate \in Nat
<1>0. /\ l.price \in Prices /\ l.quantity \in Quantities /\ l.discount \in Discounts
      /\ l.taxRate \in TaxRates /\ l.eligible \in BOOLEAN /\ l.discountType \in DiscountTypes
  BY DEF BillLine, RequestLine
<1>1. l.price \in Nat /\ l.quantity \in Nat \ {0} /\ l.discount \in Nat /\ l.taxRate \in Nat
  <2>1. /\ Prices \subseteq Nat /\ Quantities \subseteq Nat \ {0} /\ Discounts \subseteq Nat
        /\ TaxRates \subseteq 0..100
    BY BillAssumption
  <2>2. 0..100 \subseteq Nat
    OBVIOUS
  <2> QED
    BY <1>0, <2>1, <2>2
<1> DEFINE subtotal == l.price * l.quantity
           off == IF l.discountType = "percent" THEN RoundDiv(subtotal * l.discount, 100)
                  ELSE l.discount * l.quantity
<1>2. LineTotals(l).subtotal = subtotal /\ LineTotals(l).discountTotal = off
  BY DEF LineTotals
<1>3. subtotal \in Nat /\ subtotal * l.discount \in Nat
  BY <1>1
<1>4. off \in Nat /\ off <= subtotal
  <2>1. CASE l.discountType = "percent"
    <3>1. l.discount <= 100
      BY <2>1 DEF BillLine, ValidLine
    <3>2. subtotal * l.discount <= subtotal * 100
      BY <1>1, <1>3, <3>1
    <3> QED
      BY <1>3, <2>1, <3>2, Rounding
  <2>2. CASE l.discountType # "percent"
    <3>1. l.discount <= l.price
      BY <2>2 DEF BillLine, ValidLine
    <3>2. l.discount * l.quantity <= l.price * l.quantity /\ l.discount * l.quantity \in Nat
      BY <1>1, <3>1
    <3> QED
      BY <2>2, <3>2
  <2> QED
    BY <2>1, <2>2
<1> HIDE DEF subtotal, off
<1>5. Base(l) = subtotal - off
  BY <1>2 DEF Base
<1>6. Base(l) \in Nat
  BY <1>3, <1>4, <1>5
<1> QED
  BY <1>1, <1>2, <1>3, <1>4, <1>5, <1>6 DEF Worth

\* An order discount that is accepted is at most what the eligible lines are worth.
LEMMA OrderDiscountFits ==
  ASSUME NEW ls, NEW amount \in Nat, NEW type, Eligible(ls) \in Nat, ValidOrderDiscount(ls, amount, type)
  PROVE  OrderDiscountTotal(ls, amount, type) \in 0..Eligible(ls)
<1>1. CASE type = "percent"
  <2>1. Eligible(ls) * amount \in Nat /\ amount <= 100
    BY <1>1 DEF ValidOrderDiscount
  <2>2. Eligible(ls) * amount <= Eligible(ls) * 100
    BY <2>1
  <2> QED
    BY <1>1, <2>1, <2>2, Rounding DEF OrderDiscountTotal
<1>2. CASE type # "percent"
  BY <1>2 DEF OrderDiscountTotal, ValidOrderDiscount
<1> QED
  BY <1>1, <1>2

\* What a line gives up of an order discount, and what it leaves to the others.
LEMMA AllocateLine ==
  ASSUME NEW l \in BillLine, NEW acc,
         acc.baseLeft \in Nat, acc.remaining \in 0..acc.baseLeft, Worth(l) <= acc.baseLeft
  PROVE  LET next == Allocate(acc, l)
             share == acc.remaining - next.remaining
         IN /\ next.baseLeft = acc.baseLeft - Worth(l)
            /\ next.remaining \in 0..next.baseLeft
            /\ share \in 0..Worth(l)
            /\ next.shares = Append(acc.shares, share)
<1> DEFINE base == Base(l)
           share == IF ~l.eligible \/ acc.baseLeft = 0 THEN 0
                    ELSE IF base = acc.baseLeft THEN acc.remaining
                    ELSE Lesser(base, RoundDiv(acc.remaining * base, acc.baseLeft))
           baseLeft == IF l.eligible /\ acc.baseLeft > 0 THEN acc.baseLeft - base ELSE acc.baseLeft
           Taken == /\ share \in 0..Worth(l) /\ baseLeft = acc.baseLeft - Worth(l)
                    /\ acc.remaining - share \in 0..baseLeft
<1>1. /\ Allocate(acc, l).remaining = acc.remaining - share
      /\ Allocate(acc, l).baseLeft = baseLeft
      /\ Allocate(acc, l).shares = Append(acc.shares, share)
  BY DEF Allocate
<1>2. base \in Nat /\ acc.remaining \in Nat /\ acc.remaining <= acc.baseLeft
  BY LineWorth
<1>3. Worth(l) = IF l.eligible THEN base ELSE 0
  BY DEF Worth
<1> HIDE DEF base
<1>4. ASSUME ~l.eligible \/ acc.baseLeft = 0
      PROVE  Taken
  <2>1. share = 0 /\ baseLeft = acc.baseLeft
    BY <1>4
  <2>2. Worth(l) = 0
    BY <1>2, <1>3, <1>4
  <2> QED
    BY <1>2, <2>1, <2>2
<1>5. ASSUME l.eligible /\ acc.baseLeft > 0 /\ base = acc.baseLeft
      PROVE  Taken
  <2>1. share = acc.remaining /\ baseLeft = acc.baseLeft - base
    BY <1>5
  <2>2. Worth(l) = acc.baseLeft
    BY <1>3, <1>5
  <2> QED
    BY <1>2, <1>5, <2>1, <2>2
<1>6. ASSUME l.eligible /\ acc.baseLeft > 0 /\ base # acc.baseLeft
      PROVE  Taken
  <2> DEFINE part == RoundDiv(acc.remaining * base, acc.baseLeft)
  <2>1. share = Lesser(base, part) /\ baseLeft = acc.baseLeft - base
    BY <1>6
  <2>2. base < acc.baseLeft /\ Worth(l) = base
    BY <1>2, <1>3, <1>6
  <2>3. /\ part \in Nat /\ part <= base /\ part <= acc.remaining
        /\ acc.remaining - part <= acc.baseLeft - base
    BY <1>2, <2>2, ProportionalShare
  <2> HIDE DEF part, share, baseLeft
  <2>4. share = part
    BY <1>2, <2>1, <2>3 DEF Lesser
  <2> QED
    BY <1>2, <2>1, <2>2, <2>3, <2>4
<1>7. Taken
  BY <1>2, <1>4, <1>5, <1>6
<1> HIDE DEF share, baseLeft
<1>8. acc.remaining - (acc.remaining - share) = share
  BY <1>2, <1>7
<1> QED
  BY <1>1, <1>7, <1>8

\* The order discount is split to the last unit, to no line more than it is worth.
LEMMA AllocationFits ==
  ASSUME NEW n \in Nat, lines \in [1..n -> BillLine], discount \in Nat,
         ValidOrderDiscount(lines, discount, discountType)
  PROVE  LET allocation == Allocation(lines, discount, discountType)
             shares == allocation.shares
         IN /\ allocation.remaining = 0
            /\ DOMAIN shares = 1..n
            /\ \A i \in 1..n : shares[i] \in 0..Worth(lines[i])
            /\ SumOver(shares, LAMBDA k : k) = OrderDiscountTotal(lines, discount, discountType)
<1> DEFINE g == [i \in 1..n |-> Worth(lines[i])]
           total == OrderDiscountTotal(lines, discount, discountType)
<1>1. PICK E : Sums(E, g, n) /\ Eligible(lines) = E[1..n]
  BY SumOfWorth
<1>2. \A i \in 1..n : lines[i] \in BillLine /\ g[i] = Worth(lines[i]) /\ g[i] \in Nat
  BY LineWorth
<1>3. PICK F : /\ Allocates(F, lines, Start(lines, discount, discountType), n)
               /\ Allocation(lines, discount, discountType) = F[1..n]
  BY AllocationIs
<1> HIDE DEF g
<1>4. /\ \A k \in 0..n : E[1..k] \in Nat
      /\ \A k \in 0..n : E[1..k] <= E[1..n]
  BY <1>1, <1>2, SumsGrow
<1>5. /\ E[1..0] = 0
      /\ \A k \in Nat : k + 1 <= n => E[1..(k + 1)] = E[1..k] + g[k + 1]
  BY <1>1, SumsStep
<1>6. /\ F[1..0] = Start(lines, discount, discountType)
      /\ \A k \in Nat : k + 1 <= n => F[1..(k + 1)] = Allocate(F[1..k], lines[k + 1])
  BY <1>3, AllocatesStep
<1> DEFINE e(k) == E[1..k]
           f(k) == F[1..k]
           left(k) == f(k).remaining
           Fits(k) == /\ f(k).baseLeft = e(n) - e(k) /\ f(k).baseLeft \in Nat
                      /\ left(k) \in 0..f(k).baseLeft
                      /\ f(k).shares \in Seq(Nat) /\ Len(f(k).shares) = k
                      /\ \A i \in 1..k : /\ f(k).shares[i] = left(i - 1) - left(i)
                                         /\ f(k).shares[i] \in 0..g[i]
           T == {k \in Nat : Fits(k)}
<1>7. total \in 0..e(n)
  <2>1. Eligible(lines) = e(n) /\ e(n) \in Nat
    BY <1>1, <1>4
  <2> QED
    BY <2>1, OrderDiscountFits
<1>8. e(0) = 0 /\ f(0).remaining = total /\ f(0).baseLeft = e(n) /\ f(0).shares = <<>>
  BY <1>1, <1>5, <1>6 DEF Start
<1>9. \A k \in 0..n : e(k) \in Nat /\ e(k) <= e(n)
  BY <1>4
<1>10. \A k \in Nat : k + 1 <= n => e(k + 1) = e(k) + g[k + 1] /\ f(k + 1) = Allocate(f(k), lines[k + 1])
  BY <1>5, <1>6
<1> HIDE DEF e, f, total
<1>11. 0 \in T
  <2>1. n \in 0..n /\ e(n) \in Nat
    BY <1>9
  <2>2. <<>> \in Seq(Nat) /\ Len(<<>>) = 0 /\ 1..0 = {}
    OBVIOUS
  <2>3. f(0).shares \in Seq(Nat) /\ Len(f(0).shares) = 0
    BY <1>8, <2>2
  <2>4. f(0).baseLeft = e(n) - e(0) /\ f(0).baseLeft \in Nat /\ left(0) \in 0..f(0).baseLeft
    BY <1>7, <1>8, <2>1
  <2> QED
    BY <2>2, <2>3, <2>4
<1>12. ASSUME NEW k \in Nat, k + 1 <= n, k \in T PROVE k + 1 \in T
  <2> DEFINE share == left(k) - left(k + 1)
  <2>1. k + 1 \in 1..n /\ k + 1 \in 0..n /\ k \in 0..n
    BY <1>12
  <2>2. /\ e(k) \in Nat /\ e(k + 1) \in Nat /\ e(n) \in Nat /\ e(k + 1) <= e(n) /\ g[k + 1] \in Nat
        /\ e(k + 1) = e(k) + g[k + 1] /\ g[k + 1] = Worth(lines[k + 1])
    BY <1>2, <1>9, <1>10, <1>12, <2>1
  <2>3. Fits(k)
    BY <1>12
  <2>4. Worth(lines[k + 1]) <= f(k).baseLeft
    BY <2>2, <2>3
  <2>5. /\ f(k + 1).baseLeft = f(k).baseLeft - g[k + 1]
        /\ left(k + 1) \in 0..f(k + 1).baseLeft
        /\ share \in 0..g[k + 1]
        /\ f(k + 1).shares = Append(f(k).shares, share)
    <3>1. lines[k + 1] \in BillLine /\ f(k + 1) = Allocate(f(k), lines[k + 1])
      BY <1>2, <1>10, <1>12, <2>1
    <3>2. f(k).baseLeft \in Nat /\ f(k).remaining \in 0..f(k).baseLeft
      BY <2>3
    <3> HIDE DEF Fits, T
    <3> QED
      BY <2>2, <2>4, <3>1, <3>2, AllocateLine
  <2>6. f(k + 1).baseLeft = e(n) - e(k + 1) /\ f(k + 1).baseLeft \in Nat
    <3>1. f(k).baseLeft = e(n) - e(k)
      BY <2>3
    <3>2. f(k + 1).baseLeft = e(n) - e(k + 1)
      BY <2>2, <2>5, <3>1
    <3> QED
      BY <2>2, <3>2
  <2>7. share \in Nat
    BY <2>2, <2>5
  <2>8. /\ f(k + 1).shares \in Seq(Nat) /\ Len(f(k + 1).shares) = k + 1
        /\ f(k + 1).shares[k + 1] = share
        /\ \A i \in 1..k : f(k + 1).shares[i] = f(k).shares[i]
    <3> DEFINE s == f(k).shares
    <3>1. s \in Seq(Nat) /\ Len(s) = k /\ f(k + 1).shares = Append(s, share)
      BY <2>3, <2>5
    <3> HIDE DEF s, share
    <3>2. /\ Append(s, share) \in Seq(Nat) /\ Len(Append(s, share)) = k + 1
      BY <2>7, <3>1
    <3>3. Append(s, share)[k + 1] = share
      BY <2>7, <3>1
    <3>4. \A i \in 1..k : Append(s, share)[i] = s[i]
      BY <2>7, <3>1
    <3> QED
      BY <3>1, <3>2, <3>3, <3>4 DEF s
  <2>9. ASSUME NEW i \in 1..(k + 1)
        PROVE  f(k + 1).shares[i] = left(i - 1) - left(i) /\ f(k + 1).shares[i] \in 0..g[i]
    <3>1. CASE i = k + 1
      <4>1. i - 1 = k
        BY <3>1
      <4> QED
        BY <2>5, <2>8, <3>1, <4>1
    <3>2. CASE i # k + 1
      <4>1. i \in 1..k
        BY <3>2
      <4> QED
        BY <2>3, <2>8, <4>1
    <3> QED
      BY <3>1, <3>2
  <2> QED
    BY <2>5, <2>6, <2>8, <2>9
<1> HIDE DEF T
<1>13. \A k \in 0..n : k \in T
  BY <1>11, <1>12, UpTo
<1>14. n \in 0..n /\ n \in T
  BY <1>13
<1>15. Fits(n) /\ left(n) = 0
  <2>1. Fits(n)
    BY <1>14 DEF T
  <2>2. e(n) \in Nat /\ f(n).baseLeft = 0
    BY <1>9, <1>14, <2>1
  <2> QED
    BY <2>1, <2>2
<1> DEFINE shares == f(n).shares
<1>16. /\ DOMAIN shares = 1..n
       /\ \A i \in 1..n : shares[i] = left(i - 1) - left(i) /\ shares[i] \in 0..g[i]
  BY <1>15
<1>17. \A k \in 0..n : left(k) \in Nat
  BY <1>13 DEF T
<1> HIDE DEF shares
<1>18. SumOver(shares, LAMBDA k : k) = total
  <2> DEFINE h == [i \in 1..n |-> shares[i]]
  <2>1. PICK G : Sums(G, h, n) /\ SumOver(shares, LAMBDA k : k) = G[1..n]
    BY <1>16, SumOfShares
  <2>2. /\ G[1..0] = 0
        /\ \A k \in Nat : k + 1 <= n => G[1..(k + 1)] = G[1..k] + h[k + 1]
    BY <2>1, SumsStep
  <2> DEFINE U == {k \in Nat : G[1..k] = total - left(k)}
  <2>3. \A i \in 1..n : h[i] = left(i - 1) - left(i)
    BY <1>16
  <2> HIDE DEF h
  <2>4. total \in Int /\ left(0) = total
    BY <1>7, <1>8, <1>9, <1>14
  <2>5. 0 \in U
    BY <2>2, <2>4
  <2>6. ASSUME NEW k \in Nat, k + 1 <= n, k \in U PROVE k + 1 \in U
    <3>1. k \in 0..n /\ k + 1 \in 0..n /\ k + 1 \in 1..n /\ (k + 1) - 1 = k
      BY <2>6
    <3>2. left(k) \in Nat /\ left(k + 1) \in Nat
      BY <1>17, <3>1
    <3>3. h[k + 1] = left(k) - left(k + 1)
      BY <2>3, <3>1
    <3> QED
      BY <2>2, <2>4, <2>6, <3>2, <3>3
  <2> HIDE DEF U
  <2>7. n \in U
    BY <2>5, <2>6, UpTo, <1>14
  <2>8. G[1..n] = total - left(n)
    BY <2>7 DEF U
  <2> QED
    BY <1>15, <2>1, <2>4, <2>8
<1>19. Allocation(lines, discount, discountType) = f(n)
  BY <1>3 DEF f
<1> QED
  BY <1>2, <1>15, <1>16, <1>18, <1>19 DEF shares, total

-----------------------------------------------------------------------------
(* Bills *)

\* A bill of n lines, with what was asked for and what was charged for it.
Charged(n) ==
  /\ n \in Nat /\ lines \in [1..n -> BillLine] /\ discount \in Nat
  /\ ValidOrderDiscount(lines, discount, discountType)
  /\ totals = BillTotals(lines, discount, discountType)

\* What is charged for a line: its subtotal less discounts, plus tax, none of it negative.
LEMMA LineCharged ==
  ASSUME NEW n, Charged(n), NEW i \in 1..n
  PROVE  LET t == totals.snapshots[i]
         IN /\ t.quantity \in Nat \ {0} /\ t.taxTotal \in Nat /\ t.lineTotal - t.taxTotal \in Nat
            /\ t.subtotal \in Int /\ t.discountTotal \in Int /\ t.lineTotal \in Nat
            /\ t.lineTotal = t.subtotal - t.discountTotal + t.taxTotal
<1> DEFINE l == lines[i]
           share == Allocation(lines, discount, discountType).shares[i]
           tax == RoundDiv((Base(l) - share) * l.taxRate, 100)
           t == totals.snapshots[i]
<1>1. lines \in [1..n -> BillLine] /\ l \in BillLine /\ DOMAIN lines = 1..n
  BY DEF Charged
<1>2. share \in 0..Worth(l)
  BY AllocationFits DEF Charged
<1>3. t = Snapshot(l, share)
  BY <1>1 DEF Charged, BillTotals
<1> HIDE DEF l, share
<1>4. /\ t.quantity = l.quantity /\ t.subtotal = LineTotals(l).subtotal
      /\ t.discountTotal = LineTotals(l).discountTotal + share
      /\ t.taxTotal = tax /\ t.lineTotal = Base(l) - share + tax
  BY <1>3 DEF Snapshot
<1>5. /\ LineTotals(l).subtotal \in Nat /\ LineTotals(l).discountTotal \in Nat
      /\ Base(l) \in Nat /\ Base(l) = LineTotals(l).subtotal - LineTotals(l).discountTotal
      /\ Worth(l) \in Nat /\ Worth(l) <= Base(l)
      /\ l.quantity \in Nat \ {0} /\ l.taxRate \in Nat
  BY <1>1, LineWorth
<1>6. share \in Nat /\ Base(l) - share \in Nat
  BY <1>2, <1>5
<1>7. (Base(l) - share) * l.taxRate \in Nat
  BY <1>5, <1>6
<1>8. tax \in Nat
  BY <1>7, Rounding
<1> HIDE DEF tax, t
<1> QED
  BY <1>4, <1>5, <1>6, <1>8 DEF t

\* The sums of a bill and the split of its order discount.
LEMMA BillCharged == ASSUME NEW n, Charged(n) PROVE BillAddsUp
<1> DEFINE t == totals.snapshots
           allocation == Allocation(lines, discount, discountType)
<1>1. n \in Nat /\ lines \in [1..n -> BillLine] /\ DOMAIN lines = 1..n
  BY DEF Charged
<1>2. /\ DOMAIN t = 1..n
      /\ totals.subtotal = SumOver(t, LAMBDA x : x.subtotal)
      /\ totals.discountTotal = SumOver(t, LAMBDA x : x.discountTotal)
      /\ totals.taxTotal = SumOver(t, LAMBDA x : x.taxTotal)
      /\ totals.grandTotal = SumOver(t, LAMBDA x : x.lineTotal)
  BY <1>1 DEF Charged, BillTotals
<1>3. \A i \in 1..n : /\ t[i].subtotal \in Int /\ t[i].discountTotal \in Int /\ t[i].taxTotal \in Nat
                      /\ t[i].lineTotal \in Nat
                      /\ t[i].lineTotal = t[i].subtotal - t[i].discountTotal + t[i].taxTotal
  BY LineCharged
<1> HIDE DEF t
<1> DEFINE gS == [i \in 1..n |-> t[i].subtotal]
           gD == [i \in 1..n |-> t[i].discountTotal]
           gT == [i \in 1..n |-> t[i].taxTotal]
           gL == [i \in 1..n |-> t[i].lineTotal]
<1>4. PICK S : Sums(S, gS, n) /\ totals.subtotal = S[1..n]
  BY <1>1, <1>2, SumOfSubtotals
<1>5. PICK D : Sums(D, gD, n) /\ totals.discountTotal = D[1..n]
  BY <1>1, <1>2, SumOfDiscounts
<1>6. PICK X : Sums(X, gT, n) /\ totals.taxTotal = X[1..n]
  BY <1>1, <1>2, SumOfTaxes
<1>7. PICK L : Sums(L, gL, n) /\ totals.grandTotal = L[1..n]
  BY <1>1, <1>2, SumOfTotals
<1>8. \A i \in 1..n : /\ gS[i] \in Int /\ gD[i] \in Int /\ gT[i] \in Int /\ gL[i] \in Nat
                      /\ gL[i] = gS[i] - gD[i] + gT[i]
  BY <1>3
<1> HIDE DEF gS, gD, gT, gL
<1>9. S[1..0] = 0 /\ \A k \in Nat : k + 1 <= n => S[1..(k + 1)] = S[1..k] + gS[k + 1]
  BY <1>1, <1>4, SumsStep
<1>10. D[1..0] = 0 /\ \A k \in Nat : k + 1 <= n => D[1..(k + 1)] = D[1..k] + gD[k + 1]
  BY <1>1, <1>5, SumsStep
<1>11. X[1..0] = 0 /\ \A k \in Nat : k + 1 <= n => X[1..(k + 1)] = X[1..k] + gT[k + 1]
  BY <1>1, <1>6, SumsStep
<1>12. L[1..0] = 0 /\ \A k \in Nat : k + 1 <= n => L[1..(k + 1)] = L[1..k] + gL[k + 1]
  BY <1>1, <1>7, SumsStep
<1> DEFINE T == {k \in Nat : /\ S[1..k] \in Int /\ D[1..k] \in Int /\ X[1..k] \in Int /\ L[1..k] \in Nat
                             /\ L[1..k] = S[1..k] - D[1..k] + X[1..k]}
<1>13. 0 \in T
  BY <1>9, <1>10, <1>11, <1>12
<1>14. ASSUME NEW k \in Nat, k + 1 <= n, k \in T PROVE k + 1 \in T
  <2>1. k + 1 \in 1..n
    BY <1>1, <1>14
  <2>2. /\ S[1..k] \in Int /\ D[1..k] \in Int /\ X[1..k] \in Int /\ L[1..k] \in Nat
        /\ L[1..k] = S[1..k] - D[1..k] + X[1..k]
    BY <1>14
  <2>3. /\ gS[k + 1] \in Int /\ gD[k + 1] \in Int /\ gT[k + 1] \in Int /\ gL[k + 1] \in Nat
        /\ gL[k + 1] = gS[k + 1] - gD[k + 1] + gT[k + 1]
    BY <1>8, <2>1
  <2>4. S[1..(k + 1)] = S[1..k] + gS[k + 1] /\ D[1..(k + 1)] = D[1..k] + gD[k + 1]
    BY <1>9, <1>10, <1>14
  <2>5. X[1..(k + 1)] = X[1..k] + gT[k + 1] /\ L[1..(k + 1)] = L[1..k] + gL[k + 1]
    BY <1>11, <1>12, <1>14
  <2>6. /\ S[1..(k + 1)] \in Int /\ D[1..(k + 1)] \in Int /\ X[1..(k + 1)] \in Int /\ L[1..(k + 1)] \in Nat
        /\ L[1..(k + 1)] = S[1..(k + 1)] - D[1..(k + 1)] + X[1..(k + 1)]
    <3>a. (\A a, b \in Int : a + b \in Int) /\ (\A a, b \in Nat : a + b \in Nat)
      OBVIOUS
    <3>b. /\ S[1..k] + gS[k + 1] \in Int /\ D[1..k] + gD[k + 1] \in Int
          /\ X[1..k] + gT[k + 1] \in Int /\ L[1..k] + gL[k + 1] \in Nat
      BY <3>a, <2>2, <2>3, Zenon
    <3>1. S[1..(k + 1)] \in Int /\ D[1..(k + 1)] \in Int
      BY <3>b, <2>4, Zenon
    <3>2. X[1..(k + 1)] \in Int /\ L[1..(k + 1)] \in Nat
      BY <3>b, <2>5, Zenon
    <3>3. L[1..k] \in Int /\ gL[k + 1] \in Int
      BY <2>2, <2>3
    <3>4. L[1..k] + gL[k + 1] = (S[1..k] + gS[k + 1]) - (D[1..k] + gD[k + 1]) + (X[1..k] + gT[k + 1])
      <4> DEFINE s == S[1..k]  s1 == gS[k + 1]
                 d == D[1..k]  d1 == gD[k + 1]
                 x == X[1..k]  x1 == gT[k + 1]
                 m == L[1..k]  m1 == gL[k + 1]
      <4>1. /\ s \in Int /\ d \in Int /\ x \in Int /\ m \in Int /\ m = s - d + x
            /\ s1 \in Int /\ d1 \in Int /\ x1 \in Int /\ m1 \in Int /\ m1 = s1 - d1 + x1
        BY <2>2, <2>3, <3>3
      <4> HIDE DEF s, d, x, m, s1, d1, x1, m1
      <4>2. m + m1 = (s + s1) - (d + d1) + (x + x1)
        BY <4>1
      <4> QED
        BY <4>2 DEF s, d, x, m, s1, d1, x1, m1
    <3> QED
      BY <2>4, <2>5, <3>1, <3>2, <3>4
  <2> QED
    BY <2>6
<1> HIDE DEF T
<1>15. \A k \in 0..n : k \in T
  BY <1>1, <1>13, <1>14, UpTo
<1>16. n \in T
  BY <1>1, <1>15
<1>17. totals.grandTotal = totals.subtotal - totals.discountTotal + totals.taxTotal /\ totals.grandTotal >= 0
  BY <1>4, <1>5, <1>6, <1>7, <1>16 DEF T
<1>18. /\ allocation.remaining = 0
       /\ SumOver(allocation.shares, LAMBDA k : k) = OrderDiscountTotal(lines, discount, discountType)
       /\ \A i \in 1..n : allocation.shares[i] \in 0..Worth(lines[i])
  BY AllocationFits DEF Charged
<1>19. \A i \in 1..n : /\ allocation.shares[i] >= 0
                       /\ allocation.shares[i] <= IF lines[i].eligible THEN Base(lines[i]) ELSE 0
  <2> TAKE i \in 1..n
  <2>1. lines[i] \in BillLine
    BY <1>1
  <2>2. Worth(lines[i]) \in Nat /\ Worth(lines[i]) = IF lines[i].eligible THEN Base(lines[i]) ELSE 0
    BY <2>1, LineWorth DEF Worth
  <2> QED
    BY <1>18, <2>2
<1> QED
  BY <1>1, <1>17, <1>18, <1>19 DEF BillAddsUp

-----------------------------------------------------------------------------
(* Refunds *)

\* The share of the units that are back.
LEMMA ShareOfUnits ==
  ASSUME NEW total \in Nat, NEW units \in Nat \ {0}, NEW back \in Nat
  PROVE  LET share == RoundDiv(total * back, units)
         IN /\ share \in Nat
            /\ back = 0 => share = 0
            /\ back <= units => share <= total
            /\ back = units => share = total
<1>1. total * back \in Nat
  OBVIOUS
<1>2. back = 0 => total * back <= 0 * units
  OBVIOUS
<1>3. back <= units => total * back <= total * units
  OBVIOUS
<1>4. back = units => total * units <= total * back
  OBVIOUS
<1>5. /\ RoundDiv(total * back, units) \in Nat
      /\ \A m \in Nat : total * back <= m * units => RoundDiv(total * back, units) <= m
      /\ \A m \in Nat : m * units <= total * back => m <= RoundDiv(total * back, units)
  BY <1>1, Rounding
<1> QED
  BY <1>2, <1>3, <1>4, <1>5

\* What has been refunded is the share of the units that are back, which are no
\* more than were sold.
Returned(n) ==
  /\ returned \in [1..n -> Nat] /\ refunds \in [1..n -> [revenue : Nat, tax : Nat]]
  /\ \A i \in 1..n :
       LET t == totals.snapshots[i]
       IN /\ returned[i] <= t.quantity
          /\ refunds[i].revenue = RoundDiv((t.lineTotal - t.taxTotal) * returned[i], t.quantity)
          /\ refunds[i].tax = RoundDiv(t.taxTotal * returned[i], t.quantity)

BillInv == \E n \in Nat : Charged(n) /\ Returned(n)

\* It says all that RefundsTelescope does.
LEMMA ReturnedTelescopes == ASSUME NEW n, Charged(n), Returned(n) PROVE RefundsTelescope
<1>1. DOMAIN lines = 1..n
  BY DEF Charged
<1> SUFFICES ASSUME NEW i \in 1..n
             PROVE  LET t == totals.snapshots[i]
                    IN /\ refunds[i].revenue = RoundDiv((t.lineTotal - t.taxTotal) * returned[i], t.quantity)
                       /\ refunds[i].tax = RoundDiv(t.taxTotal * returned[i], t.quantity)
                       /\ refunds[i].tax <= t.taxTotal /\ refunds[i].revenue <= t.lineTotal - t.taxTotal
                       /\ returned[i] = t.quantity => refunds[i].revenue + refunds[i].tax = t.lineTotal
  BY <1>1 DEF RefundsTelescope
<1> DEFINE t == totals.snapshots[i]
           net == t.lineTotal - t.taxTotal
           tax == t.taxTotal
           units == t.quantity
           back == returned[i]
<1>2. units \in Nat \ {0} /\ tax \in Nat /\ net \in Nat /\ t.lineTotal \in Nat
  BY LineCharged
<1>3. /\ back \in Nat /\ back <= units
      /\ refunds[i].revenue = RoundDiv(net * back, units)
      /\ refunds[i].tax = RoundDiv(tax * back, units)
  BY DEF Returned
<1>4. net + tax = t.lineTotal
  BY <1>2
<1> HIDE DEF net, tax, units, back, t
<1>5. RoundDiv(net * back, units) <= net /\ (back = units => RoundDiv(net * back, units) = net)
  BY <1>2, <1>3, ShareOfUnits
<1>6. RoundDiv(tax * back, units) <= tax /\ (back = units => RoundDiv(tax * back, units) = tax)
  BY <1>2, <1>3, ShareOfUnits
<1> QED
  BY <1>3, <1>4, <1>5, <1>6 DEF net, tax, units, back, t

\* A return adds the share of what is back now less the share of what was back.
LEMMA RefundStep ==
  ASSUME NEW n \in Nat, Charged(n), Returned(n), NEW i \in 1..n, NEW returning \in Nat, Refund(i, returning)
  PROVE  Charged(n)' /\ Returned(n)'
<1> DEFINE t == totals.snapshots[i]
           net == t.lineTotal - t.taxTotal
           tax == t.taxTotal
           back == returned[i] + returning
           row == [revenue |-> RoundDiv(net * back, t.quantity), tax |-> RoundDiv(tax * back, t.quantity)]
<1>1. UNCHANGED <<lines, discount, discountType, totals>>
  BY DEF Refund
<1>2. Charged(n)'
  BY <1>1 DEF Charged
<1>3. t.quantity \in Nat \ {0} /\ tax \in Nat /\ net \in Nat
  BY LineCharged
<1>4. /\ returned \in [1..n -> Nat] /\ refunds \in [1..n -> [revenue : Nat, tax : Nat]]
      /\ refunds[i].revenue = RoundDiv(net * returned[i], t.quantity)
      /\ refunds[i].tax = RoundDiv(tax * returned[i], t.quantity)
  BY DEF Returned
<1>5. back \in Nat /\ back <= t.quantity /\ returned' = [returned EXCEPT ![i] = back]
  BY <1>4 DEF Refund
<1>6. refunds' = [refunds EXCEPT ![i] =
        [revenue |-> refunds[i].revenue + (RoundDiv(net * back, t.quantity) - RoundDiv(net * returned[i], t.quantity)),
         tax |-> refunds[i].tax + (RoundDiv(tax * back, t.quantity) - RoundDiv(tax * returned[i], t.quantity))]]
  BY DEF Refund, RefundComponents, RefundAllocation
<1> HIDE DEF net, tax, back, t
<1>7. /\ RoundDiv(net * back, t.quantity) \in Nat /\ RoundDiv(tax * back, t.quantity) \in Nat
      /\ RoundDiv(net * returned[i], t.quantity) \in Nat /\ RoundDiv(tax * returned[i], t.quantity) \in Nat
  <2> DEFINE units == t.quantity
             was == returned[i]
  <2>1. units \in Nat \ {0} /\ was \in Nat
    BY <1>3, <1>4
  <2> HIDE DEF units, was
  <2>2. RoundDiv(net * back, units) \in Nat /\ RoundDiv(net * was, units) \in Nat
    BY <1>3, <1>5, <2>1, ShareOfUnits
  <2>3. RoundDiv(tax * back, units) \in Nat /\ RoundDiv(tax * was, units) \in Nat
    BY <1>3, <1>5, <2>1, ShareOfUnits
  <2> QED
    BY <2>2, <2>3 DEF units, was
<1>8. refunds' = [refunds EXCEPT ![i] = row]
  <2>1. \A a, b \in Nat : b + (a - b) = a
    OBVIOUS
  <2>2. /\ refunds[i].revenue + (RoundDiv(net * back, t.quantity) - RoundDiv(net * returned[i], t.quantity))
             = RoundDiv(net * back, t.quantity)
        /\ refunds[i].tax + (RoundDiv(tax * back, t.quantity) - RoundDiv(tax * returned[i], t.quantity))
             = RoundDiv(tax * back, t.quantity)
    BY <1>4, <1>7, <2>1
  <2> QED
    BY <1>6, <2>2
<1>9. row \in [revenue : Nat, tax : Nat]
  BY <1>7
<1>10. returned' \in [1..n -> Nat] /\ refunds' \in [1..n -> [revenue : Nat, tax : Nat]]
  BY <1>4, <1>5, <1>8, <1>9
<1>11. /\ returned'[i] = back /\ refunds'[i] = row
       /\ \A j \in 1..n : j # i => returned'[j] = returned[j] /\ refunds'[j] = refunds[j]
  BY <1>4, <1>5, <1>8
<1> HIDE DEF row
<1>12. row.revenue = RoundDiv(net * back, t.quantity) /\ row.tax = RoundDiv(tax * back, t.quantity)
  BY DEF row
<1>13. ASSUME NEW j \in 1..n
       PROVE  LET x == totals.snapshots[j]
              IN /\ returned'[j] <= x.quantity
                 /\ refunds'[j].revenue = RoundDiv((x.lineTotal - x.taxTotal) * returned'[j], x.quantity)
                 /\ refunds'[j].tax = RoundDiv(x.taxTotal * returned'[j], x.quantity)
  <2>1. CASE j = i
    BY <1>5, <1>11, <1>12, <2>1 DEF t, net, tax
  <2>2. CASE j # i
    BY <1>11, <2>2 DEF Returned
  <2> QED
    BY <2>1, <2>2
<1> QED
  BY <1>1, <1>2, <1>10, <1>13 DEF Returned

\* billTotals charges what the lines say, then returnSale gives back shares of it.
THEOREM BillInvariant == BillSpec => []BillInv
<1>1. BillInit => BillInv
  <2> SUFFICES ASSUME BillInit PROVE BillInv
    OBVIOUS
  <2>1. PICK n \in 1..MaxLines : lines \in [1..n -> {l \in RequestLine : ValidLine(l)}]
    BY DEF BillInit
  <2>2. n \in Nat
    BY BillAssumption
  <2>3. Charged(n)
    BY <2>1, <2>2, BillAssumption DEF BillInit, Charged, BillLine
  <2>4. DOMAIN lines = 1..n
    BY <2>1
  <2>5. returned = [i \in 1..n |-> 0] /\ refunds = [i \in 1..n |-> [revenue |-> 0, tax |-> 0]]
    BY <2>4 DEF BillInit
  <2>6. ASSUME NEW i \in 1..n
        PROVE  LET t == totals.snapshots[i]
               IN /\ returned[i] <= t.quantity
                  /\ refunds[i].revenue = RoundDiv((t.lineTotal - t.taxTotal) * returned[i], t.quantity)
                  /\ refunds[i].tax = RoundDiv(t.taxTotal * returned[i], t.quantity)
    <3> DEFINE t == totals.snapshots[i]
               net == t.lineTotal - t.taxTotal
    <3>1. t.quantity \in Nat \ {0} /\ t.taxTotal \in Nat /\ net \in Nat
      BY <2>3, LineCharged
    <3> HIDE DEF net, t
    <3>2. RoundDiv(net * 0, t.quantity) = 0 /\ RoundDiv(t.taxTotal * 0, t.quantity) = 0
      BY <3>1, ShareOfUnits
    <3>3. returned[i] = 0 /\ refunds[i].revenue = 0 /\ refunds[i].tax = 0
      BY <2>5
    <3> QED
      BY <3>1, <3>2, <3>3 DEF net, t
  <2>7. returned \in [1..n -> Nat] /\ refunds \in [1..n -> [revenue : Nat, tax : Nat]]
    BY <2>5
  <2> QED
    BY <2>2, <2>3, <2>6, <2>7 DEF BillInv, Returned
<1>2. BillInv /\ [BillNext]_billVars => BillInv'
  <2> SUFFICES ASSUME BillInv, [BillNext]_billVars PROVE BillInv'
    OBVIOUS
  <2>1. PICK n \in Nat : Charged(n) /\ Returned(n)
    BY DEF BillInv
  <2>2. ASSUME NEW i \in DOMAIN lines, NEW returning \in Quantities, Refund(i, returning)
        PROVE  Charged(n)' /\ Returned(n)'
    <3>1. DOMAIN lines = 1..n
      BY <2>1 DEF Charged
    <3>2. returning \in Nat
      BY BillAssumption
    <3>3. i \in 1..n /\ n \in Nat
      BY <3>1
    <3> QED
      BY <2>1, <2>2, <3>2, <3>3, RefundStep, Zenon
  <2>3. ASSUME UNCHANGED billVars
        PROVE  Charged(n)' /\ Returned(n)'
    <3>1. Charged(n)'
      BY <2>1, <2>3 DEF billVars, Charged
    <3>2. Returned(n)'
      BY <2>1, <2>3 DEF billVars, Returned
    <3> QED
      BY <3>1, <3>2
  <2>4. Charged(n)' /\ Returned(n)'
    BY <2>2, <2>3 DEF BillNext
  <2> QED
    BY <2>4 DEF BillInv
<1> QED
  BY <1>1, <1>2, PTL DEF BillSpec

\* billTotals: what a bill says adds up, and its order discount is given away to
\* the last unit, for any number of lines, prices, discounts and rates.
THEOREM BillsAddUp == BillSpec => []BillAddsUp
<1>1. BillInv => BillAddsUp
  BY BillCharged DEF BillInv
<1> QED
  BY <1>1, BillInvariant, PTL

\* returnSale: however a line is split into partial returns, refunds depend only
\* on how many units are back.
THEOREM RefundsAddUp == BillSpec => []RefundsTelescope
<1>1. BillInv => RefundsTelescope
  BY ReturnedTelescopes DEF BillInv
<1> QED
  BY <1>1, BillInvariant, PTL
=============================================================================
