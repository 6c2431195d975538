--------------------------- MODULE Webhooks_proofs ---------------------------
(***************************************************************************)
(* What holds of the sales webhooks for any logs, deliveries, workers and   *)
(* rates: of the projected commission (HRMProjection), and of the invoice   *)
(* commission (HRInvoice).                                                  *)
(*                                                                          *)
(* The invariant of the projection is about two copies of the tables, as    *)
(* committed and as the transaction under the lock sees them: the copies    *)
(* agree while nobody holds the lock, each is sound by itself, and what the *)
(* second has changed belongs to documents that advance, or is the document *)
(* being applied. To it are added what the transaction has taken of its log *)
(* (Wholeness) and what refunds have taken back of a sale (Tallies).        *)
(*                                                                          *)
(* That of the invoices: what a delivery applies it has read under the      *)
(* lock, whoever is applied has a row of the log that nobody shares, and    *)
(* wallets hold what the rows say.                                          *)
(***************************************************************************)
EXTENDS HRMProjection, HRInvoice, SumLemmas, TLAPS

DocStatus == {"none", "ACTIVE", "CANCELLED"}
DocRec == [status : DocStatus, at : Nat]
LineRec == [qty : Nat, rev : Nat, com : Nat, policy : Policies \cup {NoPolicy},
            of : Lines \cup {NoLine}]
Entry == [qty : Int, rev : Int, com : Int]
Documents == {Content[l][n] : l \in Logs, n \in Nat}
Book == [doc : [Docs -> DocRec], line : [Lines -> LineRec], ledger : [Lines -> Entry],
         events : SUBSET Documents]

Zero(l) == l.qty = 0 /\ l.rev = 0 /\ l.com = 0

Explains(e, x, l) ==
    LET sign == IF x[1] \in Refunds THEN -1 ELSE 1
    IN e = [qty |-> sign * l.qty, rev |-> sign * l.rev, com |-> sign * l.com]
Explained(b) == \A x \in Lines : Explains(b.ledger[x], x, b.line[x])

\* Lines belong to documents that are there, refunds to lines that are there; a
\* line of no units is worth nothing.
Linked(b) ==
    \A x \in Lines :
        /\ b.line[x].qty = 0 => Zero(b.line[x])
        /\ IF Stored(b, x) THEN b.doc[x[1]].status # "none" ELSE b.line[x] = NoRow
        /\ b.line[x].of # NoLine => Stored(b, b.line[x].of) /\ b.line[x].of[1] \in Sales
        /\ x[1] \in Sales => b.line[x].of = NoLine

\* A cancelled document is worth nothing, and so are the refunds of a cancelled sale.
Buried(b, x) == Zero(b.line[x]) /\ \A y \in Lines : b.line[y].of = x => Zero(b.line[y])
Tombstones(b) == \A x \in Lines : b.doc[x[1]].status = "CANCELLED" => Buried(b, x)

SoundBook(b) == b \in Book /\ Explained(b) /\ Linked(b) /\ Tombstones(b)

-----------------------------------------------------------------------------
(* Amounts *)

LEMMA MoneyNat == ASSUME NEW n \in Nat, NEW d \in Nat, d > 0 PROVE Money(n, d) \in Nat
<1>1. 2 * n + d \in Nat /\ 2 * d \in Nat /\ 2 * d > 0
  OBVIOUS
<1>2. \A a \in Nat : \A b \in Nat : b > 0 => a \div b \in Nat
  OBVIOUS
<1> QED BY <1>1, <1>2 DEF Money

LEMMA EarningNat ==
    ASSUME NEW rev \in Nat, NEW qty \in Nat, NEW p \in Policies PROVE Earning(rev, qty, p) \in Nat
<1>1. p \in Policy
  BY ProjectionAssumption
<1>2. p.rate \in Nat /\ p.type \in {"PERCENTAGE", "UNIT", "LINE"}
  BY <1>1 DEF Policy
<1>3. rev * p.rate \in Nat /\ p.rate * qty \in Nat
  BY <1>2
<1>4. Money(rev * p.rate, 100) \in Nat
  BY <1>3, MoneyNat
<1> QED BY <1>2, <1>3, <1>4 DEF Earning

-----------------------------------------------------------------------------
(* What a step writes *)

LEMMA BookParts ==
    ASSUME NEW b \in Book
    PROVE  /\ b.doc \in [Docs -> DocRec] /\ b.line \in [Lines -> LineRec]
           /\ b.ledger \in [Lines -> Entry] /\ b.events \in SUBSET Documents
           /\ \A k \in Docs : b.doc[k].status \in DocStatus /\ b.doc[k].at \in Nat
           /\ \A x \in Lines :
                /\ b.line[x].qty \in Nat /\ b.line[x].rev \in Nat
                /\ b.line[x].com \in Nat /\ b.line[x].policy \in Policies \cup {NoPolicy}
                /\ b.line[x].of \in Lines \cup {NoLine}
  BY DEF Book, DocRec, LineRec

\* A line as `record` leaves it: new figures, and possibly made with a policy and a
\* reference.
Writes(b, c, x, row) ==
    /\ c.doc = b.doc /\ c.events = b.events
    /\ c \in Book
    /\ c.line = [b.line EXCEPT ![x] = row]
    /\ \A y \in Lines \ {x} : c.ledger[y] = b.ledger[y]
    /\ Explains(c.ledger[x], x, row)

LEMMA WritesExplained ==
    ASSUME NEW b \in Book, Explained(b), NEW c, NEW x \in Lines, NEW row, Writes(b, c, x, row)
    PROVE  Explained(c)
  BY BookParts DEF Writes, Explained

LEMMA BookChange ==
    ASSUME NEW n \in Book, NEW f, NEW g
    PROVE  /\ [n EXCEPT !.line = f]
              = [doc |-> n.doc, line |-> f, ledger |-> n.ledger, events |-> n.events]
           /\ [n EXCEPT !.line = f, !.ledger = g]
              = [doc |-> n.doc, line |-> f, ledger |-> g, events |-> n.events]
<1>1. [n EXCEPT !.line = f] = [doc |-> n.doc, line |-> f, ledger |-> n.ledger, events |-> n.events]
  BY DEF Book
<1>2. [n EXCEPT !.line = f, !.ledger = g] = [[n EXCEPT !.line = f] EXCEPT !.ledger = g]
  BY DEF Book
<1>3. [[doc |-> n.doc, line |-> f, ledger |-> n.ledger, events |-> n.events] EXCEPT !.ledger = g]
      = [doc |-> n.doc, line |-> f, ledger |-> g, events |-> n.events]
  OBVIOUS
<1> QED BY <1>1, <1>2, <1>3

LEMMA LineIn == ASSUME NEW b \in Book, NEW x \in Lines PROVE b.line[x] \in LineRec
  BY BookParts

\* record takes the signed difference into the ledger.
LEMMA RecordedWrites ==
    ASSUME NEW b \in Book, NEW x \in Lines, Explains(b.ledger[x], x, b.line[x]),
           NEW k, NEW row \in LineRec
    PROVE  Writes(b, Recorded(k, b, x, row), x, row)
<1> DEFINE sign == IF x[1] \in Refunds THEN -1 ELSE 1
           c == Recorded(k, b, x, row)
           e == [qty |-> b.ledger[x].qty + sign * (row.qty - b.line[x].qty),
                 rev |-> b.ledger[x].rev + sign * (row.rev - b.line[x].rev),
                 com |-> b.ledger[x].com + sign * (row.com - b.line[x].com)]
<1>1. c = [b EXCEPT !.line = [b.line EXCEPT ![x] = row], !.ledger = [b.ledger EXCEPT ![x] = e]]
  BY DEF Recorded
<1>2. c = [doc |-> b.doc, line |-> [b.line EXCEPT ![x] = row], ledger |-> [b.ledger EXCEPT ![x] = e],
           events |-> b.events]
  BY <1>1, BookChange, Zenon
<1>3. sign \in {-1, 1}
  OBVIOUS
<1>4. row.qty \in Nat /\ row.rev \in Nat /\ row.com \in Nat
  BY DEF LineRec
<1>5. e = [qty |-> sign * row.qty, rev |-> sign * row.rev, com |-> sign * row.com]
  BY <1>3, <1>4, BookParts DEF Explains
<1>6. e \in Entry
  BY <1>3, <1>4, <1>5 DEF Entry
<1>7. c \in Book
  BY <1>2, <1>6, BookParts DEF Book
<1>8. Explains(e, x, row)
  BY <1>5 DEF Explains
<1>9. c.ledger[x] = e /\ \A y \in Lines \ {x} : c.ledger[y] = b.ledger[y]
  BY <1>2, BookParts
<1> QED BY <1>2, <1>7, <1>8, <1>9 DEF Writes

-----------------------------------------------------------------------------
(* The invariant *)

Elsewhere == {Idle} \cup [at : {"open", "begin", "failed"}, log : Logs]
AtDocument == [at : {"document"}, log : Logs, n : Nat \ {0}]
InLines == [at : {"lines"}, log : Logs, n : Nat \ {0}, todo : SUBSET Items, gone : SUBSET Lines]

Typed ==
    /\ holder \in Workers \cup {NoWorker}
    /\ policy \in Policies \cup {NoPolicy}
    /\ task \in [Workers -> Elsewhere \cup AtDocument \cup InLines]

\* The document being applied: what is left of it, and why it may be applied.
Applying(h) ==
    LET d == Doc(h)
        known == work.doc[d.key]
    IN /\ task[h].n \in 1 .. Len(Content[task[h].log])
       /\ task[h].todo \subseteq DOMAIN d.lines
       /\ \A x \in task[h].gone : x[1] = d.key
       /\ known.status # "none"
       /\ IF d.cancelled
          THEN \A x \in Lines : x[1] = d.key => x \in task[h].gone \/ Buried(work, x)
          ELSE known.status = "ACTIVE"
       /\ d.at = 0 \/ d.at >= known.at
       /\ book.doc[d.key].status = "none" \/ d.cancelled \/ (d.at # 0 /\ d.at > known.at)

Exclusive ==
    /\ \A h \in Workers : task[h] \in AtDocument \cup InLines => holder = h
    /\ holder = NoWorker => work = book
    /\ \A h \in Workers : task[h] \in InLines => Applying(h)

\* A document has moved on, or is being applied and will have.
MovedTo(w, k) ==
    \/ book.doc[k].status = "none"
    \/ w.doc[k].at > book.doc[k].at
    \/ book.doc[k].status # "CANCELLED" /\ w.doc[k].status = "CANCELLED"
Moved(k) == MovedTo(work, k)
Moving(k) ==
    \E h \in Workers : task[h] \in InLines /\ Doc(h).key = k /\ work.doc[k].status # "CANCELLED"

Forward ==
    \A k \in Docs : book.doc[k].status # "none" =>
        /\ work.doc[k].status # "none"
        /\ work.doc[k].at >= book.doc[k].at
        /\ book.doc[k].status = "CANCELLED" => work.doc[k].status = "CANCELLED"
Accounted ==
    \A x \in Lines : work.line[x] # book.line[x] =>
        \/ Moved(x[1]) \/ Moving(x[1])
        \/ book.line[x].of # NoLine /\ (Moved(book.line[x].of[1]) \/ Moving(book.line[x].of[1]))

IInv == Typed /\ SoundBook(book) /\ SoundBook(work) /\ Exclusive /\ Forward /\ Accounted

-----------------------------------------------------------------------------
(* Tasks *)

LEMMA TasksApart ==
    /\ \A t \in Elsewhere : t.at \in {"idle", "open", "begin", "failed"} /\ (t # Idle => t.log \in Logs)
    /\ \A t \in AtDocument : t.at = "document" /\ t.log \in Logs /\ t.n \in Nat /\ t.n > 0
    /\ \A t \in InLines : /\ t.at = "lines" /\ t.log \in Logs /\ t.n \in Nat /\ t.n > 0
                          /\ t.todo \subseteq Items /\ t.gone \subseteq Lines
    /\ Idle.at = "idle"
  BY DEF Elsewhere, AtDocument, InLines, Idle

LEMMA Where ==
    ASSUME Typed, NEW h \in Workers
    PROVE  /\ task[h].at = "lines" => task[h] \in InLines
           /\ task[h].at = "document" => task[h] \in AtDocument
           /\ task[h].at \in {"idle", "open", "begin", "failed"} => task[h] \in Elsewhere
           /\ task[h] \in Elsewhere => task[h] \notin AtDocument \cup InLines
           /\ task[h] \in AtDocument => task[h] \notin InLines
  BY TasksApart DEF Typed

LEMMA GotoTask ==
    ASSUME Typed, NEW h \in Workers, NEW t \in Elsewhere \cup AtDocument \cup InLines, Goto(h, t)
    PROVE  /\ task' \in [Workers -> Elsewhere \cup AtDocument \cup InLines]
           /\ task'[h] = t /\ \A g \in Workers \ {h} : task'[g] = task[g]
  BY DEF Typed, Goto

LEMMA ElsewhereTask ==
    ASSUME NEW l \in Logs
    PROVE  /\ Idle \in Elsewhere
           /\ \A a \in {"open", "begin", "failed"} : [at |-> a, log |-> l] \in Elsewhere
  BY DEF Elsewhere

\* Only one worker is past the lock.
LEMMA Alone ==
    ASSUME IInv, NEW h \in Workers, task[h] \in AtDocument \cup InLines,
           NEW g \in Workers, task[g] \in AtDocument \cup InLines
    PROVE  g = h
  BY DEF IInv, Exclusive

\* What is worked on is normalized.
LEMMA DocNormal ==
    ASSUME IInv, NEW h \in Workers, task[h] \in AtDocument \cup InLines,
           task[h].n <= Len(Content[task[h].log])
    PROVE  Normalized(Doc(h)) /\ Doc(h) \in Documents /\ Doc(h).key \in Docs /\ Doc(h).at \in Nat
<1>1. task[h].log \in Logs /\ task[h].n \in Nat /\ task[h].n > 0
  BY TasksApart
<1>2. Doc(h) \in Documents
  BY <1>1 DEF Documents, Doc
<1>3. CASE Len(Content[task[h].log]) \in Nat
  <2>1. task[h].n \in 1 .. Len(Content[task[h].log])
    BY <1>1, <1>3
  <2>2. Normalized(Doc(h))
    BY <1>1, <2>1, ProjectionAssumption DEF Doc
  <2> QED BY <1>2, <2>2 DEF Normalized
<1> QED BY <1>2, <1>3

-----------------------------------------------------------------------------
(* Steps that leave the tables alone, and steps that make the copies agree *)

\* What the committed tables may do in a step.
Revises ==
    /\ \A k \in Docs : book.doc[k].status # "none" =>
         /\ book'.doc[k].at >= book.doc[k].at
         /\ book.doc[k].status = "CANCELLED" => book'.doc[k].status = "CANCELLED"
    /\ \A x \in Lines : book'.line[x] # book.line[x] =>
         Advances(x[1]) \/ (book.line[x].of # NoLine /\ Advances(book.line[x].of[1]))

StepKept == IInv' /\ [Revises]_book

\* Tasks in which nobody gets into the lines of a document.
Outside ==
    /\ task' \in [Workers -> Elsewhere \cup AtDocument \cup InLines]
    /\ \A h \in Workers : task'[h] = task[h] \/ task'[h] \notin InLines

LEMMA QuietKeeps ==
    ASSUME IInv, UNCHANGED tables, Outside, policy' \in Policies \cup {NoPolicy},
           \A h \in Workers : task'[h] = task[h] \/ (task[h] \notin InLines
                                /\ (task'[h] \in AtDocument => holder = h))
    PROVE  StepKept
<1>1. Typed'
  BY DEF IInv, Typed, Outside, tables
<1>2. \A h \in Workers : task'[h] \in InLines => task'[h] = task[h]
  BY DEF Outside
<1>3. \A h \in Workers : task[h] \in InLines => task'[h] = task[h]
  OBVIOUS
<1>4. \A h \in Workers : task'[h] = task[h] => Doc(h)' = Doc(h)
  BY DEF Doc
<1>5. Exclusive'
  <2>1. \A h \in Workers : task'[h] \in AtDocument \cup InLines => holder' = h
    BY <1>2 DEF IInv, Exclusive, tables
  <2>2. \A h \in Workers : task'[h] \in InLines => Applying(h)'
    <3> SUFFICES ASSUME NEW h \in Workers, task'[h] \in InLines PROVE Applying(h)'
      OBVIOUS
    <3>1. task'[h] = task[h] /\ Doc(h)' = Doc(h) /\ Applying(h)
      BY <1>2, <1>4 DEF IInv, Exclusive
    <3> QED BY <3>1 DEF Applying, tables, Buried, Zero
  <2> QED BY <2>1, <2>2 DEF IInv, Exclusive, tables
<1>6. \A k : Moved(k)' <=> Moved(k)
  BY DEF Moved, MovedTo, tables
<1>7. \A k : Moving(k) => Moving(k)'
  BY <1>3, <1>4 DEF Moving, tables
<1>8. Forward' /\ Accounted'
  BY <1>6, <1>7 DEF IInv, Forward, Accounted, tables
<1>9. SoundBook(book)' /\ SoundBook(work)'
  BY DEF IInv, SoundBook, tables, Explained, Linked, Tombstones, Buried, Zero, Explains, Stored
<1> QED BY <1>1, <1>5, <1>8, <1>9 DEF StepKept, IInv, tables

\* The transaction begins, is rolled back or commits.
LEMMA AgreeKeeps ==
    ASSUME IInv, book' = work', SoundBook(book)', UNCHANGED policy,
           task' \in [Workers -> Elsewhere \cup AtDocument \cup InLines],
           holder' \in Workers \cup {NoWorker},
           \A h \in Workers : task'[h] \notin InLines /\ (task'[h] \in AtDocument => holder' = h)
    PROVE  IInv'
<1>1. Typed'
  BY DEF IInv, Typed
<1>2. Exclusive'
  BY DEF Exclusive
<1>3. SoundBook(work)'
  BY DEF SoundBook, Explained, Linked, Tombstones, Buried, Zero, Explains, Stored
<1>4. \A k \in Docs : book'.doc[k].at \in Nat
  BY BookParts DEF SoundBook
<1>5. Forward'
  BY <1>4 DEF Forward
<1>6. Accounted'
  BY DEF Accounted
<1> QED BY <1>1, <1>2, <1>3, <1>5, <1>6 DEF IInv

LEMMA BeginStep == ASSUME IInv, NEW h \in Workers, Begin(h) PROVE StepKept
<1>1. task[h] \in Elsewhere /\ task[h].log \in Logs
  BY Where, TasksApart DEF Begin, IInv
<1> DEFINE t == [at |-> "document", log |-> task[h].log, n |-> 1]
<1>2. t \in AtDocument
  BY <1>1 DEF AtDocument
<1> HIDE DEF t
<1>3. Goto(h, t)
  BY DEF Begin, t
<1>4. task' \in [Workers -> Elsewhere \cup AtDocument \cup InLines]
      /\ task'[h] = t /\ \A g \in Workers \ {h} : task'[g] = task[g]
  BY <1>2, <1>3, GotoTask DEF IInv
<1>5. \A g \in Workers : task[g] \notin AtDocument \cup InLines
  BY ProjectionAssumption DEF Begin, IInv, Exclusive
<1>6. t \notin InLines
  BY <1>2, TasksApart
<1>7. SoundBook(book)'
  BY DEF Begin, IInv, SoundBook, Explained, Linked, Tombstones, Buried, Zero, Explains, Stored
<1>8. IInv'
  BY <1>4, <1>5, <1>6, <1>7, AgreeKeeps DEF Begin, IInv, Typed
<1> QED BY <1>8 DEF StepKept, Begin

\* A worker that stops, with or without the lock.
LEMMA RollBackStep ==
    ASSUME IInv, NEW h \in Workers, NEW t \in Elsewhere, Goto(h, t), RollBack(h),
           UNCHANGED <<book, policy>>
    PROVE  StepKept
<1>1. task' \in [Workers -> Elsewhere \cup AtDocument \cup InLines]
      /\ task'[h] = t /\ \A g \in Workers \ {h} : task'[g] = task[g]
  BY GotoTask DEF IInv
<1>2. t \notin AtDocument \cup InLines
  BY TasksApart
<1>3. CASE holder = h
  <2>1. \A g \in Workers : task'[g] \notin AtDocument \cup InLines
    BY <1>1, <1>2, <1>3 DEF IInv, Exclusive
  <2>2. SoundBook(book)'
    BY DEF IInv, SoundBook, Explained, Linked, Tombstones, Buried, Zero, Explains, Stored
  <2>3. IInv'
    BY <1>1, <1>3, <2>1, <2>2, AgreeKeeps DEF RollBack
  <2> QED BY <2>3 DEF StepKept
<1>4. CASE holder # h
  <2>1. task[h] \notin AtDocument \cup InLines
    BY <1>4 DEF IInv, Exclusive
  <2>2. UNCHANGED tables
    BY <1>4 DEF RollBack, tables
  <2>3. Outside
    BY <1>1, <1>2 DEF Outside
  <2> QED BY <1>1, <1>2, <2>1, <2>2, <2>3, QuietKeeps DEF IInv, Typed
<1> QED BY <1>3, <1>4

LEMMA CommitStep == ASSUME IInv, NEW h \in Workers, Commit(h) PROVE StepKept
<1>1. task[h] \in AtDocument
  BY Where DEF Commit, IInv
<1>2. task' \in [Workers -> Elsewhere \cup AtDocument \cup InLines]
      /\ task'[h] = Idle /\ \A g \in Workers \ {h} : task'[g] = task[g]
  BY GotoTask, ElsewhereTask DEF IInv, Commit, Elsewhere
<1>3. \A g \in Workers \ {h} : task[g] \notin AtDocument \cup InLines
  BY <1>1, Alone
<1>4. Idle \notin AtDocument \cup InLines
  BY TasksApart
<1>5. SoundBook(book)'
  BY DEF Commit, IInv, SoundBook, Explained, Linked, Tombstones, Buried, Zero, Explains, Stored
<1>6. IInv'
  BY <1>2, <1>3, <1>4, <1>5, AgreeKeeps DEF Commit
<1>7. \A k : ~Moving(k)
  BY <1>1, <1>3, TasksApart DEF Moving
<1>8. \A k : Moved(k) => Advances(k)
  BY DEF Moved, MovedTo, Advances, Commit
<1>9. Revises
  BY <1>7, <1>8 DEF Revises, IInv, Forward, Accounted, Commit
<1> QED BY <1>6, <1>9 DEF StepKept

-----------------------------------------------------------------------------
(* Steps on the lines of a document *)

LEMMA LineKeeps ==
    ASSUME IInv, NEW h \in Workers, task[h] \in InLines, UNCHANGED <<book, holder, policy>>,
           NEW x \in Lines, NEW row \in LineRec, Writes(work, work', x, row),
           task' \in [Workers -> Elsewhere \cup AtDocument \cup InLines], task'[h] \in InLines,
           task'[h].log = task[h].log, task'[h].n = task[h].n,
           \A g \in Workers \ {h} : task'[g] = task[g],
           Linked(work)', Tombstones(work)', Applying(h)',
           row # work.line[x] =>
             \/ Moved(x[1]) \/ Moving(x[1])
             \/ book.line[x].of # NoLine /\ (Moved(book.line[x].of[1]) \/ Moving(book.line[x].of[1]))
    PROVE  StepKept
<1>1. Typed'
  BY DEF IInv, Typed
<1>2. SoundBook(work)'
  BY WritesExplained DEF Writes, SoundBook, IInv
<1>3. SoundBook(book)'
  <2>1. SoundBook(book')
    BY DEF IInv
  <2> QED
    BY <2>1 DEF SoundBook, Explained, Linked, Tombstones, Buried, Zero, Explains, Stored
<1>4. \A g \in Workers \ {h} : task[g] \notin AtDocument \cup InLines
  BY Alone
<1>5. Exclusive'
  <2>1. holder = h
    BY DEF IInv, Exclusive
  <2>2. holder # NoWorker
    BY <2>1, ProjectionAssumption
  <2> QED BY <1>4, <2>1, <2>2 DEF Exclusive
<1>6. work'.doc = work.doc /\ work'.line = [work.line EXCEPT ![x] = row]
  BY DEF Writes
<1>7. \A k : Moved(k) => Moved(k)'
  BY <1>6 DEF Moved, MovedTo
<1>8. \A k : Moving(k) => Moving(k)'
  <2>1. Doc(h)' = Doc(h)
    BY DEF Doc
  <2> QED BY <1>4, <1>6, <2>1 DEF Moving
<1>9. Forward'
  BY <1>6 DEF IInv, Forward
<1>10. Accounted'
  <2> SUFFICES ASSUME NEW y \in Lines, work'.line[y] # book.line[y]
               PROVE  \/ Moved(y[1]) \/ Moving(y[1])
                      \/ book.line[y].of # NoLine /\ (Moved(book.line[y].of[1]) \/ Moving(book.line[y].of[1]))
    BY <1>7, <1>8 DEF Accounted
  <2>1. CASE y # x
    <3>1. work'.line[y] = work.line[y]
      BY <1>6, <2>1, BookParts DEF IInv, SoundBook
    <3> QED BY <3>1 DEF IInv, Accounted
  <2>2. CASE y = x /\ row = work.line[x]
    <3>1. work'.line[y] = work.line[y]
      BY <1>6, <2>2, BookParts DEF IInv, SoundBook
    <3> QED BY <3>1 DEF IInv, Accounted
  <2>3. CASE y = x /\ row # work.line[x]
    BY <2>3
  <2> QED BY <2>1, <2>2, <2>3
<1> QED BY <1>1, <1>2, <1>3, <1>5, <1>9, <1>10 DEF IInv, StepKept

\* A worker that is done with a line of its document.
LEMMA NextLine ==
    ASSUME IInv, NEW h \in Workers, task[h] \in InLines, NEW todo \in SUBSET Items,
           NEW gone \in SUBSET Lines,
           NEW t, t = [at |-> "lines", log |-> task[h].log, n |-> task[h].n, todo |-> todo, gone |-> gone],
           Goto(h, t)
    PROVE  /\ task' \in [Workers -> Elsewhere \cup AtDocument \cup InLines] /\ task'[h] = t
           /\ task'[h] \in InLines /\ task'[h].log = task[h].log /\ task'[h].n = task[h].n
           /\ task'[h].todo = todo /\ task'[h].gone = gone
           /\ \A g \in Workers \ {h} : task'[g] = task[g]
           /\ Doc(h)' = Doc(h)
<1>1. t \in InLines
  BY TasksApart DEF InLines
<1>2. task'[h] = t /\ task' \in [Workers -> Elsewhere \cup AtDocument \cup InLines]
      /\ \A g \in Workers \ {h} : task'[g] = task[g]
  BY <1>1, GotoTask DEF IInv
<1>3. t.log = task[h].log /\ t.n = task[h].n /\ t.todo = todo /\ t.gone = gone
  OBVIOUS
<1> HIDE DEF InLines
<1> QED BY <1>1, <1>2, <1>3 DEF Doc

LEMMA TodoUpdate ==
    ASSUME NEW t \in InLines, NEW S
    PROVE  /\ [t EXCEPT !.todo = S] = [at |-> "lines", log |-> t.log, n |-> t.n, todo |-> S, gone |-> t.gone]
           /\ [t EXCEPT !.gone = S] = [at |-> "lines", log |-> t.log, n |-> t.n, todo |-> t.todo, gone |-> S]
  BY DEF InLines

\* What is known of the document a worker is applying.
LEMMA AtWork ==
    ASSUME IInv, NEW h \in Workers, task[h].at = "lines"
    PROVE  /\ task[h] \in InLines /\ Applying(h)
           /\ Normalized(Doc(h)) /\ Doc(h).key \in Docs /\ Doc(h).at \in Nat
           /\ task[h].todo \subseteq Items /\ task[h].gone \subseteq Lines
           /\ work.doc[Doc(h).key].status # "CANCELLED" => Moving(Doc(h).key)
<1>1. task[h] \in InLines /\ Applying(h)
  BY Where DEF IInv, Exclusive
<1>2. task[h].n <= Len(Content[task[h].log])
  BY <1>1 DEF Applying
<1> QED BY <1>1, <1>2, DocNormal, TasksApart DEF Moving

\* A line that is written with units, of a document that is active.
LEMMA UnitsKept ==
    ASSUME NEW b \in Book, Linked(b), Tombstones(b), NEW c \in Book, NEW x \in Lines, NEW row \in LineRec,
           Writes(b, c, x, row), row.qty # 0, row.policy # NoPolicy, b.doc[x[1]].status = "ACTIVE",
           IF row.of = NoLine THEN x[1] \notin Refunds
           ELSE /\ row.of \in Lines /\ Stored(b, row.of) /\ row.of[1] \in Sales
                /\ b.doc[row.of[1]].status = "ACTIVE" /\ x[1] \notin Sales
    PROVE  Linked(c) /\ Tombstones(c)
<1>1. c.doc = b.doc /\ c.line[x] = row /\ \A y \in Lines \ {x} : c.line[y] = b.line[y]
  BY BookParts DEF Writes
<1>2. \A y \in Lines : Stored(b, y) => Stored(c, y)
  BY <1>1 DEF Stored
<1>3. Linked(c)
  <2> SUFFICES ASSUME NEW y \in Lines
               PROVE  /\ c.line[y].qty = 0 => Zero(c.line[y])
                      /\ IF Stored(c, y) THEN c.doc[y[1]].status # "none" ELSE c.line[y] = NoRow
                      /\ c.line[y].of # NoLine => Stored(c, c.line[y].of) /\ c.line[y].of[1] \in Sales
                      /\ y[1] \in Sales => c.line[y].of = NoLine
    BY DEF Linked
  <2>1. CASE y = x
    BY <1>1, <1>2, <2>1 DEF Stored
  <2>2. CASE y # x
    <3>1. c.line[y] = b.line[y] /\ (Stored(c, y) <=> Stored(b, y))
      BY <1>1, <2>2 DEF Stored
    <3>2. b.line[y].of \in Lines \cup {NoLine}
      BY BookParts
    <3> QED BY <1>1, <1>2, <3>1, <3>2 DEF Linked
  <2> QED BY <2>1, <2>2
<1>4. Tombstones(c)
  <2> SUFFICES ASSUME NEW z \in Lines, b.doc[z[1]].status = "CANCELLED" PROVE Buried(c, z)
    BY <1>1 DEF Tombstones
  <2>1. Buried(b, z) /\ z # x
    BY DEF Tombstones
  <2>2. c.line[z] = b.line[z]
    BY <1>1, <2>1
  <2>3. ASSUME NEW y \in Lines, c.line[y].of = z PROVE Zero(c.line[y])
    <3>1. CASE y # x
      BY <1>1, <2>1, <2>3, <3>1 DEF Buried
    <3>2. CASE y = x
      BY <1>1, <2>3, <3>2, ProjectionAssumption
    <3> QED BY <3>1, <3>2
  <2> QED BY <2>1, <2>2, <2>3 DEF Buried
<1> QED BY <1>3, <1>4

\* A line that is emptied.
LEMMA EmptyKept ==
    ASSUME NEW b \in Book, Linked(b), Tombstones(b), NEW c \in Book, NEW x \in Lines,
           Writes(b, c, x, Emptied(b.line[x]))
    PROVE  /\ Linked(c) /\ Tombstones(c)
           /\ Emptied(b.line[x]) \in LineRec
           /\ c.line[x] = Emptied(b.line[x]) /\ Zero(c.line[x])
           /\ \A y \in Lines : c.line[y].of = b.line[y].of /\ (Zero(b.line[y]) => Zero(c.line[y]))
           /\ \A z \in Lines : Buried(b, z) => Buried(c, z)
           /\ Zero(b.line[x]) => Emptied(b.line[x]) = b.line[x]
<1> DEFINE row == Emptied(b.line[x])
<1>1. c.doc = b.doc /\ c.line[x] = row /\ \A y \in Lines \ {x} : c.line[y] = b.line[y]
  BY BookParts DEF Writes
<1>2. row.qty = 0 /\ row.rev = 0 /\ row.com = 0 /\ row.policy = b.line[x].policy /\ row.of = b.line[x].of
  BY DEF Emptied
<1>3. row \in LineRec
  BY BookParts DEF Emptied, LineRec
<1>4. Zero(b.line[x]) => row = b.line[x]
  <2>1. b.line[x] \in LineRec
    BY LineIn
  <2> QED BY <2>1 DEF Emptied, Zero, LineRec
<1> HIDE DEF row
<1>5. \A y \in Lines : /\ c.line[y].of = b.line[y].of /\ c.line[y].policy = b.line[y].policy
                       /\ Zero(b.line[y]) => Zero(c.line[y])
  BY <1>1, <1>2 DEF Zero
<1>6. Zero(c.line[x])
  BY <1>1, <1>2 DEF Zero
<1>7. \A z \in Lines : Buried(b, z) => Buried(c, z)
  BY <1>5 DEF Buried
<1>8. Linked(c)
  <2> SUFFICES ASSUME NEW y \in Lines
               PROVE  /\ c.line[y].qty = 0 => Zero(c.line[y])
                      /\ IF Stored(c, y) THEN c.doc[y[1]].status # "none" ELSE c.line[y] = NoRow
                      /\ c.line[y].of # NoLine => Stored(c, c.line[y].of) /\ c.line[y].of[1] \in Sales
                      /\ y[1] \in Sales => c.line[y].of = NoLine
    BY DEF Linked
  <2>1. \A z \in Lines : Stored(c, z) <=> Stored(b, z)
    BY <1>5 DEF Stored
  <2>2. c.line[y].qty = 0 => Zero(c.line[y])
    BY <1>1, <1>6 DEF Linked
  <2>3. ~Stored(c, y) => c.line[y] = NoRow
    <3>1. CASE y # x
      BY <1>1, <2>1, <3>1 DEF Linked
    <3>2. CASE y = x /\ ~Stored(b, y)
      <4>1. b.line[y] = NoRow
        BY <3>2 DEF Linked
      <4>2. Zero(b.line[x])
        BY <3>2, <4>1 DEF NoRow, Zero
      <4> QED BY <1>1, <1>4, <3>2, <4>1, <4>2
    <3> QED BY <2>1, <3>1, <3>2
  <2>4. b.line[y].of \in Lines \cup {NoLine}
    BY BookParts
  <2> QED BY <1>1, <1>5, <2>1, <2>2, <2>3, <2>4 DEF Linked
<1>9. Tombstones(c)
  BY <1>1, <1>7 DEF Tombstones
<1> QED BY <1>1, <1>3, <1>4, <1>5, <1>6, <1>7, <1>8, <1>9 DEF row

LEMMA WorkParts ==
    ASSUME IInv
    PROVE  work \in Book /\ Linked(work) /\ Tombstones(work)
           /\ \A x \in Lines : Explains(work.ledger[x], x, work.line[x])
  BY DEF IInv, SoundBook, Explained

LEMMA SaleStep == ASSUME IInv, NEW h \in Workers, NEW i \in Items, ApplySaleLine(h, i) PROVE StepKept
<1> DEFINE d == Doc(h)
           x == <<d.key, i>>
           s == d.lines[i]
           p == IF Stored(work, x) THEN work.line[x].policy ELSE policy
           row == [qty |-> s.qty, rev |-> s.rev, com |-> Earning(s.rev, s.qty, p), policy |-> p, of |-> NoLine]
           todo == task[h].todo \ {i}
           t == [at |-> "lines", log |-> task[h].log, n |-> task[h].n, todo |-> todo, gone |-> task[h].gone]
<1>1. /\ task[h] \in InLines /\ Applying(h) /\ Normalized(d) /\ d.key \in Docs
      /\ task[h].todo \subseteq Items /\ task[h].gone \subseteq Lines
      /\ work.doc[d.key].status # "CANCELLED" => Moving(d.key)
  BY AtWork DEF ApplySaleLine
<1>2. i \in task[h].todo /\ d.key \in Sales /\ p # NoPolicy /\ UNCHANGED <<book, holder, policy>>
      /\ work' = Recorded(d.key, work, x, row) /\ Goto(h, [task[h] EXCEPT !.todo = todo])
  BY DEF ApplySaleLine
<1>3. x \in Lines /\ x[1] = d.key
  BY <1>1 DEF Lines
<1>4. i \in DOMAIN d.lines /\ ~d.cancelled
  BY <1>1, <1>2 DEF Applying, Normalized
<1>5. s.qty \in Nat /\ s.qty > 0 /\ s.rev \in Nat
  BY <1>1, <1>2, <1>4 DEF Normalized
<1>6. work.doc[d.key].status = "ACTIVE"
  BY <1>1, <1>4 DEF Applying
<1>7. p \in Policies
  BY <1>2, <1>3, WorkParts, BookParts DEF IInv, Typed
<1>8. Earning(s.rev, s.qty, p) \in Nat
  BY <1>5, <1>7, EarningNat
<1>9. row \in LineRec /\ row.qty = s.qty /\ row.of = NoLine /\ row.policy = p
  <2> HIDE DEF p, s
  <2> QED BY <1>5, <1>7, <1>8 DEF LineRec
<1> HIDE DEF row
<1>10. Writes(work, work', x, row)
  BY <1>2, <1>3, <1>9, WorkParts, RecordedWrites
<1>11. d.key \notin Refunds
  BY <1>2, ProjectionAssumption
<1>12. Linked(work)' /\ Tombstones(work)'
  <2>1. work' \in Book
    BY <1>10 DEF Writes
  <2>2. row.qty # 0 /\ row.policy # NoPolicy
    BY <1>2, <1>5, <1>9
  <2>3. Linked(work') /\ Tombstones(work')
    BY <1>3, <1>6, <1>9, <1>10, <1>11, <2>1, <2>2, WorkParts, UnitsKept
  <2> QED BY <2>3 DEF Linked, Tombstones, Buried, Zero, Stored
<1>13. Goto(h, t)
  BY <1>1, <1>2, TodoUpdate
<1> HIDE DEF t
<1>14. /\ task' \in [Workers -> Elsewhere \cup AtDocument \cup InLines] /\ task'[h] \in InLines
       /\ task'[h].log = task[h].log /\ task'[h].n = task[h].n
       /\ task'[h].todo = todo /\ task'[h].gone = task[h].gone
       /\ \A g \in Workers \ {h} : task'[g] = task[g]
       /\ Doc(h)' = Doc(h)
  BY <1>1, <1>13, NextLine DEF t
<1>15. work'.doc = work.doc
  BY <1>10 DEF Writes
<1>16. Applying(h)'
  BY <1>1, <1>2, <1>4, <1>14, <1>15 DEF Applying
<1> QED BY <1>1, <1>2, <1>3, <1>6, <1>9, <1>10, <1>12, <1>14, <1>16, LineKeeps

LEMMA RefundStep == ASSUME IInv, NEW h \in Workers, NEW i \in Items, ApplyRefundLine(h, i) PROVE StepKept
<1> DEFINE d == Doc(h)
           x == <<d.key, i>>
           s == d.lines[i]
           orig == work.line[s.of]
           rev == IF s.rev = NoAmount THEN Money(orig.rev * s.qty, orig.qty) ELSE s.rev
           todo == task[h].todo \ {i}
           t == [at |-> "lines", log |-> task[h].log, n |-> task[h].n, todo |-> todo, gone |-> task[h].gone]
<1>1. /\ task[h] \in InLines /\ Applying(h) /\ Normalized(d) /\ d.key \in Docs
      /\ task[h].todo \subseteq Items /\ task[h].gone \subseteq Lines
      /\ work.doc[d.key].status # "CANCELLED" => Moving(d.key)
  BY AtWork DEF ApplyRefundLine
<1>2. PICK com \in Nat :
        /\ i \in task[h].todo /\ d.key \in Refunds
        /\ work.doc[s.of[1]].status = "ACTIVE" /\ Stored(work, s.of) /\ orig.qty > 0
        /\ UNCHANGED <<book, holder, policy>>
        /\ work' = Recorded(d.key, work, x, [qty |-> s.qty, rev |-> rev, com |-> com,
                                             policy |-> orig.policy, of |-> s.of])
        /\ Goto(h, [task[h] EXCEPT !.todo = todo])
  BY DEF ApplyRefundLine
<1> DEFINE row == [qty |-> s.qty, rev |-> rev, com |-> com, policy |-> orig.policy, of |-> s.of]
<1>3. x \in Lines /\ x[1] = d.key
  BY <1>1 DEF Lines
<1>4. i \in DOMAIN d.lines /\ ~d.cancelled
  BY <1>1, <1>2 DEF Applying, Normalized
<1>5. d.key \notin Sales
  BY <1>2, ProjectionAssumption
<1>6. s.qty \in Nat /\ s.qty > 0 /\ s.rev \in Nat \cup {NoAmount} /\ s.of \in Sales \X Items
  BY <1>1, <1>4, <1>5 DEF Normalized
<1>7. s.of \in Lines /\ s.of[1] \in Sales /\ s.of # NoLine
  BY <1>6, ProjectionAssumption DEF Lines, Docs
<1>8. work.doc[d.key].status = "ACTIVE"
  BY <1>1, <1>4 DEF Applying
<1>9. orig.qty \in Nat /\ orig.rev \in Nat /\ orig.policy \in Policies \cup {NoPolicy}
  BY <1>7, WorkParts, BookParts
<1>10. rev \in Nat
  <2>1. orig.rev * s.qty \in Nat
    BY <1>6, <1>9
  <2>2. Money(orig.rev * s.qty, orig.qty) \in Nat
    BY <1>2, <1>9, <2>1, MoneyNat
  <2> QED BY <1>6, <2>2
<1>11. row \in LineRec /\ row.qty = s.qty /\ row.of = s.of /\ row.policy = orig.policy
  <2> HIDE DEF rev, s, orig
  <2> QED BY <1>6, <1>7, <1>9, <1>10 DEF LineRec
<1>12. work' = Recorded(d.key, work, x, row)
  BY <1>2
<1> HIDE DEF row, rev
<1>13. Writes(work, work', x, row)
  BY <1>3, <1>11, <1>12, WorkParts, RecordedWrites
<1>14. Linked(work)' /\ Tombstones(work)'
  <2>1. work' \in Book
    BY <1>13 DEF Writes
  <2>2. row.qty # 0 /\ row.policy # NoPolicy
    <3>1. s.qty # 0 BY <1>6
    <3>2. orig.policy # NoPolicy BY <1>2 DEF Stored
    <3> HIDE DEF s, orig
    <3> QED BY <1>11, <3>1, <3>2
  <2>3. Linked(work') /\ Tombstones(work')
    BY <1>2, <1>3, <1>5, <1>7, <1>8, <1>11, <1>13, <2>1, <2>2, WorkParts, UnitsKept
  <2> QED BY <2>3 DEF Linked, Tombstones, Buried, Zero, Stored
<1>15. Goto(h, t)
  BY <1>1, <1>2, TodoUpdate
<1> HIDE DEF t
<1>16. /\ task' \in [Workers -> Elsewhere \cup AtDocument \cup InLines] /\ task'[h] \in InLines
       /\ task'[h].log = task[h].log /\ task'[h].n = task[h].n
       /\ task'[h].todo = todo /\ task'[h].gone = task[h].gone
       /\ \A g \in Workers \ {h} : task'[g] = task[g]
       /\ Doc(h)' = Doc(h)
  BY <1>1, <1>15, NextLine DEF t
<1>17. work'.doc = work.doc
  BY <1>13 DEF Writes
<1>18. Applying(h)'
  BY <1>1, <1>2, <1>4, <1>16, <1>17 DEF Applying
<1> QED BY <1>1, <1>2, <1>3, <1>8, <1>11, <1>13, <1>14, <1>16, <1>18, LineKeeps

LEMMA RetireRefundStep == ASSUME IInv, NEW h \in Workers, NEW y \in Lines, RetireRefund(h, y) PROVE StepKept
<1> DEFINE d == Doc(h)
           row == Emptied(work.line[y])
<1>1. /\ task[h] \in InLines /\ Applying(h) /\ d.key \in Docs
      /\ work.doc[d.key].status # "CANCELLED" => Moving(d.key)
  BY AtWork DEF RetireRefund
<1>2. PICK x \in task[h].gone : work.line[y].of = x /\ work.line[y].qty > 0
  BY DEF RetireRefund, RefundsOf
<1>3. d.cancelled /\ UNCHANGED <<book, holder, policy, task>> /\ work' = Recorded(d.key, work, y, row)
  BY DEF RetireRefund
<1>4. x \in Lines /\ x[1] = d.key
  BY <1>1, <1>2, TasksApart DEF Applying
<1>5. row \in LineRec
  BY WorkParts, BookParts DEF Emptied, LineRec
<1>6. Writes(work, work', y, row)
  BY <1>3, <1>5, WorkParts, RecordedWrites
<1>7. work' \in Book /\ work'.doc = work.doc
  BY <1>6 DEF Writes
<1>8. Linked(work') /\ Tombstones(work') /\ \A z \in Lines : Buried(work, z) => Buried(work', z)
  BY <1>6, <1>7, WorkParts, EmptyKept
<1>9. Linked(work)' /\ Tombstones(work)' /\ \A z \in Lines : Buried(work, z) => Buried(work, z)'
  BY <1>8 DEF Linked, Tombstones, Buried, Zero, Stored
<1>10. Moving(x[1])
  <2>1. ~Zero(work.line[y])
    BY <1>2, WorkParts, BookParts DEF Zero
  <2>2. ~Buried(work, x)
    BY <1>2, <2>1 DEF Buried
  <2> QED BY <1>1, <1>4, <2>2, WorkParts DEF Tombstones
<1>11. \/ Moved(y[1]) \/ Moving(y[1])
       \/ book.line[y].of # NoLine /\ (Moved(book.line[y].of[1]) \/ Moving(book.line[y].of[1]))
  <2>1. CASE book.line[y].of = x
    BY <1>4, <1>10, <2>1, ProjectionAssumption
  <2>2. CASE book.line[y].of # x
    BY <1>2, <2>2 DEF IInv, Accounted
  <2> QED BY <2>1, <2>2
<1>12. Applying(h)'
  <2>1. Doc(h)' = Doc(h)
    BY <1>3 DEF Doc
  <2> QED BY <1>1, <1>3, <1>7, <1>9, <2>1 DEF Applying
<1>13. task' = task /\ task \in [Workers -> Elsewhere \cup AtDocument \cup InLines]
  BY <1>3 DEF IInv, Typed
<1> HIDE DEF row
<1> QED BY <1>1, <1>3, <1>5, <1>6, <1>9, <1>11, <1>12, <1>13, LineKeeps

LEMMA RetireLineStep == ASSUME IInv, NEW h \in Workers, NEW x \in Lines, RetireLine(h, x) PROVE StepKept
<1> DEFINE d == Doc(h)
           row == Emptied(work.line[x])
           gone == task[h].gone \ {x}
           t == [at |-> "lines", log |-> task[h].log, n |-> task[h].n, todo |-> task[h].todo, gone |-> gone]
<1>1. /\ task[h] \in InLines /\ Applying(h) /\ d.key \in Docs
      /\ task[h].todo \subseteq Items /\ task[h].gone \subseteq Lines
      /\ work.doc[d.key].status # "CANCELLED" => Moving(d.key)
  BY AtWork DEF RetireLine
<1>2. x \in task[h].gone /\ x[1] = d.key /\ \A y \in Lines : work.line[y].of = x => work.line[y].qty = 0
  BY <1>1 DEF RetireLine, RefundsOf, Applying
<1>3. UNCHANGED <<book, holder, policy>> /\ work' = Recorded(d.key, work, x, row)
      /\ Goto(h, [task[h] EXCEPT !.gone = gone])
  BY DEF RetireLine
<1>4. row \in LineRec
  BY WorkParts, BookParts DEF Emptied, LineRec
<1>5. Writes(work, work', x, row)
  BY <1>3, <1>4, WorkParts, RecordedWrites
<1>6. work' \in Book /\ work'.doc = work.doc
  BY <1>5 DEF Writes
<1>7. /\ Linked(work') /\ Tombstones(work') /\ Zero(work'.line[x])
      /\ \A y \in Lines : work'.line[y].of = work.line[y].of /\ (Zero(work.line[y]) => Zero(work'.line[y]))
      /\ \A z \in Lines : Buried(work, z) => Buried(work', z)
      /\ Zero(work.line[x]) => row = work.line[x]
  BY <1>5, <1>6, WorkParts, EmptyKept
<1>8. Buried(work', x)
  BY <1>2, <1>7, WorkParts DEF Buried, Linked
<1>9. /\ Linked(work)' /\ Tombstones(work)' /\ Buried(work, x)'
      /\ \A z \in Lines : Buried(work, z) => Buried(work, z)'
  BY <1>7, <1>8 DEF Linked, Tombstones, Buried, Zero, Stored
<1>10. row # work.line[x] => Moving(x[1])
  BY <1>1, <1>2, <1>7, WorkParts DEF Tombstones, Buried
<1>11. Goto(h, t)
  BY <1>1, <1>3, TodoUpdate
<1> HIDE DEF t, row
<1>12. /\ task' \in [Workers -> Elsewhere \cup AtDocument \cup InLines] /\ task'[h] \in InLines
       /\ task'[h].log = task[h].log /\ task'[h].n = task[h].n
       /\ task'[h].todo = task[h].todo /\ task'[h].gone = gone
       /\ \A g \in Workers \ {h} : task'[g] = task[g]
       /\ Doc(h)' = Doc(h)
  BY <1>1, <1>11, NextLine DEF t
<1>13. Applying(h)'
  BY <1>1, <1>2, <1>3, <1>6, <1>9, <1>12 DEF Applying
<1> QED BY <1>1, <1>3, <1>4, <1>5, <1>9, <1>10, <1>12, <1>13, LineKeeps

-----------------------------------------------------------------------------
(* Opening and closing a document *)

LEMMA DocChange ==
    ASSUME NEW b \in Book, NEW f, NEW S
    PROVE  /\ [b EXCEPT !.doc = f] = [doc |-> f, line |-> b.line, ledger |-> b.ledger, events |-> b.events]
           /\ [b EXCEPT !.doc = f, !.events = S]
              = [doc |-> f, line |-> b.line, ledger |-> b.ledger, events |-> S]
<1>1. [b EXCEPT !.doc = f] = [doc |-> f, line |-> b.line, ledger |-> b.ledger, events |-> b.events]
  BY DEF Book
<1>2. [b EXCEPT !.doc = f, !.events = S] = [[b EXCEPT !.doc = f] EXCEPT !.events = S]
  BY DEF Book
<1>3. [[doc |-> f, line |-> b.line, ledger |-> b.ledger, events |-> b.events] EXCEPT !.events = S]
      = [doc |-> f, line |-> b.line, ledger |-> b.ledger, events |-> S]
  OBVIOUS
<1> QED BY <1>1, <1>2, <1>3

\* The lines stay and one document changes: it may be new, or keeps its lines buried
\* if it is cancelled.
LEMMA DocKept ==
    ASSUME IInv, NEW k \in Docs, NEW r \in DocRec, NEW S \in SUBSET Documents,
           work' = [doc |-> [work.doc EXCEPT ![k] = r], line |-> work.line, ledger |-> work.ledger,
                    events |-> S],
           r.status # "none",
           r.status = "CANCELLED" => \A x \in Lines : x[1] = k => Buried(work, x)
    PROVE  SoundBook(work)' /\ work'.line = work.line
           /\ work'.doc[k] = r /\ \A j \in Docs \ {k} : work'.doc[j] = work.doc[j]
<1>1. work'.line = work.line /\ work'.ledger = work.ledger
  OBVIOUS
<1>2. work'.doc[k] = r /\ \A j \in Docs \ {k} : work'.doc[j] = work.doc[j]
  BY WorkParts, BookParts
<1>3. work' \in Book
  BY WorkParts, BookParts DEF Book
<1>4. \A x \in Lines : x[1] \in Docs
  BY DEF Lines
<1>5. Explained(work)'
  BY <1>1, WorkParts DEF Explained, Explains
<1>6. Linked(work)'
  BY <1>1, <1>2, <1>4, WorkParts DEF Linked, Zero, Stored
<1>7. Tombstones(work)'
  BY <1>1, <1>2, <1>4, WorkParts DEF Tombstones, Buried, Zero
<1> QED BY <1>1, <1>2, <1>3, <1>5, <1>6, <1>7 DEF SoundBook

LEMMA BookStays == ASSUME IInv, UNCHANGED book PROVE SoundBook(book)'
  BY DEF IInv, SoundBook, Explained, Linked, Tombstones, Buried, Zero, Explains, Stored

LEMMA OpenStep == ASSUME IInv, NEW h \in Workers, OpenDocument(h) PROVE StepKept
<1> DEFINE d == Doc(h)
           k == d.key
           known == work.doc[k]
           r == IF known.status = "none"
                THEN [status |-> IF d.cancelled THEN "CANCELLED" ELSE "ACTIVE", at |-> d.at]
                ELSE known
           S == work.events \cup {d}
           todo == DOMAIN d.lines
           gone == {x \in LinesOf(work, k) : x[2] \notin DOMAIN d.lines}
           t == [at |-> "lines", log |-> task[h].log, n |-> task[h].n, todo |-> todo, gone |-> gone]
<1>1. task[h] \in AtDocument /\ task[h].n <= Len(Content[task[h].log])
  BY Where DEF OpenDocument, IInv
<1>2. Normalized(d) /\ d \in Documents /\ k \in Docs /\ d.at \in Nat
  BY <1>1, DocNormal
<1>3. /\ ~Superseded(work, d) /\ Acceptable(work, d) /\ UNCHANGED <<book, holder, policy>>
      /\ work' = [work EXCEPT !.doc = [work.doc EXCEPT ![k] = r], !.events = S]
      /\ Goto(h, t)
  BY DEF OpenDocument
<1>4. known.status \in DocStatus /\ known.at \in Nat /\ known \in DocRec
  BY <1>2, WorkParts, BookParts
<1>5. r \in DocRec /\ r.status # "none" /\ (known.status # "none" => r = known)
      /\ (known.status = "none" => r.at = d.at /\ r.status = IF d.cancelled THEN "CANCELLED" ELSE "ACTIVE")
  BY <1>2, <1>4 DEF DocRec, DocStatus
<1>6. S \in SUBSET Documents
  BY <1>2, WorkParts, BookParts
<1>7. work' = [doc |-> [work.doc EXCEPT ![k] = r], line |-> work.line, ledger |-> work.ledger, events |-> S]
  <2> HIDE DEF r, S, k
  <2> QED BY <1>3, WorkParts, DocChange, Zenon
<1>8. known.status = "none" => \A x \in Lines : x[1] = k => Buried(work, x)
  <2> SUFFICES ASSUME known.status = "none", NEW x \in Lines, x[1] = k PROVE Buried(work, x)
    OBVIOUS
  <2>1. ~Stored(work, x) /\ work.line[x] = NoRow
    BY WorkParts DEF Linked
  <2>2. \A y \in Lines : work.line[y].of # x
    BY <2>1, WorkParts, ProjectionAssumption DEF Linked
  <2> QED BY <2>1, <2>2 DEF Buried, Zero, NoRow
<1>9. r.status = "CANCELLED" => \A x \in Lines : x[1] = k => Buried(work, x)
  BY <1>5, <1>8, WorkParts DEF Tombstones
<1> HIDE DEF r, S
<1>10. /\ SoundBook(work)' /\ work'.line = work.line
       /\ work'.doc[k] = r /\ \A j \in Docs \ {k} : work'.doc[j] = work.doc[j]
  BY <1>2, <1>5, <1>6, <1>7, <1>9, DocKept
<1>11. todo \subseteq Items /\ (d.cancelled <=> todo = {})
  BY <1>2 DEF Normalized
<1>12. gone \subseteq Lines /\ \A x \in gone : x[1] = k
  BY DEF LinesOf
<1> DEFINE TT == Elsewhere \cup AtDocument \cup InLines
<1>13. t \in InLines /\ t.todo = todo /\ t.gone = gone /\ t.n = task[h].n /\ t.log = task[h].log
  <2> HIDE DEF todo, gone
  <2>1. task[h].log \in Logs /\ task[h].n \in Nat \ {0}
    BY <1>1, TasksApart
  <2> QED BY <1>11, <1>12, <2>1 DEF InLines
<1> HIDE DEF t, todo, gone
<1>14. task' \in [Workers -> Elsewhere \cup AtDocument \cup InLines] /\ task'[h] = t
       /\ \A g \in Workers \ {h} : task'[g] = task[g]
  BY <1>3, <1>13, GotoTask DEF IInv
<1>15. Doc(h)' = d
  BY <1>13, <1>14 DEF Doc
<1>16. \A g \in Workers \ {h} : task[g] \notin AtDocument \cup InLines
  BY <1>1, Alone
<1>17. holder = h /\ holder # NoWorker
  BY <1>1, ProjectionAssumption DEF IInv, Exclusive
<1>18. Applying(h)'
  <2>1. task'[h].n \in 1 .. Len(Content[task'[h].log])
    BY <1>1, <1>13, <1>14, TasksApart
  <2>2. r.status # "none"
    BY <1>5
  <2>3. CASE d.cancelled
    <3>1. \A x \in Lines : x[1] = k => x \in gone \/ Buried(work, x)
      <4> SUFFICES ASSUME NEW x \in Lines, x[1] = k, x \notin gone PROVE Buried(work, x)
        OBVIOUS
      <4>1. ~Stored(work, x)
        BY <1>11, <2>3 DEF gone, LinesOf, todo
      <4>2. work.line[x] = NoRow
        BY <4>1, WorkParts DEF Linked
      <4>3. \A y \in Lines : work.line[y].of # x
        BY <4>1, WorkParts, ProjectionAssumption DEF Linked
      <4> QED BY <4>2, <4>3 DEF Buried, Zero, NoRow
    <3>2. \A x \in Lines : Buried(work, x) => Buried(work, x)'
      BY <1>10 DEF Buried, Zero
    <3>3. d.at = 0 \/ d.at >= r.at
      BY <1>2, <1>3, <1>4, <1>5 DEF Superseded
    <3> QED BY <1>3, <1>10, <1>12, <1>13, <1>14, <1>15, <2>1, <2>2, <2>3, <3>1, <3>2, <3>3 DEF Applying, todo
  <2>4. CASE ~d.cancelled
    <3>1. r.status = "ACTIVE"
      BY <1>3, <1>4, <1>5, <2>4 DEF Acceptable, DocStatus
    <3>2. d.at = 0 \/ d.at >= r.at
      BY <1>2, <1>3, <1>4, <1>5 DEF Superseded
    <3>3. book.doc[k].status = "none" \/ (d.at # 0 /\ d.at > r.at)
      <4>1. CASE known.status = "none"
        BY <1>2, <4>1 DEF IInv, Forward
      <4>2. CASE known.status # "none"
        BY <1>2, <1>3, <1>4, <1>5, <2>4, <4>2 DEF Acceptable
      <4> QED BY <4>1, <4>2
    <3> QED BY <1>3, <1>10, <1>12, <1>13, <1>14, <1>15, <2>1, <2>2, <2>4, <3>1, <3>2, <3>3 DEF Applying, todo
  <2> QED BY <2>3, <2>4
<1>19. Typed'
  BY <1>3, <1>14 DEF IInv, Typed
<1>20. Exclusive'
  BY <1>3, <1>14, <1>16, <1>17, <1>18 DEF Exclusive
<1>21. \A j \in Docs : Moved(j) \/ Moving(j) => MovedTo(work', j)
  <2>1. \A j : ~Moving(j)
    BY <1>1, <1>16, TasksApart DEF Moving
  <2>2. \A j \in Docs \ {k} : Moved(j) => MovedTo(work', j)
    BY <1>3, <1>10 DEF Moved, MovedTo
  <2>3. Moved(k) => MovedTo(work', k)
    BY <1>2, <1>3, <1>5, <1>10 DEF Moved, MovedTo, IInv, Forward
  <2> QED BY <2>1, <2>2, <2>3
<1>22. Forward'
  BY <1>2, <1>3, <1>5, <1>10 DEF IInv, Forward
<1>23. Accounted'
  <2>1. \A x \in Lines : x[1] \in Docs /\ (book.line[x].of # NoLine => book.line[x].of[1] \in Docs)
    BY BookParts DEF Lines, IInv, SoundBook
  <2> QED BY <1>3, <1>10, <1>21, <2>1 DEF IInv, Accounted, Moved, MovedTo
<1> QED BY <1>3, <1>10, <1>19, <1>20, <1>22, <1>23, BookStays DEF IInv, StepKept

LEMMA CloseStep == ASSUME IInv, NEW h \in Workers, CloseDocument(h) PROVE StepKept
<1> DEFINE d == Doc(h)
           k == d.key
           known == work.doc[k]
           r == [status |-> IF d.cancelled THEN "CANCELLED" ELSE "ACTIVE", at |-> IF d.at = 0 THEN known.at ELSE d.at]
           t == [at |-> "document", log |-> task[h].log, n |-> task[h].n + 1]
<1>1. task[h] \in InLines /\ Applying(h) /\ k \in Docs /\ d.at \in Nat
  BY AtWork DEF CloseDocument
<1>2. /\ task[h].gone = {} /\ UNCHANGED <<book, holder, policy>>
      /\ work' = [work EXCEPT !.doc = [work.doc EXCEPT ![k] = r]] /\ Goto(h, t)
  BY DEF CloseDocument, NextDoc
<1>3. known.at \in Nat /\ known.status \in DocStatus
  BY <1>1, WorkParts, BookParts
<1>4. r \in DocRec /\ r.status = (IF d.cancelled THEN "CANCELLED" ELSE "ACTIVE")
      /\ r.at = (IF d.at = 0 THEN known.at ELSE d.at)
  BY <1>1, <1>3 DEF DocRec, DocStatus
<1>5. r.status = "CANCELLED" => \A x \in Lines : x[1] = k => Buried(work, x)
  BY <1>1, <1>2, <1>4 DEF Applying
<1> HIDE DEF r
<1>6. work' = [doc |-> [work.doc EXCEPT ![k] = r], line |-> work.line, ledger |-> work.ledger,
               events |-> work.events]
  BY <1>2, WorkParts, DocChange
<1>7. /\ SoundBook(work)' /\ work'.line = work.line
      /\ work'.doc[k] = r /\ \A j \in Docs \ {k} : work'.doc[j] = work.doc[j]
  <2>1. work.events \in SUBSET Documents /\ r.status # "none"
    BY <1>4, WorkParts, BookParts
  <2> QED BY <1>1, <1>4, <1>5, <1>6, <2>1, DocKept
<1>8. t \in AtDocument
  <2>1. task[h].log \in Logs /\ task[h].n + 1 \in Nat \ {0}
    BY <1>1, TasksApart
  <2> QED BY <2>1 DEF AtDocument
<1> HIDE DEF t
<1>9. task' \in [Workers -> Elsewhere \cup AtDocument \cup InLines] /\ task'[h] = t
      /\ \A g \in Workers \ {h} : task'[g] = task[g]
  BY <1>2, <1>8, GotoTask DEF IInv
<1>10. \A g \in Workers \ {h} : task[g] \notin AtDocument \cup InLines
  BY <1>1, Alone
<1>11. holder = h /\ holder # NoWorker
  BY <1>1, ProjectionAssumption DEF IInv, Exclusive
<1>12. Typed'
  BY <1>2, <1>9 DEF IInv, Typed
<1>13. t \notin InLines
  BY <1>8, TasksApart
<1>14. Exclusive'
  BY <1>2, <1>9, <1>10, <1>11, <1>13 DEF Exclusive
<1>15. r.at >= known.at /\ (known.status = "CANCELLED" => r.status = "CANCELLED")
  BY <1>1, <1>3, <1>4 DEF Applying
<1>16. \A j \in Docs : Moved(j) \/ Moving(j) => MovedTo(work', j)
  <2>1. \A j : Moving(j) => j = k /\ known.status # "CANCELLED"
    BY <1>10 DEF Moving
  <2>2. \A j \in Docs \ {k} : Moved(j) => MovedTo(work', j)
    BY <1>2, <1>7 DEF Moved, MovedTo
  <2>3. book.doc[k].at \in Nat
    BY <1>1, BookParts DEF IInv, SoundBook
  <2>4. Moved(k) => MovedTo(work', k)
    BY <1>2, <1>3, <1>4, <1>7, <1>15, <2>3, <1>1 DEF Moved, MovedTo
  <2>5. known.status # "CANCELLED" => MovedTo(work', k)
    <3> SUFFICES ASSUME known.status # "CANCELLED", book.doc[k].status # "none" PROVE MovedTo(work', k)
      BY <1>2 DEF Moved, MovedTo
    <3>1. book.doc[k].status # "CANCELLED" /\ known.at >= book.doc[k].at
      BY <1>1 DEF IInv, Forward
    <3>2. CASE d.cancelled
      BY <1>2, <1>4, <1>7, <3>1, <3>2 DEF Moved, MovedTo
    <3>3. CASE ~d.cancelled
      <4>1. d.at # 0 /\ d.at > known.at
        BY <1>1, <3>3 DEF Applying
      <4> QED BY <1>1, <1>2, <1>3, <1>4, <1>7, <2>3, <3>1, <4>1 DEF Moved, MovedTo
    <3> QED BY <3>2, <3>3
  <2> QED BY <2>1, <2>2, <2>4, <2>5
<1>17. Forward'
  <2>1. \A j \in Docs : book.doc[j].at \in Nat
    BY BookParts DEF IInv, SoundBook
  <2> QED BY <1>1, <1>2, <1>3, <1>4, <1>7, <1>15, <2>1 DEF IInv, Forward
<1>18. Accounted'
  <2>1. \A x \in Lines : x[1] \in Docs /\ (book.line[x].of # NoLine => book.line[x].of[1] \in Docs)
    BY BookParts DEF Lines, IInv, SoundBook
  <2> QED BY <1>2, <1>7, <1>16, <2>1 DEF IInv, Accounted, Moved, MovedTo
<1> QED BY <1>2, <1>7, <1>12, <1>14, <1>17, <1>18, BookStays DEF IInv, StepKept

LEMMA SkipStep == ASSUME IInv, NEW h \in Workers, SkipDocument(h) PROVE StepKept
<1> DEFINE t == [at |-> "document", log |-> task[h].log, n |-> task[h].n + 1]
<1>1. task[h] \in AtDocument
  BY Where DEF SkipDocument, IInv
<1>2. t \in AtDocument
  <2>1. task[h].log \in Logs /\ task[h].n + 1 \in Nat \ {0}
    BY <1>1, TasksApart
  <2> QED BY <2>1 DEF AtDocument
<1>3. Goto(h, t)
  BY DEF SkipDocument, NextDoc
<1> HIDE DEF t
<1>4. task' \in [Workers -> Elsewhere \cup AtDocument \cup InLines] /\ task'[h] = t
      /\ \A g \in Workers \ {h} : task'[g] = task[g]
  BY <1>2, <1>3, GotoTask DEF IInv
<1>5. task[h] \notin InLines /\ t \notin InLines /\ holder = h
  BY <1>1, <1>2, TasksApart DEF IInv, Exclusive
<1>6. Outside
  BY <1>4, <1>5 DEF Outside
<1> QED BY <1>4, <1>5, <1>6, QuietKeeps DEF SkipDocument, IInv, Typed

-----------------------------------------------------------------------------
(* Steps outside the transaction *)

\* A worker goes from one place outside the transaction to another.
LEMMA OutsideStep ==
    ASSUME IInv, NEW h \in Workers, task[h] \notin InLines, NEW t \in Elsewhere, Goto(h, t),
           UNCHANGED <<tables, policy>>
    PROVE  StepKept
<1>1. task' \in [Workers -> Elsewhere \cup AtDocument \cup InLines]
      /\ task'[h] = t /\ \A g \in Workers \ {h} : task'[g] = task[g]
  BY GotoTask DEF IInv
<1>2. t \notin AtDocument \cup InLines
  BY TasksApart
<1>3. Outside
  BY <1>1, <1>2 DEF Outside
<1> QED BY <1>1, <1>2, <1>3, QuietKeeps DEF IInv, Typed

\* Nobody moves.
LEMMA StillStep ==
    ASSUME IInv, UNCHANGED <<tables, task>>, policy' \in Policies \cup {NoPolicy} PROVE StepKept
<1>1. Outside
  BY DEF Outside, IInv, Typed
<1> QED BY <1>1, QuietKeeps

LEMMA OpenInboxStep == ASSUME IInv, NEW h \in Workers, OpenInbox(h) PROVE StepKept
<1>1. task[h] \in Elsewhere /\ task[h].log \in Logs /\ task[h] \notin InLines
  BY Where, TasksApart DEF OpenInbox, IInv
<1>2. /\ [at |-> "failed", log |-> task[h].log] \in Elsewhere
      /\ [at |-> "begin", log |-> task[h].log] \in Elsewhere /\ Idle \in Elsewhere
  BY <1>1, ElsewhereTask
<1>3. CASE Goto(h, Idle)
  BY <1>1, <1>2, <1>3, OutsideStep DEF OpenInbox
<1>4. CASE Goto(h, [at |-> "failed", log |-> task[h].log])
  BY <1>1, <1>2, <1>4, OutsideStep DEF OpenInbox
<1>5. CASE Goto(h, [at |-> "begin", log |-> task[h].log])
  BY <1>1, <1>2, <1>5, OutsideStep DEF OpenInbox
<1> QED BY <1>3, <1>4, <1>5 DEF OpenInbox

LEMMA SettleStep == ASSUME IInv, NEW h \in Workers, Settle(h) PROVE StepKept
<1>1. task[h] \notin InLines
  BY Where DEF Settle, IInv
<1>2. Idle \in Elsewhere
  BY DEF Elsewhere
<1> QED BY <1>1, <1>2, OutsideStep DEF Settle

\* A worker takes a log it found, or an exception.
LEMMA TakeStep ==
    ASSUME IInv, NEW h \in Workers, NEW l \in Logs, TakeLog(h, l) \/ RetryException(h, l)
    PROVE  StepKept
<1>1. task[h] = Idle /\ Goto(h, [at |-> "open", log |-> l]) /\ UNCHANGED <<tables, policy>>
  BY DEF TakeLog, RetryException
<1>2. [at |-> "open", log |-> l] \in Elsewhere /\ task[h] \notin InLines
  BY <1>1, ElsewhereTask, TasksApart
<1> QED BY <1>1, <1>2, OutsideStep

LEMMA AbortStep == ASSUME IInv, NEW h \in Workers, Abort(h) PROVE StepKept
<1>1. task[h].log \in Logs
  BY Where, TasksApart DEF Abort, IInv, Typed
<1>2. [at |-> "failed", log |-> task[h].log] \in Elsewhere
  BY <1>1, ElsewhereTask
<1> QED BY <1>2, RollBackStep DEF Abort

LEMMA CrashStep == ASSUME IInv, NEW h \in Workers, Crash(h) PROVE StepKept
<1>1. Idle \in Elsewhere
  BY DEF Elsewhere
<1> QED BY <1>1, RollBackStep DEF Crash

LEMMA ProjectionStep == ASSUME IInv, ProjectionNext PROVE StepKept
<1>1. CASE \E l \in Logs : Receive(l)
  BY <1>1, StillStep DEF Receive, IInv, Typed
<1>2. CASE \E p \in Policies : ConfigureRate(p)
  BY <1>2, StillStep DEF ConfigureRate
<1>3. ASSUME NEW h \in Workers, FindLogs(h) PROVE StepKept
  BY <1>3, StillStep DEF FindLogs, IInv, Typed
<1>4. ASSUME NEW h \in Workers, Projecting(h) PROVE StepKept
  BY <1>4, OpenInboxStep, BeginStep, AbortStep, SettleStep, SkipStep, OpenStep, CloseStep, CommitStep,
     SaleStep, RefundStep, RetireRefundStep, RetireLineStep DEF Projecting
<1> QED BY <1>1, <1>2, <1>3, <1>4, CrashStep, TakeStep DEF ProjectionNext

LEMMA ProjectionStart == ProjectionInit => IInv
<1> SUFFICES ASSUME ProjectionInit PROVE IInv
  OBVIOUS
<1>1. NoRow \in LineRec /\ Zero(NoRow) /\ NoRow.of = NoLine /\ NoRow.policy = NoPolicy
  BY DEF NoRow, LineRec, Zero
<1>2. [status |-> "none", at |-> 0] \in DocRec
  BY DEF DocRec, DocStatus
<1>3. [qty |-> 0, rev |-> 0, com |-> 0] \in Entry
  BY DEF Entry
<1>4. EmptyBook \in Book
  BY <1>1, <1>2, <1>3 DEF EmptyBook, Book
<1>5. /\ \A x \in Lines : EmptyBook.line[x] = NoRow /\ EmptyBook.ledger[x] = [qty |-> 0, rev |-> 0, com |-> 0]
      /\ \A k \in Docs : EmptyBook.doc[k] = [status |-> "none", at |-> 0]
  BY DEF EmptyBook
<1>6. Explained(EmptyBook)
  BY <1>5 DEF Explained, Explains, NoRow
<1>7. Linked(EmptyBook)
  BY <1>1, <1>5 DEF Linked, Stored
<1>8. Tombstones(EmptyBook)
  BY <1>1, <1>5 DEF Tombstones, Buried
<1>9. SoundBook(book) /\ SoundBook(work)
  BY <1>4, <1>6, <1>7, <1>8 DEF ProjectionInit, SoundBook
<1>10. \A h \in Workers : task[h] \in Elsewhere /\ task[h] \notin AtDocument \cup InLines
  BY TasksApart DEF ProjectionInit, Elsewhere
<1>11. Typed
  BY <1>10 DEF ProjectionInit, Typed, Elsewhere
<1>12. Exclusive
  BY <1>10 DEF Exclusive, ProjectionInit
<1>13. Forward /\ Accounted
  BY <1>5 DEF Forward, Accounted, ProjectionInit
<1> QED BY <1>9, <1>11, <1>12, <1>13 DEF IInv

LEMMA StutterStep == ASSUME IInv, UNCHANGED projectionVars PROVE StepKept
  BY StillStep DEF projectionVars, IInv, Typed

-----------------------------------------------------------------------------
(* What holds in every state, and of every step *)

\* The committed tables and those of the transaction are sound, one transaction at a
\* time is past the lock, and what it has changed belongs to documents that advance.
THEOREM ProjectionInvariant == ProjectionSpec => []IInv
<1>1. IInv /\ [ProjectionNext]_projectionVars => IInv'
  BY ProjectionStep, StutterStep DEF StepKept
<1> QED BY <1>1, ProjectionStart, PTL DEF ProjectionSpec

\* Whatever logs arrive, in whatever order, retried or interrupted, the ledger of a
\* line always adds up to the line (record, in projection.ts).
THEOREM LedgerExplains == ProjectionSpec => []LedgerExplainsLines
<1>1. IInv => LedgerExplainsLines
  BY DEF IInv, SoundBook, Explained, Explains, LedgerExplainsLines
<1> QED BY <1>1, ProjectionInvariant, PTL

\* A committed document never goes back to an older version or comes back from a
\* cancellation, and its lines change only as it, or the sale they refund, advances.
THEOREM RevisionsAdvance == ProjectionSpec => RevisionsOnlyAdvance
<1>1. IInv /\ [ProjectionNext]_projectionVars => [Revises]_book
  BY ProjectionStep, StutterStep DEF StepKept
<1> QED BY <1>1, ProjectionInvariant, PTL DEF ProjectionSpec, RevisionsOnlyAdvance, Revises

-----------------------------------------------------------------------------
(* Exchanges: what has been applied of a log *)

\* Logs that have a document in common bring the same documents: no return that
\* belongs to an exchange also comes alone.
Together ==
    \A k, l \in Logs : \A m \in DOMAIN Content[k], n \in DOMAIN Content[l] :
        Content[k][m] = Content[l][n] => Range(Content[l]) = Range(Content[k])

Done(b, d) == d \in b.events \/ Superseded(b, d)
Whole(b) ==
    \A l \in Logs : \A m, n \in DOMAIN Content[l] : Content[l][m] \in b.events => Done(b, Content[l][n])

\* Tables only take documents in, and their versions only rise.
Later(b, c) == b.events \subseteq c.events /\ \A k \in Docs : c.doc[k].at >= b.doc[k].at
Dated(b) == \A k \in Docs : b.doc[k].status = "none" => b.doc[k].at = 0

\* The transaction has done with the documents before the one it is at, has taken that
\* one in once it is in its lines, and has taken in nothing but documents of its log.
Underway ==
    /\ \A h \in Workers : task[h] \in AtDocument \cup InLines =>
         \A m \in DOMAIN Content[task[h].log] : m < task[h].n => Done(work, Content[task[h].log][m])
    /\ \A h \in Workers : task[h] \in InLines => Doc(h) \in work.events
    /\ \A d \in work.events : d \in book.events \/
         \E h \in Workers : task[h] \in AtDocument \cup InLines /\ d \in Range(Content[task[h].log])

Wholeness == Later(book, work) /\ Dated(book) /\ Dated(work) /\ Whole(book) /\ Underway

LEMMA Contents ==
    ASSUME NEW l \in Logs
    PROVE  /\ DOMAIN Content[l] = 1 .. Len(Content[l]) /\ Len(Content[l]) \in Nat
           /\ \A n \in DOMAIN Content[l] : Content[l][n] \in Range(Content[l])
           /\ \A d \in Range(Content[l]) : \E n \in DOMAIN Content[l] : d = Content[l][n]
           /\ \A n \in DOMAIN Content[l] : Content[l][n].key \in Docs /\ Content[l][n].at \in Nat
<1>1. Content[l] \in Seq(Range(Content[l])) BY ProjectionAssumption
<1>2. DOMAIN Content[l] = 1 .. Len(Content[l]) /\ Len(Content[l]) \in Nat BY <1>1
<1>3. \A n \in DOMAIN Content[l] : Normalized(Content[l][n]) BY <1>2, ProjectionAssumption
<1> QED BY <1>2, <1>3 DEF Range, Normalized

LEMMA DoneStays ==
    ASSUME NEW b \in Book, NEW c \in Book, Later(b, c), NEW d, d.key \in Docs, d.at \in Nat, Done(b, d)
    PROVE  Done(c, d)
<1>1. b.doc[d.key].at \in Nat /\ c.doc[d.key].at \in Nat BY BookParts
<1> QED BY <1>1 DEF Done, Superseded, Later

LEMMA WholeAgree ==
    ASSUME Whole(book)', Dated(book)', work' = book', SoundBook(book)',
           \A h \in Workers : task'[h] \in AtDocument \cup InLines => task'[h] \in AtDocument /\ task'[h].n = 1
    PROVE  Wholeness'
<1>1. \A k \in Docs : book'.doc[k].at \in Nat BY BookParts DEF SoundBook
<1>2. Later(book, work)' BY <1>1 DEF Later
<1>3. Dated(work)' BY DEF Dated
<1>4. \A h \in Workers : task'[h] \in AtDocument \cup InLines =>
         \A m \in DOMAIN Content[task'[h].log] : m < task'[h].n => Done(work', Content[task'[h].log][m])
  BY Contents, TasksApart
<1>5. \A h \in Workers : task'[h] \notin InLines BY TasksApart
<1>6. Underway' BY <1>4, <1>5 DEF Underway, Done, Superseded
<1> QED BY <1>2, <1>3, <1>6 DEF Wholeness

LEMMA WholeCommit == ASSUME Together, IInv, Wholeness, IInv', NEW h \in Workers, Commit(h) PROVE Wholeness'
<1>1. task[h] \in AtDocument /\ task[h].log \in Logs BY Where, TasksApart DEF IInv, Commit
<1> DEFINE l == task[h].log
<1>2. \A d \in Range(Content[l]) : Done(work, d)
  <2>1. task[h].n > Len(Content[l]) /\ task[h].n \in Nat BY <1>1, TasksApart DEF Commit
  <2>2. \A m \in DOMAIN Content[l] : m < task[h].n BY <1>1, <2>1, Contents
  <2>3. \A m \in DOMAIN Content[l] : Done(work, Content[l][m]) BY <1>1, <2>2 DEF Wholeness, Underway
  <2> QED BY <1>1, <2>3, Contents
<1>3. \A g \in Workers \ {h} : task[g] \notin AtDocument \cup InLines BY <1>1, Alone
<1>4. \A d \in work.events : d \in book.events \/ d \in Range(Content[l])
  BY <1>3 DEF Wholeness, Underway
<1>5. Whole(work)
  <2> SUFFICES ASSUME NEW k \in Logs, NEW m \in DOMAIN Content[k], NEW n \in DOMAIN Content[k],
                      Content[k][m] \in work.events
               PROVE  Done(work, Content[k][n])
    BY DEF Whole
  <2>1. CASE Content[k][m] \in book.events
    <3>1. Done(book, Content[k][n]) BY <2>1 DEF Wholeness, Whole
    <3> QED BY <3>1, Contents, DoneStays DEF IInv, SoundBook, Wholeness
  <2>2. CASE Content[k][m] \in Range(Content[l])
    <3>1. PICK i \in DOMAIN Content[l] : Content[k][m] = Content[l][i] BY <1>1, <2>2, Contents
    <3>2. Range(Content[k]) = Range(Content[l]) BY <1>1, <3>1 DEF Together
    <3> QED BY <1>2, <3>2, Contents
  <2> QED BY <1>4, <2>1, <2>2
<1>6. (Whole(book) /\ Dated(book))'
  <2>1. book' = work BY DEF Commit
  <2>2. Whole(book') /\ Dated(book') BY <1>5, <2>1 DEF Wholeness
  <2> QED BY <2>2 DEF Whole, Dated, Done, Superseded
<1>7. \A g \in Workers : task'[g] \notin AtDocument \cup InLines
  <2>1. task' = [task EXCEPT ![h] = Idle] BY DEF Commit, Goto
  <2>2. Idle \notin AtDocument \cup InLines BY TasksApart
  <2> QED BY <1>3, <2>1, <2>2 DEF IInv, Typed
<1> QED BY <1>6, <1>7, WholeAgree DEF Commit, IInv

\* Steps that leave the tables alone: a task inside the transaction stays, moves past a
\* document that is done with, or leaves it with the lock.
LEMMA WholeQuiet ==
    ASSUME Wholeness, UNCHANGED <<book, work>>,
           \A h \in Workers :
              \/ task'[h] = task[h]
              \/ task[h] \notin AtDocument \cup InLines /\ task'[h] \notin AtDocument \cup InLines
              \/ /\ task[h] \in AtDocument /\ task'[h] \in AtDocument
                 /\ task'[h].log = task[h].log
                 /\ \A m \in DOMAIN Content[task[h].log] :
                      m < task'[h].n => m < task[h].n \/ Done(work, Content[task[h].log][m])
    PROVE  Wholeness'
<1>1. \A d : Done(work', d) <=> Done(work, d) BY DEF Done, Superseded
<1>2. \A h \in Workers : task'[h] \in AtDocument \cup InLines =>
         /\ task[h] \in AtDocument \cup InLines /\ task'[h].log = task[h].log
         /\ \A m \in DOMAIN Content[task[h].log] :
              m < task'[h].n => m < task[h].n \/ Done(work, Content[task[h].log][m])
  OBVIOUS
<1>3. \A h \in Workers : task[h] \in AtDocument \cup InLines =>
         task'[h] \in AtDocument \cup InLines /\ task'[h].log = task[h].log
  OBVIOUS
<1>4. \A h \in Workers : task'[h] \in InLines => task'[h] = task[h]
  BY TasksApart
<1>5. Underway'
  <2>1. \A h \in Workers : task'[h] \in AtDocument \cup InLines =>
         \A m \in DOMAIN Content[task'[h].log] : m < task'[h].n => Done(work', Content[task'[h].log][m])
    BY <1>1, <1>2 DEF Wholeness, Underway
  <2>2. \A h \in Workers : task'[h] \in InLines => Doc(h)' \in work'.events
    BY <1>4 DEF Wholeness, Underway, Doc
  <2>3. \A d \in work'.events : d \in book'.events \/
         \E h \in Workers : task'[h] \in AtDocument \cup InLines /\ d \in Range(Content[task'[h].log])
    BY <1>3 DEF Wholeness, Underway
  <2> QED BY <2>1, <2>2, <2>3 DEF Underway
<1>6. (Later(book, work) /\ Dated(book) /\ Dated(work))' BY DEF Wholeness, Later, Dated
<1>7. Whole(book)'
  <2>1. Whole(book') BY DEF Wholeness
  <2> QED BY <2>1 DEF Whole, Done, Superseded
<1> QED BY <1>5, <1>6, <1>7 DEF Wholeness

\* Steps of the worker in the transaction that take it on.
LEMMA WholeWork ==
    ASSUME IInv, IInv', Wholeness, NEW h \in Workers, task[h] \in AtDocument \cup InLines,
           UNCHANGED book, Later(work, work'), Dated(work)',
           \A d \in work'.events : d \in work.events \/ d \in Range(Content[task[h].log]),
           \A g \in Workers : g # h => task'[g] = task[g],
           task'[h] \in AtDocument \cup InLines, task'[h].log = task[h].log,
           \A m \in DOMAIN Content[task[h].log] :
              m < task'[h].n => m < task[h].n \/ Done(work', Content[task[h].log][m]),
           task'[h] \in InLines => Doc(h)' \in work'.events
    PROVE  Wholeness'
<1>1. \A g \in Workers : g # h => task[g] \notin AtDocument \cup InLines BY Alone
<1>2. task[h].log \in Logs BY TasksApart
<1>3. Later(book, work)'
  <2>1. \A k \in Docs : book.doc[k].at \in Nat /\ work.doc[k].at \in Nat /\ work'.doc[k].at \in Nat
    <3>1. \A k \in Docs : work'.doc[k].at \in Nat BY BookParts DEF IInv, SoundBook
    <3> QED BY <3>1, BookParts DEF IInv, SoundBook
  <2> QED BY <2>1 DEF Wholeness, Later
<1>4. \A m \in DOMAIN Content[task[h].log] : m < task'[h].n => Done(work', Content[task[h].log][m])
  <2> SUFFICES ASSUME NEW m \in DOMAIN Content[task[h].log], m < task[h].n
               PROVE  Done(work', Content[task[h].log][m])
    OBVIOUS
  <2>1. Done(work, Content[task[h].log][m]) BY DEF Wholeness, Underway
  <2>2. work \in Book /\ work' \in Book BY DEF IInv, SoundBook
  <2> QED BY <1>2, <2>1, <2>2, Contents, DoneStays
<1>5. Underway'
  <2>1. \A g \in Workers : task'[g] \in AtDocument \cup InLines =>
         \A m \in DOMAIN Content[task'[g].log] : m < task'[g].n => Done(work', Content[task'[g].log][m])
    BY <1>1, <1>4
  <2>2. \A g \in Workers : task'[g] \in InLines => Doc(g)' \in work'.events
    BY <1>1
  <2>3. \A d \in work'.events : d \in book'.events \/
         \E g \in Workers : task'[g] \in AtDocument \cup InLines /\ d \in Range(Content[task'[g].log])
    <3> SUFFICES ASSUME NEW d \in work'.events, d \notin book.events
                 PROVE  d \in Range(Content[task'[h].log])
      OBVIOUS
    <3>1. CASE d \in work.events BY <1>1, <3>1 DEF Wholeness, Underway
    <3>2. CASE d \in Range(Content[task[h].log]) BY <3>2
    <3> QED BY <3>1, <3>2
  <2> QED BY <2>1, <2>2, <2>3 DEF Underway, Done, Superseded
<1>6. Whole(book)' /\ Dated(book)'
  <2>1. Whole(book') /\ Dated(book') BY DEF Wholeness
  <2> QED BY <2>1 DEF Whole, Dated, Done, Superseded
<1> QED BY <1>3, <1>5, <1>6 DEF Wholeness

LEMMA WholeOpen == ASSUME IInv, IInv', Wholeness, NEW h \in Workers, OpenDocument(h) PROVE Wholeness'
<1> DEFINE d == Doc(h)
           k == d.key
           known == work.doc[k]
           r == IF known.status = "none"
                THEN [status |-> IF d.cancelled THEN "CANCELLED" ELSE "ACTIVE", at |-> d.at]
                ELSE known
           S == work.events \cup {d}
           t == [at |-> "lines", log |-> task[h].log, n |-> task[h].n, todo |-> DOMAIN d.lines,
                 gone |-> {x \in LinesOf(work, k) : x[2] \notin DOMAIN d.lines}]
<1>1. task[h] \in AtDocument /\ task[h].n <= Len(Content[task[h].log]) /\ task[h].log \in Logs
      /\ task[h].n \in DOMAIN Content[task[h].log]
  <2>1. task[h] \in AtDocument BY Where DEF OpenDocument, IInv
  <2>2. task[h].log \in Logs /\ task[h].n \in Nat /\ task[h].n > 0 BY <2>1, TasksApart
  <2>3. task[h].n <= Len(Content[task[h].log]) BY DEF OpenDocument
  <2> QED BY <2>1, <2>2, <2>3, Contents
<1>2. k \in Docs /\ d.at \in Nat BY <1>1, DocNormal
<1>3. /\ UNCHANGED book
      /\ work' = [work EXCEPT !.doc = [work.doc EXCEPT ![k] = r], !.events = S]
      /\ Goto(h, t)
  BY DEF OpenDocument
<1>4. known.status \in DocStatus /\ known.at \in Nat BY <1>2, WorkParts, BookParts
<1>5. (known.status = "none" => r.at >= known.at /\ r.status # "none") /\ (known.status # "none" => r = known)
  BY <1>2, <1>4 DEF Wholeness, Dated
<1> HIDE DEF r, S
<1>6. work'.doc = [work.doc EXCEPT ![k] = r] /\ work'.events = S
  <2> HIDE DEF k
  <2> QED BY <1>3, WorkParts, DocChange
<1>7. work'.doc[k] = r /\ \A j \in Docs : j # k => work'.doc[j] = work.doc[j]
  BY <1>2, <1>6, WorkParts, BookParts
<1>8. Later(work, work')
  <2>1. \A j \in Docs : work.doc[j].at \in Nat BY WorkParts, BookParts
  <2> QED BY <1>4, <1>5, <1>6, <1>7, <2>1 DEF Later, S
<1>9. Dated(work)' BY <1>5, <1>7 DEF Wholeness, Dated
<1>10. d \in Range(Content[task[h].log]) BY <1>1, Contents DEF Doc
<1>11. \A c \in work'.events : c \in work.events \/ c \in Range(Content[task[h].log])
  BY <1>6, <1>10 DEF S
<1>12. task'[h] = t /\ \A g \in Workers : g # h => task'[g] = task[g]
  BY <1>3 DEF Goto, IInv, Typed
<1>13. t.at = "lines" /\ t.n = task[h].n /\ t.log = task[h].log OBVIOUS
<1> HIDE DEF t
<1>14. Doc(h)' = d /\ d \in work'.events BY <1>6, <1>12, <1>13 DEF Doc, S
<1>15. task'[h] \in InLines
  <2>1. Typed' BY DEF IInv
  <2>2. task'[h] \in Elsewhere \cup AtDocument \cup InLines BY <2>1 DEF Typed
  <2> QED BY <1>12, <1>13, <2>2, TasksApart
<1> HIDE DEF d, k, known
<1> QED BY <1>1, <1>3, <1>8, <1>9, <1>11, <1>12, <1>13, <1>14, <1>15, WholeWork

LEMMA WholeClose == ASSUME IInv, IInv', Wholeness, NEW h \in Workers, CloseDocument(h) PROVE Wholeness'
<1> DEFINE d == Doc(h)
           k == d.key
           known == work.doc[k]
           r == [status |-> IF d.cancelled THEN "CANCELLED" ELSE "ACTIVE", at |-> IF d.at = 0 THEN known.at ELSE d.at]
           t == [at |-> "document", log |-> task[h].log, n |-> task[h].n + 1]
<1>1. task[h] \in InLines /\ Applying(h) /\ k \in Docs /\ d.at \in Nat BY AtWork DEF CloseDocument
<1>2. UNCHANGED book /\ work' = [work EXCEPT !.doc = [work.doc EXCEPT ![k] = r]] /\ Goto(h, t)
  BY DEF CloseDocument, NextDoc
<1>3. known.at \in Nat BY <1>1, WorkParts, BookParts
<1>4. r.at >= known.at /\ r.status # "none" BY <1>1, <1>3 DEF Applying
<1> HIDE DEF r
<1>5. work'.doc = [work.doc EXCEPT ![k] = r] /\ work'.events = work.events
  <2> HIDE DEF k
  <2> QED BY <1>2, WorkParts, DocChange
<1>6. work'.doc[k] = r /\ \A j \in Docs : j # k => work'.doc[j] = work.doc[j]
  BY <1>1, <1>5, WorkParts, BookParts
<1>7. Later(work, work')
  <2>1. \A j \in Docs : work.doc[j].at \in Nat BY WorkParts, BookParts
  <2> QED BY <1>3, <1>4, <1>5, <1>6, <2>1 DEF Later
<1>8. Dated(work)' BY <1>4, <1>6 DEF Wholeness, Dated
<1>9. task'[h] = t /\ \A g \in Workers : g # h => task'[g] = task[g]
  BY <1>2 DEF Goto, IInv, Typed
<1>10. t.at = "document" /\ t.n = task[h].n + 1 /\ t.log = task[h].log OBVIOUS
<1> HIDE DEF t
<1>11. d \in work'.events BY <1>1, <1>5 DEF Wholeness, Underway
<1>12. task'[h] \in AtDocument /\ task'[h] \notin InLines
  <2>1. Typed' BY DEF IInv
  <2>2. task'[h] \in Elsewhere \cup AtDocument \cup InLines BY <2>1 DEF Typed
  <2> QED BY <1>9, <1>10, <2>2, TasksApart
<1>13. task[h].log \in Logs /\ task[h].n \in Nat BY <1>1, TasksApart
<1>14. \A m \in DOMAIN Content[task[h].log] :
         m < task'[h].n => m < task[h].n \/ Done(work', Content[task[h].log][m])
  <2> SUFFICES ASSUME NEW m \in DOMAIN Content[task[h].log], m < task[h].n + 1, ~(m < task[h].n)
               PROVE  Done(work', Content[task[h].log][m])
    BY <1>9, <1>10
  <2>1. m = task[h].n BY <1>13, Contents
  <2> QED BY <1>11, <2>1 DEF Done, Doc
<1> HIDE DEF d, k, known
<1> QED BY <1>1, <1>2, <1>5, <1>7, <1>8, <1>9, <1>10, <1>12, <1>14, WholeWork

\* A step on the lines of the document.
LEMMA WholeLines ==
    ASSUME IInv, IInv', Wholeness, NEW h \in Workers, task[h] \in InLines, UNCHANGED book,
           work'.doc = work.doc, work'.events = work.events,
           task' = task \/ \E S : task' = [task EXCEPT ![h].todo = S] \/ task' = [task EXCEPT ![h].gone = S]
    PROVE  Wholeness'
<1>2. \A j \in Docs : work.doc[j].at \in Nat BY WorkParts, BookParts
<1>3. Later(work, work') /\ Dated(work)' BY <1>2 DEF Later, Dated, Wholeness
<1>4. \A g \in Workers : g # h => task'[g] = task[g] BY DEF IInv, Typed
<1>5. task'[h].at = "lines" /\ task'[h].n = task[h].n /\ task'[h].log = task[h].log
  BY TasksApart DEF InLines, IInv, Typed
<1>6. task'[h] \in InLines
  <2>1. Typed' BY DEF IInv
  <2>2. task'[h] \in Elsewhere \cup AtDocument \cup InLines BY <2>1 DEF Typed
  <2> QED BY <1>5, <2>2, TasksApart
<1>7. Doc(h)' \in work'.events BY <1>5 DEF Wholeness, Underway, Doc
<1> QED BY <1>3, <1>4, <1>5, <1>6, <1>7, WholeWork

LEMMA WholeOutside ==
    ASSUME IInv, IInv', Wholeness, NEW h \in Workers,
           \/ OpenInbox(h) \/ Settle(h) \/ SkipDocument(h) \/ FindLogs(h)
           \/ \E l \in Logs : TakeLog(h, l) \/ RetryException(h, l)
    PROVE  Wholeness'
<1>1. UNCHANGED <<book, work>>
  BY DEF OpenInbox, Settle, SkipDocument, FindLogs, TakeLog, RetryException, tables
<1>2. CASE task' = task BY <1>1, <1>2, WholeQuiet
<1>3. \A g \in Workers : g # h => task'[g] = task[g]
  BY DEF OpenInbox, Settle, SkipDocument, FindLogs, TakeLog, RetryException, Goto, NextDoc, IInv, Typed
<1>4. CASE SkipDocument(h)
  <2> DEFINE t == [at |-> "document", log |-> task[h].log, n |-> task[h].n + 1]
  <2>1. task[h] \in AtDocument BY <1>4, Where DEF SkipDocument, IInv
  <2>2. task[h].log \in Logs /\ task[h].n \in Nat BY <2>1, TasksApart
  <2>3. task'[h] = t BY <1>4 DEF SkipDocument, NextDoc, Goto, IInv, Typed
  <2>4. t \in AtDocument BY <2>1, <2>2, TasksApart DEF AtDocument
  <2>5. t.log = task[h].log /\ t.n = task[h].n + 1 OBVIOUS
  <2> HIDE DEF t
  <2>6. Done(work, Doc(h)) BY <1>4 DEF SkipDocument, Done
  <2>7. \A m \in DOMAIN Content[task[h].log] :
           m < task'[h].n => m < task[h].n \/ Done(work, Content[task[h].log][m])
    <3> SUFFICES ASSUME NEW m \in DOMAIN Content[task[h].log], m < task[h].n + 1, ~(m < task[h].n)
                 PROVE  Done(work, Content[task[h].log][m])
      BY <2>3, <2>5
    <3>1. m = task[h].n BY <2>2, Contents
    <3> QED BY <2>6, <3>1 DEF Doc
  <2> QED BY <1>1, <1>3, <2>1, <2>3, <2>4, <2>5, <2>7, WholeQuiet
<1>5. CASE OpenInbox(h) \/ Settle(h) \/ \E l \in Logs : TakeLog(h, l) \/ RetryException(h, l)
  <2>1. task[h].at \in {"idle", "open", "failed"}
    BY <1>5, TasksApart DEF OpenInbox, Settle, TakeLog, RetryException
  <2>2. task[h] \notin AtDocument \cup InLines BY <2>1, TasksApart
  <2>3. task'[h].at \in {"idle", "open", "failed", "begin"}
    BY <1>5, TasksApart DEF OpenInbox, Settle, TakeLog, RetryException, Goto, IInv, Typed
  <2>4. task'[h] \notin AtDocument \cup InLines BY <2>3, TasksApart
  <2> QED BY <1>1, <1>3, <2>2, <2>4, WholeQuiet
<1> QED BY <1>2, <1>4, <1>5 DEF FindLogs

LEMMA WholeRollBack ==
    ASSUME IInv, IInv', Wholeness, NEW h \in Workers, Abort(h) \/ Crash(h)
    PROVE  Wholeness'
<1>1. RollBack(h) /\ UNCHANGED book BY DEF Abort, Crash
<1>2. \A g \in Workers : g # h => task'[g] = task[g] BY DEF Abort, Crash, Goto, IInv, Typed
<1>3. task'[h].at \in {"idle", "failed"} BY TasksApart DEF Abort, Crash, Goto, IInv, Typed
<1>4. task'[h] \notin AtDocument \cup InLines BY <1>3, TasksApart
<1>5. CASE holder = h
  <2>1. \A g \in Workers : task'[g] \notin AtDocument \cup InLines
    BY <1>2, <1>4, <1>5 DEF IInv, Exclusive
  <2>2. (Whole(book) /\ Dated(book))' BY <1>1 DEF Wholeness, Whole, Done, Superseded, Dated
  <2> QED BY <1>1, <1>5, <2>1, <2>2, WholeAgree DEF IInv, RollBack
<1>6. CASE holder # h
  <2>1. task[h] \notin AtDocument \cup InLines BY <1>6 DEF IInv, Exclusive
  <2> QED BY <1>1, <1>2, <1>4, <1>6, <2>1, WholeQuiet DEF RollBack
<1> QED BY <1>5, <1>6

LEMMA WholeBegin == ASSUME IInv, IInv', Wholeness, NEW h \in Workers, Begin(h) PROVE Wholeness'
<1> DEFINE t == [at |-> "document", log |-> task[h].log, n |-> 1]
<1>1. \A g \in Workers : task[g] \notin AtDocument \cup InLines
  BY ProjectionAssumption DEF Begin, IInv, Exclusive
<1>2. task'[h] = t /\ \A g \in Workers : g # h => task'[g] = task[g]
  BY DEF Begin, Goto, IInv, Typed
<1>3. t.at = "document" /\ t.n = 1 OBVIOUS
<1> HIDE DEF t
<1>4. \A g \in Workers : task'[g] \in AtDocument \cup InLines => task'[g] \in AtDocument /\ task'[g].n = 1
  BY <1>1, <1>2, <1>3, TasksApart
<1>5. (Whole(book) /\ Dated(book))' BY DEF Begin, Wholeness, Whole, Done, Superseded, Dated
<1>6. work' = book' /\ SoundBook(book)' BY DEF Begin, IInv
<1> QED BY <1>4, <1>5, <1>6, WholeAgree

LEMMA WholeLine ==
    ASSUME IInv, IInv', Wholeness, NEW h \in Workers,
           \/ \E i \in Items : ApplySaleLine(h, i) \/ ApplyRefundLine(h, i)
           \/ \E x \in Lines : RetireRefund(h, x) \/ RetireLine(h, x)
    PROVE  Wholeness'
<1>1. task[h] \in InLines BY AtWork DEF ApplySaleLine, ApplyRefundLine, RetireRefund, RetireLine
<1>2. UNCHANGED book BY DEF ApplySaleLine, ApplyRefundLine, RetireRefund, RetireLine
<1>3. PICK k, x, row : work' = Recorded(k, work, x, row)
  <2>1. ASSUME NEW i \in Items, ApplySaleLine(h, i) PROVE \E k, x, row : work' = Recorded(k, work, x, row)
    BY <2>1 DEF ApplySaleLine
  <2>2. ASSUME NEW i \in Items, ApplyRefundLine(h, i) PROVE \E k, x, row : work' = Recorded(k, work, x, row)
    BY <2>2 DEF ApplyRefundLine
  <2>3. ASSUME NEW y \in Lines, RetireRefund(h, y) PROVE \E k, x, row : work' = Recorded(k, work, x, row)
    BY <2>3 DEF RetireRefund
  <2>4. ASSUME NEW y \in Lines, RetireLine(h, y) PROVE \E k, x, row : work' = Recorded(k, work, x, row)
    BY <2>4 DEF RetireLine
  <2> QED BY <2>1, <2>2, <2>3, <2>4
<1>4. task' = task \/ \E S : task' = [task EXCEPT ![h].todo = S] \/ task' = [task EXCEPT ![h].gone = S]
  <2>1. ASSUME NEW i \in Items, ApplySaleLine(h, i) PROVE \E S : task' = [task EXCEPT ![h].todo = S]
    BY <2>1 DEF ApplySaleLine, Goto
  <2>2. ASSUME NEW i \in Items, ApplyRefundLine(h, i) PROVE \E S : task' = [task EXCEPT ![h].todo = S]
    BY <2>2 DEF ApplyRefundLine, Goto
  <2>3. ASSUME NEW x1 \in Lines, RetireRefund(h, x1) PROVE task' = task
    BY <2>3 DEF RetireRefund
  <2>4. ASSUME NEW x1 \in Lines, RetireLine(h, x1) PROVE \E S : task' = [task EXCEPT ![h].gone = S]
    BY <2>4 DEF RetireLine, Goto
  <2> QED BY <2>1, <2>2, <2>3, <2>4
<1>5. work'.doc = work.doc /\ work'.events = work.events
  BY <1>3, WorkParts DEF Recorded, Book
<1> QED BY <1>1, <1>2, <1>4, <1>5, WholeLines

LEMMA WholeStep ==
    ASSUME Together, IInv, IInv', Wholeness, [ProjectionNext]_projectionVars
    PROVE  Wholeness'
<1>1. CASE \E l \in Logs : Receive(l) BY <1>1, WholeQuiet DEF Receive, tables
<1>2. CASE \E p \in Policies : ConfigureRate(p) BY <1>2, WholeQuiet DEF ConfigureRate, tables
<1>3. CASE UNCHANGED projectionVars BY <1>3, WholeQuiet DEF projectionVars, tables
<1> QED BY <1>1, <1>2, <1>3, WholeOutside, WholeRollBack, WholeBegin, WholeLine, WholeOpen, WholeClose,
           WholeCommit DEF ProjectionNext, Projecting

LEMMA WholeStart == ASSUME ProjectionInit PROVE Wholeness
<1>1. IInv BY ProjectionStart
<1>2. \A k \in Docs : EmptyBook.doc[k].at = 0 BY DEF EmptyBook
<1>3. EmptyBook.events = {} BY DEF EmptyBook
<1>4. \A h \in Workers : task[h] \notin AtDocument \cup InLines BY TasksApart DEF ProjectionInit
<1>5. Later(book, work) /\ Dated(book) /\ Dated(work) BY <1>2 DEF ProjectionInit, Later, Dated
<1>6. Whole(book) BY <1>3 DEF ProjectionInit, Whole
<1>7. Underway BY <1>3, <1>4 DEF ProjectionInit, Underway
<1> QED BY <1>5, <1>6, <1>7 DEF Wholeness

\* Whatever fails, is retried or arrives again, the documents of an exchange have been
\* taken in together or not at all, but for one that was older than what is there.
THEOREM ExchangesStayWhole == ASSUME Together PROVE ProjectionSpec => []ExchangesAreWhole
<1>1. Wholeness => ExchangesAreWhole BY DEF Wholeness, Whole, Done, ExchangesAreWhole
<1>2. IInv /\ IInv' /\ Wholeness /\ [ProjectionNext]_projectionVars => Wholeness' BY WholeStep
<1>3. ProjectionInit => Wholeness BY WholeStart
<1> QED BY <1>1, <1>2, <1>3, ProjectionInvariant, PTL DEF ProjectionSpec

-----------------------------------------------------------------------------
(* Refunds: what they take back of a sale *)

Rows(b) == {y \in Lines : Stored(b, y)}

\* A line of a sale earns what its policy says of its figures, also when emptied.
Priced(b) ==
    \A x \in Lines : LET l == b.line[x] IN
        x[1] \in Sales /\ Stored(b, x) => l.com = Earning(l.rev, l.qty, l.policy)

Covers(orig, all) ==
    /\ all.qty <= orig.qty /\ all.rev <= orig.rev /\ all.com <= orig.com
    /\ all.qty > 0 /\ all.qty = orig.qty /\ (orig.policy.type = "PERCENTAGE" => all.rev = orig.rev)
         => all.com = orig.com

Within(b) == \A x \in Sales \X Items : Covers(b.line[x], Taken(b, RefundsOf(b, x)))

\* Finitely many lines are stored at any time, whatever may still arrive.
Tallied(b) == IsFiniteSet(Rows(b)) /\ Priced(b) /\ Within(b)

Solid(b) == b \in Book /\ Linked(b) /\ Tallied(b)

\* Rounding a quotient that leaves no remainder.
LEMMA MoneyWhole == ASSUME NEW c \in Nat, NEW n \in Nat, n > 0 PROVE Money(c * n, n) = c
<1>1. \A a \in Int, d \in Nat, q \in Int : d > 0 /\ q * d <= a /\ a < q * d + d => a \div d = q
  OBVIOUS
<1>2. c * (2 * n) <= 2 * (c * n) + n /\ 2 * (c * n) + n < c * (2 * n) + 2 * n
  OBVIOUS
<1>3. 2 * (c * n) + n \in Int /\ 2 * n \in Nat /\ 2 * n > 0
  OBVIOUS
<1> QED BY <1>1, <1>2, <1>3 DEF Money

LEMMA RefundsStored ==
    ASSUME NEW b, Solid(b), NEW x \in Lines
    PROVE  /\ IsFiniteSet(RefundsOf(b, x)) /\ RefundsOf(b, x) \subseteq Lines
           /\ \A y \in RefundsOf(b, x) : Stored(b, y) /\ Stored(b, x) /\ y[1] \notin Sales
<1>1. \A y \in RefundsOf(b, x) : y \in Lines /\ b.line[y].of = x /\ x # NoLine
  BY ProjectionAssumption DEF RefundsOf
<1>2. \A y \in RefundsOf(b, x) : Stored(b, y) /\ Stored(b, x) /\ y[1] \notin Sales
  BY <1>1 DEF Solid, Linked, NoRow
<1>3. RefundsOf(b, x) \subseteq Rows(b) BY <1>1, <1>2 DEF Rows
<1> QED BY <1>1, <1>2, <1>3, FS_Subset DEF Solid, Tallied

LEMMA TakenNat ==
    ASSUME NEW b \in Book, NEW S \in SUBSET Lines, IsFiniteSet(S)
    PROVE  Taken(b, S).qty \in Nat /\ Taken(b, S).rev \in Nat /\ Taken(b, S).com \in Nat
<1> DEFINE q == [y \in S |-> b.line[y].qty]
           r == [y \in S |-> b.line[y].rev]
           c == [y \in S |-> b.line[y].com]
<1>1. \A y \in S : q[y] \in Nat /\ r[y] \in Nat /\ c[y] \in Nat BY BookParts
<1>2. DOMAIN q = S /\ DOMAIN r = S /\ DOMAIN c = S OBVIOUS
<1>3. Taken(b, S) = [qty |-> SumFunction(q), rev |-> SumFunction(r), com |-> SumFunction(c)]
  BY DEF Taken
<1> HIDE DEF q, r, c
<1>4. SumFunction(q) \in Nat /\ SumFunction(r) \in Nat /\ SumFunction(c) \in Nat
  BY <1>1, <1>2, TotalNat
<1> QED BY <1>3, <1>4

LEMMA TakenNone ==
    ASSUME NEW b \in Book, NEW S \in SUBSET Lines, IsFiniteSet(S), \A y \in S : Zero(b.line[y])
    PROVE  Taken(b, S).qty = 0 /\ Taken(b, S).rev = 0 /\ Taken(b, S).com = 0
<1> DEFINE q == [y \in S |-> b.line[y].qty]
           r == [y \in S |-> b.line[y].rev]
           c == [y \in S |-> b.line[y].com]
<1>1. \A y \in S : q[y] = 0 /\ r[y] = 0 /\ c[y] = 0 BY DEF Zero
<1>2. DOMAIN q = S /\ DOMAIN r = S /\ DOMAIN c = S OBVIOUS
<1>3. Taken(b, S) = [qty |-> SumFunction(q), rev |-> SumFunction(r), com |-> SumFunction(c)]
  BY DEF Taken
<1> HIDE DEF q, r, c
<1>4. SumFunction(q) = 0 /\ SumFunction(r) = 0 /\ SumFunction(c) = 0
  BY <1>1, <1>2, TotalZero
<1> QED BY <1>3, <1>4

\* The lines of S are as they were, and so is what they take back.
LEMMA TakenSame ==
    ASSUME NEW b, NEW c, NEW S \in SUBSET Lines, \A y \in S : c.line[y] = b.line[y]
    PROVE  Taken(c, S) = Taken(b, S)
<1>1. /\ [y \in S |-> c.line[y].qty] = [y \in S |-> b.line[y].qty]
      /\ [y \in S |-> c.line[y].rev] = [y \in S |-> b.line[y].rev]
      /\ [y \in S |-> c.line[y].com] = [y \in S |-> b.line[y].com]
  OBVIOUS
<1> QED BY <1>1 DEF Taken

LEMMA TakenWith ==
    ASSUME NEW b \in Book, NEW S \in SUBSET Lines, IsFiniteSet(S), NEW x \in Lines, x \notin S
    PROVE  /\ Taken(b, S \cup {x}).qty = b.line[x].qty + Taken(b, S).qty
           /\ Taken(b, S \cup {x}).rev = b.line[x].rev + Taken(b, S).rev
           /\ Taken(b, S \cup {x}).com = b.line[x].com + Taken(b, S).com
<1> DEFINE T == S \cup {x}
           q == [y \in S |-> b.line[y].qty]
           r == [y \in S |-> b.line[y].rev]
           c == [y \in S |-> b.line[y].com]
           qx == [y \in T |-> b.line[y].qty]
           rx == [y \in T |-> b.line[y].rev]
           cx == [y \in T |-> b.line[y].com]
<1>1. \A y \in S : q[y] \in Nat /\ r[y] \in Nat /\ c[y] \in Nat /\ qx[y] = q[y] /\ rx[y] = r[y] /\ cx[y] = c[y]
  BY BookParts
<1>2. DOMAIN q = S /\ DOMAIN r = S /\ DOMAIN c = S
      /\ DOMAIN qx = S \cup {x} /\ DOMAIN rx = S \cup {x} /\ DOMAIN cx = S \cup {x}
  OBVIOUS
<1>3. /\ Taken(b, S) = [qty |-> SumFunction(q), rev |-> SumFunction(r), com |-> SumFunction(c)]
      /\ Taken(b, T) = [qty |-> SumFunction(qx), rev |-> SumFunction(rx), com |-> SumFunction(cx)]
  BY DEF Taken
<1>4. qx[x] = b.line[x].qty /\ rx[x] = b.line[x].rev /\ cx[x] = b.line[x].com
      /\ qx[x] \in Nat /\ rx[x] \in Nat /\ cx[x] \in Nat
  BY BookParts
<1> HIDE DEF q, r, c, qx, rx, cx
<1>5. SumFunction(qx) = qx[x] + SumFunction(q) BY <1>1, <1>2, <1>4, TotalWith
<1>6. SumFunction(rx) = rx[x] + SumFunction(r) BY <1>1, <1>2, <1>4, TotalWith
<1>7. SumFunction(cx) = cx[x] + SumFunction(c) BY <1>1, <1>2, <1>4, TotalWith
<1> QED BY <1>3, <1>4, <1>5, <1>6, <1>7

-----------------------------------------------------------------------------
(* A line is written *)

\* c is b with one line changed.
Rewrites(b, c, x, row) ==
    c.line = [b.line EXCEPT ![x] = row] /\ c \in Book /\ Linked(c)

LEMMA RowsFinite ==
    ASSUME NEW b, NEW c, NEW x \in Lines, NEW row, Solid(b), Rewrites(b, c, x, row)
    PROVE  /\ IsFiniteSet(Rows(c))
           /\ c.line[x] = row /\ \A y \in Lines : y # x => c.line[y] = b.line[y]
<1>1. c.line[x] = row /\ \A y \in Lines : y # x => c.line[y] = b.line[y]
  BY BookParts DEF Rewrites, Solid
<1>2. Rows(c) \subseteq Rows(b) \cup {x} BY <1>1 DEF Rows, Stored
<1>3. IsFiniteSet(Rows(b) \cup {x}) BY FS_AddElement DEF Solid, Tallied
<1> QED BY <1>1, <1>2, <1>3, FS_Subset

\* What does not concern a sale line leaves it covered.
LEMMA CoveredStill ==
    ASSUME NEW b, NEW c, Solid(b), NEW z \in Sales \X Items, c.line[z] = b.line[z],
           RefundsOf(c, z) = RefundsOf(b, z), \A y \in RefundsOf(b, z) : c.line[y] = b.line[y]
    PROVE  Covers(c.line[z], Taken(c, RefundsOf(c, z)))
<1>1. RefundsOf(b, z) \subseteq Lines BY DEF RefundsOf
<1>2. Taken(c, RefundsOf(c, z)) = Taken(b, RefundsOf(b, z)) BY <1>1, TakenSame
<1> QED BY <1>2 DEF Solid, Tallied, Within

\* Nothing was taken back of it.
LEMMA CoveredEmpty ==
    ASSUME NEW b \in Book, Linked(b), NEW z \in Lines, IsFiniteSet(RefundsOf(b, z)),
           \A y \in RefundsOf(b, z) : b.line[y].qty = 0
    PROVE  Covers(b.line[z], Taken(b, RefundsOf(b, z)))
<1>1. RefundsOf(b, z) \subseteq Lines BY DEF RefundsOf
<1>2. \A y \in RefundsOf(b, z) : Zero(b.line[y]) BY <1>1 DEF Linked
<1>3. /\ Taken(b, RefundsOf(b, z)).qty = 0 /\ Taken(b, RefundsOf(b, z)).rev = 0
      /\ Taken(b, RefundsOf(b, z)).com = 0
  BY <1>1, <1>2, TakenNone
<1> QED BY <1>3, BookParts DEF Covers

\* A sale line takes figures at its price, new ones while nothing is taken back of it.
LEMMA SaleTallied ==
    ASSUME NEW b, NEW c, NEW x \in Lines, NEW row, Solid(b), Rewrites(b, c, x, row),
           x[1] \in Sales, row.of = NoLine, row.com = Earning(row.rev, row.qty, row.policy),
           \/ row.qty = b.line[x].qty /\ row.rev = b.line[x].rev /\ row.com = b.line[x].com
                /\ row.policy = b.line[x].policy
           \/ \A y \in RefundsOf(b, x) : b.line[y].qty = 0
    PROVE  Tallied(c)
<1>1. IsFiniteSet(Rows(c)) /\ c.line[x] = row /\ \A y \in Lines : y # x => c.line[y] = b.line[y]
  <2>1. IsFiniteSet(Rows(c)) BY RowsFinite
  <2>2. c.line[x] = row BY BookParts DEF Rewrites, Solid
  <2>3. \A y \in Lines : y # x => c.line[y] = b.line[y] BY RowsFinite
  <2> QED BY <2>1, <2>2, <2>3
<1>2. b \in Book /\ c \in Book /\ Linked(b) /\ Linked(c) BY DEF Solid, Rewrites
<1>3. Priced(c) BY <1>1 DEF Priced, Solid, Tallied, Stored
<1>4. ASSUME NEW z \in Lines PROVE RefundsOf(c, z) = RefundsOf(b, z) /\ x \notin RefundsOf(b, z)
  <2>1. b.line[x].of = NoLine /\ z # NoLine BY <1>2, ProjectionAssumption DEF Linked
  <2> QED BY <1>1, <2>1 DEF RefundsOf
<1>5. Within(c)
  <2> SUFFICES ASSUME NEW z \in Sales \X Items
               PROVE  Covers(c.line[z], Taken(c, RefundsOf(c, z)))
    BY DEF Within
  <2>0. z \in Lines BY DEF Lines, Docs
  <2>1. \A y \in RefundsOf(b, z) : c.line[y] = b.line[y] BY <1>1, <1>4, <2>0 DEF RefundsOf
  <2>2. CASE z # x BY <1>1, <1>4, <2>0, <2>1, <2>2, CoveredStill
  <2>3. CASE z = x /\ \A y \in RefundsOf(b, x) : b.line[y].qty = 0
    <3>1. IsFiniteSet(RefundsOf(c, z)) BY <1>4, <2>0, RefundsStored
    <3> QED BY <1>2, <1>4, <2>0, <2>1, <2>3, <3>1, CoveredEmpty
  <2>4. CASE z = x /\ row.qty = b.line[x].qty /\ row.rev = b.line[x].rev /\ row.com = b.line[x].com
                /\ row.policy = b.line[x].policy
    <3>1. Taken(c, RefundsOf(c, z)) = Taken(b, RefundsOf(b, z))
      <4>1. RefundsOf(b, z) \subseteq Lines BY DEF RefundsOf
      <4> QED BY <1>4, <2>0, <2>1, <4>1, TakenSame
    <3>2. Covers(b.line[z], Taken(b, RefundsOf(b, z))) BY DEF Solid, Tallied, Within
    <3> QED BY <1>1, <2>4, <3>1, <3>2 DEF Covers
  <2> QED BY <2>2, <2>3, <2>4
<1> QED BY <1>1, <1>3, <1>5 DEF Tallied

\* A refund line takes its share of what all refunds of its sale line take back.
LEMMA RefundTallied ==
    ASSUME NEW b, NEW c, NEW x \in Lines, NEW row, Solid(b), Rewrites(b, c, x, row),
           x[1] \notin Sales, NEW s \in Sales \X Items, row.of = s, b.line[x].of \in {s, NoLine},
           NEW others, others = Taken(b, RefundsOf(b, s) \ {x}), Stored(b, s),
           row.qty \in Nat, row.rev \in Nat, row.com \in Nat, b.line[s].qty > 0,
           row.com = ReversedShare(b.line[s], others, row.qty, row.rev),
           others.qty + row.qty <= b.line[s].qty, others.rev + row.rev <= b.line[s].rev,
           others.com + row.com <= b.line[s].com
    PROVE  Tallied(c)
<1>1. IsFiniteSet(Rows(c)) /\ c.line[x] = row /\ \A y \in Lines : y # x => c.line[y] = b.line[y]
  BY RowsFinite, SMTT(60)
<1>2. b \in Book /\ c \in Book /\ Linked(b) /\ Linked(c) BY DEF Solid, Rewrites
<1>3. Priced(c)
  <2> SUFFICES ASSUME NEW y \in Lines, y[1] \in Sales, Stored(c, y)
               PROVE  c.line[y].com = Earning(c.line[y].rev, c.line[y].qty, c.line[y].policy)
    BY DEF Priced
  <2>1. y # x OBVIOUS
  <2>2. c.line[y] = b.line[y] /\ Stored(b, y) BY <1>1, <2>1 DEF Stored
  <2> QED BY <2>2 DEF Solid, Tallied, Priced
<1>4. Within(c)
  <2> SUFFICES ASSUME NEW z \in Sales \X Items
               PROVE  Covers(c.line[z], Taken(c, RefundsOf(c, z)))
    BY DEF Within
  <2>0. z \in Lines /\ z # NoLine /\ z # x /\ s \in Lines BY ProjectionAssumption DEF Lines, Docs
  <2>1. CASE z # s
    <3>1. x \notin RefundsOf(b, z) /\ x \notin RefundsOf(c, z) BY <1>1, <2>0, <2>1 DEF RefundsOf
    <3>2. RefundsOf(c, z) = RefundsOf(b, z) /\ \A y \in RefundsOf(b, z) : c.line[y] = b.line[y]
      BY <1>1, <3>1 DEF RefundsOf
    <3> QED BY <1>1, <2>0, <3>2, CoveredStill
  <2>2. CASE z = s
    <3> DEFINE S == RefundsOf(b, s) \ {x}
               all == Taken(c, RefundsOf(c, s))
               orig == b.line[s]
    <3>1. RefundsOf(c, s) = S \cup {x} BY <1>1 DEF RefundsOf
    <3>2. IsFiniteSet(S) /\ S \in SUBSET Lines
      <4>1. IsFiniteSet(RefundsOf(b, s)) /\ RefundsOf(b, s) \subseteq Lines BY <2>0, RefundsStored
      <4> QED BY <4>1, FS_Subset
    <3>3. Taken(c, S) = others
      <4>1. \A y \in S : c.line[y] = b.line[y] BY <1>1 DEF RefundsOf
      <4> HIDE DEF S
      <4>2. Taken(c, S) = Taken(b, S) BY <3>2, <4>1, TakenSame
      <4> QED BY <4>2 DEF S
    <3>4. x \notin S OBVIOUS
    <3> HIDE DEF S
    <3>5. /\ all.qty = row.qty + others.qty /\ all.rev = row.rev + others.rev
          /\ all.com = row.com + others.com
      BY <1>1, <1>2, <3>1, <3>2, <3>3, <3>4, TakenWith
    <3>6. others.qty \in Nat /\ others.rev \in Nat /\ others.com \in Nat
      BY <1>2, <3>2, <3>3, TakenNat
    <3>7. orig.qty \in Nat /\ orig.rev \in Nat /\ orig.com \in Nat BY <1>2, <2>0, BookParts
    <3>8. orig.rev = 0 => orig.com = 0
      <4>1. s[1] \in Sales /\ s \in Lines BY <2>0
      <4>2. orig.com = Earning(orig.rev, orig.qty, orig.policy)
        BY <4>1 DEF Solid, Tallied, Priced
      <4> QED BY <4>2 DEF Earning
    <3> HIDE DEF all, orig
    <3>9. ASSUME all.qty > 0, all.qty = orig.qty, orig.policy.type = "PERCENTAGE" => all.rev = orig.rev
          PROVE  all.com = orig.com
      <4>1. CASE orig.policy.type # "PERCENTAGE"
        <5>1. row.com = Money(orig.com * (others.qty + row.qty), orig.qty) - others.com
          BY <4>1 DEF ReversedShare, orig
        <5>2. others.qty + row.qty = orig.qty BY <3>5, <3>6, <3>9
        <5>3. orig.qty > 0 BY <3>9
        <5>4. Money(orig.com * orig.qty, orig.qty) = orig.com BY <3>7, <5>3, MoneyWhole
        <5> QED BY <3>5, <3>6, <3>7, <5>1, <5>2, <5>4
      <4>2. CASE orig.policy.type = "PERCENTAGE" /\ orig.rev = 0
        <5>1. ReversedShare(b.line[s], others, row.qty, row.rev) = 0 - others.com
          BY <4>2 DEF ReversedShare, orig
        <5>2. all.com = 0 /\ orig.com = 0 BY <3>5, <3>6, <3>8, <4>2, <5>1
        <5> QED BY <5>2
      <4>3. CASE orig.policy.type = "PERCENTAGE" /\ orig.rev # 0
        <5>1. row.com = Money(orig.com * (others.rev + row.rev), orig.rev) - others.com
          BY <4>3 DEF ReversedShare, orig
        <5>2. others.rev + row.rev = orig.rev BY <3>5, <3>6, <3>9, <4>3
        <5>3. orig.rev > 0 BY <3>7, <4>3
        <5>4. Money(orig.com * orig.rev, orig.rev) = orig.com BY <3>7, <5>3, MoneyWhole
        <5> QED BY <3>5, <3>6, <3>7, <5>1, <5>2, <5>4
      <4> QED BY <4>1, <4>2, <4>3
    <3>10. all.qty <= orig.qty /\ all.rev <= orig.rev /\ all.com <= orig.com
      BY <3>5, <3>6, <3>7 DEF orig
    <3>11. Covers(orig, all) BY <3>9, <3>10 DEF Covers
    <3> QED BY <1>1, <2>0, <2>2, <3>11 DEF all, orig
  <2> QED BY <2>1, <2>2
<1> QED BY <1>1, <1>3, <1>4 DEF Tallied

\* A refund line, or a sale line of which nothing is taken back, is emptied.
LEMMA EmptiedTallied ==
    ASSUME NEW b, NEW c, NEW x \in Lines, Solid(b), Rewrites(b, c, x, Emptied(b.line[x])),
           x[1] \in Sales => \A y \in RefundsOf(b, x) : b.line[y].qty = 0
    PROVE  Tallied(c)
<1> DEFINE row == Emptied(b.line[x])
<1>0. row.qty = 0 /\ row.rev = 0 /\ row.com = 0 /\ row.policy = b.line[x].policy
      /\ row.of = b.line[x].of
  BY DEF Emptied
<1> HIDE DEF row
<1>1. IsFiniteSet(Rows(c)) /\ c.line[x] = row /\ \A y \in Lines : y # x => c.line[y] = b.line[y]
  BY RowsFinite DEF row
<1>2. b \in Book /\ c \in Book /\ Linked(b) /\ Linked(c) BY DEF Solid, Rewrites
<1>3. \A l, q : Earning(0, q, l) = 0 BY DEF Earning
<1>4. Priced(c) BY <1>0, <1>1, <1>3 DEF Priced, Solid, Tallied, Stored
<1>5. \A z \in Lines : RefundsOf(c, z) = RefundsOf(b, z) BY <1>0, <1>1 DEF RefundsOf
<1>6. Within(c)
  <2> SUFFICES ASSUME NEW z \in Sales \X Items
               PROVE  Covers(c.line[z], Taken(c, RefundsOf(c, z)))
    BY DEF Within
  <2>0. z \in Lines BY DEF Lines, Docs
  <2>1. CASE z = x
    <3>1. \A y \in RefundsOf(c, z) : c.line[y].qty = 0 BY <1>0, <1>1, <1>5, <2>1 DEF RefundsOf
    <3>2. IsFiniteSet(RefundsOf(c, z)) BY <1>5, <2>0, RefundsStored
    <3> QED BY <1>2, <2>0, <3>1, <3>2, CoveredEmpty
  <2>2. CASE z # x /\ x \notin RefundsOf(b, z)
    <3>1. \A y \in RefundsOf(b, z) : c.line[y] = b.line[y] BY <1>1, <2>2 DEF RefundsOf
    <3> QED BY <1>1, <1>5, <2>0, <2>2, <3>1, CoveredStill
  <2>3. CASE z # x /\ x \in RefundsOf(b, z)
    <3> DEFINE S == RefundsOf(b, z) \ {x}
               all == Taken(c, RefundsOf(c, z))
               was == Taken(b, RefundsOf(b, z))
               rest == Taken(b, S)
               old == b.line[x]
               orig == b.line[z]
    <3>1. IsFiniteSet(S) /\ S \in SUBSET Lines /\ x \notin S
      <4>1. IsFiniteSet(RefundsOf(b, z)) /\ RefundsOf(b, z) \subseteq Lines BY <2>0, RefundsStored
      <4> QED BY <4>1, FS_Subset
    <3>2. RefundsOf(b, z) = S \cup {x} /\ RefundsOf(c, z) = S \cup {x} BY <1>5, <2>0, <2>3
    <3>3. \A y \in S : c.line[y] = b.line[y] BY <1>1, <3>1
    <3> HIDE DEF S
    <3>4. Taken(c, S) = rest BY <3>1, <3>3, TakenSame
    <3>5. /\ all.qty = row.qty + rest.qty /\ all.rev = row.rev + rest.rev
          /\ all.com = row.com + rest.com
      BY <1>1, <1>2, <3>1, <3>2, <3>4, TakenWith
    <3>6. /\ was.qty = old.qty + rest.qty /\ was.rev = old.rev + rest.rev
          /\ was.com = old.com + rest.com
      BY <1>2, <3>1, <3>2, TakenWith
    <3>7. rest.qty \in Nat /\ rest.rev \in Nat /\ rest.com \in Nat BY <1>2, <3>1, TakenNat
    <3>8. old.qty \in Nat /\ old.rev \in Nat /\ old.com \in Nat
          /\ orig.qty \in Nat /\ orig.rev \in Nat /\ orig.com \in Nat
      BY <1>2, <2>0, BookParts
    <3>9. Covers(orig, was) BY DEF Solid, Tallied, Within
    <3>10. old.qty = 0 => old.rev = 0 /\ old.com = 0 BY <1>2 DEF Linked, Zero
    <3>11. c.line[z] = orig BY <1>1, <2>0, <2>3
    <3> HIDE DEF all, was, rest, old, orig
    <3>12. all.qty <= orig.qty /\ all.rev <= orig.rev /\ all.com <= orig.com
      BY <1>0, <3>5, <3>6, <3>7, <3>8, <3>9 DEF Covers
    <3>13. ASSUME all.qty > 0, all.qty = orig.qty, orig.policy.type = "PERCENTAGE" => all.rev = orig.rev
           PROVE  all.com = orig.com
      <4>1. old.qty = 0 BY <1>0, <3>5, <3>6, <3>7, <3>8, <3>9, <3>13 DEF Covers
      <4>2. was.qty = all.qty /\ was.rev = all.rev /\ was.com = all.com
        BY <1>0, <3>5, <3>6, <3>7, <3>8, <3>10, <4>1
      <4> QED BY <3>9, <3>13, <4>2 DEF Covers
    <3>14. Covers(orig, all) BY <3>12, <3>13 DEF Covers
    <3> QED BY <3>11, <3>14 DEF all
  <2> QED BY <2>1, <2>2, <2>3
<1> QED BY <1>1, <1>4, <1>6 DEF Tallied

-----------------------------------------------------------------------------
(* Every step *)

Tallies == Tallied(book) /\ Tallied(work)

LEMMA WorkSolid == ASSUME IInv, Tallies PROVE Solid(work) /\ Solid(book)
  BY DEF IInv, Tallies, SoundBook, Solid

\* A step that writes a line of the transaction's copy.
LEMMA LineTallied ==
    ASSUME IInv, Tallies, IInv', UNCHANGED book, NEW x \in Lines, NEW row \in LineRec, NEW k,
           work' = Recorded(k, work, x, row),
           Rewrites(work, work', x, row) => Tallied(work')
    PROVE  Tallies'
<1>1. Writes(work, work', x, row) BY WorkParts, RecordedWrites
<1>2. Linked(work') BY DEF IInv, SoundBook, Linked, Zero, Stored
<1>3. Rewrites(work, work', x, row) BY <1>1, <1>2 DEF Writes, Rewrites
<1>4. Tallied(work)' BY <1>3 DEF Tallied, Rows, Stored, Priced, Within, Taken, RefundsOf
<1>5. Tallied(book)'
  <2>1. Tallied(book') BY DEF Tallies
  <2> QED BY <2>1 DEF Tallied, Rows, Stored, Priced, Within, Taken, RefundsOf
<1> QED BY <1>4, <1>5 DEF Tallies

LEMMA SaleTally ==
    ASSUME IInv, Tallies, IInv', NEW h \in Workers, NEW i \in Items, ApplySaleLine(h, i)
    PROVE  Tallies'
<1> DEFINE d == Doc(h)
           x == <<d.key, i>>
           s == d.lines[i]
           old == work.line[x]
           p == IF Stored(work, x) THEN old.policy ELSE policy
           row == [qty |-> s.qty, rev |-> s.rev, com |-> Earning(s.rev, s.qty, p), policy |-> p, of |-> NoLine]
<1>1. /\ task[h] \in InLines /\ Applying(h) /\ Normalized(d) /\ d.key \in Docs
      /\ task[h].todo \subseteq Items
  BY AtWork DEF ApplySaleLine
<1>2. /\ i \in task[h].todo /\ d.key \in Sales /\ p # NoPolicy /\ UNCHANGED book
      /\ work' = Recorded(d.key, work, x, row)
      /\ (Stored(work, x) /\ (old.qty # s.qty \/ old.rev # s.rev)) =>
          \A y \in RefundsOf(work, x) : work.line[y].qty = 0
  BY DEF ApplySaleLine
<1>3. x \in Lines /\ x[1] \in Sales BY <1>1, <1>2 DEF Lines
<1>4. i \in DOMAIN d.lines BY <1>1, <1>2 DEF Applying
<1>5. s.qty \in Nat /\ s.qty > 0 /\ s.rev \in Nat BY <1>1, <1>2, <1>4 DEF Normalized
<1>6. p \in Policies BY <1>2, <1>3, WorkParts, BookParts DEF IInv, Typed
<1>7. Earning(s.rev, s.qty, p) \in Nat BY <1>5, <1>6, EarningNat
<1>8. row \in LineRec /\ row.qty = s.qty /\ row.rev = s.rev /\ row.policy = p /\ row.of = NoLine
      /\ row.com = Earning(row.rev, row.qty, row.policy)
  <2> HIDE DEF p, s
  <2> QED BY <1>5, <1>6, <1>7 DEF LineRec
<1>9. \/ row.qty = old.qty /\ row.rev = old.rev /\ row.com = old.com /\ row.policy = old.policy
      \/ \A y \in RefundsOf(work, x) : work.line[y].qty = 0
  <2>1. CASE ~Stored(work, x)
    BY <1>3, <2>1, WorkSolid, RefundsStored
  <2>2. CASE Stored(work, x) /\ (old.qty # s.qty \/ old.rev # s.rev) BY <1>2, <2>2
  <2>3. CASE Stored(work, x) /\ old.qty = s.qty /\ old.rev = s.rev
    <3>1. old.com = Earning(old.rev, old.qty, old.policy)
      BY <1>3, <2>3 DEF Tallies, Tallied, Priced
    <3>2. p = old.policy BY <2>3
    <3> HIDE DEF row, old, s
    <3> QED BY <1>8, <2>3, <3>1, <3>2
  <2> QED BY <2>1, <2>2, <2>3
<1> HIDE DEF row
<1>10. Rewrites(work, work', x, row) => Tallied(work')
  BY <1>3, <1>8, <1>9, WorkSolid, SaleTallied
<1> QED BY <1>2, <1>3, <1>8, <1>10, LineTallied

LEMMA RefundTally ==
    ASSUME IInv, Tallies, IInv', NEW h \in Workers, NEW i \in Items, ApplyRefundLine(h, i)
    PROVE  Tallies'
<1> DEFINE d == Doc(h)
           x == <<d.key, i>>
           s == d.lines[i]
           orig == work.line[s.of]
           others == Taken(work, RefundsOf(work, s.of) \ {x})
           rev == IF s.rev = NoAmount THEN Money(orig.rev * s.qty, orig.qty) ELSE s.rev
           com == ReversedShare(orig, others, s.qty, rev)
           row == [qty |-> s.qty, rev |-> rev, com |-> com, policy |-> orig.policy, of |-> s.of]
<1>1. /\ task[h] \in InLines /\ Applying(h) /\ Normalized(d) /\ d.key \in Docs
      /\ task[h].todo \subseteq Items
  BY AtWork DEF ApplyRefundLine
<1>2. /\ i \in task[h].todo /\ d.key \in Refunds
      /\ Stored(work, s.of) /\ orig.qty > 0
      /\ Stored(work, x) => work.line[x].of = s.of
      /\ others.qty + s.qty <= orig.qty /\ others.rev + rev <= orig.rev
      /\ com \in Nat /\ others.com + com <= orig.com
      /\ UNCHANGED book
      /\ work' = Recorded(d.key, work, x, row)
  BY DEF ApplyRefundLine
<1>3. x \in Lines /\ x[1] = d.key /\ x[1] \notin Sales BY <1>1, <1>2, ProjectionAssumption DEF Lines
<1>4. i \in DOMAIN d.lines BY <1>1, <1>2 DEF Applying
<1>5. s.qty \in Nat /\ s.qty > 0 /\ s.rev \in Nat \cup {NoAmount} /\ s.of \in Sales \X Items
  BY <1>1, <1>2, <1>3, <1>4 DEF Normalized
<1>6. s.of \in Lines BY <1>5 DEF Lines, Docs
<1>7. orig.qty \in Nat /\ orig.rev \in Nat /\ orig.policy \in Policies \cup {NoPolicy}
  BY <1>6, WorkParts, BookParts
<1>8. rev \in Nat
  <2>1. orig.rev * s.qty \in Nat BY <1>5, <1>7
  <2>2. Money(orig.rev * s.qty, orig.qty) \in Nat BY <1>2, <1>7, <2>1, MoneyNat
  <2> QED BY <1>5, <2>2
<1>9. work.line[x].of = s.of \/ work.line[x].of = NoLine
  <2>1. CASE Stored(work, x) BY <1>2, <2>1
  <2>2. CASE ~Stored(work, x)
    <3>1. work.line[x] = NoRow BY <1>3, <2>2, WorkParts DEF Linked
    <3> QED BY <3>1 DEF NoRow
  <2> QED BY <2>1, <2>2
<1> DEFINE of == s.of
           qty == s.qty
<1> HIDE DEF others, rev, com
<1>10. row \in LineRec /\ row.qty = qty /\ row.rev = rev /\ row.com = com /\ row.of = of
  <2> HIDE DEF s, orig
  <2> QED BY <1>2, <1>5, <1>6, <1>7, <1>8 DEF LineRec
<1>11. row.com = ReversedShare(work.line[of], others, row.qty, row.rev) BY <1>10 DEF com
<1>12. others = Taken(work, RefundsOf(work, of) \ {x}) BY DEF others
<1>13. work' = Recorded(d.key, work, x, row) BY <1>2 DEF com, rev, others
<1>14. of \in Sales \X Items /\ Stored(work, of) /\ work.line[of].qty > 0
       /\ work.line[x].of \in {of, NoLine}
       /\ others.qty + row.qty <= work.line[of].qty /\ others.rev + row.rev <= work.line[of].rev
       /\ others.com + row.com <= work.line[of].com
       /\ row.qty \in Nat /\ row.rev \in Nat /\ row.com \in Nat
  BY <1>2, <1>5, <1>8, <1>9, <1>10
<1> HIDE DEF row, of, qty
<1>15. Rewrites(work, work', x, row) => Tallied(work')
  BY <1>3, <1>10, <1>11, <1>12, <1>14, WorkSolid, RefundTallied
<1> QED BY <1>2, <1>3, <1>10, <1>13, <1>15, LineTallied

LEMMA RetireRefundTally ==
    ASSUME IInv, Tallies, IInv', NEW h \in Workers, NEW y \in Lines, RetireRefund(h, y)
    PROVE  Tallies'
<1> DEFINE row == Emptied(work.line[y])
<1>1. task[h] \in InLines BY AtWork DEF RetireRefund
<1>2. PICK x \in task[h].gone : work.line[y].of = x BY DEF RetireRefund, RefundsOf
<1>3. UNCHANGED book /\ work' = Recorded(Doc(h).key, work, y, row) BY DEF RetireRefund
<1>4. x # NoLine BY <1>1, <1>2, TasksApart, ProjectionAssumption
<1>5. y[1] \notin Sales BY <1>2, <1>4, WorkParts DEF Linked
<1>6. row \in LineRec BY WorkParts, BookParts DEF Emptied, LineRec
<1>7. Rewrites(work, work', y, row) => Tallied(work') BY <1>5, WorkSolid, EmptiedTallied
<1> HIDE DEF row
<1> QED BY <1>3, <1>6, <1>7, LineTallied

LEMMA RetireLineTally ==
    ASSUME IInv, Tallies, IInv', NEW h \in Workers, NEW x \in Lines, RetireLine(h, x)
    PROVE  Tallies'
<1> DEFINE row == Emptied(work.line[x])
<1>1. UNCHANGED book /\ work' = Recorded(Doc(h).key, work, x, row) BY DEF RetireLine
<1>2. \A y \in RefundsOf(work, x) : work.line[y].qty = 0 BY DEF RetireLine
<1>3. row \in LineRec BY WorkParts, BookParts DEF Emptied, LineRec
<1>4. Rewrites(work, work', x, row) => Tallied(work') BY <1>2, WorkSolid, EmptiedTallied
<1> HIDE DEF row
<1> QED BY <1>1, <1>3, <1>4, LineTallied

\* Steps that leave the lines alone, or make the copies agree.
LEMMA LinesStill ==
    ASSUME Tallies, work'.line \in {work.line, book.line}, book'.line \in {work.line, book.line}
    PROVE  Tallies'
<1>1. ASSUME NEW b, NEW c, Tallied(b), c.line = b.line PROVE Tallied(c)
  BY <1>1 DEF Tallied, Rows, Stored, Priced, Within, Taken, RefundsOf
<1>2. Tallied(work') BY <1>1 DEF Tallies
<1>3. Tallied(book') BY <1>1 DEF Tallies
<1>4. Tallied(work)' /\ Tallied(book)'
  BY <1>2, <1>3 DEF Tallied, Rows, Stored, Priced, Within, Taken, RefundsOf
<1> QED BY <1>4 DEF Tallies

LEMMA DocumentTally ==
    ASSUME IInv, Tallies, NEW h \in Workers, OpenDocument(h) \/ CloseDocument(h)
    PROVE  Tallies'
<1>1. PICK f, S : work' = [work EXCEPT !.doc = f, !.events = S] \/ work' = [work EXCEPT !.doc = f]
  BY DEF OpenDocument, CloseDocument
<1>2. work'.line = work.line
  <2>1. [work EXCEPT !.doc = f, !.events = S].line = work.line /\ [work EXCEPT !.doc = f].line = work.line
    BY WorkParts DEF Book
  <2> QED BY <1>1, <2>1
<1>3. book' = book BY DEF OpenDocument, CloseDocument
<1> QED BY <1>2, <1>3, LinesStill

LEMMA TallyStep == ASSUME IInv, Tallies, IInv', [ProjectionNext]_projectionVars PROVE Tallies'
<1>1. ASSUME UNCHANGED tables PROVE Tallies' BY <1>1, LinesStill DEF tables
<1>2. ASSUME NEW h \in Workers, RollBack(h), UNCHANGED book PROVE Tallies'
  BY <1>2, LinesStill DEF RollBack
<1>3. ASSUME NEW h \in Workers, Projecting(h) PROVE Tallies'
  <2>1. CASE OpenInbox(h) \/ Settle(h) \/ SkipDocument(h) BY <1>1, <2>1 DEF OpenInbox, Settle, SkipDocument
  <2>2. CASE Begin(h) BY <2>2, LinesStill DEF Begin
  <2>3. CASE Abort(h) BY <1>2, <2>3 DEF Abort
  <2>4. CASE Commit(h) BY <2>4, LinesStill DEF Commit
  <2>5. CASE OpenDocument(h) \/ CloseDocument(h) BY <2>5, DocumentTally
  <2>6. CASE \E i \in Items : ApplySaleLine(h, i) \/ ApplyRefundLine(h, i) BY <2>6, SaleTally, RefundTally
  <2>7. CASE \E x \in Lines : RetireRefund(h, x) \/ RetireLine(h, x) BY <2>7, RetireRefundTally, RetireLineTally
  <2> QED BY <1>3, <2>1, <2>2, <2>3, <2>4, <2>5, <2>6, <2>7 DEF Projecting
<1>4. ASSUME NEW h \in Workers, FindLogs(h) \/ \E l \in Logs : TakeLog(h, l) \/ RetryException(h, l)
      PROVE  Tallies'
  BY <1>1, <1>4 DEF FindLogs, TakeLog, RetryException
<1>5. ASSUME NEW h \in Workers, Crash(h) PROVE Tallies' BY <1>2, <1>5 DEF Crash
<1>6. CASE \E l \in Logs : Receive(l) BY <1>1, <1>6 DEF Receive
<1>7. CASE \E p \in Policies : ConfigureRate(p) BY <1>1, <1>7 DEF ConfigureRate
<1>8. CASE UNCHANGED projectionVars BY <1>1, <1>8 DEF projectionVars
<1> QED BY <1>3, <1>4, <1>5, <1>6, <1>7, <1>8 DEF ProjectionNext

LEMMA TallyStart == ASSUME ProjectionInit PROVE Tallies
<1>1. \A x \in Lines : EmptyBook.line[x] = NoRow BY DEF EmptyBook
<1>2. Rows(EmptyBook) = {} BY <1>1 DEF Rows, Stored, NoRow
<1>3. IsFiniteSet(Rows(EmptyBook)) BY <1>2, FS_EmptySet
<1>4. Priced(EmptyBook) BY <1>2 DEF Priced, Rows
<1>5. IInv BY ProjectionStart
<1>6. EmptyBook \in Book /\ Linked(EmptyBook) BY <1>5, WorkParts DEF ProjectionInit
<1>7. Within(EmptyBook)
  <2> SUFFICES ASSUME NEW z \in Sales \X Items
               PROVE  Covers(EmptyBook.line[z], Taken(EmptyBook, RefundsOf(EmptyBook, z)))
    BY DEF Within
  <2>1. z \in Lines /\ z # NoLine BY ProjectionAssumption DEF Lines, Docs
  <2>2. RefundsOf(EmptyBook, z) = {} BY <1>1, <2>1 DEF RefundsOf, NoRow
  <2>3. IsFiniteSet(RefundsOf(EmptyBook, z)) BY <2>2, FS_EmptySet
  <2> QED BY <1>6, <2>1, <2>2, <2>3, CoveredEmpty
<1> QED BY <1>3, <1>4, <1>7 DEF ProjectionInit, Tallies, Tallied

\* However often credit notes are revised and cancelled, what refunds take back of a
\* sale line stays within it, and a full return takes back its whole commission.
THEOREM RefundsStayWithin == ProjectionSpec => []RefundsWithinSale
<1>1. Tallies => RefundsWithinSale BY DEF Tallies, Tallied, Within, Covers, RefundsWithinSale
<1>2. IInv /\ Tallies /\ IInv' /\ [ProjectionNext]_projectionVars => Tallies' BY TallyStep
<1>3. ProjectionInit => Tallies BY TallyStart
<1> QED BY <1>1, <1>2, <1>3, ProjectionInvariant, PTL DEF ProjectionSpec

-----------------------------------------------------------------------------
(* Invoices: the invariant *)

\* A delivery carries what it has calculated, and then what it has read.
Transaction == [status : {"none", "PENDING", "APPROVED", "PAID", "REJECTED"},
                com : Nat, sale : Nat, paid : BOOLEAN]
Shares == UNION {[S -> Nat] : S \in SUBSET Employees}
Brief == [at : {"out", "check", "insert", "calculate", "complete", "done"}, applied : BOOLEAN]
Counted == [at : {"lock", "done"}, applied : {FALSE}, complete : BOOLEAN, share : Shares]
Reading == [at : {"apply", "done"}, applied : {FALSE}, complete : BOOLEAN, share : Shares,
            seen : [Employees -> Transaction]]
Flight == Brief \cup Counted \cup Reading

LogRows == [of : Deliveries, status : {"PROCESSING", "SUCCESS", "FAILED"}]

InvoiceTypeOK ==
    /\ log \in Seq(LogRows)
    /\ aged \in Nat
    /\ configured \in BOOLEAN
    /\ commission \in [Employees -> Transaction]
    /\ credited \in [Employees -> Int]
    /\ invoiceLock \in Deliveries \cup {NoDelivery}
    /\ delivery \in [Deliveries -> Flight]
    /\ settling \in [Employees -> BOOLEAN]

\* What a delivery applies is what the rows say: it has read them under the lock,
\* which only it can release.
ReadUnderLock ==
    \A d \in Deliveries :
        delivery[d].at = "apply" => invoiceLock = d /\ delivery[d].seen = commission

\* Whoever is past the insertion has a row of the log, nobody else is applied, and
\* no two rows are of one event.
Admitted(d) == delivery[d].at \in {"calculate", "lock", "apply", "complete"} \/ delivery[d].applied

LoggedOnce ==
    /\ \A d \in Deliveries : Admitted(d) => \E n \in DOMAIN log : log[n].of = d
    /\ \A m, n \in DOMAIN log :
         Payload[log[m].of].id = Payload[log[n].of].id /\ Payload[log[m].of].id # NoId => m = n
    /\ \A d \in Deliveries : delivery[d].applied => delivery[d].at \in {"complete", "done"}

InvoiceInv == InvoiceTypeOK /\ ReadUnderLock /\ LoggedOnce /\ CreditsFollowRows

-----------------------------------------------------------------------------

LEMMA MovedFlight ==
    ASSUME NEW r \in Flight,
           NEW place \in {"check", "insert", "calculate", "done"},
           r \in Brief \/ place = "done"
    PROVE  /\ [r EXCEPT !.at = place] \in Flight
           /\ [r EXCEPT !.at = place].at = place
           /\ [r EXCEPT !.at = place].applied = r.applied
<1>1. CASE r \in Brief BY <1>1 DEF Flight, Brief
<1>2. CASE r \in Counted BY <1>2 DEF Flight, Brief, Counted
<1>3. CASE r \in Reading BY <1>3 DEF Flight, Brief, Reading
<1> QED BY <1>1, <1>2, <1>3 DEF Flight

LEMMA FlightKinds ==
    ASSUME NEW r \in Flight
    PROVE  /\ r.applied \in BOOLEAN
           /\ r.at \in {"out", "check", "insert", "calculate", "complete"} => r \in Brief
           /\ r.at = "lock" => r \in Counted
           /\ r.at = "apply" => r \in Reading
  BY DEF Flight, Brief, Counted, Reading

\* A delivery that moves and nothing else.
MovesTo(d, place) ==
    /\ delivery' = [delivery EXCEPT ![d] = delivery'[d]]
    /\ delivery'[d] \in Flight
    /\ delivery'[d].at = place
    /\ delivery'[d].applied = delivery[d].applied

LEMMA MovedOn ==
    ASSUME InvoiceInv, NEW d \in Deliveries, NEW place \in {"check", "insert", "calculate", "done"},
           delivery[d] \in Brief \/ place = "done", Move(d, place)
    PROVE  MovesTo(d, place)
<1>1. delivery[d] \in Flight BY DEF InvoiceInv, InvoiceTypeOK
<1>2. delivery \in [Deliveries -> Flight] BY DEF InvoiceInv, InvoiceTypeOK
<1>3. delivery' = [delivery EXCEPT ![d] = [delivery[d] EXCEPT !.at = place]]
  BY DEF Move
<1>4. delivery'[d] = [delivery[d] EXCEPT !.at = place] BY <1>2, <1>3
<1>5. delivery' = [delivery EXCEPT ![d] = delivery'[d]] BY <1>3, <1>4
<1> HIDE DEF Flight
<1>6. /\ delivery'[d] \in Flight /\ delivery'[d].at = place
      /\ delivery'[d].applied = delivery[d].applied
  <2>1. \A r \in Flight : r \in Brief \/ place = "done" =>
          /\ [r EXCEPT !.at = place] \in Flight /\ [r EXCEPT !.at = place].at = place
          /\ [r EXCEPT !.at = place].applied = r.applied
    BY MovedFlight
  <2> QED BY <1>1, <1>4, <2>1
<1> QED BY <1>5, <1>6 DEF MovesTo

\* The parts of the invariant, by what they read.
LEMMA MovesType ==
    ASSUME InvoiceInv, NEW d \in Deliveries, NEW place, MovesTo(d, place)
    PROVE  /\ (delivery \in [Deliveries -> Flight])'
           /\ \A c \in Deliveries : c # d => delivery'[c] = delivery[c]
<1>1. delivery \in [Deliveries -> Flight] BY DEF InvoiceInv, InvoiceTypeOK
<1> QED BY <1>1 DEF MovesTo

\* Rows are as they were, the lock also unless its holder lets it go.
LEMMA PassingKept ==
    ASSUME InvoiceInv, NEW d \in Deliveries, NEW place \in {"check", "insert", "calculate", "done"},
           MovesTo(d, place),
           place = "calculate" => \E n \in DOMAIN log' : log'[n].of = d,
           UNCHANGED <<configured, rows, settling>>, aged' \in Nat,
           invoiceLock' = invoiceLock \/ (place = "done" /\ Release(d)),
           (log \in Seq(LogRows))',
           \A n \in DOMAIN log : n \in DOMAIN log' /\ log'[n].of = log[n].of,
           \A m, n \in DOMAIN log' :
             Payload[log'[m].of].id = Payload[log'[n].of].id /\ Payload[log'[m].of].id # NoId => m = n,
           delivery[d].applied => place = "done"
    PROVE  InvoiceInv'
<1> USE DEF InvoiceInv
<1>0. \A c \in Deliveries : c # d => delivery'[c] = delivery[c] BY MovesType
<1>1. InvoiceTypeOK'
  <2>1. invoiceLock' \in Deliveries \cup {NoDelivery} BY DEF Release, InvoiceTypeOK
  <2>2. (delivery \in [Deliveries -> Flight])' BY MovesType
  <2> QED BY <2>1, <2>2 DEF InvoiceTypeOK, rows
<1>2. ReadUnderLock'
  <2> SUFFICES ASSUME NEW c \in Deliveries, delivery'[c].at = "apply"
               PROVE  invoiceLock' = c /\ delivery'[c].seen = commission'
    BY DEF ReadUnderLock
  <2>1. c # d /\ delivery'[c] = delivery[c] BY <1>0 DEF MovesTo
  <2>2. invoiceLock = c /\ delivery[c].seen = commission BY <2>1 DEF ReadUnderLock
  <2> QED BY <2>1, <2>2 DEF Release, rows
<1>3. LoggedOnce'
  <2>1. ASSUME NEW c \in Deliveries, Admitted(c)' PROVE \E n \in DOMAIN log' : log'[n].of = c
    <3>1. CASE c # d
      <4>1. Admitted(c) BY <1>0, <2>1, <3>1 DEF Admitted
      <4> QED BY <4>1 DEF LoggedOnce
    <3>2. CASE c = d
      <4>1. CASE delivery[d].applied BY <3>2, <4>1 DEF LoggedOnce, Admitted
      <4>2. CASE ~delivery[d].applied BY <2>1, <3>2, <4>2 DEF MovesTo, Admitted
      <4> QED BY <4>1, <4>2
    <3> QED BY <3>1, <3>2
  <2>2. \A c \in Deliveries : delivery'[c].applied => delivery'[c].at \in {"complete", "done"}
    BY <1>0 DEF LoggedOnce, MovesTo
  <2> QED BY <2>1, <2>2 DEF LoggedOnce
<1>4. CreditsFollowRows' BY DEF CreditsFollowRows, rows
<1> QED BY <1>1, <1>2, <1>3, <1>4


\* A delivery's row takes a status.
LEMMA LoggedKeeps ==
    ASSUME log \in Seq(LogRows), NEW d, NEW status \in {"SUCCESS", "FAILED"}, Logged(d, status)
    PROVE  /\ log' \in Seq(LogRows)
           /\ DOMAIN log' = DOMAIN log
           /\ \A n \in DOMAIN log : log'[n].of = log[n].of
<1>1. DOMAIN log' = DOMAIN log /\ DOMAIN log = 1 .. Len(log) /\ Len(log) \in Nat BY DEF Logged
<1>2. \A n \in DOMAIN log : log[n] \in LogRows OBVIOUS
<1>3. \A n \in DOMAIN log : log'[n] \in LogRows /\ log'[n].of = log[n].of
  BY <1>2 DEF Logged, LogRows
<1>4. log' = [n \in 1 .. Len(log) |-> log'[n]] BY <1>1 DEF Logged
<1> HIDE DEF LogRows
<1>5. log' \in Seq(LogRows)
  BY <1>1, <1>3, <1>4
<1> QED BY <1>1, <1>3, <1>5

LEMMA DeliverStep == ASSUME InvoiceInv, NEW d \in Deliveries, Deliver(d) PROVE InvoiceInv'
<1>1. delivery[d] \in Brief /\ ~delivery[d].applied
  BY FlightKinds DEF InvoiceInv, InvoiceTypeOK, LoggedOnce, Deliver
<1>2. MovesTo(d, "check") BY <1>1, MovedOn DEF Deliver
<1> QED BY <1>1, <1>2, PassingKept DEF Deliver, InvoiceInv, InvoiceTypeOK, LoggedOnce

LEMMA CheckStep == ASSUME InvoiceInv, NEW d \in Deliveries, CheckDelivery(d) PROVE InvoiceInv'
<1>1. delivery[d] \in Brief /\ ~delivery[d].applied
  BY FlightKinds DEF InvoiceInv, InvoiceTypeOK, LoggedOnce, CheckDelivery
<1>2. PICK place \in {"insert", "done"} : Move(d, place) BY DEF CheckDelivery
<1>3. MovesTo(d, place) BY <1>1, <1>2, MovedOn
<1> QED BY <1>1, <1>3, PassingKept DEF CheckDelivery, InvoiceInv, InvoiceTypeOK, LoggedOnce

LEMMA InsertStep == ASSUME InvoiceInv, NEW d \in Deliveries, InsertLog(d) PROVE InvoiceInv'
<1>1. delivery[d] \in Brief /\ ~delivery[d].applied
  BY FlightKinds DEF InvoiceInv, InvoiceTypeOK, LoggedOnce, InsertLog
<1>2. MovesTo(d, "calculate") BY <1>1, MovedOn DEF InsertLog
<1>3. log \in Seq(LogRows) /\ [of |-> d, status |-> "PROCESSING"] \in LogRows
  BY DEF InvoiceInv, InvoiceTypeOK, LogRows
<1> DEFINE row == [of |-> d, status |-> "PROCESSING"]
<1>4. row.of = d OBVIOUS
<1>5. log' = Append(log, row) BY DEF InsertLog
<1> HIDE DEF row, LogRows
<1>6. /\ log' \in Seq(LogRows) /\ Len(log) \in Nat
      /\ DOMAIN log = 1 .. Len(log) /\ DOMAIN log' = 1 .. Len(log) + 1
      /\ \A n \in DOMAIN log : log'[n] = log[n]
      /\ log'[Len(log) + 1] = row
  BY <1>3, <1>5 DEF row
<1>7. \A m, n \in DOMAIN log' :
        Payload[log'[m].of].id = Payload[log'[n].of].id /\ Payload[log'[m].of].id # NoId => m = n
  <2> TAKE m, n \in DOMAIN log'
  <2>1. \A k \in DOMAIN log : Payload[d].id = NoId \/ Payload[log[k].of].id # Payload[d].id
    BY DEF InsertLog, Unlogged
  <2>2. m = Len(log) + 1 \/ m \in DOMAIN log BY <1>6
  <2>3. n = Len(log) + 1 \/ n \in DOMAIN log BY <1>6
  <2>4. CASE m \in DOMAIN log /\ n \in DOMAIN log BY <1>6, <2>4 DEF InvoiceInv, LoggedOnce
  <2>5. CASE m = Len(log) + 1 /\ n \in DOMAIN log BY <1>4, <1>6, <2>1, <2>5
  <2>6. CASE n = Len(log) + 1 /\ m \in DOMAIN log BY <1>4, <1>6, <2>1, <2>6
  <2> QED BY <2>2, <2>3, <2>4, <2>5, <2>6
<1>8. \A n \in DOMAIN log : n \in DOMAIN log' /\ log'[n].of = log[n].of BY <1>6
<1>9. \E n \in DOMAIN log' : log'[n].of = d BY <1>4, <1>6
<1>10. UNCHANGED <<configured, rows, settling>> /\ aged' \in Nat /\ invoiceLock' = invoiceLock
  BY DEF InsertLog, InvoiceInv, InvoiceTypeOK
<1>11. ~(delivery[d].applied) BY <1>1
<1> QED BY <1>2, <1>6, <1>7, <1>8, <1>9, <1>10, <1>11, PassingKept DEF LogRows

LEMMA RefuseStep == ASSUME InvoiceInv, NEW d \in Deliveries, RefuseLog(d) PROVE InvoiceInv'
<1>1. delivery[d] \in Brief /\ ~delivery[d].applied
  BY FlightKinds DEF InvoiceInv, InvoiceTypeOK, LoggedOnce, RefuseLog
<1>2. MovesTo(d, "done") BY <1>1, MovedOn DEF RefuseLog
<1> QED BY <1>1, <1>2, PassingKept DEF RefuseLog, InvoiceInv, InvoiceTypeOK, LoggedOnce

LEMMA FailStep == ASSUME InvoiceInv, NEW d \in Deliveries, FailDelivery(d) PROVE InvoiceInv'
<1>1. MovesTo(d, "done") BY MovedOn DEF FailDelivery
<1>2. log \in Seq(LogRows) /\ Logged(d, "FAILED")
  BY DEF FailDelivery, InvoiceInv, InvoiceTypeOK, LogRows
<1>3. /\ log' \in Seq(LogRows) /\ DOMAIN log' = DOMAIN log
      /\ \A n \in DOMAIN log : log'[n].of = log[n].of
  BY <1>2, LoggedKeeps
<1>4. \A m, n \in DOMAIN log' :
        Payload[log'[m].of].id = Payload[log'[n].of].id /\ Payload[log'[m].of].id # NoId => m = n
  BY <1>3 DEF InvoiceInv, LoggedOnce
<1>5. /\ UNCHANGED <<configured, rows, settling>> /\ aged' \in Nat
      /\ Release(d)
  BY DEF FailDelivery, InvoiceInv, InvoiceTypeOK
<1> QED BY <1>1, <1>3, <1>4, <1>5, PassingKept DEF LogRows

LEMMA CompleteStep == ASSUME InvoiceInv, NEW d \in Deliveries, CompleteLog(d) PROVE InvoiceInv'
<1>1. MovesTo(d, "done") BY MovedOn DEF CompleteLog
<1>2. log \in Seq(LogRows) /\ (Logged(d, "SUCCESS") \/ log' = log)
  BY DEF CompleteLog, InvoiceInv, InvoiceTypeOK, LogRows
<1>3. /\ log' \in Seq(LogRows) /\ DOMAIN log' = DOMAIN log
      /\ \A n \in DOMAIN log : log'[n].of = log[n].of
  BY <1>2, LoggedKeeps
<1>4. \A m, n \in DOMAIN log' :
        Payload[log'[m].of].id = Payload[log'[n].of].id /\ Payload[log'[m].of].id # NoId => m = n
  BY <1>3 DEF InvoiceInv, LoggedOnce
<1>5. /\ UNCHANGED <<configured, rows, settling>> /\ aged' \in Nat
      /\ invoiceLock' = invoiceLock
  BY DEF CompleteLog, InvoiceInv, InvoiceTypeOK
<1> QED BY <1>1, <1>3, <1>4, <1>5, PassingKept DEF LogRows

LEMMA CrashDeliveryStep == ASSUME InvoiceInv, NEW d \in Deliveries, CrashDelivery(d) PROVE InvoiceInv'
<1>1. MovesTo(d, "done") BY MovedOn DEF CrashDelivery
<1> QED BY <1>1, PassingKept DEF CrashDelivery, InvoiceInv, InvoiceTypeOK, LoggedOnce

\* What a delivery calculates is some of the shares of its payload.
LEMMA SharesOf == ASSUME NEW d \in Deliveries, NEW S \in SUBSET DOMAIN Payload[d].share
                  PROVE  [e \in S |-> Payload[d].share[e]] \in Shares
<1>1. /\ DOMAIN Payload[d].share \subseteq Employees
      /\ \A e \in DOMAIN Payload[d].share : Payload[d].share[e] \in Nat
  BY InvoiceAssumption DEF Event
<1>2. [e \in S |-> Payload[d].share[e]] \in [S -> Nat] BY <1>1
<1> QED BY <1>1, <1>2 DEF Shares

\* A delivery that has no row of its own to lose comes to where others are not.
LEMMA HeldKept ==
    ASSUME InvoiceInv, NEW d \in Deliveries, NEW flight \in Flight,
           delivery' = [delivery EXCEPT ![d] = flight],
           Admitted(d) \/ ~Admitted(d)', ~flight.applied,
           flight.at # "apply" \/ (invoiceLock' = d /\ flight.seen = commission),
           invoiceLock' = invoiceLock \/ (invoiceLock = NoDelivery /\ invoiceLock' = d),
           UNCHANGED <<log, aged, configured, rows, settling>>
    PROVE  InvoiceInv'
<1> USE DEF InvoiceInv
<1>1. delivery \in [Deliveries -> Flight] BY DEF InvoiceTypeOK
<1>2. delivery'[d] = flight /\ \A c \in Deliveries : c # d => delivery'[c] = delivery[c] BY <1>1
<1>3. (delivery \in [Deliveries -> Flight])' BY <1>1
<1>4. InvoiceTypeOK' BY <1>3 DEF InvoiceTypeOK, rows
<1>5. ReadUnderLock'
  <2> SUFFICES ASSUME NEW c \in Deliveries, delivery'[c].at = "apply"
               PROVE  invoiceLock' = c /\ delivery'[c].seen = commission'
    BY DEF ReadUnderLock
  <2>1. CASE c = d BY <1>2, <2>1 DEF rows
  <2>2. CASE c # d
    <3>1. invoiceLock = c /\ delivery[c].seen = commission BY <1>2, <2>2 DEF ReadUnderLock
    <3>2. NoDelivery # c BY InvoiceAssumption
    <3> QED BY <1>2, <2>2, <3>1, <3>2 DEF rows
  <2> QED BY <2>1, <2>2
<1>6. LoggedOnce'
  <2>1. \A c \in Deliveries : Admitted(c)' => Admitted(c) BY <1>2 DEF Admitted
  <2>2. \A c \in Deliveries : delivery'[c].applied => delivery'[c].at \in {"complete", "done"}
    BY <1>2 DEF LoggedOnce
  <2>3. log' = log OBVIOUS
  <2> QED BY <2>1, <2>2, <2>3 DEF LoggedOnce
<1>7. CreditsFollowRows' BY DEF CreditsFollowRows, rows
<1> QED BY <1>4, <1>5, <1>6, <1>7

LEMMA CalculateStep == ASSUME InvoiceInv, NEW d \in Deliveries, Calculate(d) PROVE InvoiceInv'
<1>1. PICK S \in SUBSET DOMAIN Payload[d].share : delivery' = [delivery EXCEPT ![d] =
             [at |-> "lock", applied |-> FALSE, complete |-> configured,
              share |-> [e \in S |-> Payload[d].share[e]]]]
  BY DEF Calculate
<1> DEFINE share == [e \in S |-> Payload[d].share[e]]
           flight == [at |-> "lock", applied |-> FALSE, complete |-> configured, share |-> share]
<1>2. share \in Shares BY SharesOf
<1> HIDE DEF share
<1>3. configured \in BOOLEAN BY DEF InvoiceInv, InvoiceTypeOK
<1>4. flight \in Flight BY <1>2, <1>3 DEF Flight, Counted
<1>5. ~flight.applied /\ flight.at # "apply" OBVIOUS
<1>6. delivery' = [delivery EXCEPT ![d] = flight] BY <1>1 DEF share
<1> HIDE DEF flight
<1>7. Admitted(d) BY DEF Calculate, Admitted
<1> QED BY <1>4, <1>5, <1>6, <1>7, HeldKept DEF Calculate

LEMMA LockStep == ASSUME InvoiceInv, NEW d \in Deliveries, LockInvoice(d) PROVE InvoiceInv'
<1> DEFINE flight == [at |-> "apply", applied |-> FALSE, complete |-> delivery[d].complete,
                      share |-> delivery[d].share, seen |-> commission]
<1>1. delivery[d] \in Counted BY FlightKinds DEF LockInvoice, InvoiceInv, InvoiceTypeOK
<1>2. flight \in Flight BY <1>1 DEF Flight, Counted, Reading, InvoiceInv, InvoiceTypeOK
<1>3. ~flight.applied /\ flight.seen = commission OBVIOUS
<1>4. delivery' = [delivery EXCEPT ![d] = flight] BY DEF LockInvoice
<1> HIDE DEF flight
<1>5. Admitted(d) BY DEF LockInvoice, Admitted
<1> QED BY <1>2, <1>3, <1>4, <1>5, HeldKept DEF LockInvoice

-----------------------------------------------------------------------------
(* The rows *)

LEMMA RevisedIs ==
    ASSUME InvoiceInv, NEW d \in Deliveries, delivery[d].at = "apply", NEW e \in Employees
    PROVE  /\ Revised(d, e) \in Transaction
           /\ delivery[d].seen = commission /\ commission[e] \in Transaction
           /\ credited[e] \in Int
           /\ Frozen(commission[e]) /\ ~Payload[d].cancelled => Revised(d, e) = commission[e]
<1>1. delivery[d] \in Reading BY FlightKinds DEF InvoiceInv, InvoiceTypeOK
<1>2. delivery[d].seen = commission /\ commission[e] \in Transaction /\ credited[e] \in Int
  BY DEF InvoiceInv, InvoiceTypeOK, ReadUnderLock
<1>3. ASSUME e \in DOMAIN delivery[d].share PROVE Named(d, e, commission[e]) \in Transaction
  <2>1. delivery[d].share \in Shares BY <1>1 DEF Reading
  <2>2. delivery[d].share[e] \in Nat BY <1>3, <2>1 DEF Shares
  <2>3. Rate \in Nat BY InvoiceAssumption
  <2>4. Rate * delivery[d].share[e] \in Nat /\ Rate * 0 = 0 BY <2>2, <2>3
  <2> QED BY <1>2, <2>2, <2>4 DEF Named, Transaction
<1>4. Removed(commission[e]) \in Transaction BY <1>2 DEF Removed, Transaction
<1>5. delivery[d].seen[e] = commission[e] BY <1>2
<1> QED BY <1>2, <1>3, <1>4, <1>5 DEF Revised

LEMMA ApplyStep == ASSUME InvoiceInv, NEW d \in Deliveries, ApplyInvoice(d) PROVE InvoiceInv'
<1> USE DEF InvoiceInv
<1>0. delivery[d].at = "apply" /\ invoiceLock = d /\ delivery[d].seen = commission
  BY DEF ApplyInvoice, ReadUnderLock
<1>1. delivery \in [Deliveries -> Flight] BY DEF InvoiceTypeOK
<1>2. /\ delivery'[d].at = "complete" /\ delivery'[d].applied
      /\ \A c \in Deliveries : c # d => delivery'[c] = delivery[c]
      /\ delivery' \in [Deliveries -> Flight]
  <2> DEFINE flight == [at |-> "complete", applied |-> TRUE]
  <2>1. delivery' = [delivery EXCEPT ![d] = flight] BY DEF ApplyInvoice
  <2>2. flight \in Flight /\ flight.at = "complete" /\ flight.applied BY DEF Flight, Brief
  <2> HIDE DEF flight
  <2> QED BY <1>1, <2>1, <2>2
<1>3. ASSUME NEW e \in Employees
      PROVE  /\ commission'[e] = Revised(d, e)
             /\ credited'[e] = credited[e] + commission'[e].com - commission[e].com
  <2>1. Revised(d, e) \in Transaction /\ commission[e] \in Transaction /\ credited[e] \in Int
    BY <1>0, RevisedIs
  <2>2. commission'[e] = IF Revised(d, e) # commission[e] THEN Revised(d, e) ELSE commission[e]
    BY <1>0 DEF ApplyInvoice
  <2>3. credited'[e] = IF Revised(d, e) # commission[e]
                       THEN credited[e] + Revised(d, e).com - commission[e].com ELSE credited[e]
    BY <1>0 DEF ApplyInvoice, Credited
  <2>4. commission[e].com \in Int BY <2>1 DEF Transaction
  <2> QED BY <2>1, <2>2, <2>3, <2>4
<1>4. InvoiceTypeOK'
  <2>1. \A e \in Employees : commission'[e] \in Transaction /\ credited'[e] \in Int
    <3> TAKE e \in Employees
    <3>1. commission'[e] \in Transaction /\ commission[e] \in Transaction /\ credited[e] \in Int
      BY <1>0, <1>3, RevisedIs
    <3> QED BY <1>3, <3>1 DEF Transaction
  <2>2. commission' \in [Employees -> Transaction] /\ credited' \in [Employees -> Int]
    BY <2>1 DEF ApplyInvoice
  <2> QED BY <1>2, <2>2 DEF InvoiceTypeOK, ApplyInvoice
<1>5. ReadUnderLock'
  <2>1. \A c \in Deliveries : delivery'[c].at # "apply" BY <1>0, <1>2 DEF ReadUnderLock
  <2> QED BY <2>1 DEF ReadUnderLock
<1>6. LoggedOnce'
  <2>1. \A c \in Deliveries : Admitted(c)' => Admitted(c) BY <1>0, <1>2 DEF Admitted
  <2>2. \A c \in Deliveries : delivery'[c].applied => delivery'[c].at \in {"complete", "done"}
    BY <1>2 DEF LoggedOnce
  <2>3. log' = log BY DEF ApplyInvoice
  <2> QED BY <2>1, <2>2, <2>3 DEF LoggedOnce
<1>7. CreditsFollowRows'
  <2> SUFFICES ASSUME NEW e \in Employees PROVE credited'[e] = commission'[e].com
    BY DEF CreditsFollowRows
  <2>1. commission'[e] \in Transaction /\ commission[e] \in Transaction BY <1>0, <1>3, RevisedIs
  <2>2. commission'[e].com \in Int /\ commission[e].com \in Int BY <2>1 DEF Transaction
  <2> QED BY <1>3, <2>2 DEF CreditsFollowRows
<1> QED BY <1>4, <1>5, <1>6, <1>7

\* What an administrator writes while no delivery holds the rows.
LEMMA RowKept ==
    ASSUME InvoiceInv, Unlocked, NEW e \in Employees, NEW row \in Transaction,
           commission' = [commission EXCEPT ![e] = row],
           credited' = [credited EXCEPT ![e] = credited[e] + row.com - commission[e].com],
           settling' \in [Employees -> BOOLEAN],
           UNCHANGED <<log, aged, configured, invoiceLock, delivery>>
    PROVE  InvoiceInv'
<1> USE DEF InvoiceInv
<1>0. commission \in [Employees -> Transaction] /\ credited \in [Employees -> Int]
  BY DEF InvoiceTypeOK
<1>1. commission[e].com \in Int /\ row.com \in Int /\ credited[e] \in Int
  BY <1>0 DEF Transaction
<1>2. commission' \in [Employees -> Transaction] /\ credited' \in [Employees -> Int] BY <1>0, <1>1
<1>3. InvoiceTypeOK' BY <1>2 DEF InvoiceTypeOK
<1>4. ReadUnderLock' BY InvoiceAssumption DEF ReadUnderLock, Unlocked
<1>5. LoggedOnce' BY DEF LoggedOnce, Admitted
<1>6. CreditsFollowRows' BY <1>0, <1>1 DEF CreditsFollowRows
<1> QED BY <1>3, <1>4, <1>5, <1>6

\* The whole of an invoice is a sum over its finitely many salesmen.
LEMMA WholeInvoiceNat == ASSUME InvoiceInv, log # <<>> PROVE WholeInvoice \in Nat
<1>1. log \in Seq(LogRows) BY DEF InvoiceInv, InvoiceTypeOK, LogRows
<1> HIDE DEF LogRows
<1>2. Len(log) \in DOMAIN log BY <1>1
<1>3. log[Len(log)] \in LogRows BY <1>1, <1>2
<1>4. log[Len(log)].of \in Deliveries BY <1>3 DEF LogRows
<1>5. Event(Latest) /\ Rate \in Nat BY <1>4, InvoiceAssumption DEF Latest
<1>6. IsFiniteSet(DOMAIN Latest.share) /\ \A x \in DOMAIN Latest.share : Latest.share[x] \in Nat
  BY <1>5 DEF Event
<1>7. SumFunctionOnSet(Latest.share, DOMAIN Latest.share) \in Nat BY <1>6, SumOfNaturals
<1>8. SumFunction(Latest.share) \in Nat BY <1>7 DEF SumFunction
<1> HIDE DEF Latest
<1> QED BY <1>5, <1>8 DEF WholeInvoice

LEMMA ApproveStep == ASSUME InvoiceInv, NEW e \in Employees, ApproveCommission(e) PROVE InvoiceInv'
<1> DEFINE row == [commission[e] EXCEPT !.status = "APPROVED", !.com = WholeInvoice]
<1>0. commission \in [Employees -> Transaction] BY DEF InvoiceInv, InvoiceTypeOK
<1>1. WholeInvoice \in Nat BY WholeInvoiceNat DEF ApproveCommission, Approvable
<1>2. commission[e] \in Transaction BY <1>0
<1>3. row \in Transaction /\ row.com = WholeInvoice BY <1>1, <1>2 DEF Transaction
<1>4. commission' = [commission EXCEPT ![e] = row] BY <1>0 DEF ApproveCommission
<1>5. credited' = [credited EXCEPT ![e] = credited[e] + row.com - commission[e].com]
  BY <1>3 DEF ApproveCommission, Credited
<1>6. settling' \in [Employees -> BOOLEAN] BY DEF ApproveCommission, InvoiceInv, InvoiceTypeOK
<1> HIDE DEF row
<1> QED BY <1>3, <1>4, <1>5, <1>6, RowKept DEF ApproveCommission

\* A row that keeps its commission needs no transaction of the wallet.
LEMMA StatusKept ==
    ASSUME InvoiceInv, Unlocked, NEW e \in Employees, NEW row \in Transaction,
           commission' = [commission EXCEPT ![e] = row], row.com = commission[e].com,
           settling' \in [Employees -> BOOLEAN],
           UNCHANGED <<credited, log, aged, configured, invoiceLock, delivery>>
    PROVE  InvoiceInv'
<1>0. commission \in [Employees -> Transaction] /\ credited \in [Employees -> Int]
  BY DEF InvoiceInv, InvoiceTypeOK
<1>1. commission[e].com \in Int /\ row.com \in Int /\ credited[e] \in Int
  BY <1>0 DEF Transaction
<1>2. credited[e] + row.com - commission[e].com = credited[e] BY <1>1
<1>3. credited' = [credited EXCEPT ![e] = credited[e] + row.com - commission[e].com] BY <1>0, <1>2
<1> QED BY <1>3, RowKept

LEMMA RejectStep == ASSUME InvoiceInv, NEW e \in Employees, RejectCommission(e) PROVE InvoiceInv'
<1> DEFINE row == [commission[e] EXCEPT !.status = "REJECTED"]
<1>0. commission \in [Employees -> Transaction] BY DEF InvoiceInv, InvoiceTypeOK
<1>1. commission[e] \in Transaction BY <1>0
<1>2. row \in Transaction /\ row.com = commission[e].com BY <1>1 DEF Transaction
<1>3. commission' = [commission EXCEPT ![e] = row] BY DEF RejectCommission
<1>4. settling' \in [Employees -> BOOLEAN] BY DEF RejectCommission, InvoiceInv, InvoiceTypeOK
<1> HIDE DEF row
<1> QED BY <1>2, <1>3, <1>4, StatusKept DEF RejectCommission

LEMMA SettleWriteStep == ASSUME InvoiceInv, NEW e \in Employees, SettleWrite(e) PROVE InvoiceInv'
<1> DEFINE row == [commission[e] EXCEPT !.status = "PAID", !.paid = TRUE]
<1>0. commission \in [Employees -> Transaction] BY DEF InvoiceInv, InvoiceTypeOK
<1>1. commission[e] \in Transaction BY <1>0
<1>2. row \in Transaction /\ row.com = commission[e].com BY <1>1 DEF Transaction
<1>3. commission' = [commission EXCEPT ![e] = row] BY <1>0 DEF SettleWrite
<1>4. settling' \in [Employees -> BOOLEAN] BY DEF SettleWrite, InvoiceInv, InvoiceTypeOK
<1> HIDE DEF row
<1> QED BY <1>2, <1>3, <1>4, StatusKept DEF SettleWrite

\* Steps that touch neither the rows nor the deliveries.
LEMMA AsideKept ==
    ASSUME InvoiceInv, UNCHANGED <<log, rows, invoiceLock, delivery>>,
           aged' \in Nat, configured' \in BOOLEAN, settling' \in [Employees -> BOOLEAN]
    PROVE  InvoiceInv'
<1> USE DEF InvoiceInv
<1>1. InvoiceTypeOK' BY DEF InvoiceTypeOK, rows
<1>2. ReadUnderLock' BY DEF ReadUnderLock, rows
<1>3. LoggedOnce' BY DEF LoggedOnce, Admitted
<1>4. CreditsFollowRows' BY DEF CreditsFollowRows, rows
<1> QED BY <1>1, <1>2, <1>3, <1>4

LEMMA InvoiceAside ==
    ASSUME InvoiceInv,
           WindowPasses \/ Configure \/ UNCHANGED invoiceVars \/ \E e \in Employees : SettleRead(e)
    PROVE  InvoiceInv'
<1>1. /\ aged \in Nat /\ configured \in BOOLEAN /\ settling \in [Employees -> BOOLEAN]
      /\ Len(log) \in Nat
  BY DEF InvoiceInv, InvoiceTypeOK
<1>2. CASE WindowPasses BY <1>1, <1>2, AsideKept DEF WindowPasses
<1>3. CASE Configure BY <1>1, <1>3, AsideKept DEF Configure
<1>4. CASE UNCHANGED invoiceVars BY <1>1, <1>4, AsideKept DEF invoiceVars
<1>5. ASSUME NEW e \in Employees, SettleRead(e) PROVE InvoiceInv'
  BY <1>1, <1>5, AsideKept DEF SettleRead
<1> QED BY <1>2, <1>3, <1>4, <1>5

LEMMA InvoiceStep == ASSUME InvoiceInv, [InvoiceNext]_invoiceVars PROVE InvoiceInv'
<1>1. ASSUME NEW d \in Deliveries,
             \/ Deliver(d) \/ CheckDelivery(d) \/ InsertLog(d) \/ RefuseLog(d)
             \/ Calculate(d) \/ LockInvoice(d) \/ ApplyInvoice(d)
             \/ CompleteLog(d) \/ FailDelivery(d) \/ CrashDelivery(d)
      PROVE  InvoiceInv'
  BY <1>1, DeliverStep, CheckStep, InsertStep, RefuseStep, CalculateStep, LockStep, ApplyStep,
     CompleteStep, FailStep, CrashDeliveryStep
<1>2. ASSUME NEW e \in Employees,
             ApproveCommission(e) \/ RejectCommission(e) \/ SettleWrite(e)
      PROVE  InvoiceInv'
  BY <1>2, ApproveStep, RejectStep, SettleWriteStep
<1> QED BY <1>1, <1>2, InvoiceAside DEF InvoiceNext

LEMMA InvoiceStart == ASSUME InvoiceInit PROVE InvoiceInv
<1> USE DEF InvoiceInit, InvoiceInv
<1>1. InvoiceTypeOK
  <2>1. NoTransaction \in Transaction BY DEF NoTransaction, Transaction
  <2>2. [at |-> "out", applied |-> FALSE] \in Flight BY DEF Flight, Brief
  <2> QED BY <2>1, <2>2 DEF InvoiceTypeOK
<1>2. \A d \in Deliveries : delivery[d].at = "out" /\ ~delivery[d].applied OBVIOUS
<1>3. ReadUnderLock BY <1>2 DEF ReadUnderLock
<1>4. LoggedOnce BY <1>2 DEF LoggedOnce, Admitted
<1>5. CreditsFollowRows BY DEF CreditsFollowRows, NoTransaction
<1> QED BY <1>1, <1>3, <1>4, <1>5

THEOREM InvoiceInvariant == InvoiceSpec => []InvoiceInv
<1>1. InvoiceInit => InvoiceInv BY InvoiceStart
<1>2. InvoiceInv /\ [InvoiceNext]_invoiceVars => InvoiceInv' BY InvoiceStep
<1> QED BY <1>1, <1>2, PTL DEF InvoiceSpec

\* What is in a wallet is what the rows say.
THEOREM CreditsFollow == InvoiceSpec => []CreditsFollowRows
<1>1. InvoiceInv => CreditsFollowRows BY DEF InvoiceInv
<1> QED BY <1>1, InvoiceInvariant, PTL

\* One row of an event, hence one delivery of it is ever applied.
THEOREM EventsOnce == InvoiceSpec => []EventAppliedOnce
<1>1. InvoiceInv => EventAppliedOnce
  <2> SUFFICES ASSUME InvoiceInv, NEW c \in Deliveries, NEW d \in Deliveries,
                      delivery[c].applied, delivery[d].applied,
                      Payload[c].id = Payload[d].id, Payload[c].id # NoId
               PROVE  c = d
    BY DEF EventAppliedOnce
  <2>1. PICK m \in DOMAIN log : log[m].of = c BY DEF InvoiceInv, LoggedOnce, Admitted
  <2>2. PICK n \in DOMAIN log : log[n].of = d BY DEF InvoiceInv, LoggedOnce, Admitted
  <2>3. m = n BY <2>1, <2>2 DEF InvoiceInv, LoggedOnce
  <2> QED BY <2>1, <2>2, <2>3
<1> QED BY <1>1, InvoiceInvariant, PTL

\* Only an applied delivery becomes applied.
LEMMA ApplyingStep ==
    ASSUME InvoiceInv, [InvoiceNext]_invoiceVars, NEW d \in Deliveries,
           ~delivery[d].applied, delivery'[d].applied
    PROVE  ApplyInvoice(d)
<1>0. delivery \in [Deliveries -> Flight] BY DEF InvoiceInv, InvoiceTypeOK
<1>1. ASSUME NEW c \in Deliveries, NEW place \in {"check", "insert", "calculate", "done"},
             delivery[c] \in Brief \/ place = "done", Move(c, place)
      PROVE  FALSE
  <2>1. MovesTo(c, place) BY <1>1, MovedOn
  <2>2. \A b \in Deliveries : b # c => delivery'[b] = delivery[b] BY <2>1, MovesType
  <2> QED BY <2>1, <2>2 DEF MovesTo
<1>2. ASSUME NEW c \in Deliveries, delivery[c].at \in {"out", "check", "insert"}
      PROVE  delivery[c] \in Brief
  BY <1>0, <1>2, FlightKinds
<1>3. ASSUME NEW c \in Deliveries, CheckDelivery(c) PROVE FALSE
  <2>1. PICK place \in {"insert", "done"} : Move(c, place) BY <1>3 DEF CheckDelivery
  <2>2. delivery[c] \in Brief BY <1>2, <1>3 DEF CheckDelivery
  <2> QED BY <1>1, <2>1, <2>2
<1>4. ASSUME NEW c \in Deliveries, Deliver(c) \/ InsertLog(c) \/ RefuseLog(c) PROVE FALSE
  <2>1. delivery[c] \in Brief BY <1>2, <1>4 DEF Deliver, InsertLog, RefuseLog
  <2>2. PICK place \in {"check", "calculate", "done"} : Move(c, place)
    BY <1>4 DEF Deliver, InsertLog, RefuseLog
  <2> QED BY <1>1, <2>1, <2>2
<1>5. ASSUME NEW c \in Deliveries, CompleteLog(c) \/ FailDelivery(c) \/ CrashDelivery(c) PROVE FALSE
  <2>1. Move(c, "done") BY <1>5 DEF CompleteLog, FailDelivery, CrashDelivery
  <2> QED BY <1>1, <2>1
<1>6. ASSUME NEW c \in Deliveries, Calculate(c) \/ LockInvoice(c) PROVE FALSE
  <2>1. PICK flight : delivery' = [delivery EXCEPT ![c] = flight] /\ ~flight.applied
    BY <1>6 DEF Calculate, LockInvoice
  <2> QED BY <1>0, <2>1
<1>7. ASSUME NEW c \in Deliveries, ApplyInvoice(c) PROVE c = d
  BY <1>0, <1>7 DEF ApplyInvoice
<1>8. ASSUME UNCHANGED delivery PROVE FALSE BY <1>8
<1>9. ASSUME NEW e \in Employees,
             ApproveCommission(e) \/ RejectCommission(e) \/ SettleRead(e) \/ SettleWrite(e)
      PROVE  FALSE
  BY <1>8, <1>9 DEF ApproveCommission, RejectCommission, SettleRead, SettleWrite
<1>10. ~WindowPasses /\ ~Configure /\ ~UNCHANGED invoiceVars
  BY <1>8 DEF WindowPasses, Configure, invoiceVars
<1> QED BY <1>3, <1>4, <1>5, <1>6, <1>7, <1>9, <1>10 DEF InvoiceNext

\* A delivery leaves what was approved as it is, and puts a difference up for review.
THEOREM SnapshotsKept == InvoiceSpec => SnapshotsPreserved
<1>1. ASSUME InvoiceInv, InvoiceNext \/ UNCHANGED invoiceVars,
             NEW d \in Deliveries, ~delivery[d].applied, delivery'[d].applied, ~Payload[d].cancelled,
             NEW e \in Employees, commission[e].status \in {"APPROVED", "PAID"}
      PROVE  /\ commission'[e] = commission[e]
             /\ LET sale == delivery[d].share[e] IN
                e \in DOMAIN delivery[d].share
                  /\ (sale # commission[e].sale
                        \/ commission[e].com # (IF delivery[d].complete THEN Rate * sale ELSE 0))
                => <<e, Payload[d].id>> \in review'
  <2>1. ApplyInvoice(d) BY <1>1, ApplyingStep
  <2>2. delivery[d].at = "apply" BY <2>1 DEF ApplyInvoice
  <2>3. Frozen(commission[e]) BY <1>1 DEF Frozen
  <2>4. delivery[d].seen[e] = commission[e] /\ Revised(d, e) = commission[e]
    BY <1>1, <2>2, <2>3, RevisedIs
  <2>5. commission'[e] = commission[e] BY <2>1, <2>4 DEF ApplyInvoice
  <2>6. ASSUME e \in DOMAIN delivery[d].share,
               delivery[d].share[e] # commission[e].sale
                 \/ commission[e].com # (IF delivery[d].complete THEN Rate * delivery[d].share[e] ELSE 0)
        PROVE  <<e, Payload[d].id>> \in review'
    <3>1. e \in Differing(d)
      BY <1>1, <2>3, <2>4, <2>6 DEF Differing, Named
    <3> QED BY <2>1, <3>1 DEF ApplyInvoice
  <2> QED BY <2>5, <2>6
<1>2. InvoiceInv /\ [InvoiceNext]_invoiceVars =>
        [\A d \in Deliveries : ~delivery[d].applied /\ delivery'[d].applied /\ ~Payload[d].cancelled =>
         \A e \in Employees : commission[e].status \in {"APPROVED", "PAID"} =>
            /\ commission'[e] = commission[e]
            /\ LET sale == delivery[d].share[e] IN
               e \in DOMAIN delivery[d].share
                 /\ (sale # commission[e].sale
                       \/ commission[e].com # (IF delivery[d].complete THEN Rate * sale ELSE 0))
               => <<e, Payload[d].id>> \in review']_invoiceVars
  BY <1>1
<1> QED BY <1>2, InvoiceInvariant, PTL DEF InvoiceSpec, SnapshotsPreserved
=============================================================================
