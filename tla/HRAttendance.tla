---------------------------- MODULE HRAttendance ----------------------------
(***************************************************************************)
(* The attendance of one employee: punches, the automatic punch-out, the    *)
(* rows other jobs prepare, and the requests to correct a day.              *)
(*                                                                          *)
(* Only a correction runs in a transaction; every other handler reads, and  *)
(* writes what it decided in a later statement, so each statement is an     *)
(* action and task keeps what its handler has read. No constraint keeps a   *)
(* day from having two rows. Breaks, locations and times are left out; a    *)
(* status is what payroll tells apart: leave, a day off, worked, absent.    *)
(* Leaves are read here and changed in HRLeave.                             *)
(***************************************************************************)
EXTENDS Integers, FiniteSets

CONSTANTS
    Handlers,      \* requests and jobs at work
    Days,
    Leaves,        \* identifiers of leave requests
    Corrections,   \* identifiers of correction requests
    MaxRows,       \* attendance rows ever created
    NoDay, NoItem, NoHandler

ASSUME PeopleAssumption ==
    /\ MaxRows \in Nat
    /\ NoDay \notin Days
    /\ NoItem \notin Leaves \cup Corrections
    /\ Leaves \cap Corrections = {}
    /\ NoHandler \notin Handlers
    /\ IsFiniteSet(Days)

VARIABLES
    row,     \* Attendance rows by id
    leave,   \* LeaveRequest rows
    corr,    \* AttendanceCorrectionRequest rows, and how often each was applied
    lock,    \* lock[d]: who holds the advisory lock of day d
    task     \* what each handler does and has read

Rows == 1 .. MaxRows
NoRow == 0
Blank == [day |-> NoDay, in |-> FALSE, out |-> "none", status |-> "none"]

Exists(r) == row[r].day # NoDay
RowsOf(d) == {r \in Rows : row[r].day = d}
Unborn == {r \in Rows : row[r].status = "none"}
NextRow == CHOOSE r \in Unborn : \A q \in Unborn : r <= q

\* Some row of the day, or none; findFirst does not say which.
Found(d) == IF RowsOf(d) = {} THEN {NoRow} ELSE RowsOf(d)

Idle == [do |-> "idle", day |-> NoDay, row |-> NoRow, rows |-> {}, item |-> NoItem,
         seen |-> "none", to |-> "none", delta |-> 0, base |-> 0, todo |-> {}]

Goto(h, t) == task' = [task EXCEPT ![h] = t]
Done(h) == Goto(h, Idle)

\* A row is created, or written by its id: the update of a deleted row throws.
Create(d, in, out, status) ==
    /\ Unborn # {}
    /\ row' = [row EXCEPT ![NextRow] = [day |-> d, in |-> in, out |-> out, status |-> status]]
Write(r, f) == row' = IF Exists(r) THEN [row EXCEPT ![r] = f] ELSE row

OnLeave(d) == \E l \in Leaves : leave[l].status = "APPROVED" /\ d \in leave[l].days

-----------------------------------------------------------------------------
(* Punches *)

\* mobilePunchIn, employeeCheckIn: an approved leave refuses.
PunchIn(h, d) ==
    /\ task[h] = Idle
    /\ ~OnLeave(d)
    /\ Goto(h, [Idle EXCEPT !.do = "punch", !.day = d])
    /\ UNCHANGED <<row, leave, corr, lock>>

\* Punched in already: the row is returned as it is.
PunchInRead(h) ==
    /\ task[h].do = "punch"
    /\ \E r \in Found(task[h].day) :
         IF r # NoRow /\ row[r].in THEN Done(h)
         ELSE Goto(h, [task[h] EXCEPT !.do = "punchin", !.row = r])
    /\ UNCHANGED <<row, leave, corr, lock>>

PunchInWrite(h) ==
    LET r == task[h].row IN
    /\ task[h].do = "punchin"
    /\ IF r = NoRow THEN Create(task[h].day, TRUE, "none", "WORKED")
       ELSE Write(r, [row[r] EXCEPT !.in = TRUE, !.status = "WORKED"])
    /\ Done(h)
    /\ UNCHANGED <<leave, corr, lock>>

\* mobilePunchOut, employeeCheckOut.
PunchOut(h, d) ==
    /\ task[h] = Idle
    /\ \E r \in RowsOf(d) :
         /\ row[r].in /\ row[r].out = "none"
         /\ Goto(h, [Idle EXCEPT !.do = "punchout", !.day = d, !.row = r])
    /\ UNCHANGED <<row, leave, corr, lock>>

\* The hours make the status, or it stays; the check-out is written in any case.
PunchOutWrite(h) ==
    LET r == task[h].row IN
    /\ task[h].do = "punchout"
    /\ \E status \in {row[r].status, "WORKED", "ABSENT"} :
         Write(r, [row[r] EXCEPT !.out = "manual", !.status = status])
    /\ Done(h)
    /\ UNCHANGED <<leave, corr, lock>>

\* markAttendance, by HR, for whichever row it finds.
Mark(h, d, type) ==
    /\ task[h] = Idle
    /\ \E r \in Found(d) :
         Goto(h, [Idle EXCEPT !.do = "mark", !.day = d, !.row = r, !.to = type])
    /\ UNCHANGED <<row, leave, corr, lock>>

MarkWrite(h) ==
    LET r == task[h].row
        in == task[h].to = "in"
    IN
    /\ task[h].do = "mark"
    /\ IF r = NoRow THEN Create(task[h].day, in, IF in THEN "none" ELSE "manual", "WORKED")
       ELSE Write(r, IF in THEN [row[r] EXCEPT !.in = TRUE, !.status = "WORKED"]
                           ELSE [row[r] EXCEPT !.out = "manual"])
    /\ Done(h)
    /\ UNCHANGED <<leave, corr, lock>>

\* Calendar generation and the holiday job prepare a row where they saw none.
Prepare(h, d) ==
    /\ task[h] = Idle
    /\ RowsOf(d) = {}
    /\ Goto(h, [Idle EXCEPT !.do = "prepare", !.day = d])
    /\ UNCHANGED <<row, leave, corr, lock>>

PrepareWrite(h) ==
    /\ task[h].do = "prepare"
    /\ Create(task[h].day, FALSE, "none", "OFF")
    /\ Done(h)
    /\ UNCHANGED <<leave, corr, lock>>

-----------------------------------------------------------------------------
(* performAutoPunchOut *)

AutoFind(h, d) ==
    /\ task[h] = Idle
    /\ Goto(h, [Idle EXCEPT !.do = "auto", !.day = d,
                            !.rows = {r \in RowsOf(d) : row[r].in /\ row[r].out = "none"}])
    /\ UNCHANGED <<row, leave, corr, lock>>

AutoCloseAll(h, r) ==   \* mutation
    /\ task[h].do = "auto" /\ r \in task[h].rows
    /\ Write(r, [row[r] EXCEPT !.out = "auto", !.status = "WORKED"])
    /\ Goto(h, [task[h] EXCEPT !.rows = @ \ {r}])
    /\ UNCHANGED <<leave, corr, lock>>

AutoClose(h, r) ==
    /\ task[h].do = "auto" /\ r \in task[h].rows
    /\ row' = IF Exists(r) /\ row[r].out = "none"
              THEN [row EXCEPT ![r].out = "auto", ![r].status = "WORKED"] ELSE row
    /\ Goto(h, [task[h] EXCEPT !.rows = @ \ {r}])
    /\ UNCHANGED <<leave, corr, lock>>

AutoEnd(h) ==
    /\ task[h].do = "auto" /\ task[h].rows = {}
    /\ Done(h)
    /\ UNCHANGED <<row, leave, corr, lock>>

-----------------------------------------------------------------------------
(* Corrections of a day *)

Pending(d) == \E c \in Corrections : corr[c].day = d /\ corr[c].status = "PENDING"

\* applyCorrectionRequest, and resubmitCorrectionRequest for a day one of whose
\* requests was rejected: refused if a request is pending ...
AskCorrection(h, d) ==
    /\ task[h] = Idle
    /\ ~Pending(d)
    /\ Goto(h, [Idle EXCEPT !.do = "ask", !.day = d])
    /\ UNCHANGED <<row, leave, corr, lock>>

\* ... and again under the lock of the day, held until the new one is committed.
LockDay(h) ==
    /\ task[h].do = "ask"
    /\ lock[task[h].day] = NoHandler
    /\ lock' = [lock EXCEPT ![task[h].day] = h]
    /\ Goto(h, [task[h] EXCEPT !.do = "check"])
    /\ UNCHANGED <<row, leave, corr>>

CheckNothing(h) ==   \* mutation
    /\ task[h].do = "check"
    /\ Goto(h, [task[h] EXCEPT !.do = "create"])
    /\ UNCHANGED <<row, leave, corr, lock>>

CheckPending(h) ==
    /\ task[h].do = "check"
    /\ IF Pending(task[h].day)
       THEN Done(h) /\ lock' = [lock EXCEPT ![task[h].day] = NoHandler]
       ELSE Goto(h, [task[h] EXCEPT !.do = "create"]) /\ UNCHANGED lock
    /\ UNCHANGED <<row, leave, corr>>

CreateCorrection(h, c) ==
    /\ task[h].do = "create"
    /\ corr[c].status = "none"
    /\ corr' = [corr EXCEPT ![c] = [day |-> task[h].day, status |-> "PENDING", applied |-> 0]]
    /\ lock' = [lock EXCEPT ![task[h].day] = NoHandler]
    /\ Done(h)
    /\ UNCHANGED <<row, leave>>

\* The single and the bulk reviews read a request before they decide.
ReadCorrection(h, c) ==
    /\ task[h] = Idle
    /\ corr[c].status = "PENDING"
    /\ Goto(h, [Idle EXCEPT !.do = "correct", !.item = c])
    /\ UNCHANGED <<row, leave, corr, lock>>

\* executeCorrectionApproval: the claim and the row of the day in one transaction.
ApplyTo(d) ==
    \E r \in Found(d), status \in {"WORKED", "ABSENT"} :
        IF r = NoRow THEN Create(d, TRUE, "none", status)
        ELSE Write(r, [row[r] EXCEPT !.status = status])

ApproveUnclaimed(h) ==   \* mutation
    LET c == task[h].item IN
    /\ task[h].do = "correct"
    /\ ApplyTo(corr[c].day)
    /\ corr' = [corr EXCEPT ![c].status = "APPROVED", ![c].applied = @ + 1]
    /\ Done(h)
    /\ UNCHANGED <<leave, lock>>

ApproveCorrection(h) ==
    LET c == task[h].item IN
    /\ task[h].do = "correct"
    /\ IF corr[c].status = "PENDING"
       THEN /\ ApplyTo(corr[c].day)
            /\ corr' = [corr EXCEPT ![c].status = "APPROVED", ![c].applied = @ + 1]
       ELSE UNCHANGED <<row, corr>>
    /\ Done(h)
    /\ UNCHANGED <<leave, lock>>

RejectCorrection(h) ==
    LET c == task[h].item IN
    /\ task[h].do = "correct"
    /\ corr' = IF corr[c].status = "PENDING" THEN [corr EXCEPT ![c].status = "REJECTED"] ELSE corr
    /\ Done(h)
    /\ UNCHANGED <<row, leave, lock>>

-----------------------------------------------------------------------------
Punching(h) ==
    \/ PunchInRead(h) \/ PunchInWrite(h) \/ PunchOutWrite(h) \/ MarkWrite(h)
    \/ PrepareWrite(h) \/ AutoEnd(h)
    \/ \E d \in Days : \/ PunchIn(h, d) \/ PunchOut(h, d) \/ Prepare(h, d) \/ AutoFind(h, d)
                       \/ \E type \in {"in", "out"} : Mark(h, d, type)
    \/ \E r \in task[h].rows : AutoClose(h, r)

Correcting(h) ==
    \/ LockDay(h) \/ CheckPending(h) \/ ApproveCorrection(h) \/ RejectCorrection(h)
    \/ \E d \in Days : AskCorrection(h, d)
    \/ \E c \in Corrections : CreateCorrection(h, c) \/ ReadCorrection(h, c)

-----------------------------------------------------------------------------
(* What must hold *)

\* performAutoPunchOut: "If employee already has a checkOut (manual or previous
\* run) -> DO NOTHING", however late its update comes after its search.
AutoKeepsManual ==
    [][\A r \in Rows : row[r].out = "manual" => row'[r].out \in {"manual", "none"}]_row

\* At most one request is pending for a day, though two are asked for at once.
OnePendingCorrection ==
    \A c \in Corrections : \A d \in Corrections \ {c} :
        corr[c].status = "PENDING" /\ corr[d].status = "PENDING" => corr[c].day # corr[d].day

\* A correction is applied to its day once if it was approved and never if not,
\* whoever reviews it how often, alone or in bulk.
CorrectionAppliedOnce ==
    \A c \in Corrections : corr[c].applied = IF corr[c].status = "APPROVED" THEN 1 ELSE 0

\* Both, whatever requests, reviews and retries overlap.
CorrectionsOnce == OnePendingCorrection /\ CorrectionAppliedOnce

\* A row that has a punch is not deleted.
PunchesKept == [][\A r \in Rows : row[r].in => row'[r].in]_row
=============================================================================
