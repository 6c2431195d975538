------------------------------- MODULE HRLeave -------------------------------
(***************************************************************************)
(* Leave requests of one employee: reviews on three routes, cancellation,   *)
(* the leave balance, and the attendance rows an approval prepares and a    *)
(* cancellation clears (HRAttendance).                                      *)
(*                                                                          *)
(* The mobile and HR routes claim the review by its status, then adjust the *)
(* balance and the rows statement by statement; the administration's route  *)
(* does all of it in one transaction; a cancellation claims nothing.        *)
(***************************************************************************)
EXTENDS HRAttendance, Functions

VARIABLES
    used,     \* LeaveBalance: days used, of the one category modelled
    posted,   \* posted[l]: days handlers charged for l, less those restored
    calm      \* no two handlers ever worked on leaves at the same time

peopleVars == <<row, leave, corr, lock, task, used, posted, calm>>
attendanceVars == <<used, posted, calm>>

PeopleInit ==
    /\ row = [r \in Rows |-> Blank]
    /\ leave = [l \in Leaves |-> [status |-> "none", days |-> {}, off |-> FALSE]]
    /\ corr = [c \in Corrections |-> [day |-> NoDay, status |-> "none", applied |-> 0]]
    /\ lock = [d \in Days |-> NoHandler]
    /\ task = [h \in Handlers |-> Idle]
    /\ used = 0
    /\ posted = [l \in Leaves |-> 0]
    /\ calm = TRUE

\* Week-offs are not charged.
Charge(l) == IF leave[l].off THEN 0 ELSE Cardinality(leave[l].days)

SetStatus(l, status) == leave' = [leave EXCEPT ![l].status = status]
Alone(h) == calm' = (calm /\ \A g \in Handlers \ {h} : task[g] = Idle)

\* applyLeave, createLeave, createAdminLeaveRequest; only the first looks for
\* leaves of the same days, and creates in a later statement.
Apply(l, days, off) ==
    /\ leave[l].status = "none"
    /\ leave' = [leave EXCEPT ![l] = [status |-> "PENDING", days |-> days, off |-> off]]
    /\ UNCHANGED <<row, corr, lock, task, used, posted, calm>>

-----------------------------------------------------------------------------
(* Reviews on the mobile and HR routes *)

ReadLeave(h, l, to) ==
    /\ task[h] = Idle
    /\ leave[l].status \notin {"none", "CANCELLED", to}
    /\ Goto(h, [Idle EXCEPT !.do = "review", !.item = l, !.seen = leave[l].status, !.to = to])
    /\ Alone(h)
    /\ UNCHANGED <<row, leave, corr, lock, used, posted>>

\* What the winner of the review goes on to do.
AfterReview(h) ==
    LET l == task[h].item IN
    IF task[h].to = "APPROVED"
    THEN Goto(h, [task[h] EXCEPT !.do = "charge", !.delta = Charge(l), !.todo = leave[l].days])
    ELSE IF task[h].seen = "APPROVED" THEN Goto(h, [task[h] EXCEPT !.do = "charge", !.delta = -Charge(l)])
    ELSE Done(h)

ClaimAnyReview(h) ==   \* mutation
    /\ task[h].do = "review"
    /\ SetStatus(task[h].item, task[h].to) /\ AfterReview(h)
    /\ Alone(h)
    /\ UNCHANGED <<row, corr, lock, used, posted>>

\* transitionLeaveReview.
ClaimReview(h) ==
    /\ task[h].do = "review"
    /\ IF leave[task[h].item].status = task[h].seen
       THEN SetStatus(task[h].item, task[h].to) /\ AfterReview(h)
       ELSE UNCHANGED leave /\ Done(h)
    /\ Alone(h)
    /\ UNCHANGED <<row, corr, lock, used, posted>>

\* updateUsedLeave reads the balance, and writes it absolutely and never below zero.
ReadBalance(h) ==
    /\ task[h].do = "charge"
    /\ Goto(h, [task[h] EXCEPT !.do = "post", !.base = used])
    /\ Alone(h)
    /\ UNCHANGED <<row, leave, corr, lock, used, posted>>

Adjusted(base, delta) ==
    IF delta = 0 THEN used ELSE IF base + delta < 0 THEN 0 ELSE base + delta

\* What follows the balance: the rows of the days, prepared or cleared.
AfterBalance(h) ==
    IF task[h].to = "APPROVED" THEN Goto(h, [task[h] EXCEPT !.do = "prepareleave"])
    ELSE IF task[h].to = "CANCELLED" THEN Goto(h, [task[h] EXCEPT !.do = "clear"])
    ELSE Done(h)

PostForgotten(h) ==   \* mutation
    /\ task[h].do = "post"
    /\ used' = IF task[h].to = "REJECTED" THEN used ELSE Adjusted(task[h].base, task[h].delta)
    /\ posted' = [posted EXCEPT ![task[h].item] = @ + task[h].delta]
    /\ AfterBalance(h)
    /\ Alone(h)
    /\ UNCHANGED <<row, leave, corr, lock>>

PostBalance(h) ==
    /\ task[h].do = "post"
    /\ used' = Adjusted(task[h].base, task[h].delta)
    /\ posted' = [posted EXCEPT ![task[h].item] = @ + task[h].delta]
    /\ AfterBalance(h)
    /\ Alone(h)
    /\ UNCHANGED <<row, leave, corr, lock>>

\* An approved day gets the status LEAVE, whatever its row says.
ReadDay(h, d) ==
    /\ task[h].do = "prepareleave" /\ d \in task[h].todo
    /\ \E r \in Found(d) :
         Goto(h, [task[h] EXCEPT !.do = "leaverow", !.day = d, !.row = r, !.todo = @ \ {d}])
    /\ Alone(h)
    /\ UNCHANGED <<row, leave, corr, lock, used, posted>>

\* An update that throws ends the loop.
WriteDay(h) ==
    LET r == task[h].row
        next == [task[h] EXCEPT !.do = "prepareleave", !.day = NoDay, !.row = NoRow]
    IN
    /\ task[h].do = "leaverow"
    /\ IF r = NoRow THEN Create(task[h].day, FALSE, "none", "LEAVE") /\ Goto(h, next)
       ELSE /\ Write(r, [row[r] EXCEPT !.status = "LEAVE"])
            /\ IF Exists(r) THEN Goto(h, next) ELSE Done(h)
    /\ Alone(h)
    /\ UNCHANGED <<leave, corr, lock, used, posted>>

-----------------------------------------------------------------------------
(* cancelLeaveRequest *)

ReadForCancel(h, l) ==
    /\ task[h] = Idle
    /\ leave[l].status \in {"PENDING", "APPROVED"}
    /\ Goto(h, [Idle EXCEPT !.do = "cancel", !.item = l, !.seen = leave[l].status,
                            !.to = "CANCELLED"])
    /\ Alone(h)
    /\ UNCHANGED <<row, leave, corr, lock, used, posted>>

\* An update by the id; what was read decides whether anything is restored.
Cancel(h) ==
    LET l == task[h].item IN
    /\ task[h].do = "cancel"
    /\ SetStatus(l, "CANCELLED")
    /\ IF task[h].seen = "APPROVED"
       THEN Goto(h, [task[h] EXCEPT !.do = "charge", !.delta = -Charge(l), !.todo = leave[l].days])
       ELSE Done(h)
    /\ Alone(h)
    /\ UNCHANGED <<row, corr, lock, used, posted>>

Placeholder(r) == ~row[r].in /\ row[r].out = "none"
MadeByLeave(r) == row[r].status \in {"LEAVE", "OFF"}

\* Rows without punches that a leave or a day off made are cleared: found ...
FindPlaceholder(h, d) ==
    LET found == {r \in RowsOf(d) : Placeholder(r)} IN
    /\ task[h].do = "clear" /\ d \in task[h].todo
    /\ \/ \E r \in found : /\ MadeByLeave(r)
                           /\ Goto(h, [task[h] EXCEPT !.do = "delete", !.row = r, !.todo = @ \ {d}])
       \/ /\ found = {} \/ \E r \in found : ~MadeByLeave(r)
          /\ Goto(h, [task[h] EXCEPT !.todo = @ \ {d}])
    /\ Alone(h)
    /\ UNCHANGED <<row, leave, corr, lock, used, posted>>

\* ... and then deleted by id.
DeletePlaceholder(h) ==
    LET r == task[h].row IN
    /\ task[h].do = "delete"
    /\ row' = [row EXCEPT ![r] = [Blank EXCEPT !.status = "deleted"]]
    /\ IF Exists(r) THEN Goto(h, [task[h] EXCEPT !.do = "clear", !.row = NoRow]) ELSE Done(h)
    /\ Alone(h)
    /\ UNCHANGED <<leave, corr, lock, used, posted>>

LeaveEnd(h) ==
    /\ task[h].do \in {"prepareleave", "clear"} /\ task[h].todo = {}
    /\ Done(h)
    /\ Alone(h)
    /\ UNCHANGED <<row, leave, corr, lock, used, posted>>

-----------------------------------------------------------------------------
(* updateAdminLeaveStatus: the review, the balance and the rows at once *)

\* A row for each approved day; the day keeps the row it has.
PrepareAll(days) ==
    LET new == {d \in days : RowsOf(d) = {}} IN
    /\ Cardinality(new) <= Cardinality(Unborn)
    /\ \E birth \in [new -> Unborn], pick \in [days \ new -> Rows] :
         /\ \A d, e \in new : birth[d] = birth[e] => d = e
         /\ \A d \in days \ new : pick[d] \in RowsOf(d)
         /\ row' = [r \in Rows |->
              IF \E d \in new : birth[d] = r
              THEN [Blank EXCEPT !.day = CHOOSE d \in new : birth[d] = r, !.status = "LEAVE"]
              ELSE IF \E d \in days \ new : pick[d] = r THEN [row[r] EXCEPT !.status = "LEAVE"]
              ELSE row[r]]

\* Of the placeholders of a day the first found goes, if it says LEAVE.
ClearAll(days) ==
    LET held == {d \in days : \E r \in RowsOf(d) : Placeholder(r)} IN
    \E pick \in [held -> Rows] :
        /\ \A d \in held : pick[d] \in RowsOf(d) /\ Placeholder(pick[d])
        /\ row' = [r \in Rows |->
             IF row[r].status = "LEAVE" /\ \E d \in held : pick[d] = r
             THEN [Blank EXCEPT !.status = "deleted"] ELSE row[r]]

AdminReview(h, l, to) ==
    LET was == leave[l].status
        delta == IF to = "APPROVED" THEN Charge(l) ELSE IF was = "APPROVED" THEN -Charge(l) ELSE 0
    IN
    /\ task[h] = Idle
    /\ was \notin {"none", "CANCELLED", to}
    /\ SetStatus(l, to)
    /\ used' = Adjusted(used, delta)
    /\ posted' = [posted EXCEPT ![l] = @ + delta]
    /\ IF to = "APPROVED" THEN PrepareAll(leave[l].days)
       ELSE IF was = "APPROVED" THEN ClearAll(leave[l].days) ELSE UNCHANGED row
    /\ Alone(h)
    /\ UNCHANGED <<corr, lock, task>>

-----------------------------------------------------------------------------
Leaving(h) ==
    \/ ClaimReview(h) \/ ReadBalance(h) \/ PostBalance(h) \/ WriteDay(h)
    \/ Cancel(h) \/ DeletePlaceholder(h) \/ LeaveEnd(h)
    \/ \E d \in Days : ReadDay(h, d) \/ FindPlaceholder(h, d)
    \/ \E l \in Leaves : \/ ReadForCancel(h, l)
                         \/ \E to \in {"APPROVED", "REJECTED"} : ReadLeave(h, l, to) \/ AdminReview(h, l, to)

Applying == \E l \in Leaves, days \in SUBSET Days \ {{}}, off \in BOOLEAN : Apply(l, days, off)

PeopleNext ==
    \/ Applying
    \/ \E h \in Handlers : Leaving(h) \/ ((Punching(h) \/ Correcting(h)) /\ UNCHANGED attendanceVars)

PeopleSpec == PeopleInit /\ [][PeopleNext]_peopleVars

-----------------------------------------------------------------------------
(* What must hold *)

\* "Cancelled records cannot be reviewed": a review that read the leave before it
\* was cancelled does not bring it back.
CancelledIsFinal ==
    [][\A l \in Leaves : leave[l].status = "CANCELLED" => leave'[l].status = "CANCELLED"]_leave

\* Days handlers at work have still to charge for l.
Owing(l) == {h \in Handlers : task[h].do \in {"charge", "post"} /\ task[h].item = l}
Owed(l) == SumFunction([h \in Owing(l) |-> task[h].delta])

\* transitionLeaveReview "prevents concurrent/retried reviews from repeating side
\* effects": what all reviews of a leave charge comes to its days if it is
\* approved and to nothing if it is not, as long as nobody cancels it.
ReviewsChargeOnce ==
    \A l \in Leaves : leave[l].status # "CANCELLED" =>
        posted[l] + Owed(l) = IF leave[l].status = "APPROVED" THEN Charge(l) ELSE 0

Approved == {l \in Leaves : leave[l].status = "APPROVED"}

\* The balance is the days of the approved leaves, unless handlers overlapped.
CalmBalance ==
    calm /\ (\A h \in Handlers : task[h] = Idle) =>
        used = SumFunction([l \in Approved |-> Charge(l)])
=============================================================================
