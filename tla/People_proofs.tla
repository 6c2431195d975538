---------------------------- MODULE People_proofs ----------------------------
(***************************************************************************)
(* What holds of the attendance, the corrections, the leaves and the salary *)
(* of an employee for any number of handlers, days, leaves and rows, and    *)
(* for every basis, leave limit, month and salary.                          *)
(*                                                                          *)
(* What a handler keeps between its statements names rows, days and leaves  *)
(* that are there, and no review has read a leave as cancelled; the lock of *)
(* a day is held by whoever checks or creates a request for it, and who     *)
(* creates one has seen none pending.  Each action is shown to change the   *)
(* rows, the leaves, the corrections and the tasks in one of a few ways,    *)
(* and each of these ways keeps its part of the invariant.  What a review   *)
(* has charged and what its handler has still to charge add up to the days  *)
(* of the leave (SumLemmas).                                                *)
(*                                                                          *)
(* The counts of payroll and of the sheet differ at most in which unpaid    *)
(* bucket a date falls into; those of payroll, with and without one more    *)
(* date attended, in a paid leave that moved to a later date.               *)
(***************************************************************************)
EXTENDS HRLeave, HRSalary, SumLemmas, FiniteSetTheorems, TLAPS

RowStatus == {"none", "WORKED", "ABSENT", "OFF", "LEAVE", "deleted"}
ReviewStatus == {"none", "PENDING", "APPROVED", "REJECTED", "CANCELLED"}
Doing == {"idle", "punch", "punchin", "punchout", "mark", "prepare", "auto", "ask", "check",
          "create", "correct", "review", "charge", "post", "prepareleave", "leaverow", "cancel",
          "clear", "delete"}

RowRec == [day : Days \cup {NoDay}, in : BOOLEAN, out : {"none", "manual", "auto"},
           status : RowStatus]
LeaveRec == [status : ReviewStatus, days : SUBSET Days, off : BOOLEAN]
CorrRec == [day : Days \cup {NoDay}, status : ReviewStatus, applied : Nat]
TaskRec == [do : Doing, day : Days \cup {NoDay}, row : Rows \cup {NoRow}, rows : SUBSET Rows,
            item : Leaves \cup Corrections \cup {NoItem}, seen : ReviewStatus, to : ReviewStatus \cup {"in", "out"},
            delta : Int, base : Int, todo : SUBSET Days]

AboutDay == {"punch", "punchin", "mark", "prepare", "ask", "check", "create", "leaverow"}
AboutLeave == {"review", "cancel", "charge", "post"}
Locking == {"check", "create"}

\* A task a handler can be at.
Sound(t) ==
    /\ t \in TaskRec
    /\ t.do \in AboutDay => t.day \in Days
    /\ t.do \in AboutLeave => t.item \in Leaves
    /\ t.do = "correct" => t.item \in Corrections
    /\ t.do \in {"punchout", "delete"} => t.row \in Rows
    /\ t.do = "review" => t.seen # "CANCELLED" /\ t.to \in ReviewStatus

Typed ==
    /\ row \in [Rows -> RowRec]
    /\ leave \in [Leaves -> LeaveRec]
    /\ corr \in [Corrections -> CorrRec]
    /\ \A c \in Corrections : corr[c].status # "none" => corr[c].day \in Days
    /\ lock \in [Days -> Handlers \cup {NoHandler}]
    /\ used \in Int
    /\ task \in [Handlers -> TaskRec]
    /\ \A h \in Handlers : Sound(task[h])

LockHeld == \A h \in Handlers : task[h].do \in Locking => lock[task[h].day] = h
NoneYet == \A h \in Handlers : task[h].do = "create" => ~Pending(task[h].day)

IInv == Typed /\ LockHeld /\ NoneYet /\ OnePendingCorrection /\ CorrectionAppliedOnce

-----------------------------------------------------------------------------
(* The ways a step changes the state *)

ManualKept == \A r \in Rows : row[r].out = "manual" => row'[r].out \in {"manual", "none"}
RowStep == row' \in [Rows -> RowRec] /\ ManualKept
CancelKept == \A l \in Leaves : leave[l].status = "CANCELLED" => leave'[l].status = "CANCELLED"
LeaveStep == leave' \in [Leaves -> LeaveRec] /\ CancelKept
UsedStep == used' \in Int

TaskStep ==
    /\ task' \in [Handlers -> TaskRec]
    /\ \A h \in Handlers :
         \/ task'[h] = task[h]
         \/ Sound(task'[h]) /\ task'[h].do \notin Locking
Free == TaskStep /\ UNCHANGED <<corr, lock>>

StepKept == Typed' /\ LockHeld' /\ NoneYet' /\ OnePendingCorrection' /\ CorrectionAppliedOnce'

\* A handler goes on to a sound task outside the lock.
LEMMA GotoFree ==
    ASSUME Typed, NEW h \in Handlers, NEW t, Sound(t), t.do \notin Locking, Goto(h, t),
           UNCHANGED <<corr, lock>>
    PROVE  Free
<1>1. task' = [task EXCEPT ![h] = t] /\ t \in TaskRec
  BY DEF Goto, Sound
<1>2. task' \in [Handlers -> TaskRec]
  BY <1>1 DEF Typed
<1>3. \A g \in Handlers \ {h} : task'[g] = task[g]
  BY <1>1 DEF Typed
<1>4. task'[h] = t
  BY <1>1 DEF Typed
<1> QED BY <1>2, <1>3, <1>4 DEF Free, TaskStep

LEMMA IdleSound == Sound(Idle) /\ Idle \in TaskRec /\ Idle.do \notin Locking
<1>1. Idle \in TaskRec
  BY DEF Idle, TaskRec, Doing, ReviewStatus
<1>2. Idle.do = "idle"
  BY DEF Idle
<1> HIDE DEF Idle
<1> QED BY <1>1, <1>2 DEF Sound, AboutDay, AboutLeave, Locking

LEMMA DoneFree ==
    ASSUME Typed, NEW h \in Handlers, Done(h), UNCHANGED <<corr, lock>>
    PROVE  Free
<1>1. PICK t : t = Idle OBVIOUS
<1> QED BY <1>1, GotoFree, IdleSound DEF Done

LEMMA SameFree ==
    ASSUME Typed, UNCHANGED <<task, corr, lock>> PROVE Free
  BY DEF Typed, Free, TaskStep

LEMMA SameRow == ASSUME Typed, UNCHANGED row PROVE RowStep
  BY DEF Typed, RowStep, ManualKept

LEMMA SameLeave == ASSUME Typed, UNCHANGED leave PROVE LeaveStep
  BY DEF Typed, LeaveStep, CancelKept

LEMMA SameUsed == ASSUME Typed, UNCHANGED used PROVE UsedStep
  BY DEF Typed, UsedStep

\* A step outside the lock keeps the invariant.
LEMMA FreeKeeps ==
    ASSUME IInv, Free, RowStep, LeaveStep, UsedStep PROVE StepKept
<1>1. \A h \in Handlers : Sound(task'[h])
  BY DEF IInv, Typed, Free, TaskStep
<1>2. Typed'
  BY <1>1 DEF IInv, Typed, Free, TaskStep, RowStep, LeaveStep, UsedStep
<1>3. LockHeld'
  BY DEF IInv, LockHeld, Free, TaskStep
<1>4. NoneYet'
  BY DEF IInv, NoneYet, Free, TaskStep, Pending, Locking
<1>5. OnePendingCorrection' /\ CorrectionAppliedOnce'
  BY DEF IInv, OnePendingCorrection, CorrectionAppliedOnce, Free
<1> QED BY <1>2, <1>3, <1>4, <1>5 DEF StepKept

-----------------------------------------------------------------------------
(* Rows *)

LEMMA RowsApart == NoRow \notin Rows
  BY PeopleAssumption DEF Rows, NoRow

\* Writing a row keeps its manual check-out, or makes one.
LEMMA WriteStep ==
    ASSUME Typed, NEW r \in Rows, NEW f \in RowRec, Write(r, f),
           row[r].out = "manual" => f.out \in {"manual", "none"}
    PROVE  RowStep
  BY DEF Typed, Write, RowStep, ManualKept, RowRec

\* A created row was not checked out automatically.
LEMMA CreateStep ==
    ASSUME Typed, NEW d \in Days, NEW in \in BOOLEAN, NEW out \in {"none", "manual"},
           NEW status \in RowStatus, Create(d, in, out, status)
    PROVE  RowStep
<1>1. [day |-> d, in |-> in, out |-> out, status |-> status] \in RowRec
  BY DEF RowRec
<1>2. row' = [row EXCEPT ![NextRow] = [day |-> d, in |-> in, out |-> out, status |-> status]]
  BY DEF Create
<1> HIDE DEF NextRow
<1> QED BY <1>1, <1>2 DEF Typed, RowStep, ManualKept

\* What a query for a day found.
LEMMA FoundRow ==
    ASSUME NEW d, NEW r \in Found(d) PROVE r \in Rows \cup {NoRow}
  BY DEF Found, RowsOf

-----------------------------------------------------------------------------
(* Punches *)

LEMMA PunchInStep ==
    ASSUME IInv, NEW h \in Handlers, NEW d \in Days, PunchIn(h, d) PROVE Free /\ RowStep
<1>1. PICK t : t = [Idle EXCEPT !.do = "punch", !.day = d] OBVIOUS
<1>2. t \in TaskRec /\ t.do = "punch" /\ t.day = d
  BY <1>1, IdleSound DEF TaskRec, Doing
<1>3. Sound(t) /\ t.do \notin Locking
  BY <1>2 DEF Sound, AboutDay, AboutLeave, Locking
<1> QED BY <1>1, <1>3, GotoFree, SameRow DEF PunchIn, IInv

LEMMA PunchInReadStep ==
    ASSUME IInv, NEW h \in Handlers, PunchInRead(h) PROVE Free /\ RowStep
<1>1. task[h] \in TaskRec /\ task[h].day \in Days
  BY DEF PunchInRead, IInv, Typed, Sound, AboutDay
<1>2. PICK r \in Found(task[h].day) :
         IF r # NoRow /\ row[r].in THEN Done(h)
         ELSE Goto(h, [task[h] EXCEPT !.do = "punchin", !.row = r])
  BY DEF PunchInRead
<1>3. r \in Rows \cup {NoRow}
  BY <1>1, FoundRow DEF Found, RowsOf
<1>4. CASE Done(h)
  BY <1>4, DoneFree, SameRow DEF IInv, PunchInRead
<1>5. CASE Goto(h, [task[h] EXCEPT !.do = "punchin", !.row = r])
  <2>1. PICK t : t = [task[h] EXCEPT !.do = "punchin", !.row = r] OBVIOUS
  <2>2. t \in TaskRec /\ t.do = "punchin" /\ t.day = task[h].day
    BY <1>1, <1>3, <2>1 DEF TaskRec, Doing
  <2>3. Sound(t) /\ t.do \notin Locking
    BY <1>1, <2>2 DEF Sound, AboutDay, AboutLeave, Locking
  <2> QED BY <1>5, <2>1, <2>3, GotoFree, SameRow DEF PunchInRead, IInv
<1> QED BY <1>2, <1>4, <1>5

LEMMA PunchInWriteStep ==
    ASSUME IInv, NEW h \in Handlers, PunchInWrite(h) PROVE Free /\ RowStep
<1> DEFINE r == task[h].row
<1>1. r \in Rows \cup {NoRow} /\ task[h].day \in Days
  BY DEF PunchInWrite, IInv, Typed, Sound, AboutDay, TaskRec
<1>2. Free BY DoneFree DEF PunchInWrite, IInv
<1>3. CASE r = NoRow
  <2>1. Create(task[h].day, TRUE, "none", "WORKED") BY <1>3 DEF PunchInWrite
  <2>2. PICK d \in Days : d = task[h].day BY <1>1
  <2> QED BY <1>2, <2>1, <2>2, CreateStep DEF IInv, RowStatus
<1>4. CASE r # NoRow
  <2>1. PICK q \in Rows : q = r BY <1>1, <1>4
  <2>2. Write(q, [row[q] EXCEPT !.in = TRUE, !.status = "WORKED"])
    BY <1>4, <2>1 DEF PunchInWrite
  <2>3. PICK f : f = [row[q] EXCEPT !.in = TRUE, !.status = "WORKED"] OBVIOUS
  <2>4. f \in RowRec /\ f.out = row[q].out
    BY <2>3 DEF IInv, Typed, RowRec, RowStatus
  <2> QED BY <1>2, <2>2, <2>3, <2>4, WriteStep DEF IInv
<1> QED BY <1>3, <1>4

LEMMA PunchOutStep ==
    ASSUME IInv, NEW h \in Handlers, NEW d \in Days, PunchOut(h, d) PROVE Free /\ RowStep
<1>1. PICK r \in Rows : Goto(h, [Idle EXCEPT !.do = "punchout", !.day = d, !.row = r])
  BY DEF PunchOut, RowsOf
<1>2. PICK t : t = [Idle EXCEPT !.do = "punchout", !.day = d, !.row = r] OBVIOUS
<1>3. t \in TaskRec /\ t.do = "punchout" /\ t.row = r
  BY <1>2, IdleSound DEF TaskRec, Doing
<1>4. Sound(t) /\ t.do \notin Locking
  BY <1>3 DEF Sound, AboutDay, AboutLeave, Locking
<1> QED BY <1>1, <1>2, <1>4, GotoFree, SameRow DEF PunchOut, IInv

\* The status may be written from the hours; the check-out is manual.
LEMMA PunchOutWriteStep ==
    ASSUME IInv, NEW h \in Handlers, PunchOutWrite(h) PROVE Free /\ RowStep
<1>1. PICK r \in Rows : r = task[h].row
  BY DEF PunchOutWrite, IInv, Typed, Sound
<1>2. PICK status \in {row[r].status, "WORKED", "ABSENT"} :
         Write(r, [row[r] EXCEPT !.out = "manual", !.status = status])
  BY <1>1 DEF PunchOutWrite
<1>3. PICK f : f = [row[r] EXCEPT !.out = "manual", !.status = status] OBVIOUS
<1>4. f \in RowRec /\ f.out = "manual"
  BY <1>3 DEF IInv, Typed, RowRec, RowStatus
<1> QED BY <1>2, <1>3, <1>4, WriteStep, DoneFree DEF PunchOutWrite, IInv

LEMMA MarkStep ==
    ASSUME IInv, NEW h \in Handlers, NEW d \in Days, NEW type \in {"in", "out"}, Mark(h, d, type)
    PROVE  Free /\ RowStep
<1>1. PICK r \in Found(d) : Goto(h, [Idle EXCEPT !.do = "mark", !.day = d, !.row = r, !.to = type])
  BY DEF Mark
<1>2. r \in Rows \cup {NoRow} BY FoundRow
<1>3. PICK t : t = [Idle EXCEPT !.do = "mark", !.day = d, !.row = r, !.to = type] OBVIOUS
<1>4. t \in TaskRec /\ t.do = "mark" /\ t.day = d
  BY <1>2, <1>3, IdleSound DEF TaskRec, Doing
<1>5. Sound(t) /\ t.do \notin Locking
  BY <1>4 DEF Sound, AboutDay, AboutLeave, Locking
<1> QED BY <1>1, <1>3, <1>5, GotoFree, SameRow DEF Mark, IInv

LEMMA MarkWriteStep ==
    ASSUME IInv, NEW h \in Handlers, MarkWrite(h) PROVE Free /\ RowStep
<1> DEFINE in == task[h].to = "in"
<1>1. task[h].row \in Rows \cup {NoRow} /\ task[h].day \in Days
  BY DEF MarkWrite, IInv, Typed, Sound, AboutDay, TaskRec
<1>2. Free BY DoneFree DEF MarkWrite, IInv
<1>3. CASE task[h].row = NoRow
  <2>1. PICK d \in Days : d = task[h].day BY <1>1
  <2>2. PICK b \in BOOLEAN, out \in {"none", "manual"} : Create(d, b, out, "WORKED")
    BY <1>3, <2>1 DEF MarkWrite
  <2> QED BY <1>2, <2>2, CreateStep DEF IInv, RowStatus
<1>4. CASE task[h].row # NoRow
  <2>1. PICK r \in Rows : r = task[h].row BY <1>1, <1>4
  <2>2. PICK f : f = IF in THEN [row[r] EXCEPT !.in = TRUE, !.status = "WORKED"]
                           ELSE [row[r] EXCEPT !.out = "manual"] OBVIOUS
  <2>3. f \in RowRec /\ (row[r].out = "manual" => f.out = "manual")
    BY <2>2 DEF IInv, Typed, RowRec, RowStatus
  <2>4. Write(r, f) BY <1>4, <2>1, <2>2 DEF MarkWrite
  <2> QED BY <1>2, <2>3, <2>4, WriteStep DEF IInv
<1> QED BY <1>3, <1>4

LEMMA PrepareStep ==
    ASSUME IInv, NEW h \in Handlers, NEW d \in Days, Prepare(h, d) PROVE Free /\ RowStep
<1>1. PICK t : t = [Idle EXCEPT !.do = "prepare", !.day = d] OBVIOUS
<1>2. t \in TaskRec /\ t.do = "prepare" /\ t.day = d
  BY <1>1, IdleSound DEF TaskRec, Doing
<1>3. Sound(t) /\ t.do \notin Locking
  BY <1>2 DEF Sound, AboutDay, AboutLeave, Locking
<1> QED BY <1>1, <1>3, GotoFree, SameRow DEF Prepare, IInv

LEMMA PrepareWriteStep ==
    ASSUME IInv, NEW h \in Handlers, PrepareWrite(h) PROVE Free /\ RowStep
<1>1. PICK d \in Days : d = task[h].day
  BY DEF PrepareWrite, IInv, Typed, Sound, AboutDay
<1> QED BY <1>1, CreateStep, DoneFree DEF PrepareWrite, IInv, RowStatus

LEMMA AutoFindStep ==
    ASSUME IInv, NEW h \in Handlers, NEW d \in Days, AutoFind(h, d) PROVE Free /\ RowStep
<1>1. PICK R \in SUBSET Rows : Goto(h, [Idle EXCEPT !.do = "auto", !.day = d, !.rows = R])
  BY DEF AutoFind, RowsOf
<1>2. PICK t : t = [Idle EXCEPT !.do = "auto", !.day = d, !.rows = R] OBVIOUS
<1>3. t \in TaskRec /\ t.do = "auto"
  BY <1>2, IdleSound DEF TaskRec, Doing
<1>4. Sound(t) /\ t.do \notin Locking
  BY <1>3 DEF Sound, AboutDay, AboutLeave, Locking
<1> QED BY <1>1, <1>2, <1>4, GotoFree, SameRow DEF AutoFind, IInv

\* The automatic check-out is written where none is, whatever was found before.
LEMMA AutoCloseStep ==
    ASSUME IInv, NEW h \in Handlers, NEW r \in task[h].rows, AutoClose(h, r) PROVE Free /\ RowStep
<1>1. task[h] \in TaskRec /\ r \in Rows
  BY DEF IInv, Typed, TaskRec
<1>2. PICK t : t = [task[h] EXCEPT !.rows = @ \ {r}] OBVIOUS
<1>3. t \in TaskRec /\ t.do = "auto"
  BY <1>1, <1>2 DEF TaskRec, AutoClose
<1>4. Sound(t) /\ t.do \notin Locking
  BY <1>3 DEF Sound, AboutDay, AboutLeave, Locking
<1>5. Free BY <1>2, <1>4, GotoFree DEF AutoClose, IInv
<1>6. RowStep
  <2>1. row \in [Rows -> RowRec] BY DEF IInv, Typed
  <2>2. CASE row' = row
    BY <2>1, <2>2 DEF RowStep, ManualKept
  <2>3. CASE row[r].out = "none" /\ row' = [row EXCEPT ![r].out = "auto", ![r].status = "WORKED"]
    <3>1. row' \in [Rows -> RowRec]
      <4> DEFINE closed == [row[r] EXCEPT !.out = "auto", !.status = "WORKED"]
      <4>1. closed \in RowRec
        BY <1>1, <2>1 DEF RowRec, RowStatus
      <4>2. row' = [row EXCEPT ![r] = closed]
        BY <1>1, <2>1, <2>3 DEF RowRec
      <4> HIDE DEF closed
      <4> QED BY <1>1, <2>1, <4>1, <4>2
    <3>2. ManualKept
      BY <2>1, <2>3 DEF ManualKept
    <3> QED BY <3>1, <3>2 DEF RowStep
  <2> QED BY <2>2, <2>3 DEF AutoClose
<1> QED BY <1>5, <1>6

LEMMA AutoEndStep ==
    ASSUME IInv, NEW h \in Handlers, AutoEnd(h) PROVE Free /\ RowStep
  BY DoneFree, SameRow DEF AutoEnd, IInv

LEMMA PunchingStep ==
    ASSUME IInv, NEW h \in Handlers, Punching(h) PROVE Free /\ RowStep /\ UNCHANGED leave
<1>1. UNCHANGED leave
  BY DEF Punching, PunchInRead, PunchInWrite, PunchOutWrite, MarkWrite, PrepareWrite, AutoEnd,
         PunchIn, PunchOut, Prepare, AutoFind, Mark, AutoClose
<1> QED BY <1>1, PunchInStep, PunchInReadStep, PunchInWriteStep, PunchOutStep, PunchOutWriteStep,
          MarkStep, MarkWriteStep, PrepareStep, PrepareWriteStep, AutoFindStep, AutoCloseStep,
          AutoEndStep DEF Punching

-----------------------------------------------------------------------------
(* Corrections *)

LEMMA AskCorrectionStep ==
    ASSUME IInv, NEW h \in Handlers, NEW d \in Days, AskCorrection(h, d) PROVE Free /\ RowStep
<1>1. PICK t : t = [Idle EXCEPT !.do = "ask", !.day = d] OBVIOUS
<1>2. t \in TaskRec /\ t.do = "ask" /\ t.day = d
  BY <1>1, IdleSound DEF TaskRec, Doing
<1>3. Sound(t) /\ t.do \notin Locking
  BY <1>2 DEF Sound, AboutDay, AboutLeave, Locking
<1> QED BY <1>1, <1>3, GotoFree, SameRow DEF AskCorrection, IInv

LEMMA ReadCorrectionStep ==
    ASSUME IInv, NEW h \in Handlers, NEW c \in Corrections, ReadCorrection(h, c)
    PROVE  Free /\ RowStep
<1>1. PICK t : t = [Idle EXCEPT !.do = "correct", !.item = c] OBVIOUS
<1>2. t \in TaskRec /\ t.do = "correct" /\ t.item = c
  BY <1>1, IdleSound DEF TaskRec, Doing
<1>3. Sound(t) /\ t.do \notin Locking
  BY <1>2 DEF Sound, AboutDay, AboutLeave, Locking
<1> QED BY <1>1, <1>3, GotoFree, SameRow DEF ReadCorrection, IInv

\* What a step of h does to the tasks, with t the task h goes on to.
LEMMA GotoTyped ==
    ASSUME Typed, NEW h \in Handlers, NEW t, Sound(t), Goto(h, t)
    PROVE  /\ task' \in [Handlers -> TaskRec]
           /\ task'[h] = t
           /\ \A g \in Handlers \ {h} : task'[g] = task[g]
           /\ \A g \in Handlers : Sound(task'[g])
<1>1. task' = [task EXCEPT ![h] = t] /\ t \in TaskRec
  BY DEF Goto, Sound
<1>2. task' \in [Handlers -> TaskRec] /\ task'[h] = t
  BY <1>1 DEF Typed
<1>3. \A g \in Handlers \ {h} : task'[g] = task[g]
  BY <1>1 DEF Typed
<1> QED BY <1>2, <1>3 DEF Typed

\* Whoever holds the lock of a day keeps every other handler off that day.
LEMMA LockDayStep ==
    ASSUME IInv, NEW h \in Handlers, LockDay(h), UNCHANGED used PROVE StepKept /\ RowStep
<1>1. task[h] \in TaskRec /\ task[h].day \in Days
  BY DEF LockDay, IInv, Typed, Sound, AboutDay
<1>2. PICK t : t = [task[h] EXCEPT !.do = "check"] OBVIOUS
<1>3. t \in TaskRec /\ t.do = "check" /\ t.day = task[h].day
  BY <1>1, <1>2 DEF TaskRec, Doing
<1>4. Sound(t)
  BY <1>1, <1>3 DEF Sound, AboutDay, AboutLeave
<1>5. Goto(h, t) /\ Typed BY <1>2 DEF LockDay, IInv
<1>6. /\ task' \in [Handlers -> TaskRec]
      /\ task'[h] = t
      /\ \A g \in Handlers \ {h} : task'[g] = task[g]
      /\ \A g \in Handlers : Sound(task'[g])
  BY <1>4, <1>5, GotoTyped
<1>7. lock' = [lock EXCEPT ![t.day] = h] /\ lock[t.day] = NoHandler /\ t.day \in Days
  BY <1>1, <1>3 DEF LockDay
<1>8. Typed'
  <2>1. lock' \in [Days -> Handlers \cup {NoHandler}] BY <1>7 DEF IInv, Typed
  <2> QED BY <1>6, <2>1 DEF LockDay, IInv, Typed
<1>9. LockHeld'
  <2>1. \A g \in Handlers \ {h} : task[g].do \in Locking => lock'[task[g].day] = g
    BY <1>7, PeopleAssumption DEF IInv, LockHeld, Typed
  <2>2. lock'[t.day] = h BY <1>7 DEF IInv, Typed
  <2> QED BY <1>6, <2>1, <2>2 DEF LockHeld
<1>10. NoneYet'
  BY <1>3, <1>6 DEF LockDay, IInv, NoneYet, Pending
<1>11. OnePendingCorrection' /\ CorrectionAppliedOnce'
  BY DEF LockDay, IInv, OnePendingCorrection, CorrectionAppliedOnce
<1> QED BY <1>5, <1>8, <1>9, <1>10, <1>11, SameRow DEF StepKept, LockDay

LEMMA CheckPendingStep ==
    ASSUME IInv, NEW h \in Handlers, CheckPending(h), UNCHANGED used PROVE StepKept /\ RowStep
<1>1. task[h] \in TaskRec /\ task[h].day \in Days /\ Typed
  BY DEF CheckPending, IInv, Typed, Sound, AboutDay
<1>2. OnePendingCorrection' /\ CorrectionAppliedOnce' /\ RowStep
  BY SameRow DEF CheckPending, IInv, OnePendingCorrection, CorrectionAppliedOnce
<1>3. lock[task[h].day] = h
  BY DEF CheckPending, IInv, LockHeld, Locking
<1>4. CASE Pending(task[h].day)
  <2>1. PICK t : t = Idle OBVIOUS
  <2>2. Sound(t) /\ t.do \notin Locking /\ Goto(h, t)
    BY <1>4, <2>1, IdleSound DEF CheckPending, Done
  <2>3. /\ task' \in [Handlers -> TaskRec]
        /\ task'[h] = t
        /\ \A g \in Handlers \ {h} : task'[g] = task[g]
        /\ \A g \in Handlers : Sound(task'[g])
    BY <1>1, <2>2, GotoTyped
  <2>4. lock' = [lock EXCEPT ![task[h].day] = NoHandler]
    BY <1>4 DEF CheckPending
  <2>5. Typed' BY <2>3, <2>4 DEF CheckPending, IInv, Typed
  <2>6. \A g \in Handlers \ {h} : task[g].do \in Locking => lock'[task[g].day] = g
    BY <1>3, <2>4 DEF IInv, LockHeld, Typed
  <2>7. LockHeld' BY <2>2, <2>3, <2>6 DEF LockHeld
  <2>8. NoneYet' BY <2>2, <2>3 DEF CheckPending, IInv, NoneYet, Pending, Locking
  <2> QED BY <1>2, <2>5, <2>7, <2>8 DEF StepKept
<1>5. CASE ~Pending(task[h].day)
  <2>1. PICK t : t = [task[h] EXCEPT !.do = "create"] OBVIOUS
  <2>2. t \in TaskRec /\ t.do = "create" /\ t.day = task[h].day
    BY <1>1, <2>1 DEF TaskRec, Doing
  <2>3. Sound(t) /\ Goto(h, t)
    BY <1>1, <1>5, <2>1, <2>2 DEF Sound, AboutDay, AboutLeave, CheckPending
  <2>4. /\ task' \in [Handlers -> TaskRec]
        /\ task'[h] = t
        /\ \A g \in Handlers \ {h} : task'[g] = task[g]
        /\ \A g \in Handlers : Sound(task'[g])
    BY <1>1, <2>3, GotoTyped
  <2>5. UNCHANGED <<lock, corr>> BY <1>5 DEF CheckPending
  <2>6. Typed' BY <2>4, <2>5 DEF CheckPending, IInv, Typed
  <2>7. LockHeld' BY <1>3, <2>2, <2>4, <2>5 DEF IInv, LockHeld
  <2>8. NoneYet' BY <1>5, <2>2, <2>4, <2>5 DEF IInv, NoneYet, Pending
  <2> QED BY <1>2, <2>6, <2>7, <2>8 DEF StepKept
<1> QED BY <1>4, <1>5

\* No request is pending for the day whose lock the creator still holds.
LEMMA CreateCorrectionStep ==
    ASSUME IInv, NEW h \in Handlers, NEW c \in Corrections, CreateCorrection(h, c), UNCHANGED used
    PROVE  StepKept /\ RowStep
<1>1. PICK d \in Days : d = task[h].day
  BY DEF CreateCorrection, IInv, Typed, Sound, AboutDay
<1>2. lock[d] = h /\ ~Pending(d)
  BY <1>1 DEF CreateCorrection, IInv, LockHeld, NoneYet, Locking
<1>3. /\ corr[c].status = "none"
      /\ corr' = [corr EXCEPT ![c] = [day |-> d, status |-> "PENDING", applied |-> 0]]
      /\ lock' = [lock EXCEPT ![d] = NoHandler]
  BY <1>1 DEF CreateCorrection
<1>4. PICK t : t = Idle OBVIOUS
<1>5. Sound(t) /\ t.do \notin Locking /\ Goto(h, t) /\ Typed
  BY <1>4, IdleSound DEF CreateCorrection, Done, IInv
<1>6. /\ task' \in [Handlers -> TaskRec]
      /\ task'[h] = t
      /\ \A g \in Handlers \ {h} : task'[g] = task[g]
      /\ \A g \in Handlers : Sound(task'[g])
  BY <1>5, GotoTyped
<1>7. [day |-> d, status |-> "PENDING", applied |-> 0] \in CorrRec
  BY DEF CorrRec, ReviewStatus
<1>8. Typed' BY <1>3, <1>6, <1>7 DEF CreateCorrection, IInv, Typed
<1>9. /\ corr'[c].day = d /\ corr'[c].status = "PENDING" /\ corr'[c].applied = 0
      /\ \A e \in Corrections \ {c} : corr'[e] = corr[e]
  BY <1>3 DEF IInv, Typed
<1>10. \A g \in Handlers \ {h} : task[g].do \in Locking =>
           lock'[task[g].day] = g /\ task[g].day # d
  BY <1>2, <1>3 DEF IInv, LockHeld, Typed
<1>11. LockHeld' BY <1>5, <1>6, <1>10 DEF LockHeld
<1>12. NoneYet'
  <2>1. \A g \in Handlers \ {h} : task[g].do = "create" => task[g].day # d /\ ~Pending(task[g].day)
    BY <1>10 DEF IInv, NoneYet, Locking
  <2>2. \A g \in Handlers \ {h} : task[g].do = "create" => ~Pending(task[g].day)'
    BY <1>6, <1>9, <2>1 DEF Pending
  <2>3. task'[h].do # "create" BY <1>5, <1>6 DEF Locking
  <2>4. ASSUME NEW g \in Handlers, task'[g].do = "create"
        PROVE  ~Pending(task[g].day)'
    BY <1>6, <2>2, <2>3, <2>4
  <2> QED BY <2>4 DEF NoneYet
<1>13. OnePendingCorrection'
  BY <1>2, <1>9 DEF IInv, OnePendingCorrection, Pending
<1>14. CorrectionAppliedOnce'
  BY <1>9 DEF IInv, CorrectionAppliedOnce
<1>15. RowStep BY <1>5, SameRow DEF CreateCorrection
<1> QED BY <1>8, <1>11, <1>12, <1>13, <1>14, <1>15 DEF StepKept

\* A review of a request that settles it, or changes nothing.
LEMMA ReviewedKeeps ==
    ASSUME IInv, NEW h \in Handlers, NEW c \in Corrections, Done(h), UNCHANGED <<leave, lock, used>>,
           RowStep,
           \/ UNCHANGED corr
           \/ /\ corr[c].status = "PENDING"
              /\ \/ corr' = [corr EXCEPT ![c].status = "APPROVED", ![c].applied = @ + 1]
                 \/ corr' = [corr EXCEPT ![c].status = "REJECTED"]
    PROVE  StepKept
<1>1. PICK t : t = Idle OBVIOUS
<1>2. Sound(t) /\ t.do \notin Locking /\ Goto(h, t) /\ Typed
  BY <1>1, IdleSound DEF Done, IInv
<1>3. /\ task' \in [Handlers -> TaskRec]
      /\ task'[h] = t
      /\ \A g \in Handlers \ {h} : task'[g] = task[g]
      /\ \A g \in Handlers : Sound(task'[g])
  BY <1>2, GotoTyped
<1>4. corr' \in [Corrections -> CorrRec]
  BY DEF IInv, Typed, CorrRec, ReviewStatus
<1>5. \A e \in Corrections : /\ corr'[e].day = corr[e].day
                             /\ corr'[e].status = "PENDING" => corr[e].status = "PENDING"
  BY DEF IInv, Typed, CorrRec
<1>5a. \A e \in Corrections : corr'[e].status # "none" => corr'[e].day \in Days
  BY DEF IInv, Typed, CorrRec
<1>6. CorrectionAppliedOnce'
  BY DEF IInv, Typed, CorrRec, CorrectionAppliedOnce
<1>7. Typed' BY <1>3, <1>4, <1>5a DEF IInv, Typed, RowStep
<1>8. LockHeld' BY <1>2, <1>3 DEF IInv, LockHeld
<1>9. NoneYet' BY <1>2, <1>3, <1>5 DEF IInv, NoneYet, Pending, Locking
<1>10. OnePendingCorrection' BY <1>5 DEF IInv, OnePendingCorrection
<1> QED BY <1>6, <1>7, <1>8, <1>9, <1>10 DEF StepKept

LEMMA ApplyToStep == ASSUME Typed, NEW d \in Days, ApplyTo(d) PROVE RowStep
<1>1. PICK r \in Found(d), status \in {"WORKED", "ABSENT"} :
         IF r = NoRow THEN Create(d, TRUE, "none", status)
         ELSE Write(r, [row[r] EXCEPT !.status = status])
  BY DEF ApplyTo
<1>2. CASE r = NoRow
  BY <1>1, <1>2, CreateStep DEF RowStatus
<1>3. CASE r # NoRow
  <2>1. r \in Rows BY <1>3, FoundRow
  <2>2. PICK f : f = [row[r] EXCEPT !.status = status] OBVIOUS
  <2>3. f \in RowRec /\ f.out = row[r].out
    BY <2>1, <2>2 DEF Typed, RowRec, RowStatus
  <2> QED BY <1>1, <1>3, <2>1, <2>2, <2>3, WriteStep
<1> QED BY <1>2, <1>3

\* A request that was approved was applied to a day; a pending request has one.
LEMMA ApproveCorrectionStep ==
    ASSUME IInv, NEW h \in Handlers, ApproveCorrection(h), UNCHANGED used PROVE StepKept /\ RowStep
<1>1. PICK c \in Corrections : c = task[h].item
  BY DEF ApproveCorrection, IInv, Typed, Sound
<1>2. CASE corr[c].status = "PENDING"
  <2>1. /\ ApplyTo(corr[c].day)
        /\ corr' = [corr EXCEPT ![c].status = "APPROVED", ![c].applied = @ + 1]
    BY <1>1, <1>2 DEF ApproveCorrection
  <2>2. corr[c].day \in Days
    BY <1>2 DEF IInv, Typed
  <2>3. PICK d \in Days : d = corr[c].day BY <2>2
  <2>4. RowStep BY <2>1, <2>3, ApplyToStep DEF IInv
  <2> QED BY <1>2, <2>1, <2>4, ReviewedKeeps DEF ApproveCorrection
<1>3. CASE corr[c].status # "PENDING"
  BY <1>1, <1>3, ReviewedKeeps, SameRow DEF ApproveCorrection, IInv
<1> QED BY <1>2, <1>3

LEMMA RejectCorrectionStep ==
    ASSUME IInv, NEW h \in Handlers, RejectCorrection(h), UNCHANGED used PROVE StepKept /\ RowStep
<1>1. PICK c \in Corrections : c = task[h].item
  BY DEF RejectCorrection, IInv, Typed, Sound
<1>2. RowStep BY SameRow DEF RejectCorrection, IInv
<1> QED BY <1>1, <1>2, ReviewedKeeps DEF RejectCorrection

LEMMA CorrectingStep ==
    ASSUME IInv, NEW h \in Handlers, Correcting(h), UNCHANGED used
    PROVE  StepKept /\ RowStep /\ LeaveStep
<1>1. LeaveStep
  BY SameLeave DEF IInv, Correcting, LockDay, CheckPending, ApproveCorrection, RejectCorrection,
         AskCorrection, CreateCorrection, ReadCorrection
<1>2. Free /\ RowStep => StepKept
  BY <1>1, FreeKeeps, SameUsed DEF IInv
<1>3. \/ LockDay(h) \/ CheckPending(h) \/ ApproveCorrection(h) \/ RejectCorrection(h)
      \/ \E d \in Days : AskCorrection(h, d)
      \/ \E c \in Corrections : CreateCorrection(h, c) \/ ReadCorrection(h, c)
  BY DEF Correcting
<1> QED BY <1>1, <1>2, <1>3, LockDayStep, CheckPendingStep, ApproveCorrectionStep,
          RejectCorrectionStep, AskCorrectionStep, CreateCorrectionStep, ReadCorrectionStep

-----------------------------------------------------------------------------
(* Leaves *)

LEMMA ChargeInt == ASSUME Typed, NEW l \in Leaves PROVE Charge(l) \in Int
<1>1. leave[l].days \in SUBSET Days BY DEF Typed, LeaveRec
<1>2. IsFiniteSet(leave[l].days) BY <1>1, PeopleAssumption, FS_Subset
<1>3. Cardinality(leave[l].days) \in Nat BY <1>2, FS_CardinalityType
<1> QED BY <1>3 DEF Charge

LEMMA AdjustedInt == ASSUME Typed, NEW base \in Int, NEW delta \in Int PROVE Adjusted(base, delta) \in Int
  BY DEF Adjusted, Typed

\* A status is set on a leave that was not cancelled, or the leave is cancelled.
LEMMA SetStatusStep ==
    ASSUME Typed, NEW l \in Leaves, NEW status \in ReviewStatus, SetStatus(l, status),
           leave[l].status # "CANCELLED" \/ status = "CANCELLED"
    PROVE  LeaveStep
<1>1. leave' = [leave EXCEPT ![l].status = status] BY DEF SetStatus
<1>2. leave' \in [Leaves -> LeaveRec] BY <1>1 DEF Typed, LeaveRec
<1>3. \A k \in Leaves : leave'[k].status = IF k = l THEN status ELSE leave[k].status
  BY <1>1 DEF Typed, LeaveRec
<1> QED BY <1>2, <1>3 DEF LeaveStep, CancelKept

LEMMA ApplyStep ==
    ASSUME IInv, NEW l \in Leaves, NEW days \in SUBSET Days, NEW off \in BOOLEAN, Apply(l, days, off)
    PROVE  Free /\ RowStep /\ LeaveStep /\ UsedStep
<1>1. [status |-> "PENDING", days |-> days, off |-> off] \in LeaveRec
  BY DEF LeaveRec, ReviewStatus
<1>2. LeaveStep
  BY <1>1 DEF Apply, IInv, Typed, LeaveStep, CancelKept
<1> QED BY <1>2, SameFree, SameRow, SameUsed DEF Apply, IInv

LEMMA ReadLeaveStep ==
    ASSUME IInv, NEW h \in Handlers, NEW l \in Leaves, NEW to \in {"APPROVED", "REJECTED"},
           ReadLeave(h, l, to)
    PROVE  Free /\ RowStep /\ LeaveStep /\ UsedStep
<1>1. leave[l].status \in ReviewStatus \ {"CANCELLED"}
  BY DEF ReadLeave, IInv, Typed, LeaveRec
<1>2. PICK t : t = [Idle EXCEPT !.do = "review", !.item = l, !.seen = leave[l].status, !.to = to] OBVIOUS
<1>3. t \in TaskRec /\ t.do = "review" /\ t.item = l /\ t.seen # "CANCELLED" /\ t.to = to
  BY <1>1, <1>2, IdleSound DEF TaskRec, Doing, ReviewStatus
<1>4. Sound(t) /\ t.do \notin Locking
  BY <1>3 DEF Sound, AboutDay, AboutLeave, Locking, ReviewStatus
<1> QED BY <1>2, <1>4, GotoFree, SameRow, SameLeave, SameUsed DEF ReadLeave, IInv

LEMMA AfterReviewFree ==
    ASSUME IInv, NEW h \in Handlers, task[h].do = "review", AfterReview(h), UNCHANGED <<corr, lock>>
    PROVE  Free
<1>1. PICK l \in Leaves : l = task[h].item
  BY DEF IInv, Typed, Sound, AboutLeave
<1>2. task[h] \in TaskRec /\ Charge(l) \in Int /\ leave[l].days \in SUBSET Days
  BY ChargeInt DEF IInv, Typed, LeaveRec
<1>3. PICK delta \in Int : delta = Charge(l) BY <1>2
<1>3a. PICK back \in Int : back = -delta OBVIOUS
<1>4. PICK days \in SUBSET Days : days = leave[l].days BY <1>2
<1>5. \/ Goto(h, [task[h] EXCEPT !.do = "charge", !.delta = delta, !.todo = days])
      \/ Goto(h, [task[h] EXCEPT !.do = "charge", !.delta = back])
      \/ Done(h)
  BY <1>1, <1>3, <1>3a, <1>4 DEF AfterReview
<1>6. ASSUME NEW t, t \in TaskRec, t.do = "charge", t.item = l, Goto(h, t) PROVE Free
  BY <1>6, GotoFree DEF Sound, AboutDay, AboutLeave, Locking, IInv
<1>7. CASE Goto(h, [task[h] EXCEPT !.do = "charge", !.delta = delta, !.todo = days])
  <2>1. PICK t : t = [task[h] EXCEPT !.do = "charge", !.delta = delta, !.todo = days] OBVIOUS
  <2>2. t \in TaskRec /\ t.do = "charge" /\ t.item = l
    BY <1>1, <1>2, <2>1 DEF TaskRec, Doing
  <2> QED BY <1>6, <1>7, <2>1, <2>2
<1>8. CASE Goto(h, [task[h] EXCEPT !.do = "charge", !.delta = back])
  <2>1. PICK t : t = [task[h] EXCEPT !.do = "charge", !.delta = back] OBVIOUS
  <2>2. t \in TaskRec /\ t.do = "charge" /\ t.item = l
    BY <1>1, <1>2, <2>1 DEF TaskRec, Doing
  <2> QED BY <1>6, <1>8, <2>1, <2>2
<1> QED BY <1>5, <1>7, <1>8, DoneFree DEF IInv

\* The claim: nothing but the status the reviewer read lets the review through.
LEMMA ClaimReviewStep ==
    ASSUME IInv, NEW h \in Handlers, ClaimReview(h) PROVE Free /\ RowStep /\ LeaveStep /\ UsedStep
<1>1. PICK l \in Leaves : l = task[h].item
  BY DEF ClaimReview, IInv, Typed, Sound, AboutLeave
<1>2. RowStep /\ UsedStep BY SameRow, SameUsed DEF ClaimReview, IInv
<1>3. CASE leave[l].status = task[h].seen
  <2>1. SetStatus(l, task[h].to) /\ AfterReview(h) BY <1>1, <1>3 DEF ClaimReview
  <2>2. leave[l].status # "CANCELLED" BY <1>3 DEF ClaimReview, IInv, Typed, Sound
  <2>3. Free BY <2>1, AfterReviewFree DEF ClaimReview
  <2>4. PICK status \in ReviewStatus : status = task[h].to
    BY DEF ClaimReview, IInv, Typed, Sound
  <2>5. LeaveStep BY <2>1, <2>2, <2>4, SetStatusStep DEF IInv
  <2> QED BY <1>2, <2>3, <2>5
<1>4. CASE leave[l].status # task[h].seen
  BY <1>1, <1>2, <1>4, SameLeave, DoneFree DEF ClaimReview, IInv
<1> QED BY <1>3, <1>4

LEMMA ReadBalanceStep ==
    ASSUME IInv, NEW h \in Handlers, ReadBalance(h) PROVE Free /\ RowStep /\ LeaveStep /\ UsedStep
<1>1. task[h] \in TaskRec /\ task[h].item \in Leaves
  BY DEF ReadBalance, IInv, Typed, Sound, AboutLeave
<1>2. PICK t : t = [task[h] EXCEPT !.do = "post", !.base = used] OBVIOUS
<1>3. t \in TaskRec /\ t.do = "post" /\ t.item = task[h].item
  BY <1>1, <1>2 DEF TaskRec, Doing, IInv, Typed
<1>4. Sound(t) /\ t.do \notin Locking
  BY <1>1, <1>3 DEF Sound, AboutDay, AboutLeave, Locking
<1> QED BY <1>2, <1>4, GotoFree, SameRow, SameLeave, SameUsed DEF ReadBalance, IInv

LEMMA AfterBalanceFree ==
    ASSUME IInv, NEW h \in Handlers, task[h].do = "post", AfterBalance(h), UNCHANGED <<corr, lock>>
    PROVE  Free
<1>1. task[h] \in TaskRec BY DEF IInv, Typed
<1>2. ASSUME NEW t, t \in TaskRec, t.do \in {"prepareleave", "clear"}, Goto(h, t) PROVE Free
  BY <1>2, GotoFree DEF Sound, AboutDay, AboutLeave, Locking, IInv
<1>3. CASE Goto(h, [task[h] EXCEPT !.do = "prepareleave"])
  <2>1. PICK t : t = [task[h] EXCEPT !.do = "prepareleave"] OBVIOUS
  <2>2. t \in TaskRec /\ t.do = "prepareleave" BY <1>1, <2>1 DEF TaskRec, Doing
  <2> QED BY <1>2, <1>3, <2>1, <2>2
<1>4. CASE Goto(h, [task[h] EXCEPT !.do = "clear"])
  <2>1. PICK t : t = [task[h] EXCEPT !.do = "clear"] OBVIOUS
  <2>2. t \in TaskRec /\ t.do = "clear" BY <1>1, <2>1 DEF TaskRec, Doing
  <2> QED BY <1>2, <1>4, <2>1, <2>2
<1> QED BY <1>3, <1>4, DoneFree DEF AfterBalance, IInv

LEMMA PostBalanceStep ==
    ASSUME IInv, NEW h \in Handlers, PostBalance(h) PROVE Free /\ RowStep /\ LeaveStep /\ UsedStep
<1>1. PICK base \in Int, delta \in Int : base = task[h].base /\ delta = task[h].delta
  BY DEF IInv, Typed, TaskRec
<1>2. UsedStep BY <1>1, AdjustedInt DEF PostBalance, UsedStep, IInv
<1> QED BY <1>2, AfterBalanceFree, SameRow, SameLeave DEF PostBalance, IInv

LEMMA ReadDayStep ==
    ASSUME IInv, NEW h \in Handlers, NEW d \in Days, ReadDay(h, d)
    PROVE  Free /\ RowStep /\ LeaveStep /\ UsedStep
<1>1. PICK r \in Found(d) :
         Goto(h, [task[h] EXCEPT !.do = "leaverow", !.day = d, !.row = r, !.todo = @ \ {d}])
  BY DEF ReadDay
<1>2. r \in Rows \cup {NoRow} /\ task[h] \in TaskRec BY FoundRow DEF IInv, Typed
<1>3. PICK t : t = [task[h] EXCEPT !.do = "leaverow", !.day = d, !.row = r, !.todo = @ \ {d}] OBVIOUS
<1>4. t \in TaskRec /\ t.do = "leaverow" /\ t.day = d
  BY <1>2, <1>3 DEF TaskRec, Doing
<1>5. Sound(t) /\ t.do \notin Locking
  BY <1>4 DEF Sound, AboutDay, AboutLeave, Locking
<1> QED BY <1>1, <1>3, <1>5, GotoFree, SameRow, SameLeave, SameUsed DEF ReadDay, IInv

\* LEAVE is written over the status of a row, and nothing else of it.
LEMMA WriteDayStep ==
    ASSUME IInv, NEW h \in Handlers, WriteDay(h) PROVE Free /\ RowStep /\ LeaveStep /\ UsedStep
<1> DEFINE next == [task[h] EXCEPT !.do = "prepareleave", !.day = NoDay, !.row = NoRow]
<1>1. /\ task[h] \in TaskRec /\ task[h].day \in Days /\ task[h].row \in Rows \cup {NoRow}
  BY DEF WriteDay, IInv, Typed, Sound, AboutDay, TaskRec
<1>2. PICK t : t = next OBVIOUS
<1>3. t \in TaskRec /\ t.do = "prepareleave" BY <1>1, <1>2 DEF TaskRec, Doing
<1>4. Sound(t) /\ t.do \notin Locking
  BY <1>3 DEF Sound, AboutDay, AboutLeave, Locking
<1>5. Goto(h, t) \/ Done(h) BY <1>2 DEF WriteDay
<1>6. Free BY <1>4, <1>5, GotoFree, DoneFree DEF WriteDay, IInv
<1>7. RowStep
  <2>1. CASE task[h].row = NoRow
    <3>1. PICK d \in Days : d = task[h].day BY <1>1
    <3>2. Create(d, FALSE, "none", "LEAVE") BY <2>1, <3>1 DEF WriteDay
    <3> QED BY <3>2, CreateStep DEF IInv, RowStatus
  <2>2. CASE task[h].row # NoRow
    <3>1. PICK r \in Rows : r = task[h].row BY <1>1, <2>2
    <3>2. PICK f : f = [row[r] EXCEPT !.status = "LEAVE"] OBVIOUS
    <3>3. f \in RowRec /\ f.out = row[r].out BY <3>2 DEF IInv, Typed, RowRec, RowStatus
    <3>4. Write(r, f) BY <2>2, <3>1, <3>2 DEF WriteDay
    <3> QED BY <3>3, <3>4, WriteStep DEF IInv
  <2> QED BY <2>1, <2>2
<1> QED BY <1>6, <1>7, SameLeave, SameUsed DEF WriteDay, IInv

LEMMA ReadForCancelStep ==
    ASSUME IInv, NEW h \in Handlers, NEW l \in Leaves, ReadForCancel(h, l)
    PROVE  Free /\ RowStep /\ LeaveStep /\ UsedStep
<1>1. leave[l].status \in ReviewStatus BY DEF IInv, Typed, LeaveRec
<1>2. PICK t : t = [Idle EXCEPT !.do = "cancel", !.item = l, !.seen = leave[l].status,
                                !.to = "CANCELLED"] OBVIOUS
<1>3. t \in TaskRec /\ t.do = "cancel" /\ t.item = l
  BY <1>1, <1>2, IdleSound DEF TaskRec, Doing, ReviewStatus
<1>4. Sound(t) /\ t.do \notin Locking
  BY <1>3 DEF Sound, AboutDay, AboutLeave, Locking
<1> QED BY <1>2, <1>4, GotoFree, SameRow, SameLeave, SameUsed DEF ReadForCancel, IInv

LEMMA CancelStep ==
    ASSUME IInv, NEW h \in Handlers, Cancel(h) PROVE Free /\ RowStep /\ LeaveStep /\ UsedStep
<1>1. PICK l \in Leaves : l = task[h].item
  BY DEF Cancel, IInv, Typed, Sound, AboutLeave
<1>2. task[h] \in TaskRec /\ Charge(l) \in Int /\ leave[l].days \in SUBSET Days
  BY ChargeInt DEF IInv, Typed, LeaveRec
<1>3. PICK back \in Int : back = -Charge(l) BY <1>2
<1>4. PICK days \in SUBSET Days : days = leave[l].days BY <1>2
<1>5. PICK t : t = [task[h] EXCEPT !.do = "charge", !.delta = back, !.todo = days] OBVIOUS
<1>6. t \in TaskRec /\ t.do = "charge" /\ t.item = l
  BY <1>1, <1>2, <1>5 DEF TaskRec, Doing
<1>7. Sound(t) /\ t.do \notin Locking
  BY <1>6 DEF Sound, AboutDay, AboutLeave, Locking
<1>8. Goto(h, t) \/ Done(h) BY <1>1, <1>3, <1>4, <1>5 DEF Cancel
<1>9. Free BY <1>7, <1>8, GotoFree, DoneFree DEF Cancel, IInv
<1>10. PICK status \in ReviewStatus : status = "CANCELLED" BY DEF ReviewStatus
<1>11. LeaveStep BY <1>1, <1>10, SetStatusStep DEF Cancel, IInv
<1> QED BY <1>9, <1>11, SameRow, SameUsed DEF Cancel, IInv

LEMMA FindPlaceholderStep ==
    ASSUME IInv, NEW h \in Handlers, NEW d \in Days, FindPlaceholder(h, d)
    PROVE  Free /\ RowStep /\ LeaveStep /\ UsedStep
<1>1. task[h] \in TaskRec /\ task[h].do = "clear" BY DEF FindPlaceholder, IInv, Typed
<1>2. \/ \E r \in Rows : Goto(h, [task[h] EXCEPT !.do = "delete", !.row = r, !.todo = @ \ {d}])
      \/ Goto(h, [task[h] EXCEPT !.todo = @ \ {d}])
  BY DEF FindPlaceholder, RowsOf
<1>3. ASSUME NEW r \in Rows, Goto(h, [task[h] EXCEPT !.do = "delete", !.row = r, !.todo = @ \ {d}])
      PROVE  Free
  <2>1. PICK t : t = [task[h] EXCEPT !.do = "delete", !.row = r, !.todo = @ \ {d}] OBVIOUS
  <2>2. t \in TaskRec /\ t.do = "delete" /\ t.row = r BY <1>1, <2>1 DEF TaskRec, Doing
  <2>3. Sound(t) /\ t.do \notin Locking BY <2>2 DEF Sound, AboutDay, AboutLeave, Locking
  <2> QED BY <1>3, <2>1, <2>3, GotoFree DEF FindPlaceholder, IInv
<1>4. ASSUME Goto(h, [task[h] EXCEPT !.todo = @ \ {d}]) PROVE Free
  <2>1. PICK t : t = [task[h] EXCEPT !.todo = @ \ {d}] OBVIOUS
  <2>2. t \in TaskRec /\ t.do = "clear" BY <1>1, <2>1 DEF TaskRec
  <2>3. Sound(t) /\ t.do \notin Locking BY <2>2 DEF Sound, AboutDay, AboutLeave, Locking
  <2> QED BY <1>4, <2>1, <2>3, GotoFree DEF FindPlaceholder, IInv
<1> QED BY <1>2, <1>3, <1>4, SameRow, SameLeave, SameUsed DEF FindPlaceholder, IInv

\* A deleted row has no check-out at all.
LEMMA DeletePlaceholderStep ==
    ASSUME IInv, NEW h \in Handlers, DeletePlaceholder(h)
    PROVE  Free /\ RowStep /\ LeaveStep /\ UsedStep
<1>1. PICK r \in Rows : r = task[h].row
  BY DEF DeletePlaceholder, IInv, Typed, Sound
<1>2. task[h] \in TaskRec BY DEF IInv, Typed
<1>3. PICK t : t = [task[h] EXCEPT !.do = "clear", !.row = NoRow] OBVIOUS
<1>4. t \in TaskRec /\ t.do = "clear" BY <1>2, <1>3 DEF TaskRec, Doing
<1>5. Sound(t) /\ t.do \notin Locking BY <1>4 DEF Sound, AboutDay, AboutLeave, Locking
<1>6. Goto(h, t) \/ Done(h) BY <1>3 DEF DeletePlaceholder
<1>7. Free BY <1>5, <1>6, GotoFree, DoneFree DEF DeletePlaceholder, IInv
<1>8. PICK f : f = [Blank EXCEPT !.status = "deleted"] OBVIOUS
<1>9. f \in RowRec /\ f.out = "none" BY <1>8 DEF Blank, RowRec, RowStatus
<1>10. row' = [row EXCEPT ![r] = f] BY <1>1, <1>8 DEF DeletePlaceholder
<1>11. RowStep BY <1>9, <1>10 DEF IInv, Typed, RowStep, ManualKept
<1> QED BY <1>7, <1>11, SameLeave, SameUsed DEF DeletePlaceholder, IInv

LEMMA LeaveEndStep ==
    ASSUME IInv, NEW h \in Handlers, LeaveEnd(h) PROVE Free /\ RowStep /\ LeaveStep /\ UsedStep
  BY DoneFree, SameRow, SameLeave, SameUsed DEF LeaveEnd, IInv

\* Rows made for approved days are new, or get the status LEAVE.
LEMMA PrepareAllStep == ASSUME Typed, NEW days \in SUBSET Days, PrepareAll(days) PROVE RowStep
<1> DEFINE new == {d \in days : RowsOf(d) = {}}
<1>1. PICK birth \in [new -> Unborn], pick \in [days \ new -> Rows] :
         row' = [r \in Rows |->
              IF \E d \in new : birth[d] = r
              THEN [Blank EXCEPT !.day = CHOOSE d \in new : birth[d] = r, !.status = "LEAVE"]
              ELSE IF \E d \in days \ new : pick[d] = r THEN [row[r] EXCEPT !.status = "LEAVE"]
              ELSE row[r]]
  BY DEF PrepareAll
<1>2. ASSUME NEW r \in Rows
      PROVE  row'[r] \in RowRec /\ row'[r].out \in {row[r].out, "none"}
  <2>1. row[r] \in RowRec BY DEF Typed
  <2>2. CASE \E d \in new : birth[d] = r
    <3>1. PICK d \in Days : d = CHOOSE e \in new : birth[e] = r BY <2>2
    <3>2. row'[r] = [Blank EXCEPT !.day = d, !.status = "LEAVE"] BY <1>1, <2>2, <3>1
    <3> QED BY <3>2 DEF Blank, RowRec, RowStatus
  <2>3. CASE row'[r] = [row[r] EXCEPT !.status = "LEAVE"]
    BY <2>1, <2>3 DEF RowRec, RowStatus
  <2>4. CASE row'[r] = row[r] BY <2>1, <2>4
  <2> QED BY <1>1, <2>2, <2>3, <2>4
<1>3. row' = [r \in Rows |-> row'[r]] BY <1>1
<1> QED BY <1>2, <1>3 DEF RowStep, ManualKept, RowRec

LEMMA ClearAllStep == ASSUME Typed, NEW days \in SUBSET Days, ClearAll(days) PROVE RowStep
<1>1. PICK f : f = [Blank EXCEPT !.status = "deleted"] OBVIOUS
<1>2. f \in RowRec /\ f.out = "none" BY <1>1 DEF Blank, RowRec, RowStatus
<1>3. PICK gone \in SUBSET Rows : row' = [r \in Rows |-> IF r \in gone THEN f ELSE row[r]]
  <2> DEFINE held == {d \in days : \E r \in RowsOf(d) : Placeholder(r)}
  <2>0. PICK pick \in [held -> Rows] :
           row' = [r \in Rows |->
             IF row[r].status = "LEAVE" /\ \E d \in held : pick[d] = r
             THEN [Blank EXCEPT !.status = "deleted"] ELSE row[r]]
    BY DEF ClearAll
  <2>1. row' = [r \in Rows |->
             IF row[r].status = "LEAVE" /\ \E d \in held : pick[d] = r THEN f ELSE row[r]]
    BY <1>1, <2>0
  <2>2. PICK gone \in SUBSET Rows :
           gone = {r \in Rows : row[r].status = "LEAVE" /\ \E d \in held : pick[d] = r} OBVIOUS
  <2>3. \A r \in Rows : row'[r] = IF r \in gone THEN f ELSE row[r] BY <2>1, <2>2
  <2>4. row' = [r \in Rows |-> row'[r]] BY <2>1
  <2> QED BY <2>3, <2>4
<1> QED BY <1>2, <1>3 DEF Typed, RowStep, ManualKept

LEMMA AdminReviewStep ==
    ASSUME IInv, NEW h \in Handlers, NEW l \in Leaves, NEW to \in {"APPROVED", "REJECTED"},
           AdminReview(h, l, to)
    PROVE  Free /\ RowStep /\ LeaveStep /\ UsedStep
<1>1. PICK delta \in Int : used' = Adjusted(used, delta)
  <2>1. Charge(l) \in Int BY ChargeInt DEF IInv
  <2>2. PICK charge \in Int : charge = Charge(l) BY <2>1
  <2>3. -charge \in Int OBVIOUS
  <2>4. CASE to = "APPROVED" BY <2>2, <2>4 DEF AdminReview
  <2>5. CASE to # "APPROVED" /\ leave[l].status = "APPROVED" BY <2>2, <2>3, <2>5 DEF AdminReview
  <2>6. CASE to # "APPROVED" /\ leave[l].status # "APPROVED" BY <2>6 DEF AdminReview
  <2> QED BY <2>4, <2>5, <2>6
<1>2. UsedStep
  <2>1. PICK base \in Int : base = used BY DEF IInv, Typed
  <2> QED BY <1>1, <2>1, AdjustedInt DEF UsedStep, IInv
<1>3. PICK days \in SUBSET Days : days = leave[l].days BY DEF IInv, Typed, LeaveRec
<1>4. RowStep BY <1>3, PrepareAllStep, ClearAllStep, SameRow DEF AdminReview, IInv
<1>5. LeaveStep BY SetStatusStep DEF AdminReview, IInv, ReviewStatus
<1>6. Free BY SameFree DEF AdminReview, IInv
<1> QED BY <1>2, <1>4, <1>5, <1>6

-----------------------------------------------------------------------------
(* The theorems *)

LEMMA Step == ASSUME IInv, PeopleNext PROVE StepKept /\ ManualKept /\ CancelKept
<1>1. CASE Applying
  <2>1. PICK l \in Leaves, days \in SUBSET Days, off \in BOOLEAN : Apply(l, days, off)
    BY <1>1 DEF Applying
  <2> QED BY <2>1, ApplyStep, FreeKeeps DEF RowStep, LeaveStep
<1>2. ASSUME NEW h \in Handlers, Leaving(h) PROVE StepKept /\ ManualKept /\ CancelKept
  <2>1. \/ ClaimReview(h) \/ ReadBalance(h) \/ PostBalance(h) \/ WriteDay(h)
        \/ Cancel(h) \/ DeletePlaceholder(h) \/ LeaveEnd(h)
        \/ \E d \in Days : ReadDay(h, d) \/ FindPlaceholder(h, d)
        \/ \E l \in Leaves : \/ ReadForCancel(h, l)
                             \/ \E to \in {"APPROVED", "REJECTED"} :
                                  ReadLeave(h, l, to) \/ AdminReview(h, l, to)
    BY <1>2 DEF Leaving
  <2>2. Free /\ RowStep /\ LeaveStep /\ UsedStep
    BY <2>1, ClaimReviewStep, ReadBalanceStep, PostBalanceStep, WriteDayStep, CancelStep,
       DeletePlaceholderStep, LeaveEndStep, ReadDayStep, FindPlaceholderStep, ReadForCancelStep,
       ReadLeaveStep, AdminReviewStep
  <2> QED BY <2>2, FreeKeeps DEF RowStep, LeaveStep
<1>3. ASSUME NEW h \in Handlers, Punching(h), UNCHANGED attendanceVars
      PROVE  StepKept /\ ManualKept /\ CancelKept
  <2>1. Free /\ RowStep /\ LeaveStep /\ UsedStep
    BY <1>3, PunchingStep, SameLeave, SameUsed DEF attendanceVars, IInv
  <2> QED BY <2>1, FreeKeeps DEF RowStep, LeaveStep
<1>4. ASSUME NEW h \in Handlers, Correcting(h), UNCHANGED attendanceVars
      PROVE  StepKept /\ ManualKept /\ CancelKept
  BY <1>4, CorrectingStep DEF attendanceVars, RowStep, LeaveStep
<1> QED BY <1>1, <1>2, <1>3, <1>4 DEF PeopleNext

LEMMA Stutter == ASSUME IInv, UNCHANGED peopleVars PROVE StepKept /\ ManualKept /\ CancelKept
<1>1. Free /\ RowStep /\ LeaveStep /\ UsedStep
  BY SameFree, SameRow, SameLeave, SameUsed DEF peopleVars, IInv
<1> QED BY <1>1, FreeKeeps DEF RowStep, LeaveStep

LEMMA Initially == PeopleInit => IInv
<1> SUFFICES ASSUME PeopleInit PROVE IInv OBVIOUS
<1>1. Blank \in RowRec BY DEF Blank, RowRec, RowStatus
<1>2. [status |-> "none", days |-> {}, off |-> FALSE] \in LeaveRec
  BY DEF LeaveRec, ReviewStatus
<1>3. [day |-> NoDay, status |-> "none", applied |-> 0] \in CorrRec
  BY DEF CorrRec, ReviewStatus
<1>4. Typed
  BY <1>1, <1>2, <1>3, IdleSound DEF PeopleInit, Typed, Sound
<1>5. \A h \in Handlers : task[h].do \notin Locking
  BY IdleSound DEF PeopleInit
<1>6. OnePendingCorrection /\ CorrectionAppliedOnce
  BY DEF PeopleInit, OnePendingCorrection, CorrectionAppliedOnce
<1> QED BY <1>4, <1>5, <1>6 DEF IInv, LockHeld, NoneYet, Locking

\* The invariant the properties rest on holds in every state.
THEOREM PeopleInvariant == PeopleSpec => []IInv
<1>1. IInv /\ [PeopleNext]_peopleVars => IInv'
  BY Step, Stutter DEF StepKept, IInv
<1> QED BY <1>1, Initially, PTL DEF PeopleSpec

\* Of two requests made at once for one day, one is refused, and any number of
\* reviewers apply a correction to its day once.
THEOREM CorrectionsApplyOnce == PeopleSpec => []CorrectionsOnce
<1>1. IInv => CorrectionsOnce BY DEF IInv, CorrectionsOnce
<1> QED BY <1>1, PeopleInvariant, PTL

\* No automatic punch-out replaces one that was made by hand.
THEOREM ManualPunchStays == PeopleSpec => AutoKeepsManual
<1>1. IInv /\ [PeopleNext]_peopleVars =>
        [\A r \in Rows : row[r].out = "manual" => row'[r].out \in {"manual", "none"}]_row
  BY Step, Stutter DEF ManualKept
<1> QED BY <1>1, PeopleInvariant, PTL DEF PeopleSpec, AutoKeepsManual

\* No review, however late, brings a cancelled leave back.
THEOREM CancelledStays == PeopleSpec => CancelledIsFinal
<1>1. IInv /\ [PeopleNext]_peopleVars =>
        [\A l \in Leaves : leave[l].status = "CANCELLED" => leave'[l].status = "CANCELLED"]_leave
  BY Step, Stutter DEF CancelKept
<1> QED BY <1>1, PeopleInvariant, PTL DEF PeopleSpec, CancelledIsFinal

-----------------------------------------------------------------------------
(* What reviews charge *)

\* Days a leave takes off the balance, and days a task has still to charge for it.
Dues == [l \in Leaves |-> IF leave[l].status = "APPROVED" THEN Charge(l) ELSE 0]
Charging == {"charge", "post"}
Share(t, l) == IF t.do \in Charging /\ t.item = l THEN t.delta ELSE 0
Charged == SumFunction([l \in Approved |-> Charge(l)])

\* What a handler has read decides what it charges.
Reviewers ==
    \A h \in Handlers :
        /\ task[h].do = "review" => task[h].to \in {"APPROVED", "REJECTED"} /\ task[h].seen \notin {"none", task[h].to}
        /\ task[h].do = "cancel" => task[h].seen \in {"PENDING", "APPROVED"}

\* While no two handlers overlap, what one has read is still so, and the balance lacks
\* at most what it is about to charge.
Settled(t) ==
    /\ t.do \in {"review", "cancel"} => t.seen = leave[t.item].status
    /\ t.do = "post" => t.base = used
    /\ IF t.do \in Charging THEN used + t.delta = Charged ELSE used = Charged
CalmNow ==
    /\ \A h \in Handlers : task[h].do \in AboutLeave => Settled(task[h])
    /\ (\A h \in Handlers : task[h].do \notin Charging) => used = Charged

Finite ==
    /\ IsFiniteSet({h \in Handlers : task[h].do \in Charging})
    /\ IsFiniteSet({l \in Leaves : leave[l].status # "none"})

Balances ==
    /\ posted \in [Leaves -> Int]
    /\ Reviewers /\ Finite
    /\ ReviewsChargeOnce
    /\ calm => CalmNow

LEMMA ChargeNat == ASSUME Typed, NEW l \in Leaves PROVE Charge(l) \in Nat /\ Dues[l] \in Nat
<1>1. leave[l].days \in SUBSET Days BY DEF Typed, LeaveRec
<1>2. IsFiniteSet(leave[l].days) BY <1>1, PeopleAssumption, FS_Subset
<1>3. Cardinality(leave[l].days) \in Nat BY <1>2, FS_CardinalityType
<1> QED BY <1>3 DEF Charge, Dues

\* Of what is owed for a leave, only the share of the handler that moves changes.
LEMMA OwedMoves ==
    ASSUME Typed, Typed', Finite, NEW h \in Handlers, \A g \in Handlers : g # h => task'[g] = task[g],
           NEW l \in Leaves
    PROVE  /\ Owed(l) \in Int
           /\ Owed(l)' = Owed(l) - Share(task[h], l) + Share(task'[h], l)
<1> DEFINE S == Owing(l) \ {h}
           f == [g \in S |-> task[g].delta]
           old == [g \in Owing(l) |-> task[g].delta]
           new == [g \in Owing(l)' |-> task'[g].delta]
<1>1. IsFiniteSet(S)
  <2>1. Owing(l) \subseteq {g \in Handlers : task[g].do \in Charging} BY DEF Owing, Charging
  <2>2. IsFiniteSet({g \in Handlers : task[g].do \in Charging}) BY DEF Finite
  <2> QED BY <2>1, <2>2, FS_Subset
<1>2. \A g \in Handlers : task[g].delta \in Int /\ task'[g].delta \in Int
  BY DEF Typed, TaskRec
<1>3. h \notin S /\ S \subseteq Handlers /\ \A g \in S : task'[g] = task[g] /\ f[g] = task[g].delta
  BY DEF Owing
<1>4. DOMAIN f = S /\ DOMAIN old = Owing(l) /\ DOMAIN new = Owing(l)' OBVIOUS
<1>5. \A g \in S : f[g] \in Int BY <1>2, <1>3
<1>6. SumFunction(f) \in Int
  <2>1. SumFunctionOnSet(f, S) \in Int BY <1>1, <1>5, SumWithout
  <2> QED BY <1>4, <2>1 DEF SumFunction
<1>7. SumFunction(old) = Share(task[h], l) + SumFunction(f)
  <2>1. CASE h \in Owing(l)
    <3>1. DOMAIN old = S \cup {h} /\ old[h] = task[h].delta /\ \A g \in S : old[g] = f[g] BY <2>1
    <3>2. Share(task[h], l) = old[h] BY <2>1, <3>1 DEF Owing, Share, Charging
    <3> HIDE DEF old, f, S
    <3> QED BY <1>1, <1>2, <1>3, <1>4, <1>5, <3>1, <3>2, TotalWith
  <2>2. CASE h \notin Owing(l)
    <3>1. old = f BY <2>2
    <3>2. Share(task[h], l) = 0 BY <2>2 DEF Owing, Share, Charging
    <3> HIDE DEF old, f, S
    <3> QED BY <1>6, <3>1, <3>2
  <2> QED BY <2>1, <2>2
<1>8. SumFunction(new) = Share(task'[h], l) + SumFunction(f)
  <2>0. \A g \in Handlers : g # h => (g \in Owing(l)' <=> g \in Owing(l)) BY DEF Owing
  <2>1. CASE h \in Owing(l)'
    <3>1. Owing(l)' = S \cup {h} BY <2>0, <2>1 DEF Owing
    <3>2. DOMAIN new = S \cup {h} /\ new[h] = task'[h].delta /\ \A g \in S : new[g] = f[g]
      BY <1>3, <2>1, <3>1
    <3>3. Share(task'[h], l) = new[h] BY <2>1, <3>2 DEF Owing, Share, Charging
    <3> HIDE DEF new, f, S
    <3> QED BY <1>1, <1>2, <1>3, <1>4, <1>5, <3>2, <3>3, TotalWith
  <2>2. CASE h \notin Owing(l)'
    <3>1. Owing(l)' = S BY <2>0, <2>2 DEF Owing
    <3>2. new = f BY <1>3, <3>1
    <3>3. Share(task'[h], l) = 0 BY <2>2 DEF Owing, Share, Charging
    <3> HIDE DEF new, f, S
    <3> QED BY <1>6, <3>2, <3>3
  <2> QED BY <2>1, <2>2
<1>9. Owed(l) = SumFunction(old) /\ Owed(l)' = SumFunction(new) BY DEF Owed
<1>10. Share(task[h], l) \in Int /\ Share(task'[h], l) \in Int BY <1>2 DEF Share
<1> HIDE DEF f, old, new
<1> QED BY <1>6, <1>7, <1>8, <1>9, <1>10

\* Of what the approved leaves come to, only the part of the leave that changes does.
LEMMA ChargedMoves ==
    ASSUME Typed, Typed', Finite, NEW k \in Leaves, \A l \in Leaves : l # k => leave'[l] = leave[l]
    PROVE  /\ Charged \in Nat /\ Charged' \in Nat
           /\ Charged' = Charged - Dues[k] + Dues'[k]
<1> DEFINE S == Approved \ {k}
           f == [l \in S |-> Charge(l)]
           old == [l \in Approved |-> Charge(l)]
           new == [l \in Approved' |-> Charge(l)']
<1>1. IsFiniteSet(S)
  <2>1. S \subseteq {l \in Leaves : leave[l].status # "none"} BY DEF Approved
  <2>2. IsFiniteSet({l \in Leaves : leave[l].status # "none"}) BY DEF Finite
  <2> QED BY <2>1, <2>2, FS_Subset
<1>2. \A l \in Leaves : Charge(l) \in Nat /\ Charge(l)' \in Nat
  <2>1. \A l \in Leaves : Charge(l) \in Nat BY ChargeNat
  <2>2. ASSUME NEW l \in Leaves PROVE Charge(l)' \in Nat
    <3>1. leave'[l].days \in SUBSET Days BY DEF Typed, LeaveRec
    <3>2. IsFiniteSet(leave'[l].days) BY <3>1, PeopleAssumption, FS_Subset
    <3>3. Cardinality(leave'[l].days) \in Nat BY <3>2, FS_CardinalityType
    <3> QED BY <3>3 DEF Charge
  <2> QED BY <2>1, <2>2
<1>3. k \notin S /\ S \subseteq Leaves /\ \A l \in S : Charge(l)' = Charge(l) /\ f[l] = Charge(l)
  BY DEF Approved, Charge
<1>4. DOMAIN f = S /\ DOMAIN old = Approved /\ DOMAIN new = Approved' OBVIOUS
<1>5. \A l \in S : f[l] \in Nat BY <1>2, <1>3
<1>6. SumFunction(f) \in Nat
  <2> HIDE DEF f, S
  <2> QED BY <1>1, <1>4, <1>5, TotalNat
<1>7. SumFunction(old) = Dues[k] + SumFunction(f)
  <2>1. CASE k \in Approved
    <3>1. DOMAIN old = S \cup {k} /\ old[k] = Charge(k) /\ \A l \in S : old[l] = f[l] BY <2>1
    <3>2. Dues[k] = old[k] BY <2>1, <3>1 DEF Approved, Dues
    <3> HIDE DEF old, f, S
    <3> QED BY <1>1, <1>2, <1>3, <1>4, <1>5, <3>1, <3>2, TotalWith
  <2>2. CASE k \notin Approved
    <3>1. old = f BY <2>2
    <3>2. Dues[k] = 0 BY <2>2 DEF Approved, Dues
    <3> HIDE DEF old, f, S
    <3> QED BY <1>6, <3>1, <3>2
  <2> QED BY <2>1, <2>2
<1>8. SumFunction(new) = Dues'[k] + SumFunction(f)
  <2>0. \A l \in Leaves : l # k => (l \in Approved' <=> l \in Approved) BY DEF Approved
  <2>1. CASE k \in Approved'
    <3>1. Approved' = S \cup {k} BY <2>0, <2>1 DEF Approved
    <3>2. DOMAIN new = S \cup {k} /\ new[k] = Charge(k)' /\ \A l \in S : new[l] = f[l]
      BY <1>3, <2>1, <3>1
    <3>3. Dues'[k] = new[k] BY <2>1, <3>2 DEF Approved, Dues
    <3> HIDE DEF new, f, S
    <3> QED BY <1>1, <1>2, <1>3, <1>4, <1>5, <3>2, <3>3, TotalWith
  <2>2. CASE k \notin Approved'
    <3>1. Approved' = S BY <2>0, <2>2 DEF Approved
    <3>2. new = f BY <1>3, <3>1
    <3>3. Dues'[k] = 0 BY <2>2 DEF Approved, Dues
    <3> HIDE DEF new, f, S
    <3> QED BY <1>6, <3>2, <3>3
  <2> QED BY <2>1, <2>2
<1>9. Charged = SumFunction(old) /\ Charged' = SumFunction(new) BY DEF Charged
<1>10. Dues[k] \in Nat /\ Dues'[k] \in Nat BY <1>2 DEF Dues
<1> HIDE DEF f, old, new
<1> QED BY <1>6, <1>7, <1>8, <1>9, <1>10

\* A leave gets another status: what it is due changes, and nothing else.
LEMMA DueMoves ==
    ASSUME Typed, NEW k \in Leaves, NEW to, SetStatus(k, to)
    PROVE  /\ \A l \in Leaves : l # k => leave'[l] = leave[l]
           /\ leave'[k].status = to
           /\ \A l \in Leaves : Charge(l)' = Charge(l)
           /\ \A l \in Leaves : l # k => Dues'[l] = Dues[l]
           /\ Dues'[k] = IF to = "APPROVED" THEN Charge(k) ELSE 0
<1>1. leave' = [leave EXCEPT ![k].status = to] BY DEF SetStatus
<1>2. \A l \in Leaves : l # k => leave'[l] = leave[l] BY <1>1 DEF Typed
<1>3. leave'[k].status = to /\ leave'[k].days = leave[k].days /\ leave'[k].off = leave[k].off
  BY <1>1 DEF Typed, LeaveRec
<1>4. \A l \in Leaves : Charge(l)' = Charge(l) BY <1>2, <1>3 DEF Charge
<1> QED BY <1>2, <1>3, <1>4 DEF Dues

LEMMA LeaveSame ==
    ASSUME UNCHANGED leave
    PROVE  Charged' = Charged /\ Dues' = Dues
<1>1. (\A l : Charge(l)' = Charge(l)) /\ Dues' = Dues BY DEF Charge, Dues
<1>2. Approved' = Approved BY DEF Approved
<1>3. [l \in Approved' |-> Charge(l)'] = [l \in Approved |-> Charge(l)] BY <1>1, <1>2
<1> QED BY <1>1, <1>3 DEF Charged

\* While nobody else is at work, the state is what the one handler sees.
LEMMA CalmKept ==
    ASSUME Balances, NEW h \in Handlers, \A g \in Handlers : g # h => task'[g] = task[g],
           Alone(h), calm /\ Settled(task[h]) => Settled(task[h])'
    PROVE  calm' => CalmNow'
<1> SUFFICES ASSUME calm' PROVE CalmNow' OBVIOUS
<1>1. calm /\ \A g \in Handlers \ {h} : task[g] = Idle BY DEF Alone
<1>2. Idle.do = "idle" BY DEF Idle
<1>3. \A g \in Handlers : g # h => task[g].do = "idle" /\ task'[g].do = "idle" BY <1>1, <1>2
<1>4. Settled(task[h])
  <2>1. CalmNow BY <1>1 DEF Balances
  <2>2. CASE task[h].do \in AboutLeave BY <2>1, <2>2 DEF CalmNow
  <2>3. CASE task[h].do \notin AboutLeave
    <3>1. \A g \in Handlers : task[g].do \notin Charging BY <1>3, <2>3 DEF AboutLeave, Charging
    <3>2. used = Charged BY <2>1, <3>1 DEF CalmNow
    <3> QED BY <2>3, <3>1, <3>2 DEF Settled, AboutLeave
  <2> QED BY <2>2, <2>3
<1>5. Settled(task[h])' BY <1>1, <1>4
<1>6. \A g \in Handlers : task'[g].do \in AboutLeave => Settled(task[g])'
  BY <1>3, <1>5 DEF AboutLeave
<1>7. (\A g \in Handlers : task'[g].do \notin Charging) => used' = Charged'
  BY <1>5 DEF Settled
<1> QED BY <1>6, <1>7 DEF CalmNow

\* A step of one handler on one leave.
LEMMA BalanceMoves ==
    ASSUME IInv, IInv', Balances, NEW h \in Handlers, \A g \in Handlers : g # h => task'[g] = task[g],
           NEW k, \A l \in Leaves : l # k => leave'[l] = leave[l],
           posted' \in [Leaves -> Int],
           task'[h].do = "review" => task'[h].to \in {"APPROVED", "REJECTED"} /\ task'[h].seen \notin {"none", task'[h].to},
           task'[h].do = "cancel" => task'[h].seen \in {"PENDING", "APPROVED"},
           \A l \in Leaves : leave'[l].status # "CANCELLED" =>
              /\ leave[l].status # "CANCELLED"
              /\ posted'[l] - Share(task[h], l) + Share(task'[h], l) = posted[l] + Dues'[l] - Dues[l],
           calm' => CalmNow'
    PROVE  Balances'
<1>1. Typed /\ Typed' /\ Finite BY DEF IInv, Balances
<1>2. Reviewers' BY DEF Balances, Reviewers
<1>3. Finite'
  <2>1. {g \in Handlers : task'[g].do \in Charging} \subseteq {g \in Handlers : task[g].do \in Charging} \cup {h}
    OBVIOUS
  <2>2. {l \in Leaves : leave'[l].status # "none"} \subseteq {l \in Leaves : leave[l].status # "none"} \cup {k}
    OBVIOUS
  <2>3. /\ IsFiniteSet({g \in Handlers : task[g].do \in Charging} \cup {h})
        /\ IsFiniteSet({l \in Leaves : leave[l].status # "none"} \cup {k})
    BY FS_AddElement DEF Balances, Finite
  <2> QED BY <2>1, <2>2, <2>3, FS_Subset DEF Finite
<1>4. ReviewsChargeOnce'
  <2> SUFFICES ASSUME NEW l \in Leaves, leave'[l].status # "CANCELLED"
               PROVE  posted'[l] + Owed(l)' = Dues'[l]
    BY DEF ReviewsChargeOnce, Dues
  <2>1. posted[l] + Owed(l) = Dues[l] BY DEF Balances, ReviewsChargeOnce, Dues
  <2>2. Owed(l) \in Int /\ Owed(l)' = Owed(l) - Share(task[h], l) + Share(task'[h], l)
    BY <1>1, OwedMoves
  <2>3. posted'[l] - Share(task[h], l) + Share(task'[h], l) = posted[l] + Dues'[l] - Dues[l] OBVIOUS
  <2>4. Share(task[h], l) \in Int /\ Share(task'[h], l) \in Int BY <1>1 DEF Typed, TaskRec, Share
  <2>5. Dues[l] \in Nat BY <1>1, ChargeNat
  <2>6. Dues'[l] \in Nat
    <3>1. leave'[l].days \in SUBSET Days BY <1>1 DEF Typed, LeaveRec
    <3>2. IsFiniteSet(leave'[l].days) BY <3>1, PeopleAssumption, FS_Subset
    <3>3. Cardinality(leave'[l].days) \in Nat BY <3>2, FS_CardinalityType
    <3> QED BY <3>3 DEF Charge, Dues
  <2>7. posted[l] \in Int /\ posted'[l] \in Int BY DEF Balances
  <2>8. PICK share \in Int : share = Share(task[h], l) BY <2>4
  <2>9. PICK next \in Int : next = Share(task'[h], l) BY <2>4
  <2>10. PICK due \in Int : due = Dues[l] BY <2>5
  <2>11. PICK then \in Int : then = Dues'[l] BY <2>6
  <2>12. PICK owed \in Int : owed = Owed(l) BY <2>2
  <2>13. posted[l] + owed = due BY <2>1, <2>10, <2>12
  <2>14. posted'[l] - share + next = posted[l] + then - due BY <2>3, <2>8, <2>9, <2>10, <2>11
  <2>15. posted'[l] + (owed - share + next) = then BY <2>7, <2>8, <2>9, <2>10, <2>11, <2>12, <2>13, <2>14
  <2> QED BY <2>2, <2>8, <2>9, <2>11, <2>12, <2>15
<1> QED BY <1>2, <1>3, <1>4 DEF Balances

\* Steps on attendance rows, on corrections and between them.
LEMMA BalanceAside ==
    ASSUME IInv, IInv', Balances, NEW h \in Handlers, \A g \in Handlers : g # h => task'[g] = task[g],
           task[h].do \notin AboutLeave, task'[h].do \notin AboutLeave,
           UNCHANGED <<leave, used, posted>>, calm' => calm
    PROVE  Balances'
<1>1. Charged' = Charged /\ Dues' = Dues BY LeaveSame
<1>2. \A l \in Leaves : Share(task[h], l) = 0 /\ Share(task'[h], l) = 0
  BY DEF Share, AboutLeave, Charging
<1>3. CalmNow => CalmNow'
  <2> SUFFICES ASSUME CalmNow PROVE CalmNow' OBVIOUS
  <2>2. \A g \in Handlers : task'[g].do \in AboutLeave => Settled(task[g])'
    <3> SUFFICES ASSUME NEW g \in Handlers, task'[g].do \in AboutLeave PROVE Settled(task[g])' OBVIOUS
    <3>1. g # h OBVIOUS
    <3>2. task'[g] = task[g] BY <3>1
    <3>3. Settled(task[g]) BY <3>2 DEF CalmNow
    <3> QED BY <1>1, <3>2, <3>3 DEF Settled
  <2>3. (\A g \in Handlers : task'[g].do \notin Charging) => \A g \in Handlers : task[g].do \notin Charging
    BY DEF Charging, AboutLeave
  <2> QED BY <1>1, <2>2, <2>3 DEF CalmNow
<1>4. calm' => CalmNow' BY <1>3 DEF Balances
<1>5. posted' \in [Leaves -> Int] /\ \A l \in Leaves : posted[l] \in Int BY DEF Balances
<1>6. \A l \in Leaves : Dues[l] \in Nat BY ChargeNat DEF IInv
<1>7. \A l \in Leaves : posted'[l] - Share(task[h], l) + Share(task'[h], l) = posted[l] + Dues'[l] - Dues[l]
  BY <1>1, <1>2, <1>5, <1>6
<1>8. \A l \in Leaves : l # h => leave'[l] = leave[l] OBVIOUS
<1> QED BY <1>4, <1>5, <1>7, <1>8, BalanceMoves DEF AboutLeave

LEMMA ReadLeaveBalance ==
    ASSUME IInv, IInv', Balances, NEW h \in Handlers, NEW l \in Leaves, NEW to \in {"APPROVED", "REJECTED"},
           ReadLeave(h, l, to)
    PROVE  Balances'
<1> DEFINE t == [Idle EXCEPT !.do = "review", !.item = l, !.seen = leave[l].status, !.to = to]
<1>1. task[h].do = "idle" BY DEF ReadLeave, Idle
<1>2. t.do = "review" /\ t.item = l /\ t.seen = leave[l].status /\ t.to = to BY DEF Idle
<1>3. Goto(h, t) BY DEF ReadLeave
<1> HIDE DEF t
<1>4. task'[h] = t /\ \A g \in Handlers : g # h => task'[g] = task[g] BY <1>3 DEF Goto, IInv, Typed
<1>5. Charged' = Charged /\ Dues' = Dues BY LeaveSame DEF ReadLeave
<1>6. calm /\ Settled(task[h]) => Settled(task[h])'
  BY <1>1, <1>2, <1>4, <1>5 DEF Settled, Charging, ReadLeave
<1>7. calm' => CalmNow' BY <1>4, <1>6, CalmKept DEF ReadLeave
<1>8. \A k \in Leaves : Share(task[h], k) = 0 /\ Share(task'[h], k) = 0
  BY <1>1, <1>2, <1>4 DEF Share, Charging
<1>9. \A k \in Leaves : posted'[k] - Share(task[h], k) + Share(task'[h], k) = posted[k] + Dues'[k] - Dues[k]
  BY <1>5, <1>8, ChargeNat DEF ReadLeave, IInv, Balances
<1>10. UNCHANGED <<leave, posted>> /\ leave[l].status \notin {"none", "CANCELLED", to} BY DEF ReadLeave
<1> QED BY <1>2, <1>4, <1>7, <1>9, <1>10, BalanceMoves DEF Balances

LEMMA ReadForCancelBalance ==
    ASSUME IInv, IInv', Balances, NEW h \in Handlers, NEW l \in Leaves, ReadForCancel(h, l)
    PROVE  Balances'
<1> DEFINE t == [Idle EXCEPT !.do = "cancel", !.item = l, !.seen = leave[l].status, !.to = "CANCELLED"]
<1>1. task[h].do = "idle" BY DEF ReadForCancel, Idle
<1>2. t.do = "cancel" /\ t.item = l /\ t.seen = leave[l].status BY DEF Idle
<1>3. Goto(h, t) BY DEF ReadForCancel
<1> HIDE DEF t
<1>4. task'[h] = t /\ \A g \in Handlers : g # h => task'[g] = task[g] BY <1>3 DEF Goto, IInv, Typed
<1>5. Charged' = Charged /\ Dues' = Dues BY LeaveSame DEF ReadForCancel
<1>6. calm /\ Settled(task[h]) => Settled(task[h])'
  BY <1>1, <1>2, <1>4, <1>5 DEF Settled, Charging, ReadForCancel
<1>7. calm' => CalmNow' BY <1>4, <1>6, CalmKept DEF ReadForCancel
<1>8. \A k \in Leaves : Share(task[h], k) = 0 /\ Share(task'[h], k) = 0
  BY <1>1, <1>2, <1>4 DEF Share, Charging
<1>9. \A k \in Leaves : posted'[k] - Share(task[h], k) + Share(task'[h], k) = posted[k] + Dues'[k] - Dues[k]
  BY <1>5, <1>8, ChargeNat DEF ReadForCancel, IInv, Balances
<1>10. UNCHANGED <<leave, posted>> /\ leave[l].status \in {"PENDING", "APPROVED"} BY DEF ReadForCancel
<1> QED BY <1>2, <1>4, <1>7, <1>9, <1>10, BalanceMoves DEF Balances

LEMMA ReadBalanceBalance ==
    ASSUME IInv, IInv', Balances, NEW h \in Handlers, ReadBalance(h) PROVE Balances'
<1> DEFINE t == [task[h] EXCEPT !.do = "post", !.base = used]
<1>1. task[h].do = "charge" BY DEF ReadBalance
<1>2. t.do = "post" /\ t.item = task[h].item /\ t.delta = task[h].delta /\ t.base = used
  BY DEF IInv, Typed, TaskRec
<1>3. Goto(h, t) BY DEF ReadBalance
<1> HIDE DEF t
<1>4. task'[h] = t /\ \A g \in Handlers : g # h => task'[g] = task[g] BY <1>3 DEF Goto, IInv, Typed
<1>5. Charged' = Charged /\ Dues' = Dues BY LeaveSame DEF ReadBalance
<1>6. calm /\ Settled(task[h]) => Settled(task[h])'
  BY <1>1, <1>2, <1>4, <1>5 DEF Settled, Charging, ReadBalance
<1>7. calm' => CalmNow' BY <1>4, <1>6, CalmKept DEF ReadBalance
<1>8. \A k \in Leaves : Share(task[h], k) \in Int /\ Share(task'[h], k) = Share(task[h], k)
  BY <1>1, <1>2, <1>4 DEF Share, Charging, IInv, Typed, TaskRec
<1>9. \A k \in Leaves : posted'[k] - Share(task[h], k) + Share(task'[h], k) = posted[k] + Dues'[k] - Dues[k]
  BY <1>5, <1>8, ChargeNat DEF ReadBalance, IInv, Balances
<1>10. UNCHANGED <<leave, posted>> BY DEF ReadBalance
<1>11. \A l \in Leaves : l # h => leave'[l] = leave[l] BY <1>10
<1> QED BY <1>2, <1>4, <1>7, <1>9, <1>10, <1>11, BalanceMoves DEF Balances

LEMMA PostBalanceBalance ==
    ASSUME IInv, IInv', Balances, NEW h \in Handlers, PostBalance(h) PROVE Balances'
<1> DEFINE k == task[h].item
           delta == task[h].delta
<1>1. task[h].do = "post" /\ k \in Leaves /\ delta \in Int /\ task[h].base \in Int /\ used \in Int
  BY DEF PostBalance, IInv, Typed, TaskRec, Sound, AboutLeave
<1>2. /\ UNCHANGED leave /\ posted' = [posted EXCEPT ![k] = @ + delta]
      /\ used' = Adjusted(task[h].base, delta)
  BY DEF PostBalance
<1>3. \A g \in Handlers : g # h => task'[g] = task[g]
  BY DEF PostBalance, AfterBalance, Goto, Done, IInv, Typed
<1>4. task'[h].do \in {"prepareleave", "clear", "idle"}
  <2>1. [task[h] EXCEPT !.do = "prepareleave"].do = "prepareleave"
        /\ [task[h] EXCEPT !.do = "clear"].do = "clear" /\ Idle.do = "idle"
    BY DEF IInv, Typed, TaskRec, Idle
  <2> QED BY <2>1 DEF PostBalance, AfterBalance, Goto, Done, IInv, Typed
<1>5. Charged' = Charged /\ Dues' = Dues BY <1>2, LeaveSame
<1>6. Charged \in Nat
  <2>1. \A l \in Leaves : l # k => leave'[l] = leave[l] BY <1>2
  <2> QED BY <1>1, <2>1, ChargedMoves DEF IInv, Balances
<1>7. calm /\ Settled(task[h]) => Settled(task[h])'
  <2> SUFFICES ASSUME Settled(task[h]) PROVE Settled(task[h])' OBVIOUS
  <2>1. task[h].base = used /\ used + delta = Charged BY <1>1 DEF Settled, Charging
  <2>2. used' = Charged BY <1>1, <1>2, <1>6, <2>1 DEF Adjusted
  <2> QED BY <1>4, <1>5, <2>2 DEF Settled, Charging
<1>8. calm' => CalmNow' BY <1>3, <1>7, CalmKept DEF PostBalance
<1>9. \A l \in Leaves : /\ Share(task'[h], l) = 0 /\ Share(task[h], l) = (IF l = k THEN delta ELSE 0)
                        /\ posted[l] \in Int /\ Dues[l] \in Nat
                        /\ posted'[l] = IF l = k THEN posted[l] + delta ELSE posted[l]
  BY <1>1, <1>2, <1>4, ChargeNat DEF Share, Charging, Balances, IInv
<1> HIDE DEF k, delta
<1>10. \A l \in Leaves : posted'[l] - Share(task[h], l) + Share(task'[h], l) = posted[l] + Dues'[l] - Dues[l]
  BY <1>1, <1>5, <1>9
<1>11. posted' \in [Leaves -> Int] BY <1>1, <1>2 DEF Balances
<1>12. \A l \in Leaves : l # h => leave'[l] = leave[l] BY <1>2
<1> QED BY <1>2, <1>3, <1>4, <1>8, <1>10, <1>11, <1>12, BalanceMoves

\* What the claim of a review changes: the status, and what its handler is to charge.
LEMMA ClaimBalance ==
    ASSUME IInv, IInv', Balances, NEW h \in Handlers, ClaimReview(h) PROVE Balances'
<1> DEFINE k == task[h].item
           to == task[h].to
<1>1. /\ task[h].do = "review" /\ k \in Leaves /\ task[h] \in TaskRec
      /\ to \in {"APPROVED", "REJECTED"} /\ task[h].seen \notin {"none", "CANCELLED", to}
  BY DEF ClaimReview, IInv, Typed, Sound, AboutLeave, Balances, Reviewers
<1>2. UNCHANGED <<used, posted>> /\ Alone(h) BY DEF ClaimReview
<1>3. \A l \in Leaves : Share(task[h], l) = 0 BY <1>1 DEF Share, Charging
<1>4. posted' \in [Leaves -> Int] /\ \A l \in Leaves : posted[l] \in Int /\ posted'[l] = posted[l]
  BY <1>2 DEF Balances
<1>5. \A l \in Leaves : Dues[l] \in Nat /\ Charge(l) \in Nat BY ChargeNat DEF IInv
<1>6. Idle.do = "idle" BY DEF Idle
<1>7. \A g \in Handlers : g # h => task'[g] = task[g]
  BY DEF ClaimReview, AfterReview, Goto, Done, IInv, Typed
<1>8. CASE leave[k].status = task[h].seen
  <2>1. SetStatus(k, to) /\ AfterReview(h) BY <1>8 DEF ClaimReview
  <2>2. /\ \A l \in Leaves : l # k => leave'[l] = leave[l]
        /\ \A l \in Leaves : l # k => Dues'[l] = Dues[l]
        /\ Dues'[k] = IF to = "APPROVED" THEN Charge(k) ELSE 0
    BY <1>1, <2>1, DueMoves DEF IInv
  <2>3. PICK charge \in Nat : charge = Charge(k) BY <1>1, <1>5
  <2>4. /\ task'[h].do \in {"charge", "idle"}
        /\ \A l \in Leaves : l # k => Share(task'[h], l) = 0
        /\ Share(task'[h], k) = Dues'[k] - Dues[k]
        /\ task'[h].do = "charge" => task'[h].delta = Dues'[k] - Dues[k]
        /\ task'[h].do = "idle" => Dues'[k] - Dues[k] = 0
    <3>1. CASE to = "APPROVED"
      <4> DEFINE t == [task[h] EXCEPT !.do = "charge", !.delta = charge, !.todo = leave[k].days]
      <4>1. t.do = "charge" /\ t.item = k /\ t.delta = charge BY <1>1 DEF TaskRec
      <4>2. task'[h] = t BY <2>1, <2>3, <3>1 DEF AfterReview, Goto, IInv, Typed
      <4> HIDE DEF t
      <4>3. Dues[k] = 0 /\ Dues'[k] = charge BY <1>1, <1>8, <2>2, <2>3, <3>1 DEF Dues
      <4> HIDE DEF k
      <4> QED BY <4>1, <4>2, <4>3 DEF Share, Charging
    <3>2. CASE to # "APPROVED" /\ task[h].seen = "APPROVED"
      <4> DEFINE t == [task[h] EXCEPT !.do = "charge", !.delta = -charge]
      <4>1. t.do = "charge" /\ t.item = k /\ t.delta = -charge BY <1>1 DEF TaskRec
      <4>2. task'[h] = t BY <2>1, <2>3, <3>2 DEF AfterReview, Goto, IInv, Typed
      <4> HIDE DEF t
      <4>3. Dues[k] = charge /\ Dues'[k] = 0 BY <1>1, <1>8, <2>2, <2>3, <3>2 DEF Dues
      <4> HIDE DEF k
      <4> QED BY <4>1, <4>2, <4>3 DEF Share, Charging
    <3>3. CASE to # "APPROVED" /\ task[h].seen # "APPROVED"
      <4>1. task'[h] = Idle BY <2>1, <3>3 DEF AfterReview, Goto, Done, IInv, Typed
      <4>2. Dues[k] = 0 /\ Dues'[k] = 0 BY <1>8, <2>2, <3>3 DEF Dues
      <4> HIDE DEF k
      <4> QED BY <1>6, <4>1, <4>2 DEF Share, Charging
    <3> QED BY <3>1, <3>2, <3>3
  <2>5. Charged \in Nat /\ Charged' = Charged - Dues[k] + Dues'[k]
    BY <1>1, <2>2, ChargedMoves DEF IInv, Balances
  <2>6. Dues'[k] \in Nat BY <1>1, <1>5, <2>2
  <2>7. calm /\ Settled(task[h]) => Settled(task[h])'
    <3> SUFFICES ASSUME Settled(task[h]) PROVE Settled(task[h])' OBVIOUS
    <3>1. used = Charged BY <1>1 DEF Settled, Charging
    <3>2. PICK due \in Int : due = Dues[k] BY <1>1, <1>5
    <3>3. PICK then \in Int : then = Dues'[k] BY <2>6
    <3>4. Charged' = used - due + then BY <2>5, <3>1, <3>2, <3>3
    <3>5. used \in Int BY DEF IInv, Typed
    <3>6. IF task'[h].do \in Charging THEN used' + task'[h].delta = Charged' ELSE used' = Charged'
      <4>1. CASE task'[h].do = "charge"
        <5>1. task'[h].delta = then - due BY <2>4, <3>2, <3>3, <4>1
        <5> QED BY <1>2, <3>4, <3>5, <4>1, <5>1 DEF Charging
      <4>2. CASE task'[h].do = "idle"
        <5>1. then - due = 0 BY <2>4, <3>2, <3>3, <4>2
        <5> QED BY <1>2, <3>4, <3>5, <4>2, <5>1 DEF Charging
      <4> QED BY <2>4, <4>1, <4>2
    <3> QED BY <2>4, <3>6 DEF Settled
  <2>8. calm' => CalmNow' BY <1>2, <1>7, <2>7, CalmKept
  <2>9. \A l \in Leaves : leave'[l].status # "CANCELLED" =>
          /\ leave[l].status # "CANCELLED"
          /\ posted'[l] - Share(task[h], l) + Share(task'[h], l) = posted[l] + Dues'[l] - Dues[l]
    <3> SUFFICES ASSUME NEW l \in Leaves, leave'[l].status # "CANCELLED"
                 PROVE  /\ leave[l].status # "CANCELLED"
                        /\ posted'[l] - Share(task[h], l) + Share(task'[h], l) = posted[l] + Dues'[l] - Dues[l]
      OBVIOUS
    <3>1. CASE l = k
      <4>1. leave[l].status # "CANCELLED" BY <1>1, <1>8, <3>1
      <4>2. PICK due \in Int : due = Dues[l] BY <1>5
      <4>3. PICK then \in Int : then = Dues'[l] BY <2>6, <3>1
      <4>4. Share(task'[h], l) = then - due BY <2>4, <3>1, <4>2, <4>3
      <4>5. posted'[l] - 0 + (then - due) = posted[l] + then - due BY <1>4
      <4> QED BY <1>3, <4>1, <4>2, <4>3, <4>4, <4>5
    <3>2. CASE l # k
      <4>1. PICK due \in Int : due = Dues[l] BY <1>5
      <4>2. Dues'[l] = due /\ Share(task'[h], l) = 0 /\ leave'[l] = leave[l] BY <2>2, <2>4, <3>2, <4>1
      <4>3. posted'[l] - 0 + 0 = posted[l] + due - due BY <1>4
      <4> QED BY <1>3, <4>1, <4>2, <4>3
    <3> QED BY <3>1, <3>2
  <2>10. task'[h].do \notin {"review", "cancel"} BY <2>4
  <2>11. \A l \in Leaves : l # k => leave'[l] = leave[l] BY <2>2
  <2>12. posted' \in [Leaves -> Int] BY <1>4
  <2> HIDE DEF k, to
  <2> QED BY <1>7, <2>8, <2>9, <2>10, <2>11, <2>12, BalanceMoves
<1>9. CASE leave[k].status # task[h].seen
  <2>1. UNCHANGED leave /\ Done(h) BY <1>9 DEF ClaimReview
  <2>2. task'[h] = Idle BY <2>1 DEF Done, Goto, IInv, Typed
  <2>3. Charged' = Charged /\ Dues' = Dues BY <2>1, LeaveSame
  <2>4. calm /\ Settled(task[h]) => Settled(task[h])'
    BY <1>1, <1>9 DEF Settled
  <2>5. calm' => CalmNow' BY <1>2, <1>7, <2>4, CalmKept
  <2>6. \A l \in Leaves : Share(task'[h], l) = 0 BY <1>6, <2>2 DEF Share, Charging
  <2>7. \A l \in Leaves : posted'[l] - Share(task[h], l) + Share(task'[h], l) = posted[l] + Dues'[l] - Dues[l]
    BY <1>3, <1>4, <1>5, <2>3, <2>6
  <2>8. \A l \in Leaves : l # h => leave'[l] = leave[l] BY <2>1
  <2> QED BY <1>4, <1>6, <1>7, <2>1, <2>2, <2>5, <2>7, <2>8, BalanceMoves
<1> QED BY <1>8, <1>9

\* A cancellation gives back what the approval it read has charged.
LEMMA CancelBalance ==
    ASSUME IInv, IInv', Balances, NEW h \in Handlers, Cancel(h) PROVE Balances'
<1> DEFINE k == task[h].item
<1>1. task[h].do = "cancel" /\ k \in Leaves /\ task[h] \in TaskRec /\ task[h].seen \in {"PENDING", "APPROVED"}
  BY DEF Cancel, IInv, Typed, Sound, AboutLeave, Balances, Reviewers
<1>2. UNCHANGED <<used, posted>> /\ Alone(h) /\ SetStatus(k, "CANCELLED") BY DEF Cancel
<1>3. /\ \A l \in Leaves : l # k => leave'[l] = leave[l]
      /\ leave'[k].status = "CANCELLED"
      /\ \A l \in Leaves : l # k => Dues'[l] = Dues[l]
      /\ Dues'[k] = 0
  BY <1>1, <1>2, DueMoves DEF IInv
<1>4. \A l \in Leaves : Dues[l] \in Nat /\ Charge(l) \in Nat BY ChargeNat DEF IInv
<1>5. PICK charge \in Nat : charge = Charge(k) BY <1>1, <1>4
<1>6. \A g \in Handlers : g # h => task'[g] = task[g]
  BY DEF Cancel, Goto, Done, IInv, Typed
<1>7. /\ task[h].seen = "APPROVED" => task'[h].do = "charge" /\ task'[h].item = k /\ task'[h].delta = -charge
      /\ task[h].seen = "PENDING" => task'[h].do = "idle"
  <2>1. CASE task[h].seen = "APPROVED"
    <3> DEFINE t == [task[h] EXCEPT !.do = "charge", !.delta = -charge, !.todo = leave[k].days]
    <3>1. t.do = "charge" /\ t.item = k /\ t.delta = -charge BY <1>1 DEF TaskRec
    <3>2. task'[h] = t BY <1>5, <2>1 DEF Cancel, Goto, IInv, Typed
    <3> QED BY <2>1, <3>1, <3>2
  <2>2. CASE task[h].seen = "PENDING"
    <3>1. task'[h] = Idle /\ Idle.do = "idle" BY <2>2 DEF Cancel, Done, Goto, IInv, Typed, Idle
    <3> QED BY <2>2, <3>1
  <2> QED BY <1>1, <2>1, <2>2
<1>8. Charged \in Nat /\ Charged' = Charged - Dues[k] + Dues'[k]
  BY <1>1, <1>3, ChargedMoves DEF IInv, Balances
<1>9. calm /\ Settled(task[h]) => Settled(task[h])'
  <2> SUFFICES ASSUME Settled(task[h]) PROVE Settled(task[h])' OBVIOUS
  <2>1. used = Charged /\ task[h].seen = leave[k].status BY <1>1 DEF Settled, Charging
  <2>2. Dues[k] = IF task[h].seen = "APPROVED" THEN charge ELSE 0 BY <1>1, <1>5, <2>1 DEF Dues
  <2>3. Charged' = Charged - Dues[k] BY <1>1, <1>3, <1>4, <1>8
  <2>4. CASE task[h].seen = "APPROVED"
    <3>1. used' + task'[h].delta = Charged' BY <1>2, <1>7, <1>8, <2>1, <2>2, <2>3, <2>4
    <3> QED BY <1>7, <2>4, <3>1 DEF Settled, Charging
  <2>5. CASE task[h].seen = "PENDING"
    <3>1. used' = Charged' BY <1>2, <1>8, <2>1, <2>2, <2>3, <2>5
    <3> QED BY <1>7, <2>5, <3>1 DEF Settled, Charging
  <2> QED BY <1>1, <2>4, <2>5
<1>10. calm' => CalmNow' BY <1>2, <1>6, <1>9, CalmKept
<1>11. \A l \in Leaves : posted[l] \in Int /\ posted'[l] = posted[l] BY <1>2 DEF Balances
<1>12. \A l \in Leaves : l # k => Share(task[h], l) = 0 /\ Share(task'[h], l) = 0
  BY <1>1, <1>7 DEF Share, Charging
<1>13. \A l \in Leaves : leave'[l].status # "CANCELLED" =>
          /\ leave[l].status # "CANCELLED"
          /\ posted'[l] - Share(task[h], l) + Share(task'[h], l) = posted[l] + Dues'[l] - Dues[l]
  <2> SUFFICES ASSUME NEW l \in Leaves, leave'[l].status # "CANCELLED"
               PROVE  /\ leave[l].status # "CANCELLED"
                      /\ posted'[l] - Share(task[h], l) + Share(task'[h], l) = posted[l] + Dues'[l] - Dues[l]
    OBVIOUS
  <2>1. l # k BY <1>3
  <2>2. leave'[l] = leave[l] /\ Dues'[l] = Dues[l] BY <1>3, <2>1
  <2>3. posted[l] \in Int /\ posted'[l] = posted[l] /\ Dues[l] \in Nat BY <1>4, <1>11
  <2>4. Share(task[h], l) = 0 /\ Share(task'[h], l) = 0 BY <1>12, <2>1
  <2> QED BY <2>2, <2>3, <2>4
<1>14. task'[h].do \notin {"review", "cancel"} BY <1>1, <1>7
<1>15. \A l \in Leaves : l # k => leave'[l] = leave[l] BY <1>3
<1>16. posted' \in [Leaves -> Int] BY <1>2 DEF Balances
<1> HIDE DEF k
<1> QED BY <1>6, <1>10, <1>13, <1>14, <1>15, <1>16, BalanceMoves

\* The administration's review charges in the step that sets the status.
LEMMA AdminReviewBalance ==
    ASSUME IInv, IInv', Balances, NEW h \in Handlers, NEW k \in Leaves, NEW to \in {"APPROVED", "REJECTED"},
           AdminReview(h, k, to)
    PROVE  Balances'
<1>1. /\ task[h] = Idle /\ task' = task /\ Alone(h) /\ SetStatus(k, to)
      /\ leave[k].status \notin {"none", "CANCELLED", to}
  BY DEF AdminReview
<1>2. Idle.do = "idle" BY DEF Idle
<1>3. /\ \A l \in Leaves : l # k => leave'[l] = leave[l]
      /\ leave'[k].status = to
      /\ \A l \in Leaves : l # k => Dues'[l] = Dues[l]
      /\ Dues'[k] = IF to = "APPROVED" THEN Charge(k) ELSE 0
  BY <1>1, DueMoves DEF IInv
<1>4. \A l \in Leaves : Dues[l] \in Nat /\ Charge(l) \in Nat BY ChargeNat DEF IInv
<1>5. PICK charge \in Nat : charge = Charge(k) BY <1>4
<1>9. Dues'[k] \in Nat BY <1>3, <1>4
<1>17. PICK delta \in Int : delta = Dues'[k] - Dues[k] BY <1>4, <1>9
<1>6. used' = Adjusted(used, delta) /\ posted' = [posted EXCEPT ![k] = @ + delta]
  <2>1. CASE to = "APPROVED"
    <3>1. Dues[k] = 0 /\ Dues'[k] = charge BY <1>1, <1>3, <1>5, <2>1 DEF Dues
    <3>2. delta = charge BY <1>17, <3>1
    <3> QED BY <1>5, <2>1, <3>2 DEF AdminReview
  <2>2. CASE to # "APPROVED" /\ leave[k].status = "APPROVED"
    <3>1. Dues[k] = charge /\ Dues'[k] = 0 BY <1>3, <1>5, <2>2 DEF Dues
    <3>2. delta = -charge BY <1>17, <3>1
    <3> QED BY <1>5, <2>2, <3>2 DEF AdminReview
  <2>3. CASE to # "APPROVED" /\ leave[k].status # "APPROVED"
    <3>1. Dues[k] = 0 /\ Dues'[k] = 0 BY <1>3, <2>3 DEF Dues
    <3>2. delta = 0 BY <1>17, <3>1
    <3> QED BY <2>3, <3>2 DEF AdminReview
  <2> QED BY <2>1, <2>2, <2>3
<1>7. \A g \in Handlers : g # h => task'[g] = task[g] BY <1>1
<1>8. Charged \in Nat /\ Charged' \in Nat /\ Charged' = Charged - Dues[k] + Dues'[k]
  BY <1>3, ChargedMoves DEF IInv, Balances
<1>10. calm /\ Settled(task[h]) => Settled(task[h])'
  <2> SUFFICES ASSUME Settled(task[h]) PROVE Settled(task[h])' OBVIOUS
  <2>1. used = Charged BY <1>1, <1>2 DEF Settled, Charging
  <2>2. used + delta = Charged' BY <1>4, <1>8, <1>9, <1>17, <2>1
  <2>3. used' = Charged' BY <1>6, <1>8, <2>1, <2>2 DEF Adjusted
  <2> QED BY <1>1, <1>2, <2>3 DEF Settled, Charging
<1>11. calm' => CalmNow' BY <1>1, <1>7, <1>10, CalmKept
<1>12. \A l \in Leaves : Share(task[h], l) = 0 /\ Share(task'[h], l) = 0
  BY <1>1, <1>2 DEF Share, Charging
<1>13. posted \in [Leaves -> Int] /\ posted' \in [Leaves -> Int] BY <1>6 DEF Balances
<1>14. \A l \in Leaves : leave'[l].status # "CANCELLED" =>
          /\ leave[l].status # "CANCELLED"
          /\ posted'[l] - Share(task[h], l) + Share(task'[h], l) = posted[l] + Dues'[l] - Dues[l]
  <2> SUFFICES ASSUME NEW l \in Leaves, leave'[l].status # "CANCELLED"
               PROVE  /\ leave[l].status # "CANCELLED"
                      /\ posted'[l] - Share(task[h], l) + Share(task'[h], l) = posted[l] + Dues'[l] - Dues[l]
    OBVIOUS
  <2>1. leave[l].status # "CANCELLED" BY <1>1, <1>3
  <2>2. CASE l = k
    <3>1. posted'[l] = posted[l] + delta BY <1>6, <1>13, <2>2
    <3> QED BY <1>4, <1>9, <1>12, <1>13, <1>17, <2>1, <2>2, <3>1
  <2>3. CASE l # k
    <3>1. posted'[l] = posted[l] /\ Dues'[l] = Dues[l] BY <1>3, <1>6, <1>13, <2>3
    <3> QED BY <1>4, <1>12, <1>13, <2>1, <3>1
  <2> QED BY <2>2, <2>3
<1>15. \A l \in Leaves : l # k => leave'[l] = leave[l] BY <1>3
<1>16. task'[h].do \notin {"review", "cancel"} BY <1>1, <1>2
<1> QED BY <1>7, <1>11, <1>13, <1>14, <1>15, <1>16, BalanceMoves

\* A new request is pending, and nothing is due for it; who reviews or cancels a
\* leave is at work on another.
LEMMA ApplyBalance ==
    ASSUME IInv, IInv', Balances, NEW k \in Leaves, NEW days \in SUBSET Days, NEW off \in BOOLEAN,
           Apply(k, days, off)
    PROVE  Balances'
<1>1. /\ leave[k].status = "none"
      /\ leave' = [leave EXCEPT ![k] = [status |-> "PENDING", days |-> days, off |-> off]]
      /\ UNCHANGED <<task, used, posted, calm>>
  BY DEF Apply
<1>2. /\ \A l \in Leaves : l # k => leave'[l] = leave[l]
      /\ leave'[k].status = "PENDING"
  BY <1>1 DEF IInv, Typed
<1>3. \A l \in Leaves : l # k => Charge(l)' = Charge(l) BY <1>2 DEF Charge
<1>4. Dues' = Dues BY <1>1, <1>2, <1>3 DEF Dues
<1>5. Dues[k] = 0 BY <1>1 DEF Dues
<1>6. Charged \in Nat /\ Charged' = Charged
  <2>1. Charged \in Nat /\ Charged' = Charged - Dues[k] + Dues'[k]
    BY <1>2, ChargedMoves DEF IInv, Balances
  <2> QED BY <1>4, <1>5, <2>1
<1>7. Reviewers' BY <1>1 DEF Balances, Reviewers
<1>8. Finite'
  <2>1. {l \in Leaves : leave'[l].status # "none"} \subseteq {l \in Leaves : leave[l].status # "none"} \cup {k}
    BY <1>2
  <2>2. IsFiniteSet({l \in Leaves : leave[l].status # "none"} \cup {k})
    BY FS_AddElement DEF Balances, Finite
  <2>3. IsFiniteSet({l \in Leaves : leave'[l].status # "none"}) BY <2>1, <2>2, FS_Subset
  <2> QED BY <1>1, <2>3 DEF Balances, Finite
<1>9. ReviewsChargeOnce'
  <2> SUFFICES ASSUME NEW l \in Leaves, leave'[l].status # "CANCELLED"
               PROVE  posted'[l] + Owed(l)' = Dues'[l]
    BY DEF ReviewsChargeOnce, Dues
  <2>1. Owed(l)' = Owed(l) BY <1>1 DEF Owed, Owing
  <2>2. leave[l].status # "CANCELLED" BY <1>1, <1>2
  <2>3. posted[l] + Owed(l) = Dues[l] BY <2>2 DEF Balances, ReviewsChargeOnce, Dues
  <2> QED BY <1>1, <1>4, <2>1, <2>3
<1>10. calm' => CalmNow'
  <2> SUFFICES ASSUME CalmNow PROVE CalmNow' BY <1>1 DEF Balances
  <2>1. ASSUME NEW h \in Handlers, task'[h].do \in AboutLeave PROVE Settled(task[h])'
    <3>1. Settled(task[h]) /\ task'[h] = task[h] BY <1>1, <2>1 DEF CalmNow
    <3>2. task[h].do \in {"review", "cancel"} => leave'[task[h].item] = leave[task[h].item]
      <4> SUFFICES ASSUME task[h].do \in {"review", "cancel"} PROVE leave'[task[h].item] = leave[task[h].item]
        OBVIOUS
      <4>1. task[h].item \in Leaves BY DEF IInv, Typed, Sound, AboutLeave
      <4>2. leave[task[h].item].status # "none" BY <3>1 DEF Settled, Balances, Reviewers
      <4> QED BY <1>1, <1>2, <4>1, <4>2
    <3> QED BY <1>1, <1>6, <3>1, <3>2 DEF Settled
  <2>2. (\A h \in Handlers : task'[h].do \notin Charging) => used' = Charged'
    BY <1>1, <1>6 DEF CalmNow
  <2> QED BY <2>1, <2>2 DEF CalmNow
<1> QED BY <1>1, <1>7, <1>8, <1>9, <1>10 DEF Balances

\* Steps on rows and on corrections, in a handler that goes from one such step to another.
Aside == {"idle", "punch", "punchin", "punchout", "mark", "prepare", "auto", "ask", "check",
          "create", "correct", "prepareleave", "leaverow", "clear", "delete"}

LEMMA MovesAside ==
    ASSUME IInv, NEW h \in Handlers, NEW t, t.do \in Aside, Goto(h, t)
    PROVE  task'[h].do \notin AboutLeave /\ \A g \in Handlers : g # h => task'[g] = task[g]
BY DEF Goto, IInv, Typed, Aside, AboutLeave

GoesAside(h) == task[h].do \in Aside /\ \E t : t.do \in Aside /\ Goto(h, t)

LEMMA IdleAside == Idle.do \in Aside
BY DEF Idle, Aside

LEMMA RowsBalance ==
    ASSUME IInv, IInv', Balances, NEW h \in Handlers,
           \/ WriteDay(h) \/ DeletePlaceholder(h) \/ LeaveEnd(h)
           \/ \E d \in Days : ReadDay(h, d) \/ FindPlaceholder(h, d)
    PROVE  Balances'
<1>1. task[h] \in TaskRec BY DEF IInv, Typed
<1>2. calm' => calm BY DEF WriteDay, DeletePlaceholder, LeaveEnd, ReadDay, FindPlaceholder, Alone
<1>3. UNCHANGED <<leave, used, posted>>
  BY DEF WriteDay, DeletePlaceholder, LeaveEnd, ReadDay, FindPlaceholder
<1>4. task[h].do \notin AboutLeave
  BY DEF WriteDay, DeletePlaceholder, LeaveEnd, ReadDay, FindPlaceholder, AboutLeave
<1>5. \E t : t.do \in Aside /\ Goto(h, t)
  <2>1. CASE Done(h) BY <2>1, IdleAside DEF Done
  <2>2. CASE WriteDay(h)
    <3> DEFINE t == [task[h] EXCEPT !.do = "prepareleave", !.day = NoDay, !.row = NoRow]
    <3>1. t.do \in Aside BY <1>1 DEF TaskRec, Aside
    <3>2. Goto(h, t) \/ Done(h) BY <2>2 DEF WriteDay
    <3> HIDE DEF t
    <3> QED BY <2>1, <3>1, <3>2
  <2>3. CASE DeletePlaceholder(h)
    <3> DEFINE t == [task[h] EXCEPT !.do = "clear", !.row = NoRow]
    <3>1. t.do \in Aside BY <1>1 DEF TaskRec, Aside
    <3>2. Goto(h, t) \/ Done(h) BY <2>3 DEF DeletePlaceholder
    <3> HIDE DEF t
    <3> QED BY <2>1, <3>1, <3>2
  <2>4. ASSUME NEW d \in Days, ReadDay(h, d) PROVE \E t : t.do \in Aside /\ Goto(h, t)
    <3>1. PICK r \in Found(d) :
             Goto(h, [task[h] EXCEPT !.do = "leaverow", !.day = d, !.row = r, !.todo = @ \ {d}])
      BY <2>4 DEF ReadDay
    <3> DEFINE t == [task[h] EXCEPT !.do = "leaverow", !.day = d, !.row = r, !.todo = @ \ {d}]
    <3>2. t.do \in Aside BY <1>1 DEF TaskRec, Aside
    <3>3. Goto(h, t) BY <3>1
    <3> HIDE DEF t
    <3> QED BY <3>2, <3>3
  <2>5. ASSUME NEW d \in Days, FindPlaceholder(h, d) PROVE \E t : t.do \in Aside /\ Goto(h, t)
    <3>1. task[h].do = "clear" BY <2>5 DEF FindPlaceholder
    <3>2. CASE \E r \in Rows : Goto(h, [task[h] EXCEPT !.do = "delete", !.row = r, !.todo = @ \ {d}])
      <4>1. PICK r \in Rows : Goto(h, [task[h] EXCEPT !.do = "delete", !.row = r, !.todo = @ \ {d}])
        BY <3>2
      <4> DEFINE t == [task[h] EXCEPT !.do = "delete", !.row = r, !.todo = @ \ {d}]
      <4>2. t.do \in Aside BY <1>1 DEF TaskRec, Aside
      <4>3. Goto(h, t) BY <4>1
      <4> HIDE DEF t
      <4> QED BY <4>2, <4>3
    <3>3. CASE Goto(h, [task[h] EXCEPT !.todo = @ \ {d}])
      <4> DEFINE t == [task[h] EXCEPT !.todo = @ \ {d}]
      <4>1. t.do \in Aside BY <1>1, <3>1 DEF TaskRec, Aside
      <4>2. Goto(h, t) BY <3>3
      <4> HIDE DEF t
      <4> QED BY <4>1, <4>2
    <3> QED BY <2>5, <3>2, <3>3 DEF FindPlaceholder, RowsOf
  <2> QED BY <2>1, <2>2, <2>3, <2>4, <2>5 DEF LeaveEnd
<1>6. task'[h].do \notin AboutLeave /\ \A g \in Handlers : g # h => task'[g] = task[g]
  BY <1>5, MovesAside
<1> QED BY <1>2, <1>3, <1>4, <1>6, BalanceAside

LEMMA PunchingBalance ==
    ASSUME IInv, IInv', Balances, NEW h \in Handlers, Punching(h), UNCHANGED attendanceVars
    PROVE  Balances'
<1>1. UNCHANGED <<leave, used, posted>> /\ (calm' => calm)
  BY DEF attendanceVars, Punching, PunchInRead, PunchInWrite, PunchOutWrite, MarkWrite, PrepareWrite,
     AutoEnd, PunchIn, PunchOut, Prepare, AutoFind, Mark, AutoClose
<1>2. task[h] \in TaskRec /\ Idle \in TaskRec /\ Idle.do \in Aside
  BY IdleAside, IdleSound DEF IInv, Typed
<1>3. GoesAside(h)
  <2>1. ASSUME task[h].do \in Aside, Done(h) PROVE GoesAside(h)
    BY <1>2, <2>1 DEF Done, GoesAside
  <2>2. CASE PunchInRead(h)
    <3>1. task[h].do = "punch" /\ task[h].do \in Aside BY <2>2 DEF PunchInRead, Aside
    <3>2. CASE \E r \in Found(task[h].day) : Goto(h, [task[h] EXCEPT !.do = "punchin", !.row = r])
      <4>1. PICK r \in Found(task[h].day) : Goto(h, [task[h] EXCEPT !.do = "punchin", !.row = r]) BY <3>2
      <4> DEFINE t == [task[h] EXCEPT !.do = "punchin", !.row = r]
      <4>2. t.do \in Aside BY <1>2 DEF TaskRec, Aside
      <4>3. Goto(h, t) BY <4>1
      <4> HIDE DEF t
      <4> QED BY <3>1, <4>2, <4>3 DEF GoesAside
    <3> QED BY <2>1, <2>2, <3>1, <3>2 DEF PunchInRead, GoesAside
  <2>3. CASE PunchInWrite(h) \/ PunchOutWrite(h) \/ MarkWrite(h) \/ PrepareWrite(h) \/ AutoEnd(h)
    <3>1. task[h].do \in Aside /\ Done(h)
      BY <2>3 DEF PunchInWrite, PunchOutWrite, MarkWrite, PrepareWrite, AutoEnd, Aside
    <3> QED BY <2>1, <3>1 DEF GoesAside
  <2>4. ASSUME NEW d \in Days, PunchIn(h, d) PROVE GoesAside(h)
    <3> DEFINE t == [Idle EXCEPT !.do = "punch", !.day = d]
    <3>1. t.do \in Aside BY <1>2 DEF TaskRec, Aside
    <3>2. Goto(h, t) /\ task[h].do \in Aside BY <1>2, <2>4 DEF PunchIn
    <3> HIDE DEF t
    <3> QED BY <3>1, <3>2 DEF GoesAside
  <2>5. ASSUME NEW d \in Days, PunchOut(h, d) PROVE GoesAside(h)
    <3>1. PICK r \in RowsOf(d) : Goto(h, [Idle EXCEPT !.do = "punchout", !.day = d, !.row = r])
      BY <2>5 DEF PunchOut
    <3> DEFINE t == [Idle EXCEPT !.do = "punchout", !.day = d, !.row = r]
    <3>2. t.do \in Aside BY <1>2 DEF TaskRec, Aside
    <3>3. Goto(h, t) /\ task[h].do \in Aside BY <1>2, <2>5, <3>1 DEF PunchOut
    <3> HIDE DEF t
    <3> QED BY <3>2, <3>3 DEF GoesAside
  <2>6. ASSUME NEW d \in Days, Prepare(h, d) PROVE GoesAside(h)
    <3> DEFINE t == [Idle EXCEPT !.do = "prepare", !.day = d]
    <3>1. t.do \in Aside BY <1>2 DEF TaskRec, Aside
    <3>2. Goto(h, t) /\ task[h].do \in Aside BY <1>2, <2>6 DEF Prepare
    <3> HIDE DEF t
    <3> QED BY <3>1, <3>2 DEF GoesAside
  <2>7. ASSUME NEW d \in Days, AutoFind(h, d) PROVE GoesAside(h)
    <3> DEFINE t == [Idle EXCEPT !.do = "auto", !.day = d,
                                 !.rows = {r \in RowsOf(d) : row[r].in /\ row[r].out = "none"}]
    <3>1. t.do \in Aside BY <1>2 DEF TaskRec, Aside
    <3>2. Goto(h, t) /\ task[h].do \in Aside BY <1>2, <2>7 DEF AutoFind
    <3> HIDE DEF t
    <3> QED BY <3>1, <3>2 DEF GoesAside
  <2>8. ASSUME NEW d \in Days, NEW type \in {"in", "out"}, Mark(h, d, type) PROVE GoesAside(h)
    <3>1. PICK r \in Found(d) : Goto(h, [Idle EXCEPT !.do = "mark", !.day = d, !.row = r, !.to = type])
      BY <2>8 DEF Mark
    <3> DEFINE t == [Idle EXCEPT !.do = "mark", !.day = d, !.row = r, !.to = type]
    <3>2. t.do \in Aside BY <1>2 DEF TaskRec, Aside
    <3>3. Goto(h, t) /\ task[h].do \in Aside BY <1>2, <2>8, <3>1 DEF Mark
    <3> HIDE DEF t
    <3> QED BY <3>2, <3>3 DEF GoesAside
  <2>9. ASSUME NEW r \in task[h].rows, AutoClose(h, r) PROVE GoesAside(h)
    <3> DEFINE t == [task[h] EXCEPT !.rows = @ \ {r}]
    <3>1. task[h].do \in Aside BY <2>9 DEF AutoClose, Aside
    <3>2. t.do \in Aside BY <1>2, <3>1 DEF TaskRec
    <3>3. Goto(h, t) BY <2>9 DEF AutoClose
    <3> HIDE DEF t
    <3> QED BY <3>1, <3>2, <3>3 DEF GoesAside
  <2> QED BY <2>2, <2>3, <2>4, <2>5, <2>6, <2>7, <2>8, <2>9 DEF Punching
<1>4. task[h].do \notin AboutLeave BY <1>3 DEF GoesAside, Aside, AboutLeave
<1>5. task'[h].do \notin AboutLeave /\ \A g \in Handlers : g # h => task'[g] = task[g]
  BY <1>3, MovesAside DEF GoesAside
<1> QED BY <1>1, <1>4, <1>5, BalanceAside

LEMMA CorrectingBalance ==
    ASSUME IInv, IInv', Balances, NEW h \in Handlers, Correcting(h), UNCHANGED attendanceVars
    PROVE  Balances'
<1>1. UNCHANGED <<leave, used, posted>> /\ (calm' => calm)
  BY DEF attendanceVars, Correcting, LockDay, CheckPending, ApproveCorrection, RejectCorrection,
     AskCorrection, CreateCorrection, ReadCorrection
<1>2. task[h] \in TaskRec /\ Idle \in TaskRec /\ Idle.do \in Aside
  BY IdleAside, IdleSound DEF IInv, Typed
<1>3. GoesAside(h)
  <2>1. ASSUME task[h].do \in Aside, Done(h) PROVE GoesAside(h)
    BY <1>2, <2>1 DEF Done, GoesAside
  <2>2. CASE LockDay(h)
    <3> DEFINE t == [task[h] EXCEPT !.do = "check"]
    <3>1. t.do \in Aside BY <1>2 DEF TaskRec, Aside
    <3>2. Goto(h, t) /\ task[h].do \in Aside BY <2>2 DEF LockDay, Aside
    <3> HIDE DEF t
    <3> QED BY <3>1, <3>2 DEF GoesAside
  <2>3. CASE CheckPending(h)
    <3> DEFINE t == [task[h] EXCEPT !.do = "create"]
    <3>1. t.do \in Aside BY <1>2 DEF TaskRec, Aside
    <3>2. (Goto(h, t) \/ Done(h)) /\ task[h].do \in Aside BY <2>3 DEF CheckPending, Aside
    <3> HIDE DEF t
    <3> QED BY <2>1, <3>1, <3>2 DEF GoesAside
  <2>4. CASE ApproveCorrection(h) \/ RejectCorrection(h) \/ \E c \in Corrections : CreateCorrection(h, c)
    <3>1. task[h].do \in Aside /\ Done(h)
      BY <2>4 DEF ApproveCorrection, RejectCorrection, CreateCorrection, Aside
    <3> QED BY <2>1, <3>1 DEF GoesAside
  <2>5. ASSUME NEW d \in Days, AskCorrection(h, d) PROVE GoesAside(h)
    <3> DEFINE t == [Idle EXCEPT !.do = "ask", !.day = d]
    <3>1. t.do \in Aside BY <1>2 DEF TaskRec, Aside
    <3>2. Goto(h, t) /\ task[h].do \in Aside BY <1>2, <2>5 DEF AskCorrection
    <3> HIDE DEF t
    <3> QED BY <3>1, <3>2 DEF GoesAside
  <2>6. ASSUME NEW c \in Corrections, ReadCorrection(h, c) PROVE GoesAside(h)
    <3> DEFINE t == [Idle EXCEPT !.do = "correct", !.item = c]
    <3>1. t.do \in Aside BY <1>2 DEF TaskRec, Aside
    <3>2. Goto(h, t) /\ task[h].do \in Aside BY <1>2, <2>6 DEF ReadCorrection
    <3> HIDE DEF t
    <3> QED BY <3>1, <3>2 DEF GoesAside
  <2> QED BY <2>2, <2>3, <2>4, <2>5, <2>6 DEF Correcting
<1>4. task[h].do \notin AboutLeave BY <1>3 DEF GoesAside, Aside, AboutLeave
<1>5. task'[h].do \notin AboutLeave /\ \A g \in Handlers : g # h => task'[g] = task[g]
  BY <1>3, MovesAside DEF GoesAside
<1> QED BY <1>1, <1>4, <1>5, BalanceAside

LEMMA BalanceStep == ASSUME IInv, IInv', Balances, PeopleNext PROVE Balances'
<1>1. CASE Applying
  <2>1. PICK l \in Leaves, days \in SUBSET Days, off \in BOOLEAN : Apply(l, days, off)
    BY <1>1 DEF Applying
  <2> QED BY <2>1, ApplyBalance
<1>2. ASSUME NEW h \in Handlers, Leaving(h) PROVE Balances'
  <2>1. ASSUME NEW l \in Leaves,
               \/ ReadForCancel(h, l)
               \/ \E to \in {"APPROVED", "REJECTED"} : ReadLeave(h, l, to) \/ AdminReview(h, l, to)
        PROVE  Balances'
    BY <2>1, ReadForCancelBalance, ReadLeaveBalance, AdminReviewBalance
  <2>2. CASE \/ WriteDay(h) \/ DeletePlaceholder(h) \/ LeaveEnd(h)
             \/ \E d \in Days : ReadDay(h, d) \/ FindPlaceholder(h, d)
    BY <2>2, RowsBalance
  <2> QED BY <1>2, <2>1, <2>2, ClaimBalance, ReadBalanceBalance, PostBalanceBalance, CancelBalance DEF Leaving
<1>3. ASSUME NEW h \in Handlers, Punching(h) \/ Correcting(h), UNCHANGED attendanceVars PROVE Balances'
  BY <1>3, PunchingBalance, CorrectingBalance
<1> QED BY <1>1, <1>2, <1>3 DEF PeopleNext

LEMMA BalanceStutter == ASSUME Balances, UNCHANGED peopleVars PROVE Balances'
<1>1. UNCHANGED <<leave, task, used, posted, calm>> BY DEF peopleVars
<1>2. Charged' = Charged BY <1>1, LeaveSame
<1>3. \A l : Owed(l)' = Owed(l) /\ Charge(l)' = Charge(l) BY <1>1 DEF Owed, Owing, Charge
<1>4. ReviewsChargeOnce' BY <1>1, <1>3 DEF Balances, ReviewsChargeOnce
<1>5. CalmNow => CalmNow' BY <1>1, <1>2 DEF CalmNow, Settled
<1>6. Reviewers' /\ Finite' BY <1>1 DEF Balances, Reviewers, Finite
<1> QED BY <1>1, <1>4, <1>5, <1>6 DEF Balances

LEMMA BalanceInitially == PeopleInit => Balances
<1> SUFFICES ASSUME PeopleInit PROVE Balances OBVIOUS
<1>1. /\ \A h \in Handlers : task[h].do = "idle"
      /\ \A l \in Leaves : leave[l].status = "none" /\ posted[l] = 0
      /\ used = 0 /\ posted \in [Leaves -> Int]
  BY DEF PeopleInit, Idle
<1>2. Finite
  <2>1. {h \in Handlers : task[h].do \in Charging} = {} /\ {l \in Leaves : leave[l].status # "none"} = {}
    BY <1>1 DEF Charging
  <2> QED BY <2>1, FS_EmptySet DEF Finite
<1>3. ReviewsChargeOnce
  <2> SUFFICES ASSUME NEW l \in Leaves PROVE posted[l] + Owed(l) = 0
    BY <1>1 DEF ReviewsChargeOnce
  <2>1. Owing(l) = {} BY <1>1 DEF Owing
  <2>2. PICK f : f = [h \in Owing(l) |-> task[h].delta] OBVIOUS
  <2>3. DOMAIN f = {} BY <2>1, <2>2
  <2>4. SumFunction(f) = 0 BY <2>3, SumOfNone DEF SumFunction
  <2> QED BY <1>1, <2>2, <2>4 DEF Owed
<1>4. used = Charged
  <2>1. Approved = {} BY <1>1 DEF Approved
  <2>2. PICK f : f = [l \in Approved |-> Charge(l)] OBVIOUS
  <2>3. DOMAIN f = {} BY <2>1, <2>2
  <2>4. SumFunction(f) = 0 BY <2>3, SumOfNone DEF SumFunction
  <2> QED BY <1>1, <2>2, <2>4 DEF Charged
<1>5. CalmNow /\ Reviewers BY <1>1, <1>4 DEF CalmNow, Reviewers, AboutLeave
<1> QED BY <1>1, <1>2, <1>3, <1>5 DEF Balances

THEOREM BalanceInvariant == PeopleSpec => []Balances
<1>1. IInv /\ IInv' /\ Balances /\ [PeopleNext]_peopleVars => Balances'
  BY BalanceStep, BalanceStutter
<1> QED BY <1>1, BalanceInitially, PeopleInvariant, PTL DEF PeopleSpec

\* However reviews overlap, are retried or fall behind, what they charge for a leave
\* nobody cancels is its days if it is approved and nothing otherwise.
THEOREM ReviewsCharge == PeopleSpec => []ReviewsChargeOnce
<1>1. Balances => ReviewsChargeOnce BY DEF Balances
<1> QED BY <1>1, BalanceInvariant, PTL

\* If no two handlers ever overlapped, an employee nobody works on has used the
\* days of the approved leaves.
THEOREM CalmBalances == PeopleSpec => []CalmBalance
<1>1. Balances => CalmBalance
  <2> SUFFICES ASSUME Balances, calm, \A h \in Handlers : task[h] = Idle PROVE used = Charged
    BY DEF CalmBalance, Charged
  <2>1. \A h \in Handlers : task[h].do \notin Charging BY DEF Idle, Charging
  <2> QED BY <2>1 DEF Balances, CalmNow
<1> QED BY <1>1, BalanceInvariant, PTL

-----------------------------------------------------------------------------
(* The salary of a month *)

Tallies == [Buckets -> Nat]
MonthRec == [length : Nat, joining : Nat, today : Nat, salary : Nat, reward : BOOLEAN]

SalaryTyped ==
    /\ month \in MonthRec /\ date \in Nat
    /\ counted \in Tallies /\ sheet \in Tallies /\ better \in Tallies
    /\ attended \in BOOLEAN /\ parted \in BOOLEAN
    /\ counted["paid"] <= LeaveLimit

\* Dates without pay on which the two loops may differ: only their number is the same.
Unpaying(c) == c["before"] + c["absent"] + c["remaining"]

Alike ==
    ~parted =>
        /\ \A b \in Buckets \ {"before", "absent", "remaining"} : sheet[b] = counted[b]
        /\ Unpaying(sheet) = Unpaying(counted)

SheetInv == SalaryTyped /\ Alike

\* A date adds one to its bucket.
LEMMA PlusType ==
    ASSUME NEW c \in Tallies, NEW b \in Buckets
    PROVE  /\ Plus(c, b) \in Tallies
           /\ \A x \in Buckets : Plus(c, b)[x] = IF x = b THEN c[b] + 1 ELSE c[x]
BY DEF Tallies, Plus

\* No date is a paid leave beyond the limit.
LEMMA BucketType ==
    ASSUME NEW d, NEW rec, NEW evidence, NEW missed, NEW paid
    PROVE  /\ BucketOf(d, rec, evidence, missed, paid) \in Buckets
           /\ BucketOf(d, rec, evidence, missed, paid) = "paid" => ~(paid >= LeaveLimit)
BY DEF BucketOf, Buckets

\* Where nothing parts the two, a date falls into one bucket, or into two that are not paid.
LEMMA SameDate ==
    ASSUME NEW d, ~Parted(d), SalaryTyped, sheet["paid"] = counted["paid"]
    PROVE  \/ DateWise(d, sheet) = Classified(d, counted)
           \/ /\ DateWise(d, sheet) \in {"before", "absent", "remaining"}
              /\ Classified(d, counted) \in {"before", "absent", "remaining"}
BY DEF Parted, DateWise, Classified, BucketOf, Evident, LeaveStatus, IsPresent

\* A date counted by both loops keeps them alike.
LEMMA DateKeepsAlike ==
    ASSUME NEW d, CountDate(d), SheetInv
    PROVE  SheetInv'
<1>1. /\ Classified(d, counted) \in Buckets
      /\ Classified(d, counted) = "paid" => ~(counted["paid"] >= LeaveLimit)
      /\ Classified(d, better) \in Buckets
      /\ Classified([d EXCEPT !.rows = <<Present>>], better) \in Buckets
      /\ DateWise(d, sheet) \in Buckets
  BY BucketType DEF Classified, DateWise
<1>2. /\ counted' = Plus(counted, Classified(d, counted))
      /\ sheet' = Plus(sheet, DateWise(d, sheet))
      /\ \/ better' = Plus(better, Classified(d, better))
         \/ better' = Plus(better, Classified([d EXCEPT !.rows = <<Present>>], better))
      /\ date' = date + 1 /\ month' = month
      /\ parted' = (parted \/ Parted(d))
      /\ attended' = attended \/ attended' = TRUE
  BY DEF CountDate
<1>3. counted \in Tallies /\ sheet \in Tallies /\ better \in Tallies
  BY DEF SheetInv, SalaryTyped
<1>4. counted' \in Tallies /\ sheet' \in Tallies /\ better' \in Tallies
  BY <1>1, <1>2, <1>3, PlusType
<1>9. \A x \in Buckets :
        /\ counted'[x] = IF x = Classified(d, counted) THEN counted[x] + 1 ELSE counted[x]
        /\ sheet'[x] = IF x = DateWise(d, sheet) THEN sheet[x] + 1 ELSE sheet[x]
  <2> DEFINE p == Classified(d, counted) s == DateWise(d, sheet)
  <2>1. \A x \in Buckets : Plus(counted, p)[x] = IF x = p THEN counted[p] + 1 ELSE counted[x]
    <3> p \in Buckets BY <1>1
    <3> HIDE DEF p
    <3> QED BY <1>3, PlusType
  <2>2. \A x \in Buckets : Plus(sheet, s)[x] = IF x = s THEN sheet[s] + 1 ELSE sheet[x]
    <3> s \in Buckets BY <1>1
    <3> HIDE DEF s
    <3> QED BY <1>3, PlusType
  <2> QED BY <1>2, <2>1, <2>2
<1>5. counted'["paid"] <= LeaveLimit
  <2>1. "paid" \in Buckets BY DEF Buckets
  <2>2. counted'["paid"] = IF Classified(d, counted) = "paid" THEN counted["paid"] + 1 ELSE counted["paid"]
    BY <1>9, <2>1
  <2> QED BY <1>1, <1>3, <2>1, <2>2, SalaryAssumption DEF SheetInv, SalaryTyped, Tallies
<1>6. SalaryTyped'
  <2>1. parted' \in BOOLEAN BY <1>2, Zenon DEF SheetInv, SalaryTyped
  <2>2. attended' \in BOOLEAN BY <1>2 DEF SheetInv, SalaryTyped
  <2> QED BY <1>2, <1>4, <1>5, <2>1, <2>2 DEF SheetInv, SalaryTyped
<1>7. Alike'
  <2> SUFFICES ASSUME ~parted'
               PROVE  /\ \A b \in Buckets \ {"before", "absent", "remaining"} : sheet'[b] = counted'[b]
                      /\ Unpaying(sheet)' = Unpaying(counted)'
    BY DEF Alike
  <2>1. ~parted /\ ~Parted(d) BY <1>2
  <2>2. /\ \A b \in Buckets \ {"before", "absent", "remaining"} : sheet[b] = counted[b]
        /\ Unpaying(sheet) = Unpaying(counted)
    BY <2>1 DEF SheetInv, Alike
  <2>3. sheet["paid"] = counted["paid"] BY <2>2 DEF Buckets
  <2>4. \/ DateWise(d, sheet) = Classified(d, counted)
        \/ /\ DateWise(d, sheet) \in {"before", "absent", "remaining"}
           /\ Classified(d, counted) \in {"before", "absent", "remaining"}
    BY <2>1, <2>3, SameDate DEF SheetInv
  <2>6. \A b \in Buckets \ {"before", "absent", "remaining"} : sheet'[b] = counted'[b]
    BY <1>9, <2>2, <2>4
  <2>7. Unpaying(sheet)' = Unpaying(counted)'
    BY <1>3, <1>9, <2>2, <2>4 DEF Unpaying, Tallies, Buckets
  <2> QED BY <2>6, <2>7
<1> QED BY <1>6, <1>7 DEF SheetInv

\* So does the start of the calculation, which counts nothing.
LEMMA StartKeepsAlike ==
    ASSUME Starting, SheetInv
    PROVE  SheetInv'
BY SalaryAssumption DEF Starting, Calculate, SheetInv, SalaryTyped, Alike, Unpaying, MonthRec

\* The two loops stay alike from the first date to the last.
THEOREM SheetInvariant == SalarySpec => []SheetInv
<1>1. SalaryInit => SheetInv
  <2>1. NoDays \in Tallies /\ \A b \in Buckets : NoDays[b] = 0 BY DEF NoDays, Tallies
  <2>2. NoMonth \in MonthRec BY DEF NoMonth, MonthRec
  <2>3. "paid" \in Buckets BY DEF Buckets
  <2> SUFFICES ASSUME SalaryInit PROVE SheetInv OBVIOUS
  <2>4. SalaryTyped
    <3>1. NoDays["paid"] <= LeaveLimit BY <2>1, <2>3, SalaryAssumption
    <3> QED BY <2>1, <2>2, <3>1 DEF SalaryInit, SalaryTyped
  <2>5. Alike BY <2>1 DEF SalaryInit, Alike, Unpaying
  <2> QED BY <2>4, <2>5 DEF SheetInv
<1>2. SheetInv /\ [SalaryNext]_salaryVars => SheetInv'
  <2>1. CASE UNCHANGED salaryVars
    BY <2>1 DEF salaryVars, SheetInv, SalaryTyped, Alike, Unpaying
  <2> QED BY <2>1, DateKeepsAlike, StartKeepsAlike DEF SalaryNext
<1> QED BY <1>1, <1>2, PTL DEF SalarySpec

\* Natural numbers of one sum are all zero together.
LEMMA SameSumZero ==
    ASSUME NEW a \in Nat, NEW b \in Nat, NEW c \in Nat, NEW x \in Nat, NEW y \in Nat, NEW z \in Nat,
           a + b + c = x + y + z
    PROVE  (a = 0 /\ b = 0 /\ c = 0) <=> (x = 0 /\ y = 0 /\ z = 0)
<1>1. (a = 0 /\ b = 0 /\ c = 0) => (x = 0 /\ y = 0 /\ z = 0) OBVIOUS
<1>2. (x = 0 /\ y = 0 /\ z = 0) => (a = 0 /\ b = 0 /\ c = 0) OBVIOUS
<1> QED BY <1>1, <1>2

\* The sheet comes to the days payroll pays, whatever the month holds.
THEOREM SheetsReconcile == SalarySpec => []SheetReconciles
<1>1. SheetInv => SheetReconciles
  <2> SUFFICES ASSUME SheetInv, ~parted PROVE SheetPayable(sheet) = Payable(counted)
    BY DEF SheetReconciles
  <2>1. counted \in Tallies /\ sheet \in Tallies /\ counted["paid"] <= LeaveLimit
    BY DEF SheetInv, SalaryTyped
  <2>2. \A b \in Buckets : counted[b] \in Nat /\ sheet[b] \in Nat BY <2>1 DEF Tallies
  <2>3. /\ sheet["present"] = counted["present"] /\ sheet["paid"] = counted["paid"]
        /\ sheet["holiday"] = counted["holiday"] /\ sheet["off"] = counted["off"]
        /\ sheet["holidayWorked"] = counted["holidayWorked"]
        /\ sheet["offWorked"] = counted["offWorked"]
        /\ sheet["half"] = counted["half"] /\ sheet["unpaid"] = counted["unpaid"]
        /\ Unpaying(sheet) = Unpaying(counted)
    BY DEF SheetInv, Alike, Buckets
  <2>4. Credited(counted, Least(LeaveLimit, counted["paid"])) = Credited(sheet, sheet["paid"])
    BY <2>1, <2>2, <2>3, SalaryAssumption DEF Credited, Least, Buckets
  <2>5. UnpaidLeave(counted) = counted["unpaid"]
    BY <2>1, <2>2, SalaryAssumption DEF UnpaidLeave, Most, Buckets
  <2>6. (UnpaidLeave(counted) = 0 /\ \A b \in Gaps : counted[b] = 0)
          <=> (\A b \in Gaps \cup {"unpaid"} : sheet[b] = 0)
    <3>1. (\A b \in Gaps : counted[b] = 0) <=>
            counted["half"] = 0 /\ counted["before"] = 0 /\ counted["absent"] = 0 /\ counted["remaining"] = 0
      BY DEF Gaps
    <3>2. (\A b \in Gaps \cup {"unpaid"} : sheet[b] = 0) <=>
            /\ sheet["half"] = 0 /\ sheet["before"] = 0 /\ sheet["absent"] = 0 /\ sheet["remaining"] = 0
            /\ sheet["unpaid"] = 0
      BY DEF Gaps
    <3>3. (counted["before"] = 0 /\ counted["absent"] = 0 /\ counted["remaining"] = 0) <=>
            (sheet["before"] = 0 /\ sheet["absent"] = 0 /\ sheet["remaining"] = 0)
      <4>1. /\ counted["before"] \in Nat /\ counted["absent"] \in Nat /\ counted["remaining"] \in Nat
            /\ sheet["before"] \in Nat /\ sheet["absent"] \in Nat /\ sheet["remaining"] \in Nat
        BY <2>2 DEF Buckets
      <4>2. counted["before"] + counted["absent"] + counted["remaining"] =
              sheet["before"] + sheet["absent"] + sheet["remaining"]
        BY <2>3 DEF Unpaying
      <4> DEFINE p == counted["before"] q == counted["absent"] r == counted["remaining"]
                 s == sheet["before"] t == sheet["absent"] u == sheet["remaining"]
      <4>3. p \in Nat /\ q \in Nat /\ r \in Nat /\ s \in Nat /\ t \in Nat /\ u \in Nat BY <4>1
      <4>4. p + q + r = s + t + u BY <4>2
      <4> HIDE DEF p, q, r, s, t, u
      <4>5. (p = 0 /\ q = 0 /\ r = 0) <=> (s = 0 /\ t = 0 /\ u = 0) BY <4>3, <4>4, SameSumZero
      <4> QED BY <4>5 DEF p, q, r, s, t, u
    <3> QED BY <2>3, <2>5, <3>1, <3>2, <3>3
  <2> QED BY <2>4, <2>6 DEF SheetPayable, Payable, PayableOf
<1> QED BY <1>1, SheetInvariant, PTL

-----------------------------------------------------------------------------
(* One more date attended *)

Worked(c) == c["holidayWorked"] + c["offWorked"]

\* What one more date attended changes: it moves a date to one paid no less, and may
\* leave a paid leave for a later date.
Ahead ==
    /\ ~attended => better = counted
    /\ better["paid"] <= counted["paid"] /\ counted["paid"] <= better["paid"] + 1
    /\ better["present"] >= counted["present"]
    /\ Worked(better) >= Worked(counted)
    /\ better["unpaid"] <= counted["unpaid"]
    /\ \A b \in Gaps : better[b] <= counted[b]
    /\ Credited(better, better["paid"]) >= Credited(counted, counted["paid"])

PayInv == SheetInv /\ Ahead

\* The buckets p of a date for the employee and q for the one who is ahead.
Pair(p, q) ==
    \/ q = p
    \/ p = "unpaid" /\ q = "paid" /\ better["paid"] < counted["paid"]
    \/ /\ better = counted
       /\ \/ q = "present" /\ p \in {"before", "half", "present", "paid", "unpaid", "absent", "remaining"}
          \/ q = "holidayWorked" /\ p \in {"before", "holiday", "holidayWorked"}
          \/ q = "offWorked" /\ p \in {"before", "off", "offWorked"}

\* A date with the same row: the same bucket, or a leave only one of them is paid for.
LEMMA SamePair ==
    ASSUME NEW d, SheetInv, Ahead
    PROVE  Pair(Classified(d, counted), Classified(d, better))
<1>1. "paid" \in Buckets BY DEF Buckets
<1>2. better["paid"] \in Nat /\ counted["paid"] \in Nat
  BY <1>1 DEF SheetInv, SalaryTyped, Tallies
<1> DEFINE rec == Authoritative(d.rows)
           ev == Evident(d, rec) \/ (rec.status \in LeaveStatus /\ ~d.pending)
           ms == rec.status = "ABSENT" \/ Elapsed
<1>3. /\ Classified(d, counted) = BucketOf(d, rec, ev, ms, counted["paid"])
      /\ Classified(d, better) = BucketOf(d, rec, ev, ms, better["paid"])
  BY DEF Classified
<1> HIDE DEF rec, ev, ms
<1> QED BY <1>2, <1>3, SalaryAssumption DEF BucketOf, Pair, Ahead

\* The date attended in addition.
LEMMA AttendedPair ==
    ASSUME NEW d \in DatesWithin(2), SheetInv, Ahead, ~attended
    PROVE  Pair(Classified(d, counted), Classified([d EXCEPT !.rows = <<Present>>], better))
<1> DEFINE e == [d EXCEPT !.rows = <<Present>>]
<1>1. Authoritative(<<Present>>) = Present BY DEF Authoritative
<1>2. IsPresent(Present) /\ Present.status = "PRESENT" /\ Present.punched
  BY DEF IsPresent, Present
<1>3. e.kind = d.kind /\ e.rows = <<Present>> /\ d.kind \in {"working", "off", "holiday"}
  BY DEF DatesWithin
<1>4. Evident(e, Present) BY <1>2 DEF Evident
<1>5. Classified(e, better) = CASE d.kind = "holiday" -> "holidayWorked"
                                [] d.kind = "off" -> "offWorked"
                                [] d.kind = "working" -> "present"
  BY <1>1, <1>2, <1>3, <1>4 DEF Classified, BucketOf
<1>6. Classified(d, counted) \in
        CASE d.kind = "holiday" -> {"before", "holiday", "holidayWorked"}
          [] d.kind = "off" -> {"before", "off", "offWorked"}
          [] d.kind = "working" ->
               {"before", "half", "present", "paid", "unpaid", "absent", "remaining"}
  BY <1>3 DEF Classified, BucketOf
<1>7. better = counted BY DEF Ahead
<1> QED BY <1>3, <1>5, <1>6, <1>7 DEF Pair

\* Either way who is ahead stays ahead.
LEMMA AheadKept ==
    ASSUME NEW p \in Buckets, NEW q \in Buckets, Pair(p, q), SheetInv, Ahead,
           counted' = Plus(counted, p), better' = Plus(better, q),
           ~attended' => ~attended /\ q = p
    PROVE  Ahead'
<1>1. \A x \in Buckets : counted[x] \in Nat /\ better[x] \in Nat
  BY DEF SheetInv, SalaryTyped, Tallies
<1>2. \A x \in Buckets : counted'[x] = counted[x] + (IF x = p THEN 1 ELSE 0)
  <2>1. counted \in Tallies BY DEF SheetInv, SalaryTyped
  <2>2. \A x \in Buckets : Plus(counted, p)[x] = IF x = p THEN counted[p] + 1 ELSE counted[x]
    BY <2>1, PlusType
  <2> QED BY <1>1, <2>2
<1>3. \A x \in Buckets : better'[x] = better[x] + (IF x = q THEN 1 ELSE 0)
  <2>1. better \in Tallies BY DEF SheetInv, SalaryTyped
  <2>2. \A x \in Buckets : Plus(better, q)[x] = IF x = q THEN better[q] + 1 ELSE better[x]
    BY <2>1, PlusType
  <2> QED BY <1>1, <2>2
<1>4. ~attended' => better' = counted' BY DEF Ahead
<1>5. /\ better'["paid"] <= counted'["paid"] /\ counted'["paid"] <= better'["paid"] + 1
      /\ better'["present"] >= counted'["present"]
      /\ Worked(better)' >= Worked(counted)'
      /\ better'["unpaid"] <= counted'["unpaid"]
  BY <1>1, <1>2, <1>3 DEF Buckets, Pair, Ahead, Worked
<1>6. \A b \in Gaps : better'[b] <= counted'[b]
  BY <1>1, <1>2, <1>3 DEF Buckets, Gaps, Pair, Ahead
<1>7. Credited(better, better["paid"])' >= Credited(counted, counted["paid"])'
  <2> DEFINE w(b) == IF b \in {"present", "paid", "holiday", "off", "holidayWorked", "offWorked"}
                     THEN 2 ELSE IF b = "half" THEN 1 ELSE 0
  <2>1. Credited(counted, counted["paid"])' = Credited(counted, counted["paid"]) + w(p)
    BY <1>1, <1>2 DEF Buckets, Credited
  <2>2. Credited(better, better["paid"])' = Credited(better, better["paid"]) + w(q)
    BY <1>1, <1>3 DEF Buckets, Credited
  <2>3. w(q) >= w(p) BY DEF Pair
  <2>4. w(p) \in Nat /\ w(q) \in Nat OBVIOUS
  <2>5. Credited(counted, counted["paid"]) \in Nat /\ Credited(better, better["paid"]) \in Nat
    BY <1>1 DEF Buckets, Credited
  <2> HIDE DEF w
  <2> QED BY <2>1, <2>2, <2>3, <2>4, <2>5 DEF Ahead
<1> QED BY <1>4, <1>5, <1>6, <1>7 DEF Ahead

\* One more date attended never leaves the counts behind.
THEOREM PayInvariant == SalarySpec => []PayInv
<1>1. SalaryInit => Ahead
  <2> SUFFICES ASSUME SalaryInit PROVE Ahead OBVIOUS
  <2>1. \A b \in Buckets : NoDays[b] = 0 BY DEF NoDays
  <2>2. counted = NoDays /\ better = NoDays BY DEF SalaryInit
  <2>3. \A b \in Gaps : b \in Buckets BY DEF Gaps, Buckets
  <2>4. /\ better["paid"] = 0 /\ counted["paid"] = 0 /\ better["unpaid"] = 0 /\ counted["unpaid"] = 0
        /\ better["present"] = 0 /\ counted["present"] = 0
        /\ Worked(better) = 0 /\ Worked(counted) = 0
    BY <2>1, <2>2 DEF Buckets, Worked
  <2>5. Credited(counted, counted["paid"]) \in Int
    BY <2>1, <2>2 DEF Buckets, Credited
  <2> QED BY <2>1, <2>2, <2>3, <2>4, <2>5 DEF Ahead
<1>2. SheetInv /\ Ahead /\ [SalaryNext]_salaryVars => Ahead'
  <2> SUFFICES ASSUME SheetInv, Ahead, [SalaryNext]_salaryVars PROVE Ahead' OBVIOUS
  <2>1. CASE UNCHANGED salaryVars
    BY <2>1 DEF salaryVars, Ahead, Worked, Credited
  <2>2. CASE Starting
    BY <2>2 DEF Starting, Calculate, Ahead, Worked, Credited
  <2>3. ASSUME NEW d \in DatesWithin(2), CountDate(d) PROVE Ahead'
    <3> DEFINE p == Classified(d, counted)
    <3>1. counted' = Plus(counted, p) BY <2>3 DEF CountDate
    <3>2. p \in Buckets BY BucketType DEF Classified
    <3>3. CASE better' = Plus(better, Classified(d, better)) /\ UNCHANGED attended
      <4> DEFINE q == Classified(d, better)
      <4>1. Pair(p, q) BY SamePair
      <4>2. q \in Buckets BY BucketType DEF Classified
      <4>3. ~attended' => ~attended /\ q = p BY <3>3 DEF Ahead
      <4> HIDE DEF p, q
      <4>4. better' = Plus(better, q) BY <3>3 DEF q
      <4> QED BY <3>1, <3>2, <4>1, <4>2, <4>3, <4>4, AheadKept
    <3>4. CASE /\ ~attended /\ attended' = TRUE
               /\ better' = Plus(better, Classified([d EXCEPT !.rows = <<Present>>], better))
      <4> DEFINE q == Classified([d EXCEPT !.rows = <<Present>>], better)
      <4>1. Pair(p, q) BY <3>4, AttendedPair
      <4>2. q \in Buckets BY BucketType DEF Classified
      <4> HIDE DEF p, q
      <4>4. better' = Plus(better, q) BY <3>4 DEF q
      <4> QED BY <3>1, <3>2, <3>4, <4>1, <4>2, <4>4, AheadKept
    <3> QED BY <2>3, <3>3, <3>4 DEF CountDate
  <2> QED BY <2>1, <2>2, <2>3 DEF SalaryNext
<1> QED BY <1>1, <1>2, SheetInvariant, PTL DEF SalarySpec, PayInv

\* Rounding keeps the order, and whole numbers.
LEMMA RoundedGrows ==
    ASSUME NEW m \in Int, NEW n \in Int, m <= n
    PROVE  Rounded(m, 2) <= Rounded(n, 2) /\ Rounded(m, 2) \in Int /\ Rounded(n, 2) \in Int
BY DEF Rounded

\* The pay of a day is not negative.
LEMMA RoundedNat ==
    ASSUME NEW n \in Nat, NEW k \in Nat \ {0}
    PROVE  Rounded(n, k) \in Nat
<1>1. 2 * n + k \in Nat /\ 2 * k \in Nat \ {0} OBVIOUS
<1>2. \A x \in Nat, y \in Nat \ {0} : x \div y \in Nat OBVIOUS
<1> QED BY <1>1, <1>2 DEF Rounded

\* More days come to no less money.
LEMMA TimesGrows ==
    ASSUME NEW m \in Int, NEW n \in Int, NEW k \in Nat, m <= n
    PROVE  m * k <= n * k
OBVIOUS

\* The three deductions of a slip are the pay of the days that are not paid.
Deduction(c) == Rounded((2 * Basis - Payable(c)) * Daily, 2)
Earned(c) == month.salary + Worked(c) * Daily + Extra(c)

\* However the deduction is told apart, the net salary is what is earned less all of it.
LEMMA SlipNet ==
    ASSUME NEW c, Deduction(c) \in Int, UnpaidLeave(c) \in Int, c["half"] \in Int, SalaryTyped
    PROVE  SlipOf(c).net = Most(0, Earned(c) - Deduction(c))
<1> DEFINE half == Least(Deduction(c), Rounded(c["half"] * month.salary, 2 * Basis))
           away == Least(Most(0, Deduction(c) - half), Rounded(UnpaidLeave(c) * month.salary, Basis))
           absent == Most(0, Deduction(c) - half - away)
<1>1. SlipOf(c).net = Most(0, Earned(c) - (half + away + absent))
  BY DEF SlipOf, Deduction, Earned, Worked
<1>2. Rounded(c["half"] * month.salary, 2 * Basis) \in Int
      /\ Rounded(UnpaidLeave(c) * month.salary, Basis) \in Int
  BY SalaryAssumption DEF Rounded, SalaryTyped, MonthRec
<1>3. half + away + absent = Deduction(c)
  BY <1>2 DEF Least, Most
<1> QED BY <1>1, <1>3

\* Counts that are ahead pay no fewer days, short months and the limit included.
LEMMA PayableGrows ==
    ASSUME PayInv
    PROVE  /\ Payable(counted) \in Int /\ Payable(better) \in Int
           /\ Payable(counted) <= Payable(better)
<1>1. \A b \in Buckets : counted[b] \in Nat /\ better[b] \in Nat
  BY DEF PayInv, SheetInv, SalaryTyped, Tallies
<1>2. counted["paid"] \in Nat /\ better["paid"] \in Nat
      /\ counted["paid"] <= LeaveLimit /\ better["paid"] <= counted["paid"]
  BY <1>1 DEF Buckets, PayInv, SheetInv, SalaryTyped, Ahead
<1>3. better["paid"] <= LeaveLimit BY <1>2, SalaryAssumption
<1>4. Least(LeaveLimit, counted["paid"]) = counted["paid"]
      /\ Least(LeaveLimit, better["paid"]) = better["paid"]
  BY <1>2, <1>3, SalaryAssumption DEF Least
<1>5. UnpaidLeave(counted) = counted["unpaid"] /\ UnpaidLeave(better) = better["unpaid"]
  BY <1>1, <1>2, <1>3, SalaryAssumption DEF UnpaidLeave, Most, Buckets
<1> DEFINE f == Credited(counted, counted["paid"])
           g == Credited(better, better["paid"])
           cf == UnpaidLeave(counted) = 0 /\ \A b \in Gaps : counted[b] = 0
           cg == UnpaidLeave(better) = 0 /\ \A b \in Gaps : better[b] = 0
<1>6. f \in Nat /\ g \in Nat BY <1>1 DEF Credited, Buckets
<1>7. f <= g BY <1>6 DEF PayInv, Ahead
<1>8. cf => cg
  <2> SUFFICES ASSUME cf PROVE cg OBVIOUS
  <2>1. better["unpaid"] = 0
    BY <1>1, <1>5 DEF PayInv, Ahead, Buckets
  <2>2. \A b \in Gaps : better[b] = 0
    BY <1>1 DEF PayInv, Ahead, Buckets, Gaps
  <2> QED BY <1>5, <2>1, <2>2
<1>9. Payable(counted) = PayableOf(f, cf) /\ Payable(better) = PayableOf(g, cg)
  BY <1>4 DEF Payable
<1> HIDE DEF f, g, cf, cg
<1>10. PayableOf(f, cf) \in Int /\ PayableOf(g, cg) \in Int /\ PayableOf(f, cf) <= PayableOf(g, cg)
  BY <1>6, <1>7, <1>8, SalaryAssumption DEF PayableOf, Least, Most
<1> QED BY <1>9, <1>10

\* Attending never costs: no month, salary, limit or reward makes one more date
\* present lower what the slip pays.
THEOREM AttendanceIsPaid == SalarySpec => []AttendingPays
<1>1. PayInv => AttendingPays
  <2> SUFFICES ASSUME PayInv PROVE SlipOf(better).net >= SlipOf(counted).net
    BY DEF AttendingPays
  <2>1. \A b \in Buckets : counted[b] \in Nat /\ better[b] \in Nat
    BY DEF PayInv, SheetInv, SalaryTyped, Tallies
  <2>2. SalaryTyped BY DEF PayInv, SheetInv
  <2>3. Payable(counted) \in Int /\ Payable(better) \in Int /\ Payable(counted) <= Payable(better)
    BY PayableGrows
  <2>4. Daily \in Nat
    BY <2>2, RoundedNat, SalaryAssumption DEF Daily, SalaryTyped, MonthRec
  <2>5. Deduction(better) <= Deduction(counted) /\ Deduction(better) \in Int /\ Deduction(counted) \in Int
    <3> DEFINE m == 2 * Basis - Payable(better) n == 2 * Basis - Payable(counted)
    <3>1. m \in Int /\ n \in Int /\ m <= n BY <2>3, SalaryAssumption
    <3> HIDE DEF m, n
    <3>2. m * Daily <= n * Daily /\ m * Daily \in Int /\ n * Daily \in Int
      BY <2>4, <3>1, TimesGrows
    <3>3. Rounded(m * Daily, 2) <= Rounded(n * Daily, 2)
          /\ Rounded(m * Daily, 2) \in Int /\ Rounded(n * Daily, 2) \in Int
      BY <3>2, RoundedGrows
    <3> QED BY <3>3 DEF Deduction, m, n
  <2>6. Earned(better) >= Earned(counted) /\ Earned(better) \in Int /\ Earned(counted) \in Int
    <3>1. Worked(counted) \in Nat /\ Worked(better) \in Nat /\ Worked(counted) <= Worked(better)
      BY <2>1 DEF Worked, Buckets, PayInv, Ahead
    <3>2. Worked(counted) * Daily <= Worked(better) * Daily
          /\ Worked(counted) * Daily \in Int /\ Worked(better) * Daily \in Int
      BY <2>4, <3>1, TimesGrows
    <3>3. counted["present"] \in Nat /\ better["present"] \in Nat
          /\ counted["present"] <= better["present"]
      BY <2>1 DEF Buckets, PayInv, Ahead
    <3>4. Extra(counted) <= Extra(better) /\ Extra(counted) \in Int /\ Extra(better) \in Int
      <4> DEFINE x == Most(1, counted["present"] - Basis + 1) y == Most(1, better["present"] - Basis + 1)
      <4>1. x \in Nat /\ y \in Nat /\ x <= y BY <3>3, SalaryAssumption DEF Most
      <4> HIDE DEF x, y
      <4>2. x * Daily <= y * Daily /\ 0 <= x * Daily /\ 0 <= y * Daily
            /\ x * Daily \in Int /\ y * Daily \in Int
        BY <2>4, <4>1, TimesGrows
      <4>3. /\ Extra(counted) = IF month.reward /\ counted["present"] >= Basis THEN x * Daily ELSE 0
            /\ Extra(better) = IF month.reward /\ better["present"] >= Basis THEN y * Daily ELSE 0
        BY DEF Extra, x, y
      <4>4. counted["present"] >= Basis => better["present"] >= Basis
        BY <3>3, SalaryAssumption
      <4> QED BY <4>2, <4>3, <4>4
    <3> QED BY <2>2, <3>2, <3>4 DEF Earned, SalaryTyped, MonthRec
  <2>7. /\ counted["half"] \in Int /\ better["half"] \in Int
        /\ UnpaidLeave(counted) \in Int /\ UnpaidLeave(better) \in Int
    BY <2>1, SalaryAssumption DEF Buckets, UnpaidLeave, Most
  <2>8. /\ SlipOf(counted).net = Most(0, Earned(counted) - Deduction(counted))
        /\ SlipOf(better).net = Most(0, Earned(better) - Deduction(better))
    BY <2>2, <2>5, <2>7, SlipNet
  <2> QED BY <2>5, <2>6, <2>8 DEF Most
<1> QED BY <1>1, PayInvariant, PTL
=============================================================================
