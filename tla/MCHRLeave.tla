----------------------------- MODULE MCHRLeave ------------------------------
(* Four scenes share one run: leaves under review and cancellation; the        *)
(* punches of a day; its corrections, with the punches they meet; and the      *)
(* salary of a month. In the first one leave takes a day and the other two,    *)
(* and the balance is bounded. In the last one date has two rows, and the date *)
(* attended in addition is looked for where both calculations count alike.     *)
EXTENDS HRLeave, HRSalary

CONSTANTS h1, h2, d1, d2, l1, l2, q1, q2, MaxUsed

VARIABLE scene

Calendar ==
    /\ scene # "leave" => \A r \in Rows : row[r].day # d2
    /\ leave[l1].days \subseteq {d1} /\ ~leave[l1].off
    /\ leave[l2].days \in {{}, Days}
    /\ used <= MaxUsed

MonthBounds ==
    /\ month.joining <= 2 /\ month.today \in {0, 2, month.length}
    /\ attended => sheet = counted /\ ~parted

MCInit == PeopleInit /\ SalaryInit /\ scene \in {"leave", "punch", "correct", "salary"}

MCNext ==
    /\ UNCHANGED scene
    /\ \/ /\ scene = "leave"
          /\ Applying \/ \E h \in Handlers : Leaving(h)
          /\ UNCHANGED salaryVars
       \/ /\ scene = "punch"
          /\ \E h \in Handlers : Punching(h) /\ UNCHANGED <<attendanceVars, salaryVars>>
       \/ /\ scene = "correct"
          /\ \E h \in Handlers :
               (Punching(h) \/ Correcting(h)) /\ UNCHANGED <<attendanceVars, salaryVars>>
       \/ /\ scene = "salary"
          /\ Starting \/ \E d \in DatesWithin(IF date = 2 THEN 2 ELSE 1) : CountDate(d)
          /\ MonthBounds'
          /\ UNCHANGED peopleVars
    /\ Calendar'

MCSpec == MCInit /\ [][MCNext]_<<peopleVars, salaryVars, scene>>
=============================================================================
