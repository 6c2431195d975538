--------------------------- MODULE Campaign_proofs ---------------------------
(***************************************************************************)
(* For any number of campaigns, servers, schedulers and crashes: a campaign*)
(* is never dispatched by two handlers, every step of the dispatch is a    *)
(* step of CampaignOnce, so that nobody is pushed a campaign twice, what a *)
(* campaign reports of its notifications is so, and the images of          *)
(* administrators' campaigns are kept.                                     *)
(***************************************************************************)
EXTENDS Campaign, TLAPS

Statuses == {"none", "SENDING"} \cup Open \cup Closed
CampRow == [live : BOOLEAN, status : Statuses, when : {"never", "later", "past"}, stale : BOOLEAN,
            image : Images \cup {NoImage}, key : Campaigns \cup Employees \cup {NoKey}]
Before == {"resolve", "notify", "push"}   \* a dispatch that has not pushed yet
TaskRow == [tick : {"off", "scan", "due", "auto"}, due : SUBSET Campaigns,
            templates : SUBSET (Campaigns \X (Images \cup {NoImage})),
            send : {"none", "claim", "record", "finish"} \cup Before,
            camp : Campaigns \cup {NoKey}, image : Images \cup {NoImage},
            audience : SUBSET Employees, todo : SUBSET Employees, failed : SUBSET Employees]

Types ==
  /\ camp \in [Campaigns -> CampRow]
  /\ pushes \in [Campaigns -> [Employees -> Nat]]
  /\ task \in [Handlers -> TaskRow]

Unpushed(c) == \A e \in Employees : pushes[c][e] = 0
Taken == Closed \cup {"SENDING"}

\* A claimed campaign exists, and one that was never claimed was never pushed.
Rows ==
  \A c \in Campaigns :
    /\ camp[c].live => camp[c].status # "none"
    /\ camp[c].status = "SENDING" => camp[c].live
    /\ camp[c].status \notin Taken => Unpushed(c)

Senders ==
  /\ \A h \in Handlers : task[h].send # "none" => task[h].camp \in Campaigns
  /\ \A h \in Handlers : Sending(h) => camp[task[h].camp].status \in Taken
  /\ \A h \in Handlers, g \in Handlers :
       Sending(h) /\ Sending(g) /\ task[h].camp = task[g].camp => h = g
  /\ \A h \in Handlers : task[h].send \in Before => Unpushed(task[h].camp)

IInv == Types /\ Rows /\ Senders

LEMMA InitEstablishes == CampaignInit => IInv
<1> SUFFICES ASSUME CampaignInit PROVE IInv
  OBVIOUS
<1>1. camp \in [Campaigns -> CampRow]
  BY DEF CampaignInit, CampRow, Statuses
<1>2. pushes \in [Campaigns -> [Employees -> Nat]] /\ \A c \in Campaigns : Unpushed(c)
  BY DEF CampaignInit, Unpushed
<1>3. Idle \in TaskRow /\ Idle.send = "none"
  BY DEF Idle, TaskRow
<1>4. task \in [Handlers -> TaskRow] /\ \A h \in Handlers : task[h].send = "none"
  BY <1>3 DEF CampaignInit
<1>5. Rows
  BY <1>2 DEF CampaignInit, Rows
<1>6. Senders
  BY <1>4 DEF Senders, Sending, Before
<1> QED
  BY <1>1, <1>2, <1>4, <1>5, <1>6 DEF IInv, Types

-----------------------------------------------------------------------------
(* What a step does to the campaigns *)

\* A step writes one campaign ...
Wrote(c, row) == camp' = [camp EXCEPT ![c] = row]
\* ... that is new, keeps its phase, is deleted, claimed or closed.
Born(c, row) == camp[c].status = "none" /\ row.live /\ row.status \in Open
Kept(c, row) ==
  /\ row.live = camp[c].live
  /\ \/ row.status = camp[c].status
     \/ row.status \in Open /\ camp[c].status \in Open
     \/ row.status \in Closed /\ camp[c].status \in Closed
Gone(c, row) == camp[c].live /\ ~row.live /\ row.status = camp[c].status /\ row.status # "SENDING"
Claimed(c, row) == camp[c].live /\ camp[c].status \in Open /\ row.live /\ row.status = "SENDING"
Ended(c, row) == camp[c].status = "SENDING" /\ row.live /\ row.status \in Closed

Change(c, row) == Born(c, row) \/ Kept(c, row) \/ Gone(c, row) \/ Claimed(c, row) \/ Ended(c, row)
OneChange == \E c \in Campaigns, row \in CampRow : Wrote(c, row) /\ Change(c, row)

\* The scheduler closes all stale campaigns at once.
Swept ==
  /\ camp' \in [Campaigns -> CampRow]
  /\ \A c \in Campaigns :
       \/ camp'[c] = camp[c]
       \/ camp[c].status = "SENDING" /\ camp'[c].live /\ camp'[c].status \in Closed

CampStep == UNCHANGED camp \/ OneChange \/ Swept

\* Once taken, a campaign stays taken.
Sticks == \A c \in Campaigns : camp[c].status \in Taken => camp'[c].status \in Taken

LEMMA WroteRow ==
  ASSUME Types, NEW c \in Campaigns, NEW row \in CampRow, Wrote(c, row)
  PROVE  /\ camp' \in [Campaigns -> CampRow]
         /\ camp'[c] = row /\ \A d \in Campaigns \ {c} : camp'[d] = camp[d]
BY DEF Types, Wrote

LEMMA Distinct ==
  /\ "SENDING" \notin Open /\ "SENDING" \notin Closed /\ "none" \notin Open /\ "none" \notin Closed
  /\ Open \cap Closed = {} /\ "none" \notin Taken
BY DEF Open, Closed, Taken

LEMMA CampStepKeeps ==
  ASSUME IInv, CampStep, UNCHANGED pushes
  PROVE  camp' \in [Campaigns -> CampRow] /\ Rows' /\ Sticks
<1>1. CASE UNCHANGED camp
  BY <1>1 DEF IInv, Types, Rows, Sticks, Unpushed
<1>2. CASE Swept
  <2>1. camp' \in [Campaigns -> CampRow]
    BY <1>2 DEF Swept
  <2>2. Sticks
    BY <1>2 DEF Swept, Sticks, Taken
  <2>3. Rows'
    BY <1>2, Distinct DEF Swept, IInv, Rows, Unpushed, Taken
  <2> QED
    BY <2>1, <2>2, <2>3
<1>3. CASE OneChange
  <2>1. PICK c \in Campaigns, row \in CampRow : Wrote(c, row) /\ Change(c, row)
    BY <1>3 DEF OneChange
  <2>2. /\ camp' \in [Campaigns -> CampRow]
        /\ camp'[c] = row /\ \A d \in Campaigns \ {c} : camp'[d] = camp[d]
    BY <2>1, WroteRow DEF IInv
  <2>3. /\ row.live => row.status # "none"
        /\ row.status = "SENDING" => row.live
        /\ row.status \notin Taken => camp[c].status \notin Taken
        /\ camp[c].status \in Taken => row.status \in Taken
    BY <2>1, Distinct DEF Change, Born, Kept, Gone, Claimed, Ended, IInv, Rows, Taken
  <2>4. Sticks
    BY <2>2, <2>3 DEF Sticks
  <2>5. Rows'
    BY <2>2, <2>3 DEF IInv, Rows, Unpushed
  <2> QED
    BY <2>2, <2>4, <2>5
<1> QED
  BY <1>1, <1>2, <1>3 DEF CampStep

-----------------------------------------------------------------------------
(* What a step does to the handlers *)

\* A handler goes on to t without becoming a sender.
Goes(h, t) ==
  \/ t.send = "none"
  \/ t.send = "claim" /\ t.camp \in Campaigns
  \/ /\ Sending(h) /\ t.send \notin {"none", "claim"} /\ t.camp = task[h].camp
     /\ t.send \in Before => task[h].send \in Before
\* It becomes the sender of its campaign.
Claims(h, t) ==
  /\ task[h].send = "claim" /\ t.send = "resolve" /\ t.camp = task[h].camp
  /\ camp[t.camp].status \in Open /\ camp'[t.camp].status \in Taken
TaskStep ==
  \/ UNCHANGED task
  \/ \E h \in Handlers, t \in TaskRow : Goto(h, t) /\ (Goes(h, t) \/ Claims(h, t))

LEMMA WentTo ==
  ASSUME Types, NEW h \in Handlers, NEW t \in TaskRow, Goto(h, t)
  PROVE  /\ task' \in [Handlers -> TaskRow]
         /\ task'[h] = t /\ \A g \in Handlers \ {h} : task'[g] = task[g]
BY DEF Types, Goto

LEMMA TaskStepKeeps ==
  ASSUME IInv, TaskStep, Sticks, UNCHANGED pushes
  PROVE  task' \in [Handlers -> TaskRow] /\ Senders'
<1>1. CASE UNCHANGED task
  <2>1. \A h \in Handlers : Sending(h) => task[h].camp \in Campaigns
    BY DEF IInv, Senders, Sending
  <2> QED
    BY <1>1, <2>1 DEF IInv, Types, Senders, Sending, Sticks, Unpushed
<1>2. ASSUME NEW h \in Handlers, NEW t \in TaskRow, Goto(h, t), Goes(h, t) \/ Claims(h, t)
      PROVE  task' \in [Handlers -> TaskRow] /\ Senders'
  <2>1. /\ task' \in [Handlers -> TaskRow]
        /\ task'[h] = t /\ \A g \in Handlers \ {h} : task'[g] = task[g]
    BY <1>2, WentTo DEF IInv
  <2>2. t.send # "none" => t.camp \in Campaigns
    BY <1>2 DEF Goes, Claims, IInv, Senders, Sending
  <2>3. t.send \notin {"none", "claim"} =>
          /\ camp'[t.camp].status \in Taken
          /\ \A g \in Handlers \ {h} : Sending(g) => task[g].camp # t.camp
          /\ t.send \in Before => Unpushed(t.camp)
    <3>1. CASE Goes(h, t)
      BY <1>2, <3>1 DEF Goes, IInv, Senders, Sending, Sticks
    <3>2. CASE Claims(h, t)
      <4>1. camp[t.camp].status \notin Taken /\ t.camp \in Campaigns
        BY <2>2, <3>2, Distinct DEF Claims, Taken
      <4> QED
        BY <3>2, <4>1 DEF Claims, IInv, Senders, Rows
    <3> QED
      BY <1>2, <3>1, <3>2
  <2>4. \A g \in Handlers : Sending(g)' =>
          IF g = h THEN t.send \notin {"none", "claim"} ELSE Sending(g)
    BY <2>1 DEF Sending
  <2>5. \A g \in Handlers : task'[g].send # "none" => task'[g].camp \in Campaigns
    BY <2>1, <2>2 DEF IInv, Senders
  <2>6. \A g \in Handlers : Sending(g)' => camp'[task'[g].camp].status \in Taken
    <3> SUFFICES ASSUME NEW g \in Handlers, Sending(g)'
                 PROVE  camp'[task'[g].camp].status \in Taken
      OBVIOUS
    <3>1. CASE g = h
      BY <2>1, <2>3, <2>4, <3>1
    <3>2. CASE g # h
      BY <2>1, <2>4, <3>2 DEF IInv, Senders, Sending, Sticks
    <3> QED
      BY <3>1, <3>2
  <2>7. \A f \in Handlers, g \in Handlers :
          Sending(f)' /\ Sending(g)' /\ task'[f].camp = task'[g].camp => f = g
    BY <2>1, <2>3, <2>4 DEF IInv, Senders
  <2>8. \A g \in Handlers : task'[g].send \in Before => \A e \in Employees : pushes'[task'[g].camp][e] = 0
    <3> SUFFICES ASSUME NEW g \in Handlers, task'[g].send \in Before
                 PROVE  \A e \in Employees : pushes[task'[g].camp][e] = 0
      OBVIOUS
    <3>1. CASE g = h
      BY <2>1, <2>3, <3>1 DEF Before, Unpushed
    <3>2. CASE g # h
      BY <2>1, <3>2 DEF IInv, Senders, Unpushed
    <3> QED
      BY <3>1, <3>2
  <2> QED
    BY <2>1, <2>5, <2>6, <2>7, <2>8 DEF Senders, Unpushed
<1> QED
  BY <1>1, <1>2 DEF TaskStep

-----------------------------------------------------------------------------
(* What a step means to CampaignOnce *)

Reached(c) == {e \in Employees : pushes[c][e] > 0}
SamePhase(c) == Phase(c)' = Phase(c)
Moves(c, from, to) ==
  /\ Phase(c) = from /\ Phase(c)' = to
  /\ \A d \in Campaigns \ {c} : SamePhase(d)

LEMMA PhaseValues ==
  ASSUME Types, NEW c \in Campaigns
  PROVE  /\ camp[c].status = "none" => Phase(c) = "none"
         /\ camp[c].status \in Open /\ camp[c].live => Phase(c) = "open"
         /\ camp[c].status \in Open /\ ~camp[c].live => Phase(c) = "withdrawn"
         /\ camp[c].status = "SENDING" => Phase(c) = "claimed"
         /\ camp[c].status \in Closed => Phase(c) = "closed"
BY Distinct DEF Phase, Live

LEMMA OnceMoves ==
  ASSUME NEW c \in Campaigns, UNCHANGED pushes,
         \/ Moves(c, "none", "open") \/ Moves(c, "open", "withdrawn")
         \/ Moves(c, "open", "claimed") \/ Moves(c, "claimed", "closed")
  PROVE  Once!Next
<1>1. ASSUME NEW from, NEW to, Moves(c, from, to)
      PROVE  Once!Move(c, from, to)
  <2>1. /\ [d \in Campaigns |-> Phase(d)][c] = from
        /\ [d \in Campaigns |-> Phase(d)'] = [[d \in Campaigns |-> Phase(d)] EXCEPT ![c] = to]
    BY <1>1 DEF Moves, SamePhase
  <2> QED
    BY <2>1 DEF Once!Move
<1>2. Once!Open(c) \/ Once!Withdraw(c) \/ Once!Claim(c) \/ Once!Close(c)
  BY <1>1 DEF Once!Open, Once!Withdraw, Once!Claim, Once!Close
<1> QED
  BY <1>2 DEF Once!Next

LEMMA OnceRests ==
  ASSUME \A c \in Campaigns : SamePhase(c), UNCHANGED pushes
  PROVE  UNCHANGED Once!onceVars
BY DEF SamePhase, Once!onceVars

\* Every way a step treats the campaigns is a step of CampaignOnce, or none.
LEMMA CampStepIsOnce ==
  ASSUME IInv, CampStep, UNCHANGED pushes
  PROVE  [Once!Next]_Once!onceVars
<1>0. Types /\ camp' \in [Campaigns -> CampRow] /\ Rows /\ Rows'
  BY CampStepKeeps DEF IInv
<1>1. CASE UNCHANGED camp
  <2>1. \A c \in Campaigns : SamePhase(c)
    BY <1>1 DEF SamePhase, Phase, Live
  <2> QED
    BY <2>1, OnceRests
<1>p. ASSUME NEW c \in Campaigns
      PROVE  /\ camp'[c].status = "none" => Phase(c)' = "none"
             /\ camp'[c].status \in Open /\ camp'[c].live => Phase(c)' = "open"
             /\ camp'[c].status \in Open /\ ~camp'[c].live => Phase(c)' = "withdrawn"
             /\ camp'[c].status = "SENDING" => Phase(c)' = "claimed"
             /\ camp'[c].status \in Closed => Phase(c)' = "closed"
  BY Distinct DEF Phase, Live
<1>2. CASE OneChange
  <2>1. PICK c \in Campaigns, row \in CampRow : Wrote(c, row) /\ Change(c, row)
    BY <1>2 DEF OneChange
  <2>2. camp'[c] = row /\ \A d \in Campaigns \ {c} : camp'[d] = camp[d]
    BY <1>0, <2>1, WroteRow
  <2>3. \A d \in Campaigns \ {c} : SamePhase(d)
    BY <2>2 DEF SamePhase, Phase, Live
  <2>4. CASE Kept(c, row)
    <3>1. row.live = camp[c].live /\ row.status \in Statuses /\ camp[c].status \in Statuses
      BY <1>0, <2>4 DEF Kept, Types, CampRow
    <3>2. SamePhase(c)
      BY <1>0, <1>p, <2>2, <2>4, <3>1, PhaseValues DEF Kept, SamePhase, Statuses
    <3> QED
      BY <2>3, <3>2, OnceRests
  <2>5. CASE Born(c, row)
    <3>1. Moves(c, "none", "open")
      BY <1>0, <1>p, <2>2, <2>3, <2>5, PhaseValues DEF Born, Moves
    <3> QED
      BY <3>1, OnceMoves
  <2>6. CASE Gone(c, row)
    <3>1. CASE row.status \in Open
      <4>1. Moves(c, "open", "withdrawn")
        BY <1>0, <1>p, <2>2, <2>3, <2>6, <3>1, PhaseValues DEF Gone, Moves
      <4> QED
        BY <4>1, OnceMoves
    <3>2. CASE row.status \in Closed
      <4>1. SamePhase(c)
        BY <1>0, <1>p, <2>2, <2>6, <3>2, PhaseValues DEF Gone, SamePhase
      <4> QED
        BY <2>3, <4>1, OnceRests
    <3>3. row.status # "none" /\ row.status # "SENDING" /\ row.status \in Statuses
      BY <1>0, <2>6 DEF Gone, Rows, CampRow
    <3> QED
      BY <3>1, <3>2, <3>3 DEF Statuses
  <2>7. CASE Claimed(c, row)
    <3>1. Moves(c, "open", "claimed")
      BY <1>0, <1>p, <2>2, <2>3, <2>7, PhaseValues DEF Claimed, Moves
    <3> QED
      BY <3>1, OnceMoves
  <2>8. CASE Ended(c, row)
    <3>1. Moves(c, "claimed", "closed")
      BY <1>0, <1>p, <2>2, <2>3, <2>8, PhaseValues DEF Ended, Moves
    <3> QED
      BY <3>1, OnceMoves
  <2> QED
    BY <2>1, <2>4, <2>5, <2>6, <2>7, <2>8 DEF Change
<1>3. CASE Swept
  <2> DEFINE C == {c \in Campaigns : camp'[c] # camp[c]}
  <2>1. PICK D : D = C
    OBVIOUS
  <2>2. \A c \in D : c \in Campaigns /\ Phase(c) = "claimed" /\ Phase(c)' = "closed"
    BY <1>0, <1>3, <1>p, <2>1, PhaseValues DEF Swept
  <2>3. \A c \in Campaigns \ D : Phase(c)' = Phase(c)
    BY <1>3, <2>1 DEF Phase, Live
  <2>4. /\ \A c \in D : [d \in Campaigns |-> Phase(d)][c] = "claimed"
        /\ [d \in Campaigns |-> Phase(d)']
             = [c \in Campaigns |-> IF c \in D THEN "closed" ELSE [d \in Campaigns |-> Phase(d)][c]]
    BY <2>2, <2>3
  <2>5. D \in SUBSET Campaigns
    BY <2>1
  <2>6. Once!CloseAll(D)
    BY <2>4 DEF Once!CloseAll
  <2> QED
    BY <2>5, <2>6 DEF Once!Next
<1> QED
  BY <1>1, <1>2, <1>3 DEF CampStep

-----------------------------------------------------------------------------
(* The push *)

LEMMA PushStep ==
  ASSUME IInv, NEW h \in Handlers, PushBatch(h)
  PROVE  IInv' /\ [Once!Next]_Once!onceVars
<1>1. PICK c \in Campaigns : c = task[h].camp
  BY DEF PushBatch, IInv, Senders
<1> DEFINE targets == task[h].audience \cap Reachable
           new(e) == pushes[c][e] + IF e \in targets THEN 1 ELSE 0
<1>2. /\ camp[c].status \in Taken /\ Unpushed(c)
      /\ \A g \in Handlers \ {h} : Sending(g) => task[g].camp # c
  BY <1>1 DEF PushBatch, IInv, Senders, Sending, Before
<1>3. /\ pushes' = [pushes EXCEPT ![c] = [e \in Employees |-> new(e)]]
      /\ UNCHANGED camp
  BY <1>1 DEF PushBatch
<1>4. \A e \in Employees : new(e) \in Nat
  BY <1>2 DEF Unpushed
<1>5. PICK failed \in SUBSET targets :
        Goto(h, [task[h] EXCEPT !.send = "record", !.todo = task[h].audience, !.failed = failed])
  BY DEF PushBatch
<1> DEFINE t == [task[h] EXCEPT !.send = "record", !.todo = task[h].audience, !.failed = failed]
<1>6. task[h] \in TaskRow /\ Reachable \subseteq Employees
  BY CampaignAssumption DEF IInv, Types
<1>7. t \in TaskRow /\ t.send = "record" /\ t.camp = task[h].camp
  BY <1>5, <1>6 DEF TaskRow
<1>t. Goto(h, t)
  BY <1>5
<1> HIDE DEF t
<1>8. /\ task' \in [Handlers -> TaskRow]
      /\ task'[h] = t /\ \A g \in Handlers \ {h} : task'[g] = task[g]
  BY <1>7, <1>t, WentTo DEF IInv
<1>9. \A d \in Campaigns \ {c} : pushes'[d] = pushes[d]
  BY <1>3 DEF IInv, Types
<1>10. pushes'[c] = [e \in Employees |-> new(e)] /\ pushes' \in [Campaigns -> [Employees -> Nat]]
  BY <1>3, <1>4 DEF IInv, Types
<1>11. Types'
  BY <1>3, <1>8, <1>10 DEF IInv, Types
<1>12. Rows'
  BY <1>2, <1>3, <1>9 DEF IInv, Rows, Unpushed
<1>13. \A g \in Handlers : Sending(g)' => Sending(g) /\ task'[g].camp = task[g].camp
  BY <1>7, <1>8 DEF Sending, PushBatch
<1>14. \A g \in Handlers : task'[g].send \in Before => g # h /\ Sending(g)
  BY <1>7, <1>8 DEF Before, Sending
<1>15. Senders'
  <2>1. \A g \in Handlers : task'[g].send # "none" => task'[g].camp \in Campaigns
    BY <1>1, <1>7, <1>8 DEF IInv, Senders
  <2>2. \A g \in Handlers : Sending(g)' => camp'[task'[g].camp].status \in Taken
    BY <1>3, <1>13 DEF IInv, Senders
  <2>3. \A f \in Handlers, g \in Handlers :
          Sending(f)' /\ Sending(g)' /\ task'[f].camp = task'[g].camp => f = g
    BY <1>13 DEF IInv, Senders
  <2>4. ASSUME NEW g \in Handlers, task'[g].send \in Before
        PROVE  \A e \in Employees : pushes'[task'[g].camp][e] = 0
    <3>1. g # h /\ Sending(g) /\ task'[g] = task[g]
      BY <1>8, <1>14, <2>4
    <3>2. task[g].camp \in Campaigns \ {c} /\ Unpushed(task[g].camp)
      BY <1>2, <2>4, <3>1 DEF IInv, Senders, Sending
    <3> QED
      BY <1>9, <3>1, <3>2 DEF Unpushed
  <2> QED
    BY <2>1, <2>2, <2>3, <2>4 DEF Senders, Unpushed
<1>16. [Once!Next]_Once!onceVars
  <2>1. \A d \in Campaigns : SamePhase(d)
    BY <1>3 DEF SamePhase, Phase, Live
  <2>2. [d \in Campaigns |-> Phase(d)'] = [d \in Campaigns |-> Phase(d)]
    BY <2>1 DEF SamePhase
  <2>3. \A d \in Campaigns \ {c} : Reached(d)' = Reached(d)
    BY <1>9 DEF Reached
  <2>4. Reached(c) = {} /\ Reached(c)' = {e \in Employees : new(e) > 0}
    BY <1>2, <1>10 DEF Reached, Unpushed
  <2>5. PICK S \in SUBSET Employees : S = {e \in Employees : new(e) > 0}
    OBVIOUS
  <2>6. [d \in Campaigns |-> Reached(d)'] = [[d \in Campaigns |-> Reached(d)] EXCEPT ![c] = S]
    BY <2>3, <2>4, <2>5
  <2>7. Phase(c) \in {"claimed", "closed"}
    BY <1>2, PhaseValues DEF Taken, IInv
  <2>8. CASE S = {}
    <3>1. [d \in Campaigns |-> Reached(d)'] = [d \in Campaigns |-> Reached(d)]
      BY <2>3, <2>4, <2>5, <2>8
    <3> QED
      BY <2>2, <3>1 DEF Once!onceVars, Reached
  <2>9. CASE S # {}
    <3>1. /\ [d \in Campaigns |-> Phase(d)][c] \in {"claimed", "closed"}
          /\ [d \in Campaigns |-> Reached(d)][c] = {}
      BY <2>4, <2>7
    <3>2. Once!Reach(c)
      BY <2>2, <2>6, <2>9, <3>1 DEF Once!Reach, Reached
    <3> QED
      BY <3>2 DEF Once!Next
  <2> QED
    BY <2>8, <2>9
<1> QED
  BY <1>11, <1>12, <1>15, <1>16 DEF IInv

-----------------------------------------------------------------------------
(* Every other action *)

Fine == CampStep /\ TaskStep /\ UNCHANGED pushes

LEMMA FineStep ==
  ASSUME IInv, Fine
  PROVE  IInv' /\ [Once!Next]_Once!onceVars
<1>1. camp' \in [Campaigns -> CampRow] /\ Rows' /\ Sticks
  BY CampStepKeeps DEF Fine
<1>2. task' \in [Handlers -> TaskRow] /\ Senders'
  BY <1>1, TaskStepKeeps DEF Fine
<1>3. [Once!Next]_Once!onceVars
  BY CampStepIsOnce DEF Fine
<1> QED
  BY <1>1, <1>2, <1>3 DEF IInv, Types, Fine

LEMMA NewRowTyped ==
  ASSUME NEW s \in Open, NEW w \in {"never", "later", "past"}, NEW i \in Images \cup {NoImage},
         NEW k \in Campaigns \cup Employees \cup {NoKey}
  PROVE  NewRow(s, w, i, k) \in CampRow /\ NewRow(s, w, i, k).live /\ NewRow(s, w, i, k).status = s
BY DEF NewRow, CampRow, Statuses

\* Requests of administrators, and time.
LEMMA Administration ==
  ASSUME IInv, NEW c \in Campaigns, NEW i \in Images \cup {NoImage}, NEW s \in {"DRAFT", "SCHEDULED", "AUTOMATIC"},
         \/ CreateCampaign(c, s, i) \/ UpdateCampaign(c, i) \/ ScheduleCampaign(c)
         \/ CancelCampaign(c) \/ DeleteCampaign(c) \/ BecomesDue(c) \/ LockGetsStale(c)
  PROVE  Fine
<1>0. camp[c] \in CampRow /\ s \in Open /\ UNCHANGED <<task, pushes>>
  BY DEF IInv, Types, Open, CreateCampaign, UpdateCampaign, ScheduleCampaign, CancelCampaign,
         DeleteCampaign, BecomesDue, LockGetsStale
<1>1. ASSUME NEW row \in CampRow, Set(c, row), Change(c, row)
      PROVE  Fine
  BY <1>0, <1>1 DEF Fine, CampStep, OneChange, Wrote, Set, TaskStep
<1>2. CASE CreateCampaign(c, s, i)
  <2> DEFINE w == IF s = "SCHEDULED" THEN "later" ELSE "never"
  <2>1. NewRow(s, w, i, NoKey) \in CampRow /\ NewRow(s, w, i, NoKey).live
          /\ NewRow(s, w, i, NoKey).status = s
    BY <1>0, NewRowTyped
  <2>2. Change(c, NewRow(s, w, i, NoKey))
    BY <1>0, <1>2, <2>1 DEF CreateCampaign, NextId, Unused, Change, Born
  <2> QED
    BY <1>1, <1>2, <2>1, <2>2 DEF CreateCampaign
<1>3. CASE UpdateCampaign(c, i)
  <2>1. PICK edit \in Edits(c) :
          Set(c, [camp[c] EXCEPT !.status = edit[1], !.when = edit[2], !.image = i])
    BY <1>3 DEF UpdateCampaign
  <2> DEFINE row == [camp[c] EXCEPT !.status = edit[1], !.when = edit[2], !.image = i]
  <2>2. edit[1] \in Open /\ edit[2] \in {"never", "later", "past"}
    <3>1. CASE edit \in {<<"SCHEDULED", "later">>, <<"DRAFT", "never">>}
      BY <3>1 DEF Open
    <3>2. CASE edit \in {camp[c].status, "DRAFT", "SCHEDULED", "AUTOMATIC"} \X {camp[c].when}
      <4>1. /\ edit[1] \in {camp[c].status, "DRAFT", "SCHEDULED", "AUTOMATIC"}
            /\ edit[2] = camp[c].when
        BY <3>2
      <4> QED
        BY <1>0, <1>3, <4>1 DEF UpdateCampaign, Open, CampRow
    <3> QED
      BY <3>1, <3>2 DEF Edits
  <2>3. row \in CampRow /\ row.live = camp[c].live /\ row.status = edit[1]
    BY <1>0, <2>2 DEF CampRow, Statuses
  <2>4. Change(c, row)
    BY <1>3, <2>2, <2>3 DEF UpdateCampaign, Change, Kept
  <2> QED
    BY <1>1, <2>1, <2>3, <2>4
<1>4. CASE ScheduleCampaign(c)
  <2> DEFINE row == [camp[c] EXCEPT !.status = "SCHEDULED", !.when = "later"]
  <2>1. row \in CampRow /\ row.live = camp[c].live /\ row.status = "SCHEDULED"
    BY <1>0 DEF CampRow, Statuses, Open
  <2>2. Change(c, row)
    BY <1>4, <2>1 DEF ScheduleCampaign, Change, Kept, Open
  <2> QED
    BY <1>1, <1>4, <2>1, <2>2 DEF ScheduleCampaign
<1>5. CASE CancelCampaign(c)
  <2> DEFINE row == [camp[c] EXCEPT !.status = "CANCELLED"]
  <2>1. row \in CampRow /\ row.live = camp[c].live /\ row.status = "CANCELLED"
    BY <1>0 DEF CampRow, Statuses, Open
  <2>2. Change(c, row)
    BY <1>5, <2>1 DEF CancelCampaign, Change, Kept, Open
  <2> QED
    BY <1>1, <1>5, <2>1, <2>2 DEF CancelCampaign
<1>6. CASE DeleteCampaign(c)
  <2> DEFINE row == [camp[c] EXCEPT !.live = FALSE]
  <2>1. row \in CampRow /\ ~row.live /\ row.status = camp[c].status
    BY <1>0 DEF CampRow
  <2>2. Change(c, row)
    BY <1>6, <2>1 DEF DeleteCampaign, Live, Change, Gone
  <2> QED
    BY <1>1, <1>6, <2>1, <2>2 DEF DeleteCampaign
<1>7. CASE BecomesDue(c)
  <2> DEFINE row == [camp[c] EXCEPT !.when = "past"]
  <2>1. row \in CampRow /\ row.live = camp[c].live /\ row.status = camp[c].status
    BY <1>0 DEF CampRow
  <2>2. Change(c, row)
    BY <2>1 DEF Change, Kept
  <2> QED
    BY <1>1, <1>7, <2>1, <2>2 DEF BecomesDue
<1>8. CASE LockGetsStale(c)
  <2> DEFINE row == [camp[c] EXCEPT !.stale = TRUE]
  <2>1. row \in CampRow /\ row.live = camp[c].live /\ row.status = camp[c].status
    BY <1>0 DEF CampRow
  <2>2. Change(c, row)
    BY <2>1 DEF Change, Kept
  <2> QED
    BY <1>1, <1>8, <2>1, <2>2 DEF LockGetsStale
<1> QED
  BY <1>2, <1>3, <1>4, <1>5, <1>6, <1>7, <1>8

LEMMA DoneTyped ==
  ASSUME IInv, NEW h \in Handlers, Done(h)
  PROVE  TaskStep
<1> DEFINE t == [Idle EXCEPT !.tick = task[h].tick, !.due = task[h].due, !.templates = task[h].templates]
<1>1. task[h] \in TaskRow
  BY DEF IInv, Types
<1>2. t \in TaskRow /\ t.send = "none"
  BY <1>1 DEF Idle, TaskRow
<1>3. Goto(h, t)
  BY DEF Done
<1> QED
  BY <1>2, <1>3 DEF TaskStep, Goes

LEMMA ConcludeFine ==
  ASSUME IInv, NEW h \in Handlers, NEW s \in Closed, Sending(h), Conclude(h, s), UNCHANGED pushes
  PROVE  Fine
<1>1. PICK c \in Campaigns : c = task[h].camp
  BY DEF Sending, IInv, Senders
<1>2. camp[c].status \in Taken /\ camp[c] \in CampRow
  BY <1>1 DEF IInv, Senders, Types
<1>3. TaskStep
  BY DoneTyped DEF Conclude
<1>4. CASE Live(c)
  <2> DEFINE row == [camp[c] EXCEPT !.status = s, !.stale = FALSE]
  <2>1. row \in CampRow /\ row.live = camp[c].live /\ row.status = s
    BY <1>2 DEF CampRow, Statuses
  <2>2. Wrote(c, row)
    BY <1>1, <1>4 DEF Conclude, Set, Wrote
  <2>3. Change(c, row)
    BY <1>2, <1>4, <2>1 DEF Change, Kept, Ended, Taken, Live
  <2> QED
    BY <1>3, <2>1, <2>2, <2>3 DEF Fine, CampStep, OneChange
<1>5. CASE ~Live(c)
  BY <1>1, <1>3, <1>5 DEF Conclude, Fine, CampStep
<1> QED
  BY <1>4, <1>5

\* A handler's row changes and the campaigns do not.
LEMMA OnlyTask ==
  ASSUME IInv, NEW h \in Handlers, NEW t \in TaskRow, Goto(h, t), Goes(h, t),
         UNCHANGED <<camp, pushes>>
  PROVE  Fine
BY DEF Fine, CampStep, TaskStep

\* The statements of a dispatch, but the push.
LEMMA Statements ==
  ASSUME IInv, NEW h \in Handlers, Dispatch(h), ~PushBatch(h)
  PROVE  Fine
<1>0. task[h] \in TaskRow
  BY DEF IInv, Types
<1>1. CASE ClaimCampaign(h)
  <2>1. PICK c \in Campaigns : c = task[h].camp
    BY <1>1 DEF ClaimCampaign, IInv, Senders
  <2>2. camp[c] \in CampRow /\ UNCHANGED pushes
    BY <1>1 DEF IInv, Types, ClaimCampaign
  <2>3. CASE Live(c) /\ camp[c].status \in Sendable
    <3> DEFINE row == [camp[c] EXCEPT !.status = "SENDING", !.stale = FALSE]
               t == [task[h] EXCEPT !.send = "resolve"]
    <3>1. row \in CampRow /\ row.live = camp[c].live /\ row.status = "SENDING"
      BY <2>2 DEF CampRow, Statuses
    <3>2. Wrote(c, row) /\ Goto(h, t)
      BY <1>1, <2>1, <2>3 DEF ClaimCampaign, Set, Wrote
    <3>3. camp[c].status \in Open /\ camp[c].live
      BY <2>3 DEF Sendable, Open, Live
    <3>4. Change(c, row)
      BY <3>1, <3>3 DEF Change, Claimed
    <3>5. t \in TaskRow /\ t.send = "resolve" /\ t.camp = c
      BY <1>0, <2>1 DEF TaskRow, Before
    <3> HIDE DEF row, t
    <3>6. camp'[c] = row
      BY <3>1, <3>2, WroteRow DEF IInv
    <3>7. Claims(h, t)
      BY <1>1, <2>1, <3>1, <3>3, <3>5, <3>6 DEF Claims, ClaimCampaign, Taken
    <3> QED
      BY <2>2, <3>1, <3>2, <3>4, <3>5, <3>7 DEF Fine, CampStep, OneChange, TaskStep
  <2>4. CASE ~(Live(c) /\ camp[c].status \in Sendable)
    <3>1. UNCHANGED camp /\ Done(h)
      BY <1>1, <2>1, <2>4 DEF ClaimCampaign
    <3> QED
      BY <2>2, <3>1, DoneTyped DEF Fine, CampStep
  <2> QED
    BY <2>3, <2>4
<1>2. CASE SendFails(h)
  <2>1. Sending(h) /\ Conclude(h, "DELIVERY_UNKNOWN") /\ UNCHANGED pushes /\ "DELIVERY_UNKNOWN" \in Closed
    BY <1>2 DEF SendFails, Sending, Closed
  <2> QED
    BY <2>1, ConcludeFine
<1>3. CASE FinishDispatch(h)
  <2>1. /\ Sending(h) /\ UNCHANGED pushes
        /\ Conclude(h, "COMPLETED_WITH_ERRORS") \/ Conclude(h, "SENT")
        /\ "COMPLETED_WITH_ERRORS" \in Closed /\ "SENT" \in Closed
    BY <1>3 DEF FinishDispatch, Sending, Closed
  <2> QED
    BY <2>1, ConcludeFine
<1>4. CASE ResolveAudience(h)
  <2>1. PICK c \in Campaigns : c = task[h].camp
    BY <1>4 DEF ResolveAudience, IInv, Senders
  <2>2. Sending(h) /\ UNCHANGED pushes /\ "COMPLETED" \in Closed
    BY <1>4 DEF ResolveAudience, Sending, Closed
  <2>3. PICK S \in SUBSET Employees :
          IF S = {} THEN Conclude(h, "COMPLETED")
          ELSE /\ Goto(h, [task[h] EXCEPT !.send = "notify", !.todo = S, !.audience = S,
                                          !.image = camp[c].image])
               /\ UNCHANGED camp
    BY <1>4, <2>1 DEF ResolveAudience
  <2>4. CASE S = {}
    BY <2>2, <2>3, <2>4, ConcludeFine
  <2>5. CASE S # {}
    <3> DEFINE t == [task[h] EXCEPT !.send = "notify", !.todo = S, !.audience = S, !.image = camp[c].image]
    <3>1. camp[c].image \in Images \cup {NoImage}
      BY DEF IInv, Types, CampRow
    <3>2. t \in TaskRow /\ t.send = "notify" /\ t.camp = task[h].camp
      BY <1>0, <3>1 DEF TaskRow, Before
    <3>3. Goto(h, t) /\ UNCHANGED <<camp, pushes>>
      BY <2>2, <2>3, <2>5
    <3> HIDE DEF t
    <3>4. Goes(h, t)
      BY <1>4, <2>2, <3>2 DEF Goes, ResolveAudience, Before
    <3> QED
      BY <3>2, <3>3, <3>4, OnlyTask
  <2> QED
    BY <2>4, <2>5
<1>5. ASSUME NEW e \in Employees, NotifyEmployee(h, e)
      PROVE  Fine
  <2> DEFINE t == [task[h] EXCEPT !.todo = @ \ {e},
                                  !.send = IF task[h].todo = {e} THEN "push" ELSE @]
  <2>1. t \in TaskRow /\ t.send \in {"push", task[h].send} /\ t.camp = task[h].camp
    BY <1>0 DEF TaskRow, Before
  <2>2. Goto(h, t) /\ UNCHANGED <<camp, pushes>>
    BY <1>5 DEF NotifyEmployee
  <2> HIDE DEF t
  <2>3. Goes(h, t)
    BY <1>5, <2>1 DEF Goes, NotifyEmployee, Sending, Before
  <2> QED
    BY <2>1, <2>2, <2>3, OnlyTask
<1>6. ASSUME NEW e \in Employees, RecordOutcome(h, e)
      PROVE  Fine
  <2> DEFINE t == [task[h] EXCEPT !.todo = @ \ {e},
                                  !.send = IF task[h].todo = {e} THEN "finish" ELSE @]
  <2>1. t \in TaskRow /\ t.send \in {"finish", task[h].send} /\ t.camp = task[h].camp
    BY <1>0 DEF TaskRow, Before
  <2>2. Goto(h, t) /\ UNCHANGED <<camp, pushes>>
    BY <1>6 DEF RecordOutcome
  <2> HIDE DEF t
  <2>3. Goes(h, t)
    BY <1>6, <2>1 DEF Goes, RecordOutcome, Sending, Before
  <2> QED
    BY <2>1, <2>2, <2>3, OnlyTask
<1> QED
  BY <1>1, <1>2, <1>3, <1>4, <1>5, <1>6 DEF Dispatch

\* A handler begins a dispatch, or is done with one, and stays out of it.
LEMMA StaysOut ==
  ASSUME IInv, NEW h \in Handlers, NEW t \in TaskRow, Goto(h, t), UNCHANGED <<camp, pushes>>,
         t.send = "none" \/ (t.send = "claim" /\ t.camp \in Campaigns)
  PROVE  Fine
BY OnlyTask DEF Goes

\* A campaign is born and its maker goes on to dispatch it.
LEMMA Occurrence ==
  ASSUME IInv, NEW h \in Handlers, NEW t \in TaskRow, Goto(h, t), UNCHANGED pushes,
         NEW o \in Campaigns, t.send = "claim", t.camp = o, NextId(o),
         NEW i \in Images \cup {NoImage}, NEW k \in Campaigns \cup Employees,
         Set(o, NewRow("DRAFT", "never", i, k))
  PROVE  Fine
<1> DEFINE row == NewRow("DRAFT", "never", i, k)
<1>1. row \in CampRow /\ row.live /\ row.status = "DRAFT" /\ "DRAFT" \in Open
  BY NewRowTyped DEF Open
<1>2. Wrote(o, row) /\ camp[o].status = "none"
  BY DEF Set, Wrote, NextId, Unused
<1> HIDE DEF row
<1>3. Change(o, row)
  BY <1>1, <1>2 DEF Change, Born
<1> QED
  BY <1>1, <1>2, <1>3 DEF Fine, CampStep, OneChange, TaskStep, Goes

LEMMA Ticks ==
  ASSUME IInv, NEW h \in Tickers, Tick(h)
  PROVE  Fine
<1>0. h \in Handlers /\ task[h] \in TaskRow
  BY DEF IInv, Types, Handlers
<1>1. CASE TickRecover(h)
  <2> DEFINE t == [Idle EXCEPT !.tick = "scan"]
  <2>1. t \in TaskRow /\ t.send = "none"
    BY DEF Idle, TaskRow
  <2>2. Goto(h, t) /\ UNCHANGED pushes
    BY <1>1 DEF TickRecover
  <2> HIDE DEF t
  <2>3. TaskStep
    BY <1>0, <2>1, <2>2 DEF TaskStep, Goes
  <2> DEFINE new(c) == IF Live(c) /\ camp[c].status = "SENDING" /\ camp[c].stale
                       THEN [camp[c] EXCEPT !.status = "DELIVERY_UNKNOWN", !.stale = FALSE]
                       ELSE camp[c]
  <2>4. camp' = [c \in Campaigns |-> new(c)]
    BY <1>1 DEF TickRecover
  <2>5. ASSUME NEW c \in Campaigns
        PROVE  /\ new(c) \in CampRow
               /\ \/ new(c) = camp[c]
                  \/ camp[c].status = "SENDING" /\ new(c).live /\ new(c).status \in Closed
    <3>1. camp[c] \in CampRow
      BY DEF IInv, Types
    <3>2. CASE Live(c) /\ camp[c].status = "SENDING" /\ camp[c].stale
      <4> DEFINE row == [camp[c] EXCEPT !.status = "DELIVERY_UNKNOWN", !.stale = FALSE]
      <4>1. row \in CampRow /\ row.live = camp[c].live /\ row.status = "DELIVERY_UNKNOWN"
        BY <3>1 DEF CampRow, Statuses, Closed
      <4>2. new(c) = row
        BY <3>2
      <4> HIDE DEF row, new
      <4> QED
        BY <3>2, <4>1, <4>2 DEF Live, Closed
    <3>3. CASE ~(Live(c) /\ camp[c].status = "SENDING" /\ camp[c].stale)
      BY <3>1, <3>3
    <3> QED
      BY <3>2, <3>3
  <2> HIDE DEF new
  <2>6. Swept
    BY <2>4, <2>5 DEF Swept
  <2> QED
    BY <2>2, <2>3, <2>6 DEF Fine, CampStep
<1>2. CASE TickScan(h)
  <2>1. PICK due \in SUBSET Campaigns : Goto(h, [Idle EXCEPT !.tick = "due", !.due = due])
    BY <1>2 DEF TickScan
  <2> DEFINE t == [Idle EXCEPT !.tick = "due", !.due = due]
  <2>2. t \in TaskRow /\ t.send = "none"
    BY DEF Idle, TaskRow
  <2>3. Goto(h, t) /\ UNCHANGED <<camp, pushes>>
    BY <1>2, <2>1 DEF TickScan
  <2> HIDE DEF t
  <2> QED
    BY <1>0, <2>2, <2>3, StaysOut
<1>3. ASSUME NEW c \in Campaigns, TickDispatch(h, c)
      PROVE  Fine
  <2> DEFINE t == [task[h] EXCEPT !.due = @ \ {c}, !.send = "claim", !.camp = c]
  <2>1. t \in TaskRow /\ t.send = "claim" /\ t.camp = c
    BY <1>0 DEF TaskRow
  <2>2. Goto(h, t) /\ UNCHANGED <<camp, pushes>>
    BY <1>3 DEF TickDispatch
  <2> HIDE DEF t
  <2> QED
    BY <1>0, <2>1, <2>2, StaysOut
<1>4. CASE TickTemplates(h)
  <2>1. PICK T : T = {<<c, camp[c].image>> : c \in {d \in Campaigns : Live(d) /\ camp[d].status = "AUTOMATIC"}}
    OBVIOUS
  <2>2. \A c \in Campaigns : camp[c].image \in Images \cup {NoImage}
    BY DEF IInv, Types, CampRow
  <2>3. T \in SUBSET (Campaigns \X (Images \cup {NoImage}))
    BY <2>1, <2>2
  <2> DEFINE t == [Idle EXCEPT !.tick = "auto", !.templates = T]
  <2>4. t \in TaskRow /\ t.send = "none"
    BY <2>3 DEF Idle, TaskRow
  <2>5. Goto(h, t) /\ UNCHANGED <<camp, pushes>>
    BY <1>4, <2>1 DEF TickTemplates
  <2> HIDE DEF t
  <2> QED
    BY <1>0, <2>4, <2>5, StaysOut
<1>5. CASE TickEnd(h)
  <2>1. Idle \in TaskRow /\ Idle.send = "none" /\ Goto(h, Idle) /\ UNCHANGED <<camp, pushes>>
    BY <1>5 DEF Idle, TaskRow, TickEnd
  <2> QED
    BY <1>0, <2>1, StaysOut
<1>6. ASSUME NEW x \in task[h].templates, NEW o \in Campaigns, TickOccurrence(h, x, o)
      PROVE  Fine
  <2>1. x \in Campaigns \X (Images \cup {NoImage})
    BY <1>0 DEF TaskRow
  <2>2. x[1] \in Campaigns /\ x[2] \in Images \cup {NoImage}
    BY <2>1
  <2>3. CASE KeyTaken(x[1]) \/ Unused = {}
    <3> DEFINE t == [task[h] EXCEPT !.templates = @ \ {x}]
    <3>1. t \in TaskRow /\ t.send = "none"
      BY <1>0, <1>6 DEF TaskRow, TickOccurrence
    <3>2. Goto(h, t) /\ UNCHANGED <<camp, pushes>>
      BY <1>6, <2>3 DEF TickOccurrence
    <3> HIDE DEF t
    <3> QED
      BY <1>0, <3>1, <3>2, StaysOut
  <2>4. CASE ~(KeyTaken(x[1]) \/ Unused = {})
    <3> DEFINE t == [task[h] EXCEPT !.templates = @ \ {x}, !.send = "claim", !.camp = o]
    <3>1. t \in TaskRow /\ t.send = "claim" /\ t.camp = o
      BY <1>0 DEF TaskRow
    <3>2. /\ Goto(h, t) /\ UNCHANGED pushes /\ NextId(o)
          /\ Set(o, NewRow("DRAFT", "never", x[2], x[1]))
      BY <1>6, <2>4 DEF TickOccurrence
    <3> HIDE DEF t
    <3> QED
      BY <1>0, <2>2, <3>1, <3>2, Occurrence
  <2> QED
    BY <2>3, <2>4
<1> QED
  BY <1>1, <1>2, <1>3, <1>4, <1>5, <1>6 DEF Tick

LEMMA Step ==
  IInv /\ [CampaignNext]_campaignVars => IInv' /\ [Once!Next]_Once!onceVars
<1> SUFFICES ASSUME IInv, [CampaignNext]_campaignVars
             PROVE  IInv' /\ [Once!Next]_Once!onceVars
  OBVIOUS
<1>1. ASSUME NEW c \in Campaigns, NEW i \in Images \cup {NoImage},
             NEW s \in {"DRAFT", "SCHEDULED", "AUTOMATIC"},
             \/ CreateCampaign(c, s, i) \/ UpdateCampaign(c, i) \/ ScheduleCampaign(c)
             \/ CancelCampaign(c) \/ DeleteCampaign(c) \/ BecomesDue(c) \/ LockGetsStale(c)
      PROVE  Fine
  BY <1>1, Administration
<1>2. ASSUME NEW c \in Campaigns, NEW h \in Servers, SendCampaign(h, c)
      PROVE  Fine
  <2> DEFINE t == [Idle EXCEPT !.send = "claim", !.camp = c]
  <2>1. t \in TaskRow /\ t.send = "claim" /\ t.camp = c /\ h \in Handlers
    BY DEF Idle, TaskRow, Handlers
  <2>2. Goto(h, t) /\ UNCHANGED <<camp, pushes>>
    BY <1>2 DEF SendCampaign
  <2> HIDE DEF t
  <2> QED
    BY <2>1, <2>2, StaysOut
<1>3. ASSUME NEW o \in Campaigns, NEW h \in Servers, NEW e \in Employees, BirthdayWish(h, e, o)
      PROVE  Fine
  <2> DEFINE t == [Idle EXCEPT !.send = "claim", !.camp = o]
  <2>1. t \in TaskRow /\ t.send = "claim" /\ t.camp = o /\ h \in Handlers
    BY DEF Idle, TaskRow, Handlers
  <2>2. /\ Goto(h, t) /\ UNCHANGED pushes /\ NextId(o)
        /\ Set(o, NewRow("DRAFT", "never", NoImage, e))
    BY <1>3 DEF BirthdayWish
  <2> HIDE DEF t
  <2> QED
    BY <2>1, <2>2, Occurrence
<1>4. ASSUME NEW h \in Handlers, Crash(h)
      PROVE  Fine
  <2>1. Idle \in TaskRow /\ Idle.send = "none" /\ Goto(h, Idle) /\ UNCHANGED <<camp, pushes>>
    BY <1>4 DEF Idle, TaskRow, Crash
  <2> QED
    BY <2>1, StaysOut
<1>5. ASSUME NEW i \in Images, UploadImage(i) \/ SevenDaysPass(i)
      PROVE  Fine
  BY <1>5 DEF UploadImage, SevenDaysPass, Fine, CampStep, TaskStep
<1>6. CASE CleanupImages
  BY <1>6, FineStep DEF CleanupImages, Fine, CampStep, TaskStep
<1>7. CASE UNCHANGED campaignVars
  BY <1>7, FineStep DEF campaignVars, Fine, CampStep, TaskStep
<1>8. ASSUME NEW h \in Handlers, Dispatch(h)
      PROVE  IInv' /\ [Once!Next]_Once!onceVars
  BY <1>8, PushStep, Statements, FineStep
<1>9. ASSUME NEW h \in Tickers, Tick(h)
      PROVE  Fine
  BY <1>9, Ticks
<1> QED
  BY <1>1, <1>2, <1>3, <1>4, <1>5, <1>6, <1>7, <1>8, <1>9, FineStep DEF CampaignNext

\* Rows are typed, an unclaimed campaign was never pushed, and a campaign has one
\* sender, who did not push it before: the invariant of every behaviour.
THEOREM CampaignInvariant == CampaignSpec => []IInv
<1>1. IInv /\ [CampaignNext]_campaignVars => IInv'
  BY Step
<1> QED
  BY <1>1, InitEstablishes, PTL DEF CampaignSpec

\* OneSender (sendCampaign's claim), for any number of campaigns, handlers and
\* crashes: no stale lock, edit or restart hands a campaign to a second sender.
THEOREM OneSenderEver == CampaignSpec => []OneSender
<1>1. IInv => OneSender
  <2> SUFFICES ASSUME IInv, NEW h \in Handlers, Sending(h)
               PROVE  /\ camp[task[h].camp].status \in Closed \cup {"SENDING"}
                      /\ \A g \in Handlers \ {h} : Sending(g) => task[g].camp # task[h].camp
    BY DEF OneSender
  <2> QED
    BY DEF IInv, Senders, Taken
<1> QED
  BY <1>1, CampaignInvariant, PTL

\* Dispatch implements CampaignOnce, its safety: a campaign is claimed once, closed
\* once, and pushed at most once to anybody, whatever crashes and goes stale.
THEOREM DispatchImplementsOnce ==
  CampaignSpec => Once!Init /\ [][Once!Next]_Once!onceVars
<1>1. CampaignInit => Once!Init
  <2> SUFFICES ASSUME CampaignInit PROVE Once!Init
    OBVIOUS
  <2>1. \A c \in Campaigns : Phase(c) = "none"
    <3>1. \A c \in Campaigns : camp[c].status = "none"
      BY DEF CampaignInit
    <3> QED
      BY <3>1, InitEstablishes, PhaseValues DEF IInv
  <2>2. \A c \in Campaigns : {e \in Employees : pushes[c][e] > 0} = {}
    BY DEF CampaignInit
  <2> QED
    BY <2>1, <2>2 DEF Once!Init
<1>2. IInv /\ [CampaignNext]_campaignVars => [Once!Next]_Once!onceVars
  BY Step
<1> QED
  BY <1>1, <1>2, CampaignInvariant, PTL DEF CampaignSpec

-----------------------------------------------------------------------------
(* What the notifications of a campaign tell *)

NoteRow == [status : Outcomes, image : Images \cup {NoImage}]
NotesTyped == note \in [Campaigns -> [Employees -> NoteRow \cup {NoNote}]]

\* The outcome a dispatch in state t records for e.
Result(t, e) ==
  IF e \notin Reachable THEN "IN_APP_ONLY"
  ELSE IF e \in t.failed THEN "FAILED" ELSE "SENT"

\* Notes n, those of the campaign a dispatch in state t is at.
Stage(t, n) ==
  /\ t.send = "resolve" => \A e \in Employees : n[e] = NoNote
  /\ t.send \in {"notify", "push"} =>
       \A e \in Employees : n[e] # NoNote <=> e \in t.audience \ t.todo
  /\ t.send \in {"push", "finish"} => t.todo = {}
  /\ t.send \in {"notify", "record"} => t.todo \subseteq t.audience
  /\ t.send \in {"record", "finish"} =>
       /\ t.failed \subseteq t.audience \cap Reachable
       /\ \A e \in Employees :
            /\ n[e] # NoNote <=> e \in t.audience
            /\ e \in t.audience \ t.todo => n[e].status = Result(t, e)

\* Notes n of a campaign with status s: none before the claim, and what a report
\* says of them is so.
Reported(s, n) ==
  /\ s \notin Taken => \A e \in Employees : n[e] = NoNote
  /\ s = "SENT" => \A e \in Employees : n[e] # NoNote => n[e].status \in {"SENT", "IN_APP_ONLY"}
  /\ s = "COMPLETED_WITH_ERRORS" =>
       /\ \E e \in Employees : n[e] # NoNote /\ n[e].status = "FAILED"
       /\ \A e \in Employees : n[e] # NoNote => n[e].status # "PENDING"

Ongoing == {"SENDING", "DELIVERY_UNKNOWN"}
Told ==
  /\ \A h \in Handlers : Sending(h) =>
       camp[task[h].camp].status \in Ongoing /\ Stage(task[h], note[task[h].camp])
  /\ \A c \in Campaigns : Reported(camp[c].status, note[c])

NInv == NotesTyped /\ Told

\* Nobody becomes a sender, and who sends stays where it was.
TaskQuiet == \A g \in Handlers : Sending(g)' => task'[g] = task[g]
\* No campaign is claimed, nor concluded by its sender.
CampQuiet ==
  \A c \in Campaigns :
    \/ camp'[c].status = camp[c].status
    \/ camp'[c].status \notin Taken /\ camp[c].status \notin Taken
    \/ camp'[c].status = "DELIVERY_UNKNOWN" /\ camp[c].status \in Ongoing

LEMMA QuietStep ==
  ASSUME IInv, NInv, TaskQuiet, CampQuiet, UNCHANGED note
  PROVE  NInv'
<1>1. \A c \in Campaigns : Reported(camp'[c].status, note[c])
  BY DEF NInv, Told, CampQuiet, Reported, Ongoing, Taken, Closed
<1>2. ASSUME NEW h \in Handlers, Sending(h)'
      PROVE  camp'[task'[h].camp].status \in Ongoing /\ Stage(task'[h], note[task'[h].camp])
  <2>1. task'[h] = task[h] /\ Sending(h) /\ task[h].camp \in Campaigns
    BY <1>2 DEF TaskQuiet, Sending, IInv, Senders
  <2>2. camp[task[h].camp].status \in Ongoing /\ Stage(task[h], note[task[h].camp])
    BY <2>1 DEF NInv, Told
  <2>3. camp'[task[h].camp].status \in Ongoing
    BY <2>1, <2>2 DEF CampQuiet, Ongoing, Taken, Closed
  <2> QED
    BY <2>1, <2>2, <2>3
<1> QED
  BY <1>1, <1>2 DEF NInv, NotesTyped, Told

LEMMA QuietTask ==
  ASSUME IInv, NEW h \in Handlers, NEW t \in TaskRow, Goto(h, t), t.send \in {"none", "claim"}
  PROVE  TaskQuiet
BY WentTo DEF IInv, TaskQuiet, Sending

LEMMA QuietCamp ==
  ASSUME IInv, NEW c \in Campaigns, NEW row \in CampRow, Set(c, row),
         \/ row.status = camp[c].status
         \/ row.status \notin Taken /\ camp[c].status \notin Taken
         \/ row.status = "DELIVERY_UNKNOWN" /\ camp[c].status \in Ongoing
  PROVE  CampQuiet
BY DEF IInv, Types, Set, CampQuiet

\* The sender h of c goes on to t, and the notes of c become n.
LEMMA SenderWrites ==
  ASSUME IInv, NInv, NEW h \in Handlers, NEW t \in TaskRow, Sending(h), Goto(h, t),
         t.send \notin {"none", "claim"}, t.camp = task[h].camp, UNCHANGED camp,
         NEW n \in [Employees -> NoteRow \cup {NoNote}],
         note' = [note EXCEPT ![t.camp] = n], Stage(t, n)
  PROVE  NInv'
<1>1. PICK c \in Campaigns : c = t.camp
  BY DEF IInv, Senders, Sending
<1>2. /\ task'[h] = t /\ \A g \in Handlers \ {h} : task'[g] = task[g]
      /\ note'[c] = n /\ \A d \in Campaigns \ {c} : note'[d] = note[d]
      /\ NotesTyped'
  BY <1>1, WentTo DEF IInv, NInv, NotesTyped
<1>3. camp[c].status \in Ongoing
  BY <1>1 DEF NInv, Told
<1>4. ASSUME NEW g \in Handlers, Sending(g)'
      PROVE  camp'[task'[g].camp].status \in Ongoing /\ Stage(task'[g], note'[task'[g].camp])
  <2>1. CASE g = h
    BY <1>1, <1>2, <1>3, <2>1
  <2>2. CASE g # h
    <3>1. task'[g] = task[g] /\ Sending(g) /\ task[g].camp \in Campaigns \ {c}
      BY <1>1, <1>2, <1>4, <2>2 DEF Sending, IInv, Senders
    <3> QED
      BY <1>2, <3>1 DEF NInv, Told
  <2> QED
    BY <2>1, <2>2
<1>5. \A d \in Campaigns : Reported(camp'[d].status, note'[d])
  <2>1. Reported(camp[c].status, n)
    BY <1>3 DEF Reported, Ongoing, Taken, Closed
  <2> QED
    BY <1>2, <2>1 DEF NInv, Told
<1> QED
  BY <1>2, <1>4, <1>5 DEF NInv, Told

\* The sender h of c reports s, which is so.
LEMMA ConcludeTells ==
  ASSUME IInv, NInv, NEW h \in Handlers, NEW s \in Closed, Sending(h), Conclude(h, s),
         UNCHANGED note, Reported(s, note[task[h].camp])
  PROVE  NInv'
<1>1. PICK c \in Campaigns : c = task[h].camp
  BY DEF Sending, IInv, Senders
<1> DEFINE t == [Idle EXCEPT !.tick = task[h].tick, !.due = task[h].due, !.templates = task[h].templates]
<1>2. t \in TaskRow /\ t.send = "none" /\ Goto(h, t)
  BY DEF Idle, TaskRow, Conclude, Done, IInv, Types
<1> HIDE DEF t
<1>3. task'[h] = t /\ \A g \in Handlers \ {h} : task'[g] = task[g]
  BY <1>2, WentTo DEF IInv
<1>4. /\ camp'[c].status \in {camp[c].status, s}
      /\ \A d \in Campaigns \ {c} : camp'[d] = camp[d]
  <2> DEFINE row == [camp[c] EXCEPT !.status = s, !.stale = FALSE]
  <2>1. row \in CampRow /\ row.status = s
    BY DEF IInv, Types, CampRow, Statuses
  <2>2. UNCHANGED camp \/ Wrote(c, row)
    BY <1>1 DEF Conclude, Set, Wrote
  <2> HIDE DEF row
  <2> QED
    BY <2>1, <2>2, WroteRow DEF IInv
<1>5. ASSUME NEW g \in Handlers, Sending(g)'
      PROVE  camp'[task'[g].camp].status \in Ongoing /\ Stage(task'[g], note[task'[g].camp])
  <2>1. g # h /\ task'[g] = task[g] /\ Sending(g)
    BY <1>2, <1>3, <1>5 DEF Sending
  <2>2. task[g].camp \in Campaigns \ {c}
    BY <1>1, <2>1 DEF IInv, Senders, Sending
  <2> QED
    BY <1>4, <2>1, <2>2 DEF NInv, Told
<1>6. \A d \in Campaigns : Reported(camp'[d].status, note[d])
  BY <1>1, <1>4 DEF NInv, Told
<1> QED
  BY <1>5, <1>6 DEF NInv, NotesTyped, Told

LEMMA EditsTyped ==
  ASSUME NEW c \in Campaigns, camp[c] \in CampRow, camp[c].status \in Open, NEW edit \in Edits(c)
  PROVE  edit[1] \in Open /\ edit[2] \in {"never", "later", "past"}
<1>1. CASE edit \in {<<"SCHEDULED", "later">>, <<"DRAFT", "never">>}
  BY <1>1 DEF Open
<1>2. CASE edit \in {camp[c].status, "DRAFT", "SCHEDULED", "AUTOMATIC"} \X {camp[c].when}
  <2>1. edit[1] \in {camp[c].status, "DRAFT", "SCHEDULED", "AUTOMATIC"} /\ edit[2] = camp[c].when
    BY <1>2
  <2> QED
    BY <2>1 DEF Open, CampRow
<1> QED
  BY <1>1, <1>2 DEF Edits

LEMMA DoneQuiet ==
  ASSUME IInv, NEW h \in Handlers, Done(h)
  PROVE  TaskQuiet
<1> DEFINE t == [Idle EXCEPT !.tick = task[h].tick, !.due = task[h].due, !.templates = task[h].templates]
<1>1. task[h] \in TaskRow
  BY DEF IInv, Types
<1>2. t \in TaskRow /\ t.send = "none" /\ Goto(h, t)
  BY <1>1 DEF Idle, TaskRow, Done
<1> HIDE DEF t
<1> QED
  BY <1>2, QuietTask

\* Requests of administrators, and time.
LEMMA AdministrationTells ==
  ASSUME IInv, NInv, NEW c \in Campaigns, NEW i \in Images \cup {NoImage},
         NEW s \in {"DRAFT", "SCHEDULED", "AUTOMATIC"},
         \/ CreateCampaign(c, s, i) \/ UpdateCampaign(c, i) \/ ScheduleCampaign(c)
         \/ CancelCampaign(c) \/ DeleteCampaign(c) \/ BecomesDue(c) \/ LockGetsStale(c)
  PROVE  NInv'
<1>0. camp[c] \in CampRow /\ Open \cap Taken = {} /\ UNCHANGED <<task, note>>
  BY Distinct DEF IInv, Types, Taken, CreateCampaign, UpdateCampaign, ScheduleCampaign, CancelCampaign,
         DeleteCampaign, BecomesDue, LockGetsStale
<1>1. TaskQuiet
  BY <1>0 DEF TaskQuiet
<1>2. SUFFICES CampQuiet
  BY <1>0, <1>1, QuietStep
<1>3. SUFFICES \E row \in CampRow : Set(c, row) /\ \/ row.status = camp[c].status
                                                   \/ row.status \in Open /\ camp[c].status \notin Taken
  BY <1>0, QuietCamp
<1>4. CASE CreateCampaign(c, s, i)
  <2>1. PICK w \in {"never", "later", "past"} : Set(c, NewRow(s, w, i, NoKey))
    BY <1>4 DEF CreateCampaign
  <2>2. s \in Open /\ camp[c].status = "none"
    BY <1>4 DEF Open, CreateCampaign, NextId, Unused
  <2> QED
    BY <2>1, <2>2, NewRowTyped, Distinct
<1>5. CASE UpdateCampaign(c, i)
  <2>1. PICK edit \in Edits(c) :
          Set(c, [camp[c] EXCEPT !.status = edit[1], !.when = edit[2], !.image = i])
    BY <1>5 DEF UpdateCampaign
  <2> DEFINE row == [camp[c] EXCEPT !.status = edit[1], !.when = edit[2], !.image = i]
  <2>2. edit[1] \in Open /\ edit[2] \in {"never", "later", "past"} /\ camp[c].status \in Open
    BY <1>0, <1>5, EditsTyped DEF UpdateCampaign
  <2>3. row \in CampRow /\ row.status = edit[1]
    BY <1>0, <2>2 DEF CampRow, Statuses
  <2> QED
    BY <1>0, <2>1, <2>2, <2>3
<1>6. CASE ScheduleCampaign(c) \/ CancelCampaign(c)
  <2>1. PICK status \in {"SCHEDULED", "CANCELLED"}, w \in {"later", camp[c].when} :
          Set(c, [camp[c] EXCEPT !.status = status, !.when = w])
    <3>1. [camp[c] EXCEPT !.status = "CANCELLED"] = [camp[c] EXCEPT !.status = "CANCELLED", !.when = camp[c].when]
      BY <1>0 DEF CampRow
    <3> QED
      BY <1>6, <3>1 DEF ScheduleCampaign, CancelCampaign
  <2> DEFINE row == [camp[c] EXCEPT !.status = status, !.when = w]
  <2>2. row \in CampRow /\ row.status = status /\ status \in Open
    BY <1>0, <2>1 DEF CampRow, Statuses, Open
  <2>3. camp[c].status \notin Taken
    BY <1>6 DEF ScheduleCampaign, CancelCampaign, Taken, Closed
  <2> QED
    BY <2>1, <2>2, <2>3
<1>7. CASE DeleteCampaign(c)
  <2>1. [camp[c] EXCEPT !.live = FALSE] \in CampRow /\ [camp[c] EXCEPT !.live = FALSE].status = camp[c].status
    BY <1>0 DEF CampRow
  <2> QED
    BY <1>7, <2>1 DEF DeleteCampaign
<1>8. CASE BecomesDue(c)
  <2>1. [camp[c] EXCEPT !.when = "past"] \in CampRow /\ [camp[c] EXCEPT !.when = "past"].status = camp[c].status
    BY <1>0 DEF CampRow
  <2> QED
    BY <1>8, <2>1 DEF BecomesDue
<1>9. CASE LockGetsStale(c)
  <2>1. [camp[c] EXCEPT !.stale = TRUE] \in CampRow /\ [camp[c] EXCEPT !.stale = TRUE].status = camp[c].status
    BY <1>0 DEF CampRow
  <2> QED
    BY <1>9, <2>1 DEF LockGetsStale
<1> QED
  BY <1>4, <1>5, <1>6, <1>7, <1>8, <1>9

\* The claim: nothing was noted of the campaign.
LEMMA ClaimTells ==
  ASSUME IInv, NInv, NEW h \in Handlers, ClaimCampaign(h)
  PROVE  NInv'
<1>1. PICK c \in Campaigns : c = task[h].camp
  BY DEF ClaimCampaign, IInv, Senders
<1>2. camp[c] \in CampRow /\ task[h] \in TaskRow /\ UNCHANGED note
  BY DEF IInv, Types, ClaimCampaign
<1>3. CASE Live(c) /\ camp[c].status \in Sendable
  <2> DEFINE row == [camp[c] EXCEPT !.status = "SENDING", !.stale = FALSE]
             t == [task[h] EXCEPT !.send = "resolve"]
  <2>1. row \in CampRow /\ row.status = "SENDING"
    BY <1>2 DEF CampRow, Statuses
  <2>2. t \in TaskRow /\ t.send = "resolve" /\ t.camp = c
    BY <1>1, <1>2 DEF TaskRow, Before
  <2>3. Wrote(c, row) /\ Goto(h, t)
    BY <1>1, <1>3 DEF ClaimCampaign, Set, Wrote
  <2> HIDE DEF row, t
  <2>4. /\ task'[h] = t /\ \A g \in Handlers \ {h} : task'[g] = task[g]
        /\ camp'[c] = row /\ \A d \in Campaigns \ {c} : camp'[d] = camp[d]
    BY <2>1, <2>2, <2>3, WentTo, WroteRow DEF IInv
  <2>5. \A e \in Employees : note[c][e] = NoNote
    BY <1>3, Distinct DEF NInv, Told, Reported, Taken, Sendable, Closed
  <2>6. ASSUME NEW g \in Handlers, Sending(g)'
        PROVE  camp'[task'[g].camp].status \in Ongoing /\ Stage(task'[g], note[task'[g].camp])
    <3>1. CASE g = h
      BY <2>1, <2>2, <2>4, <2>5, <3>1 DEF Ongoing, Stage
    <3>2. CASE g # h
      <4>1. task'[g] = task[g] /\ Sending(g) /\ task[g].camp \in Campaigns
        BY <2>4, <2>6, <3>2 DEF Sending, IInv, Senders
      <4>2. camp[task[g].camp].status \in Ongoing /\ Stage(task[g], note[task[g].camp])
        BY <4>1 DEF NInv, Told
      <4>3. task[g].camp # c
        BY <1>3, <4>2 DEF Ongoing, Sendable
      <4> QED
        BY <2>4, <4>1, <4>2, <4>3
    <3> QED
      BY <3>1, <3>2
  <2>7. \A d \in Campaigns : Reported(camp'[d].status, note[d])
    <3>1. Reported("SENDING", note[c])
      BY DEF Reported, Taken
    <3> QED
      BY <2>1, <2>4, <3>1 DEF NInv, Told
  <2> QED
    BY <1>2, <2>6, <2>7 DEF NInv, NotesTyped, Told
<1>4. CASE ~(Live(c) /\ camp[c].status \in Sendable)
  <2>1. UNCHANGED camp /\ Done(h)
    BY <1>1, <1>4 DEF ClaimCampaign
  <2>2. TaskQuiet /\ CampQuiet
    BY <2>1, DoneQuiet DEF CampQuiet
  <2> QED
    BY <1>2, <2>2, QuietStep
<1> QED
  BY <1>3, <1>4

\* The statements of a dispatch after the claim.
LEMMA DispatchTells ==
  ASSUME IInv, NInv, NEW h \in Handlers, Dispatch(h)
  PROVE  NInv'
<1>0. task[h] \in TaskRow
  BY DEF IInv, Types
<1>n. Sending(h) => /\ task[h].camp \in Campaigns
                    /\ Stage(task[h], note[task[h].camp])
                    /\ note[task[h].camp] \in [Employees -> NoteRow \cup {NoNote}]
                    /\ note = [note EXCEPT ![task[h].camp] = note[task[h].camp]]
  BY DEF Sending, IInv, Senders, NInv, Told, NotesTyped
<1>1. CASE ClaimCampaign(h)
  BY <1>1, ClaimTells
<1>2. CASE SendFails(h)
  <2>1. /\ Sending(h) /\ Conclude(h, "DELIVERY_UNKNOWN") /\ UNCHANGED note
        /\ "DELIVERY_UNKNOWN" \in Closed
    BY <1>2 DEF SendFails, Sending, Closed
  <2>2. Reported("DELIVERY_UNKNOWN", note[task[h].camp])
    BY DEF Reported, Taken, Closed
  <2> QED
    BY <2>1, <2>2, ConcludeTells
<1>3. CASE FinishDispatch(h)
  <2>1. PICK n \in [Employees -> NoteRow \cup {NoNote}] : n = note[task[h].camp]
    BY <1>3, <1>n DEF FinishDispatch, Sending
  <2>2. Sending(h) /\ UNCHANGED note /\ Stage(task[h], n) /\ task[h].send = "finish"
    BY <1>3, <1>n, <2>1 DEF FinishDispatch, Sending
  <2>3. /\ task[h].todo = {} /\ task[h].failed \subseteq task[h].audience \cap Reachable
        /\ \A e \in Employees : /\ n[e] # NoNote <=> e \in task[h].audience
                                /\ e \in task[h].audience => n[e].status = Result(task[h], e)
    BY <2>2 DEF Stage
  <2>4. CASE task[h].failed # {}
    <3>1. Conclude(h, "COMPLETED_WITH_ERRORS") /\ "COMPLETED_WITH_ERRORS" \in Closed
      BY <1>3, <2>4 DEF FinishDispatch, Closed
    <3>2. PICK e \in task[h].failed : e \in Employees
      BY <1>0, <2>4 DEF TaskRow
    <3>3. n[e] # NoNote /\ n[e].status = "FAILED"
      BY <2>3, <3>2 DEF Result
    <3>4. Reported("COMPLETED_WITH_ERRORS", n)
      BY <2>3, <3>2, <3>3 DEF Reported, Result, Taken, Closed
    <3> QED
      BY <2>1, <2>2, <3>1, <3>4, ConcludeTells
  <2>5. CASE task[h].failed = {}
    <3>1. Conclude(h, "SENT") /\ "SENT" \in Closed
      BY <1>3, <2>5 DEF FinishDispatch, Closed
    <3>2. Reported("SENT", n)
      BY <2>3, <2>5 DEF Reported, Result, Taken, Closed
    <3> QED
      BY <2>1, <2>2, <3>1, <3>2, ConcludeTells
  <2> QED
    BY <2>4, <2>5
<1>4. CASE ResolveAudience(h)
  <2>1. PICK c \in Campaigns : c = task[h].camp
    BY <1>4 DEF ResolveAudience, IInv, Senders
  <2>2. Sending(h) /\ UNCHANGED note /\ "COMPLETED" \in Closed /\ task[h].send = "resolve"
    BY <1>4 DEF ResolveAudience, Sending, Closed
  <2>3. PICK S \in SUBSET Employees :
          IF S = {} THEN Conclude(h, "COMPLETED")
          ELSE /\ Goto(h, [task[h] EXCEPT !.send = "notify", !.todo = S, !.audience = S,
                                          !.image = camp[c].image])
               /\ UNCHANGED camp
    BY <1>4, <2>1 DEF ResolveAudience
  <2>4. CASE S = {}
    <3>1. Reported("COMPLETED", note[c])
      BY DEF Reported, Taken, Closed
    <3> QED
      BY <2>1, <2>2, <2>3, <2>4, <3>1, ConcludeTells
  <2>5. CASE S # {}
    <3> DEFINE t == [task[h] EXCEPT !.send = "notify", !.todo = S, !.audience = S, !.image = camp[c].image]
    <3>1. camp[c].image \in Images \cup {NoImage}
      BY DEF IInv, Types, CampRow
    <3>2. /\ t \in TaskRow /\ t.send = "notify" /\ t.camp = task[h].camp
          /\ t.todo = S /\ t.audience = S
      BY <1>0, <3>1 DEF TaskRow, Before
    <3>3. Goto(h, t) /\ UNCHANGED camp
      BY <2>3, <2>5
    <3> HIDE DEF t
    <3>4. Stage(t, note[c])
      BY <1>n, <2>1, <2>2, <3>2 DEF Stage
    <3> QED
      BY <1>n, <2>1, <2>2, <3>2, <3>3, <3>4, SenderWrites
  <2> QED
    BY <2>4, <2>5
<1>5. ASSUME NEW e \in Employees, NotifyEmployee(h, e)
      PROVE  NInv'
  <2> DEFINE t == [task[h] EXCEPT !.todo = @ \ {e},
                                  !.send = IF task[h].todo = {e} THEN "push" ELSE @]
             row == [status |-> "PENDING", image |-> task[h].image]
  <2>1. PICK c \in Campaigns : c = task[h].camp
    BY <1>5, <1>n DEF NotifyEmployee, Sending
  <2>2. PICK old \in [Employees -> NoteRow \cup {NoNote}] : old = note[c]
    BY <1>5, <1>n, <2>1 DEF NotifyEmployee, Sending
  <2> DEFINE n == IF old[e] = NoNote THEN [old EXCEPT ![e] = row] ELSE old
  <2>3. /\ t \in TaskRow /\ t.camp = c /\ t.todo = task[h].todo \ {e} /\ t.audience = task[h].audience
        /\ t.send = IF task[h].todo = {e} THEN "push" ELSE "notify"
    BY <1>0, <1>5, <2>1 DEF TaskRow, Before, NotifyEmployee
  <2>4. row \in NoteRow /\ row # NoNote
    BY <1>0, NoNoteAssumption DEF TaskRow, NoteRow, Outcomes
  <2>5. Goto(h, t) /\ UNCHANGED camp /\ task[h].send = "notify" /\ e \in task[h].todo
    BY <1>5 DEF NotifyEmployee
  <2>6. note' = [note EXCEPT ![c] = n]
    <3>1. CASE old[e] = NoNote
      BY <1>5, <2>1, <2>2, <3>1 DEF NotifyEmployee
    <3>2. CASE old[e] # NoNote
      BY <1>5, <2>1, <2>2, <3>2 DEF NotifyEmployee, NInv, NotesTyped
    <3> QED
      BY <3>1, <3>2
  <2> HIDE DEF row, t
  <2>7. /\ n \in [Employees -> NoteRow \cup {NoNote}] /\ n[e] # NoNote
        /\ \A d \in Employees \ {e} : n[d] = old[d]
    BY <2>4
  <2>8. Stage(task[h], old) /\ Sending(h)
    BY <1>n, <2>1, <2>2, <2>5 DEF Sending
  <2> HIDE DEF n
  <2>9. /\ \A d \in Employees : n[d] # NoNote <=> d \in t.audience \ t.todo
        /\ t.todo \subseteq t.audience /\ (t.send = "push" => t.todo = {})
    BY <2>3, <2>5, <2>7, <2>8 DEF Stage
  <2>10. Stage(t, n)
    BY <2>3, <2>9 DEF Stage
  <2> QED
    BY <2>1, <2>3, <2>5, <2>6, <2>7, <2>8, <2>10, SenderWrites
<1>6. CASE PushBatch(h)
  <2>1. PICK c \in Campaigns : c = task[h].camp
    BY <1>6, <1>n DEF PushBatch, Sending
  <2>2. PICK failed \in SUBSET (task[h].audience \cap Reachable) :
          Goto(h, [task[h] EXCEPT !.send = "record", !.todo = task[h].audience, !.failed = failed])
    BY <1>6 DEF PushBatch
  <2> DEFINE t == [task[h] EXCEPT !.send = "record", !.todo = task[h].audience, !.failed = failed]
  <2>3. /\ t \in TaskRow /\ t.send = "record" /\ t.camp = c /\ t.todo = task[h].audience
        /\ t.audience = task[h].audience /\ t.failed = failed
    BY <1>0, <2>1 DEF TaskRow
  <2>4. Goto(h, t) /\ UNCHANGED <<camp, note>> /\ Sending(h) /\ task[h].send = "push"
    BY <1>6, <2>2 DEF PushBatch, Sending
  <2> HIDE DEF t
  <2>5. Stage(t, note[c])
    BY <1>n, <2>1, <2>3, <2>4 DEF Stage
  <2> QED
    BY <1>n, <2>1, <2>3, <2>4, <2>5, SenderWrites
<1>7. ASSUME NEW e \in Employees, RecordOutcome(h, e)
      PROVE  NInv'
  <2> DEFINE t == [task[h] EXCEPT !.todo = @ \ {e},
                                  !.send = IF task[h].todo = {e} THEN "finish" ELSE @]
  <2>1. PICK c \in Campaigns : c = task[h].camp
    BY <1>7, <1>n DEF RecordOutcome, Sending
  <2>2. PICK old \in [Employees -> NoteRow \cup {NoNote}] : old = note[c]
    BY <1>7, <1>n, <2>1 DEF RecordOutcome, Sending
  <2>3. Stage(task[h], old) /\ Sending(h) /\ task[h].send = "record" /\ e \in task[h].todo
    BY <1>7, <1>n, <2>1, <2>2 DEF RecordOutcome, Sending
  <2>4. old[e] \in NoteRow
    BY <2>3 DEF Stage
  <2> DEFINE row == [old[e] EXCEPT !.status = Outcome(h, e)]
             n == [old EXCEPT ![e] = row]
  <2>5. row \in NoteRow /\ row # NoNote /\ row.status = Result(task[h], e)
    <3>1. Outcome(h, e) = Result(task[h], e) /\ Outcome(h, e) \in Outcomes
      BY DEF Outcome, Result, Outcomes
    <3>2. row \in NoteRow /\ row.status = Outcome(h, e)
      BY <2>4, <3>1 DEF NoteRow
    <3> QED
      BY <3>1, <3>2, NoNoteAssumption DEF NoteRow
  <2>6. note' = [note EXCEPT ![c] = n]
    BY <1>7, <2>1, <2>2 DEF RecordOutcome
  <2>7. /\ t \in TaskRow /\ t.camp = c /\ t.todo = task[h].todo \ {e} /\ t.audience = task[h].audience
        /\ t.send = (IF task[h].todo = {e} THEN "finish" ELSE "record") /\ t.failed = task[h].failed
    BY <1>0, <2>1, <2>3 DEF TaskRow
  <2>8. Goto(h, t) /\ UNCHANGED camp
    BY <1>7 DEF RecordOutcome
  <2> HIDE DEF row, t
  <2>9. /\ n \in [Employees -> NoteRow \cup {NoNote}] /\ n[e] = row
        /\ \A d \in Employees \ {e} : n[d] = old[d]
    BY <2>5
  <2> HIDE DEF n
  <2>10. \A d \in Employees : Result(t, d) = Result(task[h], d)
    BY <2>7 DEF Result
  <2>11. Stage(t, n)
    BY <2>3, <2>5, <2>7, <2>9, <2>10 DEF Stage
  <2> QED
    BY <2>1, <2>3, <2>6, <2>7, <2>8, <2>9, <2>11, SenderWrites
<1> QED
  BY <1>1, <1>2, <1>3, <1>4, <1>5, <1>6, <1>7 DEF Dispatch

\* An occurrence or a greeting is a new draft.
LEMMA BirthIsQuiet ==
  ASSUME IInv, NEW o \in Campaigns, NextId(o), NEW i \in Images \cup {NoImage},
         NEW k \in Campaigns \cup Employees, Set(o, NewRow("DRAFT", "never", i, k))
  PROVE  CampQuiet
<1>1. /\ NewRow("DRAFT", "never", i, k) \in CampRow /\ NewRow("DRAFT", "never", i, k).status = "DRAFT"
      /\ "DRAFT" \notin Taken /\ camp[o].status \notin Taken
  BY NewRowTyped DEF Open, Taken, Closed, NextId, Unused
<1> QED
  BY <1>1, QuietCamp

\* A step of the scheduler, and a birthday greeting: no campaign is claimed.
LEMMA TickTells ==
  ASSUME IInv, NInv, NEW h \in Tickers, Tick(h)
  PROVE  NInv'
<1>0. h \in Handlers /\ task[h] \in TaskRow /\ UNCHANGED note
  BY DEF IInv, Types, Handlers, Tick, TickRecover, TickScan, TickTemplates, TickEnd, TickDispatch,
         TickOccurrence
<1>i. Idle \in TaskRow
  BY DEF Idle, TaskRow
<1>1. TaskQuiet
  <2>1. SUFFICES \E t \in TaskRow : Goto(h, t) /\ t.send \in {"none", "claim"}
    BY <1>0, QuietTask
  <2>2. CASE TickRecover(h)
    <3>1. [Idle EXCEPT !.tick = "scan"] \in TaskRow /\ [Idle EXCEPT !.tick = "scan"].send = "none"
      BY DEF Idle, TaskRow
    <3> QED
      BY <2>2, <3>1 DEF TickRecover
  <2>3. CASE TickScan(h)
    <3>1. PICK due \in SUBSET Campaigns : Goto(h, [Idle EXCEPT !.tick = "due", !.due = due])
      BY <2>3 DEF TickScan
    <3>2. /\ [Idle EXCEPT !.tick = "due", !.due = due] \in TaskRow
          /\ [Idle EXCEPT !.tick = "due", !.due = due].send = "none"
      BY DEF Idle, TaskRow
    <3> QED
      BY <3>1, <3>2
  <2>4. ASSUME NEW c \in Campaigns, TickDispatch(h, c)
        PROVE  \E t \in TaskRow : Goto(h, t) /\ t.send \in {"none", "claim"}
    <3> DEFINE t == [task[h] EXCEPT !.due = @ \ {c}, !.send = "claim", !.camp = c]
    <3>1. t \in TaskRow /\ t.send = "claim"
      BY <1>0 DEF TaskRow
    <3> QED
      BY <2>4, <3>1 DEF TickDispatch
  <2>5. CASE TickTemplates(h)
    <3>1. PICK T : T = {<<c, camp[c].image>> : c \in {d \in Campaigns : Live(d) /\ camp[d].status = "AUTOMATIC"}}
      OBVIOUS
    <3>2. \A c \in Campaigns : camp[c].image \in Images \cup {NoImage}
      BY DEF IInv, Types, CampRow
    <3>3. T \in SUBSET (Campaigns \X (Images \cup {NoImage}))
      BY <3>1, <3>2
    <3> DEFINE t == [Idle EXCEPT !.tick = "auto", !.templates = T]
    <3>4. t \in TaskRow /\ t.send = "none"
      BY <3>3 DEF Idle, TaskRow
    <3> QED
      BY <2>5, <3>1, <3>4 DEF TickTemplates
  <2>6. CASE TickEnd(h)
    <3>1. Idle.send = "none"
      BY DEF Idle
    <3> QED
      BY <1>i, <2>6, <3>1 DEF TickEnd
  <2>7. ASSUME NEW x \in task[h].templates, NEW o \in Campaigns, TickOccurrence(h, x, o)
        PROVE  \E t \in TaskRow : Goto(h, t) /\ t.send \in {"none", "claim"}
    <3> DEFINE t == [task[h] EXCEPT !.templates = @ \ {x}]
               u == [task[h] EXCEPT !.templates = @ \ {x}, !.send = "claim", !.camp = o]
    <3>1. t \in TaskRow /\ t.send = task[h].send /\ u \in TaskRow /\ u.send = "claim"
      BY <1>0 DEF TaskRow
    <3> QED
      BY <2>7, <3>1 DEF TickOccurrence
  <2> QED
    BY <2>2, <2>3, <2>4, <2>5, <2>6, <2>7 DEF Tick
<1>2. CampQuiet
  <2>1. CASE UNCHANGED camp
    BY <2>1 DEF CampQuiet
  <2>2. CASE TickRecover(h)
    <3>1. ASSUME NEW c \in Campaigns
          PROVE  \/ camp'[c] = camp[c]
                 \/ camp'[c].status = "DELIVERY_UNKNOWN" /\ camp[c].status = "SENDING"
      <4>1. camp[c] \in CampRow
        BY DEF IInv, Types
      <4>2. [camp[c] EXCEPT !.status = "DELIVERY_UNKNOWN", !.stale = FALSE].status = "DELIVERY_UNKNOWN"
        BY <4>1 DEF CampRow
      <4>3. \/ camp'[c] = camp[c]
            \/ /\ camp[c].status = "SENDING"
               /\ camp'[c] = [camp[c] EXCEPT !.status = "DELIVERY_UNKNOWN", !.stale = FALSE]
        BY <2>2 DEF TickRecover
      <4> QED
        BY <4>2, <4>3
    <3> QED
      BY <3>1 DEF CampQuiet, Ongoing
  <2>3. ASSUME NEW x \in task[h].templates, NEW o \in Campaigns, TickOccurrence(h, x, o)
        PROVE  UNCHANGED camp \/ CampQuiet
    <3>1. x[1] \in Campaigns /\ x[2] \in Images \cup {NoImage}
      <4>1. x \in Campaigns \X (Images \cup {NoImage})
        BY <1>0 DEF TaskRow
      <4> QED
        BY <4>1
    <3>2. UNCHANGED camp \/ (NextId(o) /\ Set(o, NewRow("DRAFT", "never", x[2], x[1])))
      BY <2>3 DEF TickOccurrence
    <3> QED
      BY <3>1, <3>2, BirthIsQuiet
  <2>4. ASSUME NEW c \in Campaigns, TickDispatch(h, c)
        PROVE  UNCHANGED camp
    BY <2>4 DEF TickDispatch
  <2> QED
    BY <2>1, <2>2, <2>3, <2>4 DEF Tick, TickScan, TickTemplates, TickEnd
<1> QED
  BY <1>0, <1>1, <1>2, QuietStep

LEMMA ReportStep ==
  IInv /\ NInv /\ [CampaignNext]_campaignVars => NInv'
<1> SUFFICES ASSUME IInv, NInv, [CampaignNext]_campaignVars PROVE NInv'
  OBVIOUS
<1>i. Idle \in TaskRow /\ Idle.send = "none"
  BY DEF Idle, TaskRow
<1>r. UNCHANGED <<camp, task, note>> => NInv'
  BY QuietStep DEF TaskQuiet, CampQuiet
<1>1. ASSUME NEW c \in Campaigns, NEW i \in Images \cup {NoImage},
             NEW s \in {"DRAFT", "SCHEDULED", "AUTOMATIC"},
             \/ CreateCampaign(c, s, i) \/ UpdateCampaign(c, i) \/ ScheduleCampaign(c)
             \/ CancelCampaign(c) \/ DeleteCampaign(c) \/ BecomesDue(c) \/ LockGetsStale(c)
      PROVE  NInv'
  BY <1>1, AdministrationTells
<1>2. ASSUME NEW c \in Campaigns, NEW h \in Servers,
             SendCampaign(h, c) \/ \E e \in Employees : BirthdayWish(h, e, c)
      PROVE  NInv'
  <2> DEFINE t == [Idle EXCEPT !.send = "claim", !.camp = c]
  <2>1. t \in TaskRow /\ t.send = "claim" /\ h \in Handlers
    BY DEF Idle, TaskRow, Handlers
  <2>2. Goto(h, t) /\ UNCHANGED note
    BY <1>2 DEF SendCampaign, BirthdayWish
  <2>3. \/ UNCHANGED camp
        \/ \E e \in Employees : NextId(c) /\ Set(c, NewRow("DRAFT", "never", NoImage, e))
    BY <1>2 DEF SendCampaign, BirthdayWish
  <2> HIDE DEF t
  <2>4. CampQuiet
    BY <2>3, BirthIsQuiet DEF CampQuiet
  <2> QED
    BY <2>1, <2>2, <2>4, QuietTask, QuietStep
<1>3. ASSUME NEW h \in Handlers, Crash(h)
      PROVE  NInv'
  <2>1. Goto(h, Idle) /\ UNCHANGED <<camp, note>>
    BY <1>3 DEF Crash
  <2> QED
    BY <1>i, <2>1, QuietTask, QuietStep DEF CampQuiet
<1>4. ASSUME NEW i \in Images, UploadImage(i) \/ SevenDaysPass(i)
      PROVE  NInv'
  BY <1>4, <1>r DEF UploadImage, SevenDaysPass
<1>5. CASE CleanupImages \/ UNCHANGED campaignVars
  BY <1>5, <1>r DEF CleanupImages, campaignVars
<1> QED
  BY <1>1, <1>2, <1>3, <1>4, <1>5, DispatchTells, TickTells DEF CampaignNext

LEMMA NothingToldYet == CampaignInit => NInv
<1> SUFFICES ASSUME CampaignInit PROVE NInv
  OBVIOUS
<1>1. \A h \in Handlers : ~Sending(h)
  BY DEF CampaignInit, Sending, Idle
<1>2. ASSUME NEW c \in Campaigns PROVE Reported(camp[c].status, note[c])
  BY DEF CampaignInit, Reported
<1>3. NotesTyped
  BY DEF CampaignInit, NotesTyped
<1> QED
  BY <1>1, <1>2, <1>3 DEF NInv, Told

\* The notes a dispatch has made are those of the audience it has gone through,
\* with the outcome it computes: an invariant of every behaviour.
THEOREM NotesInvariant == CampaignSpec => []NInv
<1> QED
  BY NothingToldYet, ReportStep, CampaignInvariant, PTL DEF CampaignSpec

\* ReportIsTrue (sendCampaign's last update): a campaign reported SENT has only
\* settled notifications, and COMPLETED_WITH_ERRORS means one failed and none is
\* pending, for any number of employees, handlers, crashes and stale locks.
THEOREM ReportsAreTrue == CampaignSpec => []ReportIsTrue
<1>1. NInv => ReportIsTrue
  <2> SUFFICES ASSUME NInv, NEW c \in Campaigns
               PROVE  LET settled == {note[c][e].status : e \in {d \in Employees : note[c][d] # NoNote}}
                      IN /\ camp[c].status = "SENT" => settled \subseteq {"SENT", "IN_APP_ONLY"}
                         /\ camp[c].status = "COMPLETED_WITH_ERRORS" => "FAILED" \in settled /\ "PENDING" \notin settled
    BY DEF ReportIsTrue
  <2>1. Reported(camp[c].status, note[c])
    BY DEF NInv, Told
  <2> QED
    BY <2>1 DEF Reported
<1> QED
  BY <1>1, NotesInvariant, PTL

-----------------------------------------------------------------------------
(* Images *)

AssetsTyped == asset \in [Images -> [row : {"none", "fresh", "old"}, stored : BOOLEAN]]

\* A step of the campaigns never makes an administrator's campaign refer to an
\* image that is not stored.
Refers ==
  \A c \in Campaigns :
    camp'[c].live /\ camp'[c].key = NoKey /\ camp'[c].image # NoImage =>
      \/ camp[c].live /\ camp[c].key = NoKey /\ camp[c].image = camp'[c].image
      \/ asset[camp'[c].image].stored

LEMMA ReferenceWritten ==
  ASSUME IInv, NEW c \in Campaigns, NEW row \in CampRow, Set(c, row),
         row.live /\ row.key = NoKey /\ row.image # NoImage =>
           \/ camp[c].live /\ camp[c].key = NoKey /\ camp[c].image = row.image
           \/ asset[row.image].stored
  PROVE  Refers
BY WroteRow DEF Wrote, Set, Refers

LEMMA AdministrationRefers ==
  ASSUME IInv, NEW c \in Campaigns, NEW i \in Images \cup {NoImage},
         NEW s \in {"DRAFT", "SCHEDULED", "AUTOMATIC"},
         \/ CreateCampaign(c, s, i) \/ UpdateCampaign(c, i) \/ ScheduleCampaign(c)
         \/ CancelCampaign(c) \/ DeleteCampaign(c) \/ BecomesDue(c) \/ LockGetsStale(c)
  PROVE  Refers
<1>0. camp[c] \in CampRow
  BY DEF IInv, Types
<1>1. CASE CreateCampaign(c, s, i)
  <2>1. PICK w \in {"never", "later", "past"} : Set(c, NewRow(s, w, i, NoKey))
    BY <1>1 DEF CreateCampaign
  <2>2. s \in Open /\ (i # NoImage => asset[i].stored)
    BY <1>1 DEF Open, CreateCampaign, ValidImage
  <2>3. NewRow(s, w, i, NoKey) \in CampRow /\ NewRow(s, w, i, NoKey).image = i
    BY <2>2, NewRowTyped DEF NewRow
  <2> QED
    BY <2>1, <2>2, <2>3, ReferenceWritten
<1>2. CASE UpdateCampaign(c, i)
  <2>1. PICK edit \in Edits(c) :
          Set(c, [camp[c] EXCEPT !.status = edit[1], !.when = edit[2], !.image = i])
    BY <1>2 DEF UpdateCampaign
  <2> DEFINE row == [camp[c] EXCEPT !.status = edit[1], !.when = edit[2], !.image = i]
  <2>2. edit[1] \in Open /\ edit[2] \in {"never", "later", "past"}
    BY <1>0, <1>2, EditsTyped DEF UpdateCampaign
  <2>3. row \in CampRow /\ row.image = i /\ row.live = camp[c].live /\ row.key = camp[c].key
    BY <1>0, <2>2 DEF CampRow, Statuses
  <2>4. i # camp[c].image /\ i # NoImage => asset[i].stored
    BY <1>2 DEF UpdateCampaign, ValidImage
  <2> HIDE DEF row
  <2>5. Set(c, row)
    BY <2>1 DEF row
  <2> QED
    BY <2>3, <2>4, <2>5, ReferenceWritten
<1>3. ASSUME NEW row \in CampRow, Set(c, row), row.image = camp[c].image, row.key = camp[c].key,
             row.live => camp[c].live
      PROVE  Refers
  BY <1>3, ReferenceWritten
<1>4. CASE ScheduleCampaign(c)
  <2> DEFINE row == [camp[c] EXCEPT !.status = "SCHEDULED", !.when = "later"]
  <2>1. row \in CampRow /\ row.image = camp[c].image /\ row.live = camp[c].live /\ row.key = camp[c].key
    BY <1>0 DEF CampRow, Statuses, Open
  <2> QED
    BY <1>3, <1>4, <2>1 DEF ScheduleCampaign
<1>5. CASE CancelCampaign(c)
  <2> DEFINE row == [camp[c] EXCEPT !.status = "CANCELLED"]
  <2>1. row \in CampRow /\ row.image = camp[c].image /\ row.live = camp[c].live /\ row.key = camp[c].key
    BY <1>0 DEF CampRow, Statuses, Open
  <2> QED
    BY <1>3, <1>5, <2>1 DEF CancelCampaign
<1>6. CASE DeleteCampaign(c)
  <2> DEFINE row == [camp[c] EXCEPT !.live = FALSE]
  <2>1. row \in CampRow /\ row.image = camp[c].image /\ ~row.live /\ row.key = camp[c].key
    BY <1>0 DEF CampRow
  <2> QED
    BY <1>3, <1>6, <2>1 DEF DeleteCampaign
<1>7. CASE BecomesDue(c)
  <2> DEFINE row == [camp[c] EXCEPT !.when = "past"]
  <2>1. row \in CampRow /\ row.image = camp[c].image /\ row.live = camp[c].live /\ row.key = camp[c].key
    BY <1>0 DEF CampRow
  <2> QED
    BY <1>3, <1>7, <2>1 DEF BecomesDue
<1>8. CASE LockGetsStale(c)
  <2> DEFINE row == [camp[c] EXCEPT !.stale = TRUE]
  <2>1. row \in CampRow /\ row.image = camp[c].image /\ row.live = camp[c].live /\ row.key = camp[c].key
    BY <1>0 DEF CampRow
  <2> QED
    BY <1>3, <1>8, <2>1 DEF LockGetsStale
<1> QED
  BY <1>1, <1>2, <1>4, <1>5, <1>6, <1>7, <1>8

LEMMA OccurrenceRefers ==
  ASSUME IInv, NEW o \in Campaigns, NEW i \in Images \cup {NoImage},
         NEW k \in Campaigns \cup Employees, Set(o, NewRow("DRAFT", "never", i, k))
  PROVE  Refers
<1>1. /\ NewRow("DRAFT", "never", i, k) \in CampRow
      /\ NewRow("DRAFT", "never", i, k).key = k /\ k # NoKey
  BY NewRowTyped, CampaignAssumption DEF NewRow, Open
<1> QED
  BY <1>1, ReferenceWritten

\* A dispatch and the scheduler keep a campaign's image, and an occurrence is not
\* an administrator's.
LEMMA HandlersRefer ==
  ASSUME IInv, NEW h \in Handlers, Dispatch(h) \/ Crash(h) \/ (h \in Tickers /\ Tick(h))
  PROVE  Refers
<1>0. task[h] \in TaskRow
  BY DEF IInv, Types
<1>k. ASSUME \A c \in Campaigns : /\ camp'[c].image = camp[c].image /\ camp'[c].key = camp[c].key
                                  /\ camp'[c].live => camp[c].live
      PROVE  Refers
  BY <1>k DEF Refers
<1>1. CASE UNCHANGED camp
  BY <1>1, <1>k
<1>2. ASSUME NEW c \in Campaigns, NEW s \in Statuses,
             Set(c, [camp[c] EXCEPT !.status = s, !.stale = FALSE])
      PROVE  Refers
  <2> DEFINE row == [camp[c] EXCEPT !.status = s, !.stale = FALSE]
  <2>1. row \in CampRow /\ row.image = camp[c].image /\ row.live = camp[c].live /\ row.key = camp[c].key
    BY DEF IInv, Types, CampRow
  <2> QED
    BY <1>2, <2>1, ReferenceWritten
<1>3. ASSUME NEW s \in Closed, Sending(h), Conclude(h, s)
      PROVE  Refers
  <2>1. task[h].camp \in Campaigns /\ s \in Statuses
    BY <1>3 DEF Sending, IInv, Senders, Statuses
  <2> QED
    BY <1>1, <1>2, <1>3, <2>1 DEF Conclude
<1>4. CASE ClaimCampaign(h)
  <2>1. task[h].camp \in Campaigns /\ "SENDING" \in Statuses
    BY <1>4 DEF ClaimCampaign, IInv, Senders, Statuses
  <2> QED
    BY <1>1, <1>2, <1>4, <2>1 DEF ClaimCampaign
<1>5. CASE ResolveAudience(h) \/ FinishDispatch(h) \/ SendFails(h)
  BY <1>1, <1>3, <1>5 DEF ResolveAudience, FinishDispatch, SendFails, Sending, Closed
<1>6. CASE TickRecover(h)
  <2>1. ASSUME NEW c \in Campaigns
        PROVE  /\ camp'[c].image = camp[c].image /\ camp'[c].key = camp[c].key
               /\ camp'[c].live => camp[c].live
    <3> DEFINE row == [camp[c] EXCEPT !.status = "DELIVERY_UNKNOWN", !.stale = FALSE]
    <3>1. row.image = camp[c].image /\ row.live = camp[c].live /\ row.key = camp[c].key
      BY DEF IInv, Types, CampRow
    <3>2. camp'[c] \in {camp[c], row}
      BY <1>6 DEF TickRecover
    <3> QED
      BY <3>1, <3>2
  <2> QED
    BY <1>k, <2>1
<1>7. ASSUME NEW x \in task[h].templates, NEW o \in Campaigns, TickOccurrence(h, x, o)
      PROVE  Refers
  <2>1. x[1] \in Campaigns /\ x[2] \in Images \cup {NoImage}
    <3>1. x \in Campaigns \X (Images \cup {NoImage})
      BY <1>0 DEF TaskRow
    <3> QED
      BY <3>1
  <2>2. UNCHANGED camp \/ Set(o, NewRow("DRAFT", "never", x[2], x[1]))
    BY <1>7 DEF TickOccurrence
  <2> QED
    BY <1>1, <2>1, <2>2, OccurrenceRefers
<1>8. CASE Dispatch(h)
  BY <1>1, <1>4, <1>5, <1>8 DEF Dispatch, NotifyEmployee, PushBatch, RecordOutcome
<1>9. CASE h \in Tickers /\ Tick(h)
  BY <1>1, <1>6, <1>7, <1>9 DEF Tick, TickScan, TickTemplates, TickEnd, TickDispatch
<1>10. CASE Crash(h)
  BY <1>1, <1>10 DEF Crash
<1> QED
  BY <1>8, <1>9, <1>10

ImageInv == AssetsTyped /\ AdminImageKept

LEMMA ImageStep ==
  IInv /\ ImageInv /\ [CampaignNext]_campaignVars => ImageInv'
<1> SUFFICES ASSUME IInv, ImageInv, [CampaignNext]_campaignVars PROVE ImageInv'
  OBVIOUS
<1>t. /\ camp \in [Campaigns -> CampRow] /\ AssetsTyped
      /\ \A c \in Campaigns : camp[c].image \in Images \cup {NoImage}
  BY DEF IInv, Types, ImageInv, CampRow
<1>p. camp' \in [Campaigns -> CampRow] /\ \A c \in Campaigns : camp'[c].image \in Images \cup {NoImage}
  BY Step DEF IInv, Types, CampRow
<1>0. ASSUME Refers, UNCHANGED asset PROVE ImageInv'
  BY <1>0 DEF Refers, ImageInv, AssetsTyped, AdminImageKept, Live
<1>1. ASSUME NEW c \in Campaigns, NEW i \in Images \cup {NoImage},
             NEW s \in {"DRAFT", "SCHEDULED", "AUTOMATIC"},
             \/ CreateCampaign(c, s, i) \/ UpdateCampaign(c, i) \/ ScheduleCampaign(c)
             \/ CancelCampaign(c) \/ DeleteCampaign(c) \/ BecomesDue(c) \/ LockGetsStale(c)
      PROVE  ImageInv'
  <2>1. UNCHANGED asset
    BY <1>1 DEF CreateCampaign, UpdateCampaign, ScheduleCampaign, CancelCampaign, DeleteCampaign,
                BecomesDue, LockGetsStale
  <2> QED
    BY <1>0, <1>1, <2>1, AdministrationRefers
<1>2. ASSUME NEW c \in Campaigns, NEW h \in Servers,
             SendCampaign(h, c) \/ \E e \in Employees : BirthdayWish(h, e, c)
      PROVE  ImageInv'
  <2>1. UNCHANGED asset /\ \/ UNCHANGED camp
                           \/ \E e \in Employees : Set(c, NewRow("DRAFT", "never", NoImage, e))
    BY <1>2 DEF SendCampaign, BirthdayWish
  <2>2. CASE UNCHANGED camp
    BY <1>0, <2>1, <2>2 DEF Refers
  <2> QED
    BY <1>0, <2>1, <2>2, OccurrenceRefers
<1>3. ASSUME NEW h \in Handlers, Dispatch(h) \/ Crash(h) \/ (h \in Tickers /\ Tick(h))
      PROVE  ImageInv'
  <2>1. UNCHANGED asset
    BY <1>3 DEF Dispatch, ClaimCampaign, ResolveAudience, PushBatch, FinishDispatch, SendFails,
                NotifyEmployee, RecordOutcome, Crash, Tick, TickRecover, TickScan, TickTemplates,
                TickEnd, TickDispatch, TickOccurrence
  <2> QED
    BY <1>0, <1>3, <2>1, HandlersRefer
<1>4. ASSUME NEW i \in Images, UploadImage(i)
      PROVE  ImageInv'
  <2>1. PICK stored \in {TRUE, asset[i].stored} :
          asset' = [asset EXCEPT ![i] = [row |-> "fresh", stored |-> stored]]
    BY <1>4 DEF UploadImage
  <2>2. asset[i].stored \in BOOLEAN
    BY <1>t DEF AssetsTyped
  <2>3. AssetsTyped'
    BY <1>t, <2>1, <2>2 DEF AssetsTyped
  <2>4. \A j \in Images : asset[j].stored => asset'[j].stored
    BY <1>t, <2>1, <2>2 DEF AssetsTyped
  <2>5. UNCHANGED camp
    BY <1>4 DEF UploadImage
  <2> QED
    BY <1>t, <2>3, <2>4, <2>5 DEF ImageInv, AdminImageKept, Live
<1>5. ASSUME NEW i \in Images, SevenDaysPass(i)
      PROVE  ImageInv'
  <2>1. AssetsTyped' /\ UNCHANGED camp
    BY <1>t, <1>5 DEF AssetsTyped, SevenDaysPass
  <2>2. \A j \in Images : asset[j].stored => asset'[j].stored
    BY <1>t, <1>5 DEF AssetsTyped, SevenDaysPass
  <2> QED
    BY <1>t, <2>1, <2>2 DEF ImageInv, AdminImageKept, Live
<1>6. CASE CleanupImages
  <2>1. AssetsTyped' /\ UNCHANGED camp
    BY <1>t, <1>6 DEF AssetsTyped, CleanupImages
  <2>2. \A c \in Campaigns : Live(c) /\ camp[c].image # NoImage => asset'[camp[c].image] = asset[camp[c].image]
    BY <1>t, <1>6 DEF CleanupImages, Referenced
  <2> QED
    BY <2>1, <2>2 DEF ImageInv, AdminImageKept, Live
<1>7. CASE UNCHANGED campaignVars
  BY <1>0, <1>7 DEF campaignVars, Refers
<1>8. ASSUME NEW h \in Tickers, Tick(h) PROVE ImageInv'
  BY <1>3, <1>8 DEF Handlers
<1> QED
  BY <1>1, <1>2, <1>3, <1>4, <1>5, <1>6, <1>7, <1>8 DEF CampaignNext

LEMMA NoImageYet == CampaignInit => ImageInv
<1> SUFFICES ASSUME CampaignInit PROVE ImageInv
  OBVIOUS
<1>1. AssetsTyped
  BY DEF CampaignInit, AssetsTyped
<1>2. \A c \in Campaigns : ~Live(c)
  BY DEF CampaignInit, Live
<1> QED
  BY <1>1, <1>2 DEF ImageInv, AdminImageKept

\* AdminImageKept (the image lock): whoever uploads, edits, sends, deletes and
\* collects, the image of a campaign an administrator made is stored while the
\* campaign is there.
THEOREM AdminImagesKept == CampaignSpec => []AdminImageKept
<1>1. CampaignSpec => []ImageInv
  BY NoImageYet, ImageStep, CampaignInvariant, PTL DEF CampaignSpec
<1>2. ImageInv => AdminImageKept
  BY DEF ImageInv
<1> QED
  BY <1>1, <1>2, PTL

-----------------------------------------------------------------------------
(* At most one push *)

PushedOnce == pushes \in [Campaigns -> [Employees -> 0 .. 1]]
CrashesTyped == crashes \in 0 .. MaxCrashes

LEMMA PushedOnceStep ==
  IInv /\ PushedOnce /\ CrashesTyped /\ [CampaignNext]_campaignVars => PushedOnce' /\ CrashesTyped'
<1> SUFFICES ASSUME IInv, PushedOnce, CrashesTyped, [CampaignNext]_campaignVars
             PROVE  PushedOnce' /\ CrashesTyped'
  OBVIOUS
<1>1. ASSUME UNCHANGED pushes
      PROVE  PushedOnce'
  BY <1>1 DEF PushedOnce
<1>2. ASSUME NEW h \in Handlers, PushBatch(h)
      PROVE  PushedOnce'
  <2>1. PICK c \in Campaigns : c = task[h].camp
    BY <1>2 DEF PushBatch, IInv, Senders
  <2> DEFINE one == [e \in Employees |-> IF e \in task[h].audience \cap Reachable THEN 1 ELSE 0]
  <2>2. one \in [Employees -> 0 .. 1]
    OBVIOUS
  <2>3. \A e \in Employees : pushes[c][e] = 0
    BY <1>2, <2>1 DEF PushBatch, IInv, Senders, Before, Unpushed
  <2>4. pushes' = [pushes EXCEPT ![c] = one]
    <3>1. [e \in Employees |-> pushes[c][e] + IF e \in task[h].audience \cap Reachable THEN 1 ELSE 0] = one
      BY <2>3
    <3> QED
      BY <1>2, <2>1, <3>1 DEF PushBatch
  <2> HIDE DEF one
  <2> QED
    BY <2>2, <2>4 DEF PushedOnce
<1>3. (\E h \in Handlers : PushBatch(h)) \/ UNCHANGED pushes
  BY DEF CampaignNext, campaignVars, CreateCampaign, UpdateCampaign, ScheduleCampaign, CancelCampaign,
         DeleteCampaign, BecomesDue, LockGetsStale, SendCampaign, BirthdayWish, Crash, UploadImage,
         SevenDaysPass, CleanupImages, Tick, TickRecover, TickScan, TickTemplates, TickEnd,
         TickDispatch, TickOccurrence, Dispatch, ClaimCampaign, ResolveAudience, FinishDispatch,
         SendFails, NotifyEmployee, RecordOutcome
<1>4. UNCHANGED crashes \/ \E h \in Handlers : Crash(h)
  BY DEF CampaignNext, campaignVars, CreateCampaign, UpdateCampaign, ScheduleCampaign, CancelCampaign,
         DeleteCampaign, BecomesDue, LockGetsStale, SendCampaign, BirthdayWish, UploadImage,
         SevenDaysPass, CleanupImages, Tick, TickRecover, TickScan, TickTemplates, TickEnd,
         TickDispatch, TickOccurrence, Dispatch, ClaimCampaign, ResolveAudience, FinishDispatch,
         SendFails, NotifyEmployee, RecordOutcome, PushBatch
<1>5. CrashesTyped'
  BY <1>4, CampaignAssumption DEF Crash, CrashesTyped
<1> QED
  BY <1>1, <1>2, <1>3, <1>5

\* Every variable keeps its type; in particular nobody's devices are handed a
\* campaign's push twice.
THEOREM CampaignTyped == CampaignSpec => []CampaignTypeOK
<1>1. CampaignInit => PushedOnce /\ CrashesTyped
  BY CampaignAssumption DEF CampaignInit, PushedOnce, CrashesTyped
<1>2. CampaignSpec => [](PushedOnce /\ CrashesTyped)
  BY <1>1, PushedOnceStep, CampaignInvariant, PTL DEF CampaignSpec
<1>3. CampaignSpec => []ImageInv
  BY NoImageYet, ImageStep, CampaignInvariant, PTL DEF CampaignSpec
<1>4. IInv /\ NInv /\ ImageInv /\ PushedOnce /\ CrashesTyped => CampaignTypeOK
  <2> SUFFICES ASSUME IInv, NInv, ImageInv, PushedOnce, CrashesTyped PROVE CampaignTypeOK
    OBVIOUS
  <2>2. task \in [Handlers ->
          [tick : {"off", "scan", "due", "auto"}, due : SUBSET Campaigns,
           templates : SUBSET (Campaigns \X (Images \cup {NoImage})),
           send : {"none", "claim", "resolve", "notify", "push", "record", "finish"},
           camp : Campaigns \cup {NoKey}, image : Images \cup {NoImage},
           audience : SUBSET Employees, todo : SUBSET Employees,
           failed : SUBSET Employees]]
    <3>1. {"none", "claim", "record", "finish"} \cup Before
            = {"none", "claim", "resolve", "notify", "push", "record", "finish"}
      BY DEF Before
    <3> QED
      BY <3>1 DEF IInv, Types, TaskRow
  <2>3. camp \in [Campaigns ->
          [live : BOOLEAN, status : {"none", "SENDING"} \cup Open \cup Closed,
           when : {"never", "later", "past"}, stale : BOOLEAN,
           image : Images \cup {NoImage}, key : Campaigns \cup Employees \cup {NoKey}]]
    BY DEF IInv, Types, CampRow, Statuses
  <2> QED
    BY <2>2, <2>3 DEF CampaignTypeOK, PushedOnce, NInv, NotesTyped, NoteRow, ImageInv, AssetsTyped, CrashesTyped
<1> QED
  BY <1>2, <1>3, <1>4, CampaignInvariant, NotesInvariant, PTL
=============================================================================
