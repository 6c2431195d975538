------------------------------ MODULE Campaign ------------------------------
(***************************************************************************)
(* Notification campaigns: editing and scheduling, the dispatch of one     *)
(* campaign (sendCampaign), the scheduler's tick, birthday occurrences, and *)
(* the images campaigns refer to.                                          *)
(*                                                                         *)
(* Nothing here runs in a transaction except what holds the image lock, so *)
(* every statement of a dispatch or a tick is an action of its own; task    *)
(* keeps where a handler is and what it has read. The API servers and the  *)
(* scheduler of each process are handlers; a process that stops is the     *)
(* crash of each of its handlers. One calendar day is modelled: the day in *)
(* a dedupeKey is left out. The two rows a dispatch writes per employee,   *)
(* the recipient and the notification, are one record here.                *)
(***************************************************************************)
EXTENDS Integers, FiniteSets

CONSTANTS
    Campaigns,   \* identifiers of campaigns (uuids: never used twice)
    Employees,
    Reachable,   \* employees with a device token
    Images,      \* managed campaign images
    Servers,     \* handlers of API requests
    Tickers,     \* one scheduler per process (tickRunning)
    NoImage, NoKey, NoNote,
    MaxCrashes   \* handlers that stop in one behaviour

ASSUME CampaignAssumption ==
    /\ Reachable \subseteq Employees
    /\ Servers \cap Tickers = {}
    /\ MaxCrashes \in Nat
    /\ NoImage \notin Images
    /\ NoKey \notin Campaigns \cup Employees

VARIABLES
    camp,      \* Campaign rows; a deleted row keeps its last values and live = FALSE
    note,      \* note[c][e]: the Notification of campaign c for employee e
    pushes,    \* pushes[c][e]: pushes handed to FCM for e's devices
    asset,     \* CampaignImageAsset rows and the objects in storage
    task,      \* what each handler is doing
    crashes

campaignVars == <<camp, note, pushes, asset, task, crashes>>

Handlers == Servers \cup Tickers
Open == {"DRAFT", "SCHEDULED", "CANCELLED", "FAILED", "AUTOMATIC"}
Closed == {"SENT", "COMPLETED", "COMPLETED_WITH_ERRORS", "DELIVERY_UNKNOWN"}
Sendable == {"DRAFT", "SCHEDULED", "FAILED"}
Outcomes == {"PENDING", "SENT", "FAILED", "IN_APP_ONLY"}

ASSUME NoNoteAssumption == NoNote \notin [status : Outcomes, image : Images \cup {NoImage}]

Live(c) == camp[c].live
Idle == [tick |-> "off", due |-> {}, templates |-> {},
         send |-> "none", camp |-> NoKey, image |-> NoImage,
         audience |-> {}, todo |-> {}, failed |-> {}]

CampaignInit ==
    /\ camp = [c \in Campaigns |->
                 [live |-> FALSE, status |-> "none", when |-> "never", stale |-> FALSE,
                  image |-> NoImage, key |-> NoKey]]
    /\ note = [c \in Campaigns |-> [e \in Employees |-> NoNote]]
    /\ pushes = [c \in Campaigns |-> [e \in Employees |-> 0]]
    /\ asset = [i \in Images |-> [row |-> "none", stored |-> FALSE]]
    /\ task = [h \in Handlers |-> Idle]
    /\ crashes = 0

\* Identifiers are handed out in a fixed order.
Unused == {c \in Campaigns : camp[c].status = "none"}
NextId(c) == c \in Unused /\ c = CHOOSE d \in Unused : TRUE

Set(c, f) == camp' = [camp EXCEPT ![c] = f]
Goto(h, t) == task' = [task EXCEPT ![h] = t]

-----------------------------------------------------------------------------
(* Administration: conditional updates, so that a reading before them is of   *)
(* no consequence                                                             *)

ValidImage(i) == i # NoImage => asset[i].stored

NewRow(status, when, i, key) ==
    [live |-> TRUE, status |-> status, when |-> when, stale |-> FALSE,
     image |-> i, key |-> key]

\* createCampaign, under the image lock.
CreateCampaign(c, status, i) ==
    /\ NextId(c)
    /\ ValidImage(i)
    /\ Set(c, NewRow(status, IF status = "SCHEDULED" THEN "later" ELSE "never", i, NoKey))
    /\ UNCHANGED <<note, pushes, asset, task, crashes>>

\* What updateCampaign may make of status and scheduledAt: a date schedules, a
\* cleared date makes a draft, and a status may be given without a date.
Edits(c) ==
    {<<"SCHEDULED", "later">>, <<"DRAFT", "never">>}
        \cup ({camp[c].status, "DRAFT", "SCHEDULED", "AUTOMATIC"} \X {camp[c].when})

UpdateCampaign(c, i) ==
    /\ Live(c) /\ camp[c].status \in Open
    /\ i # camp[c].image => ValidImage(i)
    /\ \E edit \in Edits(c) :
         Set(c, [camp[c] EXCEPT !.status = edit[1], !.when = edit[2], !.image = i])
    /\ UNCHANGED <<note, pushes, asset, task, crashes>>

ScheduleCampaign(c) ==
    /\ Live(c) /\ camp[c].status \in {"DRAFT", "SCHEDULED"}
    /\ Set(c, [camp[c] EXCEPT !.status = "SCHEDULED", !.when = "later"])
    /\ UNCHANGED <<note, pushes, asset, task, crashes>>

CancelCampaign(c) ==
    /\ Live(c) /\ camp[c].status \in {"DRAFT", "SCHEDULED", "FAILED", "AUTOMATIC"}
    /\ Set(c, [camp[c] EXCEPT !.status = "CANCELLED"])
    /\ UNCHANGED <<note, pushes, asset, task, crashes>>

\* Notifications outlive their campaign, and its dedupeKey is free again.
DeleteCampaign(c) ==
    /\ Live(c) /\ camp[c].status # "SENDING"
    /\ Set(c, [camp[c] EXCEPT !.live = FALSE])
    /\ UNCHANGED <<note, pushes, asset, task, crashes>>

-----------------------------------------------------------------------------
(* sendCampaign *)

\* The first reading refuses a campaign that was dispatched before.
SendCampaign(h, c) ==
    /\ task[h] = Idle
    /\ Live(c) /\ camp[c].status \notin Closed \cup {"SENDING"}
    /\ Goto(h, [Idle EXCEPT !.send = "claim", !.camp = c])
    /\ UNCHANGED <<camp, note, pushes, asset, crashes>>

\* The handler goes on with its tick, or is done.
Done(h) ==
    Goto(h, [Idle EXCEPT !.tick = task[h].tick, !.due = task[h].due,
                         !.templates = task[h].templates])

ClaimUnchecked(h) ==   \* mutation
    LET c == task[h].camp IN
    /\ task[h].send = "claim"
    /\ IF Live(c)
       THEN /\ Set(c, [camp[c] EXCEPT !.status = "SENDING", !.stale = FALSE])
            /\ Goto(h, [task[h] EXCEPT !.send = "resolve"])
       ELSE UNCHANGED camp /\ Done(h)
    /\ UNCHANGED <<note, pushes, asset, crashes>>

ClaimCampaign(h) ==
    LET c == task[h].camp IN
    /\ task[h].send = "claim"
    /\ IF Live(c) /\ camp[c].status \in Sendable
       THEN /\ Set(c, [camp[c] EXCEPT !.status = "SENDING", !.stale = FALSE])
            /\ Goto(h, [task[h] EXCEPT !.send = "resolve"])
       ELSE UNCHANGED camp /\ Done(h)
    /\ UNCHANGED <<note, pushes, asset, crashes>>

\* An update of the row by its id, whatever its status; a row that is gone makes
\* the update throw, and so does the update in the catch block.
Conclude(h, status) ==
    LET c == task[h].camp IN
    /\ IF Live(c) THEN Set(c, [camp[c] EXCEPT !.status = status, !.stale = FALSE])
                  ELSE UNCHANGED camp
    /\ Done(h)

\* A statement of the dispatch throws.
SendFails(h) ==
    /\ task[h].send \notin {"none", "claim"}
    /\ Conclude(h, "DELIVERY_UNKNOWN")
    /\ UNCHANGED <<note, pushes, asset, crashes>>

\* The campaign is read again and its audience resolved.
ResolveAudience(h) ==
    LET c == task[h].camp IN
    /\ task[h].send = "resolve"
    /\ Live(c)
    /\ \E S \in SUBSET Employees :
         IF S = {} THEN Conclude(h, "COMPLETED")
         ELSE /\ Goto(h, [task[h] EXCEPT !.send = "notify", !.todo = S, !.audience = S,
                                         !.image = camp[c].image])
              /\ UNCHANGED camp
    /\ UNCHANGED <<note, pushes, asset, crashes>>

\* The in-app notification of the next employee; the foreign key refuses one for
\* a campaign that is gone.
NotifyEmployee(h, e) ==
    LET c == task[h].camp IN
    /\ task[h].send = "notify" /\ e \in task[h].todo
    /\ Live(c)
    /\ note' = IF note[c][e] = NoNote
               THEN [note EXCEPT ![c][e] = [status |-> "PENDING", image |-> task[h].image]]
               ELSE note
    /\ Goto(h, [task[h] EXCEPT !.todo = @ \ {e},
                               !.send = IF task[h].todo = {e} THEN "push" ELSE @])
    /\ UNCHANGED <<camp, pushes, asset, crashes>>

\* One multicast; FCM accepts some of the devices, or the call fails.
PushBatch(h) ==
    LET c == task[h].camp
        targets == task[h].audience \cap Reachable
    IN
    /\ task[h].send = "push"
    /\ pushes' = [pushes EXCEPT ![c] =
                    [e \in Employees |-> @[e] + IF e \in targets THEN 1 ELSE 0]]
    /\ \E failed \in SUBSET targets :
         Goto(h, [task[h] EXCEPT !.send = "record", !.todo = task[h].audience,
                                 !.failed = failed])
    /\ UNCHANGED <<camp, note, asset, crashes>>

Outcome(h, e) ==
    IF e \notin Reachable THEN "IN_APP_ONLY"
    ELSE IF e \in task[h].failed THEN "FAILED" ELSE "SENT"

RecordOutcome(h, e) ==
    LET c == task[h].camp IN
    /\ task[h].send = "record" /\ e \in task[h].todo
    /\ note' = [note EXCEPT ![c][e].status = Outcome(h, e)]
    /\ Goto(h, [task[h] EXCEPT
                  !.todo = @ \ {e},
                  !.send = IF task[h].todo = {e} THEN "finish" ELSE @])
    /\ UNCHANGED <<camp, pushes, asset, crashes>>

FinishSent(h) ==   \* mutation
    /\ task[h].send = "finish"
    /\ Conclude(h, "SENT")
    /\ UNCHANGED <<note, pushes, asset, crashes>>

FinishDispatch(h) ==
    /\ task[h].send = "finish"
    /\ Conclude(h, IF task[h].failed # {} THEN "COMPLETED_WITH_ERRORS" ELSE "SENT")
    /\ UNCHANGED <<note, pushes, asset, crashes>>

-----------------------------------------------------------------------------
(* runCampaignTick *)

TickRetry(h) ==   \* mutation
    /\ task[h] = Idle
    /\ camp' = [c \in Campaigns |->
                  IF Live(c) /\ camp[c].status = "SENDING" /\ camp[c].stale
                  THEN [camp[c] EXCEPT !.status = "SCHEDULED", !.when = "past", !.stale = FALSE]
                  ELSE camp[c]]
    /\ Goto(h, [Idle EXCEPT !.tick = "scan"])
    /\ UNCHANGED <<note, pushes, asset, crashes>>

\* Dispatches locked for more than fifteen minutes are given up.
TickRecover(h) ==
    /\ task[h] = Idle
    /\ camp' = [c \in Campaigns |->
                  IF Live(c) /\ camp[c].status = "SENDING" /\ camp[c].stale
                  THEN [camp[c] EXCEPT !.status = "DELIVERY_UNKNOWN", !.stale = FALSE]
                  ELSE camp[c]]
    /\ Goto(h, [Idle EXCEPT !.tick = "scan"])
    /\ UNCHANGED <<note, pushes, asset, crashes>>

TickScanDrafts(h) ==   \* mutation
    /\ task[h].tick = "scan"
    /\ Goto(h, [Idle EXCEPT !.tick = "due",
                            !.due = {c \in Campaigns : /\ Live(c)
                                                       /\ camp[c].status = "DRAFT"
                                                       /\ camp[c].when = "past"}])
    /\ UNCHANGED <<camp, note, pushes, asset, crashes>>

TickScan(h) ==
    /\ task[h].tick = "scan"
    /\ Goto(h, [Idle EXCEPT !.tick = "due",
                            !.due = {c \in Campaigns : /\ Live(c)
                                                       /\ camp[c].status = "SCHEDULED"
                                                       /\ camp[c].when = "past"}])
    /\ UNCHANGED <<camp, note, pushes, asset, crashes>>

TickDispatch(h, c) ==
    /\ task[h].tick = "due" /\ task[h].send = "none" /\ c \in task[h].due
    /\ Goto(h, [task[h] EXCEPT !.due = @ \ {c}, !.send = "claim", !.camp = c])
    /\ UNCHANGED <<camp, note, pushes, asset, crashes>>

\* The automatic templates are read, with the image they have now.
TickTemplates(h) ==
    /\ task[h].tick = "due" /\ task[h].send = "none" /\ task[h].due = {}
    /\ Goto(h, [Idle EXCEPT !.tick = "auto",
                            !.templates = {<<c, camp[c].image>> : c \in
                                {d \in Campaigns : Live(d) /\ camp[d].status = "AUTOMATIC"}}])
    /\ UNCHANGED <<camp, note, pushes, asset, crashes>>

KeyTaken(k) == \E c \in Campaigns : Live(c) /\ camp[c].key = k

\* The occurrence of the day is created without the image lock, then dispatched.
TickOccurrence(h, t, o) ==
    /\ task[h].tick = "auto" /\ task[h].send = "none" /\ t \in task[h].templates
    /\ IF KeyTaken(t[1]) \/ Unused = {}
       THEN Goto(h, [task[h] EXCEPT !.templates = @ \ {t}]) /\ UNCHANGED camp
       ELSE /\ NextId(o)
            /\ Set(o, NewRow("DRAFT", "never", t[2], t[1]))
            /\ Goto(h, [task[h] EXCEPT !.templates = @ \ {t}, !.send = "claim", !.camp = o])
    /\ UNCHANGED <<note, pushes, asset, crashes>>

TickEnd(h) ==
    /\ task[h].tick = "auto" /\ task[h].send = "none" /\ task[h].templates = {}
    /\ Goto(h, Idle)
    /\ UNCHANGED <<camp, note, pushes, asset, crashes>>

\* sendBirthdayWishes, for one employee: an image outside the managed store.
BirthdayWish(h, e, o) ==
    /\ task[h] = Idle
    /\ ~KeyTaken(e)
    /\ NextId(o)
    /\ Set(o, NewRow("DRAFT", "never", NoImage, e))
    /\ Goto(h, [Idle EXCEPT !.send = "claim", !.camp = o])
    /\ UNCHANGED <<note, pushes, asset, crashes>>

-----------------------------------------------------------------------------
(* Images, under the image lock *)

\* The ledger row is reserved first; storing the object may fail.
UploadImage(i) ==
    /\ \E stored \in {TRUE, asset[i].stored} :
         asset' = [asset EXCEPT ![i] = [row |-> "fresh", stored |-> stored]]
    /\ UNCHANGED <<camp, note, pushes, task, crashes>>

ReferencedByNotes(i) ==   \* mutation
    \E c \in Campaigns, e \in Employees : note[c][e] # NoNote /\ note[c][e].image = i

Referenced(i) ==
    \/ \E c \in Campaigns : Live(c) /\ camp[c].image = i
    \/ \E c \in Campaigns, e \in Employees : note[c][e] # NoNote /\ note[c][e].image = i

CleanupImages ==
    /\ asset' = [i \in Images |->
                   IF asset[i].row = "old" /\ ~Referenced(i)
                   THEN [row |-> "none", stored |-> FALSE] ELSE asset[i]]
    /\ UNCHANGED <<camp, note, pushes, task, crashes>>

-----------------------------------------------------------------------------
(* Time and failure *)

BecomesDue(c) ==
    /\ camp[c].when = "later"
    /\ Set(c, [camp[c] EXCEPT !.when = "past"])
    /\ UNCHANGED <<note, pushes, asset, task, crashes>>

LockGetsStale(c) ==
    /\ Live(c) /\ camp[c].status = "SENDING" /\ ~camp[c].stale
    /\ Set(c, [camp[c] EXCEPT !.stale = TRUE])
    /\ UNCHANGED <<note, pushes, asset, task, crashes>>

SevenDaysPass(i) ==
    /\ asset[i].row = "fresh"
    /\ asset' = [asset EXCEPT ![i].row = "old"]
    /\ UNCHANGED <<camp, note, pushes, task, crashes>>

Crash(h) ==
    /\ crashes < MaxCrashes
    /\ task[h] # Idle
    /\ Goto(h, Idle)
    /\ crashes' = crashes + 1
    /\ UNCHANGED <<camp, note, pushes, asset>>

-----------------------------------------------------------------------------

\* The next statement of a dispatch that has begun.
Dispatch(h) ==
    \/ ClaimCampaign(h) \/ ResolveAudience(h) \/ PushBatch(h)
    \/ FinishDispatch(h) \/ SendFails(h)
    \/ \E e \in Employees : NotifyEmployee(h, e) \/ RecordOutcome(h, e)

Tick(h) ==
    \/ TickRecover(h) \/ TickScan(h) \/ TickTemplates(h) \/ TickEnd(h)
    \/ \E c \in Campaigns : TickDispatch(h, c)
    \/ \E t \in task[h].templates, o \in Campaigns : TickOccurrence(h, t, o)

CampaignNext ==
    \/ \E c \in Campaigns :
         \/ \E i \in Images \cup {NoImage} :
              \/ \E status \in {"DRAFT", "SCHEDULED", "AUTOMATIC"} : CreateCampaign(c, status, i)
              \/ UpdateCampaign(c, i)
         \/ ScheduleCampaign(c) \/ CancelCampaign(c) \/ DeleteCampaign(c)
         \/ BecomesDue(c) \/ LockGetsStale(c)
         \/ \E h \in Servers : SendCampaign(h, c)
         \/ \E h \in Servers, e \in Employees : BirthdayWish(h, e, c)
    \/ \E h \in Handlers : Dispatch(h) \/ Crash(h)
    \/ \E h \in Tickers : Tick(h)
    \/ \E i \in Images : UploadImage(i) \/ SevenDaysPass(i)
    \/ CleanupImages

\* Every statement returns or throws, the scheduler ticks every minute, and time passes.
CampaignFairness ==
    /\ \A h \in Handlers : WF_campaignVars(Dispatch(h))
    /\ \A h \in Tickers : WF_campaignVars(Tick(h))
    /\ \A c \in Campaigns : WF_campaignVars(BecomesDue(c)) /\ WF_campaignVars(LockGetsStale(c))

CampaignSpec == CampaignInit /\ [][CampaignNext]_campaignVars /\ CampaignFairness

-----------------------------------------------------------------------------
(* What must hold *)

CampaignTypeOK ==
    /\ camp \in [Campaigns ->
          [live : BOOLEAN, status : {"none", "SENDING"} \cup Open \cup Closed,
           when : {"never", "later", "past"}, stale : BOOLEAN,
           image : Images \cup {NoImage}, key : Campaigns \cup Employees \cup {NoKey}]]
    /\ note \in [Campaigns -> [Employees ->
          [status : Outcomes, image : Images \cup {NoImage}] \cup {NoNote}]]
    /\ pushes \in [Campaigns -> [Employees -> 0 .. 1]]
    /\ asset \in [Images -> [row : {"none", "fresh", "old"}, stored : BOOLEAN]]
    /\ task \in [Handlers ->
          [tick : {"off", "scan", "due", "auto"}, due : SUBSET Campaigns,
           templates : SUBSET (Campaigns \X (Images \cup {NoImage})),
           send : {"none", "claim", "resolve", "notify", "push", "record", "finish"},
           camp : Campaigns \cup {NoKey}, image : Images \cup {NoImage},
           audience : SUBSET Employees, todo : SUBSET Employees,
           failed : SUBSET Employees]]
    /\ crashes \in 0 .. MaxCrashes

\* At most one handler ever dispatches a campaign, and it was claimed: stale
\* locks, crashes and edits never hand a campaign out twice.
Sending(h) == task[h].send \notin {"none", "claim"}
OneSender ==
    \A h \in Handlers : Sending(h) =>
        /\ camp[task[h].camp].status \in Closed \cup {"SENDING"}
        /\ \A g \in Handlers \ {h} : Sending(g) => task[g].camp # task[h].camp

\* A campaign reported sent has every notification it made settled, and says
\* whether a push failed.
ReportIsTrue ==
    \A c \in Campaigns :
        LET settled == {note[c][e].status : e \in {d \in Employees : note[c][d] # NoNote}}
        IN /\ camp[c].status = "SENT" => settled \subseteq {"SENT", "IN_APP_ONLY"}
           /\ camp[c].status = "COMPLETED_WITH_ERRORS" => "FAILED" \in settled /\ "PENDING" \notin settled

\* The image of a campaign an administrator made is never collected while the
\* campaign is there. It does not hold of occurrences: a birthday occurrence
\* copies the image of its template without the lock the collector takes.
AdminImageKept ==
    \A c \in Campaigns :
        Live(c) /\ camp[c].key = NoKey /\ camp[c].image # NoImage => asset[camp[c].image].stored

\* A scheduled campaign whose time has come is dispatched, cancelled or edited.
Due(c) == Live(c) /\ camp[c].status = "SCHEDULED" /\ camp[c].when = "past"
DueDispatched == \A c \in Campaigns : Due(c) ~> ~Due(c)

\* Dispatch implements CampaignOnce. What a campaign was when it was deleted
\* tells a withdrawn one from a closed one.
Phase(c) ==
    CASE camp[c].status = "none" -> "none"
      [] camp[c].status \in Open -> IF Live(c) THEN "open" ELSE "withdrawn"
      [] camp[c].status = "SENDING" -> "claimed"
      [] camp[c].status \in Closed -> "closed"

Once == INSTANCE CampaignOnce WITH
            phase <- [c \in Campaigns |-> Phase(c)],
            reached <- [c \in Campaigns |-> {e \in Employees : pushes[c][e] > 0}]

\* A campaign is claimed at most once and reaches an employee at most once, as
\* CampaignOnce promises, through stale locks, crashes, edits and deletions.
DispatchesOnce == Once!Spec
=============================================================================
