---------------------------- MODULE CampaignOnce ----------------------------
(* What the dispatch of notification campaigns promises: an administrator     *)
(* edits a campaign while it is open; it is claimed once and reaches its      *)
(* audience at most once; and a claimed campaign is closed in the end, never  *)
(* to be opened or claimed again.                                             *)

CONSTANTS Campaigns, Employees

VARIABLES
    phase,    \* phase[c]: where campaign c is in its life
    reached   \* reached[c]: the employees a push for c was sent to

onceVars == <<phase, reached>>

Phases == {"none", "open", "claimed", "closed", "withdrawn"}

Init ==
    /\ phase = [c \in Campaigns |-> "none"]
    /\ reached = [c \in Campaigns |-> {}]

Move(c, from, to) ==
    /\ phase[c] = from
    /\ phase' = [phase EXCEPT ![c] = to]
    /\ UNCHANGED reached

Open(c) == Move(c, "none", "open")
Withdraw(c) == Move(c, "open", "withdrawn")
Claim(c) == Move(c, "open", "claimed")
Close(c) == Move(c, "claimed", "closed")

\* The sender may be late: its campaign may be closed by the time it pushes.
Reach(c) ==
    /\ phase[c] \in {"claimed", "closed"}
    /\ reached[c] = {}
    /\ \E S \in SUBSET Employees :
         S # {} /\ reached' = [reached EXCEPT ![c] = S]
    /\ UNCHANGED phase

\* Several campaigns may be closed by one statement.
CloseAll(C) ==
    /\ \A c \in C : phase[c] = "claimed"
    /\ phase' = [c \in Campaigns |-> IF c \in C THEN "closed" ELSE phase[c]]
    /\ UNCHANGED reached

Next ==
    \/ \E c \in Campaigns : Open(c) \/ Withdraw(c) \/ Claim(c) \/ Close(c) \/ Reach(c)
    \/ \E C \in SUBSET Campaigns : CloseAll(C)

Spec == Init /\ [][Next]_onceVars /\ \A c \in Campaigns : WF_onceVars(Close(c))
=============================================================================
