----------------------------- MODULE MCCampaign -----------------------------
(* Two scenes share one run: a campaign an administrator schedules, with a     *)
(* managed image; and a campaign that is a birthday template, or a greeting,   *)
(* and one more. What the scenes leave out are steps of administrators, which  *)
(* no fairness is about.                                                       *)
EXTENDS Campaign

CONSTANTS c1, c2, e1, i1, s1, t1

Birthday ==
    \/ Unused = {}
    \/ \E c \in Campaigns : camp[c].status = "AUTOMATIC"
    \/ \E h \in Handlers : task[h].templates # {}

Scene ==
    Birthday => /\ \A c \in Campaigns : camp[c].when = "never"
                /\ \A i \in Images : asset[i].row = "none"

MCNext == CampaignNext /\ Scene'
MCSpec == CampaignInit /\ [][MCNext]_campaignVars /\ CampaignFairness
=============================================================================
