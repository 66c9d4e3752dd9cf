------------------------------ MODULE MCShield ------------------------------
(***************************************************************************)
(* Instances of Campaigns and of Visits for TLC.  They share no variable,  *)
(* and one run explores them, each from initial states of its own.  Of a   *)
(* visit there are two parts: in "tables" nobody listens, while            *)
(* everything may fail, the process exit, the settings change and the log  *)
(* be cleared; in "listeners" hooks and dashboards come and go under one   *)
(* configuration, and what is inserted stays.  No goroutine reads what     *)
(* another one writes, and the parts have all their steps between them.    *)
(* The symmetric constants are those of Campaigns, which a state of Visits *)
(* does not hold: its temporal property is checked without symmetry.       *)
(***************************************************************************)
EXTENDS Campaigns, Visits, TLC

VARIABLE part  \* what moves

vars == <<campaignVars, visitVars, part>>

Init ==
    /\ part \in {"campaigns", "tables", "listeners"}
    /\ CampaignsInit /\ VisitsInit
    /\ part = "campaigns" => config = [enabled |-> FALSE, address |-> FALSE]

InPart ==
    /\ part # "campaigns" /\ UNCHANGED <<campaignVars, part>>
    /\ part = "tables" => UNCHANGED <<hooks, feed>>
    /\ part = "listeners" => lost' = {} /\ UNCHANGED <<config, prints, cleared>>

Next ==
    \/ part = "campaigns" /\ CampaignsNext /\ UNCHANGED <<visitVars, part>>
    \/ VisitsNext /\ InPart

Fairness == \A v \in Visitor : WF_vars((\E t \in tasks : t.record.visit = v /\ Run(t)) /\ InPart)

Spec == Init /\ [][Next]_vars /\ Fairness

Symmetry ==
    Permutations(Campaign) \cup Permutations(Slug) \cup Permutations(Project) \cup Permutations(Request)
=============================================================================
