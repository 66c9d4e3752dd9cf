----------------------------- MODULE MCTracking -----------------------------
(***************************************************************************)
(* The instance of Tracking that TLC checks.  Each behaviour has one of    *)
(* two parts: in "rows" the sessions a tracker made send heartbeats and    *)
(* only rules make conversions, in "conversions" visitors identify and     *)
(* webhooks arrive, while no heartbeat does and attributions have one      *)
(* field.  The columns a heartbeat writes and the values of attributions   *)
(* are read by no other statement, and identifiers by webhooks alone, so   *)
(* that the parts together show what all steps at once would, in far fewer *)
(* states.                                                                 *)
(***************************************************************************)
EXTENDS Tracking

CONSTANTS v1, v2, s1

(* The first visitor's tracker has made a session id; the second visitor   *)
(* sends none.                                                             *)
OneOwner == [s \in {s1} |-> v1]

VARIABLE part

MCInit == Init /\ part \in {"rows", "conversions"}

OneField == \A s \in DOMAIN attributions' : attributions'[s]["other"] = Empty

MCNext ==
    /\ \/ \E q \in Visit : VisitStep(q) /\ (part = "conversions" => OneField)
       \/ Age \/ Retention
       \/ \E r \in Request : EnqueueIntegrations(r)
       \/ /\ part = "rows"
          /\ \/ \E s \in Session : Heartbeat(s)
             \/ \E r \in Request : RuleFires(r)
       \/ /\ part = "conversions"
          /\ \/ \E v \in VisitorId, c \in Contact : Identify(v, c)
             \/ \E r \in Request :
                   \/ WebhookStart(r) \/ ResolveDirect(r) \/ ResolveTouch(r)
                   \/ ResolveEmail(r) \/ ResolvePhone(r)
                   \/ CreateConversion(r) \/ MarkAttributed(r)
    /\ UNCHANGED part

MCSpec == MCInit /\ [][MCNext]_<<vars, part>> /\ WF_vars(Retention)
=============================================================================
