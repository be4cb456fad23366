---------------------------- MODULE ReleaseGates ----------------------------
(***************************************************************************)
(* The gates before an external effect: the deployment pipeline, the       *)
(* incident workflow, previews of external actions, approvals from the     *)
(* phone, and webhook deliveries (app/integrations/deployment.py,          *)
(* incident.py, policies.py, mobile_bridge.py, webhooks.py).  Every        *)
(* operation is one step; what is modelled is any order of them.           *)
(***************************************************************************)
EXTENDS Naturals

CONSTANTS
  MaxRuns,        \* bound: validations of one deployment, and deliveries
  Reversible      \* the values of rollback_available

ASSUME GatesAssumption == MaxRuns \in Nat /\ Reversible \subseteq BOOLEAN

VARIABLES
  deployment,     \* a DeploymentRecord, or {} before create_deployment
  incident,       \* an IncidentRecord, or {} before trigger_incident
  approval_state, \* of a preview of an external action
  mobile_status,  \* of an approval asked on the phone
  delivered,      \* whether the delivery id has been processed
  validations, promotions,    \* history: of the deployment
  accepted, offered           \* history: deliveries with this id

releaseVars == <<deployment, validations, promotions>>
webhookVars == <<delivered, accepted, offered>>
gatesVars == <<releaseVars, incident, approval_state, mobile_status, webhookVars>>

GatesInit ==
  /\ deployment = {} /\ incident = {}
  /\ approval_state = "none" /\ mobile_status = "none" /\ delivered = FALSE
  /\ validations = 0 /\ promotions = 0 /\ accepted = 0 /\ offered = 0
------------------------------------------------------------------------------
(* Deployments.  deployment is {} or holds the one record. *)
create_deployment ==
  /\ deployment = {}
  /\ \E r \in Reversible :
       deployment' = {[status |-> "PENDING", health |-> FALSE, production |-> FALSE,
                       reversible |-> r]}
  /\ UNCHANGED <<incident, approval_state, mobile_status, webhookVars, validations, promotions>>

Becomes(rec, status) == deployment' = {[rec EXCEPT !.status = status]}

run_staging_validation(rec) ==
  /\ validations < MaxRuns /\ validations' = validations + 1
  /\ Becomes([rec EXCEPT !.health = TRUE], "STAGING_VERIFIED")
  /\ UNCHANGED <<incident, approval_state, mobile_status, webhookVars, promotions>>

(* Fault: health_check_passed alone, which is never taken back. *)
HealthOnly(rec) == rec.health

StagingPassed(rec) == rec.health /\ rec.status = "STAGING_VERIFIED"

(* With approved = TRUE; otherwise nothing changes. *)
promote_to_production(rec) ==
  /\ StagingPassed(rec)
  /\ Becomes([rec EXCEPT !.production = TRUE], "DEPLOYED")
  /\ promotions' = promotions + 1
  /\ UNCHANGED <<incident, approval_state, mobile_status, webhookVars, validations>>

(* From any status, also one that was never deployed. *)
rollback(rec) ==
  /\ rec.reversible /\ Becomes(rec, "ROLLED_BACK")
  /\ UNCHANGED <<incident, approval_state, mobile_status, webhookVars, validations, promotions>>

(* Incidents: no operation looks at the status. *)
IncidentBecomes(rec, status) ==
  /\ incident' = {[rec EXCEPT !.status = status]}
  /\ UNCHANGED <<releaseVars, approval_state, mobile_status, webhookVars>>

trigger_incident ==
  /\ incident = {}
  /\ IncidentBecomes([status |-> "", applied |-> FALSE, verified |-> FALSE], "TRIGGERED")

collect_logs_and_diagnose(rec) == IncidentBecomes(rec, "INVESTIGATING")

propose_remediation(rec) == IncidentBecomes(rec, "REMEDIATION_PROPOSED")

apply_remediation_and_verify(rec) ==
  IncidentBecomes([rec EXCEPT !.applied = TRUE, !.verified = TRUE], "RESOLVED")

(* Approvals: an answer replaces the one before, in both managers. *)
ApprovalBecomes(s) ==
  /\ approval_state' = s /\ UNCHANGED <<releaseVars, incident, mobile_status, webhookVars>>

create_preview == approval_state = "none" /\ \E s \in {"PENDING", "APPROVED"} : ApprovalBecomes(s)
approve_action == approval_state # "none" /\ ApprovalBecomes("APPROVED")
deny_action == approval_state # "none" /\ ApprovalBecomes("DENIED")

MobileBecomes(s) ==
  /\ mobile_status' = s /\ UNCHANGED <<releaseVars, incident, approval_state, webhookVars>>

register_approval_request == mobile_status = "none" /\ MobileBecomes("PENDING")
process_mobile_approval ==
  mobile_status # "none" /\ \E s \in {"APPROVED", "REJECTED"} : MobileBecomes(s)

(* verify_webhook_event: the id is recorded before the timestamp and the   *)
(* signature are looked at.                                                *)
verify_webhook_event(fresh, signed) ==
  /\ offered < MaxRuns /\ offered' = offered + 1
  /\ delivered' = TRUE
  /\ accepted' = IF ~delivered /\ fresh /\ signed THEN accepted + 1 ELSE accepted
  /\ UNCHANGED <<releaseVars, incident, approval_state, mobile_status>>

GatesNext ==
  \/ create_deployment \/ trigger_incident
  \/ \E rec \in deployment :
       run_staging_validation(rec) \/ promote_to_production(rec) \/ rollback(rec)
  \/ \E rec \in incident : \/ collect_logs_and_diagnose(rec) \/ propose_remediation(rec)
                           \/ apply_remediation_and_verify(rec)
  \/ create_preview \/ approve_action \/ deny_action
  \/ register_approval_request \/ process_mobile_approval
  \/ \E fresh, signed \in BOOLEAN : verify_webhook_event(fresh, signed)
------------------------------------------------------------------------------
(* Every production deployment had a staging validation of its own: none   *)
(* after a roll-back goes on the strength of the one before.               *)
EachDeploymentValidated == promotions <= validations

(* A delivery id is accepted once at most, and what is in production and   *)
(* not rolled back has passed its health check.                            *)
DeliveredOnce == accepted <= 1

EffectsAreGated ==
  /\ EachDeploymentValidated /\ DeliveredOnce
  /\ \A rec \in deployment : rec.status = "DEPLOYED" => rec.production /\ rec.health
=============================================================================
