----------------------------- MODULE MeshPolicies -----------------------------
(***************************************************************************)
(* Who may talk to Tempo over the mesh (service_mesh.py). The leader lists *)
(* a policy for every relation whose endpoint has one; the beacon charm on *)
(* the other side of the mesh relation makes authorization policies of     *)
(* them with PolicyResourceManager.                                        *)
(*                                                                         *)
(* An application of another model is known here by the name of the offer. *)
(* What it is called there, and in which namespace, comes over a cross-    *)
(* model relation of its own, that may come late or not at all; until then *)
(* the policy names an application of this model that need not exist.      *)
(***************************************************************************)
EXTENDS Naturals, FiniteSets

CONSTANTS MpRelations,   \* relations of endpoints that have a policy
          MpAppOf,       \* relation -> the name of its remote application here
          MpTargetOf,    \* relation -> "app" or "unit", the type of its policy
          MpForeign,     \* the names that stand for applications of other models
          MaxMpChanges

ASSUME MpAssumption ==
  MpTargetOf \in [MpRelations -> {"app", "unit"}] /\ MaxMpChanges \in Nat

VARIABLES
  mpMesh,       \* is the mesh related
  mpRelated,    \* the relations there are
  mpIntroduced, \* foreign names with a cross-model relation and data
  mpPolicies,   \* the policies in the mesh relation's databag
  mpDeployed,   \* the authorization policies in Kubernetes
  mpEvent,      \* has Tempo's leader an event that updates the policies
  mpBeacon,     \* has the beacon one
  mpChanges

mpVars == <<mpMesh, mpRelated, mpIntroduced, mpPolicies, mpDeployed, mpEvent, mpBeacon, mpChanges>>

-------------------------------------------------------------------------------
(* Tempo *)

\* get_data_from_cmr_relation: name here -> name and namespace there.
SourceOf(app) == <<app, IF app \in mpIntroduced THEN "there" ELSE "here">>

\* build_mesh_policies: one for each relation, equal ones included. The target
\* is a Service for an application, the pods for a unit.
BuildMeshPolicies(relations) ==
  {[source |-> SourceOf(MpAppOf[r]), target |-> MpTargetOf[r]] : r \in relations}

\* _relations_changed, update_service_mesh: nothing without a mesh.
RelationsChanged ==
  /\ mpEvent
  /\ mpEvent' = FALSE
  /\ mpPolicies' = IF mpMesh THEN BuildMeshPolicies(mpRelated) ELSE mpPolicies
  /\ mpBeacon' = (mpBeacon \/ mpMesh)
  /\ UNCHANGED <<mpMesh, mpRelated, mpIntroduced, mpDeployed, mpChanges>>

-------------------------------------------------------------------------------
(* The beacon's side *)

\* mesh_info.
MeshInfo == IF mpMesh THEN mpPolicies ELSE {}

\* _build_policy_resources_istio: who may call what. (A unit's policy with
\* hosts, methods or paths would leave a hole in the list; the consumer makes
\* none.)
Guards(target) == IF target = "app" THEN "service" ELSE "pods"
PolicyResources(policies) ==
  {[principal |-> p.source, guards |-> Guards(p.target)] : p \in policies}

\* PolicyResourceManager.reconcile: with nothing to have, delete all; or else
\* delete what is not to be had and apply the rest.
Reconciled_None(policies) ==
  IF policies = {} THEN mpDeployed ELSE PolicyResources(policies)
Reconciled(policies) == PolicyResources(policies)

BeaconReconciles ==
  /\ mpBeacon
  /\ mpBeacon' = FALSE
  /\ mpDeployed' = Reconciled(MeshInfo)
  /\ UNCHANGED <<mpMesh, mpRelated, mpIntroduced, mpPolicies, mpEvent, mpChanges>>

-------------------------------------------------------------------------------
(* Juju *)

MpChange == mpChanges < MaxMpChanges /\ mpChanges' = mpChanges + 1

\* The events the consumer observes: the mesh's and the sources' relations
\* created, the sources' broken, and cross-model data changed.
RelateBeacon ==
  /\ MpChange /\ ~mpMesh /\ ~mpBeacon
  /\ mpMesh' = TRUE /\ mpPolicies' = {} /\ mpEvent' = TRUE
  /\ UNCHANGED <<mpRelated, mpIntroduced, mpDeployed, mpBeacon>>

RemoveBeacon ==
  /\ MpChange /\ mpMesh /\ ~mpEvent
  /\ mpMesh' = FALSE /\ mpBeacon' = TRUE
  /\ UNCHANGED <<mpRelated, mpIntroduced, mpPolicies, mpDeployed, mpEvent>>

RelateSource(r) ==
  /\ MpChange /\ r \notin mpRelated
  /\ mpRelated' = mpRelated \union {r} /\ mpEvent' = TRUE
  /\ UNCHANGED <<mpMesh, mpIntroduced, mpPolicies, mpDeployed, mpBeacon>>

SourceBroken(r) == mpEvent' = TRUE

RemoveSource(r) ==
  /\ MpChange /\ r \in mpRelated
  /\ mpRelated' = mpRelated \ {r} /\ SourceBroken(r)
  /\ UNCHANGED <<mpMesh, mpIntroduced, mpPolicies, mpDeployed, mpBeacon>>

\* _send_cmr_data of the leader over there.
Introduce(app) ==
  /\ MpChange /\ app \in MpForeign \ mpIntroduced
  /\ mpIntroduced' = mpIntroduced \union {app} /\ mpEvent' = TRUE
  /\ UNCHANGED <<mpMesh, mpRelated, mpPolicies, mpDeployed, mpBeacon>>

MpInit ==
  /\ mpMesh = FALSE /\ mpRelated = {} /\ mpIntroduced = {}
  /\ mpPolicies = {} /\ mpDeployed = {}
  /\ mpEvent = FALSE /\ mpBeacon = FALSE /\ mpChanges = 0

MpNext ==
  \/ RelationsChanged \/ BeaconReconciles \/ RelateBeacon \/ RemoveBeacon
  \/ \E r \in MpRelations : RelateSource(r) \/ RemoveSource(r)
  \/ \E app \in MpForeign : Introduce(app)

MpSpec == MpInit /\ [][MpNext]_mpVars

-------------------------------------------------------------------------------
MpQuiet == ~mpEvent /\ ~mpBeacon

MpTypeOK ==
  /\ mpMesh \in BOOLEAN /\ mpEvent \in BOOLEAN /\ mpBeacon \in BOOLEAN
  /\ mpRelated \subseteq MpRelations /\ mpIntroduced \subseteq MpForeign
  /\ \A p \in mpPolicies : p.target \in {"app", "unit"} /\ p.source[2] \in {"here", "there"}
  /\ \A d \in mpDeployed : d.guards \in {"service", "pods"}

\* Once both sides have done their work, a source may call on Tempo just if it
\* has a relation, by whichever of two relations it has; one of another model
\* is named as it is known there as soon as it has said so, before or after it
\* related; and without a mesh nothing is left in Kubernetes.
AllowedIsRelated ==
  MpQuiet =>
    mpDeployed = IF ~mpMesh THEN {}
                 ELSE {[principal |-> SourceOf(MpAppOf[r]), guards |-> Guards(MpTargetOf[r])] :
                         r \in mpRelated}
===============================================================================
