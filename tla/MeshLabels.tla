------------------------------ MODULE MeshLabels ------------------------------
(***************************************************************************)
(* Joining a service mesh (service_mesh.py, ServiceMeshConsumer): every    *)
(* unit puts the labels the mesh asks for on the StatefulSet's pod         *)
(* template and on the Service of the application, with three patches, and *)
(* the last of them records in a ConfigMap what to take off again.         *)
(*                                                                         *)
(* The patches are steps of their own: hooks of the units interleave, and  *)
(* a hook may fail between two of them. The first patch makes Kubernetes   *)
(* replace the very pods the hooks run in, so that is no rare event. Juju  *)
(* runs a failed hook again. A patch of the ConfigMap carries the          *)
(* resourceVersion it was read with, and Kubernetes refuses one that is    *)
(* not the present one; a ConfigMap the hook has created itself has none.  *)
(***************************************************************************)
EXTENDS Naturals, FiniteSets

CONSTANTS MlUnits, MlLeader, MlLabels, MaxMlChanges

ASSUME MlAssumption ==
  MlLeader \in MlUnits /\ MaxMlChanges \in Nat

VARIABLES
  mlRelated,   \* is there a mesh
  mlOffered,   \* the labels in its databag
  mlTemplate,  \* those of ours on the pod template
  mlService,   \* and on the Service
  mlMap,       \* those in the ConfigMap
  mlMapThere,  \* is there a ConfigMap
  mlHook,      \* unit -> the hook it runs
  mlPending,   \* unit -> the event it has next, "none" if there is none
  mlStray,     \* the labels put on by a hook whose record was lost or came late
  mlChanges

mlObjects == <<mlTemplate, mlService>>
mlConfigMap == <<mlMap, mlMapThere>>
mlVars == <<mlRelated, mlOffered, mlObjects, mlConfigMap, mlHook, mlPending, mlStray, mlChanges>>

NoLabelHook == [at |-> "idle", event |-> "none", wanted |-> {}, drop |-> {}, seen |-> "present"]

-------------------------------------------------------------------------------
(* reconcile_charm_labels *)

\* A patch of an object's labels: None takes a label off. Slip: with nothing to
\* take off, nothing is patched.
Patched_OnlyDrops(labels, hook) ==
  IF hook.drop = {} THEN labels ELSE (labels \ hook.drop) \union hook.wanted
Patched(labels, hook) == (labels \ hook.drop) \union hook.wanted

\* Does Kubernetes refuse the patch of the ConfigMap: it is gone, or another
\* hook has changed it since this one read it.
Refused(hook) == ~mlMapThere \/ hook.seen = "old"

\* The ConfigMap is written: whoever holds an earlier version of it holds an
\* old one, unless they hold none.
Outdated(u, hooks) ==
  [v \in MlUnits |->
     IF v # u /\ hooks[v].seen = "present" /\ hooks[v].at \in {"template", "service", "map"}
     THEN [hooks[v] EXCEPT !.seen = "old"] ELSE hooks[v]]

\* What a hook that stops here leaves behind it, known to nobody.
Unrecorded(hook) == IF hook.at \in {"service", "map"} THEN hook.wanted ELSE {}

Fails(u) ==
  /\ mlHook' = [mlHook EXCEPT ![u].at = "failed"]
  /\ mlStray' = mlStray \union Unrecorded(mlHook[u])
  /\ UNCHANGED mlConfigMap

-------------------------------------------------------------------------------
(* The hooks: _update_labels, on every unit, and _on_mesh_broken *)

\* The labels wanted are read first. A follower has nothing to do for broken.
BeginLabels(u) ==
  /\ \/ mlHook[u].at = "idle" /\ mlPending[u] # "none"
     \/ mlHook[u].at = "failed"
  /\ LET event == IF mlHook[u].at = "failed" THEN mlHook[u].event ELSE mlPending[u] IN
     /\ mlHook' = [mlHook EXCEPT ![u] =
          IF event = "broken" /\ u # MlLeader THEN NoLabelHook
          ELSE [NoLabelHook EXCEPT !.at = "read", !.event = event,
                              !.wanted = IF event = "changed" THEN mlOffered ELSE {}]]
     /\ mlPending' = IF mlHook[u].at = "idle" THEN [mlPending EXCEPT ![u] = "none"] ELSE mlPending
  /\ UNCHANGED <<mlRelated, mlOffered, mlObjects, mlConfigMap, mlStray, mlChanges>>

\* Then the ConfigMap, or else an empty one is created.
ReadLabelMap(u) ==
  /\ mlHook[u].at = "read"
  /\ mlMapThere' = TRUE
  /\ mlHook' = [mlHook EXCEPT ![u].at = "template",
                              ![u].drop = mlMap \ mlHook[u].wanted,
                              ![u].seen = IF mlMapThere THEN "present" ELSE "unknown"]
  /\ UNCHANGED <<mlRelated, mlOffered, mlObjects, mlMap, mlPending, mlStray, mlChanges>>

PatchTemplate(u) ==
  /\ mlHook[u].at = "template"
  /\ mlTemplate' = Patched(mlTemplate, mlHook[u])
  /\ mlHook' = [mlHook EXCEPT ![u].at = "service"]
  /\ UNCHANGED <<mlRelated, mlOffered, mlService, mlConfigMap, mlPending, mlStray, mlChanges>>

PatchService(u) ==
  /\ mlHook[u].at = "service"
  /\ mlService' = Patched(mlService, mlHook[u])
  /\ mlHook' = [mlHook EXCEPT ![u].at = "map"]
  /\ UNCHANGED <<mlRelated, mlOffered, mlTemplate, mlConfigMap, mlPending, mlStray, mlChanges>>

\* A hook without a version writes over what another has recorded meanwhile,
\* and what a follower records when the mesh is gone the leader may never see.
RecordLabels(u) ==
  /\ mlHook[u].at = "map"
  /\ IF Refused(mlHook[u]) THEN Fails(u)
     ELSE /\ mlMap' = mlHook[u].wanted /\ UNCHANGED mlMapThere
          /\ mlStray' = UNION {mlStray,
               IF mlHook[u].seen = "unknown" THEN mlMap \ mlHook[u].wanted ELSE {},
               IF u # MlLeader /\ ~mlRelated THEN mlHook[u].wanted ELSE {}}
          /\ mlHook' = Outdated(u, [mlHook EXCEPT ![u] =
                         IF mlHook[u].event = "broken"
                         THEN [NoLabelHook EXCEPT !.at = "delete", !.event = "broken"] ELSE NoLabelHook])
  /\ UNCHANGED <<mlRelated, mlOffered, mlObjects, mlPending, mlChanges>>

\* _delete_label_configmap; another hook's record of its labels goes with it.
DeleteLabelMap(u) ==
  /\ mlHook[u].at = "delete"
  /\ mlMap' = {} /\ mlMapThere' = FALSE
  /\ mlStray' = mlStray \union mlMap
  /\ mlHook' = Outdated(u, [mlHook EXCEPT ![u] = NoLabelHook])
  /\ UNCHANGED <<mlRelated, mlOffered, mlObjects, mlPending, mlChanges>>

\* The pod is replaced, or a call of the Kubernetes API fails.
MeshHookDies(u) ==
  /\ mlChanges < MaxMlChanges
  /\ mlChanges' = mlChanges + 1
  /\ mlHook[u].at \in {"template", "service", "map", "delete"}
  /\ Fails(u)
  /\ UNCHANGED <<mlRelated, mlOffered, mlObjects, mlPending>>

-------------------------------------------------------------------------------
(* The mesh, and Juju *)

MlChange == mlChanges < MaxMlChanges /\ mlChanges' = mlChanges + 1

MlIdle == \A u \in MlUnits : mlHook[u].at = "idle" /\ mlPending[u] = "none"

\* A mesh is related; it has written nothing yet.
RelateMesh ==
  /\ MlChange /\ ~mlRelated /\ MlIdle
  /\ mlRelated' = TRUE
  /\ mlOffered' = {}
  /\ mlPending' = [u \in MlUnits |-> "changed"]
  /\ UNCHANGED <<mlObjects, mlConfigMap, mlHook, mlStray>>

\* ServiceMeshProvider.update_relations: the labels are written, or others.
OfferLabels(labels) ==
  /\ MlChange /\ mlRelated /\ mlOffered # labels
  /\ mlOffered' = labels
  /\ mlPending' = [u \in MlUnits |-> "changed"]
  /\ UNCHANGED <<mlRelated, mlObjects, mlConfigMap, mlHook, mlStray>>

\* A dying relation has no event but broken; a hook that runs runs on.
RemoveMesh ==
  /\ MlChange /\ mlRelated
  /\ mlRelated' = FALSE
  /\ mlPending' = [u \in MlUnits |-> "broken"]
  /\ UNCHANGED <<mlOffered, mlObjects, mlConfigMap, mlHook, mlStray>>

MlInit ==
  /\ mlRelated = FALSE /\ mlOffered = {}
  /\ mlTemplate = {} /\ mlService = {} /\ mlMap = {} /\ mlMapThere = FALSE
  /\ mlHook = [u \in MlUnits |-> NoLabelHook]
  /\ mlPending = [u \in MlUnits |-> "none"]
  /\ mlStray = {} /\ mlChanges = 0

MlNext ==
  \/ RelateMesh \/ RemoveMesh
  \/ \E labels \in SUBSET MlLabels : OfferLabels(labels)
  \/ \E u \in MlUnits :
       \/ BeginLabels(u) \/ ReadLabelMap(u) \/ PatchTemplate(u) \/ PatchService(u)
       \/ RecordLabels(u) \/ DeleteLabelMap(u) \/ MeshHookDies(u)

MlSpec == MlInit /\ [][MlNext]_mlVars

-------------------------------------------------------------------------------
MlLabelsWanted == IF mlRelated THEN mlOffered ELSE {}

MlTypeOK ==
  /\ mlRelated \in BOOLEAN /\ mlOffered \subseteq MlLabels
  /\ mlTemplate \subseteq MlLabels /\ mlService \subseteq MlLabels
  /\ mlMap \subseteq MlLabels /\ mlMapThere \in BOOLEAN /\ mlStray \subseteq MlLabels
  /\ \A u \in MlUnits :
       /\ mlHook[u].at \in {"idle", "read", "template", "service", "map", "delete", "failed"}
       /\ mlHook[u].event = "none" <=> mlHook[u].at = "idle"
       /\ mlPending[u] \in {"none", "changed", "broken"}
  /\ mlChanges \in 0..MaxMlChanges

\* However the patches of the units interleave and whichever of them fails,
\* once all is quiet both objects have every label the mesh asks for, and none
\* besides, but for one put on by a hook that could not record it, or by a
\* follower's hook that outlived the mesh.
LabelsCurrent ==
  MlIdle => \A labels \in {mlTemplate, mlService} :
    MlLabelsWanted \subseteq labels /\ labels \ mlStray \subseteq MlLabelsWanted

\* What the comment on reconcile_charm_labels says: labels put on before and
\* not wanted now are removed.
LabelsRemoved ==
  MlIdle => mlTemplate \subseteq MlLabelsWanted /\ mlService \subseteq MlLabelsWanted
===============================================================================
