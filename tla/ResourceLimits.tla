---------------------------- MODULE ResourceLimits ----------------------------
(***************************************************************************)
(* Resource limits of a workload container                                 *)
(* (kubernetes_compute_resources_patch.py). On config-changed every unit   *)
(* brings the limits the user has set and the requests of the charm into   *)
(* line and patches the StatefulSet with them; Kubernetes then replaces    *)
(* the pods one by one, each of which starts with config-changed again.    *)
(* The status is what the StatefulSet's own status says of the roll-out.   *)
(*                                                                         *)
(* Quantities are in thousandths. The StatefulSet controller is external:  *)
(* it takes notice of a new template, replaces a pod when all others are   *)
(* ready, and reports.                                                     *)
(***************************************************************************)
EXTENDS Integers, FiniteSets, FiniteSetsExt

CONSTANTS RlPods,       \* the units, by their pods
          RlLimits,     \* what the user may set: functions of some of "cpu", "memory"
          RlRequests,   \* the charm's own requests
          RlAdhere,     \* adhere_to_requests
          MaxRlChanges

ASSUME RlAssumption ==
  /\ \A limits \in RlLimits \union {RlRequests} :
       DOMAIN limits \subseteq {"cpu", "memory"} /\ \A k \in DOMAIN limits : limits[k] \in Int
  /\ IsFiniteSet(RlPods) /\ RlAdhere \in BOOLEAN /\ MaxRlChanges \in Nat

VARIABLES
  rlLimits,     \* the limits set
  rlEvents,     \* pods with config-changed
  rlApi,        \* "up", "down" or "forbidden"
  rlFailed,     \* did the last attempt end with patch_failed
  rlTemplate,   \* the requirements in the StatefulSet's template
  rlCurrent,    \* those of its current revision
  rlPods,       \* pod -> the requirements it was started with
  rlReady,      \* the pods that are ready
  rlObserved,   \* is the reported status of the template as it is
  rlReported,   \* how many pods are ready and whether the revisions are one
  rlPutBack,    \* was the template put back in the middle of a roll-out
  rlChanges

rlStatefulSet == <<rlTemplate, rlCurrent, rlPods, rlReady, rlObserved, rlReported, rlPutBack>>
rlVars == <<rlLimits, rlEvents, rlApi, rlFailed, rlStatefulSet, rlChanges>>

-------------------------------------------------------------------------------
(* The requirements *)

\* is_valid_spec.
IsValidSpec(spec) == \A k \in DOMAIN spec : spec[k] >= 0

\* sanitize_resource_spec_dict: memory in whole bytes. What it deletes is a name with
\* an empty value, which here is one outside of the domain; a zero is not empty.
Ceiling(quantity) == ((quantity + 999) \div 1000) * 1000
Sanitized(spec) ==
  [k \in DOMAIN spec |-> IF k = "memory" THEN Ceiling(spec[k]) ELSE spec[k]]

\* It raises for some memory of less than a byte (remainder_near of its floor), and
\* not a ValueError.
SanitizeRaises(spec) == "memory" \in DOMAIN spec /\ spec["memory"] \in 1..999

\* A limit is a request where there is none.
Filled(requests, limits) ==
  [k \in DOMAIN requests \union DOMAIN limits |->
     IF k \in DOMAIN requests THEN requests[k] ELSE limits[k]]

\* adjust_resource_requirements: requests are filled with the limits, then
\* limits go up to the requests, or requests down to the limits.
AdjustResourceRequirements_Apart(limits, requests) ==
  [limits |-> limits, requests |-> Filled(requests, limits)]
AdjustResourceRequirements(limits, requests) ==
  LET all == Filled(requests, limits)
      both == DOMAIN limits \intersect DOMAIN all
  IN IF RlAdhere
     THEN [requests |-> all,
           limits |-> [k \in DOMAIN limits |-> Max({limits[k], all[k]})]]
     ELSE [limits |-> limits,
           requests |-> [k \in DOMAIN all |->
                           IF k \in both THEN Min({limits[k], all[k]}) ELSE all[k]]]

\* resource_reqs_func raises ValueError for a spec that is not valid.
IsValid(limits) == IsValidSpec(limits) /\ IsValidSpec(RlRequests)
ReqsRaise(limits) ==
  IsValid(limits) /\ (SanitizeRaises(limits) \/ SanitizeRaises(RlRequests))
ResourceReqs(limits) ==
  AdjustResourceRequirements(Sanitized(limits), Sanitized(RlRequests))

-------------------------------------------------------------------------------
(* The patch and the status *)

\* ResourcePatcher.apply: a template that has them already is left alone.
Applied(reqs) ==
  /\ rlTemplate' = reqs
  /\ rlObserved' = (rlObserved /\ reqs = rlTemplate)
  /\ rlPutBack' = IF reqs = rlTemplate THEN rlPutBack
                  ELSE reqs = rlCurrent /\ \E p \in RlPods : rlPods[p] # reqs
  /\ UNCHANGED <<rlCurrent, rlPods, rlReady, rlReported>>

\* _patch: within 20 seconds the API answers, or patch_failed is emitted. A hook that
\* raises is tried again.
PatchResources(u) ==
  /\ u \in rlEvents /\ ~ReqsRaise(rlLimits)
  /\ rlEvents' = rlEvents \ {u}
  /\ IF IsValid(rlLimits) /\ rlApi = "up"
     THEN rlFailed' = FALSE /\ Applied(ResourceReqs(rlLimits))
     ELSE rlFailed' = TRUE /\ UNCHANGED rlStatefulSet
  /\ UNCHANGED <<rlLimits, rlApi, rlChanges>>

\* is_failed: a dry run of the patch.
IsFailed == ~IsValid(rlLimits) \/ rlApi # "up"

\* is_in_progress; a status that says of no ready pod is no reason to wait.
IsInProgress ==
  \/ ~rlObserved
  \/ rlReported.ready # 0 /\ rlReported.ready < Cardinality(RlPods)
  \/ ~rlReported.oneRevision

\* get_status, which raises where the hook does.
GetStatus ==
  CASE ReqsRaise(rlLimits) -> "error"
    [] IsFailed -> "blocked"
    [] ~IsFailed /\ ~ReqsRaise(rlLimits) /\ IsInProgress -> "waiting"
    [] OTHER -> "active"

-------------------------------------------------------------------------------
(* Kubernetes *)

\* The roll-out is over when all pods are new and ready; the status says so.
StatefulSetReports ==
  LET over == rlReady = RlPods /\ \A p \in RlPods : rlPods[p] = rlTemplate
      current == IF over THEN rlTemplate ELSE rlCurrent
  IN /\ rlCurrent' = current
     /\ rlObserved' = TRUE
     /\ rlReported' = [ready |-> Cardinality(rlReady), oneRevision |-> current = rlTemplate]
     /\ rlPutBack' = (rlPutBack /\ ~over)
     /\ UNCHANGED <<rlLimits, rlEvents, rlApi, rlFailed, rlTemplate, rlPods, rlReady, rlChanges>>

ReplacePod(p) ==
  /\ rlObserved /\ rlPods[p] # rlTemplate /\ rlReady \union {p} = RlPods
  /\ rlPods' = [rlPods EXCEPT ![p] = rlTemplate]
  /\ rlReady' = rlReady \ {p}
  /\ UNCHANGED <<rlLimits, rlEvents, rlApi, rlFailed, rlTemplate, rlCurrent, rlObserved,
                 rlReported, rlPutBack, rlChanges>>

PodStarts(p) ==
  /\ p \notin rlReady
  /\ rlReady' = rlReady \union {p}
  /\ rlEvents' = rlEvents \union {p}
  /\ UNCHANGED <<rlLimits, rlApi, rlFailed, rlTemplate, rlCurrent, rlPods, rlObserved,
                 rlReported, rlPutBack, rlChanges>>

RlChange == rlChanges < MaxRlChanges /\ rlChanges' = rlChanges + 1

SetLimits(limits) ==
  /\ RlChange /\ limits # rlLimits
  /\ rlLimits' = limits /\ rlEvents' = RlPods
  /\ UNCHANGED <<rlApi, rlFailed, rlStatefulSet>>

ApiBecomes(state) ==
  /\ RlChange /\ state # rlApi
  /\ rlApi' = state
  /\ UNCHANGED <<rlLimits, rlEvents, rlFailed, rlStatefulSet>>

Bare == [limits |-> << >>, requests |-> << >>]

RlInit ==
  /\ rlLimits \in RlLimits /\ DOMAIN rlLimits = {}
  /\ rlEvents = RlPods /\ rlApi = "up" /\ rlFailed = FALSE
  /\ rlTemplate = Bare /\ rlCurrent = Bare
  /\ rlPods = [p \in RlPods |-> Bare] /\ rlReady = RlPods
  /\ rlObserved = TRUE
  /\ rlReported = [ready |-> Cardinality(RlPods), oneRevision |-> TRUE]
  /\ rlPutBack = FALSE /\ rlChanges = 0

RlNext ==
  \/ StatefulSetReports
  \/ \E p \in RlPods : PatchResources(p) \/ ReplacePod(p) \/ PodStarts(p)
  \/ \E limits \in RlLimits : SetLimits(limits)
  \/ \E state \in {"up", "down", "forbidden"} : ApiBecomes(state)

RlSpec == RlInit /\ [][RlNext]_rlVars

-------------------------------------------------------------------------------
RlTypeOK ==
  /\ rlLimits \in RlLimits /\ rlEvents \subseteq RlPods
  /\ rlApi \in {"up", "down", "forbidden"} /\ rlFailed \in BOOLEAN
  /\ DOMAIN rlPods = RlPods /\ rlReady \subseteq RlPods
  /\ rlObserved \in BOOLEAN /\ rlReported.ready \in 0..Cardinality(RlPods)
  /\ rlReported.oneRevision \in BOOLEAN /\ rlPutBack \in BOOLEAN
  /\ rlChanges \in 0..MaxRlChanges

\* Whatever limits the user sets, no pod is ever asked for that Kubernetes
\* could not schedule: no request above its limit, no fraction of a byte, and, of
\* a charm that adheres to its requests, no limit below what it asks for.
PodsSchedulable ==
  \A r \in {rlTemplate} \union {rlPods[p] : p \in RlPods} :
    /\ \A k \in DOMAIN r.limits \intersect DOMAIN r.requests : r.requests[k] <= r.limits[k]
    /\ \A spec \in {r.limits, r.requests} : "memory" \in DOMAIN spec => spec["memory"] % 1000 = 0
    /\ RlAdhere => \A k \in DOMAIN r.limits \intersect DOMAIN RlRequests :
                     RlRequests[k] <= r.limits[k]

\* "active" means that every pod runs with what the user has set, once the
\* patch was tried without failing, except that a template put back in the
\* middle of a roll-out looks like one that is rolled out.
ActiveIsInEffect ==
  GetStatus = "active" /\ rlEvents = {} /\ ~rlFailed /\ ~rlPutBack =>
    \A p \in RlPods : rlPods[p] = ResourceReqs(rlLimits)

\* The limits set are safe to roll out, and in effect when the charm says so.
LimitsHold == PodsSchedulable /\ ActiveIsInEffect
===============================================================================
