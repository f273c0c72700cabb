----------------------------- MODULE LogForwarding -----------------------------
(***************************************************************************)
(* Log forwarding over loki_push_api (loki_push_api.py): every unit of a   *)
(* related Loki publishes the URL it takes logs at, and a LogForwarder     *)
(* makes of each a log target in the Pebble plan of every container of its *)
(* charm. A target is never deleted from a plan, only disabled.            *)
(*                                                                         *)
(* The charm with the forwarder has one unit, which leads. A hook reads    *)
(* the databags as they are when it runs; the four relation events share   *)
(* one handler, so what is queued is the relation it is called for.        *)
(***************************************************************************)
EXTENDS Naturals

CONSTANTS LfRelations,    \* ids of relations with Loki applications
          LfLokis,        \* Loki units
          LfAppOf,        \* Loki unit -> the relation its application may have
          LfUrls, NoLfUrl,
          LfContainers,   \* of the charm that forwards
          MaxLfChanges

ASSUME LfAssumption ==
  LfAppOf \in [LfLokis -> LfRelations] /\ NoLfUrl \notin LfUrls /\ MaxLfChanges \in Nat

VARIABLES
  lfRelated,    \* the relations there are
  lfLokis,      \* the Loki units there are
  lfAddress,    \* Loki unit -> the URL it is at
  lfEndpoint,   \* Loki unit -> "endpoint" in its databag, NoLfUrl if none
  lfRules,      \* relations with alert_rules in the databag of the client
  lfConnects,   \* containers whose Pebble answers
  lfTargets,    \* container -> Loki unit -> the URL forwarded to, or NoLfUrl
  lfQueue,      \* relations the client has an event of
  lfReady,      \* containers with pebble-ready to come
  lfServing,    \* Loki units with an event to come
  lfChanges

lfBags == <<lfEndpoint, lfRules>>
lfLoki == <<lfRelated, lfLokis, lfAddress>>
lfPebble == <<lfConnects, lfTargets>>
lfQueues == <<lfQueue, lfReady, lfServing>>
lfVars == <<lfLoki, lfBags, lfPebble, lfQueues, lfChanges>>

UnitsIn(r) == {u \in lfLokis : LfAppOf[u] = r}
NoTargets == [u \in LfLokis |-> NoLfUrl]

-------------------------------------------------------------------------------
(* LogForwarder *)

\* is_ready: _extract_urls finds a URL for every unit of the relation.
IsReady(r) ==
  /\ UnitsIn(r) # {}
  /\ \A u \in UnitsIn(r) : lfEndpoint[u] # NoLfUrl

\* _extract_urls and _fetch_endpoints: nothing of a relation that is not ready.
FetchEndpoints(r) == IF IsReady(r) THEN UnitsIn(r) ELSE {}

\* _retrieve_endpoints_from_relation: the units with an endpoint to forward to.
ActiveEndpoints == UNION {FetchEndpoints(r) : r \in lfRelated}

\* disable_inactive_endpoints: "-all" for the targets of units that are not
\* active. Slip: none is disabled.
DisableInactive_None(targets, active) == targets
DisableInactive(targets, active) ==
  [u \in LfLokis |-> IF u \in active THEN targets[u] ELSE NoLfUrl]

\* enable_endpoints: the layer replaces the targets of the active units.
EnableEndpoints(targets, active) ==
  [u \in LfLokis |-> IF u \in active THEN lfEndpoint[u] ELSE targets[u]]

\* _update_endpoints
UpdateEndpoints(containers, active) ==
  lfTargets' = [c \in LfContainers |->
                  IF c \in containers
                  THEN EnableEndpoints(DisableInactive(lfTargets[c], active), active)
                  ELSE lfTargets[c]]

\* _handle_alert_rules: for the relation of the event, which may be gone.
RulesSent(r) == {r} \cap lfRelated

\* _update_logging: with no endpoint left it returns before it disables any.
UpdateLogging(r) ==
  /\ r \in lfQueue
  /\ lfQueue' = lfQueue \ {r}
  /\ IF ActiveEndpoints = {} THEN UNCHANGED <<lfTargets, lfRules>>
     ELSE /\ UpdateEndpoints(lfConnects, ActiveEndpoints)
          /\ lfRules' = lfRules \cup RulesSent(r)
  /\ UNCHANGED <<lfLoki, lfEndpoint, lfConnects, lfReady, lfServing, lfChanges>>

\* _on_pebble_ready.
PebbleReady(c) ==
  IF ActiveEndpoints = {} THEN UNCHANGED lfTargets
  ELSE UpdateEndpoints({c}, ActiveEndpoints)

PebbleReadyHook(c) ==
  /\ c \in lfReady
  /\ lfReady' = lfReady \ {c}
  /\ PebbleReady(c)
  /\ UNCHANGED <<lfLoki, lfBags, lfConnects, lfQueue, lfServing, lfChanges>>

-------------------------------------------------------------------------------
(* LokiPushApiProvider *)

\* update_endpoint and _process_logging_relation_changed, with the URL the Loki
\* charm has for the unit.
LokiHook(u) ==
  /\ u \in lfServing
  /\ lfServing' = lfServing \ {u}
  /\ lfEndpoint' = [lfEndpoint EXCEPT ![u] = lfAddress[u]]
  /\ lfQueue' = IF lfEndpoint' # lfEndpoint THEN lfQueue \cup {LfAppOf[u]} ELSE lfQueue
  /\ UNCHANGED <<lfLoki, lfRules, lfPebble, lfReady, lfChanges>>

-------------------------------------------------------------------------------
(* Juju, Pebble and the other charms *)

LfChange == lfChanges < MaxLfChanges /\ lfChanges' = lfChanges + 1

RelateLoki(r) ==
  /\ LfChange
  /\ r \notin lfRelated /\ UnitsIn(r) # {}
  /\ lfRelated' = lfRelated \cup {r}
  /\ lfQueue' = lfQueue \cup {r}
  /\ lfServing' = lfServing \cup UnitsIn(r)
  /\ UNCHANGED <<lfLokis, lfAddress, lfBags, lfPebble, lfReady>>
RemoveLokiRelation(r) ==
  /\ LfChange
  /\ r \in lfRelated
  /\ lfRelated' = lfRelated \ {r}
  /\ lfEndpoint' = [u \in LfLokis |-> IF LfAppOf[u] = r THEN NoLfUrl ELSE lfEndpoint[u]]
  /\ lfRules' = lfRules \ {r}
  /\ lfQueue' = lfQueue \cup {r}
  /\ lfServing' = lfServing \ UnitsIn(r)
  /\ UNCHANGED <<lfLokis, lfAddress, lfPebble, lfReady>>
AddLoki(u) ==
  /\ LfChange
  /\ u \notin lfLokis
  /\ lfLokis' = lfLokis \cup {u}
  /\ IF LfAppOf[u] \in lfRelated
     THEN lfQueue' = lfQueue \cup {LfAppOf[u]} /\ lfServing' = lfServing \cup {u}
     ELSE UNCHANGED <<lfQueue, lfServing>>
  /\ UNCHANGED <<lfRelated, lfAddress, lfBags, lfPebble, lfReady>>
RemoveLoki(u) ==
  /\ LfChange
  /\ u \in lfLokis /\ UnitsIn(LfAppOf[u]) # {u}
  /\ lfLokis' = lfLokis \ {u}
  /\ lfEndpoint' = [lfEndpoint EXCEPT ![u] = NoLfUrl]
  /\ lfQueue' = lfQueue \cup ({LfAppOf[u]} \cap lfRelated)
  /\ lfServing' = lfServing \ {u}
  /\ UNCHANGED <<lfRelated, lfAddress, lfRules, lfPebble, lfReady>>
\* The Loki charm has a new URL, and calls update_endpoint.
MoveLoki(u, url) ==
  /\ LfChange
  /\ u \in lfLokis /\ lfAddress[u] # url
  /\ lfAddress' = [lfAddress EXCEPT ![u] = url]
  /\ lfServing' = IF LfAppOf[u] \in lfRelated THEN lfServing \cup {u} ELSE lfServing
  /\ UNCHANGED <<lfRelated, lfLokis, lfBags, lfPebble, lfQueue, lfReady>>
\* A container restarts: its plan is that of its image.
ContainerStops(c) ==
  /\ LfChange
  /\ c \in lfConnects
  /\ lfConnects' = lfConnects \ {c}
  /\ lfTargets' = [lfTargets EXCEPT ![c] = NoTargets]
  /\ lfReady' = lfReady \ {c}
  /\ UNCHANGED <<lfLoki, lfBags, lfQueue, lfServing>>
ContainerStarts(c) ==
  /\ c \notin lfConnects
  /\ lfConnects' = lfConnects \cup {c}
  /\ lfReady' = lfReady \cup {c}
  /\ UNCHANGED <<lfLoki, lfBags, lfTargets, lfQueue, lfServing, lfChanges>>

LfInit ==
  /\ lfRelated = {} /\ lfRules = {} /\ lfChanges = 0
  /\ lfQueue = {} /\ lfReady = {} /\ lfServing = {}
  /\ lfLokis \in {us \in SUBSET LfLokis : \A r \in LfRelations :
                    \E u \in LfLokis : us \cap {v \in LfLokis : LfAppOf[v] = r} = {u}}
  /\ \E url \in LfUrls : lfAddress = [u \in LfLokis |-> url]
  /\ lfEndpoint = NoTargets
  /\ lfConnects = LfContainers
  /\ lfTargets = [c \in LfContainers |-> NoTargets]

LfNext ==
  \/ \E r \in LfRelations : RelateLoki(r) \/ RemoveLokiRelation(r) \/ UpdateLogging(r)
  \/ \E u \in LfLokis :
       \/ AddLoki(u) \/ RemoveLoki(u) \/ LokiHook(u)
       \/ \E url \in LfUrls : MoveLoki(u, url)
  \/ \E c \in LfContainers : PebbleReadyHook(c) \/ ContainerStops(c) \/ ContainerStarts(c)

LfSpec == LfInit /\ [][LfNext]_lfVars

-------------------------------------------------------------------------------
(* Properties *)

LfTypeOK ==
  /\ lfRelated \subseteq LfRelations /\ lfRules \subseteq lfRelated
  /\ lfLokis \subseteq LfLokis
  /\ lfAddress \in [LfLokis -> LfUrls]
  /\ lfEndpoint \in [LfLokis -> LfUrls \cup {NoLfUrl}]
  /\ lfConnects \subseteq LfContainers /\ lfReady \subseteq lfConnects
  /\ lfTargets \in [LfContainers -> [LfLokis -> LfUrls \cup {NoLfUrl}]]
  /\ lfQueue \subseteq LfRelations /\ lfServing \subseteq lfLokis
  /\ lfChanges \in 0..MaxLfChanges

AllHandled == lfQueue = {} /\ lfServing = {}
InUse == {u \in lfLokis : LfAppOf[u] \in lfRelated}

\* When all events are handled and a Loki is left, every container forwards its
\* logs to exactly the Loki units there are, where they are now; also one that
\* restarted, and whatever the order units and relations came and went in.
TargetsCurrent ==
  AllHandled /\ InUse # {} =>
    \A c \in lfConnects \ lfReady : \A u \in LfLokis :
      lfTargets[c][u] = IF u \in InUse THEN lfAddress[u] ELSE NoLfUrl

\* _update_logging returns without having sent the alert rules while no Loki has
\* published an endpoint: every Loki has them all the same when it has.
LokiHasRules == AllHandled => lfRules = lfRelated

\* Loki gets the logs, and the rules to watch them by.
LogsForwarded == TargetsCurrent /\ LokiHasRules
===============================================================================
