------------------------------ MODULE RemoteWrite ------------------------------
(***************************************************************************)
(* The prometheus_remote_write interface (prometheus_remote_write.py).     *)
(* Every unit of a related Prometheus publishes the URL it is to be        *)
(* written at; the units of Tempo, the consumer, write to all of them, and *)
(* its leader pushes alert rules, one for each unit there is.              *)
(*                                                                         *)
(* A URL may be that of an ingress, and then of several units. A           *)
(* Prometheus reads the rules of a relation when its databag changes; that *)
(* those of two relations with one identifier overwrite each other is left *)
(* out, for each Prometheus here has one relation. The rules are valid:    *)
(* what a Prometheus answers to others, and what Tempo's charm is told     *)
(* then, is left out (AlertRuleFiles and ScrapeTargets have both).         *)
(***************************************************************************)
EXTENDS Naturals

CONSTANTS RwRelations,     \* relation ids, each with a Prometheus application
          RwUrls, NoRwUrl,
          RwServers,       \* the units a Prometheus may have
          RwUnits,         \* the units Tempo may have
          MaxRwChanges

ASSUME RwAssumption ==
  RwRelations \subseteq Nat /\ NoRwUrl \notin RwUrls /\ MaxRwChanges \in Nat

VARIABLES
  rwRelated,    \* the relations there are
  rwServers,    \* relation -> the units of its Prometheus
  rwUrl,        \* relation -> unit -> the URL in its databag
  rwServerUrl,  \* relation -> the URL the Prometheus is at now
  rwUnits,      \* Tempo's units
  rwLeader,     \* the one that leads
  rwElected,    \* has it an event for that
  rwRules,      \* relation -> the units named in the rules pushed, {} if none
  rwLoaded,     \* relation -> the units named in the rules its Prometheus has
  rwSends,      \* unit -> the URLs it writes to
  rwJoined,     \* <<relation, unit>> of Tempo with relation-joined
  rwEvents,     \* units of Tempo with any other event
  rwServing,    \* <<relation, unit>> of Prometheus with an event
  rwHeard,      \* relations whose Prometheus has a change of the rules to read
  rwChanges

rwPushed == <<rwRules, rwHeard>>
rwTempo == <<rwUnits, rwLeader, rwElected, rwPushed, rwSends>>
rwPrometheus == <<rwServers, rwUrl, rwServerUrl, rwLoaded>>
rwQueues == <<rwJoined, rwEvents, rwServing>>
rwVars == <<rwRelated, rwPrometheus, rwTempo, rwQueues, rwChanges>>

-------------------------------------------------------------------------------
(* The consumer *)

\* endpoints: the units' URLs, each once.
RwEndpoints ==
  (UNION {{rwUrl[r][p] : p \in rwServers[r]} : r \in rwRelated}) \ {NoRwUrl}

\* _duplicate_rules_per_unit: HostMetricsMissing for each unit in the peer
\* relation, and the leader. The rules from disk are no concern here.
RulesPerUnit == rwUnits

\* relation-changed, at the Prometheus of a relation with other rules.
TellPrometheus ==
  rwHeard' = rwHeard \cup {r \in rwRelated : rwRules'[r] # rwRules[r]}

\* _push_alerts_to_relation_databag, for the relations in question.
PushAlerts(u, relations) ==
  /\ rwRules' = [r \in RwRelations |->
                   IF rwLeader = u /\ r \in relations THEN RulesPerUnit ELSE rwRules[r]]
  /\ TellPrometheus

\* Any event of Tempo reconciles its configuration.
Writes(u) == rwSends' = [rwSends EXCEPT ![u] = RwEndpoints]

PushOnRelationJoined(r, u) ==
  /\ <<r, u>> \in rwJoined
  /\ rwJoined' = rwJoined \ {<<r, u>>}
  /\ PushAlerts(u, {r})
  /\ Writes(u)
  /\ UNCHANGED <<rwRelated, rwPrometheus, rwUnits, rwLeader, rwElected, rwEvents,
                 rwServing, rwChanges>>
EndpointsChanged(u) ==
  /\ u \in rwEvents
  /\ rwEvents' = rwEvents \ {u}
  /\ Writes(u)
  /\ UNCHANGED <<rwRelated, rwPrometheus, rwUnits, rwLeader, rwElected, rwPushed, rwJoined,
                 rwServing, rwChanges>>

\* leader_elected.
ElectedPushes == rwRelated

PushToAll(u) ==
  /\ rwElected /\ rwLeader = u
  /\ rwElected' = FALSE
  /\ PushAlerts(u, ElectedPushes)
  /\ Writes(u)
  /\ UNCHANGED <<rwRelated, rwPrometheus, rwUnits, rwLeader, rwQueues, rwChanges>>

-------------------------------------------------------------------------------
(* The provider *)

TellTempo(r) ==
  rwEvents' = IF rwUrl'[r] # rwUrl[r] THEN rwEvents \cup rwUnits ELSE rwEvents

\* Created and joined set the endpoint of the unit; its charm calls
\* update_endpoint when the URL changes.
SetEndpoint(r, p) ==
  /\ <<r, p>> \in rwServing
  /\ rwServing' = rwServing \ {<<r, p>>}
  /\ rwUrl' = [rwUrl EXCEPT ![r][p] = rwServerUrl[r]]
  /\ TellTempo(r)
  /\ UNCHANGED <<rwRelated, rwServers, rwServerUrl, rwLoaded, rwTempo, rwJoined, rwChanges>>

\* alerts, read by the charm when it hears of a change: the rules of the
\* relations that have any.
LoadedRules(r) == IF r \in rwRelated THEN rwRules[r] ELSE {}

PrometheusReads(r) ==
  /\ r \in rwHeard
  /\ rwHeard' = rwHeard \ {r}
  /\ rwLoaded' = [rwLoaded EXCEPT ![r] = LoadedRules(r)]
  /\ UNCHANGED <<rwRelated, rwServers, rwUrl, rwServerUrl, rwUnits, rwLeader, rwElected,
                 rwRules, rwSends, rwJoined, rwEvents, rwServing, rwChanges>>

-------------------------------------------------------------------------------
(* Juju *)

RwChange == rwChanges < MaxRwChanges /\ rwChanges' = rwChanges + 1

RelateRw(r) ==
  /\ RwChange
  /\ r \notin rwRelated
  /\ rwRelated' = rwRelated \cup {r}
  /\ rwJoined' = rwJoined \cup ({r} \X rwUnits)
  /\ rwEvents' = rwUnits
  /\ rwServing' = rwServing \cup ({r} \X rwServers[r])
  /\ UNCHANGED <<rwPrometheus, rwTempo>>

\* Slip: relation_broken is not observed.
BrokenTells_None == rwEvents
BrokenTells == rwUnits

RemoveRw(r) ==
  /\ RwChange
  /\ r \in rwRelated
  /\ rwRelated' = rwRelated \ {r}
  /\ rwUrl' = [rwUrl EXCEPT ![r] = [p \in RwServers |-> NoRwUrl]]
  /\ rwRules' = [rwRules EXCEPT ![r] = {}]
  /\ rwJoined' = {e \in rwJoined : e[1] # r}
  /\ rwEvents' = BrokenTells
  /\ rwServing' = {e \in rwServing : e[1] # r}
  /\ rwHeard' = rwHeard \cup {r}
  /\ UNCHANGED <<rwServers, rwServerUrl, rwLoaded, rwUnits, rwLeader, rwElected, rwSends>>
AddServer(r, p) ==
  /\ RwChange
  /\ p \notin rwServers[r]
  /\ rwServers' = [rwServers EXCEPT ![r] = @ \cup {p}]
  /\ rwServing' = IF r \in rwRelated THEN rwServing \cup {<<r, p>>} ELSE rwServing
  /\ rwEvents' = IF r \in rwRelated THEN rwUnits ELSE rwEvents
  /\ UNCHANGED <<rwRelated, rwUrl, rwServerUrl, rwLoaded, rwTempo, rwJoined>>
RemoveServer(r, p) ==
  /\ RwChange
  /\ p \in rwServers[r] /\ rwServers[r] # {p}
  /\ rwServers' = [rwServers EXCEPT ![r] = @ \ {p}]
  /\ rwUrl' = [rwUrl EXCEPT ![r][p] = NoRwUrl]
  /\ rwServing' = rwServing \ {<<r, p>>}
  /\ rwEvents' = IF r \in rwRelated THEN rwUnits ELSE rwEvents
  /\ UNCHANGED <<rwRelated, rwServerUrl, rwLoaded, rwTempo, rwJoined>>
MoveServer(r, url) ==
  /\ RwChange
  /\ rwServerUrl[r] # url
  /\ rwServerUrl' = [rwServerUrl EXCEPT ![r] = url]
  /\ rwServing' = IF r \in rwRelated THEN rwServing \cup ({r} \X rwServers[r])
                  ELSE rwServing
  /\ UNCHANGED <<rwRelated, rwServers, rwUrl, rwLoaded, rwTempo, rwJoined, rwEvents>>
AddWriter(u) ==
  /\ RwChange
  /\ u \notin rwUnits
  /\ rwUnits' = rwUnits \cup {u}
  /\ rwJoined' = rwJoined \cup (rwRelated \X {u})
  /\ rwEvents' = rwEvents \cup rwUnits'
  /\ rwSends' = [rwSends EXCEPT ![u] = {}]
  /\ UNCHANGED <<rwRelated, rwPrometheus, rwLeader, rwElected, rwPushed, rwServing>>
RemoveWriter(u, next) ==
  /\ RwChange
  /\ u \in rwUnits /\ next \in rwUnits \ {u}
  /\ rwUnits' = rwUnits \ {u}
  /\ rwJoined' = {e \in rwJoined : e[2] # u}
  /\ rwEvents' = rwUnits'
  /\ rwLeader' = IF rwLeader = u THEN next ELSE rwLeader
  /\ rwElected' = (rwElected \/ rwLeader = u)
  /\ UNCHANGED <<rwRelated, rwPrometheus, rwPushed, rwSends, rwServing>>

RwInit ==
  /\ rwRelated = {} /\ rwJoined = {} /\ rwEvents = {} /\ rwServing = {} /\ rwChanges = 0
  /\ \E p \in RwServers : rwServers = [r \in RwRelations |-> {p}]
  /\ rwUrl = [r \in RwRelations |-> [p \in RwServers |-> NoRwUrl]]
  /\ \E url \in RwUrls : rwServerUrl = [r \in RwRelations |-> url]
  /\ \E u \in RwUnits : rwUnits = {u} /\ rwLeader = u
  /\ rwElected = FALSE
  /\ rwRules = [r \in RwRelations |-> {}] /\ rwLoaded = rwRules /\ rwHeard = {}
  /\ rwSends = [u \in RwUnits |-> {}]

RwNext ==
  \/ \E r \in RwRelations :
       \/ RelateRw(r) \/ RemoveRw(r) \/ PrometheusReads(r)
       \/ \E url \in RwUrls : MoveServer(r, url)
       \/ \E p \in RwServers : AddServer(r, p) \/ RemoveServer(r, p) \/ SetEndpoint(r, p)
       \/ \E u \in RwUnits : PushOnRelationJoined(r, u)
  \/ \E u \in RwUnits :
       \/ AddWriter(u) \/ EndpointsChanged(u) \/ PushToAll(u)
       \/ \E next \in RwUnits : RemoveWriter(u, next)

RwSpec == RwInit /\ [][RwNext]_rwVars

-------------------------------------------------------------------------------
(* Properties *)

RwDataOK ==
  /\ rwRelated \subseteq RwRelations
  /\ rwServers \in [RwRelations -> SUBSET RwServers]
  /\ \A r \in RwRelations : rwServers[r] # {}
  /\ rwUrl \in [RwRelations -> [RwServers -> RwUrls \cup {NoRwUrl}]]
  /\ rwServerUrl \in [RwRelations -> RwUrls]
  /\ rwUnits \subseteq RwUnits /\ rwLeader \in rwUnits /\ rwElected \in BOOLEAN
  /\ rwRules \in [RwRelations -> SUBSET RwUnits]
  /\ rwLoaded \in [RwRelations -> SUBSET RwUnits]
  /\ rwSends \in [RwUnits -> SUBSET RwUrls]
  /\ rwJoined \subseteq rwRelated \X rwUnits /\ rwEvents \subseteq rwUnits

RwQueuesOK ==
  /\ rwServing \subseteq rwRelated \X RwServers
  /\ rwHeard \subseteq RwRelations
  /\ rwChanges \in 0..MaxRwChanges

\* The values of the variables; events are of relations and units there are, but
\* for those of a relation that is broken.
RwTypeOK == RwDataOK /\ RwQueuesOK

\* When all have handled their events, every unit of Tempo writes to where the
\* Prometheus units are now, and to nothing that is gone.
EndpointsCurrent ==
  rwServing = {} =>
    \A u \in rwUnits :
      u \notin rwEvents /\ (\A r \in rwRelated : <<r, u>> \notin rwJoined) =>
        rwSends[u] = {rwServerUrl[r] : r \in rwRelated}

\* No relation is left without rules by a change of leader: the old one may have
\* gone before it handled relation-joined, which the new one did as a follower.
RulesPushed ==
  ~rwElected =>
    \A r \in rwRelated : <<r, rwLeader>> \notin rwJoined => rwRules[r] # {}

\* A Prometheus that has heard it all has the rules that Tempo's leader pushed
\* last, and none of a relation that is gone.
RulesLoaded == \A r \in RwRelations \ rwHeard : rwLoaded[r] = rwRules[r]

\* Prometheus has what it needs of Tempo, and Tempo of Prometheus.
RemoteWriteCurrent == EndpointsCurrent /\ RulesPushed /\ RulesLoaded
===============================================================================
