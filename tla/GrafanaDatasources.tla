-------------------------- MODULE GrafanaDatasources --------------------------
(***************************************************************************)
(* Datasources between Tempo and the Grafanas it is related to: the two    *)
(* ends of grafana_k8s/v1/grafana_source.py, and the datasource exchange   *)
(* the coordinator feeds from them (charm.py, _update_source_exchange).    *)
(*                                                                         *)
(* Tempo's units write their addresses to the databags of a relation, the  *)
(* Grafana at its other end keeps the sources it has seen in its own peer  *)
(* databag, writes back the UIDs it gave them and lists those to delete.   *)
(* A handler is one step here. Grafana is one unit, its leader. Until it   *)
(* has handled a departure it still sees the unit, so that departures are  *)
(* handled before changes here.                                            *)
(***************************************************************************)
EXTENDS Naturals

CONSTANTS TempoUnits, TempoLeader, \* the units Tempo may have, and its leader
          Grafanas,                \* related applications, by grafana_uid
          AppDatasource,           \* app_datasource of GrafanaSourceProvider
          UnitDatasources,         \* unit_datasources of GrafanaSourceProvider
          AppName,                 \* stands for the application as a source
          MaxSourceChanges               \* changes of the model: bounds the checking

ASSUME DatasourcesAssumption ==
  /\ TempoLeader \in TempoUnits /\ AppName \notin TempoUnits
  /\ AppDatasource \in BOOLEAN /\ UnitDatasources \in BOOLEAN
  /\ MaxSourceChanges \in Nat

VARIABLES
  sourceChanges,    \* how often the model has changed
  units,      \* the units Tempo has
  relation,   \* Grafana -> the number of its relation, 0 while unrelated
  related,    \* Grafana -> how many relations it has had
  sourcePending,    \* Tempo's units that have an event to handle
  hosts,      \* Grafana -> the units whose databag has an address
  appData,    \* Grafana -> has the leader written our application databag
  changed,    \* Grafana -> has it a relation-changed to handle
  departed,   \* Grafana -> the <<relation, unit>> departures it has to handle
  sources,    \* Grafana -> its peer data "sources": relation -> source names
  toDelete,   \* Grafana -> its peer data "sources_to_delete"
  uids,       \* Grafana -> the UIDs it wrote to our relation: a set of names
  exchange    \* the <<grafana, uid>> we publish to the datasource exchange

tempo == <<units, relation, related, sourcePending, hosts, appData, exchange>>
grafana == <<changed, departed, sources, toDelete, uids>>
sourcesVars == <<sourceChanges, units, relation, related, sourcePending, hosts, appData, changed,
          departed, sources, toDelete, uids, exchange>>

\* A source is named after its unit, or after the application.
Names == TempoUnits \cup {AppName}
Related(g) == relation[g] # 0
RelationIds == 1..MaxSourceChanges

SourcesInit ==
  /\ sourceChanges = 0
  /\ units = {TempoLeader}
  /\ relation = [g \in Grafanas |-> 0] /\ related = relation
  /\ sourcePending = {} /\ exchange = {}
  /\ hosts = [g \in Grafanas |-> {}]
  /\ appData = [g \in Grafanas |-> FALSE]
  /\ changed = [g \in Grafanas |-> FALSE]
  /\ departed = [g \in Grafanas |-> {}]
  /\ sources = [g \in Grafanas |-> [i \in RelationIds |-> {}]]
  /\ toDelete = [g \in Grafanas |-> {}]
  /\ uids = [g \in Grafanas |-> {}]

-------------------------------------------------------------------------------
(* Juju changes the model *)

Change == sourceChanges < MaxSourceChanges /\ sourceChanges' = sourceChanges + 1

Relate(g) ==
  /\ Change
  /\ ~Related(g)
  /\ relation' = [relation EXCEPT ![g] = related[g] + 1]
  /\ related' = [related EXCEPT ![g] = @ + 1]
  /\ sourcePending' = units
  /\ UNCHANGED <<units, hosts, appData, exchange, grafana>>

\* The relation goes, its databags with it. Every unit departs; the broken event
\* that follows has no handler at Grafana.
Unrelate(g) ==
  /\ Change
  /\ Related(g)
  /\ departed' = [departed EXCEPT ![g] = @ \cup ({relation[g]} \X units)]
  /\ relation' = [relation EXCEPT ![g] = 0]
  /\ hosts' = [hosts EXCEPT ![g] = {}]
  /\ appData' = [appData EXCEPT ![g] = FALSE]
  /\ uids' = [uids EXCEPT ![g] = {}]
  /\ sourcePending' = units
  /\ UNCHANGED <<units, related, exchange, changed, sources, toDelete>>

\* Another application related to Grafana changes.
OtherChange(g) ==
  /\ Change
  /\ changed' = [changed EXCEPT ![g] = TRUE]
  /\ UNCHANGED <<tempo, departed, sources, toDelete, uids>>

AddUnit(u) ==
  /\ Change
  /\ u \notin units
  /\ units' = units \cup {u}
  /\ sourcePending' = sourcePending \cup {u}
  /\ UNCHANGED <<relation, related, hosts, appData, exchange, grafana>>

RemoveUnit(u) ==
  /\ Change
  /\ u \in units \ {TempoLeader}
  /\ units' = units \ {u}
  /\ sourcePending' = sourcePending \ {u}
  /\ hosts' = [g \in Grafanas |-> hosts[g] \ {u}]
  /\ departed' = [g \in Grafanas |->
                    IF Related(g) THEN departed[g] \cup {<<relation[g], u>>}
                                  ELSE departed[g]]
  /\ UNCHANGED <<relation, related, appData, exchange, changed, sources,
                 toDelete, uids>>

-------------------------------------------------------------------------------
(* A unit of Tempo handles an event *)

\* get_source_uids, the deprecated getter, has the UIDs of unit sources only.
SourceUids(g) == IF Related(g) THEN uids[g] \ {AppName} ELSE {}

\* Slip: nothing is taken back once it has been published.
RawDatasources_Kept ==
  exchange \cup UNION {{g} \X SourceUids(g) : g \in Grafanas}
\* _update_source_exchange
RawDatasources == UNION {{g} \X SourceUids(g) : g \in Grafanas}

\* update_app_source: every unit writes its unit databags, the leader the
\* application's, too; the leader also updates the exchange.
TempoHook(u) ==
  LET wroteHosts == [g \in Grafanas |->
                       IF Related(g) /\ UnitDatasources THEN hosts[g] \cup {u}
                                                        ELSE hosts[g]]
      wroteApp == [g \in Grafanas |->
                     IF Related(g) /\ u = TempoLeader THEN TRUE ELSE appData[g]]
  IN /\ u \in sourcePending
     /\ sourcePending' = sourcePending \ {u}
     /\ hosts' = wroteHosts
     /\ appData' = wroteApp
     /\ changed' = [g \in Grafanas |->
                      \/ changed[g]
                      \/ wroteHosts[g] # hosts[g] \/ wroteApp[g] # appData[g]]
     /\ exchange' = IF u = TempoLeader THEN RawDatasources ELSE exchange
     /\ UNCHANGED <<sourceChanges, units, relation, related, departed, sources,
                    toDelete, uids>>

-------------------------------------------------------------------------------
(* Grafana handles an event *)

\* _get_source_config: the sources of the relation as its databags have them;
\* there are none without the metadata in the application databag.
SourceConfig(g) ==
  IF ~appData[g] THEN {}
  ELSE hosts[g] \cup (IF AppDatasource THEN {AppName} ELSE {})

\* A slip: a source that is back stays scheduled for deletion.
StillToDelete_All(g) == toDelete[g]
StillToDelete(g) == toDelete[g] \ SourceConfig(g)

\* _sources_to_delete looks at the relations there are now; a source of a
\* relation that is gone is not among them.
Vanished(g) == IF appData[g] THEN sources[g][relation[g]] \ SourceConfig(g) ELSE {}

\* _on_grafana_source_relation_changed
GrafanaChanged(g) ==
  /\ changed[g] /\ departed[g] = {}
  /\ changed' = [changed EXCEPT ![g] = FALSE]
  /\ sources' = [sources EXCEPT ![g] =
                   [i \in RelationIds |->
                      IF i = relation[g] THEN SourceConfig(g) ELSE {}]]
  /\ toDelete' = [toDelete EXCEPT ![g] = StillToDelete(g) \cup Vanished(g)]
  /\ uids' = [uids EXCEPT ![g] = IF appData[g] THEN SourceConfig(g) ELSE @]
  /\ sourcePending' = IF uids'[g] # uids[g] THEN units ELSE sourcePending
  /\ UNCHANGED <<sourceChanges, units, relation, related, hosts, appData, departed,
                 exchange>>

\* _on_grafana_source_relation_departed. What is published to a relation that
\* is still there are the sources before the unit was taken out.
Removed_None(g, i, u) == {} \* the departed unit is not scheduled for deletion
Removed(g, i, u) == sources[g][i] \cap {u}
GrafanaDeparted(g, i, u) ==
  /\ <<i, u>> \in departed[g]
  /\ departed' = [departed EXCEPT ![g] = @ \ {<<i, u>>}]
  /\ sources' = [sources EXCEPT ![g][i] = @ \ {u}]
  /\ toDelete' = [toDelete EXCEPT ![g] = @ \cup Removed(g, i, u)]
  /\ uids' = [uids EXCEPT ![g] = IF i = relation[g] /\ sources[g][i] # {}
                                 THEN sources[g][i] ELSE @]
  /\ sourcePending' = IF uids'[g] # uids[g] THEN units ELSE sourcePending
  /\ UNCHANGED <<sourceChanges, units, relation, related, hosts, appData, changed,
                 exchange>>

SourcesNext ==
  \/ \E g \in Grafanas :
       \/ (Relate(g) \/ Unrelate(g) \/ OtherChange(g))
       \/ GrafanaChanged(g)
       \/ \E i \in RelationIds, u \in TempoUnits : GrafanaDeparted(g, i, u)
  \/ \E u \in TempoUnits : (AddUnit(u) \/ RemoveUnit(u)) \/ TempoHook(u)

SourcesSpec == SourcesInit /\ [][SourcesNext]_sourcesVars

-------------------------------------------------------------------------------
(* Properties *)

SourcesTypeOK ==
  /\ sourceChanges \in Nat
  /\ units \subseteq TempoUnits /\ sourcePending \subseteq units
  /\ relation \in [Grafanas -> {0} \cup RelationIds]
  /\ \A g \in Grafanas : relation[g] <= related[g]
  /\ hosts \in [Grafanas -> SUBSET units] /\ appData \in [Grafanas -> BOOLEAN]
  /\ changed \in [Grafanas -> BOOLEAN]
  /\ departed \in [Grafanas -> SUBSET (RelationIds \X TempoUnits)]
  /\ sources \in [Grafanas -> [RelationIds -> SUBSET Names]]
  /\ toDelete \in [Grafanas -> SUBSET Names]
  /\ uids \in [Grafanas -> SUBSET Names]
  /\ exchange \subseteq Grafanas \X Names

Settled == sourcePending = {} /\ \A g \in Grafanas : ~changed[g] /\ departed[g] = {}

\* What Tempo offers Grafana g now.
Offered(g) ==
  IF ~Related(g) THEN {}
  ELSE (IF AppDatasource THEN {AppName} ELSE {})
         \cup (IF UnitDatasources THEN units ELSE {})

\* Once all events are handled Grafana has exactly the sources Tempo offers it
\* and is about to delete none of them, across units and relations that come
\* back under the names they had (_get_source_config, _sources_to_delete).
OfferedIsKept ==
  Settled => \A g \in Grafanas : Related(g) =>
    /\ sources[g][relation[g]] = Offered(g)
    /\ toDelete[g] \cap Offered(g) = {}

\* In a step Grafana forgets sources of units only by listing them.
ForgetsByListing ==
  \A g \in Grafanas :
    LET known == UNION {sources[g][i] : i \in RelationIds}
        knows == UNION {sources'[g][i] : i \in RelationIds}
    IN (known \ knows) \cap TempoUnits \subseteq toDelete'[g]

\* A unit that Grafana once had as a source and that has left is scheduled for
\* deletion, or Grafana would show a dead datasource for good: what Grafana
\* stored is given up only by listing it (_remove_source_from_datastore). Units
\* only: the application's own source goes with its relation, unlisted, because
\* relation-broken has no handler (grafana_source.py:741).
LeftIsListed == [][ForgetsByListing]_sourcesVars

\* The exchange has UIDs of related Grafanas only, and what each of them
\* last wrote (_update_source_exchange).
ExchangeCurrent ==
  Settled => \A g \in Grafanas, n \in TempoUnits :
    <<g, n>> \in exchange <=> Related(g) /\ n \in uids[g]

\* "Update the grafana-datasource-exchange relations with what we receive from
\* grafana-source" (charm.py:823): every UID a Grafana wrote is passed on.
ExchangeComplete ==
  Settled => \A g \in Grafanas, n \in Names :
    Related(g) /\ n \in uids[g] => <<g, n>> \in exchange
===============================================================================
