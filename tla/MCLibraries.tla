----------------------------- MODULE MCLibraries -----------------------------
(***************************************************************************)
(* Small instances of the parts of the system without liveness properties, *)
(* in one run: in each behaviour one of them moves, which "part" names,    *)
(* and nothing of the others. They share no state.                         *)
(***************************************************************************)
EXTENDS MCTempoCluster, CharmTracingBuffer, GrafanaDatasources, Dashboards,
        AlertRuleFiles, LogForwarding, PromtailSetup, RemoteWrite, Probes,
        MeshPolicies, MeshLabels, ResourceLimits

VARIABLE part  \* the part that moves

librariesVars ==
  <<bufferVars, clusterVars, sourcesVars, gdVars, arVars, lfVars,
    prVars, rwVars, pbVars, mpVars, mlVars, rlVars>>

-------------------------------------------------------------------------------
(* The instances *)

\* Dashboards of two uids: a newer version of one, and content that does not load;
\* and none any more.
Dashboard(uid, version, state) == [uid |-> uid, version |-> version, state |-> state]
MCGdRevisions ==
  {{Dashboard("a", 1, "good"), Dashboard("b", 1, "good")},
   {Dashboard("a", 2, "good"), Dashboard("b", 1, "not JSON")},
   {Dashboard("a", 2, "good"), Dashboard("b", 1, "garbled")},
   {}}

\* Rules with and without labels, of clients two of which say the same of themselves.
MCArRuleSets == [id : {"a", "none"}, ok : BOOLEAN]
MCArMetadataOf == [r \in ArRelations |-> IF r = 3 THEN "none" ELSE "b"]

\* Two units of one Loki, and one of another.
MCLfAppOf == [u \in LfLokis |-> IF u = "l3" THEN "h" ELSE "g"]

\* Two relations with one application, one of another model, one for the pods.
MCMpAppOf == [r \in MpRelations |-> IF r = 3 THEN "offer" ELSE "otel"]
MCMpTargetOf == [r \in MpRelations |-> IF r = 4 THEN "unit" ELSE "app"]

\* Thousandths of cores and of bytes: none, some, zero, negative, less than a byte
\* and many.
MCRlLimits ==
  {<<>>, [cpu |-> 100], [cpu |-> 0, memory |-> 2800], [memory |-> -1000],
   [memory |-> 500], [cpu |-> 900, memory |-> 9000]}
MCRlRequests == [cpu |-> 500, memory |-> 4000]

-------------------------------------------------------------------------------
(* The steps: those of the part, while the others stay *)

Buffering == part = "buffer" /\ UNCHANGED
  <<clusterVars, sourcesVars, gdVars, arVars, lfVars, prVars,
    rwVars, pbVars, mpVars, mlVars, rlVars, part>>
Clustering == part = "cluster" /\ UNCHANGED
  <<bufferVars, sourcesVars, gdVars, arVars, lfVars, prVars,
    rwVars, pbVars, mpVars, mlVars, rlVars, part>>
Sourcing == part = "sources" /\ UNCHANGED
  <<bufferVars, clusterVars, gdVars, arVars, lfVars, prVars,
    rwVars, pbVars, mpVars, mlVars, rlVars, part>>
Showing == part = "dashboards" /\ UNCHANGED
  <<bufferVars, clusterVars, sourcesVars, arVars, lfVars, prVars,
    rwVars, pbVars, mpVars, mlVars, rlVars, part>>
Ruling == part = "rules" /\ UNCHANGED
  <<bufferVars, clusterVars, sourcesVars, gdVars, lfVars, prVars,
    rwVars, pbVars, mpVars, mlVars, rlVars, part>>
Forwarding == part = "forwarding" /\ UNCHANGED
  <<bufferVars, clusterVars, sourcesVars, gdVars, arVars, prVars,
    rwVars, pbVars, mpVars, mlVars, rlVars, part>>
Collecting == part = "promtail" /\ UNCHANGED
  <<bufferVars, clusterVars, sourcesVars, gdVars, arVars, lfVars,
    rwVars, pbVars, mpVars, mlVars, rlVars, part>>
Writing == part = "remote write" /\ UNCHANGED
  <<bufferVars, clusterVars, sourcesVars, gdVars, arVars, lfVars,
    prVars, pbVars, mpVars, mlVars, rlVars, part>>
Probing == part = "probes" /\ UNCHANGED
  <<bufferVars, clusterVars, sourcesVars, gdVars, arVars, lfVars,
    prVars, rwVars, mpVars, mlVars, rlVars, part>>
Policing == part = "policies" /\ UNCHANGED
  <<bufferVars, clusterVars, sourcesVars, gdVars, arVars, lfVars,
    prVars, rwVars, pbVars, mlVars, rlVars, part>>
Labelling == part = "labels" /\ UNCHANGED
  <<bufferVars, clusterVars, sourcesVars, gdVars, arVars, lfVars,
    prVars, rwVars, pbVars, mpVars, rlVars, part>>
Limiting == part = "limits" /\ UNCHANGED
  <<bufferVars, clusterVars, sourcesVars, gdVars, arVars, lfVars,
    prVars, rwVars, pbVars, mpVars, mlVars, part>>

BufferSteps ==
  \/ \E e \in {"none", "http", "https"}, c \in BOOLEAN : Buffering /\ Reconfigure(e, c)
  \/ \E b \in Backends : Buffering /\ BackendBecomes(b)
  \/ Buffering /\ BeginHook
  \/ Buffering /\ DropBuffer
  \/ Buffering /\ FlushEntry
  \/ Buffering /\ FlushEnd
  \/ Buffering /\ Crash
  \/ \E size \in Sizes : \/ Buffering /\ ExportEarly(size)
                         \/ Buffering /\ Close(size)

ClusterSteps ==
  \/ Clustering /\ CoordinatorHook
  \/ \E a \in Apps : \/ \E r \in Roles : Clustering /\ SetRole(a, r)
                     \/ \E n \in 0..MaxUnits : Clustering /\ Scale(a, n)
  \/ \E ps \in SUBSET Protocols : Clustering /\ Request(ps)

SourceSteps ==
  \/ \E g \in Grafanas :
       \/ Sourcing /\ Relate(g)
       \/ Sourcing /\ Unrelate(g)
       \/ Sourcing /\ OtherChange(g)
       \/ Sourcing /\ GrafanaChanged(g)
       \/ \E i \in RelationIds, u \in TempoUnits : Sourcing /\ GrafanaDeparted(g, i, u)
  \/ \E u \in TempoUnits : \/ Sourcing /\ AddUnit(u)
                           \/ Sourcing /\ RemoveUnit(u)
                           \/ Sourcing /\ TempoHook(u)

DashboardSteps ==
  \/ \E r \in GdRelations :
       \/ Showing /\ RelateGrafana(r)
       \/ Showing /\ RemoveGrafana(r)
       \/ Showing /\ DashboardsChanged(r)
       \/ Showing /\ DashboardsBroken(r)
       \/ \E revision \in GdRevisions : Showing /\ UpgradeProvider(r, revision)
       \/ \E u \in GdUnits : \/ Showing /\ ProviderRefresh(r, u)
                             \/ Showing /\ ProviderCreated(r, u)
                             \/ Showing /\ ProviderChanged(r, u)
                             \/ Showing /\ ElectProvider(r, u)
  \/ \E g \in GdGrafanas : \/ Showing /\ GrafanaPeerChanged(g)
                           \/ Showing /\ ElectGrafana(g)

RuleSteps ==
  \/ Ruling /\ LokiLeft
  \/ \E r \in ArRelations :
       \/ Ruling /\ RelateRules(r)
       \/ Ruling /\ RemoveRules(r)
       \/ Ruling /\ LokiChanged(r)
       \/ Ruling /\ PushRules(r)
       \/ Ruling /\ ClientChanged(r)
       \/ \E rules \in ArRuleSets : Ruling /\ UpgradeClient(r, rules)

ForwardingSteps ==
  \/ \E r \in LfRelations : \/ Forwarding /\ RelateLoki(r)
                            \/ Forwarding /\ RemoveLokiRelation(r)
                            \/ Forwarding /\ UpdateLogging(r)
  \/ \E u \in LfLokis :
       \/ Forwarding /\ AddLoki(u)
       \/ Forwarding /\ RemoveLoki(u)
       \/ Forwarding /\ LokiHook(u)
       \/ \E url \in LfUrls : Forwarding /\ MoveLoki(u, url)
  \/ \E c \in LfContainers : \/ Forwarding /\ PebbleReadyHook(c)
                             \/ Forwarding /\ ContainerStops(c)
                             \/ Forwarding /\ ContainerStarts(c)

PromtailSteps ==
  \/ Collecting /\ PromtailReady
  \/ Collecting /\ CutOffInDownload
  \/ Collecting /\ WorkloadRestarts
  \/ Collecting /\ WorkloadStarts
  \/ \E r \in PrRelations :
       \/ Collecting /\ PromtailCreated(r)
       \/ Collecting /\ PromtailChanged(r)
       \/ Collecting /\ PromtailDeparted(r)
       \/ Collecting /\ LokiPublishes(r)
       \/ Collecting /\ LokiHears(r)
       \/ Collecting /\ RelateProxy(r)
       \/ Collecting /\ RemoveProxy(r)

RemoteWriteSteps ==
  \/ \E r \in RwRelations :
       \/ Writing /\ RelateRw(r)
       \/ Writing /\ RemoveRw(r)
       \/ Writing /\ PrometheusReads(r)
       \/ \E url \in RwUrls : Writing /\ MoveServer(r, url)
       \/ \E p \in RwServers : \/ Writing /\ AddServer(r, p)
                               \/ Writing /\ RemoveServer(r, p)
                               \/ Writing /\ SetEndpoint(r, p)
       \/ \E u \in RwUnits : Writing /\ PushOnRelationJoined(r, u)
  \/ \E u \in RwUnits :
       \/ Writing /\ AddWriter(u)
       \/ Writing /\ EndpointsChanged(u)
       \/ Writing /\ PushToAll(u)
       \/ \E next \in RwUnits : Writing /\ RemoveWriter(u, next)

ProbeSteps ==
  \/ \E r \in PbRelations :
       \/ Probing /\ ProbesChanged(r)
       \/ Probing /\ ProbesDeparted(r)
       \/ Probing /\ RelateExporter(r)
       \/ Probing /\ RemoveExporter(r)
       \/ \E u \in PbUnits : \/ Probing /\ SetProbesSpec(r, u)
                             \/ Probing /\ ElectPublisher(r, u)
       \/ \E url \in PbUrls : Probing /\ MoveProvider(r, url)

PolicySteps ==
  \/ Policing /\ RelationsChanged
  \/ Policing /\ BeaconReconciles
  \/ Policing /\ RelateBeacon
  \/ Policing /\ RemoveBeacon
  \/ \E r \in MpRelations : \/ Policing /\ RelateSource(r)
                            \/ Policing /\ RemoveSource(r)
  \/ \E app \in MpForeign : Policing /\ Introduce(app)

LabelSteps ==
  \/ Labelling /\ RelateMesh
  \/ Labelling /\ RemoveMesh
  \/ \E labels \in SUBSET MlLabels : Labelling /\ OfferLabels(labels)
  \/ \E u \in MlUnits :
       \/ Labelling /\ BeginLabels(u)
       \/ Labelling /\ ReadLabelMap(u)
       \/ Labelling /\ PatchTemplate(u)
       \/ Labelling /\ PatchService(u)
       \/ Labelling /\ RecordLabels(u)
       \/ Labelling /\ DeleteLabelMap(u)
       \/ Labelling /\ MeshHookDies(u)

LimitSteps ==
  \/ Limiting /\ StatefulSetReports
  \/ \E p \in RlPods : \/ Limiting /\ PatchResources(p)
                       \/ Limiting /\ ReplacePod(p)
                       \/ Limiting /\ PodStarts(p)
  \/ \E limits \in RlLimits : Limiting /\ SetLimits(limits)
  \/ \E state \in {"up", "down", "forbidden"} : Limiting /\ ApiBecomes(state)

\* The others start in one of the ways they may.
LibrariesInit ==
  /\ part \in {"buffer", "cluster", "sources", "dashboards", "rules", "forwarding",
               "promtail", "remote write", "probes", "policies", "labels", "limits"}
  /\ BufferInit /\ DeployedInit /\ SourcesInit /\ GdInit /\ ArInit /\ LfInit
  /\ PrInit /\ RwInit /\ PbInit /\ MpInit /\ MlInit /\ RlInit
  /\ part # "cluster" => \A a \in Apps : role[a] = "all"
  /\ part # "dashboards" =>
       /\ \A r \in GdRelations : gdShips[r] = (CHOOSE rev \in GdRevisions : TRUE) /\ gdLeads[r] = 1
       /\ gdMain = 1
  /\ part # "rules" => \A r \in ArRelations : arShips[r] = CHOOSE rules \in ArRuleSets : TRUE
  /\ part # "forwarding" => "l1" \in lfLokis /\ \A u \in LfLokis : lfAddress[u] = "a"
  /\ part # "remote write" =>
       /\ \A r \in RwRelations : rwServers[r] = {"p1"} /\ rwServerUrl[r] = "a"
       /\ rwLeader = "t1"

LibrariesNext ==
  \/ BufferSteps \/ ClusterSteps \/ SourceSteps \/ DashboardSteps \/ RuleSteps
  \/ ForwardingSteps \/ PromtailSteps \/ RemoteWriteSteps \/ ProbeSteps \/ PolicySteps
  \/ LabelSteps \/ LimitSteps

LibrariesSpec == LibrariesInit /\ [][LibrariesNext]_<<librariesVars, part>>

-------------------------------------------------------------------------------
\* The values of the variables of each of the twelve parts.
LibrariesTypeOK ==
  /\ BufferTypeOK /\ ClusterTypeOK /\ SourcesTypeOK /\ GdTypeOK /\ ArTypeOK /\ LfTypeOK
  /\ PrTypeOK /\ RwTypeOK /\ PbTypeOK /\ MpTypeOK /\ MlTypeOK /\ RlTypeOK
===============================================================================
