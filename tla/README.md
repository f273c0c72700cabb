# Verification of the Tempo operators

TLA+ models of the Tempo coordinator and of the protocols it speaks, what TLC
checks of them and what TLAPS proves. Paths are relative to `src/` of the
repository; `charm.py` alone means `coordinator/src/charm.py`.

## 1. The system

A Tempo deployment is two Juju charms on Kubernetes. The **coordinator**
(`coordinator/`) runs an nginx in front of the cluster, computes the
configuration of the **workers** (`worker/`), and tells every related
application where to send and query traces. Juju runs *hooks*: one process per
event and unit, which reads databags and configuration, computes, and writes
databags. The base classes of both charms (`coordinated_workers`, `cosl`) are
not in the repository.

| component | state it keeps | operations |
|---|---|---|
| reconciliation (`charm.py`) | databags of tracing, tempo-api, grafana-source, ingress and istio-ingress; each unit's nginx and ports; peer databag (`fqdn`) | every event ends in `_reconcile`, gated by `can_handle_events`; `peers-relation-created` |
| tracing (`lib/.../v0/tracing.py`) | none: requests are read and receivers written in each hook | provider: `requested_protocols`, `publish_receivers`; requirer: `request_protocols`, `is_ready`, `get_endpoint`, `charm_tracing_config` |
| ingress libraries (`traefik_route.py`, `istio_ingress_route.py`, `traefik_k8s/v2/ingress.py`) | host, scheme and URL in per-unit `StoredState` | the changed and broken handlers, submission of routes and of units |
| charm tracing (`charm_tracing.py`) | a buffer file that outlives the hook | save, prune, flush, drop; the decision at the end of a hook |
| Grafana sources (`grafana_source.py`, `_update_source_exchange`) | sources, sources to delete and UIDs, in four databags | update of the offered sources, Grafana's changed and departed handlers, the exchange |
| Tempo configuration (`tempo.py`, `tempo_config.py`) and nginx (`nginx_config.py`) | none; recomputed in each hook from the cluster relation | frontend address, replication factor, upstreams, worker ports |
| certificates (`tls_certificates.py`) | private key and certificates in Juju secrets, requests and answers in databags | request, renewal, the safety net, new keys and attributes; the provider's answers and revocations |
| s3 (`s3.py`) | two application databags, `data` for the diff | asking for a bucket once, announcing complete credentials |
| metrics (`prometheus_scrape.py`, `prometheus_remote_write.py`) | jobs, rules, addresses, endpoints in databags | expansion and naming of jobs, rule errors, pushing of rules, collection of endpoints |
| logs (`loki_push_api.py`) | endpoints and rules in databags, targets in Pebble plans, the promtail binary | log forwarding, the log proxy, alert rules and their errors |
| dashboards (`grafana_dashboard.py`) | StoredState of every unit of the charm, Grafana's peer databag | publishing, rendering, errors, selection by version |
| service mesh (`service_mesh.py`) | labels on two Kubernetes objects and a ConfigMap; policies in a databag | patching and recording labels, listing and reconciling policies |
| probes (`blackbox_probes.py`) | a cache of probes in StoredState | publishing, marking stale, rebuilding |
| resource limits (`kubernetes_compute_resources_patch.py`) | the StatefulSet's template | adjusting, patching, status |
| worker (`worker/src`) | the workload's Pebble plan | restart, layer, status |

They interact through databags and StoredState only. The reconciliation reads
the requirers' databags, the ingress libraries' StoredState, the peers'
databags and the certificate, and writes all the others. Grafana writes back
UIDs, which the reconciliation passes on to the datasource exchange. The cluster
relation carries the configuration to the workers. Charm tracing runs inside
every hook of every charm that uses the library, the coordinator included. The
vendored libraries are both ends of an interface each: the charms instantiate one,
and charms of other repositories the other.

What is hard:

* **Views and leaders.** A hook acts on the model as it was when it began, and
  its writes land when it ends, or not at all. Only the leader publishes;
  leadership moves under running hooks, and the old leader gets no event.
* **Skipped work.** While the cluster is not coherent every event is dropped;
  what it would have done must be done by some later hook.
* **Memory.** StoredState differs from unit to unit, is committed before the
  hook's writes are flushed, and is not cleared by an empty databag.
* **Ordering.** Changed and broken events of relations that come back are
  handled in either order; departures and changes both rewrite Grafana's lists.
* **Failures.** A peer that has not written its `fqdn`, a refused flush, a killed
  process, a backend that is slow or goes away in the middle of a flush, a
  Kubernetes API that refuses, a download that is cut off.
* **No event.** A pod moves, a URL changes, a certificate grows old, a leader comes
  to have what the last one never handled: something later has to notice.

What makes each part correct: the receivers that are published and served are
those in demand; every published URL is one that works now; no hook fails
forever; spans survive outages; Grafana has exactly the sources and dashboards it is
offered; no frontend, querier or replica is left without its counterpart; one
certificate request stands for what a unit wants, and is answered in time; what is
related is scraped, logged, probed and let in, and what is not is not.
`PROJECT.json` lists each hazard at its line, with the properties that cover it.

## 2. The modules

| module | models |
|---|---|
| `TempoCharm` | What one dispatch of the coordinator computes, as operators on a view `v` of the model and the unit's stored state `st`: `RequestedReceivers`, `ExternalUrl`, `Scheme`, `Receivers`, `ApiUrls`, `TraefikRoute`, the ingress libraries' `TraefikStored`, `IstioStored`, `Cleared`, and when the dispatch raises |
| `ReceiverDirectory` | What the provider of the tracing interface promises, abstractly |
| `TempoCoordinator` | Extends both with Juju: the model and its changes, the events queued on each unit, hooks that begin with a view and end with their writes, fail, are denied or crash; implements `ReceiverDirectory` |
| `MCTempoCoordinator`, `MCTempoCoordinatorUrls` | Instances of it for TLC |
| `TempoCoordinatorProofs`, `CoordinatorUrlsProofs`, `DirectoryProofs` | Theorems about it: receivers and ports; URLs and routes; that it implements `ReceiverDirectory` |
| `TracingRequirer`, `TracingRequirerProofs` | Requirers of tracing, composed with any provider that is a `ReceiverDirectory`; theorems about them |
| `TlsCertificates` | tls-certificates: the units' keys, requests and secrets, and a provider |
| `IngressPerApp` | ingress v2, both ends |
| `ScrapeTargets` | prometheus_scrape: the applications, and Prometheus's leader |
| `S3Credentials` | s3, both ends |
| `RelationsProofs` | Theorems about the last four, and that the instance below composes them |
| `MCRelations` | An instance of these four and `TracingRequirer` |
| `TempoCluster`, `MCTempoCluster`, `TempoClusterProofs` | Roles and worker applications, and the configurations derived from them; theorems about them |
| `CharmTracingBuffer`, `CharmTracingBufferProofs` | The span buffer over the hooks of an instrumented charm; theorems about it |
| `GrafanaDatasources` | Both ends of grafana-source, and the datasource exchange |
| `Dashboards`, `MCDashboards` | grafana_dashboard: charms and their leaders, Grafana's units |
| `AlertRuleFiles` | Alert rules over loki_push_api, and the errors that come back |
| `LogForwarding` | Loki's endpoints, and the targets in the worker's Pebble plans |
| `PromtailSetup` | The log proxy: the binary, its configuration, its process |
| `RemoteWrite` | prometheus_remote_write, both ends |
| `Probes` | blackbox_probes, both ends |
| `MeshPolicies` | Who may talk to Tempo over the mesh, and the beacon's policies |
| `MeshLabels` | The labels of the mesh, patched by the hooks of all units |
| `ResourceLimits` | Requests, limits and the StatefulSet's roll-out |
| `LibrariesProofs` | Theorems about the last ten, and that the instance below composes them |
| `MCLibraries` | An instance of these ten, `TempoCluster` and `CharmTracingBuffer` |

An operator named `X_Something` is `X` with a slip in it. No action uses one:
substituted for `X`, it shows that the properties notice.

`MCRelations` and `MCLibraries` put components that share no state beside each
other: a variable `part` names the one that moves in a behaviour, and the others stay
in an initial state. So one run asks one question of each, and the states add
up instead of multiplying. That this adds no behaviour to any of them is proved
(`RelationsCompose`, `LibrariesCompose`).

### TempoCoordinator

`model` is what the Juju controller holds: leader, units, the requests of the
tracing relations, options, both ingresses, certificates, containers, and
`ready` for `can_handle_events`. `BeginHook(u)` takes one of the events queued
on `u` and stores `ViewOf(u)`; `FinishHook(u)` applies `AfterDispatch` to the
StoredState and `Reconcile` to the databags in one step. What happens in the
code between the two is invisible to others, since Juju holds the writes back.
`RaiseInHook` is the `PeerData.load` that raises, `DenyHook` the flush refused to
a unit that lost leadership, `CrashHook` the death of the container; all three
queue the event again, the last two with StoredState committed or not.

Choices that matter:

* "hook" stands for every event whose only handler is `_reconcile`. Juju may
  deliver events of different relations in any order, and may coalesce equal
  ones; the model allows both. It allows orders Juju would not choose, too.
* `is_leader` is asked at the start of a hook and valid for its length (Juju
  grants 30 seconds, the flush is checked again); hence the leader field of the view.
* The ingress libraries call `_update_stored` from every property. Before and
  after the broken handler this amounts to clearing and then updating, which is
  `AfterDispatch`.
* An ingress relation that is replaced has a new `id`, so that a hook that began
  before cannot write to the one related after. Tracing relations are related
  once: a relation that comes back is another member of `Relations`.
* tempo-api and grafana-source are taken to be related. Ports and paths of the
  URLs are left out; a URL is a scheme and a host, and a gRPC one has no scheme.
* A removed unit loses all it kept, and a unit of its name starts afresh.
* `UnitChange` has the loss of an nginx container, which Juju tells nobody, so
  `UrlsCurrent` and `RouteCurrent` speak of a leader whose container is up.

### CharmTracingBuffer

One hook runs at a time. `BeginHook` and `Close` are `wrap_init` and `wrap_close`,
`ExportEarly` is a batch the span processor exports while the hook runs, and
`DropBuffer`, `FlushEntry` and `FlushEnd` are the steps of `drop` and `flush`, with
the backend changing between them. `Written` keeps an oddity of the file format:
an emptied file reads back as one entry without spans (`Ghost`), which counts
against the history. The exports of a batch to file and backend are one step.
`force_flush` tells whether the span processors were through before its timeout, and
nothing of whether Tempo took the batch (`FlushSuccessful`). Hence four backends:
"up", "slow" (takes a batch, too late), "refuses" (at once, with an error that is not
retried) and "down" (retried beyond the timeout). `exposed` has the batches that
`wrap_close` may drop without their being taken: those of a hook that found the buffer
empty, exported before it closes, or on closing to a backend that refuses. A process killed in mid-write loses the file; `torn` records what went with
it, and the properties excuse that. The exception for an https endpoint whose
certificate is configured but unreadable is not modelled.

### GrafanaDatasources

A handler is one step. Grafana is one unit, its leader, and it handles a departure
before a change, because the library still lists a unit whose departure is
pending. Names stand for the sources' names and UIDs alike (both are functions of
topology and unit). `AppDatasource` and `UnitDatasources` are the provider's
options; the coordinator uses the first alone (`charm.py:224`), the library
supports both, and the passing run has both on.

### TempoCluster

The deployment changes role by role, unit by unit and request by request. The
coordinator handles an event in one step, as the reconciliation's view and
ordering are `TempoCoordinator`'s subject. Applications are numbers in the order
of their names, since the code sorts addresses. `Reaches` and the properties hold
what Tempo makes of a configuration: a headless service resolves to all units
of its application, and a querier connects to all it resolves to.

### ReceiverDirectory and TracingRequirer

The directory has requirers that ask, units of the provider that look at what is in
demand (`LookUp`), later answer every relation they saw (`Answer`), or forget it
(`Drop`), and a flag `settled` that, once up, obliges it to hold no answer that
differs from the demand. `TempoCoordinator` maps its model, views and databags to
it (`Directory`); `AnswersLikeADirectory` is `Directory!DirectorySpec`. A unit looks up
when its hook begins, whatever the event; a view counts as a look only while
it can still be written, which is while its unit leads.

`TracingRequirer` takes the directory as its provider, so that what it shows holds
with any that implements it. Each relation is a charm with a leader and
followers; a follower cannot read its own application databag, from which
`get_endpoint` takes what was asked for to tell an answer that is still to come from
one that never will. A coordinator is a requirer, too: `SetupCharmTracing` falls back
to the unit's own address and does not catch what `get_endpoint` raises.

### The parties of a relation

The modules of the vendored libraries model both ends, since the files hold both, and
state what the two promise each other. They have in common:

* A handler is one step: a hook sees one snapshot and writes at its end. Where
  a hook acts outside Juju, as on Kubernetes objects (`MeshLabels`) or a file
  (`PromtailSetup`), its writes are steps of their own, and it may die in between.
* Events are queued per unit and kind; equal ones coalesce. relation-created and
  -joined come before -changed, -broken comes last, and a removed relation takes its
  databags and pending events with it.
* Changes of the deployment (relations, units, leaders, addresses, options) are
  actions, bounded by a `Max...Changes`.
* A property about a party speaks of one that has handled its events, and the
  excuses it makes are named in its comment.

What is particular to each:

* `TlsCertificates`: UNIT mode, as the coordinator uses it. A request is told from
  every other by the unique identifier in its subject, so that lists are sets. A
  certificate is fresh, due or expired, by `TimePasses`; one does not run out while
  events wait. The event of an expired secret comes when Juju likes,
  before the safety net or after it.
* `IngressPerApp`: the provider handles a broken event of an old relation before
  the new one's; URLs are names.
* `ScrapeTargets`: targets are a wildcard, units' addresses, units' names and
  external ones. Job names stand for what they are made of, a hash for what it is a
  hash of. cos-tool accepts or refuses the jobs of a relation. The event in the databag
  lists errors of the rules, of the jobs, or both; good rules take theirs back, and
  an event that lists nothing tells nobody (`prometheus_scrape.py:1652`).
* `S3Credentials`: a databag has the bucket or not; options are keys, versions
  of which count up.
* `Dashboards`: a dashboard is a uid, a version and whether it loads. Relations are numbers
  in the order of their identifiers' texts, by which the code breaks ties. Grafana's
  leadership moves too; `gdMissed` has the units that were elected with news of the peer databag
  to come, which they then drop (section 4), and `DashboardsShown` excuses those. Each unit
  of a charm gets the news of its dashboards by an event of its own, and only the leader
  passes it on (`grafana_dashboard.py:1335`): `gdUntold` has the charms that elected a unit
  which had ignored it.
* `AlertRuleFiles`: what a client's rules say is whether they name an application,
  and which, and whether they are valid. A client always has some; an emptied set, and
  the early return for it (`loki_push_api.py:1167`), is left out.
* `RemoteWrite`: a rule is the unit it is about, and valid; the answers to others
  (`prometheus_remote_write.py:869`, the consumer's `:482`) are left out.
* `PromtailSetup`: a hook that raises is run again, before any other event, until it
  returns, as it may when the container has restarted in between and cannot be reached. A
  download that is cut off is no `URLError` and raises.
* `LogForwarding`: the worker's copy of the library, which is the one in use. A target
  is never deleted from a plan, only disabled.
* `MeshPolicies`: a policy is a source and a target.
* `ResourceLimits`: quantities are numbers, zero among them; a memory of less than a byte
  raises. The StatefulSet controller is external.

## 3. What the runs check

| run | properties | bounds |
|---|---|---|
| `coordinator_tracing` | `TypeOK`, `RequestsAnswered`, `PortsFollowDemand`, `AnswersLikeADirectory` | 2 units, 2 relations, 2 protocols, 5 changes |
| `coordinator_urls` | `UrlsCurrent`, `RouteCurrent` | 3 units, 1 relation, 1 ingress host; 6 changes to the ingresses, or 4 to what is behind them |
| `coordinator_start` | `WaitsForAWriter`, `Convergence` | 2 units from the very start, 5 changes, crashes among them |
| `relations` | the 13 of the table below | see there |
| `libraries` | the 19 of the table below | see there |
| `istio_wiped` | `UrlsCurrent`: violated | 1 relation, an istio-ingress that withdraws its host |
| `buffer_lost` | `NothingLost`: violated | batches of one size |
| `grafana_exchange` | `ExchangeComplete`: violated | 1 Grafana, the application's source alone |
| `cluster_mixed` | `FrontendsServed`: violated | 2 changes |
| `mesh_labels` | `LabelsRemoved`: violated | 2 units, 2 labels, 4 changes |
| `probes_departed` | `DepartedIsNotProbed`: violated | 2 relations, 4 changes |
| `dashboards_elected` | `SecondariesUpdate`: violated | 1 charm, 2 Grafana units, 2 revisions, 3 changes |

| part of `relations` | properties | bounds |
|---|---|---|
| certificates | `OneOfEach`, `ToldOfAssigned`, `StaleSecretsHarmless`, `EventuallyCertified` | 1 unit, 2 sets of attributes, 4 changes |
| ingress | `IngressAgreed`, `EventuallyServed` | 2 units, 2 URLs, 5 changes |
| scrape | `ScrapedAsPublished`, `ErrorsTold`, `EventuallyScraped` | 3 relations of 2 applications, 3 units, 3 changes |
| s3 | `BucketRequested`, `ConnectionCurrent` | 2 units on each side, 2 keys, 4 changes |
| tracing | `NoHookRaises`, `ExportsWhereOffered` | 2 relations, one of a coordinator, 2 requirer units, 3 changes |

| part of `libraries` | properties | bounds |
|---|---|---|
| buffer | `KeptUnlessExposed`, `BacklogLimited`, `FlushLosesNothing` | batches of 2 sizes, 2 per hook, 3 in all; a file for 2 |
| cluster | `QueriesFlow`, `ReplicasPlaced`, `ForwardedIsOpen` | 5 applications of up to 3 units, 3 changes |
| sources | `OfferedIsKept`, `ExchangeCurrent`, `LeftIsListed` | 2 units, 2 Grafanas, 6 changes |
| dashboards | `DashboardsShown` | 2 charms of 2 units, 2 Grafana units, 4 revisions, one of none, 3 changes |
| rules | `RulesInUse` | 3 clients, two of which say the same of themselves, 4 changes |
| forwarding | `LogsForwarded` | 2 relations, 3 Loki units, 2 URLs, 5 changes |
| promtail | `PromtailWorks` | 2 Lokis, 5 changes |
| remote write | `RemoteWriteCurrent` | 2 Prometheus of 2 units, 2 units of Tempo, 3 changes |
| probes | `RelatedIsProbed` | 2 relations of 2 units, 2 URLs, 4 changes |
| policies | `AllowedIsRelated` | 4 relations, one across models, one to the pods, 6 changes |
| labels | `LabelsCurrent` | 2 units, 2 labels, 4 changes |
| limits | `LimitsHold` | 2 pods, 6 settings, zero, negative and below a byte among them; 3 changes |
| all | `LibrariesTypeOK` | |

*Coordinator.* `RequestsAnswered`, `PortsFollowDemand`, `UrlsCurrent` and
`RouteCurrent` say that a leader, or unit, that has handled its events has got
everything right, whatever happened before: hooks skipped, overtaken, failed or
run by a unit that had just lost leadership. Five changes let a request change under
a running hook, leadership move and the cluster lose and regain coherence; six
let an ingress be related, publish, go and come back with a change of leader in
between. One host is enough: a move is a change of scheme, and a withdrawn
host is told from a current one. `coordinator_tracing` and `coordinator_urls` start
from a deployment whose first hooks have run, to spend the changes elsewhere;
`coordinator_start` does not.

`AnswersLikeADirectory` is the refinement: every step of the coordinator's hooks is a
look, an answer, a dropped look or nothing at all of the directory, and when the
coordinator is settled nobody holds an answer that differs from the demand.

`WaitsForAWriter` is about `PeerData.load`, which raises in a hook of a leader related to traefik
while some peer has not written its `fqdn`. A handler that waits for another unit's handler
may wait for ever, if that one is skipped or waits in turn. The property says that one of the peers
waited for still has its relation-created event, or is at it, and would not raise itself. It
holds because that handler is registered above the gate of `can_handle_events`
(`charm.py:246`, the gate at `:258`); in the slip `WritesPeerData_Gated` it is below.

`Convergence` assumes weak fairness of `BeginHook(u)` and `EndHook(u)` for each unit:
Juju delivers what it has queued and retries what failed
(`automatically-retry-hooks`, on by default), and the code has no unbounded loop.
Fairness covers neither `CrashHook` nor any change.

`coordinator_urls` names its actions one by one and leaves out `IstioWipes`, the
withdrawal of an istio host, under which `UrlsCurrent` fails (`istio_wiped`). `Spec`
includes it, and so does every theorem that does not exclude it in so many words.

*Relations.* Each bound lets the changes overtake one another: a renewal that meets a
new key and an expired secret; an ingress whose leader goes before it spoke; an
application related twice, one of whose units takes the address another had; a change
of both leaders between asking for a bucket and hearing of it; a requirer that
goes away and comes back while the provider's answer to it is on its way. For the liveness
properties, `RelationsFairness` states, of the part that moves, that Juju delivers
queued events, expires secrets, elects a leader when there is none and fires
update-status again and again, that the charm behind the certificates provider signs what
is outstanding, and that the ingress provider's charm restores a URL it has
withdrawn: these libraries leave signing and the URL to their charms. No change is fair.

*Buffer.* Two sizes, one of which exceeds the file alone, make each of its limits bind.
Two batches in a file for two make it overflow with the next hook's. Three
batches let an outage span hooks, and a flush meet one of its own; the backend changes at any
step among all four of its states.

*Grafana.* Six changes let a relation come, go and come back under a unit that
does the same, beside another Grafana and changes of unrelated applications.
`LeftIsListed` is a property of steps: what Grafana forgets it must list.

*Cluster.* Changes start from a monolithic and from a distributed deployment,
so that three reach the replication boundary and mixtures of both.
`Uniform` excludes the deployments that `cluster_mixed` shows to fail.

*The other parts.* Two of everything, and a third where two look alike for another
reason (two units of one Loki and one of another, two clients with one identifier and one
with none, a policy of an application of another model). The changes suffice for
coming, going and coming back, with one disturbance in between. Several of the
properties are conjunctions of two views of one promise, of the party that
offers and of the one that uses: `RemoteWriteCurrent` of endpoints, pushed rules and
loaded rules, `LimitsHold` of what pods are given and of what the status says.

All cfgs switch the deadlock check off: changes are bounded, and a system that has
handled every event stops. The symmetry of units and relations is not used.

## 4. Where the code and what is said of it differ

1. **`istio_wiped`.** A host that a related istio-ingress withdraws stays stored
   (`istio_ingress_route.py:818`), and the coordinator goes on advertising it.
2. **`buffer_lost`.** "There's no data loss risk" (`charm_tracing.py:377`), but `wrap_close`
   drops a buffer that was empty when the hook began as soon as `force_flush` returns
   true (`:720`), which says that the last export is over and not that the backend
   accepted it, nor what was exported before. A hook that found the buffer
   empty loses every batch that was refused at once, and any but the last whatever became of it.
3. **`grafana_exchange`.** The coordinator offers an application-level source,
   but the exchange reads the UIDs of per-unit ones (`charm.py:855`): a Grafana with
   the same library answers with an application UID, and nothing is exchanged.
4. **`cluster_mixed`.** With frontends in an application of role `all` and another of role
   `query-frontend`, or in two frontend applications, some get no querier
   connection (`tempo.py:250`), although nginx forwards queries to them.
5. **`mesh_labels`.** "Any labels that were previously created [...] will be removed"
   (`service_mesh.py:660`), but they are recorded after they are made (`:681`, `:692`): a
   hook that dies in between, or a follower's that ends after the mesh is gone, leaves
   labels that no later call takes off.
6. **`probes_departed`.** The blackbox exporter rebuilds its probes in
   relation-departed, with the databag still there, and not in relation-broken
   (`blackbox_probes.py:606`): it goes on probing what was removed until another relation
   changes. `blackbox_probes.py:632` says the departed provider is removed.
7. **`dashboards_elected`.** "Emit dashboard events on peer events so secondary charm data
   updates" (`grafana_dashboard.py:1490`), but the handler returns on the leader (`:1491`),
   whoever wrote the databag: a secondary elected between the old leader's write and its own
   event drops the event, and goes on with the dashboards of before.

Read in the code and not checked by a run. Of the coordinator:

* `get_relation` raises in every hook with two traefik relations (`charm.py:144`).
* The remote-write consumer gets `alert_rules_path=""` so that no rules are put in the databag
  (`charm.py:153`), but the library adds its generic rules, one for each unit, and pushes them.
* The leader publishes a receiver before the nginx of other units listens for it
  (`charm.py:596`); a unit's `fqdn` is written once (`charm.py:493`).
* The traefik library keeps the scheme of a removed ingress; a follower reports no
  istio host.
* A worker restarts on its own events and on the coordinator's (`worker/src/charm.py:56`).

Of the vendored libraries:

* Grafana drops the application's source of a removed relation without listing
  it for deletion (`grafana_source.py:790`), and after a departure publishes the UIDs from
  before it (`:992`). A new Grafana leader never takes out the dashboards of a relation
  broken before (`grafana_dashboard.py:1514`).
* A withdrawn ingress URL is not revoked (`ingress.py:778`).
* The error of a scrape job is never taken back (`prometheus_scrape.py:1059`; modelled, and
  `ErrorsTold` asks for no more), and `_scrape_jobs` extends the list it is given (`:1763`).
* A charm that mends the last of its errors is not told so: the event becomes `{}`, for which
  no `alert_rule_status_changed` is emitted (`prometheus_scrape.py:1652`, and Loki's
  likewise). `ErrorsTold` and `RulesInUse` state what the code does.
* A charm that elects a unit which had ignored, as a follower, that its dashboards cannot be
  read is never told (`grafana_dashboard.py:1335`); `DashboardsShown` excuses it.
* Rules are keyed by an identifier that two relations may share
  (`prometheus_remote_write.py:841`, and Loki's likewise).
* Loki's lifecycle handler stops at the first of its checks that holds
  (`loki_push_api.py:949`); with the last Loki gone its targets stay (`:2433`).
* A probe's URL is published on events of the relation only (`blackbox_probes.py:444`), and
  of the modules of all relations the last stay (`:730`).
* A resource patch that fails is not tried again before the next config-changed
  (`kubernetes_compute_resources_patch.py:664`). A limit of zero is not deleted as an empty one
  (`:292`): without `adhere_to_requests`, or without a request, it is patched as it is. Memory below
  one byte raises in every hook that patches (`:305`).

## 5. What is proved

Every safety property that the passing runs check, and the refinement, is a theorem; the
mapping of names is in `PROJECT.json`. Each theorem is about the specification of one component by itself
and holds for any constants that its named assumption allows, which TLC
evaluates in every run: any number of units, relations and changes. Where an
assumption says more than what kind of thing a constant is, it says one of these:

* `RequirerAssumption`: `otlp_http` is always on, as the coordinator has it, and every
  requirer of charm tracing asks for it.
* `ClusterAssumption`, `GdAssumption`: applications are finitely many, and so are relations
  with dashboards and the dashboards of a charm. A sum over units and a highest version need that.
* `PbAssumption`, `ScrapeAssumption`: an application has a unit, and a unit with a probe a URL.
* `PodsAssumption`: a unit is of an application, and there are addresses for all pods at once.
* `RlAssumption`: the pods of a StatefulSet are finitely many.
* `DeployedAssumption`, of the instance `MCTempoCluster` alone: an application that is deployed
  may have a unit.

A property is seldom inductive by itself. It speaks of parties that have handled their
events, so the invariants say of each pair of states that should agree that they do,
*or that an event which makes them agree is still to come*. A step then either queues
such an event or changes nothing the other side reads; a handler that takes an
event off establishes the agreement. Each section of a proof module opens with its
invariant in these terms. In what follows only what goes beyond this is told.

### The coordinator

`TempoCoordinatorProofs` has:

* `TypeCorrect`: `Spec => []TypeOK`.
* `RequestsAreAnswered`, `PortsAreInDemand`: `Spec` implies that
  `RequestsAnswered` and `PortsFollowDemand` always hold.

Both come from `ReconcileInv`, proved inductive in `NextReconcile`. The two
properties are not inductive alone: they speak of settled units, and the step that
settles one ends a hook whose view may be old. `FreshViews` closes that gap: a
unit that runs a hook with nothing queued behind it saw the requests,
options and coherence as they are now, and its leadership if it leads. So the step
that settles it writes what is in demand. A change breaks none of the conjuncts because it
queues an event on every unit it concerns (`LoudChange`); the few that
queue none, or on one unit only, alter nothing that these properties read
(`QuietChange`). Every failure queues its event again
(`AbortReconcile`).

* `LeaderWaitsForAWriter`: `Spec => []WaitsForAWriter`, from `PeersWillWriteInvariant`: every unit
  that has not written its `fqdn` has the event that makes it write, queued or running.
  Failed, denied and crashed hooks put it back (`PeersKept`), a new unit is born with it, and only the
  hook that writes takes it off. Since only a leader's hook raises, the peer it waits for does not.
  With the fairness of the runs this is why the leader's wait ends.

`CoordinatorUrlsProofs` has, from `UrlsInv`, which adds to `ReconcileInv` what the ingresses
publish and the units remember:

* `RouteIsCurrent`: `Spec => []RouteCurrent`, wiped istio hosts or not.
* `UrlsAreCurrent`: `Spec /\ [][~IstioWipes]_vars => []UrlsCurrent`. This is what `coordinator_urls`
  checks; without the hypothesis it is false (`istio_wiped`).
* `UrlsRecover`: in all of `Spec`, `UrlsCurrent` holds whenever istio publishes a host or is not
  related; a wipe does no harm beyond the time until the next host.

`FreshIngresses` extends `FreshViews` to all that a dispatch reads; `PublishedNow` says that
a settled leader would publish again what is published, and `StoredNow` that its StoredState
agrees with the ingress. What makes a removed and returned ingress safe is
`TraefikForgotten`: a unit remembers a host, or sees one in its view, while the ingress
publishes none only if the broken event is still queued on it or is what it handles.
`IstioForgotten` says the same of istio, is inductive only without wipes, and is proved
apart for that reason.

`DirectoryProofs` proves `CoordinatorIsADirectory`: `Spec => AnswersLikeADirectory`, so
whatever holds of every `ReceiverDirectory` holds of the coordinator, and
`TracingRequirer`, which is composed with the abstract one, may count on it. The mapping
is taken variable by variable (`DemandMapped`, `LiveMapped`). The change of a relation or
an option is the directory's `AskFor` or `Configure`; a leader's hook begins with its
`LookUp` and ends with its `Answer`, or with its `Drop` when it fails or its unit is removed; all other changes
are its `Settle`, as are the hooks of followers. What is hard is `Honest`, which every one of them
has to keep: at the end of the step a settled provider has told every relation of the
demand of now. It comes from `RequestsAnswered`, and so from `FreshViews`
(`AnswersHonestly`).

`TracingRequirerProofs` proves `HooksDoNotRaise` and `TracesAreExported` of a requirer of any
provider that is a directory; with `CoordinatorIsADirectory` they hold of the coordinator's requirers. A
follower's `get_endpoint` does not raise because every answer, and every look that may become
one, lists `otlp_http` (`OffersServeTracing`, `LooksServeTracing`): this is where it
matters that the protocol is always on, and not that it was asked for.
`RequirersUseADirectory` is the other direction: what the requirers and their provider do to each
other is a `DirectorySpec`, so that requirers ask of a coordinator only what it allows for.

### The cluster and the buffer

`TempoClusterProofs` proves `ReplicasArePlaced` and `ForwardedPortsOpen` for any deployment,
`UniformQueriesFlow` (queries flow in every uniform deployment, whatever came before) and
`QueriesAlwaysFlow` (`~Mixed`, the constant with which the runs keep to uniform
deployments). What is laid out is what a hook would lay out again; the rest is about the
operators, as that an address in a set of applications is the least (`LeastExists`), and
that the units counted for the replication factor are a finite set.

`CharmTracingBufferProofs` proves `UnexposedAreKept`, `BacklogIsLimited` and
`FlushesLoseNothing` for any limits, sizes and numbers of batches. It begins with lemmas on `Sums`,
the recursive function that adds the sizes up, and on `Prune`: what pruning
leaves is the longest suffix within the limits. `OnTheWay` says what the file may hold
while a hook is about to empty it: a hook that began with an empty file has put into it
only what was taken or is exposed, and a flush has sent what is behind it. `NothingLost`, which
`buffer_lost` refutes, is proved for a backend that does not change under a hook
(`NothingLostToSteadyBackends`) and for hooks that export once (`NothingLostInShortHooks`), both if
it refuses nothing at once of a hook that found the buffer empty (`NotRefused`).

### The parties of a relation

`RelationsProofs`:

* Certificates: `RequestsAreAnsweredOnce`, `UnitsAreTold`, `OldSecretsExpire`. A unit that has
  handled its events asks for what it wants and nothing else (`AsksAsWanted`); what is answered was
  drawn an identifier earlier (`AnswersDrawn`), so a new request is never taken for
  an answered one. Each handler is shown to be a composition of steps that
  keep `Handles`.
* Ingress: `IngressAgrees`. What is stored is what the charm was last told (`StoredIsTold`),
  also of a relation that is gone.
* Scraping: `PublishedIsScraped`, `ErrorsAreTold`. The names of jobs are unique (`JobNamesUnique`) and no
  unit is lost in the expansion (`NothingUnscraped`).
* s3: `BucketIsRequested`, `ConnectionIsCurrent`. A request is counted when an event finds no copy
  of the databag under `data`, so `Counted` ties the number of requests to that copy.
  Keys are set and never taken out, so whoever was told of a connection was told of a
  complete one (`ToldOfNone`), and relation-changed, which follows every joined
  (`JoinsFirst`), tells the unit of the options of now.

`LibrariesProofs`:

* Probes (`RelatedAreProbed`), alert rules (`GoodRulesAreUsed`), remote write
  (`RemoteWriteIsCurrent`), policies (`AllowedAreRelated`), Promtail (`PromtailAlwaysWorks`) and
  log forwarding (`LogsAreForwarded`) follow the pattern above. Loki's rules are current unless an
  event is queued about a relation *that has rules*: the handler of another returns early.
* Datasources: `OfferedSourcesAreKept`, `ExchangeIsCurrent`, and the step property
  `ForgottenIsListed`. A name that Grafana knows of an old relation has its departure
  queued (`KnownAreThere`), and Grafana handles it before the change that
  would take the same name off the list to delete (`NothingDoomed`).
* Resource limits: `LimitsAreKept`. No template ever has a request above its limit
  (`AllSchedulable`), which is a fact about `ResourceReqs` for any numbers.
* Labels: `LabelsAreCurrent`. That no label stays behind is the hard half. Every label on an object is in the
  ConfigMap, was made by somebody else, or put on by a hook still to record it (`Known`); and a hook
  that read the present ConfigMap has taken off what it will not record, unless another put it on
  since (`TakenOff`). So what a record leaves out is on no object.
* Dashboards: `DashboardsAreShown`. The chain of copies runs from the charm's files to what each unit of
  Grafana shows. That of each uid one dashboard is shown, of its highest version, needs
  that a finite set has a greatest element (`FiniteHasGreatest`).

Where a run refutes what is said of the code, a theorem says under what condition it is true
for any number of everything:

| said of the code | refuted by | true if | theorem |
|---|---|---|---|
| `UrlsCurrent` | `istio_wiped` | no istio host is withdrawn, or it is back | `UrlsAreCurrent`, `UrlsRecover` |
| `NothingLost` | `buffer_lost` | the backend is steady under a hook, or hooks export once; and it refuses nothing of a hook that found the buffer empty | `NothingLostToSteadyBackends`, `NothingLostInShortHooks` |
| `ExchangeComplete` | `grafana_exchange` | the charm offers no source of the application | `ExchangeIsCompleteForUnits` |
| `FrontendsServed` | `cluster_mixed` | frontends are of one application and one kind | `UniformQueriesFlow` |
| `LabelsRemoved` | `mesh_labels` | there is one unit, and none of its hooks is cut short | `LabelsRemovedByOneUnit` |
| `SecondariesUpdate` | `dashboards_elected` | units are elected with no peer event to come | `InformedUnitsUpdate` |

`UrlsAreCurrent`, `NothingLostToSteadyBackends`, `LabelsRemovedByOneUnit` and `InformedUnitsUpdate` take
the condition as a hypothesis on the steps, which leaves every other step of the specification in.
For `DepartedIsNotProbed` there is no such condition worth a theorem: any departure breaks it.

### The instances

`RelationsCompose` and `LibrariesCompose` say that a behaviour of an instance is one of each of its
parts by itself: the action of the part that moves leaves the variables of all others alone, and is an action
of that part's own specification. Every theorem above thus holds in the instances; the first
to be drawn are the type invariants (`RelationsTypes`, `LibrariesTypes`), which rest on those of
the five and the twelve parts. Of the scrape targets the set of jobs in use (`scUse`), a function
of the databags, has no type of its own. The cluster starts from two
deployments there and not from an empty one; that these satisfy its invariant is
`DeployedCluster`. `RelationsTypeOK` is proved, and no run of its own is spent on it.

### Induction

Induction is over numbers only. The library's principles take a predicate as a
parameter and cannot be cited, so `SetInduction` says the same of sets of numbers, from the
well-foundedness of `<`; sizes of sequences and cardinalities of finite sets go through it.

### What the proofs changed

* An ambiguity of precedence in `RwEndpoints`, which TLC and the prover read differently, is
  resolved by parentheses.
* `Dashboards` took an emptied set of dashboards for none ever published, and had a leader of
  Grafana act on peer events; both differ from the code. The second is a
  finding now (section 4).
* That nothing is lost to a steady backend was true of a `force_flush` which reports the
  result of an export; of the one there is, which reports the end of it, only with `NotRefused`.
* `Probes` needs an application to have a unit; sums and merged records are written so that
  the prover can read them (`Sums`, `Filled`). `ResourceLimits` needs its pods to be finitely many:
  the counts in a status are their cardinalities.
* What makes `Convergence` true had been left to TLC alone. Looking for its inductive part gave
  `WaitsForAWriter`, and `coordinator_start` has crashes since.

### What only TLC checks

* Liveness: `Convergence`, `EventuallyCertified`, `EventuallyServed`, `EventuallyScraped`. Neither fairness
  nor ENABLED is in the prover's reach.
  What it rests on of safety is proved: that each event is kept until it is handled is in the
  invariants, and `WaitsForAWriter` is the step of `Convergence` at which one unit waits for another.

## 6. Not modelled

* The wording of configurations, dashboards and alert rules; storage,
  retention and remote-write sections, which translate options one to one.
* Statuses, the list-receivers action, catalogue, profiling: declarations without state.
* `coordinated_workers` and `cosl`: modelled where the charm relies on them, as changes
  of `ready`, certificates and addresses. Hence not the worker's hooks, which are
  theirs; the worker's own code is a layer and a version check.
* Telemetry correlation: the choice of a datasource from the result of a join that
  `coordinated_workers` computes.
* In the vendored libraries: `GrafanaDashboardAggregator`, `MetricsEndpointAggregator` and
  `PrometheusRulesProvider`, which no charm here uses; cos-tool, a binary; the APP mode of
  certificates and the functions on X.509 objects; the parsing and validation of
  databags, except where a bad one has an effect on others.
* Two traefik relations at once, and a peer's `fqdn` that changes (section 4).

## 7. Plan

Written: every component whose state changes by code in the repository. Proved: all safety
properties of the runs, the refinement, the compositions, and the condition under which each
refuted statement but one holds. Left:

1. One specification of `TempoCoordinator` with a requirer over the mapping `Directory`. Today the
   two halves are theorems (`CoordinatorIsADirectory`, `RequirersUseADirectory`) and their
   conjunction an argument.
2. Liveness stays with TLC, as neither fairness nor ENABLED is in the prover's reach.
