--------------------------- MODULE TempoCoordinator ---------------------------
(***************************************************************************)
(* The coordinator application: its units, the Juju model they look at and *)
(* the databags they write.                                                *)
(*                                                                         *)
(* Juju changes the model and queues an event on every unit the change     *)
(* concerns. A unit runs one hook at a time, in any order of the events it *)
(* has queued. A hook sees the model as it was when it began and its       *)
(* writes land together when it ends; between the two the model may move.  *)
(* A hook that ends in an error writes nothing and its event is run again. *)
(* Which events are queued for a change is Juju's part of the story, what  *)
(* a hook does with its view is TempoCharm's.                              *)
(***************************************************************************)
EXTENDS TempoCharm

CONSTANTS FirstUnits,   \* the units the application is deployed with
          MaxChanges    \* how often the model may change: bounds the checking

ASSUME DeploymentAssumption ==
  /\ FirstUnits \subseteq Units /\ FirstUnits # {}
  /\ MaxChanges \in Nat

VARIABLES
  model,       \* the Juju model, as the controller holds it
  changes,     \* how often it has changed
  pending,     \* unit -> the events queued on it
  running,     \* unit -> the hook it runs, with the view the hook took
  stored,      \* unit -> the ingress libraries' StoredState
  ports,       \* unit -> the receivers its nginx routes and opens ports for
  receivers,   \* tracing relation -> the receivers in our databag
  urls,        \* our tempo-api and grafana-source databags
  route,       \* our ingress (traefik) databag
  istioRoute   \* has our istio-ingress databag got the routes

databags == <<receivers, urls, route, istioRoute>>
hooks == <<running, stored, ports>>
vars == <<model, changes, pending, running, stored, ports,
          receivers, urls, route, istioRoute>>

\* "hook" stands for every event whose only handler here is _reconcile.
Events == {"hook", "peers_created", "ingress_broken", "istio_broken"}

Model == [leader : Units, alive : SUBSET Units, fqdn : SUBSET Units,
          request : [Relations -> Request], always : SUBSET Protocols,
          traefik : Ingress, istio : Ingress,
          tls : [Units -> BOOLEAN], up : [Units -> BOOLEAN], ready : BOOLEAN]

View == [leader : BOOLEAN, ready : BOOLEAN,
         request : [Relations -> Request], always : SUBSET Protocols,
         traefik : Ingress, istio : Ingress,
         tls : BOOLEAN, up : BOOLEAN, peers : SUBSET Units, fqdn : SUBSET Units]

\* What unit u would see of the model now.
ViewOf(u) ==
  [leader |-> model.leader = u, ready |-> model.ready,
   request |-> model.request, always |-> model.always,
   traefik |-> model.traefik, istio |-> model.istio,
   tls |-> model.tls[u], up |-> model.up[u],
   peers |-> model.alive \ {u}, fqdn |-> model.fqdn]

Idle == [event |-> "none"]
Hook == [event : Events, view : View]
Busy(u) == running[u].event # "none"

NoIngress == [related |-> FALSE, id |-> 0, host |-> NoHost, scheme |-> ""]

Init ==
  /\ \E u \in FirstUnits :
       model = [leader |-> u, alive |-> FirstUnits, fqdn |-> {},
                request |-> [r \in Relations |->
                               [phase |-> "absent", protocols |-> {}]],
                always |-> {}, traefik |-> NoIngress, istio |-> NoIngress,
                tls |-> [v \in Units |-> FALSE], up |-> [v \in Units |-> TRUE],
                ready |-> FALSE]
  /\ changes = 0
  /\ pending = [u \in Units |->
                  IF u \in FirstUnits THEN {"peers_created", "hook"} ELSE {}]
  /\ running = [u \in Units |-> Idle]
  /\ stored = [u \in Units |-> NothingStored]
  /\ ports = [u \in Units |-> {}]
  /\ receivers = [r \in Relations |-> {}]
  /\ urls = [direct |-> NoUrl, ingress |-> NoUrl, grafana |-> NoUrl]
  /\ route = NoRoute
  /\ istioRoute = FALSE

-------------------------------------------------------------------------------
(* The Juju model changes *)

Queue(us, event) ==
  pending' = [u \in Units |->
                IF u \in us THEN pending[u] \cup {event} ELSE pending[u]]

\* The model becomes m and the units us are told so by an event.
Change(m, us, event) ==
  /\ changes < MaxChanges
  /\ changes' = changes + 1
  /\ model' = m
  /\ Queue(us, event)

Tell(m, event) == Change(m, model.alive, event) /\ UNCHANGED <<hooks, databags>>

\* A tracing requirer is related, publishes or changes what it asks for
\* (anything that does not parse leaves it silent), and goes away.
RelateTracing(r) ==
  /\ model.request[r].phase = "absent"
  /\ Tell([model EXCEPT !.request[r] = [phase |-> "silent", protocols |-> {}]],
          "hook")
RequestProtocols(r, ps) ==
  /\ r \in Live(model.request)
  /\ model.request[r] # [phase |-> "asked", protocols |-> ps]
  /\ Tell([model EXCEPT !.request[r] = [phase |-> "asked", protocols |-> ps]],
          "hook")
RemoveTracing(r) ==
  /\ r \in Live(model.request)
  /\ Change([model EXCEPT !.request[r] = [phase |-> "gone", protocols |-> {}]],
            model.alive, "hook")
  /\ receivers' = [receivers EXCEPT ![r] = {}]
  /\ UNCHANGED <<hooks, urls, route, istioRoute>>

SetAlwaysEnable(ps) ==
  /\ model.always # ps
  /\ Tell([model EXCEPT !.always = ps], "hook")

\* The cluster, s3 and the workers become consistent, or stop being so.
SetReady(ok) ==
  /\ model.ready # ok
  /\ Tell([model EXCEPT !.ready = ok], "hook")

\* An ingress is related, publishes its host, and is removed.
Related(ingress) ==
  [related |-> TRUE, id |-> ingress.id + 1, host |-> NoHost, scheme |-> ""]
Unrelated(ingress) ==
  [related |-> FALSE, id |-> ingress.id, host |-> NoHost, scheme |-> ""]

RelateTraefik ==
  /\ ~model.traefik.related
  /\ Tell([model EXCEPT !.traefik = Related(@)], "hook")
TraefikPublishes(host, scheme) ==
  /\ model.traefik.related
  /\ <<model.traefik.host, model.traefik.scheme>> # <<host, scheme>>
  /\ Tell([model EXCEPT !.traefik.host = host, !.traefik.scheme = scheme], "hook")
RemoveTraefik ==
  /\ model.traefik.related
  /\ Change([model EXCEPT !.traefik = Unrelated(@)], model.alive, "ingress_broken")
  /\ route' = NoRoute
  /\ UNCHANGED <<hooks, receivers, urls, istioRoute>>

RelateIstio ==
  /\ ~model.istio.related
  /\ Tell([model EXCEPT !.istio = Related(@)], "hook")
IstioPublishes(host, scheme) ==
  /\ model.istio.related
  /\ <<model.istio.host, model.istio.scheme>> # <<host, scheme>>
  /\ Tell([model EXCEPT !.istio.host = host, !.istio.scheme = scheme], "hook")
\* IstioIngressRouteProvider.wipe_ingress_data
IstioWipes ==
  /\ model.istio.host # NoHost
  /\ Tell([model EXCEPT !.istio.host = NoHost, !.istio.scheme = ""], "hook")
RemoveIstio ==
  /\ model.istio.related
  /\ Change([model EXCEPT !.istio = Unrelated(@)], model.alive, "istio_broken")
  /\ istioRoute' = FALSE
  /\ UNCHANGED <<hooks, receivers, urls, route>>

\* A unit is given a certificate or loses it; its nginx container dies, which
\* Juju announces to nobody, and comes back, which is a pebble-ready event.
SetCertificate(u, has) ==
  /\ u \in model.alive /\ model.tls[u] # has
  /\ Change([model EXCEPT !.tls[u] = has], {u}, "hook")
  /\ UNCHANGED <<hooks, databags>>
NginxDown(u) ==
  /\ u \in model.alive /\ model.up[u]
  /\ Change([model EXCEPT !.up[u] = FALSE], {}, "hook")
  /\ UNCHANGED <<hooks, databags>>
NginxUp(u) ==
  /\ u \in model.alive /\ ~model.up[u]
  /\ Change([model EXCEPT !.up[u] = TRUE], {u}, "hook")
  /\ UNCHANGED <<hooks, databags>>

\* Any event without news: update-status, an unrelated relation.
UpdateStatus(u) ==
  /\ u \in model.alive
  /\ Change(model, {u}, "hook")
  /\ UNCHANGED <<hooks, databags>>

\* The old leader is not told that it no longer is.
ElectLeader(u) ==
  /\ u \in model.alive /\ u # model.leader
  /\ Change([model EXCEPT !.leader = u], {u}, "hook")
  /\ UNCHANGED <<hooks, databags>>

AddUnit(u) ==
  /\ u \notin model.alive
  /\ changes < MaxChanges
  /\ changes' = changes + 1
  /\ model' = [model EXCEPT !.alive = @ \cup {u}]
  /\ pending' = [v \in Units |->
                   IF v = u THEN {"peers_created", "hook"}
                   ELSE IF v \in model.alive THEN pending[v] \cup {"hook"}
                   ELSE pending[v]]
  /\ UNCHANGED <<hooks, databags>>
\* A unit is removed with all it kept; a unit of that name is a new one.
RemoveUnit(u) ==
  /\ u \in model.alive /\ u # model.leader
  /\ changes < MaxChanges
  /\ changes' = changes + 1
  /\ model' = [model EXCEPT !.alive = @ \ {u}, !.fqdn = @ \ {u},
                            !.tls[u] = FALSE, !.up[u] = TRUE]
  /\ pending' = [v \in Units |->
                   IF v = u THEN {}
                   ELSE IF v \in model.alive THEN pending[v] \cup {"hook"}
                   ELSE pending[v]]
  /\ running' = [running EXCEPT ![u] = Idle]
  /\ stored' = [stored EXCEPT ![u] = NothingStored]
  /\ ports' = [ports EXCEPT ![u] = {}]
  /\ UNCHANGED databags

-------------------------------------------------------------------------------
(* A unit runs a hook *)

BeginHook(u) ==
  /\ ~Busy(u)
  /\ \E event \in pending[u] :
       /\ running' = [running EXCEPT ![u] = [event |-> event, view |-> ViewOf(u)]]
       /\ pending' = [pending EXCEPT ![u] = @ \ {event}]
  /\ UNCHANGED <<model, changes, stored, ports, databags>>

\* _reconcile, behind the can_handle_events gate. A write to a relation that
\* went away under the hook is lost with the relation.
Reconcile(u, v, st) ==
  /\ ports' = IF v.ready THEN [ports EXCEPT ![u] = NginxPorts(v)] ELSE ports
  /\ receivers' =
       [r \in Relations |->
          IF /\ Publishes(v)
             /\ r \in Live(v.request) \cap Live(model.request)
          THEN Receivers(v, st) ELSE receivers[r]]
  /\ urls' = IF Publishes(v) THEN ApiUrls(v, st) ELSE urls
  /\ route' = IF /\ Publishes(v) /\ v.traefik.related
                 /\ model.traefik.related /\ model.traefik.id = v.traefik.id
              THEN TraefikRoute(v, st, u) ELSE route
  /\ istioRoute' = \/ istioRoute
                   \/ /\ Publishes(v) /\ v.istio.related
                      /\ model.istio.related /\ model.istio.id = v.istio.id

\* A slip: the handler registered below the gate, with the others.
WritesPeerData_Gated(event) == event = "peers_created" /\ model.ready

\* The peers-relation-created handler is registered above the gate.
WritesPeerData(event) == event = "peers_created"

FinishHook(u) ==
  LET hook == running[u]
      st == AfterDispatch(hook.view, hook.event, stored[u])
      told == IF WritesPeerData(hook.event) THEN model.alive \ {u} ELSE {}
  IN /\ Busy(u)
     /\ ~DispatchRaises(hook.view)
     /\ Publishes(hook.view) => model.leader = u
     /\ Reconcile(u, hook.view, st)
     /\ stored' = [stored EXCEPT ![u] = st]
     /\ running' = [running EXCEPT ![u] = Idle]
     /\ model' = IF WritesPeerData(hook.event)
                 THEN [model EXCEPT !.fqdn = @ \cup {u}] ELSE model
     /\ Queue(told, "hook")
     /\ UNCHANGED changes

\* The hook of u ends in an error: Juju drops its writes and queues its event
\* again.
Abort(u) ==
  /\ Busy(u)
  /\ running' = [running EXCEPT ![u] = Idle]
  /\ pending' = [pending EXCEPT ![u] = @ \cup {running[u].event}]
  /\ UNCHANGED <<model, ports, databags>>

\* ops commits StoredState at the end of the dispatch, before Juju flushes the
\* hook's writes: an error in the flush leaves it committed.
MayCommit(u) ==
  \/ UNCHANGED stored
  \/ stored' = [stored EXCEPT ![u] =
                  AfterDispatch(running[u].view, running[u].event, @)]

\* A peer's databag does not parse: the dispatch raises.
RaiseInHook(u) ==
  /\ Abort(u)
  /\ DispatchRaises(running[u].view)
  /\ UNCHANGED <<stored, changes>>
\* The unit lost leadership since the hook began: Juju refuses the writes.
DenyHook(u) ==
  /\ Abort(u)
  /\ ~DispatchRaises(running[u].view)
  /\ Publishes(running[u].view) /\ model.leader # u
  /\ MayCommit(u)
  /\ UNCHANGED changes
\* The charm container dies under the hook.
CrashHook(u) ==
  /\ Abort(u)
  /\ changes < MaxChanges /\ changes' = changes + 1
  /\ MayCommit(u)

EndHook(u) == FinishHook(u) \/ RaiseInHook(u) \/ DenyHook(u)

-------------------------------------------------------------------------------
TracingChange ==
  \/ \E r \in Relations :
       \/ RelateTracing(r) \/ RemoveTracing(r)
       \/ \E ps \in (SUBSET Protocols) \ {{}} : RequestProtocols(r, ps)
  \/ \E ps \in SUBSET Protocols : SetAlwaysEnable(ps)

IngressChange ==
  \/ RelateTraefik \/ RemoveTraefik
  \/ RelateIstio \/ IstioWipes \/ RemoveIstio
  \/ \E host \in Hosts, scheme \in {"http", "https"} :
       TraefikPublishes(host, scheme) \/ IstioPublishes(host, scheme)

UnitChange(u) ==
  \/ \E has \in BOOLEAN : SetCertificate(u, has)
  \/ NginxDown(u) \/ NginxUp(u) \/ UpdateStatus(u)

ScaleChange(u) == AddUnit(u) \/ RemoveUnit(u)

RunHooks(u) == BeginHook(u) \/ EndHook(u)

Next ==
  \/ TracingChange \/ IngressChange
  \/ \E ok \in BOOLEAN : SetReady(ok)
  \/ \E u \in Units : \/ UnitChange(u) \/ ScaleChange(u) \/ ElectLeader(u)
                      \/ CrashHook(u) \/ RunHooks(u)

Spec == Init /\ [][Next]_vars

\* Juju runs the events it has queued and every hook ends.
Fairness == \A u \in Units : WF_vars(BeginHook(u)) /\ WF_vars(EndHook(u))
FairSpec == Spec /\ Fairness

-------------------------------------------------------------------------------
(* Properties *)

TypeOK ==
  /\ model \in Model
  /\ changes \in Nat
  /\ pending \in [Units -> SUBSET Events]
  /\ running \in [Units -> Hook \cup {Idle}]
  /\ stored \in [Units -> Stored]
  /\ ports \in [Units -> SUBSET Protocols]
  /\ receivers \in [Relations -> SUBSET Receiver]
  /\ urls \in PublishedUrls
  /\ route \in RouteConfig
  /\ istioRoute \in BOOLEAN

\* A unit that has handled every event it was sent.
Settled(u) == u \in model.alive /\ pending[u] = {} /\ ~Busy(u)

\* The protocols that somebody wants at this moment: every requirer related
\* now that has asked, the configuration, and charm tracing itself.
Demand == AlwaysOn \cup model.always
            \cup {p \in Protocols : \E r \in Live(model.request) :
                                     p \in model.request[r].protocols}

\* _update_tracing_relations catches up: once the leader has handled its events
\* every tracing relation is told of exactly the receivers in demand, however
\* hooks skipped while the coordinator was not ready, requests that changed
\* under a running hook, failed hooks and changes of leader interleaved.
RequestsAnswered ==
  Settled(model.leader) /\ model.ready =>
    \A r \in Live(model.request) :
      {e.protocol : e \in receivers[r]} = Demand

\* The nginx of a settled unit, leader or not, listens for exactly the receivers
\* in demand (_nginx_ports, and the upstreams built in __init__).
PortsFollowDemand ==
  \A u \in Units : Settled(u) /\ model.ready => ports[u] = Demand

\* Seen from the requirers the coordinator is a ReceiverDirectory: every relation
\* is only ever told, all that the hook saw at once, of what was in demand when a
\* leader's hook began, and whenever the leader is settled and ready everybody
\* has been told of what is in demand now.
Directory == INSTANCE ReceiverDirectory WITH
  asked <- [r \in Relations |->
              [live |-> r \in Live(model.request),
               protocols |-> IF r \in Live(model.request)
                             THEN model.request[r].protocols ELSE {}]],
  always <- model.always,
  looks <- [u \in Units |->
              IF Busy(u) /\ Publishes(running[u].view)
              THEN [relations |-> Live(running[u].view.request),
                    demand |-> RequestedReceivers(running[u].view)]
              ELSE [relations |-> {}, demand |-> {}]],
  offered <- [r \in Relations |-> {e.protocol : e \in receivers[r]}],
  settled <- Settled(model.leader) /\ model.ready
AnswersLikeADirectory == Directory!DirectorySpec

\* Why: a busy unit with nothing queued saw the model as it still is (what a
\* hook does not hear of is only that it lost leadership or its container).
FreshViews ==
  \A u \in model.alive :
    pending[u] = {} /\ Busy(u) =>
      LET v == running[u].view
      IN /\ v.ready = model.ready
         /\ v.request = model.request
         /\ v.always = model.always
         /\ model.leader = u => v.leader

LeaderAlive == model.leader \in model.alive

\* The inductive invariant behind the two properties above.
ReconcileInv ==
  TypeOK /\ LeaderAlive /\ FreshViews /\ RequestsAnswered /\ PortsFollowDemand

\* Where a client reaches this Tempo now: through the one ingress that has
\* published a host, else at the application's own address.
Published(ingress) == ingress.related /\ ingress.host # NoHost
IngressUrl(ingress) == [scheme |-> ingress.scheme, host |-> ingress.host]
OwnUrl == [scheme |-> IF model.tls[model.leader] THEN "https" ELSE "http",
           host |-> AppHost]
EntryUrl ==
  CASE Published(model.traefik) /\ ~Published(model.istio) ->
         IngressUrl(model.traefik)
    [] Published(model.istio) /\ ~Published(model.traefik) ->
         IngressUrl(model.istio)
    [] OTHER -> OwnUrl

LeaderSettled ==
  Settled(model.leader) /\ model.ready /\ model.up[model.leader]

\* Everything that is told to clients agrees with where Tempo is reached, across
\* ingresses that come, move and go, certificates, lost containers and leaders
\* that remember an older ingress in their StoredState. Not across IstioWipes,
\* which leaves the host stored: its instances either exclude it or refute this.
UrlsCurrent ==
  LeaderSettled =>
    /\ \A r \in Live(model.request) : \A e \in receivers[r] :
         /\ e.url.host = EntryUrl.host
         /\ e.url.scheme = IF e.protocol \in GrpcProtocols THEN ""
                           ELSE EntryUrl.scheme
    /\ urls.direct = OwnUrl
    /\ urls.ingress = IF EntryUrl = OwnUrl THEN NoUrl ELSE EntryUrl
    /\ urls.grafana = EntryUrl

\* Traefik balances over exactly the units there are, and speaks to them as
\* their nginx listens; the routes were sent to each ingress that is related.
RouteCurrent ==
  LeaderSettled =>
    /\ model.traefik.related =>
         /\ route.servers = model.alive
         /\ route.http = OwnUrl.scheme
         /\ route.grpc = IF OwnUrl.scheme = "https" THEN "https" ELSE "h2c"
         /\ Published(model.traefik) =>
              route.redirect = (model.traefik.scheme = "https")
    /\ model.istio.related => istioRoute

\* Unit p has its relation-created event to handle, or is handling it.
WillWritePeerData(p) ==
  "peers_created" \in pending[p] \/ running[p].event = "peers_created"

\* Why no leader waits for ever on PeerData (_peer_addresses reads it of every
\* peer): whenever a hook begun now would raise for want of a peer's fqdn, one
\* such peer still has its relation-created event to handle, or is handling it,
\* and a hook begun there now would not raise in its turn. The event is not
\* lost with a hook that failed, with readiness that comes and goes, nor with a
\* unit removed and added again under its old name.
WaitsForAWriter ==
  \A u \in model.alive :
    DispatchRaises(ViewOf(u)) =>
      \E p \in model.alive \ {u} :
        /\ p \notin model.fqdn /\ WillWritePeerData(p)
        /\ ~DispatchRaises(ViewOf(p))

\* Its inductive invariant: whoever has not written its PeerData will.
PeersWillWrite == \A p \in model.alive \ model.fqdn : WillWritePeerData(p)

\* Every unit settles once the model stops changing: no hook fails forever,
\* whatever it was denied, missed or found half-written by a peer.
Convergence == <>[](\A u \in model.alive : Settled(u))
===============================================================================
