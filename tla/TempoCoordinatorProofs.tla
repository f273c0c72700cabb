------------------------ MODULE TempoCoordinatorProofs ------------------------
(***************************************************************************)
(* Proofs about TempoCoordinator, for any sets of units, relations,        *)
(* protocols and hosts and any number of changes.                          *)
(***************************************************************************)
EXTENDS TempoCoordinator, TLAPS

-------------------------------------------------------------------------------
(* What a dispatch computes is of the right type *)

\* The view a hook takes of a well-typed model.
LEMMA ViewType ==
  ASSUME model \in Model, NEW u \in Units
  PROVE  ViewOf(u) \in View
BY DEF ViewOf, View, Model

LEMMA UrlFacts == NoUrl \in Url /\ NoHost \in Hosts \cup {NoHost, AppHost}
BY DEF NoUrl, Url, Schemes

LEMMA StoredType ==
  ASSUME NEW v \in View, NEW event, NEW st \in Stored
  PROVE  AfterDispatch(v, event, st) \in Stored
<1>1. Cleared(event, st) \in Stored
  BY DEF Cleared, Stored, Schemes
<1>2. ASSUME NEW s \in Stored PROVE TraefikStored(v, s) \in Stored
  BY <1>2 DEF TraefikStored, Stored, View, Ingress
<1>3. ASSUME NEW s \in Stored PROVE IstioStored(v, s) \in Stored
  BY <1>3 DEF IstioStored, Stored, View, Ingress, Schemes
<1>4. QED
  BY <1>1, <1>2, <1>3 DEF AfterDispatch

LEMMA UrlType ==
  ASSUME NEW v \in View, NEW st \in Stored
  PROVE  /\ InternalUrl(v) \in Url
         /\ ExternalUrl(v, st) \in Url
         /\ MostExternalUrl(v, st) \in Url
<1>1. InternalUrl(v) \in Url
  BY DEF InternalUrl, Scheme, Url, Schemes
<1>2. ExternalUrl(v, st) \in Url
  BY UrlFacts DEF ExternalUrl, Stored, Url
<1>3. QED
  BY <1>1, <1>2 DEF MostExternalUrl

LEMMA ReceiversType ==
  ASSUME NEW v \in View, NEW st \in Stored
  PROVE  /\ RequestedReceivers(v) \subseteq Protocols
         /\ Receivers(v, st) \subseteq Receiver
<1>1. RequestedReceivers(v) \subseteq Protocols
  <2>1. \A r \in Live(v.request) : v.request[r].protocols \subseteq Protocols
    BY DEF View, Request, Live
  <2>2. (UNION {v.request[r].protocols : r \in Live(v.request)}) \subseteq Protocols
    BY <2>1
  <2>3. AlwaysOn \subseteq Protocols /\ v.always \subseteq Protocols
    BY ProtocolsAssumption DEF View
  <2>4. QED
    BY <2>2, <2>3 DEF RequestedReceivers
<1>2. ASSUME NEW p \in Protocols PROVE ReceiverUrl(v, st, p) \in Url
  BY UrlType DEF ReceiverUrl, Url, Schemes
<1>3. QED
  BY <1>1, <1>2 DEF Receivers, Receiver

LEMMA WritesType ==
  ASSUME NEW v \in View, NEW st \in Stored, NEW u \in Units
  PROVE  /\ NginxPorts(v) \subseteq Protocols
         /\ ApiUrls(v, st) \in PublishedUrls
         /\ TraefikRoute(v, st, u) \in RouteConfig
<1>1. NginxPorts(v) \subseteq Protocols
  BY ReceiversType DEF NginxPorts
<1>2. ApiUrls(v, st) \in PublishedUrls
  BY UrlType DEF ApiUrls, PublishedUrls
<1>3. TraefikRoute(v, st, u) \in RouteConfig
  <2>1. {u} \cup v.peers \in SUBSET Units
    BY DEF View
  <2>2. Scheme(v) \in Schemes
    BY DEF Scheme, Schemes
  <2>3. QED
    BY <2>1, <2>2 DEF TraefikRoute, RouteConfig
<1>4. QED
  BY <1>1, <1>2, <1>3

-------------------------------------------------------------------------------
(* Type correctness *)

\* Queueing an event keeps pending well-typed, whoever it is queued on.
LEMMA QueueType ==
  ASSUME pending \in [Units -> SUBSET Events], NEW us, NEW event \in Events,
         Queue(us, event)
  PROVE  pending' \in [Units -> SUBSET Events]
BY DEF Queue

\* A change of the model that stays within Model and touches no databag.
LEMMA TellType ==
  ASSUME TypeOK, NEW m \in Model, NEW us, NEW event \in Events,
         Change(m, us, event), UNCHANGED <<hooks, databags>>
  PROVE  TypeOK'
BY QueueType DEF Change, TypeOK, hooks, databags

LEMMA InitType == Init => TypeOK
<1> SUFFICES ASSUME Init PROVE TypeOK
  OBVIOUS
<1>1. model \in Model
  <2>1. NoIngress \in Ingress
    BY DEF NoIngress, Ingress, Schemes
  <2>2. [r \in Relations |-> [phase |-> "absent", protocols |-> {}]]
          \in [Relations -> Request]
    BY DEF Request
  <2>3. PICK u \in FirstUnits :
          model = [leader |-> u, alive |-> FirstUnits, fqdn |-> {},
                   request |-> [r \in Relations |->
                                  [phase |-> "absent", protocols |-> {}]],
                   always |-> {}, traefik |-> NoIngress, istio |-> NoIngress,
                   tls |-> [v \in Units |-> FALSE],
                   up |-> [v \in Units |-> TRUE], ready |-> FALSE]
    BY DEF Init
  <2>4. QED
    BY <2>1, <2>2, <2>3, DeploymentAssumption DEF Model
<1>2. pending \in [Units -> SUBSET Events]
  BY DEF Init, Events
<1>3. stored \in [Units -> Stored]
  BY DEF Init, Stored, NothingStored, Schemes
<1>4. urls \in PublishedUrls
  BY UrlFacts DEF Init, PublishedUrls
<1>5. route \in RouteConfig
  BY DEF Init, RouteConfig, NoRoute, Schemes
<1>6. QED
  BY <1>1, <1>2, <1>3, <1>4, <1>5 DEF Init, TypeOK

LEMMA TracingChangeType == TypeOK /\ TracingChange => TypeOK'
<1> SUFFICES ASSUME TypeOK, TracingChange PROVE TypeOK'
  OBVIOUS
<1> USE DEF TypeOK
<1>1. ASSUME NEW r \in Relations, RelateTracing(r) PROVE TypeOK'
  <2>1. [model EXCEPT !.request[r] = [phase |-> "silent", protocols |-> {}]]
          \in Model
    BY DEF Model, Request
  <2>2. QED
    BY <1>1, <2>1, TellType DEF RelateTracing, Tell, Events
<1>2. ASSUME NEW r \in Relations, NEW ps \in (SUBSET Protocols) \ {{}},
             RequestProtocols(r, ps)
      PROVE  TypeOK'
  <2>1. [model EXCEPT !.request[r] = [phase |-> "asked", protocols |-> ps]]
          \in Model
    BY DEF Model, Request
  <2>2. QED
    BY <1>2, <2>1, TellType DEF RequestProtocols, Tell, Events
<1>3. ASSUME NEW r \in Relations, RemoveTracing(r) PROVE TypeOK'
  <2>1. model' \in Model
    BY <1>3 DEF RemoveTracing, Change, Model, Request
  <2>2. pending' \in [Units -> SUBSET Events]
    BY <1>3, QueueType DEF RemoveTracing, Change, Events
  <2>3. QED
    BY <1>3, <2>1, <2>2 DEF RemoveTracing, Change, hooks
<1>4. ASSUME NEW ps \in SUBSET Protocols, SetAlwaysEnable(ps) PROVE TypeOK'
  <2>1. [model EXCEPT !.always = ps] \in Model
    BY DEF Model
  <2>2. QED
    BY <1>4, <2>1, TellType DEF SetAlwaysEnable, Tell, Events
<1>5. QED
  BY <1>1, <1>2, <1>3, <1>4 DEF TracingChange

LEMMA IngressChangeType == TypeOK /\ IngressChange => TypeOK'
<1> SUFFICES ASSUME TypeOK, IngressChange PROVE TypeOK'
  OBVIOUS
<1> USE DEF TypeOK
<1>1. ASSUME NEW i \in Ingress PROVE Related(i) \in Ingress /\ Unrelated(i) \in Ingress
  <2>1. i.id \in Nat /\ i.id + 1 \in Nat
    BY <1>1 DEF Ingress
  <2>2. NoHost \in Hosts \cup {NoHost} /\ "" \in Schemes
    BY DEF Schemes
  <2>3. QED
    BY <2>1, <2>2 DEF Ingress, Related, Unrelated
<1>2. model.traefik \in Ingress /\ model.istio \in Ingress
  BY DEF Model
<1>3. CASE RelateTraefik
  <2>1. [model EXCEPT !.traefik = Related(@)] \in Model
    BY <1>1, <1>2 DEF Model
  <2>2. QED
    BY <1>3, <2>1, TellType DEF RelateTraefik, Tell, Events
<1>4. CASE RelateIstio
  <2>1. [model EXCEPT !.istio = Related(@)] \in Model
    BY <1>1, <1>2 DEF Model
  <2>2. QED
    BY <1>4, <2>1, TellType DEF RelateIstio, Tell, Events
<1>5. CASE RemoveTraefik
  <2>1. model' \in Model
    BY <1>5, <1>1, <1>2 DEF RemoveTraefik, Change, Model
  <2>2. pending' \in [Units -> SUBSET Events]
    BY <1>5, QueueType DEF RemoveTraefik, Change, Events
  <2>3. route' \in RouteConfig
    BY <1>5 DEF RemoveTraefik, RouteConfig, NoRoute, Schemes
  <2>4. QED
    BY <1>5, <2>1, <2>2, <2>3 DEF RemoveTraefik, Change, hooks
<1>6. CASE RemoveIstio
  <2>1. model' \in Model
    BY <1>6, <1>1, <1>2 DEF RemoveIstio, Change, Model
  <2>2. pending' \in [Units -> SUBSET Events]
    BY <1>6, QueueType DEF RemoveIstio, Change, Events
  <2>3. istioRoute' \in BOOLEAN
    BY <1>6, Zenon DEF RemoveIstio
  <2>4. UNCHANGED <<hooks, receivers, urls, route>> /\ changes' = changes + 1
    BY <1>6 DEF RemoveIstio, Change
  <2>5. QED
    BY <2>1, <2>2, <2>3, <2>4 DEF hooks
<1>7. ASSUME NEW host \in Hosts, NEW scheme \in {"http", "https"},
             TraefikPublishes(host, scheme)
      PROVE  TypeOK'
  <2>1. [model EXCEPT !.traefik.host = host, !.traefik.scheme = scheme] \in Model
    BY <1>2 DEF Model, Ingress, Schemes
  <2>2. Change([model EXCEPT !.traefik.host = host, !.traefik.scheme = scheme],
               model.alive, "hook")
    BY <1>7 DEF TraefikPublishes, Tell
  <2>3. QED
    BY <1>7, <2>1, <2>2, TellType DEF TraefikPublishes, Tell, Events
<1>8. ASSUME NEW host \in Hosts, NEW scheme \in {"http", "https"},
             IstioPublishes(host, scheme)
      PROVE  TypeOK'
  <2>1. [model EXCEPT !.istio.host = host, !.istio.scheme = scheme] \in Model
    BY <1>2 DEF Model, Ingress, Schemes
  <2>2. QED
    BY <1>8, <2>1, TellType DEF IstioPublishes, Tell, Events
<1>9. CASE IstioWipes
  <2>1. [model EXCEPT !.istio.host = NoHost, !.istio.scheme = ""] \in Model
    BY <1>2 DEF Model, Ingress, Schemes
  <2>2. QED
    BY <1>9, <2>1, TellType DEF IstioWipes, Tell, Events
<1>10. QED
  BY <1>3, <1>4, <1>5, <1>6, <1>7, <1>8, <1>9 DEF IngressChange

LEMMA UnitChangeType ==
  ASSUME TypeOK, NEW u \in Units, UnitChange(u) \/ ElectLeader(u)
  PROVE  TypeOK'
<1> USE DEF TypeOK
<1>1. ASSUME NEW has \in BOOLEAN, SetCertificate(u, has) PROVE TypeOK'
  <2>1. [model EXCEPT !.tls[u] = has] \in Model
    BY DEF Model
  <2>2. QED
    BY <1>1, <2>1, TellType DEF SetCertificate, Events
<1>2. CASE NginxDown(u)
  <2>1. [model EXCEPT !.up[u] = FALSE] \in Model
    BY DEF Model
  <2>2. QED
    BY <1>2, <2>1, TellType DEF NginxDown, Events
<1>3. CASE NginxUp(u)
  <2>1. [model EXCEPT !.up[u] = TRUE] \in Model
    BY DEF Model
  <2>2. QED
    BY <1>3, <2>1, TellType DEF NginxUp, Events
<1>4. CASE UpdateStatus(u)
  BY <1>4, TellType DEF UpdateStatus, Events
<1>5. CASE ElectLeader(u)
  <2>1. [model EXCEPT !.leader = u] \in Model
    BY DEF Model
  <2>2. QED
    BY <1>5, <2>1, TellType DEF ElectLeader, Events
<1>6. QED
  BY <1>1, <1>2, <1>3, <1>4, <1>5 DEF UnitChange

LEMMA SetReadyType ==
  ASSUME TypeOK, NEW ok \in BOOLEAN, SetReady(ok)
  PROVE  TypeOK'
<1>1. [model EXCEPT !.ready = ok] \in Model
  BY DEF TypeOK, Model
<1>2. QED
  BY <1>1, TellType DEF SetReady, Tell, Events

LEMMA ScaleChangeType ==
  ASSUME TypeOK, NEW u \in Units, ScaleChange(u)
  PROVE  TypeOK'
<1> USE DEF TypeOK
<1>1. CASE AddUnit(u)
  <2>1. model' \in Model
    BY <1>1 DEF AddUnit, Model
  <2>2. pending' \in [Units -> SUBSET Events]
    BY <1>1 DEF AddUnit, Events
  <2>3. QED
    BY <1>1, <2>1, <2>2 DEF AddUnit, hooks, databags
<1>2. CASE RemoveUnit(u)
  <2>1. model' \in Model
    BY <1>2 DEF RemoveUnit, Model
  <2>2. pending' \in [Units -> SUBSET Events]
    BY <1>2 DEF RemoveUnit, Events
  <2>3. NothingStored \in Stored
    BY DEF NothingStored, Stored, Schemes
  <2>4. QED
    BY <1>2, <2>1, <2>2, <2>3 DEF RemoveUnit, databags
<1>3. QED
  BY <1>1, <1>2 DEF ScaleChange

\* A busy unit runs a real hook.
LEMMA BusyType ==
  ASSUME TypeOK, NEW u \in Units, Busy(u)
  PROVE  /\ running[u] \in Hook
         /\ running[u].event \in Events
         /\ running[u].view \in View
         /\ AfterDispatch(running[u].view, running[u].event, stored[u]) \in Stored
<1>1. running[u] \in Hook
  BY DEF TypeOK, Busy, Idle
<1>2. stored[u] \in Stored
  BY DEF TypeOK
<1>3. QED
  BY <1>1, <1>2, StoredType DEF Hook

LEMMA BeginHookType ==
  ASSUME TypeOK, NEW u \in Units, BeginHook(u)
  PROVE  TypeOK'
<1>1. PICK event \in pending[u] :
        /\ running' = [running EXCEPT ![u] = [event |-> event, view |-> ViewOf(u)]]
        /\ pending' = [pending EXCEPT ![u] = @ \ {event}]
  BY DEF BeginHook
<1>2. event \in Events
  BY DEF TypeOK
<1>3. [event |-> event, view |-> ViewOf(u)] \in Hook
  BY <1>2, ViewType DEF TypeOK, Hook
<1>4. running' \in [Units -> Hook \cup {Idle}]
  BY <1>1, <1>3 DEF TypeOK
<1>5. pending' \in [Units -> SUBSET Events]
  BY <1>1 DEF TypeOK
<1>6. QED
  BY <1>4, <1>5 DEF TypeOK, BeginHook, databags

LEMMA FinishHookType ==
  ASSUME TypeOK, NEW u \in Units, FinishHook(u)
  PROVE  TypeOK'
<1> DEFINE v == running[u].view
           st == AfterDispatch(v, running[u].event, stored[u])
<1>1. Busy(u) /\ Reconcile(u, v, st)
  BY DEF FinishHook
<1>2. v \in View /\ st \in Stored
  BY <1>1, BusyType
<1>3. stored' \in [Units -> Stored] /\ running' \in [Units -> Hook \cup {Idle}]
  BY <1>2 DEF FinishHook, TypeOK
<1>4. pending' \in [Units -> SUBSET Events]
  BY QueueType DEF FinishHook, TypeOK, Events
<1>5. model' \in Model
  BY DEF FinishHook, TypeOK, Model
<1> HIDE DEF v, st
<1>6. ports' \in [Units -> SUBSET Protocols]
  BY <1>1, <1>2, WritesType DEF Reconcile, TypeOK
<1>7. receivers' \in [Relations -> SUBSET Receiver]
  BY <1>1, <1>2, ReceiversType DEF Reconcile, TypeOK
<1>8. urls' \in PublishedUrls /\ route' \in RouteConfig
  BY <1>1, <1>2, WritesType DEF Reconcile, TypeOK
<1>9. istioRoute' \in BOOLEAN
  BY <1>1, Zenon DEF Reconcile
<1>10. changes' \in Nat
  BY DEF FinishHook, TypeOK
<1>11. QED
  BY <1>3, <1>4, <1>5, <1>6, <1>7, <1>8, <1>9, <1>10 DEF TypeOK

LEMMA AbortType ==
  ASSUME TypeOK, NEW u \in Units, Abort(u),
         UNCHANGED stored \/ MayCommit(u), changes' \in Nat
  PROVE  TypeOK'
<1>1. Busy(u)
  BY DEF Abort
<1>2. stored' \in [Units -> Stored]
  BY <1>1, BusyType DEF MayCommit, TypeOK
<1>3. running' \in [Units -> Hook \cup {Idle}]
  BY DEF Abort, TypeOK
<1>4. pending' \in [Units -> SUBSET Events]
  BY <1>1, BusyType DEF Abort, TypeOK
<1>5. QED
  BY <1>2, <1>3, <1>4 DEF Abort, TypeOK, databags

LEMMA HookType ==
  ASSUME TypeOK, NEW u \in Units, RunHooks(u) \/ CrashHook(u)
  PROVE  TypeOK'
<1>1. CASE BeginHook(u)
  BY <1>1, BeginHookType
<1>2. CASE FinishHook(u)
  BY <1>2, FinishHookType
<1>3. CASE RaiseInHook(u)
  BY <1>3, AbortType DEF RaiseInHook, TypeOK
<1>4. CASE DenyHook(u)
  BY <1>4, AbortType DEF DenyHook, TypeOK
<1>5. CASE CrashHook(u)
  BY <1>5, AbortType DEF CrashHook, TypeOK
<1>6. QED
  BY <1>1, <1>2, <1>3, <1>4, <1>5 DEF RunHooks, EndHook

LEMMA NextType == TypeOK /\ [Next]_vars => TypeOK'
<1> SUFFICES ASSUME TypeOK, [Next]_vars PROVE TypeOK'
  OBVIOUS
<1>1. CASE TracingChange
  BY <1>1, TracingChangeType
<1>2. CASE IngressChange
  BY <1>2, IngressChangeType
<1>3. ASSUME NEW ok \in BOOLEAN, SetReady(ok) PROVE TypeOK'
  BY <1>3, SetReadyType
<1>4. ASSUME NEW u \in Units, UnitChange(u) \/ ElectLeader(u) PROVE TypeOK'
  BY <1>4, UnitChangeType
<1>5. ASSUME NEW u \in Units, ScaleChange(u) PROVE TypeOK'
  BY <1>5, ScaleChangeType
<1>6. ASSUME NEW u \in Units, RunHooks(u) \/ CrashHook(u) PROVE TypeOK'
  BY <1>6, HookType
<1>7. CASE UNCHANGED vars
  BY <1>7 DEF TypeOK, vars
<1>8. QED
  BY <1>1, <1>2, <1>3, <1>4, <1>5, <1>6, <1>7 DEF Next

\* Every variable keeps its type.
THEOREM TypeCorrect == Spec => []TypeOK
BY InitType, NextType, PTL DEF Spec

-------------------------------------------------------------------------------
(* A settled leader has answered every request *)

\* What a hook with an up-to-date view publishes is what is in demand.
LEMMA DemandOfView ==
  ASSUME TypeOK, NEW v \in View,
         v.request = model.request, v.always = model.always
  PROVE  RequestedReceivers(v) = Demand
<1>1. \A r \in Live(v.request) : v.request[r].protocols \subseteq Protocols
  BY DEF View, Request, Live
<1>2. (UNION {v.request[r].protocols : r \in Live(v.request)})
        = {p \in Protocols : \E r \in Live(model.request) :
                                p \in model.request[r].protocols}
  BY <1>1
<1>3. QED
  BY <1>2 DEF RequestedReceivers, Demand

\* The receivers published are those of the requested protocols.
LEMMA ProtocolsOfReceivers ==
  ASSUME NEW v, NEW st
  PROVE  {e.protocol : e \in Receivers(v, st)} = RequestedReceivers(v)
<1> DEFINE Of(p) == [protocol |-> p, url |-> ReceiverUrl(v, st, p)]
<1>1. \A p : Of(p).protocol = p
  OBVIOUS
<1>2. Receivers(v, st) = {Of(p) : p \in RequestedReceivers(v)}
  BY DEF Receivers
<1> HIDE DEF Of
<1>3. QED
  BY <1>1, <1>2

\* A change every unit is told about leaves nothing settled.
LEMMA LoudChange ==
  ASSUME ReconcileInv, TypeOK', LeaderAlive',
         \A u \in model'.alive : pending'[u] # {}
  PROVE  ReconcileInv'
<1>1. \A u \in Units : ~Settled(u)'
  BY DEF Settled
<1>2. FreshViews'
  BY DEF FreshViews
<1>3. ~Settled(model.leader)'
  BY DEF LeaderAlive, Settled
<1>4. RequestsAnswered' /\ PortsFollowDemand'
  BY <1>1, <1>3 DEF RequestsAnswered, PortsFollowDemand
<1>5. QED
  BY <1>2, <1>4 DEF ReconcileInv

\* A change of what the reconciliation of receivers does not read.
LEMMA QuietChange ==
  ASSUME ReconcileInv, TypeOK',
         model'.alive = model.alive, model'.request = model.request,
         model'.always = model.always, model'.ready = model.ready,
         \/ model'.leader = model.leader
         \/ model'.leader \in model.alive /\ pending'[model'.leader] # {},
         \A u \in Units : pending[u] \subseteq pending'[u],
         UNCHANGED <<running, ports, receivers>>
  PROVE  ReconcileInv'
<1> USE DEF ReconcileInv
<1>1. LeaderAlive'
  BY DEF LeaderAlive
<1>2. \A u \in Units : model.alive \subseteq Units /\ (Settled(u)' => Settled(u))
  BY DEF Settled, Busy, TypeOK, Model
<1>3. Demand' = Demand
  BY DEF Demand
<1>4. FreshViews'
  <2> SUFFICES ASSUME NEW u \in model.alive, pending'[u] = {}, Busy(u)'
               PROVE  LET v == running[u].view
                      IN /\ v.ready = model.ready
                         /\ v.request = model.request
                         /\ v.always = model.always
                         /\ model'.leader = u => v.leader
    BY DEF FreshViews
  <2>1. u \in Units /\ pending[u] = {} /\ Busy(u)
    BY DEF Busy, TypeOK, Model
  <2>2. model'.leader = u => model.leader = u
    OBVIOUS
  <2>3. QED
    BY <2>1, <2>2 DEF FreshViews
<1>5. Settled(model.leader)' => Settled(model.leader) /\ model'.leader = model.leader
  <2>1. model'.leader \in Units
    BY DEF TypeOK, Model
  <2>2. QED
    BY <1>2, <2>1 DEF Settled
<1>6. RequestsAnswered'
  BY <1>3, <1>5 DEF RequestsAnswered
<1>7. PortsFollowDemand'
  BY <1>2, <1>3 DEF PortsFollowDemand
<1>8. QED
  BY <1>1, <1>4, <1>6, <1>7

LEMMA InitReconcile == Init => ReconcileInv
<1> SUFFICES ASSUME Init PROVE ReconcileInv
  OBVIOUS
<1>1. TypeOK
  BY InitType
<1>2. model.alive = FirstUnits /\ model.leader \in FirstUnits
  BY DEF Init
<1>3. \A u \in Units : ~Settled(u) /\ ~Busy(u)
  BY <1>2 DEF Init, Settled, Busy, Idle
<1>4. \A u \in model.alive : u \in Units
  BY <1>2, DeploymentAssumption
<1>5. QED
  BY <1>1, <1>2, <1>3, <1>4
     DEF ReconcileInv, LeaderAlive, FreshViews, RequestsAnswered, PortsFollowDemand

\* Changes that every unit is told about.
LEMMA LoudActions ==
  ASSUME ReconcileInv, TypeOK',
         \/ TracingChange \/ IngressChange
         \/ \E ok \in BOOLEAN : SetReady(ok)
         \/ \E u \in Units : ScaleChange(u)
  PROVE  ReconcileInv'
<1> USE DEF ReconcileInv
<1>1. ASSUME NEW m, NEW event, Change(m, model.alive, event),
             m.alive = model.alive, m.leader = model.leader
      PROVE  ReconcileInv'
  <2>1. LeaderAlive' /\ \A u \in model'.alive : pending'[u] # {}
    BY <1>1 DEF Change, Queue, LeaderAlive, TypeOK, Model
  <2>2. QED
    BY <2>1, LoudChange
<1>2. CASE TracingChange
  <2>1. ASSUME NEW r \in Relations, RelateTracing(r) PROVE ReconcileInv'
    BY <1>1, <2>1 DEF RelateTracing, Tell, TypeOK, Model
  <2>2. ASSUME NEW r \in Relations, RemoveTracing(r) PROVE ReconcileInv'
    BY <1>1, <2>2 DEF RemoveTracing, TypeOK, Model
  <2>3. ASSUME NEW r \in Relations, NEW ps, RequestProtocols(r, ps)
        PROVE  ReconcileInv'
    BY <1>1, <2>3 DEF RequestProtocols, Tell, TypeOK, Model
  <2>4. ASSUME NEW ps, SetAlwaysEnable(ps) PROVE ReconcileInv'
    BY <1>1, <2>4 DEF SetAlwaysEnable, Tell, TypeOK, Model
  <2>5. QED
    BY <1>2, <2>1, <2>2, <2>3, <2>4 DEF TracingChange
<1>3. CASE IngressChange
  <2>1. CASE RelateTraefik
    BY <1>1, <2>1 DEF RelateTraefik, Tell, TypeOK, Model
  <2>2. CASE RemoveTraefik
    BY <1>1, <2>2 DEF RemoveTraefik, TypeOK, Model
  <2>3. CASE RelateIstio
    BY <1>1, <2>3 DEF RelateIstio, Tell, TypeOK, Model
  <2>4. CASE RemoveIstio
    BY <1>1, <2>4 DEF RemoveIstio, TypeOK, Model
  <2>5. ASSUME NEW host, NEW scheme, TraefikPublishes(host, scheme)
        PROVE  ReconcileInv'
    BY <1>1, <2>5 DEF TraefikPublishes, Tell, TypeOK, Model
  <2>6. ASSUME NEW host, NEW scheme, IstioPublishes(host, scheme)
        PROVE  ReconcileInv'
    BY <1>1, <2>6 DEF IstioPublishes, Tell, TypeOK, Model
  <2>7. CASE IstioWipes
    BY <1>1, <2>7 DEF IstioWipes, Tell, TypeOK, Model
  <2>8. QED
    BY <1>3, <2>1, <2>2, <2>3, <2>4, <2>5, <2>6, <2>7 DEF IngressChange
<1>4. ASSUME NEW ok, SetReady(ok) PROVE ReconcileInv'
  BY <1>1, <1>4 DEF SetReady, Tell, TypeOK, Model
<1>5. ASSUME NEW u \in Units, AddUnit(u) PROVE ReconcileInv'
  <2>1. model.alive \subseteq Units /\ model'.leader = model.leader
        /\ model'.alive = model.alive \cup {u}
    BY <1>5 DEF AddUnit, TypeOK, Model
  <2>2. LeaderAlive' /\ \A w \in model'.alive : pending'[w] # {}
    BY <1>5, <2>1 DEF AddUnit, LeaderAlive
  <2>3. QED
    BY <2>2, LoudChange
<1>6. ASSUME NEW u \in Units, RemoveUnit(u) PROVE ReconcileInv'
  <2>1. model.alive \subseteq Units /\ model'.leader = model.leader
        /\ model'.alive = model.alive \ {u}
    BY <1>6 DEF RemoveUnit, TypeOK, Model
  <2>2. LeaderAlive' /\ \A w \in model'.alive : pending'[w] # {}
    BY <1>6, <2>1 DEF RemoveUnit, LeaderAlive
  <2>3. QED
    BY <2>2, LoudChange
<1>7. QED
  BY <1>2, <1>3, <1>4, <1>5, <1>6 DEF ScaleChange

\* Changes of one unit, which the reconciliation of receivers does not read.
LEMMA QuietActions ==
  ASSUME ReconcileInv, TypeOK', NEW u \in Units, UnitChange(u) \/ ElectLeader(u)
  PROVE  ReconcileInv'
<1> USE DEF ReconcileInv, TypeOK, Model, hooks, databags
<1>1. ASSUME NEW has, SetCertificate(u, has) PROVE ReconcileInv'
  BY <1>1, QuietChange DEF SetCertificate, Change, Queue
<1>2. CASE NginxDown(u)
  BY <1>2, QuietChange DEF NginxDown, Change, Queue
<1>3. CASE NginxUp(u)
  BY <1>3, QuietChange DEF NginxUp, Change, Queue
<1>4. CASE UpdateStatus(u)
  BY <1>4, QuietChange DEF UpdateStatus, Change, Queue
<1>5. CASE ElectLeader(u)
  BY <1>5, QuietChange DEF ElectLeader, Change, Queue
<1>6. QED
  BY <1>1, <1>2, <1>3, <1>4, <1>5 DEF UnitChange

LEMMA BeginHookReconcile ==
  ASSUME ReconcileInv, TypeOK', NEW u \in Units, BeginHook(u)
  PROVE  ReconcileInv'
<1> USE DEF ReconcileInv
<1>1. PICK event \in pending[u] :
        /\ running' = [running EXCEPT ![u] = [event |-> event, view |-> ViewOf(u)]]
        /\ pending' = [pending EXCEPT ![u] = @ \ {event}]
  BY DEF BeginHook
<1>2. UNCHANGED <<model, ports, receivers>>
  BY DEF BeginHook, databags
<1>3. Busy(u)'
  <2>1. event \in Events /\ event # "none"
    BY DEF TypeOK, Events
  <2>2. QED
    BY <1>1, <2>1 DEF Busy, TypeOK
<1>4. \A w \in Units : w # u =>
        pending'[w] = pending[w] /\ running'[w] = running[w]
  BY <1>1 DEF TypeOK
<1>5. \A w \in Units : Settled(w)' => Settled(w) /\ w # u
  BY <1>2, <1>3, <1>4 DEF Settled, Busy
<1>6. running'[u].view = ViewOf(u)
  BY <1>1 DEF TypeOK
<1>7. FreshViews'
  <2> SUFFICES ASSUME NEW w \in model.alive, pending'[w] = {}, Busy(w)'
               PROVE  LET v == running'[w].view
                      IN /\ v.ready = model.ready
                         /\ v.request = model.request
                         /\ v.always = model.always
                         /\ model.leader = w => v.leader
    BY <1>2 DEF FreshViews
  <2>1. w \in Units
    BY DEF TypeOK, Model
  <2>2. CASE w = u
    <3>1. ViewOf(u).leader = (model.leader = u)
      BY Zenon DEF ViewOf
    <3>2. /\ ViewOf(u).ready = model.ready
          /\ ViewOf(u).request = model.request
          /\ ViewOf(u).always = model.always
      BY DEF ViewOf
    <3>3. QED
      BY <2>2, <1>6, <3>1, <3>2, Zenon
  <2>3. CASE w # u
    BY <2>1, <2>3, <1>4 DEF FreshViews, Busy
  <2>4. QED
    BY <2>2, <2>3
<1>8. model.leader \in Units
  BY DEF TypeOK, Model
<1>9. QED
  BY <1>2, <1>5, <1>7, <1>8
     DEF LeaderAlive, RequestsAnswered, PortsFollowDemand, Demand

LEMMA AbortReconcile ==
  ASSUME ReconcileInv, TypeOK', NEW u \in Units, Abort(u)
  PROVE  ReconcileInv'
<1> USE DEF ReconcileInv
<1>1. UNCHANGED <<model, ports, receivers>>
  BY DEF Abort, databags
<1>2. pending'[u] # {}
  BY DEF Abort, TypeOK
<1>3. \A w \in Units : w # u =>
        pending'[w] = pending[w] /\ running'[w] = running[w]
  BY DEF Abort, TypeOK
<1>4. \A w \in Units : Settled(w)' => Settled(w)
  BY <1>1, <1>2, <1>3 DEF Settled, Busy
<1>5. FreshViews'
  <2> SUFFICES ASSUME NEW w \in model.alive, pending'[w] = {}, Busy(w)'
               PROVE  LET v == running'[w].view
                      IN /\ v.ready = model.ready
                         /\ v.request = model.request
                         /\ v.always = model.always
                         /\ model.leader = w => v.leader
    BY <1>1 DEF FreshViews
  <2>1. w \in Units /\ w # u
    BY <1>2 DEF TypeOK, Model
  <2>2. pending[w] = {} /\ Busy(w) /\ running'[w] = running[w]
    BY <2>1, <1>3 DEF Busy
  <2>3. QED
    BY <2>2 DEF FreshViews
<1>6. model.leader \in Units
  BY DEF TypeOK, Model
<1>7. QED
  BY <1>1, <1>4, <1>5, <1>6
     DEF LeaderAlive, RequestsAnswered, PortsFollowDemand, Demand

LEMMA FinishHookReconcile ==
  ASSUME ReconcileInv, TypeOK', NEW u \in Units, FinishHook(u)
  PROVE  ReconcileInv'
<1> DEFINE v == running[u].view
           st == AfterDispatch(v, running[u].event, stored[u])
<1>1. /\ Busy(u) /\ Reconcile(u, v, st)
      /\ Publishes(v) => model.leader = u
  BY DEF FinishHook
<1>2. v \in View /\ TypeOK
  BY <1>1, BusyType DEF ReconcileInv
<1>3. /\ model'.alive = model.alive /\ model'.leader = model.leader
      /\ model'.request = model.request /\ model'.always = model.always
      /\ model'.ready = model.ready
  BY <1>2 DEF FinishHook, TypeOK, Model
<1>4. pending'[u] = pending[u] /\ \A w \in Units : pending[w] \subseteq pending'[w]
  BY <1>2 DEF FinishHook, Queue, TypeOK
<1>5. \A w \in Units : running'[w] = IF w = u THEN Idle ELSE running[w]
  BY <1>2 DEF FinishHook, TypeOK
<1>6. model.leader \in Units /\ model.alive \subseteq Units
  BY <1>2 DEF TypeOK, Model
<1>7. u \in model.alive /\ pending[u] = {} =>
        /\ v.ready = model.ready /\ v.request = model.request
        /\ v.always = model.always /\ (model.leader = u => v.leader)
  BY <1>1 DEF ReconcileInv, FreshViews
<1> HIDE DEF v, st
<1>8. Demand' = Demand
  BY <1>3 DEF Demand
<1>9. LeaderAlive'
  BY <1>3 DEF ReconcileInv, LeaderAlive
<1>10. FreshViews'
  <2> SUFFICES ASSUME NEW w \in model.alive, pending'[w] = {}, Busy(w)'
               PROVE  LET vw == running'[w].view
                      IN /\ vw.ready = model.ready
                         /\ vw.request = model.request
                         /\ vw.always = model.always
                         /\ model.leader = w => vw.leader
    BY <1>3 DEF FreshViews
  <2>1. w \in Units /\ w # u
    BY <1>5, <1>6 DEF Busy, Idle
  <2>2. pending[w] = {} /\ Busy(w) /\ running'[w] = running[w]
    BY <2>1, <1>4, <1>5 DEF Busy
  <2>3. QED
    BY <2>2 DEF ReconcileInv, FreshViews
<1>11. PortsFollowDemand'
  <2> SUFFICES ASSUME NEW w \in Units, Settled(w)', model.ready
               PROVE  ports'[w] = Demand
    BY <1>3, <1>8 DEF PortsFollowDemand
  <2>1. w \in model.alive /\ pending[w] = {}
    BY <1>3, <1>4 DEF Settled
  <2>2. CASE w = u
    <3>1. RequestedReceivers(v) = Demand
      BY <2>1, <2>2, <1>2, <1>7, DemandOfView
    <3>2. ports'[u] = NginxPorts(v)
      BY <1>1, <1>2, <1>7, <2>1, <2>2 DEF Reconcile, TypeOK
    <3>3. QED
      BY <2>2, <3>1, <3>2 DEF NginxPorts
  <2>3. CASE w # u
    <3>1. Settled(w)
      BY <2>1, <2>3, <1>5 DEF Settled, Busy
    <3>2. ports'[w] = ports[w]
      BY <1>1, <1>2, <2>3 DEF Reconcile, TypeOK
    <3>3. QED
      BY <3>1, <3>2 DEF ReconcileInv, PortsFollowDemand
  <2>4. QED
    BY <2>2, <2>3
<1>12. RequestsAnswered'
  <2> SUFFICES ASSUME Settled(model.leader)', model.ready,
                      NEW r \in Live(model.request)
               PROVE  {e.protocol : e \in receivers'[r]} = Demand
    BY <1>3, <1>8 DEF RequestsAnswered
  <2>1. model.leader \in model.alive /\ pending[model.leader] = {}
    BY <1>3, <1>4, <1>6 DEF Settled
  <2>2. r \in Relations
    BY DEF Live
  <2>3. CASE model.leader = u
    <3>1. /\ Publishes(v) /\ v.request = model.request
          /\ RequestedReceivers(v) = Demand
      BY <2>1, <2>3, <1>2, <1>7, DemandOfView DEF Publishes
    <3>2. receivers'[r] = Receivers(v, st)
      BY <1>1, <2>2, <3>1 DEF Reconcile
    <3>3. QED
      BY <3>1, <3>2, ProtocolsOfReceivers
  <2>4. CASE model.leader # u
    <3>1. receivers'[r] = receivers[r]
      BY <1>1, <2>2, <2>4 DEF Reconcile
    <3>2. Settled(model.leader)
      BY <2>1, <2>4, <1>3, <1>5, <1>6 DEF Settled, Busy
    <3>3. QED
      BY <3>1, <3>2 DEF ReconcileInv, RequestsAnswered
  <2>5. QED
    BY <2>3, <2>4
<1>13. QED
  BY <1>9, <1>10, <1>11, <1>12 DEF ReconcileInv

LEMMA NextReconcile == ReconcileInv /\ [Next]_vars => ReconcileInv'
<1> SUFFICES ASSUME ReconcileInv, [Next]_vars PROVE ReconcileInv'
  OBVIOUS
<1>1. TypeOK'
  BY NextType DEF ReconcileInv
<1>2. CASE \/ TracingChange \/ IngressChange
           \/ \E ok \in BOOLEAN : SetReady(ok)
           \/ \E u \in Units : ScaleChange(u)
  BY <1>1, <1>2, LoudActions
<1>3. ASSUME NEW u \in Units, UnitChange(u) \/ ElectLeader(u)
      PROVE  ReconcileInv'
  BY <1>1, <1>3, QuietActions
<1>4. ASSUME NEW u \in Units, BeginHook(u) PROVE ReconcileInv'
  BY <1>1, <1>4, BeginHookReconcile
<1>5. ASSUME NEW u \in Units, FinishHook(u) PROVE ReconcileInv'
  BY <1>1, <1>5, FinishHookReconcile
<1>6. ASSUME NEW u \in Units, RaiseInHook(u) \/ DenyHook(u) \/ CrashHook(u)
      PROVE  ReconcileInv'
  BY <1>1, <1>6, AbortReconcile DEF RaiseInHook, DenyHook, CrashHook
<1>7. CASE UNCHANGED vars
  <2>1. UNCHANGED <<model, pending, running, ports, receivers>>
    BY <1>7 DEF vars
  <2>2. QED
    BY <1>1, <2>1
       DEF ReconcileInv, LeaderAlive, FreshViews, RequestsAnswered,
           PortsFollowDemand, Settled, Busy, Demand
<1>8. QED
  BY <1>2, <1>3, <1>4, <1>5, <1>6, <1>7 DEF Next, RunHooks, EndHook

THEOREM ReconcileInvariant == Spec => []ReconcileInv
BY InitReconcile, NextReconcile, PTL DEF Spec

\* A leader that has handled its events has told every tracing relation of
\* exactly the receivers in demand.
THEOREM RequestsAreAnswered == Spec => []RequestsAnswered
<1>1. ReconcileInv => RequestsAnswered
  BY DEF ReconcileInv
<1>2. QED
  BY <1>1, ReconcileInvariant, PTL

\* The nginx of every settled unit serves exactly the receivers in demand.
THEOREM PortsAreInDemand == Spec => []PortsFollowDemand
<1>1. ReconcileInv => PortsFollowDemand
  BY DEF ReconcileInv
<1>2. QED
  BY <1>1, ReconcileInvariant, PTL

-------------------------------------------------------------------------------
(* No leader waits for ever on the PeerData of its peers *)

\* A step that leaves what the invariant reads as it was, but for events queued.
LEMMA PeersKept ==
  ASSUME TypeOK, PeersWillWrite,
         model'.alive = model.alive, model'.fqdn = model.fqdn,
         \A u \in Units : pending[u] \subseteq pending'[u],
         UNCHANGED running
  PROVE  PeersWillWrite'
<1>1. model.alive \subseteq Units
  BY DEF TypeOK, Model
<1>2. QED
  BY <1>1 DEF PeersWillWrite, WillWritePeerData

LEMMA InitPeers == Init => PeersWillWrite
<1> SUFFICES ASSUME Init PROVE PeersWillWrite
  OBVIOUS
<1>1. model.alive = FirstUnits
  BY DEF Init
<1>2. \A p \in FirstUnits : "peers_created" \in pending[p]
  BY DeploymentAssumption DEF Init
<1>3. QED
  BY <1>1, <1>2 DEF PeersWillWrite, WillWritePeerData

\* A change of the model that every living unit, or one unit, is told of.
LEMMA ChangePeers ==
  ASSUME TypeOK, PeersWillWrite, NEW m, NEW us, NEW event, Change(m, us, event),
         m.alive = model.alive, m.fqdn = model.fqdn, UNCHANGED running
  PROVE  PeersWillWrite'
<1>1. \A u \in Units : pending[u] \subseteq pending'[u]
  BY DEF Change, Queue
<1>2. model' = m
  BY DEF Change
<1>3. QED
  BY <1>1, <1>2, PeersKept

LEMMA ModelChangePeers ==
  ASSUME TypeOK, PeersWillWrite,
         \/ TracingChange \/ IngressChange
         \/ \E ok \in BOOLEAN : SetReady(ok)
         \/ \E u \in Units : UnitChange(u) \/ ElectLeader(u)
  PROVE  PeersWillWrite'
<1> USE DEF TypeOK, Model, hooks
<1>1. CASE TracingChange
  <2>1. ASSUME NEW r \in Relations, RelateTracing(r) PROVE PeersWillWrite'
    BY <2>1, ChangePeers DEF RelateTracing, Tell
  <2>2. ASSUME NEW r \in Relations, RemoveTracing(r) PROVE PeersWillWrite'
    BY <2>2, ChangePeers DEF RemoveTracing
  <2>3. ASSUME NEW r \in Relations, NEW ps, RequestProtocols(r, ps)
        PROVE  PeersWillWrite'
    BY <2>3, ChangePeers DEF RequestProtocols, Tell
  <2>4. ASSUME NEW ps, SetAlwaysEnable(ps) PROVE PeersWillWrite'
    BY <2>4, ChangePeers DEF SetAlwaysEnable, Tell
  <2>5. QED
    BY <1>1, <2>1, <2>2, <2>3, <2>4 DEF TracingChange
<1>2. CASE IngressChange
  <2>1. CASE RelateTraefik
    BY <2>1, ChangePeers DEF RelateTraefik, Tell
  <2>2. CASE RemoveTraefik
    BY <2>2, ChangePeers DEF RemoveTraefik
  <2>3. CASE RelateIstio
    BY <2>3, ChangePeers DEF RelateIstio, Tell
  <2>4. CASE RemoveIstio
    BY <2>4, ChangePeers DEF RemoveIstio
  <2>5. ASSUME NEW host, NEW scheme, TraefikPublishes(host, scheme)
        PROVE  PeersWillWrite'
    BY <2>5, ChangePeers DEF TraefikPublishes, Tell
  <2>6. ASSUME NEW host, NEW scheme, IstioPublishes(host, scheme)
        PROVE  PeersWillWrite'
    BY <2>6, ChangePeers DEF IstioPublishes, Tell
  <2>7. CASE IstioWipes
    BY <2>7, ChangePeers DEF IstioWipes, Tell
  <2>8. QED
    BY <1>2, <2>1, <2>2, <2>3, <2>4, <2>5, <2>6, <2>7 DEF IngressChange
<1>3. ASSUME NEW ok \in BOOLEAN, SetReady(ok) PROVE PeersWillWrite'
  BY <1>3, ChangePeers DEF SetReady, Tell
<1>4. ASSUME NEW u \in Units, UnitChange(u) \/ ElectLeader(u)
      PROVE  PeersWillWrite'
  <2>1. ASSUME NEW has, SetCertificate(u, has) PROVE PeersWillWrite'
    BY <2>1, ChangePeers DEF SetCertificate
  <2>2. CASE NginxDown(u)
    BY <2>2, ChangePeers DEF NginxDown
  <2>3. CASE NginxUp(u)
    BY <2>3, ChangePeers DEF NginxUp
  <2>4. CASE UpdateStatus(u)
    BY <2>4, ChangePeers DEF UpdateStatus
  <2>5. CASE ElectLeader(u)
    BY <2>5, ChangePeers DEF ElectLeader
  <2>6. QED
    BY <1>4, <2>1, <2>2, <2>3, <2>4, <2>5 DEF UnitChange
<1>5. QED
  BY <1>1, <1>2, <1>3, <1>4

\* A unit that is added is told of its peer relation, whatever a unit of its
\* name had written before.
LEMMA ScaleChangePeers ==
  ASSUME TypeOK, PeersWillWrite, NEW u \in Units, ScaleChange(u)
  PROVE  PeersWillWrite'
<1>1. model.alive \subseteq Units
  BY DEF TypeOK, Model
<1>2. CASE AddUnit(u)
  <2>1. model'.alive = model.alive \cup {u} /\ model'.fqdn = model.fqdn
    BY <1>2 DEF AddUnit, TypeOK, Model
  <2>2. "peers_created" \in pending'[u]
    BY <1>2 DEF AddUnit
  <2>3. \A p \in model.alive :
          pending[p] \subseteq pending'[p] /\ running'[p] = running[p]
    BY <1>1, <1>2 DEF AddUnit, hooks
  <2>4. QED
    BY <2>1, <2>2, <2>3 DEF PeersWillWrite, WillWritePeerData
<1>3. CASE RemoveUnit(u)
  <2>1. model'.alive = model.alive \ {u} /\ model'.fqdn = model.fqdn \ {u}
    BY <1>3 DEF RemoveUnit, TypeOK, Model
  <2>2. \A p \in model.alive \ {u} :
          pending[p] \subseteq pending'[p] /\ running'[p] = running[p]
    BY <1>1, <1>3 DEF RemoveUnit, TypeOK
  <2>3. QED
    BY <2>1, <2>2 DEF PeersWillWrite, WillWritePeerData
<1>4. QED
  BY <1>2, <1>3 DEF ScaleChange

\* The event goes from the queue to the hook and back to the queue, until the
\* hook of it ends well and has written the fqdn.
LEMMA HookPeers ==
  ASSUME TypeOK, PeersWillWrite, NEW u \in Units, RunHooks(u) \/ CrashHook(u)
  PROVE  PeersWillWrite'
<1>1. model.alive \subseteq Units
  BY DEF TypeOK, Model
<1>2. CASE BeginHook(u)
  <2>1. PICK event \in pending[u] :
          /\ running' = [running EXCEPT ![u] = [event |-> event, view |-> ViewOf(u)]]
          /\ pending' = [pending EXCEPT ![u] = @ \ {event}]
    BY <1>2 DEF BeginHook
  <2>2. model' = model /\ running[u].event = "none"
    BY <1>2 DEF BeginHook, Busy
  <2>3. running'[u].event = event /\ pending'[u] = pending[u] \ {event}
    BY <2>1 DEF TypeOK
  <2>4. \A p \in Units \ {u} : pending'[p] = pending[p] /\ running'[p] = running[p]
    BY <2>1 DEF TypeOK
  <2>5. QED
    BY <1>1, <2>2, <2>3, <2>4 DEF PeersWillWrite, WillWritePeerData
<1>3. CASE FinishHook(u)
  <2>1. Busy(u) /\ running' = [running EXCEPT ![u] = Idle]
    BY <1>3 DEF FinishHook
  <2>2. /\ model'.alive = model.alive
        /\ model'.fqdn = IF running[u].event = "peers_created"
                         THEN model.fqdn \cup {u} ELSE model.fqdn
    BY <1>3 DEF FinishHook, WritesPeerData, TypeOK, Model
  <2>3. \A p \in Units : pending[p] \subseteq pending'[p]
    BY <1>3 DEF FinishHook, Queue
  <2>4. \A p \in Units \ {u} : running'[p] = running[p]
    BY <2>1 DEF TypeOK
  <2>5. QED
    BY <1>1, <2>2, <2>3, <2>4 DEF PeersWillWrite, WillWritePeerData
<1>4. CASE RaiseInHook(u) \/ DenyHook(u) \/ CrashHook(u)
  <2>1. Abort(u)
    BY <1>4 DEF RaiseInHook, DenyHook, CrashHook
  <2>2. /\ model' = model
        /\ pending'[u] = pending[u] \cup {running[u].event}
    BY <2>1 DEF Abort, TypeOK
  <2>3. \A p \in Units \ {u} : pending'[p] = pending[p] /\ running'[p] = running[p]
    BY <2>1 DEF Abort, TypeOK
  <2>4. QED
    BY <1>1, <2>2, <2>3 DEF PeersWillWrite, WillWritePeerData
<1>5. QED
  BY <1>2, <1>3, <1>4 DEF RunHooks, EndHook

LEMMA NextPeers == TypeOK /\ PeersWillWrite /\ [Next]_vars => PeersWillWrite'
<1> SUFFICES ASSUME TypeOK, PeersWillWrite, [Next]_vars PROVE PeersWillWrite'
  OBVIOUS
<1>1. CASE \/ TracingChange \/ IngressChange
           \/ \E ok \in BOOLEAN : SetReady(ok)
           \/ \E u \in Units : UnitChange(u) \/ ElectLeader(u)
  BY <1>1, ModelChangePeers
<1>2. ASSUME NEW u \in Units, ScaleChange(u) PROVE PeersWillWrite'
  BY <1>2, ScaleChangePeers
<1>3. ASSUME NEW u \in Units, RunHooks(u) \/ CrashHook(u) PROVE PeersWillWrite'
  BY <1>3, HookPeers
<1>4. CASE UNCHANGED vars
  BY <1>4, PeersKept DEF vars
<1>5. QED
  BY <1>1, <1>2, <1>3, <1>4 DEF Next

THEOREM PeersWillWriteInvariant == Spec => []PeersWillWrite
BY InitPeers, NextPeers, TypeCorrect, PTL DEF Spec

\* A leader whose hook would raise for want of a peer's fqdn waits for a living
\* peer that still has its relation-created event, and that waits for nobody.
THEOREM LeaderWaitsForAWriter == Spec => []WaitsForAWriter
<1>1. PeersWillWrite => WaitsForAWriter
  <2> SUFFICES ASSUME PeersWillWrite, NEW u \in model.alive,
                      DispatchRaises(ViewOf(u))
               PROVE  \E p \in model.alive \ {u} :
                        /\ p \notin model.fqdn /\ WillWritePeerData(p)
                        /\ ~DispatchRaises(ViewOf(p))
    BY DEF WaitsForAWriter
  <2>1. ViewOf(u).leader /\ ~(ViewOf(u).peers \subseteq ViewOf(u).fqdn)
    BY DEF DispatchRaises
  <2>2. model.leader = u
    BY <2>1, Zenon DEF ViewOf
  <2>3. ViewOf(u).peers = model.alive \ {u} /\ ViewOf(u).fqdn = model.fqdn
    BY DEF ViewOf
  <2>4. PICK p \in model.alive \ {u} : p \notin model.fqdn
    BY <2>1, <2>3
  <2>5. ~ViewOf(p).leader
    <3>1. ViewOf(p).leader = (model.leader = p)
      BY Zenon DEF ViewOf
    <3>2. QED
      BY <2>2, <3>1, Zenon
  <2>6. QED
    BY <2>4, <2>5 DEF PeersWillWrite, DispatchRaises
<1>2. QED
  BY <1>1, PeersWillWriteInvariant, PTL
===============================================================================
