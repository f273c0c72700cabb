------------------------ MODULE CoordinatorUrlsProofs ------------------------
(***************************************************************************)
(* Proofs about where TempoCoordinator tells clients that Tempo is: its    *)
(* URLs and the routes of its ingresses, for any sets of units, relations, *)
(* protocols and hosts and any number of changes.                          *)
(***************************************************************************)
EXTENDS TempoCoordinatorProofs

-------------------------------------------------------------------------------
(* The invariant *)

\* An ingress publishes a host and a scheme together, and only while related.
WellFormed(ingress) ==
  /\ ingress.host = NoHost <=> ingress.scheme = ""
  /\ ~ingress.related => ingress.host = NoHost
IngressesWellFormed ==
  /\ WellFormed(model.traefik) /\ WellFormed(model.istio)
  /\ \A u \in Units : Busy(u) =>
       WellFormed(running[u].view.traefik) /\ WellFormed(running[u].view.istio)

\* A unit that is not there has nothing to do and remembers nothing.
GoneIsGone ==
  \A u \in Units \ model.alive :
    pending[u] = {} /\ ~Busy(u) /\ stored[u] = NothingStored

\* What FreshViews says of the requests, of the rest that a dispatch reads.
\* What a hook does not hear of is that its container went down.
FreshIngresses ==
  \A u \in model.alive :
    pending[u] = {} /\ Busy(u) =>
      LET v == running[u].view
      IN /\ v.traefik = model.traefik /\ v.istio = model.istio
         /\ v.tls = model.tls[u] /\ (model.up[u] => v.up)
         /\ v.peers = model.alive \ {u}

\* What is published is what a dispatch of the leader would publish again.
PublishedNow ==
  LeaderSettled =>
    LET u == model.leader
        v == ViewOf(u)
    IN /\ \A r \in Live(model.request) : receivers[r] = Receivers(v, stored[u])
       /\ urls = ApiUrls(v, stored[u])
       /\ model.traefik.related => route = TraefikRoute(v, stored[u], u)
       /\ model.istio.related => istioRoute

\* A settled leader has stored what each ingress publishes.
StoredNow ==
  Settled(model.leader) =>
    LET st == stored[model.leader]
    IN /\ Published(model.traefik) =>
            st.host = model.traefik.host /\ st.scheme = model.traefik.scheme
       /\ Published(model.istio) =>
            st.istioHost = model.istio.host /\ st.istioScheme = model.istio.scheme

\* Of an ingress that publishes no host no unit remembers one, nor does it see
\* one, unless it is yet to hear that the ingress it knew is gone.
TraefikForgotten ==
  \A u \in Units : "ingress_broken" \notin pending[u] =>
    /\ Busy(u) /\ running[u].view.traefik.host # NoHost
         => model.traefik.host # NoHost
    /\ running[u].event # "ingress_broken" /\ stored[u].host # NoHost
         => model.traefik.host # NoHost
IstioForgotten ==
  \A u \in Units : "istio_broken" \notin pending[u] =>
    /\ Busy(u) /\ running[u].view.istio.host # NoHost
         => model.istio.host # NoHost
    /\ running[u].event # "istio_broken" /\ stored[u].istioHost # NoHost
         => model.istio.host # NoHost

\* What holds besides ReconcileInv.
HostsInv ==
  /\ IngressesWellFormed /\ GoneIsGone /\ FreshIngresses
  /\ PublishedNow /\ StoredNow /\ TraefikForgotten

UrlsInv == ReconcileInv /\ HostsInv

-------------------------------------------------------------------------------
(* What the conjuncts survive *)

\* What a dispatch writes depends on these fields of its view only.
LEMMA SameWrites ==
  ASSUME NEW v, NEW w, NEW st, NEW u,
         v.request = w.request, v.always = w.always,
         v.traefik = w.traefik, v.istio = w.istio,
         v.tls = w.tls, v.up = w.up, v.peers = w.peers
  PROVE  /\ Receivers(v, st) = Receivers(w, st)
         /\ ApiUrls(v, st) = ApiUrls(w, st)
         /\ TraefikRoute(v, st, u) = TraefikRoute(w, st, u)
<1>1. RequestedReceivers(v) = RequestedReceivers(w)
  BY DEF RequestedReceivers
<1>2. InternalUrl(v) = InternalUrl(w)
  BY DEF InternalUrl, Scheme
<1>3. ExternalUrl(v, st) = ExternalUrl(w, st)
  BY DEF ExternalUrl, IngressReady, IstioReady
<1>4. MostExternalUrl(v, st) = MostExternalUrl(w, st)
  BY <1>2, <1>3 DEF MostExternalUrl
<1>5. Receivers(v, st) = Receivers(w, st)
  BY <1>1, <1>4 DEF Receivers, ReceiverUrl
<1>6. ApiUrls(v, st) = ApiUrls(w, st)
  BY <1>2, <1>3, <1>4 DEF ApiUrls
<1>7. TraefikRoute(v, st, u) = TraefikRoute(w, st, u)
  BY DEF TraefikRoute, Scheme
<1>8. QED
  BY <1>5, <1>6, <1>7

LEMMA NothingStoredHosts ==
  NothingStored.host = NoHost /\ NothingStored.istioHost = NoHost
BY DEF NothingStored

\* Nothing is claimed while every unit has something to hear of.
LEMMA AllToldUrls ==
  ASSUME LeaderAlive', \A u \in model'.alive : pending'[u] # {}
  PROVE  FreshIngresses' /\ PublishedNow' /\ StoredNow'
<1>1. ~Settled(model.leader)'
  BY DEF LeaderAlive, Settled
<1>2. QED
  BY <1>1 DEF FreshIngresses, PublishedNow, StoredNow, LeaderSettled

\* An ingress that goes on publishing may be remembered.
LEMMA TraefikKept ==
  ASSUME TraefikForgotten, UNCHANGED <<running, stored>>,
         \A u \in Units : pending[u] \subseteq pending'[u],
         model.traefik.host # NoHost => model'.traefik.host # NoHost
  PROVE  TraefikForgotten'
BY DEF TraefikForgotten, Busy
LEMMA IstioKept ==
  ASSUME IstioForgotten, UNCHANGED <<running, stored>>,
         \A u \in Units : pending[u] \subseteq pending'[u],
         model.istio.host # NoHost => model'.istio.host # NoHost
  PROVE  IstioForgotten'
BY DEF IstioForgotten, Busy

\* Events are queued on units that are there.
LEMMA GoneKept ==
  ASSUME GoneIsGone, UNCHANGED <<running, stored>>, model'.alive = model.alive,
         \A u \in Units \ model.alive : pending'[u] = pending[u]
  PROVE  GoneIsGone'
BY DEF GoneIsGone, Busy

\* A change of one unit, that it hears of, or that it lost its container.
LEMMA OneToldUrls ==
  ASSUME UrlsInv, TypeOK', NEW u \in model.alive,
         UNCHANGED <<running, stored, databags>>,
         model'.alive = model.alive, model'.request = model.request,
         model'.always = model.always, model'.ready = model.ready,
         model'.traefik = model.traefik, model'.istio = model.istio,
         \A w \in Units \ {u} :
           model'.tls[w] = model.tls[w] /\ model'.up[w] = model.up[w],
         \/ pending'[u] # {}
         \/ model'.tls = model.tls /\ ~model'.up[u],
         \/ model'.leader = model.leader
         \/ model'.leader = u /\ pending'[u] # {},
         \A w \in Units : pending[w] \subseteq pending'[w],
         \A w \in Units \ {u} : pending'[w] = pending[w]
  PROVE  /\ FreshIngresses' /\ PublishedNow' /\ StoredNow'
         /\ IngressesWellFormed' /\ GoneIsGone' /\ TraefikForgotten'
         /\ IstioForgotten => IstioForgotten'
<1> USE DEF UrlsInv, HostsInv
<1>1. u \in Units /\ model.leader \in Units /\ model'.leader \in Units
      /\ model.alive \subseteq Units
  BY DEF ReconcileInv, TypeOK, Model
<1>2. IngressesWellFormed'
  BY DEF IngressesWellFormed, Busy
<1>3. GoneIsGone'
  BY <1>1, GoneKept
<1>4. TraefikForgotten' /\ (IstioForgotten => IstioForgotten')
  BY TraefikKept, IstioKept
<1>5. FreshIngresses'
  <2> SUFFICES ASSUME NEW w \in model.alive, pending'[w] = {}, Busy(w)'
               PROVE  LET v == running[w].view
                      IN /\ v.traefik = model.traefik /\ v.istio = model.istio
                         /\ v.tls = model'.tls[w] /\ (model'.up[w] => v.up)
                         /\ v.peers = model.alive \ {w}
    BY DEF FreshIngresses
  <2>1. w \in Units /\ pending[w] = {} /\ Busy(w)
    BY <1>1 DEF Busy
  <2>2. model'.tls[w] = model.tls[w] /\ (model'.up[w] => model.up[w])
    BY <2>1
  <2>3. QED
    BY <2>1, <2>2 DEF FreshIngresses
<1>6. Settled(model.leader)' => Settled(model.leader) /\ model'.leader = model.leader
  BY <1>1 DEF Settled, Busy
<1>7. StoredNow'
  BY <1>6 DEF StoredNow
<1>8. PublishedNow'
  <2> SUFFICES ASSUME LeaderSettled' PROVE PublishedNow'
    BY DEF PublishedNow
  <2>1. model'.leader = model.leader /\ Settled(model.leader) /\ model.ready
        /\ model'.up[model.leader]
    BY <1>6 DEF LeaderSettled
  <2>2. pending'[model.leader] = {}
    BY <2>1 DEF LeaderSettled, Settled
  <2>3. model'.tls[model.leader] = model.tls[model.leader]
        /\ model'.up[model.leader] = model.up[model.leader]
    BY <1>1, <2>1, <2>2
  <2>4. LeaderSettled
    BY <2>1, <2>3 DEF LeaderSettled
  <2> DEFINE v == ViewOf(model.leader)
             w == ViewOf(model.leader)'
  <2>5. /\ v.request = w.request /\ v.always = w.always
        /\ v.traefik = w.traefik /\ v.istio = w.istio
        /\ v.tls = w.tls /\ v.up = w.up /\ v.peers = w.peers
    BY <2>1, <2>3 DEF ViewOf
  <2> HIDE DEF v, w
  <2>6. \A st, x : /\ Receivers(v, st) = Receivers(w, st)
                   /\ ApiUrls(v, st) = ApiUrls(w, st)
                   /\ TraefikRoute(v, st, x) = TraefikRoute(w, st, x)
    BY <2>5, SameWrites
  <2>7. /\ \A r \in Live(model.request) :
             receivers[r] = Receivers(v, stored[model.leader])
        /\ urls = ApiUrls(v, stored[model.leader])
        /\ model.traefik.related =>
             route = TraefikRoute(v, stored[model.leader], model.leader)
        /\ model.istio.related => istioRoute
    BY <2>4 DEF PublishedNow, v
  <2>8. /\ \A r \in Live(model.request) :
             receivers'[r] = Receivers(w, stored[model.leader])
        /\ urls' = ApiUrls(w, stored[model.leader])
        /\ model.traefik.related =>
             route' = TraefikRoute(w, stored[model.leader], model.leader)
        /\ model.istio.related => istioRoute'
    BY <2>6, <2>7 DEF databags
  <2>9. QED
    BY <2>1, <2>8 DEF PublishedNow, w
<1>9. QED
  BY <1>2, <1>3, <1>4, <1>5, <1>7, <1>8

-------------------------------------------------------------------------------
(* Every step preserves it *)

\* A change that every unit is told of by the same event.
LEMMA ChangeUrls ==
  ASSUME UrlsInv, ReconcileInv', NEW m, NEW event,
         Change(m, model.alive, event), UNCHANGED <<running, stored>>,
         m.alive = model.alive, WellFormed(m.traefik), WellFormed(m.istio),
         \/ event = "ingress_broken"
         \/ model.traefik.host # NoHost => m.traefik.host # NoHost
  PROVE  /\ HostsInv'
         /\ (event = "istio_broken"
              \/ (model.istio.host # NoHost => m.istio.host # NoHost))
              => (IstioForgotten => IstioForgotten')
<1> USE DEF UrlsInv, HostsInv
<1>1. model' = m /\ \A u \in Units :
        pending'[u] = IF u \in model.alive THEN pending[u] \cup {event} ELSE pending[u]
  BY DEF Change, Queue
<1>2. model.alive \subseteq Units
  BY DEF ReconcileInv, TypeOK, Model
<1>3. \A u \in model'.alive : pending'[u] # {}
  BY <1>1, <1>2
<1>4. FreshIngresses' /\ PublishedNow' /\ StoredNow'
  BY <1>3, AllToldUrls DEF ReconcileInv
<1>5. IngressesWellFormed'
  BY <1>1 DEF IngressesWellFormed, WellFormed, Busy
<1>6. GoneIsGone'
  BY <1>1, GoneKept
<1>7. \A u \in Units : pending[u] \subseteq pending'[u]
  BY <1>1
<1>8. \A u \in Units \ model.alive :
        ~Busy(u) /\ stored[u].host = NoHost /\ stored[u].istioHost = NoHost
  BY NothingStoredHosts DEF GoneIsGone
<1>9. TraefikForgotten'
  <2>1. CASE event = "ingress_broken"
    BY <2>1, <1>1, <1>8 DEF TraefikForgotten, Busy
  <2>2. CASE model.traefik.host # NoHost => m.traefik.host # NoHost
    BY <2>2, <1>1, <1>7, TraefikKept
  <2>3. QED
    BY <2>1, <2>2
<1>10. ASSUME \/ event = "istio_broken"
              \/ model.istio.host # NoHost => m.istio.host # NoHost,
              IstioForgotten
       PROVE  IstioForgotten'
  <2>1. CASE event = "istio_broken"
    BY <2>1, <1>1, <1>8 DEF IstioForgotten, Busy
  <2>2. CASE model.istio.host # NoHost => m.istio.host # NoHost
    BY <2>2, <1>1, <1>7, <1>10, IstioKept
  <2>3. QED
    BY <1>10, <2>1, <2>2
<1>11. QED
  BY <1>4, <1>5, <1>6, <1>9, <1>10 DEF HostsInv

LEMMA TracingUrls ==
  ASSUME UrlsInv, ReconcileInv',
         TracingChange \/ \E ok \in BOOLEAN : SetReady(ok)
  PROVE  HostsInv' /\ (IstioForgotten => IstioForgotten')
<1> USE DEF UrlsInv, HostsInv, ReconcileInv
<1>1. model \in Model /\ WellFormed(model.traefik) /\ WellFormed(model.istio)
  BY DEF TypeOK, IngressesWellFormed
<1>2. ASSUME NEW m, Change(m, model.alive, "hook"), UNCHANGED <<running, stored>>,
             m.alive = model.alive, m.traefik = model.traefik, m.istio = model.istio
      PROVE  HostsInv' /\ (IstioForgotten => IstioForgotten')
  BY <1>1, <1>2, ChangeUrls
<1>3. ASSUME NEW r \in Relations, RelateTracing(r)
      PROVE  HostsInv' /\ (IstioForgotten => IstioForgotten')
  BY <1>1, <1>2, <1>3 DEF RelateTracing, Tell, Model, hooks
<1>4. ASSUME NEW r \in Relations, RemoveTracing(r)
      PROVE  HostsInv' /\ (IstioForgotten => IstioForgotten')
  BY <1>1, <1>2, <1>4 DEF RemoveTracing, Model, hooks
<1>5. ASSUME NEW r \in Relations, NEW ps, RequestProtocols(r, ps)
      PROVE  HostsInv' /\ (IstioForgotten => IstioForgotten')
  BY <1>1, <1>2, <1>5 DEF RequestProtocols, Tell, Model, hooks
<1>6. ASSUME NEW ps, SetAlwaysEnable(ps)
      PROVE  HostsInv' /\ (IstioForgotten => IstioForgotten')
  BY <1>1, <1>2, <1>6 DEF SetAlwaysEnable, Tell, Model, hooks
<1>7. ASSUME NEW ok, SetReady(ok)
      PROVE  HostsInv' /\ (IstioForgotten => IstioForgotten')
  BY <1>1, <1>2, <1>7 DEF SetReady, Tell, Model, hooks
<1>8. QED
  BY <1>3, <1>4, <1>5, <1>6, <1>7 DEF TracingChange

\* Only a wipe takes a host away while its ingress stays.
LEMMA IngressUrls ==
  ASSUME UrlsInv, ReconcileInv', IngressChange
  PROVE  HostsInv' /\ (IstioForgotten /\ ~IstioWipes => IstioForgotten')
<1> USE DEF UrlsInv, HostsInv, ReconcileInv
<1>1. model \in Model /\ WellFormed(model.traefik) /\ WellFormed(model.istio)
  BY DEF TypeOK, IngressesWellFormed
<1>2. ASSUME NEW i, WellFormed(i)
      PROVE  WellFormed(Related(i)) /\ WellFormed(Unrelated(i))
  BY DEF WellFormed, Related, Unrelated
<1>3. ASSUME NEW i \in Ingress, WellFormed(i), i.related,
             NEW host \in Hosts, NEW scheme \in {"http", "https"}
      PROVE  WellFormed([i EXCEPT !.host = host, !.scheme = scheme])
  BY <1>3, HostsAssumption DEF WellFormed, Ingress
<1>4. CASE RelateTraefik
  <2> DEFINE m == [model EXCEPT !.traefik = Related(@)]
  <2>1. m.alive = model.alive /\ m.traefik = Related(model.traefik)
        /\ m.istio = model.istio
    BY <1>1 DEF Model
  <2>2. model.traefik.host = NoHost
    BY <1>1, <1>4 DEF RelateTraefik, WellFormed
  <2>3. Change(m, model.alive, "hook") /\ UNCHANGED <<running, stored>>
    BY <1>4 DEF RelateTraefik, Tell, hooks
  <2> HIDE DEF m
  <2>4. QED
    BY <1>1, <1>2, <2>1, <2>2, <2>3, ChangeUrls
<1>5. CASE RelateIstio
  <2> DEFINE m == [model EXCEPT !.istio = Related(@)]
  <2>1. m.alive = model.alive /\ m.istio = Related(model.istio)
        /\ m.traefik = model.traefik
    BY <1>1 DEF Model
  <2>2. model.istio.host = NoHost
    BY <1>1, <1>5 DEF RelateIstio, WellFormed
  <2>3. Change(m, model.alive, "hook") /\ UNCHANGED <<running, stored>>
    BY <1>5 DEF RelateIstio, Tell, hooks
  <2> HIDE DEF m
  <2>4. QED
    BY <1>1, <1>2, <2>1, <2>2, <2>3, ChangeUrls
<1>6. CASE RemoveTraefik
  <2> DEFINE m == [model EXCEPT !.traefik = Unrelated(@)]
  <2>1. m.alive = model.alive /\ m.traefik = Unrelated(model.traefik)
        /\ m.istio = model.istio
    BY <1>1 DEF Model
  <2>2. Change(m, model.alive, "ingress_broken") /\ UNCHANGED <<running, stored>>
    BY <1>6 DEF RemoveTraefik, hooks
  <2> HIDE DEF m
  <2>3. QED
    BY <1>1, <1>2, <2>1, <2>2, ChangeUrls
<1>7. CASE RemoveIstio
  <2> DEFINE m == [model EXCEPT !.istio = Unrelated(@)]
  <2>1. m.alive = model.alive /\ m.istio = Unrelated(model.istio)
        /\ m.traefik = model.traefik
    BY <1>1 DEF Model
  <2>2. Change(m, model.alive, "istio_broken") /\ UNCHANGED <<running, stored>>
    BY <1>7 DEF RemoveIstio, hooks
  <2> HIDE DEF m
  <2>3. QED
    BY <1>1, <1>2, <2>1, <2>2, ChangeUrls
<1>8. ASSUME NEW host \in Hosts, NEW scheme \in {"http", "https"},
             TraefikPublishes(host, scheme)
      PROVE  HostsInv' /\ (IstioForgotten => IstioForgotten')
  <2> DEFINE m == [model EXCEPT !.traefik.host = host, !.traefik.scheme = scheme]
  <2>1. m.alive = model.alive /\ m.istio = model.istio
        /\ m.traefik = [model.traefik EXCEPT !.host = host, !.scheme = scheme]
    BY <1>1 DEF Model
  <2>2. m.traefik.host # NoHost
    BY <1>1, <2>1, HostsAssumption DEF Model, Ingress
  <2>3. WellFormed(m.traefik)
    BY <1>1, <1>3, <1>8, <2>1 DEF TraefikPublishes, Model
  <2>4. Change(m, model.alive, "hook") /\ UNCHANGED <<running, stored>>
    BY <1>8 DEF TraefikPublishes, Tell, hooks
  <2> HIDE DEF m
  <2>5. QED
    BY <1>1, <2>1, <2>2, <2>3, <2>4, ChangeUrls
<1>9. ASSUME NEW host \in Hosts, NEW scheme \in {"http", "https"},
             IstioPublishes(host, scheme)
      PROVE  HostsInv' /\ (IstioForgotten => IstioForgotten')
  <2> DEFINE m == [model EXCEPT !.istio.host = host, !.istio.scheme = scheme]
  <2>1. m.alive = model.alive /\ m.traefik = model.traefik
        /\ m.istio = [model.istio EXCEPT !.host = host, !.scheme = scheme]
    BY <1>1 DEF Model
  <2>2. m.istio.host # NoHost
    BY <1>1, <2>1, HostsAssumption DEF Model, Ingress
  <2>3. WellFormed(m.istio)
    BY <1>1, <1>3, <1>9, <2>1 DEF IstioPublishes, Model
  <2>4. Change(m, model.alive, "hook") /\ UNCHANGED <<running, stored>>
    BY <1>9 DEF IstioPublishes, Tell, hooks
  <2> HIDE DEF m
  <2>5. QED
    BY <1>1, <2>1, <2>2, <2>3, <2>4, ChangeUrls
<1>10. CASE IstioWipes
  <2> DEFINE m == [model EXCEPT !.istio.host = NoHost, !.istio.scheme = ""]
  <2>1. m.alive = model.alive /\ m.traefik = model.traefik
        /\ m.istio = [model.istio EXCEPT !.host = NoHost, !.scheme = ""]
    BY <1>1 DEF Model
  <2>2. WellFormed(m.istio)
    BY <1>1, <2>1 DEF WellFormed, Model, Ingress
  <2>3. Change(m, model.alive, "hook") /\ UNCHANGED <<running, stored>>
    BY <1>10 DEF IstioWipes, Tell, hooks
  <2> HIDE DEF m
  <2>4. QED
    BY <1>1, <1>10, <2>1, <2>2, <2>3, ChangeUrls
<1>11. QED
  BY <1>4, <1>5, <1>6, <1>7, <1>8, <1>9, <1>10 DEF IngressChange

LEMMA UnitUrls ==
  ASSUME UrlsInv, ReconcileInv', NEW u \in Units, UnitChange(u) \/ ElectLeader(u)
  PROVE  HostsInv' /\ (IstioForgotten => IstioForgotten')
<1>1. TypeOK /\ TypeOK' /\ model \in Model /\ u \in model.alive
  BY DEF UrlsInv, HostsInv, ReconcileInv, TypeOK, UnitChange, SetCertificate, NginxDown,
     NginxUp, UpdateStatus, ElectLeader
<1>2. ASSUME NEW has, SetCertificate(u, has)
      PROVE  HostsInv' /\ (IstioForgotten => IstioForgotten')
  BY <1>1, <1>2, OneToldUrls DEF SetCertificate, Change, Queue, Model, hooks, HostsInv
<1>3. CASE NginxDown(u)
  BY <1>1, <1>3, OneToldUrls DEF NginxDown, Change, Queue, Model, hooks, HostsInv
<1>4. CASE NginxUp(u)
  BY <1>1, <1>4, OneToldUrls DEF NginxUp, Change, Queue, Model, hooks, HostsInv
<1>5. CASE UpdateStatus(u)
  BY <1>1, <1>5, OneToldUrls DEF UpdateStatus, Change, Queue, Model, hooks, HostsInv
<1>6. CASE ElectLeader(u)
  BY <1>1, <1>6, OneToldUrls DEF ElectLeader, Change, Queue, Model, hooks, HostsInv
<1>7. QED
  BY <1>2, <1>3, <1>4, <1>5, <1>6 DEF UnitChange

LEMMA ScaleUrls ==
  ASSUME UrlsInv, ReconcileInv', NEW u \in Units, ScaleChange(u)
  PROVE  HostsInv' /\ (IstioForgotten => IstioForgotten')
<1> USE DEF UrlsInv, HostsInv
<1>1. model \in Model /\ model.alive \subseteq Units /\ TypeOK /\ LeaderAlive'
  BY DEF ReconcileInv, TypeOK, Model
<1>2. CASE AddUnit(u)
  <2>1. /\ model'.alive = model.alive \cup {u} /\ u \notin model.alive
        /\ model'.traefik = model.traefik /\ model'.istio = model.istio
        /\ UNCHANGED <<running, stored>>
    BY <1>1, <1>2 DEF AddUnit, Model, hooks
  <2>2. \A w \in Units :
          pending'[w] = IF w = u THEN {"peers_created", "hook"}
                        ELSE IF w \in model.alive THEN pending[w] \cup {"hook"}
                        ELSE pending[w]
    BY <1>2 DEF AddUnit
  <2>3. FreshIngresses' /\ PublishedNow' /\ StoredNow'
    BY <1>1, <2>1, <2>2, AllToldUrls
  <2>4. pending[u] = {}
    BY <2>1 DEF GoneIsGone
  <2>5. \A w \in Units : pending[w] \subseteq pending'[w]
    BY <2>2, <2>4
  <2>6. TraefikForgotten' /\ (IstioForgotten => IstioForgotten')
    BY <2>1, <2>5, TraefikKept, IstioKept
  <2>7. GoneIsGone'
    BY <2>1, <2>2 DEF GoneIsGone, Busy
  <2>8. IngressesWellFormed'
    BY <2>1 DEF IngressesWellFormed, Busy
  <2>9. QED
    BY <2>3, <2>6, <2>7, <2>8 DEF HostsInv
<1>3. CASE RemoveUnit(u)
  <2>1. /\ model'.alive = model.alive \ {u}
        /\ model'.traefik = model.traefik /\ model'.istio = model.istio
    BY <1>1, <1>3 DEF RemoveUnit, Model
  <2>2. \A w \in Units :
          pending'[w] = IF w = u THEN {}
                        ELSE IF w \in model.alive THEN pending[w] \cup {"hook"}
                        ELSE pending[w]
    BY <1>3 DEF RemoveUnit
  <2>3. /\ \A w \in Units \ {u} : running'[w] = running[w] /\ stored'[w] = stored[w]
        /\ running'[u] = Idle /\ stored'[u] = NothingStored
    BY <1>1, <1>3 DEF RemoveUnit, TypeOK
  <2>4. running'[u].event = "none" /\ ~Busy(u)'
    BY <2>3 DEF Busy, Idle
  <2>5. \A w \in Units \ {u} : Busy(w)' = Busy(w)
    BY <2>3 DEF Busy
  <2>6. FreshIngresses' /\ PublishedNow' /\ StoredNow'
    BY <1>1, <2>1, <2>2, AllToldUrls
  <2>7. TraefikForgotten' /\ (IstioForgotten => IstioForgotten')
    <3>1. \A w \in Units \ {u} : pending[w] \subseteq pending'[w]
      BY <2>2
    <3>2. stored'[u].host = NoHost /\ stored'[u].istioHost = NoHost
      BY <2>3, NothingStoredHosts
    <3>3. TraefikForgotten'
      BY <2>1, <2>3, <2>4, <3>1, <3>2 DEF TraefikForgotten, Busy
    <3>4. IstioForgotten => IstioForgotten'
      BY <2>1, <2>3, <2>4, <3>1, <3>2 DEF IstioForgotten, Busy
    <3>5. QED
      BY <3>3, <3>4
  <2>8. GoneIsGone'
    BY <2>1, <2>2, <2>3, <2>4, <2>5 DEF GoneIsGone
  <2>9. IngressesWellFormed'
    BY <2>1, <2>3, <2>4, <2>5 DEF IngressesWellFormed
  <2>10. QED
    BY <2>6, <2>7, <2>8, <2>9 DEF HostsInv
<1>4. QED
  BY <1>2, <1>3 DEF ScaleChange

LEMMA BeginHookUrls ==
  ASSUME UrlsInv, ReconcileInv', NEW u \in Units, BeginHook(u)
  PROVE  HostsInv' /\ (IstioForgotten => IstioForgotten')
<1> USE DEF UrlsInv, HostsInv
<1>1. PICK event \in pending[u] :
        /\ running' = [running EXCEPT ![u] = [event |-> event, view |-> ViewOf(u)]]
        /\ pending' = [pending EXCEPT ![u] = @ \ {event}]
  BY DEF BeginHook
<1>2. TypeOK /\ UNCHANGED <<model, stored, databags>> /\ ~Busy(u)
  BY DEF BeginHook, ReconcileInv
<1>3. /\ running'[u].event = event /\ running'[u].view = ViewOf(u)
      /\ pending'[u] = pending[u] \ {event}
      /\ \A w \in Units \ {u} : pending'[w] = pending[w] /\ running'[w] = running[w]
  BY <1>1, <1>2 DEF TypeOK
<1>4. Busy(u)'
  BY <1>1, <1>2, <1>3 DEF Busy, TypeOK, Events
<1>5. u \in model.alive
  BY <1>1 DEF GoneIsGone
<1>6. /\ ViewOf(u).traefik = model.traefik /\ ViewOf(u).istio = model.istio
      /\ ViewOf(u).tls = model.tls[u] /\ ViewOf(u).up = model.up[u]
      /\ ViewOf(u).peers = model.alive \ {u}
  BY DEF ViewOf
<1>7. IngressesWellFormed'
  BY <1>2, <1>3, <1>6 DEF IngressesWellFormed, Busy
<1>8. GoneIsGone'
  BY <1>2, <1>3, <1>5 DEF GoneIsGone, Busy
<1>9. FreshIngresses'
  <2> SUFFICES ASSUME NEW w \in model.alive, pending'[w] = {}, Busy(w)'
               PROVE  LET v == running'[w].view
                      IN /\ v.traefik = model.traefik /\ v.istio = model.istio
                         /\ v.tls = model.tls[w] /\ (model.up[w] => v.up)
                         /\ v.peers = model.alive \ {w}
    BY <1>2 DEF FreshIngresses
  <2>1. w \in Units
    BY <1>2 DEF TypeOK, Model
  <2>2. CASE w = u
    BY <2>2, <1>3, <1>6
  <2>3. CASE w # u
    BY <2>1, <2>3, <1>3 DEF FreshIngresses, Busy
  <2>4. QED
    BY <2>2, <2>3
<1>10. \A w \in Units : Settled(w)' => Settled(w)
  BY <1>2, <1>3, <1>4 DEF Settled, Busy
<1>11. model.leader \in Units
  BY <1>2 DEF TypeOK, Model
<1>12. StoredNow'
  BY <1>2, <1>10, <1>11 DEF StoredNow
<1>13. PublishedNow'
  BY <1>2, <1>10, <1>11 DEF PublishedNow, LeaderSettled, databags, ViewOf
<1>14. event # "ingress_broken" /\ "ingress_broken" \notin pending'[u]
         => "ingress_broken" \notin pending[u]
  BY <1>3
<1>15. TraefikForgotten'
  BY <1>2, <1>3, <1>6, <1>14 DEF TraefikForgotten, Busy
<1>16. event # "istio_broken" /\ "istio_broken" \notin pending'[u]
         => "istio_broken" \notin pending[u]
  BY <1>3
<1>17. IstioForgotten => IstioForgotten'
  BY <1>2, <1>3, <1>6, <1>16 DEF IstioForgotten, Busy
<1>18. QED
  BY <1>7, <1>8, <1>9, <1>12, <1>13, <1>15, <1>17 DEF HostsInv

\* What a unit has stored after a dispatch: what its view publishes, else what
\* it had, but nothing of an ingress whose end it heard of.
StoredAsSeen(v, event, old, st) ==
  /\ Published(v.traefik) /\ v.traefik.scheme # ""
       => st.host = v.traefik.host /\ st.scheme = v.traefik.scheme
  /\ v.leader /\ Published(v.istio)
       => /\ st.istioHost = v.istio.host
          /\ st.istioScheme = IF v.istio.scheme = "https" THEN "https" ELSE "http"
  /\ st.host # NoHost =>
       \/ v.traefik.host # NoHost
       \/ event # "ingress_broken" /\ old.host # NoHost
  /\ st.istioHost # NoHost =>
       \/ v.istio.host # NoHost
       \/ event # "istio_broken" /\ old.istioHost # NoHost

LEMMA StoredAfter ==
  ASSUME NEW v \in View, NEW event \in Events, NEW old \in Stored,
         NEW st, st = AfterDispatch(v, event, old)
  PROVE  StoredAsSeen(v, event, old, st)
<1> DEFINE clean == Cleared(event, old)
           ours == TraefikStored(v, clean)
<1>1. /\ clean \in Stored
      /\ clean.host # NoHost => event # "ingress_broken" /\ old.host # NoHost
      /\ clean.istioHost # NoHost => event # "istio_broken" /\ old.istioHost # NoHost
  BY DEF Cleared, Stored, Schemes, Events
<1> HIDE DEF clean
<1>2. /\ ours \in Stored /\ ours.istioHost = clean.istioHost
      /\ ours.host # NoHost => v.traefik.host # NoHost \/ clean.host # NoHost
      /\ Published(v.traefik) /\ v.traefik.scheme # ""
           => ours.host = v.traefik.host /\ ours.scheme = v.traefik.scheme
  BY <1>1 DEF TraefikStored, Stored, View, Ingress, Published
<1> HIDE DEF ours
<1>3. st = IstioStored(v, ours)
  BY DEF AfterDispatch, ours, clean
<1>4. /\ st.host = ours.host /\ st.scheme = ours.scheme
      /\ st.istioHost # NoHost => v.istio.host # NoHost \/ ours.istioHost # NoHost
      /\ v.leader /\ Published(v.istio)
           => /\ st.istioHost = v.istio.host
              /\ st.istioScheme = IF v.istio.scheme = "https" THEN "https" ELSE "http"
  BY <1>2, <1>3 DEF IstioStored, Stored, Published
<1>5. QED
  BY <1>1, <1>2, <1>4 DEF StoredAsSeen

\* The unit's dispatch commits what it stored; its event is over, or queued again.
LEMMA CommitForgets ==
  ASSUME UrlsInv, NEW u \in Units, Busy(u),
         running' = [running EXCEPT ![u] = Idle],
         \/ UNCHANGED stored /\ running[u].event \in pending'[u]
         \/ stored' = [stored EXCEPT
              ![u] = AfterDispatch(running[u].view, running[u].event, @)],
         \A w \in Units : pending[w] \subseteq pending'[w],
         model'.traefik = model.traefik, model'.istio = model.istio
  PROVE  TraefikForgotten' /\ (IstioForgotten => IstioForgotten')
<1> DEFINE event == running[u].event
           v == running[u].view
           st == AfterDispatch(v, event, stored[u])
<1>1. TypeOK /\ v \in View /\ event \in Events /\ stored[u] \in Stored
  BY BusyType DEF UrlsInv, HostsInv, ReconcileInv, TypeOK
<1>2. st = AfterDispatch(v, event, stored[u])
  OBVIOUS
<1>3. /\ running'[u] = Idle /\ running'[u].event = "none"
      /\ \A w \in Units \ {u} : running'[w] = running[w] /\ stored'[w] = stored[w]
      /\ stored'[u] = st \/ (stored'[u] = stored[u] /\ event \in pending'[u])
  BY <1>1 DEF TypeOK, Idle
<1> HIDE DEF v, st, event
<1>4. StoredAsSeen(v, event, stored[u], st)
  BY <1>1, <1>2, StoredAfter
<1>5. ASSUME "ingress_broken" \notin pending'[u], stored'[u].host # NoHost
      PROVE  model.traefik.host # NoHost
  <2>1. \/ v.traefik.host # NoHost
        \/ event # "ingress_broken" /\ stored[u].host # NoHost
    BY <1>3, <1>4, <1>5 DEF StoredAsSeen
  <2>2. "ingress_broken" \notin pending[u]
    BY <1>5
  <2>3. QED
    BY <2>1, <2>2 DEF UrlsInv, HostsInv, TraefikForgotten, v, event
<1>6. ASSUME "istio_broken" \notin pending'[u], stored'[u].istioHost # NoHost,
             IstioForgotten
      PROVE  model.istio.host # NoHost
  <2>1. \/ v.istio.host # NoHost
        \/ event # "istio_broken" /\ stored[u].istioHost # NoHost
    BY <1>3, <1>4, <1>6 DEF StoredAsSeen
  <2>2. "istio_broken" \notin pending[u]
    BY <1>6
  <2>3. QED
    BY <1>6, <2>1, <2>2 DEF IstioForgotten, v, event
<1>7. TraefikForgotten'
  BY <1>3, <1>5 DEF UrlsInv, HostsInv, TraefikForgotten, Busy
<1>8. IstioForgotten => IstioForgotten'
  BY <1>3, <1>6 DEF IstioForgotten, Busy
<1>9. QED
  BY <1>7, <1>8

LEMMA AbortUrls ==
  ASSUME UrlsInv, ReconcileInv', NEW u \in Units, Abort(u),
         UNCHANGED stored \/ MayCommit(u)
  PROVE  HostsInv' /\ (IstioForgotten => IstioForgotten')
<1> USE DEF UrlsInv, HostsInv
<1>1. TypeOK /\ UNCHANGED <<model, databags>> /\ Busy(u)
  BY DEF Abort, ReconcileInv
<1>2. /\ running[u].event \in pending'[u]
      /\ running'[u].event = "none"
      /\ \A w \in Units \ {u} : pending'[w] = pending[w] /\ running'[w] = running[w]
      /\ \A w \in Units : pending[w] \subseteq pending'[w]
  BY <1>1 DEF Abort, TypeOK, Idle
<1>3. \A w \in Units \ {u} : stored'[w] = stored[w]
  BY <1>1 DEF MayCommit, TypeOK
<1>4. u \in model.alive /\ model.leader \in Units
  BY <1>1 DEF GoneIsGone, TypeOK, Model
<1>5. TraefikForgotten' /\ (IstioForgotten => IstioForgotten')
  BY <1>1, <1>2, CommitForgets DEF Abort, MayCommit
<1>6. IngressesWellFormed'
  BY <1>1, <1>2 DEF IngressesWellFormed, Busy
<1>7. GoneIsGone'
  BY <1>1, <1>2, <1>3, <1>4 DEF GoneIsGone, Busy
<1>8. FreshIngresses'
  <2>1. \A w \in model.alive : pending'[w] = {} =>
          w # u /\ pending[w] = {} /\ running'[w] = running[w]
    BY <1>1, <1>2 DEF TypeOK, Model
  <2>2. QED
    BY <1>1, <2>1 DEF FreshIngresses, Busy
<1>9. Settled(model.leader)' => Settled(model.leader) /\ model.leader # u
  BY <1>1, <1>2, <1>4 DEF Settled, Busy
<1>10. StoredNow'
  BY <1>1, <1>3, <1>4, <1>9 DEF StoredNow
<1>11. PublishedNow'
  BY <1>1, <1>3, <1>4, <1>9 DEF PublishedNow, LeaderSettled, databags, ViewOf
<1>12. QED
  BY <1>5, <1>6, <1>7, <1>8, <1>10, <1>11 DEF HostsInv

LEMMA FinishHookUrls ==
  ASSUME UrlsInv, ReconcileInv', NEW u \in Units, FinishHook(u)
  PROVE  HostsInv' /\ (IstioForgotten => IstioForgotten')
<1> USE DEF UrlsInv, HostsInv
<1> DEFINE event == running[u].event
           v == running[u].view
           st == AfterDispatch(v, event, stored[u])
<1>1. /\ TypeOK /\ TypeOK' /\ Busy(u) /\ Reconcile(u, v, st)
      /\ Publishes(v) => model.leader = u
      /\ running' = [running EXCEPT ![u] = Idle]
      /\ stored' = [stored EXCEPT ![u] = st]
  BY DEF FinishHook, ReconcileInv
<1>2. v \in View /\ event \in Events /\ stored[u] \in Stored
  BY <1>1, BusyType DEF TypeOK
<1>3. /\ model'.alive = model.alive /\ model'.leader = model.leader
      /\ model'.request = model.request /\ model'.always = model.always
      /\ model'.ready = model.ready /\ model'.traefik = model.traefik
      /\ model'.istio = model.istio /\ model'.tls = model.tls /\ model'.up = model.up
  BY <1>1 DEF FinishHook, TypeOK, Model
<1>4. u \in model.alive /\ model.leader \in Units /\ model.alive \subseteq Units
  BY <1>1 DEF GoneIsGone, TypeOK, Model
<1>5. /\ \A w \in Units : pending[w] \subseteq pending'[w]
      /\ \A w \in Units \ model.alive : pending'[w] = pending[w]
      /\ pending'[u] = pending[u]
  BY <1>1, <1>4 DEF FinishHook, Queue, TypeOK
<1>6. /\ running'[u].event = "none" /\ ~Busy(u)'
      /\ stored'[u] = st
      /\ \A w \in Units \ {u} : running'[w] = running[w] /\ stored'[w] = stored[w]
  BY <1>1 DEF TypeOK, Busy, Idle
<1>7. TraefikForgotten' /\ (IstioForgotten => IstioForgotten')
  BY <1>1, <1>3, <1>5, CommitForgets
<1>8. pending[u] = {} =>
        /\ v.ready = model.ready /\ v.request = model.request
        /\ v.always = model.always /\ (model.leader = u => v.leader)
        /\ v.traefik = model.traefik /\ v.istio = model.istio
        /\ v.tls = model.tls[u] /\ (model.up[u] => v.up)
        /\ v.peers = model.alive \ {u}
  BY <1>1, <1>4 DEF ReconcileInv, FreshViews, FreshIngresses
<1>9. st = AfterDispatch(v, event, stored[u])
  OBVIOUS
<1> HIDE DEF v, st, event
<1>10. StoredAsSeen(v, event, stored[u], st)
  BY <1>2, <1>9, StoredAfter
<1>11. IngressesWellFormed'
  BY <1>3, <1>6 DEF IngressesWellFormed, Busy
<1>12. GoneIsGone'
  BY <1>3, <1>4, <1>5, <1>6 DEF GoneIsGone, Busy
<1>13. FreshIngresses'
  <2>1. \A w \in model.alive : pending'[w] = {} /\ Busy(w)' =>
          w # u /\ pending[w] = {} /\ Busy(w) /\ running'[w] = running[w]
    BY <1>4, <1>5, <1>6 DEF Busy
  <2>2. QED
    BY <1>3, <2>1 DEF FreshIngresses
<1>14. Settled(model.leader)' =>
         pending[model.leader] = {} /\ (model.leader # u => Settled(model.leader))
  BY <1>3, <1>4, <1>5, <1>6 DEF Settled, Busy
<1>15. StoredNow'
  <2> SUFFICES ASSUME Settled(model.leader)'
               PROVE  LET s == stored'[model.leader]
                      IN /\ Published(model.traefik) =>
                              /\ s.host = model.traefik.host
                              /\ s.scheme = model.traefik.scheme
                         /\ Published(model.istio) =>
                              /\ s.istioHost = model.istio.host
                              /\ s.istioScheme = model.istio.scheme
    BY <1>3 DEF StoredNow, Published
  <2>1. CASE model.leader # u
    BY <2>1, <1>4, <1>6, <1>14 DEF StoredNow
  <2>2. CASE model.leader = u
    <3>1. v.traefik = model.traefik /\ v.istio = model.istio /\ v.leader
      BY <2>2, <1>8, <1>14
    <3>2. Published(model.traefik) => model.traefik.scheme # ""
      BY DEF IngressesWellFormed, WellFormed, Published
    <3>3. Published(model.istio) => model.istio.scheme \in {"http", "https"}
      BY <1>1 DEF IngressesWellFormed, WellFormed, Published, TypeOK, Model, Ingress, Schemes
    <3>4. QED
      BY <2>2, <3>1, <3>2, <3>3, <1>6, <1>10 DEF StoredAsSeen, Published
  <2>3. QED
    BY <2>1, <2>2
<1>16. PublishedNow'
  <2> DEFINE L == model.leader
             w == ViewOf(L)'
  <2> SUFFICES ASSUME LeaderSettled'
               PROVE  /\ \A r \in Live(model.request) :
                           receivers'[r] = Receivers(w, stored'[L])
                      /\ urls' = ApiUrls(w, stored'[L])
                      /\ model.traefik.related =>
                           route' = TraefikRoute(w, stored'[L], L)
                      /\ model.istio.related => istioRoute'
    BY <1>3 DEF PublishedNow
  <2>1. /\ pending[L] = {} /\ model.ready /\ model.up[L]
        /\ L # u => Settled(L)
    BY <1>3, <1>14 DEF LeaderSettled
  <2>2. /\ w.request = model.request /\ w.always = model.always
        /\ w.traefik = model.traefik /\ w.istio = model.istio
        /\ w.tls = model.tls[L] /\ w.up = model.up[L] /\ w.peers = model.alive \ {L}
    BY <1>3 DEF ViewOf
  <2>3. CASE L = u
    <3>1. /\ Publishes(v)
          /\ v.request = w.request /\ v.always = w.always
          /\ v.traefik = w.traefik /\ v.istio = w.istio
          /\ v.tls = w.tls /\ v.up = w.up /\ v.peers = w.peers
      BY <2>1, <2>2, <2>3, <1>1, <1>2, <1>8 DEF Publishes, View, TypeOK, Model
    <3> HIDE DEF w, L
    <3>2. /\ Receivers(v, st) = Receivers(w, st)
          /\ ApiUrls(v, st) = ApiUrls(w, st)
          /\ TraefikRoute(v, st, u) = TraefikRoute(w, st, u)
      BY <3>1, SameWrites
    <3>3. \A r \in Live(model.request) : receivers'[r] = Receivers(v, st)
      BY <3>1, <2>2, <1>1 DEF Reconcile, Live
    <3>4. urls' = ApiUrls(v, st)
      BY <3>1, <1>1 DEF Reconcile
    <3>5. model.traefik.related => route' = TraefikRoute(v, st, u)
      BY <3>1, <2>2, <1>1 DEF Reconcile
    <3>6. model.istio.related => istioRoute'
      BY <3>1, <2>2, <1>1 DEF Reconcile
    <3>7. QED
      BY <2>3, <3>2, <3>3, <3>4, <3>5, <3>6, <1>6
  <2>4. CASE L # u
    <3>1. ~Publishes(v)
      BY <2>4, <1>1
    <3>2. UNCHANGED <<urls, route>> /\ (istioRoute => istioRoute')
          /\ \A r \in Relations : receivers'[r] = receivers[r]
      BY <3>1, <1>1 DEF Reconcile
    <3>3. LeaderSettled
      BY <2>1, <2>4 DEF LeaderSettled
    <3> DEFINE x == ViewOf(L)
    <3>4. /\ x.request = w.request /\ x.always = w.always
          /\ x.traefik = w.traefik /\ x.istio = w.istio
          /\ x.tls = w.tls /\ x.up = w.up /\ x.peers = w.peers
      BY <2>2 DEF ViewOf
    <3>5. /\ \A r \in Live(model.request) : receivers[r] = Receivers(x, stored[L])
          /\ urls = ApiUrls(x, stored[L])
          /\ model.traefik.related => route = TraefikRoute(x, stored[L], L)
          /\ model.istio.related => istioRoute
      BY <3>3 DEF PublishedNow
    <3>6. stored'[L] = stored[L] /\ L \in Units
      BY <2>4, <1>4, <1>6
    <3> HIDE DEF w, x, L
    <3>7. \A s : /\ Receivers(x, s) = Receivers(w, s)
                 /\ ApiUrls(x, s) = ApiUrls(w, s)
                 /\ TraefikRoute(x, s, L) = TraefikRoute(w, s, L)
      BY <3>4, SameWrites
    <3>8. \A r \in Live(model.request) : r \in Relations
      BY DEF Live
    <3>9. QED
      BY <3>2, <3>5, <3>6, <3>7, <3>8
  <2>5. QED
    BY <2>3, <2>4
<1>17. QED
  BY <1>7, <1>11, <1>12, <1>13, <1>15, <1>16 DEF HostsInv

LEMMA InitUrls == Init => UrlsInv /\ IstioForgotten
<1> SUFFICES ASSUME Init PROVE UrlsInv /\ IstioForgotten
  OBVIOUS
<1>1. ReconcileInv
  BY InitReconcile
<1>2. /\ model.traefik = NoIngress /\ model.istio = NoIngress
      /\ model.alive = FirstUnits
  BY DEF Init
<1>3. \A u \in Units : /\ ~Busy(u) /\ stored[u] = NothingStored
                       /\ u \in FirstUnits => pending[u] # {}
                       /\ u \notin FirstUnits => pending[u] = {}
  BY DEF Init, Busy, Idle
<1>4. WellFormed(NoIngress)
  BY DEF WellFormed, NoIngress
<1>5. IngressesWellFormed /\ GoneIsGone
  BY <1>2, <1>3, <1>4 DEF IngressesWellFormed, GoneIsGone
<1>6. TraefikForgotten /\ IstioForgotten
  BY <1>3, NothingStoredHosts DEF TraefikForgotten, IstioForgotten
<1>7. ~Settled(model.leader)
  BY <1>1, <1>2, <1>3 DEF ReconcileInv, LeaderAlive, Settled, TypeOK, Model
<1>8. FreshIngresses /\ PublishedNow /\ StoredNow
  BY <1>2, <1>3, <1>7, DeploymentAssumption
     DEF FreshIngresses, PublishedNow, StoredNow, LeaderSettled
<1>9. QED
  BY <1>1, <1>5, <1>6, <1>8 DEF UrlsInv, HostsInv

LEMMA NextUrls ==
  ASSUME UrlsInv, [Next]_vars
  PROVE  UrlsInv' /\ (IstioForgotten /\ ~IstioWipes => IstioForgotten')
<1>1. ReconcileInv'
  BY NextReconcile DEF UrlsInv
<1>2. CASE TracingChange \/ \E ok \in BOOLEAN : SetReady(ok)
  BY <1>1, <1>2, TracingUrls DEF UrlsInv
<1>3. CASE IngressChange
  BY <1>1, <1>3, IngressUrls DEF UrlsInv
<1>4. ASSUME NEW u \in Units, UnitChange(u) \/ ElectLeader(u)
      PROVE  UrlsInv' /\ (IstioForgotten => IstioForgotten')
  BY <1>1, <1>4, UnitUrls DEF UrlsInv
<1>5. ASSUME NEW u \in Units, ScaleChange(u)
      PROVE  UrlsInv' /\ (IstioForgotten => IstioForgotten')
  BY <1>1, <1>5, ScaleUrls DEF UrlsInv
<1>6. ASSUME NEW u \in Units, BeginHook(u)
      PROVE  UrlsInv' /\ (IstioForgotten => IstioForgotten')
  BY <1>1, <1>6, BeginHookUrls DEF UrlsInv
<1>7. ASSUME NEW u \in Units, FinishHook(u)
      PROVE  UrlsInv' /\ (IstioForgotten => IstioForgotten')
  BY <1>1, <1>7, FinishHookUrls DEF UrlsInv
<1>8. ASSUME NEW u \in Units, RaiseInHook(u) \/ DenyHook(u) \/ CrashHook(u)
      PROVE  UrlsInv' /\ (IstioForgotten => IstioForgotten')
  BY <1>1, <1>8, AbortUrls DEF RaiseInHook, DenyHook, CrashHook, UrlsInv
<1>9. CASE UNCHANGED vars
  BY <1>1, <1>9 DEF vars, UrlsInv, HostsInv, IngressesWellFormed, GoneIsGone, FreshIngresses,
     PublishedNow, StoredNow, TraefikForgotten, IstioForgotten, Busy, Settled,
     LeaderSettled, ViewOf
<1>10. QED
  BY <1>2, <1>3, <1>4, <1>5, <1>6, <1>7, <1>8, <1>9 DEF Next, RunHooks, EndHook

LEMMA UrlsInvariant == Spec => []UrlsInv
<1>1. UrlsInv /\ [Next]_vars => UrlsInv'
  BY NextUrls
<1>2. QED
  BY <1>1, InitUrls, PTL DEF Spec

LEMMA IstioForgottenInvariant == Spec /\ [][~IstioWipes]_vars => []IstioForgotten
<1>1. UrlsInv /\ IstioForgotten /\ [Next]_vars /\ [~IstioWipes]_vars => IstioForgotten'
  <2> SUFFICES ASSUME UrlsInv, IstioForgotten, [Next]_vars, [~IstioWipes]_vars
               PROVE  IstioForgotten'
    OBVIOUS
  <2>1. CASE ~IstioWipes
    BY <2>1, NextUrls
  <2>2. CASE UNCHANGED vars
    BY <2>2 DEF vars, IstioForgotten, Busy
  <2>3. QED
    BY <2>1, <2>2
<1>2. QED
  BY <1>1, InitUrls, UrlsInvariant, PTL DEF Spec

-------------------------------------------------------------------------------
(* What follows *)

\* The address at which the leader believes clients reach Tempo is the one at
\* which they do.
LEMMA ExternalIsEntry ==
  ASSUME UrlsInv, LeaderSettled,
         model.istio.related /\ ~Published(model.istio)
           => stored[model.leader].istioHost = NoHost
  PROVE  LET v == ViewOf(model.leader)
             st == stored[model.leader]
         IN /\ InternalUrl(v) = OwnUrl
            /\ ExternalUrl(v, st) = IF EntryUrl = OwnUrl THEN NoUrl ELSE EntryUrl
            /\ MostExternalUrl(v, st) = EntryUrl
<1> USE DEF UrlsInv, HostsInv
<1> DEFINE L == model.leader
           v == ViewOf(L)
           st == stored[L]
<1>1. /\ TypeOK /\ Settled(L) /\ model.up[L] /\ L \in Units
      /\ model.traefik \in Ingress /\ model.istio \in Ingress
  BY DEF LeaderSettled, ReconcileInv, TypeOK, Model
<1>2. /\ v.traefik = model.traefik /\ v.istio = model.istio
      /\ v.tls = model.tls[L] /\ v.up = model.up[L]
  BY DEF ViewOf
<1> HIDE DEF v
<1>3. InternalUrl(v) = OwnUrl
  BY <1>1, <1>2 DEF InternalUrl, OwnUrl, Scheme
<1>4. /\ Published(model.traefik) =>
           st.host = model.traefik.host /\ st.scheme = model.traefik.scheme
      /\ Published(model.istio) =>
           st.istioHost = model.istio.host /\ st.istioScheme = model.istio.scheme
  BY <1>1 DEF StoredNow
<1>5. ~Published(model.traefik) => ~model.traefik.related \/ st.host = NoHost
  BY <1>1 DEF TraefikForgotten, Settled, Busy, Published
<1>6. IngressReady(v, st) <=> Published(model.traefik)
  BY <1>2, <1>4, <1>5 DEF IngressReady, Published, IngressesWellFormed, WellFormed
<1>7. IstioReady(v, st) <=> Published(model.istio)
  BY <1>2, <1>4 DEF IstioReady, Published
<1> HIDE DEF st, L
<1>8. /\ Published(model.traefik) => model.traefik.host \in Hosts
      /\ Published(model.istio) => model.istio.host \in Hosts
  BY <1>1 DEF Published, Ingress
<1>9. OwnUrl.host = AppHost /\ NoUrl.host = NoHost
  BY HostsAssumption DEF OwnUrl, NoUrl
<1>10. CASE Published(model.traefik) /\ ~Published(model.istio)
  <2>1. ExternalUrl(v, st) = [scheme |-> st.scheme, host |-> st.host]
    BY <1>6, <1>7, <1>10 DEF ExternalUrl
  <2>2. EntryUrl = IngressUrl(model.traefik)
    BY <1>10 DEF EntryUrl
  <2>3. ExternalUrl(v, st) = EntryUrl
    BY <1>4, <1>10, <2>1, <2>2 DEF IngressUrl, st, L
  <2>4. EntryUrl.host \in Hosts
    BY <1>8, <1>10, <2>2 DEF IngressUrl
  <2>5. EntryUrl # OwnUrl /\ EntryUrl # NoUrl
    BY <1>9, <2>4, HostsAssumption
  <2>6. MostExternalUrl(v, st) = EntryUrl
    BY <2>3, <2>5 DEF MostExternalUrl
  <2>7. QED
    BY <1>3, <2>3, <2>5, <2>6 DEF v, st, L
<1>11. CASE Published(model.istio) /\ ~Published(model.traefik)
  <2>1. ExternalUrl(v, st) = [scheme |-> st.istioScheme, host |-> st.istioHost]
    BY <1>6, <1>7, <1>11 DEF ExternalUrl
  <2>2. EntryUrl = IngressUrl(model.istio)
    BY <1>11 DEF EntryUrl
  <2>3. ExternalUrl(v, st) = EntryUrl
    BY <1>4, <1>11, <2>1, <2>2 DEF IngressUrl, st, L
  <2>4. EntryUrl.host \in Hosts
    BY <1>8, <1>11, <2>2 DEF IngressUrl
  <2>5. EntryUrl # OwnUrl /\ EntryUrl # NoUrl
    BY <1>9, <2>4, HostsAssumption
  <2>6. MostExternalUrl(v, st) = EntryUrl
    BY <2>3, <2>5 DEF MostExternalUrl
  <2>7. QED
    BY <1>3, <2>3, <2>5, <2>6 DEF v, st, L
<1>12. CASE Published(model.traefik) <=> Published(model.istio)
  <2>1. ExternalUrl(v, st) = NoUrl
    BY <1>6, <1>7, <1>12 DEF ExternalUrl
  <2>2. EntryUrl = OwnUrl
    BY <1>12 DEF EntryUrl
  <2>3. QED
    BY <1>3, <2>1, <2>2 DEF MostExternalUrl, v, st, L
<1>13. QED
  BY <1>10, <1>11, <1>12

LEMMA UrlsFollow ==
  ASSUME UrlsInv,
         LeaderSettled /\ model.istio.related /\ ~Published(model.istio)
           => stored[model.leader].istioHost = NoHost
  PROVE  UrlsCurrent
<1> SUFFICES ASSUME LeaderSettled
             PROVE  /\ \A r \in Live(model.request) : \A e \in receivers[r] :
                         /\ e.url.host = EntryUrl.host
                         /\ e.url.scheme = IF e.protocol \in GrpcProtocols THEN ""
                                           ELSE EntryUrl.scheme
                    /\ urls.direct = OwnUrl
                    /\ urls.ingress = IF EntryUrl = OwnUrl THEN NoUrl ELSE EntryUrl
                    /\ urls.grafana = EntryUrl
  BY DEF UrlsCurrent
<1> DEFINE v == ViewOf(model.leader)
           st == stored[model.leader]
<1>1. /\ InternalUrl(v) = OwnUrl
      /\ ExternalUrl(v, st) = IF EntryUrl = OwnUrl THEN NoUrl ELSE EntryUrl
      /\ MostExternalUrl(v, st) = EntryUrl
  BY ExternalIsEntry
<1>2. /\ \A r \in Live(model.request) : receivers[r] = Receivers(v, st)
      /\ urls = ApiUrls(v, st)
  BY DEF UrlsInv, HostsInv, PublishedNow
<1> HIDE DEF v, st
<1>3. EntryUrl = [scheme |-> EntryUrl.scheme, host |-> EntryUrl.host]
  BY DEF EntryUrl, IngressUrl, OwnUrl
<1>4. ASSUME NEW e \in Receivers(v, st)
      PROVE  /\ e.url.host = EntryUrl.host
             /\ e.url.scheme = IF e.protocol \in GrpcProtocols THEN ""
                               ELSE EntryUrl.scheme
  <2>1. PICK p \in RequestedReceivers(v) :
          e.protocol = p /\ e.url = ReceiverUrl(v, st, p)
    BY DEF Receivers
  <2>2. e.url = IF p \in GrpcProtocols THEN [EntryUrl EXCEPT !.scheme = ""]
                ELSE EntryUrl
    BY <1>1, <2>1 DEF ReceiverUrl
  <2>3. QED
    BY <1>3, <2>1, <2>2
<1>5. QED
  BY <1>1, <1>2, <1>4 DEF ApiUrls

LEMMA RouteFollows == UrlsInv => RouteCurrent
<1> SUFFICES ASSUME UrlsInv, LeaderSettled
             PROVE  /\ model.traefik.related =>
                         /\ route.servers = model.alive
                         /\ route.http = OwnUrl.scheme
                         /\ route.grpc = IF OwnUrl.scheme = "https" THEN "https" ELSE "h2c"
                         /\ Published(model.traefik) =>
                              route.redirect = (model.traefik.scheme = "https")
                    /\ model.istio.related => istioRoute
  BY DEF RouteCurrent
<1> DEFINE L == model.leader
           v == ViewOf(L)
           st == stored[L]
<1>1. /\ v.peers = model.alive \ {L} /\ v.up = model.up[L] /\ v.tls = model.tls[L]
      /\ L \in model.alive /\ model.up[L]
  BY DEF ViewOf, LeaderSettled, Settled
<1>2. /\ model.traefik.related => route = TraefikRoute(v, st, L)
      /\ model.istio.related => istioRoute
  BY DEF UrlsInv, HostsInv, PublishedNow
<1>3. Published(model.traefik) => st.scheme = model.traefik.scheme
  BY DEF UrlsInv, HostsInv, StoredNow, LeaderSettled
<1>4. OwnUrl.scheme = Scheme(v)
  BY <1>1 DEF OwnUrl, Scheme
<1> HIDE DEF v, st, L
<1>5. /\ TraefikRoute(v, st, L).servers = {L} \cup v.peers
      /\ TraefikRoute(v, st, L).http = Scheme(v)
      /\ TraefikRoute(v, st, L).grpc = IF v.tls THEN Scheme(v) ELSE "h2c"
      /\ TraefikRoute(v, st, L).redirect = (st.scheme = "https")
  BY Zenon DEF TraefikRoute
<1>6. Scheme(v) = "https" <=> v.tls
  BY <1>1 DEF Scheme
<1>7. QED
  BY <1>1, <1>2, <1>3, <1>4, <1>5, <1>6

\* Traefik balances over exactly the units there are, as they listen, and the
\* routes were sent to every ingress, whatever the ingresses do
\* (_update_ingress_relation, submit_config of the istio library).
THEOREM RouteIsCurrent == Spec => []RouteCurrent
BY RouteFollows, UrlsInvariant, PTL

\* As long as an istio-ingress does not withdraw the host that it published,
\* every URL told to a client is where Tempo is reached (_most_external_url).
THEOREM UrlsAreCurrent == Spec /\ [][~IstioWipes]_vars => []UrlsCurrent
<1>1. UrlsInv /\ IstioForgotten => UrlsCurrent
  <2> SUFFICES ASSUME UrlsInv, IstioForgotten, LeaderSettled, model.istio.related,
                      ~Published(model.istio)
               PROVE  stored[model.leader].istioHost = NoHost
    BY UrlsFollow
  <2>1. model.leader \in Units
    BY DEF UrlsInv, HostsInv, ReconcileInv, TypeOK, Model
  <2>2. QED
    BY <2>1 DEF IstioForgotten, LeaderSettled, Settled, Busy, Published
<1>2. QED
  BY <1>1, UrlsInvariant, IstioForgottenInvariant, PTL

\* And when one does, they are from when it publishes again, or is removed.
THEOREM UrlsRecover ==
  Spec => []((model.istio.related => Published(model.istio)) => UrlsCurrent)
<1>1. UrlsInv => ((model.istio.related => Published(model.istio)) => UrlsCurrent)
  BY UrlsFollow
<1>2. QED
  BY <1>1, UrlsInvariant, PTL
===============================================================================
