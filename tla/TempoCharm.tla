------------------------------ MODULE TempoCharm ------------------------------
(***************************************************************************)
(* What one dispatch of the coordinator charm computes                     *)
(* (coordinator/src/charm.py and the two ingress libraries it reads).      *)
(*                                                                         *)
(* A dispatch sees a view of the Juju model, a record with the fields      *)
(*   leader   is this unit the leader                                      *)
(*   ready    coordinator.can_handle_events                                *)
(*   request  what each tracing relation asks for                          *)
(*   always   the protocols whose always_enable_* option is set            *)
(*   traefik  the "ingress" relation, istio the "istio-ingress" relation   *)
(*   tls      has the certificates relation given this unit a certificate  *)
(*   up       can the nginx container be reached                           *)
(*   peers    the other units, fqdn the units that wrote their PeerData    *)
(* and the unit's stored state st: what the ingress libraries keep in ops  *)
(* StoredState between dispatches.                                         *)
(***************************************************************************)

EXTENDS Naturals

CONSTANTS Units,          \* coordinator units
          Relations,      \* tracing relations, each related at most once
          Protocols,      \* the receiver protocols Tempo supports
          GrpcProtocols,  \* those whose transport is gRPC
          AlwaysOn,       \* those on in every deployment: otlp_http
          Hosts,          \* host names an ingress can publish
          NoHost,         \* no host published
          AppHost         \* the application's cluster-local host name

ASSUME ProtocolsAssumption ==
  /\ GrpcProtocols \subseteq Protocols
  /\ AlwaysOn \subseteq Protocols
ASSUME HostsAssumption ==
  /\ NoHost \notin Hosts
  /\ AppHost \notin Hosts \cup {NoHost}

Schemes == {"", "http", "https"}
Url == [scheme : Schemes, host : Hosts \cup {NoHost, AppHost}]
NoUrl == [scheme |-> "", host |-> NoHost]

\* A tracing relation: not there yet, there without a request that can be
\* parsed, there with a request, or removed.
Request == [phase : {"absent", "silent", "asked", "gone"},
            protocols : SUBSET Protocols]
Live(request) == {r \in Relations : request[r].phase \in {"silent", "asked"}}

\* An ingress relation; id tells a relation from the one that replaced it.
Ingress == [related : BOOLEAN, id : Nat, host : Hosts \cup {NoHost},
            scheme : Schemes]

Stored == [host : Hosts \cup {NoHost}, scheme : Schemes,
           istioHost : Hosts \cup {NoHost}, istioScheme : Schemes]
NothingStored == [host |-> NoHost, scheme |-> "",
                  istioHost |-> NoHost, istioScheme |-> "http"]

-------------------------------------------------------------------------------
(* The ingress libraries' stored state *)

\* TraefikRouteRequirer._update_stored: an empty field leaves the old value.
TraefikStored(v, st) ==
  IF v.traefik.related
  THEN [st EXCEPT
         !.host = IF v.traefik.host = NoHost THEN @ ELSE v.traefik.host,
         !.scheme = IF v.traefik.scheme = "" THEN @ ELSE v.traefik.scheme]
  ELSE st

\* IstioIngressRouteRequirer._update_stored: leader only; tls is overwritten.
IstioStored(v, st) ==
  IF v.leader /\ v.istio.related
  THEN [st EXCEPT
         !.istioHost = IF v.istio.host = NoHost THEN @ ELSE v.istio.host,
         !.istioScheme = IF v.istio.scheme = "https" THEN "https" ELSE "http"]
  ELSE st

\* A library without the handlers below: what is stored is never cleared.
Cleared_Never(event, st) == st

\* The relation-broken handlers. Traefik's leaves the scheme behind.
Cleared(event, st) ==
  CASE event = "ingress_broken" -> [st EXCEPT !.host = NoHost]
    [] event = "istio_broken" ->
         [st EXCEPT !.istioHost = NoHost, !.istioScheme = "http"]
    [] OTHER -> st

\* Every property the charm reads calls _update_stored, before and after the
\* broken handler; what remains is the state cleared, then brought up to date.
AfterDispatch(v, event, st) ==
  IstioStored(v, TraefikStored(v, Cleared(event, st)))

-------------------------------------------------------------------------------
(* URLs *)

IngressReady(v, st) ==
  v.traefik.related /\ st.scheme # "" /\ st.host # NoHost
IstioReady(v, st) ==
  v.istio.related /\ st.istioHost # NoHost

\* With two ingresses there is no telling which to advertise: neither is.
ExternalUrl(v, st) ==
  CASE IngressReady(v, st) /\ ~IstioReady(v, st) ->
         [scheme |-> st.scheme, host |-> st.host]
    [] IstioReady(v, st) /\ ~IngressReady(v, st) ->
         [scheme |-> st.istioScheme, host |-> st.istioHost]
    [] OTHER -> NoUrl

\* The coordinator library puts the certificate on the container's disk when
\* it has one and can reach the container (are_certificates_on_disk).
Scheme(v) == IF v.up /\ v.tls THEN "https" ELSE "http"
InternalUrl(v) == [scheme |-> Scheme(v), host |-> AppHost]
MostExternalUrl(v, st) ==
  IF ExternalUrl(v, st) = NoUrl THEN InternalUrl(v) ELSE ExternalUrl(v, st)

-------------------------------------------------------------------------------
(* What the dispatch writes *)

\* Slips: the configured receivers forgotten; one Tempo does not support kept.
RequestedReceivers_NoConfig(v) ==
  (UNION {v.request[r].protocols : r \in Live(v.request)}) \cup AlwaysOn
RequestedReceivers_Unsupported(v) ==
  (UNION {v.request[r].protocols : r \in Live(v.request)})
    \cup AlwaysOn \cup {"opencensus"}

RequestedReceivers(v) ==
  (UNION {v.request[r].protocols : r \in Live(v.request)})
    \cup AlwaysOn \cup v.always

\* What nginx listens for, and the receiver ports the unit opens.
NginxPorts_Leader(v) == \* followers only serve what is always on
  IF v.leader THEN RequestedReceivers(v) ELSE AlwaysOn
NginxPorts(v) == RequestedReceivers(v)

\* gRPC endpoints are a bare netloc.
ReceiverUrl(v, st, p) ==
  IF p \in GrpcProtocols THEN [MostExternalUrl(v, st) EXCEPT !.scheme = ""]
                         ELSE MostExternalUrl(v, st)
Receiver == [protocol : Protocols, url : Url]
Receivers(v, st) ==
  {[protocol |-> p, url |-> ReceiverUrl(v, st, p)] : p \in RequestedReceivers(v)}

\* The tempo-api and grafana-source databags.
PublishedUrls == [direct : Url, ingress : Url, grafana : Url]
ApiUrls(v, st) == [direct |-> InternalUrl(v), ingress |-> ExternalUrl(v, st),
                   grafana |-> MostExternalUrl(v, st)]

\* The load balancer's backends, how nginx is spoken to, and whether traefik
\* redirects plain requests.
RouteConfig == [servers : SUBSET Units, http : Schemes,
                grpc : Schemes \cup {"h2c"}, redirect : BOOLEAN]
NoRoute == [servers |-> {}, http |-> "", grpc |-> "", redirect |-> FALSE]
\* A slip: the unit's own server left out.
TraefikRoute_PeersOnly(v, st, u) ==
  [servers |-> v.peers, http |-> Scheme(v),
   grpc |-> IF v.tls THEN Scheme(v) ELSE "h2c",
   redirect |-> st.scheme = "https"]

TraefikRoute(v, st, u) ==
  [servers |-> {u} \cup v.peers, http |-> Scheme(v),
   grpc |-> IF v.tls THEN Scheme(v) ELSE "h2c",
   redirect |-> st.scheme = "https"]

\* PeerData.load raises on the databag of a peer that has not written its fqdn
\* yet, and it is called for every peer while the route is built.
DispatchRaises(v) ==
  /\ v.ready /\ v.leader /\ v.traefik.related
  /\ ~(v.peers \subseteq v.fqdn)

\* The writes to application databags are the leader's, and only once the
\* coordinator can handle events.
Publishes_Anyone(v) == v.ready \* without the is_leader() check
Publishes(v) == v.ready /\ v.leader
===============================================================================
