------------------------ MODULE MCTempoCoordinatorUrls ------------------------
(***************************************************************************)
(* Two small instances of TempoCoordinator in one. In each behaviour a     *)
(* part of the model changes: the ingresses, or what is behind them.       *)
(***************************************************************************)
EXTENDS MCTempoCoordinator

VARIABLE part  \* the part of the model that changes

ScaleChanges == 4  \* changes in the second part, where there are more of them

\* Bounds to conjoin with an action of either part, of one, and of the other.
Either == UNCHANGED part /\ (part = "scale" => changes' <= ScaleChanges)
Ingresses == part = "ingress" /\ Either
Behind == part = "scale" /\ Either

UrlsNext ==
  \/ RelateTraefik /\ Either
  \/ RemoveTraefik /\ Either
  \/ RelateIstio /\ Ingresses
  \/ RemoveIstio /\ Ingresses
  \/ \E host \in Hosts, scheme \in {"http", "https"} :
       \/ TraefikPublishes(host, scheme) /\ Ingresses
       \/ IstioPublishes(host, scheme) /\ Ingresses
  \/ \E u \in Units :
       \/ \E has \in BOOLEAN : SetCertificate(u, has) /\ Behind
       \/ NginxDown(u) /\ Behind
       \/ NginxUp(u) /\ Behind
       \/ UpdateStatus(u) /\ Behind
       \/ AddUnit(u) /\ Behind
       \/ RemoveUnit(u) /\ Behind
       \/ ElectLeader(u) /\ Either
       \/ BeginHook(u) /\ Either
       \/ EndHook(u) /\ Either

UrlsInit == ServingInit /\ part \in {"ingress", "scale"}
UrlsSpec == UrlsInit /\ [][UrlsNext]_<<vars, part>>
===============================================================================
