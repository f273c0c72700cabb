-------------------------- MODULE MCTempoCoordinator --------------------------
(***************************************************************************)
(* Small instances of TempoCoordinator. Each specification lets a part of  *)
(* the model change, so that a few changes reach the interesting cases;    *)
(* each is the whole specification with some of its actions never taken.   *)
(***************************************************************************)
EXTENDS TempoCoordinator

\* The state a deployment reaches when its first hooks have run and its cluster
\* has become ready: a later start than Init, to spend the changes elsewhere.
\* The requirers rs have already been served with every protocol.
Deployed(u, rs) ==
  LET m == [leader |-> u, alive |-> FirstUnits, fqdn |-> FirstUnits,
            request |-> [r \in Relations |->
                           IF r \in rs
                           THEN [phase |-> "asked", protocols |-> Protocols]
                           ELSE [phase |-> "absent", protocols |-> {}]],
            always |-> {}, traefik |-> NoIngress, istio |-> NoIngress,
            tls |-> [v \in Units |-> FALSE], up |-> [v \in Units |-> TRUE],
            ready |-> TRUE]
      app == [scheme |-> "http", host |-> AppHost]
  IN /\ model = m
     /\ changes = 0
     /\ pending = [v \in Units |-> {}]
     /\ running = [v \in Units |-> Idle]
     /\ stored = [v \in Units |-> NothingStored]
     /\ ports = [v \in Units |-> IF v \notin FirstUnits THEN {}
                              ELSE IF rs = {} THEN AlwaysOn ELSE Protocols]
     /\ receivers = [r \in Relations |->
                       IF r \in rs
                       THEN {[protocol |-> p,
                              url |-> IF p \in GrpcProtocols
                                      THEN [app EXCEPT !.scheme = ""] ELSE app] :
                               p \in Protocols}
                       ELSE {}]
     /\ urls = [direct |-> app, ingress |-> NoUrl, grafana |-> app]
     /\ route = NoRoute
     /\ istioRoute = FALSE
DeployedInit == \E u \in FirstUnits : Deployed(u, {})
ServingInit == \E u \in FirstUnits : Deployed(u, Relations)

\* Requests come, change and go; leaders and readiness change; hooks crash.
TracingNext ==
  \/ TracingChange
  \/ \E ok \in BOOLEAN : SetReady(ok)
  \/ \E u \in Units : ElectLeader(u) \/ CrashHook(u) \/ RunHooks(u)
TracingSpec == DeployedInit /\ [][TracingNext]_vars

\* Ingresses come, move and go, an istio-ingress withdraws the host it published,
\* and leaders change.
WipingNext ==
  \/ IngressChange
  \/ \E u \in Units : ElectLeader(u) \/ RunHooks(u)
WipingSpec == ServingInit /\ [][WipingNext]_vars

\* From the very start, with everything that can keep a unit from settling.
StartNext ==
  \/ RelateTraefik
  \/ SetReady(TRUE)
  \/ \E u \in Units : \/ ScaleChange(u) \/ ElectLeader(u)
                      \/ CrashHook(u) \/ RunHooks(u)
StartSpec == Init /\ [][StartNext]_vars /\ Fairness
===============================================================================
