----------------------------- MODULE TempoCluster -----------------------------
(***************************************************************************)
(* The Tempo cluster as the coordinator lays it out: the worker            *)
(* applications with their roles, and what the coordinator makes of them,  *)
(* the workers' configuration (tempo.py), the nginx in front of them       *)
(* (nginx_config.py) and the ports they open (charm.py, _get_worker_ports).*)
(*                                                                         *)
(* A worker application has one role and a headless service that resolves  *)
(* to all its units. An address is <<application, unit number>>.           *)
(***************************************************************************)
EXTENDS Naturals, FiniteSets

CONSTANTS Apps,        \* worker applications, numbered in the order of their names
          Protocols,   \* the receiver protocols
          AlwaysOn,    \* those that are always requested
          Mixed,       \* may a deployment not be Uniform
          MaxUnits,    \* units per application: bounds the checking
          MaxChanges   \* changes to the deployment: bounds the checking

ASSUME ClusterAssumption ==
  /\ Apps \subseteq Nat \ {0} /\ IsFiniteSet(Apps)
  /\ AlwaysOn \subseteq Protocols
  /\ Mixed \in BOOLEAN /\ MaxUnits \in Nat /\ MaxChanges \in Nat

Components == {"querier", "query-frontend", "ingester", "distributor",
               "compactor", "metrics-generator"}
Roles == Components \cup {"all"}
MinimalDeployment == Components \ {"metrics-generator"}
ServerPorts == {"tempo_http", "tempo_grpc"}
Ports == Protocols \cup ServerPorts \cup {"memberlist"}
Upstream == [port : Protocols \cup ServerPorts, role : Components]

VARIABLES
  changes,    \* how often the deployment has changed
  role,       \* application -> its role
  scale,      \* application -> how many units it has
  requested,  \* the receivers requested of the coordinator
  pending,    \* has the coordinator an event to handle
  config,     \* what every worker's configuration says: see Config
  ports,      \* role -> the ports a worker with that role is told to open
  upstreams   \* what nginx forwards to

clusterVars == <<changes, role, scale, requested, pending, config, ports, upstreams>>

-------------------------------------------------------------------------------
(* What the cluster relation tells the coordinator *)

\* Meta-roles stand for the components they are made of.
Expand(r) == IF r = "all" THEN Components ELSE {r}
Addresses(r) ==
  {addr \in Apps \X (1..MaxUnits) :
     addr[2] <= scale[addr[1]] /\ r \in Expand(role[addr[1]])}

\* can_handle_events: every role of the minimal deployment is taken.
Coherent == \A r \in MinimalDeployment : Addresses(r) # {}

-------------------------------------------------------------------------------
(* The workers' configuration *)

Localhost == 0
FirstApp(addresses) ==
  LET apps == {addr[1] : addr \in addresses}
  IN CHOOSE a \in apps : \A b \in apps : a <= b

\* Slip: one frontend's service even where every querier has its own.
FrontendAddress_Service ==
  IF Addresses("query-frontend") = {} THEN Localhost
                                      ELSE FirstApp(Addresses("query-frontend"))

\* _build_querier_config: localhost, or the headless service of the
\* application that the first of the sorted addresses is in.
FrontendAddress ==
  LET frontends == Addresses("query-frontend")
      queriers == Addresses("querier")
  IN IF frontends = {} \/ (queriers # {} /\ queriers \subseteq frontends)
     THEN Localhost ELSE FirstApp(frontends)

\* _build_ingester_config
ReplicationFactor_Two == IF Cardinality(Addresses("ingester")) >= 2 THEN 3 ELSE 1
ReplicationFactor == IF Cardinality(Addresses("ingester")) >= 3 THEN 3 ELSE 1

-------------------------------------------------------------------------------
(* nginx, and the ports of the workers *)

\* A slip: the receivers are looked for at the meta-role.
Upstreams_Meta ==
  {[port |-> p, role |-> "all"] : p \in requested}
    \cup {[port |-> p, role |-> "query-frontend"] : p \in ServerPorts}
Upstreams ==
  {[port |-> p, role |-> "distributor"] : p \in requested}
    \cup {[port |-> p, role |-> "query-frontend"] : p \in ServerPorts}

\* A slip: the meta-role is not thought of.
WorkerPorts_NoMeta(r) ==
  {"memberlist", "tempo_http"}
    \cup (IF r = "distributor" THEN requested ELSE {})
    \cup (IF r = "query-frontend" THEN {"tempo_grpc"} ELSE {})
WorkerPorts(r) ==
  {"memberlist", "tempo_http"}
    \cup (IF r \in {"all", "distributor"} THEN requested ELSE {})
    \cup (IF r \in {"all", "query-frontend"} THEN {"tempo_grpc"} ELSE {})

-------------------------------------------------------------------------------
ClusterInit ==
  /\ changes = 0
  /\ role = [a \in Apps |-> "all"]
  /\ scale = [a \in Apps |-> 0]
  /\ requested = AlwaysOn
  /\ pending = FALSE
  /\ config = [frontend |-> Localhost, replication |-> 1]
  /\ ports = [r \in Roles |-> {}]
  /\ upstreams = {}

\* The deployments in which the queriers can reach every frontend: only one
\* application has frontends, or all frontends and queriers are in applications
\* with the role "all".
HasFrontend(a) == "query-frontend" \in Expand(role[a]) /\ scale[a] > 0
Uniform ==
  \/ \A a, b \in Apps : HasFrontend(a) /\ HasFrontend(b) => a = b
  \/ \A a \in Apps : scale[a] > 0 =>
       role[a] \notin {"query-frontend", "querier"}

\* A worker application is given a role, or scaled; a requirer changes what it
\* asks for.
ClusterChanges ==
  /\ changes < MaxChanges /\ changes' = changes + 1
  /\ pending' = TRUE
  /\ Mixed \/ Uniform'
  /\ UNCHANGED <<config, ports, upstreams>>
SetRole(a, r) ==
  /\ role' = [role EXCEPT ![a] = r]
  /\ UNCHANGED <<scale, requested>>
  /\ ClusterChanges
Scale(a, n) ==
  /\ scale' = [scale EXCEPT ![a] = n]
  /\ UNCHANGED <<role, requested>>
  /\ ClusterChanges
Request(ps) ==
  /\ requested' = AlwaysOn \cup ps
  /\ UNCHANGED <<role, scale>>
  /\ ClusterChanges

\* The coordinator handles an event: with a coherent cluster it publishes to
\* the workers; nginx is configured whatever the cluster is like.
CoordinatorHook ==
  /\ pending
  /\ pending' = FALSE
  /\ upstreams' = Upstreams
  /\ IF Coherent
     THEN /\ config' = [frontend |-> FrontendAddress,
                        replication |-> ReplicationFactor]
          /\ ports' = [r \in Roles |-> WorkerPorts(r)]
     ELSE UNCHANGED <<config, ports>>
  /\ UNCHANGED <<changes, role, scale, requested>>

ClusterNext ==
  \/ \E a \in Apps : \/ \E r \in Roles : SetRole(a, r)
                     \/ \E n \in 0..MaxUnits : Scale(a, n)
  \/ \E ps \in SUBSET Protocols : Request(ps)
  \/ CoordinatorHook

ClusterSpec == ClusterInit /\ [][ClusterNext]_clusterVars

-------------------------------------------------------------------------------
(* Properties *)

\* The values of the variables: nginx forwards to the components, never to a
\* meta-role, whose address list coordinated_workers does not hand out.
ClusterTypeOK ==
  /\ changes \in Nat
  /\ role \in [Apps -> Roles] /\ scale \in [Apps -> 0..MaxUnits]
  /\ requested \subseteq Protocols /\ pending \in BOOLEAN
  /\ config \in [frontend : Apps \cup {Localhost}, replication : {1, 3}]
  /\ ports \in [Roles -> SUBSET Ports]
  /\ upstreams \subseteq Upstream

LaidOut == ~pending /\ Coherent

\* The frontends the querier at an address connects to: its own host's, or all
\* those the service resolves to.
Reaches(querier) ==
  Addresses("query-frontend") \cap
    IF config.frontend = Localhost THEN {querier}
                                   ELSE {config.frontend} \X (1..MaxUnits)

\* No query frontend is left without any querier connection, or the queries
\* nginx forwards to it wait for ever ("to avoid all queriers connecting to a
\* single instance and leaving the others without any querier connections",
\* tempo.py, _build_querier_config).
FrontendsServed ==
  LaidOut =>
    Addresses("query-frontend") = UNION {Reaches(q) : q \in Addresses("querier")}

\* Nor is a querier left without a frontend.
QueriersBusy ==
  LaidOut => \A q \in Addresses("querier") : Reaches(q) # {}

\* A query that any frontend takes in finds a querier, and the other way round.
QueriesFlow == FrontendsServed /\ QueriersBusy

\* Tempo can place every replica, and with three ingesters or more a quorum of
\* the replicas is left when any one ingester is down (_build_ingester_config).
ReplicasPlaced ==
  LaidOut =>
    LET n == Cardinality(Addresses("ingester"))
        quorum == config.replication \div 2 + 1
    IN /\ config.replication <= n
       /\ n >= 3 => quorum <= config.replication - 1

\* Every port nginx forwards to is one that every worker behind it was told to
\* open, whichever of a role and its meta-role the worker has.
ForwardedIsOpen ==
  LaidOut => \A up \in upstreams : \A addr \in Addresses(up.role) :
               up.port \in ports[role[addr[1]]]
===============================================================================
