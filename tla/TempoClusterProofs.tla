-------------------------- MODULE TempoClusterProofs --------------------------
(***************************************************************************)
(* Proofs about TempoCluster, for any number of worker applications, units *)
(* of theirs and changes to the deployment.                                *)
(***************************************************************************)
EXTENDS TempoCluster, TLAPS, FiniteSetTheorems, WellFoundedInduction

USE ClusterAssumption

-------------------------------------------------------------------------------
(* The addresses *)

\* The least number of a set of numbers exists: what CHOOSE chooses in FirstApp.
LEMMA LeastExists ==
  ASSUME NEW S \in SUBSET Nat, S # {}
  PROVE  \E a \in S : \A b \in S : a <= b
<1>1. IsWellFoundedOn(OpToRel(<, Nat), Nat)
  BY NatLessThanWellFounded
<1>2. PICK a \in S : \A b \in S : ~ (<<b, a>> \in OpToRel(<, Nat))
  <2> DEFINE R == OpToRel(<, Nat)
  <2> HIDE DEF R
  <2>1. IsWellFoundedOn(R, Nat)
    BY <1>1 DEF R
  <2>2. \E x \in S : \A y \in S : ~ (<<y, x>> \in R)
    BY <2>1, WFMin
  <2>3. QED
    BY <2>2 DEF R
<1>3. \A b \in S : ~ (b < a)
  BY <1>2 DEF OpToRel
<1>4. QED
  BY <1>3

LEMMA AddressesFinite ==
  ASSUME NEW r
  PROVE  IsFiniteSet(Addresses(r))
<1>1. IsFiniteSet(1..MaxUnits)
  BY FS_Interval
<1>2. IsFiniteSet(Apps \X (1..MaxUnits))
  BY <1>1, FS_Product
<1>3. Addresses(r) \subseteq Apps \X (1..MaxUnits)
  BY DEF Addresses
<1>4. QED
  BY <1>2, <1>3, FS_Subset

\* FirstApp is the application of one of the addresses.
LEMMA FirstAppChooses ==
  ASSUME NEW r, Addresses(r) # {}
  PROVE  \E addr \in Addresses(r) : FirstApp(Addresses(r)) = addr[1]
<1> DEFINE apps == {addr[1] : addr \in Addresses(r)}
<1>1. apps \subseteq Nat /\ apps # {}
  BY DEF Addresses
<1>2. \E a \in apps : \A b \in apps : a <= b
  <2> HIDE DEF apps
  <2> QED
    BY <1>1, LeastExists
<1>3. FirstApp(Addresses(r)) \in apps
  BY <1>2 DEF FirstApp
<1>4. QED
  BY <1>3

-------------------------------------------------------------------------------
(* The invariant *)

\* What is laid out is what a hook of the coordinator would lay out again.
LaidOutIsCurrent ==
  LaidOut =>
    /\ config = [frontend |-> FrontendAddress, replication |-> ReplicationFactor]
    /\ ports = [r \in Roles |-> WorkerPorts(r)]
    /\ upstreams = Upstreams

\* What ClusterChanges keeps to.
MixedOrUniform == Mixed \/ Uniform

ClusterInv == ClusterTypeOK /\ LaidOutIsCurrent /\ MixedOrUniform

LEMMA InitCluster == ClusterInit => ClusterInv
<1> SUFFICES ASSUME ClusterInit PROVE ClusterInv
  OBVIOUS
<1> USE DEF ClusterInit
<1>1. ClusterTypeOK
  <2>1. config \in [frontend : Apps \cup {Localhost}, replication : {1, 3}]
    OBVIOUS
  <2>2. role \in [Apps -> Roles] /\ scale \in [Apps -> 0..MaxUnits]
    BY DEF Roles
  <2>3. QED
    BY <2>1, <2>2 DEF ClusterTypeOK
<1>2. Addresses("querier") = {} /\ "querier" \in MinimalDeployment
  BY DEF Addresses, MinimalDeployment, Components
<1>3. LaidOutIsCurrent
  BY <1>2 DEF LaidOutIsCurrent, LaidOut, Coherent
<1>4. MixedOrUniform
  BY DEF MixedOrUniform, Uniform, HasFrontend
<1>5. QED
  BY <1>1, <1>3, <1>4 DEF ClusterInv

\* The values a hook computes.
LEMMA LaidOutTypes ==
  ASSUME ClusterTypeOK
  PROVE  /\ FrontendAddress \in Apps \cup {Localhost}
         /\ ReplicationFactor \in {1, 3}
         /\ \A r \in Roles : WorkerPorts(r) \subseteq Ports
         /\ Upstreams \subseteq Upstream
<1>1. FrontendAddress \in Apps \cup {Localhost}
  <2>1. CASE Addresses("query-frontend") = {}
    BY <2>1 DEF FrontendAddress
  <2>2. CASE Addresses("query-frontend") # {}
    <3>1. FirstApp(Addresses("query-frontend")) \in Apps
      BY <2>2, FirstAppChooses DEF Addresses
    <3>2. QED
      BY <3>1 DEF FrontendAddress
  <2>3. QED
    BY <2>1, <2>2
<1>2. ReplicationFactor \in {1, 3}
  BY DEF ReplicationFactor
<1>3. \A r \in Roles : WorkerPorts(r) \subseteq Ports
  BY DEF ClusterTypeOK, WorkerPorts, Ports, ServerPorts
<1>4. Upstreams \subseteq Upstream
  BY DEF ClusterTypeOK, Upstreams, Upstream, ServerPorts, Components
<1>5. QED
  BY <1>1, <1>2, <1>3, <1>4

LEMMA ChangesCluster ==
  ASSUME ClusterInv,
         \/ \E a \in Apps : \/ \E r \in Roles : SetRole(a, r)
                            \/ \E n \in 0..MaxUnits : Scale(a, n)
         \/ \E ps \in SUBSET Protocols : Request(ps)
  PROVE  ClusterInv'
<1> USE DEF ClusterInv, ClusterTypeOK
<1>1. ClusterChanges
  BY DEF SetRole, Scale, Request
<1>2. LaidOutIsCurrent'
  BY <1>1 DEF ClusterChanges, LaidOutIsCurrent, LaidOut
<1>3. role' \in [Apps -> Roles] /\ scale' \in [Apps -> 0..MaxUnits]
      /\ requested' \subseteq Protocols
  BY DEF SetRole, Scale, Request
<1>4. ClusterTypeOK'
  BY <1>1, <1>3 DEF ClusterChanges
<1>5. QED
  BY <1>1, <1>2, <1>4 DEF ClusterChanges, MixedOrUniform

LEMMA HookCluster ==
  ASSUME ClusterInv, CoordinatorHook
  PROVE  ClusterInv'
<1> USE DEF ClusterInv
<1>1. UNCHANGED <<changes, role, scale, requested>> /\ pending' = FALSE
  BY DEF CoordinatorHook
<1>2. \A r : Addresses(r)' = Addresses(r)
  BY <1>1 DEF Addresses, Expand
<1>3. /\ Coherent' = Coherent /\ FrontendAddress' = FrontendAddress
      /\ ReplicationFactor' = ReplicationFactor /\ Upstreams' = Upstreams
      /\ \A r : WorkerPorts(r)' = WorkerPorts(r)
  BY <1>1, <1>2 DEF Coherent, FrontendAddress, ReplicationFactor, Upstreams, WorkerPorts
<1>4. ClusterTypeOK'
  <2>1. CASE Coherent
    <3>1. config' \in [frontend : Apps \cup {Localhost}, replication : {1, 3}]
      BY <2>1, LaidOutTypes DEF CoordinatorHook
    <3>2. ports' \in [Roles -> SUBSET Ports] /\ upstreams' \subseteq Upstream
      BY <2>1, LaidOutTypes DEF CoordinatorHook
    <3>3. QED
      BY <1>1, <3>1, <3>2 DEF ClusterTypeOK
  <2>2. CASE ~Coherent
    BY <1>1, <2>2, LaidOutTypes DEF ClusterTypeOK, CoordinatorHook
  <2>3. QED
    BY <2>1, <2>2
<1>5. LaidOutIsCurrent'
  BY <1>3 DEF LaidOutIsCurrent, LaidOut, CoordinatorHook
<1>6. MixedOrUniform'
  BY <1>1 DEF MixedOrUniform, Uniform, HasFrontend, Expand
<1>7. QED
  BY <1>4, <1>5, <1>6

LEMMA NextCluster == ClusterInv /\ [ClusterNext]_clusterVars => ClusterInv'
<1> SUFFICES ASSUME ClusterInv, [ClusterNext]_clusterVars PROVE ClusterInv'
  OBVIOUS
<1>1. CASE UNCHANGED clusterVars
  BY <1>1 DEF clusterVars, ClusterInv, ClusterTypeOK, LaidOutIsCurrent, LaidOut, Coherent,
              Addresses, FrontendAddress, ReplicationFactor, WorkerPorts, Upstreams,
              MixedOrUniform, Uniform, HasFrontend
<1>2. CASE CoordinatorHook
  BY <1>2, HookCluster
<1>3. CASE ClusterNext /\ ~CoordinatorHook
  BY <1>3, ChangesCluster DEF ClusterNext
<1>4. QED
  BY <1>1, <1>2, <1>3

LEMMA ClusterInvariant == ClusterSpec => []ClusterInv
BY InitCluster, NextCluster, PTL DEF ClusterSpec

-------------------------------------------------------------------------------
(* What follows from it *)

LEMMA CoherentRoles ==
  ASSUME Coherent
  PROVE  /\ Addresses("query-frontend") # {} /\ Addresses("querier") # {}
         /\ Addresses("ingester") # {}
BY DEF Coherent, MinimalDeployment, Components

LEMMA ReplicasFollow == ClusterInv => ReplicasPlaced
<1> SUFFICES ASSUME ClusterInv, LaidOut PROVE ReplicasPlaced
  BY DEF ReplicasPlaced
<1> DEFINE n == Cardinality(Addresses("ingester"))
<1>1. n \in Nat /\ n # 0
  BY CoherentRoles, AddressesFinite, FS_CardinalityType, FS_EmptySet DEF LaidOut
<1>2. config.replication = IF n >= 3 THEN 3 ELSE 1
  BY DEF ClusterInv, LaidOutIsCurrent, ReplicationFactor
<1>3. CASE n >= 3
  BY <1>1, <1>2, <1>3 DEF ReplicasPlaced
<1>4. CASE ~(n >= 3)
  BY <1>1, <1>2, <1>4 DEF ReplicasPlaced
<1>5. QED
  BY <1>3, <1>4

LEMMA PortsFollow == ClusterInv => ForwardedIsOpen
<1> SUFFICES ASSUME ClusterInv, LaidOut,
                    NEW up \in upstreams, NEW addr \in Addresses(up.role)
             PROVE  up.port \in ports[role[addr[1]]]
  BY DEF ForwardedIsOpen
<1>1. up \in Upstreams
  BY DEF ClusterInv, LaidOutIsCurrent
<1>2. role[addr[1]] \in Roles /\ up.role \in Expand(role[addr[1]])
  BY DEF Addresses, ClusterInv, ClusterTypeOK
<1>3. role[addr[1]] \in {"all", up.role}
  BY <1>2 DEF Expand
<1>4. ports[role[addr[1]]] = WorkerPorts(role[addr[1]])
  BY <1>2 DEF ClusterInv, LaidOutIsCurrent
<1>5. \/ up.role = "distributor" /\ up.port \in requested
      \/ up.role = "query-frontend" /\ up.port \in ServerPorts
  BY <1>1 DEF Upstreams
<1>6. QED
  BY <1>3, <1>4, <1>5 DEF WorkerPorts, ServerPorts

\* The frontends that a querier reaches: its own host's if each querier is to
\* use its own, else those of the one application that has any.
LEMMA QueriesFollow == ClusterInv /\ Uniform => QueriesFlow
<1> DEFINE frontends == Addresses("query-frontend")
           queriers == Addresses("querier")
<1> SUFFICES ASSUME ClusterInv, Uniform, LaidOut
             PROVE  /\ frontends = UNION {Reaches(q) : q \in queriers}
                    /\ \A q \in queriers : Reaches(q) # {}
  BY DEF QueriesFlow, FrontendsServed, QueriersBusy
<1>1. frontends # {} /\ queriers # {} /\ Localhost \notin Apps
  BY CoherentRoles DEF LaidOut, Localhost
<1>2. config.frontend = IF queriers \subseteq frontends
                        THEN Localhost ELSE FirstApp(frontends)
  BY <1>1 DEF ClusterInv, LaidOutIsCurrent, FrontendAddress
<1>3. \A addr \in frontends \cup queriers :
        /\ addr \in Apps \X (1..MaxUnits) /\ addr[1] \in Apps
        /\ role[addr[1]] \in Roles /\ scale[addr[1]] > 0
        /\ addr = <<addr[1], addr[2]>>
  <2> SUFFICES ASSUME NEW addr \in frontends \cup queriers
               PROVE  /\ addr \in Apps \X (1..MaxUnits) /\ addr[1] \in Apps
                      /\ role[addr[1]] \in Roles /\ scale[addr[1]] > 0
                      /\ addr = <<addr[1], addr[2]>>
    OBVIOUS
  <2>1. addr \in Apps \X (1..MaxUnits) /\ addr[2] <= scale[addr[1]]
    BY DEF Addresses
  <2>2. addr[1] \in Apps /\ addr[2] \in Nat /\ addr[2] > 0 /\ addr = <<addr[1], addr[2]>>
    BY <2>1
  <2>3. role[addr[1]] \in Roles /\ scale[addr[1]] \in Nat
    BY <2>2 DEF ClusterInv, ClusterTypeOK
  <2>4. QED
    BY <2>1, <2>2, <2>3
<1>4. \A addr \in frontends : HasFrontend(addr[1])
  BY <1>3 DEF Addresses, HasFrontend
<1>5. CASE queriers \subseteq frontends
  <2>1. frontends \subseteq queriers
    <3>1. \A addr \in frontends : role[addr[1]] = "all"
      <4>1. CASE \A a \in Apps : scale[a] > 0 => role[a] \notin {"query-frontend", "querier"}
        BY <1>3, <4>1 DEF Addresses, Expand, Roles
      <4>2. CASE \A a, b \in Apps : HasFrontend(a) /\ HasFrontend(b) => a = b
        <5>1. PICK q \in queriers : q \in frontends
          BY <1>1, <1>5
        <5>2. role[q[1]] = "all"
          BY <5>1, <1>3 DEF Addresses, Expand
        <5>3. \A addr \in frontends : addr[1] = q[1]
          BY <1>3, <1>4, <4>2, <5>1
        <5>4. QED
          BY <5>2, <5>3
      <4>3. QED
        BY <4>1, <4>2 DEF Uniform
    <3>2. QED
      BY <3>1 DEF Addresses, Expand, Components
  <2>2. \A q \in queriers : Reaches(q) = {q}
    BY <1>2, <1>5 DEF Reaches
  <2>3. QED
    BY <1>5, <2>1, <2>2
<1>6. CASE ~(queriers \subseteq frontends)
  <2>1. \A a, b \in Apps : HasFrontend(a) /\ HasFrontend(b) => a = b
    <3>1. PICK q \in queriers : q \notin frontends
      BY <1>6
    <3>2. role[q[1]] = "querier"
      BY <3>1, <1>3 DEF Addresses, Expand, Components
    <3>3. QED
      BY <3>1, <3>2, <1>3 DEF Uniform
  <2>2. PICK f \in frontends : FirstApp(frontends) = f[1]
    BY <1>1, FirstAppChooses
  <2>3. \A addr \in frontends : addr \in {f[1]} \X (1..MaxUnits)
    BY <1>3, <1>4, <2>1
  <2>4. \A q \in queriers : Reaches(q) = frontends
    BY <1>1, <1>2, <1>3, <1>6, <2>2, <2>3 DEF Reaches
  <2>5. QED
    BY <1>1, <2>4
<1>7. QED
  BY <1>5, <1>6

-------------------------------------------------------------------------------
(* The theorems *)

\* The types of the cluster's state; nginx forwards to components only, and the
\* address of the frontend is localhost or a worker application (tempo.py,
\* nginx_config.py).
THEOREM ClusterTypes == ClusterSpec => []ClusterTypeOK
<1>1. ClusterInv => ClusterTypeOK
  BY DEF ClusterInv
<1>2. QED
  BY <1>1, ClusterInvariant, PTL

\* The replication factor never asks for more ingesters than there are, and with
\* three of them leaves a quorum when one is down (_build_ingester_config).
THEOREM ReplicasArePlaced == ClusterSpec => []ReplicasPlaced
BY ClusterInvariant, ReplicasFollow, PTL

\* What nginx forwards to is open on every worker behind it (_get_worker_ports
\* in charm.py, nginx_config.py), also on those with the meta-role.
THEOREM ForwardedPortsOpen == ClusterSpec => []ForwardedIsOpen
BY ClusterInvariant, PortsFollow, PTL

\* Whatever deployments came before, queries flow in the uniform ones: those the
\* address in _build_querier_config is right for.
THEOREM UniformQueriesFlow == ClusterSpec => [](Uniform => QueriesFlow)
<1>1. ClusterInv => (Uniform => QueriesFlow)
  BY QueriesFollow
<1>2. QED
  BY <1>1, ClusterInvariant, PTL

\* And so they always do where deployments are uniform throughout.
THEOREM QueriesAlwaysFlow == ~Mixed => (ClusterSpec => []QueriesFlow)
<1> SUFFICES ASSUME ~Mixed PROVE ClusterSpec => []QueriesFlow
  OBVIOUS
<1>1. ClusterInv => QueriesFlow
  BY QueriesFollow DEF ClusterInv, MixedOrUniform
<1>2. QED
  BY <1>1, ClusterInvariant, PTL
===============================================================================
