---------------------------- MODULE MCTempoCluster ----------------------------
(***************************************************************************)
(* Small instances of TempoCluster. The changes start from one of the two  *)
(* usual deployments that need five applications at most: a monolithic one *)
(* and a distributed one with a role to each application.                  *)
(***************************************************************************)
EXTENDS TempoCluster

\* Every application of a deployment below has a unit at least.
ASSUME DeployedAssumption == MaxUnits >= 1

Monolithic == [a \in Apps |-> "all"]
Distributed ==
  [a \in Apps |-> CASE a = 1 -> "querier" [] a = 2 -> "ingester"
                    [] a = 3 -> "query-frontend" [] a = 4 -> "distributor"
                    [] OTHER -> "compactor"]

DeployedInit ==
  /\ changes = 0
  /\ \/ role = Monolithic /\ scale = [a \in Apps |-> IF a <= 2 THEN 1 ELSE 0]
     \/ role = Distributed /\ scale = [a \in Apps |-> 1]
  /\ requested = AlwaysOn
  /\ pending = TRUE
  /\ config = [frontend |-> Localhost, replication |-> 1]
  /\ ports = [r \in Roles |-> {}]
  /\ upstreams = {}

DeployedSpec == DeployedInit /\ [][ClusterNext]_clusterVars
===============================================================================
