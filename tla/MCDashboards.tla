----------------------------- MODULE MCDashboards -----------------------------
(***************************************************************************)
(* An instance of Dashboards of its own: two versions of one dashboard.    *)
(***************************************************************************)
EXTENDS Dashboards

TwoVersions == {{[uid |-> "a", version |-> v, state |-> "good"]} : v \in {1, 2}}
===============================================================================
