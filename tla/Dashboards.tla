------------------------------- MODULE Dashboards -------------------------------
(***************************************************************************)
(* The grafana_dashboard interface (grafana_dashboard.py). The leader of a *)
(* charm publishes the dashboards it ships; every unit keeps them, to have *)
(* them when it becomes leader. The leader of Grafana renders what each    *)
(* relation publishes into the peer databag, and every unit of Grafana     *)
(* shows, of the dashboards with one uid, one of the highest version.      *)
(*                                                                         *)
(* Two charms ship a dashboard of one uid when one forwards those of the   *)
(* other. The leadership of Grafana changes only when its leader has       *)
(* handled its events: a follower ignores them, and no event repeats them. *)
(***************************************************************************)
EXTENDS Integers, FiniteSets

CONSTANTS GdRelations,   \* relations, numbered as their ids compare: as texts
          GdUnits,       \* the units of each charm with dashboards
          GdGrafanas,    \* the units of Grafana
          GdRevisions,   \* sets of dashboards, each [uid, version, state]
          MaxGdChanges

ASSUME GdAssumption ==
  /\ GdRelations \subseteq Nat /\ IsFiniteSet(GdRelations) /\ MaxGdChanges \in Nat
  /\ \A rev \in GdRevisions :
       /\ IsFiniteSet(rev)
       /\ \A d \in rev :
            /\ d = [uid |-> d.uid, version |-> d.version, state |-> d.state]
            /\ d.version \in Int
            \* Content that does not decompress, or that is no JSON when it does.
            /\ d.state \in {"good", "garbled", "not JSON"}

VARIABLES
  gdRelated,    \* the relations there are
  gdShips,      \* relation -> what the charm ships
  gdStored,     \* relation -> unit -> dashboard_templates
  gdLeads,      \* relation -> the unit that leads
  gdBag,        \* relation -> {the templates it publishes}, {} before it does
  gdErrors,     \* relations for which Grafana reports errors
  gdTold,       \* relations whose charm was told so, by an event of its leader
  gdUntold,     \* those whose leader had the news to come when a unit was elected
                \* that had ignored it as a follower
  gdPeer,       \* relation -> rendered dashboards in Grafana's peer databag
  gdMain,       \* Grafana's leader
  gdShown,      \* unit of Grafana -> <<relation, dashboard>> that it shows
  gdMissed,     \* those elected while they had a peer event to come, which they
                \* ignored, with no dashboards_changed since
  gdRefresh,    \* <<relation, unit>> with upgrade or leader-elected to come
  gdCreated,    \* <<relation, unit>> with relation-created to come
  gdHeard,      \* relations of which Grafana's leader has relation-changed
  gdBroken,     \* ... relation-broken
  gdPeerHeard,  \* followers with an event of the peer relation
  gdAnswered,   \* <<relation, unit>> with relation-changed of what Grafana reports
  gdChanges

gdProviders == <<gdRelated, gdShips, gdStored, gdLeads, gdBag, gdTold, gdUntold>>
gdConsumer == <<gdErrors, gdPeer, gdMain, gdShown, gdMissed>>
gdQueues == <<gdRefresh, gdCreated, gdHeard, gdBroken, gdPeerHeard, gdAnswered>>
gdVars == <<gdProviders, gdConsumer, gdQueues, gdChanges>>

-------------------------------------------------------------------------------
(* GrafanaDashboardProvider *)

\* load_dashboards_from_dir: what is not JSON is left out.
LoadedFromDir(r) == {d \in gdShips[r] : d.state # "not JSON"}

\* The templates in the databag: none before it is written.
Templates(r) == UNION gdBag[r]

\* _upset_dashboards_on_relation, only if the templates differ.
UpsetOnRelation(r, u, leader) ==
  IF r \in gdRelated /\ leader /\ Templates(r) # gdStored'[r][u]
  THEN gdBag' = [gdBag EXCEPT ![r] = {gdStored'[r][u]}] /\ gdHeard' = gdHeard \cup {r}
  ELSE UNCHANGED <<gdBag, gdHeard>>

\* _update_all_dashboards_from_dir. Slip: dashboards that are not shipped any
\* more are kept.
UpdateFromDir_Kept(r, u) ==
  gdStored' = [gdStored EXCEPT ![r][u] = @ \cup LoadedFromDir(r)]
UpdateFromDir(r, u) == gdStored' = [gdStored EXCEPT ![r][u] = LoadedFromDir(r)]

ProviderRefresh(r, u) ==
  /\ <<r, u>> \in gdRefresh
  /\ gdRefresh' = gdRefresh \ {<<r, u>>}
  /\ UpdateFromDir(r, u)
  /\ UpsetOnRelation(r, u, gdLeads[r] = u)
  /\ UNCHANGED <<gdRelated, gdShips, gdLeads, gdTold, gdUntold, gdConsumer, gdCreated, gdBroken,
                 gdPeerHeard, gdAnswered, gdChanges>>

\* relation_created: nothing on a follower.
ProviderCreated(r, u) ==
  /\ <<r, u>> \in gdCreated
  /\ gdCreated' = gdCreated \ {<<r, u>>}
  /\ IF gdLeads[r] = u THEN UpdateFromDir(r, u) ELSE UNCHANGED gdStored
  /\ UpsetOnRelation(r, u, gdLeads[r] = u)
  /\ UNCHANGED <<gdRelated, gdShips, gdLeads, gdTold, gdUntold, gdConsumer, gdRefresh, gdBroken,
                 gdPeerHeard, gdAnswered, gdChanges>>

\* relation_changed: dashboard_status_changed, if Grafana wrote an event; nothing
\* on a follower.
ProviderChanged(r, u) ==
  /\ <<r, u>> \in gdAnswered
  /\ gdAnswered' = gdAnswered \ {<<r, u>>}
  /\ gdTold' = IF gdLeads[r] = u THEN gdTold \cup ({r} \cap gdErrors) ELSE gdTold
  /\ UNCHANGED <<gdRelated, gdShips, gdStored, gdLeads, gdBag, gdUntold, gdConsumer, gdRefresh,
                 gdCreated, gdHeard, gdBroken, gdPeerHeard, gdChanges>>

-------------------------------------------------------------------------------
(* GrafanaDashboardConsumer *)

\* dashboards: one for each uid, the greatest by (version, relation id).
Deduplicated(peer) ==
  LET all == UNION {{r} \X peer[r] : r \in GdRelations} IN
  {x \in all : \A y \in all :
     y[2].uid = x[2].uid =>
       \/ y[2].version < x[2].version
       \/ y[2].version = x[2].version /\ y[1] <= x[1]}

\* The peer databag is written and dashboards_changed emitted: now on the leader,
\* and on the others when they hear of it.
SetPeerData(peer) ==
  /\ gdPeer' = peer
  /\ gdShown' = [gdShown EXCEPT ![gdMain] = Deduplicated(peer)]
  /\ gdMissed' = gdMissed \ {gdMain}
  /\ gdPeerHeard' = IF peer # gdPeer THEN gdPeerHeard \cup (GdGrafanas \ {gdMain}) ELSE gdPeerHeard

\* _render_dashboards_and_signal_changed: one that does not decompress takes the
\* others of its relation with it.
Garbled(r) == \E d \in Templates(r) : d.state = "garbled"
Rendered(r) == IF Garbled(r) THEN {} ELSE Templates(r)

\* Nothing is to be done without data, or for what is stored already; an empty
\* list is never found stored.
NothingToRender(r) == gdBag[r] = {} \/ (Rendered(r) = gdPeer[r] /\ gdPeer[r] # {})

\* The event that tells of it.
ReportErrors(r) ==
  IF Garbled(r)
  THEN /\ gdErrors' = gdErrors \cup {r}
       /\ gdAnswered' = IF r \in gdErrors THEN gdAnswered
                        ELSE gdAnswered \cup ({r} \X GdUnits)
  ELSE UNCHANGED <<gdErrors, gdAnswered>>

DashboardsChanged(r) ==
  /\ r \in gdHeard
  /\ gdHeard' = gdHeard \ {r}
  /\ IF NothingToRender(r)
     THEN UNCHANGED <<gdPeer, gdShown, gdMissed, gdPeerHeard, gdErrors, gdAnswered>>
     ELSE /\ SetPeerData([gdPeer EXCEPT ![r] = Rendered(r)])
          /\ ReportErrors(r)
  /\ UNCHANGED <<gdProviders, gdMain, gdRefresh, gdCreated, gdBroken, gdChanges>>

\* relation_broken: _remove_all_dashboards_for_relation.
DashboardsBroken(r) ==
  /\ r \in gdBroken
  /\ gdBroken' = gdBroken \ {r}
  /\ IF gdPeer[r] = {} THEN UNCHANGED <<gdPeer, gdShown, gdMissed, gdPeerHeard>>
     ELSE SetPeerData([gdPeer EXCEPT ![r] = {}])
  /\ UNCHANGED <<gdProviders, gdErrors, gdMain, gdRefresh, gdCreated, gdHeard, gdAnswered,
                 gdChanges>>

\* _on_grafana_peer_changed: dashboards_changed, but not on the leader: it takes
\* what changed for its own doing, were it done before it was elected or not.
PeerChanged(g) ==
  IF g = gdMain THEN UNCHANGED <<gdShown, gdMissed>>
  ELSE /\ gdShown' = [gdShown EXCEPT ![g] = Deduplicated(gdPeer)]
       /\ gdMissed' = gdMissed \ {g}

GrafanaPeerChanged(g) ==
  /\ g \in gdPeerHeard
  /\ gdPeerHeard' = gdPeerHeard \ {g}
  /\ PeerChanged(g)
  /\ UNCHANGED <<gdProviders, gdErrors, gdPeer, gdMain, gdRefresh, gdCreated, gdHeard, gdBroken,
                 gdAnswered, gdChanges>>

-------------------------------------------------------------------------------
(* Juju *)

GdChange == gdChanges < MaxGdChanges /\ gdChanges' = gdChanges + 1

RelateGrafana(r) ==
  /\ GdChange
  /\ r \notin gdRelated /\ r \notin gdBroken
  /\ gdRelated' = gdRelated \cup {r}
  /\ gdCreated' = gdCreated \cup ({r} \X GdUnits)
  /\ gdHeard' = gdHeard \cup {r}
  /\ UNCHANGED <<gdShips, gdStored, gdLeads, gdBag, gdTold, gdUntold, gdConsumer, gdRefresh,
                 gdBroken, gdPeerHeard, gdAnswered>>
RemoveGrafana(r) ==
  /\ GdChange
  /\ r \in gdRelated
  /\ gdRelated' = gdRelated \ {r}
  /\ gdBag' = [gdBag EXCEPT ![r] = {}]
  /\ gdErrors' = gdErrors \ {r} /\ gdTold' = gdTold \ {r} /\ gdUntold' = gdUntold \ {r}
  /\ gdCreated' = gdCreated \ ({r} \X GdUnits)
  /\ gdHeard' = gdHeard \ {r} /\ gdAnswered' = gdAnswered \ ({r} \X GdUnits)
  /\ gdBroken' = gdBroken \cup {r}
  /\ UNCHANGED <<gdShips, gdStored, gdLeads, gdPeer, gdMain, gdShown, gdMissed, gdRefresh,
                 gdPeerHeard>>
\* Juju upgrades all units; each has its own upgrade_charm.
UpgradeProvider(r, revision) ==
  /\ GdChange
  /\ gdShips[r] # revision
  /\ gdShips' = [gdShips EXCEPT ![r] = revision]
  /\ gdRefresh' = gdRefresh \cup ({r} \X GdUnits)
  /\ UNCHANGED <<gdRelated, gdStored, gdLeads, gdBag, gdTold, gdUntold, gdConsumer, gdCreated,
                 gdHeard, gdBroken, gdPeerHeard, gdAnswered>>
\* leader_elected is observed.
ElectedRefreshes(r, u) == gdRefresh \cup {<<r, u>>}

ElectProvider(r, u) ==
  /\ GdChange
  /\ gdLeads[r] # u
  /\ gdLeads' = [gdLeads EXCEPT ![r] = u]
  /\ gdRefresh' = ElectedRefreshes(r, u)
  /\ gdUntold' = IF <<r, gdLeads[r]>> \in gdAnswered /\ <<r, u>> \notin gdAnswered
                 THEN gdUntold \cup {r} ELSE gdUntold
  /\ UNCHANGED <<gdRelated, gdShips, gdStored, gdBag, gdTold, gdConsumer, gdCreated, gdHeard,
                 gdBroken, gdPeerHeard, gdAnswered>>
ElectGrafana(g) ==
  /\ GdChange
  /\ gdMain # g /\ gdHeard = {} /\ gdBroken = {}
  /\ gdMain' = g
  /\ gdMissed' = IF g \in gdPeerHeard THEN gdMissed \cup {g} ELSE gdMissed
  /\ UNCHANGED <<gdProviders, gdErrors, gdPeer, gdShown, gdQueues>>

GdInit ==
  /\ gdRelated = {} /\ gdErrors = {} /\ gdTold = {} /\ gdUntold = {} /\ gdChanges = 0
  /\ \E rev \in GdRevisions : gdShips = [r \in GdRelations |-> rev]
  /\ gdStored = [r \in GdRelations |-> [u \in GdUnits |-> LoadedFromDir(r)]]
  /\ \E u \in GdUnits : gdLeads = [r \in GdRelations |-> u]
  /\ \E g \in GdGrafanas : gdMain = g
  /\ gdBag = [r \in GdRelations |-> {}]
  /\ gdPeer = [r \in GdRelations |-> {}]
  /\ gdShown = [g \in GdGrafanas |-> {}] /\ gdMissed = {}
  /\ gdRefresh = {} /\ gdCreated = {} /\ gdHeard = {} /\ gdBroken = {}
  /\ gdPeerHeard = {} /\ gdAnswered = {}

GdNext ==
  \/ \E r \in GdRelations :
       \/ RelateGrafana(r) \/ RemoveGrafana(r)
       \/ DashboardsChanged(r) \/ DashboardsBroken(r)
       \/ \E revision \in GdRevisions : UpgradeProvider(r, revision)
       \/ \E u \in GdUnits : \/ ProviderRefresh(r, u) \/ ProviderCreated(r, u)
                            \/ ProviderChanged(r, u) \/ ElectProvider(r, u)
  \/ \E g \in GdGrafanas : GrafanaPeerChanged(g) \/ ElectGrafana(g)

GdSpec == GdInit /\ [][GdNext]_gdVars

-------------------------------------------------------------------------------
(* Properties *)

\* What the charms have on disk: what loads of what they ship.
Board == {d \in UNION GdRevisions : d.state # "not JSON"}
Boards == {S \in SUBSET Board : IsFiniteSet(S)}

GdDataOK ==
  /\ gdRelated \subseteq GdRelations /\ gdMain \in GdGrafanas
  /\ gdShips \in [GdRelations -> GdRevisions]
  /\ gdStored \in [GdRelations -> [GdUnits -> Boards]]
  /\ gdLeads \in [GdRelations -> GdUnits]
  /\ gdBag \in [GdRelations -> SUBSET Boards]
  /\ gdPeer \in [GdRelations -> Boards]
  /\ gdShown \in [GdGrafanas -> SUBSET (GdRelations \X Board)]

GdQueuesOK ==
  /\ gdErrors \subseteq gdRelated /\ gdTold \subseteq gdRelated
  /\ gdUntold \subseteq GdRelations
  /\ gdMissed \subseteq GdGrafanas /\ gdPeerHeard \subseteq GdGrafanas
  /\ gdRefresh \subseteq GdRelations \X GdUnits
  /\ gdCreated \subseteq gdRelated \X GdUnits /\ gdAnswered \subseteq gdRelated \X GdUnits
  /\ gdHeard \subseteq gdRelated /\ gdBroken \subseteq GdRelations \ gdRelated
  /\ gdChanges \in 0..MaxGdChanges

\* The values of the variables; what is queued is of relations there are, but for
\* relation-broken.
GdTypeOK == GdDataOK /\ GdQueuesOK

GdHandled == gdRefresh = {} /\ gdCreated = {} /\ gdHeard = {} /\ gdBroken = {}

\* What Grafana is to have of a relation.
Wanted(r) ==
  IF r \notin gdRelated \/ (\E d \in gdShips[r] : d.state = "garbled") THEN {}
  ELSE {d \in gdShips[r] : d.state = "good"}

\* When all events are handled, every unit of Grafana shows every dashboard that
\* a related charm ships now, each uid once and in its highest version, and none
\* of a relation that is gone or that Grafana could not read; but for a unit that
\* was elected before it had heard of the last change.
ShownCurrent ==
  GdHandled =>
    \A g \in GdGrafanas \ (gdPeerHeard \cup gdMissed) :
      LET shown == {x[2] : x \in gdShown[g]}
          wanted == UNION {Wanted(r) : r \in gdRelated}
      IN /\ \A x, y \in gdShown[g] : x[2].uid = y[2].uid => x = y
         /\ \A x \in gdShown[g] : x[2] \in Wanted(x[1])
         /\ \A d \in wanted : \E s \in shown : s.uid = d.uid /\ s.version >= d.version

\* A charm whose dashboards Grafana does not show is told so, unless its leader
\* changed between: the new one had ignored the news as a follower, and the old one
\* is a follower when it gets it.
UnreadableTold ==
  GdHandled /\ gdAnswered = {} =>
    \A r \in gdRelated \ gdUntold : (\E d \in gdShips[r] : d.state = "garbled") => r \in gdTold

\* A dashboard is shown, or its charm knows why not.
DashboardsShown == ShownCurrent /\ UnreadableTold

\* What the docstring of _on_grafana_peer_changed says of peer events: that
\* secondary charm data updates. Every unit that was secondary when the databag
\* changed shows what is in it once its event is handled.
SecondariesUpdate ==
  GdHandled /\ gdPeerHeard = {} => \A g \in GdGrafanas : gdShown[g] = Deduplicated(gdPeer)
===============================================================================
