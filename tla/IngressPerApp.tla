----------------------------- MODULE IngressPerApp -----------------------------
(***************************************************************************)
(* The ingress interface (traefik_k8s/v2/ingress.py): the units of an      *)
(* application that asks for ingress, and the provider's leader, which     *)
(* serves it one URL once all the application's units have said where they *)
(* are. Units come, go and lead; the URL changes or is withdrawn.          *)
(***************************************************************************)
EXTENDS Naturals

CONSTANTS IngressUnits,       \* the units the application may have
          IngressUrls,        \* the URLs it may be served at
          NoUrl,              \* and none
          NoLeader,           \* no unit leads
          MaxIngressChanges   \* bounds the checking

ASSUME IngressAssumption ==
  NoUrl \notin IngressUrls /\ NoLeader \notin IngressUnits /\ MaxIngressChanges \in Nat

VARIABLES
  ingRelated,   \* is there a relation
  ingUnits,     \* the units there are
  ingLeader,    \* the one that leads
  ingElected,   \* has it an event for that
  ingApp,       \* is the application's data in its databag
  ingHosts,     \* the units with their host in theirs
  ingUrl,       \* the URL in the provider's databag
  ingProxied,   \* what data_provided last told the provider's charm: units
  ingStored,    \* unit -> current_url, kept across hooks
  ingTold,      \* unit -> what ready or revoked last told its charm
  ingEvents,    \* units with an event of the relation
  ingRevoked,   \* units whose relation was broken
  ingProvider,  \* the provider's event: "none", "changed" or "broken"
  ingChanges

ingDeployment == <<ingRelated, ingUnits, ingLeader, ingElected>>
ingPublished == <<ingApp, ingHosts, ingUrl>>
ingKnown == <<ingStored, ingTold>>
ingQueues == <<ingEvents, ingRevoked, ingProvider>>
ingressVars == <<ingDeployment, ingPublished, ingProxied, ingKnown, ingQueues, ingChanges>>

LeadsIngress(u) == ingLeader = u

-------------------------------------------------------------------------------
(* The requirer *)

\* _provide_ingress_requirements: the leader for the application, each unit for
\* itself. The provider has an event if that is news.
PublishAutoData(u) ==
  /\ ingApp' = (ingApp \/ (ingRelated /\ LeadsIngress(u)))
  /\ ingHosts' = IF ingRelated THEN ingHosts \cup {u} ELSE ingHosts
  /\ ingProvider' = IF ingApp' # ingApp \/ ingHosts' # ingHosts
                    THEN "changed" ELSE ingProvider

RequirerIsReady == ingUrl # NoUrl

\* relation_changed and relation_departed. Only a new URL is announced.
IngressHandleRelation(u) ==
  /\ u \in ingEvents
  /\ ingEvents' = ingEvents \ {u}
  /\ PublishAutoData(u)
  /\ IF RequirerIsReady /\ ingStored[u] # ingUrl
     THEN /\ ingStored' = [ingStored EXCEPT ![u] = ingUrl]
          /\ ingTold' = [ingTold EXCEPT ![u] = ingUrl]
     ELSE UNCHANGED ingKnown
  /\ UNCHANGED <<ingDeployment, ingUrl, ingProxied, ingRevoked, ingChanges>>

\* Slip: current_url is left as it was.
Forgotten_Kept(u) == ingStored[u]
Forgotten(u) == NoUrl

IngressBroken(u) ==
  /\ u \in ingRevoked
  /\ ingRevoked' = ingRevoked \ {u}
  /\ ingStored' = [ingStored EXCEPT ![u] = Forgotten(u)]
  /\ ingTold' = [ingTold EXCEPT ![u] = NoUrl]
  /\ UNCHANGED <<ingDeployment, ingPublished, ingProxied, ingEvents, ingProvider,
                 ingChanges>>

\* Slip: leader_elected is not observed.
UpgradeOrLeader_Unheard(u) == UNCHANGED <<ingApp, ingHosts, ingProvider>>
UpgradeOrLeader(u) == PublishAutoData(u)

IngressElected(u) ==
  /\ ingElected /\ LeadsIngress(u)
  /\ ingElected' = FALSE
  /\ UpgradeOrLeader(u)
  /\ UNCHANGED <<ingRelated, ingUnits, ingLeader, ingUrl, ingProxied, ingKnown,
                 ingEvents, ingRevoked, ingChanges>>

-------------------------------------------------------------------------------
(* The provider's leader *)

\* Valid data of the application and of all its units; a unit without any makes
\* the whole unready.
ProviderIsReady == ingApp /\ ingHosts = ingUnits

TellIngressUnits(url) ==
  ingEvents' = IF url # ingUrl THEN ingUnits ELSE ingEvents

\* data_provided, upon which the charm publishes a URL, and data_removed.
ProviderHandleRelation ==
  /\ ingProvider = "changed"
  /\ ingProvider' = "none"
  /\ IF ProviderIsReady
     THEN \E url \in IF ingUrl = NoUrl THEN IngressUrls ELSE {ingUrl} :
            /\ ingProxied' = ingHosts
            /\ ingUrl' = url
            /\ TellIngressUnits(url)
     ELSE UNCHANGED <<ingProxied, ingUrl, ingEvents>>
  /\ UNCHANGED <<ingDeployment, ingApp, ingHosts, ingKnown, ingRevoked, ingChanges>>
ProviderBroken ==
  /\ ingProvider = "broken"
  /\ ingProvider' = "none"
  /\ ingProxied' = {}
  /\ UNCHANGED <<ingDeployment, ingPublished, ingKnown, ingEvents, ingRevoked, ingChanges>>

IngressChange == ingChanges < MaxIngressChanges /\ ingChanges' = ingChanges + 1

\* publish_url, for an application that is ready. An invalid URL publishes none.
PublishUrl(url) ==
  /\ ingRelated /\ ProviderIsReady
  /\ ingUrl' = url
  /\ TellIngressUnits(url)
  /\ UNCHANGED <<ingDeployment, ingApp, ingHosts, ingProxied, ingKnown, ingRevoked,
                 ingProvider>>

WipeIngressData ==
  /\ IngressChange
  /\ ingUrl # NoUrl
  /\ ingUrl' = NoUrl
  /\ TellIngressUnits(NoUrl)
  /\ UNCHANGED <<ingDeployment, ingApp, ingHosts, ingProxied, ingKnown, ingRevoked,
                 ingProvider>>

\* Traefik moves, or is back.
ChangeUrl(url) == IngressChange /\ ingUrl # url /\ PublishUrl(url)
RestoreUrl(url) == ingUrl = NoUrl /\ PublishUrl(url) /\ UNCHANGED ingChanges

-------------------------------------------------------------------------------
(* Juju *)

RelateIngress ==
  /\ IngressChange
  /\ ~ingRelated /\ ingRevoked = {} /\ ingProvider = "none"
  /\ ingRelated' = TRUE
  /\ ingEvents' = ingUnits /\ ingProvider' = "changed"
  /\ UNCHANGED <<ingUnits, ingLeader, ingElected, ingPublished, ingProxied, ingKnown,
                 ingRevoked>>
RemoveIngress ==
  /\ IngressChange
  /\ ingRelated
  /\ ingRelated' = FALSE
  /\ ingApp' = FALSE /\ ingHosts' = {} /\ ingUrl' = NoUrl
  /\ ingEvents' = {} /\ ingRevoked' = ingUnits /\ ingProvider' = "broken"
  /\ UNCHANGED <<ingUnits, ingLeader, ingElected, ingProxied, ingKnown>>
AddIngressUnit(u) ==
  /\ IngressChange
  /\ u \notin ingUnits /\ ingRevoked = {}
  /\ ingUnits' = ingUnits \cup {u}
  /\ ingEvents' = IF ingRelated THEN ingEvents \cup {u} ELSE ingEvents
  /\ ingProvider' = IF ingRelated THEN "changed" ELSE ingProvider
  /\ ingStored' = [ingStored EXCEPT ![u] = NoUrl]
  /\ ingTold' = [ingTold EXCEPT ![u] = NoUrl]
  /\ UNCHANGED <<ingRelated, ingLeader, ingElected, ingPublished, ingProxied, ingRevoked>>

\* relation_departed is observed.
ProviderDeparted == IF ingRelated THEN "changed" ELSE ingProvider

RemoveIngressUnit(u) ==
  /\ IngressChange
  /\ u \in ingUnits /\ ingUnits # {u}
  /\ ingUnits' = ingUnits \ {u}
  /\ ingHosts' = ingHosts \ {u}
  /\ ingEvents' = ingEvents \ {u} /\ ingRevoked' = ingRevoked \ {u}
  /\ ingProvider' = ProviderDeparted
  /\ ingLeader' = IF LeadsIngress(u) THEN NoLeader ELSE ingLeader
  /\ ingElected' = (ingElected /\ ~LeadsIngress(u))
  /\ UNCHANGED <<ingRelated, ingApp, ingUrl, ingProxied, ingKnown>>
ElectIngressLeader(u) ==
  /\ ingLeader = NoLeader /\ u \in ingUnits
  /\ ingLeader' = u /\ ingElected' = TRUE
  /\ UNCHANGED <<ingRelated, ingUnits, ingPublished, ingProxied, ingKnown, ingQueues,
                 ingChanges>>

IngressInit ==
  /\ ingRelated = FALSE /\ ingLeader = NoLeader /\ ingElected = FALSE
  /\ \E u \in IngressUnits : ingUnits = {u}
  /\ ingApp = FALSE /\ ingHosts = {} /\ ingUrl = NoUrl /\ ingProxied = {}
  /\ ingStored = [u \in IngressUnits |-> NoUrl]
  /\ ingTold = [u \in IngressUnits |-> NoUrl]
  /\ ingEvents = {} /\ ingRevoked = {} /\ ingProvider = "none" /\ ingChanges = 0

IngressNext ==
  \/ RelateIngress \/ RemoveIngress \/ WipeIngressData
  \/ ProviderHandleRelation \/ ProviderBroken
  \/ \E url \in IngressUrls : ChangeUrl(url) \/ RestoreUrl(url)
  \/ \E u \in IngressUnits :
       \/ AddIngressUnit(u) \/ RemoveIngressUnit(u) \/ ElectIngressLeader(u)
       \/ IngressHandleRelation(u) \/ IngressBroken(u) \/ IngressElected(u)

\* Juju dispatches every event, elects a leader, and Traefik, having one address
\* or another, publishes.
IngressFairness ==
  /\ WF_ingressVars(ProviderHandleRelation \/ ProviderBroken)
  /\ WF_ingressVars(\E url \in IngressUrls : RestoreUrl(url))
  /\ \A u \in IngressUnits :
       /\ WF_ingressVars(IngressHandleRelation(u) \/ IngressBroken(u)
                           \/ IngressElected(u))
       /\ WF_ingressVars(ElectIngressLeader(u))

IngressSpec == IngressInit /\ [][IngressNext]_ingressVars /\ IngressFairness

-------------------------------------------------------------------------------
(* Properties *)

IngressDataOK ==
  /\ ingRelated \in BOOLEAN /\ ingElected \in BOOLEAN /\ ingApp \in BOOLEAN
  /\ ingUnits \subseteq IngressUnits /\ ingLeader \in ingUnits \cup {NoLeader}
  /\ ingUrl \in IngressUrls \cup {NoUrl}
  /\ ingStored \in [IngressUnits -> IngressUrls \cup {NoUrl}]
  /\ ingHosts \subseteq ingUnits /\ ingEvents \subseteq ingUnits
  /\ ingRevoked \subseteq ingUnits
  /\ ingProvider \in {"none", "changed", "broken"}

\* The values of the variables.
IngressTypeOK ==
  /\ IngressDataOK
  /\ ingTold \in [IngressUnits -> IngressUrls \cup {NoUrl}]
  /\ ingProxied \subseteq IngressUnits

\* A unit that handled its events announced the URL there is, and has announced
\* nothing since the relation went. (A URL that is withdrawn while the relation
\* stays is not revoked: is_ready guards the comparison.)
UrlAnnounced ==
  \A u \in ingUnits \ (ingEvents \cup ingRevoked) :
    /\ ingUrl # NoUrl => ingTold[u] = ingUrl
    /\ ~ingRelated => ingTold[u] = NoUrl

\* What the provider routes to, once it has handled its events, are the units
\* that are there; until a new unit has written, it keeps to those it knows.
RoutesToUnits ==
  ingProvider = "none" =>
    IF ~ingRelated THEN ingProxied = {}
    ELSE ProviderIsReady => ingProxied = ingUnits

\* The two ends of the relation agree, each once it has handled its events: the
\* units on the URL, the provider on the units.
IngressAgreed == UrlAnnounced /\ RoutesToUnits

\* Whatever happened, in the end the application is served and all of it knows.
Served ==
  <>[](ingRelated => /\ ingUrl # NoUrl /\ ingProxied = ingUnits
                     /\ \A u \in ingUnits : ingTold[u] = ingUrl)
===============================================================================
