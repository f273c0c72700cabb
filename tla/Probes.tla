-------------------------------- MODULE Probes --------------------------------
(***************************************************************************)
(* The blackbox probes interface (blackbox_probes.py). A provider, as      *)
(* Tempo is one, has its leader publish what is to be probed, its external *)
(* URL; a Blackbox exporter keeps the probes of all its relations in a     *)
(* cache, that an event marks as stale and the next reading rebuilds.      *)
(*                                                                         *)
(* Every relation is of one exporter with another provider. A change of    *)
(* the provider's URL is no event to it: it is published with the next.    *)
(***************************************************************************)
EXTENDS Naturals, FiniteSets

CONSTANTS PbRelations, PbUnits, PbUrls, PbNone, MaxPbChanges

ASSUME PbAssumption ==
  /\ PbUnits # {} /\ PbUrls # {} /\ PbNone \notin PbUrls
  /\ MaxPbChanges \in Nat

VARIABLES
  pbRelated,   \* the relations there are
  pbLeader,    \* relation -> the provider's leader
  pbUrl,       \* relation -> the provider's URL
  pbBag,       \* relation -> the URL in its databag
  pbProvider,  \* <<relation, unit>> of the provider's with an event
  pbChanged,   \* relations with relation-changed for the exporter
  pbDeparted,  \* relations with relation-departed for it
  pbStale,     \* probes_need_update
  pbCache,     \* scrape_probes: <<relation, URL>>
  pbProbed,    \* what the exporter probes
  pbChanges

pbProviders == <<pbLeader, pbUrl>>
pbExporter == <<pbStale, pbCache, pbProbed>>
pbEvents == <<pbProvider, pbChanged, pbDeparted>>
pbVars == <<pbRelated, pbProviders, pbBag, pbEvents, pbExporter, pbChanges>>

-------------------------------------------------------------------------------
(* BlackboxProbesProvider *)

\* _set_probes_spec, on joined, changed and leader-elected: the leader's, and
\* for all relations. (The relations of the model have providers of their own.)
SetProbesSpec(r, u) ==
  /\ <<r, u>> \in pbProvider
  /\ pbProvider' = pbProvider \ {<<r, u>>}
  /\ LET bag == IF pbLeader[r] = u /\ r \in pbRelated THEN pbUrl[r] ELSE pbBag[r] IN
     /\ pbBag' = [pbBag EXCEPT ![r] = bag]
     /\ pbChanged' = IF bag # pbBag[r] THEN pbChanged \union {r} ELSE pbChanged
  /\ UNCHANGED <<pbRelated, pbProviders, pbDeparted, pbExporter, pbChanges>>

-------------------------------------------------------------------------------
(* BlackboxProbesRequirer *)

\* _update_probes, for the relations the model lists: none that is broken, but
\* one whose units are departing is among them.
UpdateProbes(relations) == {<<r, pbBag[r]>> : r \in {s \in relations : pbBag[s] # PbNone}}

\* probes(): the cache, rebuilt if it is stale.
ReadProbes(stale, relations) ==
  /\ pbCache' = IF stale THEN UpdateProbes(relations) ELSE pbCache
  /\ pbStale' = FALSE
  /\ pbProbed' = pbCache'

\* targets_changed is emitted, and the exporter reads the probes.
NeedUpdate_ChangedKept(event) == event = "departed"
NeedUpdate(event) == TRUE

ProbesChanged(r) ==
  /\ r \in pbChanged
  /\ pbChanged' = pbChanged \ {r}
  /\ ReadProbes(pbStale \/ NeedUpdate("changed"), pbRelated \union pbDeparted)
  /\ UNCHANGED <<pbRelated, pbProviders, pbBag, pbProvider, pbDeparted, pbChanges>>

\* The relation is gone with its last unit. The exporter reads the probes with
\* relation-broken as well, when the model lists the relation no longer.
ProbesDeparted(r) ==
  /\ r \in pbDeparted
  /\ ReadProbes(pbStale \/ NeedUpdate("departed"), pbRelated \union pbDeparted)
  /\ pbDeparted' = pbDeparted \ {r}
  /\ UNCHANGED <<pbRelated, pbProviders, pbBag, pbProvider, pbChanged, pbChanges>>

-------------------------------------------------------------------------------
(* Juju, and what happens around *)

PbChange == pbChanges < MaxPbChanges /\ pbChanges' = pbChanges + 1

RelateExporter(r) ==
  /\ PbChange /\ r \notin pbRelated \union pbDeparted
  /\ ~\E u \in PbUnits : <<r, u>> \in pbProvider
  /\ pbRelated' = pbRelated \union {r}
  /\ pbBag' = [pbBag EXCEPT ![r] = PbNone]
  /\ pbProvider' = pbProvider \union ({r} \X PbUnits)
  /\ UNCHANGED <<pbProviders, pbChanged, pbDeparted, pbExporter>>

\* The exporter's relation-changed that are due are not delivered any more.
RemoveExporter(r) ==
  /\ PbChange /\ r \in pbRelated
  /\ pbRelated' = pbRelated \ {r}
  /\ pbChanged' = pbChanged \ {r}
  /\ pbDeparted' = pbDeparted \union {r}
  /\ UNCHANGED <<pbProviders, pbBag, pbProvider, pbExporter>>

MoveProvider(r, url) ==
  /\ PbChange /\ pbUrl[r] # url
  /\ pbUrl' = [pbUrl EXCEPT ![r] = url]
  /\ UNCHANGED <<pbRelated, pbLeader, pbBag, pbEvents, pbExporter>>

ElectedPublishes(r, u) == pbProvider' = pbProvider \union {<<r, u>>}

ElectPublisher(r, u) ==
  /\ PbChange /\ pbLeader[r] # u
  /\ pbLeader' = [pbLeader EXCEPT ![r] = u]
  /\ ElectedPublishes(r, u)
  /\ UNCHANGED <<pbRelated, pbUrl, pbBag, pbChanged, pbDeparted, pbExporter>>

PbInit ==
  /\ pbRelated = {} /\ pbBag = [r \in PbRelations |-> PbNone]
  /\ pbLeader = [r \in PbRelations |-> CHOOSE u \in PbUnits : TRUE]
  /\ pbUrl = [r \in PbRelations |-> CHOOSE url \in PbUrls : TRUE]
  /\ pbProvider = {} /\ pbChanged = {} /\ pbDeparted = {}
  /\ pbStale = TRUE /\ pbCache = {} /\ pbProbed = {} /\ pbChanges = 0

PbNext ==
  \E r \in PbRelations :
    \/ ProbesChanged(r) \/ ProbesDeparted(r) \/ RelateExporter(r) \/ RemoveExporter(r)
    \/ \E u \in PbUnits : SetProbesSpec(r, u) \/ ElectPublisher(r, u)
    \/ \E url \in PbUrls : MoveProvider(r, url)

PbSpec == PbInit /\ [][PbNext]_pbVars

-------------------------------------------------------------------------------
PbQuiet == pbProvider = {} /\ pbChanged = {} /\ pbDeparted = {}

PbTypeOK ==
  /\ pbRelated \subseteq PbRelations
  /\ pbLeader \in [PbRelations -> PbUnits] /\ pbUrl \in [PbRelations -> PbUrls]
  /\ pbBag \in [PbRelations -> PbUrls \union {PbNone}]
  /\ pbProvider \subseteq PbRelations \X PbUnits
  /\ pbChanged \subseteq pbRelated /\ pbDeparted \subseteq PbRelations \ pbRelated
  /\ pbStale \in BOOLEAN /\ pbCache \subseteq PbRelations \X PbUrls /\ pbProbed = pbCache
  /\ pbChanges \in 0..MaxPbChanges

\* Once the events are through, whoever led the provider when and whatever was
\* cached before, every provider related has published, and the exporter probes
\* what it has published and nothing else of it.
RelatedIsProbed ==
  PbQuiet => \A r \in pbRelated :
    pbBag[r] # PbNone /\ {p \in pbProbed : p[1] = r} = {<<r, pbBag[r]>>}

\* What _on_probes_provider_relation_departed's comment says it is for: the
\* departed provider is removed from what is probed.
DepartedIsNotProbed ==
  PbQuiet => \A p \in pbProbed : p[1] \in pbRelated
===============================================================================
