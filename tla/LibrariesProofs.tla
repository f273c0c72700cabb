--------------------------- MODULE LibrariesProofs ---------------------------
(***************************************************************************)
(* Proofs about the charm libraries whose instances MCLibraries checks:    *)
(* of each, an invariant that says what is still on its way while things   *)
(* are not yet as they should be, and the safety properties it implies.    *)
(* Where the code does less than is said of it, a theorem says under what  *)
(* condition it does all. Last, the composition is one of behaviours of    *)
(* each part.                                                              *)
(***************************************************************************)
EXTENDS MCLibraries, TempoClusterProofs,
        CharmTracingBufferProofs, FiniteSetTheorems, TLAPS

(***************************************************************************)
(* Blackbox probes (Probes).                                               *)
(*                                                                         *)
(* What a provider has not published its leader has an event for, and the  *)
(* exporter's cache has what was published unless an event is to come.     *)
(***************************************************************************)

LeadersPublish ==
  \A r \in pbRelated : pbBag[r] # PbNone \/ <<r, pbLeader[r]>> \in pbProvider

ProbesOf(cache, r) == {p \in cache : p[1] = r}

CacheFollows ==
  \A r \in pbRelated :
    \/ pbBag[r] = PbNone
    \/ r \in pbChanged
    \/ ProbesOf(pbCache, r) = {<<r, pbBag[r]>>}

ProbesInv == PbTypeOK /\ LeadersPublish /\ CacheFollows

\* A cache that is rebuilt has what each relation has published.
LEMMA RebuiltIsPublished ==
  ASSUME PbTypeOK, NEW relations \in SUBSET PbRelations,
         NEW r \in relations, pbBag[r] # PbNone
  PROVE  ProbesOf(UpdateProbes(relations), r) = {<<r, pbBag[r]>>}
<1>1. <<r, pbBag[r]>> \in UpdateProbes(relations)
  BY DEF UpdateProbes
<1>2. ASSUME NEW p \in UpdateProbes(relations), p[1] = r PROVE p = <<r, pbBag[r]>>
  <2>1. PICK s \in {s \in relations : pbBag[s] # PbNone} : p = <<s, pbBag[s]>>
    BY DEF UpdateProbes
  <2> QED BY <1>2, <2>1
<1> QED BY <1>1, <1>2 DEF ProbesOf

LEMMA UpdateProbesType ==
  ASSUME PbTypeOK, NEW relations \in SUBSET PbRelations
  PROVE  UpdateProbes(relations) \subseteq PbRelations \X PbUrls
BY PbAssumption DEF UpdateProbes, PbTypeOK

LEMMA ProbesInvInit == PbInit => ProbesInv
<1> SUFFICES ASSUME PbInit PROVE ProbesInv
  OBVIOUS
<1>1. (CHOOSE u \in PbUnits : TRUE) \in PbUnits
  BY PbAssumption
<1>2. (CHOOSE url \in PbUrls : TRUE) \in PbUrls
  BY PbAssumption
<1>3. pbLeader \in [PbRelations -> PbUnits] /\ pbUrl \in [PbRelations -> PbUrls]
  BY <1>1, <1>2 DEF PbInit
<1>4. pbBag \in [PbRelations -> PbUrls \union {PbNone}]
  BY DEF PbInit
<1>5. PbTypeOK
  BY <1>3, <1>4, PbAssumption DEF PbInit, PbTypeOK
<1> QED BY <1>5 DEF PbInit, ProbesInv, LeadersPublish, CacheFollows

LEMMA ProbesInvStep == ProbesInv /\ [PbNext]_pbVars => ProbesInv'
<1> SUFFICES ASSUME ProbesInv, [PbNext]_pbVars PROVE ProbesInv'
  OBVIOUS
<1> USE PbAssumption DEF ProbesInv
<1>1. ASSUME NEW r \in PbRelations, ProbesChanged(r) PROVE ProbesInv'
  <2>1. pbCache' = UpdateProbes(pbRelated \union pbDeparted) /\ ~pbStale' /\ pbProbed' = pbCache'
    BY <1>1 DEF ProbesChanged, ReadProbes, NeedUpdate
  <2>2. pbRelated \union pbDeparted \in SUBSET PbRelations
    BY DEF PbTypeOK
  <2>3. pbCache' \subseteq PbRelations \X PbUrls
    BY <2>1, <2>2, UpdateProbesType
  <2>4. PbTypeOK'
    BY <1>1, <2>1, <2>3 DEF ProbesChanged, ReadProbes, pbProviders, PbTypeOK
  <2>5. CacheFollows'
    BY <1>1, <2>1, <2>2, RebuiltIsPublished DEF ProbesChanged, CacheFollows
  <2> QED BY <1>1, <2>4, <2>5 DEF ProbesChanged, pbProviders, LeadersPublish
<1>2. ASSUME NEW r \in PbRelations, ProbesDeparted(r) PROVE ProbesInv'
  <2>1. pbCache' = UpdateProbes(pbRelated \union pbDeparted) /\ ~pbStale' /\ pbProbed' = pbCache'
    BY <1>2 DEF ProbesDeparted, ReadProbes, NeedUpdate
  <2>2. pbRelated \union pbDeparted \in SUBSET PbRelations
    BY DEF PbTypeOK
  <2>3. pbCache' \subseteq PbRelations \X PbUrls
    BY <2>1, <2>2, UpdateProbesType
  <2>4. PbTypeOK'
    BY <1>2, <2>1, <2>3 DEF ProbesDeparted, ReadProbes, pbProviders, PbTypeOK
  <2>5. CacheFollows'
    BY <1>2, <2>1, <2>2, RebuiltIsPublished DEF ProbesDeparted, CacheFollows
  <2> QED BY <1>2, <2>4, <2>5 DEF ProbesDeparted, pbProviders, LeadersPublish
<1>3. ASSUME NEW r \in PbRelations, RelateExporter(r) PROVE ProbesInv'
  <2>1. PbTypeOK'
    BY <1>3 DEF RelateExporter, PbChange, pbProviders, pbExporter, PbTypeOK
  <2>2. LeadersPublish'
    BY <1>3 DEF RelateExporter, pbProviders, LeadersPublish, PbTypeOK
  <2>3. CacheFollows'
    BY <1>3 DEF RelateExporter, pbExporter, CacheFollows, PbTypeOK
  <2> QED BY <2>1, <2>2, <2>3
<1>4. ASSUME NEW r \in PbRelations, RemoveExporter(r) PROVE ProbesInv'
  <2>1. PbTypeOK'
    BY <1>4 DEF RemoveExporter, PbChange, pbProviders, pbExporter, PbTypeOK
  <2> QED BY <1>4, <2>1 DEF RemoveExporter, pbProviders, pbExporter, LeadersPublish, CacheFollows
<1>5. ASSUME NEW r \in PbRelations, NEW u \in PbUnits, SetProbesSpec(r, u) PROVE ProbesInv'
  <2> DEFINE bag == IF pbLeader[r] = u /\ r \in pbRelated THEN pbUrl[r] ELSE pbBag[r]
  <2>1. bag \in PbUrls \union {PbNone} /\ (bag # pbBag[r] => r \in pbRelated)
    BY DEF PbTypeOK
  <2>2. pbLeader[r] = u /\ r \in pbRelated => bag # PbNone
    BY DEF PbTypeOK
  <2>3. /\ pbBag' = [pbBag EXCEPT ![r] = bag]
        /\ pbChanged' = IF bag # pbBag[r] THEN pbChanged \union {r} ELSE pbChanged
    BY <1>5 DEF SetProbesSpec
  <2> HIDE DEF bag
  <2>4. PbTypeOK'
    BY <1>5, <2>1, <2>3 DEF SetProbesSpec, pbProviders, pbExporter, PbTypeOK
  <2>5. LeadersPublish'
    <3> SUFFICES ASSUME NEW s \in pbRelated
                 PROVE  pbBag'[s] # PbNone \/ <<s, pbLeader[s]>> \in pbProvider'
      BY <1>5 DEF SetProbesSpec, pbProviders, LeadersPublish
    <3>1. CASE s = r
      <4>1. pbBag'[r] = bag
        BY <2>3 DEF PbTypeOK
      <4>2. pbLeader[r] # u => <<r, pbLeader[r]>> \in pbProvider' \/ pbBag[r] # PbNone
        BY <1>5, <3>1 DEF SetProbesSpec, LeadersPublish
      <4>3. pbLeader[r] # u => bag = pbBag[r]
        BY DEF bag
      <4>4. CASE pbLeader[r] = u
        BY <2>2, <3>1, <4>1, <4>4
      <4>5. CASE pbLeader[r] # u
        BY <3>1, <4>1, <4>2, <4>3, <4>5
      <4> QED BY <4>4, <4>5
    <3>2. CASE s # r
      BY <1>5, <2>3, <3>2 DEF SetProbesSpec, LeadersPublish, PbTypeOK
    <3> QED BY <3>1, <3>2
  <2>6. CacheFollows'
    BY <1>5, <2>3 DEF SetProbesSpec, pbExporter, CacheFollows, PbTypeOK
  <2> QED BY <2>4, <2>5, <2>6
<1>6. ASSUME NEW r \in PbRelations, NEW u \in PbUnits, ElectPublisher(r, u) PROVE ProbesInv'
  <2>1. PbTypeOK'
    BY <1>6 DEF ElectPublisher, ElectedPublishes, PbChange, pbProviders, pbExporter, PbTypeOK
  <2>2. LeadersPublish'
    BY <1>6 DEF ElectPublisher, ElectedPublishes, LeadersPublish, PbTypeOK
  <2> QED BY <1>6, <2>1, <2>2 DEF ElectPublisher, pbExporter, CacheFollows
<1>7. ASSUME NEW r \in PbRelations, NEW url \in PbUrls, MoveProvider(r, url) PROVE ProbesInv'
  <2>1. PbTypeOK'
    BY <1>7 DEF MoveProvider, PbChange, pbEvents, pbExporter, PbTypeOK
  <2> QED BY <1>7, <2>1 DEF MoveProvider, pbEvents, pbExporter, LeadersPublish, CacheFollows
<1>8. CASE UNCHANGED pbVars
  BY <1>8 DEF pbVars, pbProviders, pbEvents, pbExporter, PbTypeOK, LeadersPublish, CacheFollows
<1> QED BY <1>1, <1>2, <1>3, <1>4, <1>5, <1>6, <1>7, <1>8 DEF PbNext

LEMMA ProbesInvariant == PbSpec => []ProbesInv
BY ProbesInvInit, ProbesInvStep, PTL DEF PbSpec

\* The values of the variables, with the relations the exporter has events for:
\* relation-changed only of those there are, departures only of those there are
\* not, and what it probes is its cache.
THEOREM ProbesTypes == PbSpec => []PbTypeOK
<1>1. ProbesInv => PbTypeOK
  BY DEF ProbesInv
<1> QED BY <1>1, ProbesInvariant, PTL

\* Whoever led a provider when, once the events are through the exporter probes
\* what every related provider has published, and nothing else of it.
THEOREM RelatedAreProbed == PbSpec => []RelatedIsProbed
<1>1. ProbesInv => RelatedIsProbed
  BY DEF ProbesInv, RelatedIsProbed, PbQuiet, LeadersPublish, CacheFollows, ProbesOf, PbTypeOK
<1> QED BY <1>1, ProbesInvariant, PTL

-------------------------------------------------------------------------------
(***************************************************************************)
(* Alert rules for Loki (AlertRuleFiles).                                  *)
(*                                                                         *)
(* The files and the reports of errors are those of the rules there are,   *)
(* unless Loki has a departure to handle or a change of rules; an event    *)
(* about a relation without rules changes nothing.                         *)
(***************************************************************************)

\* The databags of a relation that is gone are gone.
RulesGone ==
  \A r \in ArRelations \ arRelated : arRules[r] = NoRules /\ arEvent[r] = "absent"

ShippedIsPushed == \A r \in arRelated \ arJoined : arRules[r] = arShips[r]

FilesAreCurrent == arFiles = Alerts /\ \A r \in ArRelations : arEvent[r] = EventOf(r)

LokiKnows ==
  \/ arLeft
  \/ \E r \in arQueue : r \in ArRelations /\ arRules[r] # NoRules
  \/ FilesAreCurrent

ErrorsHeard ==
  \A r \in ArRelations : arEvent[r] = "errors" => r \in arHeard \/ arTold[r] = "errors"

RulesInv == ArDataOK /\ RulesGone /\ ShippedIsPushed /\ LokiKnows /\ ErrorsHeard

LEMMA RulesInvInit == ArInit => RulesInv
<1> SUFFICES ASSUME ArInit PROVE RulesInv
  OBVIOUS
<1>1. PICK rules \in ArRuleSets : arShips = [r \in ArRelations |-> rules]
  BY DEF ArInit
<1>2. ArDataOK
  BY <1>1 DEF ArInit, ArDataOK
<1>3. Collected = {}
  BY DEF ArInit, Collected
<1>4. FilesAreCurrent
  BY <1>3 DEF ArInit, FilesAreCurrent, Alerts, EventOf
<1> QED
  BY <1>2, <1>4 DEF ArInit, RulesInv, RulesGone, ShippedIsPushed, LokiKnows, ErrorsHeard

\* When the Loki charm has read the rules its files are those of the rules, and
\* reading them again would report nothing else.
LEMMA RulesChangedSettles ==
  ASSUME RulesInv, RulesChanged, UNCHANGED <<arClients, arRules, arTold, arJoined>>
  PROVE  ArDataOK' /\ RulesGone' /\ ShippedIsPushed' /\ FilesAreCurrent' /\ ErrorsHeard'
<1> USE DEF RulesInv
<1>1. Collected' = Collected
  BY DEF Collected, Identifier, arClients
<1>2. Alerts' = Alerts
  BY <1>1 DEF Alerts, Identifier
<1>3. arEvent' = [r \in ArRelations |-> EventOf(r)]
  BY DEF RulesChanged
<1>4. \A r \in ArRelations : EventOf(r) \in {"absent", "errors", "empty"}
  BY DEF EventOf, ArDataOK
<1>5. ArDataOK'
  BY <1>3, <1>4 DEF ArDataOK, arClients
<1>6. RulesGone'
  <2> SUFFICES ASSUME NEW r \in ArRelations \ arRelated PROVE EventOf(r) = "absent"
    BY <1>3 DEF RulesGone, arClients
  <2> QED BY DEF RulesGone, EventOf, Collected
<1>7. FilesAreCurrent'
  <2>1. ASSUME NEW r \in ArRelations PROVE EventOf(r)' = EventOf(r)
    <3>1. CASE r \in Collected
      BY <1>1, <3>1 DEF EventOf
    <3>2. CASE r \notin Collected
      BY <1>1, <1>3, <3>2 DEF EventOf
    <3> QED BY <3>1, <3>2
  <2> QED BY <1>2, <1>3, <2>1 DEF FilesAreCurrent, RulesChanged
<1>8. ErrorsHeard'
  <2> SUFFICES ASSUME NEW r \in ArRelations, EventOf(r) = "errors"
               PROVE  r \in arHeard' \/ arTold'[r] = "errors"
    BY <1>3 DEF ErrorsHeard
  <2>1. CASE arEvent[r] = "errors"
    BY <2>1 DEF ErrorsHeard, RulesChanged
  <2>2. CASE arEvent[r] # "errors"
    BY <2>2 DEF RulesChanged
  <2> QED BY <2>1, <2>2
<1> QED BY <1>5, <1>6, <1>7, <1>8 DEF ShippedIsPushed, arClients

\* The files stay current while the rules of the relations with any do.
LEMMA FilesStayCurrent ==
  ASSUME RulesInv, FilesAreCurrent, UNCHANGED <<arRules, arFiles, arEvent>>,
         \A r \in ArRelations : arRules[r] # NoRules => (r \in arRelated' <=> r \in arRelated),
         arRelated' \subseteq ArRelations
  PROVE  FilesAreCurrent'
<1>1. Collected' = Collected
  BY DEF Collected, Identifier, RulesInv, ArDataOK
<1>2. Alerts' = Alerts
  BY <1>1 DEF Alerts, Identifier
<1>3. ASSUME NEW r \in ArRelations PROVE EventOf(r)' = EventOf(r)
  BY <1>1 DEF EventOf
<1> QED BY <1>2, <1>3 DEF FilesAreCurrent

LEMMA RulesInvStep == RulesInv /\ [ArNext]_arVars => RulesInv'
<1> SUFFICES ASSUME RulesInv, [ArNext]_arVars PROVE RulesInv'
  OBVIOUS
<1> USE ArAssumption DEF RulesInv
<1>1. CASE LokiLeft
  BY <1>1, RulesChangedSettles DEF LokiLeft, OnLeft, LokiKnows
<1>2. ASSUME NEW r \in ArRelations, LokiChanged(r) PROVE RulesInv'
  <2>1. CASE arRules[r] # NoRules
    BY <1>2, <2>1, RulesChangedSettles DEF LokiChanged, LokiKnows
  <2>2. CASE arRules[r] = NoRules
    <3>1. UNCHANGED <<arClients, arRules, arTold, arJoined, arLeft, arFiles, arEvent, arHeard>>
          /\ arQueue' = arQueue \ {r}
      BY <1>2, <2>2 DEF LokiChanged
    <3>2. FilesAreCurrent => FilesAreCurrent'
      BY <3>1, FilesStayCurrent DEF arClients, ArDataOK
    <3>3. LokiKnows'
      BY <2>2, <3>1, <3>2 DEF LokiKnows
    <3> QED BY <3>1, <3>3 DEF arClients, ArDataOK, RulesGone, ShippedIsPushed, ErrorsHeard
  <2> QED BY <2>1, <2>2
<1>3. ASSUME NEW r \in ArRelations, PushRules(r) PROVE RulesInv'
  <2>1. /\ arRules' = [arRules EXCEPT ![r] = arShips[r]]
        /\ UNCHANGED <<arRelated, arShips, arEvent, arFiles, arTold, arHeard, arLeft>>
        /\ arJoined' = arJoined \ {r} /\ r \in arRelated
    BY <1>3 DEF PushRules, arClients, ArDataOK
  <2>2. ArDataOK'
    BY <2>1 DEF ArDataOK
  <2>3. RulesGone' /\ ShippedIsPushed' /\ ErrorsHeard'
    BY <2>1 DEF ArDataOK, RulesGone, ShippedIsPushed, ErrorsHeard
  <2>4. LokiKnows'
    <3>1. CASE arRules' # arRules
      <4>1. arQueue' = arQueue \cup {r}
        BY <1>3, <3>1 DEF PushRules
      <4>2. arRules'[r] # NoRules
        BY <2>1 DEF ArDataOK
      <4> QED BY <4>1, <4>2 DEF LokiKnows
    <3>2. CASE arRules' = arRules
      <4>1. arQueue' = arQueue
        BY <1>3, <3>2 DEF PushRules
      <4>2. FilesAreCurrent => FilesAreCurrent'
        BY <2>1, <3>2, FilesStayCurrent DEF ArDataOK
      <4> QED BY <2>1, <3>2, <4>1, <4>2 DEF LokiKnows
    <3> QED BY <3>1, <3>2
  <2> QED BY <2>2, <2>3, <2>4
<1>4. ASSUME NEW r \in ArRelations, ClientChanged(r) PROVE RulesInv'
  <2>1. /\ UNCHANGED <<arRelated, arShips, arRules, arEvent, arFiles, arJoined, arQueue, arLeft>>
        /\ arHeard' = arHeard \ {r}
        /\ arTold' = [arTold EXCEPT ![r] = StatusChanged(r)]
    BY <1>4 DEF ClientChanged, arClients
  <2>2. StatusChanged(r) \in {"absent", "errors"} /\ (arEvent[r] = "errors" => StatusChanged(r) = "errors")
    BY DEF StatusChanged, ArDataOK
  <2>3. ArDataOK' /\ ErrorsHeard'
    BY <2>1, <2>2 DEF ArDataOK, ErrorsHeard
  <2>4. FilesAreCurrent => FilesAreCurrent'
    BY <2>1, FilesStayCurrent DEF ArDataOK
  <2> QED BY <2>1, <2>3, <2>4 DEF RulesGone, ShippedIsPushed, LokiKnows
<1>5. ASSUME NEW r \in ArRelations, RelateRules(r) PROVE RulesInv'
  <2>1. /\ UNCHANGED <<arShips, arRules, arEvent, arFiles, arTold, arLeft>>
        /\ arRelated' = arRelated \cup {r} /\ r \notin arRelated
        /\ arJoined' = arJoined \cup {r} /\ arHeard' = arHeard \cup {r}
        /\ arQueue' = arQueue \cup {r}
    BY <1>5 DEF RelateRules
  <2>2. ArDataOK' /\ RulesGone' /\ ShippedIsPushed' /\ ErrorsHeard'
    BY <2>1 DEF ArDataOK, RulesGone, ShippedIsPushed, ErrorsHeard
  <2>3. FilesAreCurrent => FilesAreCurrent'
    BY <2>1, FilesStayCurrent DEF ArDataOK, RulesGone
  <2> QED BY <2>1, <2>2, <2>3 DEF LokiKnows
<1>6. ASSUME NEW r \in ArRelations, RemoveRules(r) PROVE RulesInv'
  BY <1>6 DEF RemoveRules, ArDataOK, RulesGone, ShippedIsPushed, ErrorsHeard, LokiKnows
<1>7. ASSUME NEW r \in ArRelations, NEW rules \in ArRuleSets, UpgradeClient(r, rules)
      PROVE  RulesInv'
  <2>1. /\ UNCHANGED <<arRelated, arRules, arEvent, arFiles, arTold, arHeard, arQueue, arLeft>>
        /\ arShips' = [arShips EXCEPT ![r] = rules]
        /\ arJoined' = arJoined \cup ({r} \cap arRelated)
    BY <1>7 DEF UpgradeClient
  <2>2. ArDataOK' /\ RulesGone' /\ ShippedIsPushed' /\ ErrorsHeard'
    BY <2>1 DEF ArDataOK, RulesGone, ShippedIsPushed, ErrorsHeard
  <2>3. FilesAreCurrent => FilesAreCurrent'
    BY <2>1, FilesStayCurrent DEF ArDataOK
  <2> QED BY <2>1, <2>2, <2>3 DEF LokiKnows
<1>8. CASE UNCHANGED arVars
  <2>1. FilesAreCurrent => FilesAreCurrent'
    BY <1>8, FilesStayCurrent DEF arVars, arClients, ArDataOK
  <2> QED
    BY <1>8, <2>1 DEF arVars, arClients, arQueues, ArDataOK, RulesGone, ShippedIsPushed,
                     LokiKnows, ErrorsHeard
<1> QED BY <1>1, <1>2, <1>3, <1>4, <1>5, <1>6, <1>7, <1>8 DEF ArNext

\* What is queued is of relations there are.
LEMMA RulesQueues == ArSpec => []ArTypeOK
<1> USE ArAssumption
<1>1. ArInit => ArQueuesOK
  <2> SUFFICES ASSUME ArInit PROVE ArQueuesOK
    OBVIOUS
  <2>1. arFiles = {} /\ arHeard = {} /\ arQueue = {} /\ arChanges = 0
    BY DEF ArInit
  <2>2. arLeft \in BOOLEAN
    BY Zenon DEF ArInit
  <2> QED BY <2>1, <2>2 DEF ArQueuesOK
<1>2. RulesInv /\ ArQueuesOK /\ [ArNext]_arVars => ArQueuesOK'
  <2> SUFFICES ASSUME RulesInv, ArQueuesOK, [ArNext]_arVars PROVE ArQueuesOK'
    OBVIOUS
  <2> USE DEF ArQueuesOK, RulesInv, ArDataOK, arClients, ArChange
  <2>1. ASSUME RulesChanged, UNCHANGED arRelated
        PROVE  arFiles' \subseteq ArRelations /\ arHeard' \subseteq arRelated'
    BY <2>1 DEF RulesChanged, Alerts, Collected, EventOf
  <2>2. CASE LokiLeft
    BY <2>1, <2>2 DEF LokiLeft, OnLeft
  <2>3. ASSUME NEW r \in ArRelations, LokiChanged(r) PROVE ArQueuesOK'
    BY <2>1, <2>3 DEF LokiChanged
  <2>4. ASSUME NEW r \in ArRelations, RelateRules(r) PROVE ArQueuesOK'
    BY <2>4 DEF RelateRules
  <2>5. ASSUME NEW r \in ArRelations, RemoveRules(r) PROVE ArQueuesOK'
    BY <2>5 DEF RemoveRules
  <2>6. ASSUME NEW r \in ArRelations, PushRules(r) PROVE ArQueuesOK'
    BY <2>6 DEF PushRules
  <2>7. ASSUME NEW r \in ArRelations, ClientChanged(r) PROVE ArQueuesOK'
    BY <2>7 DEF ClientChanged
  <2>8. ASSUME NEW r \in ArRelations, NEW rules \in ArRuleSets, UpgradeClient(r, rules)
        PROVE  ArQueuesOK'
    BY <2>8 DEF UpgradeClient
  <2>9. CASE UNCHANGED arVars
    BY <2>9 DEF arVars, arQueues
  <2> QED BY <2>2, <2>3, <2>4, <2>5, <2>6, <2>7, <2>8, <2>9 DEF ArNext
<1>3. RulesInv => ArDataOK
  BY DEF RulesInv
<1> QED BY <1>1, <1>2, <1>3, RulesInvInit, RulesInvStep, PTL DEF ArSpec, ArTypeOK

\* The rules of the relations whose client ships valid ones are on the disk of
\* Loki when the events are through, or those of another with their identifier,
\* and none else are; and a client whose rules are invalid is told so, one whose
\* rules are valid is not: in whatever order rules were pushed, mended and read.
THEOREM GoodRulesAreUsed == ArSpec => []RulesInUse
<1>1. ArSpec => []RulesInv
  BY RulesInvInit, RulesInvStep, PTL DEF ArSpec
<1>2. RulesInv => RulesInUse
  <2> SUFFICES ASSUME RulesInv, ArQuiet PROVE FilesCurrent /\ ErrorsReported
    BY DEF RulesInUse, FilesCurrent, ErrorsReported
  <2> USE ArAssumption DEF RulesInv
  <2>1. FilesAreCurrent
    BY DEF ArQuiet, LokiKnows
  <2>2. \A r \in arRelated : r \in ArRelations /\ arRules[r] = arShips[r] /\ arRules[r] # NoRules
    BY DEF ArQuiet, ShippedIsPushed, ArDataOK
  <2>3. \A r \in arRelated : r \in Collected <=> Identifier(r) # NoId
    BY <2>2 DEF Collected
  <2>4. FilesCurrent
    <3>1. \A r \in arFiles : r \in arRelated /\ arShips[r].ok
      BY <2>1, <2>2 DEF FilesAreCurrent, Alerts, Collected
    <3>2. ASSUME NEW r \in arRelated, Identifier(r) # NoId, arShips[r].ok, r \notin arFiles
          PROVE  \E s \in arRelated \ {r} : Identifier(s) = Identifier(r)
      <4>1. r \in Collected /\ r \notin Alerts
        BY <2>1, <2>3, <3>2 DEF FilesAreCurrent
      <4>2. PICK s \in Collected : Identifier(s) = Identifier(r) /\ ~(s <= r)
        BY <2>2, <3>2, <4>1 DEF Alerts
      <4>3. r \in Nat
        BY <2>2
      <4>4. s \in arRelated
        BY DEF Collected
      <4> QED BY <4>2, <4>3, <4>4
    <3> QED BY <3>1, <3>2 DEF FilesCurrent
  <2>5. ErrorsReported
    <3>1. ASSUME NEW r \in arRelated, Identifier(r) # NoId
          PROVE  arEvent[r] = "errors" <=> ~arShips[r].ok
      <4>1. arEvent[r] = IF arShips[r].ok THEN "empty" ELSE "errors"
        BY <2>1, <2>2, <2>3, <3>1 DEF FilesAreCurrent, EventOf
      <4> QED BY <4>1
    <3> QED BY <2>2, <3>1 DEF ErrorsReported, ErrorsHeard
  <2> QED BY <2>4, <2>5
<1> QED BY <1>1, <1>2, PTL

-------------------------------------------------------------------------------
(***************************************************************************)
(* Remote write (RemoteWrite).                                             *)
(*                                                                         *)
(* A server's URL is published or the server has an event, a unit of Tempo *)
(* writes to what is published or has an event, the leader has pushed its  *)
(* rules or has one, and a Prometheus has read the rules or has one.       *)
(***************************************************************************)

ServersPublish ==
  \A r \in rwRelated : \A p \in rwServers[r] :
    rwUrl[r][p] = rwServerUrl[r] \/ <<r, p>> \in rwServing

JoinedTo(u) == \E r \in rwRelated : <<r, u>> \in rwJoined

UnitsWrite == \A u \in rwUnits : u \in rwEvents \/ JoinedTo(u) \/ rwSends[u] = RwEndpoints

LeaderPushes ==
  \/ rwElected
  \/ \A r \in rwRelated : <<r, rwLeader>> \in rwJoined \/ rwRules[r] # {}

RulesOfRelated == \A r \in RwRelations \ rwRelated : rwRules[r] = {}

WriteInv ==
  RwDataOK /\ ServersPublish /\ UnitsWrite /\ LeaderPushes /\ RulesOfRelated /\ RulesLoaded

LEMMA EndpointsType == RwDataOK => RwEndpoints \subseteq RwUrls
<1> SUFFICES ASSUME RwDataOK, NEW url \in RwEndpoints PROVE url \in RwUrls
  OBVIOUS
<1>1. PICK r \in rwRelated : url \in {rwUrl[r][p] : p \in rwServers[r]} /\ url # NoRwUrl
  BY DEF RwEndpoints
<1>2. PICK p \in rwServers[r] : url = rwUrl[r][p]
  BY <1>1
<1> QED BY <1>1, <1>2 DEF RwDataOK

\* What is published is where the servers are, once they have handled events.
LEMMA EndpointsArePublished ==
  ASSUME RwDataOK, ServersPublish, rwServing = {}
  PROVE  RwEndpoints = {rwServerUrl[r] : r \in rwRelated}
<1> USE RwAssumption
<1>1. ASSUME NEW r \in rwRelated PROVE {rwUrl[r][p] : p \in rwServers[r]} = {rwServerUrl[r]}
  <2>1. \A p \in rwServers[r] : rwUrl[r][p] = rwServerUrl[r]
    BY DEF ServersPublish
  <2>2. rwServers[r] # {}
    BY DEF RwDataOK
  <2> QED BY <2>1, <2>2
<1>2. ASSUME NEW url \in RwEndpoints PROVE url \in {rwServerUrl[r] : r \in rwRelated}
  <2>1. PICK r \in rwRelated : url \in {rwUrl[r][p] : p \in rwServers[r]}
    BY DEF RwEndpoints
  <2> QED BY <1>1, <2>1
<1>3. ASSUME NEW r \in rwRelated PROVE rwServerUrl[r] \in RwEndpoints
  <2>1. rwServerUrl[r] \in {rwUrl[r][p] : p \in rwServers[r]} /\ rwServerUrl[r] # NoRwUrl
    BY <1>1 DEF RwDataOK
  <2> QED BY <2>1 DEF RwEndpoints
<1> QED BY <1>2, <1>3

\* The endpoints are those before while the relations, their servers and what
\* these have published are.
LEMMA SameEndpoints ==
  ASSUME RwDataOK, UNCHANGED rwRelated,
         \A r \in rwRelated : rwServers'[r] = rwServers[r] /\ rwUrl'[r] = rwUrl[r]
  PROVE  RwEndpoints' = RwEndpoints
<1>1. \A r \in rwRelated : {rwUrl[r][p] : p \in rwServers[r]}' = {rwUrl[r][p] : p \in rwServers[r]}
  OBVIOUS
<1>2. {{rwUrl[r][p] : p \in rwServers[r]} : r \in rwRelated}' =
      {{rwUrl[r][p] : p \in rwServers[r]} : r \in rwRelated}
  BY <1>1
<1> QED BY <1>2 DEF RwEndpoints

LEMMA WriteInvInit == RwInit => WriteInv
<1> SUFFICES ASSUME RwInit PROVE WriteInv
  OBVIOUS
<1> USE RwAssumption
<1>1. PICK p \in RwServers : rwServers = [r \in RwRelations |-> {p}]
  BY DEF RwInit
<1>2. PICK url \in RwUrls : rwServerUrl = [r \in RwRelations |-> url]
  BY DEF RwInit
<1>3. PICK u \in RwUnits : rwUnits = {u} /\ rwLeader = u
  BY DEF RwInit
<1>4. rwUrl \in [RwRelations -> [RwServers -> RwUrls \cup {NoRwUrl}]]
  BY DEF RwInit
<1>5. rwRules \in [RwRelations -> SUBSET RwUnits] /\ rwLoaded = rwRules
      /\ rwSends \in [RwUnits -> SUBSET RwUrls]
  BY DEF RwInit
<1>6. rwServers \in [RwRelations -> SUBSET RwServers] /\ \A r \in RwRelations : rwServers[r] # {}
  BY <1>1
<1>7. RwDataOK
  BY <1>2, <1>3, <1>4, <1>5, <1>6 DEF RwInit, RwDataOK
<1>8. RwEndpoints = {}
  BY DEF RwInit, RwEndpoints
<1>9. UnitsWrite
  BY <1>3, <1>8 DEF RwInit, UnitsWrite
<1> QED
  BY <1>5, <1>7, <1>9 DEF RwInit, WriteInv, ServersPublish, LeaderPushes, RulesOfRelated, RulesLoaded

\* A unit that reconciles writes to what is published; the others did not move.
LEMMA WritesStep ==
  ASSUME WriteInv, NEW u \in rwUnits, Writes(u),
         UNCHANGED <<rwRelated, rwPrometheus, rwUnits>>,
         \A v \in rwUnits \ {u} : v \in rwEvents => v \in rwEvents',
         \A v \in rwUnits \ {u}, r \in rwRelated : <<r, v>> \in rwJoined => <<r, v>> \in rwJoined'
  PROVE  UnitsWrite'
<1> USE DEF WriteInv
<1>1. RwEndpoints' = RwEndpoints
  BY SameEndpoints DEF rwPrometheus
<1>2. rwSends' = [rwSends EXCEPT ![u] = RwEndpoints]
  BY DEF Writes
<1> QED BY <1>1, <1>2 DEF UnitsWrite, JoinedTo, RwDataOK

\* What the leader pushes names the units there are, and Prometheus hears of it.
LEMMA PushAlertsStep ==
  ASSUME WriteInv, NEW u \in rwUnits, NEW relations \in SUBSET rwRelated,
         PushAlerts(u, relations), UNCHANGED <<rwRelated, rwLoaded, rwUnits, rwLeader>>
  PROVE  /\ rwRules' \in [RwRelations -> SUBSET RwUnits]
         /\ RulesOfRelated' /\ RulesLoaded'
         /\ \A r \in rwRelated : rwRules[r] # {} => rwRules'[r] # {}
         /\ u = rwLeader => \A r \in relations : rwRules'[r] # {}
<1> USE DEF WriteInv
<1>1. rwUnits \in SUBSET RwUnits /\ rwUnits # {} /\ relations \subseteq RwRelations
  BY DEF RwDataOK
<1>2. rwRules' = [r \in RwRelations |->
                    IF rwLeader = u /\ r \in relations THEN rwUnits ELSE rwRules[r]]
  BY DEF PushAlerts, RulesPerUnit
<1>3. rwHeard' = rwHeard \cup {r \in rwRelated : rwRules'[r] # rwRules[r]}
  BY DEF PushAlerts, TellPrometheus
<1>4. rwRules' \in [RwRelations -> SUBSET RwUnits]
  BY <1>1, <1>2 DEF RwDataOK
<1>5. RulesOfRelated'
  BY <1>2 DEF RulesOfRelated
<1>6. RulesLoaded'
  <2> SUFFICES ASSUME NEW r \in RwRelations \ rwHeard' PROVE rwLoaded[r] = rwRules'[r]
    BY DEF RulesLoaded
  <2>1. rwLoaded[r] = rwRules[r]
    BY <1>3 DEF RulesLoaded
  <2>2. rwRules'[r] = rwRules[r]
    BY <1>2, <1>3
  <2> QED BY <2>1, <2>2
<1>7. \A r \in rwRelated : rwRules[r] # {} => rwRules'[r] # {}
  BY <1>1, <1>2 DEF RwDataOK
<1>8. u = rwLeader => \A r \in relations : rwRules'[r] # {}
  BY <1>1, <1>2
<1> QED BY <1>4, <1>5, <1>6, <1>7, <1>8

LEMMA WriteInvStep == WriteInv /\ [RwNext]_rwVars => WriteInv'
<1> SUFFICES ASSUME WriteInv, [RwNext]_rwVars PROVE WriteInv'
  OBVIOUS
<1> USE RwAssumption DEF WriteInv
<1>1. ASSUME NEW r \in RwRelations, NEW u \in RwUnits, PushOnRelationJoined(r, u) PROVE WriteInv'
  <2>1. /\ r \in rwRelated /\ u \in rwUnits
        /\ rwJoined' = rwJoined \ {<<r, u>>}
        /\ PushAlerts(u, {r}) /\ Writes(u)
        /\ UNCHANGED <<rwRelated, rwServers, rwUrl, rwServerUrl, rwLoaded, rwUnits, rwLeader,
                       rwElected, rwEvents, rwServing>>
    BY <1>1 DEF PushOnRelationJoined, rwPrometheus, RwDataOK
  <2>2. /\ rwRules' \in [RwRelations -> SUBSET RwUnits]
        /\ RulesOfRelated' /\ RulesLoaded'
        /\ \A s \in rwRelated : rwRules[s] # {} => rwRules'[s] # {}
        /\ u = rwLeader => rwRules'[r] # {}
    BY <2>1, PushAlertsStep
  <2>3. UnitsWrite'
    BY <2>1, WritesStep DEF rwPrometheus
  <2>4. rwSends' \in [RwUnits -> SUBSET RwUrls]
    BY <2>1, EndpointsType DEF Writes, RwDataOK
  <2>5. RwDataOK'
    BY <2>1, <2>2, <2>4 DEF RwDataOK
  <2>6. LeaderPushes'
    BY <2>1, <2>2 DEF LeaderPushes
  <2> QED BY <2>1, <2>2, <2>3, <2>5, <2>6 DEF ServersPublish
<1>2. ASSUME NEW u \in RwUnits, EndpointsChanged(u) PROVE WriteInv'
  <2>1. /\ u \in rwUnits /\ rwEvents' = rwEvents \ {u} /\ Writes(u)
        /\ UNCHANGED <<rwRelated, rwServers, rwUrl, rwServerUrl, rwLoaded, rwUnits, rwLeader,
                       rwElected, rwRules, rwHeard, rwJoined, rwServing>>
    BY <1>2 DEF EndpointsChanged, rwPrometheus, rwPushed, RwDataOK
  <2>2. UnitsWrite'
    BY <2>1, WritesStep DEF rwPrometheus
  <2>3. rwSends' \in [RwUnits -> SUBSET RwUrls]
    BY <2>1, EndpointsType DEF Writes, RwDataOK
  <2>4. RwDataOK'
    BY <2>1, <2>3 DEF RwDataOK
  <2> QED BY <2>1, <2>2, <2>4 DEF ServersPublish, LeaderPushes, RulesOfRelated, RulesLoaded
<1>3. ASSUME NEW u \in RwUnits, PushToAll(u) PROVE WriteInv'
  <2>1. /\ u = rwLeader /\ u \in rwUnits
        /\ PushAlerts(u, rwRelated) /\ Writes(u) /\ rwElected' = FALSE
        /\ UNCHANGED <<rwRelated, rwServers, rwUrl, rwServerUrl, rwLoaded, rwUnits, rwLeader,
                       rwJoined, rwEvents, rwServing>>
    BY <1>3 DEF PushToAll, ElectedPushes, rwPrometheus, rwQueues, RwDataOK
  <2>2. /\ rwRules' \in [RwRelations -> SUBSET RwUnits]
        /\ RulesOfRelated' /\ RulesLoaded'
        /\ \A s \in rwRelated : rwRules'[s] # {}
    BY <2>1, PushAlertsStep
  <2>3. UnitsWrite'
    BY <2>1, WritesStep DEF rwPrometheus
  <2>4. rwSends' \in [RwUnits -> SUBSET RwUrls]
    BY <2>1, EndpointsType DEF Writes, RwDataOK
  <2>5. RwDataOK'
    BY <2>1, <2>2, <2>4 DEF RwDataOK
  <2> QED BY <2>1, <2>2, <2>3, <2>5 DEF ServersPublish, LeaderPushes
<1>4. ASSUME NEW r \in RwRelations, NEW p \in RwServers, SetEndpoint(r, p) PROVE WriteInv'
  <2>1. /\ rwServing' = rwServing \ {<<r, p>>}
        /\ rwUrl' = [rwUrl EXCEPT ![r][p] = rwServerUrl[r]]
        /\ rwEvents' = IF rwUrl'[r] # rwUrl[r] THEN rwEvents \cup rwUnits ELSE rwEvents
        /\ UNCHANGED <<rwRelated, rwServers, rwServerUrl, rwLoaded, rwUnits, rwLeader, rwElected,
                       rwRules, rwHeard, rwSends, rwJoined>>
    BY <1>4 DEF SetEndpoint, TellTempo, rwTempo, rwPushed
  <2>2. rwServerUrl[r] \in RwUrls
    BY DEF RwDataOK
  <2>3. /\ rwUrl' \in [RwRelations -> [RwServers -> RwUrls \cup {NoRwUrl}]]
        /\ rwUrl'[r][p] = rwServerUrl[r]
        /\ \A s \in RwRelations, q \in RwServers : <<s, q>> # <<r, p>> => rwUrl'[s][q] = rwUrl[s][q]
        /\ \A s \in RwRelations \ {r} : rwUrl'[s] = rwUrl[s]
    BY <2>1, <2>2 DEF RwDataOK
  <2>4. RwDataOK'
    BY <2>1, <2>3 DEF RwDataOK
  <2>5. ServersPublish'
    <3> SUFFICES ASSUME NEW s \in rwRelated, NEW q \in rwServers[s]
                 PROVE  rwUrl'[s][q] = rwServerUrl[s] \/ <<s, q>> \in rwServing'
      BY <2>1 DEF ServersPublish
    <3>1. s \in RwRelations /\ q \in RwServers
      BY DEF RwDataOK
    <3>2. CASE s = r /\ q = p
      BY <2>3, <3>2
    <3>3. CASE <<s, q>> # <<r, p>>
      BY <2>1, <2>3, <3>1, <3>3 DEF ServersPublish
    <3> QED BY <3>2, <3>3
  <2>6. UnitsWrite'
    <3>1. CASE rwUrl'[r] # rwUrl[r]
      BY <2>1, <3>1 DEF UnitsWrite
    <3>2. CASE rwUrl'[r] = rwUrl[r]
      <4>1. RwEndpoints' = RwEndpoints
        BY <2>1, <2>3, <3>2, SameEndpoints DEF RwDataOK
      <4> QED BY <2>1, <3>2, <4>1 DEF UnitsWrite, JoinedTo
    <3> QED BY <3>1, <3>2
  <2> QED BY <2>1, <2>4, <2>5, <2>6 DEF LeaderPushes, RulesOfRelated, RulesLoaded
<1>5. ASSUME NEW r \in RwRelations, PrometheusReads(r) PROVE WriteInv'
  <2>1. /\ rwHeard' = rwHeard \ {r}
        /\ rwLoaded' = [rwLoaded EXCEPT ![r] = LoadedRules(r)]
        /\ UNCHANGED <<rwRelated, rwServers, rwUrl, rwServerUrl, rwUnits, rwLeader, rwElected,
                       rwRules, rwSends, rwJoined, rwEvents, rwServing>>
    BY <1>5 DEF PrometheusReads
  <2>2. LoadedRules(r) = rwRules[r]
    BY DEF LoadedRules, RulesOfRelated
  <2>3. RwDataOK' /\ RulesLoaded'
    BY <2>1, <2>2 DEF RwDataOK, RulesLoaded
  <2>4. RwEndpoints' = RwEndpoints
    BY <2>1, SameEndpoints
  <2> QED
    BY <2>1, <2>3, <2>4 DEF ServersPublish, UnitsWrite, JoinedTo, LeaderPushes, RulesOfRelated
<1>6. ASSUME NEW r \in RwRelations, RelateRw(r) PROVE WriteInv'
  <2>1. /\ r \notin rwRelated /\ rwRelated' = rwRelated \cup {r}
        /\ rwJoined' = rwJoined \cup ({r} \X rwUnits)
        /\ rwEvents' = rwUnits
        /\ rwServing' = rwServing \cup ({r} \X rwServers[r])
        /\ UNCHANGED <<rwServers, rwUrl, rwServerUrl, rwLoaded, rwUnits, rwLeader, rwElected,
                       rwRules, rwHeard, rwSends>>
    BY <1>6 DEF RelateRw, rwPrometheus, rwTempo, rwPushed
  <2>2. RwDataOK'
    BY <2>1 DEF RwDataOK
  <2>3. ServersPublish' /\ UnitsWrite'
    BY <2>1 DEF ServersPublish, UnitsWrite
  <2>4. LeaderPushes'
    BY <2>1 DEF LeaderPushes, RwDataOK
  <2> QED BY <2>1, <2>2, <2>3, <2>4 DEF RulesOfRelated, RulesLoaded
<1>7. ASSUME NEW r \in RwRelations, RemoveRw(r) PROVE WriteInv'
  <2>1. /\ rwRelated' = rwRelated \ {r}
        /\ rwUrl' = [rwUrl EXCEPT ![r] = [p \in RwServers |-> NoRwUrl]]
        /\ rwRules' = [rwRules EXCEPT ![r] = {}]
        /\ rwJoined' = {e \in rwJoined : e[1] # r}
        /\ rwEvents' = rwUnits
        /\ rwServing' = {e \in rwServing : e[1] # r}
        /\ rwHeard' = rwHeard \cup {r}
        /\ UNCHANGED <<rwServers, rwServerUrl, rwLoaded, rwUnits, rwLeader, rwElected, rwSends>>
    BY <1>7 DEF RemoveRw, BrokenTells
  <2>2. rwUrl' \in [RwRelations -> [RwServers -> RwUrls \cup {NoRwUrl}]]
    BY <2>1 DEF RwDataOK
  <2>3. rwJoined' \subseteq rwRelated' \X rwUnits'
    BY <2>1 DEF RwDataOK
  <2>4. RwDataOK'
    BY <2>1, <2>2, <2>3 DEF RwDataOK
  <2>5. ServersPublish' /\ UnitsWrite'
    BY <2>1 DEF ServersPublish, UnitsWrite, RwDataOK
  <2>6. LeaderPushes'
    BY <2>1 DEF LeaderPushes, RwDataOK
  <2> QED BY <2>1, <2>4, <2>5, <2>6 DEF RulesOfRelated, RulesLoaded, RwDataOK
<1>8. ASSUME NEW r \in RwRelations, NEW p \in RwServers, AddServer(r, p) PROVE WriteInv'
  <2>1. /\ rwServers' = [rwServers EXCEPT ![r] = @ \cup {p}]
        /\ rwServing' = IF r \in rwRelated THEN rwServing \cup {<<r, p>>} ELSE rwServing
        /\ rwEvents' = IF r \in rwRelated THEN rwUnits ELSE rwEvents
        /\ UNCHANGED <<rwRelated, rwUrl, rwServerUrl, rwLoaded, rwUnits, rwLeader, rwElected,
                       rwRules, rwHeard, rwSends, rwJoined>>
    BY <1>8 DEF AddServer, rwTempo, rwPushed
  <2>2. RwDataOK'
    BY <2>1 DEF RwDataOK
  <2>3. ServersPublish'
    BY <2>1 DEF ServersPublish, RwDataOK
  <2>4. UnitsWrite'
    <3>1. CASE r \in rwRelated
      BY <2>1, <3>1 DEF UnitsWrite
    <3>2. CASE r \notin rwRelated
      <4>1. RwEndpoints' = RwEndpoints
        BY <2>1, <3>2, SameEndpoints DEF RwDataOK
      <4> QED BY <2>1, <3>2, <4>1 DEF UnitsWrite, JoinedTo
    <3> QED BY <3>1, <3>2
  <2> QED BY <2>1, <2>2, <2>3, <2>4 DEF LeaderPushes, RulesOfRelated, RulesLoaded
<1>9. ASSUME NEW r \in RwRelations, NEW p \in RwServers, RemoveServer(r, p) PROVE WriteInv'
  <2>1. /\ p \in rwServers[r] /\ rwServers[r] # {p}
        /\ rwServers' = [rwServers EXCEPT ![r] = @ \ {p}]
        /\ rwUrl' = [rwUrl EXCEPT ![r][p] = NoRwUrl]
        /\ rwServing' = rwServing \ {<<r, p>>}
        /\ rwEvents' = IF r \in rwRelated THEN rwUnits ELSE rwEvents
        /\ UNCHANGED <<rwRelated, rwServerUrl, rwLoaded, rwUnits, rwLeader, rwElected, rwRules,
                       rwHeard, rwSends, rwJoined>>
    BY <1>9 DEF RemoveServer, rwTempo, rwPushed
  <2>2. /\ rwUrl' \in [RwRelations -> [RwServers -> RwUrls \cup {NoRwUrl}]]
        /\ \A s \in RwRelations, q \in RwServers : <<s, q>> # <<r, p>> => rwUrl'[s][q] = rwUrl[s][q]
        /\ \A s \in RwRelations \ {r} : rwUrl'[s] = rwUrl[s]
    BY <2>1 DEF RwDataOK
  <2>3. /\ rwServers' \in [RwRelations -> SUBSET RwServers]
        /\ \A s \in RwRelations : rwServers'[s] # {}
        /\ rwServers'[r] = rwServers[r] \ {p}
        /\ \A s \in RwRelations \ {r} : rwServers'[s] = rwServers[s]
    BY <2>1 DEF RwDataOK
  <2>4. RwDataOK'
    BY <2>1, <2>2, <2>3 DEF RwDataOK
  <2>5. ServersPublish'
    <3> SUFFICES ASSUME NEW s \in rwRelated, NEW q \in rwServers'[s]
                 PROVE  rwUrl'[s][q] = rwServerUrl[s] \/ <<s, q>> \in rwServing'
      BY <2>1 DEF ServersPublish
    <3>1. s \in RwRelations /\ q \in RwServers /\ q \in rwServers[s] /\ <<s, q>> # <<r, p>>
      BY <2>3 DEF RwDataOK
    <3> QED BY <2>1, <2>2, <3>1 DEF ServersPublish
  <2>6. UnitsWrite'
    <3>1. CASE r \in rwRelated
      BY <2>1, <3>1 DEF UnitsWrite
    <3>2. CASE r \notin rwRelated
      <4>1. RwEndpoints' = RwEndpoints
        BY <2>1, <2>2, <2>3, <3>2, SameEndpoints DEF RwDataOK
      <4> QED BY <2>1, <3>2, <4>1 DEF UnitsWrite, JoinedTo
    <3> QED BY <3>1, <3>2
  <2> QED BY <2>1, <2>4, <2>5, <2>6 DEF LeaderPushes, RulesOfRelated, RulesLoaded
<1>10. ASSUME NEW r \in RwRelations, NEW url \in RwUrls, MoveServer(r, url) PROVE WriteInv'
  <2>1. /\ rwServerUrl' = [rwServerUrl EXCEPT ![r] = url]
        /\ rwServing' = IF r \in rwRelated THEN rwServing \cup ({r} \X rwServers[r]) ELSE rwServing
        /\ UNCHANGED <<rwRelated, rwServers, rwUrl, rwLoaded, rwUnits, rwLeader, rwElected,
                       rwRules, rwHeard, rwSends, rwJoined, rwEvents>>
    BY <1>10 DEF MoveServer, rwTempo, rwPushed
  <2>2. RwDataOK'
    BY <2>1 DEF RwDataOK
  <2>3. ServersPublish'
    BY <2>1 DEF ServersPublish, RwDataOK
  <2>4. RwEndpoints' = RwEndpoints
    BY <2>1, SameEndpoints
  <2> QED
    BY <2>1, <2>2, <2>3, <2>4 DEF UnitsWrite, JoinedTo, LeaderPushes, RulesOfRelated, RulesLoaded
<1>11. ASSUME NEW u \in RwUnits, AddWriter(u) PROVE WriteInv'
  <2>1. /\ u \notin rwUnits /\ rwUnits' = rwUnits \cup {u}
        /\ rwJoined' = rwJoined \cup (rwRelated \X {u})
        /\ rwEvents' = rwEvents \cup rwUnits'
        /\ rwSends' = [rwSends EXCEPT ![u] = {}]
        /\ UNCHANGED <<rwRelated, rwServers, rwUrl, rwServerUrl, rwLoaded, rwLeader, rwElected,
                       rwRules, rwHeard, rwServing>>
    BY <1>11 DEF AddWriter, rwPrometheus, rwPushed
  <2>2. RwDataOK'
    BY <2>1 DEF RwDataOK
  <2>3. LeaderPushes'
    BY <2>1 DEF LeaderPushes, RwDataOK
  <2> QED BY <2>1, <2>2, <2>3 DEF ServersPublish, UnitsWrite, RulesOfRelated, RulesLoaded
<1>12. ASSUME NEW u \in RwUnits, NEW next \in RwUnits, RemoveWriter(u, next) PROVE WriteInv'
  <2>1. /\ next \in rwUnits \ {u} /\ rwUnits' = rwUnits \ {u}
        /\ rwJoined' = {e \in rwJoined : e[2] # u}
        /\ rwEvents' = rwUnits'
        /\ rwLeader' = IF rwLeader = u THEN next ELSE rwLeader
        /\ rwElected' = (rwElected \/ rwLeader = u)
        /\ UNCHANGED <<rwRelated, rwServers, rwUrl, rwServerUrl, rwLoaded, rwRules, rwHeard,
                       rwSends, rwServing>>
    BY <1>12 DEF RemoveWriter, rwPrometheus, rwPushed
  <2>2. rwLeader' \in rwUnits' /\ rwElected' \in BOOLEAN
    BY <2>1 DEF RwDataOK
  <2>3. rwJoined' \subseteq rwRelated' \X rwUnits'
    BY <2>1 DEF RwDataOK
  <2>4. RwDataOK'
    BY <2>1, <2>2, <2>3 DEF RwDataOK
  <2>5. LeaderPushes'
    <3>1. CASE rwLeader = u
      BY <2>1, <3>1 DEF LeaderPushes
    <3>2. CASE rwLeader # u
      BY <2>1, <3>2 DEF LeaderPushes
    <3> QED BY <3>1, <3>2
  <2> QED BY <2>1, <2>4, <2>5 DEF ServersPublish, UnitsWrite, RulesOfRelated, RulesLoaded
<1>13. CASE UNCHANGED rwVars
  <2>1. UNCHANGED <<rwRelated, rwServers, rwUrl, rwServerUrl, rwLoaded, rwUnits, rwLeader,
                    rwElected, rwRules, rwHeard, rwSends, rwJoined, rwEvents, rwServing>>
    BY <1>13 DEF rwVars, rwPrometheus, rwTempo, rwPushed, rwQueues
  <2>2. RwEndpoints' = RwEndpoints
    BY <2>1 DEF RwEndpoints
  <2> QED
    BY <2>1, <2>2 DEF RwDataOK, ServersPublish, UnitsWrite, JoinedTo, LeaderPushes,
                      RulesOfRelated, RulesLoaded
<1> QED
  BY <1>1, <1>2, <1>3, <1>4, <1>5, <1>6, <1>7, <1>8, <1>9, <1>10, <1>11, <1>12, <1>13 DEF RwNext

\* Events are of relations and units there are, but for those of a broken relation.
LEMMA WriteQueues == RwSpec => []RwTypeOK
<1> USE RwAssumption
<1>1. RwInit => RwQueuesOK
  BY DEF RwInit, RwQueuesOK
<1>2. WriteInv /\ RwQueuesOK /\ [RwNext]_rwVars => RwQueuesOK'
  <2> SUFFICES ASSUME WriteInv, RwQueuesOK, [RwNext]_rwVars PROVE RwQueuesOK'
    OBVIOUS
  <2> USE DEF RwQueuesOK, WriteInv, RwDataOK, rwPrometheus, rwTempo, rwPushed, RwChange
  <2>1. ASSUME NEW r \in RwRelations,
               RelateRw(r) \/ RemoveRw(r) \/ PrometheusReads(r)
                 \/ (\E url \in RwUrls : MoveServer(r, url))
        PROVE  RwQueuesOK'
    <3>1. rwServers[r] \subseteq RwServers
      OBVIOUS
    <3>2. CASE RelateRw(r)
      BY <3>1, <3>2 DEF RelateRw
    <3>3. CASE RemoveRw(r)
      BY <3>3 DEF RemoveRw
    <3>4. CASE PrometheusReads(r)
      BY <3>4 DEF PrometheusReads
    <3>5. CASE \E url \in RwUrls : MoveServer(r, url)
      BY <3>1, <3>5 DEF MoveServer
    <3> QED BY <2>1, <3>2, <3>3, <3>4, <3>5
  <2>2. ASSUME NEW r \in RwRelations, NEW p \in RwServers,
               AddServer(r, p) \/ RemoveServer(r, p) \/ SetEndpoint(r, p)
        PROVE  RwQueuesOK'
    <3>1. CASE AddServer(r, p)
      BY <3>1 DEF AddServer
    <3>2. CASE RemoveServer(r, p)
      BY <3>2 DEF RemoveServer
    <3>3. CASE SetEndpoint(r, p)
      BY <3>3 DEF SetEndpoint
    <3> QED BY <2>2, <3>1, <3>2, <3>3
  <2>3. ASSUME NEW r \in RwRelations, NEW u \in RwUnits, PushOnRelationJoined(r, u)
        PROVE  RwQueuesOK'
    BY <2>3 DEF PushOnRelationJoined, PushAlerts, TellPrometheus
  <2>4. ASSUME NEW u \in RwUnits,
               AddWriter(u) \/ EndpointsChanged(u) \/ PushToAll(u)
                 \/ (\E next \in RwUnits : RemoveWriter(u, next))
        PROVE  RwQueuesOK'
    <3>1. CASE AddWriter(u)
      BY <3>1 DEF AddWriter
    <3>2. CASE EndpointsChanged(u)
      BY <3>2 DEF EndpointsChanged
    <3>3. CASE PushToAll(u)
      BY <3>3 DEF PushToAll, PushAlerts, TellPrometheus, rwQueues
    <3>4. CASE \E next \in RwUnits : RemoveWriter(u, next)
      BY <3>4 DEF RemoveWriter
    <3> QED BY <2>4, <3>1, <3>2, <3>3, <3>4
  <2>5. CASE UNCHANGED rwVars
    BY <2>5 DEF rwVars, rwQueues
  <2> QED BY <2>1, <2>2, <2>3, <2>4, <2>5 DEF RwNext
<1>3. WriteInv => RwDataOK
  BY DEF WriteInv
<1> QED BY <1>1, <1>2, <1>3, WriteInvInit, WriteInvStep, PTL DEF RwSpec, RwTypeOK

\* Every unit of Tempo that has handled its events writes to where the
\* Prometheus units are, no relation is without rules for a change of leader, and
\* a Prometheus that has heard it all has the rules pushed last.
THEOREM RemoteWriteIsCurrent == RwSpec => []RemoteWriteCurrent
<1>1. RwSpec => []WriteInv
  BY WriteInvInit, WriteInvStep, PTL DEF RwSpec
<1>2. WriteInv => RemoteWriteCurrent
  <2> SUFFICES ASSUME WriteInv PROVE EndpointsCurrent /\ RulesPushed /\ RulesLoaded
    BY DEF RemoteWriteCurrent
  <2> USE DEF WriteInv
  <2>1. EndpointsCurrent
    BY EndpointsArePublished DEF EndpointsCurrent, UnitsWrite, JoinedTo
  <2>2. RulesPushed
    BY DEF RulesPushed, LeaderPushes
  <2> QED BY <2>1, <2>2
<1> QED BY <1>1, <1>2, PTL

-------------------------------------------------------------------------------
(***************************************************************************)
(* Datasources (GrafanaDatasources).                                       *)
(*                                                                         *)
(* What a unit of Tempo has not written it has an event for; Grafana has a *)
(* change to handle, or it knows the sources in the databags and dooms     *)
(* none of them; and a unit it knows is there, or its departure is due.    *)
(***************************************************************************)

\* A relation is counted when it is made, and there are as many as changes.
RelationsCounted ==
  /\ sourceChanges <= MaxSourceChanges /\ TempoLeader \in units
  /\ related \in [Grafanas -> Nat] /\ \A g \in Grafanas : related[g] <= sourceChanges

HostsWritten ==
  \A g \in Grafanas :
    IF Related(g)
    THEN /\ IF UnitDatasources THEN units \ sourcePending \subseteq hosts[g] ELSE hosts[g] = {}
         /\ appData[g] \/ TempoLeader \in sourcePending
    ELSE hosts[g] = {} /\ ~appData[g]

NothingAhead ==
  \A g \in Grafanas, i \in RelationIds :
    i > related[g] => sources[g][i] = {} /\ \A u \in TempoUnits : <<i, u>> \notin departed[g]

KnownAreThere ==
  \A g \in Grafanas, i \in RelationIds : \A u \in sources[g][i] \cap TempoUnits :
    <<i, u>> \in departed[g] \/ (i = relation[g] /\ u \in units)

NothingUnwritten ==
  \A g \in Grafanas : Related(g) /\ ~appData[g] => sources[g][relation[g]] = {}

\* The sources of Grafana's relation without those whose departure is due.
Remaining(g) == {n \in sources[g][relation[g]] : <<relation[g], n>> \notin departed[g]}

SourcesFollow ==
  \A g \in Grafanas : Related(g) => changed[g] \/ Remaining(g) = SourceConfig(g)

NothingDoomed ==
  \A g \in Grafanas :
    \/ changed[g]
    \/ /\ toDelete[g] \cap SourceConfig(g) = {}
       /\ \A i \in RelationIds, u \in TempoUnits : <<i, u>> \in departed[g] => u \notin hosts[g]

ExchangeFollows == TempoLeader \in sourcePending \/ exchange = RawDatasources

SourcesInv ==
  /\ SourcesTypeOK /\ RelationsCounted /\ HostsWritten /\ NothingAhead /\ KnownAreThere
  /\ NothingUnwritten /\ SourcesFollow /\ NothingDoomed /\ ExchangeFollows

LEMMA SourcesInvInit == SourcesInit => SourcesInv
<1> SUFFICES ASSUME SourcesInit PROVE SourcesInv
  OBVIOUS
<1> USE DatasourcesAssumption
<1>1. \A g \in Grafanas : ~Related(g) /\ hosts[g] = {} /\ ~appData[g] /\ ~changed[g]
                          /\ departed[g] = {} /\ related[g] = 0 /\ toDelete[g] = {}
  BY DEF SourcesInit, Related
<1>2. \A g \in Grafanas, i \in RelationIds : sources[g][i] = {}
  BY DEF SourcesInit
<1>3. sources \in [Grafanas -> [RelationIds -> SUBSET Names]]
  BY DEF SourcesInit
<1>4. relation \in [Grafanas -> {0} \cup RelationIds] /\ related \in [Grafanas -> Nat]
  BY DEF SourcesInit
<1>5. /\ hosts \in [Grafanas -> SUBSET units] /\ appData \in [Grafanas -> BOOLEAN]
      /\ changed \in [Grafanas -> BOOLEAN]
      /\ departed \in [Grafanas -> SUBSET (RelationIds \X TempoUnits)]
  BY DEF SourcesInit
<1>6. toDelete \in [Grafanas -> SUBSET Names] /\ uids \in [Grafanas -> SUBSET Names]
  BY DEF SourcesInit
<1>7. SourcesTypeOK
  BY <1>3, <1>4, <1>5, <1>6 DEF SourcesInit, SourcesTypeOK
<1>8. RelationsCounted
  BY <1>1, <1>4 DEF SourcesInit, RelationsCounted
<1>9. \A g \in Grafanas : SourceConfig(g) = {} /\ SourceUids(g) = {}
  BY <1>1 DEF SourceConfig, SourceUids
<1>10. ExchangeFollows
  BY <1>9 DEF SourcesInit, ExchangeFollows, RawDatasources
<1>11. HostsWritten
  BY <1>1 DEF HostsWritten
<1>12. NothingAhead /\ KnownAreThere
  BY <1>1, <1>2 DEF NothingAhead, KnownAreThere
<1>13. NothingUnwritten /\ SourcesFollow /\ NothingDoomed
  BY <1>1, <1>9 DEF NothingUnwritten, SourcesFollow, NothingDoomed
<1> QED BY <1>7, <1>8, <1>10, <1>11, <1>12, <1>13 DEF SourcesInv

\* Of the sources of a related Grafana those that can be read are typed.
LEMMA SourceConfigType ==
  ASSUME SourcesInv, NEW g \in Grafanas
  PROVE  /\ SourceConfig(g) \subseteq hosts[g] \cup {AppName}
         /\ SourceConfig(g) \cap TempoUnits \subseteq hosts[g]
         /\ hosts[g] \subseteq units /\ SourceConfig(g) \subseteq Names
         /\ ~appData[g] => SourceConfig(g) = {}
         /\ ~Related(g) => SourceConfig(g) = {}
         /\ Related(g) => relation[g] \in RelationIds /\ relation[g] <= related[g]
BY DatasourcesAssumption
   DEF SourcesInv, SourcesTypeOK, HostsWritten, SourceConfig, Names, Related

\* The exchange would be fed the same while the relations and the UIDs are.
LEMMA SameExchange ==
  ASSUME \A g \in Grafanas : relation'[g] = relation[g] /\ uids'[g] = uids[g]
  PROVE  RawDatasources' = RawDatasources
<1>1. \A g \in Grafanas : SourceUids(g)' = SourceUids(g)
  BY DEF SourceUids, Related
<1>2. {{g} \X SourceUids(g) : g \in Grafanas}' = {{g} \X SourceUids(g) : g \in Grafanas}
  BY <1>1
<1> QED BY <1>2 DEF RawDatasources

LEMMA RelateStep == ASSUME SourcesInv, NEW g \in Grafanas, Relate(g) PROVE SourcesInv'
<1> USE DatasourcesAssumption DEF SourcesInv
<1>1. /\ ~Related(g) /\ sourceChanges < MaxSourceChanges /\ sourceChanges' = sourceChanges + 1
      /\ relation' = [relation EXCEPT ![g] = related[g] + 1]
      /\ related' = [related EXCEPT ![g] = @ + 1]
      /\ sourcePending' = units
      /\ UNCHANGED <<units, hosts, appData, exchange, changed, departed, sources, toDelete, uids>>
  BY DEF Relate, Change, grafana
<1>2. related[g] + 1 \in RelationIds /\ related[g] \in Nat
  BY <1>1 DEF RelationsCounted, RelationIds, SourcesTypeOK
<1>3. /\ relation' \in [Grafanas -> {0} \cup RelationIds] /\ related' \in [Grafanas -> Nat]
      /\ relation'[g] = related[g] + 1 /\ related'[g] = related[g] + 1
      /\ \A h \in Grafanas \ {g} : relation'[h] = relation[h] /\ related'[h] = related[h]
  BY <1>1, <1>2 DEF RelationsCounted, SourcesTypeOK
<1>4. \A h \in Grafanas : relation'[h] <= related'[h]
  BY <1>2, <1>3 DEF SourcesTypeOK
<1>5. \A h \in Grafanas : related'[h] <= sourceChanges'
  BY <1>1, <1>3 DEF RelationsCounted, SourcesTypeOK
<1>6. SourcesTypeOK'
  BY <1>1, <1>3, <1>4 DEF SourcesTypeOK
<1>7. RelationsCounted'
  BY <1>1, <1>3, <1>5 DEF RelationsCounted, SourcesTypeOK
<1>8. hosts[g] = {} /\ ~appData[g] /\ SourceConfig(g) = {} /\ sources[g][related[g] + 1] = {}
  BY <1>1, <1>2, SourceConfigType DEF HostsWritten, NothingAhead
<1>9. \A h \in Grafanas : SourceConfig(h)' = SourceConfig(h)
  BY <1>1 DEF SourceConfig
<1>10. HostsWritten'
  BY <1>1, <1>3, <1>8 DEF HostsWritten, RelationsCounted, Related
<1>11. NothingAhead'
  BY <1>1, <1>2, <1>3 DEF NothingAhead, RelationIds, RelationsCounted
<1>12. KnownAreThere'
  <2> SUFFICES ASSUME NEW h \in Grafanas, NEW i \in RelationIds,
                      NEW u \in sources[h][i] \cap TempoUnits
               PROVE  <<i, u>> \in departed[h] \/ (i = relation'[h] /\ u \in units)
    BY <1>1 DEF KnownAreThere
  <2>1. <<i, u>> \in departed[h] \/ (i = relation[h] /\ u \in units)
    BY DEF KnownAreThere
  <2>2. relation[g] = 0 /\ i # 0
    BY <1>1 DEF Related, RelationIds
  <2> QED BY <1>3, <2>1, <2>2
<1>13. NothingUnwritten'
  BY <1>1, <1>3, <1>8 DEF NothingUnwritten, Related
<1>14. Remaining(g)' = {} /\ \A h \in Grafanas \ {g} : Remaining(h)' = Remaining(h)
  BY <1>1, <1>3, <1>8 DEF Remaining
<1>15. SourcesFollow'
  BY <1>1, <1>3, <1>8, <1>9, <1>14 DEF SourcesFollow, Related
<1>16. NothingDoomed'
  BY <1>1, <1>9 DEF NothingDoomed
<1>17. ExchangeFollows'
  BY <1>1 DEF ExchangeFollows, RelationsCounted
<1> QED BY <1>6, <1>7, <1>10, <1>11, <1>12, <1>13, <1>15, <1>16, <1>17

LEMMA UnrelateStep == ASSUME SourcesInv, NEW g \in Grafanas, Unrelate(g) PROVE SourcesInv'
<1> USE DatasourcesAssumption DEF SourcesInv
<1>1. /\ Related(g) /\ sourceChanges < MaxSourceChanges /\ sourceChanges' = sourceChanges + 1
      /\ relation' = [relation EXCEPT ![g] = 0]
      /\ departed' = [departed EXCEPT ![g] = @ \cup ({relation[g]} \X units)]
      /\ hosts' = [hosts EXCEPT ![g] = {}]
      /\ appData' = [appData EXCEPT ![g] = FALSE]
      /\ uids' = [uids EXCEPT ![g] = {}]
      /\ sourcePending' = units
      /\ UNCHANGED <<units, related, exchange, changed, sources, toDelete>>
  BY DEF Unrelate, Change
<1>2. relation[g] \in RelationIds /\ relation[g] <= related[g] /\ units \subseteq TempoUnits
  BY <1>1, SourceConfigType DEF SourcesTypeOK
<1>3. /\ relation' \in [Grafanas -> {0} \cup RelationIds] /\ relation'[g] = 0
      /\ \A h \in Grafanas \ {g} : relation'[h] = relation[h]
  BY <1>1 DEF SourcesTypeOK
<1>4. /\ hosts' \in [Grafanas -> SUBSET units] /\ hosts'[g] = {}
      /\ \A h \in Grafanas \ {g} : hosts'[h] = hosts[h]
  BY <1>1 DEF SourcesTypeOK
<1>5. /\ appData' \in [Grafanas -> BOOLEAN] /\ ~appData'[g]
      /\ \A h \in Grafanas \ {g} : appData'[h] = appData[h]
  BY <1>1 DEF SourcesTypeOK
<1>6. /\ departed' \in [Grafanas -> SUBSET (RelationIds \X TempoUnits)]
      /\ departed'[g] = departed[g] \cup ({relation[g]} \X units)
      /\ \A h \in Grafanas \ {g} : departed'[h] = departed[h]
  BY <1>1, <1>2 DEF SourcesTypeOK
<1>7. uids' \in [Grafanas -> SUBSET Names]
  BY <1>1 DEF SourcesTypeOK
<1>8. \A h \in Grafanas : relation'[h] <= related'[h]
  BY <1>1, <1>3 DEF SourcesTypeOK, RelationsCounted
<1>9. SourcesTypeOK'
  BY <1>1, <1>3, <1>4, <1>5, <1>6, <1>7, <1>8 DEF SourcesTypeOK
<1>10. RelationsCounted'
  BY <1>1 DEF RelationsCounted, SourcesTypeOK
<1>11. SourceConfig(g)' = {} /\ \A h \in Grafanas \ {g} : SourceConfig(h)' = SourceConfig(h)
  BY <1>4, <1>5 DEF SourceConfig
<1>12. ~Related(g)' /\ \A h \in Grafanas \ {g} : Related(h)' <=> Related(h)
  BY <1>3 DEF Related
<1>13. HostsWritten'
  BY <1>1, <1>4, <1>5, <1>12 DEF HostsWritten, RelationsCounted
<1>14. NothingAhead'
  BY <1>1, <1>2, <1>6 DEF NothingAhead, RelationsCounted, RelationIds
<1>15. KnownAreThere'
  <2> SUFFICES ASSUME NEW h \in Grafanas, NEW i \in RelationIds,
                      NEW u \in sources[h][i] \cap TempoUnits
               PROVE  <<i, u>> \in departed'[h] \/ (i = relation'[h] /\ u \in units)
    BY <1>1 DEF KnownAreThere
  <2>1. <<i, u>> \in departed[h] \/ (i = relation[h] /\ u \in units)
    BY DEF KnownAreThere
  <2> QED BY <1>3, <1>6, <2>1
<1>16. NothingUnwritten'
  BY <1>1, <1>3, <1>5, <1>12 DEF NothingUnwritten
<1>17. SourcesFollow'
  BY <1>1, <1>3, <1>6, <1>11, <1>12 DEF SourcesFollow, Remaining
<1>18. NothingDoomed'
  BY <1>1, <1>4, <1>6, <1>11 DEF NothingDoomed
<1>19. ExchangeFollows'
  BY <1>1 DEF ExchangeFollows, RelationsCounted
<1> QED BY <1>9, <1>10, <1>13, <1>14, <1>15, <1>16, <1>17, <1>18, <1>19

LEMMA OtherChangeStep == ASSUME SourcesInv, NEW g \in Grafanas, OtherChange(g) PROVE SourcesInv'
<1> USE DatasourcesAssumption DEF SourcesInv
<1>1. /\ sourceChanges < MaxSourceChanges /\ sourceChanges' = sourceChanges + 1
      /\ changed' = [changed EXCEPT ![g] = TRUE]
      /\ UNCHANGED <<units, relation, related, sourcePending, hosts, appData, exchange, departed,
                     sources, toDelete, uids>>
  BY DEF OtherChange, Change, tempo
<1>2. SourcesTypeOK'
  BY <1>1 DEF SourcesTypeOK
<1>3. RelationsCounted'
  BY <1>1 DEF RelationsCounted, SourcesTypeOK
<1>4. \A h \in Grafanas : changed[h] => changed'[h]
  BY <1>1 DEF SourcesTypeOK
<1>5. RawDatasources' = RawDatasources
  BY <1>1, SameExchange
<1> QED
  BY <1>1, <1>2, <1>3, <1>4, <1>5
     DEF HostsWritten, NothingAhead, KnownAreThere, NothingUnwritten, SourcesFollow,
         NothingDoomed, ExchangeFollows, Related, Remaining, SourceConfig

LEMMA AddUnitStep == ASSUME SourcesInv, NEW u \in TempoUnits, AddUnit(u) PROVE SourcesInv'
<1> USE DatasourcesAssumption DEF SourcesInv
<1>1. /\ sourceChanges < MaxSourceChanges /\ sourceChanges' = sourceChanges + 1
      /\ units' = units \cup {u} /\ sourcePending' = sourcePending \cup {u}
      /\ UNCHANGED <<relation, related, hosts, appData, exchange, changed, departed, sources,
                     toDelete, uids>>
  BY DEF AddUnit, Change, grafana
<1>2. hosts \in [Grafanas -> SUBSET units']
  BY <1>1 DEF SourcesTypeOK
<1>3. SourcesTypeOK'
  BY <1>1, <1>2 DEF SourcesTypeOK
<1>4. RelationsCounted'
  BY <1>1 DEF RelationsCounted, SourcesTypeOK
<1>5. RawDatasources' = RawDatasources
  BY <1>1, SameExchange
<1>6. HostsWritten'
  BY <1>1 DEF HostsWritten, Related
<1> QED
  BY <1>1, <1>3, <1>4, <1>5, <1>6
     DEF NothingAhead, KnownAreThere, NothingUnwritten, SourcesFollow,
         NothingDoomed, ExchangeFollows, Related, Remaining, SourceConfig

LEMMA RemoveUnitStep == ASSUME SourcesInv, NEW u \in TempoUnits, RemoveUnit(u) PROVE SourcesInv'
<1> USE DatasourcesAssumption DEF SourcesInv
<1>1. /\ u # TempoLeader /\ u \in units
      /\ sourceChanges < MaxSourceChanges /\ sourceChanges' = sourceChanges + 1
      /\ units' = units \ {u} /\ sourcePending' = sourcePending \ {u}
      /\ hosts' = [g \in Grafanas |-> hosts[g] \ {u}]
      /\ departed' = [g \in Grafanas |->
                        IF Related(g) THEN departed[g] \cup {<<relation[g], u>>} ELSE departed[g]]
      /\ UNCHANGED <<relation, related, appData, exchange, changed, sources, toDelete, uids>>
  BY DEF RemoveUnit, Change
<1>2. hosts' \in [Grafanas -> SUBSET units']
  BY <1>1 DEF SourcesTypeOK
<1>3. departed' \in [Grafanas -> SUBSET (RelationIds \X TempoUnits)]
  <2>1. ASSUME NEW g \in Grafanas
        PROVE (IF Related(g) THEN departed[g] \cup {<<relation[g], u>>} ELSE departed[g])
                \in SUBSET (RelationIds \X TempoUnits)
    BY SourceConfigType DEF SourcesTypeOK
  <2> QED BY <1>1, <2>1
<1>4. SourcesTypeOK'
  BY <1>1, <1>2, <1>3 DEF SourcesTypeOK
<1>5. RelationsCounted'
  BY <1>1 DEF RelationsCounted, SourcesTypeOK
<1>6. RawDatasources' = RawDatasources
  BY <1>1, SameExchange
<1>7. ExchangeFollows'
  BY <1>1, <1>6 DEF ExchangeFollows
<1>8. HostsWritten'
  BY <1>1 DEF HostsWritten, Related
<1>9. NothingAhead'
  <2> SUFFICES ASSUME NEW g \in Grafanas, NEW i \in RelationIds, i > related[g], NEW v \in TempoUnits
               PROVE  <<i, v>> \notin departed'[g]
    BY <1>1 DEF NothingAhead
  <2>1. <<i, v>> \notin departed[g]
    BY DEF NothingAhead
  <2>2. Related(g) => relation[g] # i
    BY SourceConfigType DEF RelationIds, RelationsCounted
  <2> QED BY <1>1, <2>1, <2>2
<1>10. KnownAreThere'
  <2> SUFFICES ASSUME NEW g \in Grafanas, NEW i \in RelationIds,
                      NEW v \in sources[g][i] \cap TempoUnits
               PROVE  <<i, v>> \in departed'[g] \/ (i = relation[g] /\ v \in units')
    BY <1>1 DEF KnownAreThere
  <2>1. <<i, v>> \in departed[g] \/ (i = relation[g] /\ v \in units)
    BY DEF KnownAreThere
  <2>2. i = relation[g] => Related(g)
    BY DEF Related, RelationIds
  <2> QED BY <1>1, <2>1, <2>2
<1>11. NothingUnwritten'
  BY <1>1 DEF NothingUnwritten, Related
<1>12. \A g \in Grafanas : SourceConfig(g)' = SourceConfig(g) \ {u}
  BY <1>1 DEF SourceConfig
<1>13. SourcesFollow'
  <2> SUFFICES ASSUME NEW g \in Grafanas, Related(g), ~changed[g]
               PROVE  Remaining(g)' = SourceConfig(g)'
    BY <1>1 DEF SourcesFollow, Related
  <2>1. Remaining(g)' = Remaining(g) \ {u}
    BY <1>1 DEF Remaining
  <2> QED BY <1>12, <2>1 DEF SourcesFollow
<1>14. NothingDoomed'
  <2> SUFFICES ASSUME NEW g \in Grafanas, ~changed[g]
               PROVE  /\ toDelete[g] \cap SourceConfig(g)' = {}
                      /\ \A i \in RelationIds, v \in TempoUnits :
                           <<i, v>> \in departed'[g] => v \notin hosts'[g]
    BY <1>1 DEF NothingDoomed
  <2>1. toDelete[g] \cap SourceConfig(g)' = {}
    BY <1>12 DEF NothingDoomed
  <2>2. ASSUME NEW i \in RelationIds, NEW v \in TempoUnits, <<i, v>> \in departed'[g]
        PROVE  v \notin hosts'[g]
    BY <1>1, <2>2 DEF NothingDoomed
  <2> QED BY <2>1, <2>2
<1> QED BY <1>4, <1>5, <1>7, <1>8, <1>9, <1>10, <1>11, <1>13, <1>14

LEMMA TempoHookStep == ASSUME SourcesInv, NEW u \in TempoUnits, TempoHook(u) PROVE SourcesInv'
<1> USE DatasourcesAssumption DEF SourcesInv
<1>1. /\ u \in sourcePending /\ sourcePending' = sourcePending \ {u}
      /\ hosts' = [g \in Grafanas |->
                     IF Related(g) /\ UnitDatasources THEN hosts[g] \cup {u} ELSE hosts[g]]
      /\ appData' = [g \in Grafanas |->
                       IF Related(g) /\ u = TempoLeader THEN TRUE ELSE appData[g]]
      /\ exchange' = IF u = TempoLeader THEN RawDatasources ELSE exchange
      /\ UNCHANGED <<sourceChanges, units, relation, related, departed, sources, toDelete, uids>>
  BY DEF TempoHook
<1>2. /\ changed' \in [Grafanas -> BOOLEAN]
      /\ \A g \in Grafanas : changed'[g] <=>
           changed[g] \/ hosts'[g] # hosts[g] \/ appData'[g] # appData[g]
  BY DEF TempoHook
<1>3. u \in units
  BY <1>1 DEF SourcesTypeOK
<1>4. hosts' \in [Grafanas -> SUBSET units] /\ appData' \in [Grafanas -> BOOLEAN]
  <2>1. hosts' \in [Grafanas -> SUBSET units]
    BY <1>1, <1>3 DEF SourcesTypeOK
  <2>2. \A g \in Grafanas : (IF Related(g) /\ u = TempoLeader THEN TRUE ELSE appData[g]) \in BOOLEAN
    BY DEF SourcesTypeOK
  <2>3. appData' \in [Grafanas -> BOOLEAN]
    BY <1>1, <2>2
  <2> QED BY <2>1, <2>3
<1>5. RawDatasources' = RawDatasources /\ RawDatasources \subseteq Grafanas \X Names
  <2>1. RawDatasources' = RawDatasources
    BY <1>1, SameExchange
  <2>2. \A g \in Grafanas : {g} \X SourceUids(g) \subseteq Grafanas \X Names
    BY DEF SourceUids, SourcesTypeOK
  <2>3. ASSUME NEW e \in RawDatasources PROVE e \in Grafanas \X Names
    <3>1. PICK g \in Grafanas : e \in {g} \X SourceUids(g)
      BY DEF RawDatasources
    <3> QED BY <2>2, <3>1
  <2> QED BY <2>1, <2>3
<1>6. SourcesTypeOK'
  BY <1>1, <1>2, <1>4, <1>5 DEF SourcesTypeOK
<1>7. RelationsCounted'
  BY <1>1 DEF RelationsCounted
<1>8. HostsWritten'
  <2> SUFFICES ASSUME NEW g \in Grafanas
               PROVE  IF Related(g)
                      THEN /\ IF UnitDatasources THEN units \ sourcePending' \subseteq hosts'[g]
                                                 ELSE hosts'[g] = {}
                           /\ appData'[g] \/ TempoLeader \in sourcePending'
                      ELSE hosts'[g] = {} /\ ~appData'[g]
    BY <1>1 DEF HostsWritten, Related
  <2>1. CASE Related(g)
    <3>1. IF UnitDatasources THEN units \ sourcePending' \subseteq hosts'[g] ELSE hosts'[g] = {}
      BY <1>1, <2>1 DEF HostsWritten
    <3>2. appData'[g] \/ TempoLeader \in sourcePending'
      BY <1>1, <2>1 DEF HostsWritten
    <3> QED BY <2>1, <3>1, <3>2
  <2>2. CASE ~Related(g)
    BY <1>1, <2>2 DEF HostsWritten
  <2> QED BY <2>1, <2>2
<1>9. NothingAhead' /\ KnownAreThere'
  BY <1>1 DEF NothingAhead, KnownAreThere
<1>10. NothingUnwritten'
  <2>1. \A g \in Grafanas : appData[g] => appData'[g]
    BY <1>1
  <2> QED BY <1>1, <2>1 DEF NothingUnwritten, Related
<1>11. ASSUME NEW g \in Grafanas, ~changed'[g]
       PROVE  ~changed[g] /\ hosts'[g] = hosts[g] /\ SourceConfig(g)' = SourceConfig(g)
              /\ Remaining(g)' = Remaining(g)
  BY <1>1, <1>2, <1>11 DEF SourceConfig, Remaining
<1>12. SourcesFollow'
  BY <1>1, <1>11 DEF SourcesFollow, Related
<1>13. NothingDoomed'
  BY <1>1, <1>11 DEF NothingDoomed
<1>14. ExchangeFollows'
  BY <1>1, <1>5 DEF ExchangeFollows
<1> QED BY <1>6, <1>7, <1>8, <1>9, <1>10, <1>12, <1>13, <1>14

LEMMA GrafanaChangedStep == ASSUME SourcesInv, NEW g \in Grafanas, GrafanaChanged(g) PROVE SourcesInv'
<1> USE DatasourcesAssumption DEF SourcesInv
<1>1. /\ changed[g] /\ departed[g] = {}
      /\ changed' = [changed EXCEPT ![g] = FALSE]
      /\ toDelete' = [toDelete EXCEPT ![g] = StillToDelete(g) \cup Vanished(g)]
      /\ uids' = [uids EXCEPT ![g] = IF appData[g] THEN SourceConfig(g) ELSE @]
      /\ sourcePending' = IF uids'[g] # uids[g] THEN units ELSE sourcePending
      /\ UNCHANGED <<sourceChanges, units, relation, related, hosts, appData, departed, exchange>>
  BY DEF GrafanaChanged
<1> DEFINE found == [i \in RelationIds |-> IF i = relation[g] THEN SourceConfig(g) ELSE {}]
<1>2. sources' = [sources EXCEPT ![g] = found]
  BY DEF GrafanaChanged
<1>3. SourceConfig(g) \subseteq Names /\ SourceConfig(g) \cap TempoUnits \subseteq units
  BY SourceConfigType
<1>4. found \in [RelationIds -> SUBSET Names]
  BY <1>3
<1>5. /\ sources' \in [Grafanas -> [RelationIds -> SUBSET Names]] /\ sources'[g] = found
      /\ \A h \in Grafanas \ {g} : sources'[h] = sources[h]
  BY <1>2, <1>4 DEF SourcesTypeOK
<1>6. \A i \in RelationIds : sources'[g][i] = IF i = relation[g] THEN SourceConfig(g) ELSE {}
  BY <1>5
<1> HIDE DEF found
<1>7. /\ changed' \in [Grafanas -> BOOLEAN] /\ ~changed'[g]
      /\ \A h \in Grafanas \ {g} : changed'[h] = changed[h]
  BY <1>1 DEF SourcesTypeOK
<1>8. Vanished(g) \subseteq Names /\ Vanished(g) \cap SourceConfig(g) = {}
  <2>1. CASE appData[g]
    <3>1. Related(g)
      BY <2>1 DEF HostsWritten
    <3>2. sources[g][relation[g]] \subseteq Names
      BY <3>1, SourceConfigType DEF SourcesTypeOK
    <3> QED BY <2>1, <3>2 DEF Vanished
  <2>2. CASE ~appData[g]
    BY <2>2 DEF Vanished
  <2> QED BY <2>1, <2>2
<1>9. /\ toDelete' \in [Grafanas -> SUBSET Names]
      /\ toDelete'[g] \cap SourceConfig(g) = {}
      /\ \A h \in Grafanas \ {g} : toDelete'[h] = toDelete[h]
  BY <1>1, <1>8 DEF SourcesTypeOK, StillToDelete
<1>10. /\ uids' \in [Grafanas -> SUBSET Names]
       /\ \A h \in Grafanas \ {g} : uids'[h] = uids[h]
  BY <1>1, <1>3 DEF SourcesTypeOK
<1>11. SourcesTypeOK'
  BY <1>1, <1>5, <1>7, <1>9, <1>10 DEF SourcesTypeOK
<1>12. RelationsCounted'
  BY <1>1 DEF RelationsCounted
<1>13. sourcePending \subseteq sourcePending'
  BY <1>1 DEF SourcesTypeOK
<1>14. HostsWritten'
  BY <1>1, <1>13 DEF HostsWritten, Related
<1>15. \A h \in Grafanas : SourceConfig(h)' = SourceConfig(h)
  BY <1>1 DEF SourceConfig
<1>16. NothingAhead'
  <2> SUFFICES ASSUME NEW h \in Grafanas, NEW i \in RelationIds, i > related[h]
               PROVE  sources'[h][i] = {}
    BY <1>1 DEF NothingAhead
  <2>1. CASE h = g
    <3>1. relation[g] # i
      BY <2>1 DEF SourcesTypeOK, RelationsCounted, RelationIds
    <3> QED BY <1>6, <2>1, <3>1
  <2>2. CASE h # g
    BY <1>5, <2>2 DEF NothingAhead
  <2> QED BY <2>1, <2>2
<1>17. KnownAreThere'
  BY <1>1, <1>3, <1>5, <1>6 DEF KnownAreThere
<1>18. NothingUnwritten'
  <2> SUFFICES ASSUME NEW h \in Grafanas, Related(h), ~appData[h]
               PROVE  sources'[h][relation[h]] = {}
    BY <1>1 DEF NothingUnwritten, Related
  <2>1. CASE h = g
    BY <1>6, <2>1, SourceConfigType
  <2>2. CASE h # g
    BY <1>5, <2>2 DEF NothingUnwritten
  <2> QED BY <2>1, <2>2
<1>19. SourcesFollow'
  <2> SUFFICES ASSUME NEW h \in Grafanas, Related(h), ~changed'[h]
               PROVE  Remaining(h)' = SourceConfig(h)
    BY <1>1, <1>15 DEF SourcesFollow, Related
  <2>1. CASE h = g
    <3>1. sources'[h][relation[h]] = SourceConfig(h) /\ departed'[h] = {}
      BY <1>1, <1>6, <2>1, SourceConfigType
    <3> QED BY <1>1, <3>1 DEF Remaining
  <2>2. CASE h # g
    BY <1>1, <1>5, <1>7, <2>2 DEF SourcesFollow, Remaining
  <2> QED BY <2>1, <2>2
<1>20. NothingDoomed'
  BY <1>1, <1>7, <1>9, <1>15 DEF NothingDoomed
<1>21. ExchangeFollows'
  <2>1. CASE uids'[g] = uids[g]
    <3>1. RawDatasources' = RawDatasources
      BY <1>1, <1>10, <2>1, SameExchange
    <3> QED BY <1>1, <1>13, <3>1 DEF ExchangeFollows
  <2>2. CASE uids'[g] # uids[g]
    BY <1>1, <2>2 DEF ExchangeFollows, RelationsCounted
  <2> QED BY <2>1, <2>2
<1> QED BY <1>11, <1>12, <1>14, <1>16, <1>17, <1>18, <1>19, <1>20, <1>21

LEMMA GrafanaDepartedStep ==
  ASSUME SourcesInv, NEW g \in Grafanas, NEW i \in RelationIds, NEW u \in TempoUnits,
         GrafanaDeparted(g, i, u)
  PROVE  SourcesInv'
<1> USE DatasourcesAssumption DEF SourcesInv
<1>1. /\ <<i, u>> \in departed[g]
      /\ departed' = [departed EXCEPT ![g] = @ \ {<<i, u>>}]
      /\ sources' = [sources EXCEPT ![g][i] = @ \ {u}]
      /\ toDelete' = [toDelete EXCEPT ![g] = @ \cup Removed(g, i, u)]
      /\ uids' = [uids EXCEPT ![g] = IF i = relation[g] /\ sources[g][i] # {}
                                     THEN sources[g][i] ELSE @]
      /\ sourcePending' = IF uids'[g] # uids[g] THEN units ELSE sourcePending
      /\ UNCHANGED <<sourceChanges, units, relation, related, hosts, appData, changed, exchange>>
  BY DEF GrafanaDeparted
<1>2. sources[g][i] \subseteq Names /\ Removed(g, i, u) \subseteq {u} /\ u \in Names
  BY DEF SourcesTypeOK, Removed, Names
<1>3. /\ sources' \in [Grafanas -> [RelationIds -> SUBSET Names]]
      /\ sources'[g][i] = sources[g][i] \ {u}
      /\ \A h \in Grafanas, j \in RelationIds : <<h, j>> # <<g, i>> => sources'[h][j] = sources[h][j]
  BY <1>1 DEF SourcesTypeOK
<1>4. /\ departed' \in [Grafanas -> SUBSET (RelationIds \X TempoUnits)]
      /\ departed'[g] = departed[g] \ {<<i, u>>}
      /\ \A h \in Grafanas \ {g} : departed'[h] = departed[h]
  BY <1>1 DEF SourcesTypeOK
<1>5. /\ toDelete' \in [Grafanas -> SUBSET Names]
      /\ toDelete'[g] = toDelete[g] \cup Removed(g, i, u)
      /\ \A h \in Grafanas \ {g} : toDelete'[h] = toDelete[h]
  BY <1>1, <1>2 DEF SourcesTypeOK
<1>6. /\ uids' \in [Grafanas -> SUBSET Names]
      /\ \A h \in Grafanas \ {g} : uids'[h] = uids[h]
  BY <1>1, <1>2 DEF SourcesTypeOK
<1>7. SourcesTypeOK'
  BY <1>1, <1>3, <1>4, <1>5, <1>6 DEF SourcesTypeOK
<1>8. RelationsCounted'
  BY <1>1 DEF RelationsCounted
<1>9. sourcePending \subseteq sourcePending'
  BY <1>1 DEF SourcesTypeOK
<1>10. HostsWritten'
  BY <1>1, <1>9 DEF HostsWritten, Related
<1>11. \A h \in Grafanas : SourceConfig(h)' = SourceConfig(h)
  BY <1>1 DEF SourceConfig
<1>12. \A h \in Grafanas, j \in RelationIds : sources'[h][j] \subseteq sources[h][j]
  BY <1>3
<1>13. \A h \in Grafanas : departed'[h] \subseteq departed[h]
  BY <1>4
<1>14. NothingAhead'
  BY <1>1, <1>12, <1>13 DEF NothingAhead
<1>15. KnownAreThere'
  <2> SUFFICES ASSUME NEW h \in Grafanas, NEW j \in RelationIds,
                      NEW v \in sources'[h][j] \cap TempoUnits
               PROVE  <<j, v>> \in departed'[h] \/ (j = relation[h] /\ v \in units)
    BY <1>1 DEF KnownAreThere
  <2>1. <<j, v>> \in departed[h] \/ (j = relation[h] /\ v \in units)
    BY <1>12 DEF KnownAreThere
  <2>2. <<h, j, v>> # <<g, i, u>>
    BY <1>3
  <2> QED BY <1>4, <2>1, <2>2
<1>16. NothingUnwritten'
  BY <1>1, <1>12, SourceConfigType DEF NothingUnwritten, Related
<1>17. ASSUME NEW h \in Grafanas, Related(h) PROVE Remaining(h)' = Remaining(h)
  <2>1. relation[h] \in RelationIds
    BY <1>17, SourceConfigType
  <2>2. CASE h = g /\ relation[h] = i
    BY <1>1, <1>3, <1>4, <2>2 DEF Remaining
  <2>3. CASE h = g /\ relation[h] # i
    BY <1>1, <1>3, <1>4, <2>1, <2>3 DEF Remaining
  <2>4. CASE h # g
    BY <1>1, <1>3, <1>4, <2>1, <2>4 DEF Remaining
  <2> QED BY <2>2, <2>3, <2>4
<1>18. SourcesFollow'
  BY <1>1, <1>11, <1>17 DEF SourcesFollow, Related
<1>19. NothingDoomed'
  <2> SUFFICES ASSUME NEW h \in Grafanas, ~changed[h]
               PROVE  /\ toDelete'[h] \cap SourceConfig(h) = {}
                      /\ \A j \in RelationIds, v \in TempoUnits :
                           <<j, v>> \in departed'[h] => v \notin hosts[h]
    BY <1>1, <1>11 DEF NothingDoomed
  <2>1. \A j \in RelationIds, v \in TempoUnits : <<j, v>> \in departed'[h] => v \notin hosts[h]
    BY <1>13 DEF NothingDoomed
  <2>2. CASE h = g
    <3>1. u \notin SourceConfig(g)
      BY <1>1, <2>2, SourceConfigType DEF NothingDoomed
    <3> QED BY <1>2, <1>5, <2>1, <2>2, <3>1 DEF NothingDoomed
  <2>3. CASE h # g
    BY <1>5, <2>1, <2>3 DEF NothingDoomed
  <2> QED BY <2>2, <2>3
<1>20. ExchangeFollows'
  <2>1. CASE uids'[g] = uids[g]
    <3>1. RawDatasources' = RawDatasources
      BY <1>1, <1>6, <2>1, SameExchange
    <3> QED BY <1>1, <1>9, <3>1 DEF ExchangeFollows
  <2>2. CASE uids'[g] # uids[g]
    BY <1>1, <2>2 DEF ExchangeFollows, RelationsCounted
  <2> QED BY <2>1, <2>2
<1> QED BY <1>7, <1>8, <1>10, <1>14, <1>15, <1>16, <1>18, <1>19, <1>20

LEMMA SourcesInvariant == SourcesSpec => []SourcesInv
<1>1. SourcesInv /\ [SourcesNext]_sourcesVars => SourcesInv'
  <2> SUFFICES ASSUME SourcesInv, [SourcesNext]_sourcesVars PROVE SourcesInv'
    OBVIOUS
  <2>1. CASE SourcesNext
    BY <2>1, RelateStep, UnrelateStep, OtherChangeStep, AddUnitStep, RemoveUnitStep,
       TempoHookStep, GrafanaChangedStep, GrafanaDepartedStep DEF SourcesNext
  <2>2. CASE UNCHANGED sourcesVars
    <3>1. RawDatasources' = RawDatasources
      BY <2>2, SameExchange DEF sourcesVars
    <3> QED
      BY <2>2, <3>1
         DEF sourcesVars, SourcesInv, SourcesTypeOK, RelationsCounted, HostsWritten, NothingAhead,
             KnownAreThere, NothingUnwritten, SourcesFollow, NothingDoomed, ExchangeFollows,
             Related, Remaining, SourceConfig
  <2> QED BY <2>1, <2>2
<1> QED BY <1>1, SourcesInvInit, PTL DEF SourcesSpec

\* The values of the variables: the databags have units of Tempo there are, a
\* relation has the number it was given when it was made.
THEOREM SourcesTypes == SourcesSpec => []SourcesTypeOK
<1>1. SourcesInv => SourcesTypeOK
  BY DEF SourcesInv
<1> QED BY <1>1, SourcesInvariant, PTL

\* Grafana has exactly the sources Tempo offers it when the events are through,
\* and is about to delete none of them, though units and relations come back.
THEOREM OfferedSourcesAreKept == SourcesSpec => []OfferedIsKept
<1>1. SourcesInv => OfferedIsKept
  <2> SUFFICES ASSUME SourcesInv, Settled, NEW g \in Grafanas, Related(g)
               PROVE  /\ sources[g][relation[g]] = Offered(g)
                      /\ toDelete[g] \cap Offered(g) = {}
    BY DEF OfferedIsKept
  <2>1. ~changed[g] /\ departed[g] = {} /\ sourcePending = {}
    BY DEF Settled
  <2>2. appData[g] /\ hosts[g] = IF UnitDatasources THEN units ELSE {}
    BY <2>1, SourceConfigType DEF SourcesInv, HostsWritten
  <2>3. SourceConfig(g) = Offered(g)
    BY <2>2 DEF SourceConfig, Offered
  <2>4. Remaining(g) = sources[g][relation[g]]
    BY <2>1 DEF Remaining
  <2> QED BY <2>1, <2>3, <2>4 DEF SourcesInv, SourcesFollow, NothingDoomed
<1> QED BY <1>1, SourcesInvariant, PTL

\* The exchange has what the related Grafanas wrote last and nothing of others.
THEOREM ExchangeIsCurrent == SourcesSpec => []ExchangeCurrent
<1>1. SourcesInv => ExchangeCurrent
  <2> SUFFICES ASSUME SourcesInv, Settled, NEW g \in Grafanas, NEW n \in TempoUnits
               PROVE  <<g, n>> \in exchange <=> Related(g) /\ n \in uids[g]
    BY DEF ExchangeCurrent
  <2>1. exchange = RawDatasources
    BY DEF SourcesInv, ExchangeFollows, Settled
  <2>2. <<g, n>> \in RawDatasources <=> n \in SourceUids(g)
    <3>1. ASSUME <<g, n>> \in RawDatasources PROVE n \in SourceUids(g)
      <4>1. PICK h \in Grafanas : <<g, n>> \in {h} \X SourceUids(h)
        BY <3>1 DEF RawDatasources
      <4> QED BY <4>1
    <3>2. ASSUME n \in SourceUids(g) PROVE <<g, n>> \in RawDatasources
      <4>1. <<g, n>> \in {g} \X SourceUids(g)
        BY <3>2
      <4> QED BY <4>1 DEF RawDatasources
    <3> QED BY <3>1, <3>2
  <2>3. n \in SourceUids(g) <=> Related(g) /\ n \in uids[g]
    BY DatasourcesAssumption DEF SourceUids
  <2> QED BY <2>1, <2>2, <2>3
<1> QED BY <1>1, SourcesInvariant, PTL

\* Whatever changes, departs and comes back, Grafana forgets a unit's source only
\* in a step that lists it for deletion.
THEOREM ForgottenIsListed == SourcesSpec => LeftIsListed
<1> DEFINE Known(g) == UNION {sources[g][i] : i \in RelationIds}
<1>1. ASSUME SourcesInv, [SourcesNext]_sourcesVars PROVE ForgetsByListing
  <2> SUFFICES ASSUME NEW g \in Grafanas, NEW n \in Known(g), n \notin Known(g)', n \in TempoUnits
               PROVE  n \in toDelete'[g]
    BY DEF ForgetsByListing
  <2>1. PICK i \in RelationIds : n \in sources[g][i]
    OBVIOUS
  <2>2. n \notin sources'[g][i]
    OBVIOUS
  <2> HIDE DEF Known
  <2>3. CASE sources' = sources
    BY <2>1, <2>2, <2>3
  <2>4. ASSUME NEW h \in Grafanas, GrafanaChanged(h) PROVE n \in toDelete'[g]
    <3>1. /\ departed[h] = {}
          /\ sources' = [sources EXCEPT ![h] =
               [j \in RelationIds |-> IF j = relation[h] THEN SourceConfig(h) ELSE {}]]
          /\ toDelete' = [toDelete EXCEPT ![h] = StillToDelete(h) \cup Vanished(h)]
      BY <2>4 DEF GrafanaChanged
    <3>2. g = h
      BY <2>1, <2>2, <3>1 DEF SourcesInv, SourcesTypeOK
    <3>3. departed[g] = {} /\ n \in sources[g][i] \cap TempoUnits
      BY <2>1, <3>1, <3>2
    <3>4. i = relation[g]
      BY <1>1, <3>3 DEF SourcesInv, KnownAreThere
    <3>5. Related(g)
      BY <3>4 DEF Related, RelationIds
    <3>6. sources'[g][i] = SourceConfig(g)
      BY <1>1, <3>1, <3>2, <3>4 DEF SourcesInv, SourcesTypeOK
    <3>7. appData[g]
      BY <1>1, <3>3, <3>4, <3>5 DEF SourcesInv, NothingUnwritten
    <3>8. n \in Vanished(g)
      BY <2>1, <2>2, <3>4, <3>6, <3>7 DEF Vanished
    <3>9. toDelete'[g] = StillToDelete(g) \cup Vanished(g)
      BY <1>1, <3>1, <3>2 DEF SourcesInv, SourcesTypeOK
    <3> QED BY <3>8, <3>9
  <2>5. ASSUME NEW h \in Grafanas, NEW j \in RelationIds, NEW u \in TempoUnits,
               GrafanaDeparted(h, j, u)
        PROVE  n \in toDelete'[g]
    <3>1. /\ sources' = [sources EXCEPT ![h][j] = @ \ {u}]
          /\ toDelete' = [toDelete EXCEPT ![h] = @ \cup Removed(h, j, u)]
      BY <2>5 DEF GrafanaDeparted
    <3>2. g = h /\ i = j /\ n = u
      BY <2>1, <2>2, <3>1 DEF SourcesInv, SourcesTypeOK
    <3>3. toDelete'[g] = toDelete[g] \cup Removed(g, i, n)
      BY <1>1, <3>1, <3>2 DEF SourcesInv, SourcesTypeOK
    <3>4. n \in Removed(g, i, n)
      BY <2>1 DEF Removed
    <3> QED BY <3>3, <3>4
  <2> QED
    BY <1>1, <2>3, <2>4, <2>5
       DEF SourcesNext, sourcesVars, Relate, Unrelate, OtherChange, AddUnit, RemoveUnit, TempoHook,
           tempo, grafana
<1> QED BY <1>1, SourcesInvariant, PTL DEF SourcesSpec, LeftIsListed

\* Without a source of the application, none is known by its name.
NoAppSource ==
  \A g \in Grafanas : AppName \notin uids[g] /\ \A i \in RelationIds : AppName \notin sources[g][i]

LEMMA NoAppSourceStep ==
  ASSUME ~AppDatasource, SourcesInv, NoAppSource, [SourcesNext]_sourcesVars
  PROVE  NoAppSource'
<1> USE DEF NoAppSource
<1>1. \A g \in Grafanas : AppName \notin SourceConfig(g)
  <2>1. \A g \in Grafanas : hosts[g] \subseteq TempoUnits
    BY DEF SourcesInv, SourcesTypeOK
  <2> QED BY <2>1, DatasourcesAssumption DEF SourceConfig
<1>2. ASSUME NEW g \in Grafanas, GrafanaChanged(g) PROVE NoAppSource'
  <2>1. /\ sources' = [sources EXCEPT ![g] =
             [i \in RelationIds |-> IF i = relation[g] THEN SourceConfig(g) ELSE {}]]
        /\ uids' = [uids EXCEPT ![g] = IF appData[g] THEN SourceConfig(g) ELSE @]
    BY <1>2 DEF GrafanaChanged
  <2> QED BY <1>1, <2>1 DEF SourcesInv, SourcesTypeOK
<1>3. ASSUME NEW g \in Grafanas, NEW i \in RelationIds, NEW u \in TempoUnits,
             GrafanaDeparted(g, i, u)
      PROVE  NoAppSource'
  <2>1. /\ sources' = [sources EXCEPT ![g][i] = @ \ {u}]
        /\ uids' = [uids EXCEPT ![g] = IF i = relation[g] /\ sources[g][i] # {}
                                      THEN sources[g][i] ELSE @]
    BY <1>3 DEF GrafanaDeparted
  <2> QED BY <2>1 DEF SourcesInv, SourcesTypeOK
<1>4. ASSUME NEW g \in Grafanas, Unrelate(g) PROVE NoAppSource'
  BY <1>4 DEF Unrelate, SourcesInv, SourcesTypeOK
<1>5. ASSUME UNCHANGED <<sources, uids>> PROVE NoAppSource'
  BY <1>5
<1> QED
  BY <1>2, <1>3, <1>4, <1>5
     DEF SourcesNext, sourcesVars, Relate, OtherChange, AddUnit, RemoveUnit, TempoHook, grafana

\* What the docstring of _update_source_exchange says holds of a charm that offers
\* no datasource of its own: every UID received is passed on. The deprecated
\* getter leaves out none but the application's.
THEOREM ExchangeIsCompleteForUnits == ~AppDatasource => (SourcesSpec => []ExchangeComplete)
<1> SUFFICES ASSUME ~AppDatasource PROVE SourcesSpec => []ExchangeComplete
  OBVIOUS
<1>1. SourcesInit => NoAppSource
  BY DEF SourcesInit, NoAppSource
<1>2. SourcesInv /\ NoAppSource => ExchangeComplete
  <2> SUFFICES ASSUME SourcesInv, NoAppSource, Settled, NEW g \in Grafanas, NEW n \in Names,
                      Related(g), n \in uids[g]
               PROVE  <<g, n>> \in exchange
    BY DEF ExchangeComplete
  <2>1. exchange = RawDatasources
    BY DEF SourcesInv, ExchangeFollows, Settled
  <2>2. n \in SourceUids(g)
    BY DEF NoAppSource, SourceUids
  <2>3. <<g, n>> \in {g} \X SourceUids(g)
    BY <2>2
  <2> QED BY <2>1, <2>3 DEF RawDatasources
<1>3. SourcesInv /\ NoAppSource /\ [SourcesNext]_sourcesVars => NoAppSource'
  BY NoAppSourceStep
<1> QED BY <1>1, <1>2, <1>3, SourcesInvariant, PTL DEF SourcesSpec

-------------------------------------------------------------------------------
(***************************************************************************)
(* Mesh policies (MeshPolicies).                                           *)
(*                                                                         *)
(* The policies listed are those of the relations, or Tempo's leader has   *)
(* an event; those in Kubernetes are the ones listed, or the beacon has.   *)
(***************************************************************************)

PoliciesListed == mpEvent \/ ~mpMesh \/ mpPolicies = BuildMeshPolicies(mpRelated)
PoliciesDeployed == mpBeacon \/ mpDeployed = PolicyResources(MeshInfo)

PoliciesInv == MpTypeOK /\ PoliciesListed /\ PoliciesDeployed

LEMMA BuildMeshPoliciesType ==
  ASSUME mpRelated \subseteq MpRelations, NEW p \in BuildMeshPolicies(mpRelated)
  PROVE  p.target \in {"app", "unit"} /\ p.source[2] \in {"here", "there"}
<1>1. PICK r \in mpRelated : p = [source |-> SourceOf(MpAppOf[r]), target |-> MpTargetOf[r]]
  BY DEF BuildMeshPolicies
<1>2. p.source = SourceOf(MpAppOf[r]) /\ p.target = MpTargetOf[r]
  BY <1>1
<1> QED BY <1>2, MpAssumption DEF SourceOf

LEMMA PolicyResourcesType ==
  ASSUME NEW policies, NEW d \in PolicyResources(policies)
  PROVE  d.guards \in {"service", "pods"}
BY DEF PolicyResources, Guards

LEMMA PoliciesInvariant == MpSpec => []PoliciesInv
<1>1. MpInit => PoliciesInv
  BY MpAssumption
     DEF MpInit, PoliciesInv, MpTypeOK, PoliciesListed, PoliciesDeployed, PolicyResources, MeshInfo
<1>2. PoliciesInv /\ [MpNext]_mpVars => PoliciesInv'
  <2> SUFFICES ASSUME PoliciesInv, [MpNext]_mpVars PROVE PoliciesInv'
    OBVIOUS
  <2> USE DEF PoliciesInv
  <2>1. CASE RelationsChanged
    <3>1. CASE mpMesh
      <4>1. /\ mpPolicies' = BuildMeshPolicies(mpRelated) /\ mpBeacon' = TRUE /\ mpEvent' = FALSE
            /\ UNCHANGED <<mpMesh, mpRelated, mpIntroduced, mpDeployed, mpChanges>>
        BY <2>1, <3>1 DEF RelationsChanged
      <4>2. MpTypeOK'
        BY <4>1, BuildMeshPoliciesType DEF MpTypeOK
      <4>3. BuildMeshPolicies(mpRelated)' = BuildMeshPolicies(mpRelated)
        BY <4>1 DEF BuildMeshPolicies, SourceOf
      <4> QED BY <4>1, <4>2, <4>3 DEF PoliciesListed, PoliciesDeployed
    <3>2. CASE ~mpMesh
      BY <2>1, <3>2
         DEF RelationsChanged, MpTypeOK, PoliciesListed, PoliciesDeployed, PolicyResources, MeshInfo
    <3> QED BY <3>1, <3>2
  <2>2. CASE BeaconReconciles
    <3>1. /\ mpDeployed' = PolicyResources(MeshInfo) /\ mpBeacon' = FALSE
          /\ UNCHANGED <<mpMesh, mpRelated, mpIntroduced, mpPolicies, mpEvent, mpChanges>>
      BY <2>2 DEF BeaconReconciles, Reconciled
    <3>2. MpTypeOK'
      BY <3>1, PolicyResourcesType DEF MpTypeOK
    <3> QED
      BY <3>1, <3>2 DEF PoliciesListed, PoliciesDeployed, PolicyResources, MeshInfo,
                        BuildMeshPolicies, SourceOf
  <2>3. CASE RelateBeacon
    <3>1. mpDeployed = {}
      BY <2>3 DEF RelateBeacon, PoliciesDeployed, PolicyResources, MeshInfo
    <3> QED
      BY <2>3, <3>1
         DEF RelateBeacon, MpTypeOK, PoliciesListed, PoliciesDeployed, PolicyResources, MeshInfo
  <2>4. CASE RemoveBeacon
    BY <2>4 DEF RemoveBeacon, MpTypeOK, PoliciesListed, PoliciesDeployed
  <2>5. ASSUME NEW r \in MpRelations, RelateSource(r) \/ RemoveSource(r) PROVE PoliciesInv'
    <3>1. MpTypeOK'
      BY <2>5 DEF RelateSource, RemoveSource, SourceBroken, MpTypeOK
    <3>2. mpEvent' /\ UNCHANGED <<mpMesh, mpPolicies, mpDeployed, mpBeacon>>
      BY <2>5 DEF RelateSource, RemoveSource, SourceBroken
    <3> QED BY <3>1, <3>2 DEF PoliciesListed, PoliciesDeployed, PolicyResources, MeshInfo
  <2>6. ASSUME NEW app \in MpForeign, Introduce(app) PROVE PoliciesInv'
    BY <2>6
       DEF Introduce, MpTypeOK, PoliciesListed, PoliciesDeployed, PolicyResources, MeshInfo
  <2>7. CASE UNCHANGED mpVars
    BY <2>7 DEF mpVars, MpTypeOK, PoliciesListed, PoliciesDeployed, PolicyResources, MeshInfo,
                BuildMeshPolicies, SourceOf
  <2> QED BY <2>1, <2>2, <2>3, <2>4, <2>5, <2>6, <2>7 DEF MpNext
<1> QED BY <1>1, <1>2, PTL DEF MpSpec

\* When both sides have done their work, just the applications that are related
\* may call on Tempo, under the names they have where they run, and nobody once
\* the mesh is gone.
THEOREM AllowedAreRelated == MpSpec => []AllowedIsRelated
<1>1. PoliciesInv => AllowedIsRelated
  <2> SUFFICES ASSUME PoliciesInv, MpQuiet
               PROVE  mpDeployed = IF ~mpMesh THEN {} ELSE
                        {[principal |-> SourceOf(MpAppOf[r]), guards |-> Guards(MpTargetOf[r])] :
                           r \in mpRelated}
    BY DEF AllowedIsRelated
  <2>1. mpDeployed = PolicyResources(MeshInfo)
    BY DEF PoliciesInv, PoliciesDeployed, MpQuiet
  <2>2. CASE ~mpMesh
    BY <2>1, <2>2 DEF PolicyResources, MeshInfo
  <2>3. CASE mpMesh
    <3>1. MeshInfo = BuildMeshPolicies(mpRelated)
      BY <2>3 DEF PoliciesInv, PoliciesListed, MpQuiet, MeshInfo
    <3>2. ASSUME NEW d \in PolicyResources(BuildMeshPolicies(mpRelated))
          PROVE  \E r \in mpRelated :
                   d = [principal |-> SourceOf(MpAppOf[r]), guards |-> Guards(MpTargetOf[r])]
      <4>1. PICK p \in BuildMeshPolicies(mpRelated) :
              d = [principal |-> p.source, guards |-> Guards(p.target)]
        BY DEF PolicyResources
      <4>2. PICK r \in mpRelated :
              p = [source |-> SourceOf(MpAppOf[r]), target |-> MpTargetOf[r]]
        BY DEF BuildMeshPolicies
      <4>3. p.source = SourceOf(MpAppOf[r]) /\ p.target = MpTargetOf[r]
        BY <4>2
      <4> QED BY <4>1, <4>3
    <3>3. ASSUME NEW r \in mpRelated
          PROVE  [principal |-> SourceOf(MpAppOf[r]), guards |-> Guards(MpTargetOf[r])]
                   \in PolicyResources(BuildMeshPolicies(mpRelated))
      <4> DEFINE p == [source |-> SourceOf(MpAppOf[r]), target |-> MpTargetOf[r]]
      <4>1. p \in BuildMeshPolicies(mpRelated)
        BY DEF BuildMeshPolicies
      <4>2. p.source = SourceOf(MpAppOf[r]) /\ p.target = MpTargetOf[r]
        OBVIOUS
      <4> HIDE DEF p
      <4> QED BY <4>1, <4>2 DEF PolicyResources
    <3> QED BY <2>1, <2>3, <3>1, <3>2, <3>3
  <2> QED BY <2>2, <2>3
<1> QED BY <1>1, PoliciesInvariant, PTL

-------------------------------------------------------------------------------
(***************************************************************************)
(* The log proxy (PromtailSetup).                                          *)
(*                                                                         *)
(* A binary that is there is whole and has its layer; Promtail runs with   *)
(* the clients there are, unless a departure is due or, while there are    *)
(* clients at all, a change.                                               *)
(***************************************************************************)

\* What the databags and events are about: relations, until they are gone.
ProxyEvents ==
  /\ prGone \subseteq prRelated /\ prZipUrl \subseteq prRelated
  /\ prEndpoint \subseteq prRelated \ prGone /\ prLoki \subseteq prRelated \ prGone

BinaryWhole ==
  /\ prInstalled \in {"none", "whole"} /\ prFetched \in {"none", "torn", "whole"}
  /\ prInstalled = "whole" => prLayer
  /\ prInstalled = "none" => prRuns = {}
  /\ ~prConnects => prInstalled = "none"

RunsForClients ==
  prInstalled = "whole" =>
    prRuns = Clients \/ prGone # {} \/ (Clients # {} /\ prHeard # {})

PromtailInv == ProxyEvents /\ BinaryWhole /\ RunsForClients

\* What setting Promtail up does, when it does anything: the binary may have come
\* or not, and with it and with clients Promtail runs for them.
LEMMA SetupPromtailStep ==
  ASSUME PromtailInv, SetupPromtail, UNCHANGED <<prEndpoint, prConnects>>, prConnects,
         prHeard \subseteq prHeard', prGone' = prGone
  PROVE  BinaryWhole' /\ RunsForClients'
<1> USE DEF PromtailInv
<1>1. CASE UNCHANGED prPromtail
  BY <1>1 DEF prPromtail, BinaryWhole, RunsForClients, Clients
<1>2. CASE EnsureBinary /\ prLayer' = TRUE
           /\ IF Clients # {} /\ prInstalled' = "whole" THEN prRuns' = Clients
              ELSE prRuns' = IF Clients = {} THEN prRuns ELSE {}
  <2>1. /\ prInstalled' \in {"none", "whole"} /\ prFetched' \in {"none", "torn", "whole"}
        /\ prInstalled = "whole" => prInstalled' = "whole"
    BY <1>2 DEF EnsureBinary, ObtainPromtail, MustDownload, BinaryWhole
  <2> QED BY <1>2, <2>1 DEF BinaryWhole, RunsForClients, Clients
<1> QED BY <1>1, <1>2 DEF SetupPromtail, RestartPromtail

LEMMA PromtailInvariant == PrSpec => []PromtailInv
<1>1. PrInit => PromtailInv
  BY DEF PrInit, PromtailInv, ProxyEvents, BinaryWhole, RunsForClients, Clients
<1>2. PromtailInv /\ [PrNext]_prVars => PromtailInv'
  <2> SUFFICES ASSUME PromtailInv, [PrNext]_prVars PROVE PromtailInv'
    OBVIOUS
  <2> USE DEF PromtailInv
  <2>1. CASE PromtailReady
    BY <2>1, SetupPromtailStep DEF PromtailReady, prBags, ProxyEvents
  <2>2. ASSUME NEW r \in PrRelations, PromtailCreated(r) PROVE PromtailInv'
    <3>1. ProxyEvents'
      BY <2>2 DEF PromtailCreated, prBags, ProxyEvents
    <3>2. CASE prConnects
      BY <2>2, <3>1, <3>2, SetupPromtailStep DEF PromtailCreated, prBags
    <3>3. CASE ~prConnects
      BY <2>2, <3>1, <3>3
         DEF PromtailCreated, prBags, prPromtail, BinaryWhole, RunsForClients, Clients
    <3> QED BY <3>2, <3>3
  <2>3. ASSUME NEW r \in PrRelations, PromtailChanged(r) PROVE PromtailInv'
    <3>1. ProxyEvents'
      BY <2>3 DEF PromtailChanged, prBags, ProxyEvents
    <3>2. /\ prHeard' \in {prHeard, prHeard \ {r}}
          /\ UNCHANGED <<prRelated, prEndpoint, prConnects, prGone>>
      BY <2>3 DEF PromtailChanged, prBags
    <3>3. CASE ~prConnects \/ prRelated = {}
      <4>1. UNCHANGED prPromtail /\ (prConnects => Clients = {})
        BY <2>3, <3>3 DEF PromtailChanged, Clients, ProxyEvents
      <4> QED
        BY <3>1, <3>2, <4>1 DEF prPromtail, BinaryWhole, RunsForClients, Clients
    <3>4. CASE prConnects /\ prRelated # {} /\ prLayer
      <4>1. RefreshPromtail(r)
        BY <2>3, <3>4 DEF PromtailChanged
      <4> QED
        BY <3>1, <3>2, <4>1
           DEF RefreshPromtail, RestartOrRaise, RestartPromtail, BinaryWhole, RunsForClients,
               Clients
    <3>5. CASE prConnects /\ prRelated # {} /\ ~prLayer
      <4>1. SetupPromtail
        BY <2>3, <3>5 DEF PromtailChanged
      <4>2. prInstalled = "none" /\ prRuns = {}
        BY <3>5 DEF BinaryWhole
      <4>3. CASE UNCHANGED prPromtail
        BY <3>1, <3>2, <4>2, <4>3 DEF prPromtail, BinaryWhole, RunsForClients
      <4>4. CASE EnsureBinary /\ prLayer' = TRUE
                 /\ IF Clients # {} /\ prInstalled' = "whole" THEN prRuns' = Clients
                    ELSE prRuns' = IF Clients = {} THEN prRuns ELSE {}
        <5>1. prInstalled' \in {"none", "whole"} /\ prFetched' \in {"none", "torn", "whole"}
          BY <4>4 DEF EnsureBinary, ObtainPromtail, MustDownload, BinaryWhole
        <5> QED
          BY <3>1, <3>2, <4>2, <4>4, <5>1, <3>5 DEF BinaryWhole, RunsForClients, Clients
      <4> QED BY <4>1, <4>3, <4>4 DEF SetupPromtail, RestartPromtail
    <3> QED BY <3>3, <3>4, <3>5
  <2>4. ASSUME NEW r \in PrRelations, PromtailDeparted(r) PROVE PromtailInv'
    <3>1. /\ r \in prGone /\ prGone' \in {prGone, prGone \ {r}}
          /\ prRelated' = prRelated \ (prGone \ prGone')
          /\ prZipUrl' = prZipUrl \ (prGone \ prGone')
          /\ UNCHANGED <<prEndpoint, prConnects, prLoki, prHeard>>
      BY <2>4 DEF PromtailDeparted
    <3>2. ProxyEvents'
      BY <3>1 DEF ProxyEvents
    <3>3. BinaryWhole' /\ RunsForClients'
      <4>1. CASE ~prConnects
        BY <2>4, <3>1, <4>1
           DEF PromtailDeparted, prPromtail, BinaryWhole, RunsForClients
      <4>2. CASE prConnects /\ prInstalled = "whole"
        <5>1. prRuns' = Clients /\ UNCHANGED <<prLayer, prInstalled, prFetched>>
          BY <2>4, <4>2
             DEF PromtailDeparted, StopPromtail, RestartPromtail, BinaryWhole
        <5> QED BY <3>1, <4>2, <5>1 DEF BinaryWhole, RunsForClients, Clients
      <4>3. CASE prConnects /\ prInstalled = "none"
        <5>1. prRuns' = {} /\ UNCHANGED <<prLayer, prInstalled, prFetched>>
          BY <2>4, <4>3 DEF PromtailDeparted, StopPromtail, BinaryWhole
        <5> QED BY <3>1, <4>3, <5>1 DEF BinaryWhole, RunsForClients, Clients
      <4> QED BY <4>1, <4>2, <4>3 DEF BinaryWhole
    <3> QED BY <3>2, <3>3
  <2>5. CASE CutOffInDownload
    BY <2>5 DEF CutOffInDownload, prBags, prEvents, ProxyEvents, BinaryWhole, RunsForClients, Clients
  <2>6. ASSUME NEW r \in PrRelations, LokiPublishes(r) PROVE PromtailInv'
    <3>1. /\ r \in prLoki /\ prEndpoint' \in {prEndpoint, prEndpoint \cup {r}}
          /\ prLoki' = prLoki \ {r} /\ prZipUrl' = prZipUrl \cup {r}
          /\ prHeard' = IF UNCHANGED <<prZipUrl, prEndpoint>> THEN prHeard ELSE prHeard \cup {r}
          /\ UNCHANGED <<prRelated, prConnects, prLayer, prInstalled, prFetched, prConfig,
                         prRuns, prGone, prReady, prStuck>>
      BY <2>6 DEF LokiPublishes, prPromtail
    <3>2. ProxyEvents'
      BY <3>1 DEF ProxyEvents
    <3>3. prEndpoint' = prEndpoint \/ (prEndpoint' # {} /\ prHeard' # {})
      BY <3>1
    <3>4. prHeard \subseteq prHeard'
      BY <3>1
    <3> QED BY <3>1, <3>2, <3>3, <3>4 DEF BinaryWhole, RunsForClients, Clients
  <2>7. ASSUME NEW r \in PrRelations, LokiHears(r) PROVE PromtailInv'
    BY <2>7 DEF LokiHears, prBags, prPromtail, prEvents, ProxyEvents, BinaryWhole, RunsForClients,
                Clients
  <2>8. ASSUME NEW r \in PrRelations, RelateProxy(r) PROVE PromtailInv'
    BY <2>8 DEF RelateProxy, prPromtail, ProxyEvents, BinaryWhole, RunsForClients, Clients
  <2>9. ASSUME NEW r \in PrRelations, RemoveProxy(r) PROVE PromtailInv'
    BY <2>9 DEF RemoveProxy, prPromtail, ProxyEvents, BinaryWhole, RunsForClients, Clients
  <2>10. CASE WorkloadRestarts
    BY <2>10 DEF WorkloadRestarts, prBags, ProxyEvents, BinaryWhole, RunsForClients, Clients
  <2>11. CASE WorkloadStarts
    BY <2>11 DEF WorkloadStarts, prBags, prPromtail, ProxyEvents, BinaryWhole, RunsForClients,
                 Clients
  <2>12. CASE UNCHANGED prVars
    BY <2>12 DEF prVars, prBags, prPromtail, prEvents, ProxyEvents, BinaryWhole, RunsForClients,
                 Clients
  <2> QED
    BY <2>1, <2>2, <2>3, <2>4, <2>5, <2>6, <2>7, <2>8, <2>9, <2>10, <2>11, <2>12 DEF PrNext
<1> QED BY <1>1, <1>2, PTL DEF PrSpec

\* A hook that raised is that of an event of a relation, or of the workload.
LEMMA PromtailTypes == PrSpec => []PrTypeOK
<1> USE PrAssumption
<1>1. PrInit => PrTypeOK
  <2> SUFFICES ASSUME PrInit PROVE PrTypeOK
    OBVIOUS
  <2>1. prConnects \in BOOLEAN /\ prLayer \in BOOLEAN /\ prReady \in BOOLEAN
    BY Zenon DEF PrInit
  <2>2. Ready \in {Ready} \cup UNION {{Created(r), Heard(r), Gone(r)} : r \in PrRelations}
    OBVIOUS
  <2> QED BY <2>1, <2>2 DEF PrInit, PrTypeOK
<1>2. PrTypeOK /\ [PrNext]_prVars => PrTypeOK'
  <2> SUFFICES ASSUME PrTypeOK, [PrNext]_prVars PROVE PrTypeOK'
    OBVIOUS
  <2> DEFINE Events == {Ready} \cup UNION {{Created(r), Heard(r), Gone(r)} : r \in PrRelations}
  <2> USE DEF PrTypeOK
  <2>1. /\ Ready \in Events
        /\ \A r \in PrRelations : {Created(r), Heard(r), Gone(r)} \subseteq Events
    OBVIOUS
  <2>2. SetupEvents \subseteq Events
    BY <2>1 DEF SetupEvents
  <2>3. \A e \in Events : Raises(e) => \E f \in Events : prStuck' \in {{}, {f}}
    BY DEF Raises
  <2>4. Returns \/ UNCHANGED prStuck => \E f \in Events : prStuck' \in {{}, {f}}
    BY <2>1 DEF Returns
  <2> HIDE DEF Events
  <2>5. ASSUME SetupPromtail
        PROVE  /\ prConfig' \subseteq PrRelations /\ prRuns' \subseteq PrRelations
               /\ prLayer' \in BOOLEAN
               /\ prInstalled' \in {"none", "torn", "whole"}
               /\ prFetched' \in {"none", "torn", "whole"}
    <3>1. CASE UNCHANGED prPromtail
      BY <3>1 DEF prPromtail
    <3>2. CASE /\ EnsureBinary /\ prConfig' = Clients /\ prLayer' = TRUE
               /\ prRuns' \in {prConfig', prRuns, {}}
      BY <3>2 DEF EnsureBinary, ObtainPromtail, MustDownload, Clients
    <3> QED BY <2>5, <3>1, <3>2 DEF SetupPromtail, RestartPromtail
  <2>6. CASE PromtailReady
    BY <2>4, <2>5, <2>6 DEF PromtailReady, prBags, Events
  <2>7. ASSUME NEW r \in PrRelations, PromtailCreated(r) PROVE PrTypeOK'
    BY <2>4, <2>5, <2>7 DEF PromtailCreated, prBags, prPromtail, Events
  <2>8. ASSUME NEW r \in PrRelations, PromtailChanged(r) PROVE PrTypeOK'
    <3>1. CASE UNCHANGED prPromtail /\ Returns
      BY <2>4, <2>8, <3>1 DEF PromtailChanged, prBags, prPromtail, Events
    <3>2. CASE RefreshPromtail(r)
      BY <2>1, <2>3, <2>4, <2>8, <3>2
         DEF PromtailChanged, prBags, RefreshPromtail, RestartOrRaise, RestartPromtail, Clients,
             Events
    <3>3. CASE SetupPromtail /\ Returns
      BY <2>4, <2>5, <2>8, <3>3 DEF PromtailChanged, prBags, Events
    <3> QED BY <2>8, <3>1, <3>2, <3>3 DEF PromtailChanged
  <2>9. ASSUME NEW r \in PrRelations, PromtailDeparted(r) PROVE PrTypeOK'
    <3>1. \E f \in Events : prStuck' \in {{}, {f}}
      BY <2>1, <2>3, <2>4, <2>9 DEF PromtailDeparted
    <3> QED
      BY <2>9, <3>1
         DEF PromtailDeparted, prPromtail, StopPromtail, RestartPromtail, Clients, Events
  <2>10. CASE CutOffInDownload
    <3>1. \E f \in Events : prStuck' \in {{}, {f}}
      BY <2>2, <2>3, <2>10 DEF CutOffInDownload
    <3> QED BY <2>10, <3>1 DEF CutOffInDownload, prBags, prEvents, Events
  <2>11. ASSUME NEW r \in PrRelations,
                LokiPublishes(r) \/ LokiHears(r) \/ RelateProxy(r) \/ RemoveProxy(r)
         PROVE  PrTypeOK'
    BY <2>11 DEF LokiPublishes, LokiHears, RelateProxy, RemoveProxy, PrChange, prBags, prPromtail,
                 prEvents
  <2>12. CASE WorkloadRestarts \/ WorkloadStarts
    <3>1. prConnects' \in BOOLEAN /\ prLayer' \in BOOLEAN /\ prReady' \in BOOLEAN
      <4>1. CASE WorkloadRestarts
        <5>1. (Ready \in prStuck) \in BOOLEAN
          OBVIOUS
        <5>2. prConnects' = FALSE /\ prLayer' = FALSE /\ prReady' = (Ready \in prStuck)
          BY <4>1, Zenon DEF WorkloadRestarts
        <5> QED BY <5>1, <5>2, Zenon
      <4>2. CASE WorkloadStarts
        BY <4>2, Zenon DEF WorkloadStarts, prPromtail
      <4> QED BY <2>12, <4>1, <4>2
    <3>2. CASE WorkloadRestarts
      BY <3>1, <3>2 DEF WorkloadRestarts, PrChange, prBags
    <3>3. CASE WorkloadStarts
      BY <3>1, <3>3 DEF WorkloadStarts, prBags, prPromtail
    <3> QED BY <2>12, <3>2, <3>3
  <2>13. CASE UNCHANGED prVars
    BY <2>13 DEF prVars, prBags, prPromtail, prEvents
  <2> QED
    BY <2>6, <2>7, <2>8, <2>9, <2>10, <2>11, <2>12, <2>13 DEF PrNext
<1> QED BY <1>1, <1>2, PTL DEF PrSpec

\* Promtail never runs from a binary that was not stored to the end, and when all
\* is handled it sends the logs to the units of Loki there are, through restarts
\* of its container and whatever came late.
THEOREM PromtailAlwaysWorks == PrSpec => []PromtailWorks
<1>1. PromtailInv => PromtailWorks
  BY DEF PromtailInv, ProxyEvents, BinaryWhole, RunsForClients, PromtailWorks, PromtailSends,
         NothingTorn, PrHandled, Clients
<1> QED BY <1>1, PromtailInvariant, PTL

-------------------------------------------------------------------------------
(***************************************************************************)
(* Log forwarding (LogForwarding).                                         *)
(*                                                                         *)
(* A unit of Loki in use has published where it is or has an event; a      *)
(* container forwards to what is published, unless an event of a relation  *)
(* or its own is due, or nothing is; and a relation has the rules, or an   *)
(* event, or an endpoint to wait for, whose publishing will be an event.   *)
(***************************************************************************)

EndpointsPublished ==
  /\ \A r \in LfRelations : UnitsIn(r) # {}
  /\ lfServing \subseteq InUse
  /\ \A u \in LfLokis :
       IF u \in InUse THEN lfEndpoint[u] = lfAddress[u] \/ u \in lfServing
       ELSE lfEndpoint[u] = NoLfUrl

PlanOf(active) == [u \in LfLokis |-> IF u \in active THEN lfEndpoint[u] ELSE NoLfUrl]

TargetsFollow ==
  \/ lfQueue # {}
  \/ ActiveEndpoints = {}
  \/ \A c \in lfConnects \ lfReady : lfTargets[c] = PlanOf(ActiveEndpoints)

RulesFollow == \A r \in lfRelated : r \in lfRules \/ r \in lfQueue \/ ~IsReady(r)

ForwardingInv == LfTypeOK /\ EndpointsPublished /\ TargetsFollow /\ RulesFollow

\* The units whose endpoint is forwarded to.
LEMMA ActiveEndpointsAre ==
  ASSUME NEW u
  PROVE  u \in ActiveEndpoints <=>
           \E r \in lfRelated : IsReady(r) /\ u \in lfLokis /\ LfAppOf[u] = r
<1>1. \A r : u \in FetchEndpoints(r) <=> IsReady(r) /\ u \in lfLokis /\ LfAppOf[u] = r
  BY DEF FetchEndpoints, UnitsIn
<1>2. u \in ActiveEndpoints <=> \E r \in lfRelated : u \in FetchEndpoints(r)
  BY DEF ActiveEndpoints
<1> QED BY <1>1, <1>2

\* While relations, units and endpoints are, the active endpoints are the same.
LEMMA SameActive ==
  ASSUME UNCHANGED <<lfRelated, lfLokis, lfEndpoint>>
  PROVE  /\ ActiveEndpoints' = ActiveEndpoints /\ InUse' = InUse
         /\ \A r : IsReady(r)' = IsReady(r) /\ UnitsIn(r)' = UnitsIn(r)
BY DEF ActiveEndpoints, FetchEndpoints, IsReady, UnitsIn, InUse

\* What follows from a step that leaves databags and targets as they are.
LEMMA QuietStep ==
  ASSUME ForwardingInv, UNCHANGED <<lfRelated, lfLokis, lfEndpoint, lfRules, lfTargets>>,
         lfQueue' = lfQueue,
         \A c \in lfConnects' \ lfReady' : c \in lfConnects \ lfReady
  PROVE  TargetsFollow' /\ RulesFollow'
<1>1. ActiveEndpoints' = ActiveEndpoints /\ \A r : IsReady(r)' = IsReady(r)
  BY SameActive
<1>2. PlanOf(ActiveEndpoints)' = PlanOf(ActiveEndpoints)
  BY <1>1 DEF PlanOf
<1> QED BY <1>1, <1>2 DEF ForwardingInv, TargetsFollow, RulesFollow

\* What _update_endpoints makes of the plans.
LEMMA UpdatedPlans ==
  ASSUME LfTypeOK, NEW containers, UpdateEndpoints(containers, ActiveEndpoints)
  PROVE  /\ \A c \in LfContainers :
              lfTargets'[c] = IF c \in containers THEN PlanOf(ActiveEndpoints) ELSE lfTargets[c]
         /\ lfTargets' \in [LfContainers -> [LfLokis -> LfUrls \cup {NoLfUrl}]]
<1> DEFINE plan(c) == EnableEndpoints(DisableInactive(lfTargets[c], ActiveEndpoints), ActiveEndpoints)
<1>1. \A c \in LfContainers : plan(c) = PlanOf(ActiveEndpoints)
  BY DEF EnableEndpoints, DisableInactive, PlanOf
<1>2. lfTargets' = [c \in LfContainers |-> IF c \in containers THEN plan(c) ELSE lfTargets[c]]
  BY DEF UpdateEndpoints
<1>3. PlanOf(ActiveEndpoints) \in [LfLokis -> LfUrls \cup {NoLfUrl}]
  BY DEF PlanOf, LfTypeOK
<1> HIDE DEF plan
<1>4. lfTargets' = [c \in LfContainers |->
                      IF c \in containers THEN PlanOf(ActiveEndpoints) ELSE lfTargets[c]]
  BY <1>1, <1>2
<1> QED BY <1>3, <1>4 DEF LfTypeOK

LEMMA ForwardingInit == LfInit => ForwardingInv
<1> SUFFICES ASSUME LfInit PROVE ForwardingInv
  OBVIOUS
<1> USE LfAssumption
<1>1. PICK url \in LfUrls : lfAddress = [u \in LfLokis |-> url]
  BY DEF LfInit
<1>2. NoTargets \in [LfLokis -> LfUrls \cup {NoLfUrl}]
  BY DEF NoTargets
<1>3. lfTargets \in [LfContainers -> [LfLokis -> LfUrls \cup {NoLfUrl}]]
  BY <1>2 DEF LfInit
<1>4. LfTypeOK
  BY <1>1, <1>2, <1>3 DEF LfInit, LfTypeOK
<1>5. ASSUME NEW r \in LfRelations PROVE UnitsIn(r) # {}
  <2>1. PICK u \in LfLokis : lfLokis \cap {v \in LfLokis : LfAppOf[v] = r} = {u}
    BY DEF LfInit
  <2> QED BY <2>1 DEF UnitsIn
<1>6. ActiveEndpoints = {}
  BY ActiveEndpointsAre DEF LfInit
<1> QED
  BY <1>4, <1>5, <1>6
     DEF LfInit, ForwardingInv, EndpointsPublished, TargetsFollow, RulesFollow, InUse, NoTargets

LEMMA ForwardingStep == ForwardingInv /\ [LfNext]_lfVars => ForwardingInv'
<1> SUFFICES ASSUME ForwardingInv, [LfNext]_lfVars PROVE ForwardingInv'
  OBVIOUS
<1> USE LfAssumption DEF ForwardingInv
<1>1. ASSUME NEW r \in LfRelations, UpdateLogging(r) PROVE ForwardingInv'
  <2>1. /\ r \in lfQueue /\ lfQueue' = lfQueue \ {r}
        /\ UNCHANGED <<lfRelated, lfLokis, lfAddress, lfEndpoint, lfConnects, lfReady, lfServing,
                       lfChanges>>
    BY <1>1 DEF UpdateLogging, lfLoki
  <2>2. ActiveEndpoints' = ActiveEndpoints /\ InUse' = InUse
        /\ \A s : IsReady(s)' = IsReady(s) /\ UnitsIn(s)' = UnitsIn(s)
    BY <2>1, SameActive
  <2>3. EndpointsPublished'
    BY <2>1, <2>2 DEF EndpointsPublished
  <2>4. CASE ActiveEndpoints = {}
    <3>1. UNCHANGED <<lfTargets, lfRules>>
      BY <1>1, <2>4 DEF UpdateLogging
    <3>2. LfTypeOK'
      BY <2>1, <3>1 DEF LfTypeOK
    <3>3. r \in lfRelated => ~IsReady(r)
      <4>1. PICK u : u \in lfLokis /\ LfAppOf[u] = r
        BY DEF EndpointsPublished, UnitsIn
      <4> QED BY <2>4, <4>1, ActiveEndpointsAre
    <3> QED BY <2>1, <2>2, <2>3, <2>4, <3>1, <3>2, <3>3 DEF TargetsFollow, RulesFollow
  <2>5. CASE ActiveEndpoints # {}
    <3>1. UpdateEndpoints(lfConnects, ActiveEndpoints) /\ lfRules' = lfRules \cup ({r} \cap lfRelated)
      BY <1>1, <2>5 DEF UpdateLogging, RulesSent
    <3>2. /\ \A c \in LfContainers :
               lfTargets'[c] = IF c \in lfConnects THEN PlanOf(ActiveEndpoints) ELSE lfTargets[c]
          /\ lfTargets' \in [LfContainers -> [LfLokis -> LfUrls \cup {NoLfUrl}]]
      BY <3>1, UpdatedPlans
    <3>3. LfTypeOK'
      BY <2>1, <3>1, <3>2 DEF LfTypeOK
    <3>4. PlanOf(ActiveEndpoints)' = PlanOf(ActiveEndpoints)
      BY <2>1, <2>2 DEF PlanOf
    <3>5. TargetsFollow'
      BY <2>1, <2>2, <3>2, <3>4 DEF TargetsFollow, LfTypeOK
    <3> QED BY <2>1, <2>2, <2>3, <3>1, <3>3, <3>5 DEF RulesFollow
  <2> QED BY <2>4, <2>5
<1>2. ASSUME NEW c \in LfContainers, PebbleReadyHook(c) PROVE ForwardingInv'
  <2>1. /\ lfReady' = lfReady \ {c}
        /\ UNCHANGED <<lfRelated, lfLokis, lfAddress, lfEndpoint, lfRules, lfConnects, lfQueue,
                       lfServing, lfChanges>>
    BY <1>2 DEF PebbleReadyHook, lfLoki, lfBags
  <2>2. ActiveEndpoints' = ActiveEndpoints /\ InUse' = InUse
        /\ \A s : IsReady(s)' = IsReady(s) /\ UnitsIn(s)' = UnitsIn(s)
    BY <2>1, SameActive
  <2>3. EndpointsPublished' /\ RulesFollow'
    BY <2>1, <2>2 DEF EndpointsPublished, RulesFollow
  <2>4. CASE ActiveEndpoints = {}
    <3>1. UNCHANGED lfTargets
      BY <1>2, <2>4 DEF PebbleReadyHook, PebbleReady
    <3>2. LfTypeOK'
      BY <2>1, <3>1 DEF LfTypeOK
    <3> QED BY <2>2, <2>3, <2>4, <3>2 DEF TargetsFollow
  <2>5. CASE ActiveEndpoints # {}
    <3>1. UpdateEndpoints({c}, ActiveEndpoints)
      BY <1>2, <2>5 DEF PebbleReadyHook, PebbleReady
    <3>2. /\ \A d \in LfContainers :
               lfTargets'[d] = IF d \in {c} THEN PlanOf(ActiveEndpoints) ELSE lfTargets[d]
          /\ lfTargets' \in [LfContainers -> [LfLokis -> LfUrls \cup {NoLfUrl}]]
      BY <3>1, UpdatedPlans
    <3>3. LfTypeOK'
      BY <2>1, <3>2 DEF LfTypeOK
    <3>4. PlanOf(ActiveEndpoints)' = PlanOf(ActiveEndpoints)
      BY <2>1, <2>2 DEF PlanOf
    <3>5. TargetsFollow'
      BY <2>1, <2>2, <2>5, <3>2, <3>4 DEF TargetsFollow, LfTypeOK
    <3> QED BY <2>3, <3>3, <3>5
  <2> QED BY <2>4, <2>5
<1>3. ASSUME NEW u \in LfLokis, LokiHook(u) PROVE ForwardingInv'
  <2>1. /\ u \in lfServing /\ lfServing' = lfServing \ {u}
        /\ lfEndpoint' = [lfEndpoint EXCEPT ![u] = lfAddress[u]]
        /\ lfQueue' = IF lfEndpoint' # lfEndpoint THEN lfQueue \cup {LfAppOf[u]} ELSE lfQueue
        /\ UNCHANGED <<lfRelated, lfLokis, lfAddress, lfRules, lfConnects, lfTargets, lfReady,
                       lfChanges>>
    BY <1>3 DEF LokiHook, lfLoki, lfPebble
  <2>2. u \in InUse
    BY <2>1 DEF EndpointsPublished
  <2>3. /\ lfEndpoint' \in [LfLokis -> LfUrls \cup {NoLfUrl}] /\ lfEndpoint'[u] = lfAddress[u]
        /\ \A v \in LfLokis \ {u} : lfEndpoint'[v] = lfEndpoint[v]
    BY <2>1 DEF LfTypeOK
  <2>4. lfQueue \subseteq lfQueue' /\ lfQueue' \subseteq LfRelations
    BY <2>1 DEF LfTypeOK
  <2>5. LfTypeOK'
    BY <2>1, <2>3, <2>4 DEF LfTypeOK
  <2>6. InUse' = InUse /\ \A r : UnitsIn(r)' = UnitsIn(r)
    BY <2>1 DEF InUse, UnitsIn
  <2>7. EndpointsPublished'
    BY <2>1, <2>2, <2>3, <2>6 DEF EndpointsPublished
  <2>8. TargetsFollow' /\ RulesFollow'
    <3>1. CASE lfEndpoint' = lfEndpoint
      BY <2>1, <3>1, QuietStep
    <3>2. CASE lfEndpoint' # lfEndpoint
      <4>1. LfAppOf[u] \in lfQueue'
        BY <2>1, <3>2
      <4>2. ASSUME NEW r \in lfRelated, r # LfAppOf[u] PROVE IsReady(r)' = IsReady(r)
        <5>1. \A v \in UnitsIn(r) : lfEndpoint'[v] = lfEndpoint[v]
          BY <2>3, <4>2 DEF UnitsIn, LfTypeOK
        <5> QED BY <2>6, <5>1 DEF IsReady
      <4> QED BY <2>1, <2>4, <4>1, <4>2 DEF TargetsFollow, RulesFollow
    <3> QED BY <3>1, <3>2
  <2> QED BY <2>5, <2>7, <2>8
<1>4. ASSUME NEW r \in LfRelations, RelateLoki(r) PROVE ForwardingInv'
  <2>1. /\ r \notin lfRelated /\ lfRelated' = lfRelated \cup {r}
        /\ lfQueue' = lfQueue \cup {r}
        /\ lfServing' = lfServing \cup UnitsIn(r)
        /\ lfChanges' \in 0..MaxLfChanges
        /\ UNCHANGED <<lfLokis, lfAddress, lfEndpoint, lfRules, lfConnects, lfTargets, lfReady>>
    BY <1>4 DEF RelateLoki, LfChange, lfBags, lfPebble, LfTypeOK
  <2>2. LfTypeOK'
    BY <2>1 DEF LfTypeOK, UnitsIn
  <2>3. InUse' = InUse \cup UnitsIn(r) /\ \A s : UnitsIn(s)' = UnitsIn(s) /\ IsReady(s)' = IsReady(s)
    BY <2>1 DEF InUse, UnitsIn, IsReady
  <2>4. EndpointsPublished'
    BY <2>1, <2>3 DEF EndpointsPublished
  <2> QED BY <2>1, <2>2, <2>3, <2>4 DEF TargetsFollow, RulesFollow
<1>5. ASSUME NEW r \in LfRelations, RemoveLokiRelation(r) PROVE ForwardingInv'
  <2>1. /\ r \in lfRelated /\ lfRelated' = lfRelated \ {r}
        /\ lfEndpoint' = [u \in LfLokis |-> IF LfAppOf[u] = r THEN NoLfUrl ELSE lfEndpoint[u]]
        /\ lfRules' = lfRules \ {r}
        /\ lfQueue' = lfQueue \cup {r}
        /\ lfServing' = lfServing \ UnitsIn(r)
        /\ lfChanges' \in 0..MaxLfChanges
        /\ UNCHANGED <<lfLokis, lfAddress, lfConnects, lfTargets, lfReady>>
    BY <1>5 DEF RemoveLokiRelation, LfChange, lfPebble, LfTypeOK
  <2>2. lfEndpoint' \in [LfLokis -> LfUrls \cup {NoLfUrl}]
    BY <2>1 DEF LfTypeOK
  <2>3. LfTypeOK'
    BY <2>1, <2>2 DEF LfTypeOK
  <2>4. InUse' = InUse \ UnitsIn(r) /\ \A s : UnitsIn(s)' = UnitsIn(s)
    BY <2>1 DEF InUse, UnitsIn
  <2>5. EndpointsPublished'
    BY <2>1, <2>4 DEF EndpointsPublished, UnitsIn, LfTypeOK, InUse
  <2>6. ASSUME NEW s \in lfRelated, s # r PROVE IsReady(s)' = IsReady(s)
    <3>1. \A v \in UnitsIn(s) : lfEndpoint'[v] = lfEndpoint[v]
      BY <2>1, <2>6 DEF UnitsIn, LfTypeOK
    <3> QED BY <2>4, <3>1 DEF IsReady
  <2> QED BY <2>1, <2>3, <2>5, <2>6 DEF TargetsFollow, RulesFollow
<1>6. ASSUME NEW u \in LfLokis, AddLoki(u) PROVE ForwardingInv'
  <2>1. /\ u \notin lfLokis /\ lfLokis' = lfLokis \cup {u}
        /\ IF LfAppOf[u] \in lfRelated
           THEN lfQueue' = lfQueue \cup {LfAppOf[u]} /\ lfServing' = lfServing \cup {u}
           ELSE UNCHANGED <<lfQueue, lfServing>>
        /\ lfChanges' \in 0..MaxLfChanges
        /\ UNCHANGED <<lfRelated, lfAddress, lfEndpoint, lfRules, lfConnects, lfTargets, lfReady>>
    BY <1>6 DEF AddLoki, LfChange, lfBags, lfPebble, LfTypeOK
  <2>2. LfTypeOK'
    BY <2>1 DEF LfTypeOK
  <2>3. /\ InUse' = IF LfAppOf[u] \in lfRelated THEN InUse \cup {u} ELSE InUse
        /\ \A s : UnitsIn(s)' = IF s = LfAppOf[u] THEN UnitsIn(s) \cup {u} ELSE UnitsIn(s)
    BY <2>1 DEF InUse, UnitsIn
  <2>4. EndpointsPublished'
    BY <2>1, <2>3 DEF EndpointsPublished
  <2>5. \A s : s # LfAppOf[u] => IsReady(s)' = IsReady(s)
    BY <2>1, <2>3 DEF IsReady
  <2>6. CASE LfAppOf[u] \in lfRelated
    BY <2>1, <2>2, <2>4, <2>5, <2>6 DEF TargetsFollow, RulesFollow
  <2>7. CASE LfAppOf[u] \notin lfRelated
    <3>1. \A v : v \in ActiveEndpoints' <=> v \in ActiveEndpoints
      <4> SUFFICES ASSUME NEW v PROVE v \in ActiveEndpoints' <=> v \in ActiveEndpoints
        OBVIOUS
      <4>1. v \in ActiveEndpoints <=>
              \E r \in lfRelated : IsReady(r) /\ v \in lfLokis /\ LfAppOf[v] = r
        BY ActiveEndpointsAre
      <4>2. v \in ActiveEndpoints' <=>
              \E r \in lfRelated' : IsReady(r)' /\ v \in lfLokis' /\ LfAppOf[v] = r
        <5>1. \A r : v \in FetchEndpoints(r)' <=> IsReady(r)' /\ v \in lfLokis' /\ LfAppOf[v] = r
          BY DEF FetchEndpoints, UnitsIn
        <5>2. v \in ActiveEndpoints' <=> \E r \in lfRelated' : v \in FetchEndpoints(r)'
          BY DEF ActiveEndpoints
        <5> QED BY <5>1, <5>2
      <4> QED BY <2>1, <2>5, <2>7, <4>1, <4>2
    <3>2. ActiveEndpoints' = ActiveEndpoints
      BY <3>1
    <3>3. PlanOf(ActiveEndpoints)' = PlanOf(ActiveEndpoints)
      BY <2>1, <3>2 DEF PlanOf
    <3> QED BY <2>1, <2>2, <2>4, <2>5, <2>7, <3>2, <3>3 DEF TargetsFollow, RulesFollow
  <2> QED BY <2>6, <2>7
<1>7. ASSUME NEW u \in LfLokis, RemoveLoki(u) PROVE ForwardingInv'
  <2>1. /\ u \in lfLokis /\ lfLokis' = lfLokis \ {u} /\ UnitsIn(LfAppOf[u]) # {u}
        /\ lfEndpoint' = [lfEndpoint EXCEPT ![u] = NoLfUrl]
        /\ lfQueue' = lfQueue \cup ({LfAppOf[u]} \cap lfRelated)
        /\ lfServing' = lfServing \ {u}
        /\ lfChanges' \in 0..MaxLfChanges
        /\ UNCHANGED <<lfRelated, lfAddress, lfRules, lfConnects, lfTargets, lfReady>>
    BY <1>7 DEF RemoveLoki, LfChange, lfPebble, LfTypeOK
  <2>2. /\ lfEndpoint' \in [LfLokis -> LfUrls \cup {NoLfUrl}] /\ lfEndpoint'[u] = NoLfUrl
        /\ \A v \in LfLokis \ {u} : lfEndpoint'[v] = lfEndpoint[v]
    BY <2>1 DEF LfTypeOK
  <2>3. LfTypeOK'
    BY <2>1, <2>2 DEF LfTypeOK
  <2>4. InUse' = InUse \ {u} /\ \A s : UnitsIn(s)' = UnitsIn(s) \ {u}
    BY <2>1 DEF InUse, UnitsIn
  <2>5. \A s \in LfRelations : UnitsIn(s)' # {}
    BY <2>1, <2>4 DEF EndpointsPublished, UnitsIn
  <2>6. EndpointsPublished'
    BY <2>1, <2>2, <2>4, <2>5 DEF EndpointsPublished
  <2>7. ASSUME NEW s \in LfRelations, s # LfAppOf[u] PROVE IsReady(s)' = IsReady(s)
    <3>1. UnitsIn(s)' = UnitsIn(s) /\ \A v \in UnitsIn(s) : v \in LfLokis \ {u}
      BY <2>4, <2>7 DEF UnitsIn, LfTypeOK
    <3> QED BY <2>2, <3>1 DEF IsReady
  <2>8. CASE LfAppOf[u] \in lfRelated
    BY <2>1, <2>3, <2>6, <2>7, <2>8 DEF TargetsFollow, RulesFollow, LfTypeOK
  <2>9. CASE LfAppOf[u] \notin lfRelated
    <3>1. u \notin InUse /\ lfEndpoint[u] = NoLfUrl
      BY <2>9 DEF InUse, EndpointsPublished
    <3>2. lfEndpoint' = lfEndpoint
      BY <2>1, <3>1 DEF LfTypeOK
    <3>3. \A v : v \in ActiveEndpoints' <=> v \in ActiveEndpoints
      <4> SUFFICES ASSUME NEW v PROVE v \in ActiveEndpoints' <=> v \in ActiveEndpoints
        OBVIOUS
      <4>1. v \in ActiveEndpoints <=>
              \E r \in lfRelated : IsReady(r) /\ v \in lfLokis /\ LfAppOf[v] = r
        BY ActiveEndpointsAre
      <4>2. v \in ActiveEndpoints' <=>
              \E r \in lfRelated' : IsReady(r)' /\ v \in lfLokis' /\ LfAppOf[v] = r
        <5>1. \A r : v \in FetchEndpoints(r)' <=> IsReady(r)' /\ v \in lfLokis' /\ LfAppOf[v] = r
          BY DEF FetchEndpoints, UnitsIn
        <5>2. v \in ActiveEndpoints' <=> \E r \in lfRelated' : v \in FetchEndpoints(r)'
          BY DEF ActiveEndpoints
        <5> QED BY <5>1, <5>2
      <4> QED BY <2>1, <2>7, <2>9, <4>1, <4>2 DEF LfTypeOK
    <3>4. ActiveEndpoints' = ActiveEndpoints
      BY <3>3
    <3>5. PlanOf(ActiveEndpoints)' = PlanOf(ActiveEndpoints)
      BY <3>2, <3>4 DEF PlanOf
    <3>6. TargetsFollow'
      BY <2>1, <2>9, <3>4, <3>5 DEF TargetsFollow
    <3>7. RulesFollow'
      BY <2>1, <2>7, <2>9 DEF RulesFollow, LfTypeOK
    <3> QED BY <2>3, <2>6, <3>6, <3>7
  <2> QED BY <2>8, <2>9
<1>8. ASSUME NEW u \in LfLokis, NEW url \in LfUrls, MoveLoki(u, url) PROVE ForwardingInv'
  <2>1. /\ u \in lfLokis /\ lfAddress' = [lfAddress EXCEPT ![u] = url]
        /\ lfServing' = IF LfAppOf[u] \in lfRelated THEN lfServing \cup {u} ELSE lfServing
        /\ lfChanges' \in 0..MaxLfChanges
        /\ UNCHANGED <<lfRelated, lfLokis, lfEndpoint, lfRules, lfConnects, lfTargets, lfQueue,
                       lfReady>>
    BY <1>8 DEF MoveLoki, LfChange, lfBags, lfPebble, LfTypeOK
  <2>2. LfTypeOK'
    BY <2>1 DEF LfTypeOK
  <2>3. EndpointsPublished'
    BY <2>1 DEF EndpointsPublished, InUse, UnitsIn, LfTypeOK
  <2> QED BY <2>1, <2>2, <2>3, QuietStep
<1>9. ASSUME NEW c \in LfContainers, ContainerStops(c) PROVE ForwardingInv'
  <2>1. /\ lfConnects' = lfConnects \ {c} /\ lfReady' = lfReady \ {c}
        /\ lfTargets' = [lfTargets EXCEPT ![c] = NoTargets]
        /\ lfChanges' \in 0..MaxLfChanges
        /\ UNCHANGED <<lfRelated, lfLokis, lfAddress, lfEndpoint, lfRules, lfQueue, lfServing>>
    BY <1>9 DEF ContainerStops, LfChange, lfLoki, lfBags, LfTypeOK
  <2>2. NoTargets \in [LfLokis -> LfUrls \cup {NoLfUrl}]
    BY DEF NoTargets
  <2>3. LfTypeOK'
    BY <2>1, <2>2 DEF LfTypeOK
  <2>4. ActiveEndpoints' = ActiveEndpoints /\ InUse' = InUse
        /\ \A r : IsReady(r)' = IsReady(r) /\ UnitsIn(r)' = UnitsIn(r)
    BY <2>1, SameActive
  <2>5. PlanOf(ActiveEndpoints)' = PlanOf(ActiveEndpoints)
    BY <2>1, <2>4 DEF PlanOf
  <2>6. TargetsFollow'
    BY <2>1, <2>4, <2>5 DEF TargetsFollow, LfTypeOK
  <2> QED BY <2>1, <2>3, <2>4, <2>6 DEF EndpointsPublished, RulesFollow
<1>10. ASSUME NEW c \in LfContainers, ContainerStarts(c) PROVE ForwardingInv'
  <2>1. /\ lfConnects' = lfConnects \cup {c} /\ lfReady' = lfReady \cup {c}
        /\ UNCHANGED <<lfRelated, lfLokis, lfAddress, lfEndpoint, lfRules, lfTargets, lfQueue,
                       lfServing, lfChanges>>
    BY <1>10 DEF ContainerStarts, lfLoki, lfBags
  <2>2. LfTypeOK'
    BY <2>1 DEF LfTypeOK
  <2>3. EndpointsPublished'
    BY <2>1 DEF EndpointsPublished, InUse, UnitsIn
  <2> QED BY <2>1, <2>2, <2>3, QuietStep
<1>11. CASE UNCHANGED lfVars
  <2>1. UNCHANGED <<lfRelated, lfLokis, lfAddress, lfEndpoint, lfRules, lfConnects, lfTargets,
                    lfQueue, lfReady, lfServing, lfChanges>>
    BY <1>11 DEF lfVars, lfLoki, lfBags, lfPebble, lfQueues
  <2>2. EndpointsPublished'
    BY <2>1 DEF EndpointsPublished, InUse, UnitsIn
  <2> QED BY <2>1, <2>2, QuietStep DEF LfTypeOK
<1> QED BY <1>1, <1>2, <1>3, <1>4, <1>5, <1>6, <1>7, <1>8, <1>9, <1>10, <1>11 DEF LfNext

LEMMA ForwardingInvariant == LfSpec => []ForwardingInv
BY ForwardingInit, ForwardingStep, PTL DEF LfSpec

\* The values of the variables: rules only for relations there are, events only
\* for units of Loki there are and for containers that answer.
THEOREM ForwardingTypes == LfSpec => []LfTypeOK
<1>1. ForwardingInv => LfTypeOK
  BY DEF ForwardingInv
<1> QED BY <1>1, ForwardingInvariant, PTL

\* When all is handled and a Loki is left, every container forwards its logs to
\* exactly the units there are, where they are now, and every related Loki has
\* the alert rules, in whatever order units, relations and containers came.
THEOREM LogsAreForwarded == LfSpec => []LogsForwarded
<1>1. ForwardingInv => LogsForwarded
  <2> SUFFICES ASSUME ForwardingInv, AllHandled
               PROVE  /\ InUse # {} =>
                           \A c \in lfConnects \ lfReady : \A u \in LfLokis :
                             lfTargets[c][u] = IF u \in InUse THEN lfAddress[u] ELSE NoLfUrl
                      /\ lfRules = lfRelated
    BY DEF LogsForwarded, TargetsCurrent, LokiHasRules
  <2> USE LfAssumption DEF ForwardingInv
  <2>1. lfQueue = {} /\ lfServing = {}
    BY DEF AllHandled
  <2>2. \A u \in InUse : u \in LfLokis /\ lfEndpoint[u] = lfAddress[u] /\ lfEndpoint[u] # NoLfUrl
    BY <2>1 DEF EndpointsPublished, InUse, LfTypeOK
  <2>3. \A r \in lfRelated : IsReady(r)
    BY <2>2 DEF IsReady, UnitsIn, InUse, EndpointsPublished, LfTypeOK
  <2>4. lfRules = lfRelated
    BY <2>1, <2>3 DEF RulesFollow, LfTypeOK
  <2>5. \A u : u \in ActiveEndpoints <=> u \in InUse
    BY <2>3, ActiveEndpointsAre DEF InUse
  <2>6. ASSUME InUse # {}, NEW c \in lfConnects \ lfReady, NEW u \in LfLokis
        PROVE  lfTargets[c][u] = IF u \in InUse THEN lfAddress[u] ELSE NoLfUrl
    <3>1. lfTargets[c] = PlanOf(ActiveEndpoints)
      BY <2>1, <2>5, <2>6 DEF TargetsFollow
    <3> QED BY <2>2, <2>5, <3>1 DEF PlanOf
  <2> QED BY <2>4, <2>6
<1> QED BY <1>1, ForwardingInvariant, PTL

(***************************************************************************)
(* Resource limits (ResourceLimits).                                       *)
(*                                                                         *)
(* The template has the requirements of the limits that are set, unless    *)
(* the last patch failed or no pod has handled them yet; the revisions     *)
(* that are reported tell whether the current one is that of the template, *)
(* and where it is, no pod is left with another.                           *)
(***************************************************************************)

Schedulable(r) ==
  /\ \A k \in DOMAIN r.limits \intersect DOMAIN r.requests : r.requests[k] <= r.limits[k]
  /\ \A spec \in {r.limits, r.requests} : "memory" \in DOMAIN spec => spec["memory"] % 1000 = 0
  /\ RlAdhere => \A k \in DOMAIN r.limits \intersect DOMAIN RlRequests :
                   RlRequests[k] <= r.limits[k]

LimitsTypes ==
  /\ rlLimits \in RlLimits /\ rlEvents \subseteq RlPods /\ DOMAIN rlPods = RlPods

TemplateFollows ==
  rlFailed \/ rlTemplate = ResourceReqs(rlLimits) \/ rlEvents = RlPods

RevisionsTold == rlObserved => (rlReported.oneRevision <=> rlCurrent = rlTemplate)

PodsFollow ==
  rlCurrent = rlTemplate /\ ~rlPutBack => \A p \in RlPods : rlPods[p] = rlTemplate

AllSchedulable == Schedulable(rlTemplate) /\ \A p \in RlPods : Schedulable(rlPods[p])

LimitsInv ==
  LimitsTypes /\ TemplateFollows /\ RevisionsTold /\ PodsFollow /\ AllSchedulable

\* The greater of two numbers, and the smaller.
LEMMA MaxOfTwo ==
  ASSUME NEW a \in Int, NEW b \in Int
  PROVE  /\ Max({a, b}) \in {a, b}
         /\ Max({a, b}) >= a /\ Max({a, b}) >= b
<1>1. \E m \in {a, b} : \A n \in {a, b} : m >= n
  <2>1. CASE a >= b BY <2>1
  <2>2. CASE b >= a BY <2>2
  <2> QED BY <2>1, <2>2
<1> QED BY <1>1 DEF Max

LEMMA MinOfTwo ==
  ASSUME NEW a \in Int, NEW b \in Int
  PROVE  /\ Min({a, b}) \in {a, b}
         /\ Min({a, b}) <= a /\ Min({a, b}) <= b
<1>1. \E m \in {a, b} : \A n \in {a, b} : m <= n
  <2>1. CASE a <= b BY <2>1
  <2>2. CASE b <= a BY <2>2
  <2> QED BY <2>1, <2>2
<1> QED BY <1>1 DEF Min

\* A quantity rounded up to whole bytes is one, and no less than it was.
LEMMA CeilingIsWhole ==
  ASSUME NEW q \in Int
  PROVE  Ceiling(q) \in Int /\ Ceiling(q) % 1000 = 0 /\ q <= Ceiling(q)
BY DEF Ceiling

\* What is left of a specification are numbers, of memory whole bytes, and no less
\* than they were.
LEMMA SanitizedIsWhole ==
  ASSUME NEW spec, DOMAIN spec \subseteq {"cpu", "memory"},
         \A k \in DOMAIN spec : spec[k] \in Int
  PROVE  /\ DOMAIN Sanitized(spec) = DOMAIN spec
         /\ \A k \in DOMAIN Sanitized(spec) :
              /\ Sanitized(spec)[k] \in Int
              /\ k = "memory" => Sanitized(spec)[k] % 1000 = 0
              /\ spec[k] <= Sanitized(spec)[k]
<1>1. DOMAIN Sanitized(spec) = DOMAIN spec
  BY DEF Sanitized
<1>2. ASSUME NEW k \in DOMAIN spec
      PROVE  /\ Sanitized(spec)[k] \in Int
             /\ k = "memory" => Sanitized(spec)[k] % 1000 = 0
             /\ spec[k] <= Sanitized(spec)[k]
  <2>1. Sanitized(spec)[k] = IF k = "memory" THEN Ceiling(spec[k]) ELSE spec[k]
    BY DEF Sanitized
  <2> QED BY <2>1, CeilingIsWhole
<1> QED BY <1>1, <1>2

\* The requirements of any limits can be scheduled, whatever the charm requests
\* and whichever of the two gives way.
LEMMA RequirementsSchedulable ==
  ASSUME NEW limits \in RlLimits
  PROVE  Schedulable(ResourceReqs(limits))
<1> DEFINE l == Sanitized(limits)
           q == Sanitized(RlRequests)
           all == Filled(q, l)
           r == ResourceReqs(limits)
<1>1. /\ \A k \in DOMAIN l : l[k] \in Int
      /\ "memory" \in DOMAIN l => l["memory"] % 1000 = 0
  BY RlAssumption, SanitizedIsWhole
<1>2. /\ \A k \in DOMAIN q : q[k] \in Int
      /\ "memory" \in DOMAIN q => q["memory"] % 1000 = 0
      /\ DOMAIN q = DOMAIN RlRequests
      /\ \A k \in DOMAIN q : RlRequests[k] \in Int /\ RlRequests[k] <= q[k]
  BY RlAssumption, SanitizedIsWhole
<1>3. /\ DOMAIN all = DOMAIN q \union DOMAIN l
      /\ \A k \in DOMAIN all : all[k] = IF k \in DOMAIN q THEN q[k] ELSE l[k]
  BY DEF Filled
<1>4. /\ \A k \in DOMAIN all : all[k] \in Int
      /\ "memory" \in DOMAIN all => all["memory"] % 1000 = 0
  BY <1>1, <1>2, <1>3
<1>5. r = AdjustResourceRequirements(l, q)
  BY DEF ResourceReqs
<1> HIDE DEF l, q, r
<1>6. CASE RlAdhere
  <2>1. /\ r.requests = all
        /\ r.limits = [k \in DOMAIN l |-> Max({l[k], all[k]})]
    BY <1>5, <1>6 DEF AdjustResourceRequirements
  <2> HIDE DEF all
  <2>2. ASSUME NEW k \in DOMAIN l
        PROVE  /\ r.limits[k] \in {l[k], all[k]}
               /\ r.limits[k] >= l[k] /\ r.limits[k] >= all[k]
    <3>1. k \in DOMAIN all /\ l[k] \in Int /\ all[k] \in Int
      BY <1>1, <1>3, <1>4
    <3>2. r.limits[k] = Max({l[k], all[k]})
      BY <2>1
    <3> QED BY ONLY <3>1, <3>2, MaxOfTwo
  <2>3. \A k \in DOMAIN r.limits \intersect DOMAIN r.requests : r.requests[k] <= r.limits[k]
    BY <1>4, <2>1, <2>2
  <2>4. ASSUME NEW k \in DOMAIN r.limits \intersect DOMAIN RlRequests
        PROVE  RlRequests[k] <= r.limits[k]
    <3>1. k \in DOMAIN l /\ k \in DOMAIN q /\ k \in DOMAIN all /\ all[k] = q[k]
      BY <1>2, <1>3, <2>1
    <3>2. RlRequests[k] \in Int /\ q[k] \in Int /\ RlRequests[k] <= q[k]
      BY <1>2, <3>1
    <3>3. r.limits[k] \in Int /\ r.limits[k] >= q[k]
      BY <1>1, <1>4, <2>2, <3>1
    <3> QED BY <3>2, <3>3
  <2>5. "memory" \in DOMAIN r.limits => r.limits["memory"] % 1000 = 0
    <3> SUFFICES ASSUME "memory" \in DOMAIN r.limits
                 PROVE  r.limits["memory"] % 1000 = 0
      OBVIOUS
    <3>1. "memory" \in DOMAIN l /\ "memory" \in DOMAIN all
      BY <2>1, <1>3
    <3> QED BY <1>1, <1>4, <2>2, <3>1
  <2>6. \A spec \in {r.limits, r.requests} : "memory" \in DOMAIN spec => spec["memory"] % 1000 = 0
    BY ONLY <1>4, <2>1, <2>5
  <2> QED BY <2>3, <2>4, <2>6 DEF Schedulable, r
<1>7. CASE ~RlAdhere
  <2> DEFINE both == DOMAIN l \intersect DOMAIN all
  <2>1. /\ r.limits = l
        /\ r.requests = [k \in DOMAIN all |-> IF k \in both THEN Min({l[k], all[k]}) ELSE all[k]]
    BY <1>5, <1>7 DEF AdjustResourceRequirements
  <2> HIDE DEF all
  <2>2. ASSUME NEW k \in DOMAIN all
        PROVE  /\ k \in DOMAIN l => r.requests[k] \in {l[k], all[k]} /\ r.requests[k] <= l[k]
               /\ k \notin DOMAIN l => r.requests[k] = all[k]
    <3>1. all[k] \in Int /\ (k \in DOMAIN l => l[k] \in Int)
      BY <1>1, <1>4
    <3>2. r.requests[k] = IF k \in DOMAIN l THEN Min({l[k], all[k]}) ELSE all[k]
      BY <2>1
    <3> QED BY ONLY <3>1, <3>2, MinOfTwo
  <2>3. \A k \in DOMAIN r.limits \intersect DOMAIN r.requests : r.requests[k] <= r.limits[k]
    BY <1>1, <1>4, <2>1, <2>2
  <2>5. "memory" \in DOMAIN r.requests => r.requests["memory"] % 1000 = 0
    <3> SUFFICES ASSUME "memory" \in DOMAIN all
                 PROVE  r.requests["memory"] % 1000 = 0
      BY <2>1
    <3> QED BY <1>1, <1>4, <2>2
  <2>6. \A spec \in {r.limits, r.requests} : "memory" \in DOMAIN spec => spec["memory"] % 1000 = 0
    BY ONLY <1>1, <2>1, <2>5
  <2> QED BY <1>7, <2>3, <2>6 DEF Schedulable, r
<1> QED BY <1>6, <1>7

LEMMA InitLimits == RlInit => LimitsInv
<1> SUFFICES ASSUME RlInit PROVE LimitsInv
  OBVIOUS
<1>1. Schedulable(Bare)
  BY DEF Schedulable, Bare
<1>2. rlReported.oneRevision
  BY DEF RlInit
<1> QED BY <1>1, <1>2 DEF RlInit, LimitsInv, LimitsTypes, TemplateFollows, RevisionsTold,
                          PodsFollow, AllSchedulable

LEMMA NextLimits == LimitsInv /\ [RlNext]_rlVars => LimitsInv'
<1> SUFFICES ASSUME LimitsInv, [RlNext]_rlVars PROVE LimitsInv'
  OBVIOUS
<1> USE DEF LimitsInv
<1>1. ASSUME StatefulSetReports PROVE LimitsInv'
  <2> DEFINE over == rlReady = RlPods /\ \A p \in RlPods : rlPods[p] = rlTemplate
  <2>1. /\ rlCurrent' = IF over THEN rlTemplate ELSE rlCurrent
        /\ rlReported'.oneRevision <=> (IF over THEN rlTemplate ELSE rlCurrent) = rlTemplate
        /\ rlPutBack' <=> (rlPutBack /\ ~over)
    BY <1>1 DEF StatefulSetReports
  <2>2. UNCHANGED <<rlLimits, rlEvents, rlFailed, rlTemplate, rlPods>>
    BY <1>1 DEF StatefulSetReports
  <2>3. LimitsTypes' /\ AllSchedulable' /\ TemplateFollows'
    BY <2>2 DEF LimitsTypes, AllSchedulable, TemplateFollows, ResourceReqs, Schedulable
  <2>4. RevisionsTold' /\ PodsFollow'
    BY <2>1, <2>2 DEF RevisionsTold, PodsFollow
  <2> QED BY <2>3, <2>4
<1>2. ASSUME NEW u \in RlPods, PatchResources(u) PROVE LimitsInv'
  <2>1. CASE IsValid(rlLimits) /\ rlApi = "up"
    <3>1. /\ ~rlFailed'
          /\ Applied(ResourceReqs(rlLimits))
      BY <1>2, <2>1 DEF PatchResources
    <3>2. UNCHANGED <<rlLimits, rlCurrent, rlPods, rlReported>> /\ rlEvents' = rlEvents \ {u}
      BY <1>2, <3>1 DEF PatchResources, Applied
    <3>3. /\ rlTemplate' = ResourceReqs(rlLimits)
          /\ rlObserved' <=> (rlObserved /\ rlTemplate' = rlTemplate)
          /\ rlPutBack' <=> IF rlTemplate' = rlTemplate THEN rlPutBack
                            ELSE rlTemplate' = rlCurrent /\ \E p \in RlPods : rlPods[p] # rlTemplate'
      BY <3>1 DEF Applied
    <3>4. Schedulable(rlTemplate')
      BY <3>3, <2>1, RequirementsSchedulable DEF LimitsTypes
    <3>5. LimitsTypes' /\ AllSchedulable'
      BY <3>2, <3>4 DEF LimitsTypes, AllSchedulable, Schedulable
    <3>6. TemplateFollows'
      BY <3>2, <3>3 DEF TemplateFollows, ResourceReqs
    <3>7. RevisionsTold' /\ PodsFollow'
      BY <3>2, <3>3 DEF RevisionsTold, PodsFollow
    <3> QED BY <3>5, <3>6, <3>7
  <2>2. CASE ~(IsValid(rlLimits) /\ rlApi = "up")
    <3>1. rlFailed' /\ UNCHANGED <<rlLimits, rlStatefulSet>> /\ rlEvents' = rlEvents \ {u}
      BY <1>2, <2>2 DEF PatchResources
    <3> QED BY <3>1 DEF LimitsTypes, TemplateFollows, RevisionsTold, PodsFollow, AllSchedulable,
                        rlStatefulSet, Schedulable
  <2> QED BY <2>1, <2>2
<1>3. ASSUME NEW p \in RlPods, ReplacePod(p) PROVE LimitsInv'
  <2>1. UNCHANGED <<rlLimits, rlEvents, rlFailed, rlTemplate, rlCurrent, rlObserved, rlReported,
                    rlPutBack>>
        /\ rlPods' = [rlPods EXCEPT ![p] = rlTemplate]
    BY <1>3 DEF ReplacePod
  <2>2. DOMAIN rlPods' = RlPods
        /\ \A o \in RlPods : rlPods'[o] = IF o = p THEN rlTemplate ELSE rlPods[o]
    BY <2>1 DEF LimitsTypes
  <2> QED BY <2>1, <2>2 DEF LimitsTypes, TemplateFollows, RevisionsTold, PodsFollow,
                            AllSchedulable, Schedulable, ResourceReqs
<1>4. ASSUME NEW p \in RlPods, PodStarts(p) PROVE LimitsInv'
  BY <1>4 DEF PodStarts, LimitsTypes, TemplateFollows, RevisionsTold, PodsFollow, AllSchedulable,
              Schedulable, ResourceReqs
<1>5. ASSUME NEW limits \in RlLimits, SetLimits(limits) PROVE LimitsInv'
  BY <1>5 DEF SetLimits, rlStatefulSet, LimitsTypes, TemplateFollows, RevisionsTold, PodsFollow,
              AllSchedulable, Schedulable
<1>6. ASSUME NEW state, ApiBecomes(state) PROVE LimitsInv'
  BY <1>6 DEF ApiBecomes, rlStatefulSet, LimitsTypes, TemplateFollows, RevisionsTold, PodsFollow,
              AllSchedulable, Schedulable, ResourceReqs
<1>7. CASE UNCHANGED rlVars
  BY <1>7 DEF rlVars, rlStatefulSet, LimitsTypes, TemplateFollows, RevisionsTold, PodsFollow,
              AllSchedulable, Schedulable, ResourceReqs
<1> QED BY <1>1, <1>2, <1>3, <1>4, <1>5, <1>6, <1>7 DEF RlNext

\* What the status reports is at most what there is.
LEMMA CountsFit ==
  ASSUME NEW S \in SUBSET RlPods
  PROVE  Cardinality(S) \in 0..Cardinality(RlPods)
<1>1. /\ IsFiniteSet(S) /\ Cardinality(S) \in Nat /\ Cardinality(RlPods) \in Nat
      /\ Cardinality(S) <= Cardinality(RlPods)
  BY RlAssumption, FS_Subset, FS_CardinalityType
<1> QED BY <1>1

LEMMA InitLimitTypes == RlInit => RlTypeOK
<1> SUFFICES ASSUME RlInit PROVE RlTypeOK
  OBVIOUS
<1>1. rlReported.ready \in 0..Cardinality(RlPods) /\ rlReported.oneRevision \in BOOLEAN
  BY CountsFit DEF RlInit
<1>2. rlChanges \in 0..MaxRlChanges
  BY RlAssumption DEF RlInit
<1> QED BY <1>1, <1>2 DEF RlInit, RlTypeOK

LEMMA NextLimitTypes == RlTypeOK /\ [RlNext]_rlVars => RlTypeOK'
<1> SUFFICES ASSUME RlTypeOK, [RlNext]_rlVars PROVE RlTypeOK'
  OBVIOUS
<1> USE DEF RlTypeOK
<1>1. CASE StatefulSetReports
  <2>1. Cardinality(rlReady) \in 0..Cardinality(RlPods)
    BY CountsFit
  <2>2. /\ rlReported'.ready \in 0..Cardinality(RlPods)
        /\ rlReported'.oneRevision \in BOOLEAN
    BY <1>1, <2>1 DEF StatefulSetReports
  <2>3. rlObserved' \in BOOLEAN /\ rlPutBack' \in BOOLEAN
    BY <1>1 DEF StatefulSetReports
  <2> QED BY <1>1, <2>2, <2>3 DEF StatefulSetReports
<1>2. ASSUME NEW u \in RlPods, PatchResources(u) PROVE RlTypeOK'
  <2>1. /\ rlFailed' \in BOOLEAN /\ rlObserved' \in BOOLEAN /\ rlPutBack' \in BOOLEAN
    BY <1>2 DEF PatchResources, Applied, rlStatefulSet
  <2>2. UNCHANGED <<rlPods, rlReady, rlReported>>
    BY <1>2 DEF PatchResources, Applied, rlStatefulSet
  <2> QED BY <1>2, <2>1, <2>2 DEF PatchResources
<1>3. ASSUME NEW p \in RlPods, ReplacePod(p) \/ PodStarts(p) PROVE RlTypeOK'
  BY <1>3 DEF ReplacePod, PodStarts
<1>4. ASSUME NEW limits \in RlLimits, SetLimits(limits) PROVE RlTypeOK'
  BY <1>4, RlAssumption DEF SetLimits, RlChange, rlStatefulSet
<1>5. ASSUME NEW state \in {"up", "down", "forbidden"}, ApiBecomes(state) PROVE RlTypeOK'
  BY <1>5, RlAssumption DEF ApiBecomes, RlChange, rlStatefulSet
<1>6. CASE UNCHANGED rlVars
  BY <1>6 DEF rlVars, rlStatefulSet
<1> QED BY <1>1, <1>2, <1>3, <1>4, <1>5, <1>6 DEF RlNext

\* "active" is no lie.
LEMMA ActiveWhenInEffect == LimitsInv => LimitsHold
<1> SUFFICES ASSUME LimitsInv PROVE LimitsHold
  OBVIOUS
<1>1. PodsSchedulable
  BY DEF PodsSchedulable, LimitsInv, AllSchedulable, Schedulable
<1>2. ASSUME GetStatus = "active", rlEvents = {}, ~rlFailed, ~rlPutBack, NEW p \in RlPods
      PROVE  rlPods[p] = ResourceReqs(rlLimits)
  <2>1. rlObserved /\ rlReported.oneRevision
    BY <1>2 DEF GetStatus, IsInProgress
  <2>2. rlTemplate = ResourceReqs(rlLimits)
    BY <1>2 DEF LimitsInv, TemplateFollows
  <2> QED BY <1>2, <2>1, <2>2 DEF LimitsInv, RevisionsTold, PodsFollow
<1> QED BY <1>1, <1>2 DEF LimitsHold, ActiveIsInEffect

\* The values of what the charm and the StatefulSet keep; no more pods are
\* reported than there are.
THEOREM LimitTypes == RlSpec => []RlTypeOK
BY InitLimitTypes, NextLimitTypes, PTL DEF RlSpec

\* Whatever limits the user sets, no pod is asked for that could not be
\* scheduled, and "active" means that every pod has them, whatever patches were
\* refused and roll-outs overtaken (adjust_resource_requirements and get_status,
\* kubernetes_compute_resources_patch.py).
THEOREM LimitsAreKept == RlSpec => []LimitsHold
<1>1. RlSpec => []LimitsInv
  BY InitLimits, NextLimits, PTL DEF RlSpec
<1> QED BY <1>1, ActiveWhenInEffect, PTL

(***************************************************************************)
(* Mesh labels (MeshLabels).                                               *)
(*                                                                         *)
(* That no wanted label is missing needs only that some hook is still to   *)
(* put it on: one that was overtaken by an old hook, whose unit has        *)
(* another to come. That no other label stays is harder. Every label on an *)
(* object is in the ConfigMap, stray, or put on by a hook that is still to *)
(* record it (Known); and a hook that read the present ConfigMap has taken *)
(* off what it will not record, unless another put it on again since       *)
(* (TakenOff). So what a record leaves out is on no object.                *)
(***************************************************************************)

LabelHooks ==
  [at : {"idle", "read", "template", "service", "map", "delete", "failed"},
   event : {"none", "changed", "broken"},
   wanted : SUBSET MlLabels, drop : SUBSET MlLabels,
   seen : {"present", "old", "unknown"}]

LabelsTypes ==
  /\ mlHook \in [MlUnits -> LabelHooks]
  /\ mlPending \in [MlUnits -> {"none", "changed", "broken"}]
  /\ \A u \in MlUnits : mlHook[u].event = "none" <=> mlHook[u].at = "idle"
  /\ mlRelated \in BOOLEAN /\ mlOffered \subseteq MlLabels /\ mlMap \subseteq MlLabels

Patching == {"read", "template", "service", "map"}

EventsFit ==
  /\ mlRelated => \A u \in MlUnits : mlPending[u] # "broken" /\ mlHook[u].event # "broken"
  /\ ~mlRelated => \A u \in MlUnits : mlPending[u] # "changed"
  /\ \A u \in MlUnits : mlHook[u].event = "broken" => u = MlLeader
  /\ \A u \in MlUnits : mlHook[u].at = "delete" => mlHook[u].event = "broken"
  /\ ~mlRelated /\ mlHook[MlLeader].event = "changed" => mlPending[MlLeader] = "broken"

\* A hook that wants the labels of before has another to come after it.
OldHooksFollowed ==
  mlRelated =>
    \A u \in MlUnits :
      mlHook[u].at \in Patching /\ mlHook[u].wanted # mlOffered => mlPending[u] = "changed"

\* A unit is still to get to one of the steps of a hook, wanting what is offered.
StillTo(steps) ==
  \E u \in MlUnits :
    \/ mlPending[u] = "changed"
    \/ mlHook[u].at = "failed"
    \/ mlHook[u].at \in steps /\ mlHook[u].wanted = mlOffered

WantedPutOn ==
  mlRelated =>
    /\ mlOffered \subseteq mlTemplate \/ StillTo({"read", "template"})
    /\ mlOffered \subseteq mlService \/ StillTo({"read", "template", "service"})
    /\ mlMap \subseteq mlOffered \/ StillTo(Patching)

\* When the mesh is gone its record is empty or stray, or the leader is at it.
RecordCleared ==
  ~mlRelated =>
    \/ mlMap \subseteq mlStray
    \/ mlPending[MlLeader] = "broken"
    \/ mlHook[MlLeader].event = "broken"

\* Some hook has put label x on an object, by being past its step.
PutOnBy(x, past) == \E u \in MlUnits : mlHook[u].at \in past /\ x \in mlHook[u].wanted

Known(labels, past) ==
  \A x \in labels : x \in mlStray \/ x \in mlMap \/ PutOnBy(x, past)

TakenOff(labels, past) ==
  \A u \in MlUnits : mlHook[u].at \in past /\ mlHook[u].seen = "present" =>
    \A x \in mlHook[u].drop \cap labels : x \in mlStray \/ PutOnBy(x, past)

PastTemplate == {"service", "map"}
PastService == {"map"}

Accounted ==
  /\ Known(mlTemplate, PastTemplate) /\ Known(mlService, PastService)
  /\ TakenOff(mlTemplate, PastTemplate) /\ TakenOff(mlService, PastService)

\* What a hook will take off is what it does not want of the record it has seen.
DropsFit ==
  \A u \in MlUnits :
    mlHook[u].at \in {"template", "service", "map"} /\ mlHook[u].seen = "present" =>
      mlHook[u].drop = mlMap \ mlHook[u].wanted

LabelsInv ==
  /\ LabelsTypes /\ EventsFit /\ OldHooksFollowed /\ WantedPutOn /\ RecordCleared
  /\ Accounted /\ DropsFit

LEMMA NoLabelHookIsTyped == NoLabelHook \in LabelHooks
BY DEF NoLabelHook, LabelHooks

LEMMA InitLabels == MlInit => LabelsInv
<1> SUFFICES ASSUME MlInit PROVE LabelsInv
  OBVIOUS
<1> USE DEF MlInit
<1>1. \A u \in MlUnits : /\ mlHook[u] \in LabelHooks
                         /\ mlHook[u].at = "idle" /\ mlHook[u].event = "none"
                         /\ mlPending[u] = "none"
  BY NoLabelHookIsTyped DEF NoLabelHook
<1>2. LabelsTypes
  BY <1>1 DEF LabelsTypes
<1>3. EventsFit /\ OldHooksFollowed /\ WantedPutOn /\ RecordCleared /\ DropsFit
  BY <1>1, MlAssumption DEF EventsFit, OldHooksFollowed, WantedPutOn, RecordCleared, DropsFit
<1>4. Accounted
  BY DEF Accounted, Known, TakenOff
<1> QED BY <1>2, <1>3, <1>4 DEF LabelsInv

\* A hook that fails leaves what it may have put on to be stray.
LEMMA FailKeepsLabels ==
  ASSUME LabelsInv, NEW u \in MlUnits,
         mlHook[u].at \in {"template", "service", "map", "delete"}, Fails(u),
         UNCHANGED <<mlRelated, mlOffered, mlObjects, mlPending>>
  PROVE  LabelsInv'
<1> USE DEF LabelsInv
<1>1. /\ mlHook' = [mlHook EXCEPT ![u].at = "failed"]
      /\ mlStray' = mlStray \union Unrecorded(mlHook[u])
      /\ UNCHANGED <<mlRelated, mlOffered, mlTemplate, mlService, mlMap, mlPending>>
  BY DEF Fails, mlObjects, mlConfigMap
<1>2. /\ mlHook' \in [MlUnits -> LabelHooks]
      /\ \A v \in MlUnits : v # u => mlHook'[v] = mlHook[v]
      /\ mlHook'[u].at = "failed" /\ mlHook'[u].event = mlHook[u].event
  BY <1>1 DEF LabelsTypes, LabelHooks
<1>3. LabelsTypes'
  BY <1>1, <1>2 DEF LabelsTypes
<1>4. EventsFit' /\ OldHooksFollowed' /\ RecordCleared' /\ DropsFit'
  BY <1>1, <1>2 DEF EventsFit, OldHooksFollowed, RecordCleared, DropsFit, Patching
<1>5. WantedPutOn'
  <2>1. \A steps : StillTo(steps)'
    BY <1>2 DEF StillTo
  <2> QED BY <2>1 DEF WantedPutOn
<1>6. ASSUME NEW past \in {PastTemplate, PastService}, NEW x, PutOnBy(x, past)
      PROVE  x \in mlStray' \/ PutOnBy(x, past)'
  <2>1. PICK v \in MlUnits : mlHook[v].at \in past /\ x \in mlHook[v].wanted
    BY <1>6 DEF PutOnBy
  <2>2. CASE v = u
    BY <1>1, <2>1, <2>2 DEF Unrecorded, PastTemplate, PastService
  <2>3. CASE v # u
    BY <1>2, <2>1, <2>3 DEF PutOnBy
  <2> QED BY <2>2, <2>3
<1>7. ASSUME NEW past \in {PastTemplate, PastService}, NEW labels,
             Known(labels, past), TakenOff(labels, past)
      PROVE  Known(labels, past)' /\ TakenOff(labels, past)'
  <2>1. Known(labels, past)'
    BY <1>1, <1>6, <1>7 DEF Known
  <2>2. TakenOff(labels, past)'
    BY <1>1, <1>2, <1>6, <1>7 DEF TakenOff, PastTemplate, PastService
  <2> QED BY <2>1, <2>2
<1>8. Accounted'
  BY <1>1, <1>7 DEF Accounted
<1> QED BY <1>3, <1>4, <1>5, <1>8

\* A step in which at most one hook moves, and not past a patch, accounts for
\* the labels as before.
LEMMA AccountedKept ==
  ASSUME Accounted, NEW u \in MlUnits,
         UNCHANGED <<mlTemplate, mlService, mlMap, mlStray>>,
         \A v \in MlUnits \ {u} : mlHook'[v] = mlHook[v],
         mlHook[u].at \notin {"service", "map"}, mlHook'[u].at \notin {"service", "map"}
  PROVE  Accounted'
<1>1. \A x : /\ PutOnBy(x, PastTemplate) => PutOnBy(x, PastTemplate)'
             /\ PutOnBy(x, PastService) => PutOnBy(x, PastService)'
  BY DEF PutOnBy, PastTemplate, PastService
<1>2. ASSUME NEW past \in {PastTemplate, PastService}, NEW labels,
             Known(labels, past), TakenOff(labels, past)
      PROVE  Known(labels, past)' /\ TakenOff(labels, past)'
  BY <1>1, <1>2 DEF Known, TakenOff, PastTemplate, PastService
<1> QED BY <1>2 DEF Accounted

LEMMA BeginKeepsLabels ==
  ASSUME LabelsInv, NEW u \in MlUnits, BeginLabels(u)
  PROVE  LabelsInv'
<1> USE DEF LabelsInv
<1> DEFINE event == IF mlHook[u].at = "failed" THEN mlHook[u].event ELSE mlPending[u]
           next == IF event = "broken" /\ u # MlLeader THEN NoLabelHook
                   ELSE [NoLabelHook EXCEPT !.at = "read", !.event = event,
                           !.wanted = IF event = "changed" THEN mlOffered ELSE {}]
<1>1. /\ \/ mlHook[u].at = "idle" /\ mlPending[u] # "none"
         \/ mlHook[u].at = "failed"
      /\ mlHook' = [mlHook EXCEPT ![u] = next]
      /\ mlPending' = IF mlHook[u].at = "idle" THEN [mlPending EXCEPT ![u] = "none"] ELSE mlPending
      /\ UNCHANGED <<mlRelated, mlOffered, mlTemplate, mlService, mlMap, mlStray>>
  BY DEF BeginLabels, mlObjects, mlConfigMap
<1>2. /\ event \in {"changed", "broken"}
      /\ mlRelated => event = "changed"
      /\ ~mlRelated /\ u = MlLeader /\ event = "changed" => mlPending'[u] = "broken"
  BY <1>1 DEF LabelsTypes, LabelHooks, EventsFit
<1> HIDE DEF event
<1>3. /\ event = "broken" /\ u # MlLeader => next = NoLabelHook
      /\ ~(event = "broken" /\ u # MlLeader) =>
           next = [at |-> "read", event |-> event, drop |-> {}, seen |-> "present",
                   wanted |-> IF event = "changed" THEN mlOffered ELSE {}]
  BY DEF NoLabelHook
<1> HIDE DEF next
<1>4. /\ next.at \in {"idle", "read"} /\ (next.event = "none" <=> next.at = "idle")
      /\ next.event = "broken" => u = MlLeader
      /\ event = "changed" => next.at = "read" /\ next.wanted = mlOffered /\ next.event = "changed"
      /\ u = MlLeader => next.event = event
      /\ event = "broken" => next.event # "changed"
  BY <1>2, <1>3 DEF NoLabelHook
<1>0. mlOffered \subseteq MlLabels
  BY DEF LabelsTypes
<1>5. next \in LabelHooks
  BY <1>0, <1>2, <1>3, NoLabelHookIsTyped DEF LabelHooks
<1>6. /\ mlHook' \in [MlUnits -> LabelHooks] /\ mlHook'[u] = next
      /\ mlPending' \in [MlUnits -> {"none", "changed", "broken"}]
      /\ \A v \in MlUnits \ {u} : mlHook'[v] = mlHook[v] /\ mlPending'[v] = mlPending[v]
  BY <1>1, <1>5 DEF LabelsTypes
<1>7. LabelsTypes'
  BY <1>0, <1>1, <1>4, <1>6 DEF LabelsTypes
<1>8. EventsFit'
  <2>1. mlRelated' => \A v \in MlUnits : mlPending'[v] # "broken" /\ mlHook'[v].event # "broken"
    BY <1>1, <1>2, <1>4, <1>6 DEF EventsFit, LabelsTypes
  <2>2. ~mlRelated' => \A v \in MlUnits : mlPending'[v] # "changed"
    BY <1>1 DEF EventsFit, LabelsTypes
  <2>3. \A v \in MlUnits : mlHook'[v].event = "broken" => v = MlLeader
    BY <1>4, <1>6 DEF EventsFit
  <2>4. \A v \in MlUnits : mlHook'[v].at = "delete" => mlHook'[v].event = "broken"
    BY <1>4, <1>6 DEF EventsFit
  <2>5. ~mlRelated' /\ mlHook'[MlLeader].event = "changed" => mlPending'[MlLeader] = "broken"
    BY <1>1, <1>2, <1>4, <1>6 DEF EventsFit
  <2> QED BY <2>1, <2>2, <2>3, <2>4, <2>5 DEF EventsFit
<1>9. OldHooksFollowed'
  BY <1>1, <1>2, <1>4, <1>6 DEF OldHooksFollowed, Patching
<1>10. WantedPutOn'
  <2>1. mlRelated => \A steps : "read" \in steps => StillTo(steps)'
    BY <1>1, <1>2, <1>4, <1>6 DEF StillTo
  <2> QED BY <1>1, <2>1 DEF WantedPutOn, Patching
<1>11. RecordCleared'
  BY <1>1, <1>2, <1>4, <1>6 DEF RecordCleared, LabelsTypes
<1>12. DropsFit'
  BY <1>1, <1>4, <1>6 DEF DropsFit
<1>13. Accounted'
  BY <1>1, <1>4, <1>6, AccountedKept
<1> QED BY <1>7, <1>8, <1>9, <1>10, <1>11, <1>12, <1>13

\* A hook that goes on from one step to the next keeps its event and what it wants.
LEMMA OnwardKeepsLabels ==
  ASSUME LabelsInv, NEW u \in MlUnits,
         mlHook[u].at \in {"read", "template", "service"},
         mlHook' \in [MlUnits -> LabelHooks],
         \A v \in MlUnits \ {u} : mlHook'[v] = mlHook[v],
         mlHook'[u].at \in {"template", "service", "map"},
         mlHook'[u].event = mlHook[u].event, mlHook'[u].wanted = mlHook[u].wanted,
         UNCHANGED <<mlRelated, mlOffered, mlMap, mlPending, mlStray>>
  PROVE  /\ LabelsTypes' /\ EventsFit' /\ OldHooksFollowed' /\ RecordCleared'
         /\ StillTo(Patching)' = StillTo(Patching)
<1> USE DEF LabelsInv
<1>1. LabelsTypes'
  BY DEF LabelsTypes
<1>2. EventsFit'
  BY MlAssumption DEF EventsFit
<1>3. OldHooksFollowed' /\ RecordCleared'
  BY MlAssumption DEF OldHooksFollowed, RecordCleared, Patching
<1>4. ASSUME NEW v \in MlUnits
      PROVE  \/ mlPending'[v] = "changed"
             \/ mlHook'[v].at = "failed"
             \/ mlHook'[v].at \in Patching /\ mlHook'[v].wanted = mlOffered'
             <=>
             \/ mlPending[v] = "changed"
             \/ mlHook[v].at = "failed"
             \/ mlHook[v].at \in Patching /\ mlHook[v].wanted = mlOffered
  BY DEF Patching
<1>5. StillTo(Patching)' = StillTo(Patching)
  BY <1>4 DEF StillTo
<1> QED BY <1>1, <1>2, <1>3, <1>5

LEMMA ReadKeepsLabels ==
  ASSUME LabelsInv, NEW u \in MlUnits, ReadLabelMap(u)
  PROVE  LabelsInv'
<1> USE DEF LabelsInv
<1> DEFINE drop == mlMap \ mlHook[u].wanted
           seen == IF mlMapThere THEN "present" ELSE "unknown"
<1>0. drop \in SUBSET MlLabels /\ seen \in {"present", "old", "unknown"}
  BY DEF LabelsTypes
<1>d. drop = mlMap \ mlHook[u].wanted
  OBVIOUS
<1>1. /\ mlHook[u].at = "read"
      /\ mlHook' = [mlHook EXCEPT ![u].at = "template", ![u].drop = drop, ![u].seen = seen]
      /\ UNCHANGED <<mlRelated, mlOffered, mlTemplate, mlService, mlMap, mlPending, mlStray>>
  BY DEF ReadLabelMap, mlObjects
<1> HIDE DEF drop, seen
<1>2. /\ mlHook' \in [MlUnits -> LabelHooks]
      /\ \A v \in MlUnits \ {u} : mlHook'[v] = mlHook[v]
      /\ mlHook'[u].at = "template"
      /\ mlHook'[u].event = mlHook[u].event /\ mlHook'[u].wanted = mlHook[u].wanted
      /\ mlHook'[u].drop = drop
  BY <1>0, <1>1 DEF LabelsTypes, LabelHooks
<1>3. /\ LabelsTypes' /\ EventsFit' /\ OldHooksFollowed' /\ RecordCleared'
      /\ StillTo(Patching)' = StillTo(Patching)
  BY <1>1, <1>2, OnwardKeepsLabels
<1>4. WantedPutOn'
  <2>1. \A steps : "template" \in steps /\ StillTo(steps) => StillTo(steps)'
    BY <1>1, <1>2 DEF StillTo
  <2> QED BY <1>1, <2>1 DEF WantedPutOn, Patching
<1>5. DropsFit'
  BY <1>1, <1>2, <1>d DEF DropsFit
<1>6. Accounted'
  BY <1>1, <1>2, AccountedKept
<1> QED BY <1>3, <1>4, <1>5, <1>6

\* A patched object: what a hook has put on it is known to be put on by it, and
\* an offered label it takes off is put on again by its unit's next hook.
LEMMA PatchAccounts ==
  ASSUME LabelsInv, NEW u \in MlUnits,
         NEW past \in {PastTemplate, PastService}, NEW labels,
         mlHook[u].at \notin past, mlHook'[u].at \in past,
         \A v \in MlUnits \ {u} : mlHook'[v] = mlHook[v],
         mlHook'[u].wanted = mlHook[u].wanted,
         UNCHANGED <<mlMap, mlStray>>,
         Known(labels, past), TakenOff(labels, past)
  PROVE  /\ \A x \in Patched(labels, mlHook[u]) :
              x \in mlStray' \/ x \in mlMap' \/ PutOnBy(x, past)'
         /\ mlHook'[u].drop = mlHook[u].drop =>
              \A v \in MlUnits : mlHook'[v].at \in past /\ mlHook'[v].seen = "present" =>
                \A x \in mlHook'[v].drop \cap Patched(labels, mlHook[u]) :
                  x \in mlStray' \/ PutOnBy(x, past)'
<1>1. \A x : PutOnBy(x, past) => PutOnBy(x, past)'
  BY DEF PutOnBy
<1>2. \A x \in mlHook[u].wanted : PutOnBy(x, past)'
  BY DEF PutOnBy
<1>3. \A x \in Patched(labels, mlHook[u]) :
        x \in mlHook[u].wanted \/ (x \in labels /\ x \notin mlHook[u].drop)
  BY DEF Patched
<1> QED BY <1>1, <1>2, <1>3 DEF Known, TakenOff

\* The objects that a step leaves as they are, and past whose patch it moves no hook.
LEMMA OthersAccount ==
  ASSUME NEW u \in MlUnits, NEW past \in {PastTemplate, PastService}, NEW labels,
         mlHook[u].at \in past <=> mlHook'[u].at \in past,
         \A v \in MlUnits \ {u} : mlHook'[v] = mlHook[v],
         mlHook'[u].wanted = mlHook[u].wanted, mlHook'[u].drop = mlHook[u].drop,
         mlHook'[u].seen = mlHook[u].seen,
         UNCHANGED <<mlMap, mlStray>>,
         Known(labels, past), TakenOff(labels, past)
  PROVE  /\ \A x \in labels : x \in mlStray' \/ x \in mlMap' \/ PutOnBy(x, past)'
         /\ \A v \in MlUnits : mlHook'[v].at \in past /\ mlHook'[v].seen = "present" =>
              \A x \in mlHook'[v].drop \cap labels : x \in mlStray' \/ PutOnBy(x, past)'
<1>1. \A x : PutOnBy(x, past) => PutOnBy(x, past)'
  BY DEF PutOnBy
<1> QED BY <1>1 DEF Known, TakenOff

LEMMA TemplateKeepsLabels ==
  ASSUME LabelsInv, NEW u \in MlUnits, PatchTemplate(u)
  PROVE  LabelsInv'
<1> USE DEF LabelsInv
<1>1. /\ mlHook[u].at = "template"
      /\ mlTemplate' = Patched(mlTemplate, mlHook[u])
      /\ mlHook' = [mlHook EXCEPT ![u].at = "service"]
      /\ UNCHANGED <<mlRelated, mlOffered, mlService, mlMap, mlPending, mlStray>>
  BY DEF PatchTemplate, mlConfigMap
<1>2. /\ mlHook' \in [MlUnits -> LabelHooks]
      /\ \A v \in MlUnits \ {u} : mlHook'[v] = mlHook[v]
      /\ mlHook'[u].at = "service"
      /\ mlHook'[u].event = mlHook[u].event /\ mlHook'[u].wanted = mlHook[u].wanted
      /\ mlHook'[u].drop = mlHook[u].drop /\ mlHook'[u].seen = mlHook[u].seen
  BY <1>1 DEF LabelsTypes, LabelHooks
<1>3. /\ LabelsTypes' /\ EventsFit' /\ OldHooksFollowed' /\ RecordCleared'
      /\ StillTo(Patching)' = StillTo(Patching)
  BY <1>1, <1>2, OnwardKeepsLabels
<1>4. WantedPutOn'
  <2>1. \A steps : "service" \in steps /\ StillTo(steps) => StillTo(steps)'
    BY <1>1, <1>2 DEF StillTo
  <2>2. mlRelated => mlOffered \subseteq mlTemplate' \/ StillTo({"read", "template"})'
    <3>1. CASE mlHook[u].wanted = mlOffered
      BY <1>1, <3>1 DEF Patched
    <3>2. CASE mlRelated /\ mlHook[u].wanted # mlOffered
      <4>1. mlPending'[u] = "changed"
        BY <1>1, <3>2 DEF OldHooksFollowed, Patching
      <4> QED BY <4>1 DEF StillTo
    <3> QED BY <3>1, <3>2
  <2> QED BY <1>1, <2>1, <2>2 DEF WantedPutOn, Patching
<1>5. DropsFit'
  BY <1>1, <1>2 DEF DropsFit
<1>6. Known(mlTemplate, PastTemplate)' /\ TakenOff(mlTemplate, PastTemplate)'
  <2>1. mlHook[u].at \notin PastTemplate /\ mlHook'[u].at \in PastTemplate
    BY <1>1, <1>2 DEF PastTemplate
  <2> QED BY <1>1, <1>2, <2>1, PatchAccounts DEF Accounted, Known, TakenOff
<1>7. Known(mlService, PastService)' /\ TakenOff(mlService, PastService)'
  <2>1. mlHook[u].at \in PastService <=> mlHook'[u].at \in PastService
    BY <1>1, <1>2 DEF PastService
  <2> QED BY <1>1, <1>2, <2>1, OthersAccount DEF Accounted, Known, TakenOff
<1> QED BY <1>3, <1>4, <1>5, <1>6, <1>7 DEF Accounted

LEMMA ServiceKeepsLabels ==
  ASSUME LabelsInv, NEW u \in MlUnits, PatchService(u)
  PROVE  LabelsInv'
<1> USE DEF LabelsInv
<1>1. /\ mlHook[u].at = "service"
      /\ mlService' = Patched(mlService, mlHook[u])
      /\ mlHook' = [mlHook EXCEPT ![u].at = "map"]
      /\ UNCHANGED <<mlRelated, mlOffered, mlTemplate, mlMap, mlPending, mlStray>>
  BY DEF PatchService, mlConfigMap
<1>2. /\ mlHook' \in [MlUnits -> LabelHooks]
      /\ \A v \in MlUnits \ {u} : mlHook'[v] = mlHook[v]
      /\ mlHook'[u].at = "map"
      /\ mlHook'[u].event = mlHook[u].event /\ mlHook'[u].wanted = mlHook[u].wanted
      /\ mlHook'[u].drop = mlHook[u].drop /\ mlHook'[u].seen = mlHook[u].seen
  BY <1>1 DEF LabelsTypes, LabelHooks
<1>3. /\ LabelsTypes' /\ EventsFit' /\ OldHooksFollowed' /\ RecordCleared'
      /\ StillTo(Patching)' = StillTo(Patching)
  BY <1>1, <1>2, OnwardKeepsLabels
<1>4. WantedPutOn'
  <2>1. mlRelated /\ StillTo({"read", "template"}) => StillTo({"read", "template"})'
    BY <1>1, <1>2 DEF StillTo
  <2>2. mlRelated => mlOffered \subseteq mlService' \/ StillTo({"read", "template", "service"})'
    <3>1. CASE mlHook[u].wanted = mlOffered
      BY <1>1, <3>1 DEF Patched
    <3>2. CASE mlRelated /\ mlHook[u].wanted # mlOffered
      <4>1. mlPending'[u] = "changed"
        BY <1>1, <3>2 DEF OldHooksFollowed, Patching
      <4> QED BY <4>1 DEF StillTo
    <3> QED BY <3>1, <3>2
  <2> QED BY <1>1, <1>3, <2>1, <2>2 DEF WantedPutOn
<1>5. DropsFit'
  BY <1>1, <1>2 DEF DropsFit
<1>6. Known(mlService, PastService)' /\ TakenOff(mlService, PastService)'
  <2>1. mlHook[u].at \notin PastService /\ mlHook'[u].at \in PastService
    BY <1>1, <1>2 DEF PastService
  <2> QED BY <1>1, <1>2, <2>1, PatchAccounts DEF Accounted, Known, TakenOff
<1>7. Known(mlTemplate, PastTemplate)' /\ TakenOff(mlTemplate, PastTemplate)'
  <2>1. mlHook[u].at \in PastTemplate <=> mlHook'[u].at \in PastTemplate
    BY <1>1, <1>2 DEF PastTemplate
  <2> QED BY <1>1, <1>2, <2>1, OthersAccount DEF Accounted, Known, TakenOff
<1> QED BY <1>3, <1>4, <1>5, <1>6, <1>7 DEF Accounted

\* What a write of the ConfigMap does to the hooks: nothing but make old what
\* they have read. The hook that writes is then done with its patches.
MapWritten(u) ==
  /\ mlHook' \in [MlUnits -> LabelHooks]
  /\ mlHook'[u].at \in {"idle", "delete"}
  /\ \A v \in MlUnits \ {u} :
       /\ mlHook'[v].at = mlHook[v].at /\ mlHook'[v].event = mlHook[v].event
       /\ mlHook'[v].wanted = mlHook[v].wanted
       /\ mlHook'[v].at \in {"template", "service", "map"} => mlHook'[v].seen # "present"

LEMMA WritingOutdates ==
  ASSUME LabelsTypes, NEW u \in MlUnits, NEW next \in LabelHooks, next.at \in {"idle", "delete"},
         mlHook' = Outdated(u, [mlHook EXCEPT ![u] = next])
  PROVE  MapWritten(u) /\ mlHook'[u] = next
<1> DEFINE hooks == [mlHook EXCEPT ![u] = next]
<1>1. hooks \in [MlUnits -> LabelHooks] /\ hooks[u] = next
      /\ \A v \in MlUnits \ {u} : hooks[v] = mlHook[v]
  BY DEF LabelsTypes
<1> HIDE DEF hooks
<1>2. ASSUME NEW v \in MlUnits
      PROVE  /\ mlHook'[v] = IF v # u /\ hooks[v].seen = "present"
                                /\ hooks[v].at \in {"template", "service", "map"}
                             THEN [hooks[v] EXCEPT !.seen = "old"] ELSE hooks[v]
             /\ [hooks[v] EXCEPT !.seen = "old"] \in LabelHooks
  <2>1. mlHook' = Outdated(u, hooks)
    BY DEF hooks
  <2>2. [hooks[v] EXCEPT !.seen = "old"] \in LabelHooks
    BY <1>1 DEF LabelHooks
  <2> QED BY <2>1, <2>2 DEF Outdated
<1>3. ASSUME NEW v \in MlUnits
      PROVE  /\ mlHook'[v] \in LabelHooks
             /\ mlHook'[v].at = hooks[v].at /\ mlHook'[v].event = hooks[v].event
             /\ mlHook'[v].wanted = hooks[v].wanted
             /\ v # u /\ mlHook'[v].at \in {"template", "service", "map"}
                  => mlHook'[v].seen # "present"
  <2>1. hooks[v] \in LabelHooks
    BY <1>1
  <2> QED BY <1>2, <2>1 DEF LabelHooks
<1>4. mlHook' \in [MlUnits -> LabelHooks]
  <2>1. mlHook' = [v \in MlUnits |-> mlHook'[v]]
    BY DEF Outdated
  <2> QED BY <1>3, <2>1
<1>5. mlHook'[u] = next
  BY <1>1, <1>2
<1> QED BY <1>1, <1>3, <1>4, <1>5 DEF MapWritten

LEMMA WrittenAccounts ==
  ASSUME NEW u \in MlUnits, MapWritten(u), mlStray \subseteq mlStray',
         NEW past \in {PastTemplate, PastService}, NEW labels, Known(labels, past),
         \A x \in labels : x \in mlMap \/ x \in mlHook[u].wanted =>
                             x \in mlMap' \/ x \in mlStray' \/ PutOnBy(x, past)'
  PROVE  /\ \A x \in labels : x \in mlStray' \/ x \in mlMap' \/ PutOnBy(x, past)'
         /\ \A v \in MlUnits : ~(mlHook'[v].at \in past /\ mlHook'[v].seen = "present")
<1>1. \A v \in MlUnits : mlHook'[v].at \in past => v # u /\ mlHook'[v].seen # "present"
  BY DEF MapWritten, PastTemplate, PastService
<1>2. ASSUME NEW x \in labels, PutOnBy(x, past), x \notin mlHook[u].wanted
      PROVE  PutOnBy(x, past)'
  BY <1>2 DEF PutOnBy, MapWritten
<1> QED BY <1>1, <1>2 DEF Known

LEMMA RecordKeepsLabels ==
  ASSUME LabelsInv, NEW u \in MlUnits, RecordLabels(u), ~Refused(mlHook[u])
  PROVE  LabelsInv'
<1> USE DEF LabelsInv
<1> DEFINE next == IF mlHook[u].event = "broken"
                   THEN [NoLabelHook EXCEPT !.at = "delete", !.event = "broken"] ELSE NoLabelHook
<1>1. /\ mlHook[u].at = "map" /\ mlHook[u].seen # "old"
      /\ mlMap' = mlHook[u].wanted
      /\ mlStray' = UNION {mlStray,
              IF mlHook[u].seen = "unknown" THEN mlMap \ mlHook[u].wanted ELSE {},
              IF u # MlLeader /\ ~mlRelated THEN mlHook[u].wanted ELSE {}}
      /\ mlHook' = Outdated(u, [mlHook EXCEPT ![u] = next])
      /\ UNCHANGED <<mlRelated, mlOffered, mlTemplate, mlService, mlPending>>
  BY DEF RecordLabels, Refused, mlObjects
<1>2. /\ mlStray \subseteq mlStray'
      /\ mlHook[u].seen = "unknown" => mlMap \ mlHook[u].wanted \subseteq mlStray'
      /\ u # MlLeader /\ ~mlRelated => mlHook[u].wanted \subseteq mlStray'
  BY <1>1
<1>3. /\ next \in LabelHooks /\ next.at \in {"idle", "delete"}
      /\ next.event = "none" <=> next.at = "idle"
      /\ mlHook[u].event = "broken" => next.event = "broken"
      /\ mlHook[u].event # "broken" => next.at = "idle"
      /\ next.event # "changed"
  BY DEF NoLabelHook, LabelHooks
<1> HIDE DEF next
<1>4. MapWritten(u) /\ mlHook'[u] = next
  BY <1>1, <1>3, WritingOutdates
<1>5. LabelsTypes'
  <2>1. mlHook' \in [MlUnits -> LabelHooks]
    BY <1>4 DEF MapWritten
  <2>2. \A v \in MlUnits : mlHook'[v].event = "none" <=> mlHook'[v].at = "idle"
    BY <1>3, <1>4 DEF MapWritten, LabelsTypes
  <2>3. mlMap' \subseteq MlLabels
    BY <1>1 DEF LabelsTypes, LabelHooks
  <2> QED BY <1>1, <2>1, <2>2, <2>3 DEF LabelsTypes
<1>6. EventsFit'
  <2>1. mlHook[u].event \in {"changed", "broken"}
    BY <1>1 DEF LabelsTypes, LabelHooks
  <2>2. next.event \in {mlHook[u].event, "none"} /\ (next.at = "delete" => next.event = "broken")
    BY <1>3, <2>1 DEF LabelHooks
  <2>3. \A v \in MlUnits : mlHook'[v].event \in {mlHook[v].event, "none"}
    BY <1>4, <2>2 DEF MapWritten
  <2>4. \A v \in MlUnits : mlHook'[v].at = "delete" => mlHook'[v].event = "broken"
    BY <1>4, <2>2 DEF MapWritten, EventsFit
  <2> QED BY <1>1, <2>3, <2>4, MlAssumption DEF EventsFit
<1>7. OldHooksFollowed'
  BY <1>1, <1>3, <1>4 DEF OldHooksFollowed, Patching, MapWritten
<1>8. WantedPutOn'
  <2>1. ASSUME NEW steps, "map" \notin steps, StillTo(steps)
        PROVE  StillTo(steps)'
    <3>1. PICK v \in MlUnits : \/ mlPending[v] = "changed"
                               \/ mlHook[v].at = "failed"
                               \/ mlHook[v].at \in steps /\ mlHook[v].wanted = mlOffered
      BY <2>1 DEF StillTo
    <3>2. v # u \/ mlPending[v] = "changed"
      BY <1>1, <2>1, <3>1
    <3> QED BY <1>1, <1>4, <3>1, <3>2 DEF StillTo, MapWritten
  <2>2. ASSUME mlRelated, ~(mlMap' \subseteq mlOffered)
        PROVE  StillTo(Patching)'
    <3>1. mlPending'[u] = "changed"
      BY <1>1, <2>2 DEF OldHooksFollowed, Patching
    <3> QED BY <3>1 DEF StillTo
  <2> QED BY <1>1, <2>1, <2>2 DEF WantedPutOn
<1>9. RecordCleared'
  <2>1. CASE u # MlLeader
    BY <1>1, <1>2, <2>1 DEF RecordCleared
  <2>2. CASE u = MlLeader /\ ~mlRelated
    BY <1>1, <1>3, <1>4, <2>2 DEF RecordCleared, EventsFit, LabelsTypes, LabelHooks
  <2> QED BY <1>1, <2>1, <2>2 DEF RecordCleared
<1>10. DropsFit'
  BY <1>3, <1>4 DEF DropsFit, MapWritten
<1>11. ASSUME NEW past \in {PastTemplate, PastService}, NEW labels,
              Known(labels, past), TakenOff(labels, past)
       PROVE  /\ \A x \in labels : x \in mlStray' \/ x \in mlMap' \/ PutOnBy(x, past)'
              /\ \A v \in MlUnits : ~(mlHook'[v].at \in past /\ mlHook'[v].seen = "present")
  <2>1. ASSUME NEW x \in labels, x \in mlMap, x \notin mlHook[u].wanted
        PROVE  x \in mlStray' \/ PutOnBy(x, past)'
    <3>1. CASE mlHook[u].seen = "unknown"
      BY <1>2, <2>1, <3>1
    <3>2. CASE mlHook[u].seen = "present"
      <4>1. x \in mlHook[u].drop /\ mlHook[u].at \in past
        BY <1>1, <2>1, <3>2 DEF DropsFit, PastTemplate, PastService
      <4>2. x \in mlStray \/ PutOnBy(x, past)
        BY <1>11, <3>2, <4>1 DEF TakenOff
      <4> QED BY <1>2, <1>4, <2>1, <4>2 DEF PutOnBy, MapWritten
    <3> QED BY <1>1, <3>1, <3>2 DEF LabelsTypes, LabelHooks
  <2>2. \A x \in labels : x \in mlMap \/ x \in mlHook[u].wanted =>
                            x \in mlMap' \/ x \in mlStray' \/ PutOnBy(x, past)'
    BY <1>1, <2>1
  <2> QED BY <1>2, <1>4, <1>11, <2>2, WrittenAccounts
<1>12. Accounted'
  BY <1>1, <1>11 DEF Accounted, Known, TakenOff
<1> QED BY <1>5, <1>6, <1>7, <1>8, <1>9, <1>10, <1>12

LEMMA DeleteKeepsLabels ==
  ASSUME LabelsInv, NEW u \in MlUnits, DeleteLabelMap(u)
  PROVE  LabelsInv'
<1> USE DEF LabelsInv
<1>1. /\ mlHook[u].at = "delete"
      /\ mlMap' = {} /\ mlStray' = mlStray \union mlMap
      /\ mlHook' = Outdated(u, [mlHook EXCEPT ![u] = NoLabelHook])
      /\ UNCHANGED <<mlRelated, mlOffered, mlTemplate, mlService, mlPending>>
  BY DEF DeleteLabelMap, mlObjects
<1>2. mlHook[u].event = "broken" /\ u = MlLeader /\ ~mlRelated
  BY <1>1 DEF EventsFit
<1>3. NoLabelHook \in LabelHooks /\ NoLabelHook.at = "idle" /\ NoLabelHook.event = "none"
  BY NoLabelHookIsTyped DEF NoLabelHook
<1>4. MapWritten(u) /\ mlHook'[u] = NoLabelHook
  BY <1>1, <1>3, WritingOutdates
<1>5. LabelsTypes'
  <2>1. mlHook' \in [MlUnits -> LabelHooks]
    BY <1>4 DEF MapWritten
  <2>2. \A v \in MlUnits : mlHook'[v].event = "none" <=> mlHook'[v].at = "idle"
    BY <1>3, <1>4 DEF MapWritten, LabelsTypes
  <2>3. mlMap' \subseteq MlLabels
    BY <1>1 DEF LabelsTypes, LabelHooks
  <2> QED BY <1>1, <2>1, <2>2, <2>3 DEF LabelsTypes
<1>6. EventsFit'
  BY <1>1, <1>2, <1>3, <1>4 DEF EventsFit, LabelsTypes, MapWritten
<1>7. OldHooksFollowed' /\ WantedPutOn' /\ RecordCleared'
  BY <1>1, <1>2 DEF OldHooksFollowed, WantedPutOn, RecordCleared
<1>8. DropsFit'
  BY <1>3, <1>4 DEF DropsFit, MapWritten
<1>9. ASSUME NEW past \in {PastTemplate, PastService}, NEW labels, Known(labels, past)
      PROVE  /\ \A x \in labels : x \in mlStray' \/ x \in mlMap' \/ PutOnBy(x, past)'
             /\ \A v \in MlUnits : ~(mlHook'[v].at \in past /\ mlHook'[v].seen = "present")
  <2>1. \A x : PutOnBy(x, past) => PutOnBy(x, past)'
    BY <1>1, <1>4 DEF PutOnBy, MapWritten, PastTemplate, PastService
  <2>2. \A v \in MlUnits : mlHook'[v].at \in past => v # u /\ mlHook'[v].seen # "present"
    BY <1>3, <1>4 DEF MapWritten, PastTemplate, PastService
  <2> QED BY <1>1, <1>9, <2>1, <2>2 DEF Known
<1>10. Accounted'
  BY <1>1, <1>9 DEF Accounted, Known, TakenOff
<1> QED BY <1>5, <1>6, <1>7, <1>8, <1>10

\* The mesh comes, changes what it offers, or goes.
LEMMA MeshKeepsLabels ==
  ASSUME LabelsInv, UNCHANGED <<mlTemplate, mlService, mlMap, mlHook, mlStray>>,
         \/ /\ ~mlRelated /\ MlIdle /\ mlRelated' = TRUE /\ mlOffered' = {}
            /\ mlPending' = [u \in MlUnits |-> "changed"]
         \/ /\ mlRelated /\ mlRelated' = TRUE /\ mlOffered' \in SUBSET MlLabels
            /\ mlPending' = [u \in MlUnits |-> "changed"]
         \/ /\ mlRelated /\ mlRelated' = FALSE /\ mlOffered' = mlOffered
            /\ mlPending' = [u \in MlUnits |-> "broken"]
  PROVE  LabelsInv'
<1> USE DEF LabelsInv
<1>1. LabelsTypes'
  BY DEF LabelsTypes
<1>2. \A u \in MlUnits : mlHook[u].event # "broken"
  BY DEF EventsFit, MlIdle, LabelsTypes
<1>3. /\ mlRelated' \in BOOLEAN
      /\ mlRelated' => \A u \in MlUnits : mlPending'[u] = "changed"
      /\ ~mlRelated' => \A u \in MlUnits : mlPending'[u] = "broken"
  OBVIOUS
<1>4. EventsFit'
  BY <1>2, <1>3, MlAssumption DEF EventsFit
<1>5. OldHooksFollowed' /\ RecordCleared'
  BY <1>3, MlAssumption DEF OldHooksFollowed, RecordCleared
<1>6. mlRelated' => \A steps : StillTo(steps)'
  BY <1>3, MlAssumption DEF StillTo
<1>7. WantedPutOn'
  BY <1>6 DEF WantedPutOn
<1>8. Accounted' /\ DropsFit'
  BY DEF Accounted, Known, TakenOff, PutOnBy, DropsFit
<1> QED BY <1>1, <1>4, <1>5, <1>7, <1>8

LEMMA StepKeepsLabels == LabelsInv /\ [MlNext]_mlVars => LabelsInv'
<1> SUFFICES ASSUME LabelsInv, [MlNext]_mlVars PROVE LabelsInv'
  OBVIOUS
<1>1. CASE RelateMesh
  BY <1>1, MeshKeepsLabels DEF RelateMesh, mlObjects, mlConfigMap
<1>2. CASE RemoveMesh
  BY <1>2, MeshKeepsLabels DEF RemoveMesh, mlObjects, mlConfigMap
<1>3. ASSUME NEW labels \in SUBSET MlLabels, OfferLabels(labels) PROVE LabelsInv'
  <2>1. mlRelated' = TRUE
    BY <1>3 DEF OfferLabels, LabelsInv, LabelsTypes
  <2> QED BY <1>3, <2>1, MeshKeepsLabels DEF OfferLabels, mlObjects, mlConfigMap
<1>4. ASSUME NEW u \in MlUnits, BeginLabels(u) PROVE LabelsInv'
  BY <1>4, BeginKeepsLabels
<1>5. ASSUME NEW u \in MlUnits, ReadLabelMap(u) PROVE LabelsInv'
  BY <1>5, ReadKeepsLabels
<1>6. ASSUME NEW u \in MlUnits, PatchTemplate(u) PROVE LabelsInv'
  BY <1>6, TemplateKeepsLabels
<1>7. ASSUME NEW u \in MlUnits, PatchService(u) PROVE LabelsInv'
  BY <1>7, ServiceKeepsLabels
<1>8. ASSUME NEW u \in MlUnits, RecordLabels(u) PROVE LabelsInv'
  <2>1. CASE Refused(mlHook[u])
    BY <1>8, <2>1, FailKeepsLabels DEF RecordLabels
  <2>2. CASE ~Refused(mlHook[u])
    BY <1>8, <2>2, RecordKeepsLabels
  <2> QED BY <2>1, <2>2
<1>9. ASSUME NEW u \in MlUnits, DeleteLabelMap(u) PROVE LabelsInv'
  BY <1>9, DeleteKeepsLabels
<1>10. ASSUME NEW u \in MlUnits, MeshHookDies(u) PROVE LabelsInv'
  BY <1>10, FailKeepsLabels DEF MeshHookDies
<1>11. CASE UNCHANGED mlVars
  BY <1>11 DEF mlVars, mlObjects, mlConfigMap, LabelsInv, LabelsTypes, EventsFit, OldHooksFollowed,
     WantedPutOn, StillTo, RecordCleared, Accounted, Known, TakenOff, PutOnBy, DropsFit
<1> QED
  BY <1>1, <1>2, <1>3, <1>4, <1>5, <1>6, <1>7, <1>8, <1>9, <1>10, <1>11 DEF MlNext

\* What is put on an object, or left behind, is what some hook wanted.
LabelObjectsTypes ==
  /\ mlTemplate \subseteq MlLabels /\ mlService \subseteq MlLabels
  /\ mlStray \subseteq MlLabels /\ mlMapThere \in BOOLEAN /\ mlChanges \in 0..MaxMlChanges

LEMMA InitLabelTypes == MlInit => LabelObjectsTypes
<1> SUFFICES ASSUME MlInit PROVE LabelObjectsTypes
  OBVIOUS
<1>1. mlChanges \in 0..MaxMlChanges
  BY MlAssumption DEF MlInit
<1>2. mlMapThere \in BOOLEAN /\ mlTemplate = {} /\ mlService = {} /\ mlStray = {}
  BY Zenon DEF MlInit
<1> QED BY <1>1, <1>2 DEF LabelObjectsTypes

LEMMA NextLabelTypes == LabelsInv /\ LabelObjectsTypes /\ [MlNext]_mlVars => LabelObjectsTypes'
<1> SUFFICES ASSUME LabelsInv, LabelObjectsTypes, [MlNext]_mlVars PROVE LabelObjectsTypes'
  OBVIOUS
<1> USE MlAssumption DEF LabelObjectsTypes, mlObjects, mlConfigMap
<1>1. \A u \in MlUnits : mlHook[u].wanted \subseteq MlLabels
  BY DEF LabelsInv, LabelsTypes, LabelHooks
<1>2. mlMap \subseteq MlLabels
  BY DEF LabelsInv, LabelsTypes
<1>3. ASSUME NEW u \in MlUnits
      PROVE  Unrecorded(mlHook[u]) \subseteq MlLabels
  BY <1>1 DEF Unrecorded
<1>4. CASE RelateMesh \/ RemoveMesh \/ \E labels \in SUBSET MlLabels : OfferLabels(labels)
  BY <1>4 DEF RelateMesh, RemoveMesh, OfferLabels, MlChange
<1>5. ASSUME NEW u \in MlUnits, BeginLabels(u) \/ ReadLabelMap(u) PROVE LabelObjectsTypes'
  BY <1>5 DEF BeginLabels, ReadLabelMap
<1>6. ASSUME NEW u \in MlUnits, PatchTemplate(u) \/ PatchService(u) PROVE LabelObjectsTypes'
  BY <1>1, <1>6 DEF PatchTemplate, PatchService, Patched
<1>7. ASSUME NEW u \in MlUnits, RecordLabels(u) PROVE LabelObjectsTypes'
  <2>1. UNCHANGED <<mlTemplate, mlService, mlChanges>>
    BY <1>7 DEF RecordLabels
  <2>2. CASE Refused(mlHook[u])
    BY <1>3, <1>7, <2>1, <2>2 DEF RecordLabels, Fails
  <2>3. CASE ~Refused(mlHook[u])
    <3>1. /\ UNCHANGED mlMapThere
          /\ mlStray' = UNION {mlStray,
               IF mlHook[u].seen = "unknown" THEN mlMap \ mlHook[u].wanted ELSE {},
               IF u # MlLeader /\ ~mlRelated THEN mlHook[u].wanted ELSE {}}
      BY <1>7, <2>3 DEF RecordLabels
    <3> QED BY <1>1, <1>2, <2>1, <3>1
  <2> QED BY <2>2, <2>3
<1>8. ASSUME NEW u \in MlUnits, DeleteLabelMap(u) PROVE LabelObjectsTypes'
  BY <1>2, <1>8 DEF DeleteLabelMap
<1>9. ASSUME NEW u \in MlUnits, MeshHookDies(u) PROVE LabelObjectsTypes'
  BY <1>3, <1>9 DEF MeshHookDies, Fails
<1>10. CASE UNCHANGED mlVars
  BY <1>10 DEF mlVars
<1> QED BY <1>4, <1>5, <1>6, <1>7, <1>8, <1>9, <1>10 DEF MlNext

LEMMA LabelTypesAre == LabelsInv /\ LabelObjectsTypes => MlTypeOK
BY DEF LabelsInv, LabelsTypes, LabelHooks, LabelObjectsTypes, MlTypeOK

LEMMA LabelsInvSuffices == LabelsInv => LabelsCurrent
<1> SUFFICES ASSUME LabelsInv, MlIdle PROVE
      \A labels \in {mlTemplate, mlService} :
        MlLabelsWanted \subseteq labels /\ labels \ mlStray \subseteq MlLabelsWanted
  BY DEF LabelsCurrent
<1> USE DEF LabelsInv
<1>1. \A steps \in SUBSET Patching : ~StillTo(steps)
  BY DEF StillTo, MlIdle, Patching
<1>2. \A x : ~PutOnBy(x, PastTemplate) /\ ~PutOnBy(x, PastService)
  BY DEF PutOnBy, PastTemplate, PastService, MlIdle
<1>3. MlLabelsWanted \subseteq mlTemplate /\ MlLabelsWanted \subseteq mlService
  BY <1>1 DEF WantedPutOn, MlLabelsWanted, Patching
<1>4. mlMap \ mlStray \subseteq MlLabelsWanted
  <2>1. CASE mlRelated
    BY <1>1, <2>1 DEF WantedPutOn, MlLabelsWanted
  <2>2. CASE ~mlRelated
    <3>1. mlPending[MlLeader] # "broken" /\ mlHook[MlLeader].event # "broken"
      BY MlAssumption DEF MlIdle, LabelsTypes
    <3> QED BY <2>2, <3>1 DEF RecordCleared
  <2> QED BY <2>1, <2>2
<1>5. mlTemplate \ mlStray \subseteq MlLabelsWanted /\ mlService \ mlStray \subseteq MlLabelsWanted
  BY <1>2, <1>4 DEF Accounted, Known
<1> QED BY <1>3, <1>5

\* The labels are the mesh's, wherever they are kept, and a hook that is over has
\* no event.
THEOREM LabelTypes == MlSpec => []MlTypeOK
BY InitLabels, StepKeepsLabels, InitLabelTypes, NextLabelTypes, LabelTypesAre, PTL DEF MlSpec

\* reconcile_charm_labels: however the patches of any number of units interleave
\* and wherever a hook dies, once no hook is left to run both objects bear every
\* label the mesh asks for, and no other whose record was kept.
THEOREM LabelsAreCurrent == MlSpec => []LabelsCurrent
<1>1. MlSpec => []LabelsInv
  BY InitLabels, StepKeepsLabels, PTL DEF MlSpec
<1> QED BY <1>1, LabelsInvSuffices, PTL

\* The one unit's hooks run one after the other: the version of the ConfigMap it
\* has read is never an old one, and one it has created is empty.
OneUnitsHook ==
  LET h == mlHook[MlLeader] IN
  /\ mlStray = {}
  /\ h.seen # "old" /\ h.at # "failed"
  /\ h.event = "broken" => h.wanted = {}
  /\ ~mlMapThere \/ h.at = "delete" => mlMap = {}
  /\ h.at \in {"template", "service", "map"} => mlMapThere /\ (h.seen = "unknown" => mlMap = {})

LEMMA OneUnitsStep ==
  ASSUME MlUnits = {MlLeader}, LabelsInv, OneUnitsHook, MlNext,
         ~\E u \in MlUnits : MeshHookDies(u)
  PROVE  OneUnitsHook'
<1> USE DEF OneUnitsHook, mlObjects, mlConfigMap
<1>1. mlHook \in [MlUnits -> LabelHooks] /\ MlLeader \in MlUnits
  BY DEF LabelsInv, LabelsTypes
<1>2. ASSUME NEW next, MlLeader \in MlUnits
      PROVE  Outdated(MlLeader, [mlHook EXCEPT ![MlLeader] = next])[MlLeader] = next
  BY <1>1 DEF Outdated
<1>3. CASE RelateMesh \/ RemoveMesh \/ \E labels \in SUBSET MlLabels : OfferLabels(labels)
  BY <1>3 DEF RelateMesh, RemoveMesh, OfferLabels
<1>4. CASE BeginLabels(MlLeader)
  <2>1. /\ mlHook'[MlLeader].seen = "present" /\ mlHook'[MlLeader].at \in {"idle", "read"}
        /\ mlHook'[MlLeader].event = "broken" => mlHook'[MlLeader].wanted = {}
        /\ UNCHANGED <<mlMap, mlMapThere, mlStray>>
    BY <1>1, <1>4 DEF BeginLabels, NoLabelHook
  <2> QED BY <2>1
<1>5. CASE ReadLabelMap(MlLeader)
  <2>1. /\ mlMapThere' = TRUE /\ UNCHANGED <<mlMap, mlStray>>
        /\ mlHook'[MlLeader].at = "template"
        /\ mlHook'[MlLeader].event = mlHook[MlLeader].event
        /\ mlHook'[MlLeader].wanted = mlHook[MlLeader].wanted
        /\ mlHook'[MlLeader].seen = IF mlMapThere THEN "present" ELSE "unknown"
    BY <1>1, <1>5 DEF ReadLabelMap, LabelHooks
  <2> QED BY <2>1
<1>6. CASE PatchTemplate(MlLeader)
  BY <1>1, <1>6 DEF PatchTemplate, LabelHooks
<1>7. CASE PatchService(MlLeader)
  BY <1>1, <1>7 DEF PatchService, LabelHooks
<1>8. CASE RecordLabels(MlLeader)
  <2>1. mlHook[MlLeader].at = "map" /\ ~Refused(mlHook[MlLeader])
    BY <1>8 DEF RecordLabels, Refused
  <2>2. /\ mlStray' = {} /\ mlMapThere' = TRUE
        /\ mlHook'[MlLeader] =
             IF mlHook[MlLeader].event = "broken"
             THEN [NoLabelHook EXCEPT !.at = "delete", !.event = "broken"] ELSE NoLabelHook
    BY <1>1, <1>2, <1>8, <2>1 DEF RecordLabels
  <2>3. mlHook[MlLeader].event = "broken" => mlMap' = {}
    BY <1>8, <2>1 DEF RecordLabels
  <2> QED BY <2>2, <2>3 DEF NoLabelHook
<1>9. CASE DeleteLabelMap(MlLeader)
  <2>1. /\ mlMap' = {} /\ mlStray' = {} /\ mlHook'[MlLeader] = NoLabelHook
    BY <1>1, <1>2, <1>9 DEF DeleteLabelMap
  <2> QED BY <2>1 DEF NoLabelHook
<1> QED BY <1>3, <1>4, <1>5, <1>6, <1>7, <1>8, <1>9 DEF MlNext

\* Where the comment on reconcile_charm_labels is right: the one unit of an
\* application, if none of its hooks is cut short, takes off whatever it put on
\* and the mesh does not ask for now, the mesh being gone or not.
THEOREM LabelsRemovedByOneUnit ==
  MlUnits = {MlLeader} =>
    (MlSpec /\ [][~\E u \in MlUnits : MeshHookDies(u)]_mlVars => []LabelsRemoved)
<1> SUFFICES ASSUME MlUnits = {MlLeader}
             PROVE  MlSpec /\ [][~\E u \in MlUnits : MeshHookDies(u)]_mlVars => []LabelsRemoved
  OBVIOUS
<1>1. MlInit => OneUnitsHook
  BY MlAssumption DEF MlInit, OneUnitsHook, NoLabelHook
<1>2. /\ LabelsInv /\ OneUnitsHook /\ [MlNext]_mlVars
      /\ [~\E u \in MlUnits : MeshHookDies(u)]_mlVars
      => OneUnitsHook'
  <2>1. UNCHANGED mlVars /\ OneUnitsHook => OneUnitsHook'
    BY DEF mlVars, mlConfigMap, OneUnitsHook
  <2> QED BY <2>1, OneUnitsStep
<1>3. LabelsInv /\ OneUnitsHook => LabelsRemoved
  BY LabelsInvSuffices DEF OneUnitsHook, LabelsCurrent, LabelsRemoved
<1> QED BY <1>1, <1>2, <1>3, InitLabels, StepKeepsLabels, PTL DEF MlSpec

(***************************************************************************)
(* Grafana dashboards (Dashboards).                                        *)
(*                                                                         *)
(* Each copy of the dashboards agrees with the one it is made from, or an  *)
(* event that makes it again is to come: StoredState with what the charm   *)
(* ships, the databag with the leader's StoredState, Grafana's peer        *)
(* databag with what renders of the databag, what a unit shows with the    *)
(* peer databag. That of every uid some dashboard is shown, and of its     *)
(* highest version, needs that a finite set has a greatest element.        *)
(***************************************************************************)

StoredFollows ==
  \A r \in GdRelations, u \in GdUnits :
    gdStored[r][u] = LoadedFromDir(r) \/ <<r, u>> \in gdRefresh

BagFollows ==
  \A r \in gdRelated :
    \/ Templates(r) = gdStored[r][gdLeads[r]]
    \/ <<r, gdLeads[r]>> \in gdRefresh \cup gdCreated

\* A relation that is gone has no databag, and its end is not behind its beginning.
GoneIsGone ==
  /\ \A r \in GdRelations \ gdRelated : gdBag[r] = {}
  /\ \A r \in GdRelations : gdBag[r] = {} \/ \E S \in Boards : gdBag[r] = {S}
  /\ gdHeard \subseteq gdRelated
  /\ gdBroken \cap gdRelated = {}

PeerFollows ==
  \A r \in GdRelations :
    /\ gdPeer[r] = Rendered(r) \/ r \in gdHeard \/ r \in gdBroken
    /\ gdBag[r] = {} => gdPeer[r] = {} \/ r \in gdBroken

\* The leader shows what it wrote, unless it was elected before it heard of it.
UnitsFollow ==
  \A g \in GdGrafanas :
    g \notin gdMissed /\ (g = gdMain \/ g \notin gdPeerHeard) =>
      gdShown[g] = Deduplicated(gdPeer)

ErrorsFollow ==
  /\ gdErrors \subseteq gdRelated
  /\ \A r \in gdRelated :
       /\ Garbled(r) => r \in gdHeard \/ r \in gdErrors
       /\ r \in gdErrors => <<r, gdLeads[r]>> \in gdAnswered \/ r \in gdTold \cup gdUntold

DashboardsInv ==
  /\ GdDataOK /\ StoredFollows /\ BagFollows /\ GoneIsGone
  /\ PeerFollows /\ UnitsFollow /\ ErrorsFollow

TotallyOrders(Below, Base) ==
  /\ Below \in SUBSET (Base \X Base)
  /\ \A x, y \in Base : <<x, y>> \in Below \/ <<y, x>> \in Below
  /\ \A x, y, z \in Base : <<x, y>> \in Below /\ <<y, z>> \in Below => <<x, z>> \in Below

\* A finite set that is not empty has a greatest element in any total order.
LEMMA FiniteHasGreatest ==
  ASSUME NEW Base, NEW Below, TotallyOrders(Below, Base),
         NEW S \in SUBSET Base, IsFiniteSet(S), S # {}
  PROVE  \E m \in S : \A x \in S : <<x, m>> \in Below
<1> DEFINE Greatest(X) == \E m \in X : \A x \in X : <<x, m>> \in Below
           T == {n \in Nat : \A X \in SUBSET Base :
                   IsFiniteSet(X) /\ X # {} /\ Cardinality(X) = n => Greatest(X)}
<1> USE DEF TotallyOrders
<1>1. 0 \in T
  BY FS_EmptySet
<1>2. ASSUME NEW n \in Nat, n \in T PROVE n + 1 \in T
  <2> SUFFICES ASSUME NEW X \in SUBSET Base, IsFiniteSet(X), X # {}, Cardinality(X) = n + 1
               PROVE  Greatest(X)
    OBVIOUS
  <2>1. PICK x \in X : TRUE
    OBVIOUS
  <2>2. IsFiniteSet(X \ {x}) /\ Cardinality(X \ {x}) = n
    <3>1. /\ IsFiniteSet(X \ {x})
          /\ Cardinality(X \ {x}) = IF x \in X THEN Cardinality(X) - 1 ELSE Cardinality(X)
      BY FS_RemoveElement
    <3> QED BY <2>1, <3>1
  <2>3. CASE X \ {x} = {}
    BY <2>1, <2>3
  <2>4. CASE X \ {x} # {}
    <3>1. PICK m \in X \ {x} : \A y \in X \ {x} : <<y, m>> \in Below
      BY <1>2, <2>2, <2>4
    <3>2. CASE <<x, m>> \in Below
      BY <3>1, <3>2
    <3>3. CASE <<m, x>> \in Below
      <4>1. \A y \in X : <<y, x>> \in Below
        BY <2>1, <3>1, <3>3
      <4> QED BY <2>1, <4>1
    <3> QED BY <2>1, <3>1, <3>2, <3>3
  <2> QED BY <2>3, <2>4
<1>3. Nat \subseteq T
  <2> HIDE DEF T
  <2> QED BY <1>1, <1>2, SetInduction
<1>4. Cardinality(S) \in T
  BY <1>3, FS_CardinalityType
<1> QED BY <1>4

LEMMA BoardsAreDashboards ==
  \A d \in Board : /\ d = [uid |-> d.uid, version |-> d.version, state |-> d.state]
                   /\ d.version \in Int /\ d.state \in {"good", "garbled"}
BY GdAssumption DEF Board

LEMMA RelationsAreNumbers == \A r \in GdRelations : r \in Int
<1>1. GdRelations \subseteq Nat
  BY GdAssumption, Zenon
<1> QED BY <1>1

\* What is selected is of the peer databag, and of two of one uid both cannot be.
LEMMA SelectedIsOfPeer ==
  ASSUME NEW peer \in [GdRelations -> Boards]
  PROVE  /\ \A x \in Deduplicated(peer) : x[1] \in GdRelations /\ x[2] \in peer[x[1]]
         /\ Deduplicated(peer) \subseteq GdRelations \X Board
<1>1. \A x \in UNION {{r} \X peer[r] : r \in GdRelations} :
        x[1] \in GdRelations /\ x[2] \in peer[x[1]] /\ x = <<x[1], x[2]>>
  OBVIOUS
<1>2. \A r \in GdRelations : peer[r] \subseteq Board
  BY DEF Boards
<1>3. Deduplicated(peer) \subseteq UNION {{r} \X peer[r] : r \in GdRelations}
  BY DEF Deduplicated
<1> QED BY <1>1, <1>2, <1>3

LEMMA SelectedIsOne ==
  ASSUME NEW peer \in [GdRelations -> Boards],
         \A r \in GdRelations : \A d \in peer[r] : d.state = "good",
         NEW x \in Deduplicated(peer), NEW y \in Deduplicated(peer), x[2].uid = y[2].uid
  PROVE  x = y
<1>1. /\ x[1] \in GdRelations /\ x[2] \in peer[x[1]] /\ x = <<x[1], x[2]>>
      /\ y[1] \in GdRelations /\ y[2] \in peer[y[1]] /\ y = <<y[1], y[2]>>
      /\ x[2] \in Board /\ y[2] \in Board
  BY SelectedIsOfPeer
<1>2. /\ y[2].version < x[2].version \/ (y[2].version = x[2].version /\ y[1] <= x[1])
      /\ x[2].version < y[2].version \/ (x[2].version = y[2].version /\ x[1] <= y[1])
  BY DEF Deduplicated
<1>3. x[1] \in Nat /\ y[1] \in Nat /\ x[2].version \in Int /\ y[2].version \in Int
  BY <1>1, GdAssumption, BoardsAreDashboards
<1>4. x[2].version = y[2].version /\ x[1] = y[1]
  BY <1>2, <1>3
<1>5. x[2] = y[2]
  BY <1>1, <1>4, BoardsAreDashboards
<1> QED BY <1>1, <1>4, <1>5

\* Of each uid in the peer databag one is selected, of no lower version.
LEMMA SelectedCovers ==
  ASSUME NEW peer \in [GdRelations -> Boards], NEW r \in GdRelations, NEW d \in peer[r]
  PROVE  \E x \in Deduplicated(peer) : x[2].uid = d.uid /\ x[2].version >= d.version
<1> DEFINE pairs(q) == {q} \X peer[q]
           all == UNION {pairs(q) : q \in GdRelations}
           same == {x \in all : x[2].uid = d.uid}
           Base == GdRelations \X Board
           Below == {p \in Base \X Base :
                       \/ p[1][2].version < p[2][2].version
                       \/ p[1][2].version = p[2][2].version /\ p[1][1] <= p[2][1]}
<1>1. all \subseteq Base
  BY DEF Boards
<1>2. IsFiniteSet(all)
  <2>1. ASSUME NEW q \in GdRelations PROVE IsFiniteSet(pairs(q))
    <3>1. IsFiniteSet(peer[q]) /\ IsFiniteSet({q})
      BY FS_Singleton DEF Boards
    <3> QED BY <3>1, FS_Product
  <2>2. IsFiniteSet({pairs(q) : q \in GdRelations})
    <3> DEFINE f == [q \in GdRelations |-> pairs(q)]
    <3>1. f \in Surjection(GdRelations, {pairs(q) : q \in GdRelations})
      BY DEF Surjection
    <3> QED BY <3>1, FS_Surjection, GdAssumption
  <2>3. \A P \in {pairs(q) : q \in GdRelations} : IsFiniteSet(P)
    BY <2>1
  <2> HIDE DEF pairs
  <2> QED BY <2>2, <2>3, FS_UNION
<1>3. same \subseteq Base /\ IsFiniteSet(same) /\ <<r, d>> \in same
  <2>1. <<r, d>> \in pairs(r)
    OBVIOUS
  <2>2. same \in SUBSET all
    OBVIOUS
  <2> QED BY <1>1, <1>2, <2>1, <2>2, FS_Subset
<1>4. \A x \in Base : x[1] \in Int /\ x[2].version \in Int
  BY RelationsAreNumbers, BoardsAreDashboards
<1>5. PICK m \in same : \A x \in same : <<x, m>> \in Below
  <2>1. \A x, y \in Base :
          <<x, y>> \in Below <=> \/ x[2].version < y[2].version
                                 \/ x[2].version = y[2].version /\ x[1] <= y[1]
    OBVIOUS
  <2>2. Below \in SUBSET (Base \X Base)
    OBVIOUS
  <2> HIDE DEF Below, Base, same, all
  <2>3. ASSUME NEW x \in Base, NEW y \in Base
        PROVE  <<x, y>> \in Below \/ <<y, x>> \in Below
    <3>1. /\ x[1] \in Int /\ y[1] \in Int
          /\ x[2].version \in Int /\ y[2].version \in Int
      BY <1>4
    <3>2. \/ x[2].version < y[2].version \/ (x[2].version = y[2].version /\ x[1] <= y[1])
          \/ y[2].version < x[2].version \/ (y[2].version = x[2].version /\ y[1] <= x[1])
      BY <3>1
    <3> QED BY <2>1, <3>2
  <2>4. ASSUME NEW x \in Base, NEW y \in Base, NEW z \in Base,
               <<x, y>> \in Below, <<y, z>> \in Below
        PROVE  <<x, z>> \in Below
    <3>1. /\ x[2].version < y[2].version \/ (x[2].version = y[2].version /\ x[1] <= y[1])
          /\ y[2].version < z[2].version \/ (y[2].version = z[2].version /\ y[1] <= z[1])
      BY <2>1, <2>4
    <3>2. x[2].version < z[2].version \/ (x[2].version = z[2].version /\ x[1] <= z[1])
      BY <1>4, <3>1
    <3> QED BY <2>1, <3>2
  <2>5. same \in SUBSET Base /\ IsFiniteSet(same) /\ same # {}
    BY <1>3
  <2>6. TotallyOrders(Below, Base)
    BY <2>2, <2>3, <2>4 DEF TotallyOrders
  <2> QED BY ONLY <2>5, <2>6, FiniteHasGreatest
<1>6. \A x \in same : \/ x[2].version < m[2].version
                      \/ x[2].version = m[2].version /\ x[1] <= m[1]
  BY <1>5
<1>7. m \in Deduplicated(peer)
  <2>1. m \in all /\ m[2].uid = d.uid
    BY <1>5
  <2>2. \A y \in all : y[2].uid = m[2].uid => y \in same
    BY <2>1
  <2> HIDE DEF same
  <2> QED BY <1>6, <2>1, <2>2 DEF Deduplicated
<1>8. m[2].version >= d.version
  <2>1. d \in Board
    BY DEF Boards
  <2>2. \/ d.version < m[2].version
        \/ d.version = m[2].version
    BY <1>3, <1>6
  <2>3. d.version \in Int /\ m[2].version \in Int
    BY <1>3, <1>4, <1>5, <2>1, BoardsAreDashboards
  <2> QED BY <2>2, <2>3
<1>9. m[2].uid = d.uid
  BY <1>5
<1> QED BY <1>7, <1>8, <1>9

LEMMA LoadedAreBoards ==
  ASSUME GdDataOK, NEW r \in GdRelations
  PROVE  LoadedFromDir(r) \in Boards
<1>1. gdShips[r] \in GdRevisions
  BY DEF GdDataOK
<1>2. IsFiniteSet(gdShips[r])
  BY <1>1, GdAssumption, Zenon
<1>3. LoadedFromDir(r) \in SUBSET gdShips[r]
  BY DEF LoadedFromDir
<1>4. IsFiniteSet(LoadedFromDir(r))
  BY <1>2, <1>3, FS_Subset
<1>5. LoadedFromDir(r) \subseteq Board
  BY <1>1 DEF LoadedFromDir, Board
<1> QED BY <1>4, <1>5 DEF Boards

LEMMA RenderedAreBoards ==
  ASSUME GoneIsGone, NEW r \in GdRelations
  PROVE  /\ Rendered(r) \in Boards
         /\ gdBag[r] = {} => Rendered(r) = {} /\ ~Garbled(r)
<1>1. {} \in Boards
  BY FS_EmptySet DEF Boards
<1>2. CASE gdBag[r] = {}
  <2>1. Templates(r) = {}
    BY <1>2 DEF Templates
  <2> QED BY <1>1, <2>1 DEF Rendered, Garbled
<1>3. CASE gdBag[r] # {}
  <2>1. PICK S \in Boards : gdBag[r] = {S}
    BY <1>3 DEF GoneIsGone
  <2>2. Templates(r) = S
    BY <2>1 DEF Templates
  <2> QED BY <1>1, <1>3, <2>2 DEF Rendered
<1> QED BY <1>2, <1>3

LEMMA InitDashboards == GdInit => DashboardsInv
<1> SUFFICES ASSUME GdInit PROVE DashboardsInv
  OBVIOUS
<1> USE DEF GdInit
<1>1. {} \in Boards
  BY FS_EmptySet DEF Boards
<1>2. /\ gdShips \in [GdRelations -> GdRevisions]
      /\ gdLeads \in [GdRelations -> GdUnits] /\ gdMain \in GdGrafanas
  OBVIOUS
<1>3. \A r \in GdRelations : LoadedFromDir(r) \in Boards
  <2> SUFFICES ASSUME NEW r \in GdRelations PROVE LoadedFromDir(r) \in Boards
    OBVIOUS
  <2>1. IsFiniteSet(gdShips[r]) /\ gdShips[r] \in GdRevisions
    <3>1. gdShips[r] \in GdRevisions
      BY <1>2
    <3> QED BY <3>1, GdAssumption, Zenon
  <2>2. LoadedFromDir(r) \in SUBSET gdShips[r] /\ LoadedFromDir(r) \subseteq Board
    BY <2>1 DEF LoadedFromDir, Board
  <2> QED BY <2>1, <2>2, FS_Subset DEF Boards
<1>4. GdDataOK
  <2>1. gdStored \in [GdRelations -> [GdUnits -> Boards]]
    BY <1>3
  <2>2. gdRelated \subseteq GdRelations
    OBVIOUS
  <2>3. gdBag \in [GdRelations -> SUBSET Boards] /\ gdPeer \in [GdRelations -> Boards]
    BY <1>1
  <2>4. gdShown \in [GdGrafanas -> SUBSET (GdRelations \X Board)]
    OBVIOUS
  <2> QED BY <1>2, <2>1, <2>2, <2>3, <2>4 DEF GdDataOK
<1>5. StoredFollows /\ BagFollows /\ GoneIsGone /\ ErrorsFollow
  BY DEF StoredFollows, BagFollows, GoneIsGone, ErrorsFollow
<1>6. PeerFollows
  BY <1>5, RenderedAreBoards DEF PeerFollows
<1>7. UnitsFollow
  <2>1. Deduplicated(gdPeer) = {}
    BY DEF Deduplicated
  <2> QED BY <2>1 DEF UnitsFollow
<1> QED BY <1>4, <1>5, <1>6, <1>7 DEF DashboardsInv

\* A hook of a charm that ships dashboards: StoredState, and then the databag.
LEMMA ProviderKeepsDashboards ==
  ASSUME DashboardsInv, NEW r \in GdRelations, NEW u \in GdUnits,
         UpdateFromDir(r, u) \/ (gdStored' = gdStored /\ gdLeads[r] # u),
         UpsetOnRelation(r, u, gdLeads[r] = u),
         gdRefresh' = gdRefresh \/ (gdRefresh' = gdRefresh \ {<<r, u>>} /\ UpdateFromDir(r, u)),
         gdCreated' = gdCreated \/ gdCreated' = gdCreated \ {<<r, u>>},
         UNCHANGED <<gdRelated, gdShips, gdLeads, gdTold, gdUntold, gdConsumer, gdBroken,
                     gdPeerHeard, gdAnswered>>
  PROVE  DashboardsInv'
<1> USE DEF DashboardsInv, gdConsumer
<1> DEFINE load == LoadedFromDir(r)
<1>1. load \in Boards /\ \A q \in GdRelations : LoadedFromDir(q)' = LoadedFromDir(q)
  BY LoadedAreBoards DEF LoadedFromDir
<1>2. gdStored' = [gdStored EXCEPT ![r][u] = load] \/ (gdStored' = gdStored /\ gdLeads[r] # u)
  BY DEF UpdateFromDir
<1>3. gdRefresh' = gdRefresh \/ (gdRefresh' = gdRefresh \ {<<r, u>>} /\ gdStored'[r][u] = load)
  BY DEF UpdateFromDir, GdDataOK
<1> HIDE DEF load
<1>4. /\ gdStored' \in [GdRelations -> [GdUnits -> Boards]]
      /\ \A q \in GdRelations, v \in GdUnits :
           <<q, v>> # <<r, u>> => gdStored'[q][v] = gdStored[q][v]
      /\ gdStored'[r][u] = load \/ gdStored'[r][u] = gdStored[r][u]
  BY <1>1, <1>2 DEF GdDataOK
<1>5. /\ \/ UNCHANGED <<gdBag, gdHeard>>
         \/ /\ r \in gdRelated /\ gdHeard' = gdHeard \cup {r}
            /\ gdBag' = [gdBag EXCEPT ![r] = {gdStored'[r][u]}]
      /\ r \in gdRelated /\ gdLeads[r] = u => Templates(r)' = gdStored'[r][u]
  <2>1. gdBag' = [gdBag EXCEPT ![r] = {gdStored'[r][u]}] => Templates(r)' = gdStored'[r][u]
    BY DEF Templates, GdDataOK
  <2> QED BY <2>1 DEF UpsetOnRelation, Templates
<1>6. /\ gdBag' \in [GdRelations -> SUBSET Boards]
      /\ \A q \in GdRelations : q # r => gdBag'[q] = gdBag[q]
      /\ gdBag'[r] = gdBag[r]
         \/ (r \in gdRelated /\ r \in gdHeard' /\ \E S \in Boards : gdBag'[r] = {S})
      /\ gdHeard \subseteq gdHeard' /\ gdHeard' \subseteq gdHeard \cup (gdRelated \cap {r})
  <2>1. gdBag \in [GdRelations -> SUBSET Boards] /\ gdStored'[r][u] \in Boards
    BY <1>4 DEF GdDataOK
  <2>2. CASE UNCHANGED <<gdBag, gdHeard>>
    BY <2>1, <2>2
  <2>3. CASE /\ r \in gdRelated /\ gdHeard' = gdHeard \cup {r}
             /\ gdBag' = [gdBag EXCEPT ![r] = {gdStored'[r][u]}]
    <3>1. gdBag' \in [GdRelations -> SUBSET Boards] /\ gdBag'[r] = {gdStored'[r][u]}
          /\ \A q \in GdRelations : q # r => gdBag'[q] = gdBag[q]
      BY <2>1, <2>3
    <3> QED BY <2>1, <2>3, <3>1
  <2> QED BY <1>5, <2>2, <2>3
<1>7. GdDataOK'
  BY <1>4, <1>6 DEF GdDataOK
<1>8. StoredFollows'
  BY <1>1, <1>3, <1>4 DEF StoredFollows, load
<1>9. BagFollows'
  <2> SUFFICES ASSUME NEW q \in gdRelated
               PROVE  \/ Templates(q)' = gdStored'[q][gdLeads[q]]
                      \/ <<q, gdLeads[q]>> \in gdRefresh' \cup gdCreated'
    BY DEF BagFollows
  <2>1. q \in GdRelations /\ gdLeads[q] \in GdUnits
    BY DEF GdDataOK
  <2>2. CASE q = r /\ gdLeads[r] = u
    BY <1>5, <2>2
  <2>3. CASE ~(q = r /\ gdLeads[r] = u)
    <3>1. Templates(q)' = Templates(q)
      BY <1>6, <2>1, <2>3 DEF Templates, UpsetOnRelation
    <3>2. gdStored'[q][gdLeads[q]] = gdStored[q][gdLeads[q]]
      BY <1>4, <2>1, <2>3
    <3>3. <<q, gdLeads[q]>> # <<r, u>>
      BY <2>3
    <3>4. <<q, gdLeads[q]>> \in gdRefresh \cup gdCreated => <<q, gdLeads[q]>> \in gdRefresh' \cup gdCreated'
      BY <1>3, <3>3
    <3> QED BY <3>1, <3>2, <3>4 DEF BagFollows
  <2> QED BY <2>2, <2>3
<1>10. GoneIsGone'
  BY <1>6 DEF GoneIsGone, GdDataOK
<1>11. \A q \in GdRelations : gdBag'[q] = gdBag[q] =>
         Rendered(q)' = Rendered(q) /\ (Garbled(q)' <=> Garbled(q))
  BY DEF Rendered, Garbled, Templates
<1>12. PeerFollows'
  BY <1>6, <1>11 DEF PeerFollows
<1>13. UnitsFollow'
  BY DEF UnitsFollow
<1>14. ErrorsFollow'
  BY <1>6, <1>11 DEF ErrorsFollow, GdDataOK
<1> QED BY <1>7, <1>8, <1>9, <1>10, <1>12, <1>13, <1>14

\* Grafana's leader writes the peer databag.
LEMMA PeerIsShown ==
  ASSUME GdDataOK, UnitsFollow, NEW peer \in [GdRelations -> Boards],
         SetPeerData(peer), UNCHANGED gdMain
  PROVE  /\ UnitsFollow' /\ gdPeer' = peer
         /\ gdShown' \in [GdGrafanas -> SUBSET (GdRelations \X Board)]
<1>1. /\ gdPeer' = peer /\ gdMissed' = gdMissed \ {gdMain}
      /\ gdShown' = [gdShown EXCEPT ![gdMain] = Deduplicated(peer)]
      /\ peer # gdPeer => gdPeerHeard' = gdPeerHeard \cup (GdGrafanas \ {gdMain})
      /\ peer = gdPeer => gdPeerHeard' = gdPeerHeard
  BY DEF SetPeerData
<1>2. Deduplicated(peer) \subseteq GdRelations \X Board
  BY SelectedIsOfPeer
<1>3. /\ gdShown' \in [GdGrafanas -> SUBSET (GdRelations \X Board)]
      /\ gdShown'[gdMain] = Deduplicated(peer)
      /\ \A g \in GdGrafanas \ {gdMain} : gdShown'[g] = gdShown[g]
  BY <1>1, <1>2 DEF GdDataOK
<1>4. \A g \in GdGrafanas \ {gdMain} :
        g \notin gdMissed' /\ g \notin gdPeerHeard' => gdShown'[g] = Deduplicated(peer)
  BY <1>1, <1>3 DEF UnitsFollow
<1>5. UnitsFollow'
  BY <1>1, <1>3, <1>4 DEF UnitsFollow
<1> QED BY <1>1, <1>3, <1>5

LEMMA ChangedKeepsDashboards ==
  ASSUME DashboardsInv, NEW r \in GdRelations, DashboardsChanged(r)
  PROVE  DashboardsInv'
<1> USE DEF DashboardsInv
<1>1. /\ r \in gdHeard /\ gdHeard' = gdHeard \ {r}
      /\ r \in gdRelated /\ r \notin gdBroken
      /\ UNCHANGED <<gdRelated, gdShips, gdStored, gdLeads, gdBag, gdTold, gdUntold, gdMain,
                     gdRefresh, gdCreated, gdBroken>>
  BY DEF DashboardsChanged, gdProviders, GoneIsGone
<1>2. \A q \in GdRelations :
        /\ LoadedFromDir(q)' = LoadedFromDir(q) /\ Templates(q)' = Templates(q)
        /\ Rendered(q)' = Rendered(q) /\ (Garbled(q)' <=> Garbled(q))
  BY <1>1 DEF LoadedFromDir, Templates, Rendered, Garbled
<1>3. StoredFollows' /\ BagFollows' /\ GoneIsGone'
  BY <1>1, <1>2 DEF StoredFollows, BagFollows, GoneIsGone, GdDataOK
<1>4. Rendered(r) \in Boards /\ (gdBag[r] = {} => Rendered(r) = {} /\ ~Garbled(r))
  BY RenderedAreBoards
<1>5. CASE NothingToRender(r)
  <2>1. UNCHANGED <<gdPeer, gdShown, gdMissed, gdPeerHeard, gdErrors, gdAnswered>>
    BY <1>5 DEF DashboardsChanged
  <2>2. gdPeer[r] = Rendered(r) /\ ~Garbled(r)
    BY <1>1, <1>4, <1>5 DEF NothingToRender, PeerFollows, Rendered
  <2>3. GdDataOK' /\ UnitsFollow'
    BY <1>1, <2>1 DEF GdDataOK, UnitsFollow
  <2>4. PeerFollows'
    BY <1>1, <1>2, <2>1, <2>2 DEF PeerFollows
  <2>5. ErrorsFollow'
    BY <1>1, <1>2, <2>1, <2>2 DEF ErrorsFollow, GdDataOK
  <2> QED BY <1>3, <2>3, <2>4, <2>5
<1>6. CASE ~NothingToRender(r)
  <2> DEFINE peer == [gdPeer EXCEPT ![r] = Rendered(r)]
  <2>1. SetPeerData(peer) /\ ReportErrors(r)
    BY <1>6 DEF DashboardsChanged
  <2>2. /\ peer \in [GdRelations -> Boards] /\ peer[r] = Rendered(r)
        /\ \A q \in GdRelations : q # r => peer[q] = gdPeer[q]
    BY <1>4 DEF GdDataOK
  <2> HIDE DEF peer
  <2>3. UnitsFollow' /\ gdPeer' = peer /\ gdShown' \in [GdGrafanas -> SUBSET (GdRelations \X Board)]
    BY <1>1, <2>1, <2>2, PeerIsShown
  <2>4. GdDataOK'
    BY <1>1, <2>2, <2>3 DEF GdDataOK
  <2>5. PeerFollows'
    BY <1>1, <1>2, <1>4, <2>2, <2>3 DEF PeerFollows
  <2>6. ErrorsFollow'
    <3>1. /\ gdErrors \subseteq gdErrors' /\ gdErrors' \subseteq gdErrors \cup {r}
          /\ gdAnswered \subseteq gdAnswered'
          /\ r \in gdErrors' => r \in gdErrors \/ {r} \X GdUnits \subseteq gdAnswered'
          /\ Garbled(r) => r \in gdErrors'
      BY <2>1 DEF ReportErrors
    <3> QED BY <1>1, <1>2, <3>1 DEF ErrorsFollow, GdDataOK
  <2> QED BY <1>3, <2>3, <2>4, <2>5, <2>6
<1> QED BY <1>5, <1>6

LEMMA BrokenKeepsDashboards ==
  ASSUME DashboardsInv, NEW r \in GdRelations, DashboardsBroken(r)
  PROVE  DashboardsInv'
<1> USE DEF DashboardsInv
<1>1. /\ r \in gdBroken /\ gdBroken' = gdBroken \ {r} /\ r \notin gdRelated
      /\ UNCHANGED <<gdRelated, gdShips, gdStored, gdLeads, gdBag, gdTold, gdUntold, gdMain, gdErrors,
                     gdRefresh, gdCreated, gdHeard, gdAnswered>>
  BY DEF DashboardsBroken, gdProviders, GoneIsGone
<1>2. \A q \in GdRelations :
        /\ LoadedFromDir(q)' = LoadedFromDir(q) /\ Templates(q)' = Templates(q)
        /\ Rendered(q)' = Rendered(q) /\ (Garbled(q)' <=> Garbled(q))
  BY <1>1 DEF LoadedFromDir, Templates, Rendered, Garbled
<1>3. StoredFollows' /\ BagFollows' /\ GoneIsGone' /\ ErrorsFollow'
  BY <1>1, <1>2 DEF StoredFollows, BagFollows, GoneIsGone, ErrorsFollow, GdDataOK
<1>4. Rendered(r) = {} /\ {} \in Boards
  <2>1. gdBag[r] = {}
    BY <1>1 DEF GoneIsGone
  <2> QED BY <2>1, RenderedAreBoards
<1>5. UnitsFollow' /\ GdDataOK' /\ gdPeer' = [gdPeer EXCEPT ![r] = {}]
  <2>1. CASE gdPeer[r] = {}
    <3>1. UNCHANGED <<gdPeer, gdShown, gdMissed, gdPeerHeard>>
      BY <2>1 DEF DashboardsBroken
    <3>2. gdPeer = [gdPeer EXCEPT ![r] = {}]
      BY <2>1 DEF GdDataOK
    <3> QED BY <1>1, <3>1, <3>2 DEF UnitsFollow, GdDataOK
  <2>2. CASE gdPeer[r] # {}
    <3> DEFINE peer == [gdPeer EXCEPT ![r] = {}]
    <3>1. SetPeerData(peer) /\ peer \in [GdRelations -> Boards]
      BY <1>4, <2>2 DEF DashboardsBroken, GdDataOK
    <3>2. UnitsFollow' /\ gdPeer' = peer
          /\ gdShown' \in [GdGrafanas -> SUBSET (GdRelations \X Board)]
      <4> HIDE DEF peer
      <4> QED BY <1>1, <3>1, PeerIsShown
    <3> QED BY <1>1, <3>1, <3>2 DEF GdDataOK
  <2> QED BY <2>1, <2>2
<1>6. PeerFollows'
  BY <1>1, <1>2, <1>4, <1>5 DEF PeerFollows, GdDataOK
<1> QED BY <1>3, <1>5, <1>6

\* Relations that come and go, other dashboards, other leaders.
LEMMA RelationKeepsDashboards ==
  ASSUME DashboardsInv, NEW r \in GdRelations, RelateGrafana(r) \/ RemoveGrafana(r)
  PROVE  DashboardsInv'
<1> USE DEF DashboardsInv
<1>1. /\ \A q \in GdRelations : LoadedFromDir(q)' = LoadedFromDir(q)
      /\ \A q \in GdRelations : gdBag'[q] = gdBag[q] =>
           /\ Templates(q)' = Templates(q)
           /\ Rendered(q)' = Rendered(q) /\ (Garbled(q)' <=> Garbled(q))
  BY DEF RelateGrafana, RemoveGrafana, LoadedFromDir, Templates, Rendered, Garbled
<1>2. CASE RelateGrafana(r)
  <2>1. /\ r \notin gdRelated /\ r \notin gdBroken /\ gdRelated' = gdRelated \cup {r}
        /\ gdCreated' = gdCreated \cup ({r} \X GdUnits) /\ gdHeard' = gdHeard \cup {r}
        /\ UNCHANGED <<gdShips, gdStored, gdLeads, gdBag, gdTold, gdUntold, gdErrors, gdPeer, gdMain, gdShown,
                       gdMissed, gdRefresh, gdBroken, gdPeerHeard, gdAnswered>>
    BY <1>2 DEF RelateGrafana, gdConsumer
  <2>2. gdBag[r] = {} /\ ~Garbled(r)
    BY <2>1, RenderedAreBoards DEF GoneIsGone
  <2>3. GdDataOK' /\ StoredFollows' /\ GoneIsGone' /\ PeerFollows' /\ UnitsFollow'
    BY <1>1, <2>1, <2>2
    DEF GdDataOK, StoredFollows, GoneIsGone, PeerFollows, UnitsFollow
  <2>4. BagFollows'
    <3>1. <<r, gdLeads[r]>> \in gdCreated'
      BY <2>1 DEF GdDataOK
    <3> QED BY <1>1, <2>1, <3>1 DEF BagFollows, GdDataOK
  <2>5. ErrorsFollow'
    BY <1>1, <2>1, <2>2 DEF ErrorsFollow, GdDataOK
  <2> QED BY <2>3, <2>4, <2>5
<1>3. CASE RemoveGrafana(r)
  <2>1. /\ r \in gdRelated /\ gdRelated' = gdRelated \ {r}
        /\ gdBag' = [gdBag EXCEPT ![r] = {}]
        /\ gdErrors' = gdErrors \ {r} /\ gdTold' = gdTold \ {r} /\ gdUntold' = gdUntold \ {r}
        /\ gdCreated' = gdCreated \ ({r} \X GdUnits)
        /\ gdHeard' = gdHeard \ {r} /\ gdAnswered' = gdAnswered \ ({r} \X GdUnits)
        /\ gdBroken' = gdBroken \cup {r}
        /\ UNCHANGED <<gdShips, gdStored, gdLeads, gdPeer, gdMain, gdShown, gdMissed, gdRefresh,
                       gdPeerHeard>>
    BY <1>3 DEF RemoveGrafana
  <2>2. /\ gdBag' \in [GdRelations -> SUBSET Boards] /\ gdBag'[r] = {}
        /\ \A q \in GdRelations : q # r => gdBag'[q] = gdBag[q]
    BY <2>1 DEF GdDataOK
  <2>3. GdDataOK' /\ StoredFollows' /\ UnitsFollow'
    BY <1>1, <2>1, <2>2 DEF GdDataOK, StoredFollows, UnitsFollow
  <2>4. GoneIsGone' /\ PeerFollows'
    BY <1>1, <2>1, <2>2 DEF GoneIsGone, PeerFollows
  <2>5. BagFollows'
    <3> SUFFICES ASSUME NEW q \in gdRelated, q # r
                 PROVE  \/ Templates(q)' = gdStored'[q][gdLeads'[q]]
                        \/ <<q, gdLeads'[q]>> \in gdRefresh' \cup gdCreated'
      BY <2>1 DEF BagFollows
    <3>1. <<q, gdLeads[q]>> \in gdCreated => <<q, gdLeads[q]>> \in gdCreated'
      BY <2>1
    <3> QED BY <1>1, <2>1, <2>2, <3>1 DEF BagFollows, GdDataOK
  <2>6. ErrorsFollow'
    BY <1>1, <2>1, <2>2 DEF ErrorsFollow, GdDataOK
  <2> QED BY <2>3, <2>4, <2>5, <2>6
<1> QED BY <1>2, <1>3

LEMMA UpgradeKeepsDashboards ==
  ASSUME DashboardsInv, NEW r \in GdRelations, NEW revision \in GdRevisions,
         UpgradeProvider(r, revision)
  PROVE  DashboardsInv'
<1> USE DEF DashboardsInv
<1>1. /\ gdShips' = [gdShips EXCEPT ![r] = revision]
      /\ gdRefresh' = gdRefresh \cup ({r} \X GdUnits)
      /\ UNCHANGED <<gdRelated, gdStored, gdLeads, gdBag, gdTold, gdUntold, gdErrors, gdPeer, gdMain, gdShown,
                     gdMissed, gdCreated, gdHeard, gdBroken, gdPeerHeard, gdAnswered>>
  BY DEF UpgradeProvider, gdConsumer
<1>2. \A q \in GdRelations :
        /\ Templates(q)' = Templates(q)
        /\ Rendered(q)' = Rendered(q) /\ (Garbled(q)' <=> Garbled(q))
  BY <1>1 DEF Templates, Rendered, Garbled
<1>3. \A q \in GdRelations : q # r => LoadedFromDir(q)' = LoadedFromDir(q)
  BY <1>1 DEF LoadedFromDir, GdDataOK
<1>4. GdDataOK' /\ GoneIsGone' /\ PeerFollows' /\ UnitsFollow' /\ ErrorsFollow'
  BY <1>1, <1>2 DEF GdDataOK, GoneIsGone, PeerFollows, UnitsFollow, ErrorsFollow
<1>5. StoredFollows'
  BY <1>1, <1>3 DEF StoredFollows
<1>6. BagFollows'
  BY <1>1, <1>2 DEF BagFollows, GdDataOK
<1> QED BY <1>4, <1>5, <1>6

LEMMA LeadersKeepDashboards ==
  ASSUME DashboardsInv,
         \/ \E r \in GdRelations, u \in GdUnits : ElectProvider(r, u)
         \/ \E g \in GdGrafanas : ElectGrafana(g) \/ GrafanaPeerChanged(g)
         \/ \E r \in GdRelations, u \in GdUnits : ProviderChanged(r, u)
         \/ UNCHANGED gdVars
  PROVE  DashboardsInv'
<1> USE DEF DashboardsInv
<1>1. /\ UNCHANGED <<gdRelated, gdShips, gdStored, gdBag, gdErrors, gdPeer, gdCreated, gdHeard, gdBroken>>
      /\ \A q \in GdRelations :
           /\ LoadedFromDir(q)' = LoadedFromDir(q) /\ Templates(q)' = Templates(q)
           /\ Rendered(q)' = Rendered(q) /\ (Garbled(q)' <=> Garbled(q))
  <2>1. UNCHANGED <<gdRelated, gdShips, gdStored, gdBag, gdErrors, gdPeer, gdCreated, gdHeard, gdBroken>>
    BY DEF ElectProvider, ElectGrafana, GrafanaPeerChanged, ProviderChanged,
           gdVars, gdProviders, gdConsumer, gdQueues
  <2> QED BY <2>1 DEF LoadedFromDir, Templates, Rendered, Garbled
<1>2. GoneIsGone' /\ PeerFollows'
  BY <1>1 DEF GoneIsGone, PeerFollows
<1>3. ASSUME NEW r \in GdRelations, NEW u \in GdUnits, ElectProvider(r, u)
      PROVE  DashboardsInv'
  <2>1. /\ gdLeads' = [gdLeads EXCEPT ![r] = u] /\ gdRefresh' = gdRefresh \cup {<<r, u>>}
        /\ gdUntold' = IF <<r, gdLeads[r]>> \in gdAnswered /\ <<r, u>> \notin gdAnswered
                       THEN gdUntold \cup {r} ELSE gdUntold
        /\ UNCHANGED <<gdMain, gdShown, gdMissed, gdTold, gdPeerHeard, gdAnswered>>
    BY <1>3 DEF ElectProvider, ElectedRefreshes, gdConsumer
  <2>2. /\ gdLeads' \in [GdRelations -> GdUnits] /\ gdLeads'[r] = u
        /\ \A q \in GdRelations : q # r => gdLeads'[q] = gdLeads[q]
    BY <2>1 DEF GdDataOK
  <2>3. GdDataOK' /\ StoredFollows' /\ UnitsFollow' /\ ErrorsFollow'
    BY <1>1, <2>1, <2>2 DEF GdDataOK, StoredFollows, UnitsFollow, ErrorsFollow
  <2>4. BagFollows'
    BY <1>1, <2>1, <2>2 DEF BagFollows, GdDataOK
  <2> QED BY <1>2, <2>3, <2>4
<1>4. ASSUME UNCHANGED <<gdLeads, gdRefresh>>
      PROVE  StoredFollows' /\ BagFollows'
  BY <1>1, <1>4 DEF StoredFollows, BagFollows, GdDataOK
<1>5. ASSUME NEW g \in GdGrafanas, ElectGrafana(g)
      PROVE  DashboardsInv'
  <2>1. /\ gdMain' = g /\ gdMissed' = IF g \in gdPeerHeard THEN gdMissed \cup {g} ELSE gdMissed
        /\ UNCHANGED <<gdShown, gdLeads, gdTold, gdUntold, gdRefresh, gdPeerHeard, gdAnswered>>
    BY <1>5 DEF ElectGrafana, gdProviders, gdQueues
  <2>2. GdDataOK' /\ UnitsFollow' /\ ErrorsFollow'
    BY <1>1, <2>1 DEF GdDataOK, UnitsFollow, ErrorsFollow
  <2> QED BY <1>2, <1>4, <2>1, <2>2
<1>6. ASSUME NEW g \in GdGrafanas, GrafanaPeerChanged(g)
      PROVE  DashboardsInv'
  <2>1. /\ gdPeerHeard' = gdPeerHeard \ {g} /\ PeerChanged(g)
        /\ UNCHANGED <<gdMain, gdLeads, gdTold, gdUntold, gdRefresh, gdAnswered>>
    BY <1>6 DEF GrafanaPeerChanged, gdProviders
  <2>2. CASE g = gdMain
    <3>1. UNCHANGED <<gdShown, gdMissed>>
      BY <2>1, <2>2 DEF PeerChanged
    <3>2. GdDataOK' /\ UnitsFollow' /\ ErrorsFollow'
      BY <1>1, <2>1, <2>2, <3>1 DEF GdDataOK, UnitsFollow, ErrorsFollow
    <3> QED BY <1>2, <1>4, <2>1, <3>2
  <2>3. CASE g # gdMain
    <3>1. /\ gdShown' = [gdShown EXCEPT ![g] = Deduplicated(gdPeer)]
          /\ gdMissed' = gdMissed \ {g}
      BY <2>1, <2>3 DEF PeerChanged
    <3>2. Deduplicated(gdPeer) \subseteq GdRelations \X Board
      BY SelectedIsOfPeer DEF GdDataOK
    <3>3. /\ gdShown' \in [GdGrafanas -> SUBSET (GdRelations \X Board)]
          /\ gdShown'[g] = Deduplicated(gdPeer)
          /\ \A h \in GdGrafanas : h # g => gdShown'[h] = gdShown[h]
      BY <3>1, <3>2 DEF GdDataOK
    <3>4. GdDataOK' /\ UnitsFollow' /\ ErrorsFollow'
      BY <1>1, <2>1, <3>1, <3>3 DEF GdDataOK, UnitsFollow, ErrorsFollow
    <3> QED BY <1>2, <1>4, <2>1, <3>4
  <2> QED BY <2>2, <2>3
<1>7. ASSUME NEW r \in GdRelations, NEW u \in GdUnits, ProviderChanged(r, u)
      PROVE  DashboardsInv'
  <2>1. /\ gdAnswered' = gdAnswered \ {<<r, u>>}
        /\ gdTold' = IF gdLeads[r] = u THEN gdTold \cup ({r} \cap gdErrors) ELSE gdTold
        /\ UNCHANGED <<gdMain, gdShown, gdMissed, gdUntold, gdLeads, gdRefresh, gdPeerHeard>>
    BY <1>7 DEF ProviderChanged, gdConsumer
  <2>2. GdDataOK' /\ UnitsFollow' /\ ErrorsFollow'
    BY <1>1, <2>1 DEF GdDataOK, UnitsFollow, ErrorsFollow
  <2> QED BY <1>2, <1>4, <2>1, <2>2
<1>8. CASE UNCHANGED gdVars
  <2>1. UNCHANGED <<gdMain, gdShown, gdMissed, gdLeads, gdTold, gdUntold, gdRefresh, gdPeerHeard,
                  gdAnswered>>
    BY <1>8 DEF gdVars, gdProviders, gdConsumer, gdQueues
  <2>2. GdDataOK' /\ UnitsFollow' /\ ErrorsFollow'
    BY <1>1, <2>1 DEF GdDataOK, UnitsFollow, ErrorsFollow
  <2> QED BY <1>2, <1>4, <2>1, <2>2
<1> QED BY <1>3, <1>5, <1>6, <1>7, <1>8

LEMMA StepKeepsDashboards == DashboardsInv /\ [GdNext]_gdVars => DashboardsInv'
<1> SUFFICES ASSUME DashboardsInv, [GdNext]_gdVars PROVE DashboardsInv'
  OBVIOUS
<1>1. ASSUME NEW r \in GdRelations, NEW u \in GdUnits, ProviderRefresh(r, u)
      PROVE  DashboardsInv'
  BY <1>1, ProviderKeepsDashboards DEF ProviderRefresh
<1>2. ASSUME NEW r \in GdRelations, NEW u \in GdUnits, ProviderCreated(r, u)
      PROVE  DashboardsInv'
  <2>1. UpdateFromDir(r, u) \/ (gdStored' = gdStored /\ gdLeads[r] # u)
    BY <1>2 DEF ProviderCreated
  <2> QED BY <1>2, <2>1, ProviderKeepsDashboards DEF ProviderCreated
<1>3. ASSUME NEW r \in GdRelations, DashboardsChanged(r) PROVE DashboardsInv'
  BY <1>3, ChangedKeepsDashboards
<1>4. ASSUME NEW r \in GdRelations, DashboardsBroken(r) PROVE DashboardsInv'
  BY <1>4, BrokenKeepsDashboards
<1>5. ASSUME NEW r \in GdRelations, RelateGrafana(r) \/ RemoveGrafana(r) PROVE DashboardsInv'
  BY <1>5, RelationKeepsDashboards
<1>6. ASSUME NEW r \in GdRelations, NEW revision \in GdRevisions, UpgradeProvider(r, revision)
      PROVE  DashboardsInv'
  BY <1>6, UpgradeKeepsDashboards
<1>7. ASSUME \/ \E r \in GdRelations, u \in GdUnits : ElectProvider(r, u)
             \/ \E g \in GdGrafanas : ElectGrafana(g) \/ GrafanaPeerChanged(g)
             \/ \E r \in GdRelations, u \in GdUnits : ProviderChanged(r, u)
             \/ UNCHANGED gdVars
      PROVE  DashboardsInv'
  BY <1>7, LeadersKeepDashboards
<1> QED BY <1>1, <1>2, <1>3, <1>4, <1>5, <1>6, <1>7 DEF GdNext

LEMMA HandledIsWanted ==
  ASSUME DashboardsInv, GdHandled, NEW r \in GdRelations
  PROVE  gdPeer[r] = Wanted(r)
<1> USE DEF DashboardsInv, GdHandled
<1>1. gdPeer[r] = Rendered(r)
  BY DEF PeerFollows
<1>2. CASE r \notin gdRelated
  BY <1>1, <1>2, RenderedAreBoards DEF GoneIsGone, Wanted
<1>3. CASE r \in gdRelated
  <2>1. Templates(r) = LoadedFromDir(r)
    BY <1>3 DEF BagFollows, StoredFollows, GdDataOK
  <2>2. gdShips[r] \in GdRevisions
    BY DEF GdDataOK
  <2>3. \A d \in gdShips[r] : d.state \in {"good", "garbled", "not JSON"}
    BY <2>2, GdAssumption
  <2>4. Garbled(r) <=> \E d \in gdShips[r] : d.state = "garbled"
    BY <2>1 DEF Garbled, LoadedFromDir
  <2>5. ~Garbled(r) => LoadedFromDir(r) = {d \in gdShips[r] : d.state = "good"}
    BY <2>3, <2>4 DEF LoadedFromDir
  <2> QED BY <1>1, <1>3, <2>1, <2>4, <2>5 DEF Rendered, Wanted
<1> QED BY <1>2, <1>3

LEMMA DashboardsInvSuffices == DashboardsInv => DashboardsShown
<1> SUFFICES ASSUME DashboardsInv PROVE ShownCurrent /\ UnreadableTold
  BY DEF DashboardsShown
<1> USE DEF DashboardsInv
<1>1. ASSUME GdHandled, NEW g \in GdGrafanas \ (gdPeerHeard \cup gdMissed)
      PROVE  /\ \A x, y \in gdShown[g] : x[2].uid = y[2].uid => x = y
             /\ \A x \in gdShown[g] : x[2] \in Wanted(x[1])
             /\ \A d \in UNION {Wanted(r) : r \in gdRelated} :
                  \E s \in {x[2] : x \in gdShown[g]} : s.uid = d.uid /\ s.version >= d.version
  <2>1. gdShown[g] = Deduplicated(gdPeer) /\ gdPeer \in [GdRelations -> Boards]
    BY <1>1 DEF UnitsFollow, GdDataOK
  <2>2. \A r \in GdRelations : gdPeer[r] = Wanted(r)
    BY <1>1, HandledIsWanted
  <2>3. \A r \in GdRelations : \A d \in gdPeer[r] : d.state = "good"
    BY <2>2 DEF Wanted
  <2>4. \A x, y \in gdShown[g] : x[2].uid = y[2].uid => x = y
    BY <2>1, <2>3, SelectedIsOne
  <2>5. \A x \in gdShown[g] : x[2] \in Wanted(x[1])
    BY <2>1, <2>2, SelectedIsOfPeer
  <2>6. ASSUME NEW d \in UNION {Wanted(r) : r \in gdRelated}
        PROVE  \E s \in {x[2] : x \in gdShown[g]} : s.uid = d.uid /\ s.version >= d.version
    <3>1. PICK r \in gdRelated : d \in Wanted(r)
      BY <2>6
    <3>2. r \in GdRelations /\ d \in gdPeer[r]
      BY <2>2, <3>1 DEF GdDataOK
    <3>3. PICK x \in Deduplicated(gdPeer) : x[2].uid = d.uid /\ x[2].version >= d.version
      BY <2>1, <3>2, SelectedCovers
    <3> QED BY <2>1, <3>3
  <2> QED BY <2>4, <2>5, <2>6
<1>2. ShownCurrent
  BY <1>1 DEF ShownCurrent
<1>3. UnreadableTold
  <2> SUFFICES ASSUME GdHandled, gdAnswered = {}, NEW r \in gdRelated \ gdUntold,
                      NEW d \in gdShips[r], d.state = "garbled"
               PROVE  r \in gdTold
    BY DEF UnreadableTold
  <2>1. r \in GdRelations /\ gdLeads[r] \in GdUnits
    BY DEF GdDataOK
  <2>2. Templates(r) = LoadedFromDir(r)
    BY <2>1 DEF BagFollows, StoredFollows, GdHandled
  <2>3. Garbled(r)
    BY <2>2 DEF Garbled, LoadedFromDir
  <2> QED BY <2>3 DEF ErrorsFollow, GdHandled
<1> QED BY <1>2, <1>3

\* What is queued, reported and told is of relations there are, but for the events
\* of a relation that is broken.
LEMMA DashboardQueues == GdSpec => []GdQueuesOK
<1> USE DEF GdQueuesOK
<1>0. MaxGdChanges \in Nat
  BY GdAssumption
<1>1. GdInit => GdQueuesOK
  BY <1>0 DEF GdInit
<1>2. GdQueuesOK /\ [GdNext]_gdVars => GdQueuesOK'
  <2> SUFFICES ASSUME GdQueuesOK, [GdNext]_gdVars PROVE GdQueuesOK'
    OBVIOUS
  <2> USE DEF gdProviders, gdConsumer, gdQueues, GdChange
  <2>1. ASSUME NEW r \in GdRelations, NEW u \in GdUnits PROVE
          ProviderRefresh(r, u) \/ ProviderCreated(r, u) => GdQueuesOK'
    BY DEF ProviderRefresh, ProviderCreated, UpsetOnRelation
  <2>2. ASSUME NEW r \in GdRelations, NEW u \in GdUnits, ProviderChanged(r, u)
        PROVE  GdQueuesOK'
    BY <2>2 DEF ProviderChanged
  <2>3. ASSUME NEW r \in GdRelations, NEW u \in GdUnits, ElectProvider(r, u)
        PROVE  GdQueuesOK'
    BY <1>0, <2>3 DEF ElectProvider, ElectedRefreshes
  <2>4. ASSUME NEW r \in GdRelations, RelateGrafana(r) PROVE GdQueuesOK'
    BY <1>0, <2>4 DEF RelateGrafana
  <2>5. ASSUME NEW r \in GdRelations, RemoveGrafana(r) PROVE GdQueuesOK'
    BY <1>0, <2>5 DEF RemoveGrafana
  <2>6. ASSUME NEW r \in GdRelations, NEW revision \in GdRevisions,
               UpgradeProvider(r, revision)
        PROVE  GdQueuesOK'
    BY <1>0, <2>6 DEF UpgradeProvider
  <2>7. ASSUME NEW r \in GdRelations, DashboardsChanged(r) \/ DashboardsBroken(r)
        PROVE  GdQueuesOK'
    <3>1. gdMissed' \subseteq gdMissed /\ gdPeerHeard' \subseteq gdPeerHeard \cup GdGrafanas
      BY <2>7 DEF DashboardsChanged, DashboardsBroken, SetPeerData
    <3>2. CASE DashboardsChanged(r)
      <4>1. /\ gdErrors' \subseteq gdErrors \cup {r}
            /\ gdAnswered' \subseteq gdAnswered \cup ({r} \X GdUnits)
        BY <3>2 DEF DashboardsChanged, ReportErrors
      <4> QED BY <3>1, <3>2, <4>1 DEF DashboardsChanged
    <3>3. CASE DashboardsBroken(r)
      BY <3>1, <3>3 DEF DashboardsBroken
    <3> QED BY <2>7, <3>2, <3>3
  <2>8. ASSUME NEW g \in GdGrafanas, GrafanaPeerChanged(g) \/ ElectGrafana(g)
        PROVE  GdQueuesOK'
    <3>1. CASE GrafanaPeerChanged(g)
      BY <3>1 DEF GrafanaPeerChanged, PeerChanged
    <3>2. CASE ElectGrafana(g)
      BY <1>0, <3>2 DEF ElectGrafana
    <3> QED BY <2>8, <3>1, <3>2
  <2>9. CASE UNCHANGED gdVars
    BY <2>9 DEF gdVars
  <2> QED BY <2>1, <2>2, <2>3, <2>4, <2>5, <2>6, <2>7, <2>8, <2>9 DEF GdNext
<1> QED BY <1>1, <1>2, PTL DEF GdSpec

\* GrafanaDashboardProvider and GrafanaDashboardConsumer: for any number of charms,
\* units and dashboards, once the events are handled every unit of Grafana shows
\* each dashboard that is shipped, one of each uid and its highest version, and no
\* other, unless it was elected before it heard of the last change; and a charm
\* whose dashboards Grafana could not read has been told so, unless it elected a
\* unit that had ignored the news as a follower (grafana_dashboard.py:1335).
THEOREM DashboardsAreShown == GdSpec => []DashboardsShown
<1>1. GdSpec => []DashboardsInv
  BY InitDashboards, StepKeepsDashboards, PTL DEF GdSpec
<1> QED BY <1>1, DashboardsInvSuffices, PTL

\* A unit is elected when it has heard of what its predecessor did.
ElectedInformed == \A g \in GdGrafanas : ElectGrafana(g) => g \notin gdPeerHeard

\* Where the docstring of _on_grafana_peer_changed is right: if a unit is elected
\* only when it has no peer event to come, every unit, a leader of before or of
\* now, shows what is in the peer databag once the events are handled.
THEOREM InformedUnitsUpdate == GdSpec /\ [][ElectedInformed]_gdVars => []SecondariesUpdate
<1>1. GdInit => gdMissed = {}
  BY DEF GdInit
<1>2. gdMissed = {} /\ [GdNext]_gdVars /\ [ElectedInformed]_gdVars => (gdMissed = {})'
  <2> SUFFICES ASSUME gdMissed = {}, [GdNext]_gdVars, [ElectedInformed]_gdVars
               PROVE  gdMissed' = {}
    OBVIOUS
  <2>1. CASE UNCHANGED gdVars
    BY <2>1 DEF gdVars, gdConsumer
  <2>2. ASSUME NEW g \in GdGrafanas, ElectGrafana(g), g \notin gdPeerHeard PROVE gdMissed' = {}
    BY <2>2 DEF ElectGrafana
  <2>3. ASSUME NEW g \in GdGrafanas, GrafanaPeerChanged(g) PROVE gdMissed' = {}
    BY <2>3 DEF GrafanaPeerChanged, PeerChanged
  <2>4. ASSUME NEW r \in GdRelations, DashboardsChanged(r) \/ DashboardsBroken(r)
        PROVE  gdMissed' = {}
    BY <2>4 DEF DashboardsChanged, DashboardsBroken, SetPeerData
  <2>5. ASSUME NEW r \in GdRelations, RelateGrafana(r) \/ RemoveGrafana(r)
        PROVE  gdMissed' = {}
    BY <2>5 DEF RelateGrafana, RemoveGrafana, gdConsumer
  <2>6. ASSUME NEW r \in GdRelations, NEW revision, UpgradeProvider(r, revision)
        PROVE  gdMissed' = {}
    BY <2>6 DEF UpgradeProvider, gdConsumer
  <2>7. ASSUME NEW r \in GdRelations, NEW u \in GdUnits,
               \/ ProviderRefresh(r, u) \/ ProviderCreated(r, u)
               \/ ProviderChanged(r, u) \/ ElectProvider(r, u)
        PROVE  gdMissed' = {}
    BY <2>7 DEF ProviderRefresh, ProviderCreated, ProviderChanged, ElectProvider, gdConsumer
  <2> QED BY <2>1, <2>2, <2>3, <2>4, <2>5, <2>6, <2>7 DEF GdNext, ElectedInformed
<1>3. DashboardsInv /\ gdMissed = {} => SecondariesUpdate
  BY DEF DashboardsInv, UnitsFollow, SecondariesUpdate
<1> QED BY <1>1, <1>2, <1>3, InitDashboards, StepKeepsDashboards, PTL DEF GdSpec

(***************************************************************************)
(* The composition (MCLibraries): a step of a part is a step of its        *)
(* component, and none of the others.                                      *)
(***************************************************************************)

LEMMA BufferStep ==
  ASSUME BufferSteps
  PROVE  /\ BufferNext
         /\ UNCHANGED <<clusterVars, sourcesVars, gdVars, arVars, lfVars, prVars,
                        rwVars, pbVars, mpVars, mlVars, rlVars>>
<1>1. UNCHANGED <<clusterVars, sourcesVars, gdVars, arVars, lfVars, prVars,
                  rwVars, pbVars, mpVars, mlVars, rlVars>>
  BY DEF BufferSteps, Buffering
<1>2. BufferNext
  BY Zenon DEF BufferSteps, BufferNext
<1>3. QED
  BY <1>1, <1>2

LEMMA ClusterStep ==
  ASSUME ClusterSteps
  PROVE  /\ ClusterNext
         /\ UNCHANGED <<bufferVars, sourcesVars, gdVars, arVars, lfVars, prVars,
                        rwVars, pbVars, mpVars, mlVars, rlVars>>
<1>1. UNCHANGED <<bufferVars, sourcesVars, gdVars, arVars, lfVars, prVars,
                  rwVars, pbVars, mpVars, mlVars, rlVars>>
  BY DEF ClusterSteps, Clustering
<1>2. ClusterNext
  BY Zenon DEF ClusterSteps, ClusterNext
<1>3. QED
  BY <1>1, <1>2

LEMMA SourceStep ==
  ASSUME SourceSteps
  PROVE  /\ SourcesNext
         /\ UNCHANGED <<bufferVars, clusterVars, gdVars, arVars, lfVars, prVars,
                        rwVars, pbVars, mpVars, mlVars, rlVars>>
<1>1. UNCHANGED <<bufferVars, clusterVars, gdVars, arVars, lfVars, prVars,
                  rwVars, pbVars, mpVars, mlVars, rlVars>>
  BY DEF SourceSteps, Sourcing
<1>2. SourcesNext
  BY Zenon DEF SourceSteps, SourcesNext
<1>3. QED
  BY <1>1, <1>2

LEMMA DashboardStep ==
  ASSUME DashboardSteps
  PROVE  /\ GdNext
         /\ UNCHANGED <<bufferVars, clusterVars, sourcesVars, arVars, lfVars, prVars,
                        rwVars, pbVars, mpVars, mlVars, rlVars>>
<1>1. UNCHANGED <<bufferVars, clusterVars, sourcesVars, arVars, lfVars, prVars,
                  rwVars, pbVars, mpVars, mlVars, rlVars>>
  BY DEF DashboardSteps, Showing
<1>2. GdNext
  BY Zenon DEF DashboardSteps, GdNext
<1>3. QED
  BY <1>1, <1>2

LEMMA RuleStep ==
  ASSUME RuleSteps
  PROVE  /\ ArNext
         /\ UNCHANGED <<bufferVars, clusterVars, sourcesVars, gdVars, lfVars, prVars,
                        rwVars, pbVars, mpVars, mlVars, rlVars>>
<1>1. UNCHANGED <<bufferVars, clusterVars, sourcesVars, gdVars, lfVars, prVars,
                  rwVars, pbVars, mpVars, mlVars, rlVars>>
  BY DEF RuleSteps, Ruling
<1>2. ArNext
  BY Zenon DEF RuleSteps, ArNext
<1>3. QED
  BY <1>1, <1>2

LEMMA ForwardsStep ==
  ASSUME ForwardingSteps
  PROVE  /\ LfNext
         /\ UNCHANGED <<bufferVars, clusterVars, sourcesVars, gdVars, arVars, prVars,
                        rwVars, pbVars, mpVars, mlVars, rlVars>>
<1>1. UNCHANGED <<bufferVars, clusterVars, sourcesVars, gdVars, arVars, prVars,
                  rwVars, pbVars, mpVars, mlVars, rlVars>>
  BY DEF ForwardingSteps, Forwarding
<1>2. LfNext
  BY Zenon DEF ForwardingSteps, LfNext
<1>3. QED
  BY <1>1, <1>2

LEMMA PromtailStep ==
  ASSUME PromtailSteps
  PROVE  /\ PrNext
         /\ UNCHANGED <<bufferVars, clusterVars, sourcesVars, gdVars, arVars, lfVars,
                        rwVars, pbVars, mpVars, mlVars, rlVars>>
<1>1. UNCHANGED <<bufferVars, clusterVars, sourcesVars, gdVars, arVars, lfVars,
                  rwVars, pbVars, mpVars, mlVars, rlVars>>
  BY DEF PromtailSteps, Collecting
<1>2. PrNext
  BY Zenon DEF PromtailSteps, PrNext
<1>3. QED
  BY <1>1, <1>2

LEMMA RemoteWriteStep ==
  ASSUME RemoteWriteSteps
  PROVE  /\ RwNext
         /\ UNCHANGED <<bufferVars, clusterVars, sourcesVars, gdVars, arVars, lfVars,
                        prVars, pbVars, mpVars, mlVars, rlVars>>
<1>1. UNCHANGED <<bufferVars, clusterVars, sourcesVars, gdVars, arVars, lfVars,
                  prVars, pbVars, mpVars, mlVars, rlVars>>
  BY Zenon DEF RemoteWriteSteps, Writing
<1>2. RwNext
  BY Zenon DEF RemoteWriteSteps, RwNext
<1>3. QED
  BY <1>1, <1>2

LEMMA ProbeStep ==
  ASSUME ProbeSteps
  PROVE  /\ PbNext
         /\ UNCHANGED <<bufferVars, clusterVars, sourcesVars, gdVars, arVars, lfVars,
                        prVars, rwVars, mpVars, mlVars, rlVars>>
<1>1. UNCHANGED <<bufferVars, clusterVars, sourcesVars, gdVars, arVars, lfVars,
                  prVars, rwVars, mpVars, mlVars, rlVars>>
  BY DEF ProbeSteps, Probing
<1>2. PbNext
  BY Zenon DEF ProbeSteps, PbNext
<1>3. QED
  BY <1>1, <1>2

LEMMA PolicyStep ==
  ASSUME PolicySteps
  PROVE  /\ MpNext
         /\ UNCHANGED <<bufferVars, clusterVars, sourcesVars, gdVars, arVars, lfVars,
                        prVars, rwVars, pbVars, mlVars, rlVars>>
<1>1. UNCHANGED <<bufferVars, clusterVars, sourcesVars, gdVars, arVars, lfVars,
                  prVars, rwVars, pbVars, mlVars, rlVars>>
  BY DEF PolicySteps, Policing
<1>2. MpNext
  BY Zenon DEF PolicySteps, MpNext
<1>3. QED
  BY <1>1, <1>2

LEMMA LabelStep ==
  ASSUME LabelSteps
  PROVE  /\ MlNext
         /\ UNCHANGED <<bufferVars, clusterVars, sourcesVars, gdVars, arVars, lfVars,
                        prVars, rwVars, pbVars, mpVars, rlVars>>
<1>1. UNCHANGED <<bufferVars, clusterVars, sourcesVars, gdVars, arVars, lfVars,
                  prVars, rwVars, pbVars, mpVars, rlVars>>
  BY DEF LabelSteps, Labelling
<1>2. MlNext
  BY Zenon DEF LabelSteps, MlNext
<1>3. QED
  BY <1>1, <1>2

LEMMA LimitStep ==
  ASSUME LimitSteps
  PROVE  /\ RlNext
         /\ UNCHANGED <<bufferVars, clusterVars, sourcesVars, gdVars, arVars, lfVars,
                        prVars, rwVars, pbVars, mpVars, mlVars>>
<1>1. UNCHANGED <<bufferVars, clusterVars, sourcesVars, gdVars, arVars, lfVars,
                  prVars, rwVars, pbVars, mpVars, mlVars>>
  BY DEF LimitSteps, Limiting
<1>2. RlNext
  BY Zenon DEF LimitSteps, RlNext
<1>3. QED
  BY <1>1, <1>2

LEMMA LibrariesStep ==
  ASSUME [LibrariesNext]_<<librariesVars, part>>
  PROVE  /\ [BufferNext]_bufferVars /\ [ClusterNext]_clusterVars /\ [SourcesNext]_sourcesVars
         /\ [GdNext]_gdVars /\ [ArNext]_arVars /\ [LfNext]_lfVars
         /\ [PrNext]_prVars /\ [RwNext]_rwVars /\ [PbNext]_pbVars
         /\ [MpNext]_mpVars /\ [MlNext]_mlVars /\ [RlNext]_rlVars
<1>1. CASE LibrariesNext
  BY <1>1, BufferStep, ClusterStep, SourceStep, DashboardStep, RuleStep,
     ForwardsStep, PromtailStep, RemoteWriteStep, ProbeStep, PolicyStep,
     LabelStep, LimitStep
     DEF LibrariesNext
<1>2. CASE UNCHANGED <<librariesVars, part>>
  BY <1>2 DEF librariesVars
<1>3. QED
  BY <1>1, <1>2

\* A behaviour of the twelve parts together, as the run explores them, is one of
\* each of them: the composition adds no step to any.
THEOREM LibrariesCompose ==
  LibrariesSpec =>
    /\ BufferSpec /\ DeployedSpec /\ SourcesSpec /\ GdSpec /\ ArSpec /\ LfSpec
    /\ PrSpec /\ RwSpec /\ PbSpec /\ MpSpec /\ MlSpec /\ RlSpec
<1>1. LibrariesInit =>
        /\ BufferInit /\ DeployedInit /\ SourcesInit /\ GdInit /\ ArInit /\ LfInit
        /\ PrInit /\ RwInit /\ PbInit /\ MpInit /\ MlInit /\ RlInit
  BY Zenon DEF LibrariesInit
<1>2. [LibrariesNext]_<<librariesVars, part>> =>
        /\ [BufferNext]_bufferVars /\ [ClusterNext]_clusterVars /\ [SourcesNext]_sourcesVars
        /\ [GdNext]_gdVars /\ [ArNext]_arVars /\ [LfNext]_lfVars
        /\ [PrNext]_prVars /\ [RwNext]_rwVars /\ [PbNext]_pbVars
        /\ [MpNext]_mpVars /\ [MlNext]_mlVars /\ [RlNext]_rlVars
  BY LibrariesStep
<1>3. QED
  BY <1>1, <1>2, PTL
     DEF LibrariesSpec, BufferSpec, DeployedSpec, SourcesSpec, GdSpec, ArSpec, LfSpec,
         PrSpec, RwSpec, PbSpec, MpSpec, MlSpec, RlSpec

\* The deployments the changes of the cluster start from have what its invariant
\* says: nothing is laid out yet, and all queriers and frontends are alike.
LEMMA DeployedCluster == DeployedInit => ClusterInv
<1> SUFFICES ASSUME DeployedInit PROVE ClusterInv
  OBVIOUS
<1> USE DEF DeployedInit
<1>1. role \in [Apps -> Roles]
  <2>1. Monolithic \in [Apps -> Roles]
    BY DEF Monolithic, Roles
  <2>2. Distributed \in [Apps -> Roles]
    <3> SUFFICES ASSUME NEW a \in Apps PROVE Distributed[a] \in Roles
      BY DEF Distributed
    <3>1. Distributed[a] \in {"querier", "ingester", "query-frontend", "distributor",
                              "compactor"}
      BY DEF Distributed
    <3> QED BY <3>1 DEF Roles, Components
  <2> QED BY <2>1, <2>2
<1>2. scale \in [Apps -> 0..MaxUnits]
  BY ClusterAssumption, DeployedAssumption
<1>3. config \in [frontend : Apps \cup {Localhost}, replication : {1, 3}]
  OBVIOUS
<1>4. ClusterTypeOK
  BY <1>1, <1>2, <1>3, ClusterAssumption DEF ClusterTypeOK
<1>5. LaidOutIsCurrent
  BY DEF LaidOutIsCurrent, LaidOut
<1>6. MixedOrUniform
  <2>1. CASE role = Monolithic
    BY <2>1 DEF MixedOrUniform, Uniform, Monolithic
  <2>2. CASE role = Distributed
    <3>1. \A a \in Apps : HasFrontend(a) => a = 3
      <4> SUFFICES ASSUME NEW a \in Apps, a # 3 PROVE "query-frontend" \notin Expand(role[a])
        BY DEF HasFrontend
      <4>1. role[a] \in {"querier", "ingester", "distributor", "compactor"}
        BY <2>2, ClusterAssumption DEF Distributed
      <4> QED BY <4>1 DEF Expand
    <3> QED BY <3>1 DEF MixedOrUniform, Uniform
  <2> QED BY <2>1, <2>2
<1> QED BY <1>4, <1>5, <1>6 DEF ClusterInv

\* The variables of each of the twelve parts keep their types.
THEOREM LibrariesTypes == LibrariesSpec => []LibrariesTypeOK
<1>1. LibrariesSpec => []BufferTypeOK
  <2>1. BufferInv => BufferTypeOK
    BY DEF BufferInv
  <2> QED BY <2>1, LibrariesCompose, InitBuffer, NextBuffer, PTL DEF BufferSpec
<1>2. LibrariesSpec => []ClusterTypeOK
  <2>1. ClusterInv => ClusterTypeOK
    BY DEF ClusterInv
  <2> QED BY <2>1, LibrariesCompose, DeployedCluster, NextCluster, PTL DEF DeployedSpec
<1>3. LibrariesSpec => []MpTypeOK
  <2>1. PoliciesInv => MpTypeOK
    BY DEF PoliciesInv
  <2> QED BY <2>1, LibrariesCompose, PoliciesInvariant, PTL
<1>4. LibrariesSpec => []GdTypeOK
  <2>1. DashboardsInv => GdDataOK
    BY DEF DashboardsInv
  <2>2. LibrariesSpec => []GdDataOK
    BY <2>1, LibrariesCompose, InitDashboards, StepKeepsDashboards, PTL DEF GdSpec
  <2> QED BY <2>2, LibrariesCompose, DashboardQueues, PTL DEF GdTypeOK
<1>5. LibrariesSpec => []SourcesTypeOK /\ []LfTypeOK /\ []PbTypeOK /\ []MlTypeOK /\ []RlTypeOK
  BY LibrariesCompose, SourcesTypes, ForwardingTypes, ProbesTypes, LabelTypes, LimitTypes, PTL
<1>6. LibrariesSpec => []ArTypeOK /\ []PrTypeOK /\ []RwTypeOK
  BY LibrariesCompose, RulesQueues, PromtailTypes, WriteQueues, PTL
<1> QED BY <1>1, <1>2, <1>3, <1>4, <1>5, <1>6, PTL DEF LibrariesTypeOK
===============================================================================
