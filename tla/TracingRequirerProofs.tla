------------------------- MODULE TracingRequirerProofs -------------------------
(***************************************************************************)
(* Proofs about TracingRequirer, for any number of provider units,         *)
(* requirers and units of theirs, any protocols and any number of changes. *)
(***************************************************************************)
EXTENDS TracingRequirer, TLAPS

-------------------------------------------------------------------------------
(* The invariant *)

\* An answer under way, and an answer given, lists the protocol of charm
\* tracing, whoever asked for what.
LooksServeTracing ==
  /\ always \subseteq Protocols /\ looks \in [Units -> Look]
  /\ \A u \in Units : looks[u] # NoLook => OtlpHttp \in looks[u].demand
OffersServeTracing ==
  \A r \in Relations : offered[r] # {} => OtlpHttp \in offered[r]

RequirerInv ==
  /\ RequirerTypeOK
  /\ LooksServeTracing /\ OffersServeTracing
  /\ NoHookRaises
  /\ ListedIsOffered /\ TracesGoThere

USE RequirerAssumption

\* What a unit is to do with its traces, in one word.
Serves(r) ==
  CASE ~secure[r] -> "http"
    [] secure[r] /\ (certified[r] \/ r \in Coordinators) -> "https"
    [] OTHER -> "off"

-------------------------------------------------------------------------------
(* What a unit finds when its hook looks *)

LEMMA FindsEndpoint ==
  ASSUME RequirerInv, NEW r \in Relations, NEW u \in RequirerUnits
  PROVE  /\ Destination(r, u) \in Destinations
         /\ Destination(r, u) # "raised"
         /\ EndpointEvent(r, u) = offered[r]
         /\ offered[r] # {} => Destination(r, u) = Serves(r)
<1>1. IsReady(r) <=> offered[r] # {}
  BY DEF IsReady, RequirerInv, RequirerTypeOK
<1>2. IsReady(r) => GetEndpoint(r, u) = "found"
  BY <1>1 DEF GetEndpoint, RequirerInv, OffersServeTracing
<1>3. secure[r] \in BOOLEAN /\ certified[r] \in BOOLEAN
  BY DEF RequirerInv, RequirerTypeOK
<1>4. CASE IsReady(r)
  <2>1. EndpointEvent(r, u) = offered[r]
    BY <1>4 DEF EndpointEvent
  <2>2. CASE r \in Coordinators
    <3>1. Destination(r, u) = IF secure[r] THEN "https" ELSE "http"
      BY <1>2, <1>4, <2>2 DEF Destination, SetupCharmTracing
    <3>2. QED
      BY <1>3, <2>1, <2>2, <3>1 DEF Destinations, Serves
  <2>3. CASE r \notin Coordinators
    <3>1. Destination(r, u) = IF secure[r] THEN IF certified[r] THEN "https" ELSE "off"
                                           ELSE "http"
      BY <1>2, <1>4, <2>3 DEF Destination, CharmTracingConfig
    <3>2. QED
      BY <1>3, <2>1, <2>3, <3>1 DEF Destinations, Serves
  <2>4. QED
    BY <2>2, <2>3
<1>5. CASE ~IsReady(r)
  BY <1>1, <1>5 DEF Destination, SetupCharmTracing, CharmTracingConfig,
                    EndpointEvent, Destinations
<1>6. QED
  BY <1>4, <1>5

\* TracesGoThere, in that word.
LEMMA ServesTracing ==
  TracesGoThere <=>
    \A r \in Relations : \A u \in RequirerUnits \ events[r] :
      offered[r] # {} => traces[r][u] = Serves(r)
BY DEF TracesGoThere, Serves

LEMMA ServesTracingNext ==
  TracesGoThere' <=>
    \A r \in Relations : \A u \in RequirerUnits \ events'[r] :
      offered'[r] # {} => traces'[r][u] = Serves(r)'
BY DEF TracesGoThere, Serves

-------------------------------------------------------------------------------
(* Every step preserves it *)

\* Whoever changes what a requirer is told leaves it an event: the rest of it,
\* with what its units last did, holds.
LEMMA ToldKeeps ==
  ASSUME RequirerInv, RequirerTypeOK', TellRequirers, Unchanged
  PROVE  NoHookRaises' /\ ListedIsOffered' /\ TracesGoThere'
<1> USE DEF RequirerInv, Unchanged
<1>1. \A r \in Relations :
        \/ events'[r] = RequirerUnits
        \/ events'[r] = events[r] /\ offered'[r] = offered[r] /\ secure'[r] = secure[r]
  BY DEF TellRequirers
<1>2. NoHookRaises'
  BY DEF NoHookRaises
<1>3. ListedIsOffered'
  BY <1>1 DEF ListedIsOffered
<1>4. \A r \in Relations : secure'[r] = secure[r] => Serves(r)' = Serves(r)
  BY DEF Serves
<1>5. TracesGoThere'
  BY <1>1, <1>4, ServesTracing, ServesTracingNext
<1>6. QED
  BY <1>2, <1>3, <1>5

LEMMA ToldTypes ==
  ASSUME RequirerInv, TellRequirers, Unchanged,
         asked' \in [Relations -> Ask], offered' \in [Relations -> SUBSET Protocols],
         \A r \in Relations : asked'[r].live \/ offered'[r] = {},
         secure' \in [Relations -> BOOLEAN]
  PROVE  RequirerTypeOK'
BY DEF RequirerInv, RequirerTypeOK, TellRequirers, Unchanged

\* A requirer that comes, asks or goes.
LEMMA AskingKeeps ==
  ASSUME RequirerInv, NEW r \in Relations, NEW ask \in Ask, AskFor(r, ask)
  PROVE  /\ asked' \in [Relations -> Ask] /\ offered' \in [Relations -> SUBSET Protocols]
         /\ \A q \in Relations : asked'[q].live \/ offered'[q] = {}
         /\ LooksServeTracing' /\ OffersServeTracing'
<1> USE DEF RequirerInv, RequirerTypeOK, AskFor, Ask
<1>1. asked' \in [Relations -> Ask] /\ offered' \in [Relations -> SUBSET Protocols]
  OBVIOUS
<1>2. \A q \in Relations : asked'[q].live \/ offered'[q] = {}
  OBVIOUS
<1>3. LooksServeTracing'
  BY DEF LooksServeTracing
<1>4. OffersServeTracing'
  BY DEF OffersServeTracing
<1>5. QED
  BY <1>1, <1>2, <1>3, <1>4

LEMMA RequirerRelation ==
  ASSUME RequirerInv, NEW r \in Relations, RelateRequirer(r) \/ RemoveRequirer(r)
  PROVE  RequirerInv'
<1>1. PICK ask \in Ask : AskFor(r, ask)
  BY DEF RelateRequirer, RemoveRequirer, Ask, NotAsked
<1>2. secure' = secure /\ TellRequirers /\ Unchanged
  BY DEF RelateRequirer, RemoveRequirer
<1>3. RequirerTypeOK'
  BY <1>1, <1>2, AskingKeeps, ToldTypes DEF RequirerInv, RequirerTypeOK
<1>4. QED
  BY <1>1, <1>2, <1>3, AskingKeeps, ToldKeeps DEF RequirerInv

LEMMA RequirerHooks ==
  ASSUME RequirerInv, NEW r \in Relations, NEW u \in RequirerUnits, RequirerHook(r, u)
  PROVE  RequirerInv'
<1>1. /\ events' = [events EXCEPT ![r] = @ \ {u}]
      /\ listed' = [listed EXCEPT ![r][u] = EndpointEvent(r, u)]
      /\ traces' = [traces EXCEPT ![r][u] = Destination(r, u)]
      /\ UNCHANGED <<chief, secure, certified>>
  BY DEF RequirerHook
<1>2. /\ asked' \in [Relations -> Ask] /\ offered' = offered
      /\ \A q \in Relations : asked'[q].live \/ offered'[q] = {}
      /\ LooksServeTracing' /\ OffersServeTracing'
  <2>1. CASE AsksNow(r, u) /\ asked[r].protocols # Wanted[r]
    <3>1. [live |-> TRUE, protocols |-> Wanted[r]] \in Ask
      BY DEF Ask
    <3>2. AskFor(r, [live |-> TRUE, protocols |-> Wanted[r]])
      BY <2>1 DEF RequirerHook
    <3>3. QED
      BY <3>1, <3>2, AskingKeeps DEF AskFor
  <2>2. CASE UNCHANGED directoryVars
    BY <2>2 DEF directoryVars, RequirerInv, RequirerTypeOK, LooksServeTracing,
                OffersServeTracing
  <2>3. QED
    BY <2>1, <2>2 DEF RequirerHook
<1>3. /\ Destination(r, u) \in Destinations \ {"raised"}
      /\ EndpointEvent(r, u) = offered[r]
      /\ offered[r] # {} => Destination(r, u) = Serves(r)
  BY FindsEndpoint
<1>4. RequirerTypeOK'
  BY <1>1, <1>2, <1>3 DEF RequirerInv, RequirerTypeOK
<1>5. NoHookRaises'
  BY <1>1, <1>3 DEF RequirerInv, RequirerTypeOK, NoHookRaises
<1>6. ListedIsOffered'
  BY <1>1, <1>2, <1>3 DEF RequirerInv, RequirerTypeOK, ListedIsOffered
<1>7. TracesGoThere'
  <2>1. \A q \in Relations : Serves(q)' = Serves(q)
    BY <1>1 DEF Serves
  <2>2. QED
    BY <1>1, <1>2, <1>3, <2>1, ServesTracing, ServesTracingNext
    DEF RequirerInv, RequirerTypeOK
<1>8. QED
  BY <1>2, <1>4, <1>5, <1>6, <1>7 DEF RequirerInv

\* A new leader, or a certificate come or gone.
LEMMA RequirerOwnChanges ==
  ASSUME RequirerInv, NEW r \in Relations,
         \/ \E u \in RequirerUnits : SwitchChief(r, u)
         \/ \E has \in BOOLEAN : Certify(r, has)
  PROVE  RequirerInv'
<1>1. UNCHANGED <<secure, listed, traces, asked, offered, always, looks>>
  BY DEF SwitchChief, Certify, directoryVars
<1>2. LooksServeTracing' /\ OffersServeTracing' /\ NoHookRaises'
  BY <1>1 DEF RequirerInv, LooksServeTracing, OffersServeTracing, NoHookRaises
<1>3. /\ chief' \in [Relations -> RequirerUnits]
      /\ certified' \in [Relations -> BOOLEAN]
      /\ events' \in [Relations -> SUBSET RequirerUnits]
      /\ \A q \in Relations : events[q] \subseteq events'[q]
      /\ \A q \in Relations : events'[q] = RequirerUnits \/ certified'[q] = certified[q]
  <2>1. CASE \E u \in RequirerUnits : SwitchChief(r, u)
    BY <2>1 DEF SwitchChief, RequirerInv, RequirerTypeOK
  <2>2. CASE \E has \in BOOLEAN : Certify(r, has)
    BY <2>2 DEF Certify, RequirerInv, RequirerTypeOK
  <2>3. QED
    BY <2>1, <2>2
<1>4. RequirerTypeOK'
  BY <1>1, <1>3 DEF RequirerInv, RequirerTypeOK
<1>5. ListedIsOffered'
  BY <1>1, <1>3 DEF RequirerInv, ListedIsOffered
<1>6. \A q \in Relations : certified'[q] = certified[q] => Serves(q)' = Serves(q)
  BY <1>1 DEF Serves
<1>7. TracesGoThere'
  BY <1>1, <1>3, <1>6, ServesTracing, ServesTracingNext DEF RequirerInv
<1>8. QED
  BY <1>2, <1>4, <1>5, <1>7 DEF RequirerInv

LEMMA ProviderSteps ==
  ASSUME RequirerInv,
         \/ \E ps \in SUBSET Protocols : ProviderConfigures(ps)
         \/ \E u \in Units : ProviderLooks(u) \/ ProviderDrops(u)
  PROVE  RequirerInv'
<1>1. CASE \E ps \in SUBSET Protocols : ProviderConfigures(ps)
  <2>1. UNCHANGED <<asked, looks, offered, secure>> /\ always' \subseteq Protocols
    BY <1>1 DEF ProviderConfigures, Configure
  <2>2. TellRequirers /\ Unchanged
    BY <1>1 DEF ProviderConfigures
  <2>3. RequirerTypeOK'
    BY <2>1, <2>2, ToldTypes DEF RequirerInv, RequirerTypeOK
  <2>4. LooksServeTracing' /\ OffersServeTracing'
    BY <2>1 DEF RequirerInv, LooksServeTracing, OffersServeTracing
  <2>5. QED
    BY <2>2, <2>3, <2>4, ToldKeeps DEF RequirerInv
<1>2. CASE \E u \in Units : ProviderLooks(u) \/ ProviderDrops(u)
  <2>1. PICK u \in Units : LookUp(u) \/ Drop(u)
    BY <1>2 DEF ProviderLooks, ProviderDrops
  <2>2. UNCHANGED <<requirerVars, asked, always, offered>>
    BY <1>2 DEF ProviderLooks, ProviderDrops, LookUp, Drop
  <2>3. DirectoryDemand \subseteq Protocols /\ OtlpHttp \in DirectoryDemand
    BY DEF DirectoryDemand, RequirerInv, RequirerTypeOK, LooksServeTracing, Ask
  <2>4. [relations |-> LiveRelations, demand |-> DirectoryDemand] \in Look
    BY <2>3 DEF Look, LiveRelations
  <2>5. NoLook \in Look
    BY DEF NoLook, Look
  <2>6. LooksServeTracing'
    BY <2>1, <2>2, <2>3, <2>4, <2>5
    DEF RequirerInv, LooksServeTracing, LookUp, Drop
  <2>7. RequirerTypeOK' /\ OffersServeTracing' /\ NoHookRaises'
        /\ ListedIsOffered' /\ TracesGoThere'
    BY <2>2 DEF requirerVars, RequirerInv, RequirerTypeOK, OffersServeTracing,
                NoHookRaises, ListedIsOffered, TracesGoThere
  <2>8. QED
    BY <2>6, <2>7 DEF RequirerInv
<1>3. QED
  BY <1>1, <1>2

LEMMA ProviderAnswer ==
  ASSUME RequirerInv, NEW u \in Units, ProviderAnswers(u)
  PROVE  RequirerInv'
<1>1. looks[u] # NoLook /\ Answer(u) /\ TellRequirers /\ Unchanged
  BY DEF ProviderAnswers
<1>2. looks[u] \in Look /\ OtlpHttp \in looks[u].demand
  BY <1>1 DEF RequirerInv, LooksServeTracing
<1>3. secure' \in [Relations -> BOOLEAN]
  BY DEF ProviderAnswers, RequirerInv, RequirerTypeOK
<1>4. offered' \in [Relations -> SUBSET Protocols] /\ UNCHANGED <<asked, always>>
  BY <1>1, <1>2 DEF Answer, Look, RequirerInv, RequirerTypeOK
<1>5. \A r \in Relations : asked'[r].live \/ offered'[r] = {}
  BY <1>1 DEF Answer, Answered, LiveRelations, RequirerInv, RequirerTypeOK
<1>6. RequirerTypeOK'
  BY <1>1, <1>3, <1>4, <1>5, ToldTypes DEF RequirerInv, RequirerTypeOK
<1>7. OffersServeTracing'
  BY <1>1, <1>2 DEF Answer, RequirerInv, OffersServeTracing
<1>8. NoLook \in Look
  BY DEF NoLook, Look
<1>9. LooksServeTracing'
  BY <1>1, <1>8 DEF Answer, RequirerInv, LooksServeTracing
<1>10. QED
  BY <1>1, <1>6, <1>7, <1>9, ToldKeeps DEF RequirerInv

-------------------------------------------------------------------------------
(* The theorems *)

LEMMA InitRequirerInv == RequirerInit => RequirerInv
<1> SUFFICES ASSUME RequirerInit PROVE RequirerInv
  OBVIOUS
<1> USE DEF RequirerInit, DirectoryInit
<1>1. NotAsked \in Ask /\ NoLook \in Look
  BY DEF NotAsked, Ask, NoLook, Look
<1>2. RequirerTypeOK
  BY <1>1 DEF RequirerTypeOK, Destinations
<1>3. LooksServeTracing /\ OffersServeTracing /\ NoHookRaises
  BY <1>1 DEF LooksServeTracing, OffersServeTracing, NoHookRaises
<1>4. ListedIsOffered /\ TracesGoThere
  BY DEF ListedIsOffered, TracesGoThere
<1>5. QED
  BY <1>2, <1>3, <1>4 DEF RequirerInv

LEMMA NextRequirerInv == RequirerInv /\ [RequirerNext]_allRequirerVars => RequirerInv'
<1> SUFFICES ASSUME RequirerInv, [RequirerNext]_allRequirerVars PROVE RequirerInv'
  OBVIOUS
<1>1. CASE UNCHANGED allRequirerVars
  BY <1>1 DEF allRequirerVars, requirerVars, directoryVars, RequirerInv, RequirerTypeOK,
              LooksServeTracing, OffersServeTracing, NoHookRaises, ListedIsOffered,
              TracesGoThere
<1>2. ASSUME NEW r \in Relations, RelateRequirer(r) \/ RemoveRequirer(r)
      PROVE  RequirerInv'
  BY <1>2, RequirerRelation
<1>3. ASSUME NEW r \in Relations,
             \/ \E u \in RequirerUnits : SwitchChief(r, u)
             \/ \E has \in BOOLEAN : Certify(r, has)
      PROVE  RequirerInv'
  BY <1>3, RequirerOwnChanges
<1>4. ASSUME NEW r \in Relations, NEW u \in events[r], RequirerHook(r, u)
      PROVE  RequirerInv'
  <2>1. u \in RequirerUnits
    BY DEF RequirerInv, RequirerTypeOK
  <2>2. QED
    BY <1>4, <2>1, RequirerHooks
<1>5. ASSUME \/ \E ps \in SUBSET Protocols : ProviderConfigures(ps)
             \/ \E u \in Units : ProviderLooks(u) \/ ProviderDrops(u)
      PROVE  RequirerInv'
  BY <1>5, ProviderSteps
<1>6. ASSUME NEW u \in Units, ProviderAnswers(u)
      PROVE  RequirerInv'
  BY <1>6, ProviderAnswer
<1>7. QED
  BY <1>1, <1>2, <1>3, <1>4, <1>5, <1>6 DEF RequirerNext

LEMMA RequirerInvariant == RequirerSpec => []RequirerInv
BY InitRequirerInv, NextRequirerInv, PTL DEF RequirerSpec

\* The types of the requirers' state, and that a relation that is gone has left
\* no receivers behind (tracing.py).
THEOREM RequirerTypes == RequirerSpec => []RequirerTypeOK
<1>1. RequirerInv => RequirerTypeOK
  BY DEF RequirerInv
<1>2. QED
  BY <1>1, RequirerInvariant, PTL

\* get_endpoint raises in no hook of any unit, though followers may not read
\* what their application asked for (tracing.py, _setup_charm_tracing in
\* charm.py): what Tempo publishes always lists otlp_http.
THEOREM HooksDoNotRaise == RequirerSpec => []NoHookRaises
<1>1. RequirerInv => NoHookRaises
  BY DEF RequirerInv
<1>2. QED
  BY <1>1, RequirerInvariant, PTL

\* A unit without events to handle knows the receivers its Tempo offers, and
\* sends its own traces where charm_tracing_config or _setup_charm_tracing say.
THEOREM TracesAreExported == RequirerSpec => []ExportsWhereOffered
<1>1. RequirerInv => ExportsWhereOffered
  BY DEF RequirerInv, ExportsWhereOffered
<1>2. QED
  BY <1>1, RequirerInvariant, PTL

-------------------------------------------------------------------------------
(***************************************************************************)
(* The other half of the composition: what the requirers and the provider  *)
(* do to each other are steps of the directory.                            *)
(***************************************************************************)

LEMMA NextUsesDirectory == RequirerNext => [DirectoryNext]_directoryVars
<1> SUFFICES ASSUME RequirerNext PROVE DirectoryNext \/ UNCHANGED directoryVars
  OBVIOUS
<1>1. ASSUME NEW r \in Relations, NEW ask \in Ask, AskFor(r, ask) PROVE DirectoryNext
  BY <1>1 DEF DirectoryNext
<1>2. ASSUME NEW r \in Relations, RelateRequirer(r) \/ RemoveRequirer(r) PROVE DirectoryNext
  <2>1. NotAsked \in Ask /\ [live |-> TRUE, protocols |-> {}] \in Ask
    BY DEF NotAsked, Ask
  <2> QED BY <1>1, <1>2, <2>1 DEF RelateRequirer, RemoveRequirer
<1>3. ASSUME NEW r \in Relations, NEW u, RequirerHook(r, u)
      PROVE  DirectoryNext \/ UNCHANGED directoryVars
  <2>1. [live |-> TRUE, protocols |-> Wanted[r]] \in Ask
    BY RequirerAssumption DEF Ask
  <2> QED BY <1>1, <1>3, <2>1 DEF RequirerHook
<1>4. ASSUME NEW r \in Relations, NEW u, SwitchChief(r, u) \/ Certify(r, u)
      PROVE  UNCHANGED directoryVars
  BY <1>4 DEF SwitchChief, Certify
<1>5. ASSUME NEW ps \in SUBSET Protocols, ProviderConfigures(ps) PROVE DirectoryNext
  BY <1>5 DEF ProviderConfigures, DirectoryNext
<1>6. ASSUME NEW u \in Units, ProviderLooks(u) \/ ProviderAnswers(u) \/ ProviderDrops(u)
      PROVE  DirectoryNext
  BY <1>6 DEF ProviderLooks, ProviderAnswers, ProviderDrops, DirectoryNext
<1> QED BY <1>2, <1>3, <1>4, <1>5, <1>6 DEF RequirerNext

\* Whatever the requirers do, leaders asking on every dispatch and relations that
\* come and go, the provider they talk to is a directory throughout: they ask of
\* it nothing that a coordinator, which implements one, is not ready for.
THEOREM RequirersUseADirectory == RequirerSpec => DirectorySpec
<1>1. RequirerInit => DirectoryInit
  BY DEF RequirerInit
<1>2. [RequirerNext]_allRequirerVars => [DirectoryNext]_directoryVars
  BY NextUsesDirectory DEF allRequirerVars
<1> QED BY <1>1, <1>2, PTL DEF RequirerSpec, DirectorySpec
===============================================================================
