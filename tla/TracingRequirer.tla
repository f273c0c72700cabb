---------------------------- MODULE TracingRequirer ----------------------------
(***************************************************************************)
(* Requirers of the tracing relation (TracingEndpointRequirer and          *)
(* charm_tracing_config, tracing.py) against a provider that is a          *)
(* ReceiverDirectory: each relation is a charm with several units that     *)
(* trace themselves over otlp_http. Some are other charms, which use       *)
(* charm_tracing_config; some are Tempo coordinators, which send to        *)
(* themselves when there is no remote Tempo (_setup_charm_tracing in       *)
(* charm.py) and call get_endpoint without a safety net.                   *)
(***************************************************************************)
EXTENDS ReceiverDirectory, Naturals

CONSTANTS RequirerUnits,       \* the units of each requirer
          Coordinators,        \* the relations whose requirer is a coordinator
          Wanted,              \* what each requirer asks for
          OtlpHttp,            \* the protocol charm tracing speaks
          MaxRequirerChanges   \* changes: bounds the checking

\* What charm tracing speaks is always on ("otlp_http is needed by
\* charm_tracing", charm.py, enabled_receivers), and asked for.
ASSUME RequirerAssumption ==
  /\ OtlpHttp \in AlwaysOn /\ AlwaysOn \subseteq Protocols
  /\ Coordinators \subseteq Relations
  /\ Wanted \in [Relations -> (SUBSET Protocols) \ {{}}]
  /\ \A r \in Relations : OtlpHttp \in Wanted[r]
  /\ MaxRequirerChanges \in Nat

VARIABLES
  chief,            \* relation -> the leader of its requirer
  secure,           \* relation -> do the receivers it was told of speak https
  certified,        \* relation -> has its requirer a certificate on disk
  events,           \* relation -> its requirer's units with an event to handle
  listed,           \* relation, unit -> what the last endpoint event said
  traces,           \* relation, unit -> where the unit's last hook sent its traces
  requirerChanges   \* how often something changed

requirerVars == <<chief, secure, certified, events, listed, traces, requirerChanges>>
allRequirerVars == <<directoryVars, requirerVars>>

Destinations == {"off", "self", "http", "https", "raised"}

-------------------------------------------------------------------------------
(* One hook of a unit *)

Leads(r, u) == chief[r] = u

\* TracingEndpointRequirer.__init__: leaders ask on every dispatch.
AsksNow(r, u) == Leads(r, u) /\ asked[r].live

\* The provider's databag parses as a list of receivers.
IsReady(r) == asked[r].live /\ offered[r] # {}

\* get_endpoint, once ready. Without a receiver of the protocol it looks up in
\* the charm's own application databag whether it was asked for; Juju lets only
\* the leader read that.
GetEndpoint(r, u) ==
  IF OtlpHttp \in offered[r] THEN "found"
  ELSE IF ~Leads(r, u) THEN "denied"
  ELSE IF AsksNow(r, u) \/ OtlpHttp \in asked[r].protocols THEN "none"
  ELSE "not requested"

\* Where charm_tracing_config has the charm send its traces. What
\* get_endpoint raises on followers is caught.
CharmTracingConfig(r, u) ==
  CASE ~IsReady(r) -> "off"
    [] IsReady(r) /\ GetEndpoint(r, u) \in {"none", "denied"} -> "off"
    [] IsReady(r) /\ GetEndpoint(r, u) = "not requested" -> "raised"
    [] OTHER -> IF secure[r] THEN IF certified[r] THEN "https" ELSE "off"
                             ELSE "http"

\* _setup_charm_tracing: the remote Tempo's endpoint, or localhost.
SetupCharmTracing(r, u) ==
  CASE ~IsReady(r) -> "self"
    [] IsReady(r) /\ GetEndpoint(r, u) = "none" -> "self"
    [] IsReady(r) /\ GetEndpoint(r, u) \in {"denied", "not requested"} -> "raised"
    [] OTHER -> IF secure[r] THEN "https" ELSE "http"

Destination(r, u) ==
  IF r \in Coordinators THEN SetupCharmTracing(r, u) ELSE CharmTracingConfig(r, u)

\* endpoint_changed carries the receivers; endpoint_removed, none. A slip: the
\* relation-broken event is not observed.
EndpointEvent_Changed(r, u) ==
  IF IsReady(r) THEN offered[r]
  ELSE IF asked[r].live THEN {} ELSE listed[r][u]
EndpointEvent(r, u) == IF IsReady(r) THEN offered[r] ELSE {}

-------------------------------------------------------------------------------
RequirerChange ==
  requirerChanges < MaxRequirerChanges /\ requirerChanges' = requirerChanges + 1

\* Every unit of a requirer whose databags changed has an event.
TellRequirers ==
  events' = [r \in Relations |->
               IF offered'[r] # offered[r] \/ secure'[r] # secure[r]
                  \/ asked'[r].live # asked[r].live
               THEN RequirerUnits ELSE events[r]]

RequirerHook(r, u) ==
  /\ events' = [events EXCEPT ![r] = @ \ {u}]
  /\ listed' = [listed EXCEPT ![r][u] = EndpointEvent(r, u)]
  /\ traces' = [traces EXCEPT ![r][u] = Destination(r, u)]
  /\ IF AsksNow(r, u) /\ asked[r].protocols # Wanted[r]
     THEN AskFor(r, [live |-> TRUE, protocols |-> Wanted[r]])
     ELSE UNCHANGED directoryVars
  /\ UNCHANGED <<chief, secure, certified, requirerChanges>>

Unchanged == UNCHANGED <<chief, certified, listed, traces>>

RelateRequirer(r) ==
  /\ RequirerChange /\ ~asked[r].live
  /\ AskFor(r, [live |-> TRUE, protocols |-> {}])
  /\ secure' = secure /\ TellRequirers /\ Unchanged
RemoveRequirer(r) ==
  /\ RequirerChange /\ asked[r].live
  /\ AskFor(r, NotAsked)
  /\ secure' = secure /\ TellRequirers /\ Unchanged
SwitchChief(r, u) ==
  /\ RequirerChange /\ ~Leads(r, u)
  /\ chief' = [chief EXCEPT ![r] = u]
  /\ events' = [events EXCEPT ![r] = @ \cup {u}]
  /\ UNCHANGED <<secure, certified, listed, traces, directoryVars>>
Certify(r, has) ==
  /\ RequirerChange /\ certified[r] # has
  /\ certified' = [certified EXCEPT ![r] = has]
  /\ events' = [events EXCEPT ![r] = RequirerUnits]
  /\ UNCHANGED <<chief, secure, listed, traces, directoryVars>>
ProviderConfigures(ps) ==
  /\ RequirerChange /\ Configure(ps)
  /\ secure' = secure /\ TellRequirers /\ Unchanged

\* The provider's units look and answer; what they answer speaks one scheme.
ProviderLooks(u) ==
  /\ looks[u] = NoLook
  /\ LookUp(u)
  /\ UNCHANGED requirerVars
ProviderAnswers(u) ==
  /\ looks[u] # NoLook
  /\ Answer(u)
  /\ \E https \in BOOLEAN :
       secure' = [r \in Relations |->
                    IF r \in Answered(u) THEN https ELSE secure[r]]
  /\ secure # secure' => requirerChanges < MaxRequirerChanges
  /\ requirerChanges' = requirerChanges + (IF secure = secure' THEN 0 ELSE 1)
  /\ TellRequirers /\ Unchanged
ProviderDrops(u) ==
  /\ looks[u] # NoLook
  /\ Drop(u)
  /\ UNCHANGED requirerVars

RequirerInit ==
  /\ DirectoryInit /\ settled = FALSE
  /\ \E u \in RequirerUnits : chief = [r \in Relations |-> u]
  /\ secure = [r \in Relations |-> FALSE]
  /\ certified = [r \in Relations |-> FALSE]
  /\ events = [r \in Relations |-> {}]
  /\ listed = [r \in Relations |-> [u \in RequirerUnits |-> {}]]
  /\ traces = [r \in Relations |-> [u \in RequirerUnits |-> "off"]]
  /\ requirerChanges = 0

\* A requirer sees nothing of whether the provider is settled.
RequirerNext ==
  /\ settled' = FALSE
  /\ \/ \E r \in Relations :
          \/ RelateRequirer(r) \/ RemoveRequirer(r)
          \/ \E u \in RequirerUnits : SwitchChief(r, u)
          \/ \E u \in events[r] : RequirerHook(r, u)
          \/ \E has \in BOOLEAN : Certify(r, has)
     \/ \E ps \in SUBSET Protocols : ProviderConfigures(ps)
     \/ \E u \in Units : ProviderLooks(u) \/ ProviderAnswers(u) \/ ProviderDrops(u)

RequirerSpec == RequirerInit /\ [][RequirerNext]_allRequirerVars

-------------------------------------------------------------------------------
(* Properties *)

\* The values of the variables; a relation that is gone has no databags.
RequirerTypeOK ==
  /\ asked \in [Relations -> Ask] /\ offered \in [Relations -> SUBSET Protocols]
  /\ \A r \in Relations : asked[r].live \/ offered[r] = {}
  /\ chief \in [Relations -> RequirerUnits]
  /\ secure \in [Relations -> BOOLEAN] /\ certified \in [Relations -> BOOLEAN]
  /\ events \in [Relations -> SUBSET RequirerUnits]
  /\ listed \in [Relations -> [RequirerUnits -> SUBSET Protocols]]
  /\ traces \in [Relations -> [RequirerUnits -> Destinations]]

\* No unit, leader or not, fails its hook over the endpoint: the leader because
\* __init__ asks before anything is looked up, followers because a Tempo that
\* publishes anything publishes otlp_http too, be it asked for or not
\* ("otlp_http is needed by charm_tracing", charm.py, enabled_receivers).
NoHookRaises ==
  \A r \in Relations : \A u \in RequirerUnits : traces[r][u] # "raised"

\* A unit that has handled its events knows the receivers of now, or that there
\* are none: relation_changed and relation_broken tell the whole story.
ListedIsOffered ==
  \A r \in Relations : \A u \in RequirerUnits \ events[r] :
    listed[r][u] = offered[r]

\* And its traces go where they should: to the remote Tempo whenever that has
\* answered and can be spoken to, as https exactly if the receivers are.
TracesGoThere ==
  \A r \in Relations : \A u \in RequirerUnits \ events[r] :
    offered[r] # {} =>
      traces[r][u] =
        CASE ~secure[r] -> "http"
          [] secure[r] /\ (certified[r] \/ r \in Coordinators) -> "https"
          [] OTHER -> "off"

\* What a unit knows of the receivers and what it does with its own traces agree
\* with what its Tempo offers.
ExportsWhereOffered == ListedIsOffered /\ TracesGoThere
===============================================================================
