----------------------------- MODULE AlertRuleFiles -----------------------------
(***************************************************************************)
(* The alert rules a Loki is sent over loki_push_api (loki_push_api.py).   *)
(* A client pushes its rules when a relation is joined, and again when it  *)
(* is upgraded. The Loki library collects the rules of all relations by    *)
(* their identifier, validates them, and reports errors in the databag     *)
(* "event", of which the client's library makes an event of its own.       *)
(*                                                                         *)
(* There is one unit of Loki, which leads, and one of each client. What a  *)
(* rule says is whether it names an application and whether it is valid. A *)
(* client has some: what becomes of the errors of one that ships none any  *)
(* more (alerts goes on to the next relation) is left out.                 *)
(***************************************************************************)
EXTENDS Naturals

CONSTANTS ArRelations,   \* relation ids: Juju lists them in this order
          ArRuleSets,    \* [id, ok]: the identifier in the labels, and validity
          ArMetadataOf,  \* relation -> the identifier in its "metadata"
          NoId, NoRules,
          MaxArChanges

ASSUME ArAssumption ==
  ArRelations \subseteq Nat /\ NoRules \notin ArRuleSets /\ MaxArChanges \in Nat

VARIABLES
  arRelated,   \* the relations there are
  arShips,     \* relation -> the rules its client ships
  arRules,     \* relation -> "alert_rules" in the databag of the client
  arEvent,     \* relation -> "event" in that of Loki: "absent", "errors", "empty"
  arFiles,     \* the relations whose rules are on the disk of Loki
  arTold,      \* relation -> the last status its client was told of, if any
  arJoined,    \* clients with relation-joined or an upgrade to come
  arHeard,     \* clients with relation-changed to come
  arQueue,     \* relations Loki has relation-changed of
  arLeft,      \* has Loki a departure or a removal to handle
  arChanges

arClients == <<arRelated, arShips>>
arQueues == <<arJoined, arHeard, arQueue, arLeft>>
arVars == <<arClients, arRules, arEvent, arFiles, arTold, arQueues, arChanges>>

-------------------------------------------------------------------------------
(* LokiPushApiProvider *)

\* _get_identifier_by_alert_rules, and the metadata for rules without labels.
Identifier(r) == IF arRules[r].id # NoId THEN arRules[r].id ELSE ArMetadataOf[r]

\* The relations that alerts gets as far as validating.
Collected == {r \in arRelated : arRules[r] # NoRules /\ Identifier(r) # NoId}

\* alerts: those of one identifier, set or deleted relation by relation, so that
\* the last one decides. Slip: an invalid file
\* ends the loop.
Alerts_Break ==
  {r \in Collected :
     /\ \A s \in Collected : s <= r => arRules[s].ok
     /\ \A s \in Collected : Identifier(s) = Identifier(r) => s <= r}
Alerts ==
  {r \in Collected :
     /\ arRules[r].ok
     /\ \A s \in Collected : Identifier(s) = Identifier(r) => s <= r}

\* The "event" alerts leaves: errors are taken back.
EventOf(r) ==
  IF r \notin Collected THEN arEvent[r]
  ELSE IF arRules[r].ok THEN "empty" ELSE "errors"

\* alert_rules_changed: the Loki charm reads alerts and rewrites its files.
RulesChanged ==
  /\ arFiles' = Alerts
  /\ arEvent' = [r \in ArRelations |-> EventOf(r)]
  /\ arHeard' = arHeard \cup {r \in ArRelations : EventOf(r) # arEvent[r]}

\* _on_logging_relation_changed: emits it if there are rules in the databag.
LokiChanged(r) ==
  /\ r \in arQueue
  /\ arQueue' = arQueue \ {r}
  /\ IF arRules[r] # NoRules THEN RulesChanged
     ELSE UNCHANGED <<arFiles, arEvent, arHeard>>
  /\ UNCHANGED <<arClients, arRules, arTold, arJoined, arLeft, arChanges>>

\* _on_logging_relation_departed and _broken emit it always.
OnLeft == RulesChanged

LokiLeft ==
  /\ arLeft
  /\ arLeft' = FALSE
  /\ OnLeft
  /\ UNCHANGED <<arClients, arRules, arTold, arJoined, arQueue, arChanges>>

-------------------------------------------------------------------------------
(* LokiPushApiConsumer *)

\* _handle_alert_rules, on relation-joined and for every relation on an upgrade.
PushRules(r) ==
  /\ r \in arJoined
  /\ arJoined' = arJoined \ {r}
  /\ arRules' = [arRules EXCEPT ![r] = arShips[r]]
  /\ arQueue' = IF arRules' # arRules THEN arQueue \cup {r} ELSE arQueue
  /\ UNCHANGED <<arClients, arEvent, arFiles, arTold, arHeard, arLeft, arChanges>>

\* _on_logging_relation_changed: alert_rule_status_changed, unless "event" is
\* missing or empty.
StatusChanged(r) == IF arEvent[r] = "errors" THEN "errors" ELSE arTold[r]

ClientChanged(r) ==
  /\ r \in arHeard
  /\ arHeard' = arHeard \ {r}
  /\ arTold' = [arTold EXCEPT ![r] = StatusChanged(r)]
  /\ UNCHANGED <<arClients, arRules, arEvent, arFiles, arJoined, arQueue, arLeft, arChanges>>

-------------------------------------------------------------------------------
(* Juju *)

ArChange == arChanges < MaxArChanges /\ arChanges' = arChanges + 1

RelateRules(r) ==
  /\ ArChange
  /\ r \notin arRelated
  /\ arRelated' = arRelated \cup {r}
  /\ arJoined' = arJoined \cup {r}
  /\ arQueue' = arQueue \cup {r}
  /\ arHeard' = arHeard \cup {r}
  /\ UNCHANGED <<arShips, arRules, arEvent, arFiles, arTold, arLeft>>
RemoveRules(r) ==
  /\ ArChange
  /\ r \in arRelated
  /\ arRelated' = arRelated \ {r}
  /\ arRules' = [arRules EXCEPT ![r] = NoRules]
  /\ arEvent' = [arEvent EXCEPT ![r] = "absent"]
  /\ arTold' = [arTold EXCEPT ![r] = "absent"]
  /\ arJoined' = arJoined \ {r}
  /\ arHeard' = arHeard \ {r}
  /\ arQueue' = arQueue \ {r}
  /\ arLeft' = TRUE
  /\ UNCHANGED <<arShips, arFiles>>
UpgradeClient(r, rules) ==
  /\ ArChange
  /\ arShips[r] # rules
  /\ arShips' = [arShips EXCEPT ![r] = rules]
  /\ arJoined' = arJoined \cup ({r} \cap arRelated)
  /\ UNCHANGED <<arRelated, arRules, arEvent, arFiles, arTold, arHeard, arQueue, arLeft>>

ArInit ==
  /\ arRelated = {} /\ arFiles = {} /\ arChanges = 0
  /\ arJoined = {} /\ arHeard = {} /\ arQueue = {} /\ arLeft = FALSE
  /\ \E rules \in ArRuleSets : arShips = [r \in ArRelations |-> rules]
  /\ arRules = [r \in ArRelations |-> NoRules]
  /\ arEvent = [r \in ArRelations |-> "absent"]
  /\ arTold = [r \in ArRelations |-> "absent"]

ArNext ==
  \/ LokiLeft
  \/ \E r \in ArRelations :
       \/ RelateRules(r) \/ RemoveRules(r) \/ LokiChanged(r) \/ PushRules(r) \/ ClientChanged(r)
       \/ \E rules \in ArRuleSets : UpgradeClient(r, rules)

ArSpec == ArInit /\ [][ArNext]_arVars

-------------------------------------------------------------------------------
(* Properties *)

ArDataOK ==
  /\ arRelated \subseteq ArRelations
  /\ arShips \in [ArRelations -> ArRuleSets]
  /\ arRules \in [ArRelations -> ArRuleSets \cup {NoRules}]
  /\ arEvent \in [ArRelations -> {"absent", "errors", "empty"}]
  /\ arTold \in [ArRelations -> {"absent", "errors"}]
  /\ arJoined \subseteq arRelated

ArQueuesOK ==
  /\ arFiles \subseteq ArRelations
  /\ arHeard \subseteq arRelated /\ arQueue \subseteq arRelated
  /\ arLeft \in BOOLEAN /\ arChanges \in 0..MaxArChanges

\* The values of the variables; what is queued is of relations there are.
ArTypeOK == ArDataOK /\ ArQueuesOK

ArQuiet == arJoined = {} /\ arQueue = {} /\ ~arLeft

\* Two relations may have one identifier: an application is related twice, or
\* its rules are forwarded by another. One of them wins, but the rules on disk
\* are all valid, of relations there are, and none is dropped for those of
\* another identifier.
FilesCurrent ==
  ArQuiet =>
    /\ \A r \in arFiles : r \in arRelated /\ arShips[r].ok
    /\ \A r \in arRelated :
         LET id == Identifier(r) IN
         id # NoId /\ arShips[r].ok =>
           \/ r \in arFiles
           \/ \E s \in arRelated \ {r} : Identifier(s) = id

\* A client is told of errors in its rules whatever the others pushed, and its
\* relation does not say so of rules that were mended since.
ErrorsReported ==
  ArQuiet =>
    \A r \in arRelated :
      /\ Identifier(r) # NoId => (arEvent[r] = "errors" <=> ~arShips[r].ok)
      /\ arEvent[r] = "errors" /\ r \notin arHeard => arTold[r] = "errors"

\* Rules that are good are in use, and of the others their client is told.
RulesInUse == FilesCurrent /\ ErrorsReported
===============================================================================
