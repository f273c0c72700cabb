----------------------------- MODULE PromtailSetup -----------------------------
(***************************************************************************)
(* The log proxy of loki_push_api.py (LogProxyConsumer): a charm puts a    *)
(* Promtail into its workload container and points it at the Loki units    *)
(* that are related. The first relation says where the binary is to be had *)
(* from; it is kept in the charm container, and a file there is used only  *)
(* if its checksum is right.                                               *)
(*                                                                         *)
(* One container, and one unit of each Loki. A hook that raises is run     *)
(* again before any other, until it returns. No resource is attached.      *)
(***************************************************************************)
EXTENDS Naturals, FiniteSetsExt

CONSTANTS PrRelations, MaxPrChanges
ASSUME PrAssumption == PrRelations \subseteq Nat /\ MaxPrChanges \in Nat

VARIABLES
  prRelated,    \* the relations there are; Juju lists them in order
  prZipUrl,     \* relations with promtail_binary_zip_url in the databag of Loki
  prEndpoint,   \* relations whose Loki unit has published its endpoint
  prConnects,   \* does Pebble answer in the container
  prLayer,      \* is promtail in its plan
  prInstalled,  \* is the binary in the container: "none", "torn", "whole"
  prFetched,    \* the same of the charm container
  prConfig,     \* the clients in the configuration file
  prRuns,       \* those of the running Promtail, {} if it is stopped
  prCreated, prHeard, prGone,  \* relations with -created, -changed, -departed to come
  prReady,      \* is pebble-ready to come
  prLoki,       \* relations of which Loki has an event
  prStuck,      \* {the event whose hook raised last}, or {}
  prChanges

prBags == <<prRelated, prZipUrl, prEndpoint>>
prPromtail == <<prLayer, prInstalled, prFetched, prConfig, prRuns>>
prEvents == <<prCreated, prHeard, prGone, prReady>>
prVars == <<prBags, prConnects, prPromtail, prEvents, prLoki, prStuck, prChanges>>

-------------------------------------------------------------------------------
(* What a hook does *)

Ready == <<"ready">>
Created(r) == <<"created", r>>
Heard(r) == <<"changed", r>>
Gone(r) == <<"departed", r>>

\* A hook may run, unless that of another event is to be run again.
Runs(e) == prStuck \subseteq {e}
Returns == prStuck' = {}
Raises(e) == prStuck' = {e}

\* _clients_list: the units in scope, which a departing one no longer is.
Clients == prEndpoint

\* _promtail_must_be_downloaded. The checksum is compared.
MustDownload == prFetched # "whole"

\* _download_and_push_promtail_to_workload and _obtain_promtail: a download that
\* cannot be opened fails with URLError; it is reported and the set-up goes on.
ObtainPromtail ==
  \/ /\ MustDownload
     /\ prFetched' = "whole" /\ prInstalled' = "whole"
  \/ /\ MustDownload
     /\ UNCHANGED <<prFetched, prInstalled>>
  \/ /\ ~MustDownload
     /\ prInstalled' = prFetched /\ UNCHANGED prFetched

\* _ensure_promtail_binary, with _is_promtail_installed: a file of that name.
EnsureBinary ==
  IF prInstalled # "none" THEN UNCHANGED <<prInstalled, prFetched>> ELSE ObtainPromtail

\* container.restart: Promtail reads its configuration.
RestartPromtail == prRuns' = prConfig'

\* _setup_promtail: only the first relation is asked for the binary. That the
\* service does not start is reported, and left at that.
SetupPromtail ==
  IF prRelated = {} \/ Min(prRelated) \notin prZipUrl THEN UNCHANGED prPromtail
  ELSE /\ EnsureBinary
       /\ prConfig' = Clients
       /\ prLayer' = TRUE
       /\ IF Clients # {} /\ prInstalled' = "whole" THEN RestartPromtail
          ELSE prRuns' = IF Clients = {} THEN prRuns ELSE {}

-------------------------------------------------------------------------------
(* LogProxyConsumer *)

\* A workload that went away before its hook is run again cannot be set up.
PromtailReady ==
  /\ prReady /\ prConnects /\ Runs(Ready)
  /\ prReady' = FALSE
  /\ SetupPromtail /\ Returns
  /\ UNCHANGED <<prBags, prConnects, prCreated, prHeard, prGone, prLoki, prChanges>>

PromtailCreated(r) ==
  /\ r \in prCreated /\ Runs(Created(r))
  /\ prCreated' = prCreated \ {r}
  /\ IF prConnects THEN SetupPromtail ELSE UNCHANGED prPromtail
  /\ Returns
  /\ UNCHANGED <<prBags, prConnects, prHeard, prGone, prReady, prLoki, prChanges>>

\* _on_relation_changed, once promtail is in the plan. Slip: the file is not
\* written again. restart raises without a binary.
RestartOrRaise(r) ==
  IF Clients = {} THEN UNCHANGED prRuns /\ Returns
  ELSE IF prInstalled = "whole" THEN RestartPromtail /\ Returns
  ELSE prRuns' = {} /\ Raises(Heard(r))

RefreshPromtail_Kept(r) ==
  UNCHANGED <<prConfig, prLayer, prInstalled, prFetched>> /\ RestartOrRaise(r)
RefreshPromtail(r) ==
  /\ prConfig' = Clients
  /\ UNCHANGED <<prLayer, prInstalled, prFetched>>
  /\ RestartOrRaise(r)

PromtailChanged(r) ==
  /\ r \in prHeard /\ r \notin prCreated /\ Runs(Heard(r))
  /\ IF ~prConnects \/ prRelated = {} THEN UNCHANGED prPromtail /\ Returns
     ELSE IF prLayer THEN RefreshPromtail(r)
     ELSE SetupPromtail /\ Returns
  /\ prHeard' = IF Returns THEN prHeard \ {r} ELSE prHeard
  /\ UNCHANGED <<prBags, prConnects, prCreated, prGone, prReady, prLoki, prChanges>>

\* _on_relation_departed: restart and stop raise without promtail in the plan.
StopPromtail == prRuns' = {}

PromtailDeparted(r) ==
  /\ r \in prGone /\ Runs(Gone(r))
  /\ IF ~prConnects THEN UNCHANGED prPromtail /\ Returns
     ELSE /\ prConfig' = Clients
          /\ UNCHANGED <<prLayer, prInstalled, prFetched>>
          /\ IF prLayer /\ Clients = {} THEN StopPromtail /\ Returns
             ELSE IF prLayer /\ prInstalled = "whole" THEN RestartPromtail /\ Returns
             ELSE UNCHANGED prRuns /\ Raises(Gone(r))
  \* The relation is there until it is broken, and for that there is no handler.
  /\ prGone' = IF Returns THEN prGone \ {r} ELSE prGone
  /\ prRelated' = prRelated \ (prGone \ prGone')
  /\ prZipUrl' = prZipUrl \ (prGone \ prGone')
  /\ UNCHANGED <<prEndpoint, prConnects, prCreated, prHeard, prReady, prLoki, prChanges>>

\* The events whose hooks set Promtail up.
SetupEvents ==
  {Ready : x \in {prReady} \cap {TRUE}} \cup {Created(r) : r \in prCreated}
    \cup {Heard(r) : r \in {q \in prHeard \ prCreated : ~prLayer}}

\* The hook ends in the download: the answer is cut off while it is read, which is
\* no URLError, or the charm is killed while it writes the file.
CutOffInDownload ==
  /\ prConnects /\ prInstalled = "none" /\ MustDownload
  /\ prRelated # {} /\ Min(prRelated) \in prZipUrl
  /\ \E e \in SetupEvents : Runs(e) /\ Raises(e)
  /\ prFetched' \in {prFetched, "torn"}
  /\ UNCHANGED <<prBags, prConnects, prLayer, prInstalled, prConfig, prRuns, prEvents, prLoki,
                 prChanges>>

-------------------------------------------------------------------------------
(* Loki, Juju and Pebble *)

\* _on_logging_relation_joined and _changed of LokiPushApiProvider: the leader
\* publishes where the binary is, every unit its endpoint.
LokiPublishes(r) ==
  /\ r \in prLoki
  /\ prLoki' = prLoki \ {r}
  /\ prZipUrl' = prZipUrl \cup {r}
  /\ prEndpoint' \in {prEndpoint \cup {r}} \cup (IF r \in prZipUrl THEN {} ELSE {prEndpoint})
  /\ prHeard' = IF UNCHANGED <<prZipUrl, prEndpoint>> THEN prHeard ELSE prHeard \cup {r}
  /\ UNCHANGED <<prRelated, prConnects, prPromtail, prCreated, prGone, prReady, prStuck, prChanges>>
\* Between the two relation-changed is queued.
LokiHears(r) ==
  /\ r \in prZipUrl \ (prEndpoint \cup prLoki \cup prGone)
  /\ prLoki' = prLoki \cup {r}
  /\ UNCHANGED <<prBags, prConnects, prPromtail, prEvents, prStuck, prChanges>>

PrChange == prChanges < MaxPrChanges /\ prChanges' = prChanges + 1

RelateProxy(r) ==
  /\ PrChange
  /\ r \notin prRelated
  /\ prRelated' = prRelated \cup {r}
  /\ prCreated' = prCreated \cup {r}
  /\ prHeard' = prHeard \cup {r}
  /\ prLoki' = prLoki \cup {r}
  /\ UNCHANGED <<prZipUrl, prEndpoint, prConnects, prPromtail, prGone, prReady, prStuck>>
\* The unit of Loki departs, and its databag with it; that of its application
\* stays. A hook that is to be run again is.
RemoveProxy(r) ==
  /\ PrChange
  /\ r \in prRelated \ (prGone \cup prCreated)
  /\ prEndpoint' = prEndpoint \ {r}
  /\ prHeard' = IF Heard(r) \in prStuck THEN prHeard ELSE prHeard \ {r}
  /\ prGone' = prGone \cup {r}
  /\ prLoki' = prLoki \ {r}
  /\ UNCHANGED <<prRelated, prZipUrl, prConnects, prPromtail, prCreated, prReady, prStuck>>
WorkloadRestarts ==
  /\ PrChange
  /\ prConnects' = FALSE /\ prReady' = (Ready \in prStuck)
  /\ prLayer' = FALSE /\ prInstalled' = "none" /\ prConfig' = {} /\ prRuns' = {}
  /\ UNCHANGED <<prBags, prFetched, prCreated, prHeard, prGone, prLoki, prStuck>>
WorkloadStarts ==
  /\ ~prConnects
  /\ prConnects' = TRUE /\ prReady' = TRUE
  /\ UNCHANGED <<prBags, prPromtail, prCreated, prHeard, prGone, prLoki, prStuck, prChanges>>

PrInit ==
  /\ prRelated = {} /\ prZipUrl = {} /\ prEndpoint = {}
  /\ prConnects = FALSE /\ prLayer = FALSE /\ prInstalled = "none" /\ prFetched = "none"
  /\ prConfig = {} /\ prRuns = {}
  /\ prCreated = {} /\ prHeard = {} /\ prGone = {} /\ prReady = FALSE /\ prLoki = {}
  /\ prStuck = {} /\ prChanges = 0

PrNext ==
  \/ PromtailReady \/ CutOffInDownload \/ WorkloadRestarts \/ WorkloadStarts
  \/ \E r \in PrRelations :
       \/ PromtailCreated(r) \/ PromtailChanged(r) \/ PromtailDeparted(r)
       \/ LokiPublishes(r) \/ LokiHears(r) \/ RelateProxy(r) \/ RemoveProxy(r)

PrSpec == PrInit /\ [][PrNext]_prVars

-------------------------------------------------------------------------------
(* Properties *)

\* The values of the variables.
PrTypeOK ==
  /\ prRelated \subseteq PrRelations /\ prZipUrl \subseteq PrRelations
  /\ prEndpoint \subseteq PrRelations
  /\ prConnects \in BOOLEAN /\ prLayer \in BOOLEAN /\ prReady \in BOOLEAN
  /\ prInstalled \in {"none", "torn", "whole"} /\ prFetched \in {"none", "torn", "whole"}
  /\ prConfig \subseteq PrRelations /\ prRuns \subseteq PrRelations
  /\ prCreated \subseteq PrRelations /\ prHeard \subseteq PrRelations
  /\ prGone \subseteq PrRelations /\ prLoki \subseteq PrRelations
  /\ \E e \in {Ready} \cup UNION {{Created(r), Heard(r), Gone(r)} : r \in PrRelations} :
       prStuck \in {{}, {e}}
  /\ prChanges \in 0..MaxPrChanges

PrHandled == prCreated = {} /\ prHeard = {} /\ prGone = {} /\ ~prReady /\ prLoki = {}

\* When every event is handled, Promtail sends the logs to all units of Loki that
\* are related and to none that is gone, through restarts of the container, late
\* binaries or endpoints and hooks that raised; unless there was nothing to run.
PromtailSends ==
  PrHandled /\ prConnects /\ prInstalled = "whole" => prRuns = prRelated \cap prEndpoint

\* A charm that is killed while it stores a download never runs what is left of
\* the file.
NothingTorn == prInstalled # "torn"

\* Promtail runs, with a whole binary, towards every Loki there is.
PromtailWorks == PromtailSends /\ NothingTorn
===============================================================================
