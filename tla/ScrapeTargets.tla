----------------------------- MODULE ScrapeTargets -----------------------------
(***************************************************************************)
(* The prometheus_scrape interface (prometheus_scrape.py). Applications    *)
(* publish scrape jobs and alert rules (their leaders) and addresses (each *)
(* unit); a Prometheus unit, its application's leader, expands the jobs    *)
(* over the units, gives the results distinct names, and tells the         *)
(* applications of alert rules and of jobs that do not validate.           *)
(*                                                                         *)
(* An application may be related more than once. Pods move without an      *)
(* event: update_status is what publishes the new address.                 *)
(***************************************************************************)
EXTENDS Naturals

CONSTANTS ScrapeRelations, Apps, AppUnits,
          AppOf,         \* relation -> the application related
          UnitsOf,       \* application -> the units it may have
          Addresses,     \* the addresses of pods
          JobSpecs,      \* what an application may want scraped: sets of jobs
          Any, NoUnit, NoAddress,
          MaxScrapeChanges

\* A job's targets are Any, for every unit, addresses, fully qualified names (a
\* unit's is the unit here), and whatever else.
ASSUME ScrapeAssumption ==
  /\ AppOf \in [ScrapeRelations -> Apps]
  /\ UnitsOf \in [Apps -> (SUBSET AppUnits) \ {{}}]
  /\ \A a, b \in Apps : a # b => UnitsOf[a] \cap UnitsOf[b] = {}
  /\ {} \notin JobSpecs
  /\ MaxScrapeChanges \in Nat

\* Every unit is of an application, and its pod can have an address of its own.
ASSUME PodsAssumption ==
  /\ \A u \in AppUnits : \E a \in Apps : u \in UnitsOf[a]
  /\ \E f \in [AppUnits -> Addresses] : \A u, v \in AppUnits : u # v => f[u] # f[v]

VARIABLES
  scRelated,    \* the relations there are
  scUnits,      \* the units there are
  scLeader,     \* application -> its leader
  scSwitched,   \* the applications whose leader changed
  scAddress,    \* unit -> its pod's address
  scJobs,       \* application -> what it wants scraped
  scRulesOk,    \* application -> do its alert rules validate
  scPublished,  \* relation -> its application's databag: sets of jobs, or {}
  scRules,      \* relation -> the alert rules in it: "none", "good", "bad"
  scHosts,      \* relation -> unit -> the address in its databag
  scEvent,      \* relation -> the event in the consumer's databag: what it lists
  scTold,       \* relation -> what its leader last told its charm is wrong
  scUse,        \* the jobs Prometheus uses
  scLoaded,     \* the relations whose alert rules it loaded
  scJoined, scChanged,  \* <<relation, unit>> with such an event
  scConsumer,   \* has Prometheus an event
  scChanges

scDeployment == <<scRelated, scUnits, scLeader, scSwitched, scAddress, scJobs, scRulesOk>>
scProviderBags == <<scPublished, scRules, scHosts>>
scConsumerState == <<scEvent, scUse, scLoaded>>
scQueues == <<scJoined, scChanged, scConsumer>>
scrapeVars ==
  <<scDeployment, scProviderBags, scConsumerState, scTold, scQueues, scChanges>>

AppOfUnit(u) == CHOOSE a \in Apps : u \in UnitsOf[a]
RelationsOf(a) == {r \in scRelated : AppOf[r] = a}
RelationUnits(r) == UnitsOf[AppOf[r]] \cap scUnits

-------------------------------------------------------------------------------
(* What Prometheus makes of the databags *)

\* _relation_hosts: the units that published an address.
RelationHosts(r) == {u \in RelationUnits(r) : scHosts[r][u] # NoAddress}

\* _build_host_to_unit: by address or name. Should two units have published the
\* same address, the one read last owns it.
HostToUnit(r, last, t) ==
  LET owners == {u \in RelationHosts(r) : t \in {scHosts[r][u], u}}
  IN CASE owners = {} -> NoUnit
       [] last \in owners -> last
       [] OTHER -> CHOOSE u \in owners : TRUE

\* _build_per_unit_job, and what is left of a job without the units' targets.
ExpandedJob(r, job, u, at) ==
  [app |-> AppOf[r], job |-> job.name, unit |-> u, at |-> at, hashes |-> 0]

\* expand_wildcard_targets_into_individual_jobs: one for each unit that the job
\* says to scrape, or names, and one for what is left. Slip: nothing is left.
ExpandTargets_Matched(r, last) ==
  UNION {
    LET qualified == job.targets \ {Any}
        owner == [t \in qualified |-> HostToUnit(r, last, t)]
    IN {ExpandedJob(r, job, u, {scHosts[r][u]}) :
          u \in IF Any \in job.targets THEN RelationHosts(r) ELSE {}}
       \cup {ExpandedJob(r, job, u, {t \in qualified : owner[t] = u}) :
               u \in {owner[t] : t \in qualified} \ {NoUnit}}
    : job \in scPublished[r]}
ExpandTargets(r, last) ==
  UNION {
    LET qualified == job.targets \ {Any}
        owner == [t \in qualified |-> HostToUnit(r, last, t)]
    IN {ExpandedJob(r, job, u, {scHosts[r][u]}) :
          u \in IF Any \in job.targets THEN RelationHosts(r) ELSE {}}
       \cup {ExpandedJob(r, job, u, {t \in qualified : owner[t] = u}) :
               u \in {owner[t] : t \in qualified}}
    : job \in scPublished[r]}

\* A name with a hash in it stands for the whole job.
JobName(j) ==
  [app |-> j.app, job |-> j.job, unit |-> j.unit,
   hash |-> IF j.hashes = 0 THEN {} ELSE {j}]

\* _dedupe_job_names, of jobs that come each from some place: those that share a
\* name get a hash appended, and equal ones are one.
DedupeJobNames(placed) ==
  {[p.job EXCEPT !.hashes =
      @ + IF \E q \in placed \ {p} : JobName(q.job) = JobName(p.job) THEN 1 ELSE 0]
   : p \in placed}

StaticScrapeConfig(r, last) ==
  DedupeJobNames({[from |-> r, job |-> j] : j \in ExpandTargets(r, last)})

\* cos-tool accepts or refuses what the jobs of a relation expand to as a whole.
Expands(r, job) ==
  job.targets \ {Any} # {} \/ (Any \in job.targets /\ RelationHosts(r) # {})
Refused(r) == \E job \in scPublished[r] : Expands(r, job) /\ ~job.ok
ValidRelations == {r \in scRelated : ~Refused(r)}

ScrapeJobs(last) ==
  DedupeJobNames(UNION {{[from |-> r, job |-> j] : j \in StaticScrapeConfig(r, last)}
                        : r \in ValidRelations})

\* The event of a relation lists the errors of its alert rules, which good rules
\* take back, and those of its jobs, which nothing does; at first there is none.
Unset == {"unset"}
JobErrors(r) == IF Refused(r) THEN (scEvent[r] \ Unset) \cup {"jobs"} ELSE scEvent[r]

\* alerts, after jobs. Slip: the errors are not taken back.
AlertErrors_Kept(r) ==
  CASE scRules[r] = "none" \/ RelationUnits(r) = {} -> JobErrors(r)
    [] scRules[r] = "bad" -> (JobErrors(r) \ Unset) \cup {"errors"}
    [] OTHER -> JobErrors(r) \ Unset
AlertErrors(r) ==
  CASE scRules[r] = "none" \/ RelationUnits(r) = {} -> JobErrors(r)
    [] scRules[r] = "bad" -> (JobErrors(r) \ Unset) \cup {"errors"}
    [] OTHER -> JobErrors(r) \ (Unset \cup {"errors"})

\* targets_changed, for relation_changed, departed or broken. The message about
\* refused jobs names a temporary file: it is news every time.
ConsumerHook ==
  /\ scConsumer
  /\ scConsumer' = FALSE
  /\ \E last \in scUnits : scUse' = ScrapeJobs(last)
  /\ scLoaded' = {r \in scRelated : scRules[r] = "good" /\ RelationUnits(r) # {}}
  /\ scEvent' = [r \in ScrapeRelations |-> IF r \in scRelated THEN AlertErrors(r) ELSE Unset]
  /\ scChanged' = scChanged \cup
       UNION {{r} \X RelationUnits(r) :
                r \in {q \in scRelated : Refused(q) \/ scEvent'[q] # scEvent[q]}}
  /\ UNCHANGED <<scDeployment, scProviderBags, scTold, scJoined, scChanges>>

-------------------------------------------------------------------------------
(* The units of an application *)

SetUnitIp(u) ==
  scHosts' = [r \in ScrapeRelations |->
                IF r \in RelationsOf(AppOfUnit(u))
                THEN [scHosts[r] EXCEPT ![u] = scAddress[u]] ELSE scHosts[r]]

\* The leader publishes jobs and rules on all the relations.
SetScrapeJobSpec(u) ==
  LET a == AppOfUnit(u)
      mine == IF scLeader[a] = u THEN RelationsOf(a) ELSE {}
  IN /\ SetUnitIp(u)
     /\ scPublished' = [r \in ScrapeRelations |->
                          IF r \in mine THEN scJobs[a] ELSE scPublished[r]]
     /\ scRules' = [r \in ScrapeRelations |->
                      IF r \notin mine THEN scRules[r]
                      ELSE IF scRulesOk[a] THEN "good" ELSE "bad"]

TellConsumer == scConsumer' = (scConsumer \/ scProviderBags' # scProviderBags)

\* With several containers and no refresh_event, the two observers of
\* update_status. Slip: only the pebble events refresh the address.
UpdateStatusBags_Pebble(u) == UNCHANGED scProviderBags
UpdateStatusBags(u) == SetScrapeJobSpec(u)

ScrapeUpdateStatus(u) ==
  /\ u \in scUnits
  /\ UpdateStatusBags(u)
  /\ TellConsumer
  /\ UNCHANGED <<scDeployment, scConsumerState, scTold, scJoined, scChanged, scChanges>>
ScrapeJoined(r, u) ==
  /\ <<r, u>> \in scJoined
  /\ scJoined' = scJoined \ {<<r, u>>}
  /\ SetScrapeJobSpec(u)
  /\ TellConsumer
  /\ UNCHANGED <<scDeployment, scConsumerState, scTold, scChanged, scChanges>>

\* The address, and the leader's charm is told what the event lists: that its rules
\* are valid too, but by an event that lists something. An empty one says nothing.
ProviderRelationChanged(r, u) ==
  /\ <<r, u>> \in scChanged \ scJoined
  /\ scChanged' = scChanged \ {<<r, u>>}
  /\ SetUnitIp(u)
  /\ scTold' = IF scLeader[AppOf[r]] = u /\ scEvent[r] \notin {Unset, {}}
               THEN [scTold EXCEPT ![r] = scEvent[r]] ELSE scTold
  /\ UNCHANGED <<scPublished, scRules>>
  /\ TellConsumer
  /\ UNCHANGED <<scDeployment, scConsumerState, scJoined, scChanges>>

-------------------------------------------------------------------------------
(* What happens to the applications *)

ScrapeChange == scChanges < MaxScrapeChanges /\ scChanges' = scChanges + 1

RelateScrape(r) ==
  /\ ScrapeChange
  /\ r \notin scRelated
  /\ scRelated' = scRelated \cup {r}
  /\ scJoined' = scJoined \cup ({r} \X RelationUnits(r))
  /\ scChanged' = scChanged \cup ({r} \X RelationUnits(r))
  /\ scConsumer' = TRUE
  /\ UNCHANGED <<scUnits, scLeader, scSwitched, scAddress, scJobs, scRulesOk,
                 scProviderBags, scConsumerState, scTold>>
RemoveScrape(r) ==
  /\ ScrapeChange
  /\ r \in scRelated
  /\ scRelated' = scRelated \ {r}
  /\ scPublished' = [scPublished EXCEPT ![r] = {}]
  /\ scRules' = [scRules EXCEPT ![r] = "none"]
  /\ scHosts' = [scHosts EXCEPT ![r] = [u \in AppUnits |-> NoAddress]]
  /\ scEvent' = [scEvent EXCEPT ![r] = Unset]
  /\ scTold' = [scTold EXCEPT ![r] = {}]
  /\ scJoined' = {e \in scJoined : e[1] # r}
  /\ scChanged' = {e \in scChanged : e[1] # r}
  /\ scConsumer' = TRUE
  /\ UNCHANGED <<scUnits, scLeader, scSwitched, scAddress, scJobs, scRulesOk, scUse,
                 scLoaded>>
MovePod(u, address) ==
  /\ ScrapeChange
  /\ u \in scUnits
  /\ \A v \in scUnits : scAddress[v] # address
  /\ scAddress' = [scAddress EXCEPT ![u] = address]
  /\ UNCHANGED <<scRelated, scUnits, scLeader, scSwitched, scJobs, scRulesOk,
                 scProviderBags, scConsumerState, scTold, scQueues>>
ChangeJobs(a, jobs, ok) ==
  /\ ScrapeChange
  /\ <<jobs, ok>> # <<scJobs[a], scRulesOk[a]>>
  /\ scJobs' = [scJobs EXCEPT ![a] = jobs]
  /\ scRulesOk' = [scRulesOk EXCEPT ![a] = ok]
  /\ UNCHANGED <<scRelated, scUnits, scLeader, scSwitched, scAddress, scProviderBags,
                 scConsumerState, scTold, scQueues>>
AddScraped(u, address) ==
  /\ ScrapeChange
  /\ u \notin scUnits
  /\ \A v \in scUnits : scAddress[v] # address
  /\ scUnits' = scUnits \cup {u}
  /\ scAddress' = [scAddress EXCEPT ![u] = address]
  /\ scJoined' = scJoined \cup (RelationsOf(AppOfUnit(u)) \X {u})
  /\ scChanged' = scChanged \cup (RelationsOf(AppOfUnit(u)) \X {u})
  /\ scConsumer' = (scConsumer \/ RelationsOf(AppOfUnit(u)) # {})
  /\ UNCHANGED <<scRelated, scLeader, scSwitched, scJobs, scRulesOk, scProviderBags,
                 scConsumerState, scTold>>
RemoveScraped(u, next) ==
  /\ ScrapeChange
  /\ u \in scUnits /\ next \in (UnitsOf[AppOfUnit(u)] \cap scUnits) \ {u}
  /\ LET a == AppOfUnit(u)
     IN /\ scLeader' = [scLeader EXCEPT ![a] = IF @ = u THEN next ELSE @]
        /\ scSwitched' = IF scLeader[a] = u THEN scSwitched \cup {a} ELSE scSwitched
        /\ scConsumer' = (scConsumer \/ RelationsOf(a) # {})
  /\ scUnits' = scUnits \ {u}
  /\ scHosts' = [r \in ScrapeRelations |-> [scHosts[r] EXCEPT ![u] = NoAddress]]
  /\ scJoined' = {e \in scJoined : e[2] # u}
  /\ scChanged' = {e \in scChanged : e[2] # u}
  /\ UNCHANGED <<scRelated, scAddress, scJobs, scRulesOk, scPublished, scRules,
                 scConsumerState, scTold>>

ScrapeInit ==
  /\ scRelated = {} /\ scUnits = AppUnits /\ scSwitched = {}
  /\ scLeader = [a \in Apps |-> CHOOSE u \in UnitsOf[a] : TRUE]
  /\ scAddress = CHOOSE f \in [AppUnits -> Addresses] :
                   \A u, v \in AppUnits : u # v => f[u] # f[v]
  /\ \E jobs \in JobSpecs : scJobs = [a \in Apps |-> jobs]
  /\ scRulesOk = [a \in Apps |-> TRUE]
  /\ scPublished = [r \in ScrapeRelations |-> {}]
  /\ scRules = [r \in ScrapeRelations |-> "none"]
  /\ scHosts = [r \in ScrapeRelations |-> [u \in AppUnits |-> NoAddress]]
  /\ scEvent = [r \in ScrapeRelations |-> Unset]
  /\ scTold = [r \in ScrapeRelations |-> {}]
  /\ scUse = {} /\ scLoaded = {}
  /\ scJoined = {} /\ scChanged = {} /\ scConsumer = FALSE /\ scChanges = 0

ScrapeNext ==
  \/ ConsumerHook
  \/ \E r \in ScrapeRelations :
       \/ RelateScrape(r) \/ RemoveScrape(r)
       \/ \E u \in UnitsOf[AppOf[r]] : ScrapeJoined(r, u) \/ ProviderRelationChanged(r, u)
  \/ \E a \in Apps, jobs \in JobSpecs, ok \in BOOLEAN : ChangeJobs(a, jobs, ok)
  \/ \E u \in AppUnits :
       \/ ScrapeUpdateStatus(u)
       \/ \E address \in Addresses : MovePod(u, address) \/ AddScraped(u, address)
       \/ \E next \in AppUnits : RemoveScraped(u, next)

\* update_status comes every few minutes, and Prometheus handles its events; the
\* relation events of the units are not needed.
ScrapeFairness ==
  /\ WF_scConsumer(scConsumer /\ scConsumer' = FALSE)  \* which ConsumerHook does
  /\ \A u \in AppUnits : WF_scrapeVars(ScrapeUpdateStatus(u))

ScrapeSpec == ScrapeInit /\ [][ScrapeNext]_scrapeVars /\ ScrapeFairness

-------------------------------------------------------------------------------
(* Properties *)

ScrapeDataOK ==
  /\ scRelated \subseteq ScrapeRelations /\ scUnits \subseteq AppUnits
  /\ scConsumer \in BOOLEAN
  /\ scRules \in [ScrapeRelations -> {"none", "good", "bad"}]
  /\ scEvent \in [ScrapeRelations -> {Unset} \cup SUBSET {"errors", "jobs"}]
  /\ scTold \in [ScrapeRelations -> SUBSET {"errors", "jobs"}]
  /\ scHosts = [r \in ScrapeRelations |-> scHosts[r]]
  /\ \A r \in ScrapeRelations : scHosts[r] = [u \in AppUnits |-> scHosts[r][u]]

ScrapeBagsOK ==
  /\ scSwitched \subseteq Apps
  /\ scAddress \in [AppUnits -> Addresses]
  /\ scJobs \in [Apps -> JobSpecs] /\ scRulesOk \in [Apps -> BOOLEAN]
  /\ scPublished \in [ScrapeRelations -> JobSpecs \cup {{}}]
  /\ scHosts \in [ScrapeRelations -> [AppUnits -> Addresses \cup {NoAddress}]]
  /\ scLoaded \subseteq ScrapeRelations
  /\ scJoined \subseteq ScrapeRelations \X AppUnits
  /\ scChanged \subseteq ScrapeRelations \X AppUnits

\* The values of the variables, but for the jobs in use.
ScrapeTypeOK == ScrapeDataOK /\ ScrapeBagsOK /\ scLeader \in [Apps -> AppUnits]

\* Prometheus rejects a configuration with two jobs of a name: neither a job of
\* both kinds of targets, nor an application related twice, makes one.
JobNamesUnique ==
  \A j, k \in scUse : JobName(j) = JobName(k) => j = k

\* When Prometheus has looked, nothing published is missing: not a unit that
\* published its address, not a target that belongs to none, and not because of
\* another relation's bad jobs.
NothingUnscraped ==
  ~scConsumer =>
    \A r \in scRelated : \A job \in scPublished[r] :
      (\A other \in scPublished[r] : other.ok) =>
        /\ \A t \in job.targets \ {Any} : \E j \in scUse : t \in j.at
        /\ Any \in job.targets =>
             \A u \in RelationHosts(r) :
               \E j \in scUse : j.unit = u /\ scHosts[r][u] \in j.at

\* Nothing that was published is missing, and nothing makes Prometheus reject it.
ScrapedAsPublished == JobNamesUnique /\ NothingUnscraped

\* A charm has been told of the rules and of the jobs that are not in use, unless
\* a new leader inherited the matter. One that mended its rules is told as long as
\* the event lists anything: nobody tells it if that was all that was wrong.
ErrorsTold ==
  ~scConsumer =>
    \A r \in scRelated :
      AppOf[r] \notin scSwitched /\ {r} \X RelationUnits(r) \cap scChanged = {} =>
        /\ scRules[r] = "bad" => r \notin scLoaded /\ "errors" \in scTold[r]
        /\ Refused(r) => "jobs" \in scTold[r]
        /\ r \in scLoaded /\ "errors" \in scTold[r] => scEvent[r] = {}

\* In the end, wherever the pods went: every unit is scraped at its address, and
\* no address is scraped in the name of a unit that is elsewhere.
ScrapesUnits ==
  /\ \A j \in scUse : j.unit # NoUnit =>
       j.unit \in scUnits /\ j.at \cap Addresses \subseteq {scAddress[j.unit]}
  /\ \A r \in scRelated : \A job \in scJobs[AppOf[r]] :
       Any \in job.targets /\ (\A other \in scJobs[AppOf[r]] : other.ok) =>
         \A u \in RelationUnits(r) : \E j \in scUse : j.unit = u /\ scAddress[u] \in j.at
EventuallyScrapesUnits == <>[]ScrapesUnits
===============================================================================
