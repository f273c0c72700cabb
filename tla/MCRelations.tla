----------------------------- MODULE MCRelations -----------------------------
(***************************************************************************)
(* Small instances of the interfaces that are relations between Tempo and  *)
(* another application, in one run: in each behaviour one of them moves,   *)
(* which "part" names, and nothing of the others. They share no state.     *)
(***************************************************************************)
EXTENDS TlsCertificates, IngressPerApp, ScrapeTargets, S3Credentials,
        TracingRequirer

VARIABLE part  \* the interface that moves

relationsVars == <<tlsVars, ingressVars, scrapeVars, s3Vars, allRequirerVars, part>>

-------------------------------------------------------------------------------
(* The instances *)

\* Two relations of one application, with two units, and one of another.
MCAppOf == [r \in ScrapeRelations |-> IF r = "r3" THEN "b" ELSE "a"]
MCUnitsOf == [p \in Apps |-> IF p = "a" THEN {"u1", "u2"} ELSE {"w1"}]
Job(name, targets, ok) == [name |-> name, targets |-> targets, ok |-> ok]
MCJobSpecs ==
  {{Job("j", {Any, "u2", "x1", "ext"}, TRUE)}, {Job("j", {Any}, TRUE), Job("k", {Any}, FALSE)}}

MCWanted == [r \in Relations |-> Protocols]

-------------------------------------------------------------------------------
(* The steps: those of the part, while the others stay *)

Certificates == part = "certificates" /\ UNCHANGED
  <<ingressVars, scrapeVars, s3Vars, allRequirerVars, part>>
Ingress == part = "ingress" /\ UNCHANGED
  <<tlsVars, scrapeVars, s3Vars, allRequirerVars, part>>
Scrape == part = "scrape" /\ UNCHANGED
  <<tlsVars, ingressVars, s3Vars, allRequirerVars, part>>
S3 == part = "s3" /\ UNCHANGED
  <<tlsVars, ingressVars, scrapeVars, allRequirerVars, part>>
Tracing == part = "tracing" /\ settled' = FALSE /\ UNCHANGED
  <<tlsVars, ingressVars, scrapeVars, s3Vars, part>>

TlsSteps ==
  \/ Certificates /\ TlsRelate
  \/ Certificates /\ TlsUnrelate
  \/ Certificates /\ RevokeAllCertificates
  \/ Certificates /\ ProviderHook
  \/ \E u \in TlsUnits :
       \/ Certificates /\ UnitHook(u)
       \/ Certificates /\ RegeneratePrivateKey(u)
       \/ \E s \in unit[u].secrets : Certificates /\ SecretExpired(u, s)
       \/ \E c \in issued : Certificates /\ RenewCertificate(u, c)
       \/ \E a \in TlsAttributes : Certificates /\ ChangeAttributes(u, a)
  \/ \E csr \in CertificateRequests : Certificates /\ SetRelationCertificate(csr)
  \/ \E serial \in 1..Len(ages) : Certificates /\ TimePasses(serial)

IngressSteps ==
  \/ Ingress /\ RelateIngress
  \/ Ingress /\ RemoveIngress
  \/ Ingress /\ WipeIngressData
  \/ Ingress /\ ProviderHandleRelation
  \/ Ingress /\ ProviderBroken
  \/ \E url \in IngressUrls : \/ Ingress /\ ChangeUrl(url)
                              \/ Ingress /\ RestoreUrl(url)
  \/ \E u \in IngressUnits :
       \/ Ingress /\ AddIngressUnit(u)
       \/ Ingress /\ RemoveIngressUnit(u)
       \/ Ingress /\ ElectIngressLeader(u)
       \/ Ingress /\ IngressHandleRelation(u)
       \/ Ingress /\ IngressBroken(u)
       \/ Ingress /\ IngressElected(u)

ScrapeSteps ==
  \/ Scrape /\ ConsumerHook
  \/ \E r \in ScrapeRelations :
       \/ Scrape /\ RelateScrape(r)
       \/ Scrape /\ RemoveScrape(r)
       \/ \E u \in UnitsOf[AppOf[r]] : \/ Scrape /\ ScrapeJoined(r, u)
                                       \/ Scrape /\ ProviderRelationChanged(r, u)
  \/ \E a \in Apps, jobs \in JobSpecs, ok \in BOOLEAN : Scrape /\ ChangeJobs(a, jobs, ok)
  \/ \E u \in AppUnits :
       \/ Scrape /\ ScrapeUpdateStatus(u)
       \/ \E address \in Addresses : \/ Scrape /\ MovePod(u, address)
                                     \/ Scrape /\ AddScraped(u, address)
       \/ \E next \in AppUnits : Scrape /\ RemoveScraped(u, next)

S3Steps ==
  \/ S3 /\ RelateS3
  \/ S3 /\ RemoveS3
  \/ \E u \in S3Units :
       \/ S3 /\ SwitchS3Leader(u)
       \/ S3 /\ RequirerJoined(u)
       \/ S3 /\ RequirerChanged(u)
       \/ S3 /\ RequirerBroken(u)
  \/ \E p \in S3Providers :
       \/ S3 /\ SwitchS3Provider(p)
       \/ S3 /\ ProviderChanged(p)
       \/ \E keys \in SUBSET S3Keys : S3 /\ UpdateConnection(p, keys)

RequirerSteps ==
  \/ \E r \in Relations :
       \/ Tracing /\ RelateRequirer(r)
       \/ Tracing /\ RemoveRequirer(r)
       \/ \E u \in RequirerUnits : Tracing /\ SwitchChief(r, u)
       \/ \E u \in events[r] : Tracing /\ RequirerHook(r, u)
       \/ \E has \in BOOLEAN : Tracing /\ Certify(r, has)
  \/ \E ps \in SUBSET Protocols : Tracing /\ ProviderConfigures(ps)
  \/ \E u \in Units : \/ Tracing /\ ProviderLooks(u)
                      \/ Tracing /\ ProviderAnswers(u)
                      \/ Tracing /\ ProviderDrops(u)

\* The others start in one of the ways they may.
RelationsInit ==
  /\ part \in {"certificates", "ingress", "scrape", "s3", "tracing"}
  /\ TlsInit /\ IngressInit /\ ScrapeInit /\ S3Init /\ RequirerInit
  /\ part # "certificates" => \A u \in TlsUnits : unit[u].wanted = "a1"
  /\ part # "ingress" => ingUnits = {"u1"}
  /\ part # "scrape" => \A a \in Apps : scJobs[a] = CHOOSE jobs \in JobSpecs : TRUE
  /\ part # "s3" => s3Leader = "u1" /\ s3Provider = "p1"
  /\ part # "tracing" => \A r \in Relations : chief[r] = "v1"

RelationsNext ==
  TlsSteps \/ IngressSteps \/ ScrapeSteps \/ S3Steps \/ RequirerSteps

\* TlsFairness, IngressFairness and ScrapeFairness, each of the part that moves:
\* what another could do does not count as possible.
RelationsFairness ==
  /\ \A u \in TlsUnits :
       /\ WF_tlsVars(Certificates /\ u \in unitEvents /\ UnitHook(u))
       /\ WF_tlsVars(Certificates /\ \E s \in unit[u].secrets : SecretExpired(u, s))
  /\ WF_tlsVars(Certificates /\ ProviderHook)
  /\ WF_tlsVars(Certificates /\ \E csr \in CertificateRequests : SetRelationCertificate(csr))
  /\ WF_ingressVars(Ingress /\ (ProviderHandleRelation \/ ProviderBroken))
  /\ WF_ingressVars(Ingress /\ \E url \in IngressUrls : RestoreUrl(url))
  /\ \A u \in IngressUnits :
       /\ WF_ingressVars(Ingress /\ (IngressHandleRelation(u) \/ IngressBroken(u)
                                      \/ IngressElected(u)))
       /\ WF_ingressVars(Ingress /\ ElectIngressLeader(u))
  /\ WF_scConsumer(Scrape /\ scConsumer /\ scConsumer' = FALSE)
  /\ \A u \in AppUnits : WF_scrapeVars(Scrape /\ ScrapeUpdateStatus(u))

RelationsSpec == RelationsInit /\ [][RelationsNext]_relationsVars /\ RelationsFairness

-------------------------------------------------------------------------------
\* The values of the variables of each of the five parts, but for the counters that
\* bound the changes and for scUse, which JobNamesUnique and NothingUnscraped are
\* about.
RelationsTypeOK == TlsTypeOK /\ IngressTypeOK /\ ScrapeTypeOK /\ S3TypeOK /\ RequirerTypeOK

-------------------------------------------------------------------------------
(* Liveness, of the part that moves *)

\* The units of Tempo end up with the certificates they ask for: Certified, of
\* TlsCertificates, in the behaviours that are about certificates.
EventuallyCertified == part = "certificates" => Certified

\* The requirer ends up routed to: Served, of IngressPerApp.
EventuallyServed == part = "ingress" => Served

\* Prometheus ends up scraping what there is: EventuallyScrapesUnits.
EventuallyScraped == part = "scrape" => EventuallyScrapesUnits
===============================================================================
