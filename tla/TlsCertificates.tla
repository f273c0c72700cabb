---------------------------- MODULE TlsCertificates ----------------------------
(***************************************************************************)
(* The tls-certificates interface (tls_certificates.py): the requirer's    *)
(* units with their private keys, certificate requests and secrets, and a  *)
(* provider that answers the requests in its application databag.          *)
(*                                                                         *)
(* The coordinator uses the UNIT mode with one set of attributes a unit.   *)
(* A CSR is told from every other by the unique id in its subject, so the  *)
(* lists of the databags are sets here. A handler is one step: Juju shows  *)
(* a hook one snapshot of the model and commits what it wrote at its end.  *)
(***************************************************************************)
EXTENDS Naturals, Sequences

CONSTANTS TlsUnits,       \* the units of the requirer
          TlsAttributes,  \* what certificates can be requested for
          MaxTlsChanges   \* what happens to the deployment: bounds the checking

ASSUME TlsAssumption == MaxTlsChanges \in Nat

VARIABLES
  related,       \* is there a certificates relation
  unit,          \* unit -> what it keeps: see Unit
  issued,        \* the certificates in the provider's databag
  ages,          \* certificate, by its serial number -> how old it is
  unitEvents,    \* the units with an event to handle
  providerEvent, \* has the provider
  tlsChanges     \* how much has happened to the deployment

tlsVars ==
  <<related, unit, issued, ages, unitEvents, providerEvent, tlsChanges>>

NoKey == 0
Ages == {"fresh", "due", "late", "expired"}  \* since 90% and 95% of the validity
Csr == [unit : TlsUnits, attributes : TlsAttributes, key : Nat, id : Nat]
Certificate == [csr : Csr, serial : Nat, revoked : BOOLEAN]
Secret == [csr : Csr, serial : Nat]
Unit == [name : TlsUnits,
         key : Nat,                \* the private key, in a secret
         wanted : TlsAttributes,   \* what it wants a certificate for
         requests : SUBSET Csr,    \* its databag
         secrets : SUBSET Secret,  \* a certificate each, by its request
         told : SUBSET Nat,        \* certificates announced to the charm
         drawn : Nat]              \* unique ids drawn

-------------------------------------------------------------------------------
(* The requirer *)

\* A slip: no unique identifier, so that the same request comes out again.
NewCsr_SameId(r) ==
  [unit |-> r.name, attributes |-> r.wanted, key |-> r.key, id |-> 1]
NewCsr(r) ==
  [unit |-> r.name, attributes |-> r.wanted, key |-> r.key, id |-> r.drawn + 1]

MatchesRequest(r, csr) == csr.attributes = r.wanted
MatchesKey(r, csr) == csr.key = r.key

EnsureKey(r) == IF r.key = NoKey THEN [r EXCEPT !.key = 1] ELSE r

\* Requests for other attributes, or by another key, are taken back.
Cleanup(r) ==
  [r EXCEPT !.requests =
     {csr \in @ : MatchesRequest(r, csr)
                    /\ (r.key # NoKey => MatchesKey(r, csr))}]

Requested(r) ==
  /\ r.key # NoKey
  /\ \E csr \in r.requests : MatchesRequest(r, csr) /\ MatchesKey(r, csr)
Send(r) ==
  IF r.key = NoKey \/ Requested(r) \/ ~related THEN r
  ELSE [r EXCEPT !.requests = @ \cup {NewCsr(r)}, !.drawn = @ + 1]

\* _renew_certificate_request. Slip: every request goes.
Renew_All(r, csr) == Send([r EXCEPT !.requests = {}])
Renew(r, csr) == Send([r EXCEPT !.requests = @ \ {csr}])

\* _find_available_certificates: a revoked certificate's secret goes; one not
\* yet in a secret is put there and announced. Slips: a changed certificate of
\* an old request is taken for the one in the secret; revoked or not.
FindAvailable_FirstOnly(r) ==
  LET answers == {c \in issued : c.csr \in r.requests}
      dropped == {s \in r.secrets :
                    \E c \in answers : c.revoked /\ c.csr = s.csr}
      new == {c \in answers :
                /\ ~c.revoked /\ MatchesRequest(r, c.csr)
                /\ \A s \in r.secrets : s.csr # c.csr}
  IN [r EXCEPT
       !.secrets = (@ \ dropped)
                     \cup {[csr |-> c.csr, serial |-> c.serial] : c \in new},
       !.told = @ \cup {c.serial : c \in new}]
FindAvailable(r) ==
  LET answers == {c \in issued : c.csr \in r.requests}
      dropped == {s \in r.secrets :
                    \E c \in answers : c.revoked /\ c.csr = s.csr}
      new == {c \in answers :
                /\ ~c.revoked /\ MatchesRequest(r, c.csr)
                /\ [csr |-> c.csr, serial |-> c.serial] \notin r.secrets}
      replaced == {s \in r.secrets : \E c \in new : c.csr = s.csr}
  IN [r EXCEPT
       !.secrets = (@ \ (dropped \cup replaced))
                     \cup {[csr |-> c.csr, serial |-> c.serial] : c \in new},
       !.told = @ \cup {c.serial : c \in new}]

\* get_assigned_certificates: answers to the unit's requests, by its own key;
\* revoked ones are not told apart.
Assigned(r) ==
  {c \in issued : c.csr \in r.requests /\ r.key # NoKey /\ MatchesKey(r, c.csr)}

\* _renew_expiring_certificates, should secret_expired not have done it.
RenewExpiring(r) ==
  LET late == {c.csr : c \in {a \in Assigned(r) : ages[a.serial] = "late"}}
  IN IF late = {} THEN r ELSE Send([r EXCEPT !.requests = @ \ late])

Configured(r) ==
  IF related
  THEN RenewExpiring(FindAvailable(Send(Cleanup(EnsureKey(r)))))
  ELSE r

\* A unit's record changes; the provider has an event if its databag did.
Becomes(u, r) ==
  /\ unit' = [unit EXCEPT ![u] = r]
  /\ providerEvent' = (providerEvent \/ r.requests # unit[u].requests)
TlsChange == tlsChanges < MaxTlsChanges /\ tlsChanges' = tlsChanges + 1

\* A relation event, a refresh event or a call to sync().
UnitHook(u) ==
  /\ Becomes(u, Configured(unit[u]))
  /\ unitEvents' = unitEvents \ {u}
  /\ UNCHANGED <<related, issued, ages, tlsChanges>>

\* The secret's expiry was set to 90% of what was left of the validity.
SecretExpired(u, s) ==
  /\ s \in unit[u].secrets /\ ages[s.serial] # "fresh"
  /\ Becomes(u, [Renew(unit[u], s.csr) EXCEPT !.secrets = @ \ {s}])
  /\ UNCHANGED <<related, issued, ages, unitEvents, tlsChanges>>

RenewCertificate(u, c) ==
  /\ TlsChange
  /\ c \in Assigned(unit[u])
  /\ \E s \in unit[u].secrets :
       /\ s.csr = c.csr
       /\ Becomes(u, [Renew(unit[u], c.csr) EXCEPT !.secrets = @ \ {s}])
  /\ UNCHANGED <<related, issued, ages, unitEvents>>

RegeneratePrivateKey(u) ==
  /\ TlsChange
  /\ unit[u].key # NoKey
  /\ Becomes(u, Send(Cleanup([unit[u] EXCEPT !.key = @ + 1])))
  /\ UNCHANGED <<related, issued, ages, unitEvents>>

-------------------------------------------------------------------------------
(* The provider *)

CertificateRequests == UNION {unit[u].requests : u \in TlsUnits}
IssuedCertificates == {c \in issued : ~c.revoked}
UnsolicitedCertificates == {c \in issued : c.csr \notin CertificateRequests}
OutstandingRequests ==
  {csr \in CertificateRequests : \A c \in IssuedCertificates : c.csr # csr}

\* set_relation_certificate takes out what answered the request before. A
\* slip: it only adds.
WithCertificate_Added(c) == issued \cup {c}
WithCertificate(c) == {d \in issued : d.csr # c.csr} \cup {c}

\* The provider's databag changes, of which every unit hears.
Publishes(certificates) ==
  /\ issued' = certificates
  /\ unitEvents' = IF certificates = issued THEN unitEvents ELSE TlsUnits

ProviderHook ==
  /\ providerEvent /\ related
  /\ providerEvent' = FALSE
  /\ Publishes(issued \ UnsolicitedCertificates)
  /\ UNCHANGED <<related, unit, ages, tlsChanges>>

\* The provider's charm signs a request that is outstanding.
SetRelationCertificate(csr) ==
  /\ csr \in OutstandingRequests
  /\ ages' = Append(ages, "fresh")
  /\ Publishes(WithCertificate(
       [csr |-> csr, serial |-> Len(ages) + 1, revoked |-> FALSE]))
  /\ UNCHANGED <<related, unit, providerEvent, tlsChanges>>

\* When the root CA has changed.
RevokeAllCertificates ==
  /\ TlsChange
  /\ issued # {}
  /\ Publishes({[c EXCEPT !.revoked = TRUE] : c \in issued})
  /\ UNCHANGED <<related, unit, ages, providerEvent>>

-------------------------------------------------------------------------------
(* The deployment *)

TlsRelate ==
  /\ TlsChange /\ ~related
  /\ related' = TRUE
  /\ unitEvents' = TlsUnits /\ providerEvent' = TRUE
  /\ UNCHANGED <<unit, issued, ages>>
TlsUnrelate ==
  /\ TlsChange /\ related
  /\ related' = FALSE /\ issued' = {}
  /\ unit' = [u \in TlsUnits |-> [unit[u] EXCEPT !.requests = {}]]
  /\ unitEvents' = {} /\ providerEvent' = FALSE
  /\ UNCHANGED ages

\* An ingress, say, gives the unit another name.
ChangeAttributes(u, attributes) ==
  /\ TlsChange /\ unit[u].wanted # attributes
  /\ unit' = [unit EXCEPT ![u].wanted = attributes]
  /\ unitEvents' = unitEvents \cup {u}
  /\ UNCHANGED <<related, issued, ages, providerEvent>>

\* Time passes for a certificate in use. It does not run out while events are
\* waiting: hooks take minutes and certificates last for months.
Older == [fresh |-> "due", due |-> "late", late |-> "expired"]
InUse == {c.serial : c \in issued}
           \cup UNION {{s.serial : s \in unit[u].secrets} : u \in TlsUnits}
TimePasses(serial) ==
  /\ TlsChange
  /\ serial \in InUse /\ ages[serial] # "expired"
  /\ unitEvents = {} /\ ~providerEvent
  /\ ages' = [ages EXCEPT ![serial] = Older[@]]
  /\ UNCHANGED <<related, unit, issued, unitEvents, providerEvent>>

TlsInit ==
  /\ related = FALSE /\ issued = {} /\ ages = <<>>
  /\ \E a \in TlsAttributes :
       unit = [u \in TlsUnits |->
                [name |-> u, key |-> NoKey, wanted |-> a, requests |-> {},
                 secrets |-> {}, told |-> {}, drawn |-> 0]]
  /\ unitEvents = {} /\ providerEvent = FALSE /\ tlsChanges = 0

TlsNext ==
  \/ TlsRelate \/ TlsUnrelate \/ RevokeAllCertificates \/ ProviderHook
  \/ \E u \in TlsUnits :
       \/ UnitHook(u) \/ RegeneratePrivateKey(u)
       \/ \E s \in unit[u].secrets : SecretExpired(u, s)
       \/ \E c \in issued : RenewCertificate(u, c)
       \/ \E a \in TlsAttributes : ChangeAttributes(u, a)
  \/ \E csr \in CertificateRequests : SetRelationCertificate(csr)
  \/ \E serial \in 1..Len(ages) : TimePasses(serial)

\* Juju delivers events, expires secrets, and the provider's charm answers.
TlsFairness ==
  /\ \A u \in TlsUnits :
       /\ WF_tlsVars(u \in unitEvents /\ UnitHook(u))
       /\ WF_tlsVars(\E s \in unit[u].secrets : SecretExpired(u, s))
  /\ WF_tlsVars(ProviderHook)
  /\ WF_tlsVars(\E csr \in CertificateRequests : SetRelationCertificate(csr))

TlsSpec == TlsInit /\ [][TlsNext]_tlsVars /\ TlsFairness

-------------------------------------------------------------------------------
(* Properties *)

TlsTypeOK ==
  /\ related \in BOOLEAN /\ providerEvent \in BOOLEAN
  /\ unit \in [TlsUnits -> Unit]
  /\ issued \subseteq Certificate
  /\ ages \in Seq(Ages)
  /\ unitEvents \subseteq TlsUnits
  /\ tlsChanges \in Nat

\* However renewals, the safety net, new keys and new attributes interleave, a
\* unit has one request standing for what it wants, and no other once it has
\* handled its events: get_assigned_certificate takes the first it finds, and
\* with an old one beside it the charm would serve the old certificate.
OneRequest ==
  \A u \in TlsUnits : \A a, b \in unit[u].requests :
    \/ a = b
    \/ u \in unitEvents /\ ~(MatchesRequest(unit[u], a) /\ MatchesRequest(unit[u], b))

\* And a request has one answer, whatever was revoked and signed again: the
\* first in the list is the one that counts.
OneAnswer == \A c, d \in issued : c.csr = d.csr => c = d

\* The two together: what is asked for is one, and so is its answer.
OneOfEach == OneRequest /\ OneAnswer

\* A unit that has handled its events has been told of the certificate it
\* serves, also when another was signed for the same request.
ToldOfAssigned ==
  \A u \in TlsUnits \ unitEvents : \A c \in Assigned(unit[u]) :
    ~c.revoked /\ MatchesRequest(unit[u], c.csr) => c.serial \in unit[u].told

\* A secret left from a request that was replaced expires without harm: the
\* request that stands, and the certificate that answers it, stay.
ExpiresHarmlessly ==
  \A u \in TlsUnits : \A s \in unit[u].secrets :
    SecretExpired(u, s) /\ Requested(unit[u]) /\ s.csr \notin unit[u].requests
      => unit'[u].requests = unit[u].requests
StaleSecretsHarmless == [][ExpiresHarmlessly]_tlsVars

\* When the deployment is left alone, every unit ends up with a certificate
\* for what it wants and the key it has, neither revoked nor about to run out.
Certified ==
  <>[](related => \A u \in TlsUnits : \E c \in Assigned(unit[u]) :
         ~c.revoked /\ MatchesRequest(unit[u], c.csr) /\ ages[c.serial] = "fresh")
===============================================================================
