---------------------------- MODULE RelationsProofs ----------------------------
(***************************************************************************)
(* Proofs about four interfaces with other applications: certificates      *)
(* (TlsCertificates), ingress (IngressPerApp), scraping (ScrapeTargets)    *)
(* and s3 (S3Credentials). They share no state; each has its invariant,    *)
(* the lemmas on what its steps make of it, and its theorems, for any      *)
(* units, relations, jobs, URLs, options and any number of changes.        *)
(* With the requirer of tracing they are MCRelations, whose behaviours are *)
(* shown to be behaviours of each.                                         *)
(***************************************************************************)
EXTENDS MCRelations, TracingRequirerProofs, SequenceTheorems, TLAPS

-------------------------------------------------------------------------------
(* TlsCertificates: the invariant *)

\* What a unit keeps: its requests are its own, by the key it has, one for each
\* set of attributes, and have been drawn an id; what is in a secret was
\* announced.
RequestsByKey(u, r) ==
  \A csr \in r.requests : /\ csr.unit = u /\ csr.id <= r.drawn
                          /\ csr.key = r.key /\ r.key # NoKey
OnePerAttributes(r) ==
  \A a, b \in r.requests : a.attributes = b.attributes => a = b
SecretsTold(r) == \A s \in r.secrets : s.serial \in r.told
Keeps(u, r) ==
  /\ r \in Unit /\ r.name = u
  /\ RequestsByKey(u, r) /\ OnePerAttributes(r) /\ SecretsTold(r)

\* It asks for nothing but what it wants.
AsksAsWanted(r) == \A csr \in r.requests : MatchesRequest(r, csr)

\* It was told of the certificates it serves.
ToldOf(r) ==
  \A c \in issued : c.csr \in r.requests /\ ~c.revoked /\ MatchesRequest(r, c.csr)
                      => c.serial \in r.told

\* What is answered was drawn an id earlier.
AnswersDrawn ==
  \A c \in issued : /\ c.csr.unit \in TlsUnits
                    /\ c.csr.id <= unit[c.csr.unit].drawn

TlsInv ==
  /\ TlsTypeOK
  /\ AnswersDrawn /\ OneAnswer
  /\ \A u \in TlsUnits : Keeps(u, unit[u])
  /\ \A u \in TlsUnits \ unitEvents : AsksAsWanted(unit[u]) /\ ToldOf(unit[u])
  /\ ~related => issued = {} /\ \A u \in TlsUnits : unit[u].requests = {}

USE TlsAssumption

-------------------------------------------------------------------------------
(* TlsCertificates: what a handler makes of what a unit keeps *)

\* The steps of a handler: the unit asks for what it wants and no more, draws
\* ids, and forgets nothing it was told.
Handles(u, r, q) ==
  /\ Keeps(u, q)
  /\ q.wanted = r.wanted /\ r.drawn <= q.drawn /\ r.told \subseteq q.told
  /\ \A csr \in q.requests : \/ csr \in r.requests
                             \/ csr.id > r.drawn /\ MatchesRequest(q, csr)

LEMMA EnsureKeyHandles ==
  ASSUME NEW u \in TlsUnits, NEW r, Keeps(u, r)
  PROVE  Handles(u, r, EnsureKey(r)) /\ EnsureKey(r).key # NoKey
         /\ EnsureKey(r).requests = r.requests
<1>1. CASE r.key = NoKey
  <2>1. r.requests = {}
    BY <1>1 DEF Keeps, RequestsByKey
  <2>2. EnsureKey(r) = [r EXCEPT !.key = 1]
    BY <1>1 DEF EnsureKey
  <2>3. QED
    BY <2>1, <2>2 DEF Keeps, Handles, RequestsByKey, OnePerAttributes, SecretsTold, NoKey,
                      Unit
<1>2. CASE r.key # NoKey
  BY <1>2 DEF EnsureKey, Handles, Keeps, Unit
<1>3. QED
  BY <1>1, <1>2

LEMMA CleanupHandles ==
  ASSUME NEW u \in TlsUnits, NEW r, Keeps(u, r)
  PROVE  Handles(u, r, Cleanup(r)) /\ AsksAsWanted(Cleanup(r))
         /\ Cleanup(r).key = r.key
<1> DEFINE q == Cleanup(r)
<1>1. /\ q \in Unit /\ q.name = r.name /\ q.key = r.key /\ q.wanted = r.wanted
      /\ q.secrets = r.secrets /\ q.told = r.told /\ q.drawn = r.drawn
      /\ q.requests \subseteq {csr \in r.requests : MatchesRequest(r, csr)}
  BY DEF Cleanup, Keeps, Unit
<1>2. QED
  BY <1>1 DEF Keeps, Handles, RequestsByKey, OnePerAttributes, SecretsTold, AsksAsWanted,
              MatchesRequest, Unit

LEMMA SendHandles ==
  ASSUME NEW u \in TlsUnits, NEW r, Keeps(u, r)
  PROVE  /\ Handles(u, r, Send(r)) /\ Send(r).key = r.key
         /\ AsksAsWanted(r) => AsksAsWanted(Send(r))
         /\ ~related => Send(r) = r
<1>1. CASE r.key = NoKey \/ Requested(r) \/ ~related
  BY <1>1 DEF Send, Handles, Keeps, Unit
<1>2. CASE ~(r.key = NoKey \/ Requested(r) \/ ~related)
  <2> DEFINE q == Send(r)
             new == NewCsr(r)
  <2>1. /\ new \in Csr /\ new.unit = u /\ new.attributes = r.wanted
        /\ new.key = r.key /\ new.id = r.drawn + 1
    BY DEF NewCsr, Keeps, Unit, Csr
  <2>2. q = [r EXCEPT !.requests = @ \cup {new}, !.drawn = @ + 1]
    BY <1>2 DEF Send
  <2>3. /\ q \in Unit /\ q.name = r.name /\ q.key = r.key /\ q.wanted = r.wanted
        /\ q.secrets = r.secrets /\ q.told = r.told /\ q.drawn = r.drawn + 1
        /\ q.requests = r.requests \cup {new} /\ r.drawn \in Nat
    <3> DEFINE all == r.requests \cup {new}
    <3> HIDE DEF new
    <3>1. r \in Unit /\ r.drawn \in Nat /\ all \subseteq Csr
      BY <2>1 DEF Keeps, Unit
    <3>2. q = [r EXCEPT !.requests = all, !.drawn = r.drawn + 1]
      BY <2>2
    <3> DEFINE drawn == r.drawn + 1
    <3>3. drawn \in Nat
      BY <3>1
    <3> HIDE DEF q, all, drawn
    <3>4. q = [r EXCEPT !.requests = all, !.drawn = drawn]
      BY <3>2 DEF drawn
    <3>5. /\ q \in Unit /\ q.name = r.name /\ q.key = r.key /\ q.wanted = r.wanted
          /\ q.secrets = r.secrets /\ q.told = r.told /\ q.drawn = drawn
          /\ q.requests = all
      BY <3>1, <3>3, <3>4 DEF Unit
    <3>6. QED
      BY <3>1, <3>5 DEF all, drawn
  <2>4. \A csr \in r.requests : csr.attributes # r.wanted
    BY <1>2 DEF Requested, Keeps, RequestsByKey, MatchesRequest, MatchesKey
  <2> HIDE DEF q, new
  <2>5. RequestsByKey(u, q)
    <3>1. \A csr \in r.requests : csr.id \in Nat
      BY DEF Keeps, Unit, Csr
    <3>2. QED
      BY <1>2, <2>1, <2>3, <3>1 DEF Keeps, RequestsByKey
  <2>6. OnePerAttributes(q) /\ SecretsTold(q)
    BY <2>1, <2>3, <2>4 DEF Keeps, OnePerAttributes, SecretsTold
  <2>7. AsksAsWanted(r) => AsksAsWanted(q)
    BY <2>1, <2>3 DEF AsksAsWanted, MatchesRequest
  <2>8. Handles(u, r, q)
    BY <2>1, <2>3, <2>5, <2>6 DEF Handles, Keeps, MatchesRequest
  <2>9. QED
    BY <1>2, <2>3, <2>7, <2>8 DEF q
<1>3. QED
  BY <1>1, <1>2

\* A request is taken back, others take its place.
LEMMA LessHandles ==
  ASSUME NEW u \in TlsUnits, NEW r, Keeps(u, r), NEW less, less \subseteq r.requests
  PROVE  /\ Handles(u, r, [r EXCEPT !.requests = less])
         /\ AsksAsWanted(r) => AsksAsWanted([r EXCEPT !.requests = less])
<1> DEFINE q == [r EXCEPT !.requests = less]
<1>1. /\ q \in Unit /\ q.name = r.name /\ q.key = r.key /\ q.wanted = r.wanted
      /\ q.secrets = r.secrets /\ q.told = r.told /\ q.drawn = r.drawn /\ q.drawn \in Nat
      /\ q.requests = less
  BY DEF Keeps, Unit
<1> HIDE DEF q
<1>2. QED
  <2>1. Handles(u, r, q)
    BY <1>1 DEF Keeps, Handles, RequestsByKey, OnePerAttributes, SecretsTold
  <2>2. AsksAsWanted(r) => AsksAsWanted(q)
    BY <1>1 DEF AsksAsWanted, MatchesRequest
  <2>3. QED
    BY <2>1, <2>2 DEF q

LEMMA HandlesThen ==
  ASSUME NEW u \in TlsUnits, NEW r, NEW q, NEW p, Keeps(u, r),
         Handles(u, r, q), Handles(u, q, p)
  PROVE  Handles(u, r, p)
<1>1. r.drawn \in Nat /\ q.drawn \in Nat /\ p.drawn \in Nat
  BY DEF Handles, Keeps, Unit
<1>2. \A csr \in p.requests : csr.id \in Nat
  BY DEF Handles, Keeps, Unit, Csr
<1>3. QED
  BY <1>1, <1>2 DEF Handles, MatchesRequest

LEMMA RenewHandles ==
  ASSUME NEW u \in TlsUnits, NEW r, Keeps(u, r), NEW gone
  PROVE  LET q == Send([r EXCEPT !.requests = @ \ gone])
         IN  /\ Handles(u, r, q)
             /\ AsksAsWanted(r) => AsksAsWanted(q)
<1> DEFINE p == [r EXCEPT !.requests = r.requests \ gone]
<1>1. Handles(u, r, p) /\ (AsksAsWanted(r) => AsksAsWanted(p))
  BY LessHandles
<1>2. Keeps(u, p)
  BY <1>1 DEF Handles
<1> HIDE DEF p
<1>3. Handles(u, r, Send(p)) /\ (AsksAsWanted(r) => AsksAsWanted(Send(p)))
  BY <1>1, <1>2, SendHandles, HandlesThen
<1>4. QED
  BY <1>3 DEF p

\* A secret goes with the request that was renewed.
LEMMA SecretHandles ==
  ASSUME NEW u \in TlsUnits, NEW r, Keeps(u, r), NEW s
  PROVE  LET q == [r EXCEPT !.secrets = @ \ {s}]
         IN  /\ Handles(u, r, q) /\ q.requests = r.requests /\ q.key = r.key
             /\ AsksAsWanted(r) => AsksAsWanted(q)
<1> DEFINE q == [r EXCEPT !.secrets = @ \ {s}]
<1>1. /\ q \in Unit /\ q.name = r.name /\ q.key = r.key /\ q.wanted = r.wanted
      /\ q.secrets \subseteq r.secrets /\ q.told = r.told /\ q.drawn = r.drawn
      /\ q.drawn \in Nat /\ q.requests = r.requests
  BY DEF Keeps, Unit
<1> HIDE DEF q
<1>2. QED
  <2>1. Handles(u, r, q)
    BY <1>1 DEF Keeps, Handles, RequestsByKey, OnePerAttributes, SecretsTold
  <2>2. AsksAsWanted(r) => AsksAsWanted(q)
    BY <1>1 DEF AsksAsWanted, MatchesRequest
  <2>3. QED
    BY <1>1, <2>1, <2>2 DEF q

\* _find_available_certificates leaves no certificate unannounced.
LEMMA FindHandles ==
  ASSUME TlsTypeOK, NEW u \in TlsUnits, NEW r, Keeps(u, r)
  PROVE  /\ Handles(u, r, FindAvailable(r))
         /\ FindAvailable(r).requests = r.requests
         /\ FindAvailable(r).key = r.key
         /\ AsksAsWanted(r) => AsksAsWanted(FindAvailable(r))
         /\ ToldOf(FindAvailable(r))
<1> DEFINE answers == {c \in issued : c.csr \in r.requests}
           dropped == {s \in r.secrets :
                         \E c \in answers : c.revoked /\ c.csr = s.csr}
           new == {c \in answers :
                     /\ ~c.revoked /\ MatchesRequest(r, c.csr)
                     /\ [csr |-> c.csr, serial |-> c.serial] \notin r.secrets}
           replaced == {s \in r.secrets : \E c \in new : c.csr = s.csr}
           secrets == (r.secrets \ (dropped \cup replaced))
                        \cup {[csr |-> c.csr, serial |-> c.serial] : c \in new}
           told == r.told \cup {c.serial : c \in new}
           q == FindAvailable(r)
<1>1. q = [r EXCEPT !.secrets = secrets, !.told = told]
  BY DEF FindAvailable
<1>2. secrets \subseteq Secret /\ told \subseteq Nat
  <2>1. \A c \in issued : c.csr \in Csr /\ c.serial \in Nat
    BY DEF TlsTypeOK, Certificate
  <2>2. \A c \in issued : [csr |-> c.csr, serial |-> c.serial] \in Secret
    BY <2>1 DEF Secret
  <2>3. r.secrets \subseteq Secret /\ r.told \subseteq Nat
    BY DEF Keeps, Unit
  <2>4. QED
    BY <2>1, <2>2, <2>3
<1>3. \A s \in secrets : s.serial \in told
  BY DEF Keeps, SecretsTold
<1>4. \A c \in issued : c.csr \in r.requests /\ ~c.revoked /\ MatchesRequest(r, c.csr)
                          => c.serial \in told
  <2> SUFFICES ASSUME NEW c \in issued, c.csr \in r.requests, ~c.revoked,
                      MatchesRequest(r, c.csr)
               PROVE  c.serial \in told
    OBVIOUS
  <2>1. CASE [csr |-> c.csr, serial |-> c.serial] \in r.secrets
    <3>1. [csr |-> c.csr, serial |-> c.serial].serial \in r.told
      BY <2>1 DEF Keeps, SecretsTold
    <3>2. QED
      BY <3>1
  <2>2. CASE [csr |-> c.csr, serial |-> c.serial] \notin r.secrets
    BY <2>2
  <2>3. QED
    BY <2>1, <2>2
<1>5. r.told \subseteq told
  OBVIOUS
<1> HIDE DEF secrets, told
<1>6. /\ q \in Unit /\ q.name = r.name /\ q.key = r.key /\ q.wanted = r.wanted
      /\ q.requests = r.requests /\ q.secrets = secrets /\ q.told = told
      /\ q.drawn = r.drawn /\ q.drawn \in Nat
  BY <1>1, <1>2 DEF Keeps, Unit
<1> HIDE DEF q
<1>7. Handles(u, r, q)
  BY <1>3, <1>5, <1>6 DEF Keeps, Handles, RequestsByKey, OnePerAttributes, SecretsTold
<1>8. ToldOf(q) /\ (AsksAsWanted(r) => AsksAsWanted(q))
  BY <1>4, <1>6 DEF ToldOf, AsksAsWanted, MatchesRequest
<1>9. QED
  BY <1>6, <1>7, <1>8 DEF q

\* What a unit was told of it stays told of: nothing answers a new request yet.
LEMMA ToldKept ==
  ASSUME TlsInv, NEW u \in TlsUnits, NEW r, NEW q, Keeps(u, r), Handles(u, r, q),
         unit[u].drawn <= r.drawn, ToldOf(r)
  PROVE  ToldOf(q)
<1> SUFFICES ASSUME NEW c \in issued, c.csr \in q.requests, ~c.revoked,
                    MatchesRequest(q, c.csr)
             PROVE  c.serial \in q.told
  BY DEF ToldOf
<1>1. c.csr \in Csr /\ c.csr.unit = u /\ c.csr.id \in Nat
  BY DEF Handles, Keeps, RequestsByKey, Unit, Csr
<1>2. r.drawn \in Nat /\ unit[u].drawn \in Nat
  BY DEF TlsInv, TlsTypeOK, Keeps, Unit
<1>3. ~ (c.csr.id > r.drawn)
  BY <1>1, <1>2 DEF TlsInv, AnswersDrawn
<1>4. c.csr \in r.requests /\ MatchesRequest(r, c.csr)
  BY <1>3 DEF Handles, MatchesRequest
<1>5. QED
  BY <1>4 DEF ToldOf, Handles

LEMMA SelfHandles ==
  ASSUME NEW u \in TlsUnits, NEW r, Keeps(u, r)
  PROVE  Handles(u, r, r)
BY DEF Handles, Keeps, Unit

LEMMA RenewExpiringHandles ==
  ASSUME NEW u \in TlsUnits, NEW r, Keeps(u, r)
  PROVE  /\ Handles(u, r, RenewExpiring(r))
         /\ AsksAsWanted(r) => AsksAsWanted(RenewExpiring(r))
<1> DEFINE late == {c.csr : c \in {a \in Assigned(r) : ages[a.serial] = "late"}}
<1>1. RenewExpiring(r) =
        IF late = {} THEN r ELSE Send([r EXCEPT !.requests = @ \ late])
  BY DEF RenewExpiring
<1> HIDE DEF late
<1>2. CASE late = {}
  BY <1>1, <1>2, SelfHandles
<1>3. CASE late # {}
  BY <1>1, <1>3, RenewHandles
<1>4. QED
  BY <1>2, <1>3

\* Once a unit has configured itself, it is told of all there is for what it
\* wants, and asks for nothing else.
LEMMA ConfiguredHandles ==
  ASSUME TlsInv, NEW u \in TlsUnits
  PROVE  LET q == Configured(unit[u])
         IN  /\ Handles(u, unit[u], q) /\ AsksAsWanted(q) /\ ToldOf(q)
             /\ ~related => q.requests = {}
<1>1. Keeps(u, unit[u])
  BY DEF TlsInv
<1>2. CASE ~related
  <2>1. Configured(unit[u]) = unit[u] /\ unit[u].requests = {}
    BY <1>2 DEF Configured, TlsInv
  <2>2. QED
    BY <1>1, <2>1, SelfHandles DEF AsksAsWanted, ToldOf
<1>3. CASE related
  <2> DEFINE a == EnsureKey(unit[u])
             b == Cleanup(a)
             c == Send(b)
             d == FindAvailable(c)
             q == RenewExpiring(d)
  <2>1. Configured(unit[u]) = q
    BY <1>3 DEF Configured
  <2> HIDE DEF q, d, c, b, a
  <2>2. Handles(u, unit[u], a) /\ Keeps(u, a)
    BY <1>1, EnsureKeyHandles DEF a, Handles
  <2>3. Handles(u, a, b) /\ Keeps(u, b) /\ AsksAsWanted(b)
    BY <2>2, CleanupHandles DEF b, Handles
  <2>4. Handles(u, b, c) /\ Keeps(u, c) /\ AsksAsWanted(c)
    BY <2>3, SendHandles DEF c, Handles
  <2>5. Handles(u, c, d) /\ Keeps(u, d) /\ AsksAsWanted(d) /\ ToldOf(d)
    BY <2>4, FindHandles DEF d, Handles, TlsInv
  <2>6. Handles(u, d, q) /\ AsksAsWanted(q)
    BY <2>5, RenewExpiringHandles DEF q
  <2>7. Handles(u, unit[u], c)
    BY <1>1, <2>2, <2>3, <2>4, HandlesThen
  <2>8. Handles(u, unit[u], d)
    BY <1>1, <2>5, <2>7, HandlesThen
  <2>9. Handles(u, unit[u], q)
    BY <1>1, <2>6, <2>8, HandlesThen
  <2>10. ToldOf(q)
    BY <2>5, <2>6, <2>8, ToldKept DEF Handles
  <2>11. QED
    BY <1>3, <2>1, <2>6, <2>9, <2>10
<1>4. QED
  BY <1>2, <1>3

-------------------------------------------------------------------------------
(* TlsCertificates: every step preserves the invariant *)

\* A unit's record changes.
LEMMA UnitBecomes ==
  ASSUME TlsInv, NEW u \in TlsUnits, NEW q,
         Handles(u, unit[u], q), Becomes(u, q),
         UNCHANGED <<related, issued, ages>>, tlsChanges' \in Nat,
         unitEvents' \subseteq TlsUnits, unitEvents \ {u} \subseteq unitEvents',
         u \notin unitEvents' => AsksAsWanted(q) /\ ToldOf(q),
         ~related => q.requests = {}
  PROVE  TlsInv'
<1> USE DEF TlsInv, Becomes
<1>1. /\ q \in Unit /\ unit'[u] = q /\ unit[u].drawn <= q.drawn
      /\ \A v \in TlsUnits \ {u} : unit'[v] = unit[v]
      /\ unit' \in [TlsUnits -> Unit]
  BY DEF Handles, Keeps, TlsTypeOK
<1>2. TlsTypeOK'
  BY <1>1 DEF TlsTypeOK
<1>3. AnswersDrawn'
  <2>1. \A v \in TlsUnits : unit[v].drawn \in Nat /\ unit'[v].drawn \in Nat
                              /\ unit[v].drawn <= unit'[v].drawn
    <3>1. \A v \in TlsUnits : unit[v] \in Unit /\ unit'[v] \in Unit
      BY <1>1 DEF TlsTypeOK
    <3>2. \A v \in TlsUnits : unit[v].drawn \in Nat /\ unit'[v].drawn \in Nat
      BY <3>1 DEF Unit
    <3>3. QED
      BY <1>1, <3>2
  <2>2. \A c \in issued : c.csr.id \in Nat
    BY DEF TlsTypeOK, Certificate, Csr
  <2>3. QED
    BY <2>1, <2>2 DEF AnswersDrawn
<1>4. OneAnswer'
  BY DEF OneAnswer
<1>5. \A v \in TlsUnits : Keeps(v, unit[v])'
  <2>1. \A v \in TlsUnits : Keeps(v, unit'[v])
    BY <1>1 DEF Handles
  <2>2. QED
    BY <2>1 DEF Keeps, RequestsByKey, OnePerAttributes, SecretsTold
<1>6. \A v \in TlsUnits \ unitEvents' : AsksAsWanted(unit'[v]) /\ ToldOf(unit'[v])
  BY <1>1
<1>7. \A v \in TlsUnits \ unitEvents' : (AsksAsWanted(unit[v]) /\ ToldOf(unit[v]))'
  BY <1>6 DEF AsksAsWanted, ToldOf
<1>8. ~related' => issued' = {} /\ \A v \in TlsUnits : unit'[v].requests = {}
  BY <1>1
<1>9. QED
  BY <1>2, <1>3, <1>4, <1>5, <1>7, <1>8

LEMMA UnitHooks ==
  ASSUME TlsInv, NEW u \in TlsUnits, UnitHook(u)
  PROVE  TlsInv'
<1>1. tlsChanges' \in Nat /\ unitEvents' \subseteq TlsUnits
  BY DEF UnitHook, TlsInv, TlsTypeOK
<1>2. QED
  BY <1>1, ConfiguredHandles, UnitBecomes DEF UnitHook

\* The secret expired, or the charm renews.
LEMMA Renews ==
  ASSUME TlsInv, NEW u \in TlsUnits,
         \/ \E s \in unit[u].secrets : SecretExpired(u, s)
         \/ \E c \in issued : RenewCertificate(u, c)
  PROVE  TlsInv'
<1>1. PICK s, csr : Becomes(u, [Renew(unit[u], csr) EXCEPT !.secrets = @ \ {s}])
  BY DEF SecretExpired, RenewCertificate
<1>2. UNCHANGED <<related, issued, ages, unitEvents>> /\ tlsChanges' \in Nat
  <2>1. tlsChanges \in Nat
    BY DEF TlsInv, TlsTypeOK
  <2>2. CASE \E x \in unit[u].secrets : SecretExpired(u, x)
    BY <2>1, <2>2 DEF SecretExpired
  <2>3. CASE \E c \in issued : RenewCertificate(u, c)
    BY <2>1, <2>3 DEF RenewCertificate, TlsChange
  <2>4. QED
    BY <2>2, <2>3
<1>3. Keeps(u, unit[u])
  BY DEF TlsInv
<1> DEFINE r == Renew(unit[u], csr)
           q == [r EXCEPT !.secrets = @ \ {s}]
<1>4. Handles(u, unit[u], r) /\ (AsksAsWanted(unit[u]) => AsksAsWanted(r))
  BY <1>3, RenewHandles DEF Renew
<1>5. ~related => r.requests = {}
  <2>1. ~related => r = [unit[u] EXCEPT !.requests = @ \ {csr}]
    BY DEF Renew, Send
  <2>2. unit[u] \in Unit
    BY DEF TlsInv, TlsTypeOK
  <2>3. QED
    BY <2>1, <2>2 DEF TlsInv, Unit
<1> HIDE DEF r
<1>6. Keeps(u, r)
  BY <1>4 DEF Handles
<1>7. /\ Handles(u, r, q) /\ q.requests = r.requests
      /\ AsksAsWanted(r) => AsksAsWanted(q)
  BY <1>6, SecretHandles
<1> HIDE DEF q
<1>8. Handles(u, unit[u], q)
  BY <1>3, <1>4, <1>7, HandlesThen
<1>9. unit[u].drawn <= unit[u].drawn
  BY DEF TlsInv, TlsTypeOK, Unit
<1>10. u \notin unitEvents => AsksAsWanted(q) /\ ToldOf(q)
  BY <1>3, <1>4, <1>7, <1>8, <1>9, ToldKept DEF TlsInv
<1>11. Becomes(u, q)
  BY <1>1 DEF q, r
<1>12. unitEvents \subseteq TlsUnits
  BY DEF TlsInv, TlsTypeOK
<1>13. QED
  BY <1>2, <1>5, <1>7, <1>8, <1>10, <1>11, <1>12, UnitBecomes

\* With a new key every request is another's.
LEMMA NewKey ==
  ASSUME TlsInv, NEW u \in TlsUnits, RegeneratePrivateKey(u)
  PROVE  TlsInv'
<1> DEFINE r == unit[u]
           k == [r EXCEPT !.key = @ + 1]
           p == Cleanup(k)
           q == Send(p)
<1>1. Keeps(u, r) /\ r \in Unit /\ r.key # NoKey /\ r.key \in Nat
  BY DEF TlsInv, RegeneratePrivateKey, Keeps, Unit
<1>2. /\ k \in Unit /\ k.name = r.name /\ k.key = r.key + 1 /\ k.wanted = r.wanted
      /\ k.secrets = r.secrets /\ k.told = r.told /\ k.drawn = r.drawn
      /\ k.requests = r.requests
  BY <1>1 DEF Unit
<1> HIDE DEF k
<1>3. /\ p \in Unit /\ p.name = k.name /\ p.key = k.key /\ p.wanted = k.wanted
      /\ p.secrets = k.secrets /\ p.told = k.told /\ p.drawn = k.drawn
      /\ p.requests = {csr \in k.requests :
                         MatchesRequest(k, csr) /\ (k.key # NoKey => MatchesKey(k, csr))}
  BY <1>2 DEF Cleanup, Unit
<1> HIDE DEF p
<1>4. p.requests = {}
  BY <1>1, <1>2, <1>3 DEF Keeps, RequestsByKey, MatchesKey, NoKey
<1>5. Handles(u, r, p)
  <2>1. r.drawn \in Nat
    BY <1>1 DEF Unit
  <2>2. QED
    BY <1>1, <1>2, <1>3, <1>4, <2>1
    DEF Keeps, Handles, RequestsByKey, OnePerAttributes, SecretsTold
<1>6. /\ Keeps(u, p) /\ AsksAsWanted(p) /\ ToldOf(p)
  BY <1>4, <1>5 DEF Handles, AsksAsWanted, ToldOf
<1>7. Handles(u, p, q) /\ AsksAsWanted(q) /\ (~related => q = p)
  BY <1>6, SendHandles
<1> HIDE DEF q
<1>8. Handles(u, r, q)
  BY <1>1, <1>5, <1>7, HandlesThen
<1>9. ToldOf(q)
  BY <1>5, <1>6, <1>7, ToldKept DEF Handles
<1>10. Becomes(u, q) /\ UNCHANGED <<related, issued, ages, unitEvents>>
  BY DEF RegeneratePrivateKey, q, p, k
<1>11. unitEvents \subseteq TlsUnits /\ tlsChanges' \in Nat
  BY DEF TlsInv, TlsTypeOK, RegeneratePrivateKey, TlsChange
<1> HIDE DEF r
<1>12. QED
  BY <1>4, <1>7, <1>8, <1>9, <1>10, <1>11, UnitBecomes DEF r

\* The provider publishes.
LEMMA ProviderPublishes ==
  ASSUME TlsInv, NEW certificates \in SUBSET Certificate, Publishes(certificates),
         UNCHANGED <<related, unit>>, ages' \in Seq(Ages),
         providerEvent' \in BOOLEAN, tlsChanges' \in Nat,
         ~related => certificates = {},
         \A c \in certificates : /\ c.csr.unit \in TlsUnits
                                 /\ c.csr.id <= unit[c.csr.unit].drawn,
         \A c, d \in certificates : c.csr = d.csr => c = d
  PROVE  TlsInv'
<1> USE DEF TlsInv, Publishes
<1>1. TlsTypeOK'
  BY DEF TlsTypeOK
<1>2. AnswersDrawn' /\ OneAnswer'
  BY DEF AnswersDrawn, OneAnswer
<1>3. \A u \in TlsUnits : Keeps(u, unit[u])'
  BY DEF Keeps, RequestsByKey, OnePerAttributes, SecretsTold
<1>4. \A u \in TlsUnits \ unitEvents' : (AsksAsWanted(unit[u]) /\ ToldOf(unit[u]))'
  <2>1. CASE certificates = issued
    BY <2>1 DEF AsksAsWanted, ToldOf
  <2>2. CASE certificates # issued
    BY <2>2
  <2>3. QED
    BY <2>1, <2>2
<1>5. QED
  BY <1>1, <1>2, <1>3, <1>4

LEMMA ProviderHooks == ASSUME TlsInv, ProviderHook PROVE TlsInv'
<1>1. issued \ UnsolicitedCertificates \subseteq issued
  OBVIOUS
<1>2. ages' \in Seq(Ages) /\ tlsChanges' \in Nat /\ issued \subseteq Certificate
  BY DEF TlsInv, TlsTypeOK, ProviderHook
<1>3. QED
  BY <1>1, <1>2, ProviderPublishes DEF TlsInv, AnswersDrawn, OneAnswer, ProviderHook

LEMMA ProviderSigns ==
  ASSUME TlsInv, NEW csr \in CertificateRequests, SetRelationCertificate(csr)
  PROVE  TlsInv'
<1> DEFINE c == [csr |-> csr, serial |-> Len(ages) + 1, revoked |-> FALSE]
<1>1. PICK u \in TlsUnits : csr \in unit[u].requests
  BY DEF CertificateRequests
<1>2. csr \in Csr /\ csr.unit = u /\ csr.id <= unit[u].drawn /\ related
  BY <1>1 DEF TlsInv, Keeps, RequestsByKey, Unit
<1>3. ages \in Seq(Ages) /\ "fresh" \in Ages
  BY DEF TlsInv, TlsTypeOK, Ages
<1>4. ages' \in Seq(Ages) /\ Len(ages) + 1 \in Nat
  BY <1>3, AppendProperties, LenProperties DEF SetRelationCertificate
<1>5. c \in Certificate /\ c.csr = csr
  BY <1>2, <1>4 DEF Certificate
<1>6. Publishes(WithCertificate(c)) /\ UNCHANGED <<related, unit, providerEvent, tlsChanges>>
  BY DEF SetRelationCertificate
<1> HIDE DEF c
<1>7. WithCertificate(c) \subseteq Certificate
  BY <1>5 DEF WithCertificate, TlsInv, TlsTypeOK
<1>8. \A d \in WithCertificate(c) :
        d.csr.unit \in TlsUnits /\ d.csr.id <= unit[d.csr.unit].drawn
  BY <1>2, <1>5 DEF WithCertificate, TlsInv, AnswersDrawn
<1>9. \A d, e \in WithCertificate(c) : d.csr = e.csr => d = e
  BY <1>5 DEF WithCertificate, TlsInv, OneAnswer
<1>10. providerEvent' \in BOOLEAN /\ tlsChanges' \in Nat
  BY <1>6 DEF TlsInv, TlsTypeOK
<1>11. QED
  BY <1>2, <1>4, <1>6, <1>7, <1>8, <1>9, <1>10, ProviderPublishes

LEMMA ProviderRevokes == ASSUME TlsInv, RevokeAllCertificates PROVE TlsInv'
<1> DEFINE revoked == {[c EXCEPT !.revoked = TRUE] : c \in issued}
<1>1. \A c \in issued : /\ [c EXCEPT !.revoked = TRUE] \in Certificate
                        /\ [c EXCEPT !.revoked = TRUE].csr = c.csr
  BY DEF TlsInv, TlsTypeOK, Certificate
<1>2. revoked \subseteq Certificate
  BY <1>1
<1>3. \A d \in revoked : d.csr.unit \in TlsUnits /\ d.csr.id <= unit[d.csr.unit].drawn
  BY <1>1 DEF TlsInv, AnswersDrawn
<1>4. \A d, e \in revoked : d.csr = e.csr => d = e
  <2> SUFFICES ASSUME NEW b \in issued, NEW c \in issued,
                      [b EXCEPT !.revoked = TRUE].csr = [c EXCEPT !.revoked = TRUE].csr
               PROVE  b = c
    OBVIOUS
  <2>1. QED
    BY <1>1 DEF TlsInv, OneAnswer
<1>5. related /\ ages' \in Seq(Ages) /\ providerEvent' \in BOOLEAN /\ tlsChanges' \in Nat
  BY DEF TlsInv, TlsTypeOK, RevokeAllCertificates, TlsChange
<1>6. Publishes(revoked) /\ UNCHANGED <<related, unit>>
  BY DEF RevokeAllCertificates
<1> HIDE DEF revoked
<1>7. QED
  BY <1>2, <1>3, <1>4, <1>5, <1>6, ProviderPublishes

LEMMA TlsDeployment ==
  ASSUME TlsInv, TlsRelate \/ TlsUnrelate \/ \E serial \in 1..Len(ages) : TimePasses(serial)
  PROVE  TlsInv'
<1>1. CASE TlsRelate
  BY <1>1 DEF TlsRelate, TlsChange, TlsInv, TlsTypeOK, AnswersDrawn, OneAnswer, Keeps,
              RequestsByKey, OnePerAttributes, SecretsTold
<1>2. CASE TlsUnrelate
  <2> USE <1>2 DEF TlsUnrelate
  <2>1. \A u \in TlsUnits :
          /\ unit'[u] \in Unit /\ unit'[u].name = u /\ unit'[u].requests = {}
          /\ unit'[u].secrets = unit[u].secrets /\ unit'[u].told = unit[u].told
    <3> TAKE u \in TlsUnits
    <3>1. unit[u] \in Unit /\ unit[u].name = u
      BY DEF TlsInv, Keeps
    <3>2. unit'[u] = [unit[u] EXCEPT !.requests = {}]
      OBVIOUS
    <3>3. QED
      BY <3>1, <3>2 DEF Unit
  <2>2. TlsTypeOK'
    <3>1. unit' \in [TlsUnits -> Unit]
      BY <2>1
    <3>2. tlsChanges' \in Nat /\ ages' \in Seq(Ages)
      BY DEF TlsInv, TlsTypeOK, TlsChange
    <3>3. QED
      BY <3>1, <3>2 DEF TlsTypeOK
  <2>3. AnswersDrawn' /\ OneAnswer'
    BY DEF AnswersDrawn, OneAnswer
  <2>4. \A u \in TlsUnits : Keeps(u, unit[u])'
    BY <2>1 DEF TlsInv, Keeps, RequestsByKey, OnePerAttributes, SecretsTold
  <2>5. \A u \in TlsUnits : (AsksAsWanted(unit[u]) /\ ToldOf(unit[u]))'
    BY <2>1 DEF AsksAsWanted, ToldOf
  <2>6. QED
    BY <2>1, <2>2, <2>3, <2>4, <2>5 DEF TlsInv
<1>3. CASE \E serial \in 1..Len(ages) : TimePasses(serial)
  <2>1. PICK serial \in 1..Len(ages) : TimePasses(serial)
    BY <1>3
  <2>2. ages \in Seq(Ages) /\ ages[serial] \in Ages \ {"expired"}
    BY <2>1 DEF TlsInv, TlsTypeOK, TimePasses
  <2>3. Older[ages[serial]] \in Ages
    BY <2>2 DEF Older, Ages
  <2>4. ages' \in Seq(Ages)
    BY <2>1, <2>2, <2>3, ExceptSeq DEF TimePasses
  <2>5. UNCHANGED <<related, unit, issued, unitEvents, providerEvent>> /\ tlsChanges' \in Nat
    BY <2>1 DEF TimePasses, TlsChange, TlsInv, TlsTypeOK
  <2>6. QED
    BY <2>4, <2>5 DEF TlsInv, TlsTypeOK, AnswersDrawn, OneAnswer, Keeps, RequestsByKey,
                      OnePerAttributes, SecretsTold, AsksAsWanted, ToldOf
<1>4. QED
  BY <1>1, <1>2, <1>3

LEMMA NewAttributes ==
  ASSUME TlsInv, NEW u \in TlsUnits, NEW a \in TlsAttributes, ChangeAttributes(u, a)
  PROVE  TlsInv'
<1> USE DEF TlsInv, ChangeAttributes
<1>1. /\ unit'[u] \in Unit /\ unit'[u].name = u /\ unit'[u].key = unit[u].key
      /\ unit'[u].requests = unit[u].requests /\ unit'[u].secrets = unit[u].secrets
      /\ unit'[u].told = unit[u].told /\ unit'[u].drawn = unit[u].drawn
  BY DEF TlsTypeOK, Unit, Keeps
<1>2. \A v \in TlsUnits \ {u} : unit'[v] = unit[v]
  BY DEF TlsTypeOK
<1>3. TlsTypeOK'
  BY <1>1 DEF TlsTypeOK, TlsChange
<1>4. AnswersDrawn' /\ OneAnswer'
  BY <1>1, <1>2 DEF AnswersDrawn, OneAnswer
<1>5. \A v \in TlsUnits : Keeps(v, unit[v])'
  <2>1. Keeps(u, unit'[u])
    BY <1>1 DEF Keeps, RequestsByKey, OnePerAttributes, SecretsTold
  <2>2. \A v \in TlsUnits : Keeps(v, unit'[v])
    BY <1>2, <2>1
  <2>3. QED
    BY <2>2 DEF Keeps, RequestsByKey, OnePerAttributes, SecretsTold
<1>6. \A v \in TlsUnits \ unitEvents' : (AsksAsWanted(unit[v]) /\ ToldOf(unit[v]))'
  BY <1>2 DEF AsksAsWanted, ToldOf
<1>7. QED
  BY <1>1, <1>2, <1>3, <1>4, <1>5, <1>6

LEMMA InitTls == TlsInit => TlsInv
<1> SUFFICES ASSUME TlsInit PROVE TlsInv
  OBVIOUS
<1>1. \A u \in TlsUnits :
        /\ unit[u] \in Unit /\ unit[u].name = u /\ unit[u].requests = {}
        /\ unit[u].secrets = {}
  <2>1. PICK a \in TlsAttributes :
          unit = [u \in TlsUnits |->
                   [name |-> u, key |-> NoKey, wanted |-> a, requests |-> {},
                    secrets |-> {}, told |-> {}, drawn |-> 0]]
    BY DEF TlsInit
  <2>2. QED
    BY <2>1 DEF Unit, NoKey
<1>2. TlsTypeOK
  <2>1. unit \in [TlsUnits -> Unit]
    BY <1>1 DEF TlsInit
  <2>2. ages \in Seq(Ages)
    BY DEF TlsInit
  <2>3. QED
    BY <2>1, <2>2, TlsAssumption DEF TlsInit, TlsTypeOK
<1>3. QED
  BY <1>1, <1>2 DEF TlsInit, TlsInv, AnswersDrawn, OneAnswer, Keeps, RequestsByKey,
                    OnePerAttributes, SecretsTold, AsksAsWanted, ToldOf

LEMMA NextTls == TlsInv /\ [TlsNext]_tlsVars => TlsInv'
<1> SUFFICES ASSUME TlsInv, [TlsNext]_tlsVars PROVE TlsInv'
  OBVIOUS
<1>1. CASE UNCHANGED tlsVars
  BY <1>1 DEF tlsVars, TlsInv, TlsTypeOK, AnswersDrawn, OneAnswer, Keeps, RequestsByKey,
              OnePerAttributes, SecretsTold, AsksAsWanted, ToldOf
<1>2. CASE \/ TlsRelate \/ TlsUnrelate \/ RevokeAllCertificates \/ ProviderHook
           \/ \E serial \in 1..Len(ages) : TimePasses(serial)
  BY <1>2, TlsDeployment, ProviderRevokes, ProviderHooks
<1>3. ASSUME NEW u \in TlsUnits,
             \/ UnitHook(u) \/ RegeneratePrivateKey(u)
             \/ \E s \in unit[u].secrets : SecretExpired(u, s)
             \/ \E c \in issued : RenewCertificate(u, c)
             \/ \E a \in TlsAttributes : ChangeAttributes(u, a)
      PROVE  TlsInv'
  BY <1>3, UnitHooks, NewKey, Renews, NewAttributes
<1>4. ASSUME NEW csr \in CertificateRequests, SetRelationCertificate(csr)
      PROVE  TlsInv'
  BY <1>4, ProviderSigns
<1>5. QED
  BY <1>1, <1>2, <1>3, <1>4 DEF TlsNext

LEMMA TlsInvariant == TlsSpec => []TlsInv
BY InitTls, NextTls, PTL DEF TlsSpec

-------------------------------------------------------------------------------
(* TlsCertificates: the theorems *)

\* The types of what units and provider keep (tls_certificates.py).
THEOREM TlsTypes == TlsSpec => []TlsTypeOK
<1>1. TlsInv => TlsTypeOK
  BY DEF TlsInv
<1>2. QED
  BY <1>1, TlsInvariant, PTL

\* One request stands for what a unit wants, and has one answer, however
\* renewals, new keys, new attributes and revocations interleave
\* (_send_certificate_requests, _cleanup_certificate_requests and
\* set_relation_certificate, tls_certificates.py).
THEOREM RequestsAreAnsweredOnce == TlsSpec => []OneOfEach
<1>1. TlsInv => OneOfEach
  <2> SUFFICES ASSUME TlsInv PROVE OneRequest
    BY DEF TlsInv, OneOfEach
  <2>1. \A u \in TlsUnits : \A a, b \in unit[u].requests :
          MatchesRequest(unit[u], a) /\ MatchesRequest(unit[u], b) => a = b
    BY DEF TlsInv, Keeps, OnePerAttributes, MatchesRequest
  <2>2. QED
    BY <2>1 DEF TlsInv, OneRequest, AsksAsWanted
<1>2. QED
  BY <1>1, TlsInvariant, PTL

\* A unit that has handled its events was told of the certificate it serves
\* (_find_available_certificates): also of one signed for a request that was
\* answered before.
THEOREM UnitsAreTold == TlsSpec => []ToldOfAssigned
<1>1. TlsInv => ToldOfAssigned
  BY DEF TlsInv, ToldOfAssigned, ToldOf, Assigned
<1>2. QED
  BY <1>1, TlsInvariant, PTL

\* A secret of a request that was replaced expires without taking back the
\* request that stands (_on_secret_expired).
THEOREM OldSecretsExpire == TlsSpec => StaleSecretsHarmless
<1>1. TlsInv => ExpiresHarmlessly
  <2> SUFFICES ASSUME TlsInv, NEW u \in TlsUnits, NEW s \in unit[u].secrets,
                      SecretExpired(u, s), Requested(unit[u]),
                      s.csr \notin unit[u].requests
               PROVE  unit'[u].requests = unit[u].requests
    BY DEF ExpiresHarmlessly
  <2> DEFINE r == unit[u]
             p == [r EXCEPT !.requests = @ \ {s.csr}]
  <2>1. r \in Unit
    BY DEF TlsInv, TlsTypeOK
  <2>2. p = r
    BY <2>1 DEF Unit
  <2>3. Renew(r, s.csr) = r
    BY <2>2 DEF Renew, Send
  <2>4. unit'[u] = [r EXCEPT !.secrets = @ \ {s}]
    BY <2>3 DEF SecretExpired, Becomes, TlsInv, TlsTypeOK
  <2>5. QED
    BY <2>1, <2>4 DEF Unit
<1>2. QED
  BY <1>1, TlsInvariant, PTL DEF StaleSecretsHarmless

-------------------------------------------------------------------------------
(* IngressPerApp: the invariant *)

\* current_url is what the charm was last told.
StoredIsTold == ingStored = ingTold

\* Nothing is left of a relation that is gone but the news of its end, and that
\* is heard before another comes.
IngressGone ==
  /\ ~ingRelated => ~ingApp /\ ingHosts = {} /\ ingUrl = NoUrl /\ ingEvents = {}
  /\ ingRevoked # {} \/ ingProvider = "broken" => ~ingRelated
  /\ ingProvider = "changed" => ingRelated

IngressInv ==
  /\ IngressDataOK /\ StoredIsTold /\ IngressGone
  /\ UrlAnnounced /\ RoutesToUnits

USE IngressAssumption

LEMMA InitIngress == IngressInit => IngressInv
<1> SUFFICES ASSUME IngressInit PROVE IngressInv
  OBVIOUS
<1> USE DEF IngressInit
<1>1. IngressDataOK /\ StoredIsTold
  BY DEF IngressDataOK, StoredIsTold
<1>2. IngressGone
  BY DEF IngressGone
<1>3. UrlAnnounced /\ RoutesToUnits
  BY DEF UrlAnnounced, RoutesToUnits
<1>4. QED
  BY <1>1, <1>2, <1>3 DEF IngressInv

-------------------------------------------------------------------------------
(* IngressPerApp: every step preserves it *)

\* _provide_ingress_requirements, of a unit that is there: the provider has an
\* event when what it wrote is news.
LEMMA PublishesAutoData ==
  ASSUME IngressInv, NEW u \in ingUnits, PublishAutoData(u),
         UNCHANGED <<ingRelated, ingUnits, ingUrl, ingProxied>>
  PROVE  /\ ingApp' \in BOOLEAN /\ ingHosts' \subseteq ingUnits
         /\ ingProvider' \in {"none", "changed", "broken"}
         /\ ~ingRelated => UNCHANGED <<ingApp, ingHosts, ingProvider>>
         /\ ingProvider' = "broken" => ingProvider = "broken"
         /\ RoutesToUnits'
<1> USE DEF IngressInv, IngressDataOK, PublishAutoData
<1>1. ~ingRelated => UNCHANGED <<ingApp, ingHosts, ingProvider>>
  OBVIOUS
<1>2. RoutesToUnits'
  BY DEF RoutesToUnits, ProviderIsReady
<1>3. QED
  BY <1>1, <1>2

LEMMA IngressHandles ==
  ASSUME IngressInv, NEW u \in IngressUnits, IngressHandleRelation(u)
  PROVE  IngressInv'
<1> USE DEF IngressInv, IngressDataOK, IngressHandleRelation, ingDeployment, ingKnown
<1>1. u \in ingUnits /\ ingRelated
  BY DEF IngressGone
<1>2. ingStored' \in [IngressUnits -> IngressUrls \cup {NoUrl}]
  OBVIOUS
<1>3. IngressDataOK' /\ RoutesToUnits'
  BY <1>1, <1>2, PublishesAutoData
<1>4. StoredIsTold'
  BY DEF StoredIsTold
<1>5. IngressGone'
  BY <1>1, PublishesAutoData DEF IngressGone
<1>6. UrlAnnounced'
  BY <1>1 DEF UrlAnnounced, RequirerIsReady, StoredIsTold
<1>7. QED
  BY <1>3, <1>4, <1>5, <1>6

LEMMA IngressEnds ==
  ASSUME IngressInv, NEW u \in IngressUnits, IngressBroken(u)
  PROVE  IngressInv'
<1> USE DEF IngressInv, IngressDataOK, IngressBroken, ingDeployment, ingPublished
<1>1. ~ingRelated /\ ingUrl = NoUrl
  BY DEF IngressGone
<1>2. IngressDataOK' /\ StoredIsTold' /\ IngressGone'
  BY DEF StoredIsTold, Forgotten, IngressGone
<1>3. UrlAnnounced'
  BY <1>1 DEF UrlAnnounced, StoredIsTold
<1>4. RoutesToUnits'
  BY DEF RoutesToUnits, ProviderIsReady
<1>5. QED
  BY <1>2, <1>3, <1>4

LEMMA IngressLeads ==
  ASSUME IngressInv, NEW u \in IngressUnits, IngressElected(u) \/ ElectIngressLeader(u)
  PROVE  IngressInv'
<1> USE DEF IngressInv, IngressDataOK
<1>1. CASE IngressElected(u)
  <2> USE <1>1 DEF IngressElected, UpgradeOrLeader, ingKnown
  <2>1. u \in ingUnits
    BY DEF LeadsIngress
  <2>2. IngressDataOK' /\ RoutesToUnits'
    BY <2>1, PublishesAutoData
  <2>3. StoredIsTold' /\ UrlAnnounced'
    BY DEF StoredIsTold, UrlAnnounced
  <2>4. IngressGone'
    BY <2>1, PublishesAutoData DEF IngressGone, PublishAutoData
  <2>5. QED
    BY <2>2, <2>3, <2>4
<1>2. CASE ElectIngressLeader(u)
  BY <1>2 DEF ElectIngressLeader, ingPublished, ingKnown, ingQueues, StoredIsTold,
              IngressGone, UrlAnnounced, RoutesToUnits, ProviderIsReady
<1>3. QED
  BY <1>1, <1>2

LEMMA IngressProvider ==
  ASSUME IngressInv, ProviderHandleRelation \/ ProviderBroken
  PROVE  IngressInv'
<1> USE DEF IngressInv, IngressDataOK, ingDeployment, ingPublished, ingKnown
<1>1. CASE ProviderHandleRelation
  <2> USE <1>1 DEF ProviderHandleRelation
  <2>1. ingRelated
    BY DEF IngressGone
  <2>2. /\ ingUrl' \in IngressUrls \cup {NoUrl}
        /\ (ingEvents' = ingEvents /\ ingUrl' = ingUrl) \/ ingEvents' = ingUnits
    BY DEF TellIngressUnits
  <2>3. IngressDataOK' /\ StoredIsTold' /\ IngressGone'
    BY <2>1, <2>2 DEF StoredIsTold, IngressGone
  <2>4. UrlAnnounced'
    BY <2>1, <2>2 DEF UrlAnnounced
  <2>5. RoutesToUnits'
    BY <2>1 DEF RoutesToUnits, ProviderIsReady
  <2>6. QED
    BY <2>3, <2>4, <2>5
<1>2. CASE ProviderBroken
  BY <1>2 DEF ProviderBroken, StoredIsTold, IngressGone, UrlAnnounced, RoutesToUnits
<1>3. QED
  BY <1>1, <1>2

LEMMA IngressUrlChanges ==
  ASSUME IngressInv,
         \/ WipeIngressData
         \/ \E url \in IngressUrls : ChangeUrl(url) \/ RestoreUrl(url)
  PROVE  IngressInv'
<1> USE DEF IngressInv, IngressDataOK
<1>1. UNCHANGED <<ingDeployment, ingApp, ingHosts, ingProxied, ingKnown, ingRevoked,
                  ingProvider>>
  BY DEF WipeIngressData, ChangeUrl, RestoreUrl, PublishUrl
<1>2. ingRelated /\ ingUrl' \in IngressUrls \cup {NoUrl} /\ TellIngressUnits(ingUrl')
  BY DEF WipeIngressData, ChangeUrl, RestoreUrl, PublishUrl, IngressGone
<1>3. QED
  BY <1>1, <1>2 DEF TellIngressUnits, ingDeployment, ingKnown, StoredIsTold, IngressGone,
                    UrlAnnounced, RoutesToUnits, ProviderIsReady

LEMMA IngressRelation ==
  ASSUME IngressInv, RelateIngress \/ RemoveIngress
  PROVE  IngressInv'
BY DEF RelateIngress, RemoveIngress, IngressInv, IngressDataOK, ingPublished, ingKnown,
       StoredIsTold, IngressGone, UrlAnnounced, RoutesToUnits

LEMMA IngressScales ==
  ASSUME IngressInv, NEW u \in IngressUnits, AddIngressUnit(u) \/ RemoveIngressUnit(u)
  PROVE  IngressInv'
<1> USE DEF IngressInv, IngressDataOK, ingPublished, ingKnown
<1>1. CASE AddIngressUnit(u)
  <2> USE <1>1 DEF AddIngressUnit
  <2>1. IngressDataOK'
    OBVIOUS
  <2>2. StoredIsTold' /\ IngressGone'
    BY DEF StoredIsTold, IngressGone
  <2>3. UrlAnnounced'
    BY DEF UrlAnnounced, IngressGone, StoredIsTold
  <2>4. RoutesToUnits'
    BY DEF RoutesToUnits
  <2>5. QED
    BY <2>1, <2>2, <2>3, <2>4
<1>2. CASE RemoveIngressUnit(u)
  <2> USE <1>2 DEF RemoveIngressUnit, ProviderDeparted, LeadsIngress
  <2>1. IngressDataOK'
    OBVIOUS
  <2>2. StoredIsTold' /\ IngressGone'
    BY DEF StoredIsTold, IngressGone
  <2>3. UrlAnnounced'
    BY DEF UrlAnnounced
  <2>4. RoutesToUnits'
    BY DEF RoutesToUnits
  <2>5. QED
    BY <2>1, <2>2, <2>3, <2>4
<1>3. QED
  BY <1>1, <1>2

LEMMA NextIngress == IngressInv /\ [IngressNext]_ingressVars => IngressInv'
<1> SUFFICES ASSUME IngressInv, [IngressNext]_ingressVars PROVE IngressInv'
  OBVIOUS
<1>1. CASE UNCHANGED ingressVars
  BY <1>1 DEF ingressVars, ingDeployment, ingPublished, ingKnown, ingQueues, IngressInv,
              IngressDataOK, StoredIsTold, IngressGone, UrlAnnounced, RoutesToUnits,
              ProviderIsReady
<1>2. CASE RelateIngress \/ RemoveIngress
  BY <1>2, IngressRelation
<1>3. CASE \/ WipeIngressData
           \/ \E url \in IngressUrls : ChangeUrl(url) \/ RestoreUrl(url)
  BY <1>3, IngressUrlChanges
<1>4. CASE ProviderHandleRelation \/ ProviderBroken
  BY <1>4, IngressProvider
<1>5. ASSUME NEW u \in IngressUnits,
             \/ AddIngressUnit(u) \/ RemoveIngressUnit(u) \/ ElectIngressLeader(u)
             \/ IngressHandleRelation(u) \/ IngressBroken(u) \/ IngressElected(u)
      PROVE  IngressInv'
  BY <1>5, IngressScales, IngressLeads, IngressHandles, IngressEnds
<1>6. QED
  BY <1>1, <1>2, <1>3, <1>4, <1>5 DEF IngressNext

\* The two ends of the ingress relation agree, each once it has handled its
\* events (traefik_k8s/v2/ingress.py): current_url, which keeps a URL from being
\* announced twice, never keeps one from being announced at all, and what
\* the provider routes to is what there is.
THEOREM IngressAgrees == IngressSpec => []IngressAgreed
<1>1. IngressInv => IngressAgreed
  BY DEF IngressInv, IngressAgreed
<1>2. QED
  BY <1>1, InitIngress, NextIngress, PTL DEF IngressSpec

-------------------------------------------------------------------------------
(* ScrapeTargets: what is published is scraped, under names of its own *)

ScrapeJob(j) ==
  /\ j = [app |-> j.app, job |-> j.job, unit |-> j.unit, at |-> j.at, hashes |-> j.hashes]
  /\ j.hashes \in Nat
Placed(placed) == \A p \in placed : ScrapeJob(p.job)

USE ScrapeAssumption

\* What _dedupe_job_names makes of a job, but for its name.
Renamed(e, j) == e.at = j.at /\ e.unit = j.unit

LEMMA DedupeKeeps ==
  ASSUME NEW placed, Placed(placed)
  PROVE  /\ \A e \in DedupeJobNames(placed) : ScrapeJob(e)
         /\ \A p \in placed : \E e \in DedupeJobNames(placed) : Renamed(e, p.job)
<1> DEFINE clash(p) == \E q \in placed \ {p} : JobName(q.job) = JobName(p.job)
           name(p) == [p.job EXCEPT !.hashes = @ + IF clash(p) THEN 1 ELSE 0]
<1>1. DedupeJobNames(placed) = {name(p) : p \in placed}
  BY DEF DedupeJobNames
<1>2. \A p \in placed : ScrapeJob(name(p)) /\ Renamed(name(p), p.job)
  <2> SUFFICES ASSUME NEW p \in placed
               PROVE  ScrapeJob(name(p)) /\ Renamed(name(p), p.job)
    OBVIOUS
  <2> DEFINE j == p.job
             more == IF clash(p) THEN 1 ELSE 0
  <2>1. ScrapeJob(j) /\ more \in Nat
    BY DEF Placed
  <2>2. name(p) = [j EXCEPT !.hashes = @ + more]
    OBVIOUS
  <2> HIDE DEF j, more, name
  <2>3. name(p) = [app |-> j.app, job |-> j.job, unit |-> j.unit, at |-> j.at,
                   hashes |-> j.hashes + more]
    BY <2>1, <2>2 DEF ScrapeJob
  <2>4. QED
    BY <2>1, <2>3 DEF ScrapeJob, Renamed, j
<1> HIDE DEF name
<1>3. QED
  BY <1>1, <1>2

\* Two jobs never come out of it with one name: the hash tells those apart that
\* shared theirs.
LEMMA DedupeSeparates ==
  ASSUME NEW placed, Placed(placed),
         NEW j \in DedupeJobNames(placed), NEW k \in DedupeJobNames(placed),
         JobName(j) = JobName(k)
  PROVE  j = k
<1> DEFINE clash(p) == \E q \in placed \ {p} : JobName(q.job) = JobName(p.job)
           name(p) == [p.job EXCEPT !.hashes = @ + IF clash(p) THEN 1 ELSE 0]
<1>1. DedupeJobNames(placed) = {name(p) : p \in placed}
  BY DEF DedupeJobNames
<1>2. PICK p \in placed : j = name(p)
  BY <1>1
<1>3. PICK q \in placed : k = name(q)
  BY <1>1
<1>4. (IF j.hashes = 0 THEN {} ELSE {j}) = (IF k.hashes = 0 THEN {} ELSE {k})
  BY DEF JobName
<1>5. CASE j.hashes # 0
  BY <1>4, <1>5
<1>6. CASE j.hashes = 0 /\ k.hashes = 0
  <2>1. ScrapeJob(p.job) /\ ScrapeJob(q.job)
    BY DEF Placed
  <2>2. \A r \in placed : ScrapeJob(r.job) /\ clash(r) => name(r).hashes = r.job.hashes + 1
    <3> SUFFICES ASSUME NEW r \in placed, ScrapeJob(r.job), clash(r)
                 PROVE  name(r).hashes = r.job.hashes + 1
      OBVIOUS
    <3>1. name(r) = [r.job EXCEPT !.hashes = @ + 1]
      OBVIOUS
    <3> HIDE DEF name
    <3>2. QED
      BY <3>1 DEF ScrapeJob
  <2>3. \A r \in placed : ScrapeJob(r.job) /\ ~clash(r) => name(r) = r.job
    <3> SUFFICES ASSUME NEW r \in placed, ScrapeJob(r.job), ~clash(r)
                 PROVE  name(r) = r.job
      OBVIOUS
    <3>1. name(r) = [r.job EXCEPT !.hashes = @ + 0]
      OBVIOUS
    <3> HIDE DEF name
    <3>2. QED
      BY <3>1 DEF ScrapeJob
  <2> HIDE DEF name
  <2>4. ~clash(p) /\ ~clash(q)
    <3> HIDE DEF clash
    <3> QED
      BY <1>2, <1>3, <1>6, <2>1, <2>2 DEF ScrapeJob
  <2>5. j = p.job /\ k = q.job
    BY <1>2, <1>3, <2>1, <2>3, <2>4
  <2>6. QED
    BY <2>4, <2>5
<1>7. QED
  BY <1>4, <1>5, <1>6

\* A published job is expanded into jobs that have all its targets between them.
LEMMA ExpandsAll ==
  ASSUME NEW r, NEW last
  PROVE  /\ \A j \in ExpandTargets(r, last) : ScrapeJob(j)
         /\ \A job \in scPublished[r] :
              /\ \A t \in job.targets \ {Any} :
                   \E j \in ExpandTargets(r, last) : t \in j.at
              /\ Any \in job.targets =>
                   \A u \in RelationHosts(r) :
                     \E j \in ExpandTargets(r, last) :
                       j.unit = u /\ scHosts[r][u] \in j.at
<1> DEFINE owner(job) == [t \in job.targets \ {Any} |-> HostToUnit(r, last, t)]
           per(job) == {ExpandedJob(r, job, u, {scHosts[r][u]}) :
                          u \in IF Any \in job.targets THEN RelationHosts(r) ELSE {}}
           rest(job) ==
             {ExpandedJob(r, job, u, {t \in job.targets \ {Any} : owner(job)[t] = u}) :
                u \in {owner(job)[t] : t \in job.targets \ {Any}}}
<1>1. ExpandTargets(r, last) = UNION {per(job) \cup rest(job) : job \in scPublished[r]}
  BY DEF ExpandTargets
<1>2. \A job, u, at : /\ ScrapeJob(ExpandedJob(r, job, u, at))
                      /\ ExpandedJob(r, job, u, at).at = at
                      /\ ExpandedJob(r, job, u, at).unit = u
  BY DEF ScrapeJob, ExpandedJob
<1>3. \A job : \A j \in per(job) \cup rest(job) : ScrapeJob(j)
  <2> SUFFICES ASSUME NEW job, NEW j \in per(job) \cup rest(job) PROVE ScrapeJob(j)
    OBVIOUS
  <2>1. \E u, at : j = ExpandedJob(r, job, u, at)
    <3>1. CASE j \in per(job)
      BY <3>1
    <3>2. CASE j \in rest(job)
      <4> HIDE DEF owner
      <4>1. PICK u \in {owner(job)[t] : t \in job.targets \ {Any}} :
              j = ExpandedJob(r, job, u, {t \in job.targets \ {Any} : owner(job)[t] = u})
        BY <3>2
      <4>2. QED
        BY <4>1
    <3>3. QED
      BY <3>1, <3>2
  <2>2. QED
    BY <1>2, <2>1
<1>4. \A j \in ExpandTargets(r, last) : ScrapeJob(j)
  <2> HIDE DEF per, rest
  <2> QED
    BY <1>1, <1>3
<1>5. ASSUME NEW job \in scPublished[r], NEW t \in job.targets \ {Any}
      PROVE  \E j \in ExpandTargets(r, last) : t \in j.at
  <2> DEFINE at == {s \in job.targets \ {Any} : owner(job)[s] = owner(job)[t]}
             j == ExpandedJob(r, job, owner(job)[t], at)
  <2>1. j \in rest(job)
    OBVIOUS
  <2>2. t \in j.at
    <3> HIDE DEF owner
    <3>1. t \in at
      OBVIOUS
    <3> HIDE DEF at
    <3>2. QED
      BY <1>2, <3>1
  <2> HIDE DEF per, rest, j
  <2>3. j \in ExpandTargets(r, last)
    BY <1>1, <2>1
  <2>4. QED
    BY <2>2, <2>3
<1>6. ASSUME NEW job \in scPublished[r], Any \in job.targets, NEW u \in RelationHosts(r)
      PROVE  \E j \in ExpandTargets(r, last) : j.unit = u /\ scHosts[r][u] \in j.at
  <2> DEFINE j == ExpandedJob(r, job, u, {scHosts[r][u]})
  <2>1. j \in per(job)
    BY <1>6
  <2>2. j.unit = u /\ scHosts[r][u] \in j.at
    BY <1>2
  <2> HIDE DEF per, rest, j
  <2>3. j \in ExpandTargets(r, last)
    BY <1>1, <2>1
  <2>4. QED
    BY <2>2, <2>3
<1>7. QED
  BY <1>4, <1>5, <1>6

LEMMA StaticKeeps ==
  ASSUME NEW r, NEW last
  PROVE  /\ \A e \in StaticScrapeConfig(r, last) : ScrapeJob(e)
         /\ \A j \in ExpandTargets(r, last) :
              \E e \in StaticScrapeConfig(r, last) : Renamed(e, j)
<1> DEFINE placed == {[from |-> r, job |-> j] : j \in ExpandTargets(r, last)}
<1>1. Placed(placed)
  BY ExpandsAll DEF Placed
<1>2. \A j \in ExpandTargets(r, last) : \E p \in placed : p.job = j
  <2> TAKE j \in ExpandTargets(r, last)
  <2>1. [from |-> r, job |-> j] \in placed
    OBVIOUS
  <2>2. QED
    BY <2>1
<1>3. StaticScrapeConfig(r, last) = DedupeJobNames(placed)
  BY DEF StaticScrapeConfig
<1> HIDE DEF placed
<1>4. QED
  BY <1>1, <1>2, <1>3, DedupeKeeps

\* What Prometheus uses: all that its valid relations offer, named apart.
LEMMA JobsKeep ==
  ASSUME NEW last
  PROVE  /\ \A j, k \in ScrapeJobs(last) : JobName(j) = JobName(k) => j = k
         /\ \A r \in ValidRelations : \A j \in ExpandTargets(r, last) :
              \E e \in ScrapeJobs(last) : Renamed(e, j)
<1> DEFINE placedOf(r) == {[from |-> r, job |-> j] : j \in StaticScrapeConfig(r, last)}
           placed == UNION {placedOf(r) : r \in ValidRelations}
<1>1. Placed(placed)
  BY StaticKeeps DEF Placed
<1>2. ScrapeJobs(last) = DedupeJobNames(placed)
  BY DEF ScrapeJobs
<1>3. \A r \in ValidRelations : \A j \in StaticScrapeConfig(r, last) :
        \E p \in placed : p.job = j
  <2> TAKE r \in ValidRelations
  <2> TAKE j \in StaticScrapeConfig(r, last)
  <2>1. [from |-> r, job |-> j] \in placed
    OBVIOUS
  <2>2. QED
    BY <2>1
<1> HIDE DEF placed
<1>4. \A j, k \in ScrapeJobs(last) : JobName(j) = JobName(k) => j = k
  BY <1>1, <1>2, DedupeSeparates
<1>5. \A r \in ValidRelations : \A j \in StaticScrapeConfig(r, last) :
        \E e \in ScrapeJobs(last) : Renamed(e, j)
  BY <1>1, <1>2, <1>3, DedupeKeeps
<1>6. ASSUME NEW r \in ValidRelations, NEW j \in ExpandTargets(r, last)
      PROVE  \E e \in ScrapeJobs(last) : Renamed(e, j)
  <2>1. PICK s \in StaticScrapeConfig(r, last) : Renamed(s, j)
    BY StaticKeeps
  <2>2. PICK e \in ScrapeJobs(last) : Renamed(e, s)
    BY <1>5
  <2>3. QED
    BY <2>1, <2>2 DEF Renamed
<1>7. QED
  BY <1>4, <1>6

-------------------------------------------------------------------------------
(* ScrapeTargets: the invariant *)

\* Every application has a leader.
AppsLed ==
  /\ scLeader \in [Apps -> AppUnits]
  /\ \A a \in Apps : scLeader[a] \in UnitsOf[a] \cap scUnits

\* What Prometheus did when it last looked at the rules and the jobs.
RulesRead ==
  ~scConsumer =>
    \A r \in scRelated :
      /\ r \in scLoaded <=> scRules[r] = "good"
      /\ scRules[r] = "good" => scEvent[r] \subseteq {"jobs"}
      /\ scRules[r] = "bad" => "errors" \in scEvent[r]
      /\ Refused(r) => "jobs" \in scEvent[r]

\* A leader that has no event of the relation pending told its charm what
\* Prometheus lists, if it lists anything; of relations that are gone nothing is
\* left.
LeadersTold ==
  /\ \A r \in scRelated :
       AppOf[r] \notin scSwitched /\ <<r, scLeader[AppOf[r]]>> \notin scChanged
         => scEvent[r] \in {Unset, {}, scTold[r]}
  /\ \A r \in ScrapeRelations \ scRelated : scEvent[r] = Unset /\ scTold[r] = {}

ScrapeInv ==
  /\ ScrapeDataOK /\ AppsLed /\ RulesRead /\ LeadersTold
  /\ JobNamesUnique /\ NothingUnscraped

LEMMA AppOfUnitIs ==
  ASSUME NEW a \in Apps, NEW u \in UnitsOf[a]
  PROVE  AppOfUnit(u) = a
BY DEF AppOfUnit

LEMMA InitScrape == ScrapeInit => ScrapeInv
<1> SUFFICES ASSUME ScrapeInit PROVE ScrapeInv
  OBVIOUS
<1> USE DEF ScrapeInit
<1>1. ScrapeDataOK
  BY DEF ScrapeDataOK
<1>2. AppsLed
  BY DEF AppsLed
<1>3. RulesRead /\ LeadersTold
  BY DEF RulesRead, LeadersTold
<1>4. JobNamesUnique /\ NothingUnscraped
  BY DEF JobNamesUnique, NothingUnscraped
<1>5. QED
  BY <1>1, <1>2, <1>3, <1>4 DEF ScrapeInv

-------------------------------------------------------------------------------
(* ScrapeTargets: every step preserves it *)

\* Prometheus handles an event.
LEMMA ConsumerHooks == ASSUME ScrapeInv, ConsumerHook PROVE ScrapeInv'
<1> USE DEF ScrapeInv
<1>1. UNCHANGED <<scRelated, scUnits, scLeader, scSwitched, scPublished, scRules, scHosts,
                  scTold>>
  BY DEF ConsumerHook, scDeployment, scProviderBags
<1>2. \A r : RelationUnits(r)' = RelationUnits(r) /\ RelationHosts(r)' = RelationHosts(r)
  BY <1>1 DEF RelationUnits, RelationHosts
<1>3. \A r \in ScrapeRelations :
        /\ RelationUnits(r) # {} /\ scLeader[AppOf[r]] \in RelationUnits(r)
  BY DEF AppsLed, RelationUnits
<1>4. PICK last : scUse' = ScrapeJobs(last)
  BY DEF ConsumerHook
<1>5. JobNamesUnique'
  BY <1>4, JobsKeep DEF JobNamesUnique
<1>6. NothingUnscraped'
  <2> SUFFICES ASSUME NEW r \in scRelated, NEW job \in scPublished[r],
                      \A other \in scPublished[r] : other.ok
               PROVE  /\ \A t \in job.targets \ {Any} : \E j \in scUse' : t \in j.at
                      /\ Any \in job.targets =>
                           \A u \in RelationHosts(r) :
                             \E j \in scUse' : j.unit = u /\ scHosts[r][u] \in j.at
    BY <1>1, <1>2 DEF NothingUnscraped
  <2>1. r \in ValidRelations
    BY DEF ValidRelations, Refused
  <2>2. ASSUME NEW t \in job.targets \ {Any}
        PROVE  \E j \in scUse' : t \in j.at
    <3>1. PICK i \in ExpandTargets(r, last) : t \in i.at
      BY ExpandsAll
    <3>2. PICK e \in scUse' : Renamed(e, i)
      BY <1>4, <2>1, JobsKeep
    <3>3. QED
      BY <3>1, <3>2 DEF Renamed
  <2>3. ASSUME Any \in job.targets, NEW u \in RelationHosts(r)
        PROVE  \E j \in scUse' : j.unit = u /\ scHosts[r][u] \in j.at
    <3>1. PICK i \in ExpandTargets(r, last) : i.unit = u /\ scHosts[r][u] \in i.at
      BY <2>3, ExpandsAll
    <3>2. PICK e \in scUse' : Renamed(e, i)
      BY <1>4, <2>1, JobsKeep
    <3>3. QED
      BY <3>1, <3>2 DEF Renamed
  <2>4. QED
    BY <2>2, <2>3
<1>7. ScrapeDataOK'
  <2>1. scEvent' \in [ScrapeRelations -> {Unset} \cup SUBSET {"errors", "jobs"}]
    <3>1. \A r \in ScrapeRelations :
            JobErrors(r) \in {Unset} \cup SUBSET {"errors", "jobs"}
      BY DEF JobErrors, ScrapeDataOK, Unset
    <3>2. \A r \in ScrapeRelations :
            AlertErrors(r) \in {Unset} \cup SUBSET {"errors", "jobs"}
      BY <3>1 DEF AlertErrors, ScrapeDataOK, Unset
    <3>3. QED
      BY <3>2 DEF ConsumerHook
  <2>2. scConsumer' \in BOOLEAN
    BY DEF ConsumerHook
  <2>3. QED
    BY <1>1, <2>1, <2>2 DEF ScrapeDataOK
<1>8. AppsLed'
  BY <1>1 DEF AppsLed
<1>9. \A r \in scRelated : r \in ScrapeRelations /\ scEvent'[r] = AlertErrors(r)
  BY DEF ConsumerHook, ScrapeDataOK
<1>10. RulesRead'
  <2> SUFFICES ASSUME NEW r \in scRelated
               PROVE  /\ r \in scLoaded' <=> scRules[r] = "good"
                      /\ scRules[r] = "good" => scEvent'[r] \subseteq {"jobs"}
                      /\ scRules[r] = "bad" => "errors" \in scEvent'[r]
                      /\ Refused(r) => "jobs" \in scEvent'[r]
    BY <1>1, <1>2 DEF RulesRead, Refused, Expands
  <2>1. r \in scLoaded' <=> scRules[r] = "good"
    BY <1>3, <1>9 DEF ConsumerHook
  <2>2. scEvent[r] \in {Unset} \cup SUBSET {"errors", "jobs"}
    BY <1>9 DEF ScrapeDataOK
  <2>3. JobErrors(r) \in {Unset} \cup SUBSET {"errors", "jobs"}
        /\ (Refused(r) => "jobs" \in JobErrors(r))
    BY <2>2 DEF JobErrors, Unset
  <2>4. scRules[r] \in {"none", "good", "bad"} /\ RelationUnits(r) # {}
    BY <1>3, <1>9 DEF ScrapeDataOK
  <2>5. scEvent'[r] = AlertErrors(r)
    BY <1>9
  <2>6. QED
    BY <2>1, <2>3, <2>4, <2>5 DEF AlertErrors, Unset
<1>11. LeadersTold'
  <2>1. \A r \in scRelated : \/ scEvent'[r] = scEvent[r]
                             \/ <<r, scLeader[AppOf[r]]>> \in scChanged'
    <3> SUFFICES ASSUME NEW r \in scRelated, scEvent'[r] # scEvent[r]
                 PROVE  <<r, scLeader[AppOf[r]]>> \in scChanged'
      OBVIOUS
    <3>1. <<r, scLeader[AppOf[r]]>> \in {r} \X RelationUnits(r)
      BY <1>3 DEF ScrapeDataOK
    <3>2. QED
      BY <3>1 DEF ConsumerHook
  <2>2. scChanged \subseteq scChanged'
    BY DEF ConsumerHook
  <2>3. \A r \in scRelated :
          AppOf[r] \notin scSwitched /\ <<r, scLeader[AppOf[r]]>> \notin scChanged'
            => scEvent'[r] \in {Unset, {}, scTold[r]}
    BY <2>1, <2>2 DEF LeadersTold
  <2>4. \A r \in ScrapeRelations \ scRelated : scEvent'[r] = Unset /\ scTold[r] = {}
    BY DEF ConsumerHook, LeadersTold
  <2>5. QED
    BY <1>1, <2>3, <2>4 DEF LeadersTold
<1>12. QED
  BY <1>5, <1>6, <1>7, <1>8, <1>10, <1>11

\* Until Prometheus has an event it has seen what is published.
LEMMA SeenStays ==
  ASSUME ScrapeInv, scUse' = scUse, scConsumer => scConsumer',
         ~scConsumer' =>
           /\ UNCHANGED <<scRelated, scPublished, scRules, scEvent, scLoaded>>
           /\ \A r \in scRelated : RelationHosts(r)' = RelationHosts(r)
           /\ \A r \in scRelated : \A u \in RelationHosts(r) : scHosts'[r][u] = scHosts[r][u]
  PROVE  JobNamesUnique' /\ NothingUnscraped' /\ RulesRead'
<1>1. JobNamesUnique'
  BY DEF ScrapeInv, JobNamesUnique
<1>2. NothingUnscraped'
  BY DEF ScrapeInv, NothingUnscraped
<1>3. RulesRead'
  BY DEF ScrapeInv, RulesRead, Refused, Expands
<1>4. QED
  BY <1>1, <1>2, <1>3

\* A unit writes to its databags, and its application's: Prometheus has an event
\* if that is news.
LEMMA UnitsPublish ==
  ASSUME ScrapeInv, TellConsumer,
         \/ \E u \in AppUnits : SetScrapeJobSpec(u)
         \/ \E u \in AppUnits : SetUnitIp(u) /\ UNCHANGED <<scPublished, scRules>>,
         UNCHANGED <<scDeployment, scConsumerState>>,
         scTold' \in [ScrapeRelations -> SUBSET {"errors", "jobs"}]
  PROVE  /\ ScrapeDataOK' /\ AppsLed' /\ RulesRead'
         /\ JobNamesUnique' /\ NothingUnscraped'
<1> USE DEF ScrapeInv, scDeployment, scConsumerState
<1>1. PICK u \in AppUnits : SetUnitIp(u)
  BY DEF SetScrapeJobSpec
<1>2. \A r \in ScrapeRelations : scHosts'[r] = [v \in AppUnits |-> scHosts'[r][v]]
  <2> TAKE r \in ScrapeRelations
  <2>1. scHosts[r] = [v \in AppUnits |-> scHosts[r][v]]
    BY DEF ScrapeDataOK
  <2>2. CASE r \in RelationsOf(AppOfUnit(u))
    <3>1. scHosts'[r] = [scHosts[r] EXCEPT ![u] = scAddress[u]]
      BY <1>1, <2>2 DEF SetUnitIp
    <3>2. QED
      BY <2>1, <3>1
  <2>3. CASE r \notin RelationsOf(AppOfUnit(u))
    BY <1>1, <2>1, <2>3 DEF SetUnitIp
  <2>4. QED
    BY <2>2, <2>3
<1>3. scRules' \in [ScrapeRelations -> {"none", "good", "bad"}]
  BY DEF ScrapeDataOK, SetScrapeJobSpec
<1>4. scConsumer' \in BOOLEAN /\ (scConsumer => scConsumer')
      /\ (~scConsumer' => UNCHANGED <<scPublished, scRules, scHosts>>)
  BY DEF TellConsumer, scProviderBags, ScrapeDataOK
<1>5. ScrapeDataOK'
  <2>1. scHosts' = [r \in ScrapeRelations |-> scHosts'[r]]
    BY <1>1 DEF SetUnitIp
  <2>2. QED
    BY <1>2, <1>3, <1>4, <2>1 DEF ScrapeDataOK
<1>6. AppsLed'
  BY DEF AppsLed
<1>7. JobNamesUnique' /\ NothingUnscraped' /\ RulesRead'
  <2>1. ~scConsumer' => \A r : RelationHosts(r)' = RelationHosts(r)
    BY <1>4 DEF RelationHosts, RelationUnits
  <2>2. QED
    BY <1>4, <2>1, SeenStays
<1>8. QED
  BY <1>5, <1>6, <1>7

LEMMA JobSpecsSet ==
  ASSUME ScrapeInv, NEW u \in AppUnits,
         ScrapeUpdateStatus(u) \/ \E r \in ScrapeRelations : ScrapeJoined(r, u)
  PROVE  ScrapeInv'
<1>1. /\ SetScrapeJobSpec(u) /\ TellConsumer
      /\ UNCHANGED <<scDeployment, scConsumerState, scTold, scChanged>>
  BY DEF ScrapeUpdateStatus, UpdateStatusBags, ScrapeJoined
<1>2. scTold' \in [ScrapeRelations -> SUBSET {"errors", "jobs"}]
  BY <1>1 DEF ScrapeInv, ScrapeDataOK
<1>3. LeadersTold'
  BY <1>1 DEF ScrapeInv, LeadersTold, scDeployment, scConsumerState
<1>4. QED
  BY <1>1, <1>2, <1>3, UnitsPublish DEF ScrapeInv

LEMMA ProviderChanges ==
  ASSUME ScrapeInv, NEW r \in ScrapeRelations, NEW u \in UnitsOf[AppOf[r]],
         ProviderRelationChanged(r, u)
  PROVE  ScrapeInv'
<1>1. /\ SetUnitIp(u) /\ TellConsumer /\ UNCHANGED <<scPublished, scRules>>
      /\ UNCHANGED <<scDeployment, scConsumerState>>
      /\ scTold' = IF scLeader[AppOf[r]] = u /\ scEvent[r] \notin {Unset, {}}
                   THEN [scTold EXCEPT ![r] = scEvent[r]] ELSE scTold
      /\ scChanged' = scChanged \ {<<r, u>>}
  BY DEF ProviderRelationChanged
<1>2. u \in AppUnits /\ scEvent[r] \in {Unset} \cup SUBSET {"errors", "jobs"}
  BY DEF ScrapeInv, ScrapeDataOK
<1>3. scTold' \in [ScrapeRelations -> SUBSET {"errors", "jobs"}]
  BY <1>1, <1>2 DEF ScrapeInv, ScrapeDataOK
<1>4. scTold'[r] = IF scLeader[AppOf[r]] = u /\ scEvent[r] \notin {Unset, {}}
                   THEN scEvent[r] ELSE scTold[r]
  BY <1>1, <1>2 DEF ScrapeInv, ScrapeDataOK
<1>5. \A q \in ScrapeRelations \ {r} : scTold'[q] = scTold[q]
  BY <1>1 DEF ScrapeInv, ScrapeDataOK
<1>6. UNCHANGED <<scRelated, scSwitched, scLeader, scEvent>>
  BY <1>1 DEF scDeployment, scConsumerState
<1>7. LeadersTold'
  <2>1. \A q \in scRelated :
          AppOf[q] \notin scSwitched /\ <<q, scLeader[AppOf[q]]>> \notin scChanged'
            => scEvent[q] \in {Unset, {}, scTold'[q]}
    <3> SUFFICES ASSUME NEW q \in scRelated, AppOf[q] \notin scSwitched,
                        <<q, scLeader[AppOf[q]]>> \notin scChanged'
                 PROVE  scEvent[q] \in {Unset, {}, scTold'[q]}
      OBVIOUS
    <3>1. CASE q = r
      BY <1>1, <1>4, <3>1 DEF ScrapeInv, LeadersTold
    <3>2. CASE q # r
      BY <1>1, <1>5, <3>2 DEF ScrapeInv, LeadersTold, ScrapeDataOK
    <3>3. QED
      BY <3>1, <3>2
  <2>2. \A q \in ScrapeRelations \ scRelated : scEvent[q] = Unset /\ scTold'[q] = {}
    <3> SUFFICES ASSUME NEW q \in ScrapeRelations \ scRelated
                 PROVE  scEvent[q] = Unset /\ scTold'[q] = {}
      OBVIOUS
    <3>1. scEvent[q] = Unset /\ scTold[q] = {}
      BY DEF ScrapeInv, LeadersTold
    <3>2. CASE q = r
      BY <1>1, <3>1, <3>2
    <3>3. QED
      BY <1>5, <3>1, <3>2
  <2>3. QED
    BY <1>6, <2>1, <2>2 DEF LeadersTold
<1>8. QED
  BY <1>1, <1>2, <1>3, <1>7, UnitsPublish DEF ScrapeInv

\* A relation comes or goes.
LEMMA ScrapeRelation ==
  ASSUME ScrapeInv, NEW r \in ScrapeRelations, RelateScrape(r) \/ RemoveScrape(r)
  PROVE  ScrapeInv'
<1> USE DEF ScrapeInv
<1>1. scConsumer' /\ scConsumer' \in BOOLEAN
  BY DEF RelateScrape, RemoveScrape
<1>2. UNCHANGED <<scUnits, scLeader, scSwitched, scUse>>
  BY DEF RelateScrape, RemoveScrape, scConsumerState
<1>3. AppsLed'
  BY <1>2 DEF AppsLed
<1>4. JobNamesUnique' /\ NothingUnscraped' /\ RulesRead'
  BY <1>1, <1>2, SeenStays
<1>5. CASE RelateScrape(r)
  <2>1. UNCHANGED <<scEvent, scTold, scRules, scHosts>> /\ scRelated' = scRelated \cup {r}
        /\ scChanged \subseteq scChanged' /\ r \notin scRelated
    BY <1>5 DEF RelateScrape, scConsumerState, scProviderBags
  <2>2. ScrapeDataOK'
    BY <1>1, <1>2, <2>1 DEF ScrapeDataOK
  <2>3. LeadersTold'
    BY <1>2, <2>1 DEF LeadersTold
  <2>4. QED
    BY <1>3, <1>4, <2>2, <2>3
<1>6. CASE RemoveScrape(r)
  <2>1. /\ scRelated' = scRelated \ {r}
        /\ scEvent' = [scEvent EXCEPT ![r] = Unset]
        /\ scTold' = [scTold EXCEPT ![r] = {}]
        /\ scRules' = [scRules EXCEPT ![r] = "none"]
        /\ scHosts' = [scHosts EXCEPT ![r] = [u \in AppUnits |-> NoAddress]]
        /\ scChanged' = {e \in scChanged : e[1] # r}
    BY <1>6 DEF RemoveScrape
  <2>2. /\ scHosts' = [q \in ScrapeRelations |-> scHosts'[q]]
        /\ \A q \in ScrapeRelations : scHosts'[q] = [u \in AppUnits |-> scHosts'[q][u]]
    <3>1. scHosts = [q \in ScrapeRelations |-> scHosts[q]]
      BY DEF ScrapeDataOK
    <3>2. scHosts' = [q \in ScrapeRelations |->
                        IF q = r THEN [u \in AppUnits |-> NoAddress] ELSE scHosts[q]]
      BY <2>1, <3>1
    <3>3. \A q \in ScrapeRelations : scHosts[q] = [u \in AppUnits |-> scHosts[q][u]]
      BY DEF ScrapeDataOK
    <3>4. QED
      BY <3>2, <3>3
  <2>3. ScrapeDataOK'
    BY <1>1, <1>2, <2>1, <2>2 DEF ScrapeDataOK
  <2>4. \A q \in ScrapeRelations \ {r} : scEvent'[q] = scEvent[q] /\ scTold'[q] = scTold[q]
    BY <2>1 DEF ScrapeDataOK
  <2>5. scEvent'[r] = Unset /\ scTold'[r] = {}
    BY <2>1 DEF ScrapeDataOK
  <2>6. \A q \in scRelated \ {r} : \A u : <<q, u>> \notin scChanged' => <<q, u>> \notin scChanged
    BY <2>1
  <2>7. LeadersTold'
    BY <1>2, <2>1, <2>4, <2>5, <2>6 DEF LeadersTold, ScrapeDataOK
  <2>8. QED
    BY <1>3, <1>4, <2>3, <2>7
<1>7. QED
  BY <1>5, <1>6

\* A pod moves, or what an application wants scraped changes: of which nothing
\* is published yet.
LEMMA UnpublishedChanges ==
  ASSUME ScrapeInv,
         UNCHANGED <<scRelated, scUnits, scLeader, scSwitched, scProviderBags,
                     scConsumerState, scTold, scQueues>>
  PROVE  ScrapeInv'
<1> USE DEF scProviderBags, scConsumerState, scQueues, ScrapeInv
<1>1. ScrapeDataOK' /\ AppsLed' /\ LeadersTold'
  BY DEF ScrapeDataOK, AppsLed, LeadersTold
<1>2. \A r : RelationHosts(r)' = RelationHosts(r)
  BY DEF RelationHosts, RelationUnits
<1>3. JobNamesUnique' /\ NothingUnscraped' /\ RulesRead'
  BY <1>2, SeenStays
<1>4. QED
  BY <1>1, <1>3

\* A unit of an application that is not related does not show.
LEMMA OthersKeepUnits ==
  ASSUME ScrapeInv, NEW u \in AppUnits, RelationsOf(AppOfUnit(u)) = {},
         scUnits \ {u} = scUnits' \ {u}, UNCHANGED scRelated,
         \A r \in scRelated : \A v \in AppUnits \ {u} : scHosts'[r][v] = scHosts[r][v]
  PROVE  \A r \in scRelated :
           /\ RelationHosts(r)' = RelationHosts(r)
           /\ \A v \in RelationHosts(r) : scHosts'[r][v] = scHosts[r][v]
<1> SUFFICES ASSUME NEW r \in scRelated
             PROVE  /\ RelationHosts(r)' = RelationHosts(r)
                    /\ \A v \in RelationHosts(r) : scHosts'[r][v] = scHosts[r][v]
  OBVIOUS
<1>1. AppOf[r] \in Apps /\ UnitsOf[AppOf[r]] \subseteq AppUnits
  BY DEF ScrapeInv, ScrapeDataOK
<1>2. u \notin UnitsOf[AppOf[r]]
  BY <1>1, AppOfUnitIs DEF RelationsOf
<1>3. QED
  BY <1>1, <1>2 DEF RelationHosts, RelationUnits

LEMMA ScrapeScales ==
  ASSUME ScrapeInv, NEW u \in AppUnits,
         \/ \E address \in Addresses : AddScraped(u, address)
         \/ \E next \in AppUnits : RemoveScraped(u, next)
  PROVE  ScrapeInv'
<1> USE DEF ScrapeInv
<1> DEFINE a == AppOfUnit(u)
<1>1. /\ UNCHANGED <<scRelated, scPublished, scRules, scEvent, scUse, scLoaded, scTold>>
      /\ scConsumer' = (scConsumer \/ RelationsOf(a) # {})
      /\ scUnits \ {u} = scUnits' \ {u}
  BY DEF AddScraped, RemoveScraped, scProviderBags, scConsumerState
<1>2. /\ \A r \in ScrapeRelations : \A v \in AppUnits \ {u} : scHosts'[r][v] = scHosts[r][v]
      /\ scHosts' = [r \in ScrapeRelations |-> scHosts'[r]]
      /\ \A r \in ScrapeRelations : scHosts'[r] = [v \in AppUnits |-> scHosts'[r][v]]
      /\ scUnits' \subseteq AppUnits
  <2>1. CASE \E address \in Addresses : AddScraped(u, address)
    BY <2>1 DEF AddScraped, scProviderBags, ScrapeDataOK
  <2>2. CASE \E next \in AppUnits : RemoveScraped(u, next)
    <3>1. \A r \in ScrapeRelations : scHosts'[r] = [scHosts[r] EXCEPT ![u] = NoAddress]
      BY <2>2 DEF RemoveScraped
    <3>2. \A r \in ScrapeRelations : scHosts[r] = [v \in AppUnits |-> scHosts[r][v]]
      BY DEF ScrapeDataOK
    <3>3. scUnits' \subseteq AppUnits
      BY <2>2 DEF RemoveScraped, ScrapeDataOK
    <3>4. scHosts' = [r \in ScrapeRelations |-> scHosts'[r]]
      BY <2>2 DEF RemoveScraped
    <3>5. QED
      BY <3>1, <3>2, <3>3, <3>4
  <2>3. QED
    BY <2>1, <2>2
<1>3. scConsumer' \in BOOLEAN /\ (scConsumer => scConsumer')
  BY <1>1 DEF ScrapeDataOK
<1>4. ScrapeDataOK'
  BY <1>1, <1>2, <1>3 DEF ScrapeDataOK
<1>5. JobNamesUnique' /\ NothingUnscraped' /\ RulesRead'
  <2>1. ASSUME ~scConsumer'
        PROVE  \A r \in scRelated :
                 /\ RelationHosts(r)' = RelationHosts(r)
                 /\ \A v \in RelationHosts(r) : scHosts'[r][v] = scHosts[r][v]
    <3>1. RelationsOf(AppOfUnit(u)) = {}
      BY <1>1, <2>1
    <3>2. \A r \in scRelated : \A v \in AppUnits \ {u} : scHosts'[r][v] = scHosts[r][v]
      BY <1>2 DEF ScrapeDataOK
    <3>3. QED
      BY <1>1, <3>1, <3>2, OthersKeepUnits
  <2>2. QED
    BY <1>1, <1>3, <2>1, SeenStays
<1>6. CASE \E address \in Addresses : AddScraped(u, address)
  <2>1. UNCHANGED <<scLeader, scSwitched>> /\ scUnits \subseteq scUnits'
        /\ scChanged \subseteq scChanged'
    BY <1>6 DEF AddScraped
  <2>2. AppsLed' /\ LeadersTold'
    BY <1>1, <2>1 DEF AppsLed, LeadersTold
  <2>3. QED
    BY <1>4, <1>5, <2>2
<1>7. CASE \E next \in AppUnits : RemoveScraped(u, next)
  <2>1. PICK next \in (UnitsOf[a] \cap scUnits) \ {u} :
          /\ scLeader' = [scLeader EXCEPT ![a] = IF @ = u THEN next ELSE @]
          /\ scSwitched' = IF scLeader[a] = u THEN scSwitched \cup {a} ELSE scSwitched
          /\ scUnits' = scUnits \ {u}
          /\ scChanged' = {e \in scChanged : e[2] # u}
    BY <1>7 DEF RemoveScraped
  <2>2. \A b \in Apps : scLeader[b] = u => a = b
    BY AppOfUnitIs DEF AppsLed
  <2>3. AppsLed'
    <3>1. \A b \in Apps : scLeader'[b] = IF scLeader[b] = u THEN next ELSE scLeader[b]
      BY <2>1, <2>2 DEF AppsLed
    <3>2. scLeader' \in [Apps -> AppUnits]
      BY <2>1 DEF AppsLed, ScrapeDataOK
    <3>3. QED
      BY <2>1, <2>2, <3>1, <3>2 DEF AppsLed
  <2>4. \A b \in Apps : b \notin scSwitched' =>
          b \notin scSwitched /\ scLeader'[b] = scLeader[b] /\ scLeader[b] # u
    BY <2>1, <2>2 DEF AppsLed
  <2>5. \A r, v : v # u /\ <<r, v>> \notin scChanged' => <<r, v>> \notin scChanged
    BY <2>1
  <2>6. LeadersTold'
    BY <1>1, <2>4, <2>5 DEF LeadersTold, ScrapeDataOK
  <2>7. QED
    BY <1>4, <1>5, <2>3, <2>6
<1>8. QED
  BY <1>6, <1>7

LEMMA NextScrape == ScrapeInv /\ [ScrapeNext]_scrapeVars => ScrapeInv'
<1> SUFFICES ASSUME ScrapeInv, [ScrapeNext]_scrapeVars PROVE ScrapeInv'
  OBVIOUS
<1>1. CASE UNCHANGED scrapeVars
  <2>1. UNCHANGED <<scRelated, scUnits, scLeader, scSwitched, scProviderBags,
                    scConsumerState, scTold, scQueues>>
    BY <1>1 DEF scrapeVars, scDeployment
  <2>2. QED
    BY <2>1, UnpublishedChanges
<1>2. CASE ConsumerHook
  BY <1>2, ConsumerHooks
<1>3. ASSUME NEW r \in ScrapeRelations, RelateScrape(r) \/ RemoveScrape(r)
      PROVE  ScrapeInv'
  BY <1>3, ScrapeRelation
<1>4. ASSUME NEW r \in ScrapeRelations, NEW u \in UnitsOf[AppOf[r]],
             ScrapeJoined(r, u) \/ ProviderRelationChanged(r, u)
      PROVE  ScrapeInv'
  <2>1. u \in AppUnits
    OBVIOUS
  <2>2. QED
    BY <1>4, <2>1, JobSpecsSet, ProviderChanges
<1>5. ASSUME NEW a \in Apps, NEW jobs \in JobSpecs, NEW ok \in BOOLEAN,
             ChangeJobs(a, jobs, ok)
      PROVE  ScrapeInv'
  BY <1>5, UnpublishedChanges DEF ChangeJobs
<1>6. ASSUME NEW u \in AppUnits, ScrapeUpdateStatus(u)
      PROVE  ScrapeInv'
  BY <1>6, JobSpecsSet
<1>7. ASSUME NEW u \in AppUnits, NEW address \in Addresses, MovePod(u, address)
      PROVE  ScrapeInv'
  BY <1>7, UnpublishedChanges DEF MovePod
<1>8. ASSUME NEW u \in AppUnits,
             \/ \E address \in Addresses : AddScraped(u, address)
             \/ \E next \in AppUnits : RemoveScraped(u, next)
      PROVE  ScrapeInv'
  BY <1>8, ScrapeScales
<1>9. QED
  BY <1>1, <1>2, <1>3, <1>4, <1>5, <1>6, <1>7, <1>8 DEF ScrapeNext

LEMMA ScrapeInvariant == ScrapeSpec => []ScrapeInv
BY InitScrape, NextScrape, PTL DEF ScrapeSpec

-------------------------------------------------------------------------------
(* ScrapeTargets: the theorems *)

\* Whatever is published is scraped once Prometheus has looked, under job names
\* that are unique (expand_wildcard_targets_into_individual_jobs and
\* _dedupe_job_names, prometheus_scrape.py), for any jobs and units.
THEOREM PublishedIsScraped == ScrapeSpec => []ScrapedAsPublished
<1>1. ScrapeInv => ScrapedAsPublished
  BY DEF ScrapeInv, ScrapedAsPublished
<1>2. QED
  BY <1>1, ScrapeInvariant, PTL

\* The charm of a leader that has handled its events was told of rules and of jobs
\* that are refused, and is not held to errors it mended but where the event lists
\* nothing, by which nobody tells it (jobs, alerts and _on_relation_changed,
\* prometheus_scrape.py:1052-1060, 1145-1161, 1649-1663).
THEOREM ErrorsAreTold == ScrapeSpec => []ErrorsTold
<1>1. ScrapeInv => ErrorsTold
  <2> SUFFICES ASSUME ScrapeInv, ~scConsumer, NEW r \in scRelated,
                      AppOf[r] \notin scSwitched,
                      {r} \X RelationUnits(r) \cap scChanged = {}
               PROVE  /\ scRules[r] = "bad" => r \notin scLoaded /\ "errors" \in scTold[r]
                      /\ Refused(r) => "jobs" \in scTold[r]
                      /\ r \in scLoaded /\ "errors" \in scTold[r] => scEvent[r] = {}
    BY DEF ErrorsTold
  <2>1. r \in ScrapeRelations /\ scLeader[AppOf[r]] \in RelationUnits(r)
    BY DEF ScrapeInv, ScrapeDataOK, AppsLed, RelationUnits
  <2>2. <<r, scLeader[AppOf[r]]>> \notin scChanged
    BY <2>1
  <2>3. scEvent[r] \in {Unset, {}, scTold[r]}
    BY <2>2 DEF ScrapeInv, LeadersTold
  <2>4. /\ r \in scLoaded <=> scRules[r] = "good"
        /\ scRules[r] = "good" => scEvent[r] \subseteq {"jobs"}
        /\ scRules[r] = "bad" => "errors" \in scEvent[r]
        /\ Refused(r) => "jobs" \in scEvent[r]
    BY DEF ScrapeInv, RulesRead
  <2>5. QED
    BY <2>3, <2>4 DEF Unset
<1>2. QED
  BY <1>1, ScrapeInvariant, PTL

-------------------------------------------------------------------------------
(* S3Credentials: the invariant *)

\* The copy under "data" says whether the charm has heard of the request; there
\* is no copy of what is not there.
Counted ==
  /\ s3Requests = IF s3Data THEN 1 ELSE 0
  /\ s3Data => s3Bucket

\* Until a leader changes, the one that is to ask for the bucket has an event,
\* or has asked, and the one that is to hear of it has an event, or has heard.
Underway ==
  s3Related /\ ~s3Switched =>
    /\ s3Leader \in s3Joins \/ s3Bucket
    /\ s3Bucket => s3Provider \in s3Asked \/ s3Data

Complete == \A k \in S3Required : s3Given[k] # Absent

\* Nothing is left of a relation that is gone but the news of its end.
NothingLeft ==
  /\ ~s3Related => s3Given = NoConnection
  /\ s3Gone # {} => ~s3Related
\* No unit has heard of half a connection: keys are never taken out again.
ToldOfNone == ~Complete => \A u \in S3Units \ s3Gone : s3Told[u] = NoConnection
\* relation-joined comes with relation-changed, and before it.
JoinsFirst == s3Joins \subseteq s3Events
\* Who has no event pending has heard of the connection of now.
ToldOfNow ==
  Complete =>
    \A u \in S3Units \ (s3Joins \cup s3Events \cup s3Gone) : s3Told[u] = s3Given

S3Inv ==
  /\ S3TypeOK
  /\ Counted /\ Underway
  /\ JoinsFirst /\ NothingLeft /\ ToldOfNone /\ ToldOfNow

USE S3Assumption

LEMMA NoConnectionType == NoConnection \in [S3Keys -> Nat]
BY DEF NoConnection, Absent

LEMMA InitS3Inv == S3Init => S3Inv
<1> SUFFICES ASSUME S3Init PROVE S3Inv
  OBVIOUS
<1> USE DEF S3Init
<1>1. S3TypeOK
  BY NoConnectionType DEF S3TypeOK
<1>2. Counted /\ Underway /\ JoinsFirst
  BY DEF Counted, Underway, JoinsFirst
<1>3. NothingLeft /\ ToldOfNone /\ ToldOfNow
  BY DEF NothingLeft, ToldOfNone, ToldOfNow
<1>4. QED
  BY <1>1, <1>2, <1>3 DEF S3Inv

-------------------------------------------------------------------------------
(* S3Credentials: every step preserves it *)

\* Options that the provider's charm sets stay set.
LEMMA SettingKeepsKeys ==
  ASSUME S3TypeOK, NEW p \in S3Providers, NEW keys \in SUBSET S3Keys,
         UpdateConnection(p, keys)
  PROVE  /\ s3Given' \in [S3Keys -> Nat]
         /\ Complete => Complete'
<1>1. s3Changes' \in Nat /\ s3Changes' # Absent
  BY DEF UpdateConnection, S3Change, S3TypeOK, Absent
<1>2. s3Given' = [k \in S3Keys |-> IF k \in keys THEN s3Changes' ELSE s3Given[k]]
  BY DEF UpdateConnection
<1>3. s3Given' \in [S3Keys -> Nat]
  BY <1>1, <1>2 DEF S3TypeOK
<1>4. \A k \in S3Required : s3Given[k] # Absent => s3Given'[k] # Absent
  BY <1>1, <1>2
<1>5. QED
  BY <1>3, <1>4 DEF Complete

LEMMA NextS3Inv ==
  ASSUME S3Inv, [S3Next]_s3Vars
  PROVE  S3Inv'
<1> USE DEF S3Inv
<1>1. CASE RelateS3
  <2> USE <1>1 DEF RelateS3, S3Change, s3Databags
  <2>1. S3TypeOK'
    <3>1. s3Changes' \in Nat
      BY DEF S3TypeOK
    <3>2. /\ s3Joins' \subseteq S3Units /\ s3Events' \subseteq S3Units
          /\ s3Asked' \subseteq S3Providers
      OBVIOUS
    <3>3. QED
      BY <3>1, <3>2 DEF S3TypeOK
  <2>2. Counted' /\ Underway' /\ JoinsFirst'
    BY DEF Counted, Underway, JoinsFirst, S3TypeOK
  <2>3. NothingLeft' /\ ToldOfNone' /\ ToldOfNow'
    BY DEF NothingLeft, ToldOfNone, ToldOfNow, Complete
  <2>4. QED
    BY <2>1, <2>2, <2>3
<1>2. CASE RemoveS3
  <2> USE <1>2 DEF RemoveS3, S3Change
  <2>1. S3TypeOK'
    <3>1. s3Changes' \in Nat
      BY DEF S3TypeOK
    <3>2. /\ s3Joins' \subseteq S3Units /\ s3Events' \subseteq S3Units
          /\ s3Gone' \subseteq S3Units /\ s3Asked' \subseteq S3Providers
      OBVIOUS
    <3>3. s3Given' \in [S3Keys -> Nat]
      BY NoConnectionType
    <3>4. QED
      BY <3>1, <3>2, <3>3 DEF S3TypeOK
  <2>2. Counted' /\ Underway' /\ JoinsFirst'
    BY DEF Counted, Underway, JoinsFirst
  <2>3. NothingLeft' /\ ToldOfNone' /\ ToldOfNow'
    BY DEF NothingLeft, ToldOfNone, ToldOfNow
  <2>4. QED
    BY <2>1, <2>2, <2>3
<1>3. ASSUME NEW u \in S3Units, SwitchS3Leader(u) PROVE S3Inv'
  <2> USE <1>3 DEF SwitchS3Leader, S3Change, s3Databags, s3Queues
  <2>1. S3TypeOK'
    BY DEF S3TypeOK
  <2>2. Counted' /\ Underway' /\ JoinsFirst'
    BY DEF Counted, Underway, JoinsFirst
  <2>3. NothingLeft' /\ ToldOfNone' /\ ToldOfNow'
    BY DEF NothingLeft, ToldOfNone, ToldOfNow, Complete
  <2>4. QED
    BY <2>1, <2>2, <2>3
<1>4. ASSUME NEW p \in S3Providers, SwitchS3Provider(p) PROVE S3Inv'
  <2> USE <1>4 DEF SwitchS3Provider, S3Change, s3Databags, s3Queues
  <2>1. S3TypeOK'
    BY DEF S3TypeOK
  <2>2. Counted' /\ Underway' /\ JoinsFirst'
    BY DEF Counted, Underway, JoinsFirst
  <2>3. NothingLeft' /\ ToldOfNone' /\ ToldOfNow'
    BY DEF NothingLeft, ToldOfNone, ToldOfNow, Complete
  <2>4. QED
    BY <2>1, <2>2, <2>3
<1>5. ASSUME NEW u \in S3Units, RequirerJoined(u) PROVE S3Inv'
  <2> USE <1>5 DEF RequirerJoined, s3Deployment
  <2>1. S3TypeOK'
    BY DEF S3TypeOK
  <2>2. Counted' /\ Underway' /\ JoinsFirst'
    BY DEF Counted, Underway, JoinsFirst, S3TypeOK
  <2>3. NothingLeft' /\ ToldOfNone' /\ ToldOfNow'
    <3>1. NothingLeft' /\ ToldOfNone'
      BY DEF NothingLeft, ToldOfNone, Complete
    <3>2. ToldOfNow'
      BY DEF ToldOfNow, JoinsFirst, Complete
    <3>3. QED
      BY <3>1, <3>2
  <2>4. QED
    BY <2>1, <2>2, <2>3
<1>6. ASSUME NEW u \in S3Units, RequirerChanged(u) PROVE S3Inv'
  <2> USE <1>6 DEF RequirerChanged, s3Deployment, s3Databags
  <2>1. Announced(u) = IF Complete THEN s3Given ELSE s3Told[u]
    BY DEF Announced, Complete
  <2>2. S3TypeOK'
    BY <2>1 DEF S3TypeOK
  <2>3. Counted' /\ Underway' /\ JoinsFirst'
    BY DEF Counted, Underway, JoinsFirst
  <2>4. NothingLeft' /\ ToldOfNone' /\ ToldOfNow'
    BY <2>1 DEF NothingLeft, ToldOfNone, ToldOfNow, Complete, S3TypeOK
  <2>5. QED
    BY <2>2, <2>3, <2>4
<1>7. ASSUME NEW u \in S3Units, RequirerBroken(u) PROVE S3Inv'
  <2> USE <1>7 DEF RequirerBroken, s3Deployment, s3Databags
  <2>1. S3TypeOK'
    BY NoConnectionType DEF S3TypeOK
  <2>2. Counted' /\ Underway' /\ JoinsFirst'
    BY DEF Counted, Underway, JoinsFirst
  <2>3. s3Given = NoConnection
    BY DEF NothingLeft
  <2>4. NothingLeft' /\ ToldOfNone' /\ ToldOfNow'
    BY <2>3 DEF NothingLeft, ToldOfNone, ToldOfNow, Complete, S3TypeOK
  <2>5. QED
    BY <2>1, <2>2, <2>4
<1>8. ASSUME NEW p \in S3Providers, ProviderChanged(p) PROVE S3Inv'
  <2> USE <1>8 DEF ProviderChanged, s3Deployment
  <2>1. S3TypeOK'
    BY DEF S3TypeOK
  <2>2. Counted' /\ JoinsFirst'
    BY DEF Counted, JoinsFirst, RequestsCredentials, DiffAdded, S3TypeOK
  <2>3. Underway'
    BY DEF Underway, S3TypeOK
  <2>4. NothingLeft' /\ ToldOfNone' /\ ToldOfNow'
    BY DEF NothingLeft, ToldOfNone, ToldOfNow, Complete
  <2>5. QED
    BY <2>1, <2>2, <2>3, <2>4
<1>9. ASSUME NEW p \in S3Providers, NEW keys \in SUBSET S3Keys, UpdateConnection(p, keys)
      PROVE  S3Inv'
  <2>1. s3Given' \in [S3Keys -> Nat] /\ (Complete => Complete')
    BY <1>9, SettingKeepsKeys
  <2> USE <1>9 DEF UpdateConnection, S3Change
  <2>2. S3TypeOK'
    BY <2>1 DEF S3TypeOK
  <2>3. Counted' /\ Underway' /\ JoinsFirst'
    BY DEF Counted, Underway, JoinsFirst, S3TypeOK
  <2>4. NothingLeft' /\ ToldOfNone' /\ ToldOfNow'
    BY <2>1 DEF NothingLeft, ToldOfNone, ToldOfNow
  <2>5. QED
    BY <2>2, <2>3, <2>4
<1>10. CASE UNCHANGED s3Vars
  BY <1>10 DEF s3Vars, s3Deployment, s3Databags, s3Queues, S3TypeOK, Counted, Underway, JoinsFirst,
     NothingLeft, ToldOfNone, ToldOfNow, Complete
<1>11. QED
  BY <1>1, <1>2, <1>3, <1>4, <1>5, <1>6, <1>7, <1>8, <1>9, <1>10 DEF S3Next

LEMMA S3Invariant == S3Spec => []S3Inv
BY InitS3Inv, NextS3Inv, PTL DEF S3Spec

-------------------------------------------------------------------------------
(* S3Credentials: what follows *)

\* Whoever leads when, the provider's charm hears of a bucket once, and it does
\* hear of it unless a leader changed (_on_relation_joined, _on_relation_changed).
THEOREM BucketIsRequested == S3Spec => []BucketRequested
<1>1. S3Inv => BucketRequested
  BY DEF S3Inv, Counted, Underway, BucketRequested, RequestedOnce, RequestHeard
<1>2. QED
  BY <1>1, S3Invariant, PTL

\* A charm that has handled its events holds all of the connection there is now,
\* or none of it (_on_relation_changed, _on_relation_broken).
THEOREM ConnectionIsCurrent == S3Spec => []ConnectionCurrent
<1>1. S3Inv => ConnectionCurrent
  BY DEF S3Inv, ToldOfNone, ToldOfNow, Complete, ConnectionCurrent
<1>2. QED
  BY <1>1, S3Invariant, PTL

-------------------------------------------------------------------------------
(* The composition (MCRelations) *)

\* A step of a part is a step of its interface, and none of the others.
LEMMA CertificatesStep ==
  ASSUME TlsSteps
  PROVE  /\ TlsNext
         /\ UNCHANGED <<ingressVars, scrapeVars, s3Vars, allRequirerVars>>
<1>1. UNCHANGED <<ingressVars, scrapeVars, s3Vars, allRequirerVars>>
  BY DEF TlsSteps, Certificates
<1>2. TlsNext
  BY Zenon DEF TlsSteps, TlsNext
<1>3. QED
  BY <1>1, <1>2

LEMMA IngressStep ==
  ASSUME IngressSteps
  PROVE  /\ IngressNext
         /\ UNCHANGED <<tlsVars, scrapeVars, s3Vars, allRequirerVars>>
<1>1. UNCHANGED <<tlsVars, scrapeVars, s3Vars, allRequirerVars>>
  BY DEF IngressSteps, Ingress
<1>2. IngressNext
  BY Zenon DEF IngressSteps, IngressNext
<1>3. QED
  BY <1>1, <1>2

LEMMA ScrapeStep ==
  ASSUME ScrapeSteps
  PROVE  /\ ScrapeNext
         /\ UNCHANGED <<tlsVars, ingressVars, s3Vars, allRequirerVars>>
<1>1. UNCHANGED <<tlsVars, ingressVars, s3Vars, allRequirerVars>>
  BY DEF ScrapeSteps, Scrape
<1>2. ScrapeNext
  <2>1. CASE Scrape /\ ConsumerHook
    BY <2>1 DEF ScrapeNext
  <2>2. ASSUME NEW r \in ScrapeRelations,
               \/ RelateScrape(r) \/ RemoveScrape(r)
               \/ \E u \in UnitsOf[AppOf[r]] :
                    ScrapeJoined(r, u) \/ ProviderRelationChanged(r, u)
        PROVE  ScrapeNext
    BY <2>2, Zenon DEF ScrapeNext
  <2>3. ASSUME NEW a \in Apps, NEW jobs \in JobSpecs, NEW ok \in BOOLEAN,
               ChangeJobs(a, jobs, ok)
        PROVE  ScrapeNext
    BY <2>3 DEF ScrapeNext
  <2>4. ASSUME NEW u \in AppUnits,
               \/ ScrapeUpdateStatus(u)
               \/ \E address \in Addresses : MovePod(u, address) \/ AddScraped(u, address)
               \/ \E next \in AppUnits : RemoveScraped(u, next)
        PROVE  ScrapeNext
    BY <2>4, Zenon DEF ScrapeNext
  <2>5. QED
    BY <2>1, <2>2, <2>3, <2>4 DEF ScrapeSteps
<1>3. QED
  BY <1>1, <1>2

LEMMA S3Step ==
  ASSUME S3Steps
  PROVE  /\ S3Next
         /\ UNCHANGED <<tlsVars, ingressVars, scrapeVars, allRequirerVars>>
<1>1. UNCHANGED <<tlsVars, ingressVars, scrapeVars, allRequirerVars>>
  BY DEF S3Steps, S3
<1>2. S3Next
  BY Zenon DEF S3Steps, S3Next
<1>3. QED
  BY <1>1, <1>2

LEMMA TracingStep ==
  ASSUME RequirerSteps
  PROVE  /\ RequirerNext
         /\ UNCHANGED <<tlsVars, ingressVars, scrapeVars, s3Vars>>
<1>1. settled' = FALSE /\ UNCHANGED <<tlsVars, ingressVars, scrapeVars, s3Vars>>
  BY DEF RequirerSteps, Tracing
<1>2. RequirerNext
  BY <1>1, Zenon DEF RequirerSteps, RequirerNext
<1>3. QED
  BY <1>1, <1>2

LEMMA RelationsStep ==
  ASSUME [RelationsNext]_relationsVars
  PROVE  /\ [TlsNext]_tlsVars /\ [IngressNext]_ingressVars
         /\ [ScrapeNext]_scrapeVars /\ [S3Next]_s3Vars
         /\ [RequirerNext]_allRequirerVars
<1>1. CASE RelationsNext
  BY <1>1, CertificatesStep, IngressStep, ScrapeStep, S3Step, TracingStep
     DEF RelationsNext
<1>2. CASE UNCHANGED relationsVars
  BY <1>2 DEF relationsVars
<1>3. QED
  BY <1>1, <1>2

\* A behaviour of the five interfaces together, as the run explores them, is one
\* of each of them, as its own specification without fairness has it: the
\* composition adds no step to any.
THEOREM RelationsCompose ==
  RelationsSpec => /\ TlsInit /\ [][TlsNext]_tlsVars
                   /\ IngressInit /\ [][IngressNext]_ingressVars
                   /\ ScrapeInit /\ [][ScrapeNext]_scrapeVars
                   /\ S3Spec
                   /\ RequirerSpec
<1>1. RelationsInit => /\ TlsInit /\ IngressInit /\ ScrapeInit
                       /\ S3Init /\ RequirerInit
  BY DEF RelationsInit
<1>2. [RelationsNext]_relationsVars =>
        /\ [TlsNext]_tlsVars /\ [IngressNext]_ingressVars
        /\ [ScrapeNext]_scrapeVars /\ [S3Next]_s3Vars
        /\ [RequirerNext]_allRequirerVars
  BY RelationsStep
<1>3. QED
  BY <1>1, <1>2, PTL DEF RelationsSpec, S3Spec, RequirerSpec

\* What the provider of the ingress was last told of are units.
LEMMA IngressTypes == IngressInit /\ [][IngressNext]_ingressVars => []IngressTypeOK
<1>1. IngressInit => ingProxied \subseteq IngressUnits
  BY DEF IngressInit
<1>2. /\ IngressInv /\ ingProxied \subseteq IngressUnits /\ [IngressNext]_ingressVars
      => (ingProxied \subseteq IngressUnits)'
  <2> SUFFICES ASSUME IngressInv, ingProxied \subseteq IngressUnits, [IngressNext]_ingressVars
               PROVE  ingProxied' \subseteq IngressUnits
    OBVIOUS
  <2>1. ingHosts \subseteq IngressUnits
    BY DEF IngressInv, IngressDataOK
  <2>2. CASE IngressNext
    <3>1. ingProxied' \in {ingProxied, ingHosts, {}}
      BY <2>2 DEF IngressNext, RelateIngress, RemoveIngress, WipeIngressData,
                  ProviderHandleRelation, ProviderBroken, ChangeUrl, RestoreUrl, PublishUrl,
                  AddIngressUnit, RemoveIngressUnit, ElectIngressLeader, IngressHandleRelation,
                  IngressBroken, IngressElected
    <3> QED BY <2>1, <3>1
  <2>3. CASE UNCHANGED ingressVars
    BY <2>3 DEF ingressVars
  <2> QED BY <2>2, <2>3
<1>3. IngressInv /\ ingProxied \subseteq IngressUnits => IngressTypeOK
  BY DEF IngressInv, IngressDataOK, StoredIsTold, IngressTypeOK
<1> QED BY <1>1, <1>2, <1>3, InitIngress, NextIngress, PTL

\* The databags of the scrape relations, and what is queued about them.
LEMMA ScrapeTypes == ScrapeInit /\ [][ScrapeNext]_scrapeVars => []ScrapeTypeOK
<1>1. ScrapeInit => ScrapeBagsOK
  <2> SUFFICES ASSUME ScrapeInit PROVE ScrapeBagsOK
    OBVIOUS
  <2>1. scAddress \in [AppUnits -> Addresses]
    BY PodsAssumption DEF ScrapeInit
  <2>2. PICK jobs \in JobSpecs : scJobs = [a \in Apps |-> jobs]
    BY DEF ScrapeInit
  <2> QED BY <2>1, <2>2 DEF ScrapeInit, ScrapeBagsOK
<1>2. ScrapeInv /\ ScrapeBagsOK /\ [ScrapeNext]_scrapeVars => ScrapeBagsOK'
  <2> SUFFICES ASSUME ScrapeInv, ScrapeBagsOK, [ScrapeNext]_scrapeVars PROVE ScrapeBagsOK'
    OBVIOUS
  <2> USE DEF ScrapeBagsOK, scDeployment, scProviderBags, scConsumerState, scQueues, ScrapeChange
  <2>1. scRelated \subseteq ScrapeRelations /\ scUnits \subseteq AppUnits
    BY DEF ScrapeInv, ScrapeDataOK
  <2>2. ASSUME NEW r PROVE RelationUnits(r) \subseteq AppUnits
    BY <2>1 DEF RelationUnits
  <2>3. ASSUME NEW u, SetUnitIp(u)
        PROVE  scHosts' \in [ScrapeRelations -> [AppUnits -> Addresses \cup {NoAddress}]]
    <3>1. ASSUME NEW r \in ScrapeRelations
          PROVE  scHosts'[r] \in [AppUnits -> Addresses \cup {NoAddress}]
      <4>1. scHosts'[r] \in {scHosts[r], [scHosts[r] EXCEPT ![u] = scAddress[u]]}
        BY <2>3 DEF SetUnitIp
      <4>2. scHosts[r] \in [AppUnits -> Addresses \cup {NoAddress}]
        OBVIOUS
      <4>3. CASE u \in AppUnits
        <5>1. scAddress[u] \in Addresses \cup {NoAddress}
          BY <4>3
        <5> QED BY <4>1, <4>2, <5>1
      <4>4. CASE u \notin AppUnits
        BY <4>1, <4>2, <4>4
      <4> QED BY <4>3, <4>4
    <3>2. scHosts' = [r \in ScrapeRelations |-> scHosts'[r]]
      BY <2>3 DEF SetUnitIp
    <3> QED BY <3>1, <3>2
  <2>4. ASSUME NEW u \in AppUnits, SetScrapeJobSpec(u)
        PROVE  /\ scHosts' \in [ScrapeRelations -> [AppUnits -> Addresses \cup {NoAddress}]]
               /\ scPublished' \in [ScrapeRelations -> JobSpecs \cup {{}}]
    <3>1. SetUnitIp(u)
      BY <2>4 DEF SetScrapeJobSpec
    <3>2. ASSUME NEW r \in ScrapeRelations, scPublished'[r] # scPublished[r]
          PROVE  scPublished'[r] \in JobSpecs
      <4>1. /\ scPublished'[r] = scJobs[AppOfUnit(u)]
            /\ r \in RelationsOf(AppOfUnit(u))
        BY <2>4, <3>2 DEF SetScrapeJobSpec
      <4>2. AppOfUnit(u) = AppOf[r] /\ AppOf[r] \in Apps
        BY <4>1, ScrapeAssumption DEF RelationsOf
      <4> QED BY <4>1, <4>2
    <3>3. scPublished' = [r \in ScrapeRelations |-> scPublished'[r]]
      BY <2>4 DEF SetScrapeJobSpec
    <3> QED BY <2>3, <3>1, <3>2, <3>3
  <2>5. CASE ConsumerHook
    <3>1. scLoaded' \subseteq ScrapeRelations /\ UNCHANGED <<scDeployment, scProviderBags, scJoined>>
      BY <2>1, <2>5 DEF ConsumerHook
    <3>2. scChanged' \subseteq ScrapeRelations \X AppUnits
      BY <2>1, <2>2, <2>5 DEF ConsumerHook
    <3> QED BY <3>1, <3>2
  <2>6. ASSUME NEW r \in ScrapeRelations, RelateScrape(r) PROVE ScrapeBagsOK'
    BY <2>2, <2>6 DEF RelateScrape
  <2>7. ASSUME NEW r \in ScrapeRelations, RemoveScrape(r) PROVE ScrapeBagsOK'
    BY <2>7 DEF RemoveScrape
  <2>8. ASSUME NEW r \in ScrapeRelations, NEW u \in UnitsOf[AppOf[r]], ScrapeJoined(r, u)
        PROVE  ScrapeBagsOK'
    <3>1. u \in AppUnits
      BY ScrapeAssumption
    <3> QED BY <2>4, <2>8, <3>1 DEF ScrapeJoined
  <2>9. ASSUME NEW r \in ScrapeRelations, NEW u \in UnitsOf[AppOf[r]],
               ProviderRelationChanged(r, u)
        PROVE  ScrapeBagsOK'
    BY <2>3, <2>9 DEF ProviderRelationChanged
  <2>10. ASSUME NEW a \in Apps, NEW jobs \in JobSpecs, NEW ok \in BOOLEAN,
                ChangeJobs(a, jobs, ok)
         PROVE  ScrapeBagsOK'
    <3>1. scRulesOk' \in [Apps -> BOOLEAN]
      BY <2>10 DEF ChangeJobs
    <3> QED BY <2>10, <3>1 DEF ChangeJobs
  <2>11. ASSUME NEW u \in AppUnits, ScrapeUpdateStatus(u) PROVE ScrapeBagsOK'
    BY <2>4, <2>11 DEF ScrapeUpdateStatus, UpdateStatusBags
  <2>12. ASSUME NEW u \in AppUnits, NEW address \in Addresses, MovePod(u, address)
         PROVE  ScrapeBagsOK'
    BY <2>12 DEF MovePod
  <2>13. ASSUME NEW u \in AppUnits, NEW address \in Addresses, AddScraped(u, address)
         PROVE  ScrapeBagsOK'
    BY <2>1, <2>13 DEF AddScraped, RelationsOf
  <2>14. ASSUME NEW u \in AppUnits, NEW next \in AppUnits, RemoveScraped(u, next)
         PROVE  ScrapeBagsOK'
    <3>1. scHosts' \in [ScrapeRelations -> [AppUnits -> Addresses \cup {NoAddress}]]
      BY <2>14 DEF RemoveScraped
    <3>2. AppOfUnit(u) \in Apps
      BY PodsAssumption DEF AppOfUnit
    <3> QED BY <2>14, <3>1, <3>2 DEF RemoveScraped
  <2>15. CASE UNCHANGED scrapeVars
    BY <2>15 DEF scrapeVars
  <2> QED
    BY <2>5, <2>6, <2>7, <2>8, <2>9, <2>10, <2>11, <2>12, <2>13, <2>14, <2>15 DEF ScrapeNext
<1>3. ScrapeInv /\ ScrapeBagsOK => ScrapeTypeOK
  BY DEF ScrapeInv, AppsLed, ScrapeTypeOK
<1> QED BY <1>1, <1>2, <1>3, InitScrape, NextScrape, PTL

\* The variables of each of the five interfaces keep their types.
THEOREM RelationsTypes == RelationsSpec => []RelationsTypeOK
<1>1. TlsInv /\ RequirerInv /\ S3Inv => TlsTypeOK /\ RequirerTypeOK /\ S3TypeOK
  BY DEF TlsInv, RequirerInv, S3Inv
<1>2. RelationsSpec => []TlsTypeOK /\ []RequirerTypeOK /\ []S3TypeOK
  BY <1>1, RelationsCompose, InitTls, NextTls, RequirerInvariant, S3Invariant, PTL
<1>3. RelationsSpec => []IngressTypeOK /\ []ScrapeTypeOK
  BY RelationsCompose, IngressTypes, ScrapeTypes, PTL
<1> QED BY <1>2, <1>3, PTL DEF RelationsTypeOK
===============================================================================
