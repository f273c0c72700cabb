----------------------------- MODULE S3Credentials -----------------------------
(***************************************************************************)
(* The s3 interface (s3.py): the requirer's leader asks for a bucket when  *)
(* it joins, the provider's leader tells its charm of the request once and *)
(* puts the credentials in its application databag, and every unit of the  *)
(* requirer tells its own charm when they are complete.                    *)
(*                                                                         *)
(* The endpoint has a limit of one relation; bucket names come from the    *)
(* relation's id, so a databag has the bucket or has not. Both databags    *)
(* are only added to, and go with the relation.                            *)
(***************************************************************************)
EXTENDS Naturals

CONSTANTS S3Units,       \* the units of the requirer
          S3Providers,   \* the units of the provider
          S3Keys,        \* what a connection consists of
          S3Required,    \* what it cannot do without
          MaxS3Changes   \* what people do: bounds the checking

ASSUME S3Assumption == S3Required \subseteq S3Keys /\ MaxS3Changes \in Nat

VARIABLES
  s3Related,     \* is there a relation
  s3Leader,      \* the leader of the requirer
  s3Provider,    \* the leader of the provider
  s3Switched,    \* has either changed since the relation was made
  s3Bucket,      \* is the bucket in the requirer's databag
  s3Given,       \* the provider's databag, without its "data"
  s3Data,        \* "data": the requirer's databag as last compared
  s3Requests,    \* credentials_requested events of this relation
  s3Told,        \* unit -> what its charm was last told
  s3Joins, s3Events, s3Gone,  \* units of the requirer with such an event
  s3Asked,       \* units of the provider with an event
  s3Changes

s3Databags == <<s3Bucket, s3Given, s3Data, s3Requests>>
s3Queues == <<s3Joins, s3Events, s3Gone, s3Asked>>
s3Deployment == <<s3Related, s3Leader, s3Provider, s3Switched, s3Changes>>
s3Vars == <<s3Deployment, s3Databags, s3Told, s3Queues>>

Absent == 0
NoConnection == [k \in S3Keys |-> Absent]

-------------------------------------------------------------------------------
(* The provider *)

\* diff: what the bucket has that the copy under "data" has not. The copy is the
\* application's, the next leader goes on from it. Slip: a unit's own copy, which
\* a new leader has none of.
DiffAdded_OfUnit(p) == s3Bucket /\ (~s3Data \/ s3Switched)
DiffAdded(p) == s3Bucket /\ ~s3Data

RequestsCredentials(p) == s3Provider = p /\ DiffAdded(p)

ProviderChanged(p) ==
  /\ p \in s3Asked
  /\ s3Asked' = s3Asked \ {p}
  /\ s3Requests' = s3Requests + (IF RequestsCredentials(p) THEN 1 ELSE 0)
  /\ s3Data' = IF s3Provider = p THEN s3Bucket ELSE s3Data
  /\ s3Events' = IF s3Data' # s3Data THEN S3Units ELSE s3Events
  /\ UNCHANGED <<s3Deployment, s3Bucket, s3Given, s3Told, s3Joins, s3Gone>>

S3Change == s3Changes < MaxS3Changes /\ s3Changes' = s3Changes + 1

\* update_connection_info and what calls it: the charm sets some of the keys.
\* Only the leader writes, and only if the relation is there.
UpdateConnection(p, keys) ==
  /\ S3Change
  /\ s3Related /\ s3Provider = p
  /\ s3Given' = [k \in S3Keys |-> IF k \in keys THEN s3Changes' ELSE s3Given[k]]
  /\ s3Events' = S3Units
  /\ UNCHANGED <<s3Related, s3Leader, s3Provider, s3Switched, s3Bucket, s3Data,
                 s3Requests, s3Told, s3Joins, s3Gone, s3Asked>>

-------------------------------------------------------------------------------
(* The requirer *)

\* A follower's request is dropped, update_connection_info writes for leaders.
RequirerJoined(u) ==
  /\ u \in s3Joins
  /\ s3Joins' = s3Joins \ {u}
  /\ s3Bucket' = (s3Bucket \/ s3Leader = u)
  /\ s3Asked' = IF s3Bucket' # s3Bucket THEN S3Providers ELSE s3Asked
  /\ UNCHANGED <<s3Deployment, s3Given, s3Data, s3Requests, s3Told, s3Events, s3Gone>>

\* What _on_relation_changed tells the charm: the connection, if all of it that
\* is mandatory is there, or nothing. Slip: half a connection will do.
Announced_Half(u) ==
  IF \E k \in S3Required : s3Given[k] # Absent THEN s3Given ELSE s3Told[u]
Announced(u) ==
  IF \A k \in S3Required : s3Given[k] # Absent THEN s3Given ELSE s3Told[u]

RequirerChanged(u) ==
  /\ u \in s3Events \ s3Joins  \* Juju: joined comes first
  /\ s3Events' = s3Events \ {u}
  /\ s3Told' = [s3Told EXCEPT ![u] = Announced(u)]
  /\ UNCHANGED <<s3Deployment, s3Databags, s3Joins, s3Gone, s3Asked>>

RequirerBroken(u) ==
  /\ u \in s3Gone
  /\ s3Gone' = s3Gone \ {u}
  /\ s3Told' = [s3Told EXCEPT ![u] = NoConnection]
  /\ UNCHANGED <<s3Deployment, s3Databags, s3Joins, s3Events, s3Asked>>

-------------------------------------------------------------------------------
(* Juju: relation-changed comes after relation-joined, data or not; a relation *)
(* that is removed takes its databags and events with it.                      *)
RelateS3 ==
  /\ S3Change
  /\ ~s3Related /\ s3Gone = {}
  /\ s3Related' = TRUE /\ s3Switched' = FALSE
  /\ s3Joins' = S3Units /\ s3Events' = S3Units /\ s3Asked' = S3Providers
  /\ UNCHANGED <<s3Leader, s3Provider, s3Databags, s3Told, s3Gone>>
RemoveS3 ==
  /\ S3Change
  /\ s3Related
  /\ s3Related' = FALSE
  /\ s3Bucket' = FALSE /\ s3Given' = NoConnection /\ s3Data' = FALSE /\ s3Requests' = 0
  /\ s3Joins' = {} /\ s3Events' = {} /\ s3Asked' = {} /\ s3Gone' = S3Units
  /\ UNCHANGED <<s3Leader, s3Provider, s3Switched, s3Told>>
SwitchS3Leader(u) ==
  /\ S3Change
  /\ s3Leader # u
  /\ s3Leader' = u /\ s3Switched' = TRUE
  /\ UNCHANGED <<s3Related, s3Provider, s3Databags, s3Told, s3Queues>>
SwitchS3Provider(p) ==
  /\ S3Change
  /\ s3Provider # p
  /\ s3Provider' = p /\ s3Switched' = TRUE
  /\ UNCHANGED <<s3Related, s3Leader, s3Databags, s3Told, s3Queues>>

S3Init ==
  /\ s3Related = FALSE /\ s3Leader \in S3Units /\ s3Provider \in S3Providers
  /\ s3Switched = FALSE /\ s3Bucket = FALSE /\ s3Given = NoConnection
  /\ s3Data = FALSE /\ s3Requests = 0
  /\ s3Told = [u \in S3Units |-> NoConnection]
  /\ s3Joins = {} /\ s3Events = {} /\ s3Gone = {} /\ s3Asked = {}
  /\ s3Changes = 0

S3Next ==
  \/ RelateS3 \/ RemoveS3
  \/ \E u \in S3Units :
       SwitchS3Leader(u) \/ RequirerJoined(u) \/ RequirerChanged(u) \/ RequirerBroken(u)
  \/ \E p \in S3Providers :
       \/ SwitchS3Provider(p) \/ ProviderChanged(p)
       \/ \E keys \in SUBSET S3Keys : UpdateConnection(p, keys)

S3Spec == S3Init /\ [][S3Next]_s3Vars

-------------------------------------------------------------------------------
(* Properties *)

\* The values of the variables.
S3TypeOK ==
  /\ s3Related \in BOOLEAN /\ s3Switched \in BOOLEAN
  /\ s3Bucket \in BOOLEAN /\ s3Data \in BOOLEAN
  /\ s3Leader \in S3Units /\ s3Provider \in S3Providers
  /\ s3Given \in [S3Keys -> Nat] /\ s3Told \in [S3Units -> [S3Keys -> Nat]]
  /\ s3Requests \in Nat /\ s3Changes \in Nat
  /\ s3Joins \subseteq S3Units /\ s3Events \subseteq S3Units /\ s3Gone \subseteq S3Units
  /\ s3Asked \subseteq S3Providers

\* The provider's charm creates a bucket and a user for a request: whoever leads
\* when, it hears of one for each relation at most.
RequestedOnce == s3Requests <= 1

\* And hears of it, unless a leader changed: the units that handled their events
\* as followers do not look again (_on_relation_joined, _on_relation_changed).
RequestHeard ==
  s3Related /\ ~s3Switched /\ s3Joins = {} /\ s3Asked = {} => s3Requests = 1

\* A charm that handled its events has the connection of now, all of it, or was
\* told of none. It never holds the half of one, or that of an earlier relation.
ConnectionCurrent ==
  \A u \in S3Units \ (s3Joins \cup s3Events \cup s3Gone) :
    s3Told[u] = IF \A k \in S3Required : s3Given[k] # Absent
                THEN s3Given ELSE NoConnection

\* A bucket is asked for, and once.
BucketRequested == RequestedOnce /\ RequestHeard
===============================================================================
