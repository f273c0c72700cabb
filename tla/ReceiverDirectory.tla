--------------------------- MODULE ReceiverDirectory ---------------------------
(***************************************************************************)
(* What the tracing interface promises, without how the coordinator charm  *)
(* goes about it: requirers ask for receivers, units of the provider look  *)
(* at what is in demand and, some time later, answer every relation they   *)
(* saw with that demand. When the provider is settled, nobody holds an     *)
(* answer that differs from the demand.                                    *)
(*                                                                         *)
(* TempoCoordinator implements this (see its Directory); TracingRequirer   *)
(* is a requirer of any provider that does.                                *)
(***************************************************************************)
CONSTANTS Units,      \* the provider's units
          Relations,  \* tracing relations, each related at most once
          Protocols,  \* the receiver protocols
          AlwaysOn    \* those on in every deployment

VARIABLES
  asked,    \* relation -> is it live, and what it asks for
  always,   \* the receivers the configuration asks for
  looks,    \* unit -> the answer it is preparing, if any
  offered,  \* relation -> the receivers it has been told of
  settled   \* has the provider handled every change

directoryVars == <<asked, always, looks, offered, settled>>

Ask == [live : BOOLEAN, protocols : SUBSET Protocols]
NotAsked == [live |-> FALSE, protocols |-> {}]
LiveRelations == {r \in Relations : asked[r].live}

\* A slip: what charm tracing needs is not always on.
DirectoryDemand_Asked == always \cup UNION {asked[r].protocols : r \in Relations}
DirectoryDemand ==
  AlwaysOn \cup always \cup UNION {asked[r].protocols : r \in Relations}

NoLook == [relations |-> {}, demand |-> {}]
Look == [relations : SUBSET Relations, demand : SUBSET Protocols]

\* The provider counts as settled only when everyone has the answer of now.
Honest ==
  settled' => \A r \in LiveRelations' : offered'[r] = DirectoryDemand'

DirectoryInit ==
  /\ asked = [r \in Relations |-> NotAsked]
  /\ always = {}
  /\ looks = [u \in Units |-> NoLook]
  /\ offered = [r \in Relations |-> {}]
  /\ settled \in BOOLEAN

\* A requirer comes, asks or goes, with what it was told; the configuration
\* changes.
AskFor(r, ask) ==
  /\ asked' = [asked EXCEPT ![r] = ask]
  /\ offered' = IF ask.live THEN offered ELSE [offered EXCEPT ![r] = {}]
  /\ UNCHANGED <<always, looks>>
  /\ settled' \in BOOLEAN /\ Honest
Configure(ps) ==
  /\ always' = ps
  /\ UNCHANGED <<asked, looks, offered>>
  /\ settled' \in BOOLEAN /\ Honest

\* The relations an answer reaches: not those that are gone.
Answered(u) == looks[u].relations \cap LiveRelations

\* A unit looks, answers what it saw, or drops the answer.
LookUp(u) ==
  /\ looks' = [looks EXCEPT
       ![u] = [relations |-> LiveRelations, demand |-> DirectoryDemand]]
  /\ UNCHANGED <<asked, always, offered>>
  /\ settled' \in BOOLEAN /\ Honest
Answer(u) ==
  /\ offered' = [r \in Relations |->
                   IF r \in Answered(u) THEN looks[u].demand ELSE offered[r]]
  /\ looks' = [looks EXCEPT ![u] = NoLook]
  /\ UNCHANGED <<asked, always>>
  /\ settled' \in BOOLEAN /\ Honest
Drop(u) ==
  /\ looks' = [looks EXCEPT ![u] = NoLook]
  /\ UNCHANGED <<asked, always, offered>>
  /\ settled' \in BOOLEAN /\ Honest

\* What the requirers cannot see: readiness, leadership, other events.
Settle ==
  /\ UNCHANGED <<asked, always, looks, offered>>
  /\ settled' \in BOOLEAN /\ Honest

DirectoryNext ==
  \/ \E r \in Relations, ask \in Ask : AskFor(r, ask)
  \/ \E ps \in SUBSET Protocols : Configure(ps)
  \/ \E u \in Units : LookUp(u) \/ Answer(u) \/ Drop(u)
  \/ Settle

DirectorySpec == DirectoryInit /\ [][DirectoryNext]_directoryVars
===============================================================================
