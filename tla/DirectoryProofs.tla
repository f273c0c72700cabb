--------------------------- MODULE DirectoryProofs ---------------------------
(***************************************************************************)
(* Proof that TempoCoordinator implements ReceiverDirectory: its initial   *)
(* states are those of a directory, and each of its steps is one of the    *)
(* directory's under the mapping of Directory, or changes nothing there.   *)
(***************************************************************************)
EXTENDS TempoCoordinatorProofs

-------------------------------------------------------------------------------
(* The mapping, variable by variable *)

AskOf(r) ==
  [live |-> r \in Live(model.request),
   protocols |-> IF r \in Live(model.request)
                 THEN model.request[r].protocols ELSE {}]
Asked == [r \in Relations |-> AskOf(r)]
LookOf(u) ==
  IF Busy(u) /\ Publishes(running[u].view)
  THEN [relations |-> Live(running[u].view.request),
        demand |-> RequestedReceivers(running[u].view)]
  ELSE [relations |-> {}, demand |-> {}]
Looks == [u \in Units |-> LookOf(u)]
Offered == [r \in Relations |-> {e.protocol : e \in receivers[r]}]
AllSettled == Settled(model.leader) /\ model.ready

LEMMA DemandMapped == TypeOK => Directory!DirectoryDemand = Demand
<1> SUFFICES ASSUME TypeOK PROVE Directory!DirectoryDemand = Demand
  OBVIOUS
<1>1. \A r \in Relations : AskOf(r).protocols \subseteq Protocols
  BY DEF AskOf, TypeOK, Model, Request
<1>2. (UNION {AskOf(r).protocols : r \in Relations})
        = {p \in Protocols : \E r \in Live(model.request) :
                                p \in model.request[r].protocols}
  BY <1>1 DEF AskOf, Live
<1>3. (UNION {Asked[r].protocols : r \in Relations})
        = UNION {AskOf(r).protocols : r \in Relations}
  BY DEF Asked
<1>4. QED
  BY <1>2, <1>3 DEF Directory!DirectoryDemand, Demand, Asked, AskOf

LEMMA LiveMapped == Directory!LiveRelations = Live(model.request)
BY DEF Directory!LiveRelations, Live

LEMMA MappedNext ==
  /\ (TypeOK => Directory!DirectoryDemand = Demand)'
  /\ (Directory!LiveRelations = Live(model.request))'
BY DemandMapped, LiveMapped, PTL

\* When the coordinator is settled everybody holds the answer of now.
LEMMA AnswersHonestly ==
  ASSUME TypeOK', RequestsAnswered'
  PROVE  /\ AllSettled' \in BOOLEAN
         /\ Directory!Honest
<1>1. AllSettled' \in BOOLEAN
  BY DEF AllSettled, Settled
<1>2. Directory!DirectoryDemand' = Demand'
  BY MappedNext
<1>3. Directory!LiveRelations' = Live(model.request)'
  BY MappedNext
<1>4. AllSettled' => \A r \in Live(model.request)' : Offered'[r] = Demand'
  BY DEF AllSettled, RequestsAnswered, Offered, Live
<1>5. QED
  BY <1>1, <1>2, <1>3, <1>4
     DEF Directory!Honest, AllSettled, Offered

-------------------------------------------------------------------------------
(* Every step is one of the directory's *)

\* A step that changes nothing of what the requirers ask, see or will be told.
LEMMA SettleMapped ==
  ASSUME ReconcileInv', UNCHANGED <<Asked, model.always, Looks, Offered>>
  PROVE  Directory!DirectoryNext
<1>1. AllSettled' \in BOOLEAN /\ Directory!Honest
  BY AnswersHonestly DEF ReconcileInv
<1>2. Directory!Settle
  BY <1>1 DEF Directory!Settle, AllSettled, Asked, AskOf, Looks, LookOf, Offered
<1>3. QED
  BY <1>2 DEF Directory!DirectoryNext

LEMMA DropMapped ==
  ASSUME ReconcileInv', UNCHANGED <<Asked, model.always, Offered>>,
         NEW u \in Units, Looks' = [Looks EXCEPT ![u] = Directory!NoLook]
  PROVE  Directory!DirectoryNext
<1>1. AllSettled' \in BOOLEAN /\ Directory!Honest
  BY AnswersHonestly DEF ReconcileInv
<1>2. Directory!Drop(u)
  BY <1>1 DEF Directory!Drop, AllSettled, Asked, AskOf, Looks, LookOf, Offered
<1>3. QED
  BY <1>2 DEF Directory!DirectoryNext

LEMMA LookMapped ==
  ASSUME ReconcileInv', UNCHANGED <<Asked, model.always, Offered>>,
         NEW u \in Units,
         Looks' = [Looks EXCEPT ![u] = [relations |-> Directory!LiveRelations,
                                        demand |-> Directory!DirectoryDemand]]
  PROVE  Directory!DirectoryNext
<1>1. AllSettled' \in BOOLEAN /\ Directory!Honest
  BY AnswersHonestly DEF ReconcileInv
<1>2. Directory!LookUp(u)
  BY <1>1 DEF Directory!LookUp, AllSettled, Asked, AskOf, Looks, LookOf, Offered
<1>3. QED
  BY <1>2 DEF Directory!DirectoryNext

LEMMA AnswerMapped ==
  ASSUME ReconcileInv', UNCHANGED <<Asked, model.always>>,
         NEW u \in Units, Looks' = [Looks EXCEPT ![u] = Directory!NoLook],
         Offered' = [r \in Relations |->
                       IF r \in Directory!Answered(u) THEN Looks[u].demand
                       ELSE Offered[r]]
  PROVE  Directory!DirectoryNext
<1>1. AllSettled' \in BOOLEAN /\ Directory!Honest
  BY AnswersHonestly DEF ReconcileInv
<1>2. Directory!Answer(u)
  BY <1>1 DEF Directory!Answer, AllSettled, Asked, AskOf, Looks, LookOf, Offered
<1>3. QED
  BY <1>2 DEF Directory!DirectoryNext

LEMMA AskMapped ==
  ASSUME ReconcileInv', UNCHANGED <<model.always, Looks>>,
         NEW r \in Relations, NEW ask \in Directory!Ask,
         Asked' = [Asked EXCEPT ![r] = ask],
         Offered' = IF ask.live THEN Offered ELSE [Offered EXCEPT ![r] = {}]
  PROVE  Directory!DirectoryNext
<1>1. AllSettled' \in BOOLEAN /\ Directory!Honest
  BY AnswersHonestly DEF ReconcileInv
<1>2. Directory!AskFor(r, ask)
  BY <1>1 DEF Directory!AskFor, AllSettled, Asked, AskOf, Looks, LookOf, Offered
<1>3. QED
  BY <1>2 DEF Directory!DirectoryNext

LEMMA ConfigureMapped ==
  ASSUME ReconcileInv', UNCHANGED <<Asked, Looks, Offered>>,
         NEW ps \in SUBSET Protocols, model'.always = ps
  PROVE  Directory!DirectoryNext
<1>1. AllSettled' \in BOOLEAN /\ Directory!Honest
  BY AnswersHonestly DEF ReconcileInv
<1>2. Directory!Configure(ps)
  BY <1>1 DEF Directory!Configure, AllSettled, Asked, AskOf, Looks, LookOf, Offered
<1>3. QED
  BY <1>2 DEF Directory!DirectoryNext

LEMMA InitMapped == Init => Directory!DirectoryInit
<1> SUFFICES ASSUME Init PROVE Directory!DirectoryInit
  OBVIOUS
<1>1. Asked = [r \in Relations |-> Directory!NotAsked]
  <2>1. \A r \in Relations : model.request[r].phase = "absent"
    BY DEF Init
  <2>2. \A r \in Relations : AskOf(r) = Directory!NotAsked
    <3>1. \A r \in Relations : (r \in Live(model.request)) = FALSE
      BY <2>1 DEF Live
    <3>2. QED
      BY <3>1, Zenon DEF AskOf, Directory!NotAsked
  <2>3. QED
    BY <2>2, Zenon DEF Asked
<1>2. Looks = [u \in Units |-> Directory!NoLook]
  BY DEF Init, Looks, LookOf, Busy, Idle, Directory!NoLook
<1>3. Offered = [r \in Relations |-> {}]
  BY DEF Init, Offered
<1>4. AllSettled \in BOOLEAN /\ model.always = {}
  BY DEF Init, AllSettled, Settled
<1>5. QED
  BY <1>1, <1>2, <1>3, <1>4
     DEF Directory!DirectoryInit, Asked, AskOf, Looks, LookOf, Offered, AllSettled

\* What the requirers ask and see changes with the model's part of it only.
LEMMA Kept ==
  /\ model'.request = model.request => Asked' = Asked
  /\ running' = running => Looks' = Looks
  /\ receivers' = receivers => Offered' = Offered
<1>1. model'.request = model.request => Asked' = Asked
  BY DEF Asked, AskOf
<1>2. running' = running => Looks' = Looks
  BY DEF Looks, LookOf, Busy
<1>3. receivers' = receivers => Offered' = Offered
  BY DEF Offered
<1>4. QED
  BY <1>1, <1>2, <1>3

LEMMA QuietMapped ==
  ASSUME ReconcileInv',
         UNCHANGED <<model.request, model.always, running, receivers>>
  PROVE  Directory!DirectoryNext
BY Kept, SettleMapped

LEMMA AskedChanges ==
  ASSUME model \in Model, NEW r \in Relations, NEW req \in Request,
         model' = [model EXCEPT !.request[r] = req]
  PROVE  Asked' = [Asked EXCEPT ![r] =
                     [live |-> req.phase \in {"silent", "asked"},
                      protocols |-> IF req.phase \in {"silent", "asked"}
                                    THEN req.protocols ELSE {}]]
<1> DEFINE ask == [live |-> req.phase \in {"silent", "asked"},
                   protocols |-> IF req.phase \in {"silent", "asked"}
                                 THEN req.protocols ELSE {}]
<1>1. model'.request = [model.request EXCEPT ![r] = req]
  BY DEF Model
<1>2. ASSUME NEW q \in Relations PROVE AskOf(q)' = IF q = r THEN ask ELSE AskOf(q)
  <2>1. model'.request[q] = IF q = r THEN req ELSE model.request[q]
    BY <1>1 DEF Model
  <2>2. QED
    BY <2>1 DEF AskOf, Live
<1>3. QED
  BY <1>2, Zenon DEF Asked

LEMMA TracingChangeMapped ==
  ASSUME ReconcileInv, ReconcileInv', TracingChange
  PROVE  Directory!DirectoryNext
<1>1. model \in Model
  BY DEF ReconcileInv, TypeOK
<1>2. ASSUME NEW r \in Relations, RelateTracing(r)
      PROVE  Directory!DirectoryNext
  <2> DEFINE ask == [live |-> TRUE, protocols |-> {}]
  <2>1. /\ model' = [model EXCEPT !.request[r] = [phase |-> "silent", protocols |-> {}]]
        /\ UNCHANGED <<running, receivers>>
    BY <1>2 DEF RelateTracing, Tell, Change, hooks, databags
  <2>2. ask \in Directory!Ask
    BY DEF Directory!Ask
  <2>3. Asked' = [Asked EXCEPT ![r] = ask]
    <3> DEFINE req == [phase |-> "silent", protocols |-> {}]
    <3>1. req \in Request
      BY DEF Request
    <3>2. QED
      BY <1>1, <2>1, <3>1, AskedChanges
  <2>4. model'.always = model.always
    BY <1>1, <2>1 DEF Model
  <2>5. QED
    BY <2>1, <2>2, <2>3, <2>4, Kept, AskMapped
<1>3. ASSUME NEW r \in Relations, NEW ps \in (SUBSET Protocols) \ {{}},
             RequestProtocols(r, ps)
      PROVE  Directory!DirectoryNext
  <2> DEFINE ask == [live |-> TRUE, protocols |-> ps]
  <2>1. /\ model' = [model EXCEPT !.request[r] = [phase |-> "asked", protocols |-> ps]]
        /\ UNCHANGED <<running, receivers>>
    BY <1>3 DEF RequestProtocols, Tell, Change, hooks, databags
  <2>2. ask \in Directory!Ask
    BY DEF Directory!Ask
  <2>3. Asked' = [Asked EXCEPT ![r] = ask]
    <3> DEFINE req == [phase |-> "asked", protocols |-> ps]
    <3>1. req \in Request
      BY DEF Request
    <3>2. QED
      BY <1>1, <2>1, <3>1, AskedChanges
  <2>4. model'.always = model.always
    BY <1>1, <2>1 DEF Model
  <2>5. QED
    BY <2>1, <2>2, <2>3, <2>4, Kept, AskMapped
<1>4. ASSUME NEW r \in Relations, RemoveTracing(r)
      PROVE  Directory!DirectoryNext
  <2> DEFINE ask == [live |-> FALSE, protocols |-> {}]
  <2>1. /\ model' = [model EXCEPT !.request[r] = [phase |-> "gone", protocols |-> {}]]
        /\ running' = running
        /\ receivers' = [receivers EXCEPT ![r] = {}]
    BY <1>4 DEF RemoveTracing, Change, hooks
  <2>2. ask \in Directory!Ask
    BY DEF Directory!Ask
  <2>3. Asked' = [Asked EXCEPT ![r] = ask]
    <3> DEFINE req == [phase |-> "gone", protocols |-> {}]
    <3>1. req \in Request
      BY DEF Request
    <3>2. (req.phase \in {"silent", "asked"}) = FALSE
      OBVIOUS
    <3>3. Asked' = [Asked EXCEPT ![r] =
                      [live |-> req.phase \in {"silent", "asked"},
                       protocols |-> IF req.phase \in {"silent", "asked"}
                                     THEN req.protocols ELSE {}]]
      BY <1>1, <2>1, <3>1, AskedChanges
    <3>4. QED
      BY <3>2, <3>3, Zenon
  <2>4. model'.always = model.always
    BY <1>1, <2>1 DEF Model
  <2>5. Offered' = [Offered EXCEPT ![r] = {}]
    BY <2>1 DEF Offered, ReconcileInv, TypeOK
  <2>6. QED
    BY <2>1, <2>2, <2>3, <2>4, <2>5, Kept, AskMapped
<1>5. ASSUME NEW ps \in SUBSET Protocols, SetAlwaysEnable(ps)
      PROVE  Directory!DirectoryNext
  <2>1. /\ model' = [model EXCEPT !.always = ps]
        /\ UNCHANGED <<running, receivers>>
    BY <1>5 DEF SetAlwaysEnable, Tell, Change, hooks, databags
  <2>2. model'.request = model.request /\ model'.always = ps
    BY <1>1, <2>1 DEF Model
  <2>3. QED
    BY <2>1, <2>2, Kept, ConfigureMapped
<1>6. QED
  BY <1>2, <1>3, <1>4, <1>5 DEF TracingChange

LEMMA ChangesMapped ==
  ASSUME ReconcileInv, ReconcileInv', NEW u \in Units,
         \/ IngressChange \/ \E ok \in BOOLEAN : SetReady(ok)
         \/ UnitChange(u) \/ ElectLeader(u) \/ AddUnit(u)
  PROVE  Directory!DirectoryNext
<1>1. model \in Model
  BY DEF ReconcileInv, TypeOK
<1>2. CASE IngressChange
  <2>1. UNCHANGED <<running, receivers>>
    BY <1>2 DEF IngressChange, RelateTraefik, RemoveTraefik, RelateIstio, RemoveIstio,
       IstioWipes, TraefikPublishes, IstioPublishes, Tell, hooks, databags
  <2>2. UNCHANGED <<model.request, model.always>>
    BY <1>1, <1>2 DEF IngressChange, RelateTraefik, RemoveTraefik, RelateIstio,
       RemoveIstio, IstioWipes, TraefikPublishes, IstioPublishes, Tell, Change, Model
  <2>3. QED
    BY <2>1, <2>2, QuietMapped
<1>3. CASE \/ \E ok \in BOOLEAN : SetReady(ok)
           \/ UnitChange(u) \/ ElectLeader(u) \/ AddUnit(u)
  <2>1. UNCHANGED <<running, receivers>>
    BY <1>3 DEF SetReady, UnitChange, SetCertificate, NginxDown, NginxUp, UpdateStatus,
       ElectLeader, AddUnit, Tell, hooks, databags
  <2>2. UNCHANGED <<model.request, model.always>>
    BY <1>1, <1>3 DEF SetReady, UnitChange, SetCertificate, NginxDown, NginxUp,
       UpdateStatus, ElectLeader, AddUnit, Tell, Change, Model
  <2>3. QED
    BY <2>1, <2>2, QuietMapped
<1>4. QED
  BY <1>2, <1>3

\* A unit's look changes with its hook.
LEMMA LooksChange ==
  ASSUME TypeOK, NEW u \in Units, NEW hook, running' = [running EXCEPT ![u] = hook]
  PROVE  Looks' = [Looks EXCEPT ![u] = LookOf(u)']
<1>1. \A w \in Units : w # u => running'[w] = running[w]
  BY DEF TypeOK
<1>2. \A w \in Units : w # u => LookOf(w)' = LookOf(w)
  BY <1>1 DEF LookOf, Busy
<1>3. QED
  BY <1>2, Zenon DEF Looks

\* A unit that stops running its hook, whatever the reason, looks no more.
LEMMA LookEnds ==
  ASSUME TypeOK, NEW u \in Units, running' = [running EXCEPT ![u] = Idle]
  PROVE  Looks' = [Looks EXCEPT ![u] = Directory!NoLook]
<1>1. ~Busy(u)'
  BY DEF Busy, Idle, TypeOK
<1>2. LookOf(u)' = Directory!NoLook
  BY <1>1 DEF LookOf, Directory!NoLook
<1>3. QED
  BY <1>2, LooksChange

LEMMA DroppedMapped ==
  ASSUME ReconcileInv, ReconcileInv', NEW u \in Units,
         RemoveUnit(u) \/ Abort(u)
  PROVE  Directory!DirectoryNext
<1>1. TypeOK /\ model \in Model
  BY DEF ReconcileInv, TypeOK
<1>2. /\ running' = [running EXCEPT ![u] = Idle]
      /\ receivers' = receivers
  BY DEF RemoveUnit, Abort, databags
<1>3. UNCHANGED <<model.request, model.always>>
  BY <1>1 DEF RemoveUnit, Abort, Model
<1>4. QED
  BY <1>1, <1>2, <1>3, LookEnds, Kept, DropMapped

LEMMA BeginHookMapped ==
  ASSUME ReconcileInv, ReconcileInv', NEW u \in Units, BeginHook(u)
  PROVE  Directory!DirectoryNext
<1>1. TypeOK /\ UNCHANGED <<model, receivers>>
  BY DEF ReconcileInv, BeginHook, databags
<1>2. PICK event \in pending[u] :
        running' = [running EXCEPT ![u] = [event |-> event, view |-> ViewOf(u)]]
  BY DEF BeginHook
<1>3. Looks' = [Looks EXCEPT ![u] = LookOf(u)']
  BY <1>1, <1>2, LooksChange
<1>4. running'[u].event = event /\ running'[u].view = ViewOf(u)
  BY <1>1, <1>2 DEF TypeOK
<1>5. CASE Busy(u)' /\ Publishes(ViewOf(u))
  <2>1. RequestedReceivers(ViewOf(u)) = Demand
    <3>1. ViewOf(u) \in View
      BY <1>1, ViewType DEF TypeOK
    <3>2. QED
      BY <1>1, <3>1, DemandOfView DEF ViewOf
  <2>2. Live(ViewOf(u).request) = Live(model.request)
    BY DEF ViewOf
  <2>3. LookOf(u)' = [relations |-> Live(ViewOf(u).request),
                      demand |-> RequestedReceivers(ViewOf(u))]
    BY <1>4, <1>5 DEF LookOf
  <2>4. LookOf(u)' = [relations |-> Directory!LiveRelations,
                      demand |-> Directory!DirectoryDemand]
    BY <1>1, <2>1, <2>2, <2>3, LiveMapped, DemandMapped
  <2>5. QED
    BY <1>1, <1>3, <2>4, Kept, LookMapped
<1>6. CASE ~(Busy(u)' /\ Publishes(ViewOf(u)))
  <2>1. LookOf(u)' = [relations |-> {}, demand |-> {}]
    BY <1>4, <1>6 DEF LookOf
  <2>2. LookOf(u) = [relations |-> {}, demand |-> {}]
    BY DEF BeginHook, LookOf
  <2>3. Looks' = Looks
    BY <1>3, <2>1, <2>2 DEF Looks
  <2>4. QED
    BY <1>1, <2>3, Kept, SettleMapped
<1>7. QED
  BY <1>5, <1>6

LEMMA FinishHookMapped ==
  ASSUME ReconcileInv, ReconcileInv', NEW u \in Units, FinishHook(u)
  PROVE  Directory!DirectoryNext
<1> DEFINE v == running[u].view
           st == AfterDispatch(v, running[u].event, stored[u])
<1>1. TypeOK /\ Busy(u) /\ Reconcile(u, v, st)
  BY DEF FinishHook, ReconcileInv
<1>2. UNCHANGED <<model.request, model.always>>
  BY <1>1 DEF FinishHook, TypeOK, Model
<1>3. Asked' = Asked /\ Looks' = [Looks EXCEPT ![u] = Directory!NoLook]
  BY <1>1, <1>2, Kept, LookEnds DEF FinishHook
<1> HIDE DEF v, st
<1>4. Looks[u] = IF Publishes(v)
                 THEN [relations |-> Live(v.request), demand |-> RequestedReceivers(v)]
                 ELSE [relations |-> {}, demand |-> {}]
  BY <1>1 DEF Looks, LookOf, v
<1>5. \A r \in Relations :
        r \in Directory!Answered(u) <=> r \in Looks[u].relations \cap Live(model.request)
  BY LiveMapped DEF Directory!Answered, Looks, LookOf
<1>6. ASSUME NEW r \in Relations
      PROVE  {e.protocol : e \in receivers'[r]} =
               IF r \in Directory!Answered(u) THEN Looks[u].demand
               ELSE {e.protocol : e \in receivers[r]}
  <2>1. receivers'[r] = IF Publishes(v) /\ r \in Live(v.request) \cap Live(model.request)
                        THEN Receivers(v, st) ELSE receivers[r]
    BY <1>1 DEF Reconcile
  <2>2. {e.protocol : e \in Receivers(v, st)} = RequestedReceivers(v)
    BY ProtocolsOfReceivers
  <2>3. QED
    BY <1>4, <1>5, <2>1, <2>2
<1>7. Offered' = [r \in Relations |->
                    IF r \in Directory!Answered(u) THEN Looks[u].demand ELSE Offered[r]]
  BY <1>6, Zenon DEF Offered
<1>8. QED
  BY <1>2, <1>3, <1>7, AnswerMapped

LEMMA NextMapped ==
  ReconcileInv /\ ReconcileInv' /\ [Next]_vars
    => [Directory!DirectoryNext]_(Directory!directoryVars)
<1> SUFFICES ASSUME ReconcileInv, ReconcileInv', [Next]_vars
             PROVE  Directory!DirectoryNext \/ UNCHANGED Directory!directoryVars
  OBVIOUS
<1>1. CASE TracingChange
  BY <1>1, TracingChangeMapped
<1>2. CASE IngressChange \/ \E ok \in BOOLEAN : SetReady(ok)
  <2>1. model.leader \in Units
    BY DEF ReconcileInv, TypeOK, Model
  <2>2. QED
    BY <1>2, <2>1, ChangesMapped
<1>3. ASSUME NEW u \in Units, UnitChange(u) \/ ElectLeader(u) \/ ScaleChange(u)
      PROVE  Directory!DirectoryNext
  BY <1>3, ChangesMapped, DroppedMapped DEF ScaleChange
<1>4. ASSUME NEW u \in Units, BeginHook(u) PROVE Directory!DirectoryNext
  BY <1>4, BeginHookMapped
<1>5. ASSUME NEW u \in Units, FinishHook(u) PROVE Directory!DirectoryNext
  BY <1>5, FinishHookMapped
<1>6. ASSUME NEW u \in Units, RaiseInHook(u) \/ DenyHook(u) \/ CrashHook(u)
      PROVE  Directory!DirectoryNext
  BY <1>6, DroppedMapped DEF RaiseInHook, DenyHook, CrashHook
<1>7. CASE UNCHANGED vars
  <2>1. UNCHANGED <<model, running, receivers>>
    BY <1>7 DEF vars
  <2>2. QED
    BY <2>1, QuietMapped
<1>8. QED
  BY <1>1, <1>2, <1>3, <1>4, <1>5, <1>6, <1>7 DEF Next, RunHooks, EndHook

-------------------------------------------------------------------------------
\* The coordinator's units together are a ReceiverDirectory: what a requirer is
\* told was in demand when a leader's hook began, and is in demand now whenever
\* the leader is settled and ready (publish_receivers, _update_tracing_relations).
THEOREM CoordinatorIsADirectory == Spec => AnswersLikeADirectory
<1>1. Init => Directory!DirectoryInit
  BY InitMapped
<1>2. ReconcileInv /\ ReconcileInv' /\ [Next]_vars
        => [Directory!DirectoryNext]_(Directory!directoryVars)
  BY NextMapped
<1>3. QED
  BY <1>1, <1>2, ReconcileInvariant, PTL
     DEF Spec, AnswersLikeADirectory, Directory!DirectorySpec
===============================================================================
