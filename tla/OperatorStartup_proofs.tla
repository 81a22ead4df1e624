------------------------ MODULE OperatorStartup_proofs ------------------------
(***************************************************************************)
(* The start of the operator: its types, why the init controller cannot    *)
(* sleep through the installation of a CRD, and what the start-up leaves   *)
(* intact of the CRs of other namespaces.                                  *)
(*                                                                         *)
(* RecordTracksCluster compares what was recorded with the API server      *)
(* although the init controller only ever sees the informer's copy: the    *)
(* invariant follows a CRD through its event, the queue, the work and the  *)
(* back-off.                                                               *)
(*                                                                         *)
(* The init controller marks CRs of the operator's namespace as deployed,  *)
(* so the reconciler deploys them without a finalizer; all the others keep *)
(* what GuardInv and OwnerInv say of them, and go through the life cycle.  *)
(* Most steps of the composition are steps of the reconciler's module or   *)
(* leave its variables alone.  The five that are neither - StartCrd,       *)
(* SetConditions, StartReconciler, DeliverCR and RestartProcess - have in  *)
(* common that no pass is under way after them.                            *)
(***************************************************************************)
EXTENDS OperatorStartup, TektonTasksController_lifecycle

Others == CRs \ OwnNamespace

\* The init controller writes CRs of the operator's namespace, from a copy.
TargetInv == target # Absent => target \in OwnNamespace /\ copy # Absent

OthersInv == LifecycleInv(Others)
USE StartupAssumption

-----------------------------------------------------------------------------
(* Types.                                                                  *)

\* The variables of the init controller.
StartupRest ==
    /\ stage      \in {"waiting", "stopping", "running"}
    /\ crd        \in [CRDs -> CrdStates]
    /\ crdCopy    \in [CRDs -> CrdStates]
    /\ crdNews    \subseteq CRDs
    /\ crds       \in [Required -> BOOLEAN]
    /\ crdQueue   \subseteq CRDs
    /\ crdDelayed \subseteq CRDs
    /\ initPc     \in {"idle", "setConditions", "get"}
    /\ crdReq     \in CRDs \cup {Absent}
    /\ target     \in CRs \cup {Absent}
    /\ copy       \in CR \cup {Absent}
    /\ crdWrites  \in 0..MaxCrdWrites
    /\ (initPc = "idle") <=> (crdReq = Absent)
    /\ (initPc = "setConditions") <=> (target # Absent)
    /\ stage # "running" => pc = "idle"
    /\ stage = "running" => initPc = "idle"
    /\ TargetInv

LEMMA StartupTypeParts == StartupTypeOK /\ TargetInv <=> TypeOK /\ StartupRest
BY DEF StartupTypeOK, StartupRest

LEMMA StartCrdType ==
    ASSUME TypeOK, StartupRest, NEW k \in CRDs, StartCrd(k)
    PROVE  TypeOK' /\ StartupRest'
<1>1. /\ UNCHANGED <<api, events, pc, req, inst, todo, kept, ghosts, counts>>
      /\ UNCHANGED <<definitions, stage, crds, crdWrites>>
      /\ crdQueue' = crdQueue \ {k} /\ stage # "running" /\ initPc = "idle"
  BY DEF StartCrd
<1>2. CASE /\ initPc' = "get" /\ crdReq' = k
           /\ UNCHANGED <<target, copy, current, crdDelayed>>
  BY <1>1, <1>2
     DEF TypeOK, StartupRest, TargetInv, definitions, api, events, kept, ghosts, counts
<1>3. ASSUME NEW c \in OwnCRs,
             /\ initPc' = "setConditions" /\ crdReq' = k
             /\ target' = c /\ copy' = informer[c]
             /\ current' = IF lag[c] = "none" THEN {c} ELSE {}
             /\ UNCHANGED crdDelayed
      PROVE  TypeOK' /\ StartupRest'
  <2>1. /\ c \in OwnNamespace /\ c \in CRs /\ c # Absent
        /\ informer[c] \in CR /\ informer[c] # Absent
    BY ConstantsAssumption DEF OwnCRs, TypeOK
  <2>2. TypeOK'
    BY <1>1, <1>3, <2>1 DEF TypeOK, api, events, kept, ghosts, counts
  <2>3. StartupRest'
    BY <1>1, <1>3, <2>1 DEF StartupRest, TargetInv, definitions
  <2> QED BY <2>2, <2>3
<1>4. CASE /\ crdDelayed' = IF stage = "waiting" THEN crdDelayed \cup {k} ELSE crdDelayed
           /\ UNCHANGED <<initWorker, current>>
  BY <1>1, <1>4
     DEF TypeOK, StartupRest, TargetInv, definitions, initWorker, api, events,
         kept, ghosts, counts
<1> QED BY <1>2, <1>3, <1>4 DEF StartCrd

\* The status that setConditions writes is one a CR may have.
LEMMA SetConditionsWrites ==
    ASSUME TypeOK, StartupRest, NEW a, SetConditions(a)
    PROVE  /\ target \in OwnNamespace /\ target \in CRs /\ pc = "idle"
           /\ \E cr : Write(target, cr, a) /\ (server[target] # Absent => cr \in CR)
<1> DEFINE cr == [(IF server[target] = Absent THEN copy ELSE server[target])
                     EXCEPT !.status = updateStatus(copy, TRUE)]
<1>1. initPc = "setConditions" /\ Write(target, cr, a)
  BY DEF SetConditions
<1>2. target # Absent /\ stage # "running"
  BY <1>1 DEF StartupRest
<1>3. target \in OwnNamespace /\ target \in CRs /\ copy \in CR /\ pc = "idle"
  BY <1>2 DEF StartupRest, TargetInv
<1>4. updateStatus(copy, TRUE) \in Status
  BY <1>3, StatusTypes
<1>5. server[target] # Absent => cr \in CR
  BY <1>3, <1>4, CRTypes DEF TypeOK
<1> QED BY <1>1, <1>3, <1>5

LEMMA SetConditionsType ==
    ASSUME TypeOK, StartupRest, NEW a, SetConditions(a)
    PROVE  TypeOK' /\ StartupRest'
<1>1. PICK cr : Write(target, cr, a) /\ (server[target] # Absent => cr \in CR)
  BY SetConditionsWrites
<1>2. target \in CRs /\ pc = "idle"
  BY SetConditionsWrites
<1>3. /\ ApiTypeOK' /\ apiErrors' \in 0..MaxApiErrors
      /\ writes' = writes /\ restarts' = restarts
  BY <1>1, <1>2, WriteType
<1>4. /\ UNCHANGED <<events, pc, req, inst, todo, kept, ghosts, definitions, crdWrites>>
      /\ current' = {}
      /\ UNCHANGED <<stage, crds, crdQueue>>
      /\ target' = Absent /\ copy' = Absent
      /\ initPc = "setConditions"
  BY DEF SetConditions, InitError, InitIdle, initKept
<1>5. TypeOK'
  BY <1>3, <1>4 DEF TypeOK, ApiTypeOK, events, kept, ghosts
<1>6. CASE initPc' = "get" /\ UNCHANGED <<crdReq, crdDelayed>>
  BY <1>4, <1>5, <1>6 DEF StartupRest, TargetInv, definitions
<1>7. CASE InitError
  BY <1>4, <1>5, <1>7 DEF StartupRest, TargetInv, definitions, InitError, InitIdle
<1> QED BY <1>5, <1>6, <1>7 DEF SetConditions, initKept

LEMMA RecordCrdType ==
    ASSUME StartupRest, RecordCrd
    PROVE  StartupRest'
<1>1. /\ UNCHANGED <<vars, definitions, crdQueue, crdDelayed, crdWrites>>
      /\ initPc = "get" /\ initPc' = "idle" /\ crdReq' = Absent
      /\ target' = Absent /\ copy' = Absent
      /\ stage' \in {stage, "stopping"}
  BY DEF RecordCrd, InitIdle
<1>2. CrdExists(crdReq) \in BOOLEAN
  BY DEF CrdExists
<1>3. crds' \in [Required -> BOOLEAN]
  BY <1>2 DEF RecordCrd, StartupRest
<1> QED BY <1>1, <1>3 DEF StartupRest, TargetInv, definitions, vars, worker

LEMMA StartReconcilerType ==
    ASSUME TypeOK, StartupRest, StartReconciler
    PROVE  TypeOK' /\ StartupRest'
<1>1. FirstList \subseteq CRs
  BY DEF FirstList
<1> QED BY <1>1
  DEF StartReconciler, Drained, TypeOK, StartupRest, TargetInv, definitions,
      initWorker, api, worker, kept, ghosts, counts

LEMMA RestartProcessType ==
    ASSUME TypeOK, StartupRest, RestartProcess
    PROVE  TypeOK' /\ StartupRest'
<1>1. restarts' \in 0..MaxRestarts
  BY ConstantsAssumption DEF RestartProcess, Reboot, TypeOK
<1>2. TypeOK'
  BY <1>1 DEF RestartProcess, Reboot, CreateAndSetupReconciler, TypeOK, Lags, PCs, ghosts
<1>3. StartupRest'
  BY DEF RestartProcess, Reboot, CreateAndSetupReconciler, InitIdle, StartupRest, TargetInv
<1> QED BY <1>2, <1>3

LEMMA CrdUserType ==
    ASSUME StartupRest, CrdUser
    PROVE  StartupRest'
<1>1. PICK k \in Required, from \in CrdStates, to \in CrdStates : ChangeCrd(k, from, to)
  BY DEF CrdUser, CrdStates
<1>2. k \in CRDs
  OBVIOUS
<1>3. crdWrites' \in 0..MaxCrdWrites
  BY DEF CrdUser, StartupRest
<1> QED BY <1>1, <1>2, <1>3
  DEF ChangeCrd, StartupRest, TargetInv, initKept, initWorker, vars, worker

\* The events and the back-off of the init controller, and its informer of CRs.
LEMMA DeliveryType ==
    ASSUME TypeOK, StartupRest,
           \/ \E k \in CRDs : DeliverCrd(k) \/ CrdBackOffExpires(k)
           \/ \E c \in CRs : DeliverCR(c)
    PROVE  TypeOK' /\ StartupRest'
<1>1. ASSUME NEW k \in CRDs, DeliverCrd(k) \/ CrdBackOffExpires(k)
      PROVE  UNCHANGED vars /\ StartupRest'
  BY <1>1 DEF DeliverCrd, CrdBackOffExpires, StartupRest, TargetInv, definitions,
              initWorker, vars, worker
<1>2. ASSUME NEW c \in CRs, DeliverCR(c)
      PROVE  TypeOK' /\ StartupRest'
  <2>1. TypeOK'
    BY <1>2 DEF DeliverCR, TypeOK, Lags, events, worker, kept, ghosts, counts
  <2>2. StartupRest'
    BY <1>2 DEF DeliverCR, StartupRest, TargetInv, startup, definitions, initKept,
                initWorker, worker
  <2> QED BY <2>1, <2>2
<1> QED BY <1>1, <1>2, NextType

\* The reconciler and the users do not touch the init controller.
LEMMA OperatingType ==
    ASSUME TypeOK, StartupRest, UNCHANGED startup,
           (stage = "running" /\ Operating) \/ User
    PROVE  TypeOK' /\ StartupRest' /\ [Next]_vars
<1>1. [Next]_vars
  BY DEF Operating, Next, Surroundings
<1>2. stage # "running" => pc' = pc
  BY UserStep DEF UserWrites
<1> QED BY <1>1, <1>2, NextType
  DEF StartupRest, TargetInv, startup, definitions, initKept, initWorker

LEMMA StartupInitType == StartupInit => TypeOK /\ StartupRest
<1> SUFFICES ASSUME StartupInit PROVE TypeOK /\ StartupRest
  OBVIOUS
<1>1. TypeOK
  BY InitType DEF StartupInit
<1>2. CRDs \ Required \subseteq CRDs /\ 0 \in 0..MaxCrdWrites
  OBVIOUS
<1> QED BY <1>1, <1>2 DEF StartupInit, Init, StartupRest, TargetInv, CrdStates

LEMMA StartupNextType ==
    TypeOK /\ StartupRest /\ [StartupNext]_allVars => TypeOK' /\ StartupRest'
<1> SUFFICES ASSUME TypeOK, StartupRest, [StartupNext]_allVars
             PROVE  TypeOK' /\ StartupRest'
  OBVIOUS
<1>1. CASE \/ stage = "running" /\ Operating /\ UNCHANGED startup
           \/ User /\ UNCHANGED startup
  BY <1>1, OperatingType
<1>2. CASE InitController
  BY <1>2, StartCrdType, SetConditionsType, RecordCrdType, StartReconcilerType, NextType
     DEF InitController, RecordCrd
<1>3. CASE CrdUser
  BY <1>3, CrdUserType, NextType DEF CrdUser, ChangeCrd
<1>4. CASE UNCHANGED allVars
  BY <1>4, NextType
     DEF allVars, startup, definitions, initKept, initWorker, StartupRest, TargetInv,
         vars, worker
<1> QED BY <1>1, <1>2, <1>3, <1>4, RestartProcessType, DeliveryType DEF StartupNext

\* Every reachable state of the composition is well typed: in particular the
\* init controller is done when the reconciler starts, and no pass is under way
\* while the operator waits, whatever crashes and however CRDs come and go.
THEOREM StartupTypeOKAlways == StartupSpec => []StartupTypeOK
<1>1. TypeOK /\ StartupRest => StartupTypeOK
  BY StartupTypeParts
<1> QED BY <1>1, StartupInitType, StartupNextType, PTL DEF StartupSpec

-----------------------------------------------------------------------------
(* What is recorded of CRDs.                                               *)

\* A copy that is behind has an event on its way.
CopiesInv ==
    stage = "waiting" => \A k \in CRDs : crdCopy[k] = crd[k] \/ k \in crdNews

\* A record that differs from the copy is looked at again.
RecordsInv ==
    stage = "waiting" =>
        \A k \in Required :
            \/ crds[k] <=> (crdCopy[k] = "exists")
            \/ k \in crdNews \cup crdQueue \cup crdDelayed \cup {crdReq}

RecordInv == CopiesInv /\ RecordsInv

USE DEF RecordInv, CopiesInv, RecordsInv

\* The variables of the init controller that the invariant reads.
LEMMA RecordQuiet ==
    ASSUME StartupRest, RecordInv, UNCHANGED startup
    PROVE  RecordInv'
BY DEF startup, definitions, initKept, initWorker

LEMMA StartCrdRecord ==
    ASSUME StartupRest, RecordInv, NEW k \in CRDs, StartCrd(k)
    PROVE  RecordInv'
<1>1. /\ UNCHANGED <<definitions, stage, crds>> /\ crdQueue' = crdQueue \ {k}
      /\ initPc = "idle" /\ stage # "running" /\ crdReq = Absent
  BY DEF StartCrd, StartupRest
<1>2. CASE crdReq' = k /\ initPc' \in {"get", "setConditions"} /\ crdDelayed' = crdDelayed
  BY <1>1, <1>2 DEF definitions
<1>3. CASE /\ UNCHANGED initWorker
           /\ crdDelayed' = IF stage = "waiting" THEN crdDelayed \cup {k} ELSE crdDelayed
  BY <1>1, <1>3 DEF definitions, initWorker
<1> QED BY <1>2, <1>3 DEF StartCrd

LEMMA SetConditionsRecord ==
    ASSUME StartupRest, RecordInv, NEW a, SetConditions(a)
    PROVE  RecordInv'
<1>1. /\ UNCHANGED definitions /\ initPc = "setConditions"
      /\ UNCHANGED <<stage, crds, crdQueue>>
  BY DEF SetConditions, InitError, initKept
<1>2. CASE a = "OK"
  <2>1. initPc' = "get" /\ UNCHANGED <<crdReq, crdDelayed>>
    BY <1>2 DEF SetConditions, initKept
  <2> QED BY <1>1, <2>1 DEF definitions
<1>3. CASE a # "OK"
  <2>1. /\ initPc' = "idle" /\ crdReq' = Absent
        /\ crdDelayed' = IF stage = "waiting" THEN crdDelayed \cup {crdReq} ELSE crdDelayed
    BY <1>3 DEF SetConditions, InitError, InitIdle
  <2> QED BY <1>1, <2>1 DEF definitions
<1> QED BY <1>2, <1>3

LEMMA RecordCrdRecord ==
    ASSUME StartupRest, RecordInv, RecordCrd
    PROVE  RecordInv'
<1>1. /\ UNCHANGED definitions /\ UNCHANGED <<crdQueue, crdDelayed>>
      /\ initPc = "get" /\ initPc' = "idle" /\ crdReq' = Absent
      /\ stage' \in {stage, "stopping"}
      /\ crds' = IF crdReq \in Required
                 THEN [crds EXCEPT ![crdReq] = CrdExists(crdReq)] ELSE crds
  BY DEF RecordCrd, InitIdle
<1>2. CrdExists(crdReq) \in BOOLEAN
  BY DEF CrdExists
<1>3. \A k \in Required : crds'[k] = IF k = crdReq THEN CrdExists(k) ELSE crds[k]
  BY <1>1, <1>2 DEF StartupRest
<1> QED BY <1>1, <1>3 DEF definitions, CrdExists

LEMMA RestartRecord ==
    ASSUME StartupRest, RecordInv, RestartProcess
    PROVE  RecordInv'
<1>1. /\ crd' = crd /\ crdCopy' = crd /\ crdNews' = {}
      /\ crds' = [k \in Required |-> FALSE]
      /\ initPc' = "idle" /\ crdReq' = Absent
      /\ stage' = "waiting" => crdQueue' = {k \in CRDs : crd[k] # "absent"}
  BY DEF RestartProcess, CreateAndSetupReconciler, InitIdle
<1> QED BY <1>1

LEMMA OthersRecord ==
    ASSUME StartupRest, RecordInv,
           \/ StartReconciler
           \/ CrdUser
           \/ \E k \in CRDs : DeliverCrd(k) \/ CrdBackOffExpires(k)
    PROVE  RecordInv'
<1>1. CASE StartReconciler
  BY <1>1 DEF StartReconciler, Drained, definitions, initWorker
<1>2. CASE CrdUser
  <2>1. PICK k \in Required, from \in CrdStates, to \in CrdStates : ChangeCrd(k, from, to)
    BY <1>2 DEF CrdUser, CrdStates
  <2> QED BY <2>1 DEF ChangeCrd, StartupRest, initKept, initWorker
<1>3. ASSUME NEW k \in CRDs, DeliverCrd(k)
      PROVE  RecordInv'
  BY <1>3 DEF DeliverCrd, StartupRest, initWorker
<1>4. ASSUME NEW k \in CRDs, CrdBackOffExpires(k)
      PROVE  RecordInv'
  BY <1>4 DEF CrdBackOffExpires, definitions, initWorker
<1> QED BY <1>1, <1>2, <1>3, <1>4

LEMMA InitRecord == StartupInit => RecordInv
<1> SUFFICES ASSUME StartupInit PROVE RecordInv
  OBVIOUS
<1> QED BY DEF StartupInit

LEMMA NextRecord == StartupRest /\ RecordInv /\ [StartupNext]_allVars => RecordInv'
<1> SUFFICES ASSUME StartupRest, RecordInv, [StartupNext]_allVars PROVE RecordInv'
  OBVIOUS
<1>1. CASE UNCHANGED startup
  BY <1>1, RecordQuiet
<1>2. CASE InitController
  BY <1>2, StartCrdRecord, SetConditionsRecord, RecordCrdRecord, OthersRecord
     DEF InitController
<1>3. CASE \E c \in CRs : DeliverCR(c)
  BY <1>3, RecordQuiet DEF DeliverCR
<1> QED BY <1>1, <1>2, <1>3, RestartRecord, OthersRecord DEF StartupNext, allVars

\* However CRDs come and go, status writes conflict and processes restart, what
\* the init controller recorded of a required CRD is true of the API server, or
\* it will look again: for every number of CRDs and CRs.
THEOREM RecordTracksClusterAlways == StartupSpec => []RecordTracksCluster
<1>1. RecordInv => RecordTracksCluster
  BY DEF RecordTracksCluster
<1> QED BY <1>1, StartupInitType, StartupNextType, InitRecord, NextRecord, PTL DEF StartupSpec

HIDE DEF RecordInv, CopiesInv, RecordsInv

-----------------------------------------------------------------------------
(* The CRs of other namespaces.                                            *)

LEMMA OthersType == Others \in SUBSET CRs
BY DEF Others

\* A step after which no pass is under way keeps the invariant of CRs that it
\* does not write, if it shows the worker nothing but stored versions.
LEMMA BetweenPasses ==
    ASSUME NEW G \in SUBSET CRs, TypeOK, LifecycleInv(G), TypeOK',
           pc' = "idle", touched' = touched, InformerInv',
           \A c \in G : server'[c] = server[c],
           \A c \in G : informer'[c] \in {informer[c], server[c]}
    PROVE  LifecycleInv(G)' /\ LifecycleStep(G)
<1>1. InitializedInv(G)' /\ Guarded(G)'
  BY DEF LifecycleInv, GuardInv, InitializedInv, Guarded, HasOurFinalizer
<1>2. req' \notin current'
  BY ConstantsAssumption DEF TypeOK
<1>3. CopyInv' /\ StepInv(G)'
  BY <1>2 DEF CopyInv, StepInv, DeployingPCs, CleanupPCs
<1>4. OwnerInv(G)'
  BY DEF LifecycleInv, GuardInv, OwnerInv, Guarded
<1>5. CleanupInv'
  BY CleanupElsewhere
<1>6. LifecycleStep(G)
  BY Unseen
<1> QED BY <1>1, <1>3, <1>4, <1>5, <1>6 DEF LifecycleInv, GuardInv

\* setConditions writes a CR of the operator's namespace, under the version
\* check that every write is under.
LEMMA SetConditionsOthers ==
    ASSUME MaxApiErrors = 0, TypeOK, StartupRest, OthersInv, NEW a, SetConditions(a)
    PROVE  OthersInv' /\ LifecycleStep(Others)
<1>1. PICK cr : Write(target, cr, a)
  BY SetConditionsWrites
<1>2. target \in CRs /\ target \notin Others /\ pc = "idle"
  BY SetConditionsWrites DEF Others
<1>3. /\ InformerInv' /\ informer' = informer
      /\ a # "OK" => server' = server
      /\ a = "OK" => server' = [server EXCEPT ![target] = Stored(cr)]
  BY <1>1, <1>2, WriteAnswer DEF OthersInv, LifecycleInv, GuardInv
<1>4. \A c \in Others : server'[c] = server[c]
  BY <1>2, <1>3 DEF TypeOK, Others
<1>5. TypeOK' /\ pc' = "idle" /\ touched' = touched
  BY <1>2, SetConditionsType DEF SetConditions, ghosts
<1> QED BY <1>3, <1>4, <1>5, BetweenPasses, OthersType DEF OthersInv

\* The other steps of the start-up write no CR.
LEMMA QuietOthers ==
    ASSUME TypeOK, StartupRest, OthersInv,
           \/ \E k \in CRDs : StartCrd(k)
           \/ StartReconciler
           \/ RestartProcess
           \/ \E c \in CRs : DeliverCR(c)
    PROVE  OthersInv' /\ LifecycleStep(Others)
<1>1. TypeOK'
  BY StartCrdType, StartReconcilerType, RestartProcessType, DeliveryType
<1>2. /\ pc' = "idle" /\ touched' = touched /\ server' = server
      /\ \A c \in CRs : informer'[c] \in {informer[c], server[c]}
      /\ InformerInv'
  <2>1. CASE (\E k \in CRDs : StartCrd(k)) \/ StartReconciler
    BY <2>1
       DEF StartCrd, StartReconciler, StartupRest, OthersInv, LifecycleInv, GuardInv,
           InformerInv, api, worker, ghosts
  <2>2. CASE RestartProcess
    BY <2>2 DEF RestartProcess, Reboot, ghosts, InformerInv
  <2>3. CASE \E c \in CRs : DeliverCR(c)
    BY <2>3 DEF DeliverCR, StartupRest, OthersInv, LifecycleInv, GuardInv, InformerInv,
                TypeOK, worker, ghosts
  <2> QED BY <2>1, <2>2, <2>3
<1> QED BY <1>1, <1>2, BetweenPasses, OthersType DEF OthersInv, Others

\* What the reconciler does is covered by its own invariants.
LEMMA OperatingOthers ==
    ASSUME MaxApiErrors = 0, TypeOK, OthersInv, [Next]_vars
    PROVE  OthersInv' /\ LifecycleStep(Others)
BY NextGuard, OwnerNext, CleanupNext, NextStep, OthersType DEF OthersInv, LifecycleInv

LEMMA StartupInitOthers ==
    ASSUME StartupInit
    PROVE  OthersInv /\ Lifecycle(Others)!Init
<1>1. Init
  BY DEF StartupInit
<1>2. GuardInv(Others) /\ Lifecycle(Others)!Init
  BY <1>1, InitGuard, LifecycleInit, OthersType
<1>3. OwnerInv(Others) /\ CleanupInv
  BY <1>1, <1>2 DEF Init, OwnerInv, CleanupInv, GuardInv, Guarded
<1> QED BY <1>2, <1>3 DEF OthersInv, LifecycleInv

LEMMA StartupNextOthers ==
    ASSUME MaxApiErrors = 0, TypeOK, StartupRest, OthersInv, [StartupNext]_allVars
    PROVE  OthersInv' /\ LifecycleStep(Others)
<1>1. CASE \/ stage = "running" /\ Operating /\ UNCHANGED startup
           \/ User /\ UNCHANGED startup
  BY <1>1, OperatingType, OperatingOthers
<1>2. CASE InitController
  BY <1>2, SetConditionsOthers, QuietOthers, OperatingOthers DEF InitController, RecordCrd
<1>3. CASE UNCHANGED vars
  BY <1>3, OperatingOthers
<1>4. CASE RestartProcess \/ \E c \in CRs : DeliverCR(c)
  BY <1>4, QuietOthers
<1> QED BY <1>1, <1>2, <1>3, <1>4
  DEF StartupNext, allVars, CrdUser, ChangeCrd, DeliverCrd, CrdBackOffExpires

\* CRs outside the operator's namespace are guarded whenever something may be
\* deployed for them, although the operator started without the CRDs it needs
\* and the init controller wrote to its CRs: for any sets of CRs, CRDs and
\* namespaces, as long as API calls fail only for the CR's own reasons.
THEOREM OthersGuardedAlways ==
    ASSUME MaxApiErrors = 0
    PROVE  StartupSpec => []OthersGuarded
<1> DEFINE I == TypeOK /\ StartupRest /\ OthersInv
<1>1. StartupInit => I
  BY StartupInitType, StartupInitOthers
<1>2. I /\ [StartupNext]_allVars => I'
  BY StartupNextType, StartupNextOthers
<1>3. I => OthersGuarded
  BY DEF OthersInv, LifecycleInv, GuardInv, Guarded, Others, OthersGuarded, TypeOK
<1> QED BY <1>1, <1>2, <1>3, PTL DEF StartupSpec

\* From the start of the operator on those CRs go through the abstract life
\* cycle: each step of the composition is one of its steps or none.
THEOREM OthersLifecycleAlways ==
    ASSUME MaxApiErrors = 0
    PROVE  StartupSpec => OthersLifecycle
<1> DEFINE I == TypeOK /\ StartupRest /\ OthersInv
<1>1. StartupInit => I /\ Lifecycle(Others)!Init
  BY StartupInitType, StartupInitOthers
<1>2. I /\ [StartupNext]_allVars => I' /\ [Lifecycle(Others)!Next]_(Lifecycle(Others)!vars)
  BY StartupNextType, StartupNextOthers DEF LifecycleStep
<1> QED BY <1>1, <1>2, PTL DEF StartupSpec, OthersLifecycle, Others
=============================================================================
