-------------------- MODULE TektonTasksController_proofs ---------------------
(* Theorems about TektonTasksController for every value of its constants.   *)
EXTENDS TektonTasksController, TLAPS

USE DEF Phases, Conditions, Finalizers, Ours, Lags, PCs

-----------------------------------------------------------------------------
(* Type correctness.                                                       *)

\* Every status the code computes from a CR is a status.
LEMMA StatusTypes ==
    ASSUME NEW cr \in CR, NEW ready \in BOOLEAN
    PROVE  /\ DeployingStatus(cr) \in Status
           /\ cleanupStatus(cr) \in Status
           /\ deletedStatus(cr) \in Status
           /\ multipleStatus(cr) \in Status
           /\ pausedStatus(cr) \in Status
           /\ preUpdateStatus(cr) \in Status
           /\ updateStatus(cr, ready) \in Status
           /\ errorStatus(cr) \in Status
<1>1. cr.status \in Status /\ cr.gen \in 0..MaxGen + 1
  BY ConstantsAssumption DEF CR
<1>2. DeployingStatus(cr) \in Status
  BY <1>1 DEF Status, DeployingStatus
<1>3. cleanupStatus(cr) \in Status
  BY <1>1 DEF Status, cleanupStatus
<1>4. deletedStatus(cr) \in Status
  BY <1>1 DEF Status, deletedStatus
<1>5. multipleStatus(cr) \in Status
  BY <1>1 DEF Status, multipleStatus
<1>6. pausedStatus(cr) \in Status
  BY <1>1 DEF Status, pausedStatus
<1>7. preUpdateStatus(cr) \in Status
  BY <1>1 DEF Status, preUpdateStatus
<1>8. updateStatus(cr, ready) \in Status
  BY <1>1 DEF Status, updateStatus
<1>9. errorStatus(cr) \in Status
  BY <1>1 DEF Status, errorStatus
<1> QED BY <1>2, <1>3, <1>4, <1>5, <1>6, <1>7, <1>8, <1>9

\* Changing the status or the operator's finalizers of a CR leaves a CR.
LEMMA CRTypes ==
    ASSUME NEW cr \in CR, NEW st \in Status
    PROVE  [cr EXCEPT !.status = st] \in CR
BY DEF CR

LEMMA FinalizerTypes ==
    ASSUME NEW cr \in CR
    PROVE  WithFinalizer(cr) \in CR /\ WithoutFinalizers(cr) \in CR
BY DEF CR, WithFinalizer, WithoutFinalizers

\* What Status().Update sends is a CR.
LEMMA WithStatusType ==
    ASSUME TypeOK, inst \in CR, NEW c \in CRs, NEW st \in Status
    PROVE  WithStatus(c, st) \in CR
<1>1. server[c] = Absent \/ server[c] \in CR
  BY DEF TypeOK
<1>2. CASE server[c] = Absent
  BY <1>2, CRTypes DEF WithStatus
<1>3. CASE server[c] # Absent
  BY <1>1, <1>3, CRTypes DEF WithStatus
<1> QED BY <1>2, <1>3

\* The variables a write may change.
ApiTypeOK ==
    /\ server    \in [CRs -> CR \cup {Absent}]
    /\ informer  \in [CRs -> CR \cup {Absent}]
    /\ lag       \in [CRs -> Lags]

LEMMA StoreType ==
    ASSUME TypeOK, NEW c \in CRs, NEW cr \in CR, Store(c, cr)
    PROVE  ApiTypeOK'
<1>1. Stored(cr) \in CR \cup {Absent}
  BY DEF Stored
<1>2. server' \in [CRs -> CR \cup {Absent}]
  BY <1>1 DEF Store, TypeOK
<1>3. lag' \in [CRs -> Lags]
  BY DEF Store, TypeOK
<1> QED BY <1>2, <1>3 DEF Store, TypeOK, ApiTypeOK

\* A write keeps the types and the bound on API errors.
LEMMA WriteType ==
    ASSUME TypeOK, NEW c \in CRs, NEW cr, NEW a,
           server[c] # Absent => cr \in CR,
           Write(c, cr, a)
    PROVE  /\ ApiTypeOK'
           /\ apiErrors' \in 0..MaxApiErrors
           /\ writes' = writes /\ restarts' = restarts
<1>1. Verdict(c, cr) \in {"NotFound", "Conflict", "Invalid", "OK"}
  BY DEF Verdict
<1>2. a \in {"OK", "Lost"} => server[c] # Absent
  BY <1>1 DEF Write, Answers, Verdict
<1>3. ApiTypeOK'
  <2>1. CASE a \in {"OK", "Lost"}
    BY <1>2, <2>1, StoreType DEF Write
  <2>2. CASE a \notin {"OK", "Lost"}
    BY <2>2 DEF Write, api, TypeOK, ApiTypeOK
  <2> QED BY <2>1, <2>2
<1>4. a \in {"Error", "Lost"} => apiErrors # MaxApiErrors
  BY <1>1 DEF Write, Answers
<1>5. apiErrors' \in 0..MaxApiErrors
  BY <1>4, ConstantsAssumption DEF Write, TypeOK
<1> QED BY <1>3, <1>5 DEF Write

\* The variables of the pass and of the work queue.
PassTypeOK ==
    /\ queue     \subseteq CRs
    /\ delayed   \subseteq CRs
    /\ pc        \in PCs
    /\ req       \in CRs \cup {Absent}
    /\ inst      \in CR \cup {Absent}
    /\ current   \subseteq CRs
    /\ todo      \subseteq CRs
    /\ lastSpec  \in Specs \cup {NoSpec}
    /\ cached    \subseteq Specs
    /\ gauge     \in BOOLEAN
    /\ (pc = "idle") <=> (req = Absent)
    /\ (pc \notin {"idle", "multiple"}) => inst # Absent

RestTypeOK ==
    /\ awaiting  \subseteq CRs
    /\ touched   \subseteq CRs
    /\ applied   \in [CRs -> 0..MaxGen + 1]
    /\ unreported \subseteq CRs
    /\ writes    \in 0..MaxWrites
    /\ restarts  \in 0..MaxRestarts
    /\ apiErrors \in 0..MaxApiErrors

LEMMA TypeParts == TypeOK <=> ApiTypeOK /\ PassTypeOK /\ RestTypeOK
BY DEF TypeOK, ApiTypeOK, PassTypeOK, RestTypeOK

\* Between passes there is no request, within one there is.
LEMMA RequestType ==
    ASSUME TypeOK
    PROVE  /\ pc # "idle" => req \in CRs
           /\ pc \notin {"idle", "multiple"} => inst \in CR
BY DEF TypeOK

LEMMA ProceedType ==
    ASSUME TypeOK, pc # "idle", NEW next \in PCs \ {"idle", "multiple"},
           NEW cr \in CR, NEW sent, NEW a, Proceed(next, cr, sent, a)
    PROVE  PassTypeOK'
<1>1. current' \subseteq CRs
  BY DEF Proceed, CurrentAfter, TypeOK
<1>2. cr # Absent
  BY ConstantsAssumption
<1> QED
  BY <1>1, <1>2 DEF Proceed, TypeOK, PassTypeOK, kept

LEMMA EndPassType ==
    ASSUME TypeOK, pc # "idle", NEW requeue \in BOOLEAN, EndPass(requeue),
           lastSpec' \in Specs \cup {NoSpec}, cached' \subseteq Specs,
           gauge' \in BOOLEAN
    PROVE  PassTypeOK'
BY RequestType DEF EndPass, TypeOK, PassTypeOK

LEMMA ReturnType ==
    ASSUME TypeOK, pc # "idle", Return \/ ReturnError \/ ReturnRequeue
    PROVE  PassTypeOK'
<1>1. CASE Return
  BY <1>1, EndPassType DEF Return, kept, TypeOK
<1>2. CASE ReturnError
  BY <1>2, EndPassType DEF ReturnError, TypeOK
<1>3. CASE ReturnRequeue
  BY <1>3, EndPassType DEF ReturnRequeue, kept, TypeOK
<1> QED BY <1>1, <1>2, <1>3

LEMMA HandleErrorType ==
    ASSUME TypeOK, pc # "idle", NEW cr \in CR, NEW sent, NEW a,
           handleError(cr, sent, a)
    PROVE  PassTypeOK'
BY ReturnType, ProceedType DEF handleError

LEMMA ClearCacheType ==
    ASSUME TypeOK, pc # "idle", EndPass(FALSE), clearCache
    PROVE  PassTypeOK'
BY EndPassType DEF clearCache, TypeOK

\* An API call of a pass keeps the types if what it sends is a CR and its
\* continuation keeps those of the pass.
LEMMA CallType ==
    ASSUME TypeOK, NEW c \in CRs, NEW cr, NEW a,
           server[c] # Absent => cr \in CR,
           Write(c, cr, a), PassTypeOK', UNCHANGED <<awaiting, ghosts>>
    PROVE  TypeOK'
<1>1. ApiTypeOK' /\ apiErrors' \in 0..MaxApiErrors
      /\ writes' = writes /\ restarts' = restarts
  BY WriteType
<1>2. RestTypeOK'
  BY <1>1 DEF RestTypeOK, TypeOK, ghosts
<1> QED BY <1>1, <1>2, TypeParts DEF TypeOK, ApiTypeOK, PassTypeOK, RestTypeOK

LEMMA StartType ==
    ASSUME TypeOK, NEW c \in CRs, Start(c)
    PROVE  TypeOK'
<1>1. CASE informer[c] = Absent
  BY <1>1 DEF Start, TypeOK, api, worker, kept, ghosts, counts
<1>2. CASE informer[c] # Absent
  <2>1. informer[c] \in CR
    BY <1>2 DEF TypeOK
  <2>2. FirstCall(informer[c]) \in PCs \ {"idle", "multiple"}
    BY DEF FirstCall, isInitialized
  <2>3. c # Absent /\ informer[c].spec \in Specs
    BY <2>1, ConstantsAssumption DEF CR
  <2>4. PassTypeOK'
    BY <1>2, <2>1, <2>2, <2>3
       DEF Start, TypeOK, PassTypeOK, clearCacheIfNeeded
  <2>5. ApiTypeOK' /\ RestTypeOK'
    BY DEF Start, TypeOK, ApiTypeOK, RestTypeOK, api, ghosts, counts
  <2> QED BY <2>4, <2>5, TypeParts DEF TypeOK, ApiTypeOK, PassTypeOK, RestTypeOK
<1> QED BY <1>1, <1>2

\* One case per API call of the pass.
LEMMA ApiCallType ==
    ASSUME TypeOK, ApiCall
    PROVE  TypeOK'
<1> PICK a \in AnswerSet :
        \/ UpdateFinalizer(a) \/ UpdatePhase(a) \/ ReportError(a)
        \/ CleanupStatus(a) \/ RemoveFinalizers(a) \/ DeletedStatus(a)
        \/ PauseStatus(a) \/ PreUpdateStatus(a) \/ UpdateStatus(a)
        \/ \E c \in CRs : SetStatusMultipleCRs(c, a)
  BY DEF ApiCall
<1>1. CASE UpdateFinalizer(a)
  <2>1. req \in CRs /\ WithFinalizer(inst) \in CR /\ pc # "idle"
    BY <1>1, RequestType, FinalizerTypes DEF UpdateFinalizer
  <2>2. PassTypeOK'
    BY <1>1, <2>1, ProceedType, HandleErrorType DEF UpdateFinalizer
  <2> QED BY <1>1, <2>1, <2>2, CallType DEF UpdateFinalizer
<1>2. CASE UpdatePhase(a)
  <2> DEFINE st == DeployingStatus(inst)
  <2>1. req \in CRs /\ inst \in CR /\ st \in Status /\ pc # "idle"
    BY <1>2, RequestType, StatusTypes DEF UpdatePhase
  <2>2. WithStatus(req, st) \in CR /\ [inst EXCEPT !.status = st] \in CR
    BY <2>1, WithStatusType, CRTypes
  <2>3. PassTypeOK'
    BY <1>2, <2>1, <2>2, ReturnType, HandleErrorType DEF UpdatePhase
  <2> QED BY <1>2, <2>1, <2>2, <2>3, CallType DEF UpdatePhase
<1>3. CASE ReportError(a)
  <2>1. req \in CRs /\ inst \in CR /\ errorStatus(inst) \in Status /\ pc # "idle"
    BY <1>3, RequestType, StatusTypes DEF ReportError
  <2>2. WithStatus(req, errorStatus(inst)) \in CR
    BY <2>1, WithStatusType
  <2>3. PassTypeOK'
    BY <1>3, <2>1, ReturnType DEF ReportError
  <2> QED BY <1>3, <2>1, <2>2, <2>3, CallType DEF ReportError
<1>4. CASE CleanupStatus(a)
  <2> DEFINE st == cleanupStatus(inst)
  <2>1. req \in CRs /\ inst \in CR /\ st \in Status /\ pc # "idle"
    BY <1>4, RequestType, StatusTypes DEF CleanupStatus
  <2>2. WithStatus(req, st) \in CR /\ [inst EXCEPT !.status = st] \in CR
    BY <2>1, WithStatusType, CRTypes
  <2>3. PassTypeOK'
    BY <1>4, <2>1, <2>2, ReturnType, ProceedType DEF CleanupStatus
  <2> QED BY <1>4, <2>1, <2>2, <2>3, CallType DEF CleanupStatus
<1>5. CASE RemoveFinalizers(a)
  <2>1. req \in CRs /\ WithoutFinalizers(inst) \in CR /\ pc # "idle"
    BY <1>5, RequestType, FinalizerTypes DEF RemoveFinalizers
  <2>2. PassTypeOK'
    BY <1>5, <2>1, ReturnType, ProceedType DEF RemoveFinalizers
  <2> QED BY <1>5, <2>1, <2>2, CallType DEF RemoveFinalizers
<1>6. CASE DeletedStatus(a)
  <2>1. req \in CRs /\ inst \in CR /\ deletedStatus(inst) \in Status /\ pc # "idle"
    BY <1>6, RequestType, StatusTypes DEF DeletedStatus
  <2>2. WithStatus(req, deletedStatus(inst)) \in CR
    BY <2>1, WithStatusType
  <2>3. PassTypeOK'
    BY <1>6, <2>1, ReturnType, ClearCacheType DEF DeletedStatus
  <2> QED BY <1>6, <2>1, <2>2, <2>3, CallType DEF DeletedStatus
<1>7. CASE PauseStatus(a)
  <2>1. req \in CRs /\ inst \in CR /\ pausedStatus(inst) \in Status /\ pc # "idle"
    BY <1>7, RequestType, StatusTypes DEF PauseStatus
  <2>2. WithStatus(req, pausedStatus(inst)) \in CR
    BY <2>1, WithStatusType
  <2>3. PassTypeOK'
    BY <1>7, <2>1, ReturnType DEF PauseStatus
  <2> QED BY <1>7, <2>1, <2>2, <2>3, CallType DEF PauseStatus
<1>8. CASE PreUpdateStatus(a)
  <2> DEFINE st == preUpdateStatus(inst)
  <2>1. req \in CRs /\ inst \in CR /\ st \in Status /\ pc # "idle"
    BY <1>8, RequestType, StatusTypes DEF PreUpdateStatus
  <2>2. WithStatus(req, st) \in CR /\ [inst EXCEPT !.status = st] \in CR
    BY <2>1, WithStatusType, CRTypes
  <2>3. PassTypeOK'
    BY <1>8, <2>1, <2>2, ProceedType, HandleErrorType DEF PreUpdateStatus
  <2> QED BY <1>8, <2>1, <2>2, <2>3, CallType DEF PreUpdateStatus
<1>9. CASE UpdateStatus(a)
  <2> DEFINE ready == pc = "ready"
             st == updateStatus(inst, ready)
  <2>1. req \in CRs /\ inst \in CR /\ st \in Status /\ pc # "idle"
        /\ ready \in BOOLEAN
    BY <1>9, RequestType, StatusTypes DEF UpdateStatus
  <2>2. WithStatus(req, st) \in CR /\ [inst EXCEPT !.status = st] \in CR
    BY <2>1, WithStatusType, CRTypes
  <2>3. CASE a = "OK"
    <3>1. PassTypeOK'
      BY <1>9, <2>1, <2>3, EndPassType DEF UpdateStatus, TypeOK
    <3> QED BY <1>9, <2>1, <2>2, <3>1, CallType DEF UpdateStatus
  <2>4. CASE a # "OK"
    <3>1. PassTypeOK'
      BY <1>9, <2>1, <2>2, <2>4, HandleErrorType DEF UpdateStatus
    <3> QED BY <1>9, <2>1, <2>2, <3>1, CallType DEF UpdateStatus
  <2> QED BY <2>3, <2>4
<1>10. ASSUME NEW c \in CRs, SetStatusMultipleCRs(c, a)
       PROVE  TypeOK'
  <2> DEFINE cr == IF server[c] = Absent THEN informer[c]
                   ELSE [server[c] EXCEPT !.status = multipleStatus(server[c])]
  <2>1. server[c] # Absent => cr \in CR
    BY StatusTypes, CRTypes DEF TypeOK
  <2>2. pc = "multiple" /\ pc # "idle"
    BY <1>10 DEF SetStatusMultipleCRs
  <2>3. PassTypeOK'
    <3>1. CASE ReturnError \/ Return
      BY <2>2, <3>1, ReturnType
    <3>2. CASE /\ todo' = todo \ {c}
               /\ current' = current \ {c}
               /\ UNCHANGED <<pc, req, inst, kept, queue, delayed>>
      BY <3>2 DEF TypeOK, PassTypeOK, kept
    <3> QED BY <1>10, <3>1, <3>2 DEF SetStatusMultipleCRs
  <2> QED BY <1>10, <2>1, <2>3, CallType DEF SetStatusMultipleCRs
<1> QED BY <1>1, <1>2, <1>3, <1>4, <1>5, <1>6, <1>7, <1>8, <1>9, <1>10

\* The outcomes of the operand loops.
LEMMA OperandCallType ==
    ASSUME TypeOK, OperandCall
    PROVE  TypeOK'
<1>1. pc \in {"operands", "cleanupOperands"} /\ req \in CRs /\ inst \in CR
  BY RequestType
     DEF OperandCall, CleanupDone, CleanupPending, CleanupError,
         OperandsReady, OperandsProgressing, OperandsError, OperandsConflict
<1>2. inst.gen \in 0..MaxGen + 1 /\ inst.spec \in Specs
  BY <1>1, ConstantsAssumption DEF CR
<1>3. ApiTypeOK'
  BY DEF OperandCall, CleanupDone, CleanupPending, CleanupError,
         OperandsReady, OperandsProgressing, OperandsError, OperandsConflict,
         TypeOK, ApiTypeOK, api
<1>4. 0 \in 0..MaxGen + 1
  BY ConstantsAssumption
<1>5. RestTypeOK'
  BY <1>1, <1>2, <1>4
     DEF OperandCall, CleanupDone, CleanupPending, CleanupError,
         OperandsReady, OperandsProgressing, OperandsError, OperandsConflict,
         OperandsReconciled, AwaitRemoval, TypeOK, RestTypeOK, events, ghosts,
         counts
<1>6. PassTypeOK'
  <2>1. CASE CleanupDone
    BY <1>1, <2>1 DEF CleanupDone, TypeOK, PassTypeOK, events, kept
  <2>2. CASE CleanupPending
    BY <1>1, <2>2, ClearCacheType DEF CleanupPending
  <2>3. CASE CleanupError
    BY <1>1, <2>3, ReturnType DEF CleanupError
  <2>4. CASE OperandsReady
    BY <1>1, <1>2, <2>4 DEF OperandsReady, OperandsReconciled, TypeOK, PassTypeOK
  <2>5. CASE OperandsProgressing
    BY <1>1, <1>2, <2>5
       DEF OperandsProgressing, OperandsReconciled, TypeOK, PassTypeOK
  <2>6. CASE OperandsError
    BY <1>1, <1>2, <2>6 DEF OperandsError, OperandsReconciled, TypeOK, PassTypeOK
  <2>7. CASE OperandsConflict
    BY <1>1, <1>2, <2>7, EndPassType DEF OperandsConflict, TypeOK
  <2> QED BY <2>1, <2>2, <2>3, <2>4, <2>5, <2>6, <2>7 DEF OperandCall
<1> QED BY <1>3, <1>5, <1>6, TypeParts DEF TypeOK, ApiTypeOK, PassTypeOK, RestTypeOK

LEMMA ListCRsType ==
    ASSUME TypeOK, ListCRs
    PROVE  TypeOK'
<1>1. Listed \subseteq CRs
  BY DEF Listed
<1>2. PassTypeOK'
  <2>1. CASE MultipleCRs(Listed)
    BY <1>1, <2>1 DEF ListCRs, TypeOK, PassTypeOK, kept
  <2>2. CASE ~MultipleCRs(Listed) /\ inst.pause /\ inst.status.paused
    BY <2>2, ReturnType DEF ListCRs
  <2>3. CASE ~MultipleCRs(Listed) /\ ~(inst.pause /\ inst.status.paused)
    BY <2>3 DEF ListCRs, TypeOK, PassTypeOK, kept
  <2> QED BY <2>1, <2>2, <2>3
<1>3. ApiTypeOK' /\ RestTypeOK'
  BY DEF ListCRs, TypeOK, ApiTypeOK, RestTypeOK, api, ghosts, counts
<1> QED BY <1>2, <1>3, TypeParts DEF TypeOK, ApiTypeOK, PassTypeOK, RestTypeOK

\* A user writes a CR, and nothing of the pass but "current" notices.
LEMMA UserWritesType ==
    ASSUME TypeOK, NEW c \in CRs, NEW cr \in CR, UserWrites(c, cr),
           applied' \in [CRs -> 0..MaxGen + 1]
    PROVE  TypeOK'
<1>1. ApiTypeOK'
  BY StoreType DEF UserWrites
<1>2. PassTypeOK'
  BY DEF UserWrites, TypeOK, PassTypeOK, events, kept
<1>3. writes' \in 0..MaxWrites
  BY ConstantsAssumption DEF UserWrites, TypeOK
<1>4. RestTypeOK'
  BY <1>3 DEF UserWrites, TypeOK, RestTypeOK, events
<1> QED BY <1>1, <1>2, <1>4, TypeParts DEF TypeOK, ApiTypeOK, PassTypeOK, RestTypeOK

\* Every step of a user writes one CR, in one of these ways.
LEMMA UserStep ==
    ASSUME TypeOK, User
    PROVE  \E c \in CRs, cr \in CR :
              /\ UserWrites(c, cr)
              /\ \/ /\ server[c] = Absent
                    /\ cr.fins \cap Ours = {}
                    /\ cr.status = NewStatus /\ cr.status.phase = ""
                    /\ ~cr.deleting
                    /\ applied' = [applied EXCEPT ![c] = 0]
                 \/ /\ server[c] \in CR
                    /\ cr.fins \cap Ours = server[c].fins \cap Ours
                    /\ cr.status = server[c].status
                    /\ server[c].deleting => cr.deleting
                    /\ \/ cr.gen = server[c].gen /\ cr.spec = server[c].spec
                       \/ cr.gen > server[c].gen
                    /\ applied' = applied
              /\ applied' \in [CRs -> 0..MaxGen + 1]
<1> DEFINE Creates(c, cr) ==
        /\ UserWrites(c, cr)
        /\ server[c] = Absent
        /\ cr.fins \cap Ours = {}
        /\ cr.status = NewStatus /\ cr.status.phase = ""
        /\ ~cr.deleting
        /\ applied' = [applied EXCEPT ![c] = 0]
        /\ applied' \in [CRs -> 0..MaxGen + 1]
<1>1. ASSUME NEW c \in CRs, NEW spec \in Specs, NEW pause \in {FALSE, Pausing},
             NEW fins \in {{}} \cup (IF Foreign THEN {{"foreign"}} ELSE {}),
             CreateCR(c, spec, pause, fins)
      PROVE  \E cr \in CR : Creates(c, cr)
  <2>1. NewStatus \in Status
    BY ConstantsAssumption DEF NewStatus, Status
  <2>2. pause \in BOOLEAN
    BY ConstantsAssumption
  <2>3. fins \in {{}, {"foreign"}}
    OBVIOUS
  <2> DEFINE cr == [spec |-> spec, gen |-> 1, pause |-> pause, fins |-> fins,
                    deleting |-> FALSE, status |-> NewStatus]
  <2>4. cr \in CR
    BY <2>1, <2>2, <2>3, ConstantsAssumption DEF CR
  <2>5. /\ cr.status = NewStatus /\ cr.status.phase = "" /\ ~cr.deleting /\ server[c] = Absent
        /\ cr.fins \cap Ours = {}
    BY <1>1, <2>3 DEF NewStatus, CreateCR, Ours
  <2>6. applied' \in [CRs -> 0..MaxGen + 1]
    BY <1>1, ConstantsAssumption DEF CreateCR, TypeOK
  <2> HIDE DEF cr
  <2>7. UserWrites(c, cr)
    BY <1>1 DEF CreateCR, cr
  <2>8. applied' = [applied EXCEPT ![c] = 0]
    BY <1>1 DEF CreateCR
  <2> QED BY <2>4, <2>5, <2>6, <2>7, <2>8
<1> DEFINE Rewrites(c, cr) ==
        /\ UserWrites(c, cr)
        /\ cr \in CR
        /\ server[c] \in CR
        /\ cr.fins \cap Ours = server[c].fins \cap Ours
        /\ cr.status = server[c].status
        /\ server[c].deleting => cr.deleting
        /\ \/ cr.gen = server[c].gen /\ cr.spec = server[c].spec
           \/ cr.gen > server[c].gen
        /\ applied' = applied
        /\ applied' \in [CRs -> 0..MaxGen + 1]
<1>2. ASSUME NEW c \in CRs, NEW spec \in Specs, EditSpec(c, spec)
      PROVE  \E cr \in CR : Rewrites(c, cr)
  <2>1. server[c] \in CR /\ server[c].gen < MaxGen
    BY <1>2 DEF EditSpec, TypeOK
  <2>2. server[c].gen \in Nat /\ MaxGen \in Nat
    BY <2>1, ConstantsAssumption DEF CR
  <2>3. server[c].gen + 1 \in 1..MaxGen
    BY <2>1, <2>2
  <2>4. server[c].gen + 1 \in 1..MaxGen + 1 /\ server[c].gen + 1 <= MaxGen
    BY <2>2, <2>3
  <2> DEFINE cr == [server[c] EXCEPT !.spec = spec, !.gen = server[c].gen + 1]
  <2>5. cr \in CR
    BY <2>1, <2>4 DEF CR
  <2>6. /\ cr.fins = server[c].fins /\ cr.status = server[c].status
        /\ cr.deleting = server[c].deleting /\ cr.gen = server[c].gen + 1
    BY <2>1 DEF CR
  <2>7. cr.gen > server[c].gen
    BY <2>2, <2>6
  <2> QED BY <1>2, <2>1, <2>5, <2>6, <2>7 DEF EditSpec, TypeOK
<1>3. ASSUME NEW c \in CRs, TogglePause(c)
      PROVE  \E cr \in CR : Rewrites(c, cr)
  <2>1. server[c] \in CR
    BY <1>3 DEF TogglePause, TypeOK
  <2> DEFINE cr == [server[c] EXCEPT !.pause = ~server[c].pause]
  <2>2. cr \in CR
    BY <2>1 DEF CR
  <2>3. /\ cr.fins = server[c].fins /\ cr.status = server[c].status
        /\ cr.deleting = server[c].deleting
        /\ cr.gen = server[c].gen /\ cr.spec = server[c].spec
    BY <2>1 DEF CR
  <2> QED BY <1>3, <2>1, <2>2, <2>3 DEF TogglePause, TypeOK
<1>4. ASSUME NEW c \in CRs, DeleteCR(c)
      PROVE  \E cr \in CR : Rewrites(c, cr)
  <2>1. server[c] \in CR /\ ~server[c].deleting
    BY <1>4 DEF DeleteCR, TypeOK
  <2>2. server[c].gen \in 1..MaxGen /\ MaxGen \in Nat
    BY <2>1, ConstantsAssumption DEF CR
  <2>3. server[c].gen + 1 \in 1..MaxGen + 1
    BY <2>2
  <2> DEFINE cr == [server[c] EXCEPT !.deleting = TRUE, !.gen = server[c].gen + 1]
  <2>4. cr \in CR
    BY <2>1, <2>3 DEF CR
  <2>5. /\ cr.fins = server[c].fins /\ cr.status = server[c].status
        /\ cr.deleting /\ cr.gen = server[c].gen + 1
    BY <2>1 DEF CR
  <2>6. cr.gen > server[c].gen
    BY <2>2, <2>5
  <2> QED BY <1>4, <2>1, <2>4, <2>5, <2>6 DEF DeleteCR, TypeOK
<1>5. ASSUME NEW c \in CRs, RemoveForeign(c)
      PROVE  \E cr \in CR : Rewrites(c, cr)
  <2>1. server[c] \in CR
    BY <1>5 DEF RemoveForeign, TypeOK
  <2> DEFINE cr == [server[c] EXCEPT !.fins = server[c].fins \ {"foreign"}]
  <2>2. cr \in CR
    BY <2>1 DEF CR
  <2>3. /\ cr.fins = server[c].fins \ {"foreign"}
        /\ cr.status = server[c].status /\ cr.deleting = server[c].deleting
        /\ cr.gen = server[c].gen /\ cr.spec = server[c].spec
    BY <2>1 DEF CR
  <2> QED BY <1>5, <2>1, <2>2, <2>3 DEF RemoveForeign, TypeOK
<1> HIDE DEF Creates, Rewrites
<1>6. \E c \in CRs, cr \in CR : Creates(c, cr) \/ Rewrites(c, cr)
  BY <1>1, <1>2, <1>3, <1>4, <1>5 DEF User
<1>7. ASSUME NEW c \in CRs, NEW cr \in CR, Creates(c, cr)
      PROVE  /\ UserWrites(c, cr) /\ server[c] = Absent
             /\ cr.fins \cap Ours = {} /\ ~cr.deleting
             /\ cr.status = NewStatus /\ cr.status.phase = ""
             /\ applied' = [applied EXCEPT ![c] = 0]
             /\ applied' \in [CRs -> 0..MaxGen + 1]
  BY <1>7 DEF Creates
<1> QED BY <1>6, <1>7 DEF Rewrites

LEMMA UserType ==
    ASSUME TypeOK, User
    PROVE  TypeOK'
BY UserStep, UserWritesType

\* The informer, the back-off timers, the watches and a restart.
LEMMA SurroundingsType ==
    ASSUME TypeOK, Surroundings
    PROVE  TypeOK'
<1>1. ASSUME NEW c \in CRs, Deliver(c)
      PROVE  TypeOK'
  <2>1. ApiTypeOK'
    BY <1>1 DEF Deliver, TypeOK, ApiTypeOK
  <2>2. PassTypeOK' /\ RestTypeOK'
    BY <1>1 DEF Deliver, TypeOK, PassTypeOK, RestTypeOK, worker, kept, ghosts, counts
  <2> QED BY <2>1, <2>2, TypeParts DEF TypeOK, ApiTypeOK, PassTypeOK, RestTypeOK
<1>2. ASSUME NEW c \in CRs,
             BackOffExpires(c) \/ ResourceGone(c) \/ ResourceChanged(c)
      PROVE  TypeOK'
  BY <1>2 DEF BackOffExpires, ResourceGone, ResourceChanged, TypeOK,
              api, worker, kept, ghosts, counts
<1>3. CASE Restart
  <2>1. restarts' \in 0..MaxRestarts
    BY <1>3, ConstantsAssumption DEF Restart, Reboot, TypeOK
  <2>2. ApiTypeOK' /\ PassTypeOK' /\ RestTypeOK'
    BY <1>3, <2>1 DEF Restart, Reboot, TypeOK, ApiTypeOK, PassTypeOK, RestTypeOK, ghosts
  <2> QED BY <2>2, TypeParts DEF TypeOK, ApiTypeOK, PassTypeOK, RestTypeOK
<1> QED BY <1>1, <1>2, <1>3, UserType DEF Surroundings, Watches

LEMMA LegacyType ==
    ASSUME NEW spec \in Deploys
    PROVE  LegacyCR(spec) \in CR
<1>1. 1 \in 1..MaxGen + 1 /\ 1 \in 0..MaxGen + 1 /\ 1 <= MaxGen
  BY ConstantsAssumption
<1>2. LegacyCR(spec).status \in Status
  BY <1>1 DEF LegacyCR, Status
<1>3. spec \in Specs
  BY ConstantsAssumption
<1> QED BY <1>1, <1>2, <1>3 DEF LegacyCR, CR

LEMMA InitType == Init => TypeOK
<1> SUFFICES ASSUME Init PROVE TypeOK
  OBVIOUS
<1>1. PICK spec \in Deploys :
         server = [c \in CRs |-> IF c \in Legacy THEN LegacyCR(spec) ELSE Absent]
  BY DEF Init
<1>2. LegacyCR(spec) \in CR
  BY LegacyType
<1>3. ApiTypeOK
  BY <1>1, <1>2 DEF Init, ApiTypeOK
<1>4. PassTypeOK
  BY ConstantsAssumption DEF Init, PassTypeOK
<1>5. RestTypeOK
  <2>1. 0 \in 0..MaxGen + 1 /\ 1 \in 0..MaxGen + 1
    BY ConstantsAssumption
  <2>2. 0 \in 0..MaxWrites /\ 0 \in 0..MaxRestarts /\ 0 \in 0..MaxApiErrors
    BY ConstantsAssumption
  <2> QED BY <2>1, <2>2, ConstantsAssumption DEF Init, RestTypeOK
<1> QED BY <1>3, <1>4, <1>5, TypeParts

LEMMA NextType == TypeOK /\ [Next]_vars => TypeOK'
<1> SUFFICES ASSUME TypeOK, [Next]_vars PROVE TypeOK'
  OBVIOUS
<1>1. CASE \E c \in CRs : Start(c)
  BY <1>1, StartType
<1>2. CASE Worker
  BY <1>2, ListCRsType, ApiCallType, OperandCallType DEF Worker
<1>3. CASE Surroundings
  BY <1>3, SurroundingsType
<1>4. CASE UNCHANGED vars
  BY <1>4 DEF TypeOK, vars, api, events, worker, kept, ghosts, counts
<1> QED BY <1>1, <1>2, <1>3, <1>4 DEF Next

\* Whatever the names, specs and bounds: every variable keeps its type, a
\* request is in progress exactly between the steps of a pass, and the local
\* copy exists whenever a step of Reconcile reads it.
THEOREM TypeCorrect == Spec => []TypeOK
BY InitType, NextType, PTL DEF Spec
=============================================================================
