------------------- MODULE TektonTasksController_lifecycle -------------------
(***************************************************************************)
(* The reconciler implements CRLifecycle.  GuardInv and OwnerInv say what  *)
(* the worker may believe of its copy and who may deploy; CleanupInv adds  *)
(* that a CR whose cleanup has begun cannot slip away before its release.  *)
(***************************************************************************)
EXTENDS TektonTasksController_guard, LifecycleRefinement

CleanupInv ==
    /\ pc = "cleanupStatus" => HasOurFinalizer(inst)
    /\ pc \in {"cleanupOperands", "removeFinalizer"} =>
          server[req] # Absent /\ server[req].deleting /\ HasOurFinalizer(server[req])

LifecycleInv(G) == GuardInv(G) /\ OwnerInv(G) /\ CleanupInv

LifecycleStep(G) == [Lifecycle(G)!Next]_(Lifecycle(G)!vars)

-----------------------------------------------------------------------------
(* How a change of one stored CR shows in the life cycle.                  *)

LEMMA OneChanges ==
    ASSUME NEW G \in SUBSET CRs, NEW c \in G,
           \A d \in CRs \ {c} : server'[d] = server[d]
    PROVE  /\ lifeOfCRs(G)' = [lifeOfCRs(G) EXCEPT ![c] = LifeOf(server'[c])]
           /\ \A d \in CRs \ {c} : d \in guardedCRs(G)' <=> d \in guardedCRs(G)
           /\ guardedCRs(G) \subseteq G /\ guardedCRs(G)' \subseteq G
           /\ lifeOfCRs(G)[c] = LifeOf(server[c])
BY DEF lifeOfCRs, guardedCRs, LifeOf, HasOurFinalizer

\* What nobody outside the worker sees, or what concerns other CRs only.
LEMMA Unseen ==
    ASSUME NEW G \in SUBSET CRs, \A d \in G : server'[d] = server[d],
           touched' \cap G = touched \cap G
    PROVE  LifecycleStep(G)
BY DEF LifecycleStep, Lifecycle!vars, lifeOfCRs, guardedCRs, LifeOf, HasOurFinalizer

\* A change that neither starts a deletion nor concerns our finalizers can only
\* make a CR leave that waited for somebody else's.
LEMMA SameGuard ==
    ASSUME NEW G \in SUBSET CRs, NEW c \in CRs, NEW cr \in CR,
           TypeOK, server[c] \in CR,
           server' = [server EXCEPT ![c] = Stored(cr)],
           cr.deleting = server[c].deleting,
           HasOurFinalizer(cr) <=> HasOurFinalizer(server[c]),
           touched' = touched
    PROVE  LifecycleStep(G)
<1>1. /\ server'[c] = Stored(cr)
      /\ \A d \in CRs \ {c} : server'[d] = server[d]
      /\ cr # Absent /\ server[c] # Absent
  BY ConstantsAssumption DEF TypeOK
<1>2. CASE c \notin G
  BY <1>2, <1>1, Unseen
<1>3. CASE c \in G /\ Stored(cr) = cr
  <2>1. LifeOf(server'[c]) = LifeOf(server[c])
    BY <1>1, <1>3 DEF LifeOf
  <2>2. lifeOfCRs(G)' = lifeOfCRs(G)
    BY <1>1, <2>1, OneChanges DEF lifeOfCRs
  <2>3. guardedCRs(G)' = guardedCRs(G)
    BY <1>1, <1>3, OneChanges DEF guardedCRs, HasOurFinalizer
  <2> QED BY <2>2, <2>3 DEF LifecycleStep, Lifecycle!vars
<1>4. CASE c \in G /\ Stored(cr) # cr
  <2>1. cr.deleting /\ cr.fins = {} /\ server'[c] = Absent
    BY <1>1, <1>4 DEF Stored
  <2>2. c \notin guardedCRs(G) /\ guardedCRs(G)' = guardedCRs(G)
    BY <1>1, <1>4, <2>1, OneChanges DEF guardedCRs, HasOurFinalizer
  <2>3. lifeOfCRs(G)[c] = "deleting" /\ lifeOfCRs(G)' = [lifeOfCRs(G) EXCEPT ![c] = "absent"]
    BY <1>1, <1>4, <2>1, OneChanges DEF LifeOf
  <2>4. Lifecycle(G)!Leave(c)
    BY <2>2, <2>3 DEF Lifecycle!Leave
  <2> QED BY <1>4, <2>4 DEF LifecycleStep, Lifecycle!Next
<1> QED BY <1>2, <1>3, <1>4

-----------------------------------------------------------------------------
(* The steps that are seen.                                                *)

LEMMA GuardStep ==
    ASSUME NEW G \in SUBSET CRs,
           MaxApiErrors = 0, TypeOK, GuardInv(G), NEW a, UpdateFinalizer(a)
    PROVE  LifecycleStep(G)
<1> DEFINE cr == WithFinalizer(inst)
<1>1. /\ pc = "update" /\ Write(req, cr, a) /\ touched' = touched
      /\ req \in CRs /\ inst \in CR
  BY RequestType DEF UpdateFinalizer, ghosts
<1>2. CASE a # "OK"
  BY <1>1, <1>2, Unseen, WriteAnswer DEF GuardInv
<1>3. CASE a = "OK"
  <2>1. /\ req \in current /\ server[req] # Absent /\ inst = server[req]
        /\ server' = [server EXCEPT ![req] = Stored(cr)]
    BY <1>1, <1>3, WriteAnswer DEF GuardInv, CopyInv
  <2>2. /\ cr \in CR /\ cr.deleting = inst.deleting /\ "new" \in cr.fins
    BY <1>1, FinalizerTypes DEF WithFinalizer, CR
  <2>3. HasOurFinalizer(cr)
    BY <2>2 DEF HasOurFinalizer, Ours
  <2>4. CASE HasOurFinalizer(server[req])
    BY <1>1, <2>1, <2>2, <2>3, <2>4, SameGuard
  <2>5. CASE req \notin G
    BY <1>1, <2>1, <2>5, Unseen DEF TypeOK
  <2>6. CASE req \in G /\ ~HasOurFinalizer(server[req])
    <3>1. Verdict(req, cr) = "OK"
      BY <1>1, <1>3, ConstantsAssumption DEF Write, Answers, Verdict, TypeOK
    <3>2. ~cr.deleting
      BY <2>1, <2>2, <2>6, <3>1 DEF Verdict, HasOurFinalizer, Ours
    <3>3. /\ server'[req] = cr /\ cr # Absent
          /\ \A d \in CRs \ {req} : server'[d] = server[d]
      BY <1>1, <2>1, <2>2, <3>2, ConstantsAssumption DEF Stored, TypeOK
    <3>4. LifeOf(server'[req]) = "live" /\ LifeOf(server[req]) = "live"
      BY <2>1, <2>2, <3>2, <3>3 DEF LifeOf
    <3>5. lifeOfCRs(G)' = lifeOfCRs(G) /\ lifeOfCRs(G)[req] = "live"
      BY <2>6, <3>3, <3>4, OneChanges DEF lifeOfCRs
    <3>6. req \notin guardedCRs(G) /\ guardedCRs(G)' = guardedCRs(G) \cup {req}
      BY <2>3, <2>6, <3>3, OneChanges DEF guardedCRs, HasOurFinalizer
    <3>7. Lifecycle(G)!Guard(req)
      BY <1>1, <3>5, <3>6 DEF Lifecycle!Guard
    <3> QED BY <2>6, <3>7 DEF LifecycleStep, Lifecycle!Next
  <2> QED BY <2>4, <2>6, <2>5
<1> QED BY <1>2, <1>3

LEMMA ReleaseStep ==
    ASSUME NEW G \in SUBSET CRs,
           MaxApiErrors = 0, TypeOK, GuardInv(G), CleanupInv, NEW a, RemoveFinalizers(a)
    PROVE  LifecycleStep(G)
<1> DEFINE cr == WithoutFinalizers(inst)
<1>1. /\ pc = "removeFinalizer" /\ Write(req, cr, a) /\ touched' = touched
      /\ req \in CRs /\ inst \in CR /\ req \notin touched
  BY RequestType DEF RemoveFinalizers, ghosts, GuardInv, StepInv
<1>2. CASE a # "OK"
  BY <1>1, <1>2, Unseen, WriteAnswer DEF GuardInv
<1>3. CASE a = "OK" /\ req \notin G
  BY <1>1, <1>3, Unseen, WriteAnswer DEF GuardInv, TypeOK
<1>4. CASE a = "OK" /\ req \in G
  <2>1. server' = [server EXCEPT ![req] = Stored(cr)] /\ inst = server[req]
    BY <1>1, <1>4, WriteAnswer DEF GuardInv, CopyInv
  <2>2. server[req] # Absent /\ server[req].deleting /\ HasOurFinalizer(server[req])
    BY <1>1 DEF CleanupInv
  <2>3. cr \in CR /\ cr.deleting /\ ~HasOurFinalizer(cr)
    BY <1>1, <2>1, <2>2, FinalizerTypes DEF WithoutFinalizers, CR, HasOurFinalizer
  <2>4. /\ server'[req] = Stored(cr)
        /\ \A d \in CRs \ {req} : server'[d] = server[d]
    BY <1>1, <2>1 DEF TypeOK
  <2>5. /\ lifeOfCRs(G)[req] = "deleting"
        /\ LifeOf(server'[req]) \in {"deleting", "absent"}
    BY <1>4, <2>2, <2>3, <2>4, OneChanges DEF LifeOf, Stored
  <2>6. lifeOfCRs(G)' \in {lifeOfCRs(G), [lifeOfCRs(G) EXCEPT ![req] = "absent"]}
    BY <1>4, <2>4, <2>5, OneChanges DEF lifeOfCRs
  <2>7. req \in guardedCRs(G) /\ guardedCRs(G)' = guardedCRs(G) \ {req}
    BY <1>4, <2>2, <2>3, <2>4, OneChanges DEF guardedCRs, HasOurFinalizer, Stored
  <2>8. Lifecycle(G)!Release(req)
    BY <1>1, <1>4, <2>5, <2>6, <2>7 DEF Lifecycle!Release
  <2> QED BY <1>4, <2>8 DEF LifecycleStep, Lifecycle!Next
<1> QED BY <1>2, <1>4, <1>3

\* A write of the status, for the pass's CR or for one of several.
LEMMA StatusStep ==
    ASSUME NEW G \in SUBSET CRs,
           MaxApiErrors = 0, TypeOK, GuardInv(G), NEW c \in CRs, NEW st \in Status,
           NEW cr, NEW a, Write(c, cr, a),
           server[c] # Absent => cr = [server[c] EXCEPT !.status = st],
           touched' = touched
    PROVE  LifecycleStep(G)
<1>1. CASE a # "OK"
  BY <1>1, Unseen, WriteAnswer DEF GuardInv
<1>2. CASE a = "OK"
  <2>1. server[c] # Absent /\ server' = [server EXCEPT ![c] = Stored(cr)]
    BY <1>2, WriteAnswer DEF GuardInv
  <2>2. server[c] \in CR /\ cr \in CR
    BY <2>1, CRTypes DEF TypeOK
  <2>3. cr.deleting = server[c].deleting /\ cr.fins = server[c].fins
    BY <2>1, <2>2 DEF CR
  <2> QED BY <2>1, <2>2, <2>3, SameGuard DEF HasOurFinalizer
<1> QED BY <1>1, <1>2

LEMMA ApiCallStep ==
    ASSUME NEW G \in SUBSET CRs,
           MaxApiErrors = 0, TypeOK, GuardInv(G), CleanupInv, ApiCall
    PROVE  LifecycleStep(G)
<1> PICK a \in AnswerSet :
        \/ UpdateFinalizer(a) \/ UpdatePhase(a) \/ ReportError(a)
        \/ CleanupStatus(a) \/ RemoveFinalizers(a) \/ DeletedStatus(a)
        \/ PauseStatus(a) \/ PreUpdateStatus(a) \/ UpdateStatus(a)
        \/ \E c \in CRs : SetStatusMultipleCRs(c, a)
  BY DEF ApiCall
<1>1. CASE \/ UpdatePhase(a) \/ ReportError(a) \/ CleanupStatus(a)
           \/ DeletedStatus(a) \/ PauseStatus(a) \/ PreUpdateStatus(a)
           \/ UpdateStatus(a)
  <2>1. pc \notin {"idle", "multiple"} /\ touched' = touched
    BY <1>1 DEF UpdatePhase, ReportError, CleanupStatus, DeletedStatus,
                PauseStatus, PreUpdateStatus, UpdateStatus, ghosts
  <2>2. req \in CRs /\ inst \in CR
    BY <2>1, RequestType
  <2>3. PICK st \in Status : Write(req, WithStatus(req, st), a)
    BY <1>1, <2>2, StatusTypes
       DEF UpdatePhase, ReportError, CleanupStatus, DeletedStatus, PauseStatus,
           PreUpdateStatus, UpdateStatus
  <2> QED BY <2>1, <2>2, <2>3, StatusStep DEF WithStatus
<1>2. ASSUME NEW c \in CRs, SetStatusMultipleCRs(c, a)
      PROVE  LifecycleStep(G)
  <2> DEFINE cr == IF server[c] = Absent THEN informer[c]
                   ELSE [server[c] EXCEPT !.status = multipleStatus(server[c])]
  <2>1. Write(c, cr, a) /\ touched' = touched
    BY <1>2 DEF SetStatusMultipleCRs, ghosts
  <2>2. server[c] = Absent \/ multipleStatus(server[c]) \in Status
    BY StatusTypes DEF TypeOK
  <2>3. CASE server[c] = Absent
    BY <2>1, <2>3, Unseen, WriteAnswer DEF GuardInv
  <2>4. CASE server[c] # Absent
    BY <2>1, <2>2, <2>4, StatusStep
  <2> QED BY <2>3, <2>4
<1> QED BY <1>1, <1>2, GuardStep, ReleaseStep

LEMMA OperandCallStep ==
    ASSUME NEW G \in SUBSET CRs, TypeOK, LifecycleInv(G), OperandCall
    PROVE  LifecycleStep(G)
<1>1. /\ server' = server
      /\ req \in CRs
      /\ pc \in {"operands", "cleanupOperands"}
      /\ lifeOfCRs(G)' = lifeOfCRs(G) /\ guardedCRs(G)' = guardedCRs(G)
  BY RequestType
     DEF OperandCall, CleanupDone, CleanupPending, CleanupError,
         OperandsReady, OperandsProgressing, OperandsError, OperandsConflict, api,
         lifeOfCRs, guardedCRs, LifeOf, HasOurFinalizer
<1>2. CASE CleanupPending \/ CleanupError
  BY <1>1, <1>2, Unseen DEF CleanupPending, CleanupError
<1>3. CASE CleanupDone
  <2>1. touched' = touched \ {req} /\ pc = "cleanupOperands"
    BY <1>3 DEF CleanupDone
  <2>2. req \in G => lifeOfCRs(G)[req] = "deleting" /\ req \in guardedCRs(G)
    BY <1>1, <2>1 DEF LifecycleInv, CleanupInv, lifeOfCRs, LifeOf, guardedCRs
  <2>3. CASE req \in touched \cap G
    <3>1. Lifecycle(G)!Cleanup(req)
      BY <1>1, <2>1, <2>2, <2>3 DEF Lifecycle!Cleanup
    <3> QED BY <2>3, <3>1 DEF LifecycleStep, Lifecycle!Next
  <2>4. CASE req \notin touched \cap G
    BY <1>1, <2>1, <2>4, Unseen
  <2> QED BY <2>3, <2>4
<1>4. CASE OperandsReady \/ OperandsProgressing \/ OperandsError \/ OperandsConflict
  <2>1. touched' = touched \cup {req} /\ pc = "operands"
    BY <1>4 DEF OperandsReady, OperandsProgressing, OperandsError,
                OperandsConflict, OperandsReconciled
  <2>2. touched \cap G \subseteq {req} /\ (req \in G => req \in guardedCRs(G))
    BY <1>1, <2>1 DEF LifecycleInv, OwnerInv, GuardInv, StepInv, guardedCRs
  <2>3. CASE req \in touched \/ req \notin G
    BY <1>1, <2>1, <2>3, Unseen
  <2>4. CASE req \in G \ touched
    <3>1. Lifecycle(G)!Deploy(req)
      BY <1>1, <2>1, <2>2, <2>4 DEF Lifecycle!Deploy
    <3> QED BY <2>4, <3>1 DEF LifecycleStep, Lifecycle!Next
  <2> QED BY <2>3, <2>4
<1> QED BY <1>2, <1>3, <1>4 DEF OperandCall

LEMMA UserSeen ==
    ASSUME NEW G \in SUBSET CRs, TypeOK, User
    PROVE  LifecycleStep(G)
<1>1. PICK c \in CRs, cr \in CR :
        /\ UserWrites(c, cr)
        /\ \/ /\ server[c] = Absent
              /\ cr.fins \cap Ours = {}
              /\ ~cr.deleting
           \/ /\ server[c] \in CR
              /\ cr.fins \cap Ours = server[c].fins \cap Ours
              /\ server[c].deleting => cr.deleting
  BY UserStep
<1>2. /\ server' = [server EXCEPT ![c] = Stored(cr)] /\ touched' = touched
      /\ server'[c] = Stored(cr)
      /\ \A d \in CRs \ {c} : server'[d] = server[d]
      /\ cr # Absent
  BY <1>1, ConstantsAssumption DEF UserWrites, Store, TypeOK
<1>3. CASE c \notin G
  BY <1>2, <1>3, Unseen
<1>4. CASE c \in G /\ server[c] = Absent
  <2>1. server'[c] = cr /\ ~HasOurFinalizer(cr) /\ ~cr.deleting
    BY <1>1, <1>2, <1>4, ConstantsAssumption DEF HasOurFinalizer, Stored
  <2>2. /\ lifeOfCRs(G)[c] = "absent"
        /\ lifeOfCRs(G)' = [lifeOfCRs(G) EXCEPT ![c] = "live"]
    BY <1>2, <1>4, <2>1, OneChanges DEF LifeOf
  <2>3. guardedCRs(G)' = guardedCRs(G)
    BY <1>2, <1>4, <2>1, OneChanges DEF guardedCRs
  <2>4. Lifecycle(G)!Create(c)
    BY <1>2, <2>2, <2>3 DEF Lifecycle!Create
  <2> QED BY <1>4, <2>4 DEF LifecycleStep, Lifecycle!Next
<1>5. CASE server[c] # Absent /\ cr.deleting = server[c].deleting
  BY <1>1, <1>2, <1>5, SameGuard DEF HasOurFinalizer
<1>6. CASE c \in G /\ server[c] # Absent /\ cr.deleting # server[c].deleting
  <2>1. cr.deleting /\ ~server[c].deleting /\ server[c] \in CR
    BY <1>1, <1>6 DEF CR
  <2>2. lifeOfCRs(G)[c] = "live"
    BY <1>2, <1>6, <2>1, OneChanges DEF LifeOf
  <2>3. HasOurFinalizer(server[c]) <=> HasOurFinalizer(cr)
    BY <1>1, <1>6 DEF HasOurFinalizer
  <2>4. HasOurFinalizer(cr) => Stored(cr) = cr
    BY DEF HasOurFinalizer, Stored
  <2>5. guardedCRs(G)' = guardedCRs(G)
    BY <1>2, <1>6, <2>3, <2>4, OneChanges DEF guardedCRs, HasOurFinalizer, Stored
  <2>6. \/ lifeOfCRs(G)' = [lifeOfCRs(G) EXCEPT ![c] = "deleting"]
        \/ lifeOfCRs(G)' = [lifeOfCRs(G) EXCEPT ![c] = "absent"] /\ c \notin guardedCRs(G)
    BY <1>2, <1>6, <2>1, <2>3, <2>4, OneChanges DEF LifeOf, Stored, guardedCRs
  <2>7. Lifecycle(G)!Delete(c)
    BY <1>2, <2>2, <2>5, <2>6 DEF Lifecycle!Delete
  <2> QED BY <1>6, <2>7 DEF LifecycleStep, Lifecycle!Next
<1> QED BY <1>4, <1>5, <1>6, <1>3

LEMMA NextStep ==
    ASSUME NEW G \in SUBSET CRs,
           MaxApiErrors = 0, TypeOK, LifecycleInv(G), [Next]_vars
    PROVE  LifecycleStep(G)
<1>1. CASE \E c \in CRs : Start(c)
  BY <1>1, Unseen DEF Start, api, ghosts
<1>2. CASE ListCRs
  BY <1>2, Unseen DEF ListCRs, api, ghosts
<1>3. CASE Restart \/ Watches \/ UNCHANGED vars
  BY <1>3, Unseen DEF Restart, Reboot, Watches, Deliver, BackOffExpires,
                      ResourceGone, ResourceChanged, api, ghosts, vars
<1> QED BY <1>1, <1>2, <1>3, ApiCallStep, OperandCallStep, UserSeen
        DEF Next, Worker, Surroundings, LifecycleInv

-----------------------------------------------------------------------------
(* CleanupInv.                                                             *)

\* Away from a cleanup there is nothing to keep.
LEMMA CleanupElsewhere ==
    ASSUME pc' \notin {"cleanupStatus", "cleanupOperands", "removeFinalizer"}
    PROVE  CleanupInv'
BY DEF CleanupInv

\* In a cleanup, nothing that others do concerns the CR's deletion or guard.
LEMMA CleanupQuiet ==
    ASSUME CleanupInv, UNCHANGED <<pc, req, inst>>,
           req \in CRs => \/ server'[req] = server[req]
                          \/ /\ server[req] # Absent /\ server'[req] # Absent
                             /\ server[req].deleting => server'[req].deleting
                             /\ HasOurFinalizer(server'[req]),
           pc # "idle" => req \in CRs
    PROVE  CleanupInv'
BY DEF CleanupInv, HasOurFinalizer

LEMMA CleanupApiCall ==
    ASSUME NEW G \in SUBSET CRs,
           MaxApiErrors = 0, TypeOK, GuardInv(G), CleanupInv, ApiCall
    PROVE  CleanupInv'
<1> PICK a \in AnswerSet :
        \/ UpdateFinalizer(a) \/ UpdatePhase(a) \/ ReportError(a)
        \/ CleanupStatus(a) \/ RemoveFinalizers(a) \/ DeletedStatus(a)
        \/ PauseStatus(a) \/ PreUpdateStatus(a) \/ UpdateStatus(a)
        \/ \E c \in CRs : SetStatusMultipleCRs(c, a)
  BY DEF ApiCall
<1>1. CASE CleanupStatus(a) /\ a = "OK"
  <2> DEFINE st == cleanupStatus(inst)
             cr == WithStatus(req, st)
  <2>0. pc = "cleanupStatus" /\ inst.deleting /\ HasOurFinalizer(inst)
    BY <1>1 DEF CleanupStatus, GuardInv, StepInv, CleanupInv, CleanupPCs
  <2>1. /\ pc = "cleanupStatus" /\ pc' = "cleanupOperands" /\ req' = req
        /\ Write(req, cr, a) /\ touched' = touched
        /\ req \in CRs /\ inst \in CR /\ st \in Status
        /\ inst.deleting /\ HasOurFinalizer(inst)
    BY <1>1, <2>0, RequestType, StatusTypes DEF CleanupStatus, Proceed, ghosts
  <2>2. /\ server[req] = inst /\ server[req] # Absent
        /\ cr = [server[req] EXCEPT !.status = st]
    BY <1>1, <2>1, StatusSent DEF GuardInv, CopyInv
  <2>3. server'[req] = cr
    BY <1>1, <2>1, <2>2, StatusWritten
  <2>4. cr.deleting /\ cr.fins = inst.fins /\ cr # Absent
    BY <2>1, <2>2, CRTypes, ConstantsAssumption DEF CR
  <2> QED BY <2>1, <2>3, <2>4 DEF CleanupInv, HasOurFinalizer
<1>2. CASE ~(CleanupStatus(a) /\ a = "OK")
  <2>1. pc' \notin {"cleanupStatus", "cleanupOperands", "removeFinalizer"}
    BY <1>2 DEF UpdateFinalizer, UpdatePhase, ReportError, CleanupStatus,
         RemoveFinalizers, DeletedStatus, PauseStatus, PreUpdateStatus,
         UpdateStatus, SetStatusMultipleCRs, Proceed, handleError, Return,
         ReturnError, ReturnRequeue, EndPass
  <2> QED BY <2>1, CleanupElsewhere
<1> QED BY <1>1, <1>2

LEMMA CleanupOperandCall ==
    ASSUME TypeOK, CleanupInv, OperandCall
    PROVE  CleanupInv'
<1>1. CASE CleanupDone
  BY <1>1 DEF CleanupDone, CleanupInv, api, HasOurFinalizer
<1>2. CASE ~CleanupDone
  BY <1>2, CleanupElsewhere
     DEF OperandCall, CleanupPending, CleanupError, OperandsReady,
         OperandsProgressing, OperandsError, OperandsConflict, ReturnError, EndPass
<1> QED BY <1>1, <1>2

LEMMA CleanupUser ==
    ASSUME TypeOK, CleanupInv, User
    PROVE  CleanupInv'
<1>1. PICK c \in CRs, cr \in CR :
        /\ UserWrites(c, cr)
        /\ \/ server[c] = Absent
           \/ /\ server[c] \in CR
              /\ cr.fins \cap Ours = server[c].fins \cap Ours
              /\ server[c].deleting => cr.deleting
  BY UserStep
<1>2. /\ UNCHANGED <<pc, req, inst>>
      /\ server'[c] = Stored(cr)
      /\ \A d \in CRs \ {c} : server'[d] = server[d]
      /\ cr # Absent
  BY <1>1, ConstantsAssumption DEF UserWrites, Store, TypeOK
<1>3. CASE pc \in {"cleanupOperands", "removeFinalizer"} /\ req = c
  <2>1. server[c] # Absent /\ server[c].deleting /\ HasOurFinalizer(server[c])
    BY <1>3 DEF CleanupInv
  <2>2. cr.deleting /\ HasOurFinalizer(cr)
    BY <1>1, <2>1 DEF HasOurFinalizer
  <2>3. server'[c] = cr
    BY <1>2, <2>2 DEF Stored, HasOurFinalizer
  <2> QED BY <1>2, <1>3, <2>2, <2>3 DEF CleanupInv
<1>4. CASE ~(pc \in {"cleanupOperands", "removeFinalizer"} /\ req = c)
  <2>1. pc # "idle" => req \in CRs
    BY RequestType
  <2>2. pc \in {"cleanupOperands", "removeFinalizer"} => server'[req] = server[req]
    BY <1>2, <1>4, <2>1
  <2> QED BY <1>2, <2>2 DEF CleanupInv, HasOurFinalizer
<1> QED BY <1>3, <1>4

LEMMA CleanupNext ==
    ASSUME NEW G \in SUBSET CRs,
           MaxApiErrors = 0, TypeOK, GuardInv(G), CleanupInv, [Next]_vars
    PROVE  CleanupInv'
<1>1. ASSUME NEW c \in CRs, Start(c)
      PROVE  CleanupInv'
  <2>1. CASE informer[c] = Absent
    BY <1>1, <2>1, RequestType DEF Start, worker, api, CleanupInv, HasOurFinalizer
  <2>2. CASE informer[c] # Absent
    BY <1>1, <2>2 DEF Start, FirstCall, CleanupInv, isInitialized, isBeingDeleted
  <2> QED BY <2>1, <2>2
<1>2. CASE ListCRs
  BY <1>2, CleanupElsewhere DEF ListCRs, Return, EndPass
<1>3. CASE Restart
  BY <1>3, CleanupElsewhere DEF Restart, Reboot
<1>4. CASE Watches \/ UNCHANGED vars
  <2>1. UNCHANGED <<server, pc, req, inst>>
    BY <1>4 DEF Watches, Deliver, BackOffExpires, ResourceGone, ResourceChanged,
                worker, api, vars
  <2> QED BY <2>1 DEF CleanupInv, HasOurFinalizer
<1> QED BY <1>1, <1>2, <1>3, <1>4, CleanupApiCall, CleanupOperandCall, CleanupUser
        DEF Next, Worker, Surroundings

-----------------------------------------------------------------------------
LEMMA LifecycleInit ==
    ASSUME NEW G \in SUBSET CRs, Init
    PROVE  Lifecycle(G)!Init
<1>1. PICK spec \in Deploys :
         server = [c \in CRs |-> IF c \in Legacy THEN LegacyCR(spec) ELSE Absent]
  BY DEF Init
<1>2. /\ LegacyCR(spec) # Absent /\ ~LegacyCR(spec).deleting
      /\ HasOurFinalizer(LegacyCR(spec))
  BY LegacyType, ConstantsAssumption DEF LegacyCR, HasOurFinalizer, Ours
<1>3. lifeOfCRs(G) = [c \in G |-> IF c \in Legacy \cap G THEN "live" ELSE "absent"]
  BY <1>1, <1>2 DEF lifeOfCRs, LifeOf
<1>4. guardedCRs(G) = Legacy \cap G
  BY <1>1, <1>2, ConstantsAssumption DEF guardedCRs
<1> QED BY <1>3, <1>4 DEF Init, Lifecycle!Init

\* The reconciler implements the life cycle, for every number of CRs, specs,
\* writes and crashes and whatever an older operator left behind, if API calls
\* fail only for reasons of the CR's.
THEOREM LifecycleImplemented ==
    ASSUME MaxApiErrors = 0
    PROVE  Spec => ImplementsLifecycle
<1> DEFINE I == TypeOK /\ LifecycleInv(CRs)
<1>1. Init => I
  <2>1. ASSUME Init PROVE OwnerInv(CRs) /\ CleanupInv
    BY <2>1, InitGuard
       DEF Init, OwnerInv, CleanupInv, GuardInv, Guarded
  <2> QED BY <2>1, InitType, InitGuard DEF LifecycleInv
<1>2. I /\ [Next]_vars => I'
  <2> SUFFICES ASSUME I, [Next]_vars PROVE I'
    OBVIOUS
  <2>1. OwnerInv(CRs)'
    BY OwnerNext DEF LifecycleInv
  <2> QED BY <2>1, NextType, NextGuard, CleanupNext DEF LifecycleInv
<1>3. I /\ [Next]_vars => [Lifecycle(CRs)!Next]_(Lifecycle(CRs)!vars)
  BY NextStep DEF LifecycleStep
<1>4. Init => Lifecycle(CRs)!Init
  BY LifecycleInit
<1> QED BY <1>1, <1>2, <1>3, <1>4, PTL DEF Spec, ImplementsLifecycle
=============================================================================
