-------------------- MODULE TektonTasksController_status ---------------------
(***************************************************************************)
(* What the status of a CR says is true, for every number of CRs, specs,   *)
(* restarts and failing or lost API calls.  The operator writes a status   *)
(* it computed from a copy; the argument is that the copy either is the    *)
(* stored version or its write is refused, and that what a pass knows of   *)
(* the stored status while operands run cannot be undone by users, who     *)
(* never write a status.                                                   *)
(***************************************************************************)
EXTENDS TektonTasksController_guard

\* The status claims that the resources of the latest spec are deployed.
Claims(cr) ==
    /\ cr.status.phase = "Deployed"
    /\ cr.status.obsGen = cr.gen
    /\ ~cr.status.paused
    /\ cr.spec \in Deploys

\* No status observes a generation yet to come, or claims what is not so.
HonestInv ==
    \A c \in CRs :
        server[c] # Absent =>
            /\ server[c].status.obsGen <= server[c].gen
            /\ Claims(server[c]) => applied[c] = server[c].gen

CopiesInv ==
    \A c \in CRs :
        informer[c] # Absent => informer[c].status.obsGen <= informer[c].gen

InPass == pc \notin {"idle", "multiple"}

\* The pass's own copy, and what it knows of the stored CR.
PassInv ==
    InPass =>
        /\ inst.status.obsGen <= inst.gen
        /\ req \in current =>
              /\ server[req] # Absent
              /\ server[req].gen = inst.gen
              /\ pc # "errorStatus" => server[req] = inst
        /\ pc \in {"operands", "cleanupOperands"} =>
              server[req] = Absent \/ server[req].status.phase # "Deployed"
        /\ pc = "operands" => server[req] = Absent \/ ~server[req].status.paused
        /\ pc = "ready" /\ req \in current /\ inst.spec \in Deploys =>
              applied[req] = inst.gen

\* The version cache was filled under the spec of the pass.
CacheInv ==
    /\ InPass => lastSpec = inst.spec
    /\ cached \subseteq {lastSpec}

StatusInv == InformerInv /\ HonestInv /\ CopiesInv /\ PassInv

-----------------------------------------------------------------------------
(* Writes.                                                                 *)

\* What a write does to the stored CR, and what the worker knows afterwards.
LEMMA WriteEffect ==
    ASSUME TypeOK, InformerInv, NEW c \in CRs, NEW cr, NEW a, Write(c, cr, a)
    PROVE  /\ InformerInv'
           /\ informer' = informer
           /\ \A d \in CRs \ {c} : server'[d] = server[d]
           /\ \/ server'[c] = server[c]
              \/ c \in current /\ server[c] # Absent /\ server'[c] \in {Absent, cr}
           /\ c \in CurrentAfter(c, cr, a) =>
                 /\ c \in current
                 /\ a = "OK" => server'[c] = cr
                 /\ a # "OK" => server'[c] = server[c]
           /\ CurrentAfter(c, cr, a) \subseteq current
<1>1. CASE a \in {"OK", "Lost"}
  <2>1. Verdict(c, cr) = "OK"
    BY <1>1 DEF Write, Answers, Verdict
  <2>2. c \in current /\ server[c] # Absent
    BY <2>1 DEF Verdict
  <2>3. Store(c, cr)
    BY <1>1 DEF Write
  <2>4. InformerInv' /\ informer' = informer
    BY <2>3, StoreInformer DEF Store
  <2>5. /\ server'[c] = Stored(cr)
        /\ \A d \in CRs \ {c} : server'[d] = server[d]
    BY <2>3 DEF Store, TypeOK
  <2>6. Stored(cr) \in {Absent, cr}
    BY DEF Stored
  <2>7. c \in CurrentAfter(c, cr, a) =>
           /\ Stored(cr) = cr
           /\ a = "Lost" => cr = server[c]
    BY <2>2, <2>6 DEF CurrentAfter
  <2> QED BY <1>1, <2>2, <2>4, <2>5, <2>6, <2>7 DEF CurrentAfter
<1>2. CASE a \notin {"OK", "Lost"}
  <2>1. UNCHANGED api
    BY <1>2 DEF Write
  <2> QED BY <1>2, <2>1 DEF api, InformerInv, CurrentAfter
<1> QED BY <1>1, <1>2

\* A CR that is written over a current copy and claims nothing untrue keeps
\* every status honest.
LEMMA WriteHonest ==
    ASSUME TypeOK, StatusInv, NEW c \in CRs, NEW cr, NEW a, Write(c, cr, a),
           c \in current /\ server[c] # Absent =>
               /\ cr.status.obsGen <= cr.gen
               /\ Claims(cr) => applied[c] = cr.gen,
           applied' = applied
    PROVE  InformerInv' /\ HonestInv' /\ CopiesInv'
<1>1. /\ InformerInv' /\ informer' = informer
      /\ \A d \in CRs \ {c} : server'[d] = server[d]
      /\ \/ server'[c] = server[c]
         \/ c \in current /\ server[c] # Absent /\ server'[c] \in {Absent, cr}
  BY WriteEffect DEF StatusInv
<1>2. CopiesInv'
  BY <1>1 DEF StatusInv, CopiesInv
<1>3. ASSUME NEW d \in CRs, server'[d] # Absent
      PROVE  /\ server'[d].status.obsGen <= server'[d].gen
             /\ Claims(server'[d]) => applied'[d] = server'[d].gen
  BY <1>1, <1>3 DEF StatusInv, HonestInv
<1>4. HonestInv'
  BY <1>3 DEF HonestInv, Claims
<1> QED BY <1>1, <1>2, <1>4

\* What Status().Update sends over a current copy is that copy with the status.
LEMMA StatusCopy ==
    ASSUME TypeOK, StatusInv, InPass, NEW st \in Status
    PROVE  /\ req \in CRs /\ inst \in CR
           /\ req \in current =>
                 /\ server[req] \in CR
                 /\ WithStatus(req, st) = [server[req] EXCEPT !.status = st]
                 /\ WithStatus(req, st).status = st
                 /\ WithStatus(req, st).gen = inst.gen
                 /\ WithStatus(req, st).spec = server[req].spec
                 /\ pc # "errorStatus" =>
                       WithStatus(req, st) = [inst EXCEPT !.status = st]
<1>1. req \in CRs /\ inst \in CR
  BY RequestType DEF InPass
<1>2. req \in current => /\ server[req] \in CR
                         /\ server[req].gen = inst.gen
                         /\ pc # "errorStatus" => server[req] = inst
  BY <1>1 DEF TypeOK, StatusInv, PassInv
<1>3. req \in current =>
         WithStatus(req, st) = [server[req] EXCEPT !.status = st]
  BY <1>2, ConstantsAssumption DEF WithStatus
<1>4. ASSUME NEW cr \in CR
      PROVE  LET new == [cr EXCEPT !.status = st]
             IN  new.status = st /\ new.gen = cr.gen /\ new.spec = cr.spec
  BY DEF CR
<1>5. req \in current => /\ WithStatus(req, st).status = st
                         /\ WithStatus(req, st).gen = inst.gen
                         /\ WithStatus(req, st).spec = server[req].spec
  BY <1>2, <1>3, <1>4
<1> QED BY <1>1, <1>2, <1>3, <1>5

LEMMA StatusHonest ==
    ASSUME TypeOK, StatusInv, InPass, NEW st \in Status,
           NEW a, Write(req, WithStatus(req, st), a),
           st.obsGen <= inst.gen,
           /\ req \in current
           /\ st.phase = "Deployed" /\ st.obsGen = inst.gen /\ ~st.paused
           /\ server[req].spec \in Deploys
           => applied[req] = inst.gen,
           applied' = applied
    PROVE  InformerInv' /\ HonestInv' /\ CopiesInv'
<1>1. req \in CRs
  BY StatusCopy
<1>2. req \in current /\ server[req] # Absent =>
         /\ WithStatus(req, st).status.obsGen <= WithStatus(req, st).gen
         /\ Claims(WithStatus(req, st)) => applied[req] = WithStatus(req, st).gen
  BY StatusCopy DEF Claims
<1> QED BY <1>1, <1>2, WriteHonest

-----------------------------------------------------------------------------
(* How a pass goes on after a call.                                        *)

LEMMA EndPassStatus ==
    ASSUME NEW requeue \in BOOLEAN, EndPass(requeue)
    PROVE  PassInv'
BY DEF EndPass, PassInv, InPass

LEMMA ReturnStatus ==
    ASSUME Return \/ ReturnError \/ ReturnRequeue
    PROVE  PassInv'
BY EndPassStatus DEF Return, ReturnError, ReturnRequeue

\* The end of a pass, and a cache that is cleared with it, keep CacheInv.
LEMMA ReturnCache ==
    ASSUME CacheInv, Return \/ ReturnError \/ ReturnRequeue
    PROVE  CacheInv'
BY DEF Return, ReturnError, ReturnRequeue, EndPass, CacheInv, InPass, kept

LEMMA ProceedCache ==
    ASSUME CacheInv, InPass, NEW next, NEW cr, NEW sent, NEW a,
           cr.spec = inst.spec, Proceed(next, cr, sent, a)
    PROVE  CacheInv'
BY DEF Proceed, CacheInv, InPass, kept

LEMMA HandleErrorCache ==
    ASSUME CacheInv, InPass, NEW cr, NEW sent, NEW a,
           cr.spec = inst.spec, handleError(cr, sent, a)
    PROVE  CacheInv'
BY ReturnCache, ProceedCache DEF handleError

\* A call that failed left the stored CR as the worker knows it.
LEMMA HandleErrorStatus ==
    ASSUME TypeOK, StatusInv, InPass,
           NEW cr, NEW sent, NEW a, a # "OK", Write(req, sent, a),
           cr.gen = inst.gen, cr.status.obsGen <= cr.gen,
           handleError(cr, sent, a)
    PROVE  PassInv'
<1>1. CASE a = "Conflict"
  BY <1>1, ReturnStatus DEF handleError
<1>2. CASE a # "Conflict"
  <2>1. /\ pc' = "errorStatus" /\ inst' = cr /\ req' = req
        /\ current' = CurrentAfter(req, sent, a)
    BY <1>2 DEF handleError, Proceed
  <2>2. req \in CRs
    BY RequestType DEF InPass
  <2>3. req \in current' => req \in current /\ server'[req] = server[req]
    BY <2>1, <2>2, WriteEffect DEF StatusInv
  <2> QED BY <2>1, <2>3 DEF PassInv, StatusInv, InPass
<1> QED BY <1>1, <1>2

\* A status call that fails.
LEMMA StatusFails ==
    ASSUME TypeOK, StatusInv, CacheInv, InPass, NEW st \in Status,
           NEW a, a # "OK", Write(req, WithStatus(req, st), a),
           st.obsGen <= inst.gen,
           handleError([inst EXCEPT !.status = st], WithStatus(req, st), a)
    PROVE  PassInv' /\ CacheInv'
<1> DEFINE cr == [inst EXCEPT !.status = st]
<1>1. inst \in CR
  BY StatusCopy
<1>2. cr.gen = inst.gen /\ cr.spec = inst.spec /\ cr.status = st
  BY <1>1 DEF CR
<1> QED BY <1>2, HandleErrorStatus, HandleErrorCache

\* A status call that succeeds, and after which the pass goes on.
LEMMA StatusProceeds ==
    ASSUME TypeOK, StatusInv, CacheInv, InPass, NEW st \in Status,
           Write(req, WithStatus(req, st), "OK"),
           pc # "errorStatus",
           st.obsGen <= inst.gen,
           NEW next \in {"operands", "ready", "cleanupOperands"},
           next \in {"operands", "cleanupOperands"} => st.phase # "Deployed",
           next = "operands" => ~st.paused,
           next = "ready" => inst.spec \notin Deploys,
           Proceed(next, [inst EXCEPT !.status = st], WithStatus(req, st), "OK")
    PROVE  PassInv' /\ CacheInv'
<1> DEFINE cr == [inst EXCEPT !.status = st]
           sent == WithStatus(req, st)
<1>1. req \in CRs /\ inst \in CR
  BY StatusCopy
<1>2. cr.gen = inst.gen /\ cr.spec = inst.spec /\ cr.status = st /\ cr # Absent
  BY <1>1, CRTypes, ConstantsAssumption DEF CR
<1>3. /\ pc' = next /\ inst' = cr /\ req' = req
      /\ current' = CurrentAfter(req, sent, "OK")
  BY DEF Proceed
<1>4. req \in current
  BY <1>1 DEF Write, Answers, Verdict
<1>5. sent = cr
  BY <1>4, StatusCopy
<1>6. req \in current' => server'[req] = cr
  BY <1>1, <1>3, <1>5, WriteEffect DEF StatusInv
<1>7. server'[req] \in {Absent, cr}
  <2>1. Store(req, sent)
    BY DEF Write
  <2> QED BY <1>1, <1>5, <2>1 DEF Store, Stored, TypeOK
<1>8. PassInv'
  BY <1>2, <1>3, <1>6, <1>7 DEF PassInv, InPass
<1> QED BY <1>2, <1>8, ProceedCache

-----------------------------------------------------------------------------
(* StatusInv and CacheInv, step by step.                                   *)

LEMMA StartStatus ==
    ASSUME TypeOK, StatusInv, CacheInv, NEW c \in CRs, Start(c)
    PROVE  StatusInv' /\ CacheInv'
<1>1. UNCHANGED <<server, informer, lag, applied>>
  BY DEF Start, api, ghosts
<1>2. InformerInv' /\ HonestInv' /\ CopiesInv'
  BY <1>1 DEF StatusInv, InformerInv, HonestInv, CopiesInv, Claims
<1>3. CASE informer[c] = Absent
  <2>1. UNCHANGED <<worker, kept>>
    BY <1>3 DEF Start
  <2>2. PassInv' /\ CacheInv'
    BY <1>1, <2>1
       DEF StatusInv, PassInv, CacheInv, InPass, worker, kept
  <2> QED BY <1>2, <2>2 DEF StatusInv
<1>4. CASE informer[c] # Absent
  <2>1. /\ pc' = FirstCall(informer[c]) /\ req' = c /\ inst' = informer[c]
        /\ current' = IF lag[c] = "none" THEN {c} ELSE {}
        /\ lastSpec' = inst'.spec
        /\ cached' = IF lastSpec = inst'.spec THEN cached ELSE {}
    BY <1>4 DEF Start, clearCacheIfNeeded
  <2>2. pc' \in {"update", "list", "cleanupStatus", "deletedStatus"}
    BY <2>1 DEF FirstCall, isInitialized
  <2>3. c \in current' => server[c] = informer[c]
    BY <2>1 DEF StatusInv, InformerInv
  <2>4. PassInv'
    BY <1>1, <1>4, <2>1, <2>2, <2>3 DEF StatusInv, CopiesInv, PassInv, InPass
  <2>5. CacheInv'
    BY <2>1 DEF CacheInv
  <2> QED BY <1>2, <2>4, <2>5 DEF StatusInv
<1> QED BY <1>3, <1>4

\* The two writes of the whole CR change its finalizers only.
LEMMA FinalizersStatus ==
    ASSUME TypeOK, StatusInv, CacheInv, InPass, pc # "errorStatus",
           NEW cr, cr \in {WithFinalizer(inst), WithoutFinalizers(inst)},
           NEW a, Write(req, cr, a), applied' = applied,
           NEW next \in {"updateStatus", "deletedStatus"},
           \/ ReturnError
           \/ a = "OK" /\ Proceed(next, cr, cr, a)
           \/ a # "OK" /\ handleError(cr, cr, a)
    PROVE  StatusInv' /\ CacheInv'
<1>1. req \in CRs /\ inst \in CR
  BY RequestType DEF InPass
<1>2. /\ cr.gen = inst.gen /\ cr.spec = inst.spec /\ cr.status = inst.status
      /\ cr # Absent
  <2>1. cr \in CR
    BY <1>1, FinalizerTypes
  <2> QED BY <1>1, <2>1, ConstantsAssumption
          DEF WithFinalizer, WithoutFinalizers, CR
<1>3. req \in current => server[req] = inst
  BY DEF StatusInv, PassInv
<1>4. inst.status.obsGen <= inst.gen
  BY DEF StatusInv, PassInv
<1>5. InformerInv' /\ HonestInv' /\ CopiesInv'
  <2>1. req \in current /\ server[req] # Absent =>
           /\ cr.status.obsGen <= cr.gen
           /\ Claims(cr) => applied[req] = cr.gen
    BY <1>1, <1>2, <1>3, <1>4 DEF StatusInv, HonestInv, Claims
  <2> QED BY <1>1, <2>1, WriteHonest
<1>6. CASE ReturnError
  BY <1>5, <1>6, ReturnStatus, ReturnCache DEF StatusInv
<1>7. CASE a = "OK" /\ Proceed(next, cr, cr, a)
  <2>1. /\ pc' = next /\ inst' = cr /\ req' = req
        /\ current' = CurrentAfter(req, cr, a)
    BY <1>7 DEF Proceed
  <2>2. req \in current' => server'[req] = cr
    BY <1>1, <1>7, <2>1, WriteEffect DEF StatusInv
  <2>3. PassInv'
    BY <1>2, <1>4, <2>1, <2>2 DEF PassInv, InPass
  <2> QED BY <1>2, <1>5, <1>7, <2>3, ProceedCache DEF StatusInv
<1>8. CASE a # "OK" /\ handleError(cr, cr, a)
  BY <1>2, <1>4, <1>5, <1>8, HandleErrorStatus, HandleErrorCache DEF StatusInv
<1> QED BY <1>6, <1>7, <1>8

\* What the worker knows of its copy when it computes a status from it.
LEMMA StatusKnown ==
    ASSUME TypeOK, StatusInv, InPass
    PROVE  /\ req \in CRs /\ inst \in CR /\ inst.gen \in Nat
           /\ inst.status \in Status
           /\ inst.gen <= inst.gen /\ inst.status.obsGen <= inst.gen
           /\ DeployingStatus(inst) \in Status
           /\ DeployingStatus(inst).phase = "Deploying"
           /\ DeployingStatus(inst).obsGen = inst.gen
           /\ cleanupStatus(inst) \in Status
           /\ cleanupStatus(inst).phase = "Deleting"
           /\ cleanupStatus(inst).obsGen = inst.gen
           /\ deletedStatus(inst) \in Status
           /\ deletedStatus(inst).phase = "Deleted"
           /\ deletedStatus(inst).obsGen = inst.gen
           /\ pausedStatus(inst) \in Status
           /\ pausedStatus(inst).paused
           /\ pausedStatus(inst).obsGen = inst.gen
           /\ preUpdateStatus(inst) \in Status
           /\ preUpdateStatus(inst).phase = "Deploying"
           /\ preUpdateStatus(inst).obsGen = inst.gen
           /\ ~preUpdateStatus(inst).paused
           /\ errorStatus(inst) \in Status
           /\ errorStatus(inst).phase = "Deploying"
           /\ errorStatus(inst).obsGen = inst.status.obsGen
           /\ \A ready \in BOOLEAN :
                 /\ updateStatus(inst, ready) \in Status
                 /\ updateStatus(inst, ready).obsGen = inst.gen
                 /\ ~ready => updateStatus(inst, ready).phase = "Deploying"
<1>1. req \in CRs /\ inst \in CR
  BY RequestType DEF InPass
<1>2. inst.status \in Status /\ inst.gen \in Nat
  BY <1>1, ConstantsAssumption DEF CR
<1>3. inst.gen <= inst.gen /\ inst.status.obsGen <= inst.gen
  BY <1>2 DEF StatusInv, PassInv
<1>4. /\ DeployingStatus(inst).phase = "Deploying"
      /\ DeployingStatus(inst).obsGen = inst.gen
      /\ cleanupStatus(inst).phase = "Deleting"
      /\ cleanupStatus(inst).obsGen = inst.gen
      /\ deletedStatus(inst).phase = "Deleted"
      /\ deletedStatus(inst).obsGen = inst.gen
      /\ pausedStatus(inst).paused
      /\ pausedStatus(inst).obsGen = inst.gen
      /\ preUpdateStatus(inst).phase = "Deploying"
      /\ preUpdateStatus(inst).obsGen = inst.gen
      /\ ~preUpdateStatus(inst).paused
  BY <1>2 DEF DeployingStatus, cleanupStatus, deletedStatus, pausedStatus,
              preUpdateStatus, Status
<1>5. /\ errorStatus(inst).phase = "Deploying"
      /\ errorStatus(inst).obsGen = inst.status.obsGen
      /\ \A ready \in BOOLEAN :
            /\ updateStatus(inst, ready).obsGen = inst.gen
            /\ ~ready => updateStatus(inst, ready).phase = "Deploying"
  BY <1>2 DEF errorStatus, updateStatus, Status
<1>6. \A ready \in BOOLEAN : updateStatus(inst, ready) \in Status
  BY <1>1, StatusTypes
<1> QED BY <1>1, <1>2, <1>3, <1>4, <1>5, <1>6, StatusTypes

\* A status call that ends the pass, whatever its answer.
LEMMA StatusReturns ==
    ASSUME TypeOK, StatusInv, CacheInv, InPass, NEW st \in Status,
           NEW a, Write(req, WithStatus(req, st), a), applied' = applied,
           st.obsGen <= inst.gen, st.phase # "Deployed" \/ st.paused,
           Return \/ ReturnError
    PROVE  StatusInv' /\ CacheInv'
BY StatusHonest, ReturnStatus, ReturnCache DEF StatusInv

LEMMA ApiCallStatus ==
    ASSUME TypeOK, StatusInv, CacheInv, ApiCall
    PROVE  StatusInv' /\ CacheInv'
<1> PICK a \in AnswerSet :
        \/ UpdateFinalizer(a) \/ UpdatePhase(a) \/ ReportError(a)
        \/ CleanupStatus(a) \/ RemoveFinalizers(a) \/ DeletedStatus(a)
        \/ PauseStatus(a) \/ PreUpdateStatus(a) \/ UpdateStatus(a)
        \/ \E c \in CRs : SetStatusMultipleCRs(c, a)
  BY DEF ApiCall
<1>1. CASE UpdateFinalizer(a)
  <2>1. InPass /\ pc # "errorStatus" /\ applied' = applied
    BY <1>1 DEF UpdateFinalizer, InPass, ghosts
  <2> QED BY <1>1, <2>1, FinalizersStatus DEF UpdateFinalizer
<1>2. CASE UpdatePhase(a)
  <2> DEFINE st == DeployingStatus(inst)
  <2>1. InPass /\ applied' = applied
    BY <1>2 DEF UpdatePhase, InPass, ghosts
  <2>2. st \in Status /\ st.phase # "Deployed" /\ st.obsGen <= inst.gen
    BY <2>1, StatusKnown
  <2>3. CASE a = "OK"
    BY <1>2, <2>1, <2>2, <2>3, StatusReturns DEF UpdatePhase
  <2>4. CASE a # "OK"
    BY <1>2, <2>1, <2>2, <2>4, StatusHonest, StatusFails
       DEF UpdatePhase, StatusInv
  <2> QED BY <2>3, <2>4
<1>3. CASE ReportError(a)
  <2>1. InPass /\ applied' = applied
    BY <1>3 DEF ReportError, InPass, ghosts
  <2>2. /\ errorStatus(inst) \in Status /\ errorStatus(inst).phase # "Deployed"
        /\ errorStatus(inst).obsGen <= inst.gen
    BY <2>1, StatusKnown
  <2> QED BY <1>3, <2>1, <2>2, StatusReturns DEF ReportError
<1>4. CASE CleanupStatus(a)
  <2> DEFINE st == cleanupStatus(inst)
  <2>1. InPass /\ pc # "errorStatus" /\ applied' = applied
    BY <1>4 DEF CleanupStatus, InPass, ghosts
  <2>2. st \in Status /\ st.phase # "Deployed" /\ st.obsGen <= inst.gen
    BY <2>1, StatusKnown
  <2>3. CASE a = "OK"
    BY <1>4, <2>1, <2>2, <2>3, StatusHonest, StatusProceeds
       DEF CleanupStatus, StatusInv
  <2>4. CASE a # "OK"
    BY <1>4, <2>1, <2>2, <2>4, StatusReturns DEF CleanupStatus
  <2> QED BY <2>3, <2>4
<1>5. CASE RemoveFinalizers(a)
  <2>1. InPass /\ pc # "errorStatus" /\ applied' = applied
    BY <1>5 DEF RemoveFinalizers, InPass, ghosts
  <2> QED BY <1>5, <2>1, FinalizersStatus DEF RemoveFinalizers
<1>6. CASE DeletedStatus(a)
  <2> DEFINE st == deletedStatus(inst)
  <2>1. InPass /\ applied' = applied
    BY <1>6 DEF DeletedStatus, InPass, ghosts
  <2>2. st \in Status /\ st.phase # "Deployed" /\ st.obsGen <= inst.gen
    BY <2>1, StatusKnown
  <2>3. CASE ReturnError
    BY <1>6, <2>1, <2>2, <2>3, StatusReturns DEF DeletedStatus
  <2>4. CASE EndPass(FALSE) /\ clearCache
    <3>1. PassInv' /\ CacheInv'
      BY <2>4, EndPassStatus DEF EndPass, clearCache, CacheInv, InPass
    <3> QED BY <1>6, <2>1, <2>2, <3>1, StatusHonest
            DEF DeletedStatus, StatusInv
  <2> QED BY <1>6, <2>3, <2>4 DEF DeletedStatus
<1>7. CASE PauseStatus(a)
  <2>1. InPass /\ applied' = applied
    BY <1>7 DEF PauseStatus, InPass, ghosts
  <2>2. /\ pausedStatus(inst) \in Status /\ pausedStatus(inst).paused
        /\ pausedStatus(inst).obsGen <= inst.gen
    BY <2>1, StatusKnown
  <2> QED BY <1>7, <2>1, <2>2, StatusReturns DEF PauseStatus
<1>8. CASE PreUpdateStatus(a)
  <2> DEFINE st == preUpdateStatus(inst)
  <2>1. InPass /\ pc # "errorStatus" /\ applied' = applied
    BY <1>8 DEF PreUpdateStatus, InPass, ghosts
  <2>2. /\ st \in Status /\ st.phase # "Deployed" /\ st.obsGen <= inst.gen
        /\ ~st.paused
    BY <2>1, StatusKnown
  <2>3. CASE a = "OK"
    BY <1>8, <2>1, <2>2, <2>3, StatusHonest, StatusProceeds
       DEF PreUpdateStatus, StatusInv
  <2>4. CASE a # "OK"
    BY <1>8, <2>1, <2>2, <2>4, StatusHonest, StatusFails
       DEF PreUpdateStatus, StatusInv
  <2> QED BY <2>3, <2>4
<1>9. CASE UpdateStatus(a)
  <2> DEFINE ready == pc = "ready"
             st    == updateStatus(inst, ready)
  <2>1. InPass /\ pc # "errorStatus" /\ applied' = applied
    BY <1>9 DEF UpdateStatus, InPass, ghosts
  <2>2. /\ st \in Status /\ st.obsGen <= inst.gen
        /\ ~ready => st.phase # "Deployed"
    BY <2>1, StatusKnown
  <2>3. ready /\ req \in current /\ server[req].spec \in Deploys
           => applied[req] = inst.gen
    BY <2>1 DEF StatusInv, PassInv
  <2>4. InformerInv' /\ HonestInv' /\ CopiesInv'
    BY <1>9, <2>1, <2>2, <2>3, StatusHonest DEF UpdateStatus
  <2>5. CASE a = "OK"
    <3>1. EndPass(FALSE) /\ lastSpec' = lastSpec /\ cached' = cached
      BY <1>9, <2>5 DEF UpdateStatus
    <3>2. PassInv' /\ CacheInv'
      BY <3>1, EndPassStatus DEF EndPass, CacheInv, InPass
    <3> QED BY <2>4, <3>2 DEF StatusInv
  <2>6. CASE a # "OK"
    BY <1>9, <2>1, <2>2, <2>4, <2>6, StatusFails DEF UpdateStatus, StatusInv
  <2> QED BY <2>5, <2>6
<1>10. ASSUME NEW c \in CRs, SetStatusMultipleCRs(c, a)
       PROVE  StatusInv' /\ CacheInv'
  <2> DEFINE cr == IF server[c] = Absent THEN informer[c]
                   ELSE [server[c] EXCEPT !.status = multipleStatus(server[c])]
  <2>1. /\ pc = "multiple" /\ Write(c, cr, a) /\ applied' = applied
    BY <1>10 DEF SetStatusMultipleCRs, ghosts
  <2>2. server[c] # Absent =>
           /\ cr.status.obsGen <= cr.gen
           /\ Claims(cr) => applied[c] = cr.gen
    <3>1. ASSUME server[c] # Absent
          PROVE  /\ cr.gen = server[c].gen /\ cr.spec = server[c].spec
                 /\ cr.status.phase = server[c].status.phase
                 /\ cr.status.obsGen = server[c].status.obsGen
                 /\ cr.status.paused = server[c].status.paused
      <4>1. server[c] \in CR
        BY <3>1 DEF TypeOK
      <4> QED BY <3>1, <4>1 DEF CR, Status, multipleStatus
    <3> QED BY <3>1 DEF StatusInv, HonestInv, Claims
  <2>3. InformerInv' /\ HonestInv' /\ CopiesInv'
    BY <2>1, <2>2, WriteHonest
  <2>4. CASE ReturnError \/ Return
    BY <2>3, <2>4, ReturnStatus, ReturnCache DEF StatusInv
  <2>5. CASE UNCHANGED <<pc, kept>>
    BY <2>1, <2>3, <2>5 DEF StatusInv, PassInv, CacheInv, InPass, kept
  <2> QED BY <1>10, <2>4, <2>5 DEF SetStatusMultipleCRs
<1> QED BY <1>1, <1>2, <1>3, <1>4, <1>5, <1>6, <1>7, <1>8, <1>9, <1>10

\* Operands run while the stored status claims nothing, so what they apply or
\* leave half done makes no status a lie.
LEMMA OperandCallStatus ==
    ASSUME TypeOK, StatusInv, CacheInv, OperandCall
    PROVE  StatusInv' /\ CacheInv'
<1>1. /\ pc \in {"operands", "cleanupOperands"} /\ req \in CRs /\ inst \in CR
      /\ InPass
  BY RequestType
     DEF OperandCall, CleanupDone, CleanupPending, CleanupError,
         OperandsReady, OperandsProgressing, OperandsError, OperandsConflict,
         InPass
<1>2. /\ UNCHANGED api
      /\ \/ applied' = [applied EXCEPT ![req] = 0]
         \/ OperandsReady /\ applied' = [applied EXCEPT ![req] = inst.gen]
  BY DEF OperandCall, CleanupDone, CleanupPending, CleanupError,
         OperandsReady, OperandsProgressing, OperandsError, OperandsConflict
<1>3. server[req] = Absent \/ server[req].status.phase # "Deployed"
  BY <1>1 DEF StatusInv, PassInv
<1>4. InformerInv' /\ HonestInv' /\ CopiesInv'
  <2>1. \A d \in CRs \ {req} : applied'[d] = applied[d]
    BY <1>2 DEF TypeOK
  <2>2. HonestInv'
    BY <1>2, <1>3, <2>1 DEF StatusInv, HonestInv, Claims, api
  <2> QED BY <1>2, <2>2 DEF StatusInv, InformerInv, CopiesInv, api
<1>5. PassInv' /\ CacheInv'
  <2>1. CASE CleanupDone
    BY <1>1, <2>1
       DEF CleanupDone, StatusInv, PassInv, CacheInv, InPass, api, kept
  <2>2. CASE CleanupPending
    BY <2>2, EndPassStatus
       DEF CleanupPending, clearCache, EndPass, CacheInv, InPass
  <2>3. CASE CleanupError
    BY <2>3, ReturnStatus, ReturnCache DEF CleanupError
  <2>4. CASE OperandsReady
    <3>1. applied'[req] = inst.gen
      BY <1>1, <2>4 DEF OperandsReady, TypeOK
    <3> QED BY <1>1, <2>4, <3>1
            DEF OperandsReady, OperandsReconciled, StatusInv, PassInv, CacheInv,
                InPass, api
  <2>5. CASE OperandsProgressing
    BY <1>1, <2>5
       DEF OperandsProgressing, OperandsReconciled, StatusInv, PassInv, CacheInv,
           InPass, api
  <2>6. CASE OperandsError
    BY <1>1, <2>6
       DEF OperandsError, OperandsReconciled, StatusInv, PassInv, CacheInv,
           InPass, api
  <2>7. CASE OperandsConflict
    BY <1>1, <2>7, EndPassStatus
       DEF OperandsConflict, EndPass, CacheInv, InPass
  <2> QED BY <2>1, <2>2, <2>3, <2>4, <2>5, <2>6, <2>7 DEF OperandCall
<1> QED BY <1>4, <1>5 DEF StatusInv

LEMMA ListCRsStatus ==
    ASSUME TypeOK, StatusInv, CacheInv, ListCRs
    PROVE  StatusInv' /\ CacheInv'
<1>1. UNCHANGED <<server, informer, lag, applied>> /\ InPass
  BY DEF ListCRs, api, ghosts, InPass
<1>2. InformerInv' /\ HonestInv' /\ CopiesInv'
  BY <1>1 DEF StatusInv, InformerInv, HonestInv, CopiesInv, Claims
<1>3. CASE pc' = "multiple" /\ UNCHANGED kept
  BY <1>2, <1>3 DEF StatusInv, PassInv, CacheInv, InPass, kept
<1>4. CASE Return
  BY <1>2, <1>4, ReturnStatus, ReturnCache DEF StatusInv
<1>5. CASE /\ pc' \in {"pauseStatus", "preStatus"}
           /\ UNCHANGED <<req, inst, current, todo, kept>>
  <2>1. pc # "errorStatus"
    BY DEF ListCRs
  <2> QED BY <1>1, <1>2, <1>5, <2>1 DEF StatusInv, PassInv, CacheInv, InPass, kept
<1> QED BY <1>3, <1>4, <1>5 DEF ListCRs

\* Users do not write the status: an edit outdates what it claims, and a CR
\* that is created anew claims nothing.
LEMMA UserStatus ==
    ASSUME TypeOK, StatusInv, CacheInv, User
    PROVE  StatusInv' /\ CacheInv'
<1>1. PICK c \in CRs, cr \in CR :
         /\ UserWrites(c, cr)
         /\ \/ /\ server[c] = Absent
               /\ cr.status = NewStatus
               /\ applied' = [applied EXCEPT ![c] = 0]
            \/ /\ server[c] \in CR
               /\ cr.status = server[c].status
               /\ \/ cr.gen = server[c].gen /\ cr.spec = server[c].spec
                  \/ cr.gen > server[c].gen
               /\ applied' = applied
  BY UserStep
<1>2. /\ Store(c, cr) /\ current' = current \ {c}
      /\ UNCHANGED <<pc, req, inst, kept>>
  BY <1>1 DEF UserWrites
<1>3. /\ InformerInv' /\ informer' = informer
      /\ server'[c] \in {Absent, cr}
      /\ \A d \in CRs \ {c} : server'[d] = server[d] /\ applied'[d] = applied[d]
  <2>1. InformerInv'
    BY <1>2, StoreInformer DEF StatusInv
  <2> QED BY <1>1, <1>2, <2>1 DEF Store, Stored, TypeOK
<1>4. CopiesInv'
  BY <1>3 DEF StatusInv, CopiesInv
<1>5. /\ cr.status.obsGen <= cr.gen
      /\ Claims(cr) => server[c] # Absent /\ applied[c] = cr.gen
      /\ Claims(cr) => applied'[c] = cr.gen
  <2>1. cr.gen \in Nat
    BY ConstantsAssumption DEF CR
  <2>2. CASE server[c] = Absent /\ cr.status = NewStatus
    <3>1. NewStatus.phase = "" /\ NewStatus.obsGen = 0
      BY DEF NewStatus
    <3>2. cr.status.phase = "" /\ cr.status.obsGen = 0
      BY <2>2, <3>1
    <3>3. ~Claims(cr)
      BY <3>2 DEF Claims
    <3>4. cr.status.obsGen <= cr.gen
      <4>1. cr.status.obsGen = 0
        BY <3>2
      <4>2. \A n \in Nat : 0 <= n
        OBVIOUS
      <4> QED BY <2>1, <4>1, <4>2, Zenon
    <3> QED BY <3>3, <3>4
  <2>3. CASE /\ server[c] \in CR /\ cr.status = server[c].status
             /\ applied' = applied
    <3>1. server[c].gen \in Nat /\ server[c].status.obsGen \in Nat
          /\ server[c] # Absent
      BY <2>3, ConstantsAssumption DEF CR, Status
    <3>2. server[c].status.obsGen <= server[c].gen
      BY <3>1 DEF StatusInv, HonestInv
    <3>3. CASE cr.gen = server[c].gen /\ cr.spec = server[c].spec
      BY <2>3, <3>1, <3>2, <3>3 DEF StatusInv, HonestInv, Claims
    <3>4. CASE cr.gen > server[c].gen
      <4>1. cr.status.obsGen < cr.gen
        BY <2>1, <2>3, <3>1, <3>2, <3>4
      <4> QED BY <2>1, <2>3, <3>1, <4>1 DEF Claims
    <3> QED BY <1>1, <2>3, <3>1, <3>3, <3>4
  <2> QED BY <1>1, <2>2, <2>3
<1>6. HonestInv'
  <2>1. ASSUME NEW d \in CRs, server'[d] # Absent
        PROVE  /\ server'[d].status.obsGen <= server'[d].gen
               /\ Claims(server'[d]) => applied'[d] = server'[d].gen
    BY <1>3, <1>5, <2>1 DEF StatusInv, HonestInv
  <2> QED BY <2>1 DEF HonestInv, Claims
<1>7. PassInv'
  <2> SUFFICES ASSUME InPass' PROVE PassInv'
    BY DEF PassInv
  <2>1. InPass /\ req' = req /\ inst' = inst /\ pc' = pc /\ req \in CRs
    BY <1>2, RequestType DEF InPass
  <2>2. \/ cr.status.phase = "" /\ ~cr.status.paused
        \/ server[c] # Absent /\ server[c].status = cr.status
    <3>1. NewStatus.phase = "" /\ ~NewStatus.paused
      BY DEF NewStatus
    <3> QED BY <1>1, <3>1, ConstantsAssumption
  <2>3. req \in current' => /\ req \in current /\ req # c
                            /\ server'[req] = server[req]
                            /\ applied'[req] = applied[req]
    BY <1>2, <1>3, <2>1
  <2>4. CASE req = c
    BY <1>3, <2>1, <2>2, <2>3, <2>4 DEF StatusInv, PassInv, InPass
  <2>5. CASE req # c
    BY <1>3, <2>1, <2>3, <2>5 DEF StatusInv, PassInv, InPass
  <2> QED BY <2>4, <2>5
<1>8. CacheInv'
  BY <1>2 DEF CacheInv, InPass, kept
<1> QED BY <1>3, <1>4, <1>6, <1>7, <1>8 DEF StatusInv

LEMMA SurroundingsStatus ==
    ASSUME TypeOK, StatusInv, CacheInv, Surroundings
    PROVE  StatusInv' /\ CacheInv'
<1>1. CASE User
  BY <1>1, UserStatus
<1>2. CASE Restart
  <2>1. /\ server' = server /\ applied' = applied /\ informer' = server
        /\ pc' = "idle" /\ cached' = {}
    BY <1>2 DEF Restart, Reboot, ghosts
  <2>2. InformerInv' /\ HonestInv' /\ CopiesInv'
    BY <2>1 DEF StatusInv, InformerInv, HonestInv, CopiesInv, Claims
  <2> QED BY <2>1, <2>2 DEF StatusInv, PassInv, CacheInv, InPass
<1>3. ASSUME NEW c \in CRs, Deliver(c)
      PROVE  StatusInv' /\ CacheInv'
  <2>1. /\ server' = server /\ applied' = applied
        /\ UNCHANGED <<pc, req, inst, current, kept>>
        /\ \A d \in CRs : informer'[d] \in {server[d], informer[d]}
        /\ \A d \in CRs : lag'[d] = "none" =>
              informer'[d] = server[d] \/ (lag[d] = "none" /\ informer'[d] = informer[d])
    BY <1>3 DEF Deliver, worker, ghosts, TypeOK
  <2>2. InformerInv' /\ HonestInv' /\ CopiesInv'
    BY <2>1 DEF StatusInv, InformerInv, HonestInv, CopiesInv, Claims
  <2> QED BY <2>1, <2>2 DEF StatusInv, PassInv, CacheInv, InPass, kept
<1>4. ASSUME NEW c \in CRs,
             BackOffExpires(c) \/ ResourceGone(c) \/ ResourceChanged(c)
      PROVE  StatusInv' /\ CacheInv'
  <2>1. UNCHANGED <<api, worker, kept, ghosts>>
    BY <1>4 DEF BackOffExpires, ResourceGone, ResourceChanged
  <2> QED BY <2>1 DEF StatusInv, InformerInv, HonestInv, CopiesInv, PassInv,
                      CacheInv, Claims, InPass, api, worker, kept, ghosts
<1> QED BY <1>1, <1>2, <1>3, <1>4 DEF Surroundings, Watches

LEMMA InitStatus == Init => StatusInv /\ CacheInv
<1> SUFFICES ASSUME Init PROVE StatusInv /\ CacheInv
  OBVIOUS
<1>1. PICK spec \in Deploys :
         server = [c \in CRs |-> IF c \in Legacy THEN LegacyCR(spec) ELSE Absent]
  BY DEF Init
<1>2. /\ LegacyCR(spec).status.obsGen = 1 /\ LegacyCR(spec).gen = 1
  BY DEF LegacyCR
<1>3. HonestInv /\ CopiesInv
  BY <1>1, <1>2 DEF Init, HonestInv, CopiesInv, Claims
<1> QED BY <1>3 DEF Init, StatusInv, InformerInv, PassInv, CacheInv, InPass

LEMMA NextStatus ==
    TypeOK /\ StatusInv /\ CacheInv /\ [Next]_vars => StatusInv' /\ CacheInv'
<1> SUFFICES ASSUME TypeOK, StatusInv, CacheInv, [Next]_vars
             PROVE  StatusInv' /\ CacheInv'
  OBVIOUS
<1>1. CASE \E c \in CRs : Start(c)
  BY <1>1, StartStatus
<1>2. CASE Worker
  BY <1>2, ListCRsStatus, ApiCallStatus, OperandCallStatus DEF Worker
<1>3. CASE Surroundings
  BY <1>3, SurroundingsStatus
<1>4. CASE UNCHANGED vars
  BY <1>4 DEF StatusInv, InformerInv, HonestInv, CopiesInv, PassInv, CacheInv,
              Claims, InPass, vars, api, worker, kept, ghosts
<1> QED BY <1>1, <1>2, <1>3, <1>4 DEF Next

-----------------------------------------------------------------------------
(* Theorems.                                                               *)

\* Whatever fails, gets lost or crashes: a status that claims the latest spec
\* is deployed is true (preUpdateStatus, updateStatus, setStatusMultipleCRs).
THEOREM DeployedReflectsSpecAlways == Spec => []DeployedReflectsSpec
<1> DEFINE I == TypeOK /\ StatusInv /\ CacheInv
<1>1. Init => I
  BY InitType, InitStatus
<1>2. I /\ [Next]_vars => I'
  BY NextType, NextStatus
<1>3. I => DeployedReflectsSpec
  BY DEF StatusInv, HonestInv, Claims, DeployedReflectsSpec
<1> QED BY <1>1, <1>2, <1>3, PTL DEF Spec

\* Operands never run for a CR whose status says that it is paused.
THEOREM PauseRespectedAlways == Spec => []PauseRespected
<1> DEFINE I == TypeOK /\ StatusInv /\ CacheInv
<1>1. Init => I
  BY InitType, InitStatus
<1>2. I /\ [Next]_vars => I'
  BY NextType, NextStatus
<1>3. I => PauseRespected
  BY DEF StatusInv, PassInv, InPass, PauseRespected
<1> QED BY <1>1, <1>2, <1>3, PTL DEF Spec

\* Operands never run with a version cache filled under another spec.
THEOREM CacheMatchesSpecAlways == Spec => []CacheMatchesSpec
<1> DEFINE I == TypeOK /\ StatusInv /\ CacheInv
<1>1. Init => I
  BY InitType, InitStatus
<1>2. I /\ [Next]_vars => I'
  BY NextType, NextStatus
<1>3. I => CacheMatchesSpec
  BY DEF CacheInv, InPass, CacheMatchesSpec
<1> QED BY <1>1, <1>2, <1>3, PTL DEF Spec

-----------------------------------------------------------------------------
(* Deletion is one way.                                                    *)

Ending(cr) == cr.status.phase \in {"Deleting", "Deleted"}

\* Only a CR that is being deleted and was migrated says so ...
EndingInv ==
    \A c \in CRs : server[c] # Absent /\ Ending(server[c]) =>
                   server[c].deleting /\ "old" \notin server[c].fins

\* ... and only the deletion branch holds a current copy of it.
DeletionInv ==
    /\ EndingInv
    /\ InPass /\ pc \in CleanupPCs => inst.deleting /\ "old" \notin inst.fins
    /\ InPass /\ pc \notin CleanupPCs /\ req \in current => ~Ending(server[req])

\* What a step may do to the phases.
PhasesStep ==
    \A c \in CRs :
        server[c] # Absent /\ server'[c] # Absent /\ Ending(server[c])
            => Ending(server'[c])

\* The stored CRs after a write; cr may be written if it keeps the promise.
LEMMA WritePhases ==
    ASSUME TypeOK, StatusInv, DeletionInv, NEW c \in CRs, NEW cr, NEW a,
           Write(c, cr, a),
           c \in current /\ server[c] # Absent =>
              /\ Ending(server[c]) => Ending(cr)
              /\ Ending(cr) => cr.deleting /\ "old" \notin cr.fins
    PROVE  PhasesStep /\ EndingInv'
<1>1. /\ \A d \in CRs \ {c} : server'[d] = server[d]
      /\ \/ server'[c] = server[c]
         \/ c \in current /\ server[c] # Absent /\ server'[c] \in {Absent, cr}
  BY WriteEffect DEF StatusInv
<1> QED BY <1>1 DEF PhasesStep, DeletionInv, EndingInv, Ending

LEMMA QuietPhases ==
    ASSUME DeletionInv, server' = server
    PROVE  PhasesStep /\ EndingInv'
BY DEF PhasesStep, DeletionInv, EndingInv, Ending

\* A status written outside of the deletion branch, over a copy that is not
\* ending or not current, leaves a CR that is not ending.
LEMMA StatusPhases ==
    ASSUME TypeOK, StatusInv, DeletionInv, InPass, NEW st \in Status,
           NEW a, Write(req, WithStatus(req, st), a),
           pc \notin CleanupPCs,
           st.phase \in {"Deleting", "Deleted"} =>
               inst.status.phase \in {"Deleting", "Deleted"} /\ pc # "errorStatus"
    PROVE  /\ PhasesStep
           /\ EndingInv'
           /\ req \in CurrentAfter(req, WithStatus(req, st), a) =>
                 ~Ending(server'[req])
<1>1. req \in CRs
  BY StatusCopy
<1>2. req \in current => /\ ~Ending(server[req])
                         /\ st.phase \notin {"Deleting", "Deleted"}
                         /\ ~Ending(WithStatus(req, st))
  <2>1. req \in current => ~Ending(server[req])
    BY DEF DeletionInv
  <2>2. req \in current /\ pc # "errorStatus" => server[req] = inst
    BY DEF StatusInv, PassInv
  <2> QED BY <2>1, <2>2, StatusCopy DEF Ending
<1>3. PhasesStep /\ EndingInv'
  BY <1>1, <1>2, WritePhases
<1>4. req \in CurrentAfter(req, WithStatus(req, st), a) =>
         /\ req \in current
         /\ server'[req] \in {server[req], WithStatus(req, st)}
  BY <1>1, WriteEffect DEF StatusInv
<1> QED BY <1>2, <1>3, <1>4 DEF Ending

\* A pass that ends leaves nothing to be known of it.
LEMMA EndPassDeletion ==
    ASSUME pc' = "idle", EndingInv'
    PROVE  DeletionInv'
BY DEF DeletionInv, InPass

\* The ways in which a pass outside of the deletion branch goes on.
GoesOn(sent, a) ==
    \/ pc' = "idle"
    \/ /\ pc' \in PCs \ ({"idle", "multiple"} \cup CleanupPCs)
       /\ req' = req
       /\ current' = CurrentAfter(req, sent, a)

LEMMA CallGoesOn ==
    ASSUME NEW cr, NEW sent, NEW a,
           \/ Return \/ ReturnError \/ EndPass(FALSE) \/ handleError(cr, sent, a)
           \/ \E next \in {"updateStatus", "operands", "ready"} :
                 Proceed(next, cr, sent, a)
    PROVE  GoesOn(sent, a)
BY DEF GoesOn, Return, ReturnError, ReturnRequeue, EndPass, handleError,
       Proceed, PCs, CleanupPCs

LEMMA StatusCallDeletion ==
    ASSUME TypeOK, StatusInv, DeletionInv, InPass, NEW st \in Status,
           NEW a, Write(req, WithStatus(req, st), a),
           pc \notin CleanupPCs,
           st.phase \in {"Deleting", "Deleted"} =>
               inst.status.phase \in {"Deleting", "Deleted"} /\ pc # "errorStatus",
           GoesOn(WithStatus(req, st), a)
    PROVE  DeletionInv' /\ PhasesStep
BY StatusPhases DEF GoesOn, DeletionInv, InPass

LEMMA ApiCallDeletion ==
    ASSUME TypeOK, StatusInv, DeletionInv, ApiCall
    PROVE  DeletionInv' /\ PhasesStep
<1> PICK a \in AnswerSet :
        \/ UpdateFinalizer(a) \/ UpdatePhase(a) \/ ReportError(a)
        \/ CleanupStatus(a) \/ RemoveFinalizers(a) \/ DeletedStatus(a)
        \/ PauseStatus(a) \/ PreUpdateStatus(a) \/ UpdateStatus(a)
        \/ \E c \in CRs : SetStatusMultipleCRs(c, a)
  BY DEF ApiCall
<1>1. CASE UpdateFinalizer(a)
  <2> DEFINE cr == WithFinalizer(inst)
  <2>1. /\ InPass /\ pc = "update" /\ pc \notin CleanupPCs
        /\ req \in CRs /\ inst \in CR
        /\ Write(req, cr, a) /\ GoesOn(cr, a)
    BY <1>1, RequestType, CallGoesOn DEF UpdateFinalizer, InPass, CleanupPCs
  <2>2. cr.status = inst.status
    BY <2>1 DEF WithFinalizer, CR
  <2>3. req \in current => ~Ending(server[req]) /\ ~Ending(cr)
    BY <2>1, <2>2 DEF DeletionInv, StatusInv, PassInv, Ending
  <2>4. PhasesStep /\ EndingInv'
    BY <2>1, <2>3, WritePhases
  <2>5. req \in CurrentAfter(req, cr, a) => ~Ending(server'[req])
    <3>1. req \in CurrentAfter(req, cr, a) =>
             req \in current /\ server'[req] \in {server[req], cr}
      BY <2>1, WriteEffect DEF StatusInv
    <3> QED BY <2>3, <3>1
  <2> QED BY <2>1, <2>4, <2>5 DEF GoesOn, DeletionInv, InPass, Ending
<1>2. CASE UpdatePhase(a)
  <2>1. InPass /\ pc \notin CleanupPCs
    BY <1>2 DEF UpdatePhase, InPass, CleanupPCs
  <2>2. GoesOn(WithStatus(req, DeployingStatus(inst)), a)
    BY <1>2, CallGoesOn DEF UpdatePhase
  <2> QED BY <1>2, <2>1, <2>2, StatusKnown, StatusCallDeletion DEF UpdatePhase
<1>3. CASE ReportError(a)
  <2>1. InPass /\ pc \notin CleanupPCs
    BY <1>3 DEF ReportError, InPass, CleanupPCs
  <2>2. GoesOn(WithStatus(req, errorStatus(inst)), a)
    BY <1>3, CallGoesOn DEF ReportError
  <2> QED BY <1>3, <2>1, <2>2, StatusKnown, StatusCallDeletion DEF ReportError
<1>4. CASE CleanupStatus(a)
  <2> DEFINE st == cleanupStatus(inst)
             cr == WithStatus(req, st)
  <2>1. InPass /\ pc \in CleanupPCs /\ pc # "errorStatus"
    BY <1>4 DEF CleanupStatus, InPass, CleanupPCs
  <2>2. inst.deleting /\ "old" \notin inst.fins /\ inst \in CR /\ req \in CRs
        /\ st \in Status /\ st.phase = "Deleting"
    BY <2>1, StatusKnown DEF DeletionInv
  <2>3. req \in current => cr = [inst EXCEPT !.status = st]
    BY <2>1, <2>2, StatusCopy
  <2>4. req \in current => Ending(cr) /\ cr.deleting /\ "old" \notin cr.fins
    BY <2>2, <2>3 DEF CR, Ending
  <2>5. PhasesStep /\ EndingInv'
    BY <1>4, <2>2, <2>4, WritePhases DEF CleanupStatus
  <2>6. CASE a = "OK"
    <3>1. pc' = "cleanupOperands" /\ inst' = [inst EXCEPT !.status = st]
      BY <1>4, <2>6 DEF CleanupStatus, Proceed
    <3>2. inst'.deleting /\ "old" \notin inst'.fins
      BY <2>2, <3>1 DEF CR
    <3> QED BY <2>5, <3>1, <3>2 DEF DeletionInv, CleanupPCs
  <2>7. CASE a # "OK"
    BY <1>4, <2>5, <2>7, EndPassDeletion DEF CleanupStatus, ReturnError, EndPass
  <2> QED BY <2>6, <2>7
<1>5. CASE RemoveFinalizers(a)
  <2> DEFINE cr == WithoutFinalizers(inst)
  <2>1. InPass /\ pc \in CleanupPCs /\ pc # "errorStatus"
    BY <1>5 DEF RemoveFinalizers, InPass, CleanupPCs
  <2>2. inst.deleting /\ inst \in CR /\ req \in CRs
    BY <2>1, RequestType DEF DeletionInv, InPass
  <2>3. cr.status = inst.status /\ cr.deleting /\ "old" \notin cr.fins
    BY <2>2 DEF WithoutFinalizers, CR, Ours
  <2>4. req \in current => server[req] = inst
    BY <2>1 DEF StatusInv, PassInv
  <2>5. PhasesStep /\ EndingInv'
    BY <1>5, <2>2, <2>3, <2>4, WritePhases DEF RemoveFinalizers, Ending
  <2>6. CASE a = "OK"
    BY <1>5, <2>3, <2>5, <2>6 DEF RemoveFinalizers, Proceed, DeletionInv, CleanupPCs
  <2>7. CASE a # "OK"
    BY <1>5, <2>5, <2>7, EndPassDeletion DEF RemoveFinalizers, ReturnError, EndPass
  <2> QED BY <2>6, <2>7
<1>6. CASE DeletedStatus(a)
  <2> DEFINE st == deletedStatus(inst)
             cr == WithStatus(req, st)
  <2>1. InPass /\ pc \in CleanupPCs /\ pc # "errorStatus"
    BY <1>6 DEF DeletedStatus, InPass, CleanupPCs
  <2>2. inst.deleting /\ "old" \notin inst.fins /\ inst \in CR /\ req \in CRs
        /\ st \in Status /\ st.phase = "Deleted"
    BY <2>1, StatusKnown DEF DeletionInv
  <2>3. req \in current => cr = [inst EXCEPT !.status = st]
    BY <2>1, <2>2, StatusCopy
  <2>4. req \in current => Ending(cr) /\ cr.deleting /\ "old" \notin cr.fins
    BY <2>2, <2>3 DEF CR, Ending
  <2>5. PhasesStep /\ EndingInv'
    BY <1>6, <2>2, <2>4, WritePhases DEF DeletedStatus
  <2> QED BY <1>6, <2>5, EndPassDeletion DEF DeletedStatus, ReturnError, EndPass
<1>7. CASE PauseStatus(a)
  <2>1. InPass /\ pc \notin CleanupPCs /\ pc # "errorStatus"
    BY <1>7 DEF PauseStatus, InPass, CleanupPCs
  <2>2. GoesOn(WithStatus(req, pausedStatus(inst)), a)
    BY <1>7, CallGoesOn DEF PauseStatus
  <2>3. pausedStatus(inst).phase = inst.status.phase
    BY <2>1, StatusKnown DEF pausedStatus, Status
  <2> QED BY <1>7, <2>1, <2>2, <2>3, StatusKnown, StatusCallDeletion
          DEF PauseStatus
<1>8. CASE PreUpdateStatus(a)
  <2>1. InPass /\ pc \notin CleanupPCs
    BY <1>8 DEF PreUpdateStatus, InPass, CleanupPCs
  <2>2. GoesOn(WithStatus(req, preUpdateStatus(inst)), a)
    BY <1>8, CallGoesOn DEF PreUpdateStatus
  <2> QED BY <1>8, <2>1, <2>2, StatusKnown, StatusCallDeletion
          DEF PreUpdateStatus
<1>9. CASE UpdateStatus(a)
  <2> DEFINE st == updateStatus(inst, pc = "ready")
  <2>1. InPass /\ pc \notin CleanupPCs
    BY <1>9 DEF UpdateStatus, InPass, CleanupPCs
  <2>2. GoesOn(WithStatus(req, st), a)
    BY <1>9, CallGoesOn DEF UpdateStatus
  <2>3. st \in Status /\ st.phase \notin {"Deleting", "Deleted"}
    BY <2>1, StatusKnown DEF updateStatus, Status
  <2> QED BY <1>9, <2>1, <2>2, <2>3, StatusCallDeletion DEF UpdateStatus
<1>10. ASSUME NEW c \in CRs, SetStatusMultipleCRs(c, a)
       PROVE  DeletionInv' /\ PhasesStep
  <2> DEFINE cr == IF server[c] = Absent THEN informer[c]
                   ELSE [server[c] EXCEPT !.status = multipleStatus(server[c])]
  <2>1. server[c] # Absent =>
           /\ cr.status.phase = server[c].status.phase
           /\ cr.deleting = server[c].deleting /\ cr.fins = server[c].fins
    BY DEF TypeOK, CR, Status, multipleStatus
  <2>2. PhasesStep /\ EndingInv'
    BY <1>10, <2>1, WritePhases
       DEF SetStatusMultipleCRs, DeletionInv, EndingInv, Ending
  <2>3. pc' \in {"idle", "multiple"}
    BY <1>10 DEF SetStatusMultipleCRs, Return, ReturnError, EndPass
  <2> QED BY <2>2, <2>3 DEF DeletionInv, InPass
<1> QED BY <1>1, <1>2, <1>3, <1>4, <1>5, <1>6, <1>7, <1>8, <1>9, <1>10

\* Steps that write no CR, and where they lead.
LEMMA QuietDeletion ==
    ASSUME TypeOK, DeletionInv, server' = server,
           \/ pc' \in {"idle", "multiple"}
           \/ /\ InPass /\ pc' \in PCs /\ pc' \notin {"idle", "multiple"}
              /\ pc' \in CleanupPCs <=> pc \in CleanupPCs
              /\ UNCHANGED <<req, inst>> /\ current' \subseteq current
    PROVE  DeletionInv' /\ PhasesStep
BY QuietPhases DEF DeletionInv, InPass, Ending

LEMMA OperandCallDeletion ==
    ASSUME TypeOK, DeletionInv, OperandCall
    PROVE  DeletionInv' /\ PhasesStep
<1>1. server' = server
  BY DEF OperandCall, CleanupDone, CleanupPending, CleanupError,
         OperandsReady, OperandsProgressing, OperandsError, OperandsConflict, api
<1>2. \/ pc' = "idle"
      \/ /\ pc = "cleanupOperands" /\ pc' = "removeFinalizer"
         /\ UNCHANGED <<req, inst, current>>
      \/ /\ pc = "operands" /\ pc' \in {"ready", "progressing", "errorStatus"}
         /\ UNCHANGED <<req, inst, current>>
  BY DEF OperandCall, CleanupDone, CleanupPending, CleanupError,
         OperandsReady, OperandsProgressing, OperandsError, OperandsConflict,
         OperandsReconciled, ReturnError, EndPass
<1> QED BY <1>1, <1>2, QuietDeletion DEF InPass, PCs, CleanupPCs

LEMMA StartDeletion ==
    ASSUME TypeOK, StatusInv, DeletionInv, NEW c \in CRs, Start(c)
    PROVE  DeletionInv' /\ PhasesStep
<1>1. server' = server
  BY DEF Start, api
<1>2. CASE informer[c] = Absent
  <2>1. UNCHANGED worker
    BY <1>2 DEF Start
  <2> QED BY <1>1, <2>1, QuietPhases DEF DeletionInv, InPass, Ending, worker
<1>3. CASE informer[c] # Absent
  <2>1. /\ pc' = FirstCall(inst') /\ req' = c /\ inst' = informer[c]
        /\ current' = IF lag[c] = "none" THEN {c} ELSE {}
    BY <1>3 DEF Start
  <2>2. /\ pc' \in {"update", "list", "cleanupStatus", "deletedStatus"}
        /\ pc' \in {"cleanupStatus", "deletedStatus"} <=>
              inst'.deleting /\ "old" \notin inst'.fins
    BY <2>1 DEF FirstCall, isInitialized, isBeingDeleted
  <2>3. c \in current' => server[c] = inst' /\ server[c] # Absent
    BY <1>3, <2>1 DEF StatusInv, InformerInv
  <2> QED BY <1>1, <2>1, <2>2, <2>3, QuietPhases
          DEF DeletionInv, EndingInv, InPass, Ending, CleanupPCs
<1> QED BY <1>2, <1>3

LEMMA ListCRsDeletion ==
    ASSUME TypeOK, DeletionInv, ListCRs
    PROVE  DeletionInv' /\ PhasesStep
<1>1. /\ server' = server /\ pc = "list"
      /\ \/ pc' \in {"idle", "multiple"}
         \/ /\ pc' \in {"pauseStatus", "preStatus"}
            /\ UNCHANGED <<req, inst, current>>
  BY DEF ListCRs, Return, EndPass, api
<1> QED BY <1>1, QuietDeletion DEF InPass, PCs, CleanupPCs

\* Users write no status, and no user ends a deletion.
LEMMA UserDeletion ==
    ASSUME TypeOK, DeletionInv, User
    PROVE  DeletionInv' /\ PhasesStep
<1>1. PICK c \in CRs, cr \in CR :
         /\ UserWrites(c, cr)
         /\ \/ server[c] = Absent /\ cr.status.phase = ""
            \/ /\ server[c] \in CR
               /\ cr.fins \cap Ours = server[c].fins \cap Ours
               /\ cr.status = server[c].status
               /\ server[c].deleting => cr.deleting
  BY UserStep
<1>2. /\ Store(c, cr) /\ current' = current \ {c}
      /\ UNCHANGED <<pc, req, inst>>
  BY <1>1 DEF UserWrites
<1>3. /\ server'[c] \in {Absent, cr}
      /\ \A d \in CRs \ {c} : server'[d] = server[d]
  BY <1>2 DEF Store, Stored, TypeOK
<1>4. Ending(cr) => server[c] # Absent /\ Ending(server[c])
  BY <1>1, ConstantsAssumption DEF Ending
<1>5. server[c] # Absent => cr.status = server[c].status
                           /\ ("old" \in cr.fins <=> "old" \in server[c].fins)
                           /\ (server[c].deleting => cr.deleting)
  BY <1>1 DEF Ours
<1>6. PhasesStep /\ EndingInv'
  BY <1>3, <1>4, <1>5 DEF PhasesStep, DeletionInv, EndingInv, Ending
<1>7. InPass => req \in CRs
  BY RequestType DEF InPass
<1> QED BY <1>2, <1>3, <1>6, <1>7 DEF DeletionInv, InPass

LEMMA NextDeletion ==
    ASSUME TypeOK, StatusInv, DeletionInv, [Next]_vars
    PROVE  DeletionInv' /\ PhasesStep
<1>1. CASE \E c \in CRs : Start(c)
  BY <1>1, StartDeletion
<1>2. CASE Worker
  BY <1>2, ListCRsDeletion, ApiCallDeletion, OperandCallDeletion DEF Worker
<1>3. CASE User
  BY <1>3, UserDeletion
<1>4. CASE Restart
  BY <1>4, QuietDeletion DEF Restart, Reboot
<1>5. CASE Watches \/ UNCHANGED vars
  <2>1. server' = server /\ UNCHANGED <<pc, req, inst, current>>
    BY <1>5 DEF Watches, Deliver, BackOffExpires, ResourceGone, ResourceChanged,
                vars, api, worker
  <2> QED BY <2>1, QuietPhases DEF DeletionInv, InPass, Ending
<1> QED BY <1>1, <1>2, <1>3, <1>4, <1>5 DEF Next, Surroundings

LEMMA InitDeletion == Init => DeletionInv
<1> SUFFICES ASSUME Init PROVE DeletionInv
  OBVIOUS
<1>1. PICK spec \in Deploys :
         server = [c \in CRs |-> IF c \in Legacy THEN LegacyCR(spec) ELSE Absent]
  BY DEF Init
<1>2. LegacyCR(spec).status.phase = "Deployed"
  BY DEF LegacyCR
<1> QED BY <1>1, <1>2 DEF Init, DeletionInv, EndingInv, Ending, InPass

\* However stale the copies that are reconciled, whatever fails or crashes: a
\* CR whose resources are being deleted is never said to be deployed or
\* deploying again (cleanup, handleError).
THEOREM DeletionOneWayAlways == Spec => DeletionOneWay
<1> DEFINE I == TypeOK /\ StatusInv /\ CacheInv /\ DeletionInv
<1>1. Init => I
  BY InitType, InitStatus, InitDeletion
<1>2. I /\ [Next]_vars => I'
  BY NextType, NextStatus, NextDeletion
<1>3. I /\ [Next]_vars =>
        [\A c \in CRs :
           /\ server[c] # Absent /\ server'[c] # Absent
           /\ server[c].status.phase \in {"Deleting", "Deleted"}
           => server'[c].status.phase \in {"Deleting", "Deleted"}]_vars
  BY NextDeletion DEF PhasesStep, Ending
<1> QED BY <1>1, <1>2, <1>3, PTL DEF Spec, DeletionOneWay
=============================================================================
