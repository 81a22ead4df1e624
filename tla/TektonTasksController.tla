------------------------ MODULE TektonTasksController ------------------------
(***************************************************************************)
(* The reconciler of the TektonTasks custom resource (CR):                 *)
(* controllers/tektontasks_controller.go.                                  *)
(*                                                                         *)
(* One worker takes names of CRs off a work queue and makes a PASS         *)
(* (Reconcile) for each.  A pass reads the CR from the informer cache,     *)
(* which lags the API server, and writes it to the API server under        *)
(* optimistic concurrency.  Every API call of a pass is a step of its own, *)
(* so users, the informer, other CRs and a crash of the operator come      *)
(* between any two of them.  What the operands do to their resources is    *)
(* abstracted to the outcome of a whole operand loop.                      *)
(***************************************************************************)
EXTENDS Naturals, FiniteSets

CONSTANTS
    CRs,            \* names a TektonTasks CR may have
    Specs,          \* the values of its spec that users write
    Deploys,        \* those with featureGates.deployTektonTaskResources set
    Pausing,        \* whether users set the pause annotation
    Foreign,        \* whether some CRs are created with a foreign finalizer
    Legacy,         \* CRs that an operator with the old finalizer left behind
    Absent,         \* "there is no such CR"
    NoSpec,         \* the zero TektonTasksSpec of an empty cache
    MaxGen,         \* bound: generations users give one CR
    MaxWrites,      \* bound: writes of users, over all CRs
    MaxRestarts,    \* bound: crashes and restarts of the operator
    MaxApiErrors    \* bound: API calls that fail for no reason of the CR's

Phases     == {"", "Deploying", "Deployed", "Deleting", "Deleted"}

\* The three conditions are always written together; a value names the triple
\* (Available, Progressing, Degraded): unset, FTT, TFF or FFT.
Conditions == {"unset", "reconciling", "available", "multiple"}

Finalizers == {"new", "old", "foreign"}
Ours       == {"new", "old"}         \* finalizerName and oldFinalizerName

Status == [phase  : Phases,
           obsGen : 0..MaxGen + 1,
           paused : BOOLEAN,
           cond   : Conditions]

CR == {cr \in [spec     : Specs,
              gen      : 1..MaxGen + 1,
              pause    : BOOLEAN,    \* annotation kubevirt.io/operator.paused
              fins     : SUBSET Finalizers,
              deleting : BOOLEAN,    \* deletionTimestamp is set
              status   : Status] :
          cr.gen <= MaxGen \/ cr.deleting}

ASSUME ConstantsAssumption ==
    /\ IsFiniteSet(CRs)
    /\ Deploys \subseteq Specs
    /\ NoSpec \notin Specs
    /\ Pausing \in BOOLEAN
    /\ Foreign \in BOOLEAN
    /\ Legacy \subseteq CRs
    /\ Absent \notin CR
    /\ Absent \notin CRs
    /\ MaxGen \in Nat \ {0}
    /\ MaxWrites \in Nat
    /\ MaxRestarts \in Nat
    /\ MaxApiErrors \in Nat

VARIABLES
    \* --- API server, informer and work queue ---
    server,     \* the CRs the API server stores
    informer,   \* the copies the operator's cache holds
    lag,        \* how far each copy is behind, see Lags
    queue,      \* names ready to be reconciled
    delayed,    \* names waiting out the rate limiter's back-off
    awaiting,   \* names for which the removal of a resource will be reported
    \* --- the worker's current pass ---
    pc,         \* the API call it makes next
    req,        \* the name it reconciles, Absent between passes
    inst,       \* its local copy of the CR
    current,    \* CRs of whose stored version it holds a copy
    todo,       \* CRs of a multiple-CR status loop not yet written
    \* --- state kept from pass to pass ---
    lastSpec,   \* lastTektonTasksSpec
    cached,     \* the specs under which subresourceCache was filled
    gauge,      \* tekton_operator_reconciling_properly
    \* --- history, read by no step of the operator ---
    touched,    \* CRs whose resources may exist in the cluster
    applied,    \* generation whose resources were all applied, 0 if in doubt
    unreported, \* names whose last pass awaits a removal no watch will report
    writes, restarts, apiErrors    \* what the bounds count

api    == <<server, informer, lag>>
events == <<queue, delayed, awaiting>>
worker == <<pc, req, inst, current, todo>>
kept   == <<lastSpec, cached, gauge>>
ghosts == <<touched, applied, unreported>>
counts == <<writes, restarts, apiErrors>>
vars   == <<api, events, worker, kept, ghosts, counts>>

\* "none": the copy is the stored version; "status": it is older, but no event
\* the controller reacts to is on its way; "event": such an event is.
Lags == {"none", "status", "event"}

PCs == {"idle", "update", "updateStatus", "cleanupStatus", "cleanupOperands",
        "removeFinalizer", "deletedStatus", "list", "multiple", "pauseStatus",
        "preStatus", "operands", "ready", "progressing", "errorStatus"}

TypeOK ==
    /\ server    \in [CRs -> CR \cup {Absent}]
    /\ informer  \in [CRs -> CR \cup {Absent}]
    /\ lag       \in [CRs -> Lags]
    /\ queue     \subseteq CRs
    /\ delayed   \subseteq CRs
    /\ awaiting  \subseteq CRs
    /\ pc        \in PCs
    /\ req       \in CRs \cup {Absent}
    /\ inst      \in CR \cup {Absent}
    /\ current   \subseteq CRs
    /\ todo      \subseteq CRs
    /\ lastSpec  \in Specs \cup {NoSpec}
    /\ cached    \subseteq Specs
    /\ gauge     \in BOOLEAN
    /\ touched   \subseteq CRs
    /\ applied   \in [CRs -> 0..MaxGen + 1]
    /\ unreported \subseteq CRs
    /\ writes    \in 0..MaxWrites
    /\ restarts  \in 0..MaxRestarts
    /\ apiErrors \in 0..MaxApiErrors
    /\ (pc = "idle") <=> (req = Absent)
    /\ (pc \notin {"idle", "multiple"}) => inst # Absent

-----------------------------------------------------------------------------
(* What the code reads off a CR and writes into it.                        *)

NewStatus == [phase |-> "", obsGen |-> 0, paused |-> FALSE, cond |-> "unset"]

isBeingDeleted(cr) == cr.deleting

isInitialized(cr) == isBeingDeleted(cr) \/ cr.status.phase # ""

HasOurFinalizer(cr) == cr.fins \cap Ours # {}

\* initialize adds the finalizer; updateTektonTasks swaps the old one for it.
WithFinalizer(cr) ==
    [cr EXCEPT !.fins = IF isInitialized(cr) THEN (@ \ {"old"}) \cup {"new"}
                                             ELSE @ \cup {"new"}]

WithoutFinalizers(cr) == [cr EXCEPT !.fins = @ \ Ours]

\* updateTektonTasksResource, after its Update.
DeployingStatus(cr) ==
    [cr.status EXCEPT !.phase = "Deploying", !.obsGen = cr.gen]

\* Mutant: the generation is counted once too often.
MutantCleanupCountsTwice(cr) ==
    [cr.status EXCEPT !.phase = "Deleting", !.obsGen = cr.gen + 1,
                      !.cond = "reconciling"]

cleanupStatus(cr) ==
    [cr.status EXCEPT !.phase = "Deleting", !.obsGen = cr.gen,
                      !.cond = "reconciling"]

deletedStatus(cr) == [cr.status EXCEPT !.phase = "Deleted", !.obsGen = cr.gen]

multipleStatus(cr) == [cr.status EXCEPT !.cond = "multiple"]

pausedStatus(cr) == [cr.status EXCEPT !.paused = TRUE, !.obsGen = cr.gen]

\* Mutants: the Paused field, or the phase, is left as it was.
MutantPreKeepsPaused(cr) ==
    [cr.status EXCEPT !.phase = "Deploying", !.obsGen = cr.gen,
                      !.cond = "reconciling"]

MutantPreKeepsPhase(cr) ==
    [cr.status EXCEPT !.obsGen = cr.gen, !.paused = FALSE,
                      !.cond = "reconciling"]

preUpdateStatus(cr) ==
    [phase |-> "Deploying", obsGen |-> cr.gen, paused |-> FALSE,
     cond |-> "reconciling"]

\* Every resource reports either nothing or all three of NotAvailable,
\* Progressing and Degraded (ResourceDeletedResult), so the switches of
\* updateStatus agree.
updateStatus(cr, ready) ==
    [cr.status EXCEPT !.phase  = IF ready THEN "Deployed" ELSE "Deploying",
                      !.cond   = IF ready THEN "available" ELSE "reconciling",
                      !.obsGen = cr.gen]

errorStatus(cr) ==
    [cr.status EXCEPT !.phase = "Deploying", !.cond = "reconciling"]

\* Mutants: the predicate forgets the generation, or the annotations.
MutantPredicateNoGeneration(old, new) ==
    \/ old = Absent
    \/ new = Absent
    \/ old.deleting # new.deleting
    \/ old.pause # new.pause
    \/ old.fins # new.fins

MutantPredicateNoAnnotations(old, new) ==
    \/ old = Absent
    \/ new = Absent
    \/ old.gen # new.gen
    \/ old.deleting # new.deleting
    \/ old.fins # new.fins

\* The predicate of watchTektonResource; creation and removal always pass.
PassesPredicate(old, new) ==
    \/ old = Absent
    \/ new = Absent
    \/ old.gen # new.gen
    \/ old.deleting # new.deleting
    \/ old.pause # new.pause
    \/ old.fins # new.fins

-----------------------------------------------------------------------------
(* The API server.                                                         *)

\* An object being deleted goes with its last finalizer.
Stored(cr) == IF cr.deleting /\ cr.fins = {} THEN Absent ELSE cr

\* A write that changes nothing makes no new version and no event.
Store(c, cr) ==
    /\ server' = [server EXCEPT ![c] = Stored(cr)]
    /\ lag' = [lag EXCEPT ![c] =
                  IF Stored(cr) = server[c] THEN @
                  ELSE IF PassesPredicate(server[c], Stored(cr)) THEN "event"
                  ELSE IF @ = "none" THEN "status" ELSE @]
    /\ informer' = informer

\* How the API server answers a write of cr over the copy the worker holds.
\* No finalizer may be added to an object being deleted.
Verdict(c, cr) ==
    CASE server[c] = Absent                              -> "NotFound"
      [] server[c] # Absent /\ c \notin current          -> "Conflict"
      [] OTHER -> IF cr.deleting /\ ~(cr.fins \subseteq server[c].fins)
                  THEN "Invalid" ELSE "OK"

\* "Error": the call failed on the way there; "Lost": it took effect, but its
\* answer did not arrive.
Answers(c, cr) ==
    {Verdict(c, cr)} \cup
    (IF apiErrors = MaxApiErrors THEN {}
     ELSE {"Error"} \cup (IF Verdict(c, cr) = "OK" THEN {"Lost"} ELSE {}))

\* Send cr for c and take answer a.
Write(c, cr, a) ==
    /\ a \in Answers(c, cr)
    /\ IF a \in {"OK", "Lost"} THEN Store(c, cr) ELSE UNCHANGED api
    /\ apiErrors' = apiErrors + (IF a \in {"Error", "Lost"} THEN 1 ELSE 0)
    /\ UNCHANGED <<writes, restarts>>

\* The copies that are still the stored version afterwards: not that of an
\* object that left, nor one whose change the worker never heard of.
CurrentAfter(c, cr, a) ==
    IF Stored(cr) = Absent \/ (a = "Lost" /\ cr # server[c])
    THEN current \ {c} ELSE current

\* Status().Update takes nothing but the status from the local copy.
WithStatus(c, st) ==
    [(IF server[c] = Absent THEN inst ELSE server[c]) EXCEPT !.status = st]

-----------------------------------------------------------------------------
(* How a pass goes on and how it ends.                                     *)

\* The next API call is next; cr is the local copy after the call that
\* answered a to the write of sent.
Proceed(next, cr, sent, a) ==
    /\ pc' = next
    /\ inst' = cr
    /\ current' = CurrentAfter(req, sent, a)
    /\ UNCHANGED <<req, todo, kept, queue, delayed>>

\* Reconcile returns.  A Requeue or an error puts the name back after a
\* back-off; an error also resets the gauge (the deferred function).
EndPass(requeue) ==
    /\ pc' = "idle"
    /\ req' = Absent
    /\ inst' = Absent
    /\ current' = {}
    /\ todo' = {}
    /\ delayed' = IF requeue THEN delayed \cup {req} ELSE delayed
    /\ queue' = queue

Return      == EndPass(FALSE) /\ UNCHANGED kept
ReturnError == EndPass(TRUE) /\ gauge' = FALSE /\ UNCHANGED <<lastSpec, cached>>
ReturnRequeue == EndPass(TRUE) /\ UNCHANGED kept

clearCache == lastSpec' = NoSpec /\ cached' = {} /\ gauge' = gauge

\* Mutant: a conflict is left to the event that is thought to follow it.
MutantConflictDropped(cr, sent, a) ==
    IF a = "Conflict" THEN Return ELSE Proceed("errorStatus", cr, sent, a)

\* handleError: a conflict restarts the reconciliation, any other error is
\* first reported in the status.
handleError(cr, sent, a) ==
    IF a = "Conflict" THEN ReturnRequeue
                      ELSE Proceed("errorStatus", cr, sent, a)

-----------------------------------------------------------------------------
(* The pass, call by call.                                                 *)

\* Mutant: the spec is remembered, the cache is kept.
MutantCacheNotCleared(cr) ==
    /\ lastSpec' = cr.spec
    /\ UNCHANGED <<cached, gauge>>

clearCacheIfNeeded(cr) ==
    /\ cached' = IF lastSpec = cr.spec THEN cached ELSE {}
    /\ lastSpec' = cr.spec
    /\ UNCHANGED gauge

\* Mutant: a deletion starts with the finalizers.
MutantReleasesFirst(cr) ==
    CASE ~isInitialized(cr)                        -> "update"
      [] isInitialized(cr) /\ "old" \in cr.fins    -> "update"
      [] isBeingDeleted(cr) /\ "old" \notin cr.fins ->
            IF HasOurFinalizer(cr) THEN "removeFinalizer" ELSE "deletedStatus"
      [] OTHER                                     -> "list"

\* What Reconcile does with the CR it has read.
FirstCall(cr) ==
    CASE ~isInitialized(cr)                        -> "update"
      [] isInitialized(cr) /\ "old" \in cr.fins    -> "update"
      [] isBeingDeleted(cr) /\ "old" \notin cr.fins ->
            IF HasOurFinalizer(cr) THEN "cleanupStatus" ELSE "deletedStatus"
      [] OTHER                                     -> "list"

\* Take a name off the queue and Get the CR; one that is gone needs nothing.
Start(c) ==
    /\ pc = "idle"
    /\ c \in queue
    /\ queue' = queue \ {c}
    /\ IF informer[c] = Absent
       THEN UNCHANGED <<worker, kept>>
       ELSE /\ pc' = FirstCall(informer[c])
            /\ req' = c
            /\ inst' = informer[c]
            /\ current' = IF lag[c] = "none" THEN {c} ELSE {}
            /\ clearCacheIfNeeded(informer[c])
            /\ UNCHANGED todo
    /\ unreported' = unreported \ {c}
    /\ UNCHANGED <<api, delayed, awaiting, touched, applied, counts>>

\* initialize or updateTektonTasks: the finalizer first ...
UpdateFinalizer(a) ==
    LET cr == WithFinalizer(inst) IN
    /\ pc = "update"
    /\ Write(req, cr, a)
    /\ IF a = "OK" THEN Proceed("updateStatus", cr, cr, a)
                   ELSE handleError(cr, cr, a)
    /\ UNCHANGED <<awaiting, ghosts>>

\* ... then the phase, which marks the CR as initialized.
UpdatePhase(a) ==
    LET st == DeployingStatus(inst)
        cr == WithStatus(req, st)
    IN  /\ pc = "updateStatus"
        /\ Write(req, cr, a)
        /\ IF a = "OK" THEN Return
                       ELSE handleError([inst EXCEPT !.status = st], cr, a)
        /\ UNCHANGED <<awaiting, ghosts>>

ReportError(a) ==
    LET cr == WithStatus(req, errorStatus(inst)) IN
    /\ pc = "errorStatus"
    /\ Write(req, cr, a)
    /\ ReturnError
    /\ UNCHANGED <<awaiting, ghosts>>

CleanupStatus(a) ==
    LET st == cleanupStatus(inst)
        cr == WithStatus(req, st)
    IN  /\ pc = "cleanupStatus"
        /\ Write(req, cr, a)
        /\ IF a = "OK"
           THEN Proceed("cleanupOperands", [inst EXCEPT !.status = st], cr, a)
           ELSE ReturnError
        /\ UNCHANGED <<awaiting, ghosts>>

\* A pass found resources that are still being deleted.  Their watches report
\* when they are gone, but Tasks are not watched: nothing may be reported.
AwaitRemoval ==
    \/ awaiting' = awaiting \cup {req} /\ unreported' = unreported
    \/ unreported' = unreported \cup {req} /\ awaiting' = awaiting

\* Cleanup of every operand.  Resources still terminating end the pass.
CleanupDone ==
    /\ pc = "cleanupOperands"
    /\ pc' = "removeFinalizer"
    /\ touched' = touched \ {req}
    /\ applied' = [applied EXCEPT ![req] = 0]
    /\ UNCHANGED <<api, events, req, inst, current, todo, kept, unreported, counts>>

\* Mutant: resources that are still terminating count as deleted.
MutantPendingIsDone ==
    /\ pc = "cleanupOperands"
    /\ pc' = "removeFinalizer"
    /\ applied' = [applied EXCEPT ![req] = 0]
    /\ UNCHANGED <<api, events, req, inst, current, todo, kept, touched, unreported, counts>>

CleanupPending ==
    /\ pc = "cleanupOperands"
    /\ EndPass(FALSE)
    /\ clearCache
    /\ AwaitRemoval
    /\ applied' = [applied EXCEPT ![req] = 0]
    /\ UNCHANGED <<api, touched, counts>>

\* Mutant: the deletion branch hands its error to handleError, like the others.
MutantErrorReported ==
    /\ pc = "cleanupOperands"
    /\ pc' = "errorStatus"
    /\ applied' = [applied EXCEPT ![req] = 0]
    /\ UNCHANGED <<api, events, req, inst, current, todo, kept, touched, unreported, counts>>

\* Mutant: the error of an operand's Cleanup is swallowed.
MutantErrorSwallowed ==
    /\ pc = "cleanupOperands"
    /\ Return
    /\ applied' = [applied EXCEPT ![req] = 0]
    /\ UNCHANGED <<api, awaiting, touched, unreported, counts>>

CleanupError ==
    /\ pc = "cleanupOperands"
    /\ ReturnError
    /\ applied' = [applied EXCEPT ![req] = 0]
    /\ UNCHANGED <<api, awaiting, touched, unreported, counts>>

RemoveFinalizers(a) ==
    LET cr == WithoutFinalizers(inst) IN
    /\ pc = "removeFinalizer"
    /\ Write(req, cr, a)
    /\ IF a = "OK" THEN Proceed("deletedStatus", cr, cr, a) ELSE ReturnError
    /\ UNCHANGED <<awaiting, ghosts>>

\* Errors that mean "the CR is gone" are ignored.
DeletedStatus(a) ==
    LET cr == WithStatus(req, deletedStatus(inst)) IN
    /\ pc = "deletedStatus"
    /\ Write(req, cr, a)
    /\ IF a \in {"OK", "Conflict", "NotFound"}
       THEN EndPass(FALSE) /\ clearCache
       ELSE ReturnError
    /\ UNCHANGED <<awaiting, ghosts>>

\* getCRList reads the cache; what it shows decides how the pass goes on.
Listed == {c \in CRs : informer[c] # Absent}

\* Mutant: off by one.
MutantThreeAreMultiple(listed) == Cardinality(listed) > 2

MultipleCRs(listed) == Cardinality(listed) > 1

ListCRs ==
    /\ pc = "list"
    /\ IF MultipleCRs(Listed)
       THEN /\ pc' = "multiple"
            /\ todo' = Listed
            /\ current' = {c \in Listed : lag[c] = "none"}
            /\ inst' = Absent
            /\ UNCHANGED <<req, kept, queue, delayed>>
       ELSE IF inst.pause /\ inst.status.paused
       THEN Return
       ELSE /\ pc' = IF inst.pause THEN "pauseStatus" ELSE "preStatus"
            /\ UNCHANGED <<req, inst, current, todo, kept, queue, delayed>>
    /\ UNCHANGED <<api, awaiting, ghosts, counts>>

\* setStatusMultipleCRs: one write per listed CR, in the cache's order; the
\* first that fails ends the pass.
SetStatusMultipleCRs(c, a) ==
    LET cr == IF server[c] = Absent THEN informer[c]
              ELSE [server[c] EXCEPT !.status = multipleStatus(server[c])]
    IN  /\ pc = "multiple"
        /\ c \in todo
        /\ Write(c, cr, a)
        /\ IF a # "OK" THEN ReturnError
           ELSE IF todo = {c} THEN Return
           ELSE /\ todo' = todo \ {c}
                /\ current' = current \ {c}
                /\ UNCHANGED <<pc, req, inst, kept, queue, delayed>>
        /\ UNCHANGED <<awaiting, ghosts>>

PauseStatus(a) ==
    LET cr == WithStatus(req, pausedStatus(inst)) IN
    /\ pc = "pauseStatus"
    /\ Write(req, cr, a)
    /\ IF a = "OK" THEN Return ELSE ReturnError
    /\ UNCHANGED <<awaiting, ghosts>>

PreUpdateStatus(a) ==
    LET st   == preUpdateStatus(inst)
        cr   == WithStatus(req, st)
        copy == [inst EXCEPT !.status = st]
    IN  /\ pc = "preStatus"
        /\ Write(req, cr, a)
        /\ IF a = "OK"
           THEN Proceed(IF inst.spec \in Deploys THEN "operands" ELSE "ready",
                        copy, cr, a)
           ELSE handleError(copy, cr, a)
        /\ UNCHANGED <<awaiting, ghosts>>

\* reconcileOperands.  Whatever its outcome, resources may exist from now on.
OperandsReconciled ==
    /\ touched' = touched \cup {req}
    /\ cached' = cached \cup {inst.spec}
    /\ UNCHANGED <<lastSpec, gauge, req, inst, todo, queue, delayed>>

OperandsReady ==
    /\ pc = "operands"
    /\ pc' = "ready"
    /\ applied' = [applied EXCEPT ![req] = inst.gen]
    /\ OperandsReconciled
    /\ UNCHANGED <<api, current, awaiting, unreported, counts>>

\* A resource that is being deleted counts as progressing.
OperandsProgressing ==
    /\ pc = "operands"
    /\ pc' = "progressing"
    /\ applied' = [applied EXCEPT ![req] = 0]
    /\ AwaitRemoval
    /\ OperandsReconciled
    /\ UNCHANGED <<api, current, counts>>

OperandsError ==
    /\ pc = "operands"
    /\ pc' = "errorStatus"
    /\ applied' = [applied EXCEPT ![req] = 0]
    /\ OperandsReconciled
    /\ UNCHANGED <<api, current, awaiting, unreported, counts>>

OperandsConflict ==
    /\ pc = "operands"
    /\ EndPass(TRUE)
    /\ touched' = touched \cup {req}
    /\ applied' = [applied EXCEPT ![req] = 0]
    /\ cached' = cached \cup {inst.spec}
    /\ UNCHANGED <<api, awaiting, unreported, lastSpec, gauge, counts>>

\* updateStatus and the gauge.
UpdateStatus(a) ==
    LET ready == pc = "ready"
        st    == updateStatus(inst, ready)
        cr    == WithStatus(req, st)
    IN  /\ pc \in {"ready", "progressing"}
        /\ Write(req, cr, a)
        /\ IF a = "OK"
           THEN EndPass(FALSE) /\ gauge' = ready /\ UNCHANGED <<lastSpec, cached>>
           ELSE handleError([inst EXCEPT !.status = st], cr, a)
        /\ UNCHANGED <<awaiting, ghosts>>

AnswerSet == {"OK", "NotFound", "Conflict", "Invalid", "Error", "Lost"}

ApiCall ==
    \E a \in AnswerSet :
        \/ UpdateFinalizer(a)
        \/ UpdatePhase(a)
        \/ ReportError(a)
        \/ CleanupStatus(a)
        \/ RemoveFinalizers(a)
        \/ DeletedStatus(a)
        \/ PauseStatus(a)
        \/ PreUpdateStatus(a)
        \/ UpdateStatus(a)
        \/ \E c \in CRs : SetStatusMultipleCRs(c, a)

OperandCall ==
    \/ CleanupDone \/ CleanupPending \/ CleanupError
    \/ OperandsReady \/ OperandsProgressing \/ OperandsError \/ OperandsConflict

Worker == ListCRs \/ ApiCall \/ OperandCall

-----------------------------------------------------------------------------
(* The operator's surroundings.                                            *)

\* The informer catches up with the API server; events on the way enqueue.
Deliver(c) ==
    /\ lag[c] # "none"
    /\ informer' = [informer EXCEPT ![c] = server[c]]
    /\ lag' = [lag EXCEPT ![c] = "none"]
    /\ queue' = IF lag[c] = "event" THEN queue \cup {c} ELSE queue
    /\ UNCHANGED <<server, delayed, awaiting, worker, kept, ghosts, counts>>

BackOffExpires(c) ==
    /\ c \in delayed
    /\ delayed' = delayed \ {c}
    /\ queue' = queue \cup {c}
    /\ UNCHANGED <<api, awaiting, worker, kept, ghosts, counts>>

\* The watch on an operand's resources reports the removal a pass waits for.
ResourceGone(c) ==
    /\ c \in awaiting
    /\ awaiting' = awaiting \ {c}
    /\ queue' = queue \cup {c}
    /\ UNCHANGED <<api, delayed, worker, kept, ghosts, counts>>

\* Someone changes a resource that belongs to c.
ResourceChanged(c) ==
    /\ c \in touched
    /\ queue' = queue \cup {c}
    /\ UNCHANGED <<api, delayed, awaiting, worker, kept, ghosts, counts>>

\* The process stops between two steps and comes up with an empty memory; its
\* informers are in sync before a worker starts.  What is still being deleted is
\* met again by the pass that the first list brings.
Reboot ==
    /\ restarts < MaxRestarts
    /\ restarts' = restarts + 1
    /\ informer' = server
    /\ lag' = [c \in CRs |-> "none"]
    /\ delayed' = {}
    /\ awaiting' = {}
    /\ pc' = "idle"
    /\ req' = Absent
    /\ inst' = Absent
    /\ current' = {}
    /\ todo' = {}
    /\ lastSpec' = NoSpec
    /\ cached' = {}
    /\ gauge' = FALSE
    /\ unreported' = {}
    /\ UNCHANGED <<server, touched, applied, writes, apiErrors>>

\* The first list of a watch enqueues every CR.
Restart == Reboot /\ queue' = {c \in CRs : server[c] # Absent}

\* A user's write of c, seen by the operator only through its events.
UserWrites(c, cr) ==
    /\ writes < MaxWrites
    /\ writes' = writes + 1
    /\ Store(c, cr)
    /\ current' = current \ {c}
    /\ UNCHANGED <<events, pc, req, inst, todo, kept, touched, unreported,
                   restarts, apiErrors>>

CreateCR(c, spec, pause, fins) ==
    /\ server[c] = Absent
    /\ UserWrites(c, [spec |-> spec, gen |-> 1, pause |-> pause, fins |-> fins,
                      deleting |-> FALSE, status |-> NewStatus])
    /\ applied' = [applied EXCEPT ![c] = 0]

EditSpec(c, spec) ==
    /\ server[c] # Absent
    /\ server[c].spec # spec
    /\ server[c].gen < MaxGen
    /\ UserWrites(c, [server[c] EXCEPT !.spec = spec, !.gen = @ + 1])
    /\ UNCHANGED applied

TogglePause(c) ==
    /\ Pausing
    /\ server[c] # Absent
    /\ UserWrites(c, [server[c] EXCEPT !.pause = ~@])
    /\ UNCHANGED applied

\* The API server counts the start of a deletion as a generation.
DeleteCR(c) ==
    /\ server[c] # Absent
    /\ ~server[c].deleting
    /\ UserWrites(c, [server[c] EXCEPT !.deleting = TRUE, !.gen = @ + 1])
    /\ UNCHANGED applied

RemoveForeign(c) ==
    /\ server[c] # Absent
    /\ "foreign" \in server[c].fins
    /\ UserWrites(c, [server[c] EXCEPT !.fins = @ \ {"foreign"}])
    /\ UNCHANGED applied

User ==
    \E c \in CRs :
        \/ \E spec \in Specs, pause \in {FALSE, Pausing},
              fins \in {{}} \cup (IF Foreign THEN {{"foreign"}} ELSE {}) :
                CreateCR(c, spec, pause, fins)
        \/ \E spec \in Specs : EditSpec(c, spec)
        \/ TogglePause(c)
        \/ DeleteCR(c)
        \/ RemoveForeign(c)

Watches ==
    \E c \in CRs : \/ Deliver(c)
                  \/ BackOffExpires(c)
                  \/ ResourceGone(c)
                  \/ ResourceChanged(c)

Surroundings == User \/ Restart \/ Watches

-----------------------------------------------------------------------------
\* A CR that the previous operator deployed and that carries its finalizer.
LegacyCR(spec) ==
    [spec |-> spec, gen |-> 1, pause |-> FALSE, fins |-> {"old"},
     deleting |-> FALSE,
     status |-> [phase |-> "Deployed", obsGen |-> 1, paused |-> FALSE,
                 cond |-> "available"]]

Init ==
    /\ \E spec \in Deploys :
          server = [c \in CRs |-> IF c \in Legacy THEN LegacyCR(spec) ELSE Absent]
    /\ informer = server
    /\ lag = [c \in CRs |-> "none"]
    /\ queue = Legacy
    /\ delayed = {}
    /\ awaiting = {}
    /\ pc = "idle"
    /\ req = Absent
    /\ inst = Absent
    /\ current = {}
    /\ todo = {}
    /\ lastSpec = NoSpec
    /\ cached = {}
    /\ gauge = FALSE
    /\ touched = Legacy
    /\ applied = [c \in CRs |-> IF c \in Legacy THEN 1 ELSE 0]
    /\ unreported = {}
    /\ writes = 0
    /\ restarts = 0
    /\ apiErrors = 0

Next == (\E c \in CRs : Start(c)) \/ Worker \/ Surroundings

Spec == Init /\ [][Next]_vars

\* The work queue is first in, first out, so no name waits forever; the worker,
\* the watches and the back-off timers do not stop, and a resource somebody
\* watches is gone at some time.  An operand loop and a
\* cleanup that are tried again and again succeed at some time.
Fairness ==
    /\ WF_vars(ListCRs)
    /\ WF_vars(ApiCall)
    /\ WF_vars(OperandCall)
    /\ SF_vars(OperandsReady)
    /\ SF_vars(CleanupDone)
    /\ \A c \in CRs : /\ SF_vars(Start(c))
                      /\ WF_vars(Deliver(c))
                      /\ WF_vars(BackOffExpires(c))
                      /\ WF_vars(ResourceGone(c))

FairSpec == Spec /\ Fairness

-----------------------------------------------------------------------------
(* Safety.                                                                 *)

\* A CR whose resources may exist in the cluster is still stored and carries
\* a finalizer of the operator, so it cannot leave before they are cleaned up
\* (initialize, cleanup).
FinalizerGuards ==
    \A c \in touched : server[c] # Absent /\ HasOurFinalizer(server[c])

\* However CRs come and go, the resources of at most one of them are in the
\* cluster: the multiple-CR check sees a rival before it deploys anything.
SingleOwner == \A c, d \in touched : c = d

\* While the CR tells its users that the operator is paused, the operator does
\* not reconcile operands for it, whatever was toggled since the pass began.
PauseRespected ==
    pc = "operands" => server[req] = Absent \/ ~server[req].status.paused

\* A status that claims the latest spec is deployed is true: the resources of
\* exactly that generation were applied, and no later pass has begun to apply
\* another one (preUpdateStatus, updateStatus, setStatusMultipleCRs).
DeployedReflectsSpec ==
    \A c \in CRs :
        LET cr == server[c] IN
        /\ cr # Absent
        /\ cr.status.phase = "Deployed"
        /\ cr.status.obsGen = cr.gen
        /\ ~cr.status.paused
        /\ cr.spec \in Deploys
        => applied[c] = cr.gen

\* While operands run, every entry of the version cache was made under the
\* spec they run with, across passes, CRs and deletions (clearCacheIfNeeded).
CacheMatchesSpec ==
    pc = "operands" => lastSpec = inst.spec /\ cached \subseteq {inst.spec}

\* There is something to do for a CR: to release or to initialize it, or, unless
\* it is paused or was last found among several, to end a pause, to deploy a new
\* spec or to bring a deployment to its end.
Unfinished(cr) ==
    IF cr.deleting THEN HasOurFinalizer(cr)
    ELSE \/ ~isInitialized(cr)
         \/ /\ ~cr.pause
            /\ cr.status.cond # "multiple"
            /\ \/ cr.status.paused
               \/ cr.status.phase = "Deployed" /\ cr.status.obsGen # cr.gen
               \/ cr.status.phase = "Deploying" /\ cr.status.cond = "reconciling"

\* Another pass is under way or certain to come.
Noticed(c) == c \in queue \cup delayed \cup awaiting \cup {req} \/ lag[c] = "event"

\* Nothing is forgotten: although the predicate drops status changes, stale
\* passes use up events, and conflicts, lost answers and crashes cut passes
\* short, a CR with something to do has a pass to come, unless the last one left
\* it to the removal of an unwatched resource (Reconcile, handleError, cleanup,
\* watchTektonResource).
NothingForgotten ==
    \A c \in CRs :
        server[c] # Absent /\ Unfinished(server[c]) => Noticed(c) \/ c \in unreported

(* What a step may never do.                                               *)

\* Once the status says that the resources are being deleted, it never goes
\* back to deploying, although stale copies of the CR keep being reconciled.
DeletionOneWay ==
    [][\A c \in CRs :
          /\ server[c] # Absent /\ server'[c] # Absent
          /\ server[c].status.phase \in {"Deleting", "Deleted"}
          => server'[c].status.phase \in {"Deleting", "Deleted"}]_vars

(* Liveness.                                                               *)

Live(c) == server[c] # Absent /\ ~server[c].deleting
Alone(c) == \A d \in CRs \ {c} : server[d] = Absent

\* A new spec of a deployed CR is deployed at some time, unless the CR is
\* paused, deleted or joined by another one or waits for an unwatched resource
\* to go: the event of the edit or a retry is never lost.
SpecEditTakesEffect ==
    \A c \in CRs :
        (Live(c) /\ server[c].status.phase = "Deployed"
                 /\ server[c].status.obsGen # server[c].gen)
        ~> \/ ~Live(c) \/ ~Alone(c) \/ server[c].pause
           \/ c \in unreported
           \/ /\ server[c].status.phase = "Deployed"
              /\ server[c].status.obsGen = server[c].gen

\* Removing the annotation of a paused CR gets it reconciled again.
UnpauseTakesEffect ==
    \A c \in CRs :
        (Live(c) /\ server[c].status.paused /\ ~server[c].pause)
        ~> \/ ~Live(c) \/ ~Alone(c) \/ server[c].pause
           \/ ~server[c].status.paused

\* A CR that is being deleted loses the operator's finalizer at some time, or its
\* last cleanup found nothing pending that a watch would report: errors, conflicts
\* and crashes never end the attempts (cleanup, watchResources).
DeletionCompletes ==
    \A c \in CRs :
        (server[c] # Absent /\ server[c].deleting)
        ~> (server[c] = Absent \/ ~HasOurFinalizer(server[c]) \/ c \in unreported)

-----------------------------------------------------------------------------
(* Expectations of comments and docs that the code does not meet.          *)

\* controllers/tektontasks_controller.go:632: a change of finalizers triggers
\* reconciliation after initialization.  So an initialized CR is deployed, if it
\* does not wait for an unwatched resource to go.
InitializationGoesOn ==
    \A c \in CRs :
        (Live(c) /\ server[c].status.phase = "Deploying")
        ~> \/ ~Live(c) \/ ~Alone(c) \/ server[c].pause
           \/ c \in unreported
           \/ server[c].status.phase = "Deployed"
=============================================================================
