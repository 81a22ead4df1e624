--------------------------- MODULE OperatorStartup ---------------------------
(***************************************************************************)
(* The start of the operator: controllers/setup.go, crd_controller.go and  *)
(* finishable/finishable.go, composed with the reconciler.      *)
(*                                                                         *)
(* A process that finds a required CustomResourceDefinition (CRD) missing  *)
(* runs the INIT CONTROLLER first.  It takes names of CRDs off a queue of  *)
(* its own, writes the status of the TektonTasks CR, records whether the   *)
(* CRD exists, and stops itself when all required ones do.  Its queue is   *)
(* drained, then the reconciler starts.                                    *)
(***************************************************************************)
EXTENDS LifecycleRefinement

CONSTANTS
    CRDs,           \* names of CRDs the cluster may have
    Required,       \* RequiredCrds of the operands
    OwnNamespace,   \* the CRs that live in the operator's namespace
    MaxCrdWrites    \* bound: CRDs installed or deleted

ASSUME StartupAssumption ==
    /\ Required \subseteq CRDs
    /\ Required # {}
    /\ OwnNamespace \subseteq CRs
    /\ Absent \notin CRDs
    /\ MaxCrdWrites \in Nat

VARIABLES
    stage,      \* "waiting" for CRDs, "stopping" to wait, or "running"
    crd,        \* the CRDs the API server stores
    crdCopy,    \* the copies of the CRD informer
    crdNews,    \* CRDs with an event on its way
    crds,       \* waitForCrds.crds: what the init controller recorded
    crdQueue,   \* names ready for the init controller
    crdDelayed, \* names waiting out its back-off
    initPc,     \* the API call the init controller makes next
    crdReq,     \* the CRD it looks at, else Absent
    target,     \* the CR whose status it writes, else Absent
    copy,       \* its copy of that CR
    crdWrites   \* what the bound counts

definitions == <<crd, crdCopy, crdNews>>
initWorker  == <<initPc, crdReq, target, copy>>
initKept    == <<stage, crds, crdQueue, crdDelayed>>
startup     == <<definitions, initKept, initWorker, crdWrites>>
allVars     == <<vars, startup>>

CrdStates == {"absent", "exists", "terminating"}

StartupTypeOK ==
    /\ TypeOK
    /\ stage      \in {"waiting", "stopping", "running"}
    /\ crd        \in [CRDs -> CrdStates]
    /\ crdCopy    \in [CRDs -> CrdStates]
    /\ crdNews    \subseteq CRDs
    /\ crds       \in [Required -> BOOLEAN]
    /\ crdQueue   \subseteq CRDs
    /\ crdDelayed \subseteq CRDs
    /\ initPc     \in {"idle", "setConditions", "get"}
    /\ crdReq     \in CRDs \cup {Absent}
    /\ target     \in CRs \cup {Absent}
    /\ copy       \in CR \cup {Absent}
    /\ crdWrites  \in 0..MaxCrdWrites
    /\ (initPc = "idle") <=> (crdReq = Absent)
    /\ (initPc = "setConditions") <=> (target # Absent)
    /\ stage # "running" => pc = "idle"
    /\ stage = "running" => initPc = "idle"

-----------------------------------------------------------------------------
(* The init controller.                                                    *)

\* Mutant: the CRs of all namespaces.
MutantAllNamespaces == {c \in CRs : informer[c] # Absent}

\* setConditions lists the CRs in the operator's namespace, in the cache.
OwnCRs == {c \in OwnNamespace : informer[c] # Absent}

\* The controller has nothing in work.
InitIdle == initPc' = "idle" /\ crdReq' = Absent /\ target' = Absent /\ copy' = Absent

\* Mutant: the error is dropped.
MutantInitForgets == InitIdle /\ current' = {} /\ UNCHANGED initKept

\* An error is retried after a back-off; a queue that shuts down takes nothing.
InitError ==
    /\ InitIdle
    /\ current' = {}
    /\ crdDelayed' = IF stage = "waiting" THEN crdDelayed \cup {crdReq} ELSE crdDelayed
    /\ UNCHANGED <<stage, crds, crdQueue>>

\* Take a CRD off the queue; several CRs are an error, one has its status
\* written before anything else.
StartCrd(k) ==
    /\ stage # "running"
    /\ initPc = "idle"
    /\ k \in crdQueue
    /\ crdQueue' = crdQueue \ {k}
    /\ \/ /\ OwnCRs = {}
          /\ initPc' = "get"
          /\ crdReq' = k
          /\ UNCHANGED <<target, copy, current, crdDelayed>>
       \/ \E c \in OwnCRs :
          /\ OwnCRs = {c}
          /\ initPc' = "setConditions"
          /\ crdReq' = k
          /\ target' = c
          /\ copy' = informer[c]
          /\ current' = IF lag[c] = "none" THEN {c} ELSE {}
          /\ UNCHANGED crdDelayed
       \/ /\ MultipleCRs(OwnCRs)
          /\ crdDelayed' = IF stage = "waiting" THEN crdDelayed \cup {k} ELSE crdDelayed
          /\ UNCHANGED <<initWorker, current>>
    /\ UNCHANGED <<api, events, pc, req, inst, todo, kept, ghosts, counts,
                   definitions, stage, crds, crdWrites>>

\* updateStatus with no results: nothing is missing, so the CR is deployed.
SetConditions(a) ==
    LET cr == [(IF server[target] = Absent THEN copy ELSE server[target])
                  EXCEPT !.status = updateStatus(copy, TRUE)]
    IN  /\ initPc = "setConditions"
        /\ Write(target, cr, a)
        /\ IF a = "OK"
           THEN /\ initPc' = "get"
                /\ target' = Absent
                /\ copy' = Absent
                /\ current' = {}
                /\ UNCHANGED <<crdReq, initKept>>
           ELSE InitError
        /\ UNCHANGED <<events, pc, req, inst, todo, kept, ghosts, definitions, crdWrites>>

\* Mutant: a CRD that is being deleted counts as existing.
MutantTerminatingExists(k) == crdCopy[k] # "absent"

CrdExists(k) == crdCopy[k] = "exists"

\* Record whether the CRD exists, and finish when all required ones do.
RecordCrd ==
    /\ initPc = "get"
    /\ crds' = IF crdReq \in Required THEN [crds EXCEPT ![crdReq] = CrdExists(crdReq)]
                                      ELSE crds
    /\ stage' = IF \A k \in Required : crds'[k] THEN "stopping" ELSE stage
    /\ InitIdle
    /\ UNCHANGED <<vars, definitions, crdQueue, crdDelayed, crdWrites>>

\* Mutant: the stopped controller is not waited for.
MutantNotDrained == TRUE

\* Start of the inner controller returns when what its queue held is done.
Drained == initPc = "idle" /\ crdQueue = {}

\* Mutant: only events to come enqueue.
MutantNoFirstList == {}

\* The first list of the reconciler's watch.
FirstList == {c \in CRs : informer[c] # Absent}

StartReconciler ==
    /\ stage = "stopping"
    /\ Drained
    /\ stage' = "running"
    /\ crdDelayed' = {}
    /\ queue' = FirstList
    /\ UNCHANGED <<api, delayed, awaiting, worker, kept, ghosts, counts,
                   definitions, crds, crdQueue, initWorker, crdWrites>>

-----------------------------------------------------------------------------
(* The surroundings of the init controller.                                *)

\* Every event of a CRD enqueues it, unless the queue has shut down.
DeliverCrd(k) ==
    /\ stage # "running"
    /\ k \in crdNews
    /\ crdCopy' = [crdCopy EXCEPT ![k] = crd[k]]
    /\ crdNews' = crdNews \ {k}
    /\ \/ crdQueue' = crdQueue \cup {k}
       \/ stage = "stopping" /\ crdQueue' = crdQueue
    /\ UNCHANGED <<vars, crd, stage, crds, crdDelayed, initWorker, crdWrites>>

CrdBackOffExpires(k) ==
    /\ stage = "waiting"
    /\ k \in crdDelayed
    /\ crdDelayed' = crdDelayed \ {k}
    /\ crdQueue' = crdQueue \cup {k}
    /\ UNCHANGED <<vars, definitions, stage, crds, initWorker, crdWrites>>

\* The informer of the CRs runs for the list of setConditions, but no
\* controller watches it.
DeliverCR(c) ==
    /\ stage # "running"
    /\ lag[c] # "none"
    /\ informer' = [informer EXCEPT ![c] = server[c]]
    /\ lag' = [lag EXCEPT ![c] = "none"]
    /\ UNCHANGED <<server, events, worker, kept, ghosts, counts, startup>>

\* Somebody installs or deletes a required CRD.
ChangeCrd(k, from, to) ==
    /\ crd[k] = from
    /\ crd' = [crd EXCEPT ![k] = to]
    /\ crdNews' = IF stage = "running" THEN crdNews ELSE crdNews \cup {k}
    /\ UNCHANGED <<vars, crdCopy, initKept, initWorker>>

CrdUser ==
    \E k \in Required :
        \/ /\ crdWrites < MaxCrdWrites
           /\ crdWrites' = crdWrites + 1
           /\ ChangeCrd(k, "absent", "exists") \/ ChangeCrd(k, "exists", "terminating")
        \/ ChangeCrd(k, "terminating", "absent") /\ UNCHANGED crdWrites

\* requiredCrdsExist asks the API server, for the name only.
requiredCrdsExist == \A k \in Required : crd[k] # "absent"

\* CreateAndSetupReconciler: start the reconciler, or the init controller
\* first.  The first list of its watch enqueues every CRD.
CreateAndSetupReconciler ==
    /\ stage' = IF requiredCrdsExist THEN "running" ELSE "waiting"
    /\ queue' = IF requiredCrdsExist THEN {c \in CRs : server[c] # Absent} ELSE {}
    /\ crds' = [k \in Required |-> FALSE]
    /\ crdCopy' = crd
    /\ crdNews' = {}
    /\ crdQueue' = IF requiredCrdsExist THEN {} ELSE {k \in CRDs : crd[k] # "absent"}
    /\ crdDelayed' = {}
    /\ InitIdle

RestartProcess ==
    /\ Reboot
    /\ CreateAndSetupReconciler
    /\ UNCHANGED <<crd, crdWrites>>

\* What the reconciler's module does while the reconciler runs, but a restart.
Operating == (\E c \in CRs : Start(c)) \/ Worker \/ Watches

InitController ==
    \/ \E k \in CRDs : StartCrd(k)
    \/ \E a \in AnswerSet : SetConditions(a)
    \/ RecordCrd
    \/ StartReconciler

\* The operator is installed before the CRDs it requires.
StartupInit ==
    /\ Init
    /\ crd = [k \in CRDs |-> IF k \in Required THEN "absent" ELSE "exists"]
    /\ crdCopy = crd
    /\ crdNews = {}
    /\ crds = [k \in Required |-> FALSE]
    /\ crdDelayed = {}
    /\ initPc = "idle"
    /\ crdReq = Absent
    /\ target = Absent
    /\ copy = Absent
    /\ crdWrites = 0
    /\ stage = "waiting"
    /\ crdQueue = CRDs \ Required

StartupNext ==
    \/ stage = "running" /\ Operating /\ UNCHANGED startup
    \/ User /\ UNCHANGED startup
    \/ InitController
    \/ CrdUser
    \/ RestartProcess
    \/ \E k \in CRDs : DeliverCrd(k) \/ CrdBackOffExpires(k)
    \/ \E c \in CRs : DeliverCR(c)

StartupSpec == StartupInit /\ [][StartupNext]_allVars

\* A step of the reconciler: none is possible before it runs.
Running(A) == stage = "running" /\ A /\ UNCHANGED startup

\* While the reconciler runs, what is fair to it alone is fair to it here; the
\* init controller, its informer and its back-off do not stop either.
StartupFairness ==
    /\ WF_allVars(Running(ListCRs))
    /\ WF_allVars(Running(ApiCall))
    /\ WF_allVars(Running(OperandCall))
    /\ SF_allVars(Running(OperandsReady))
    /\ SF_allVars(Running(CleanupDone))
    /\ \A c \in CRs : /\ SF_allVars(Running(Start(c)))
                      /\ WF_allVars(Running(Deliver(c)))
                      /\ WF_allVars(Running(BackOffExpires(c)))
                      /\ WF_allVars(Running(ResourceGone(c)))
    /\ WF_allVars(\E a \in AnswerSet : SetConditions(a))
    /\ WF_allVars(RecordCrd)
    /\ WF_allVars(StartReconciler)
    /\ \A k \in CRDs : /\ SF_allVars(StartCrd(k))
                       /\ WF_allVars(DeliverCrd(k))
                       /\ WF_allVars(CrdBackOffExpires(k))
    /\ \A c \in CRs : WF_allVars(DeliverCR(c))

StartupFairSpec == StartupSpec /\ StartupFairness

-----------------------------------------------------------------------------
(* Properties.                                                             *)

\* What the init controller has recorded of a required CRD is what the API
\* server stores, or it is about to look again: neither an error of the status
\* write nor a CRD that goes and comes back leaves a stale record
\* (waitForCrds.Reconcile).
RecordTracksCluster ==
    stage = "waiting" =>
        \A k \in Required :
            \/ crds[k] <=> (crd[k] = "exists")
            \/ k \in crdNews \cup crdQueue \cup crdDelayed \cup {crdReq}

\* CRs outside the operator's namespace are guarded by a finalizer even if
\* they are created before the reconciler runs: what the init controller
\* writes does not keep them from being initialized.
OthersGuarded ==
    \A c \in touched \ OwnNamespace : server[c] # Absent /\ HasOurFinalizer(server[c])

\* Those CRs go through the life cycle of CRLifecycle from the start of the
\* operator on, whatever the init controller writes, however often it starts
\* again, and although the reconciler takes over what it left behind
\* (waitForCrds.Reconcile, setConditions, Reconcile).
OthersLifecycle ==
    /\ Lifecycle(CRs \ OwnNamespace)!Init
    /\ [][Lifecycle(CRs \ OwnNamespace)!Next]_(Lifecycle(CRs \ OwnNamespace)!vars)

\* The required CRDs are there, and the operator's namespace holds at most one CR.
Ready ==
    /\ \A k \in Required : crd[k] = "exists"
    /\ ~MultipleCRs({c \in OwnNamespace : server[c] # Absent})

\* As long as that is so the reconciler starts at some time, whatever became
\* of CRDs, status writes and the process before.
ReconcilerStarts == Ready ~> (stage = "running" \/ ~Ready)

\* A CR whose deletion begins while the operator waits is cleaned up when the
\* reconciler has started, as far as removals are reported to it.
DeletionOutlastsWaiting ==
    \A c \in CRs :
        (Ready /\ server[c] # Absent /\ server[c].deleting)
        ~> \/ ~Ready
           \/ server[c] = Absent
           \/ ~HasOurFinalizer(server[c])
           \/ c \in unreported
=============================================================================
